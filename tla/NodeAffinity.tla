---------------------------- MODULE NodeAffinity ----------------------------
(***************************************************************************)
(* pkg/nodeaffinity over the merger of ClassMerge.  PreFilter asks for the *)
(* merged affinity and keeps it for Filter; for a pod without a class it   *)
(* also tells the framework which nodes to try at all, if every term of    *)
(* the pod names its nodes.  PreScore asks again, for the preferences.     *)
(*                                                                         *)
(* One behaviour is the cycle of one pod; the merges that the other        *)
(* plugins ask for happen in between.                                      *)
(***************************************************************************)
EXTENDS ClassMerge, Scores, FiniteSets, FiniteSetsExt, Functions

CONSTANTS
    ByName,          \* requirements that are lists of names: metadata.name In
    AddedAffinities  \* what addedAffinity may be in the arguments

\* What a pod or a class prefers: a list of terms, each with its weight.
Preferences(terms) ==
    /\ terms \in Seq({terms[i] : i \in DOMAIN terms})
    /\ \A i \in DOMAIN terms : terms[i].weight \in Int

ASSUME PreferredAssumption ==
    /\ \A s \in Pods \cup Classes \cup AddedAffinities : Preferences(s.preferred)
    /\ IsFiniteSet(Node)

\* A list of no nodes is not the nil pointer.
ASSUME NilAssumption == Nil # {}

VARIABLES
    added,     \* addedNodeSelector and addedPrefSchedTerms
    step,      \* "start" -> "filter" -> "score" -> "scored" -> "done"; or the
               \* cycle ends in "error" or "conflict", Filter is left out after
               \* "skip", or Score is not called after "noScore"
    state,     \* requiredNodeSelectorAndAffinity
    names,     \* PreFilterResult: nodes to try, or Nil for all
    preferred, \* preferredNodeAffinity
    raw, final \* node -> score, before and after NormalizeScore

naVars == <<added, step, state, names, preferred, raw, final>>

NAInit ==
    /\ Init
    /\ added \in AddedAffinities
    /\ step = "start"
    /\ state = Nil /\ names = Nil
    /\ preferred = <<>> /\ raw = <<>> /\ final = <<>>

-----------------------------------------------------------------------------
(* PreFilter and Filter                                                    *)

NameLists(t) == t \cap ByName

NodeNames(t) == {n \in UNION NameLists(t) : \A list \in NameLists(t) : n \in list}

\* Mutant of NamesOf: a term without names is passed over.
NamesOfNamed(s) ==
    IF s = Nil \/ s = {} THEN Nil
    ELSE UNION {NodeNames(t) : t \in {u \in s : NameLists(u) # {}}}

\* The lists of one term are ANDed, the terms ORed, and a term without a list
\* makes all nodes eligible.
NamesOf(s) ==
    IF s = Nil \/ s = {} \/ \E t \in s : NameLists(t) = {} THEN Nil
    ELSE UNION {NodeNames(t) : t \in s}

NothingRequired ==
    pod.required = Nil /\ DOMAIN pod.nodeSelector = {} /\ added.required = Nil

PreFilter ==
    /\ step = "start"
    /\ MergeNodeAffinity
    /\ IF nodeAff' = Error
       THEN step' = "error" /\ UNCHANGED <<state, names>>
       ELSE IF nodeAff' = Nil /\ NothingRequired
       THEN step' = "skip" /\ UNCHANGED <<state, names>>
       ELSE /\ state' = IF nodeAff' = Nil THEN pod ELSE nodeAff'
            /\ names' = IF nodeAff' = Nil THEN NamesOf(pod.required) ELSE Nil
            /\ step' = IF names' = {} THEN "conflict" ELSE "filter"
    /\ UNCHANGED <<added, preferred, raw, final>>

FilterPasses(n) ==
    SelectorMatches(added.required, n) /\ RequiredMatches(state, n, NodeLabels[n])

\* The nodes this plugin lets through; it kept no state if it was skipped.
Passing == IF state = Nil THEN Node
           ELSE {n \in Node : (names = Nil \/ n \in names) /\ FilterPasses(n)}

-----------------------------------------------------------------------------
(* PreScore, Score and NormalizeScore                                      *)

\* Mutant of PreferredTerms: the merged terms come on top of the pod's own.
PreferredTermsTwice(merged) ==
    IF merged = Nil THEN pod.preferred ELSE pod.preferred \o pod.preferred \o class.preferred

\* The merger appends the class's terms to the pod's, and they replace those.
PreferredTerms(merged) ==
    IF merged = Nil THEN pod.preferred ELSE pod.preferred \o class.preferred

TotalWeight(terms, n) ==
    SumFunctionOnSet([i \in DOMAIN terms |-> terms[i].weight],
                     {i \in DOMAIN terms : TermMatches(terms[i].term, n)})

\* NewPreferredSchedulingTerms: one term that does not parse fails the list.
Unparsable(terms) == \E i \in DOMAIN terms : terms[i].term = Invalid

\* The pod's own terms are parsed before the merge, and the merged ones after.
PreScore ==
    /\ step \in {"filter", "skip"}
    /\ Passing # {}
    /\ IF Unparsable(pod.preferred)
       THEN step' = "error" /\ UNCHANGED <<vars, preferred>>
       ELSE /\ MergeNodeAffinity
            /\ LET terms == PreferredTerms(nodeAff')
               IN  IF nodeAff' = Error \/ Unparsable(terms)
                   THEN step' = "error" /\ UNCHANGED preferred
                   ELSE /\ preferred' = terms
                        /\ step' = IF terms = <<>> /\ added.preferred = <<>>
                                   THEN "noScore" ELSE "score"
    /\ UNCHANGED <<added, state, names, raw, final>>

\* On the nodes that the other plugins admit, too.
Score ==
    /\ step = "score"
    /\ \E nodes \in (SUBSET Passing) \ {{}} :
          raw' = [n \in nodes |-> TotalWeight(added.preferred, n) + TotalWeight(preferred, n)]
    /\ step' = "scored"
    /\ UNCHANGED <<vars, added, state, names, preferred, final>>

Best == Max({raw[n] : n \in DOMAIN raw} \cup {0})

\* Mutant of NormalizeScore: the quotient comes first.
NormalizeScoreTooLate ==
    /\ step = "scored"
    /\ final' = IF Best = 0 THEN raw
                ELSE [n \in DOMAIN raw |-> MaxNodeScore * Quotient(raw[n], Best)]
    /\ step' = "done"
    /\ UNCHANGED <<vars, added, state, names, preferred, raw>>

\* DefaultNormalizeScore: the best is MaxNodeScore if it is positive at all.
NormalizeScore ==
    /\ step = "scored"
    /\ final' = IF Best = 0 THEN raw
                ELSE [n \in DOMAIN raw |-> Quotient(MaxNodeScore * raw[n], Best)]
    /\ step' = "done"
    /\ UNCHANGED <<vars, added, state, names, preferred, raw>>

NANext ==
    \/ PreFilter
    \/ PreScore
    \/ Score
    \/ NormalizeScore
    \/ (MergeInterPodAffinity \/ MergeTopologySpreadConstraints) /\ UNCHANGED naVars

NASpec == NAInit /\ [][NANext]_<<vars, naVars>>

-----------------------------------------------------------------------------
(* Properties                                                              *)

\* What the plugin asks of node n: the pod's affinity, the class's, and what
\* the arguments add.
Admissible(n) ==
    /\ SelectorMatches(added.required, n)
    /\ IF nodeAff = Nil THEN RequiredMatches(pod, n, NodeLabels[n])
                        ELSE RequiredMatches(nodeAff, n, NodeLabels[n])

\* What PreFilter says of the nodes in advance is true of each of them.  A
\* skip: Filter would pass it.  A list: Filter passes no node that is not on
\* it, or the node would be lost.  A conflict, which is final: Filter passes
\* none.  (PreFilter reads names only, Filter the whole of the terms.)
PreFilterKeepsItsWord ==
    /\ step = "skip" => \A n \in Node : Admissible(n)
    /\ step = "conflict" => \A n \in Node : ~Admissible(n)
    /\ step \in {"filter", "score", "scored", "done"} =>
          \A n \in Node : Admissible(n) /\ names # Nil => n \in names

\* A node's raw score counts each preference that the pod, its class and the
\* arguments hold for the node, and each just once: the merged terms hold the
\* pod's own already, at PreScore as at PreFilter.
EachPreferenceOnce ==
    step \in {"scored", "done"} => \A n \in DOMAIN raw :
        raw[n] = TotalWeight(pod.preferred, n) + TotalWeight(added.preferred, n)
                    + IF pod.annotated THEN TotalWeight(class.preferred, n) ELSE 0

NoNegativeWeights ==
    /\ \A i \in DOMAIN preferred : preferred[i].weight >= 0
    /\ \A i \in DOMAIN added.preferred : added.preferred[i].weight >= 0

\* Final scores keep the order of the raw ones, and tell apart raw scores that
\* are a hundredth of the best one apart and not below zero.  They are in
\* range if no weight is negative.
ScoresFollowWeights ==
    step = "done" => \A n, m \in DOMAIN raw :
        /\ raw[n] <= raw[m] => final[n] <= final[m]
        /\ (/\ 0 <= raw[n] /\ raw[n] < raw[m]
            /\ MaxNodeScore * (raw[m] - raw[n]) >= Best) => final[n] < final[m]
        /\ NoNegativeWeights => final[n] \in 0..MaxNodeScore
=============================================================================
