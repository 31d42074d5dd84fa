------------------------- MODULE NodeAffinityProofs -------------------------
(***************************************************************************)
(* The merged affinity, for every pod, class and cluster: the merge is a   *)
(* calculation, so the invariant only has to say what the last call left   *)
(* behind; the content is in the lemmas of OperatorLemmas.  The plugin     *)
(* only uses the merger, so all of it holds while the plugin runs.  What   *)
(* PreFilter tells the framework in advance is what Filter would say of    *)
(* each node, and the scores are those of the preferences.                 *)
(***************************************************************************)
EXTENDS NodeAffinity, OperatorLemmas, SequenceTheorems

-----------------------------------------------------------------------------
(* The merger: what the last call of MergeNodeAffinity left in nodeAff     *)

Outcome ==
    /\ pod \in Pods /\ class \in Classes \cup {Absent}
    /\ IsResult(nodeAff) => /\ class \in Classes
                            /\ nodeAff = MergeNodeAffinityTerms(pod, class)
    /\ pod.annotated => nodeAff # Nil

LEMMA OutcomeInductive == Spec => []Outcome
<1>1. Init => Outcome
  BY OutcomesAssumption DEF Init, Outcome, IsResult
<1>2. Outcome /\ [Next]_vars => Outcome'
  <2> SUFFICES ASSUME Outcome, [Next]_vars PROVE Outcome'
    OBVIOUS
  <2>1. CASE MergeNodeAffinity
    <3>1. pod' = pod /\ class' = class
      BY <2>1 DEF MergeNodeAffinity
    <3>2. nodeAff' = Merged(MergeNodeAffinityTerms(pod, class))
      BY <2>1 DEF MergeNodeAffinity
    <3>3. CASE ~pod.annotated
      BY <3>1, <3>2, <3>3 DEF Outcome, Merged, IsResult
    <3>4. CASE pod.annotated /\ class = Absent
      BY <3>1, <3>2, <3>4, OutcomesAssumption DEF Outcome, Merged, IsResult
    <3>5. CASE pod.annotated /\ class # Absent
      <4>1. class \in Classes /\ pod \in Pods
        BY <3>5 DEF Outcome
      <4>2. nodeAff' = MergeNodeAffinityTerms(pod, class)
        BY <3>2, <3>5 DEF Merged
      <4>3. nodeAff' # Nil
        BY <4>1, <4>2, OutcomesAssumption
      <4>4. MergeNodeAffinityTerms(pod, class)' = MergeNodeAffinityTerms(pod, class)
        BY <3>1 DEF MergeNodeAffinityTerms, MergeNodeSelectors, Overrides
      <4> QED BY <3>1, <4>1, <4>2, <4>3, <4>4 DEF Outcome
    <3> QED BY <3>3, <3>4, <3>5
  <2>2. CASE MergeInterPodAffinity
    <3>1. pod' = pod /\ class' = class /\ nodeAff' = nodeAff
      BY <2>2 DEF MergeInterPodAffinity
    <3> QED BY <3>1 DEF Outcome, IsResult, MergeNodeAffinityTerms, MergeNodeSelectors, Overrides
  <2>3. CASE MergeTopologySpreadConstraints
    <3>1. pod' = pod /\ class' = class /\ nodeAff' = nodeAff
      BY <2>3 DEF MergeTopologySpreadConstraints
    <3> QED BY <3>1 DEF Outcome, IsResult, MergeNodeAffinityTerms, MergeNodeSelectors, Overrides
  <2>4. CASE UNCHANGED vars
    BY <2>4 DEF Outcome, IsResult, MergeNodeAffinityTerms, MergeNodeSelectors, Overrides, vars
  <2> QED BY <2>1, <2>2, <2>3, <2>4 DEF Next
<1> QED BY <1>1, <1>2, PTL DEF Spec

-----------------------------------------------------------------------------

LEMMA MergedSelector ==
    ASSUME Outcome, IsResult(nodeAff),
           ~HasEmptyTerm(pod.required), ~HasEmptyTerm(class.required), NEW n
    PROVE  SelectorMatches(nodeAff.required, n)
              <=> SelectorMatches(pod.required, n) /\ SelectorMatches(class.required, n)
<1>1. pod \in Pods /\ class \in Classes
  BY DEF Outcome
<1>2. nodeAff.required = MergeNodeSelectors(pod.required, class.required)
  BY DEF Outcome, MergeNodeAffinityTerms
<1>3. (pod.required # Nil /\ class.required # Nil) =>
         MergeNodeSelectors(pod.required, class.required) # Nil
  BY <1>1, OutcomesAssumption
<1>4. /\ pod.required # Nil => {} \notin pod.required
      /\ class.required # Nil => {} \notin class.required
  BY DEF HasEmptyTerm
<1> QED BY <1>2, <1>3, <1>4, CrossProductIsAnd

\* The required node affinity a plugin gets from the merger admits exactly
\* the nodes that pod and class both admit (MergeNodeAffinity, merger.go:208).
THEOREM RequiredSelectorsAreAnded == Spec => []RequiredIsAnd
<1>1. Outcome => RequiredIsAnd
  BY MergedSelector DEF RequiredIsAnd
<1> QED BY <1>1, OutcomeInductive, PTL

\* The merged affinity as a whole, nodeSelector included, never admits a node
\* the class refuses (MergeNodeAffinity, merger.go:188-230).
THEOREM ClassIsNeverLoosened == Spec => []ClassWins
<1>1. Outcome => ClassWins
  <2> SUFFICES ASSUME Outcome, IsResult(nodeAff),
                      ~HasEmptyTerm(pod.required), ~HasEmptyTerm(class.required),
                      NEW n \in Node, RequiredMatches(nodeAff, n, NodeLabels[n])
               PROVE  /\ RequiredMatches(class, n, NodeLabels[n])
                      /\ SelectorMatches(pod.required, n)
                      /\ \A k \in DOMAIN pod.nodeSelector :
                            \/ k \in DOMAIN class.nodeSelector
                            \/ k \in DOMAIN NodeLabels[n]
                               /\ NodeLabels[n][k] = pod.nodeSelector[k]
    BY DEF ClassWins
  <2>1. SelectorMatches(pod.required, n) /\ SelectorMatches(class.required, n)
    BY MergedSelector DEF RequiredMatches
  <2>2. nodeAff.nodeSelector = Overrides(class.nodeSelector, pod.nodeSelector)
    BY DEF Outcome, MergeNodeAffinityTerms
  <2>3. HasLabels(NodeLabels[n], Overrides(class.nodeSelector, pod.nodeSelector))
    BY <2>2 DEF RequiredMatches
  <2> QED BY <2>1, <2>3, LabelsOfBoth DEF RequiredMatches
<1> QED BY <1>1, OutcomeInductive, PTL

-----------------------------------------------------------------------------
(* What the other two calls left behind                                    *)

OtherOutcomes ==
    /\ IsResult(podAff) => class \in Classes /\ podAff = MergedAffinity(pod, class)
    /\ IsResult(spread) => /\ class \in Classes
                           /\ spread = MergeTerms(pod.spread, class.spread, pod.labels)
    /\ pod.annotated => podAff # Nil /\ spread # Nil

LEMMA OtherOutcomesInductive == Spec => [](Outcome /\ OtherOutcomes)
<1>1. Init => OtherOutcomes
  BY OutcomesAssumption DEF Init, OtherOutcomes, IsResult
<1>2. Outcome /\ OtherOutcomes /\ [Next]_vars => OtherOutcomes'
  <2>. SUFFICES ASSUME Outcome, OtherOutcomes, [Next]_vars PROVE OtherOutcomes'
    OBVIOUS
  <2>. pod \in Pods /\ class \in Classes \cup {Absent}
    BY DEF Outcome
  <2>. USE DEF OtherOutcomes, IsResult
  <2>1. CASE MergeNodeAffinity
    BY <2>1 DEF MergeNodeAffinity
  <2>2. CASE MergeInterPodAffinity
    <3>1. UNCHANGED <<pod, class, spread>>
      BY <2>2 DEF MergeInterPodAffinity
    <3>2. podAff' \in {Merged(MergedAffinity(pod, class)), Merged(Error)}
      BY <2>2 DEF MergeInterPodAffinity
    <3>3. CASE ~pod.annotated
      BY <3>1, <3>2, <3>3 DEF Merged
    <3>4. CASE pod.annotated /\ class = Absent
      BY <3>1, <3>2, <3>4, OutcomesAssumption DEF Merged
    <3>5. CASE pod.annotated /\ class # Absent
      <4>1. podAff' \in {MergedAffinity(pod, class), Error} /\ class \in Classes
        BY <3>2, <3>5 DEF Merged
      <4>2. MergedAffinity(pod, class) # Nil /\ Error # Nil
        BY <4>1, OutcomesAssumption
      <4>. QED
        BY <3>1, <4>1, <4>2
    <3>. QED
      BY <3>3, <3>4, <3>5
  <2>3. CASE MergeTopologySpreadConstraints
    <3>1. UNCHANGED <<pod, class, podAff>>
      BY <2>3 DEF MergeTopologySpreadConstraints
    <3>2. spread' = Merged(MergeTerms(pod.spread, class.spread, pod.labels))
      BY <2>3 DEF MergeTopologySpreadConstraints
    <3>3. CASE ~pod.annotated
      BY <3>1, <3>2, <3>3 DEF Merged
    <3>4. CASE pod.annotated /\ class = Absent
      BY <3>1, <3>2, <3>4, OutcomesAssumption DEF Merged
    <3>5. CASE pod.annotated /\ class # Absent
      <4>1. /\ spread' = MergeTerms(pod.spread, class.spread, pod.labels)
            /\ class \in Classes
        BY <3>2, <3>5 DEF Merged
      <4>2. MergeTerms(pod.spread, class.spread, pod.labels) # Nil
        BY <4>1, OutcomesAssumption
      <4>. QED
        BY <3>1, <4>1, <4>2
    <3>. QED
      BY <3>3, <3>4, <3>5
  <2>4. CASE UNCHANGED vars
    BY <2>4 DEF vars
  <2>. QED
    BY <2>1, <2>2, <2>3, <2>4 DEF Next
<1>. QED
  BY <1>1, <1>2, OutcomeInductive, PTL DEF Spec

\* No call of the merger answers "no class" for a pod that names one: an
\* unknown class and a selector that does not parse are errors (merger.go:75-93).
THEOREM ClassIsNeverDropped == Spec => []NeverUnclassed
<1>1. Outcome /\ OtherOutcomes => NeverUnclassed
  BY DEF Outcome, OtherOutcomes, NeverUnclassed
<1>. QED
  BY <1>1, OtherOutcomesInductive, PTL

\* The class's terms sit behind the pod's own, and those without a selector
\* carry the lineage selector or none.
LEMMA DefaultedTerm ==
    ASSUME NEW own, NEW crs, NEW labels, TermList(own), TermList(crs),
           NEW i \in DOMAIN crs, crs[i].selector = Nil
    PROVE  MergeTerms(own, crs, labels)[Len(own) + i].selector = LineageSelector(labels)
<1>. DEFINE d == DefaultSelectors(crs, LineageSelector(labels))
<1>1. /\ own \in Seq({own[j] : j \in DOMAIN own}) /\ crs \in Seq({crs[j] : j \in DOMAIN crs})
      /\ "selector" \in DOMAIN crs[i]
  BY DEF TermList
<1>2. Len(own) \in Nat /\ Len(crs) \in Nat /\ DOMAIN crs = 1..Len(crs)
  BY <1>1
<1>3. d \in Seq({d[j] : j \in DOMAIN crs}) /\ Len(d) = Len(crs)
  <2>1. d = [j \in 1..Len(crs) |-> d[j]]
    BY <1>2 DEF DefaultSelectors
  <2>2. \A j \in 1..Len(crs) : d[j] \in {d[k] : k \in DOMAIN crs}
    BY <1>2
  <2>. HIDE DEF d
  <2>. QED
    BY <1>2, <2>1, <2>2
<1>4. (own \o d)[Len(own) + i] = d[i]
  <2>. HIDE DEF d
  <2>. DEFINE S == {own[j] : j \in DOMAIN own} \cup {d[j] : j \in DOMAIN crs}
  <2>1. own \in Seq(S) /\ d \in Seq(S)
    BY <1>1, <1>3
  <2>. HIDE DEF S
  <2>2. /\ i \in Nat /\ 1 <= i /\ i <= Len(crs)
        /\ Len(own) + i \in 1..(Len(own) + Len(d))
        /\ ~(Len(own) + i <= Len(own)) /\ (Len(own) + i) - Len(own) = i
    BY <1>2, <1>3
  <2>. QED
    BY <2>1, <2>2, ConcatProperties
<1>5. d[i].selector = LineageSelector(labels)
  BY <1>1 DEF DefaultSelectors
<1>. QED
  BY <1>4, <1>5 DEF MergeTerms

\* The lineage selector selects pods that share all lineage labels.
LEMMA LineageSelects ==
    ASSUME NEW labels, Selects(LineageSelector(pod.labels), labels)
    PROVE  SelectorKeys \subseteq DOMAIN pod.labels /\ SameApplication(labels)
<1>1. LineageSelector(pod.labels) # Nil /\ HasLabels(labels, LineageSelector(pod.labels))
  BY DEF Selects
<1>2. /\ SelectorKeys \subseteq DOMAIN pod.labels
      /\ LineageSelector(pod.labels) = [k \in SelectorKeys |-> pod.labels[k]]
  BY <1>1 DEF LineageSelector
<1>. QED
  BY <1>1, <1>2 DEF HasLabels, SameApplication

LEMMA MergedInApplication ==
    ASSUME NEW own, NEW crs, TermList(own), TermList(crs)
    PROVE  InApplication(MergeTerms(own, crs, pod.labels), own, crs)
  BY DefaultedTerm, LineageSelects DEF InApplication

\* A class term without a selector never reaches beyond the application of the
\* pod, and selects nothing for a pod that lacks a lineage label
\* (lineageLabelSelector, merger.go:311-327).
THEOREM LineageIsConfined == Spec => []LineageStaysInApplication
<1>1. Outcome /\ OtherOutcomes => LineageStaysInApplication
  <2>. SUFFICES ASSUME Outcome, OtherOutcomes PROVE LineageStaysInApplication
    OBVIOUS
  <2>1. ASSUME IsResult(podAff)
        PROVE  \A list \in Lists : InApplication(podAff[list], pod[list], class[list])
    <3>1. /\ \A list \in Lists : podAff[list] = MergeTerms(pod[list], class[list], pod.labels)
          /\ class \in Classes /\ pod \in Pods
      BY <2>1 DEF Outcome, OtherOutcomes, MergedAffinity
    <3>. QED
      BY <3>1, TermsAssumption, MergedInApplication
  <2>2. ASSUME IsResult(spread) PROVE InApplication(spread, pod.spread, class.spread)
    <3>1. /\ spread = MergeTerms(pod.spread, class.spread, pod.labels)
          /\ class \in Classes /\ pod \in Pods
      BY <2>2 DEF Outcome, OtherOutcomes
    <3>. QED
      BY <3>1, TermsAssumption, MergedInApplication
  <2>. QED
    BY <2>1, <2>2 DEF LineageStaysInApplication
<1>. QED
  BY <1>1, OtherOutcomesInductive, PTL

-----------------------------------------------------------------------------
(* The plugin on top of the merger                                         *)

\* Every step of the node affinity plugin is a call of the merger or none:
\* the theorems on the merger alone carry over.
THEOREM UsesTheMerger == NASpec => Spec
<1>1. NAInit => Init
  BY DEF NAInit
<1>2. [NANext]_<<vars, naVars>> => [Next]_vars
  BY DEF NANext, PreFilter, PreScore, Score, NormalizeScore, Next, vars, naVars
<1>. QED
  BY <1>1, <1>2, PTL DEF NASpec, Spec

-----------------------------------------------------------------------------
(* What PreFilter says in advance                                          *)

Kept == Merged(MergeNodeAffinityTerms(pod, class))

WordInv ==
    /\ step # "start" => nodeAff = Kept
    /\ names # Nil => step # "start" /\ nodeAff = Nil /\ names = NamesOf(pod.required)
    /\ step = "skip" => nodeAff = Nil /\ NothingRequired
    /\ step = "conflict" => names = {}

\* The lists of names are among the requirements, so a node the terms admit
\* is on the lists of the term that admits it.
LEMMA NamedIfAdmitted ==
    ASSUME NEW s, NEW n, NamesOf(s) # Nil, SelectorMatches(s, n)
    PROVE  n \in NamesOf(s)
<1>1. /\ s # Nil
      /\ \A t \in s : NameLists(t) # {}
      /\ NamesOf(s) = UNION {NodeNames(t) : t \in s}
  BY DEF NamesOf
<1>2. PICK t \in s : TermMatches(t, n)
  BY <1>1 DEF SelectorMatches
<1>3. \A list \in NameLists(t) : n \in list
  BY <1>2 DEF NameLists, TermMatches
<1>4. n \in NodeNames(t)
  BY <1>1, <1>3 DEF NodeNames
<1>. QED
  BY <1>1, <1>4

LEMMA WordInductive == NASpec => []WordInv
<1>1. NAInit => WordInv
  BY DEF NAInit, WordInv
<1>2. WordInv /\ [NANext]_<<vars, naVars>> => WordInv'
  <2>. SUFFICES ASSUME WordInv, [NANext]_<<vars, naVars>> PROVE WordInv'
    OBVIOUS
  <2>1. CASE PreFilter
    <3>1. /\ step = "start" /\ pod' = pod /\ class' = class /\ added' = added
          /\ nodeAff' = Kept
      BY <2>1 DEF PreFilter, MergeNodeAffinity, Kept
    <3>2. Kept' = Kept /\ NothingRequired' = NothingRequired
      BY <3>1 DEF Kept, Merged, NothingRequired
    <3>3. names = Nil
      BY <3>1 DEF WordInv
    <3>4. CASE nodeAff' = Error
      BY <2>1, <3>1, <3>2, <3>3, <3>4 DEF PreFilter, WordInv
    <3>5. CASE nodeAff' # Error /\ nodeAff' = Nil /\ NothingRequired
      BY <2>1, <3>1, <3>2, <3>3, <3>5 DEF PreFilter, WordInv
    <3>6. CASE nodeAff' # Error /\ ~(nodeAff' = Nil /\ NothingRequired)
      <4>1. /\ names' = IF nodeAff' = Nil THEN NamesOf(pod.required) ELSE Nil
            /\ step' = IF names' = {} THEN "conflict" ELSE "filter"
        BY <2>1, <3>6 DEF PreFilter
      <4>. QED
        BY <3>1, <3>2, <4>1 DEF WordInv
    <3>. QED
      BY <3>4, <3>5, <3>6
  <2>2. CASE PreScore
    <3>1. /\ step \in {"filter", "skip"} /\ step' \in {"error", "noScore", "score"}
          /\ pod' = pod /\ class' = class /\ names' = names
          /\ nodeAff' = nodeAff \/ nodeAff' = Kept
      BY <2>2 DEF PreScore, MergeNodeAffinity, Kept, vars
    <3>2. Kept' = Kept /\ nodeAff = Kept
      BY <3>1 DEF Kept, Merged, WordInv
    <3>. QED
      BY <3>1, <3>2 DEF WordInv
  <2>3. CASE Score \/ NormalizeScore
    <3>1. /\ step \in {"score", "scored"} /\ step' \in {"scored", "done"}
          /\ UNCHANGED <<pod, class, nodeAff, names>>
      BY <2>3 DEF Score, NormalizeScore, vars
    <3>. QED
      BY <3>1 DEF WordInv, Kept, Merged
  <2>4. CASE (MergeInterPodAffinity \/ MergeTopologySpreadConstraints) /\ UNCHANGED naVars
    <3>1. UNCHANGED <<pod, class, nodeAff, names, step, added>>
      BY <2>4 DEF MergeInterPodAffinity, MergeTopologySpreadConstraints, naVars
    <3>. QED
      BY <3>1 DEF WordInv, Kept, Merged, NothingRequired
  <2>5. CASE UNCHANGED <<vars, naVars>>
    <3>1. UNCHANGED <<pod, class, nodeAff, names, step, added>>
      BY <2>5 DEF vars, naVars
    <3>. QED
      BY <3>1 DEF WordInv, Kept, Merged, NothingRequired
  <2>. QED
    BY <2>1, <2>2, <2>3, <2>4, <2>5 DEF NANext
<1>. QED
  BY <1>1, <1>2, PTL DEF NASpec

\* A skip, a list of nodes and a conflict are each true of every node that
\* Filter would have been asked about (PreFilter, node_affinity.go:158-229).
THEOREM PreFilterIsTruthful == NASpec => []PreFilterKeepsItsWord
<1>1. WordInv => PreFilterKeepsItsWord
  <2>. SUFFICES ASSUME WordInv PROVE PreFilterKeepsItsWord
    OBVIOUS
  <2>1. ASSUME step = "skip", NEW n \in Node PROVE Admissible(n)
    BY <2>1 DEF WordInv, NothingRequired, Admissible, RequiredMatches, SelectorMatches, HasLabels
  <2>2. ASSUME names # Nil, NEW n \in Node, Admissible(n) PROVE n \in names
    BY <2>2, NamedIfAdmitted DEF WordInv, Admissible, RequiredMatches
  <2>3. ASSUME step = "conflict", NEW n \in Node PROVE ~Admissible(n)
    BY <2>2, <2>3, NilAssumption DEF WordInv
  <2>. QED
    BY <2>1, <2>2, <2>3 DEF PreFilterKeepsItsWord
<1>. QED
  BY <1>1, WordInductive, PTL

-----------------------------------------------------------------------------
(* Scores                                                                  *)

\* The best score is the greatest raw one, but at least 0, and each plugin
\* score is one of the two divisions that DefaultNormalizeScore makes.
ScoreInv ==
    /\ pod \in Pods /\ class \in Classes \cup {Absent} /\ added \in AddedAffinities
    /\ step \in {"score", "scored", "done"} =>
          nodeAff # Error /\ preferred = PreferredTerms(nodeAff)
    /\ step \in {"scored", "done"} =>
          /\ DOMAIN raw \subseteq Node
          /\ \A n \in DOMAIN raw :
                raw[n] = TotalWeight(added.preferred, n) + TotalWeight(preferred, n)
    /\ step = "done" =>
          /\ DOMAIN final = DOMAIN raw
          /\ \A n \in DOMAIN raw :
                final[n] = IF Best = 0 THEN raw[n] ELSE Quotient(MaxNodeScore * raw[n], Best)

LEMMA ScoreInductive == NASpec => []ScoreInv
<1>1. NAInit => ScoreInv
  BY DEF NAInit, Init, ScoreInv
<1>2. ScoreInv /\ [NANext]_<<vars, naVars>> => ScoreInv'
  <2>. SUFFICES ASSUME ScoreInv, [NANext]_<<vars, naVars>> PROVE ScoreInv'
    OBVIOUS
  <2>1. CASE PreFilter
    <3>1. /\ pod' = pod /\ class' = class /\ added' = added
          /\ step' \notin {"score", "scored", "done"}
      BY <2>1 DEF PreFilter, MergeNodeAffinity
    <3>. QED
      BY <3>1 DEF ScoreInv
  <2>2. CASE PreScore
    <3>1. /\ pod' = pod /\ class' = class /\ added' = added
          /\ step' \notin {"scored", "done"}
          /\ step' = "score" => nodeAff' # Error /\ preferred' = PreferredTerms(nodeAff')
      BY <2>2 DEF PreScore, MergeNodeAffinity, vars
    <3>2. \A m : PreferredTerms(m)' = PreferredTerms(m)
      BY <3>1 DEF PreferredTerms
    <3>3. step' = "score" => nodeAff' # Error /\ preferred' = PreferredTerms(nodeAff)'
      BY <3>1 DEF PreferredTerms
    <3>. QED
      BY <3>1, <3>3 DEF ScoreInv
  <2>3. CASE Score
    <3>1. /\ step = "score" /\ step' = "scored"
          /\ UNCHANGED <<pod, class, added, nodeAff, preferred>>
      BY <2>3 DEF Score, vars
    <3>2. PICK nodes \in SUBSET Passing :
             raw' = [n \in nodes |-> TotalWeight(added.preferred, n) + TotalWeight(preferred, n)]
      BY <2>3 DEF Score
    <3>3. Passing \subseteq Node
      BY DEF Passing
    <3>4. DOMAIN raw' \subseteq Node
      BY <3>2, <3>3
    <3>5. PreferredTerms(nodeAff)' = PreferredTerms(nodeAff)
      BY <3>1 DEF PreferredTerms
    <3>. QED
      BY <3>1, <3>2, <3>4, <3>5 DEF ScoreInv
  <2>4. CASE NormalizeScore
    <3>1. /\ step = "scored" /\ step' = "done"
          /\ UNCHANGED <<pod, class, added, nodeAff, preferred, raw>>
      BY <2>4 DEF NormalizeScore, vars
    <3>2. PreferredTerms(nodeAff)' = PreferredTerms(nodeAff) /\ Best' = Best
      BY <3>1 DEF PreferredTerms, Best
    <3>3. final' = IF Best = 0 THEN raw
                   ELSE [n \in DOMAIN raw |-> Quotient(MaxNodeScore * raw[n], Best)]
      BY <2>4 DEF NormalizeScore
    <3>4. DOMAIN final' = DOMAIN raw
      BY <3>3
    <3>5. \A n \in DOMAIN raw :
             final'[n] = IF Best = 0 THEN raw[n] ELSE Quotient(MaxNodeScore * raw[n], Best)
      BY <3>3
    <3>. QED
      BY <3>1, <3>2, <3>4, <3>5 DEF ScoreInv
  <2>5. CASE (MergeInterPodAffinity \/ MergeTopologySpreadConstraints) /\ UNCHANGED naVars
    <3>1. UNCHANGED <<pod, class, nodeAff, naVars>>
      BY <2>5 DEF MergeInterPodAffinity, MergeTopologySpreadConstraints
    <3>. QED
      BY <3>1 DEF ScoreInv, PreferredTerms, Best, naVars
  <2>6. CASE UNCHANGED <<vars, naVars>>
    <3>1. UNCHANGED <<pod, class, nodeAff, naVars>>
      BY <2>6 DEF vars
    <3>. QED
      BY <3>1 DEF ScoreInv, PreferredTerms, Best, naVars
  <2>. QED
    BY <2>1, <2>2, <2>3, <2>4, <2>5, <2>6 DEF NANext
<1>. QED
  BY <1>1, <1>2, PTL DEF NASpec

\* The weights that count for a node, and the positions they stand at.
Weights(terms) == [i \in DOMAIN terms |-> terms[i].weight]
Matched(terms, n) == {i \in DOMAIN terms : TermMatches(terms[i].term, n)}

LEMMA TotalIsSum ==
    ASSUME NEW terms, NEW n, Preferences(terms)
    PROVE  /\ Len(terms) \in Nat /\ DOMAIN terms = 1 .. Len(terms)
           /\ TotalWeight(terms, n) = SumFunctionOnSet(Weights(terms), Matched(terms, n))
           /\ IsFiniteSet(Matched(terms, n)) /\ Matched(terms, n) \subseteq DOMAIN terms
           /\ \A i \in DOMAIN terms : Weights(terms)[i] = terms[i].weight /\ terms[i].weight \in Int
<1>1. Len(terms) \in Nat /\ DOMAIN terms = 1 .. Len(terms)
  BY DEF Preferences
<1>2. IsFiniteSet(DOMAIN terms)
  BY <1>1, FS_Interval
<1>3. Matched(terms, n) \subseteq DOMAIN terms
  BY DEF Matched
<1>4. IsFiniteSet(Matched(terms, n))
  BY <1>2, <1>3, FS_Subset
<1>. QED
  BY <1>1, <1>3, <1>4 DEF TotalWeight, Weights, Matched, Preferences

LEMMA TotalInRange ==
    ASSUME NEW terms, NEW n, Preferences(terms)
    PROVE  /\ TotalWeight(terms, n) \in Int
           /\ (\A i \in DOMAIN terms : terms[i].weight >= 0) => TotalWeight(terms, n) >= 0
<1>. DEFINE f == Weights(terms)
            S == Matched(terms, n)
<1>1. /\ TotalWeight(terms, n) = SumFunctionOnSet(f, S) /\ IsFiniteSet(S)
      /\ \A i \in S : f[i] \in Int /\ f[i] = terms[i].weight /\ i \in DOMAIN terms
  BY TotalIsSum
<1>. HIDE DEF f, S
<1>2. SumFunctionOnSet(f, S) \in Int
  BY <1>1, SumSplits
<1>3. ASSUME \A i \in DOMAIN terms : terms[i].weight >= 0
      PROVE  SumFunctionOnSet(f, S) \in Nat
  <2>1. \A i \in S : f[i] \in Nat
    BY <1>1, <1>3
  <2>. QED
    BY <1>1, <2>1, SumNotNegative
<1>. QED
  BY <1>1, <1>2, <1>3

\* The weight of a concatenation is the weight of both lists.
LEMMA TotalOfBoth ==
    ASSUME NEW p, NEW q, NEW n, Preferences(p), Preferences(q)
    PROVE  /\ Preferences(p \o q)
           /\ TotalWeight(p \o q, n) = TotalWeight(p, n) + TotalWeight(q, n)
<1>. DEFINE c == p \o q
            S == {p[i] : i \in DOMAIN p} \cup {q[i] : i \in DOMAIN q}
            b == [i \in DOMAIN q |-> Len(p) + i]
            A == Matched(p, n)
            B == Matched(q, n)
<1>1. /\ Len(p) \in Nat /\ DOMAIN p = 1 .. Len(p) /\ Len(q) \in Nat /\ DOMAIN q = 1 .. Len(q)
  BY TotalIsSum
<1>2. p \in Seq(S) /\ q \in Seq(S)
  BY DEF Preferences
<1>3. /\ c \in Seq(S) /\ Len(c) = Len(p) + Len(q) /\ DOMAIN c = 1 .. (Len(p) + Len(q))
      /\ \A i \in 1 .. (Len(p) + Len(q)) : c[i] = IF i <= Len(p) THEN p[i] ELSE q[i - Len(p)]
  <2>. HIDE DEF S
  <2>. QED
    BY <1>1, <1>2, ConcatProperties
<1>4. /\ \A i \in DOMAIN p : i \in DOMAIN c /\ c[i] = p[i]
      /\ \A i \in DOMAIN q : b[i] = Len(p) + i /\ b[i] \in DOMAIN c /\ b[i] \notin DOMAIN p /\ c[b[i]] = q[i]
      /\ \A i \in DOMAIN c : i \in DOMAIN p \/ (i - Len(p) \in DOMAIN q /\ i = b[i - Len(p)])
  <2>. HIDE DEF c, S
  <2>. QED
    BY <1>1, <1>3
<1>5. Preferences(c)
  <2>1. \A i \in DOMAIN c : c[i].weight \in Int
    <3>1. /\ \A i \in DOMAIN p : p[i].weight \in Int
          /\ \A i \in DOMAIN q : q[i].weight \in Int
      BY DEF Preferences
    <3>. HIDE DEF c, b
    <3>. QED
      BY <1>4, <3>1
  <2>2. c \in Seq({c[i] : i \in DOMAIN c})
    <3>. HIDE DEF c, S
    <3>. QED
      BY <1>3
  <2>. QED
    BY <2>1, <2>2 DEF Preferences
<1>6. Matched(c, n) = A \cup {b[i] : i \in B}
  <2>. HIDE DEF c, b
  <2>. QED
    BY <1>4 DEF Matched
<1>7. A \cap {b[i] : i \in B} = {}
  <2>. HIDE DEF c, b
  <2>. QED
    BY <1>4 DEF Matched
<1>8. \A i, j \in B : b[i] = b[j] => i = j
  BY <1>1 DEF Matched
<1>9. /\ IsFiniteSet(A) /\ A \subseteq DOMAIN p /\ IsFiniteSet(B) /\ B \subseteq DOMAIN q
      /\ \A i \in A : Weights(p)[i] \in Int
      /\ \A i \in B : Weights(q)[i] \in Int
  BY TotalIsSum
<1>10. /\ \A i \in A : Weights(c)[i] = Weights(p)[i]
       /\ \A i \in B : Weights(c)[b[i]] = Weights(q)[i]
  <2>. HIDE DEF c, b, A, B
  <2>. QED
    BY <1>4, <1>9 DEF Weights
<1>11. IsFiniteSet({b[i] : i \in B})
  <2>. HIDE DEF b, B
  <2>. QED
    BY <1>9, ImageIsFinite
<1>. HIDE DEF c, b, A, B
<1>12. SumFunctionOnSet(Weights(c), A) = SumFunctionOnSet(Weights(p), A)
  BY <1>9, <1>10, SumSame
<1>13. SumFunctionOnSet(Weights(c), {b[i] : i \in B}) = SumFunctionOnSet(Weights(q), B)
  BY <1>8, <1>9, <1>10, SumRenamed
<1>14. \A x \in A \cup {b[i] : i \in B} : Weights(c)[x] \in Int
  BY <1>9, <1>10
<1>15. SumFunctionOnSet(Weights(c), A \cup {b[i] : i \in B})
          = SumFunctionOnSet(Weights(c), A) + SumFunctionOnSet(Weights(c), {b[i] : i \in B})
  BY <1>7, <1>9, <1>11, <1>14, SumOfUnion
<1>16. TotalWeight(c, n) = SumFunctionOnSet(Weights(c), Matched(c, n))
  BY <1>5, TotalIsSum
<1>17. /\ TotalWeight(p, n) = SumFunctionOnSet(Weights(p), A)
       /\ TotalWeight(q, n) = SumFunctionOnSet(Weights(q), B)
  BY TotalIsSum DEF A, B
<1>18. TotalWeight(c, n) = TotalWeight(p, n) + TotalWeight(q, n)
  BY <1>6, <1>12, <1>13, <1>15, <1>16, <1>17
<1>. QED
  BY <1>5, <1>18 DEF c

\* What PreScore holds is the pod's list, with the class's behind it if the pod
\* names one.
LEMMA PreferredIs ==
    ASSUME WordInv, ScoreInv, step \in {"score", "scored", "done"}
    PROVE  /\ Preferences(pod.preferred) /\ Preferences(added.preferred)
           /\ ~pod.annotated => preferred = pod.preferred
           /\ pod.annotated => /\ Preferences(class.preferred)
                               /\ preferred = pod.preferred \o class.preferred
<1>1. nodeAff = Merged(MergeNodeAffinityTerms(pod, class)) /\ nodeAff # Error
  BY DEF WordInv, ScoreInv, Kept
<1>2. preferred = PreferredTerms(nodeAff) /\ pod \in Pods /\ added \in AddedAffinities
  BY DEF ScoreInv
<1>3. CASE ~pod.annotated
  BY <1>1, <1>2, <1>3, PreferredAssumption DEF Merged, PreferredTerms
<1>4. CASE pod.annotated
  <2>1. class \in Classes /\ nodeAff = MergeNodeAffinityTerms(pod, class)
    BY <1>1, <1>4 DEF Merged, ScoreInv
  <2>2. nodeAff # Nil
    BY <1>2, <2>1, OutcomesAssumption
  <2>. QED
    BY <1>2, <1>4, <2>1, <2>2, PreferredAssumption DEF PreferredTerms
<1>. QED
  BY <1>3, <1>4

\* No preference is lost or counted twice on the way through the merger
\* (PreScore and Score, node_affinity.go:272-327; merger.go:219-227).
THEOREM PreferencesAreCountedOnce == NASpec => []EachPreferenceOnce
<1>1. WordInv /\ ScoreInv => EachPreferenceOnce
  <2>. SUFFICES ASSUME WordInv, ScoreInv, step \in {"scored", "done"}, NEW n \in DOMAIN raw
                PROVE  raw[n] = TotalWeight(pod.preferred, n) + TotalWeight(added.preferred, n)
                          + IF pod.annotated THEN TotalWeight(class.preferred, n) ELSE 0
    BY DEF EachPreferenceOnce
  <2>1. raw[n] = TotalWeight(added.preferred, n) + TotalWeight(preferred, n)
    BY DEF ScoreInv
  <2>2. TotalWeight(pod.preferred, n) \in Int /\ TotalWeight(added.preferred, n) \in Int
    BY PreferredIs, TotalInRange
  <2>3. CASE ~pod.annotated
    <3>1. preferred = pod.preferred
      BY <2>3, PreferredIs
    <3>. QED
      BY <2>1, <2>2, <2>3, <3>1
  <2>4. CASE pod.annotated
    <3>1. /\ Preferences(pod.preferred) /\ Preferences(class.preferred)
          /\ preferred = pod.preferred \o class.preferred
      BY <2>4, PreferredIs
    <3>2. /\ TotalWeight(class.preferred, n) \in Int
          /\ TotalWeight(preferred, n)
                = TotalWeight(pod.preferred, n) + TotalWeight(class.preferred, n)
      BY <3>1, TotalInRange, TotalOfBoth
    <3>. QED
      BY <2>1, <2>2, <2>4, <3>2
  <2>. QED
    BY <2>3, <2>4
<1>. QED
  BY <1>1, WordInductive, ScoreInductive, PTL

LEMMA RawIsWhole ==
    ASSUME WordInv, ScoreInv, step \in {"scored", "done"}
    PROVE  /\ Best \in Nat
           /\ \A n \in DOMAIN raw : /\ raw[n] \in Int /\ raw[n] <= Best
                                    /\ NoNegativeWeights => raw[n] >= 0
<1>. DEFINE R == {raw[n] : n \in DOMAIN raw}
<1>1. Preferences(preferred) /\ Preferences(added.preferred)
  BY PreferredIs, TotalOfBoth
<1>2. \A n \in DOMAIN raw : raw[n] = TotalWeight(added.preferred, n) + TotalWeight(preferred, n)
  BY DEF ScoreInv
<1>3. ASSUME NEW n \in DOMAIN raw
      PROVE  raw[n] \in Int /\ (NoNegativeWeights => raw[n] >= 0)
  <2>1. TotalWeight(added.preferred, n) \in Int /\ TotalWeight(preferred, n) \in Int
    BY <1>1, TotalInRange
  <2>2. NoNegativeWeights => /\ TotalWeight(added.preferred, n) >= 0
                             /\ TotalWeight(preferred, n) >= 0
    BY <1>1, TotalInRange DEF NoNegativeWeights
  <2>. QED
    BY <1>2, <2>1, <2>2
<1>4. IsFiniteSet(DOMAIN raw)
  BY PreferredAssumption, FS_Subset DEF ScoreInv
<1>5. IsFiniteSet(R)
  BY <1>4, ImageIsFinite
<1>6. R \subseteq Int /\ \A n \in DOMAIN raw : raw[n] \in R
  BY <1>3
<1>7. Best = Max(R \cup {0})
  BY DEF Best
<1>. HIDE DEF R
<1>8. IsFiniteSet(R \cup {0}) /\ R \cup {0} \subseteq Int /\ R \cup {0} # {}
  BY <1>5, <1>6, FS_AddElement
<1>9. Best \in R \cup {0} /\ \A x \in R \cup {0} : x <= Best
  BY <1>7, <1>8, GreatestOfSet
<1>10. Best \in Int /\ 0 <= Best
  BY <1>8, <1>9
<1>. QED
  BY <1>3, <1>6, <1>9, <1>10

\* The nodes keep their order and their distance, and a score is only out of
\* range if a weight is negative (NormalizeScore, node_affinity.go:329-332).
THEOREM FinalFollowsWeights == NASpec => []ScoresFollowWeights
<1>1. WordInv /\ ScoreInv => ScoresFollowWeights
  <2>. SUFFICES ASSUME WordInv, ScoreInv, step = "done", NEW n \in DOMAIN raw, NEW m \in DOMAIN raw
                PROVE  /\ raw[n] <= raw[m] => final[n] <= final[m]
                       /\ (/\ 0 <= raw[n] /\ raw[n] < raw[m]
                           /\ MaxNodeScore * (raw[m] - raw[n]) >= Best) => final[n] < final[m]
                       /\ NoNegativeWeights => final[n] \in 0..MaxNodeScore
    BY DEF ScoresFollowWeights
  <2>. DEFINE x == raw[n]
              y == raw[m]
  <2>1. /\ Best \in Nat /\ x \in Int /\ y \in Int /\ x <= Best
        /\ NoNegativeWeights => x >= 0
    <3>1. step \in {"scored", "done"}
      OBVIOUS
    <3>2. /\ Best \in Nat
          /\ \A l \in DOMAIN raw : /\ raw[l] \in Int /\ raw[l] <= Best
                                   /\ NoNegativeWeights => raw[l] >= 0
      BY <3>1, RawIsWhole
    <3>3. Best \in Nat /\ x \in Int /\ y \in Int /\ x <= Best
      BY <3>2
    <3>4. NoNegativeWeights => x >= 0
      BY <3>2
    <3>. QED
      BY <3>3, <3>4
  <2>2. /\ final[n] = IF Best = 0 THEN x ELSE Quotient(100 * x, Best)
        /\ final[m] = IF Best = 0 THEN y ELSE Quotient(100 * y, Best)
    BY DEF ScoreInv, MaxNodeScore
  <2>3. CASE Best = 0
    BY <2>1, <2>2, <2>3 DEF MaxNodeScore
  <2>4. CASE Best # 0
    <3>. HIDE DEF x, y
    <3>1. Best \in Nat \ {0} /\ 100 * x \in Int /\ 100 * y \in Int /\ 100 * Best \in Int
      BY <2>1, <2>4
    <3>2. x <= y => final[n] <= final[m]
      <4>1. x <= y => 100 * x <= 100 * y
        BY <2>1
      <4>. QED
        BY <2>2, <2>4, <3>1, <4>1, QuotientIsMonotone
    <3>3. ASSUME 0 <= x, x < y, 100 * (y - x) >= Best PROVE final[n] < final[m]
      <4>. DEFINE q == (100 * x) \div Best
      <4>1. final[n] = q /\ final[m] = (100 * y) \div Best
        BY <2>1, <2>2, <2>4, <3>3 DEF Quotient
      <4>2. q \in Int /\ Best * q <= 100 * x
        BY <3>1, Dividing
      <4>. HIDE DEF q
      <4>3. Best * (q + 1) <= 100 * y /\ q + 1 \in Int
        <5>1. Best * (q + 1) = Best * q + Best /\ Best * q \in Int
          BY <3>1, <4>2
        <5>2. 100 * (y - x) = 100 * y - 100 * x
          BY <2>1
        <5>. QED
          BY <3>1, <3>3, <4>2, <5>1, <5>2
      <4>4. q + 1 <= (100 * y) \div Best
        BY <3>1, <4>3, QuotientIsGreatest
      <4>5. (100 * y) \div Best \in Int
        BY <3>1, Dividing
      <4>. QED
        BY <4>1, <4>2, <4>4, <4>5
    <3>4. ASSUME 0 <= x PROVE final[n] \in 0 .. 100
      <4>1. 0 <= 100 * x /\ 100 * x <= Best * 100 /\ Best * 100 \in Int
        BY <2>1, <3>4
      <4>2. Quotient(100 * x, Best) \in Int /\ Quotient(100 * x, Best) <= Quotient(Best * 100, Best)
        BY <3>1, <4>1, QuotientIsMonotone
      <4>3. Quotient(Best * 100, Best) = 100
        BY <3>1, QuotientOfMultiple
      <4>4. Best * 0 <= 100 * x
        BY <3>1, <4>1
      <4>5. 0 <= (100 * x) \div Best
        BY <3>1, <4>4, QuotientIsGreatest
      <4>6. Quotient(100 * x, Best) = (100 * x) \div Best
        BY <4>1 DEF Quotient
      <4>. QED
        BY <2>2, <2>4, <4>2, <4>3, <4>5, <4>6
    <3>. QED
      BY <2>1, <3>2, <3>3, <3>4 DEF MaxNodeScore, x, y
  <2>. QED
    BY <2>3, <2>4
<1>. QED
  BY <1>1, WordInductive, ScoreInductive, PTL
=============================================================================
