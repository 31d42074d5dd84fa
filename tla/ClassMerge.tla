----------------------------- MODULE ClassMerge -----------------------------
(***************************************************************************)
(* The three calls a plugin makes on the shared merger, for one pod and    *)
(* the SchedulingClass its annotation names, if the informer has it.       *)
(***************************************************************************)
EXTENDS ClassTerms, Naturals

CONSTANTS
    Node,       \* the nodes of the cluster
    NodeLabels, \* n -> labels of node n
    Pods,       \* pod specs to consider
    Classes,    \* SchedulingClass specs to consider
    Absent,     \* the lister does not know the class
    Error,      \* a merge that failed
    NotCalled,  \* a merge that was not asked for yet
    OtherLabels \* label sets of the pods a term may select

\* The lists of InterPodAffinityTerms.
Lists == {"affinity", "anti", "preferredAffinity", "preferredAnti"}

\* The terms of all four that pod p has under class c.
MergedAffinity(p, c) == [list \in Lists |-> MergeTerms(p[list], c[list], p.labels)]

\* No selector is the nil pointer, and no affinity is one of the outcomes.
ASSUME OutcomesAssumption ==
    /\ \A p \in Pods, c \in Classes :
          /\ (p.required # Nil /\ c.required # Nil) =>
                MergeNodeSelectors(p.required, c.required) # Nil
          /\ MergeNodeAffinityTerms(p, c) # Nil
          /\ MergedAffinity(p, c) # Nil
          /\ MergeTerms(p.spread, c.spread, p.labels) # Nil
    /\ Error # Nil /\ NotCalled # Nil

\* Terms come in lists, and each has a selector, which may be nil.
TermList(terms) ==
    /\ terms \in Seq({terms[i] : i \in DOMAIN terms})
    /\ \A i \in DOMAIN terms : "selector" \in DOMAIN terms[i]

ASSUME TermsAssumption ==
    \A s \in Pods \cup Classes : TermList(s.spread) /\ \A list \in Lists : TermList(s[list])

VARIABLES
    pod,        \* the pod to schedule
    class,      \* what the lister has under the name in its annotation
    nodeAff,    \* result of MergeNodeAffinity, or Nil, or Error
    podAff,     \* result of MergeInterPodAffinity
    spread      \* result of MergeTopologySpreadConstraints

vars == <<pod, class, nodeAff, podAff, spread>>

Init ==
    /\ pod \in Pods
    /\ class \in Classes \cup {Absent}
    /\ nodeAff = NotCalled /\ podAff = NotCalled /\ spread = NotCalled

\* Mutant of Merged: a class that is not found counts as none named.
MergedIfFound(result) == IF ~pod.annotated \/ class = Absent THEN Nil ELSE result

\* getSchedulingClass, then the merge.
Merged(result) ==
    IF ~pod.annotated THEN Nil
    ELSE IF class = Absent THEN Error
    ELSE result

MergeNodeAffinity ==
    /\ nodeAff' = Merged(MergeNodeAffinityTerms(pod, class))
    /\ UNCHANGED <<pod, class, podAff, spread>>

\* All four lists are parsed on every call, so one selector that does not
\* parse takes the other lists with it.
MergeInterPodAffinity ==
    /\ podAff' = Merged(
          LET merged == MergedAffinity(pod, class)
          IN  IF \A list \in Lists : Parses(merged[list]) THEN merged ELSE Error)
    /\ UNCHANGED <<pod, class, nodeAff, spread>>

MergeTopologySpreadConstraints ==
    /\ spread' = Merged(MergeTerms(pod.spread, class.spread, pod.labels))
    /\ UNCHANGED <<pod, class, nodeAff, podAff>>

Next == MergeNodeAffinity \/ MergeInterPodAffinity \/ MergeTopologySpreadConstraints

Spec == Init /\ [][Next]_vars

-----------------------------------------------------------------------------
(* Properties                                                              *)

IsResult(r) == r \notin {Nil, Error, NotCalled}

\* A pod that names a class gets the class's terms or an error, never its own
\* terms alone: a class that cannot be read must not loosen the pod.
NeverUnclassed ==
    pod.annotated => nodeAff # Nil /\ podAff # Nil /\ spread # Nil

\* The merged selector admits exactly the nodes both sides admit: the cross
\* product is the AND of two ORs.  (Terms without requirements excepted.)
RequiredIsAnd ==
    (IsResult(nodeAff) /\ ~HasEmptyTerm(pod.required) /\ ~HasEmptyTerm(class.required)) =>
        \A n \in Node : SelectorMatches(nodeAff.required, n)
            <=> SelectorMatches(pod.required, n) /\ SelectorMatches(class.required, n)

\* The whole merged affinity never admits a node the class alone refuses, and
\* a node only the pod refuses is admitted for one reason: the class gives
\* another value to a key of the pod's own nodeSelector.
ClassWins ==
    (IsResult(nodeAff) /\ ~HasEmptyTerm(pod.required) /\ ~HasEmptyTerm(class.required)) =>
        \A n \in Node : RequiredMatches(nodeAff, n, NodeLabels[n]) =>
            /\ RequiredMatches(class, n, NodeLabels[n])
            /\ SelectorMatches(pod.required, n)
            /\ \A k \in DOMAIN pod.nodeSelector :
                  \/ k \in DOMAIN class.nodeSelector
                  \/ k \in DOMAIN NodeLabels[n] /\ NodeLabels[n][k] = pod.nodeSelector[k]

\* "mergeNodeSelectors ANDs two NodeSelectors by computing the cross product
\* of their terms" (merger.go:232).
RequiredIsAlwaysAnd ==
    IsResult(nodeAff) =>
        \A n \in Node : SelectorMatches(nodeAff.required, n)
            => SelectorMatches(pod.required, n) /\ SelectorMatches(class.required, n)

SameApplication(labels) ==
    \A k \in SelectorKeys : k \in DOMAIN labels /\ labels[k] = pod.labels[k]

\* A class term without a selector selects pods of the same application only,
\* and none at all when the pod does not carry every lineage label.
InApplication(merged, own, crs) ==
    \A i \in DOMAIN crs : crs[i].selector = Nil =>
        \A labels \in OtherLabels : Selects(merged[Len(own) + i].selector, labels) =>
            SelectorKeys \subseteq DOMAIN pod.labels /\ SameApplication(labels)

LineageStaysInApplication ==
    /\ IsResult(podAff) =>
          \A list \in Lists : InApplication(podAff[list], pod[list], class[list])
    /\ IsResult(spread) => InApplication(spread, pod.spread, class.spread)
=============================================================================
