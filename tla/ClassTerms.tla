----------------------------- MODULE ClassTerms -----------------------------
(***************************************************************************)
(* How pkg/merge/merger.go combines the constraints of a pod with those of *)
(* the SchedulingClass it names.  A requirement on nodes is the set of     *)
(* nodes it admits; a NodeSelector is a set of terms, of which one has to  *)
(* hold, and a term is a set of requirements, which all have to hold.  A   *)
(* LabelSelector is a map of labels, Nil, or Invalid when it does not      *)
(* parse (nothing validates the selectors of a SchedulingClass).           *)
(***************************************************************************)
EXTENDS Sequences

CONSTANTS
    Nil,        \* a nil pointer
    Invalid,    \* a LabelSelector that does not parse
    SelectorKeys  \* --default-label-selector-keys

\* Mutant of Overrides: the pod's value wins.
PodOverrides(cr, pod) ==
    [k \in DOMAIN cr \cup DOMAIN pod |-> IF k \in DOMAIN pod THEN pod[k] ELSE cr[k]]

\* nodeSelector maps and label sets are functions from some keys to values.
Overrides(cr, pod) ==
    [k \in DOMAIN cr \cup DOMAIN pod |-> IF k \in DOMAIN cr THEN cr[k] ELSE pod[k]]

HasLabels(labels, wanted) ==
    \A k \in DOMAIN wanted : k \in DOMAIN labels /\ labels[k] = wanted[k]

-----------------------------------------------------------------------------
(* Node affinity                                                           *)

\* Mutant of MergeNodeSelectors: the terms are appended, which is OR.
AppendNodeSelectors(a, b) ==
    IF a = Nil THEN b
    ELSE IF b = Nil THEN a
    ELSE a \cup b

(***************************************************************************)
(* mergeNodeSelectors: the cross product of the terms, each pair joined    *)
(* into one term.                                                          *)
(***************************************************************************)
MergeNodeSelectors(a, b) ==
    IF a = Nil THEN b
    ELSE IF b = Nil THEN a
    ELSE {at \cup bt : at \in a, bt \in b}

\* k8s.io/component-helpers nodeaffinity: a term without requirements is
\* skipped, it matches no node.
TermMatches(t, n) == t # {} /\ \A r \in t : n \in r

SelectorMatches(s, n) == s = Nil \/ \E t \in s : TermMatches(t, n)

HasEmptyTerm(s) == s # Nil /\ {} \in s

\* GetRequiredNodeAffinity(pod).Match(node).
RequiredMatches(aff, n, labels) ==
    HasLabels(labels, aff.nodeSelector) /\ SelectorMatches(aff.required, n)

MergeNodeAffinityTerms(pod, cr) ==
    [nodeSelector |-> Overrides(cr.nodeSelector, pod.nodeSelector),
     required |-> MergeNodeSelectors(pod.required, cr.required)]

-----------------------------------------------------------------------------
(* Affinity terms and spread constraints                                   *)

\* Mutant of LineageSelector: the keys the pod happens to have.
PartialLineageSelector(podLabels) ==
    IF SelectorKeys = {}
    THEN Nil
    ELSE [k \in SelectorKeys \cap DOMAIN podLabels |-> podLabels[k]]

\* A partial match would give an overly broad selector: all keys or Nil.
LineageSelector(podLabels) ==
    IF SelectorKeys = {} \/ ~(SelectorKeys \subseteq DOMAIN podLabels)
    THEN Nil
    ELSE [k \in SelectorKeys |-> podLabels[k]]

\* Only a nil selector takes the default; the empty one is a selector.
DefaultSelectors(terms, default) ==
    [i \in DOMAIN terms |->
        IF terms[i].selector = Nil THEN [terms[i] EXCEPT !.selector = default] ELSE terms[i]]

\* The class's terms follow the pod's own, whose selectors stay as they are.
MergeTerms(podTerms, crTerms, podLabels) ==
    podTerms \o DefaultSelectors(crTerms, LineageSelector(podLabels))

Parses(terms) == \A i \in DOMAIN terms : terms[i].selector # Invalid

\* LabelSelectorAsSelector: nil selects nothing, the empty map everything.
Selects(selector, labels) == selector \notin {Nil, Invalid} /\ HasLabels(labels, selector)
=============================================================================
