---------------------------- MODULE FilterOracle ----------------------------
(***************************************************************************)
(* What the stateful filter plugins promise, without their counts: an      *)
(* oracle that looks at the pods themselves.  Filter answers for every     *)
(* node what a rule says of the request and of where the pods are, on the  *)
(* snapshot as well as on each copy preemption edits.  A copy starts from  *)
(* the snapshot, so nothing of one dry run shows in the next.              *)
(*                                                                         *)
(* After moves the plugin does not follow (Trusted is false) its answers   *)
(* on that copy are anybody's guess, but on that copy only.                *)
(***************************************************************************)
EXTENDS Naturals

CONSTANTS
    Node, Pod, Nowhere,
    Request,           \* what the incoming pod may ask for
    Status, NoAnswer,  \* what Filter answers, and "not asked yet"
    Rule(_, _, _),     \* request, placement, node -> status
    Trusted(_, _, _)   \* request, snapshot, placement -> BOOLEAN

VARIABLES
    request,
    snapshot,  \* pod -> node, as PreFilter sees the cluster
    where,     \* pod -> node, on the working copy
    node,      \* the node the working copy was cloned for
    answers    \* node -> what Filter says of it

vars == <<request, snapshot, where, node, answers>>

Unanswered == [n \in Node |-> NoAnswer]

Exact(w) == [n \in Node |-> Rule(request, w, n)]

Init ==
    /\ request \in Request
    /\ snapshot \in [Pod -> Node \cup {Nowhere}]
    /\ where = snapshot
    /\ node = Nowhere
    /\ answers = Unanswered

PreFilter ==
    /\ UNCHANGED <<request, snapshot, where, node>>
    /\ answers = Unanswered
    /\ answers' = Exact(snapshot)

Clone(n) ==
    /\ node' = n
    /\ where' = snapshot
    /\ UNCHANGED <<request, snapshot>>
    /\ answers # Unanswered
    /\ answers' = Exact(snapshot)

\* AddPod and RemovePod take a pod to or from the node of the copy.
Move(p) ==
    /\ node \in Node
    /\ \/ where[p] = node /\ where' = [where EXCEPT ![p] = Nowhere]
       \/ where[p] = Nowhere /\ where' = [where EXCEPT ![p] = node]
    /\ UNCHANGED <<request, snapshot, node>>
    /\ answers' \in [Node -> Status]
    /\ Trusted(request, snapshot, where') => answers' = Exact(where')

Next ==
    \/ PreFilter
    \/ \E n \in Node : Clone(n)
    \/ \E p \in Pod : Move(p)

Spec == Init /\ [][Next]_vars
=============================================================================
