----------------------------- MODULE WorkerSlots -----------------------------
(***************************************************************************)
(* The parallel count of AffinityScore at the grain of its goroutines.     *)
(* Each adds up what the pods of its node say; if that is anything, it     *)
(* takes the next slot of a shared slice with an atomic counter and puts   *)
(* its map there.  Once all have ended, the slots up to the counter are    *)
(* merged one by one.  The merge starts without any inner map: the first   *)
(* one of a topology key is taken over by reference, and the later ones    *)
(* are added to it in place.                                               *)
(*                                                                         *)
(* AffinityScore takes all this for one step per node, in any order; that  *)
(* it may is ImplementsAffinityScore.  PreFilter takes slots for its lists *)
(* in the same way (filtering.go:200-270), but merges them into maps of    *)
(* its own, by value.                                                      *)
(***************************************************************************)
EXTENDS AffinityScore

CONSTANTS Nobody \* contents of an empty slot; key without an inner map

ASSUME NobodyAssumption == Nobody \notin Node

VARIABLES
    pc,     \* n -> "count" -> "take" -> "put" -> "ended"
    taken,  \* n -> its slot, from 1; 0 if it took none
    index,  \* the counter: number of the last slot taken
    slots,  \* topoScores: k -> the node whose map is in slot k
    heap,   \* <<n, k>> -> the inner map that node n made for key k
    next,   \* the slot to merge next
    owner   \* k -> the node whose inner map state.topologyScore has for key k

workerVars == <<pc, taken, index, slots, heap, next, owner>>

\* An inner map from values to weights; as good as nil.
Empty == [v \in {} |-> 0]

EmptySlots == [i \in 1..Cardinality(Node) |-> Nobody]

NoMaps == [ref \in Node \X Key |-> Empty]

NoOwner == [k \in Key |-> Nobody]

WInit ==
    /\ Init
    /\ pc = [n \in Node |-> "ended"]
    /\ taken = [n \in Node |-> 0]
    /\ index = 0 /\ next = 1
    /\ slots = EmptySlots /\ heap = NoMaps /\ owner = NoOwner

-----------------------------------------------------------------------------
(* The goroutines                                                          *)

\* parallelizer.Until starts one for each node with pods to process.
Start ==
    /\ PreScore
    /\ pc' = [n \in Node |-> IF n \in todo' THEN "count" ELSE "ended"]
    /\ UNCHANGED <<taken, index, slots, heap, next, owner>>

\* Mutant of MapOf: the map is made once, outside of the loop over the nodes.
MapShared(n) == CHOOSE m \in Node : TRUE

\* The map a goroutine makes belongs to its node.
MapOf(n) == n

Inner(n, k) == [v \in {pair[2] : pair \in {q \in DOMAIN NodeScores(n) : q[1] = k}} |->
                   NodeScores(n)[<<k, v>>]]

\* A node that found nothing is done; it takes no slot.
Count(n) ==
    /\ phase = "count" /\ pc[n] = "count"
    /\ heap' = [ref \in DOMAIN heap |->
          IF ref[1] = MapOf(n) THEN Inner(n, ref[2]) ELSE heap[ref]]
    /\ IF NodeScores(n) = <<>>
       THEN /\ pc' = [pc EXCEPT ![n] = "ended"]
            /\ todo' = todo \ {n}
       ELSE /\ pc' = [pc EXCEPT ![n] = "take"]
            /\ todo' = todo
    /\ UNCHANGED <<args, incoming, phase, topology, raw, final,
                   taken, index, slots, next, owner>>

\* Mutant of TakeSlot: the counter is read and written in two steps, so others
\* may have moved it in between.
TakeSlotTorn(n) ==
    /\ pc[n] = "take"
    /\ pc' = [pc EXCEPT ![n] = "put"]
    /\ \E seen \in 0..index :
          /\ taken' = [taken EXCEPT ![n] = seen + 1]
          /\ index' = seen + 1
    /\ UNCHANGED <<vars, slots, heap, next, owner>>

\* atomic.AddInt32(&index, 1).
TakeSlot(n) ==
    /\ pc[n] = "take"
    /\ pc' = [pc EXCEPT ![n] = "put"]
    /\ taken' = [taken EXCEPT ![n] = index + 1]
    /\ index' = index + 1
    /\ UNCHANGED <<vars, slots, heap, next, owner>>

PutInSlot(n) ==
    /\ pc[n] = "put"
    /\ pc' = [pc EXCEPT ![n] = "ended"]
    /\ slots' = [slots EXCEPT ![taken[n]] = n]
    /\ UNCHANGED <<vars, taken, index, heap, next, owner>>

-----------------------------------------------------------------------------
(* The merge                                                               *)

\* parallelizer.Until returns once every goroutine has ended.
Joined == phase = "count" /\ \A n \in Node : pc[n] = "ended"

\* What slot i has for key k; ranging over an empty slot is no error.
InSlot(i, k) == IF slots[i] = Nobody THEN Empty ELSE heap[<<MapOf(slots[i]), k>>]

Get(m, v) == IF v \in DOMAIN m THEN m[v] ELSE 0

Plus(m, other) == [v \in DOMAIN m \cup DOMAIN other |-> Get(m, v) + Get(other, v)]

\* state.topologyScore with its references followed.
Contents(owners, maps) ==
    LET there == {k \in Key : owners[k] # Nobody}
    IN  [pair \in UNION {{k} \X DOMAIN maps[<<owners[k], k>>] : k \in there} |->
            maps[<<owners[pair[1]], pair[1]>>][pair[2]]]

\* Mutant of MoreToMerge: the loop ends before the last slot.
MoreBelow == Joined /\ next < index

MoreToMerge == Joined /\ next <= index

\* scoreMap.append for one slot.
MergeSlot ==
    /\ MoreToMerge
    /\ next' = next + 1
    /\ LET filled == {k \in Key : InSlot(next, k) # Empty}
           added  == {k \in filled : owner[k] # Nobody}
       IN  /\ owner' = [k \in Key |-> IF k \in filled \ added THEN MapOf(slots[next]) ELSE owner[k]]
           /\ heap' = [ref \in DOMAIN heap |->
                 IF ref[2] \in added /\ ref[1] = owner[ref[2]]
                 THEN Plus(heap[ref], InSlot(next, ref[2])) ELSE heap[ref]]
    /\ topology' = Contents(owner', heap')
    /\ todo' = todo \ {slots[next]}
    /\ UNCHANGED <<args, incoming, phase, raw, final, pc, taken, index, slots>>

\* Skip is decided by the counter.  Local variables go; topology stays.
EndCount ==
    /\ Joined /\ ~MoreToMerge
    /\ phase' = IF index = 0 THEN "skip" ELSE "score"
    /\ taken' = [n \in Node |-> 0]
    /\ index' = 0 /\ next' = 1
    /\ slots' = EmptySlots /\ heap' = NoMaps /\ owner' = NoOwner
    /\ UNCHANGED <<args, incoming, todo, topology, raw, final, pc>>

WNext ==
    \/ Start
    \/ \E n \in Node : Count(n) \/ TakeSlot(n) \/ PutInSlot(n)
    \/ MergeSlot
    \/ EndCount
    \/ (Score \/ NormalizeScore) /\ UNCHANGED workerVars

WSpec == WInit /\ [][WNext]_<<vars, workerVars>>

-----------------------------------------------------------------------------
(* Properties                                                              *)

\* At the join the slots up to the counter hold one node each, every node that
\* found something is in one of them, and the rest of the slice is empty
\* (scoring.go:217-219, and filtering.go:252-257 alike): the merge reads
\* exactly those, and Skip is decided by their number.
SlotsAreExact ==
    LET finders == {n \in Node : \E k \in Key : Inner(n, k) # Empty}
                       \cap {Where[p] : p \in PodsToProcess}
    IN  Joined => /\ index = Cardinality(finders)
                  /\ {slots[i] : i \in 1..index} = finders
                  /\ \A i \in DOMAIN slots : i > index => slots[i] = Nobody

\* The maps that are still to be merged are as their goroutines left them,
\* though the result is made of maps that are already merged
\* (scoring.go:69-72).
UnmergedIsIntact ==
    \A i \in DOMAIN slots : i >= next /\ slots[i] # Nobody =>
        \A k \in Key : InSlot(i, k) = Inner(slots[i], k)

\* Each turn of the merge has the effect of AffinityScore!CountNode, whatever
\* slots the goroutines got: sums, entries of weight zero, Skip and all.
ImplementsAffinityScore == Spec
=============================================================================
