------------------------ MODULE TopologySpreadProofs ------------------------
(***************************************************************************)
(* Proofs about TopologySpread, for every cluster, constraint list and     *)
(* placement.  The argument: a clone edits the pods of one node, so per    *)
(* constraint it moves one count, and two critical paths are enough to     *)
(* know the minimum after any number of such moves.  From there: the       *)
(* verdict of a copy is the recomputed one, evictions never hurt, and the  *)
(* plugin implements FilterOracle.                                         *)
(***************************************************************************)
EXTENDS TopologySpread, FiniteSetTheorems, TLAPS

-----------------------------------------------------------------------------
(* Operators                                                               *)

\* A topology value that is counted is a value, never the missing label.
LEMMA CountedValue ==
    ASSUME NEW c \in Constraint, NEW n \in Node, Counted(c, n)
    PROVE  Label[n][c] \in Value /\ Label[n][c] \in Domain(c)
<1>1. Label[n][c] \in Value
  BY LabelAssumption DEF Counted, AllKeys, Constraint
<1>2. Label[n][c] \in Domain(c)
  BY DEF Domain, CountedNodes
<1>. QED
  BY <1>1, <1>2

\* The domain of a constraint holds topology values only.
LEMMA DomainValue == ASSUME NEW c \in Constraint PROVE Domain(c) \subseteq Value
  BY CountedValue DEF Domain, CountedNodes

\* countPodsMatchSelector returns a natural number, and at most what the
\* updates would count for the same placement.
LEMMA CountsType ==
    ASSUME NEW c \in Constraint, NEW v, NEW w
    PROVE  /\ FreshCount(c, v, w) \in Nat
           /\ Tally(c, v, w) \in Nat
           /\ FreshCount(c, v, w) <= Tally(c, v, w)
           /\ Tally(c, v, w) <= Cardinality(Pod)
           /\ IsFiniteSet(Moved(c, v, w))
<1>1. Moved(c, v, w) \subseteq Pod /\ PodsMatch(c, v, w) \subseteq Moved(c, v, w)
  BY SetsAssumption DEF Moved, PodsMatch
<1>2. IsFiniteSet(Pod)
  BY SetsAssumption
<1>3. IsFiniteSet(Moved(c, v, w)) /\ Cardinality(Moved(c, v, w)) <= Cardinality(Pod)
  BY <1>1, <1>2, FS_Subset
<1>4. /\ IsFiniteSet(PodsMatch(c, v, w))
      /\ Cardinality(PodsMatch(c, v, w)) <= Cardinality(Moved(c, v, w))
  BY <1>1, <1>3, FS_Subset
<1>5. Cardinality(PodsMatch(c, v, w)) \in Nat /\ Cardinality(Moved(c, v, w)) \in Nat
  BY <1>3, <1>4, FS_CardinalityType
<1>. QED
  BY <1>3, <1>4, <1>5 DEF FreshCount, Tally

\* criticalPaths.update keeps the type of a pair of paths.
LEMMA UpdateType ==
    ASSUME NEW P \in CriticalPaths, NEW v \in Value, NEW num \in Int
    PROVE  Update(P, v, num) \in CriticalPaths
  BY DEF Update, InOrder, CriticalPaths, Path

-----------------------------------------------------------------------------
(* Type correctness                                                        *)

LEMMA InitType == Init => TypeOK
<1>. SUFFICES ASSUME Init PROVE TypeOK
  OBVIOUS
<1>1. Unset \in Path
  BY CountAssumption DEF Unset, Path
<1>2. [c \in Constraint |-> NewCriticalPaths] \in [Constraint -> CriticalPaths]
  BY <1>1 DEF NewCriticalPaths, CriticalPaths
<1>. QED
  BY <1>2 DEF Init, TypeOK

\* updateWithPod keeps the types of both maps: it moves a count of a value
\* that PreFilter put in the map.
LEMMA UpdateWithPodType ==
    ASSUME TypeOK, phase = "dryrun", NEW p \in Pod, NEW delta \in Int,
           UpdateWithPod(p, delta)
    PROVE  /\ DOMAIN matchNum' = Constraint
           /\ \A c \in Constraint : matchNum'[c] \in [Domain(c) -> Int]
           /\ paths' \in [Constraint -> CriticalPaths]
<1>. /\ node \in Node
     /\ \A c \in Constraint : matchNum[c] \in [Domain(c) -> Int]
     /\ paths \in [Constraint -> CriticalPaths]
  BY DEF TypeOK
<1>1. DOMAIN matchNum' = Constraint
  BY DEF UpdateWithPod
<1>2. ASSUME NEW c \in Constraint, Touches(c, p, node)
      PROVE  /\ Label[node][c] \in Value /\ Label[node][c] \in Domain(c)
             /\ matchNum[c][Label[node][c]] + delta \in Int
  BY <1>2, CountedValue DEF Touches
<1>3. ASSUME NEW c \in Constraint PROVE matchNum'[c] \in [Domain(c) -> Int]
  BY <1>2 DEF UpdateWithPod
<1>4. ASSUME NEW c \in Constraint PROVE paths'[c] \in CriticalPaths
  BY <1>2, UpdateType DEF UpdateWithPod
<1>5. paths' = [c \in Constraint |-> paths'[c]]
  BY DEF UpdateWithPod
<1>. QED
  BY <1>1, <1>3, <1>4, <1>5

LEMMA NextType == TypeOK /\ [Next]_vars => TypeOK'
<1>. SUFFICES ASSUME TypeOK, [Next]_vars PROVE TypeOK'
  OBVIOUS
<1>. USE DEF TypeOK
<1>1. CASE CountPods
  <2>1. \A c \in Constraint : [v \in Domain(c) |-> FreshCount(c, v, snapshot)]
                                \in [Domain(c) -> Int]
    BY CountsType
  <2>. QED
    BY <1>1, <2>1 DEF CountPods
<1>2. ASSUME NEW c \in Constraint, NEW v \in todo[c], FoldValue(c, v) PROVE TypeOK'
  <2>1. v \in Domain(c) /\ v \in Value /\ matchNum[c][v] \in Int
    BY <1>2, DomainValue DEF FoldValue
  <2>2. Update(paths[c], v, matchNum[c][v]) \in CriticalPaths
    BY <2>1, UpdateType
  <2>3. paths' \in [Constraint -> CriticalPaths]
    BY <1>2, <2>2 DEF FoldValue
  <2>. QED
    BY <1>2, <2>3 DEF FoldValue
<1>3. CASE WriteState
  BY <1>3 DEF WriteState
<1>4. ASSUME NEW n \in Node, Clone(n) PROVE TypeOK'
  BY <1>4 DEF Clone
<1>5. ASSUME NEW p \in Pod, AddPod(p) PROVE TypeOK'
  BY <1>5, UpdateWithPodType DEF AddPod
<1>6. ASSUME NEW p \in Pod, RemovePod(p) PROVE TypeOK'
  BY <1>6, UpdateWithPodType DEF RemovePod
<1>7. CASE UNCHANGED vars
  BY <1>7 DEF vars
<1>. QED
  BY <1>1, <1>2, <1>3, <1>4, <1>5, <1>6, <1>7 DEF Next

\* Every variable keeps its type, and no update adds or drops a topology value.
THEOREM TypeCorrect == Spec => []TypeOK
  BY InitType, NextType, PTL DEF Spec

-----------------------------------------------------------------------------
(* What the counts hold                                                    *)

Delta(c, v, p, n) == IF Touches(c, p, n) /\ Label[n][c] = v THEN 1 ELSE 0

\* Taking a pod off its node moves the tally of one value per constraint, and
\* exactly when updateWithPod touches the constraint.
LEMMA EvictTally ==
    ASSUME NEW w \in [Pod -> Node \cup {Nowhere}], NEW p \in Pod, NEW n \in Node,
           NEW x \in [Pod -> Node \cup {Nowhere}], w[p] = n, x[p] = Nowhere,
           \A q \in Pod : q # p => x[q] = w[q], NEW c \in Constraint, NEW v
    PROVE  Tally(c, v, x) = Tally(c, v, w) - Delta(c, v, p, n)
<1>2. Nowhere \notin NodesIn(c, v)
  BY SetsAssumption DEF NodesIn, CountedNodes
<1>3. Constraints[c].matches \subseteq Pod
  BY ConstraintsAssumption DEF Constraint, SpreadConstraint
<1>4. p \notin Moved(c, v, x)
  BY <1>2 DEF Moved
<1>5. \A q \in Pod : q # p => (q \in Moved(c, v, x) <=> q \in Moved(c, v, w))
  BY DEF Moved
<1>6. Moved(c, v, x) = Moved(c, v, w) \ {p}
  BY <1>3, <1>4, <1>5 DEF Moved
<1>7. p \in Moved(c, v, w) <=> Touches(c, p, n) /\ Label[n][c] = v
  BY DEF Moved, Touches, NodesIn, CountedNodes
<1>8. IsFiniteSet(Moved(c, v, w)) /\ Tally(c, v, w) \in Nat
  BY CountsType
<1>9. Cardinality(Moved(c, v, w) \ {p}) =
        IF p \in Moved(c, v, w) THEN Cardinality(Moved(c, v, w)) - 1
                                ELSE Cardinality(Moved(c, v, w))
  BY <1>8, FS_RemoveElement
<1>. QED
  BY <1>6, <1>7, <1>8, <1>9 DEF Tally, Delta

\* Putting one on a node is the reverse move.
LEMMA AddTally ==
    ASSUME NEW w \in [Pod -> Node \cup {Nowhere}], NEW p \in Pod, NEW n \in Node,
           NEW x \in [Pod -> Node \cup {Nowhere}], w[p] = Nowhere, x[p] = n,
           \A q \in Pod : q # p => x[q] = w[q], NEW c \in Constraint, NEW v
    PROVE  Tally(c, v, x) = Tally(c, v, w) + Delta(c, v, p, n)
<1>2. Tally(c, v, w) = Tally(c, v, x) - Delta(c, v, p, n)
  BY EvictTally
<1>3. Tally(c, v, x) \in Nat /\ Delta(c, v, p, n) \in Nat
  BY CountsType DEF Delta
<1>. QED
  BY <1>2, <1>3

\* One update of the counts, seen per value.
LEMMA UpdateCounts ==
    ASSUME TypeOK, phase = "dryrun", NEW p \in Pod, NEW delta \in Int,
           UpdateWithPod(p, delta), NEW c \in Constraint, NEW v \in Domain(c)
    PROVE  matchNum'[c][v] = IF Touches(c, p, node) /\ Label[node][c] = v
                              THEN matchNum[c][v] + delta ELSE matchNum[c][v]
<1>1. matchNum[c] \in [Domain(c) -> Int] /\ node \in Node
  BY DEF TypeOK
<1>2. CASE Touches(c, p, node)
  <2>1. matchNum'[c] =
          [matchNum[c] EXCEPT ![Label[node][c]] = matchNum[c][Label[node][c]] + delta]
    BY <1>2 DEF UpdateWithPod
  <2>. QED
    BY <1>1, <1>2, <2>1
<1>3. CASE ~Touches(c, p, node)
  BY <1>1, <1>3 DEF UpdateWithPod
<1>. QED
  BY <1>2, <1>3

\* CountsMove with what it needs to be inductive: base still holds the counts
\* of the snapshot, and only a dry run moves pods.
CountsInv ==
    /\ phase # "dryrun" => where = snapshot
    /\ phase = "fold" => \A c \in Constraint : \A v \in Domain(c) :
          matchNum[c][v] = FreshCount(c, v, snapshot)
    /\ phase \in {"ready", "dryrun"} => \A c \in Constraint : \A v \in Domain(c) :
          base.matchNum[c][v] = FreshCount(c, v, snapshot)
    /\ phase = "ready" => matchNum = base.matchNum
    /\ CountsMove

LEMMA InitCounts == Init => CountsInv
  BY DEF Init, CountsInv, CountsMove

\* On the placement PreFilter saw the two tallies cancel.
LEMMA SnapshotCounts ==
    ASSUME NEW c \in Constraint, NEW v, NEW w
    PROVE  FreshCount(c, v, w) = FreshCount(c, v, w) - Tally(c, v, w) + Tally(c, v, w)
  BY CountsType

LEMMA NextCounts == TypeOK /\ CountsInv /\ [Next]_vars => CountsInv'
<1>. SUFFICES ASSUME TypeOK, CountsInv, [Next]_vars PROVE CountsInv'
  OBVIOUS
<1>. USE DEF CountsInv, CountsMove
<1>. /\ snapshot \in [Pod -> Node \cup {Nowhere}]
     /\ where \in [Pod -> Node \cup {Nowhere}]
  BY DEF TypeOK
<1>1. CASE CountPods
  BY <1>1, SnapshotCounts DEF CountPods
<1>2. ASSUME NEW c \in Constraint, NEW v \in todo[c], FoldValue(c, v) PROVE CountsInv'
  BY <1>2 DEF FoldValue
<1>3. CASE WriteState
  BY <1>3 DEF WriteState
<1>4. ASSUME NEW n \in Node, Clone(n) PROVE CountsInv'
  BY <1>4, SnapshotCounts DEF Clone
<1>5. ASSUME NEW p \in Pod, AddPod(p) PROVE CountsInv'
  <2>1. node \in Node /\ phase = "dryrun"
    BY <1>5 DEF AddPod, TypeOK
  <2>2. ASSUME NEW c \in Constraint, NEW v \in Domain(c)
        PROVE  matchNum'[c][v] =
                 FreshCount(c, v, snapshot) - Tally(c, v, snapshot) + Tally(c, v, where')
    <3>1. matchNum'[c][v] = matchNum[c][v] + Delta(c, v, p, node)
      BY <1>5, <2>1, UpdateCounts DEF AddPod, Delta, TypeOK
    <3>2. Tally(c, v, where') = Tally(c, v, where) + Delta(c, v, p, node)
      <4>1. /\ where[p] = Nowhere /\ where' \in [Pod -> Node \cup {Nowhere}]
            /\ where'[p] = node /\ \A q \in Pod : q # p => where'[q] = where[q]
        BY <1>5, <2>1 DEF AddPod
      <4>. QED
        BY <2>1, <4>1, AddTally
    <3>3. /\ Tally(c, v, where) \in Nat /\ Tally(c, v, snapshot) \in Nat
          /\ FreshCount(c, v, snapshot) \in Nat /\ Delta(c, v, p, node) \in Nat
      BY CountsType DEF Delta
    <3>. QED
      BY <2>1, <3>1, <3>2, <3>3
  <2>. QED
    BY <1>5, <2>2 DEF AddPod
<1>6. ASSUME NEW p \in Pod, RemovePod(p) PROVE CountsInv'
  <2>1. node \in Node /\ phase = "dryrun"
    BY <1>6 DEF RemovePod, TypeOK
  <2>2. ASSUME NEW c \in Constraint, NEW v \in Domain(c)
        PROVE  matchNum'[c][v] =
                 FreshCount(c, v, snapshot) - Tally(c, v, snapshot) + Tally(c, v, where')
    <3>1. matchNum'[c][v] = matchNum[c][v] - Delta(c, v, p, node)
      BY <1>6, <2>1, UpdateCounts DEF RemovePod, Delta, TypeOK
    <3>2. Tally(c, v, where') = Tally(c, v, where) - Delta(c, v, p, node)
      <4>1. /\ where[p] = node /\ where' \in [Pod -> Node \cup {Nowhere}]
            /\ where'[p] = Nowhere /\ \A q \in Pod : q # p => where'[q] = where[q]
        BY <1>6 DEF RemovePod
      <4>. QED
        BY <2>1, <4>1, EvictTally
    <3>3. /\ Tally(c, v, where) \in Nat /\ Tally(c, v, snapshot) \in Nat
          /\ FreshCount(c, v, snapshot) \in Nat /\ Delta(c, v, p, node) \in Nat
      BY CountsType DEF Delta
    <3>. QED
      BY <2>1, <3>1, <3>2, <3>3
  <2>. QED
    BY <1>6, <2>2 DEF RemovePod
<1>7. CASE UNCHANGED vars
  BY <1>7 DEF vars
<1>. QED
  BY <1>1, <1>2, <1>3, <1>4, <1>5, <1>6, <1>7 DEF Next

LEMMA CountsInvariant == Spec => []CountsInv
  BY InitCounts, NextCounts, TypeCorrect, PTL DEF Spec

\* A count is what PreFilter counted plus the matching pods the dry run moved
\* in minus those it moved out, terminating pods included.
THEOREM CountsFollowMoves == Spec => []CountsMove
<1>1. CountsInv => CountsMove
  BY DEF CountsInv
<1>. QED
  BY <1>1, CountsInvariant, PTL

-----------------------------------------------------------------------------
(* Critical paths                                                          *)

\* update with a value the paths have not seen, as the loop of
\* calPreFilterState calls it: the two paths then cover one value more.
LEMMA FoldKeeps ==
    ASSUME NEW P \in CriticalPaths, NEW f, NEW F, NEW v, v \notin F,
           \A u \in F \cup {v} : f[u] \in Int /\ f[u] < MaxInt32,
           PathsFollow(P, f, F), Kept(P, f, F)
    PROVE  /\ PathsFollow(Update(P, v, f[v]), f, F \cup {v})
           /\ Kept(Update(P, v, f[v]), f, F \cup {v})
<1>. USE CountAssumption DEF PathsFollow, Kept, Holds, Current, Unset, Update, InOrder,
                             CriticalPaths, Path
<1>1. CASE v = P.first.val
  BY <1>1
<1>2. CASE v # P.first.val /\ v = P.second.val
  BY <1>2
<1>3. CASE v # P.first.val /\ v # P.second.val
  BY <1>3
<1>. QED
  BY <1>1, <1>2, <1>3

\* update with the one value a clone moves, as updateWithPod calls it.
LEMMA MoveKeeps ==
    ASSUME NEW P \in CriticalPaths, NEW D, NEW d \in D,
           NEW f \in [D -> Int], NEW g \in [D -> Int],
           \A u \in D : f[u] < MaxInt32 /\ g[u] < MaxInt32,
           \A u \in D : u # d => g[u] = f[u],
           PathsFollow(P, f, D), KeptBut(P, f, D, d)
    PROVE  /\ PathsFollow(Update(P, d, g[d]), g, D)
           /\ KeptBut(Update(P, d, g[d]), g, D, d)
<1>. USE CountAssumption DEF PathsFollow, KeptBut, Holds, Current, Unset, Update, InOrder,
                             CriticalPaths, Path
<1>0. P.first # Unset
  OBVIOUS
<1>1. CASE d = P.first.val
  BY <1>0, <1>1
<1>2. CASE d # P.first.val /\ d = P.second.val
  BY <1>0, <1>2
<1>3. CASE d # P.first.val /\ d # P.second.val
  BY <1>0, <1>3
<1>. QED
  BY <1>1, <1>2, <1>3

\* The first path holds the minimum, on a clone and before.
LEMMA FirstIsMin ==
    ASSUME NEW P \in CriticalPaths, NEW D, D # {}, NEW f \in [D -> Int], NEW d,
           \A u \in D : f[u] < MaxInt32,
           PathsFollow(P, f, D), KeptBut(P, f, D, d)
    PROVE  IsMin(P.first.num, f)
<1>. USE CountAssumption DEF PathsFollow, KeptBut, Holds, Current, Unset, CriticalPaths, Path
<1>1. P.first # Unset
  OBVIOUS
<1>2. P.first.val \in D /\ f[P.first.val] = P.first.num
  BY <1>1
<1>3. \A u \in D : P.first.num <= f[u]
  BY <1>1
<1>. QED
  BY <1>2, <1>3 DEF IsMin

LEMMA KeptWeakens ==
    ASSUME NEW P, NEW f, NEW D, Kept(P, f, D), NEW d
    PROVE  KeptBut(P, f, D, d)
  BY DEF Kept, KeptBut

\* Counts stay below the value that marks an unset path.
CountsBounded ==
    /\ phase # "prefilter" => \A c \in Constraint : \A v \in Domain(c) :
          matchNum[c][v] \in Int /\ matchNum[c][v] < MaxInt32
    /\ phase \in {"ready", "dryrun"} => \A c \in Constraint : \A v \in Domain(c) :
          base.matchNum[c][v] \in Int /\ base.matchNum[c][v] < MaxInt32

LEMMA CountsSmall == TypeOK /\ CountsInv => CountsBounded
<1>. SUFFICES ASSUME TypeOK, CountsInv PROVE CountsBounded
  OBVIOUS
<1>1. Cardinality(Pod) \in Nat /\ MaxInt32 \in Nat /\ Cardinality(Pod) < MaxInt32
  BY SetsAssumption, CountAssumption, FS_CardinalityType
<1>2. ASSUME phase # "prefilter", NEW c \in Constraint, NEW v \in Domain(c)
      PROVE  matchNum[c][v] \in Int /\ matchNum[c][v] < MaxInt32
  <2>1. matchNum[c][v] = FreshCount(c, v, snapshot) - Tally(c, v, snapshot) + Tally(c, v, where)
    BY <1>2 DEF CountsInv, CountsMove
  <2>2. /\ FreshCount(c, v, snapshot) \in Nat /\ Tally(c, v, snapshot) \in Nat
        /\ Tally(c, v, where) \in Nat /\ Tally(c, v, where) <= Cardinality(Pod)
        /\ FreshCount(c, v, snapshot) <= Tally(c, v, snapshot)
    BY CountsType
  <2>. QED
    BY <1>1, <2>1, <2>2
<1>3. ASSUME phase \in {"ready", "dryrun"}, NEW c \in Constraint, NEW v \in Domain(c)
      PROVE  base.matchNum[c][v] \in Int /\ base.matchNum[c][v] < MaxInt32
  <2>1. base.matchNum[c][v] = FreshCount(c, v, snapshot)
    BY <1>3 DEF CountsInv
  <2>2. /\ FreshCount(c, v, snapshot) \in Nat /\ Tally(c, v, snapshot) \in Nat
        /\ Tally(c, v, snapshot) <= Cardinality(Pod)
        /\ FreshCount(c, v, snapshot) <= Tally(c, v, snapshot)
    BY CountsType
  <2>. QED
    BY <1>1, <2>1, <2>2
<1>. QED
  BY <1>2, <1>3 DEF CountsBounded

LEMMA InitPaths == Init => PathsInv
<1>. SUFFICES ASSUME Init PROVE PathsInv
  OBVIOUS
<1>1. phase = "prefilter" /\ \A c \in Constraint : paths[c] = NewCriticalPaths
  BY DEF Init
<1>. QED
  BY <1>1 DEF PathsInv

\* updateWithPod on a clone moves the count of Label[node][c] and no other.
LEMMA UpdateKeepsPaths ==
    ASSUME TypeOK, PathsInv, CountsBounded, TypeOK', CountsBounded',
           phase = "dryrun", phase' = "dryrun", node' = node,
           NEW p \in Pod, NEW delta \in Int, UpdateWithPod(p, delta), NEW c \in Constraint
    PROVE  /\ PathsFollow(paths'[c], matchNum'[c], Domain(c))
           /\ KeptBut(paths'[c], matchNum'[c], Domain(c), Label[node][c])
<1>. DEFINE d == Label[node][c]
<1>1. /\ PathsFollow(paths[c], matchNum[c], Domain(c))
      /\ KeptBut(paths[c], matchNum[c], Domain(c), d)
  BY DEF PathsInv
<1>2. CASE ~Touches(c, p, node)
  BY <1>1, <1>2 DEF UpdateWithPod
<1>3. CASE Touches(c, p, node)
  <2>1. d \in Domain(c)
    BY <1>3, CountedValue DEF Touches, TypeOK
  <2>2. /\ paths[c] \in CriticalPaths
        /\ matchNum[c] \in [Domain(c) -> Int] /\ matchNum'[c] \in [Domain(c) -> Int]
    BY DEF TypeOK
  <2>3. /\ matchNum'[c] = [matchNum[c] EXCEPT ![d] = matchNum[c][d] + delta]
        /\ paths'[c] = Update(paths[c], d, matchNum[c][d] + delta)
    BY <1>3 DEF UpdateWithPod
  <2>4. /\ paths'[c] = Update(paths[c], d, matchNum'[c][d])
        /\ \A u \in Domain(c) : u # d => matchNum'[c][u] = matchNum[c][u]
    BY <2>1, <2>2, <2>3
  <2>5. \A u \in Domain(c) : matchNum[c][u] < MaxInt32 /\ matchNum'[c][u] < MaxInt32
    BY DEF CountsBounded
  <2>. HIDE DEF d
  <2>. QED
    BY <1>1, <2>1, <2>2, <2>4, <2>5, MoveKeeps DEF d
<1>. QED
  BY <1>2, <1>3

LEMMA NextPaths ==
    ASSUME TypeOK, PathsInv, CountsBounded, TypeOK', CountsBounded', [Next]_vars
    PROVE  PathsInv'
<1>1. CASE CountPods
  <2>1. phase' = "fold" /\ \A c \in Constraint : Domain(c) \ todo'[c] = {}
    BY <1>1 DEF CountPods
  <2>2. \A c \in Constraint : paths'[c] = NewCriticalPaths
    BY <1>1 DEF CountPods, PathsInv
  <2>3. \A c \in Constraint : /\ PathsFollow(NewCriticalPaths, matchNum'[c], {})
                              /\ Kept(NewCriticalPaths, matchNum'[c], {})
    BY CountAssumption DEF PathsFollow, Kept, Current, NewCriticalPaths, Unset
  <2>. QED
    BY <2>1, <2>2, <2>3 DEF PathsInv
<1>2. ASSUME NEW c \in Constraint, NEW v \in todo[c], FoldValue(c, v) PROVE PathsInv'
  <2>1. /\ phase = "fold" /\ phase' = "fold" /\ matchNum' = matchNum
        /\ paths' = [paths EXCEPT ![c] = Update(@, v, matchNum[c][v])]
        /\ todo' = [todo EXCEPT ![c] = @ \ {v}]
    BY <1>2 DEF FoldValue
  <2>2. /\ v \in Domain(c) /\ paths \in [Constraint -> CriticalPaths]
        /\ DOMAIN todo = Constraint /\ \A b \in Constraint : todo[b] \subseteq Domain(b)
    BY DEF TypeOK
  <2>. DEFINE F(b) == Domain(b) \ todo[b]
  <2>3. F(c) \cup {v} = Domain(c) \ todo'[c] /\ v \notin F(c)
    BY <2>1, <2>2
  <2>4. \A b \in Constraint : PathsFollow(paths[b], matchNum[b], F(b))
                                /\ Kept(paths[b], matchNum[b], F(b))
    BY <2>1 DEF PathsInv
  <2>5. \A u \in Domain(c) : matchNum[c][u] \in Int /\ matchNum[c][u] < MaxInt32
    BY <2>1 DEF CountsBounded
  <2>6. /\ PathsFollow(paths'[c], matchNum[c], Domain(c) \ todo'[c])
        /\ Kept(paths'[c], matchNum[c], Domain(c) \ todo'[c])
    <3>1. paths'[c] = Update(paths[c], v, matchNum[c][v]) /\ paths[c] \in CriticalPaths
      BY <2>1, <2>2
    <3>2. \A u \in F(c) \cup {v} : matchNum[c][u] \in Int /\ matchNum[c][u] < MaxInt32
      BY <2>2, <2>5
    <3>3. v \notin F(c) /\ PathsFollow(paths[c], matchNum[c], F(c))
                        /\ Kept(paths[c], matchNum[c], F(c))
      BY <2>3, <2>4
    <3>. HIDE DEF F
    <3>4. /\ PathsFollow(Update(paths[c], v, matchNum[c][v]), matchNum[c], F(c) \cup {v})
          /\ Kept(Update(paths[c], v, matchNum[c][v]), matchNum[c], F(c) \cup {v})
      BY <3>1, <3>2, <3>3, FoldKeeps
    <3>. QED
      BY <3>1, <3>4, <2>3
  <2>7. \A b \in Constraint : b # c => paths'[b] = paths[b] /\ todo'[b] = todo[b]
    BY <2>1, <2>2
  <2>. QED
    BY <2>1, <2>4, <2>6, <2>7 DEF PathsInv
<1>3. CASE WriteState
  BY <1>3 DEF WriteState, PathsInv
<1>4. ASSUME NEW n \in Node, Clone(n) PROVE PathsInv'
  <2>1. \A c \in Constraint : /\ PathsFollow(base.paths[c], base.matchNum[c], Domain(c))
                              /\ Kept(base.paths[c], base.matchNum[c], Domain(c))
    BY <1>4 DEF Clone, PathsInv
  <2>2. \A c \in Constraint :
            KeptBut(base.paths[c], base.matchNum[c], Domain(c), Label[node'][c])
    BY <2>1, KeptWeakens
  <2>. QED
    BY <1>4, <2>1, <2>2 DEF Clone, PathsInv
<1>5. ASSUME NEW p \in Pod, AddPod(p) PROVE PathsInv'
  <2>1. /\ phase = "dryrun" /\ phase' = "dryrun" /\ node' = node /\ base' = base
        /\ UpdateWithPod(p, 1)
    BY <1>5 DEF AddPod
  <2>2. \A c \in Constraint : /\ PathsFollow(paths'[c], matchNum'[c], Domain(c))
                              /\ KeptBut(paths'[c], matchNum'[c], Domain(c), Label[node][c])
    BY <2>1, UpdateKeepsPaths
  <2>. QED
    BY <2>1, <2>2 DEF PathsInv
<1>6. ASSUME NEW p \in Pod, RemovePod(p) PROVE PathsInv'
  <2>1. /\ phase = "dryrun" /\ phase' = "dryrun" /\ node' = node /\ base' = base
        /\ UpdateWithPod(p, -1)
    BY <1>6 DEF RemovePod
  <2>2. \A c \in Constraint : /\ PathsFollow(paths'[c], matchNum'[c], Domain(c))
                              /\ KeptBut(paths'[c], matchNum'[c], Domain(c), Label[node][c])
    BY <2>1, UpdateKeepsPaths
  <2>. QED
    BY <2>1, <2>2 DEF PathsInv
<1>7. CASE UNCHANGED vars
  BY <1>7 DEF vars, PathsInv
<1>. QED
  BY <1>1, <1>2, <1>3, <1>4, <1>5, <1>6, <1>7 DEF Next

LEMMA PathsInvariant == Spec => [](TypeOK /\ CountsBounded /\ PathsInv)
<1>1. TypeOK /\ PathsInv /\ CountsBounded /\ TypeOK' /\ CountsBounded' /\ [Next]_vars
        => PathsInv'
  BY NextPaths
<1>. QED
  BY <1>1, InitPaths, TypeCorrect, CountsInvariant, CountsSmall, PTL DEF Spec

\* Every value on no path counts at least as much as both paths hold, except
\* on a clone for the one value that moves (filtering.go:90-96).
THEOREM TwoPathsSuffice == Spec => []PathsInv
BY PathsInvariant, PTL

\* CriticalPaths[i][0].MatchNum holds the minimum of the counts, on the state
\* PreFilter writes and on every clone of it (filtering.go:45).
THEOREM MinimumIsTracked == Spec => []MinIsTracked
<1>1. TypeOK /\ CountsBounded /\ PathsInv => MinIsTracked
  <2>. SUFFICES ASSUME TypeOK, CountsBounded, PathsInv,
                       phase \in {"ready", "dryrun"}, NEW c \in Constraint, Domain(c) # {}
                PROVE  IsMin(paths[c].first.num, matchNum[c])
    BY DEF MinIsTracked
  <2>1. /\ PathsFollow(paths[c], matchNum[c], Domain(c))
        /\ KeptBut(paths[c], matchNum[c], Domain(c), Label[node][c])
    <3>1. CASE phase = "ready"
      BY <3>1, KeptWeakens DEF PathsInv
    <3>2. CASE phase = "dryrun"
      BY <3>2 DEF PathsInv
    <3>. QED
      BY <3>1, <3>2
  <2>2. /\ paths[c] \in CriticalPaths /\ matchNum[c] \in [Domain(c) -> Int]
        /\ \A u \in Domain(c) : matchNum[c][u] < MaxInt32
    BY DEF TypeOK, CountsBounded
  <2>. QED
    BY <2>1, <2>2, FirstIsMin
<1>. QED
  BY <1>1, PathsInvariant, PTL

-----------------------------------------------------------------------------
(* What Filter answers                                                     *)

Placement == [Pod -> Node \cup {Nowhere}]

\* The invariant every proof below starts from.
SpreadInv == TypeOK /\ CountsInv /\ CountsBounded /\ PathsInv /\ MinIsTracked

LEMMA SpreadInvariant == Spec => []SpreadInv
  BY CountsInvariant, PathsInvariant, MinimumIsTracked, PTL DEF SpreadInv

-----------------------------------------------------------------------------
(* Counts                                                                  *)

\* The pods an update counts and PreFilter does not.
Uncounted(c, v, w) ==
    {p \in Moved(c, v, w) : p \in Terminating \/ Constraints[c].selectsAll}

LEMMA PodsMatchIsMoved ==
    ASSUME NEW c \in Constraint, NEW v, NEW w
    PROVE  PodsMatch(c, v, w) = Moved(c, v, w) \ Uncounted(c, v, w)
  BY DEF PodsMatch, Moved, Uncounted

\* Pods counted alike are never among those.
LEMMA UncountedStay ==
    ASSUME NEW c \in Constraint, NEW v, NEW s \in Placement, NEW w \in Placement,
           \A p \in Pod : w[p] # s[p] => p \in CountedAlike
    PROVE  Uncounted(c, v, w) = Uncounted(c, v, s)
<1>1. Constraints[c].matches \subseteq Pod
  BY ConstraintsAssumption DEF Constraint, SpreadConstraint
<1>2. ASSUME NEW p \in Pod, p \in SameNs, p \in Terminating \/ Constraints[c].selectsAll
      PROVE  w[p] = s[p]
  BY <1>2 DEF CountedAlike
<1>. QED
  BY <1>1, <1>2 DEF Uncounted, Moved

\* For pods counted alike, a recount and the updates come to the same number.
LEMMA RecountFollowsMoves ==
    ASSUME NEW c \in Constraint, NEW v, NEW s \in Placement, NEW w \in Placement,
           \A p \in Pod : w[p] # s[p] => p \in CountedAlike
    PROVE  FreshCount(c, v, w) = FreshCount(c, v, s) - Tally(c, v, s) + Tally(c, v, w)
<1>1. /\ IsFiniteSet(Moved(c, v, s)) /\ Tally(c, v, s) \in Nat
      /\ IsFiniteSet(Moved(c, v, w)) /\ Tally(c, v, w) \in Nat
  BY CountsType
<1>2. Uncounted(c, v, s) \subseteq Moved(c, v, s) /\ Uncounted(c, v, w) \subseteq Moved(c, v, w)
  BY DEF Uncounted
<1>3. IsFiniteSet(Uncounted(c, v, s))
  BY <1>1, <1>2, FS_Subset
<1>4. Cardinality(Uncounted(c, v, s)) \in Nat
  BY <1>3, FS_CardinalityType
<1>5. Uncounted(c, v, w) = Uncounted(c, v, s)
  BY UncountedStay
<1>6. /\ FreshCount(c, v, s) = Tally(c, v, s) - Cardinality(Uncounted(c, v, s))
      /\ FreshCount(c, v, w) = Tally(c, v, w) - Cardinality(Uncounted(c, v, s))
  <2>1. /\ Moved(c, v, s) \cap Uncounted(c, v, s) = Uncounted(c, v, s)
        /\ Moved(c, v, w) \cap Uncounted(c, v, s) = Uncounted(c, v, s)
    BY <1>2, <1>5
  <2>2. Cardinality(Moved(c, v, s) \ Uncounted(c, v, s)) =
          Cardinality(Moved(c, v, s)) - Cardinality(Moved(c, v, s) \cap Uncounted(c, v, s))
    BY <1>1, FS_Difference
  <2>3. Cardinality(Moved(c, v, w) \ Uncounted(c, v, s)) =
          Cardinality(Moved(c, v, w)) - Cardinality(Moved(c, v, w) \cap Uncounted(c, v, s))
    BY <1>1, FS_Difference
  <2>. QED
    BY <1>5, <2>1, <2>2, <2>3, PodsMatchIsMoved DEF FreshCount, Tally
<1>. QED
  BY <1>1, <1>4, <1>6

\* A value outside the domain is on no counted node.
LEMMA NothingOutside ==
    ASSUME NEW c \in Constraint, NEW v, v \notin Domain(c), NEW w
    PROVE  FreshCount(c, v, w) = 0
<1>1. NodesIn(c, v) = {}
  BY DEF NodesIn, Domain
<1>2. PodsMatch(c, v, w) = {}
  BY <1>1 DEF PodsMatch
<1>. QED
  BY <1>2, FS_EmptySet DEF FreshCount

-----------------------------------------------------------------------------
(* The verdict of a copy                                                   *)

Alike == \A p \in Pod : where[p] # snapshot[p] => p \in CountedAlike

Answering == phase \in {"ready", "dryrun"}

LEMMA CountsFresh ==
    ASSUME SpreadInv, Answering, Alike, NEW c \in Constraint, NEW v \in Domain(c)
    PROVE  matchNum[c][v] = FreshCount(c, v, where)
<1>1. snapshot \in Placement /\ where \in Placement
  BY DEF SpreadInv, TypeOK, Placement
<1>2. FreshCount(c, v, where) =
        FreshCount(c, v, snapshot) - Tally(c, v, snapshot) + Tally(c, v, where)
  BY <1>1, RecountFollowsMoves DEF Alike
<1>. QED
  BY <1>2 DEF SpreadInv, CountsInv, CountsMove, Answering

\* The first path is the least of the recounted numbers; without a domain it
\* is still unset.
LEMMA FirstIsFewest ==
    ASSUME SpreadInv, Answering, Alike, NEW c \in Constraint
    PROVE  paths[c].first.num = Fewest(c, where)
<1>. DEFINE nums == {FreshCount(c, v, where) : v \in Domain(c)}
<1>1. CASE Domain(c) = {}
  <2>1. PathsFollow(paths[c], matchNum[c], {})
    BY <1>1 DEF SpreadInv, PathsInv, Answering
  <2>2. paths[c].first.num = MaxInt32
    BY <2>1 DEF PathsFollow, Current, Unset
  <2>. QED
    BY <1>1, <2>2 DEF Fewest
<1>2. CASE Domain(c) # {}
  <2>1. /\ \E v \in Domain(c) : matchNum[c][v] = paths[c].first.num
        /\ \A v \in Domain(c) : paths[c].first.num <= matchNum[c][v]
        /\ DOMAIN matchNum[c] = Domain(c)
    BY <1>2 DEF SpreadInv, MinIsTracked, IsMin, TypeOK, Answering
  <2>2. /\ paths[c].first.num \in nums
        /\ \A k \in nums : paths[c].first.num <= k
    BY <2>1, CountsFresh
  <2>3. \A k \in nums : k \in Nat
    BY CountsType
  <2>4. Fewest(c, where) = CHOOSE m \in nums : \A k \in nums : m <= k
    BY <2>2 DEF Fewest
  <2>. HIDE DEF nums
  <2>5. /\ Fewest(c, where) \in nums
        /\ \A k \in nums : Fewest(c, where) <= k
    BY <2>2, <2>4
  <2>6. /\ Fewest(c, where) <= paths[c].first.num
        /\ paths[c].first.num <= Fewest(c, where)
    BY <2>2, <2>5
  <2>. QED
    BY <2>2, <2>3, <2>5, <2>6
<1>. QED
  BY <1>1, <1>2

\* A node is too skewed by the counts of the copy if and only if it is by a
\* recount.
LEMMA SkewIsFresh ==
    ASSUME SpreadInv, Answering, Alike, NEW c \in Constraint, NEW n \in Node
    PROVE  TooSkewed(c, n) <=> FreshSkewed(c, n, where)
<1>1. DOMAIN matchNum[c] = Domain(c)
  BY DEF SpreadInv, TypeOK, Answering
<1>2. CountAt(c, Label[n][c]) = FreshCount(c, Label[n][c], where)
  BY <1>1, CountsFresh, NothingOutside DEF CountAt
<1>3. GlobalMin(c) = FreshMin(c, where)
  BY <1>1, FirstIsFewest DEF GlobalMin, FreshMin
<1>. QED
  BY <1>2, <1>3 DEF TooSkewed, FreshSkewed

LEMMA StatusIsFresh ==
    ASSUME SpreadInv, Answering, Alike, NEW n \in Node
    PROVE  FilterStatus(n) = FreshStatus(n, where)
<1>1. {c \in Constraint : Label[n][c] = Missing \/ TooSkewed(c, n)} =
        {c \in Constraint : Label[n][c] = Missing \/ FreshSkewed(c, n, where)}
  BY SkewIsFresh
<1>. QED
  BY <1>1 DEF FilterStatus, FreshStatus

\* Filter answers on a copy what it would answer had PreFilter run with the
\* pods where AddPod and RemovePod put them (filtering.go:313-356), for all
\* clusters, constraints and sequences of moves of pods both count alike.
THEOREM IncrementalVerdict == Spec => []VerdictIsFresh
<1>1. SpreadInv => VerdictIsFresh
  BY StatusIsFresh DEF VerdictIsFresh, Alike, Answering
<1>. QED
  BY <1>1, SpreadInvariant, PTL

-----------------------------------------------------------------------------
(* Evictions                                                               *)

\* One move changes the least count by no more than the moved one.
LEMMA MinMovesByOne ==
    ASSUME NEW D, NEW d \in D, NEW f \in [D -> Int], NEW g \in [D -> Int],
           g[d] = f[d] - 1, \A u \in D : u # d => g[u] = f[u],
           NEW m \in Int, NEW k \in Int, IsMin(m, f), IsMin(k, g)
    PROVE  m - 1 <= k /\ k <= m
  BY DEF IsMin

\* The number a constraint compares with maxSkew.
Skew(c, n) == CountAt(c, Label[n][c]) + SelfMatchNum(c) - GlobalMin(c)

LEMMA RemovalLowersSkew ==
    ASSUME NEW D, NEW d \in D, NEW f \in [D -> Int], NEW g \in [D -> Int],
           g[d] = f[d] - 1, \A u \in D : u # d => g[u] = f[u],
           NEW P \in CriticalPaths, NEW Q \in CriticalPaths,
           IsMin(P.first.num, f), IsMin(Q.first.num, g)
    PROVE  g[d] - Q.first.num <= f[d] - P.first.num
<1>1. P.first.num \in Int /\ Q.first.num \in Int
  BY DEF CriticalPaths, Path
<1>2. P.first.num - 1 <= Q.first.num
  BY <1>1, MinMovesByOne
<1>. QED
  BY <1>1, <1>2

\* One removal lowers, or leaves alone, the number of every constraint.
LEMMA UpdateLowersSkew ==
    ASSUME SpreadInv, SpreadInv', phase = "dryrun", phase' = "dryrun", node' = node,
           NEW p \in Pod, UpdateWithPod(p, -1), NEW c \in Constraint
    PROVE  Skew(c, node)' <= Skew(c, node)
<1>. DEFINE d == Label[node][c]
<1>1. /\ node \in Node
      /\ matchNum[c] \in [Domain(c) -> Int] /\ matchNum'[c] \in [Domain(c) -> Int]
      /\ paths[c] \in CriticalPaths /\ paths'[c] \in CriticalPaths
  BY DEF SpreadInv, TypeOK
<1>2. /\ paths[c].first.num \in Int /\ paths'[c].first.num \in Int
      /\ SelfMatchNum(c) \in Nat
  BY <1>1 DEF CriticalPaths, Path, SelfMatchNum
<1>3. CASE ~Touches(c, p, node)
  <2>1. matchNum'[c] = matchNum[c] /\ paths'[c] = paths[c]
    BY <1>3 DEF UpdateWithPod
  <2>2. CountAt(c, d) \in Int /\ GlobalMin(c) \in Int
    BY <1>1, <1>2 DEF CountAt, GlobalMin
  <2>3. Skew(c, node)' = Skew(c, node)
    BY <2>1 DEF Skew, CountAt, GlobalMin, SelfMatchNum
  <2>. QED
    BY <1>2, <2>2, <2>3 DEF Skew
<1>4. CASE Touches(c, p, node)
  <2>1. d \in Domain(c)
    BY <1>1, <1>4, CountedValue DEF Touches
  <2>2. /\ matchNum'[c][d] = matchNum[c][d] - 1
        /\ \A u \in Domain(c) : u # d => matchNum'[c][u] = matchNum[c][u]
    <3>1. TypeOK
      BY DEF SpreadInv
    <3>2. ASSUME NEW v \in Domain(c)
          PROVE  matchNum'[c][v] = IF Touches(c, p, node) /\ Label[node][c] = v
                                   THEN matchNum[c][v] + (-1) ELSE matchNum[c][v]
      <4>1. -1 \in Int
        OBVIOUS
      <4>. QED
        BY <3>1, <4>1, UpdateCounts
    <3>3. matchNum[c][d] \in Int
      BY <1>1, <2>1
    <3>. QED
      BY <1>4, <2>1, <3>2, <3>3
  <2>3. IsMin(paths[c].first.num, matchNum[c]) /\ IsMin(paths'[c].first.num, matchNum'[c])
    BY <2>1 DEF SpreadInv, MinIsTracked
  <2>4. matchNum'[c][d] - paths'[c].first.num <= matchNum[c][d] - paths[c].first.num
    <3>. HIDE DEF d
    <3>. QED
      BY <1>1, <2>1, <2>2, <2>3, RemovalLowersSkew
  <2>5. DOMAIN matchNum[c] = Domain(c) /\ DOMAIN matchNum'[c] = Domain(c)
    BY <1>1
  <2>6. /\ CountAt(c, d) = matchNum[c][d]
        /\ CountAt(c, d)' = matchNum'[c][d]
    BY <2>1, <2>5 DEF CountAt
  <2>7. \/ GlobalMin(c) = 0 /\ GlobalMin(c)' = 0
        \/ GlobalMin(c) = paths[c].first.num /\ GlobalMin(c)' = paths'[c].first.num
    BY <2>5 DEF GlobalMin
  <2>8. matchNum[c][d] \in Int /\ matchNum'[c][d] \in Int
    BY <1>1, <2>1
  <2>9. /\ Skew(c, node) = matchNum[c][d] + SelfMatchNum(c) - GlobalMin(c)
        /\ Skew(c, node)' = matchNum'[c][d] + SelfMatchNum(c) - GlobalMin(c)'
    BY <2>6 DEF Skew, SelfMatchNum
  <2>. QED
    BY <1>2, <2>2, <2>4, <2>7, <2>8, <2>9
<1>. QED
  BY <1>3, <1>4

\* Putting a pod back is the reverse.
LEMMA UpdateRaisesSkew ==
    ASSUME SpreadInv, SpreadInv', phase = "dryrun", phase' = "dryrun", node' = node,
           NEW p \in Pod, UpdateWithPod(p, 1), NEW c \in Constraint
    PROVE  Skew(c, node) <= Skew(c, node)'
<1>. DEFINE d == Label[node][c]
<1>1. /\ node \in Node
      /\ matchNum[c] \in [Domain(c) -> Int] /\ matchNum'[c] \in [Domain(c) -> Int]
      /\ paths[c] \in CriticalPaths /\ paths'[c] \in CriticalPaths
  BY DEF SpreadInv, TypeOK
<1>2. /\ paths[c].first.num \in Int /\ paths'[c].first.num \in Int
      /\ SelfMatchNum(c) \in Nat
  BY <1>1 DEF CriticalPaths, Path, SelfMatchNum
<1>3. CASE ~Touches(c, p, node)
  <2>1. matchNum'[c] = matchNum[c] /\ paths'[c] = paths[c]
    BY <1>3 DEF UpdateWithPod
  <2>2. CountAt(c, d) \in Int /\ GlobalMin(c) \in Int
    BY <1>1, <1>2 DEF CountAt, GlobalMin
  <2>3. Skew(c, node)' = Skew(c, node)
    BY <2>1 DEF Skew, CountAt, GlobalMin, SelfMatchNum
  <2>. QED
    BY <1>2, <2>2, <2>3 DEF Skew
<1>4. CASE Touches(c, p, node)
  <2>1. d \in Domain(c)
    BY <1>1, <1>4, CountedValue DEF Touches
  <2>2. /\ matchNum[c][d] \in Int /\ matchNum'[c][d] \in Int
        /\ matchNum[c][d] = matchNum'[c][d] - 1
        /\ \A u \in Domain(c) : u # d => matchNum[c][u] = matchNum'[c][u]
    <3>1. TypeOK
      BY DEF SpreadInv
    <3>2. \A v \in Domain(c) :
              matchNum'[c][v] = IF Touches(c, p, node) /\ Label[node][c] = v
                                THEN matchNum[c][v] + 1 ELSE matchNum[c][v]
      BY <3>1, UpdateCounts
    <3>3. matchNum[c][d] \in Int /\ matchNum'[c][d] \in Int
      BY <1>1, <2>1
    <3>. QED
      BY <1>4, <2>1, <3>2, <3>3
  <2>3. IsMin(paths[c].first.num, matchNum[c]) /\ IsMin(paths'[c].first.num, matchNum'[c])
    BY <2>1 DEF SpreadInv, MinIsTracked
  <2>4. matchNum[c][d] - paths[c].first.num <= matchNum'[c][d] - paths'[c].first.num
    <3>. HIDE DEF d
    <3>. QED
      BY <1>1, <2>1, <2>2, <2>3, RemovalLowersSkew
  <2>5. DOMAIN matchNum[c] = Domain(c) /\ DOMAIN matchNum'[c] = Domain(c)
    BY <1>1
  <2>6. CountAt(c, d) = matchNum[c][d] /\ CountAt(c, d)' = matchNum'[c][d]
    BY <2>1, <2>5 DEF CountAt
  <2>7. \/ GlobalMin(c) = 0 /\ GlobalMin(c)' = 0
        \/ GlobalMin(c) = paths[c].first.num /\ GlobalMin(c)' = paths'[c].first.num
    BY <2>5 DEF GlobalMin
  <2>8. /\ Skew(c, node) = matchNum[c][d] + SelfMatchNum(c) - GlobalMin(c)
        /\ Skew(c, node)' = matchNum'[c][d] + SelfMatchNum(c) - GlobalMin(c)'
    BY <2>6 DEF Skew, SelfMatchNum
  <2>. QED
    BY <1>2, <2>2, <2>4, <2>7, <2>8
<1>. QED
  BY <1>3, <1>4

\* Filter passes a node where every topology key is present and no constraint
\* is too skewed.
LEMMA SuccessIs ==
    ASSUME NEW n
    PROVE  FilterStatus(n) = "Success" <=>
             \A c \in Constraint : Label[n][c] # Missing /\ ~(Skew(c, n) > Constraints[c].maxSkew)
<1>. DEFINE Failing == {c \in Constraint : Label[n][c] = Missing \/ TooSkewed(c, n)}
<1>1. FilterStatus(n) = "Success" <=> Failing = {}
  <2>1. FilterStatus(n) = StatusOf(n, Failing)
    BY DEF FilterStatus
  <2>. HIDE DEF Failing
  <2>. QED
    BY <2>1 DEF StatusOf
<1>2. \A c \in Constraint : TooSkewed(c, n) <=> Skew(c, n) > Constraints[c].maxSkew
  BY DEF TooSkewed, Skew
<1>. QED
  BY <1>1, <1>2

LEMMA SkewType ==
    ASSUME SpreadInv, phase # "prefilter", NEW c \in Constraint, NEW n
    PROVE  Skew(c, n) \in Int /\ Constraints[c].maxSkew \in Int
<1>1. matchNum[c] \in [Domain(c) -> Int] /\ paths[c] \in CriticalPaths
  BY DEF SpreadInv, TypeOK
<1>2. CountAt(c, Label[n][c]) \in Int /\ GlobalMin(c) \in Int /\ SelfMatchNum(c) \in Int
  BY <1>1 DEF CountAt, GlobalMin, SelfMatchNum, CriticalPaths, Path
<1>3. Constraints[c].maxSkew \in Int
  BY ConstraintsAssumption DEF Constraint, SpreadConstraint
<1>. QED
  BY <1>2, <1>3 DEF Skew

NodeFits ==
    \A c \in Constraint : Label[node][c] # Missing /\ ~(Skew(c, node) > Constraints[c].maxSkew)

LEMMA SuccessOnNode == FilterStatus(node) = "Success" <=> NodeFits
  BY SuccessIs DEF NodeFits

LEMMA SuccessOnNodeNext == FilterStatus(node)' = "Success" <=> NodeFits'
<1>1. (FilterStatus(node) = "Success" <=> NodeFits)'
  BY SuccessOnNode, PTL
<1>. QED
  BY <1>1

LEMMA FitFollows == SpreadInv /\ SpreadInv' => FitFollowsPods
<1>. SUFFICES ASSUME SpreadInv, SpreadInv', NEW p \in Pod
              PROVE  /\ RemovePod(p) => (NodeFits => NodeFits')
                     /\ AddPod(p) => (NodeFits' => NodeFits)
  BY SuccessOnNode, SuccessOnNodeNext DEF FitFollowsPods
<1>1. ASSUME phase = "dryrun", phase' = "dryrun", node' = node, NEW c \in Constraint
      PROVE  /\ Skew(c, node) \in Int /\ Skew(c, node)' \in Int
             /\ Constraints[c].maxSkew \in Int
  <2>1. Skew(c, node) \in Int /\ Constraints[c].maxSkew \in Int
    BY <1>1, SkewType
  <2>2. /\ matchNum'[c] \in [Domain(c) -> Int] /\ paths'[c] \in CriticalPaths
    BY <1>1 DEF SpreadInv, TypeOK
  <2>3. Skew(c, node)' \in Int
    BY <2>2 DEF Skew, CountAt, GlobalMin, SelfMatchNum, CriticalPaths, Path
  <2>. QED
    BY <2>1, <2>3
<1>2. ASSUME RemovePod(p), NodeFits PROVE NodeFits'
  <2>1. /\ phase = "dryrun" /\ phase' = "dryrun" /\ node' = node /\ UpdateWithPod(p, -1)
    BY <1>2 DEF RemovePod
  <2>2. \A c \in Constraint : Skew(c, node)' <= Skew(c, node)
    BY <2>1, UpdateLowersSkew
  <2>. QED
    BY <1>1, <1>2, <2>1, <2>2 DEF NodeFits
<1>3. ASSUME AddPod(p), NodeFits' PROVE NodeFits
  <2>1. /\ phase = "dryrun" /\ phase' = "dryrun" /\ node' = node /\ UpdateWithPod(p, 1)
    BY <1>3 DEF AddPod
  <2>2. \A c \in Constraint : Skew(c, node) <= Skew(c, node)'
    BY <2>1, UpdateRaisesSkew
  <2>. QED
    BY <1>1, <1>3, <2>1, <2>2 DEF NodeFits
<1>. QED
  BY <1>2, <1>3

\* No eviction makes the node of the copy fail, and no pod put back makes it
\* pass, although the minimum of its constraints moves with the pod: what
\* preemption takes for granted of AddPod and RemovePod (filtering.go:153-172).
THEOREM EvictionsHelp == Spec => EvictionNeverHurts
<1>1. SpreadInv /\ SpreadInv' /\ [Next]_vars => [FitFollowsPods]_vars
  BY FitFollows
<1>. QED
  BY <1>1, SpreadInvariant, PTL DEF Spec, EvictionNeverHurts

-----------------------------------------------------------------------------
(* The abstract oracle                                                     *)

Statuses == {"Success", "Unschedulable", "UnschedulableAndUnresolvable"}

LEMMA AnswersType ==
    ASSUME Answering PROVE Answers \in [Node -> Statuses]
  BY DEF Answers, Answering, FilterStatus, StatusOf, Statuses

LEMMA AnswersExact ==
    ASSUME SpreadInv, Answering, Alike
    PROVE  Answers = [n \in Node |-> FreshStatus(n, where)]
  BY StatusIsFresh DEF Answers, Answering

LEMMA AnswersExactNext ==
    SpreadInv' /\ Answering' /\ Alike'
        => Answers' = [n \in Node |-> FreshStatus(n, where')]
<1>1. (SpreadInv /\ Answering /\ Alike => Answers = [n \in Node |-> FreshStatus(n, where)])'
  BY AnswersExact, PTL
<1>. QED
  BY <1>1

LEMMA InitOracle == Init => Oracle!Init
  BY DEF Init, Oracle!Init, Oracle!Unanswered, Answers

LEMMA NextOracle ==
    ASSUME SpreadInv, SpreadInv', [Next]_vars PROVE [Oracle!Next]_(Oracle!vars)
<1>. USE DEF Oracle!vars
<1>1. CASE CountPods
  <2>1. phase = "prefilter" /\ phase' = "fold"
    BY <1>1 DEF CountPods
  <2>2. Answers' = Answers
    BY <2>1 DEF Answers
  <2>. QED
    BY <1>1, <2>2 DEF CountPods
<1>2. ASSUME NEW c \in Constraint, NEW v \in todo[c], FoldValue(c, v)
      PROVE  UNCHANGED Oracle!vars
  <2>1. phase = "fold" /\ phase' = "fold"
    BY <1>2 DEF FoldValue
  <2>2. Answers' = Answers
    BY <2>1 DEF Answers
  <2>. QED
    BY <1>2, <2>2 DEF FoldValue
<1>3. CASE WriteState
  <2>1. /\ phase = "fold" /\ phase' = "ready" /\ where' = where /\ snapshot' = snapshot
        /\ node' = node /\ where = snapshot
    BY <1>3 DEF WriteState, SpreadInv, CountsInv
  <2>2. Answers = Oracle!Unanswered
    BY <2>1 DEF Answers, Oracle!Unanswered
  <2>3. Answering' /\ Alike'
    BY <2>1 DEF Answering, Alike
  <2>4. Answers' = Oracle!Exact(snapshot)
    BY <2>1, <2>3, AnswersExactNext DEF Oracle!Exact, SpreadRule
  <2>. QED
    BY <2>1, <2>2, <2>4 DEF Oracle!Next, Oracle!PreFilter
<1>4. ASSUME NEW n \in Node, Clone(n) PROVE Oracle!Next
  <2>1. /\ Answering /\ phase' = "dryrun" /\ where' = snapshot /\ snapshot' = snapshot
        /\ node' = n
    BY <1>4 DEF Clone, Answering
  <2>2. Answers # Oracle!Unanswered
    <3>1. Answers[n] \in Statuses /\ Oracle!Unanswered[n] = "none"
      BY <2>1, AnswersType DEF Oracle!Unanswered
    <3>. QED
      BY <3>1 DEF Statuses
  <2>3. Answering' /\ Alike'
    BY <2>1 DEF Answering, Alike
  <2>4. Answers' = Oracle!Exact(snapshot)
    BY <2>1, <2>3, AnswersExactNext DEF Oracle!Exact, SpreadRule
  <2>. QED
    BY <2>1, <2>2, <2>4 DEF Oracle!Next, Oracle!Clone
<1>5. ASSUME NEW p \in Pod, AddPod(p) \/ RemovePod(p) PROVE Oracle!Next
  <2>1. /\ phase = "dryrun" /\ phase' = "dryrun" /\ node' = node /\ node \in Node
        /\ snapshot' = snapshot
        /\ \/ where[p] = node /\ where' = [where EXCEPT ![p] = Nowhere]
           \/ where[p] = Nowhere /\ where' = [where EXCEPT ![p] = node]
    BY <1>5 DEF AddPod, RemovePod, SpreadInv, TypeOK
  <2>2. Answering'
    BY <2>1 DEF Answering
  <2>3. Answers' \in [Node -> Statuses]
    <3>1. (Answering => Answers \in [Node -> Statuses])'
      BY AnswersType, PTL
    <3>. QED
      BY <2>2, <3>1
  <2>4. MovesAlike(Constraints, snapshot, where') => Alike'
    BY <2>1 DEF MovesAlike, Alike
  <2>5. MovesAlike(Constraints, snapshot, where') => Answers' = Oracle!Exact(where')
    BY <2>2, <2>4, AnswersExactNext DEF Oracle!Exact, SpreadRule
  <2>6. Oracle!Move(p)
    BY <2>1, <2>3, <2>5 DEF Oracle!Move, Statuses
  <2>. QED
    BY <2>6 DEF Oracle!Next
<1>6. CASE UNCHANGED vars
  BY <1>6 DEF vars, Answers, FilterStatus, TooSkewed, CountAt, GlobalMin
<1>. QED
  BY <1>1, <1>2, <1>3, <1>4, <1>5, <1>6 DEF Next

\* The plugin's counts, paths and copies implement the oracle: PreFilter's
\* answers come back with every Clone (filtering.go:64-86), and AddPod and
\* RemovePod keep those of the copy at what a recount would give.
THEOREM SpreadImplementsOracle == Spec => ImplementsOracle
<1>1. SpreadInv /\ SpreadInv' /\ [Next]_vars => [Oracle!Next]_(Oracle!vars)
  BY NextOracle
<1>. QED
  BY <1>1, InitOracle, SpreadInvariant, PTL DEF Spec, Oracle!Spec, ImplementsOracle
=============================================================================
