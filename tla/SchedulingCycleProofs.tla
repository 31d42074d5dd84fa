----------------------- MODULE SchedulingCycleProofs -----------------------
(***************************************************************************)
(* A pod that names a class is bound under that class, for every cluster,  *)
(* every set of pods and classes, and every interleaving of the informer   *)
(* and of other changes with the plugins' reads.                           *)
(***************************************************************************)
EXTENDS SchedulingCycle, OperatorLemmas

-----------------------------------------------------------------------------
(* Type correctness                                                        *)

LEMMA OrderFacts == Len(Order) = 3 /\ \A i \in 1..3 : Order[i] \in Plugin
  BY DEF Order, Plugin

LEMMA EveryPlugin == \A x \in Plugin : \E i \in 1..3 : Order[i] = x
<1>1. /\ Order[1] = "interPodAffinity" /\ Order[2] = "nodeAffinity"
      /\ Order[3] = "topologySpread"
  BY DEF Order
<1>. QED
  BY <1>1 DEF Plugin

LEMMA InitType == Init => TypeOK
  BY BoundAssumption, OrderFacts DEF Init, TypeOK, Stages

LEMMA NextType == TypeOK /\ [Next]_vars => TypeOK'
<1>. SUFFICES ASSUME TypeOK, [Next]_vars PROVE TypeOK'
  OBVIOUS
<1>. USE OrderFacts, NothingAssumption DEF TypeOK, Stages
<1>1. ASSUME NEW c \in Classes \cup {Absent}, UpdateClass(c) PROVE TypeOK'
  BY <1>1, BoundAssumption DEF UpdateClass
<1>2. CASE SyncCache
  BY <1>2 DEF SyncCache
<1>3. ASSUME NEW p \in Pod, DeletePod(p) PROVE TypeOK'
  BY <1>3 DEF DeletePod
<1>4. ASSUME NEW p \in Pod, BeginCycle(p) PROVE TypeOK'
  BY <1>4 DEF BeginCycle
<1>5. CASE PreFilter
  <2>1. CASE ClassOf(cur) = Absent
    BY <1>5, <2>1 DEF PreFilter, EndCycle
  <2>2. CASE ClassOf(cur) # Absent
    <3>1. ClassOf(cur) \in Classes \cup {Nil} /\ Order[turn] \in Plugin
      BY <2>2 DEF ClassOf
    <3>. QED
      BY <1>5, <2>2, <3>1 DEF PreFilter, NextPlugin
  <2>. QED
    BY <2>1, <2>2
<1>6. CASE Filter
  BY <1>6 DEF Filter, EndCycle
<1>7. CASE PreScore
  BY <1>7 DEF PreScore, EndCycle, NextPlugin
<1>8. ASSUME NEW n \in Node, Bind(n) PROVE TypeOK'
  BY <1>8 DEF Bind
<1>9. CASE UNCHANGED vars
  BY <1>9 DEF vars
<1>. QED
  BY <1>1, <1>2, <1>3, <1>4, <1>5, <1>6, <1>7, <1>8, <1>9 DEF Next, Step

\* Every variable of a cycle keeps its type while the class changes.
THEOREM CycleTypeCorrect == Spec => []TypeOK
  BY InitType, NextType, PTL DEF Spec

-----------------------------------------------------------------------------
(* What the plugins have read                                              *)

\* Plugin x has read a class the cache held during this cycle, if the pod
\* names one.
HasRead(x) == PodSpec[cur].annotated => reads[x] \in Classes /\ reads[x] \in seen

ReadsInv ==
    /\ IsFiniteSet(seen)
    /\ cur # Nobody => cache \in seen /\ placed[cur] = Pending
    /\ stage = "preFilter" => \A i \in 1..(turn - 1) : HasRead(Order[i])
    /\ stage \in {"filter", "preScore", "bind"} => \A x \in Plugin : HasRead(x)

LEMMA InitReads == Init => ReadsInv
  BY FS_EmptySet DEF Init, ReadsInv

LEMMA NextReads == TypeOK /\ ReadsInv /\ [Next]_vars => ReadsInv'
<1>. SUFFICES ASSUME TypeOK, ReadsInv, [Next]_vars PROVE ReadsInv'
  OBVIOUS
<1>. USE OrderFacts, NothingAssumption DEF ReadsInv, HasRead
<1>. /\ cur \in Pod \cup {Nobody} /\ turn \in 1..3 /\ stage \in Stages
     /\ (cur = Nobody <=> stage = "idle") /\ reads \in [Plugin -> Classes \cup {Nil, Unread}]
     /\ placed \in [Pod -> Node \cup {Pending, Gone}]
  BY DEF TypeOK
<1>1. ASSUME NEW c \in Classes \cup {Absent}, UpdateClass(c) PROVE ReadsInv'
  BY <1>1 DEF UpdateClass
<1>2. CASE SyncCache
  <2>1. IsFiniteSet(seen') /\ seen \subseteq seen' /\ (cur # Nobody => cache' \in seen')
    BY <1>2, FS_AddElement DEF SyncCache
  <2>. QED
    BY <1>2, <2>1 DEF SyncCache
<1>3. ASSUME NEW p \in Pod, DeletePod(p) PROVE ReadsInv'
  BY <1>3 DEF DeletePod
<1>4. ASSUME NEW p \in Pod, BeginCycle(p) PROVE ReadsInv'
  <2>1. IsFiniteSet(seen')
    BY <1>4, FS_Singleton DEF BeginCycle
  <2>. QED
    BY <1>4, <2>1 DEF BeginCycle, Stages
<1>5. CASE PreFilter
  <2>1. CASE ClassOf(cur) = Absent
    BY <1>5, <2>1 DEF PreFilter, EndCycle
  <2>2. CASE ClassOf(cur) # Absent
    <3>1. /\ reads' = [reads EXCEPT ![Order[turn]] = ClassOf(cur)] /\ stage = "preFilter"
          /\ NextPlugin("filter")
          /\ UNCHANGED <<api, cache, updates, placed, cur, snapshot, feasible, seen>>
      BY <1>5, <2>2 DEF PreFilter
    <3>2. cur # Nobody /\ cache \in Classes \cup {Absent}
      BY <3>1 DEF TypeOK
    <3>. DEFINE ReadNow(x) ==
                  PodSpec[cur].annotated => reads'[x] \in Classes /\ reads'[x] \in seen
    <3>3. ReadNow(Order[turn])
      BY <2>2, <3>1, <3>2 DEF ClassOf
    <3>4. \A i \in 1..(turn - 1) : ReadNow(Order[i])
      <4>1. \A i, j \in 1..3 : i # j => Order[i] # Order[j]
        BY DEF Order
      <4>. QED
        BY <3>1, <4>1
    <3>5. \A i \in 1..turn : ReadNow(Order[i])
      BY <3>3, <3>4
    <3>6. CASE turn = 3
      <4>1. \A x \in Plugin : ReadNow(x)
        BY <3>5, <3>6, EveryPlugin
      <4>. QED
        BY <3>1, <3>6, <4>1 DEF NextPlugin
    <3>7. CASE turn # 3
      BY <3>1, <3>5, <3>7 DEF NextPlugin
    <3>. QED
      BY <3>6, <3>7
  <2>. QED
    BY <2>1, <2>2
<1>6. CASE Filter
  BY <1>6 DEF Filter, EndCycle
<1>7. CASE PreScore
  BY <1>7 DEF PreScore, EndCycle, NextPlugin
<1>8. ASSUME NEW n \in Node, Bind(n) PROVE ReadsInv'
  BY <1>8 DEF Bind
<1>9. CASE UNCHANGED vars
  BY <1>9 DEF vars
<1>. QED
  BY <1>1, <1>2, <1>3, <1>4, <1>5, <1>6, <1>7, <1>8, <1>9 DEF Next, Step

LEMMA ReadsInvariant == Spec => [](TypeOK /\ ReadsInv)
  BY InitReads, NextReads, CycleTypeCorrect, PTL DEF Spec

\* Bind is the only step that gives a pending pod a node.
LEMMA OnlyBindBinds ==
    ASSUME TypeOK, [Next]_vars, NEW p \in Pod, Binds(p)
    PROVE  cur = p /\ \E n \in Node : Bind(n) /\ placed'[p] = n
<1>. USE NothingAssumption DEF TypeOK, Binds
<1>1. ASSUME placed' = placed PROVE FALSE
  BY <1>1
<1>2. ASSUME NEW q \in Pod, DeletePod(q) PROVE FALSE
  BY <1>2 DEF DeletePod
<1>3. PICK n \in Node : Bind(n)
  BY <1>1, <1>2 DEF Next, Step, UpdateClass, SyncCache, BeginCycle, PreFilter, Filter,
                    PreScore, EndCycle, vars
<1>4. placed' = [placed EXCEPT ![cur] = n] /\ cur # Nobody
  BY <1>3 DEF Bind, Stages
<1>. QED
  BY <1>3, <1>4

\* A pod that names a class is bound only if every plugin read a class, and
\* one that the cache held during the cycle (getSchedulingClass,
\* merger.go:69-93, is called by each plugin on its own).
THEOREM NamedClassIsNeverIgnored == Spec => BoundUnderClass
<1>1. TypeOK /\ ReadsInv /\ [Next]_vars => [FailsClosed]_vars
  <2>. SUFFICES ASSUME TypeOK, ReadsInv, [Next]_vars, NEW p \in Pod,
                       Binds(p), PodSpec[p].annotated, NEW x \in Plugin
                PROVE  reads[x] \in Classes /\ reads[x] \in seen
    BY DEF FailsClosed
  <2>1. cur = p /\ \E n \in Node : Bind(n)
    BY OnlyBindBinds
  <2>2. stage = "bind"
    BY <2>1 DEF Bind
  <2>. QED
    BY <2>1, <2>2 DEF ReadsInv, HasRead
<1>. QED
  BY <1>1, ReadsInvariant, PTL DEF Spec, BoundUnderClass

-----------------------------------------------------------------------------
(* What Filter has found                                                   *)

\* In a cycle pods leave nodes but none arrives, and a feasible node fits by
\* what the plugins read and by the snapshot.
FitInv ==
    /\ cur # Nobody => \A p \in Pod : placed[p] \in Node => snapshot[p] = placed[p]
    /\ stage \in {"preScore", "bind"} => \A n \in feasible : Fits(cur, n)

LEMMA InitFit == Init => FitInv
  BY DEF Init, FitInv

\* Fits depends on what was read and on the snapshot, and on nothing else.
LEMMA FitsFrame ==
    ASSUME UNCHANGED <<reads, snapshot, cur>>, NEW n PROVE Fits(cur, n)' <=> Fits(cur, n)
  BY DEF Fits, AntiRule, NodeRule, SpreadRule, OwnNodeRule, HasAnti, HasSpread, Counted,
         ZoneCount, On

LEMMA NextFit == TypeOK /\ FitInv /\ [Next]_vars => FitInv'
<1>. SUFFICES ASSUME TypeOK, FitInv, [Next]_vars PROVE FitInv'
  OBVIOUS
<1>. USE NothingAssumption DEF FitInv
<1>. /\ cur \in Pod \cup {Nobody} /\ stage \in Stages /\ (cur = Nobody <=> stage = "idle")
     /\ placed \in [Pod -> Node \cup {Pending, Gone}]
  BY DEF TypeOK
<1>1. ASSUME NEW c \in Classes \cup {Absent}, UpdateClass(c) PROVE FitInv'
  BY <1>1, FitsFrame DEF UpdateClass
<1>2. CASE SyncCache
  BY <1>2, FitsFrame DEF SyncCache
<1>3. ASSUME NEW p \in Pod, DeletePod(p) PROVE FitInv'
  BY <1>3, FitsFrame DEF DeletePod
<1>4. ASSUME NEW p \in Pod, BeginCycle(p) PROVE FitInv'
  BY <1>4 DEF BeginCycle
<1>5. CASE PreFilter
  BY <1>5 DEF PreFilter, EndCycle, NextPlugin
<1>6. CASE Filter
  <2>1. CASE {n \in Node : Fits(cur, n)} = {}
    BY <1>6, <2>1 DEF Filter, EndCycle
  <2>2. CASE {n \in Node : Fits(cur, n)} # {}
    <3>1. /\ feasible' = {n \in Node : Fits(cur, n)}
          /\ UNCHANGED <<placed, cur, snapshot, reads>>
      BY <1>6, <2>2 DEF Filter
    <3>. QED
      BY <3>1, FitsFrame
  <2>. QED
    BY <2>1, <2>2
<1>7. CASE PreScore
  <2>1. CASE ClassOf(cur) = Absent
    BY <1>7, <2>1 DEF PreScore, EndCycle
  <2>2. CASE ClassOf(cur) # Absent
    BY <1>7, <2>2, FitsFrame DEF PreScore, NextPlugin
  <2>. QED
    BY <2>1, <2>2
<1>8. ASSUME NEW n \in Node, Bind(n) PROVE FitInv'
  BY <1>8 DEF Bind
<1>9. CASE UNCHANGED vars
  BY <1>9, FitsFrame DEF vars
<1>. QED
  BY <1>1, <1>2, <1>3, <1>4, <1>5, <1>6, <1>7, <1>8, <1>9 DEF Next, Step

LEMMA FitInvariant == Spec => [](TypeOK /\ ReadsInv /\ FitInv)
  BY InitFit, NextFit, ReadsInvariant, PTL DEF Spec

\* A pod bound in a cycle during which the cache held one version of its class
\* gets all of that version: its node affinity, its anti-affinity and its
\* spreading, though three plugins enforce them and each read the class anew.
THEOREM StableClassIsEnforced == Spec => EnforcedIfStable
<1>1. TypeOK /\ ReadsInv /\ FitInv /\ [Next]_vars => [StableClassEnforced]_vars
  <2>. SUFFICES ASSUME TypeOK, ReadsInv, FitInv, [Next]_vars, NEW p \in Pod, NEW c \in seen,
                       Binds(p), PodSpec[p].annotated, seen = {c},
                       ~HasEmptyTerm(PodSpec[p].required), ~HasEmptyTerm(c.required)
                PROVE  /\ RequiredMatches(c, placed'[p], NodeLabels[placed'[p]])
                       /\ SelectorMatches(PodSpec[p].required, placed'[p])
                       /\ c.anti => On(placed'[p], placed) = {}
                       /\ SpreadRule(p, c, placed'[p], snapshot)
    BY DEF StableClassEnforced
  <2>1. cur = p /\ \E m \in Node : Bind(m) /\ placed'[p] = m
    BY OnlyBindBinds
  <2>2. PICK n \in Node : Bind(n) /\ placed'[p] = n
    BY <2>1
  <2>3. stage = "bind" /\ n \in feasible /\ cur # Nobody
    BY <2>1, <2>2, NothingAssumption DEF Bind
  <2>4. \A x \in Plugin : reads[x] = c /\ c \in Classes
    BY <2>1, <2>3 DEF ReadsInv, HasRead
  <2>5. /\ reads["interPodAffinity"] = c /\ reads["nodeAffinity"] = c
        /\ reads["topologySpread"] = c /\ c \in Classes /\ c # Nil
    BY <2>4, NothingAssumption DEF Plugin
  <2>6. /\ AntiRule(p, c, n, snapshot) /\ NodeRule(p, c, n) /\ SpreadRule(p, c, n, snapshot)
    BY <2>1, <2>3, <2>5 DEF FitInv, Fits
  <2>7. RequiredMatches(c, n, NodeLabels[n]) /\ SelectorMatches(PodSpec[p].required, n)
    <3>1. RequiredMatches(MergeNodeAffinityTerms(PodSpec[p], c), n, NodeLabels[n])
      BY <2>5, <2>6 DEF NodeRule
    <3>2. (PodSpec[p].required # Nil /\ c.required # Nil) =>
              MergeNodeSelectors(PodSpec[p].required, c.required) # Nil
      BY <2>5, NothingAssumption
    <3>. QED
      BY <3>1, <3>2, MergedAdmitsLess
  <2>8. c.anti => On(n, placed) = {}
    <3>1. c.anti => On(n, snapshot) = {}
      BY <2>5, <2>6 DEF AntiRule, HasAnti
    <3>2. On(n, placed) \subseteq On(n, snapshot)
      BY <2>3 DEF FitInv, On
    <3>. QED
      BY <3>1, <3>2
  <2>. QED
    BY <2>2, <2>6, <2>7, <2>8
<1>. QED
  BY <1>1, FitInvariant, PTL DEF Spec, EnforcedIfStable
=============================================================================
