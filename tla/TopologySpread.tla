--------------------------- MODULE TopologySpread ---------------------------
(***************************************************************************)
(* The filtering half of pkg/podtopologyspread: the counts PreFilter takes *)
(* over a snapshot of the cluster, the two "critical paths" that stand for *)
(* the global minimum, and the copies of both that preemption clones, one  *)
(* node at a time, and edits with AddPod and RemovePod.                    *)
(*                                                                         *)
(* One behaviour is one scheduling cycle of one incoming pod.  The cycle   *)
(* works on a snapshot, so nodes and labels are constants; what varies is  *)
(* where the other pods are, and in which order Go ranges over a map.      *)
(***************************************************************************)
EXTENDS Integers, FiniteSets

CONSTANTS
    Node, Pod,       \* nodes of the snapshot; every pod but the incoming one
    Nowhere,         \* "node" of a pod that is on no node (evicted, nominated)
    N,               \* how many DoNotSchedule constraints the pod has
    Constraints,     \* c -> selector and limits of the c-th constraint
    Value,           \* topology values
    Missing,         \* label of a node that lacks the topology key
    NoValue,         \* the zero value of TopologyValue, the empty string
    Label,           \* n, c -> value of the c-th topology key on n
    Affine,          \* nodes that match the pod's own required node affinity
    Untolerated,     \* nodes with a DoNotSchedule taint it does not tolerate
    SameNs,          \* pods in the incoming pod's namespace
    Terminating,     \* pods with a deletion timestamp
    InclusionPolicy, \* feature flag NodeInclusionPolicyInPodTopologySpread
    MaxInt32         \* MatchNum of a critical path that is not set yet

Constraint == 1..N

(***************************************************************************)
(* topologySpreadConstraint.  The selector is the set of pods it matches;  *)
(* selectsAll marks the empty selector and selfMatch says whether the      *)
(* incoming pod matches.  maxSkew and minDomains are any int32: the CRD    *)
(* does not validate them.                                                 *)
(***************************************************************************)
SpreadConstraint ==
    [matches : SUBSET Pod, selectsAll : BOOLEAN, selfMatch : BOOLEAN,
     maxSkew : Int, minDomains : Int,
     honorAffinity : BOOLEAN, honorTaints : BOOLEAN]

ASSUME SetsAssumption ==
    /\ IsFiniteSet(Node)
    /\ IsFiniteSet(Pod)
    /\ Nowhere \notin Node
    /\ Missing \notin Value
    /\ Affine \subseteq Node
    /\ Untolerated \subseteq Node
    /\ SameNs \subseteq Pod
    /\ Terminating \subseteq Pod
    /\ InclusionPolicy \in BOOLEAN

ASSUME ConstraintsAssumption ==
    /\ N \in Nat \ {0}
    /\ Constraints \in [1..N -> SpreadConstraint]
    /\ \A c \in 1..N : Constraints[c].selectsAll => /\ Constraints[c].matches = Pod
                                                    /\ Constraints[c].selfMatch

ASSUME LabelAssumption == Label \in [Node -> [1..N -> Value \cup {Missing}]]

\* A cluster holds fewer than 2^31 - 1 pods.
ASSUME CountAssumption == MaxInt32 \in Nat /\ Cardinality(Pod) < MaxInt32

VARIABLES
    phase,     \* "prefilter" -> "fold" -> "ready" -> "dryrun"
    snapshot,  \* pod -> node, as PreFilter sees the cluster
    where,     \* pod -> node, as the working copy should see it
    node,      \* the node the working copy was cloned for
    todo,      \* c -> values the loop over the count map has not reached
    matchNum,  \* s.TpValueToMatchNum of the working copy
    paths,     \* s.CriticalPaths of the working copy
    base       \* the preFilterState in the cycle state

vars == <<phase, snapshot, where, node, todo, matchNum, paths, base>>

-----------------------------------------------------------------------------
(* Which nodes a constraint counts                                         *)

AllKeys(n) == \A c \in Constraint : Label[n][c] # Missing

MatchInclusionPolicies(c, n) ==
    /\ Constraints[c].honorAffinity => n \in Affine
    /\ Constraints[c].honorTaints => n \notin Untolerated

Counted(c, n) ==
    /\ AllKeys(n)
    /\ IF InclusionPolicy THEN MatchInclusionPolicies(c, n) ELSE n \in Affine

CountedNodes == [c \in Constraint |-> {n \in Node : Counted(c, n)}]

Domain(c) == {Label[n][c] : n \in CountedNodes[c]}

NodesIn(c, v) == {n \in CountedNodes[c] : Label[n][c] = v}

(***************************************************************************)
(* countPodsMatchSelector over the nodes of one topology value.  It skips  *)
(* terminating pods, and counts nothing for the empty selector.            *)
(***************************************************************************)
PodsMatch(c, v, w) ==
    LET nodes == NodesIn(c, v)
    IN  IF Constraints[c].selectsAll
        THEN {}
        ELSE {p \in (Constraints[c].matches \cap SameNs) \ Terminating : w[p] \in nodes}

FreshCount(c, v, w) == Cardinality(PodsMatch(c, v, w))

-----------------------------------------------------------------------------
(* Critical paths                                                          *)

Unset == [val |-> NoValue, num |-> MaxInt32]

NewCriticalPaths == [first |-> Unset, second |-> Unset]

InOrder(a, b) == IF a.num > b.num THEN [first |-> b, second |-> a]
                                  ELSE [first |-> a, second |-> b]

\* Mutant of Update: the paths are not put back in order.
UpdateInPlace(P, v, num) ==
    LET new == [val |-> v, num |-> num]
    IN  IF v = P.first.val THEN [P EXCEPT !.first = new]
        ELSE IF v = P.second.val THEN [P EXCEPT !.second = new]
        ELSE IF num < P.first.num THEN [first |-> new, second |-> P.first]
        ELSE IF num < P.second.num THEN [first |-> P.first, second |-> new]
        ELSE P

(***************************************************************************)
(* criticalPaths.update.  The comparison of values comes first, so the     *)
(* empty topology value meets the unset paths there.                       *)
(***************************************************************************)
Update(P, v, num) ==
    LET new == [val |-> v, num |-> num]
    IN  IF v = P.first.val THEN InOrder(new, P.second)
        ELSE IF v = P.second.val THEN InOrder(P.first, new)
        ELSE IF num < P.first.num THEN [first |-> new, second |-> P.first]
        ELSE IF num < P.second.num THEN [first |-> P.first, second |-> new]
        ELSE P

-----------------------------------------------------------------------------
(* Filter                                                                  *)

GlobalMin(c) == IF Cardinality(DOMAIN matchNum[c]) < Constraints[c].minDomains
                THEN 0
                ELSE paths[c].first.num

CountAt(c, v) == IF v \in DOMAIN matchNum[c] THEN matchNum[c][v] ELSE 0

SelfMatchNum(c) == IF Constraints[c].selfMatch THEN 1 ELSE 0

TooSkewed(c, n) ==
    CountAt(c, Label[n][c]) + SelfMatchNum(c) - GlobalMin(c) > Constraints[c].maxSkew

\* The constraints are tried in order and the first that fails decides.
StatusOf(n, Failing) ==
    LET first == CHOOSE c \in Failing : \A d \in Failing : c <= d
    IN  IF Failing = {} THEN "Success"
        ELSE IF Label[n][first] = Missing THEN "UnschedulableAndUnresolvable"
        ELSE "Unschedulable"

FilterStatus(n) ==
    StatusOf(n, {c \in Constraint : Label[n][c] = Missing \/ TooSkewed(c, n)})

-----------------------------------------------------------------------------
(* PreFilter                                                               *)

Init ==
    /\ phase = "prefilter"
    /\ snapshot \in [Pod -> Node \cup {Nowhere}]
    /\ where = snapshot
    /\ node = Nowhere
    /\ todo = [c \in Constraint |-> {}]
    /\ matchNum = [c \in Constraint |-> <<>>]
    /\ paths = [c \in Constraint |-> NewCriticalPaths]
    /\ base = [matchNum |-> matchNum, paths |-> paths]

\* Mutant of CountPods: domains without a matching pod get no entry.
CountPodsSparse ==
    /\ phase = "prefilter"
    /\ phase' = "fold"
    /\ matchNum' = [c \in Constraint |->
          [v \in {u \in Domain(c) : PodsMatch(c, u, snapshot) # {}} |-> FreshCount(c, v, snapshot)]]
    /\ todo' = [c \in Constraint |-> DOMAIN matchNum'[c]]
    /\ UNCHANGED <<snapshot, where, node, paths, base>>

\* The parallel count over all nodes and the sequential sum after it.
CountPods ==
    /\ phase = "prefilter"
    /\ phase' = "fold"
    /\ matchNum' = [c \in Constraint |-> [v \in Domain(c) |-> FreshCount(c, v, snapshot)]]
    /\ todo' = [c \in Constraint |-> Domain(c)]
    /\ UNCHANGED <<snapshot, where, node, paths, base>>

\* One turn of "for value, num := range", whose order Go leaves open.
FoldValue(c, v) ==
    /\ phase = "fold"
    /\ \A d \in Constraint : d < c => todo[d] = {}
    /\ v \in todo[c]
    /\ todo' = [todo EXCEPT ![c] = @ \ {v}]
    /\ paths' = [paths EXCEPT ![c] = Update(@, v, matchNum[c][v])]
    /\ UNCHANGED <<phase, snapshot, where, node, matchNum, base>>

WriteState ==
    /\ phase = "fold"
    /\ \A c \in Constraint : todo[c] = {}
    /\ phase' = "ready"
    /\ base' = [matchNum |-> matchNum, paths |-> paths]
    /\ UNCHANGED <<snapshot, where, node, todo, matchNum, paths>>

-----------------------------------------------------------------------------
(* Dry runs: each starts on a fresh clone and edits the pods of one node   *)

\* Mutant of Clone: the count map is shared with the copy before, not cloned.
CloneShared(n) ==
    /\ phase \in {"ready", "dryrun"}
    /\ phase' = "dryrun"
    /\ node' = n
    /\ where' = snapshot
    /\ paths' = base.paths
    /\ UNCHANGED <<snapshot, todo, matchNum, base>>

Clone(n) ==
    /\ phase \in {"ready", "dryrun"}
    /\ phase' = "dryrun"
    /\ node' = n
    /\ where' = snapshot
    /\ matchNum' = base.matchNum
    /\ paths' = base.paths
    /\ UNCHANGED <<snapshot, todo, base>>

\* Mutant of Touches: pods of other namespaces count.
TouchesAnyNamespace(c, p, n) == p \in Constraints[c].matches /\ Counted(c, n)

\* Whether updateWithPod changes constraint c for pod p on node n.
Touches(c, p, n) ==
    /\ p \in SameNs
    /\ p \in Constraints[c].matches
    /\ Counted(c, n)

UpdateWithPod(p, delta) ==
    LET num(c) == matchNum[c][Label[node][c]] + delta
    IN  /\ matchNum' = [c \in Constraint |->
              IF Touches(c, p, node)
              THEN [matchNum[c] EXCEPT ![Label[node][c]] = num(c)]
              ELSE matchNum[c]]
        /\ paths' = [c \in Constraint |->
              IF Touches(c, p, node)
              THEN Update(paths[c], Label[node][c], num(c))
              ELSE paths[c]]

AddPod(p) ==
    /\ phase = "dryrun"
    /\ where[p] = Nowhere
    /\ where' = [where EXCEPT ![p] = node]
    /\ UpdateWithPod(p, 1)
    /\ UNCHANGED <<phase, snapshot, node, todo, base>>

\* Mutant of RemovePod: the delta of AddPod.
RemovePodAdds(p) ==
    /\ phase = "dryrun"
    /\ where[p] = node
    /\ where' = [where EXCEPT ![p] = Nowhere]
    /\ UpdateWithPod(p, 1)
    /\ UNCHANGED <<phase, snapshot, node, todo, base>>

\* Mutant of RemovePod: the edit reaches the state of the cycle.
RemovePodLeaks(p) ==
    /\ phase = "dryrun"
    /\ where[p] = node
    /\ where' = [where EXCEPT ![p] = Nowhere]
    /\ UpdateWithPod(p, -1)
    /\ base' = [matchNum |-> matchNum', paths |-> paths']
    /\ UNCHANGED <<phase, snapshot, node, todo>>

RemovePod(p) ==
    /\ phase = "dryrun"
    /\ where[p] = node
    /\ where' = [where EXCEPT ![p] = Nowhere]
    /\ UpdateWithPod(p, -1)
    /\ UNCHANGED <<phase, snapshot, node, todo, base>>

Next ==
    \/ CountPods
    \/ \E c \in Constraint : \E v \in todo[c] : FoldValue(c, v)
    \/ WriteState
    \/ \E n \in Node : Clone(n)
    \/ \E p \in Pod : AddPod(p) \/ RemovePod(p)

Spec == Init /\ [][Next]_vars

-----------------------------------------------------------------------------
(* Properties                                                              *)

Path == [val : Value \cup {NoValue}, num : Int]
CriticalPaths == [first : Path, second : Path]

\* Every variable has its type, and the count maps keep exactly the domains
\* PreFilter put in them: updateWithPod never adds or drops a topology value.
TypeOK ==
    /\ phase \in {"prefilter", "fold", "ready", "dryrun"}
    /\ snapshot \in [Pod -> Node \cup {Nowhere}]
    /\ where \in [Pod -> Node \cup {Nowhere}]
    /\ node \in Node \cup {Nowhere}
    /\ phase = "dryrun" => node \in Node
    /\ DOMAIN todo = Constraint /\ \A c \in Constraint : todo[c] \subseteq Domain(c)
    /\ DOMAIN matchNum = Constraint
    /\ phase # "prefilter" => \A c \in Constraint : matchNum[c] \in [Domain(c) -> Int]
    /\ paths \in [Constraint -> CriticalPaths]
    /\ base = [matchNum |-> base.matchNum, paths |-> base.paths]
    /\ base.paths \in [Constraint -> CriticalPaths]
    /\ phase \in {"ready", "dryrun"} =>
          /\ DOMAIN base.matchNum = Constraint
          /\ \A c \in Constraint : base.matchNum[c] \in [Domain(c) -> Int]

IsMin(m, f) == (\E v \in DOMAIN f : f[v] = m) /\ (\A v \in DOMAIN f : m <= f[v])

\* "CriticalPaths[i][0].MatchNum always holds the minimum matching number":
\* two paths are enough, whatever pods of one node a dry run removes or adds
\* and in whatever order the map was walked.
MinIsTracked ==
    phase \in {"ready", "dryrun"} =>
        \A c \in Constraint : Domain(c) # {} => IsMin(paths[c].first.num, matchNum[c])

\* Pods an update counts: unlike PreFilter it does not look at deletion
\* timestamps, and it matches the empty selector against every pod.
Moved(c, v, w) ==
    LET nodes == NodesIn(c, v)
    IN  {p \in Constraints[c].matches \cap SameNs : w[p] \in nodes}

Tally(c, v, w) == Cardinality(Moved(c, v, w))

\* What a count holds, for every selector and every pod: what PreFilter
\* counted, plus the matching pods the dry run moved in, minus those it moved
\* out.  An update never touches a domain other than that of its node.
CountsMove ==
    phase # "prefilter" =>
        \A c \in Constraint : \A v \in Domain(c) :
            matchNum[c][v] =
                FreshCount(c, v, snapshot) - Tally(c, v, snapshot) + Tally(c, v, where)

\* The inductive invariant behind MinIsTracked.  F is the set of values the
\* paths have seen.  A path that is set holds one of them with its current
\* count.
Current(e, f, F) == e = Unset \/ (e.val \in F /\ e.num = f[e.val])

PathsFollow(P, f, F) ==
    /\ P.first.num <= P.second.num
    /\ Current(P.first, f, F) /\ Current(P.second, f, F)
    /\ P.second # Unset => P.first.val # P.second.val

Holds(P, v) == \/ P.first # Unset /\ P.first.val = v
               \/ P.second # Unset /\ P.second.val = v

\* After PreFilter, a value on no path counts at least as much as both.
Kept(P, f, F) == \A v \in F : Holds(P, v) \/ f[v] >= P.second.num

\* On a clone that is weakened for the one value d whose count moves (Fact 1
\* and Fact 2 of filtering.go:91-92): d may sit on the second path with a
\* count larger than that of a value on no path.
KeptBut(P, f, F, d) ==
    \A v \in F : \/ Holds(P, v) \/ f[v] >= P.second.num
                 \/ v # d /\ P.second # Unset /\ P.second.val = d /\ f[v] >= P.first.num

\* Two paths suffice because a clone moves one value per constraint only.
PathsInv ==
    /\ phase = "prefilter" => \A c \in Constraint : paths[c] = NewCriticalPaths
    /\ phase = "fold" => \A c \in Constraint :
          /\ PathsFollow(paths[c], matchNum[c], Domain(c) \ todo[c])
          /\ Kept(paths[c], matchNum[c], Domain(c) \ todo[c])
    /\ phase \in {"ready", "dryrun"} => \A c \in Constraint :
          /\ PathsFollow(base.paths[c], base.matchNum[c], Domain(c))
          /\ Kept(base.paths[c], base.matchNum[c], Domain(c))
    /\ phase = "ready" => paths = base.paths /\ matchNum = base.matchNum
    /\ phase = "dryrun" => \A c \in Constraint :
          /\ PathsFollow(paths[c], matchNum[c], Domain(c))
          /\ KeptBut(paths[c], matchNum[c], Domain(c), Label[node][c])

\* What Filter would answer on node n if PreFilter had counted placement w.
Fewest(c, w) ==
    LET nums == {FreshCount(c, v, w) : v \in Domain(c)}
    IN  IF nums = {} THEN MaxInt32 ELSE CHOOSE m \in nums : \A k \in nums : m <= k

FreshMin(c, w) ==
    IF Cardinality(Domain(c)) < Constraints[c].minDomains THEN 0 ELSE Fewest(c, w)

FreshSkewed(c, n, w) ==
    FreshCount(c, Label[n][c], w) + SelfMatchNum(c) - FreshMin(c, w) > Constraints[c].maxSkew

FreshStatus(n, w) ==
    StatusOf(n, {c \in Constraint : Label[n][c] = Missing \/ FreshSkewed(c, n, w)})

\* The pods PreFilter and updateWithPod count alike: none that is terminating,
\* and none an empty selector matches (of another namespace, no pod counts).
CountedAlike ==
    {p \in Pod : \/ p \notin SameNs
                  \/ /\ p \notin Terminating
                     /\ \A c \in Constraint : ~Constraints[c].selectsAll}

\* The incremental verdict is the recomputed one: after any sequence of
\* AddPod and RemovePod on a clone, Filter answers for every node what it
\* would answer had PreFilter run with the pods where the dry run put them,
\* as long as the pods out of place are counted alike by both.
VerdictIsFresh ==
    /\ phase \in {"ready", "dryrun"}
    /\ \A p \in Pod : where[p] # snapshot[p] => p \in CountedAlike
    => \A n \in Node : FilterStatus(n) = FreshStatus(n, where)

\* The counts, paths and clones implement an oracle that recounts the pods
\* for every answer: whatever a dry run did to its copy, the next one starts
\* from PreFilter's answers, and each copy answers as VerdictIsFresh says.
Answers == [n \in Node |-> IF phase \in {"ready", "dryrun"} THEN FilterStatus(n) ELSE "none"]

SpreadRule(r, w, n) == FreshStatus(n, w)

MovesAlike(r, s, w) == \A p \in Pod : w[p] # s[p] => p \in CountedAlike

Oracle == INSTANCE FilterOracle
    WITH Request <- {Constraints},
         Status <- {"Success", "Unschedulable", "UnschedulableAndUnresolvable"},
         NoAnswer <- "none", Rule <- SpreadRule, Trusted <- MovesAlike,
         request <- Constraints, answers <- Answers

ImplementsOracle == Oracle!Spec

\* Evicting a pod of the node under test never makes that node fail, and
\* adding one never makes it pass.  The minimum moves with the pod too, but
\* never by more than the node's own count.  Preemption relies on it: it
\* evicts every pod of lower priority, then re-adds one after the other.
FitFollowsPods ==
    \A p \in Pod :
        /\ RemovePod(p) => (FilterStatus(node) = "Success" => FilterStatus(node)' = "Success")
        /\ AddPod(p) => (FilterStatus(node)' = "Success" => FilterStatus(node) = "Success")

EvictionNeverHurts == [][FitFollowsPods]_vars
=============================================================================
