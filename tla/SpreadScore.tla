----------------------------- MODULE SpreadScore -----------------------------
(***************************************************************************)
(* The scoring half of pkg/podtopologyspread: PreScore reads the class     *)
(* twice, first to decide whether nodes need all topology keys and then    *)
(* for the constraints themselves; workers add up the matching pods; Score *)
(* weighs them and NormalizeScore turns them round, so that the node with  *)
(* the fewest pods scores most.                                            *)
(*                                                                         *)
(* One behaviour is the scoring of one pod.  Raw scores are kept in        *)
(* thousandths until they are rounded.                                     *)
(***************************************************************************)
EXTENDS Scores, Sequences, FiniteSets, FiniteSetsExt

CONSTANTS
    Node, Pod,       \* nodes of the snapshot and the pods on them
    Key, Hostname,   \* topology keys, and the one whose pods Score counts itself
    Missing,         \* label of a node that lacks the key
    Empty,           \* the empty string, which is a value, too
    Label,           \* n, k -> value of topology key k on node n
    Affine,          \* nodes that match the pod's own required node affinity
    Annotated,       \* the pod names a class
    Own,             \* its own constraints
    Classes, Absent, \* constraints the class may hold; no such class
    Defaults,        \* the plugin's default constraints that apply to the pod
    SystemDefaulted, \* they are the built-in ones
    Weight,          \* topologyNormalizingWeight, in thousandths
    MaxUpdates       \* bound on the changes of the class

\* matches holds the pods countPodsMatchSelector counts.
SpreadConstraint ==
    [key : Key, matches : SUBSET Pod, maxSkew : Int, soft : BOOLEAN]

ASSUME ConstraintsAssumption ==
    /\ Own \in Seq(SpreadConstraint) /\ Defaults \in Seq(SpreadConstraint)
    /\ \A c \in Classes : c \in Seq(SpreadConstraint)
    /\ Absent \notin Classes
    /\ \A i \in DOMAIN Defaults : Defaults[i].soft

ASSUME ScalarsAssumption ==
    /\ IsFiniteSet(Node) /\ IsFiniteSet(Pod) /\ Affine \subseteq Node
    /\ Missing # Empty
    /\ Annotated \in BOOLEAN /\ SystemDefaulted \in BOOLEAN
    /\ Weight \in [0..Cardinality(Node) -> Nat]
    /\ MaxUpdates \in Nat

VARIABLES
    class,        \* the class in the informer's store
    updates,      \* how often it changed
    where,        \* pod -> node
    feasible,     \* filteredNodes
    phase,        \* what PreScore, Score and NormalizeScore have done
    requireAll,   \* requireAllTopologies
    constraints,  \* s.Constraints, by their positions in the list they are from
    ignored,      \* s.IgnoredNodes
    counts,       \* s.TopologyValueToPodCounts
    todo,         \* nodes the workers have not counted yet
    raw, final    \* node -> score, before and after NormalizeScore

vars == <<class, updates, where, feasible, phase, requireAll, constraints, ignored,
          counts, todo, raw, final>>

Init ==
    /\ class \in Classes \cup {Absent}
    /\ updates = 0
    /\ where \in [Pod -> Node]
    /\ feasible \in {S \in SUBSET Node : Cardinality(S) > 1}
    /\ phase = "start"
    /\ requireAll = FALSE
    /\ constraints = <<>>
    /\ ignored = {}
    /\ counts = <<>>
    /\ todo = Node
    /\ raw = <<>> /\ final = <<>>

\* The class matters until its second read, so it is not changed later on.
UpdateClass(c) ==
    /\ phase \in {"start", "decided"}
    /\ updates < MaxUpdates
    /\ c # class
    /\ class' = c
    /\ updates' = updates + 1
    /\ UNCHANGED <<where, feasible, phase, requireAll, constraints, ignored, counts,
                   todo, raw, final>>

-----------------------------------------------------------------------------
(* PreScore                                                                *)

\* MergeTopologySpreadConstraints as it stands, or its error.
Failed == Annotated /\ class = Absent

RawConstraints == IF Annotated THEN Own \o class ELSE Own

\* Mutant of RequireAll: only the pod's own constraints are looked at.
RequireAllForOwn == Own # <<>> \/ ~SystemDefaulted

\* An error of this first read is dropped and counts as no constraints.
RequireAll ==
    \/ Own # <<>>
    \/ Annotated /\ ~Failed /\ RawConstraints # <<>>
    \/ ~SystemDefaulted

Decide ==
    /\ phase = "start"
    /\ phase' = "decided"
    /\ requireAll' = RequireAll
    /\ UNCHANGED <<class, updates, where, feasible, constraints, ignored, counts, todo,
                   raw, final>>

SoftConstraints ==
    IF RawConstraints # <<>> THEN RestrictValues(RawConstraints, LAMBDA c : c.soft) ELSE Defaults

AllKeys(cs, n) == \A i \in DOMAIN cs : Label[n][cs[i].key] # Missing

\* Reading the map of labels: a missing key reads as the empty string, so the
\* node shares a domain with those whose label is empty.
Value(n, k) == IF Label[n][k] = Missing THEN Empty ELSE Label[n][k]

\* Mutant of Topologies: only nodes of the pod's own affinity get an entry.
AffineTopologies(c, nodes) ==
    IF c.key = Hostname THEN {} ELSE {Value(n, c.key) : n \in nodes \cap Affine}

Topologies(c, nodes) ==
    IF c.key = Hostname THEN {} ELSE {Value(n, c.key) : n \in nodes}

\* initPreScoreState, the second read; PreScore skips without soft constraints.
InitPreScoreState ==
    /\ phase = "decided"
    /\ IF Failed
       THEN /\ phase' = "failed"
            /\ UNCHANGED <<constraints, ignored, counts>>
       ELSE LET cs == SoftConstraints
                out == {n \in feasible : requireAll /\ ~AllKeys(cs, n)}
            IN  /\ phase' = IF cs = <<>> THEN "skipped" ELSE "count"
                /\ constraints' = cs
                /\ ignored' = out
                /\ counts' = [i \in DOMAIN cs |->
                      [v \in Topologies(cs[i], feasible \ out) |-> 0]]
    /\ UNCHANGED <<class, updates, where, feasible, requireAll, todo, raw, final>>

PodsOn(n, c) == {p \in c.matches : where[p] = n}

Counted(n) == n \in Affine /\ (requireAll => AllKeys(constraints, n))

\* One call of a worker.
CountNode(n) ==
    /\ phase = "count"
    /\ n \in todo
    /\ todo' = todo \ {n}
    /\ counts' = [i \in DOMAIN constraints |->
          [v \in DOMAIN counts[i] |->
              IF Counted(n) /\ v = Value(n, constraints[i].key)
              THEN counts[i][v] + Cardinality(PodsOn(n, constraints[i]))
              ELSE counts[i][v]]]
    /\ UNCHANGED <<class, updates, where, feasible, phase, requireAll, constraints,
                   ignored, raw, final>>

-----------------------------------------------------------------------------
(* Score                                                                   *)

Size(i) == IF constraints[i].key = Hostname
           THEN Cardinality(feasible) - Cardinality(ignored)
           ELSE Cardinality(DOMAIN counts[i])

CountFor(i, n) == LET c == constraints[i]
                  IN  IF c.key = Hostname THEN Cardinality(PodsOn(n, c))
                                          ELSE counts[i][Value(n, c.key)]

\* scoreForCount, in thousandths.  Score asks for it where the label is there.
ScoreForCount(i, n) == CountFor(i, n) * Weight[Size(i)] + 1000 * (constraints[i].maxSkew - 1)

\* math.Round, half away from zero.
Round(x) == IF x >= 0 THEN (x + 500) \div 1000 ELSE -((500 - x) \div 1000)

RawScore(n) ==
    LET with == {i \in DOMAIN constraints : Label[n][constraints[i].key] # Missing}
    IN  IF n \in ignored THEN 0
        ELSE Round(SumFunctionOnSet([i \in with |-> ScoreForCount(i, n)], with))

Score ==
    /\ phase = "count" /\ todo = {}
    /\ phase' = "scored"
    /\ raw' = [n \in feasible |-> RawScore(n)]
    /\ UNCHANGED <<class, updates, where, feasible, requireAll, constraints, ignored,
                   counts, todo, final>>

-----------------------------------------------------------------------------
(* NormalizeScore                                                          *)

InvalidScore == -1

\* Mutant of Turned: the score itself is not taken off.
TurnedTooFar(s, min, max) == Quotient(MaxNodeScore * (max + min), max)

\* Mutant of Turned: more pods score more.
NotTurned(s, min, max) == Quotient(MaxNodeScore * s, max)

Turned(s, min, max) == Quotient(MaxNodeScore * (max + min - s), max)

\* A raw score that happens to be invalidScore is taken for an ignored node.
NormalizeScore ==
    /\ phase = "scored"
    /\ phase' = "normalized"
    /\ LET taken == {raw[n] : n \in feasible \ ignored}
           max == Max(taken \cup {0})
           invalid == {n \in feasible : n \in ignored \/ raw[n] = InvalidScore}
       IN  final' = [n \in feasible |->
              IF n \in invalid THEN 0
              ELSE IF max = 0 THEN MaxNodeScore
              ELSE Turned(raw[n], Min(taken), max)]
    /\ UNCHANGED <<class, updates, where, feasible, requireAll, constraints, ignored,
                   counts, todo, raw>>

Next ==
    \/ \E c \in Classes \cup {Absent} : UpdateClass(c)
    \/ Decide
    \/ InitPreScoreState
    \/ \E n \in Node : CountNode(n)
    \/ Score
    \/ NormalizeScore

Spec == Init /\ [][Next]_vars

-----------------------------------------------------------------------------
(* Properties                                                              *)

\* Score reads no count that is not there (scoring.go:228 would dereference a
\* nil pointer): every domain of a node that is not ignored has an entry, also
\* when the two reads of the class disagree.
EveryDomainHasACount ==
    phase \in {"count", "scored", "normalized"} =>
        \A n \in feasible \ ignored, i \in DOMAIN constraints :
            LET v == Label[n][constraints[i].key]
            IN  (v # Missing /\ constraints[i].key # Hostname) => v \in DOMAIN counts[i]

PositiveSkews == \A i \in DOMAIN constraints : constraints[i].maxSkew > 0

\* Final scores are in the framework's range, which otherwise fails the cycle.
\* It takes positive maxSkews and nothing else.
ScoresInRange ==
    phase = "normalized" /\ PositiveSkews =>
        \A n \in feasible : final[n] \in 0..MaxNodeScore

\* The pods that count for constraint i in the domain of node n.
Matching(i, n) ==
    {p \in constraints[i].matches :
        IF constraints[i].key = Hostname THEN where[p] = n
        ELSE /\ Counted(where[p])
             /\ Value(where[p], constraints[i].key) = Value(n, constraints[i].key)}

\* Of two nodes with all topology keys, the one with at most as many matching
\* pods under every constraint does not score less.
FewerPodsScoreMore ==
    phase = "normalized" /\ PositiveSkews =>
        \A n, m \in {x \in feasible \ ignored : AllKeys(constraints, x)} :
            (\A i \in DOMAIN constraints :
                Cardinality(Matching(i, n)) <= Cardinality(Matching(i, m)))
            => final[n] >= final[m]

\* If the class did not change between the two reads, constraints that are not
\* the built-in ones give nothing to a node without all their topology keys.
KeysRequiredIfStable ==
    (phase = "normalized" /\ updates = 0 /\ (RawConstraints # <<>> \/ ~SystemDefaulted)) =>
        \A n \in feasible : ~AllKeys(constraints, n) => final[n] = 0
=============================================================================
