---------------------------- MODULE AffinityScore ----------------------------
(***************************************************************************)
(* The scoring half of pkg/interpodaffinity.  PreScore reads the class and *)
(* chooses which pods to look at: all of them if the pod has preferences   *)
(* of its own or from its class, else only those that carry affinity       *)
(* themselves.  Goroutines add up the weights of the terms that match,     *)
(* topology pair by topology pair; Score sums the pairs of a node and      *)
(* NormalizeScore spreads the sums over 0 .. MaxNodeScore.                 *)
(*                                                                         *)
(* One behaviour is the scoring of one pod.                                *)
(***************************************************************************)
EXTENDS Scores, Sequences, FiniteSets, FiniteSetsExt, Functions

CONSTANTS
    Node, Pod,     \* nodes of the snapshot and the pods on them
    Where,         \* p -> node of pod p
    Key, Missing,  \* topology keys; label of a node that lacks the key
    Label,         \* n, k -> value of topology key k on node n
    WithAffinity,  \* pods whose spec has pod affinity or anti-affinity
    Incoming,      \* what the incoming pod may prefer, and others of it
    NoClass,       \* it names no class
    Absent,        \* the class it names is not found
    ArgsSet        \* plugin arguments

\* matches holds the pods the term selects.
Term == [key : Key, weight : Int, matches : SUBSET Pod]
Preferences == [affinity : Seq(Term), anti : Seq(Term)]

\* The terms in the spec of an existing pod that match the incoming one.
Existing == [key : Key, weight : Int]
Toward == [required : Seq(Key), affinity : Seq(Existing), anti : Seq(Existing)]

ASSUME PodsAssumption ==
    /\ IsFiniteSet(Node) /\ IsFiniteSet(Pod)
    /\ Where \in [Pod -> Node]
    /\ \A n \in Node : DOMAIN Label[n] = Key
    /\ WithAffinity \subseteq Pod

ASSUME IncomingAssumption ==
    /\ \A r \in Incoming : /\ r.own \in Preferences
                           /\ r.class \in Preferences \cup {NoClass, Absent}
                           /\ r.toward \in [WithAffinity -> Toward]
    /\ \A a \in ArgsSet : a.ignore \in BOOLEAN /\ a.hardWeight \in Nat

VARIABLES
    args,     \* pl.args
    incoming, \* preferences of the pod, of its class, and of pods toward it
    phase,    \* "prescore" -> "count" -> "score" -> "scored" -> "done",
              \* or "skip", or "error"
    todo,     \* nodes the goroutines have not merged yet
    topology, \* state.topologyScore, as <<key, value>> -> weight
    raw,      \* node -> what Score returned, for the nodes that passed Filter
    final     \* node -> what NormalizeScore made of it

vars == <<args, incoming, phase, todo, topology, raw, final>>

Init ==
    /\ args \in ArgsSet
    /\ incoming \in Incoming
    /\ phase = "prescore"
    /\ todo = {} /\ topology = <<>> /\ raw = <<>> /\ final = <<>>

-----------------------------------------------------------------------------
(* PreScore                                                                *)

\* The terms in force: those of the merger if the pod names a class.
Preferred(kind) ==
    IF incoming.class = NoClass THEN incoming.own[kind]
    ELSE incoming.own[kind] \o incoming.class[kind]

\* Mutant of HasConstraints: what the class adds is not looked at.
HasOwnConstraints == incoming.own.affinity # <<>> \/ incoming.own.anti # <<>>

HasConstraints == Preferred("affinity") # <<>> \/ Preferred("anti") # <<>>

PodsToProcess == IF HasConstraints THEN Pod ELSE WithAffinity

\* Mutant of PreScore: a pod without preferences is never scored.
PreScoreUnlessSilent ==
    /\ phase = "prescore"
    /\ IF incoming.class = Absent
       THEN phase' = "error" /\ todo' = todo
       ELSE IF ~HasConstraints
       THEN phase' = "skip" /\ todo' = todo
       ELSE phase' = "count" /\ todo' = {Where[p] : p \in PodsToProcess}
    /\ UNCHANGED <<args, incoming, topology, raw, final>>

\* allNodes holds the nodes without pods to process, too: they add nothing.
PreScore ==
    /\ phase = "prescore"
    /\ IF incoming.class = Absent
       THEN phase' = "error" /\ todo' = todo
       ELSE IF args.ignore /\ ~HasConstraints
       THEN phase' = "skip" /\ todo' = todo
       ELSE phase' = "count" /\ todo' = {Where[p] : p \in PodsToProcess}
    /\ UNCHANGED <<args, incoming, topology, raw, final>>

\* What the chosen terms of one list add while pod p is processed.
Signed(p, list, terms, chosen, sign) ==
    {[pod |-> p, list |-> list, at |-> i,
      key |-> terms[i].key, weight |-> sign * terms[i].weight] : i \in chosen}

Matching(kind, p) == {i \in DOMAIN Preferred(kind) : p \in Preferred(kind)[i].matches}

\* Terms of an existing pod that match the incoming one; most pods have none.
Theirs(p) == IF p \in WithAffinity THEN incoming.toward[p]
             ELSE [required |-> <<>>, affinity |-> <<>>, anti |-> <<>>]

Hard(p) ==
    IF args.hardWeight > 0
    THEN [i \in DOMAIN Theirs(p).required |->
             [key |-> Theirs(p).required[i], weight |-> args.hardWeight]]
    ELSE <<>>

\* processExistingPod: what one pod adds, on both sides.
Additions(p) ==
    Signed(p, "affinity", Preferred("affinity"), Matching("affinity", p), 1)
        \cup Signed(p, "anti", Preferred("anti"), Matching("anti", p), -1)
        \cup Signed(p, "hard", Hard(p), DOMAIN Hard(p), 1)
        \cup Signed(p, "theirs", Theirs(p).affinity, DOMAIN Theirs(p).affinity, 1)
        \cup Signed(p, "theirAnti", Theirs(p).anti, DOMAIN Theirs(p).anti, -1)

\* The additions for key k on node n.
AdditionsOn(n, k) ==
    {a \in UNION {Additions(p) : p \in {q \in PodsToProcess : Where[q] = n}} : a.key = k}

TotalWeight(additions) == SumFunctionOnSet([a \in additions |-> a.weight], additions)

\* Mutant of NodeScores: a label that is not there reads as an empty one.
NodeScoresUnlabelled(n) ==
    LET keys == {k \in Key : AdditionsOn(n, k) # {}}
    IN  [pair \in {<<k, Label[n][k]>> : k \in keys} |-> TotalWeight(AdditionsOn(n, pair[1]))]

\* What the pods of one node add: processTerm needs the label to be there.
NodeScores(n) ==
    LET keys == {k \in Key : Label[n][k] # Missing /\ AdditionsOn(n, k) # {}}
    IN  [pair \in {<<k, Label[n][k]>> : k \in keys} |-> TotalWeight(AdditionsOn(n, pair[1]))]

\* scoreMap.append.
AppendScores(m, other) ==
    [pair \in DOMAIN m \cup DOMAIN other |->
        (IF pair \in DOMAIN m THEN m[pair] ELSE 0)
            + (IF pair \in DOMAIN other THEN other[pair] ELSE 0)]

\* The maps of the nodes are merged in the order in which their goroutines took
\* a slot, as if in one step each: see WorkerSlots.
CountNode(n) ==
    /\ phase = "count"
    /\ n \in todo
    /\ todo' = todo \ {n}
    /\ topology' = AppendScores(topology, NodeScores(n))
    /\ UNCHANGED <<args, incoming, phase, raw, final>>

\* An entry counts even if its weights cancel out.
EndPreScore ==
    /\ phase = "count" /\ todo = {}
    /\ phase' = IF topology = <<>> THEN "skip" ELSE "score"
    /\ UNCHANGED <<args, incoming, todo, topology, raw, final>>

-----------------------------------------------------------------------------
(* Score and NormalizeScore                                                *)

ScoreOf(n) ==
    SumFunctionOnSet(topology, {pair \in DOMAIN topology : Label[n][pair[1]] = pair[2]})

Score ==
    /\ phase = "score"
    /\ \E feasible \in (SUBSET Node) \ {{}} : raw' = [n \in feasible |-> ScoreOf(n)]
    /\ phase' = "scored"
    /\ UNCHANGED <<args, incoming, todo, topology, final>>

Values == {raw[n] : n \in DOMAIN raw}

\* Mutant of Lowest: the minimum starts at zero.
LowestFromZero == Min(Values \cup {0})

Lowest == Min(Values)

Spread == Max(Values) - Lowest

\* int64(100 * (float64(above) / float64(Spread))): a quotient that is whole
\* but for its ends may come out just below, 100 * (29/100) is 28.
Scaled(above, short) ==
    IF Spread = 0 THEN 0
    ELSE LET exact == (MaxNodeScore * above) \div Spread
             whole == exact * Spread = MaxNodeScore * above
         IN  IF whole /\ above \notin {0, Spread} /\ above \in short THEN exact - 1 ELSE exact

NormalizeScore ==
    /\ phase = "scored"
    /\ \E short \in SUBSET {v - Lowest : v \in Values} :
          final' = [n \in DOMAIN raw |-> Scaled(raw[n] - Lowest, short)]
    /\ phase' = "done"
    /\ UNCHANGED <<args, incoming, todo, topology, raw>>

Next == PreScore \/ (\E n \in Node : CountNode(n)) \/ EndPreScore \/ Score \/ NormalizeScore

Spec == Init /\ [][Next]_vars

-----------------------------------------------------------------------------
(* Properties                                                              *)

\* What pod p adds to node n if the two share the key of the addition.
PairWeight(p, n) ==
    TotalWeight({a \in Additions(p) : /\ Label[n][a.key] # Missing
                                      /\ Label[Where[p]][a.key] = Label[n][a.key]})

\* The wish for node n, over every pod there is.
Preference(n) == SumFunctionOnSet([p \in Pod |-> PairWeight(p, n)], Pod)

\* The raw score of a node is what the terms of all pods say about it, two
\* by two.  Pods that were not looked at have nothing to say: the shortcut
\* to pods with affinity leaves nothing out, terms from the class included.
RawIsPreference ==
    phase \in {"scored", "done"} => \A n \in DOMAIN raw : raw[n] = Preference(n)

\* Skip takes the plugin out of the cycle.  Unless the arguments ask for it,
\* that happens only where no node is wished for more than another.
SkipIsHarmless ==
    (phase = "skip" /\ ~(args.ignore /\ ~HasConstraints)) =>
        \A n \in Node : Preference(n) = 0

\* The final scores are in range, keep the order of the raw ones, and use the
\* range in full: the most wished for gets MaxNodeScore, the least gets 0.
\* Negative sums, weights from a class nobody validated among them, included.
FinalFollowsRaw ==
    phase = "done" => \A n, m \in DOMAIN raw :
        /\ final[n] \in 0..MaxNodeScore
        /\ raw[n] <= raw[m] => final[n] <= final[m]
        /\ raw[n] < raw[m] => /\ raw[n] = Min(Values) => final[n] = 0
                              /\ raw[m] = Max(Values) => final[m] = MaxNodeScore

\* Every variable has its type, and no pair stands for a label that is not there.
TypeOK ==
    /\ args \in ArgsSet /\ incoming \in Incoming
    /\ phase \in {"prescore", "count", "score", "scored", "done", "skip", "error"}
    /\ todo \subseteq Node
    /\ topology \in [DOMAIN topology -> Int]
    /\ \A pair \in DOMAIN topology : /\ \E k \in Key, n \in Node : pair = <<k, Label[n][k]>>
                                     /\ pair[2] # Missing
    /\ DOMAIN raw \subseteq Node /\ raw \in [DOMAIN raw -> Int]
    /\ DOMAIN final \subseteq DOMAIN raw /\ final \in [DOMAIN final -> 0..MaxNodeScore]
=============================================================================
