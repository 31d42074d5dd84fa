-------------------------- MODULE InterPodAffinity --------------------------
(***************************************************************************)
(* The filtering half of pkg/interpodaffinity.  PreFilter turns the pods   *)
(* of the snapshot into three maps from topology pairs to counts; Filter   *)
(* answers from the maps alone; preemption clones them and edits the clone *)
(* with AddPod and RemovePod.  The maps hold no zero entry, and Filter     *)
(* reads meaning into that: an empty affinity map is "nobody matches yet". *)
(*                                                                         *)
(* One behaviour is one scheduling cycle of one incoming pod.              *)
(***************************************************************************)
EXTENDS Integers, Sequences, FiniteSets, Functions

CONSTANTS
    Node, Pod,    \* nodes of the snapshot; every pod but the incoming one
    Nowhere,      \* "node" of a pod that is on no node
    Key,          \* topology keys
    Missing,      \* label of a node that lacks the key
    Label,        \* n, k -> value of topology key k on node n
    Incoming,     \* what the incoming pod may ask for, its class included
    Against       \* p -> keys of p's anti-affinity terms that match the pod

\* A term is a topology key and the pods its selector and namespaces match.
Term == [key : Key, matches : SUBSET Pod]

\* The required terms of an incoming pod, and whether it matches all its
\* affinity terms itself.
Request == [affinity : Seq(Term), anti : Seq(Term), selfMatch : BOOLEAN]

ASSUME SetsAssumption ==
    /\ IsFiniteSet(Node) /\ IsFiniteSet(Pod)
    /\ Nowhere \notin Node

ASSUME TermsAssumption ==
    /\ \A r \in Incoming : r \in Request
    /\ Against \in [Pod -> Seq(Key)]
    /\ \A n \in Node : DOMAIN Label[n] = Key

VARIABLES
    incoming,  \* the terms of the pod of this cycle
    phase,     \* "prefilter" -> "ready" -> "dryrun"
    skip,      \* whether PreFilter answered Skip
    snapshot,  \* pod -> node, as PreFilter sees the cluster
    where,     \* pod -> node, as the working copy should see it
    node,      \* the node the working copy was cloned for
    todo,      \* nodes the parallel count has not merged yet
    counts,    \* kind -> topologyToMatchedTermCount of the working copy
    base       \* the preFilterState in the cycle state

vars == <<incoming, phase, skip, snapshot, where, node, todo, counts, base>>

\* existingAntiAffinityCounts, affinityCounts and antiAffinityCounts.
Kind == {"existing", "affinity", "anti"}

-----------------------------------------------------------------------------
(* What one pod adds to the maps                                           *)

AffTerms == incoming.affinity

AntiTerms == incoming.anti

SelfMatch == incoming.selfMatch

KeysOf(terms) == [i \in DOMAIN terms |-> terms[i].key]

\* podMatchesAllAffinityTerms: no terms, no match.
MatchesTerms(terms, p) == terms # <<>> /\ \A i \in DOMAIN terms : p \in terms[i].matches

MatchesAll(p) == MatchesTerms(AffTerms, p)

Matched(terms, p) == {i \in DOMAIN terms : p \in terms[i].matches}

\* Mutant of TermKeys: each affinity term counts on its own.
TermKeysEach(kind, p) ==
    CASE kind = "existing" -> Against[p]
      [] kind = "affinity" -> Restrict(KeysOf(AffTerms), Matched(AffTerms, p))
      [] kind = "anti"     -> Restrict(KeysOf(AntiTerms), Matched(AntiTerms, p))

\* The keys a pod counts for, by position of the term: ALL affinity terms have
\* to match it, but each anti-affinity term counts on its own.
TermKeys(kind, p) ==
    CASE kind = "existing" -> Against[p]
      [] kind = "affinity" -> IF MatchesAll(p) THEN KeysOf(AffTerms) ELSE <<>>
      [] kind = "anti"     -> Restrict(KeysOf(AntiTerms), Matched(AntiTerms, p))

Pair(n, k) == <<k, Label[n][k]>>

PairsOf(n, keys) == {Pair(n, keys[i]) : i \in {j \in DOMAIN keys : Label[n][keys[j]] # Missing}}

Times(keys, k) == Cardinality({i \in DOMAIN keys : keys[i] = k})

Get(m, pair) == IF pair \in DOMAIN m THEN m[pair] ELSE 0

\* Mutant of Bump: an entry stays in the map when its count is down to zero.
BumpKeepingZeros(m, n, keys, value) ==
    [pair \in DOMAIN m \cup PairsOf(n, keys) |->
        IF pair \in PairsOf(n, keys) THEN Get(m, pair) + value * Times(keys, pair[1])
                                     ELSE Get(m, pair)]

\* Mutant of Bump: two terms of one pod with the same key count once.
BumpOnce(m, n, keys, value) ==
    LET sum(pair) == IF pair \in PairsOf(n, keys) THEN Get(m, pair) + value ELSE Get(m, pair)
    IN  [pair \in {q \in DOMAIN m \cup PairsOf(n, keys) : sum(q) # 0} |-> sum(pair)]

\* topologyToMatchedTermCount.update, for every term of one pod: an entry
\* whose count is down to zero is deleted.
Bump(m, n, keys, value) ==
    LET sum(pair) == IF pair \in PairsOf(n, keys)
                     THEN Get(m, pair) + value * Times(keys, pair[1])
                     ELSE Get(m, pair)
    IN  [pair \in {q \in DOMAIN m \cup PairsOf(n, keys) : sum(q) # 0} |-> sum(pair)]

\* After Skip the framework calls neither Filter nor AddPod nor RemovePod of
\* the plugin.
UpdateWithPod(p, value) ==
    counts' = IF skip THEN counts
              ELSE [kind \in Kind |-> Bump(counts[kind], node, TermKeys(kind, p), value)]

-----------------------------------------------------------------------------
(* PreFilter                                                               *)

NoCounts == [kind \in Kind |-> <<>>]

Init ==
    /\ incoming \in Incoming
    /\ phase = "prefilter"
    /\ skip = FALSE
    /\ snapshot \in [Pod -> Node \cup {Nowhere}]
    /\ where = snapshot
    /\ node = Nowhere
    /\ todo = Node
    /\ counts = NoCounts
    /\ base = NoCounts

\* The terms of one kind that count, as <<pod, position>>.
Terms(kind) == UNION {{p} \X DOMAIN TermKeys(kind, p) : p \in Pod}

KeyOf(kind, t) == TermKeys(kind, t[1])[t[2]]

TermsOn(kind, n, k) == {t \in Terms(kind) : snapshot[t[1]] = n /\ KeyOf(kind, t) = k}

KeysOn(kind, n) ==
    {k \in Key : Label[n][k] # Missing /\ TermsOn(kind, n, k) # {}}

\* The goroutines list what each node adds; the lists are then merged, in the
\* order in which the goroutines took their slots.  WorkerSlots has such slots,
\* where maps are merged.
CountNode(n) ==
    /\ phase = "prefilter"
    /\ n \in todo
    /\ todo' = todo \ {n}
    /\ counts' = [kind \in Kind |->
          LET new == {Pair(n, k) : k \in KeysOn(kind, n)}
              old == counts[kind]
          IN  [pair \in DOMAIN old \cup new |->
                  Get(old, pair) + IF pair \in new THEN Cardinality(TermsOn(kind, n, pair[1]))
                                                   ELSE 0]]
    /\ UNCHANGED <<incoming, phase, skip, snapshot, where, node, base>>

\* Mutant of NothingToCheck: the terms of the existing pods are forgotten.
NoOwnTerms == AffTerms = <<>> /\ AntiTerms = <<>>

NothingToCheck == /\ counts["existing"] = <<>>
                  /\ AffTerms = <<>> /\ AntiTerms = <<>>

Skip ==
    /\ phase = "prefilter" /\ todo = {}
    /\ NothingToCheck
    /\ phase' = "ready"
    /\ skip' = TRUE
    /\ UNCHANGED <<incoming, snapshot, where, node, todo, counts, base>>

WriteState ==
    /\ phase = "prefilter" /\ todo = {}
    /\ ~NothingToCheck
    /\ phase' = "ready"
    /\ base' = counts
    /\ UNCHANGED <<incoming, skip, snapshot, where, node, todo, counts>>

-----------------------------------------------------------------------------
(* Dry runs                                                                *)

\* Mutant of Clone: the maps are shared with the copy before.
CloneShared(n) ==
    /\ phase \in {"ready", "dryrun"}
    /\ phase' = "dryrun"
    /\ node' = n
    /\ where' = snapshot
    /\ UNCHANGED <<incoming, skip, snapshot, todo, counts, base>>

Clone(n) ==
    /\ phase \in {"ready", "dryrun"}
    /\ phase' = "dryrun"
    /\ node' = n
    /\ where' = snapshot
    /\ counts' = base
    /\ UNCHANGED <<incoming, skip, snapshot, todo, base>>

AddPod(p) ==
    /\ phase = "dryrun"
    /\ where[p] = Nowhere
    /\ where' = [where EXCEPT ![p] = node]
    /\ UpdateWithPod(p, 1)
    /\ UNCHANGED <<incoming, phase, skip, snapshot, node, todo, base>>

RemovePod(p) ==
    /\ phase = "dryrun"
    /\ where[p] = node
    /\ where' = [where EXCEPT ![p] = Nowhere]
    /\ UpdateWithPod(p, -1)
    /\ UNCHANGED <<incoming, phase, skip, snapshot, node, todo, base>>

Next ==
    \/ \E n \in Node : CountNode(n) \/ Clone(n)
    \/ Skip
    \/ WriteState
    \/ \E p \in Pod : AddPod(p) \/ RemovePod(p)

Spec == Init /\ [][Next]_vars

-----------------------------------------------------------------------------
(* Filter                                                                  *)

CountOn(kind, n, k) == Get(counts[kind], Pair(n, k))

SatisfyExistingPodsAntiAffinity(n) ==
    \A k \in Key : Label[n][k] # Missing => CountOn("existing", n, k) <= 0

SatisfyPodAntiAffinity(n) ==
    \A i \in DOMAIN AntiTerms :
        Label[n][AntiTerms[i].key] # Missing => CountOn("anti", n, AntiTerms[i].key) <= 0

AllKeysOn(n) == \A i \in DOMAIN AffTerms : Label[n][AffTerms[i].key] # Missing

\* Mutant of PodsExist: one satisfied term is enough.
PodsExistForSome(n) == \E i \in DOMAIN AffTerms : CountOn("affinity", n, AffTerms[i].key) > 0

PodsExist(n) == \A i \in DOMAIN AffTerms : CountOn("affinity", n, AffTerms[i].key) > 0

\* The first pod of a series with affinity to itself.
FirstOfSeries == counts["affinity"] = <<>> /\ AffTerms # <<>> /\ SelfMatch

SatisfyPodAffinity(n) == AllKeysOn(n) /\ (PodsExist(n) \/ FirstOfSeries)

FilterStatus(n) ==
    IF skip THEN "Success"
    ELSE IF ~SatisfyPodAffinity(n) THEN "UnschedulableAndUnresolvable"
    ELSE IF SatisfyPodAntiAffinity(n) /\ SatisfyExistingPodsAntiAffinity(n) THEN "Success"
    ELSE "Unschedulable"

-----------------------------------------------------------------------------
(* Properties                                                              *)

Answering == phase \in {"ready", "dryrun"}

\* Every variable has its type, and no map holds an entry that is not positive.
TypeOK ==
    /\ incoming \in Incoming
    /\ phase \in {"prefilter", "ready", "dryrun"}
    /\ skip \in BOOLEAN
    /\ snapshot \in [Pod -> Node \cup {Nowhere}]
    /\ where \in [Pod -> Node \cup {Nowhere}]
    /\ node \in Node \cup {Nowhere}
    /\ todo \subseteq Node
    /\ DOMAIN counts = Kind /\ DOMAIN base = Kind
    /\ \A kind \in Kind : \A pair \in DOMAIN counts[kind] : counts[kind][pair] \in Nat \ {0}

\* The matching terms of the pods in one topology domain, for placement w.
TermsIn(kind, pair, w) ==
    {t \in Terms(kind) : /\ KeyOf(kind, t) = pair[1] /\ w[t[1]] \in Node
                         /\ Label[w[t[1]]][pair[1]] = pair[2]}

AllPairs == UNION {{Pair(n, k) : k \in {j \in Key : Label[n][j] # Missing}} : n \in Node}

FreshCounts(kind, w) ==
    [pair \in {q \in AllPairs : TermsIn(kind, q, w) # {}} |-> Cardinality(TermsIn(kind, pair, w))]

\* The maps of a copy are the maps PreFilter would compute for the pods as the
\* dry run placed them, down to which entries exist: the deletion of zero
\* entries in update (filtering.go:114-117) is what keeps "empty" meaningful.
CountsAreFresh ==
    Answering /\ ~skip => counts = [kind \in Kind |-> FreshCounts(kind, where)]

\* Pod-level meaning of the rules, for request r and placement w: q shares a
\* topology domain with node n.
Shares(w, q, n, k) ==
    w[q] \in Node /\ Label[n][k] # Missing /\ Label[w[q]][k] = Label[n][k]

MatchedInCluster(r, w) == {q \in Pod : MatchesTerms(r.affinity, q) /\ w[q] \in Node}

\* The affinity rule; series is when a pod that matches itself may be first.
AffinityRuleIf(series, r, w, n) ==
    /\ \A i \in DOMAIN r.affinity : Label[n][r.affinity[i].key] # Missing
    /\ \/ \A i \in DOMAIN r.affinity : \E q \in MatchedInCluster(r, w) :
              Shares(w, q, n, r.affinity[i].key)
       \/ r.selfMatch /\ series

\* "if no other pod in the cluster matches the namespace and selector of this
\* pod" (filtering.go:408-410).
AffinityRule(r, w, n) == AffinityRuleIf(MatchedInCluster(r, w) = {}, r, w, n)

AntiRule(r, w, n) ==
    \A i \in DOMAIN r.anti, q \in Pod : q \in r.anti[i].matches => ~Shares(w, q, n, r.anti[i].key)

ExistingRule(w, n) == \A q \in Pod : \A i \in DOMAIN Against[q] : ~Shares(w, q, n, Against[q][i])

StatusIf(affine, r, w, n) ==
    IF ~affine THEN "UnschedulableAndUnresolvable"
    ELSE IF AntiRule(r, w, n) /\ ExistingRule(w, n) THEN "Success"
    ELSE "Unschedulable"

StatusByRule(r, w, n) == StatusIf(AffinityRule(r, w, n), r, w, n)

\* The code asks for an empty map instead, and the map has an entry for a pod
\* only once the pod's node has one of the keys.
Visible(r, w, q) ==
    \E i \in DOMAIN r.affinity : Label[w[q]][r.affinity[i].key] # Missing

NoneVisible(r, w) == \A q \in MatchedInCluster(r, w) : ~Visible(r, w, q)

AffinityAsBuilt(r, w, n) == AffinityRuleIf(NoneVisible(r, w), r, w, n)

StatusAsBuilt(r, w, n) == StatusIf(AffinityAsBuilt(r, w, n), r, w, n)

\* Where the two readings part: pods match, and all are on nodes without a key.
AllHidden(r, w) == r.selfMatch /\ MatchedInCluster(r, w) # {} /\ NoneVisible(r, w)

\* Filter, reading counts, decides what the rules say of the pods themselves
\* (filtering.go:361-442), unless every matching pod is hidden from the maps.
\* A pod that matches all terms need not be the same one for every term.
VerdictIsTheRule ==
    Answering /\ ~skip /\ ~AllHidden(incoming, where) =>
        \A n \in Node : FilterStatus(n) = StatusByRule(incoming, where, n)

\* "we check that if no other pod in the cluster matches the namespace and
\* selector of this pod, [...] then we allow the pod to pass the affinity
\* check" (filtering.go:408-411): a pod passes for being the first of its
\* series only where it is the first.  The code looks for an empty map.
SeriesStartsAlone ==
    Answering /\ ~skip =>
        \A n \in Node : SatisfyPodAffinity(n) /\ ~PodsExist(n)
                           => MatchedInCluster(incoming, where) = {}

\* A node that fails on affinity is not a candidate for preemption: evicting
\* its pods could empty the map and open the self-affinity rule, but a node
\* that fails holds no pod the map counts for it.
EvictionCuresNothing ==
    \A p \in Pod : (RemovePod(p) /\ FilterStatus(node) = "UnschedulableAndUnresolvable")
                      => FilterStatus(node)' = "UnschedulableAndUnresolvable"

UnresolvableIsFinal == [][EvictionCuresNothing]_vars

\* Skip switches Filter off for the cycle, and AddPod with it: every node
\* would have passed, and still would with pods evicted, moved back or added,
\* unless an added one (a nominated pod) has terms against the incoming pod.
AddsNoTerms(s, w) ==
    \A p \in Pod : s[p] = Nowhere /\ w[p] # Nowhere => Against[p] = <<>>

SkipIsSound ==
    Answering /\ skip /\ AddsNoTerms(snapshot, where) =>
        \A n \in Node : StatusByRule(incoming, where, n) = "Success"

\* The maps and their clones implement an oracle that looks at the pods for
\* every answer, with the code's reading of a first pod; only after Skip are
\* there moves it does not follow.
Answers == [n \in Node |-> IF Answering THEN FilterStatus(n) ELSE "none"]

WouldSkip(r, s) ==
    /\ r.affinity = <<>> /\ r.anti = <<>>
    /\ \A p \in Pod : s[p] \in Node =>
          \A i \in DOMAIN Against[p] : Label[s[p]][Against[p][i]] = Missing

Followed(r, s, w) == WouldSkip(r, s) => AddsNoTerms(s, w)

Oracle == INSTANCE FilterOracle
    WITH Request <- Incoming,
         Status <- {"Success", "Unschedulable", "UnschedulableAndUnresolvable"},
         NoAnswer <- "none", Rule <- StatusAsBuilt, Trusted <- Followed,
         request <- incoming, answers <- Answers

ImplementsOracle == Oracle!Spec
=============================================================================
