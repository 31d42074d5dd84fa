# A formal model of cozystack-scheduler

cozystack-scheduler is a Kubernetes scheduler built from four plugins. Three
are copies of upstream plugins (inter-pod affinity, node affinity, topology
spread) that merge the constraints of a pod with those of a cluster-wide
*SchedulingClass* the pod names in an annotation; the fourth is a small filter
of its own. This directory holds TLA+ modules of that program, configurations
that check them with TLC, and proofs checked with TLAPS.

To check everything: `tlasany M.tla` parses a module, `tlc -config X.cfg M`
runs a configuration, `tlapm M.tla` checks the proofs of a module.

## Inventory

| Component | State | Operations | Hard parts | Correct when |
|---|---|---|---|---|
| Class merger (`pkg/merge`) | the informer's store, shared by all plugins; the lineage label keys | `getSchedulingClass`, `MergeNodeAffinity`, `MergeInterPodAffinity`, `MergeTopologySpreadConstraints` | the store lags and may be empty; nothing validates a class | a named class is applied or the pod fails; required terms are ANDed; the class wins; a default selector stays in the pod's application |
| Topology spread, filtering (`pkg/podtopologyspread/filtering.go`, `common.go`) | counts per topology value and two critical paths per constraint, in the cycle state and its clones | `PreFilter`, `Clone`, `AddPod`, `RemovePod`, `Filter` | two paths stand for the minimum of all domains; map order; dry runs | the minimum is right, the incremental verdict is the recomputed one, evictions never hurt |
| Topology spread, scoring (`scoring.go`) | counts, ignored nodes, weights | `PreScore`, `Score`, `NormalizeScore` | the class is read twice; sentinel score; integer division | no missing count is read, scores are in range and in order |
| Inter-pod affinity, filtering (`pkg/interpodaffinity/filtering.go`) | three maps from topology pair to count | `PreFilter`, `Clone`, `AddPod`, `RemovePod`, `Filter` | parallel count into shared slots; deletion of zero entries; "map is empty" has a meaning | maps are what a recount gives; the verdict is the rule on pods; `Skip` and "unresolvable" are safe |
| Inter-pod affinity, scoring (`scoring.go`) | weights per topology pair | `PreScore`, `Score`, `NormalizeScore` | signed sums, normalisation | scores in range and in order |
| Node affinity (`pkg/nodeaffinity`) | the parsed affinity of the cycle, the preferences | `PreFilter`, `Filter`, `PreScore`, `Score`, `NormalizeScore` | PreFilter promises things (Skip, a list of nodes, a conflict) that Filter must keep; the class is read at two extension points | what PreFilter says is true of every node; each preference counts once |
| SchedulingClass plugin (`pkg/schedulingclass`) | required node labels of the cycle | `PreFilter`, `Filter` | none of its own | its labels and the pod's own affinity hold on the node |
| Queueing hints (`isSchedulableAfter...`, `EventsToRegister`) | none; the queue keeps the pods and who rejected them | one function per event | a hint sees two objects and not the cluster; no event for the class; the SchedulingClass plugin registers nothing, so every event wakes the pods it rejects | a pod left waiting has no node to go to |
| Construction, arguments, chart, CRD types, `main` | flags and defaults, fixed at start | `New`, `main` | none | - |

How they interact: the framework calls the plugins one after the other at each
extension point, in the order of the profile in `chart/templates/configmap.yaml`;
each of the three copies calls the merger by itself, so a cycle reads the class
up to seven times. Plugins hand data from one extension point to a later one
through the cycle state, which preemption clones for each candidate node. Inside
one extension point a plugin fans out over nodes with `parallelizer.Until`.
`main.go` builds the plugins with every feature flag off.

What makes the program hard: the class changes while a cycle runs; the cache
lags behind it and may never have been filled; the incremental counts of a dry
run must agree with a recount; and all numbers come from objects that nothing
validates. The hazards are listed one by one in `PROJECT.json`, each with its
line and the properties aimed at it.

## Modules

`MC<Module>` gives each state machine its small instance.

| Module | Models | Role |
|---|---|---|
| `TopologySpread` | `podtopologyspread/filtering.go`, `common.go` | one cycle of one pod: count, fold, write, then dry runs |
| `TopologySpreadProofs` | | proofs: counts and paths, verdicts, the refinement |
| `InterPodAffinity` | `interpodaffinity/filtering.go` | the same for the affinity maps |
| `InterPodAffinityProofs` | | proofs |
| `FilterOracle` | | the abstract specification both of them implement |
| `ClassTerms` | `merge/merger.go`, operators | merging of selectors, labels and terms |
| `ClassMerge` | `merge/merger.go` | the three calls on one pod and class |
| `NodeAffinity` | `nodeaffinity/node_affinity.go` | the plugin over `ClassMerge` |
| `NodeAffinityProofs` | | proofs about the merger and about the plugin |
| `SchedulingCycle` | the plugins together, over a changing class | composes the rules of all plugins with the cache and the API server |
| `SchedulingCycleProofs` | | proofs |
| `Scores` | the framework's range of scores, Go's division | for the modules that score |
| `SpreadScore` | `podtopologyspread/scoring.go` | the scoring of one pod |
| `SpreadScoreProofs` | | proofs |
| `AffinityScore` | `interpodaffinity/scoring.go` | the scoring of one pod |
| `AffinityScoreProofs` | | proofs |
| `WorkerSlots` | the goroutines of `interpodaffinity/scoring.go` | implements `AffinityScore`, which merges a node in one step |
| `RequeueHints` | the `plugin.go` of all three copies, `EventsToRegister` and hints | one waiting pod in a changing cluster |
| `RequeueHintsProofs` | | proofs |
| `OperatorLemmas` | | lemmas the proof modules share: merged selectors, finite sets, sums, extremes, division |

Definitions named *Mutant of X* are variants of `X` with a plausible mistake;
nothing in the specifications uses them. Replacing `X` by its mutant must make
the property named for it in `PROJECT.json` fail.

### FilterOracle

What a filter plugin with precomputed state promises: for every node the answer
of a rule about the request and about where the pods are, on the snapshot and
on every copy that preemption clones and edits, and a copy starts from the
snapshot whatever happened to the one before. The oracle has no counts. Its
constant `Trusted` says after which moves the answers are bound to the rule; on
others they are arbitrary, on that copy only. `ImplementsOracle` in
`TopologySpread` and in `InterPodAffinity` is the refinement: the rule is the
verdict after a count from nothing in the first, a statement about pods and
topology domains in the second (`StatusAsBuilt`), and the parallel count, the
fold and the write are stutters.

### TopologySpread

A behaviour is one cycle. `CountPods` is the parallel count and its sum (each
worker writes its own slot, so no order shows); `FoldValue(c, v)` is one turn of
the loop over the count map, in any order, as Go's `range` has it; `WriteState`
puts the result in the cycle state (`base`). `Clone(n)` starts the dry run of a
node on a copy of `base` with the snapshot's pods, `AddPod` and `RemovePod` edit
that copy for pods of that one node, any number of times and in any order.
`FilterStatus(n)` is what `Filter` answers. Selectors are the sets of pods they
match. The two facts of the caveat at `filtering.go:90-96` are the shape of
`Clone`: one node, one copy.

PreFilter does not count terminating pods, while the dry-run updates do not
look. A copy on which one moved has counts that are no numbers of pods, down to
-1; `CountsMove` says what they are, and `VerdictIsFresh` and `Trusted` are
about the other copies.

### InterPodAffinity

`CountNode(n)` merges what a worker found on node `n`, in any order; `Skip` and
`WriteState` end PreFilter; `Clone`, `AddPod`, `RemovePod` are as above. A term is
its key and the pods it matches; `incoming` holds the merged terms of the pod
and whether it matches its own affinity. After `Skip` the framework does not
call the plugin again in the cycle, so no map follows the moves; `SkipIsSound`
needs the premise that no pod with terms against the incoming one is added
(`AddsNoTerms`: a nominated pod might have some).

The rule (`StatusByRule`) is what the comments say: a pod that matches its own
affinity may be the first of a series "if no other pod in the cluster matches"
(`filtering.go:408-411`). The code decides that from an empty map, and a pod on a
node with none of the keys puts nothing in it (`Visible`), so the exception is open
beside such a pod: `affinity_first_of_series` shows it. `VerdictIsTheRule` holds
unless all pods that match are hidden like that (`AllHidden`). The refinement has no
such premise: its rule (`StatusAsBuilt`) is the code's reading, because what it is
about is the copies and the moves.

### ClassTerms, ClassMerge, NodeAffinity

A node requirement is the set of nodes it admits, a term a set of requirements,
a selector a set of terms. `Merged` is `getSchedulingClass`: no annotation gives
Nil, an unknown class an error. The rules of the Kubernetes libraries (what a
term or a label selector matches) are marked external.

`NodeAffinity` runs the plugin over that: `PreFilter` merges and keeps the
result, or skips, or (for a pod without a class only) turns `metadata.name`
terms into a list of nodes, which may be empty (`conflict`); `PreScore` merges
again. The pod's own preferences are parsed before the merge and the merged ones
after it; either may fail. `MergeInterPodAffinity` merges and parses all four lists
(`Lists`) on every call, so one preferred selector that does not parse fails the
required terms, too. A class with negative weights is among the inputs: nothing
refuses one. The
arguments are no better off: `addedAffinity` is parsed, its weights are not looked
at, so `NoNegativeWeights` is about both. `addedAffinity` is a constant of the instance. The merges the other plugins ask
for are steps in between.

### SchedulingCycle

`api` is the class on the API server, `cache` the informer's copy. `PreFilter`
and `PreScore` are taken once per plugin in profile order, and each reads `cache`
anew. `Filter` evaluates the rules of all plugins on the snapshot with what each
plugin read, `Bind` places the pod. Meanwhile the class and the pods change.
`TopologySpread` and `InterPodAffinity` show that the incremental filters decide
the rules used here, for one anti-affinity term on the host and one zone
constraint. `seen` is a history variable.

### SpreadScore, AffinityScore

In `SpreadScore`, `Decide` is the first read of the class (its error is dropped,
as in the code), `InitPreScoreState` the second. The soft constraints keep their
positions in the list they were filtered from, which only name them. Raw scores are in thousandths
until `Round`; the weights are a table of 1000 ln(size + 2). `Quotient` truncates
as Go does. Counting reads a missing label as the empty string (`Value`), so a node
without the key shares a domain with one whose label is empty; Score tells the two
apart.

In `AffinityScore` one action per node merges what its goroutine added up, in
any order. What one pod adds is a set of records (`Additions`), one for each term of
either side that matches, with the key and the signed weight; `NodeScores` sums them
per key, as `processTerm` does one by one. `PodsToProcess` is the shortcut to pods with affinity;
`RawIsPreference` is stated over all pods. `NormalizeScore` divides two
float64 numbers and truncates the product, so an exact quotient may come out one
too low (`Scaled`): the model lets any subset of the differences do so, except
0 and the full range, where the arithmetic is exact.

### WorkerSlots

PreScore's count at the grain of its goroutines, over the state of `AffinityScore`.
`Count(n)` fills the map of node `n`, `TakeSlot(n)` is the atomic increment,
`PutInSlot(n)` the store, `MergeSlot` one turn of the loop after the join. Inner maps
are on a `heap`, since `scoreMap.append` takes over the first map of a topology key
by reference (`owner`) and adds the later ones to it. A node that found nothing takes
no slot, and Skip is decided by the counter. `ImplementsAffinityScore` is the
refinement: each turn of the merge is a `CountNode`, whatever the order of the slots.

PreFilter (`filtering.go:200-270`) gives out slots in the same way, but merges lists
into maps of its own, so the aliasing is not there; `InterPodAffinity` takes the merge
of a node for one step. A context that ends while `parallelizer.Until` hands out work,
and so leaves nodes uncounted, is not modelled: the cycle ends with it.

### RequeueHints

`status`, `rejectors` and `missed` describe the waiting pod: `Attempt` is a cycle
(it binds the pod, or records for each node the first filter that refused it, as
the framework does), `Flush` the queue's periodic flush. Pods are bound, relabelled,
marked as terminating and deleted, nodes created, relabelled and deleted, the
class changes; each event asks the hints of the plugins that rejected the pod,
if they registered for it, with the objects before and after. The
filters here (`AffinityHolds`, `AntiAffinityHolds`, `SpreadHolds`,
`NodeAdmitted`) are the rules the other modules prove of the incremental ones.

A hint sees no more than the two objects and the class, so it cannot be right
on every event. `PodBlindSpot` and `NodeBlindSpot` name the events on which it is
not, and `missed` records that one has happened. They are the interesting
result of this module, as much as the invariant that nothing is lost outside:

* an existing pod whose own anti-affinity refuses the waiting pod goes away
  (the hint looks at the waiting pod's terms only);
* one of several anti-affinity terms of the waiting pod lets go of a pod (the hint
  asks for a pod that matched all of them);
* a pod that only a `namespaceSelector` finds comes or goes (the terms the hints
  parse list no namespaces for it). A selector that is negated
  (`NotIn`, `DoesNotExist`) matches without labels, too; it is left out
  (`ClassesAssumption`), for there the hint only wakes pods too often;
* the last pod of a series goes, or its node loses the key, and the
  first-of-a-series exception opens;
* the waiting pod itself is relabelled (the affinity hint drops pods without a
  node, the spread hint does not);
* a node joins or leaves the pod's own affinity while its topology labels stay: a
  domain that held the minimum goes, or one that `minDomains` waited for comes;
* `addedAffinity` stops refusing a node whose labels the pod accepted before;
* a pod becomes terminating, or the class changes: no event is registered.

In each of these the pod waits for the flush. Nothing but delay follows, which is
why they are not counted as disagreements, except the first four, which a comment
promises otherwise (`requeue_wake` below). The labels of a pod may change, its terms
may not (`RelabelPod`): the API server refuses it.

## Runs

| Run | Instance | Shows |
|---|---|---|
| `spread` | 4 nodes (one without a zone, one with the empty string as host, one outside the affinity, one tainted), 4 pods (one in another namespace, one terminating), 2 constraints that honour affinity or taints, one asking for more domains than there are; all placements; 55,056 states | `MinIsTracked`, `VerdictIsFresh`, `EvictionNeverHurts`, `CountsMove`, the inductive `PathsInv`, `ImplementsOracle` |
| `affinity` | 4 nodes with and without labels, 4 pods, requests with terms of both kinds, with one affinity term, and with none; 60,687 states | `CountsAreFresh`, `VerdictIsTheRule`, `SkipIsSound`, `UnresolvableIsFinal`, `ImplementsOracle` |
| `affinity_first_of_series` | the same | violation: a pod is the first of its series beside a pod that matches, on a node without labels |
| `class_merge` | 3 nodes; every pair of a pod and a class from two families, or "not found", with and without `addedAffinity`; 91,336 states | `NeverUnclassed`, `RequiredIsAnd`, `ClassWins`, `LineageStaysInApplication`, `PreFilterKeepsItsWord`, `EachPreferenceOnce`, `ScoresFollowWeights` |
| `class_empty_term` | the same | violation: an empty term is lost in the cross product |
| `cycle` | 4 nodes in 2 zones, 3 pods (two name the class), 2 classes, 2 changes of the class; 98,660 states | `BoundUnderClass`, `EnforcedIfStable`, `EventuallyBound` |
| `cycle_spread` | a class that both limits the zone and spreads over zones | violation: nodes the class excludes count |
| `cycle_anti` | a class with anti-affinity | violation: it does not protect a pod already placed |
| `score` | 4 nodes (one without a zone, one with an empty one), 3 pods, all feasible sets, 4 classes, one change between the reads; 135,872 states | `EveryDomainHasACount`, `ScoresInRange`, `FewerPodsScoreMore`, `KeysRequiredIfStable` |
| `affinity_score` | 4 nodes (one unlabelled), 4 pods (one with affinity of its own), preferences of the pod, of 3 classes (one with negative weights, one that matches nobody) and of that pod; every interleaving of the goroutines; 18,342 states | `RawIsPreference`, `SkipIsHarmless`, `FinalFollowsRaw`, `SlotsAreExact`, `UnmergedIsIntact`, `ImplementsAffinityScore` |
| `requeue` | 3 nodes that appear, lose a label, become tainted or change pool in and out of the pod's own affinity and that of the class, 2 pods in 5 shapes, 3 classes and none, a constraint that asks for 2 domains; any sequence of events; 800,209 states | `WaitingIsHopeless`, `NodeAffinityHintIsExact` |
| `requeue_wake` | the same nodes, with pods of an application, of another namespace and one with terms against the waiting pod, and 3 small classes | violation: a pod the affinity waits for is bound and wakes nobody |

Bounds. Two zones and three hosts give domains of one and of several nodes, a
domain with two paths taken and a third on none, and a value equal to the unset
path's empty string. Four pods are enough for a count on a node to pass both
paths in either direction, with any number of moves between; in `affinity` one of
them has two terms on one key, and a pod that matches one of two affinity terms
stands beside pods that match both. In
`affinity_score` three goroutines race for slots and one finds nothing. In `cycle`, two changes are a class replaced,
or deleted and created again, within one cycle or across cycles; `MaxUpdates`
(there and in `score`, where one change fits between the two reads) is the only
bound of a counter in the project, and `EventuallyBound` is about behaviours that
stop changing anyway. `requeue` bounds nothing: its state space is
finite because the objects are. Deadlock is not checked where a cycle ends.

`spread` switches the inclusion policies on, which `main.go` leaves off. With
the flags off a constraint behaves as one that honours affinity and ignores taints,
which is what the zone constraint of the instance does, so both cases are in the run.

Fairness (`SchedulingCycle!Fairness`): the reflector delivers (`SyncCache`), a
started cycle goes on (`Step`), and a pending pod is taken up again and again
(`BeginCycle`, strong: it competes with other pods). The scheduling queue gives
the last: it orders pods of one priority by time, retries errors after a backoff
and flushes the unschedulable pods after a time, so it holds whatever the hints
of `RequeueHints` miss. Nothing is assumed of the administrator or of deletions.
The instance is one where some node is left for each pod whatever the others
take; a pod for which the cluster has no room stays pending, rightly. No other
module has a liveness property: one cycle ends because the code has no loop that
waits.

## What the disagreements mean

* `class_empty_term`: an empty term matches nothing, but joined to another it
  vanishes. `RequiredIsAnd` is what holds without such terms.
* `cycle_spread`: spreading looks at the pod's own node affinity only. A zone the
  class excludes can hold the minimum at zero and make every allowed node fail.
* `cycle_anti`: anti-affinity is symmetric for terms in pod specs (they are read
  from the pods on the nodes), not for terms from a class.
* `affinity_first_of_series`: the comment opens the exception when no pod in the
  cluster matches, the code when `affinityCounts` is empty. A pod that matches on a
  node with none of the topology keys is in no count, and the next pod that matches
  itself is placed alone, on any node with the keys.
* `requeue_wake`: `EventsToRegister` (`interpodaffinity/plugin.go:62-81`) asks for
  three kinds of pod events because each may make a failed pod schedulable, and the
  hint answers Skip to one of each kind that does. The trace binds a pod that only a
  `namespaceSelector` finds: the hint's terms have it unresolved, those of PreFilter
  resolved. With `Classes <- PlainOnly` in the configuration a pod whose own
  anti-affinity refused the waiting one is deleted: the hint never looks at its
  terms. With `Classes <- TwoAnti` a pod stops matching the one of two anti-affinity
  terms that closed a node: the hint takes several terms for one that needs all of
  them to match.

Two premises stand for values that the CRD documents as out of range and that neither
its schema nor the code refuses: `PositiveSkews` (a maxSkew of 0 makes the best node's
raw score the sentinel -1, and others leave 0..100) and `NoNegativeWeights` (a
preference with a negative weight does the same). The framework fails the whole cycle
then.

In `SpreadScore`, `KeysRequiredIfStable` has the premise that the class does not
change between the two reads of PreScore: without it requireAllTopologies may be
decided on another version than the constraints.

## Proofs

Proved for every value of the constants allowed by the named assumptions, which
TLC evaluates on the instances above.

`TopologySpreadProofs` (assumptions `SetsAssumption`, `ConstraintsAssumption`,
`LabelAssumption`, and `CountAssumption`: fewer pods than the initial MatchNum):

* `TypeCorrect`: `TypeOK`, one lemma per kind of step.
* `CountsFollowMoves`: `CountsMove`. Its invariant `CountsInv` adds what holds of
  `base`. A move changes the count of one domain by one because it adds or
  removes one pod of a finite set (`AddTally`, `EvictTally`).
* `TwoPathsSuffice` and `MinimumIsTracked`. "The first path is the minimum" is not
  inductive: when the first path grows, the second takes its place, and one has
  to know that no other value is below it. `PathsInv` says so: the paths hold
  current counts in order, and every value on no path counts at least as much as
  the second path. On a clone that last part breaks, since the second path may
  grow past others; `KeptBut` weakens it for the one value that moves, which is
  where the "one node per copy" of the caveat is used. `FoldKeeps` and `MoveKeeps`
  are the two uses of `Update`; `FirstIsMin` gives the minimum. Counts are below
  `MaxInt32` (`CountsSmall`), so an unset path never hides a value.

From the counts to the answers:

* `IncrementalVerdict`: `VerdictIsFresh`. The counts of a copy are those of a
  recount (`CountsMove`, where no terminating pod moved), the first path is their
  minimum (`MinimumIsTracked`), and Filter reads nothing else.
* `EvictionsHelp`: `EvictionNeverHurts`. An eviction the
  constraint counts lowers the count of the node's own domain by one and the minimum
  by at most one (`MinMovesByOne`), so the skew of that node does not grow.
* `SpreadImplementsOracle`: the refinement, each step a step of the oracle or a
  stutter.

`InterPodAffinityProofs` (assumptions `SetsAssumption`, `TermsAssumption`): the
maps are characterised as numbers of matching terms per topology pair, with an
entry exactly where the number is not zero (`Maps`); `CountUp` (the merge of one
node), `BumpUp` and `BumpDown` (one pod) keep that. The inductive invariant is
`AffinityInv`: types, the maps of the nodes merged so far, the maps of the copy
and of `base`, and what Skip knows. From it:

* `MapsHaveNoZeros` (`TypeOK`) and `MapsAreRecounts` (`CountsAreFresh`).
* `FilterDecidesTheRule` (`VerdictIsTheRule`): a positive entry means a pod in the
  domain with a matching term (`CountIsShared`), and an empty map means that no
  matching pod is on a node with one of the keys (`EmptyIsInvisible`), so that the two
  readings of a first pod agree unless all matching pods are hidden.
* `SkipLosesNothing` (`SkipIsSound`).
* `RefusalIsFinal` (`UnresolvableIsFinal`): by the rule on pods, not by the maps. If
  evicting `p` opened its node, `p` would have been visible and alone, and then it
  would have satisfied every term of that node itself (`EvictionKeepsRefusal`).
* `AffinityImplementsOracle`: the refinement.

`NodeAffinityProofs`, about the merger (assumptions `OutcomesAssumption`: a merged
selector is not the nil pointer, outcomes differ; `TermsAssumption`: terms are
sequences):

* `RequiredSelectorsAreAnded` and `ClassIsNeverLoosened`, from
  `CrossProductIsAnd`, `JoinedTerm` and `LabelsOfBoth`.
* `ClassIsNeverDropped` (`NeverUnclassed`) and `LineageIsConfined`
  (`LineageStaysInApplication`), by the outcome of each merge.

and about the plugin (also `NilAssumption`, and `PreferredAssumption`: weights are
integers, of either sign):

* `UsesTheMerger`: the plugin's behaviours are behaviours of `ClassMerge`, which
  carries the theorems above over.
* `PreFilterIsTruthful` (`PreFilterKeepsItsWord`); its invariant `WordInv` relates
  what PreFilter kept to the merged affinity of the pod.
* `PreferencesAreCountedOnce` (`EachPreferenceOnce`): the merged list is the pod's
  list and the class's one after the other, so its sum over positions splits in two
  (`SumOfUnion`, `SumRenamed`). The invariant `ScoreInv` keeps, next to the scores, that
  the terms come from one merge that did not fail.
* `FinalFollowsWeights` (`ScoresFollowWeights`): order, and distances of a hundredth,
  for any weights; the range where none is negative.

`SpreadScoreProofs` (`ConstraintsAssumption`, `ScalarsAssumption`). `IInv` has four
parts: types; what the first read decided still goes for the class while it has not
changed (`DecidedInv`); an entry of the counts is the number of matching pods on the
nodes of its domain that are already counted (`CountsInv`, over `CountedPods`), and
every domain of a node that is not ignored has one; what Score and NormalizeScore
made of them (`ResultInv`).

* `CountsAreThere` (`EveryDomainHasACount`) and `KeysRequired`
  (`KeysRequiredIfStable`) follow from it.
* `FinalInRange` (`ScoresInRange`) and `FewerPodsDoNotScoreLess`
  (`FewerPodsScoreMore`): with all workers done an entry is the number of pods behind it
  (`CountIsNumberOfPods`), weights are not negative, so a raw score grows with the pods
  (`ScoreGrowsWithPods`), rounding keeps the order, and `Turned` reverses it
  within the range.

`AffinityScoreProofs` (`PodsAssumption`, `IncomingAssumption`; weights of either sign).
`CountInv` says of the shared map what it holds after any part of the merges, in any
order: an entry for each topology pair that a merged node counted something for, and in
it the sum of those additions (`Tallies`). `ResultInv` ties the scores to it.

* `ScoreIsTheWish` (`RawIsPreference`): the map groups the additions by pair, the wish
  groups them by pod, and a finite sum does not depend on the grouping (`SumByGroup`).
  Pods that were not looked at have no additions.
* `SkippingIsHarmless`, `TypesHold`, and `FinalKeepsOrder` (`FinalFollowsRaw`) for
  every choice of the products that the float arithmetic truncates: an inexact
  quotient lies between its neighbours anyway.

`RequeueHintsProofs` (`NodesAssumption`, `ClassesAssumption`). `WaitingIsHopeless` is
not inductive: it says nothing of a node that does not exist yet, and when that is
created, a hint of inter-pod affinity is right to be silent only if the plugin can
refuse at all. `Stuck` adds that (`HasTerms`), and that the class was found. Each kind
of event has a lemma for each plugin that may have rejected the pod: a refusal
stands, or the hint wakes the pod, or the event is in a blind spot.

* `TypesHold`, `WaitingPodsAreHopeless`, and `NodeHintIsExact`
  (`NodeAffinityHintIsExact`).

A node that joins the pod's own affinity is in `NodeBlindSpot` because of this proof:
it may be the domain that `minDomains` waits for. The constraint of `MCRequeueHints`
asks for two domains, and its nodes join and leave, so that the run meets the case.

`OperatorLemmas` has no assumptions. Sums in the models are folds over finite sets, and
the library's induction theorems take an operator, which these provers cannot
instantiate. The lemmas go round that: strict inclusion is well-founded on the
finite subsets of a set, so a non-empty set of counterexamples has a minimal member
(`MinimalSet`), and what holds of the empty set and survives adding an element
holds of the set (`SetInduction`, over a set of subsets in place of a predicate).
`SumSplits`, `SumOfUnion`, `SumRenamed` and `SumByGroup` follow, so no sum is left to
the runs alone.

Only model-checked: liveness (`EventuallyBound`), which is out of reach of this
prover, as is ENABLED; that `WorkerSlots` implements `AffinityScore`; and the runs that expect a violation, which need no more than
their counterexample.

## Not modelled

* Construction of the plugins, decoding of arguments, the API types, the chart:
  no state and no concurrency; their outcome shows as constants.
* The fallbacks for a disabled PreFilter or PreScore: the chart's profile enables
  both.
* Preemption, nominated pods and scores inside `SchedulingCycle`: the dry runs are
  in the filter modules, where any sequence of moves on a copy is possible; the
  cycle binds any feasible node, so whatever the scores prefer is covered.
* In `RequeueHints`, tolerations the waiting pod gains: they matter to no constraint
  under the policies `main.go` leaves at their defaults.
* JSON decoding of the cached object, namespaces and selector syntax: they appear
  as the sets of pods or nodes that match, or as an error.
* The goroutines of topology spread: its PreFilter gives each node a slot of its own,
  its PreScore adds to atomic counters, so their order cannot show.
* What a cycle that read two versions of a class should do: the code says nothing, and
  `EnforcedIfStable` and `KeysRequiredIfStable` are about the other cycles.
* The scheduling queue's retry: that a failed or rejected pod is taken up again is
  the fairness of `BeginCycle`, not something `EventuallyBound` shows.
* A nominated pod whose anti-affinity goes unseen after `Skip` (`AddsNoTerms`).

## What could come next

Preemption as a step of `SchedulingCycle`, with the oracle as its filter; a theorem that links
`AntiAffinityHolds` and `SpreadHolds` of `RequeueHints` to the oracle's rules of the two
filter modules, which the text above relates in words.
