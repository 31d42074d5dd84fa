-------------------------- MODULE SchedulingCycle --------------------------
(***************************************************************************)
(* Scheduling cycles over a SchedulingClass that changes.  The API server  *)
(* holds the class; an informer copies it into the cache behind the shared *)
(* merger; every plugin reads the cache on its own, at its own PreFilter   *)
(* and again at its own PreScore.  The scheduler runs one cycle at a time, *)
(* on a snapshot; the class and the pods of the cluster change meanwhile.  *)
(*                                                                         *)
(* The Filter of each plugin is the rule it enforces, with one required    *)
(* anti-affinity term on the host and one zone constraint of maxSkew 1;    *)
(* TopologySpread and InterPodAffinity model how the verdicts are reached. *)
(***************************************************************************)
EXTENDS ClassTerms, Integers, FiniteSets, Sequences

CONSTANTS
    Node, NodeLabels, \* the cluster, with labels that do not change
    Pod,              \* pods of one application, created together
    PodSpec,          \* p -> annotated, nodeSelector, required, effective, anti, spread
    Classes,          \* the specs an administrator gives the class
    Absent,           \* no such class: not created yet, deleted, not synced
    Pending, Gone,    \* placement of a pod not bound yet, and of a deleted one
    Nobody,           \* no cycle is running
    Unread,           \* a plugin that has not read the class in this cycle
    MaxUpdates        \* bound on the changes of the class

ASSUME PodSpecAssumption ==
    \A p \in Pod : /\ PodSpec[p].annotated \in BOOLEAN
                   /\ PodSpec[p].anti \in BOOLEAN /\ PodSpec[p].spread \in BOOLEAN

\* What stands for the lack of something is not one of the things.
ASSUME NothingAssumption ==
    /\ Absent \notin Classes /\ Nil \notin Classes \cup {Absent}
    /\ Unread \notin Classes \cup {Nil, Absent}
    /\ Pending \notin Node /\ Gone \notin Node \cup {Pending}
    /\ Nobody \notin Pod
    /\ \A p \in Pod, c \in Classes :
          (PodSpec[p].required # Nil /\ c.required # Nil) =>
              MergeNodeSelectors(PodSpec[p].required, c.required) # Nil

ASSUME BoundAssumption == MaxUpdates \in Nat

VARIABLES
    api,       \* the class on the API server
    cache,     \* the class in the informer's store
    updates,   \* how often the class has changed
    placed,    \* pod -> node, Pending or Gone
    cur,       \* the pod in its scheduling cycle, or Nobody
    stage,     \* extension point of the cycle's next step
    turn,      \* index in Order of the plugin that is called next there
    snapshot,  \* placement as the running cycle sees it
    reads,     \* plugin -> what its PreFilter read
    feasible,  \* nodes that passed every Filter
    seen       \* what the cache held at some time in this cycle (history)

vars == <<api, cache, updates, placed, cur, stage, turn, snapshot, reads, feasible, seen>>

\* The order of the profile in the chart's KubeSchedulerConfiguration.
Plugin == {"interPodAffinity", "nodeAffinity", "topologySpread"}
Order == <<"interPodAffinity", "nodeAffinity", "topologySpread">>

Stages == {"idle", "preFilter", "filter", "preScore", "bind"}

-----------------------------------------------------------------------------
(* The rules                                                               *)

On(n, w) == {q \in Pod : w[q] = n}

\* c is the class as read, or Nil for a pod without the annotation.
NodeRule(p, c, n) ==
    RequiredMatches(IF c = Nil THEN PodSpec[p] ELSE MergeNodeAffinityTerms(PodSpec[p], c),
                    n, NodeLabels[n])

\* The SchedulingClass plugin: the node labels its own arguments require for
\* the pod's class label, and once more the pod's required node affinity.
OwnNodeRule(p, n) ==
    /\ HasLabels(NodeLabels[n], PodSpec[p].effective)
    /\ SelectorMatches(PodSpec[p].required, n)

\* Mutant of HasAnti: the class's terms are lost.
HasOwnAnti(p, c) == PodSpec[p].anti

HasAnti(p, c) == PodSpec[p].anti \/ (c # Nil /\ c.anti)

HasSpread(p, c) == PodSpec[p].spread \/ (c # Nil /\ c.spread)

\* The pod's own merged terms, and those in the specs of the pods on the node.
AntiRule(p, c, n, w) ==
    /\ HasAnti(p, c) => On(n, w) = {}
    /\ \A q \in On(n, w) : ~PodSpec[q].anti

\* The nodes the spread constraint counts: those of the pod's own affinity.
Counted(p) == {n \in Node : "zone" \in DOMAIN NodeLabels[n]
                             /\ RequiredMatches(PodSpec[p], n, NodeLabels[n])}

ZoneCount(p, z, w) ==
    Cardinality({q \in Pod : w[q] \in Counted(p) /\ NodeLabels[w[q]]["zone"] = z})

\* Mutant of SpreadRule: a skew of maxSkew is already refused.
SpreadRuleStrict(p, c, n, w) ==
    HasSpread(p, c) =>
        /\ "zone" \in DOMAIN NodeLabels[n]
        /\ \A m \in Counted(p) :
              ZoneCount(p, NodeLabels[n]["zone"], w) + 1
                - ZoneCount(p, NodeLabels[m]["zone"], w) < 1

SpreadRule(p, c, n, w) ==
    HasSpread(p, c) =>
        /\ "zone" \in DOMAIN NodeLabels[n]
        /\ \A m \in Counted(p) :
              ZoneCount(p, NodeLabels[n]["zone"], w) + 1
                - ZoneCount(p, NodeLabels[m]["zone"], w) <= 1

-----------------------------------------------------------------------------
(* The class and its cache                                                 *)

Init ==
    /\ api \in Classes \cup {Absent}
    /\ cache = Absent     \* SharedMerger ignores whether the cache has synced
    /\ updates = 0
    /\ placed = [p \in Pod |-> Pending]
    /\ cur = Nobody /\ stage = "idle" /\ turn = 1
    /\ snapshot = placed
    /\ reads = [x \in Plugin |-> Unread]
    /\ feasible = {}
    /\ seen = {}

UpdateClass(c) ==
    /\ updates < MaxUpdates
    /\ c # api
    /\ updates' = updates + 1
    /\ api' = c
    /\ UNCHANGED <<cache, placed, cur, stage, turn, snapshot, reads, feasible, seen>>

\* The informer delivers an event, or its first list.
SyncCache ==
    /\ cache # api
    /\ cache' = api
    /\ seen' = IF cur = Nobody THEN seen ELSE seen \cup {api}
    /\ UNCHANGED <<api, updates, placed, cur, stage, turn, snapshot, reads, feasible>>

DeletePod(p) ==
    /\ placed[p] \in Node
    /\ placed' = [placed EXCEPT ![p] = Gone]
    /\ UNCHANGED <<api, cache, updates, cur, stage, turn, snapshot, reads, feasible, seen>>

-----------------------------------------------------------------------------
(* One cycle                                                               *)

BeginCycle(p) ==
    /\ cur = Nobody
    /\ placed[p] = Pending
    /\ cur' = p
    /\ stage' = "preFilter" /\ turn' = 1
    /\ snapshot' = placed
    /\ reads' = [x \in Plugin |-> Unread]
    /\ feasible' = {}
    /\ seen' = {cache}
    /\ UNCHANGED <<api, cache, updates, placed>>

\* Mutant of ClassOf: a class that is not found counts as none named.
ClassOfIfFound(p) == IF PodSpec[p].annotated /\ cache # Absent THEN cache ELSE Nil

\* getSchedulingClass.
ClassOf(p) == IF PodSpec[p].annotated THEN cache ELSE Nil

\* Any status but Success ends the cycle; the queue offers the pod again.
EndCycle ==
    /\ cur' = Nobody
    /\ stage' = "idle" /\ turn' = 1
    /\ UNCHANGED <<api, cache, updates, placed, snapshot, reads, feasible, seen>>

\* The framework calls the plugins of an extension point in their order.
NextPlugin(following) ==
    IF turn = Len(Order) THEN stage' = following /\ turn' = 1
                         ELSE stage' = stage /\ turn' = turn + 1

\* Mutant of PreFilter: the error of the lister is not looked at.
PreFilterUnchecked ==
    /\ stage = "preFilter"
    /\ reads' = [reads EXCEPT ![Order[turn]] = ClassOf(cur)]
    /\ NextPlugin("filter")
    /\ UNCHANGED <<api, cache, updates, placed, cur, snapshot, feasible, seen>>

PreFilter ==
    /\ stage = "preFilter"
    /\ IF ClassOf(cur) = Absent
       THEN EndCycle
       ELSE /\ reads' = [reads EXCEPT ![Order[turn]] = ClassOf(cur)]
            /\ NextPlugin("filter")
            /\ UNCHANGED <<api, cache, updates, placed, cur, snapshot, feasible, seen>>

Fits(p, n) ==
    /\ AntiRule(p, reads["interPodAffinity"], n, snapshot)
    /\ NodeRule(p, reads["nodeAffinity"], n)
    /\ SpreadRule(p, reads["topologySpread"], n, snapshot)
    /\ OwnNodeRule(p, n)

\* With one feasible node left the framework skips scoring.
Filter ==
    /\ stage = "filter"
    /\ LET fit == {n \in Node : Fits(cur, n)}
       IN  IF fit = {}
           THEN EndCycle
           ELSE /\ feasible' = fit
                /\ stage' = IF Cardinality(fit) = 1 THEN "bind" ELSE "preScore"
                /\ UNCHANGED <<api, cache, updates, placed, cur, turn, snapshot, reads, seen>>

\* The second read of the class; only whether it succeeds decides anything.
PreScore ==
    /\ stage = "preScore"
    /\ IF ClassOf(cur) = Absent
       THEN EndCycle
       ELSE /\ NextPlugin("bind")
            /\ UNCHANGED <<api, cache, updates, placed, cur, snapshot, reads, feasible, seen>>

\* Whatever node the scores prefer.
Bind(n) ==
    /\ stage = "bind"
    /\ n \in feasible
    /\ placed' = [placed EXCEPT ![cur] = n]
    /\ cur' = Nobody
    /\ stage' = "idle"
    /\ UNCHANGED <<api, cache, updates, turn, snapshot, reads, feasible, seen>>

Step == PreFilter \/ Filter \/ PreScore \/ \E n \in Node : Bind(n)

Next ==
    \/ \E c \in Classes \cup {Absent} : UpdateClass(c)
    \/ SyncCache
    \/ \E p \in Pod : DeletePod(p) \/ BeginCycle(p)
    \/ Step

Spec == Init /\ [][Next]_vars

\* The scheduling loop and the reflector keep running; the queue orders pods
\* of one priority by time, and offers a rejected pod again after its backoff
\* or the flush of the unschedulable pods, so none is passed over for ever.
Fairness ==
    /\ WF_vars(SyncCache)
    /\ WF_vars(Step)
    /\ \A p \in Pod : SF_vars(BeginCycle(p))

FairSpec == Spec /\ Fairness

-----------------------------------------------------------------------------
(* Properties                                                              *)

\* Every variable has its type.
TypeOK ==
    /\ api \in Classes \cup {Absent} /\ cache \in Classes \cup {Absent}
    /\ updates \in 0..MaxUpdates
    /\ placed \in [Pod -> Node \cup {Pending, Gone}]
    /\ snapshot \in [Pod -> Node \cup {Pending, Gone}]
    /\ cur \in Pod \cup {Nobody}
    /\ stage \in Stages /\ (cur = Nobody <=> stage = "idle")
    /\ turn \in 1..Len(Order)
    /\ reads \in [Plugin -> Classes \cup {Nil, Unread}]
    /\ feasible \subseteq Node
    /\ seen \subseteq Classes \cup {Absent}

Binds(p) == placed[p] = Pending /\ placed'[p] \in Node

\* A pod that names a class is never bound by a plugin that had no class: not
\* before the cache has synced, not after the class was deleted, and not when
\* it was deleted between the PreFilters of two plugins.
FailsClosed ==
    \A p \in Pod : (Binds(p) /\ PodSpec[p].annotated)
        => \A x \in Plugin : reads[x] \in Classes /\ reads[x] \in seen

BoundUnderClass == [][FailsClosed]_vars

\* If the cached class did not change during the cycle, then the node a pod is
\* bound to satisfies all of that class: its node affinity always, and its
\* anti-affinity and spread with respect to the pods that are there at the
\* time of binding or were there at the time of the snapshot.  (Where neither
\* has a term without requirements, see ClassMerge.)
StableClassEnforced ==
    \A p \in Pod : \A c \in seen :
        (/\ Binds(p) /\ PodSpec[p].annotated /\ seen = {c}
         /\ ~HasEmptyTerm(PodSpec[p].required) /\ ~HasEmptyTerm(c.required))
        => LET n == placed'[p]
           IN  /\ RequiredMatches(c, n, NodeLabels[n])
               /\ SelectorMatches(PodSpec[p].required, n)
               /\ c.anti => On(n, placed) = {}
               /\ SpreadRule(p, c, n, snapshot)

EnforcedIfStable == [][StableClassEnforced]_vars

\* Once the class stays on the API server, every pod that names it is bound:
\* reads that failed, or mixed two versions, are made up for by later cycles.
Settled == <>[](api # Absent)

EventuallyBound == Settled => \A p \in Pod : <>(placed[p] # Pending)

\* "spreading is applied to nodes that pass those filters"
\* (podtopologyspread/filtering.go:264), the filters being NodeAffinity's.
SpreadCountsPassingNodes ==
    (stage = "filter" /\ Cardinality(seen) = 1 /\ HasSpread(cur, reads["topologySpread"])) =>
        \A n \in Counted(cur) : NodeRule(cur, reads["nodeAffinity"], n)

\* existingAntiAffinityCounts holds "the number of existing pods that has
\* anti-affinity terms that match the pod" (interpodaffinity/filtering.go:45):
\* no pod joins a node where one has such terms, from its spec or its class.
\* (With a class that never changes.)
ExistingTermsHonoured ==
    \A p, q \in Pod : (p # q /\ Binds(p) /\ updates = 0 /\ api # Absent
                        /\ placed[q] = placed'[p] /\ PodSpec[q].annotated)
        => ~HasAnti(q, api)

ExistingAntiAffinityHonoured == [][ExistingTermsHonoured]_vars
=============================================================================
