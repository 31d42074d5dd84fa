---------------------------- MODULE RequeueHints ----------------------------
(***************************************************************************)
(* Which events bring a rejected pod back to the scheduling queue.  A pod  *)
(* no node accepts waits with the names of the plugins that rejected it;   *)
(* an event offers it again if one of them registered for the event and    *)
(* its queueing hint answers Queue for the object before and after.  The   *)
(* hints see those two objects and the class, and nothing of the cluster,  *)
(* so each has to tell from them whether its Filter may change its mind.   *)
(*                                                                         *)
(* What the queue does around the hints is Kubernetes' own scheduler.  It  *)
(* asks them whatever main.go's feature flags say, since it has its own.   *)
(***************************************************************************)
EXTENDS Integers, FiniteSets, Sequences

CONSTANTS
    Node, Pod,      \* names of nodes and of scheduled pods
    None,           \* a nil object: not created yet, or deleted
    Unassigned,     \* an empty spec.nodeName
    Self,           \* the pod that waits
    NodeStates,     \* n -> the objects node n may be, None among them
    Shapes,         \* p -> what pod p may look like: namespace and labels
    OwnShapes,      \* what the waiting pod may look like
    Local,          \* shapes in its namespace
    Key, Missing,   \* topology keys; a label a node does not have
    OwnPools,       \* pools the pod's own node affinity admits
    AddedPools,     \* pools addedAffinity admits
    Against,        \* shape -> anti-affinity terms of pods that look like it
    Classes, Absent \* merged constraints, by version of the class; no class

\* matches holds the shapes Filter finds; listed those in the namespaces the
\* term names, without the ones only its namespaceSelector finds.  A selector
\* with a negation also matches the hint's nil namespace labels, and then
\* listed has shapes that matches has not; the hint only wakes the pod more
\* often for them, and ClassesAssumption leaves such terms out.
Shape == OwnShapes \cup UNION {Shapes[p] : p \in Pod}
Term == [key : Key, matches : SUBSET Shape, listed : SUBSET Shape]
SpreadConstraint == [key : Key, matches : SUBSET Shape, maxSkew : Int, minDomains : Nat \ {0}]

PodObject == [uid : Pod, node : Node, shape : Shape, terminating : BOOLEAN]

ASSUME NodesAssumption ==
    /\ \A n \in Node : \A s \in NodeStates[n] \ {None} : DOMAIN s.labels = Key
    /\ Unassigned \notin Node

ASSUME ClassesAssumption ==
    /\ Absent \notin Classes
    /\ \A c \in Classes :
          /\ c.affinity \in Seq(Term) /\ c.anti \in Seq(Term)
          /\ c.spread \in Seq(SpreadConstraint)
          /\ \A t \in {c.affinity[i] : i \in DOMAIN c.affinity}
                      \cup {c.anti[i] : i \in DOMAIN c.anti} : t.listed \subseteq t.matches

VARIABLES
    nodes,     \* n -> labels, pool and taint, or None
    pods,      \* p -> uid, node, shape, terminating, or None
    own,       \* shape of the waiting pod
    class,     \* what the merger makes of its class
    status,    \* "queued", "waiting" or "bound"
    rejectors, \* plugins that rejected it in its last cycle
    missed     \* an event since then that no hint can see (history)

vars == <<nodes, pods, own, class, status, rejectors, missed>>

Order == <<"interPodAffinity", "nodeAffinity", "topologySpread">>
Plugin == {Order[i] : i \in DOMAIN Order}

-----------------------------------------------------------------------------
(* The Filters                                                             *)

Alive == {n \in Node : nodes[n] # None}

Scheduled == {p \in Pod : pods[p] # None}

LabelOf(n, k) == nodes[n].labels[k]

\* Pod p is in the topology domain of node n.
SameDomain(p, n, k) == LabelOf(n, k) # Missing /\ LabelOf(pods[p].node, k) = LabelOf(n, k)

MatchesAll(terms, shape) == terms # <<>> /\ \A i \in DOMAIN terms : shape \in terms[i].matches

\* A pod counts for the first-of-a-series rule if its node has one of the keys.
Visible(p) == /\ MatchesAll(class.affinity, pods[p].shape)
              /\ \E i \in DOMAIN class.affinity :
                    LabelOf(pods[p].node, class.affinity[i].key) # Missing

AffinityHolds(n) ==
    LET ts == class.affinity
    IN  /\ \A i \in DOMAIN ts : LabelOf(n, ts[i].key) # Missing
        /\ \/ \A i \in DOMAIN ts : \E p \in Scheduled :
                 MatchesAll(ts, pods[p].shape) /\ SameDomain(p, n, ts[i].key)
           \/ MatchesAll(ts, own) /\ ~\E p \in Scheduled : Visible(p)

\* Terms in the specs of the scheduled pods that refuse the waiting pod.
Refusals(shape) == {t \in Against[shape] : own \in t.matches}

AntiAffinityHolds(n) ==
    \A p \in Scheduled :
        /\ \A i \in DOMAIN class.anti :
              pods[p].shape \in class.anti[i].matches => ~SameDomain(p, n, class.anti[i].key)
        /\ \A t \in Refusals(pods[p].shape) : ~SameDomain(p, n, t.key)

HasKeys(object, cs) == \A i \in DOMAIN cs : object.labels[cs[i].key] # Missing

\* The nodes that count for spreading: those of the pod's own node affinity.
Counted == {n \in Alive : nodes[n].pool \in OwnPools /\ HasKeys(nodes[n], class.spread)}

Matching(c, v) ==
    {p \in Scheduled : /\ pods[p].shape \in c.matches \cap Local
                       /\ ~pods[p].terminating
                       /\ pods[p].node \in Counted /\ LabelOf(pods[p].node, c.key) = v}

SpreadHolds(n) ==
    \A i \in DOMAIN class.spread :
        LET c == class.spread[i]
            domains == {LabelOf(m, c.key) : m \in Counted}
            here == Cardinality(Matching(c, LabelOf(n, c.key))) + IF own \in c.matches THEN 1 ELSE 0
            skew(v) == here - Cardinality(Matching(c, v))
        IN  /\ LabelOf(n, c.key) # Missing
            /\ IF Cardinality(domains) < c.minDomains
               THEN here <= c.maxSkew
               ELSE \A v \in domains : skew(v) <= c.maxSkew

NodeAdmitted(object) == object.pool \in AddedPools \cap class.required

Passes(x, n) ==
    CASE x = "interPodAffinity" -> AffinityHolds(n) /\ AntiAffinityHolds(n)
      [] x = "nodeAffinity"     -> NodeAdmitted(nodes[n])
      [] x = "topologySpread"   -> SpreadHolds(n)

Fits(n) == \A x \in Plugin : Passes(x, n)

\* The first Filter that fails on a node is the one that rejects it.
Rejecting(n) ==
    LET fails == {i \in DOMAIN Order : ~Passes(Order[i], n)}
    IN  Order[CHOOSE i \in fails : \A j \in fails : i <= j]

-----------------------------------------------------------------------------
(* The hints.  TRUE is Queue; old or new is None for creations, deletions. *)

\* podMatchesAllAffinityTerms, without the namespaces of namespaceSelectors.
ListedByAll(terms, object) ==
    terms # <<>> /\ \A i \in DOMAIN terms : object.shape \in terms[i].listed

\* Mutant of AffinityPodHint: an update is looked at like a creation.
AffinityPodHintNewOnly(old, new) ==
    /\ \A object \in {old, new} \ {None} : object.node # Unassigned
    /\ \/ class = Absent
       \/ IF new # None THEN ListedByAll(class.affinity, new) ELSE ListedByAll(class.anti, old)

\* isSchedulableAfterPodChange of pkg/interpodaffinity.
AffinityPodHint(old, new) ==
    /\ \A object \in {old, new} \ {None} : object.node # Unassigned
    /\ \/ class = Absent
       \/ old = None /\ ListedByAll(class.affinity, new)
       \/ new = None /\ ListedByAll(class.anti, old)
       \/ /\ old # None /\ new # None
          /\ \/ ~ListedByAll(class.affinity, old) /\ ListedByAll(class.affinity, new)
             \/ ListedByAll(class.anti, old) /\ ~ListedByAll(class.anti, new)

\* isSchedulableAfterNodeChange of pkg/interpodaffinity.
AffinityNodeHint(old, new) ==
    \/ class = Absent
    \/ \E i \in DOMAIN class.affinity :
          LET k == class.affinity[i].key
          IN  new.labels[k] # Missing /\ (old = None \/ old.labels[k] # new.labels[k])
    \/ \E i \in DOMAIN class.anti :
          LET k == class.anti[i].key
          IN  old = None \/ (old.labels[k] # Missing /\ old.labels[k] # new.labels[k])

\* involvedInTopologySpreading: the waiting pod, or an assigned pod beside it.
Involved(object) ==
    object.uid = Self \/ (object.node # Unassigned /\ object.shape \in Local)

\* isSchedulableAfterPodChange of pkg/podtopologyspread.  With the policies
\* main.go leaves at their defaults a toleration changes nothing.
SpreadPodHint(old, new) ==
    /\ \A object \in {old, new} \ {None} : Involved(object)
    /\ \/ class = Absent
       \/ \E i \in DOMAIN class.spread :
             LET Matches(object) == object # None /\ object.shape \in class.spread[i].matches
             IN  Matches(old) # Matches(new)

\* isSchedulableAfterNodeChange of pkg/podtopologyspread.
SpreadNodeHint(old, new) ==
    LET Has(object) == object # None /\ HasKeys(object, class.spread)
        KeyChanged == \E i \in DOMAIN class.spread :
            old.labels[class.spread[i].key] # new.labels[class.spread[i].key]
    IN  \/ class = Absent
        \/ Has(old) # Has(new)
        \/ Has(old) /\ Has(new) /\ (KeyChanged \/ old.tainted # new.tainted)

\* Mutant of NodeAffinityHint: a node that was admitted before wakes the pod.
NodeAffinityHintAlways(old, new) ==
    /\ new.pool \in AddedPools
    /\ class = Absent \/ new.pool \in class.required

\* isSchedulableAfterNodeChange of pkg/nodeaffinity.
NodeAffinityHint(old, new) ==
    /\ new.pool \in AddedPools
    /\ \/ class = Absent
       \/ /\ new.pool \in class.required
          /\ old = None \/ old.pool \notin class.required

\* EventsToRegister: pod events, and node events but for deletions, which
\* only topology spread asks for.
PodHint(x, old, new) ==
    CASE x = "interPodAffinity" -> AffinityPodHint(old, new)
      [] x = "nodeAffinity"     -> FALSE
      [] x = "topologySpread"   -> SpreadPodHint(old, new)

NodeHint(x, old, new) ==
    CASE x = "interPodAffinity" -> new # None /\ AffinityNodeHint(old, new)
      [] x = "nodeAffinity"     -> new # None /\ NodeAffinityHint(old, new)
      [] x = "topologySpread"   -> SpreadNodeHint(old, new)

-----------------------------------------------------------------------------
(* Events no hint can judge from the objects it is given                   *)

\* An own anti-affinity term lets go of the pod, but the hint asks for one
\* that matched all terms; or only a namespaceSelector finds the pod.
HalfMatched(old, new) ==
    \/ /\ ~ListedByAll(class.anti, old)
       /\ \E i \in DOMAIN class.anti :
             /\ old.shape \in class.anti[i].matches
             /\ new = None \/ new.shape \notin class.anti[i].matches
    \/ /\ new # None /\ MatchesAll(class.affinity, new.shape)
       /\ ~ListedByAll(class.affinity, new)

\* The pods that matched the affinity are gone, and the first-of-a-series
\* rule is open again.
SeriesRestarts(old, new) ==
    /\ MatchesAll(class.affinity, own)
    /\ MatchesAll(class.affinity, old.shape)
    /\ new = None \/ ~MatchesAll(class.affinity, new.shape)

PodBlindSpot(old, new) ==
    class # Absent =>
        IF old = None
        THEN MatchesAll(class.affinity, new.shape) /\ ~ListedByAll(class.affinity, new)
        ELSE \/ new = None /\ Refusals(old.shape) # {}
             \/ HalfMatched(old, new)
             \/ SeriesRestarts(old, new)

\* A node event moves pods whose own terms refuse the waiting pod, or makes
\* room away from them; or takes a key, and with it a series, away; or makes
\* a node count for spreading, or no longer, and leaves its topology alone; or
\* lifts the refusal of addedAffinity from a node the pod's own affinity admits.
NodeBlindSpot(old, new) ==
    class # Absent =>
        \/ \E p \in Scheduled : Refusals(pods[p].shape) # {}
        \/ /\ old # None /\ new # None
           /\ \/ \E i \in DOMAIN class.affinity :
                    LET k == class.affinity[i].key
                    IN  old.labels[k] # Missing /\ new.labels[k] = Missing
              \/ HasKeys(old, class.spread) /\ (old.pool \in OwnPools) # (new.pool \in OwnPools)
              \/ old.pool \in class.required \ AddedPools

-----------------------------------------------------------------------------
(* The cluster, and the queue around it                                    *)

Init ==
    /\ nodes \in [Node -> UNION {NodeStates[n] : n \in Node}]
    /\ \A n \in Node : nodes[n] \in NodeStates[n]
    /\ pods = [p \in Pod |-> None]
    /\ own \in OwnShapes
    /\ class \in Classes \cup {Absent}
    /\ status = "queued"
    /\ rejectors = {}
    /\ missed = FALSE

\* The queue asks the hints of the plugins that rejected the pod: answer is
\* whether one of them says Queue.
Wake(answer, blind) ==
    IF status = "waiting" /\ answer
    THEN /\ status' = "queued"
         /\ UNCHANGED <<rejectors, missed>>
    ELSE /\ missed' = (missed \/ (status = "waiting" /\ blind))
         /\ UNCHANGED <<status, rejectors>>

\* A pod is bound, relabelled or deleted.
PodChange(p, new) ==
    /\ new # pods[p]
    /\ Wake(\E x \in rejectors : PodHint(x, pods[p], new), PodBlindSpot(pods[p], new))
    /\ pods' = [pods EXCEPT ![p] = new]
    /\ UNCHANGED <<nodes, own, class>>

Object(p, n, shape) == [uid |-> p, node |-> n, shape |-> shape, terminating |-> FALSE]

BindPod(p, n, shape) ==
    /\ pods[p] = None
    /\ n \in Alive
    /\ PodChange(p, Object(p, n, shape))

\* Labels change; the namespace and the terms in the spec stay.
RelabelPod(p, shape) ==
    /\ pods[p] # None
    /\ (shape \in Local) = (pods[p].shape \in Local)
    /\ Against[shape] = Against[pods[p].shape]
    /\ PodChange(p, [pods[p] EXCEPT !.shape = shape])

DeletePod(p) == pods[p] # None /\ PodChange(p, None)

\* A deletion timestamp is no event anyone registers for.
TerminatePod(p) ==
    /\ pods[p] # None /\ ~pods[p].terminating
    /\ pods' = [pods EXCEPT ![p].terminating = TRUE]
    /\ missed' = (missed \/ status = "waiting")
    /\ UNCHANGED <<nodes, own, class, status, rejectors>>

\* A node is created, updated or deleted, the last once its pods are gone.
NodeChange(n, new) ==
    /\ new # nodes[n]
    /\ new = None => \A p \in Scheduled : pods[p].node # n
    /\ Wake(\E x \in rejectors : NodeHint(x, nodes[n], new), NodeBlindSpot(nodes[n], new))
    /\ nodes' = [nodes EXCEPT ![n] = new]
    /\ UNCHANGED <<pods, own, class>>

\* The waiting pod is relabelled; it has no node yet.
RelabelOwn(shape) ==
    /\ status # "bound"
    /\ shape # own
    /\ own' = shape
    /\ LET old == Object(Self, Unassigned, own)
           new == Object(Self, Unassigned, shape)
       IN  Wake(\E x \in rejectors : PodHint(x, old, new), TRUE)
    /\ UNCHANGED <<nodes, pods, class>>

\* No event is registered for the class.
ChangeClass(c) ==
    /\ c # class
    /\ class' = c
    /\ missed' = (missed \/ status = "waiting")
    /\ UNCHANGED <<nodes, pods, own, status, rejectors>>

\* The periodic flush of the pods that wait.
Flush ==
    /\ status = "waiting"
    /\ status' = "queued"
    /\ UNCHANGED <<nodes, pods, own, class, rejectors, missed>>

\* Mutant of Attempt: who rejected the pod is not recorded.
AttemptUnrecorded ==
    /\ status = "queued"
    /\ class # Absent /\ Alive # {}
    /\ IF \E n \in Alive : Fits(n) THEN status' = "bound" ELSE status' = "waiting"
    /\ rejectors' = {}
    /\ missed' = FALSE
    /\ UNCHANGED <<nodes, pods, own, class>>

\* A cycle.  A class that is not found is an error, and the pod is offered
\* again after a backoff, whatever happens.
Attempt ==
    /\ status = "queued"
    /\ class # Absent /\ Alive # {}
    /\ IF \E n \in Alive : Fits(n)
       THEN status' = "bound" /\ rejectors' = {}
       ELSE status' = "waiting" /\ rejectors' = {Rejecting(n) : n \in Alive}
    /\ missed' = FALSE
    /\ UNCHANGED <<nodes, pods, own, class>>

Next ==
    \/ \E p \in Pod : \/ \E n \in Node, shape \in Shapes[p] : BindPod(p, n, shape)
                      \/ \E shape \in Shapes[p] : RelabelPod(p, shape)
                      \/ TerminatePod(p)
                      \/ DeletePod(p)
    \/ \E n \in Node : \E new \in NodeStates[n] : NodeChange(n, new)
    \/ \E shape \in OwnShapes : RelabelOwn(shape)
    \/ \E c \in Classes \cup {Absent} : ChangeClass(c)
    \/ Flush
    \/ Attempt

Spec == Init /\ [][Next]_vars

-----------------------------------------------------------------------------
(* Properties                                                              *)

\* Every variable has its type, each scheduled pod is on a node there is, and
\* a pod that waits has a plugin whose hints can wake it.
TypeOK ==
    /\ nodes \in [Node -> UNION {NodeStates[n] : n \in Node}]
    /\ \A n \in Node : nodes[n] \in NodeStates[n]
    /\ pods \in [Pod -> PodObject \cup {None}]
    /\ \A p \in Scheduled : /\ pods[p].uid = p /\ pods[p].node \in Alive
                            /\ pods[p].shape \in Shapes[p]
    /\ own \in OwnShapes
    /\ class \in Classes \cup {Absent}
    /\ status \in {"queued", "waiting", "bound"}
    /\ rejectors \subseteq Plugin
    /\ missed \in BOOLEAN
    /\ status = "waiting" => rejectors # {}

\* A pod the hints leave waiting has nowhere to go: after any sequence of
\* events outside the blind spots named above, each node is still refused by
\* one of the plugins that rejected the pod.  Other plugins' refusals do not
\* help, since their hints are not asked.
WaitingIsHopeless ==
    (status = "waiting" /\ ~missed) =>
        \A n \in Alive : \E x \in rejectors : ~Passes(x, n)

\* Where addedAffinity did not refuse the node before, the node affinity hint
\* has no blind spot and no false alarm: it answers Queue just when the plugin
\* refused the node before, or there was none, and accepts it now.
ExactHint(old, new) ==
    NodeHint("nodeAffinity", old, new)
        <=> NodeAdmitted(new) /\ (old = None \/ ~NodeAdmitted(old))

NodeAffinityHintIsExact ==
    [][\A n \in Node :
          (/\ class # Absent
           /\ nodes[n] # nodes'[n] /\ nodes'[n] # None
           /\ nodes[n] = None \/ nodes[n].pool \in AddedPools)
          => ExactHint(nodes[n], nodes'[n])]_vars

\* "EventsToRegister returns the possible events that may make a failed Pod
\* schedulable [...] deleting an existing Pod may make it schedulable. [...]
\* Updating on an existing Pod's labels (e.g., removal) may make an
\* unschedulable Pod schedulable. [...] adding an assigned Pod may make it
\* schedulable." (interpodaffinity/plugin.go:62-81): such an event on a pod,
\* if it makes a node fit, brings the waiting pod back.
OnPod(p) ==
    \/ DeletePod(p)
    \/ \E shape \in Shape : RelabelPod(p, shape) \/ \E n \in Node : BindPod(p, n, shape)

PodEventsWake ==
    [][(/\ status = "waiting" /\ ~missed
        /\ (\E p \in Pod : OnPod(p)) /\ \E n \in Alive : Fits(n)')
       => status' = "queued"]_vars
=============================================================================
