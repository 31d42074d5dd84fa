------------------------- MODULE RequeueHintsProofs -------------------------
(***************************************************************************)
(* What a waiting pod can rely on, for every cluster, class and sequence   *)
(* of events.                                                              *)
(*                                                                         *)
(* WaitingIsHopeless is not inductive: a node that is created is judged by *)
(* the hints of the plugins that rejected the pod, so the invariant has to *)
(* remember that each of them had something to reject it for.              *)
(***************************************************************************)
EXTENDS RequeueHints, TLAPS

\* Inter-pod affinity never rejects a pod nobody has terms for.
HasTerms ==
    \/ class.affinity # <<>> \/ class.anti # <<>>
    \/ \E p \in Scheduled : Refusals(pods[p].shape) # {}

\* The inductive invariant of a pod that waits.
Stuck ==
    (status = "waiting" /\ ~missed) =>
        /\ class # Absent
        /\ "interPodAffinity" \in rejectors => HasTerms
        /\ \A n \in Alive : \E x \in rejectors : ~Passes(x, n)

IInv == TypeOK /\ Stuck

-----------------------------------------------------------------------------
(* What the lemmas about events assume of a step                           *)

\* An event about pod p: it is bound, relabelled or deleted.
PodEvent(p, new) ==
    /\ new # pods[p]
    /\ pods' = [pods EXCEPT ![p] = new]
    /\ UNCHANGED <<nodes, own, class>>
    /\ new # None =>
          /\ new \in PodObject /\ new.uid = p /\ new.node \in Alive /\ new.shape \in Shapes[p]
          /\ IF pods[p] = None THEN ~new.terminating
             ELSE /\ new.node = pods[p].node /\ new.terminating = pods[p].terminating
                  /\ (new.shape \in Local) = (pods[p].shape \in Local)
                  /\ Against[new.shape] = Against[pods[p].shape]

\* An event about node n.
NodeEvent(n, new) ==
    /\ new # nodes[n] /\ new \in NodeStates[n]
    /\ new = None => \A p \in Scheduled : pods[p].node # n
    /\ nodes' = [nodes EXCEPT ![n] = new]
    /\ UNCHANGED <<pods, own, class>>

LEMMA EmptyDomain ==
    ASSUME NEW S, NEW s \in Seq(S), \A i \in DOMAIN s : FALSE
    PROVE  s = <<>>
  <1>1. Len(s) \in Nat /\ DOMAIN s = 1 .. Len(s)
    OBVIOUS
  <1>2. Len(s) = 0
    BY <1>1
  <1> QED
    BY <1>2

\* A term the namespaces find for a pod is one the pod matches.
LEMMA ListedMatches ==
    ASSUME TypeOK, class # Absent, NEW object
    PROVE  /\ ListedByAll(class.affinity, object) => MatchesAll(class.affinity, object.shape)
           /\ \A i \in DOMAIN class.anti :
                 object.shape \in class.anti[i].listed => object.shape \in class.anti[i].matches
  <1> USE DEF TypeOK
  <1>1. class \in Classes
    OBVIOUS
  <1>2. \A t \in {class.affinity[i] : i \in DOMAIN class.affinity}
                 \cup {class.anti[i] : i \in DOMAIN class.anti} : t.listed \subseteq t.matches
    BY <1>1, ClassesAssumption
  <1>3. /\ \A i \in DOMAIN class.affinity : class.affinity[i].listed \subseteq class.affinity[i].matches
        /\ \A i \in DOMAIN class.anti : class.anti[i].listed \subseteq class.anti[i].matches
    BY <1>2
  <1> QED
    BY <1>3 DEF ListedByAll, MatchesAll

-----------------------------------------------------------------------------
(* Pod events                                                              *)

\* Unless it is woken, or the event is in a blind spot, a pod that inter-pod
\* affinity refuses on a node is refused there after a pod event.
LEMMA AffinityPodEvent ==
    ASSUME TypeOK, class # Absent, NEW p \in Pod, NEW new, PodEvent(p, new),
           ~PodBlindSpot(pods[p], new), ~AffinityPodHint(pods[p], new), NEW n \in Alive
    PROVE  AffinityHolds(n)' => AffinityHolds(n)
  <1> DEFINE old == pods[p]
             ts == class.affinity
  <1>1. /\ pods' \in [Pod -> PodObject \cup {None}] /\ pods'[p] = new
        /\ \A q \in Pod \ {p} : pods'[q] = pods[q]
        /\ pods \in [Pod -> PodObject \cup {None}] /\ nodes' = nodes /\ own' = own /\ class' = class
    BY DEF PodEvent, TypeOK
  <1>2. \A object \in {old, new} \ {None} : object.node # Unassigned
    BY NodesAssumption DEF PodEvent, TypeOK, Scheduled, Alive
  <1>3. ListedByAll(ts, new) => old # None /\ (new # None => ListedByAll(ts, old))
    BY <1>2 DEF AffinityPodHint
  <1>4. new # None /\ MatchesAll(ts, new.shape) => ListedByAll(ts, new)
    BY DEF PodBlindSpot, HalfMatched
  <1>5. new # None /\ MatchesAll(ts, new.shape) =>
            old # None /\ MatchesAll(ts, old.shape) /\ new.node = old.node
    BY <1>3, <1>4, ListedMatches DEF PodEvent
  <1>6. old # None /\ MatchesAll(ts, own) /\ MatchesAll(ts, old.shape) =>
            new # None /\ MatchesAll(ts, new.shape) /\ new.node = old.node
    BY DEF PodBlindSpot, SeriesRestarts, PodEvent
  <1>7. \A q \in Pod : \A k : SameDomain(q, n, k)' <=>
            LabelOf(n, k) # Missing /\ LabelOf(pods'[q].node, k) = LabelOf(n, k)
    BY <1>1 DEF SameDomain, LabelOf
  <1>8. \A q \in Scheduled' : MatchesAll(ts, pods'[q].shape) =>
            q \in Scheduled /\ MatchesAll(ts, pods[q].shape) /\ pods'[q].node = pods[q].node
    BY <1>1, <1>5 DEF Scheduled
  <1>9. MatchesAll(ts, own) => \A q \in Scheduled : Visible(q) =>
            q \in Scheduled' /\ Visible(q)'
    BY <1>1, <1>6 DEF Scheduled, Visible, LabelOf, MatchesAll
  <1>10. SUFFICES ASSUME AffinityHolds(n)' PROVE AffinityHolds(n)
    OBVIOUS
  <1>11. \A i \in DOMAIN ts : LabelOf(n, ts[i].key) # Missing
    BY <1>1, <1>10 DEF AffinityHolds, LabelOf
  <1>12. CASE \A i \in DOMAIN ts : \E q \in Scheduled' :
                 MatchesAll(ts, pods'[q].shape) /\ SameDomain(q, n, ts[i].key)'
    <2>1. \A i \in DOMAIN ts : \E q \in Scheduled :
                 MatchesAll(ts, pods[q].shape) /\ SameDomain(q, n, ts[i].key)
      BY <1>1, <1>7, <1>8, <1>12 DEF SameDomain, Scheduled
    <2> QED
      BY <1>11, <2>1 DEF AffinityHolds
  <1>13. CASE MatchesAll(ts, own) /\ ~\E q \in Scheduled' : Visible(q)'
    BY <1>9, <1>11, <1>13 DEF AffinityHolds
  <1> QED
    <2>1. \/ \A i \in DOMAIN ts : \E q \in Scheduled' :
                 MatchesAll(ts, pods'[q].shape) /\ SameDomain(q, n, ts[i].key)'
          \/ MatchesAll(ts, own) /\ ~\E q \in Scheduled' : Visible(q)'
      BY <1>1, <1>10 DEF AffinityHolds, MatchesAll
    <2> QED
      BY <1>12, <1>13, <2>1

LEMMA AntiAffinityPodEvent ==
    ASSUME TypeOK, class # Absent, NEW p \in Pod, NEW new, PodEvent(p, new),
           ~PodBlindSpot(pods[p], new), ~AffinityPodHint(pods[p], new), NEW n \in Alive
    PROVE  AntiAffinityHolds(n)' => AntiAffinityHolds(n)
  <1> DEFINE old == pods[p]
  <1>1. /\ pods' \in [Pod -> PodObject \cup {None}] /\ pods'[p] = new
        /\ \A q \in Pod \ {p} : pods'[q] = pods[q]
        /\ pods \in [Pod -> PodObject \cup {None}] /\ nodes' = nodes /\ own' = own /\ class' = class
    BY DEF PodEvent, TypeOK
  <1>2. \A object \in {old, new} \ {None} : object.node # Unassigned
    BY NodesAssumption DEF PodEvent, TypeOK, Scheduled, Alive
  <1>3. old # None => \/ Refusals(old.shape) = {}
                      \/ /\ new # None /\ new.node = old.node
                         /\ Refusals(new.shape)' = Refusals(old.shape)
    BY <1>1 DEF PodBlindSpot, PodEvent, Refusals
  <1>4. old # None => \A i \in DOMAIN class.anti : old.shape \in class.anti[i].matches =>
            new # None /\ new.shape \in class.anti[i].matches
    <2>1. SUFFICES ASSUME old # None, NEW i \in DOMAIN class.anti,
                          old.shape \in class.anti[i].matches
                   PROVE  new # None /\ new.shape \in class.anti[i].matches
      OBVIOUS
    <2>2. CASE ListedByAll(class.anti, old)
      <3>1. new # None /\ ListedByAll(class.anti, new)
        BY <1>2, <2>1, <2>2 DEF AffinityPodHint
      <3> QED
        BY <2>1, <3>1, ListedMatches DEF ListedByAll
    <2>3. CASE ~ListedByAll(class.anti, old)
      BY <2>1, <2>3 DEF PodBlindSpot, HalfMatched
    <2> QED
      BY <2>2, <2>3
  <1>5. SUFFICES ASSUME AntiAffinityHolds(n)', NEW q \in Scheduled
                 PROVE  /\ \A i \in DOMAIN class.anti :
                              pods[q].shape \in class.anti[i].matches => ~SameDomain(q, n, class.anti[i].key)
                        /\ \A t \in Refusals(pods[q].shape) : ~SameDomain(q, n, t.key)
    BY DEF AntiAffinityHolds
  <1>6. CASE q # p
    <2>1. q \in Scheduled' /\ pods'[q] = pods[q]
      BY <1>1, <1>6 DEF Scheduled
    <2>2. \A k : SameDomain(q, n, k)' <=> SameDomain(q, n, k)
      BY <1>1, <2>1 DEF SameDomain, LabelOf
    <2>3. Refusals(pods[q].shape)' = Refusals(pods[q].shape)
      BY <1>1, <2>1 DEF Refusals
    <2> QED
      BY <1>1, <1>5, <2>1, <2>2, <2>3 DEF AntiAffinityHolds
  <1>7. CASE q = p
    <2>1. old # None
      BY <1>7 DEF Scheduled
    <2>2. ASSUME NEW i \in DOMAIN class.anti, old.shape \in class.anti[i].matches
          PROVE  ~SameDomain(p, n, class.anti[i].key)
      <3>1. new # None /\ new.shape \in class.anti[i].matches /\ new.node = old.node
        BY <1>4, <2>1, <2>2 DEF PodEvent
      <3>2. p \in Scheduled' /\ ~SameDomain(p, n, class.anti[i].key)'
        BY <1>1, <1>5, <3>1 DEF AntiAffinityHolds, Scheduled
      <3> QED
        BY <1>1, <3>1, <3>2 DEF SameDomain, LabelOf
    <2>3. ASSUME NEW t \in Refusals(old.shape) PROVE ~SameDomain(p, n, t.key)
      <3>1. new # None /\ new.node = old.node /\ t \in Refusals(new.shape)'
        BY <1>3, <2>1, <2>3
      <3>2. p \in Scheduled' /\ ~SameDomain(p, n, t.key)'
        BY <1>1, <1>5, <3>1 DEF AntiAffinityHolds, Scheduled
      <3> QED
        BY <1>1, <3>1, <3>2 DEF SameDomain, LabelOf
    <2> QED
      BY <1>7, <2>2, <2>3
  <1> QED
    BY <1>6, <1>7

\* A pod event that does not wake the pod leaves every count of its spread
\* constraints as it is.
LEMMA SpreadPodEvent ==
    ASSUME TypeOK, class # Absent, NEW p \in Pod, NEW new, PodEvent(p, new),
           ~SpreadPodHint(pods[p], new), NEW n \in Alive
    PROVE  SpreadHolds(n)' => SpreadHolds(n)
  <1> DEFINE old == pods[p]
  <1>1. /\ pods' \in [Pod -> PodObject \cup {None}] /\ pods'[p] = new
        /\ \A q \in Pod \ {p} : pods'[q] = pods[q]
        /\ pods \in [Pod -> PodObject \cup {None}] /\ nodes' = nodes /\ own' = own /\ class' = class
    BY DEF PodEvent, TypeOK
  <1>2. Counted' = Counted /\ \A m, k : LabelOf(m, k)' = LabelOf(m, k)
    BY <1>1 DEF Counted, Alive, HasKeys, LabelOf
  <1>3. \A object \in {old, new} \ {None} : object.node # Unassigned
    BY NodesAssumption DEF PodEvent, TypeOK, Scheduled, Alive
  <1>4. ASSUME NEW i \in DOMAIN class.spread, NEW v
        PROVE  Matching(class.spread[i], v)' = Matching(class.spread[i], v)
    <2> DEFINE c == class.spread[i]
               Counts(object) == /\ object # None /\ object.shape \in c.matches \cap Local
                                 /\ ~object.terminating
                                 /\ object.node \in Counted /\ LabelOf(object.node, c.key) = v
    <2>1. Counts(old) <=> Counts(new)
      <3>1. CASE \E object \in {old, new} \ {None} : ~Involved(object)
        <4>1. PICK object \in {old, new} \ {None} : object.shape \notin Local
          BY <1>3, <3>1 DEF Involved
        <4> QED
          BY <4>1 DEF PodEvent
      <3>2. CASE \A object \in {old, new} \ {None} : Involved(object)
        <4>1. (old # None /\ old.shape \in c.matches) = (new # None /\ new.shape \in c.matches)
          BY <3>2 DEF SpreadPodHint
        <4>2. CASE old = None \/ new = None
          BY <4>1, <4>2
        <4>3. CASE old # None /\ new # None
          BY <4>1, <4>3 DEF PodEvent
        <4> QED
          BY <4>2, <4>3
      <3> QED
        BY <3>1, <3>2
    <2>2. Matching(c, v) = {q \in Pod : Counts(pods[q])}
      BY DEF Matching, Scheduled
    <2>3. Matching(c, v)' = {q \in Pod : Counts(pods'[q])}
      BY <1>1, <1>2 DEF Matching, Scheduled
    <2> HIDE DEF Counts
    <2> QED
      BY <1>1, <2>1, <2>2, <2>3
  <1> QED
    BY <1>1, <1>2, <1>4 DEF SpreadHolds

LEMMA PodEventKeepsRefusal ==
    ASSUME TypeOK, class # Absent, NEW p \in Pod, NEW new, PodEvent(p, new),
           ~PodBlindSpot(pods[p], new), NEW x \in Plugin, ~PodHint(x, pods[p], new), NEW n \in Alive
    PROVE  Passes(x, n)' => Passes(x, n)
  <1>1. x \in {"interPodAffinity", "nodeAffinity", "topologySpread"}
    BY DEF Plugin, Order
  <1>2. CASE x = "interPodAffinity"
    <2>1. ~AffinityPodHint(pods[p], new)
      BY <1>2 DEF PodHint
    <2> QED
      BY <1>2, <2>1, AffinityPodEvent, AntiAffinityPodEvent DEF Passes
  <1>3. CASE x = "nodeAffinity"
    BY <1>3 DEF Passes, NodeAdmitted, PodEvent
  <1>4. CASE x = "topologySpread"
    <2>1. ~SpreadPodHint(pods[p], new)
      BY <1>4 DEF PodHint
    <2> QED
      BY <1>4, <2>1, SpreadPodEvent DEF Passes
  <1> QED
    BY <1>1, <1>2, <1>3, <1>4

-----------------------------------------------------------------------------
(* Node events                                                             *)

\* What a node event leaves alone.
LEMMA NodeEventFrame ==
    ASSUME TypeOK, NEW m \in Node, NEW new, NodeEvent(m, new)
    PROVE  /\ nodes' \in [Node -> UNION {NodeStates[n] : n \in Node}]
           /\ nodes'[m] = new /\ \A n \in Node \ {m} : nodes'[n] = nodes[n]
           /\ pods' = pods /\ own' = own /\ class' = class /\ Scheduled' = Scheduled
           /\ \A k : LabelOf(m, k)' = new.labels[k] /\ LabelOf(m, k) = nodes[m].labels[k]
           /\ \A n \in Node \ {m} : \A k : LabelOf(n, k)' = LabelOf(n, k)
           /\ \A p \in Scheduled : pods[p].node \in Node
           /\ nodes[m] = None \/ new = None => \A p \in Scheduled : pods[p].node # m
  <1>1. nodes' = [nodes EXCEPT ![m] = new] /\ new \in UNION {NodeStates[n] : n \in Node}
    BY DEF NodeEvent
  <1>2. nodes \in [Node -> UNION {NodeStates[n] : n \in Node}]
    BY DEF TypeOK
  <1>3. /\ nodes' \in [Node -> UNION {NodeStates[n] : n \in Node}]
        /\ nodes'[m] = new /\ \A n \in Node \ {m} : nodes'[n] = nodes[n]
    BY <1>1, <1>2
  <1> QED
    BY <1>3 DEF NodeEvent, TypeOK, LabelOf, Scheduled, Alive

LEMMA AffinityNodeEvent ==
    ASSUME TypeOK, class # Absent, NEW m \in Node, NEW new, NodeEvent(m, new),
           ~NodeBlindSpot(nodes[m], new), new # None => ~AffinityNodeHint(nodes[m], new),
           NEW n \in Alive', nodes[n] # None
    PROVE  /\ AffinityHolds(n)' => AffinityHolds(n)
           /\ AntiAffinityHolds(n)' => AntiAffinityHolds(n)
  <1> DEFINE old == nodes[m]
  <1>0. /\ nodes'[m] = new /\ \A l \in Node \ {m} : nodes'[l] = nodes[l]
        /\ pods' = pods /\ own' = own /\ class' = class /\ Scheduled' = Scheduled
        /\ \A k : LabelOf(m, k)' = new.labels[k] /\ LabelOf(m, k) = nodes[m].labels[k]
        /\ \A l \in Node \ {m} : \A k : LabelOf(l, k)' = LabelOf(l, k)
        /\ \A p \in Scheduled : pods[p].node \in Node
        /\ nodes[m] = None \/ new = None => \A p \in Scheduled : pods[p].node # m
    BY NodeEventFrame
  <1> USE <1>0
  <1>1. new # None =>
          /\ \A i \in DOMAIN class.affinity :
                LET k == class.affinity[i].key
                IN  new.labels[k] = Missing \/ (old # None /\ old.labels[k] = new.labels[k])
          /\ \A i \in DOMAIN class.anti :
                LET k == class.anti[i].key
                IN  old # None /\ (old.labels[k] = Missing \/ old.labels[k] = new.labels[k])
    BY DEF AffinityNodeHint
  <1>2. new # None /\ old # None => \A i \in DOMAIN class.affinity :
            old.labels[class.affinity[i].key] = new.labels[class.affinity[i].key]
    BY <1>1 DEF NodeBlindSpot
  <1>3. \A p \in Scheduled : Refusals(pods[p].shape) = {}
    BY DEF NodeBlindSpot
  <1>4. n \in Node /\ (n = m => old # None /\ new # None)
    BY DEF Alive
  <1>5. \A p \in Scheduled : pods[p].node = m => old # None /\ new # None
    OBVIOUS
  <1>6. AffinityHolds(n)' => AffinityHolds(n)
    <2> DEFINE keys == {class.affinity[i].key : i \in DOMAIN class.affinity}
    <2>1. \A k \in keys : LabelOf(n, k)' = LabelOf(n, k)
      BY <1>2, <1>4
    <2>2. \A k \in keys, p \in Scheduled : LabelOf(pods[p].node, k)' = LabelOf(pods[p].node, k)
      BY <1>2, <1>5
    <2>3. \A k \in keys, p \in Scheduled : SameDomain(p, n, k)' <=> SameDomain(p, n, k)
      BY <2>1, <2>2 DEF SameDomain
    <2>4. \A p \in Scheduled : Visible(p)' <=> Visible(p)
      BY <2>2 DEF Visible, MatchesAll
    <2>5. \A i \in DOMAIN class.affinity : class.affinity[i].key \in keys
      OBVIOUS
    <2> HIDE DEF keys
    <2> QED
      BY <2>1, <2>3, <2>4, <2>5 DEF AffinityHolds, MatchesAll
  <1>7. AntiAffinityHolds(n)' => AntiAffinityHolds(n)
    <2>1. SUFFICES ASSUME AntiAffinityHolds(n)', NEW p \in Scheduled, NEW i \in DOMAIN class.anti,
                          pods[p].shape \in class.anti[i].matches, SameDomain(p, n, class.anti[i].key)
                   PROVE  FALSE
      BY <1>3 DEF AntiAffinityHolds
    <2> DEFINE k == class.anti[i].key
    <2>2. ~SameDomain(p, n, k)'
      BY <2>1 DEF AntiAffinityHolds
    <2>3. LabelOf(n, k) # Missing /\ LabelOf(pods[p].node, k) = LabelOf(n, k)
      BY <2>1 DEF SameDomain
    <2>4. LabelOf(n, k)' = LabelOf(n, k)
      BY <1>1, <1>4, <2>3
    <2>5. LabelOf(pods[p].node, k)' = LabelOf(pods[p].node, k)
      BY <1>1, <1>5, <2>3
    <2> QED
      BY <2>2, <2>3, <2>4, <2>5 DEF SameDomain
  <1> QED
    BY <1>6, <1>7

\* A node event that does not wake the pod leaves the nodes that count for
\* spreading, and their domains, as they are.
LEMMA SpreadNodeEvent ==
    ASSUME TypeOK, class # Absent, NEW m \in Node, NEW new, NodeEvent(m, new),
           ~NodeBlindSpot(nodes[m], new), ~SpreadNodeHint(nodes[m], new),
           NEW n \in Alive', SpreadHolds(n)'
    PROVE  nodes[n] # None /\ SpreadHolds(n)
  <1> DEFINE old == nodes[m]
             cs == class.spread
             Has(object) == object # None /\ HasKeys(object, cs)
  <1>0. /\ nodes'[m] = new /\ \A l \in Node \ {m} : nodes'[l] = nodes[l]
        /\ pods' = pods /\ own' = own /\ class' = class /\ Scheduled' = Scheduled
        /\ \A k : LabelOf(m, k)' = new.labels[k] /\ LabelOf(m, k) = nodes[m].labels[k]
        /\ \A l \in Node \ {m} : \A k : LabelOf(l, k)' = LabelOf(l, k)
        /\ \A p \in Scheduled : pods[p].node \in Node
        /\ nodes[m] = None \/ new = None => \A p \in Scheduled : pods[p].node # m
    BY NodeEventFrame
  <1> USE <1>0
  <1>1. Has(old) <=> Has(new)
    BY DEF SpreadNodeHint
  <1>2. Has(old) /\ Has(new) => \A i \in DOMAIN cs : old.labels[cs[i].key] = new.labels[cs[i].key]
    BY DEF SpreadNodeHint
  <1>3. Has(old) /\ Has(new) => (old.pool \in OwnPools <=> new.pool \in OwnPools)
    BY DEF NodeBlindSpot
  <1>4. \A l \in Node : l \in Counted <=> nodes[l].pool \in OwnPools /\ Has(nodes[l])
    BY DEF Counted, Alive
  <1>5. \A l \in Node : l \in Counted' <=> nodes'[l].pool \in OwnPools /\ Has(nodes'[l])
    BY DEF Counted, Alive, HasKeys
  <1>6. Counted' = Counted /\ Counted \subseteq Node
    <2>1. \A l \in Node : l \in Counted' <=> l \in Counted
      BY <1>1, <1>3, <1>4, <1>5
    <2> QED
      BY <2>1 DEF Counted, Alive
  <1>7. \A l \in Counted, i \in DOMAIN cs : LabelOf(l, cs[i].key)' = LabelOf(l, cs[i].key)
    BY <1>1, <1>2, <1>4, <1>6
  <1>8. \A i \in DOMAIN cs : \A v : Matching(cs[i], v)' = Matching(cs[i], v)
    BY <1>6, <1>7 DEF Matching
  <1>9. n \in Node /\ \A i \in DOMAIN cs : LabelOf(n, cs[i].key)' # Missing
    BY DEF SpreadHolds, Alive
  <1>10. n = m => Has(new)
    BY <1>9 DEF HasKeys, Alive
  <1>11. nodes[n] # None /\ \A i \in DOMAIN cs : LabelOf(n, cs[i].key)' = LabelOf(n, cs[i].key)
    BY <1>1, <1>2, <1>9, <1>10 DEF Alive
  <1>12. \A i \in DOMAIN cs :
            {LabelOf(l, cs[i].key)' : l \in Counted'} = {LabelOf(l, cs[i].key) : l \in Counted}
    BY <1>6, <1>7
  <1>13. ASSUME NEW i \in DOMAIN cs
         PROVE  LET c == cs[i]
                    domains == {LabelOf(l, c.key) : l \in Counted}
                    here == Cardinality(Matching(c, LabelOf(n, c.key))) + IF own \in c.matches THEN 1 ELSE 0
                    skew(v) == here - Cardinality(Matching(c, v))
                IN  IF Cardinality(domains) < c.minDomains
                    THEN here <= c.maxSkew
                    ELSE \A v \in domains : skew(v) <= c.maxSkew
    <2> DEFINE c == cs[i]
               domains == {LabelOf(l, c.key) : l \in Counted}
               here == Cardinality(Matching(c, LabelOf(n, c.key))) + IF own \in c.matches THEN 1 ELSE 0
    <2>1. \A v : Matching(c, v)' = Matching(c, v)
      BY <1>8
    <2>2. PICK v : v = LabelOf(n, c.key) /\ v = LabelOf(n, c.key)'
      BY <1>11
    <2>3. Matching(c, LabelOf(n, c.key))' = Matching(c, v)'
      BY <2>2
    <2>4. domains' = domains /\ here' = here
      BY <1>12, <2>1, <2>2, <2>3
    <2>5. IF Cardinality(domains') < c.minDomains
          THEN here' <= c.maxSkew
          ELSE \A w \in domains' : here' - Cardinality(Matching(c, w)') <= c.maxSkew
      BY DEF SpreadHolds
    <2> HIDE DEF domains, here
    <2>6. IF Cardinality(domains) < c.minDomains
          THEN here <= c.maxSkew
          ELSE \A w \in domains : here - Cardinality(Matching(c, w)) <= c.maxSkew
      BY <2>1, <2>4, <2>5
    <2> QED
      BY <2>6 DEF domains, here
  <1> QED
    BY <1>9, <1>11, <1>13 DEF SpreadHolds

LEMMA NodeEventKeepsRefusal ==
    ASSUME TypeOK, class # Absent, NEW m \in Node, NEW new, NodeEvent(m, new),
           ~NodeBlindSpot(nodes[m], new), NEW x \in Plugin, ~NodeHint(x, nodes[m], new),
           x = "interPodAffinity" => HasTerms, NEW n \in Alive', Passes(x, n)'
    PROVE  nodes[n] # None /\ Passes(x, n)
  <1>0. /\ nodes'[m] = new /\ \A l \in Node \ {m} : nodes'[l] = nodes[l]
        /\ pods' = pods /\ own' = own /\ class' = class /\ Scheduled' = Scheduled
        /\ \A k : LabelOf(m, k)' = new.labels[k] /\ LabelOf(m, k) = nodes[m].labels[k]
        /\ \A l \in Node \ {m} : \A k : LabelOf(l, k)' = LabelOf(l, k)
        /\ \A p \in Scheduled : pods[p].node \in Node
        /\ nodes[m] = None \/ new = None => \A p \in Scheduled : pods[p].node # m
    BY NodeEventFrame
  <1> USE <1>0
  <1>1. x \in {"interPodAffinity", "nodeAffinity", "topologySpread"}
    BY DEF Plugin, Order
  <1>2. CASE x = "interPodAffinity"
    <2>1. new # None => ~AffinityNodeHint(nodes[m], new)
      BY <1>2 DEF NodeHint
    <2>2. AffinityHolds(n)' /\ AntiAffinityHolds(n)'
      BY <1>2 DEF Passes
    <2>3. nodes[n] # None
      <3>1. SUFFICES ASSUME nodes[n] = None PROVE FALSE
        OBVIOUS
      <3>2. n = m /\ new # None
        BY <3>1 DEF Alive
      <3>3. class.anti = <<>> \/ \A i \in DOMAIN class.anti : FALSE
        BY <2>1, <3>1, <3>2 DEF AffinityNodeHint
      <3>4. \A i \in DOMAIN class.affinity : LabelOf(n, class.affinity[i].key)' = Missing
        BY <2>1, <3>1, <3>2 DEF AffinityNodeHint
      <3>5. \A i \in DOMAIN class.affinity : FALSE
        BY <2>2, <3>4 DEF AffinityHolds
      <3>6. class.affinity \in Seq(Term) /\ class.anti \in Seq(Term)
        BY ClassesAssumption DEF TypeOK
      <3>7. class.affinity = <<>> /\ class.anti = <<>>
        BY <3>3, <3>5, <3>6, EmptyDomain
      <3> QED
        BY <1>2, <3>7 DEF HasTerms, NodeBlindSpot
    <2> QED
      BY <1>2, <2>1, <2>2, <2>3, AffinityNodeEvent DEF Passes
  <1>3. CASE x = "nodeAffinity"
    BY <1>3 DEF Passes, NodeAdmitted, NodeHint, NodeAffinityHint, NodeBlindSpot, Alive
  <1>4. CASE x = "topologySpread"
    <2>1. ~SpreadNodeHint(nodes[m], new) /\ SpreadHolds(n)'
      BY <1>4 DEF NodeHint, Passes
    <2> QED
      BY <1>4, <2>1, SpreadNodeEvent DEF Passes
  <1> QED
    BY <1>1, <1>2, <1>3, <1>4

-----------------------------------------------------------------------------
(* Types                                                                   *)

LEMMA InitIInv == Init => IInv
  BY DEF Init, IInv, TypeOK, Stuck, Scheduled, Plugin

LEMMA BindIsPodEvent ==
    ASSUME TypeOK, NEW p \in Pod, NEW n \in Node, NEW shape \in Shapes[p], BindPod(p, n, shape)
    PROVE  PodEvent(p, Object(p, n, shape))
  BY DEF BindPod, PodChange, PodEvent, Object, TypeOK, PodObject, Shape

LEMMA RelabelIsPodEvent ==
    ASSUME TypeOK, NEW p \in Pod, NEW shape \in Shapes[p], RelabelPod(p, shape)
    PROVE  PodEvent(p, [pods[p] EXCEPT !.shape = shape])
  <1>1. pods[p] \in PodObject /\ p \in Scheduled
    BY DEF RelabelPod, TypeOK, Scheduled
  <1>2. shape \in Shape
    BY DEF Shape
  <1> QED
    BY <1>1, <1>2 DEF RelabelPod, PodChange, PodEvent, TypeOK, PodObject

LEMMA DeleteIsPodEvent ==
    ASSUME TypeOK, NEW p \in Pod, DeletePod(p)
    PROVE  PodEvent(p, None)
  BY DEF DeletePod, PodChange, PodEvent

\* Waking a pod keeps the types of what the queue knows of it.
LEMMA WakeType ==
    ASSUME TypeOK, NEW answer, NEW blind, Wake(answer, blind)
    PROVE  /\ status' \in {"queued", "waiting", "bound"} /\ rejectors' \subseteq Plugin
           /\ missed' \in BOOLEAN /\ (status' = "waiting" => rejectors' # {})
  BY DEF TypeOK, Wake

LEMMA PodEventType ==
    ASSUME TypeOK, NEW p \in Pod, NEW new, PodEvent(p, new),
           NEW answer, NEW blind, Wake(answer, blind)
    PROVE  TypeOK'
  <1>1. /\ pods' \in [Pod -> PodObject \cup {None}] /\ pods'[p] = new
        /\ \A q \in Pod \ {p} : pods'[q] = pods[q]
    BY DEF PodEvent, TypeOK
  <1>2. Alive' = Alive
    BY DEF PodEvent, Alive
  <1>3. \A q \in Scheduled' : /\ pods'[q].uid = q /\ pods'[q].node \in Alive'
                             /\ pods'[q].shape \in Shapes[q]
    BY <1>1, <1>2 DEF PodEvent, TypeOK, Scheduled
  <1> QED
    BY <1>1, <1>3, WakeType DEF TypeOK, PodEvent

LEMMA NodeEventType ==
    ASSUME TypeOK, NEW m \in Node, NEW new, NodeEvent(m, new),
           NEW answer, NEW blind, Wake(answer, blind)
    PROVE  TypeOK'
  <1>1. /\ nodes' \in [Node -> UNION {NodeStates[n] : n \in Node}]
        /\ nodes'[m] = new /\ \A n \in Node \ {m} : nodes'[n] = nodes[n]
        /\ pods' = pods /\ own' = own /\ class' = class /\ Scheduled' = Scheduled
        /\ new = None => \A p \in Scheduled : pods[p].node # m
    BY NodeEventFrame
  <1>2. \A n \in Node : nodes'[n] \in NodeStates[n]
    BY <1>1 DEF NodeEvent, TypeOK
  <1>3. \A p \in Scheduled : pods[p].node \in Alive'
    BY <1>1 DEF TypeOK, Alive
  <1> QED
    BY <1>1, <1>2, <1>3, WakeType DEF TypeOK

\* The first plugin that fails on a node is one that refuses it.
LEMMA RejectingRefuses ==
    ASSUME NEW n, ~Fits(n)
    PROVE  Rejecting(n) \in Plugin /\ ~Passes(Rejecting(n), n)
  <1> DEFINE fails == {i \in DOMAIN Order : ~Passes(Order[i], n)}
             first == CHOOSE i \in fails : \A j \in fails : i <= j
  <1>1. DOMAIN Order = {1, 2, 3}
    BY DEF Order
  <1>2. \E i \in fails : \A j \in fails : i <= j
    <2>1. PICK i \in {1, 2, 3} : i \in fails
      BY <1>1 DEF Fits, Plugin
    <2>2. \A j \in fails : j \in {1, 2, 3}
      BY <1>1
    <2> QED
      <3>1. CASE 1 \in fails
        BY <2>2, <3>1
      <3>2. CASE 1 \notin fails /\ 2 \in fails
        BY <2>2, <3>2
      <3>3. CASE 1 \notin fails /\ 2 \notin fails
        BY <2>1, <2>2, <3>3
      <3> QED
        BY <3>1, <3>2, <3>3
  <1>3. first \in fails
    BY <1>2
  <1>4. Rejecting(n) = Order[first]
    BY DEF Rejecting
  <1> HIDE DEF first
  <1> QED
    BY <1>3, <1>4 DEF Plugin

\* Inter-pod affinity passes every node when nobody has terms.
LEMMA RefusalNeedsTerms ==
    ASSUME NEW n, ~Passes("interPodAffinity", n)
    PROVE  HasTerms
  <1>1. SUFFICES ASSUME class.affinity = <<>>, class.anti = <<>>,
                        \A p \in Scheduled : Refusals(pods[p].shape) = {}
                 PROVE  AffinityHolds(n) /\ AntiAffinityHolds(n)
    BY DEF HasTerms, Passes
  <1>2. DOMAIN class.affinity = {} /\ DOMAIN class.anti = {}
    BY <1>1
  <1> QED
    BY <1>1, <1>2 DEF AffinityHolds, AntiAffinityHolds

-----------------------------------------------------------------------------
(* The invariant                                                           *)

LEMMA PodEventStuck ==
    ASSUME IInv, NEW p \in Pod, NEW new, PodEvent(p, new),
           Wake(\E x \in rejectors : PodHint(x, pods[p], new), PodBlindSpot(pods[p], new))
    PROVE  Stuck'
  <1>1. SUFFICES ASSUME status' = "waiting", ~missed'
                 PROVE  /\ class' # Absent
                        /\ "interPodAffinity" \in rejectors' => HasTerms'
                        /\ \A n \in Alive' : \E x \in rejectors' : ~Passes(x, n)'
    BY DEF Stuck
  <1>2. /\ status = "waiting" /\ ~missed /\ rejectors' = rejectors
        /\ ~PodBlindSpot(pods[p], new) /\ \A x \in rejectors : ~PodHint(x, pods[p], new)
    BY <1>1 DEF Wake
  <1>3. /\ class # Absent /\ ("interPodAffinity" \in rejectors => HasTerms)
        /\ \A n \in Alive : \E x \in rejectors : ~Passes(x, n)
    BY <1>2 DEF IInv, Stuck
  <1>4. class' = class /\ Alive' = Alive
    BY DEF PodEvent, Alive
  <1>5. HasTerms => HasTerms'
    <2>1. ASSUME NEW q \in Scheduled, Refusals(pods[q].shape) # {}
          PROVE  HasTerms'
      <3>1. /\ q \in Scheduled' /\ own' = own
            /\ q # p => pods'[q] = pods[q]
            /\ q = p => pods'[q] = new /\ Against[new.shape] = Against[pods[q].shape]
        BY <1>2, <1>3, <2>1 DEF Scheduled, PodEvent, PodBlindSpot, IInv, TypeOK
      <3>2. Against[pods'[q].shape] = Against[pods[q].shape]
        BY <3>1
      <3>3. Refusals(pods[q].shape)' # {}
        BY <2>1, <3>1, <3>2 DEF Refusals
      <3> QED
        BY <3>1, <3>3 DEF HasTerms
    <2> QED
      BY <1>4, <2>1 DEF HasTerms
  <1>6. \A n \in Alive : \E x \in rejectors : ~Passes(x, n)'
    <2>1. TAKE n \in Alive
    <2>2. PICK x \in rejectors : ~Passes(x, n)
      BY <1>3
    <2>3. x \in Plugin
      BY DEF IInv, TypeOK
    <2>4. ~Passes(x, n)'
      <3>1. TypeOK
        BY DEF IInv
      <3>2. class # Absent /\ ~PodBlindSpot(pods[p], new) /\ ~PodHint(x, pods[p], new)
        BY <1>2, <1>3
      <3>3. Passes(x, n)' => Passes(x, n)
        BY <2>3, <3>1, <3>2, PodEventKeepsRefusal
      <3> QED
        BY <2>2, <3>3
    <2> QED
      BY <2>4
  <1> QED
    BY <1>2, <1>3, <1>4, <1>5, <1>6

LEMMA NodeEventStuck ==
    ASSUME IInv, NEW m \in Node, NEW new, NodeEvent(m, new),
           Wake(\E x \in rejectors : NodeHint(x, nodes[m], new), NodeBlindSpot(nodes[m], new))
    PROVE  Stuck'
  <1>1. SUFFICES ASSUME status' = "waiting", ~missed'
                 PROVE  /\ class' # Absent
                        /\ "interPodAffinity" \in rejectors' => HasTerms'
                        /\ \A n \in Alive' : \E x \in rejectors' : ~Passes(x, n)'
    BY DEF Stuck
  <1>2. /\ status = "waiting" /\ ~missed /\ rejectors' = rejectors
        /\ ~NodeBlindSpot(nodes[m], new) /\ \A x \in rejectors : ~NodeHint(x, nodes[m], new)
    BY <1>1 DEF Wake
  <1>3. /\ class # Absent /\ ("interPodAffinity" \in rejectors => HasTerms)
        /\ \A n \in Alive : \E x \in rejectors : ~Passes(x, n)
        /\ TypeOK /\ rejectors # {} /\ rejectors \subseteq Plugin
    BY <1>2 DEF IInv, Stuck, TypeOK
  <1>4. class' = class /\ (HasTerms => HasTerms')
    BY <1>3, NodeEventFrame DEF HasTerms, Refusals
  <1>5. ASSUME NEW n \in Alive', \A x \in rejectors : Passes(x, n)'
        PROVE  FALSE
    <2>1. \A x \in rejectors : nodes[n] # None /\ Passes(x, n)
      BY <1>2, <1>3, <1>5, NodeEventKeepsRefusal
    <2>2. n \in Alive
      BY <1>3, <2>1 DEF Alive
    <2> QED
      BY <1>3, <2>1, <2>2
  <1> QED
    BY <1>2, <1>3, <1>4, <1>5

LEMMA AttemptStuck ==
    ASSUME IInv, Attempt
    PROVE  IInv'
  <1>1. \A n : Passes("interPodAffinity", n)' <=> Passes("interPodAffinity", n)
    BY DEF Attempt, Passes, AffinityHolds, AntiAffinityHolds, Scheduled, MatchesAll, SameDomain,
           LabelOf, Visible, Refusals
  <1>2. \A n, x : Passes(x, n)' <=> Passes(x, n)
    BY DEF Attempt, Passes, AffinityHolds, AntiAffinityHolds, Scheduled, MatchesAll, SameDomain,
           LabelOf, Visible, Refusals, NodeAdmitted, SpreadHolds, Matching, Counted, Alive, HasKeys
  <1>3. Alive' = Alive /\ (HasTerms => HasTerms')
    BY DEF Attempt, Alive, HasTerms, Scheduled, Refusals
  <1>4. CASE \E n \in Alive : Fits(n)
    BY <1>3, <1>4 DEF Attempt, IInv, TypeOK, Stuck, Scheduled, Alive, Plugin
  <1>5. CASE ~\E n \in Alive : Fits(n)
    <2>1. \A n \in Alive : Rejecting(n) \in Plugin /\ ~Passes(Rejecting(n), n)
      BY <1>5, RejectingRefuses
    <2>2. status' = "waiting" /\ rejectors' = {Rejecting(n) : n \in Alive} /\ missed' = FALSE
      BY <1>5 DEF Attempt
    <2>3. TypeOK'
      <3>1. rejectors' \subseteq Plugin /\ rejectors' # {}
        BY <2>1, <2>2 DEF Attempt
      <3> QED
        BY <1>3, <2>2, <3>1 DEF Attempt, IInv, TypeOK, Scheduled
    <2>4. "interPodAffinity" \in rejectors' => HasTerms'
      BY <1>3, <2>1, <2>2, RefusalNeedsTerms
    <2>5. \A n \in Alive' : \E x \in rejectors' : ~Passes(x, n)'
      BY <1>2, <1>3, <2>1, <2>2
    <2> QED
      BY <2>3, <2>4, <2>5 DEF Attempt, IInv, Stuck
  <1> QED
    BY <1>4, <1>5

LEMMA NextIInv == IInv /\ [Next]_vars => IInv'
  <1> SUFFICES ASSUME IInv, [Next]_vars PROVE IInv'
    OBVIOUS
  <1>1. ASSUME NEW p \in Pod, NEW new, PodEvent(p, new),
               Wake(\E x \in rejectors : PodHint(x, pods[p], new), PodBlindSpot(pods[p], new))
        PROVE  IInv'
    BY <1>1, PodEventType, PodEventStuck DEF IInv
  <1>2. ASSUME NEW p \in Pod, NEW n \in Node, NEW shape \in Shapes[p], BindPod(p, n, shape)
        PROVE  IInv'
    BY <1>1, <1>2, BindIsPodEvent DEF BindPod, PodChange, IInv
  <1>3. ASSUME NEW p \in Pod, NEW shape \in Shapes[p], RelabelPod(p, shape)
        PROVE  IInv'
    BY <1>1, <1>3, RelabelIsPodEvent DEF RelabelPod, PodChange, IInv
  <1>4. ASSUME NEW p \in Pod, DeletePod(p)
        PROVE  IInv'
    BY <1>1, <1>4, DeleteIsPodEvent DEF DeletePod, PodChange, IInv
  <1>5. ASSUME NEW p \in Pod, TerminatePod(p)
        PROVE  IInv'
    <2>1. pods[p] \in PodObject
      BY <1>5 DEF TerminatePod, IInv, TypeOK
    <2>2. /\ pods' \in [Pod -> PodObject \cup {None}]
          /\ \A q \in Scheduled' : /\ pods'[q].uid = q /\ pods'[q].node \in Alive'
                                /\ pods'[q].shape \in Shapes[q]
      BY <1>5, <2>1 DEF TerminatePod, IInv, TypeOK, PodObject, Scheduled, Alive
    <2> QED
      BY <1>5, <2>2 DEF TerminatePod, IInv, TypeOK, Stuck
  <1>6. ASSUME NEW n \in Node, NEW new \in NodeStates[n], NodeChange(n, new)
        PROVE  IInv'
    <2>1. NodeEvent(n, new)
      BY <1>6 DEF NodeChange, NodeEvent
    <2> QED
      BY <1>6, <2>1, NodeEventType, NodeEventStuck DEF NodeChange, IInv
  <1>7. ASSUME NEW shape \in OwnShapes, RelabelOwn(shape)
        PROVE  IInv'
    BY <1>7 DEF RelabelOwn, Wake, IInv, TypeOK, Stuck, Scheduled, Alive
  <1>8. ASSUME NEW c \in Classes \cup {Absent}, ChangeClass(c)
        PROVE  IInv'
    BY <1>8 DEF ChangeClass, IInv, TypeOK, Stuck, Scheduled, Alive
  <1>9. CASE Flush
    BY <1>9 DEF Flush, IInv, TypeOK, Stuck, Scheduled, Alive
  <1>10. CASE Attempt
    BY <1>10, AttemptStuck
  <1>11. CASE UNCHANGED vars
    <2>1. \A x, n : Passes(x, n)' <=> Passes(x, n)
      BY <1>11 DEF vars, Passes, AffinityHolds, AntiAffinityHolds, Scheduled, MatchesAll, SameDomain,
             LabelOf, Visible, Refusals, NodeAdmitted, SpreadHolds, Matching, Counted, Alive, HasKeys
    <2>2. TypeOK' /\ Alive' = Alive /\ (HasTerms => HasTerms')
      BY <1>11 DEF vars, IInv, TypeOK, Scheduled, Alive, HasTerms, Refusals
    <2> QED
      BY <1>11, <2>1, <2>2 DEF vars, IInv, Stuck
  <1> QED
    BY <1>2, <1>3, <1>4, <1>5, <1>6, <1>7, <1>8, <1>9, <1>10, <1>11 DEF Next

LEMMA InvariantHolds == Spec => []IInv
  BY InitIInv, NextIInv, PTL DEF Spec

-----------------------------------------------------------------------------
(* The theorems                                                            *)

\* Every variable has its type, each scheduled pod is on a node there is, and
\* a pod that waits has a plugin whose hints can wake it.
THEOREM TypesHold == Spec => []TypeOK
  BY InvariantHolds, PTL DEF IInv

\* The queueing hints of the three plugins miss nothing outside the blind
\* spots: a pod they leave waiting has no node to go to, in a cluster of any
\* size and for any constraints of its class.
THEOREM WaitingPodsAreHopeless == Spec => []WaitingIsHopeless
  <1>1. IInv => WaitingIsHopeless
    BY DEF IInv, Stuck, WaitingIsHopeless
  <1> QED
    BY <1>1, InvariantHolds, PTL

\* isSchedulableAfterNodeChange of pkg/nodeaffinity wakes a pod just when its
\* plugin refused the node before, or there was none, and admits it now.
THEOREM NodeHintIsExact == Spec => NodeAffinityHintIsExact
  <1>1. [Next]_vars =>
          [\A n \in Node :
              (/\ class # Absent
               /\ nodes[n] # nodes'[n] /\ nodes'[n] # None
               /\ nodes[n] = None \/ nodes[n].pool \in AddedPools)
              => ExactHint(nodes[n], nodes'[n])]_vars
    BY DEF ExactHint, NodeHint, NodeAffinityHint, NodeAdmitted
  <1> QED
    BY <1>1, PTL DEF Spec, NodeAffinityHintIsExact
=============================================================================
