---------------------- MODULE InterPodAffinityProofs ----------------------
(***************************************************************************)
(* Proofs about InterPodAffinity, for every cluster, request and           *)
(* placement.  The argument: the maps are the numbers of matching terms    *)
(* per topology pair, with an entry just where the number is not zero; the *)
(* merge of a node and the update for a pod both keep them so; and then    *)
(* what Filter reads from them is what the rules say of the pods.          *)
(***************************************************************************)
EXTENDS InterPodAffinity, FiniteSetTheorems, TLAPS

Placement == [Pod -> Node \cup {Nowhere}]

-----------------------------------------------------------------------------
(* Terms and their number                                                  *)

\* A pod counts for finitely many terms, each with a topology key.
LEMMA KeysType ==
    ASSUME incoming \in Incoming, NEW kind \in Kind, NEW p \in Pod
    PROVE  /\ IsFiniteSet(DOMAIN TermKeys(kind, p))
           /\ \A i \in DOMAIN TermKeys(kind, p) : TermKeys(kind, p)[i] \in Key
<1>1. /\ incoming.affinity \in Seq(Term) /\ incoming.anti \in Seq(Term)
      /\ Against[p] \in Seq(Key)
  BY TermsAssumption DEF Request
<1>2. \A i \in DOMAIN incoming.affinity : incoming.affinity[i].key \in Key
  <2>1. \A i \in DOMAIN incoming.affinity : incoming.affinity[i] \in Term
    BY <1>1
  <2>. QED
    BY <2>1 DEF Term
<1>3. \A i \in DOMAIN incoming.anti : incoming.anti[i].key \in Key
  <2>1. \A i \in DOMAIN incoming.anti : incoming.anti[i] \in Term
    BY <1>1
  <2>. QED
    BY <2>1 DEF Term
<1>4. /\ IsFiniteSet(DOMAIN incoming.affinity)
      /\ IsFiniteSet(DOMAIN incoming.anti)
      /\ IsFiniteSet(DOMAIN Against[p])
  <2>1. ASSUME NEW S, NEW s \in Seq(S) PROVE IsFiniteSet(DOMAIN s)
    <3>1. DOMAIN s = 1..Len(s) /\ Len(s) \in Int
      OBVIOUS
    <3>. QED
      BY <3>1, FS_Interval
  <2>. QED
    BY <1>1, <2>1
<1>5. CASE kind = "existing"
  BY <1>1, <1>4, <1>5 DEF TermKeys
<1>6. CASE kind = "affinity"
  <2>1. CASE MatchesAll(p)
    BY <1>2, <1>4, <1>6, <2>1 DEF TermKeys, KeysOf, AffTerms
  <2>2. CASE ~MatchesAll(p)
    BY <1>6, <2>2, FS_EmptySet DEF TermKeys
  <2>. QED
    BY <2>1, <2>2
<1>7. CASE kind = "anti"
  <2>1. DOMAIN TermKeys(kind, p) = Matched(AntiTerms, p)
    BY <1>7 DEF TermKeys, Restrict
  <2>2. Matched(AntiTerms, p) \subseteq DOMAIN incoming.anti
    BY DEF Matched, AntiTerms
  <2>3. IsFiniteSet(Matched(AntiTerms, p))
    BY <1>4, <2>2, FS_Subset
  <2>4. \A i \in DOMAIN TermKeys(kind, p) : TermKeys(kind, p)[i] = incoming.anti[i].key
    BY <1>7, <2>2 DEF TermKeys, Restrict, KeysOf, AntiTerms
  <2>. QED
    BY <1>3, <2>1, <2>2, <2>3, <2>4
<1>. QED
  BY <1>5, <1>6, <1>7 DEF Kind

LEMMA TermsFinite ==
    ASSUME incoming \in Incoming, NEW kind \in Kind
    PROVE  IsFiniteSet(Terms(kind))
<1>. DEFINE f == [p \in Pod |-> {p} \X DOMAIN TermKeys(kind, p)]
            S == {{p} \X DOMAIN TermKeys(kind, p) : p \in Pod}
<1>1. f \in Surjection(Pod, S)
  BY DEF Surjection
<1>2. IsFiniteSet(S)
  BY <1>1, SetsAssumption, FS_Surjection
<1>3. ASSUME NEW p \in Pod PROVE IsFiniteSet({p} \X DOMAIN TermKeys(kind, p))
  BY KeysType, FS_Singleton, FS_Product
<1>4. IsFiniteSet(UNION S)
  BY <1>2, <1>3, FS_UNION
<1>. QED
  BY <1>4 DEF Terms

\* The matching terms in one topology domain, of the pods on nodes in S.
TermsAt(kind, pair, w, S) ==
    {t \in Terms(kind) : /\ KeyOf(kind, t) = pair[1] /\ w[t[1]] \in S
                         /\ Label[w[t[1]]][pair[1]] = pair[2]}

Number(kind, pair, w, S) == Cardinality(TermsAt(kind, pair, w, S))

LEMMA NumberType ==
    ASSUME incoming \in Incoming, NEW kind \in Kind, NEW pair, NEW w, NEW S
    PROVE  /\ IsFiniteSet(TermsAt(kind, pair, w, S))
           /\ Number(kind, pair, w, S) \in Nat
           /\ Number(kind, pair, w, S) = 0 <=> TermsAt(kind, pair, w, S) = {}
<1>1. IsFiniteSet(TermsAt(kind, pair, w, S))
  BY TermsFinite, FS_Subset DEF TermsAt
<1>. QED
  BY <1>1, FS_CardinalityType, FS_EmptySet DEF Number

\* The map of one kind over the pods on nodes in S: no zero entries.
Map(kind, w, S) ==
    [pair \in {q \in AllPairs : TermsAt(kind, q, w, S) # {}} |-> Number(kind, pair, w, S)]

LEMMA MapIsFresh ==
    ASSUME NEW kind, NEW w
    PROVE  Map(kind, w, Node) = FreshCounts(kind, w)
  BY DEF Map, FreshCounts, TermsAt, TermsIn, Number

LEMMA GetFromMap ==
    ASSUME incoming \in Incoming, NEW kind \in Kind, NEW q \in AllPairs, NEW w, NEW S
    PROVE  Get(Map(kind, w, S), q) = Number(kind, q, w, S)
<1>1. CASE TermsAt(kind, q, w, S) # {}
  BY <1>1 DEF Get, Map
<1>2. CASE TermsAt(kind, q, w, S) = {}
  <2>1. Number(kind, q, w, S) = 0
    BY <1>2, NumberType
  <2>. QED
    BY <1>2, <2>1 DEF Get, Map
<1>. QED
  BY <1>1, <1>2

\* A topology pair is its key and a label that is there.
LEMMA PairType ==
    ASSUME NEW q \in AllPairs
    PROVE  q = <<q[1], q[2]>> /\ q[1] \in Key /\ q[2] # Missing
<1>1. PICK n \in Node, k \in Key : Label[n][k] # Missing /\ q = <<k, Label[n][k]>>
  BY DEF AllPairs, Pair
<1>. QED
  BY <1>1

LEMMA PairsAreAll ==
    ASSUME incoming \in Incoming, NEW kind \in Kind, NEW p \in Pod, NEW n \in Node
    PROVE  PairsOf(n, TermKeys(kind, p)) \subseteq AllPairs
  BY KeysType DEF PairsOf, AllPairs, Pair

-----------------------------------------------------------------------------
(* update: one pod more or less on one node                                *)

\* What update adds for pair q, and whether it makes an entry.
Addend(kind, p, n, q) ==
    IF q \in PairsOf(n, TermKeys(kind, p)) THEN Times(TermKeys(kind, p), q[1]) ELSE 0

LEMMA AddendIsNumber ==
    ASSUME incoming \in Incoming, NEW kind \in Kind, NEW p \in Pod, NEW n \in Node,
           NEW q \in AllPairs
    PROVE  LET new == {t \in {p} \X DOMAIN TermKeys(kind, p) :
                          TermKeys(kind, p)[t[2]] = q[1] /\ Label[n][q[1]] = q[2]}
           IN  /\ IsFiniteSet(new)
               /\ Cardinality(new) = Addend(kind, p, n, q)
               /\ Addend(kind, p, n, q) \in Nat
               /\ Addend(kind, p, n, q) # 0 <=> q \in PairsOf(n, TermKeys(kind, p))
<1>. DEFINE keys == TermKeys(kind, p)
            here == {i \in DOMAIN keys : keys[i] = q[1]}
            new == {t \in {p} \X DOMAIN keys : keys[t[2]] = q[1] /\ Label[n][q[1]] = q[2]}
<1>1. /\ IsFiniteSet(here) /\ Cardinality(here) = Times(keys, q[1])
      /\ Cardinality(here) \in Nat /\ (Cardinality(here) = 0 <=> here = {})
  BY KeysType, FS_Subset, FS_CardinalityType, FS_EmptySet DEF Times
<1>2. CASE q \in PairsOf(n, keys)
  <2>1. PICK i \in DOMAIN keys : q = <<keys[i], Label[n][keys[i]]>>
    BY <1>2 DEF PairsOf, Pair
  <2>2. q[1] = keys[i] /\ q[2] = Label[n][q[1]] /\ i \in here
    BY <2>1
  <2>3. new = {p} \X here
    BY <2>2
  <2>4. IsFiniteSet(new) /\ Cardinality(new) = 1 * Cardinality(here)
    <3>1. IsFiniteSet({p}) /\ Cardinality({p}) = 1
      BY FS_Singleton
    <3>. HIDE DEF here, new
    <3>. QED
      BY <1>1, <2>3, <3>1, FS_Product
  <2>. QED
    BY <1>1, <1>2, <2>2, <2>4 DEF Addend
<1>3. CASE q \notin PairsOf(n, keys)
  <2>1. ASSUME NEW i \in DOMAIN keys, keys[i] = q[1], Label[n][q[1]] = q[2] PROVE FALSE
    <3>1. q = Pair(n, keys[i]) /\ Label[n][keys[i]] # Missing
      BY <2>1, PairType DEF Pair
    <3>. QED
      BY <1>3, <3>1 DEF PairsOf
  <2>2. new = {}
    BY <2>1
  <2>. QED
    BY <1>3, <2>2, FS_EmptySet DEF Addend
<1>. QED
  BY <1>2, <1>3

\* A pod put on node n adds just the addend to every number.
LEMMA PlacedNumber ==
    ASSUME incoming \in Incoming, NEW kind \in Kind, NEW p \in Pod, NEW n \in Node,
           NEW w \in Placement, w[p] = Nowhere, NEW q \in AllPairs
    PROVE  Number(kind, q, [w EXCEPT ![p] = n], Node)
               = Number(kind, q, w, Node) + Addend(kind, p, n, q)
<1>. DEFINE new == {t \in {p} \X DOMAIN TermKeys(kind, p) :
                       TermKeys(kind, p)[t[2]] = q[1] /\ Label[n][q[1]] = q[2]}
            v == [w EXCEPT ![p] = n]
            before == TermsAt(kind, q, w, Node)
            after == TermsAt(kind, q, v, Node)
<1>1. Nowhere \notin Node /\ v[p] = n /\ \A r \in Pod : r # p => v[r] = w[r]
  BY SetsAssumption DEF Placement
<1>2. \A t \in Terms(kind) : /\ t[1] \in Pod
                             /\ t[1] = p <=> t \in {p} \X DOMAIN TermKeys(kind, p)
  BY DEF Terms
<1>3. {p} \X DOMAIN TermKeys(kind, p) \subseteq Terms(kind)
  BY DEF Terms
<1>4. \A t \in {p} \X DOMAIN TermKeys(kind, p) : t[1] = p /\ KeyOf(kind, t) = TermKeys(kind, p)[t[2]]
  BY DEF KeyOf
<1>5. \A t \in before : t[1] # p
  BY <1>1 DEF TermsAt
<1>6. after = before \cup new
  <2>1. ASSUME NEW t \in Terms(kind), t[1] = p PROVE t \in after <=> t \in before \cup new
    BY <1>1, <1>2, <1>4, <1>5, <2>1 DEF TermsAt
  <2>2. ASSUME NEW t \in Terms(kind), t[1] # p PROVE t \in after <=> t \in before \cup new
    BY <1>1, <1>2, <1>4, <2>2 DEF TermsAt
  <2>3. after \subseteq Terms(kind) /\ before \subseteq Terms(kind) /\ new \subseteq Terms(kind)
    BY <1>3 DEF TermsAt
  <2>. HIDE DEF after, before, new
  <2>. QED
    BY <2>1, <2>2, <2>3
<1>7. before \cap new = {}
  BY <1>4, <1>5
<1>8. IsFiniteSet(before) /\ Cardinality(before) \in Nat
  BY NumberType DEF Number
<1>9. IsFiniteSet(new) /\ Cardinality(new) = Addend(kind, p, n, q) /\ Cardinality(new) \in Nat
  BY AddendIsNumber
<1>10. Cardinality(after) = Cardinality(before) + Cardinality(new)
  <2>. HIDE DEF after, before, new
  <2>. QED
    BY <1>6, <1>7, <1>8, <1>9, FS_Union, FS_EmptySet
<1>. QED
  BY <1>9, <1>10 DEF Number

\* So update turns the map of one placement into the map of the next.
LEMMA BumpUp ==
    ASSUME incoming \in Incoming, NEW kind \in Kind, NEW p \in Pod, NEW n \in Node,
           NEW w \in Placement, w[p] = Nowhere
    PROVE  Bump(Map(kind, w, Node), n, TermKeys(kind, p), 1)
               = Map(kind, [w EXCEPT ![p] = n], Node)
<1>. DEFINE m == Map(kind, w, Node)
            v == [w EXCEPT ![p] = n]
            keys == TermKeys(kind, p)
            sum(q) == IF q \in PairsOf(n, keys) THEN Get(m, q) + 1 * Times(keys, q[1])
                                                ELSE Get(m, q)
            entries == {q \in DOMAIN m \cup PairsOf(n, keys) : sum(q) # 0}
<1>1. DOMAIN m \cup PairsOf(n, keys) \subseteq AllPairs
  BY PairsAreAll DEF Map
<1>2. ASSUME NEW q \in AllPairs
      PROVE  /\ sum(q) = Number(kind, q, v, Node)
             /\ q \notin DOMAIN m \cup PairsOf(n, keys) => sum(q) = 0
  <2>1. /\ Get(m, q) = Number(kind, q, w, Node) /\ Get(m, q) \in Nat
        /\ Addend(kind, p, n, q) \in Nat
        /\ Number(kind, q, v, Node) = Number(kind, q, w, Node) + Addend(kind, p, n, q)
    <3>. HIDE DEF sum, entries
    <3>1. Get(m, q) = Number(kind, q, w, Node)
      BY GetFromMap
    <3>2. Number(kind, q, w, Node) \in Nat
      BY NumberType
    <3>3. Addend(kind, p, n, q) \in Nat
      BY AddendIsNumber
    <3>4. Number(kind, q, v, Node) = Number(kind, q, w, Node) + Addend(kind, p, n, q)
      BY PlacedNumber
    <3>. QED
      BY <3>1, <3>2, <3>3, <3>4
  <2>2. sum(q) = Get(m, q) + Addend(kind, p, n, q)
    <3>. HIDE DEF m
    <3>1. CASE q \in PairsOf(n, keys)
      <4>1. Addend(kind, p, n, q) = Times(keys, q[1])
        BY <3>1 DEF Addend
      <4>. HIDE DEF keys
      <4>. QED
        BY <2>1, <3>1, <4>1
    <3>2. CASE q \notin PairsOf(n, keys)
      BY <2>1, <3>2 DEF Addend
    <3>. QED
      BY <3>1, <3>2
  <2>3. q \notin DOMAIN m => Get(m, q) = 0
    BY DEF Get
  <2>. HIDE DEF m
  <2>. QED
    BY <2>1, <2>2, <2>3
<1>3. entries = {q \in AllPairs : TermsAt(kind, q, v, Node) # {}}
  <2>1. \A q \in AllPairs : Number(kind, q, v, Node) = 0 <=> TermsAt(kind, q, v, Node) = {}
    BY NumberType
  <2>. HIDE DEF m, sum
  <2>. QED
    BY <1>1, <1>2, <2>1
<1>4. Bump(m, n, keys, 1) = [q \in entries |-> Number(kind, q, v, Node)]
  <2>1. \A q \in entries : sum(q) = Number(kind, q, v, Node)
    BY <1>1, <1>2
  <2>. HIDE DEF m, v, keys
  <2>. QED
    BY <2>1 DEF Bump
<1>5. Map(kind, v, Node) = [q \in entries |-> Number(kind, q, v, Node)]
  <2>. HIDE DEF m, sum, entries, v
  <2>. QED
    BY <1>3 DEF Map
<1>. HIDE DEF sum, entries
<1>. QED
  BY <1>4, <1>5

LEMMA BumpDown ==
    ASSUME incoming \in Incoming, NEW kind \in Kind, NEW p \in Pod, NEW n \in Node,
           NEW w \in Placement, w[p] = n
    PROVE  Bump(Map(kind, w, Node), n, TermKeys(kind, p), -1)
               = Map(kind, [w EXCEPT ![p] = Nowhere], Node)
<1>. DEFINE m == Map(kind, w, Node)
            v == [w EXCEPT ![p] = Nowhere]
            keys == TermKeys(kind, p)
            sum(q) == IF q \in PairsOf(n, keys) THEN Get(m, q) + (-1) * Times(keys, q[1])
                                                ELSE Get(m, q)
            entries == {q \in DOMAIN m \cup PairsOf(n, keys) : sum(q) # 0}
<1>1. DOMAIN m \cup PairsOf(n, keys) \subseteq AllPairs
  BY PairsAreAll DEF Map
<1>2. v \in Placement /\ v[p] = Nowhere /\ [v EXCEPT ![p] = n] = w
  BY DEF Placement
<1>3. ASSUME NEW q \in AllPairs
      PROVE  /\ sum(q) = Number(kind, q, v, Node)
             /\ q \notin DOMAIN m \cup PairsOf(n, keys) => sum(q) = 0
  <2>1. /\ Get(m, q) = Number(kind, q, w, Node) /\ Get(m, q) \in Nat
        /\ Addend(kind, p, n, q) \in Nat /\ Number(kind, q, v, Node) \in Nat
    <3>. HIDE DEF sum, entries
    <3>1. Get(m, q) = Number(kind, q, w, Node)
      BY GetFromMap
    <3>2. Number(kind, q, w, Node) \in Nat /\ Number(kind, q, v, Node) \in Nat
      BY NumberType
    <3>3. Addend(kind, p, n, q) \in Nat
      BY AddendIsNumber
    <3>. QED
      BY <3>1, <3>2, <3>3
  <2>2. Number(kind, q, w, Node) = Number(kind, q, v, Node) + Addend(kind, p, n, q)
    <3>. HIDE DEF v
    <3>. QED
      BY <1>2, PlacedNumber
  <2>3. sum(q) = Get(m, q) - Addend(kind, p, n, q)
    <3>. HIDE DEF m
    <3>1. CASE q \in PairsOf(n, keys)
      <4>1. Addend(kind, p, n, q) = Times(keys, q[1])
        BY <3>1 DEF Addend
      <4>. HIDE DEF keys
      <4>. QED
        BY <2>1, <3>1, <4>1
    <3>2. CASE q \notin PairsOf(n, keys)
      BY <2>1, <3>2 DEF Addend
    <3>. QED
      BY <3>1, <3>2
  <2>4. q \notin DOMAIN m => Get(m, q) = 0
    BY DEF Get
  <2>. HIDE DEF m
  <2>. QED
    BY <2>1, <2>2, <2>3, <2>4
<1>4. entries = {q \in AllPairs : TermsAt(kind, q, v, Node) # {}}
  <2>1. \A q \in AllPairs : Number(kind, q, v, Node) = 0 <=> TermsAt(kind, q, v, Node) = {}
    BY NumberType
  <2>. HIDE DEF m, sum
  <2>. QED
    BY <1>1, <1>3, <2>1
<1>5. Bump(m, n, keys, -1) = [q \in entries |-> Number(kind, q, v, Node)]
  <2>1. \A q \in entries : sum(q) = Number(kind, q, v, Node)
    BY <1>1, <1>3
  <2>. HIDE DEF m, v, keys
  <2>. QED
    BY <2>1 DEF Bump
<1>6. Map(kind, v, Node) = [q \in entries |-> Number(kind, q, v, Node)]
  <2>. HIDE DEF m, sum, entries, v
  <2>. QED
    BY <1>4 DEF Map
<1>. HIDE DEF sum, entries
<1>. QED
  BY <1>5, <1>6
-----------------------------------------------------------------------------
(* The merge of one node                                                   *)

Counted(kind, n, old) ==
    LET new == {Pair(n, k) : k \in KeysOn(kind, n)}
    IN  [pair \in DOMAIN old \cup new |->
            Get(old, pair) + IF pair \in new THEN Cardinality(TermsOn(kind, n, pair[1])) ELSE 0]

\* What node n adds to the number of pair q, and where it does.
LEMMA NumberOfNode ==
    ASSUME incoming \in Incoming, NEW kind \in Kind, NEW n \in Node,
           NEW S \in SUBSET Node, n \notin S, NEW q \in AllPairs
    PROVE  /\ q \in {Pair(n, k) : k \in KeysOn(kind, n)} =>
                 /\ Number(kind, q, snapshot, S \cup {n}) =
                        Number(kind, q, snapshot, S) + Cardinality(TermsOn(kind, n, q[1]))
                 /\ Cardinality(TermsOn(kind, n, q[1])) \in Nat \ {0}
           /\ q \notin {Pair(n, k) : k \in KeysOn(kind, n)} =>
                 Number(kind, q, snapshot, S \cup {n}) = Number(kind, q, snapshot, S)
<1>. DEFINE on == TermsOn(kind, n, q[1])
            before == TermsAt(kind, q, snapshot, S)
            after == TermsAt(kind, q, snapshot, S \cup {n})
<1>1. ASSUME q \in {Pair(n, k) : k \in KeysOn(kind, n)}
      PROVE  /\ Cardinality(after) = Cardinality(before) + Cardinality(on)
             /\ Cardinality(on) \in Nat \ {0}
  <2>1. PICK k \in KeysOn(kind, n) : q = Pair(n, k)
    BY <1>1
  <2>2. q[1] = k /\ q[2] = Label[n][q[1]] /\ on # {}
    BY <2>1 DEF Pair, KeysOn
  <2>3. after = before \cup on
    BY <2>2 DEF TermsAt, TermsOn
  <2>4. before \cap on = {}
    BY DEF TermsAt, TermsOn
  <2>5. IsFiniteSet(on) /\ IsFiniteSet(before)
    BY TermsFinite, FS_Subset DEF TermsAt, TermsOn
  <2>. HIDE DEF after, before, on
  <2>6. Cardinality(on) \in Nat \ {0} /\ Cardinality(before) \in Nat
    BY <2>2, <2>5, FS_CardinalityType, FS_EmptySet
  <2>7. Cardinality(after) = Cardinality(before) + Cardinality(on)
    <3>1. Cardinality(before \cup on)
              = Cardinality(before) + Cardinality(on) - Cardinality(before \cap on)
      BY <2>5, FS_Union
    <3>2. Cardinality(before \cap on) = 0
      BY <2>4, FS_EmptySet
    <3>. QED
      BY <2>3, <2>6, <3>1, <3>2
  <2>. QED
    BY <2>6, <2>7
<1>2. ASSUME q \notin {Pair(n, k) : k \in KeysOn(kind, n)}
      PROVE  after = before
  <2>1. ASSUME NEW t \in Terms(kind), KeyOf(kind, t) = q[1], snapshot[t[1]] = n,
               Label[n][q[1]] = q[2]
        PROVE  FALSE
    <3>1. q = Pair(n, q[1]) /\ q[1] \in Key /\ Label[n][q[1]] # Missing
      BY <2>1, PairType DEF Pair
    <3>2. t \in TermsOn(kind, n, q[1])
      BY <2>1 DEF TermsOn
    <3>. QED
      BY <1>2, <3>1, <3>2 DEF KeysOn
  <2>. QED
    BY <2>1 DEF TermsAt
<1>. QED
  BY <1>1, <1>2 DEF Number

LEMMA CountUp ==
    ASSUME incoming \in Incoming, NEW kind \in Kind, NEW n \in Node,
           NEW S \in SUBSET Node, n \notin S
    PROVE  Counted(kind, n, Map(kind, snapshot, S)) = Map(kind, snapshot, S \cup {n})
<1>. DEFINE m == Map(kind, snapshot, S)
            T == S \cup {n}
            new == {Pair(n, k) : k \in KeysOn(kind, n)}
            add(q) == IF q \in new THEN Cardinality(TermsOn(kind, n, q[1])) ELSE 0
            entries == DOMAIN m \cup new
<1>1. entries \subseteq AllPairs
  BY DEF Map, AllPairs, KeysOn
<1>2. ASSUME NEW q \in AllPairs
      PROVE  /\ Get(m, q) + add(q) = Number(kind, q, snapshot, T)
             /\ q \in entries <=> Number(kind, q, snapshot, T) # 0
  <2>1. Get(m, q) = Number(kind, q, snapshot, S) /\ Number(kind, q, snapshot, S) \in Nat
    <3>. HIDE DEF add, entries
    <3>. QED
      BY GetFromMap, NumberType
  <2>2. q \in DOMAIN m <=> Number(kind, q, snapshot, S) # 0
    <3>1. Number(kind, q, snapshot, S) = 0 <=> TermsAt(kind, q, snapshot, S) = {}
      BY NumberType
    <3>. HIDE DEF add, entries
    <3>. QED
      BY <3>1 DEF Map
  <2>3. /\ q \in new => /\ Number(kind, q, snapshot, T) =
                               Number(kind, q, snapshot, S) + Cardinality(TermsOn(kind, n, q[1]))
                        /\ Cardinality(TermsOn(kind, n, q[1])) \in Nat \ {0}
        /\ q \notin new => Number(kind, q, snapshot, T) = Number(kind, q, snapshot, S)
    <3>. HIDE DEF add, entries, m
    <3>1. ASSUME q \in new
          PROVE  /\ Number(kind, q, snapshot, T) =
                        Number(kind, q, snapshot, S) + Cardinality(TermsOn(kind, n, q[1]))
                 /\ Cardinality(TermsOn(kind, n, q[1])) \in Nat \ {0}
      BY <3>1, NumberOfNode
    <3>2. ASSUME q \notin new PROVE Number(kind, q, snapshot, T) = Number(kind, q, snapshot, S)
      BY <3>2, NumberOfNode
    <3>. QED
      BY <3>1, <3>2
  <2>. HIDE DEF m, new, T
  <2>. QED
    BY <2>1, <2>2, <2>3
<1>3. entries = {q \in AllPairs : TermsAt(kind, q, snapshot, T) # {}}
  <2>1. \A q \in AllPairs : Number(kind, q, snapshot, T) = 0 <=> TermsAt(kind, q, snapshot, T) = {}
    BY NumberType
  <2>. HIDE DEF m, new, add, entries, T
  <2>. QED
    BY <1>1, <1>2, <2>1
<1>4. Counted(kind, n, m) = [q \in entries |-> Number(kind, q, snapshot, T)]
  <2>1. \A q \in entries : Get(m, q) + add(q) = Number(kind, q, snapshot, T)
    BY <1>1, <1>2
  <2>. HIDE DEF m, T
  <2>. QED
    BY <2>1 DEF Counted
<1>5. Map(kind, snapshot, T) = [q \in entries |-> Number(kind, q, snapshot, T)]
  <2>. HIDE DEF m, new, add, entries, T
  <2>. QED
    BY <1>3 DEF Map
<1>. HIDE DEF add, entries
<1>. QED
  BY <1>4, <1>5

-----------------------------------------------------------------------------
(* The inductive invariant                                                 *)

\* All maps over the pods on nodes in S.
Maps(w, S) == [kind \in Kind |-> Map(kind, w, S)]

TypeInv ==
    /\ incoming \in Incoming
    /\ phase \in {"prefilter", "ready", "dryrun"}
    /\ skip \in BOOLEAN
    /\ snapshot \in Placement
    /\ where \in Placement
    /\ node \in Node \cup {Nowhere}
    /\ todo \subseteq Node

CountingInv ==
    phase = "prefilter" =>
        /\ ~skip /\ where = snapshot /\ node = Nowhere /\ base = NoCounts
        /\ counts = Maps(snapshot, Node \ todo)

\* A copy moves pods to and from its own node, and starts from the snapshot.
CopyInv ==
    /\ phase = "ready" => where = snapshot
    /\ phase = "dryrun" => node \in Node
    /\ \A p \in Pod : \/ where[p] = snapshot[p]
                      \/ where[p] = Nowhere /\ snapshot[p] = node
                      \/ where[p] = node /\ snapshot[p] = Nowhere

FreshInv ==
    phase # "prefilter" /\ ~skip =>
        base = Maps(snapshot, Node) /\ counts = Maps(where, Node)

\* After Skip the maps are left alone: what PreFilter counted, then nothing.
SkipInv ==
    skip => /\ WouldSkip(incoming, snapshot)
            /\ base = NoCounts
            /\ counts = NoCounts \/ counts = Maps(snapshot, Node)

AffinityInv == TypeInv /\ CountingInv /\ CopyInv /\ FreshInv /\ SkipInv

\* A step that leaves the pod of the cycle alone leaves what a placement counts.
LEMMA SameMaps ==
    ASSUME incoming' = incoming
    PROVE  /\ Maps(snapshot, Node)' = Maps(snapshot', Node)
           /\ Maps(where, Node)' = Maps(where', Node)
           /\ Maps(snapshot, Node \ todo)' = Maps(snapshot', Node \ todo')
  BY DEF Maps, Map, TermsAt, Number, Terms, KeyOf, TermKeys, AffTerms, AntiTerms, MatchesAll

LEMMA EmptyMaps == ASSUME NEW w PROVE Maps(w, {}) = NoCounts
<1>1. ASSUME NEW kind \in Kind PROVE Map(kind, w, {}) = <<>>
  <2>1. {q \in AllPairs : TermsAt(kind, q, w, {}) # {}} = {}
    BY DEF TermsAt
  <2>. QED
    BY <2>1 DEF Map
<1>. QED
  BY <1>1 DEF Maps, NoCounts

LEMMA InitInv == Init => AffinityInv
<1>. SUFFICES ASSUME Init PROVE AffinityInv
  OBVIOUS
<1>1. TypeInv
  BY DEF Init, TypeInv, Placement
<1>2. CountingInv
  <2>1. Node \ todo = {}
    BY DEF Init
  <2>2. Maps(snapshot, Node \ todo) = NoCounts
    BY <2>1, EmptyMaps
  <2>. QED
    BY <2>2 DEF Init, CountingInv
<1>. QED
  BY <1>1, <1>2 DEF Init, AffinityInv, CopyInv, FreshInv, SkipInv

LEMMA CountNodeKeeps ==
    ASSUME AffinityInv, NEW n \in Node, CountNode(n) PROVE AffinityInv'
<1>1. TypeInv'
  BY DEF AffinityInv, TypeInv, CountNode
<1>2. CountingInv'
  <2>1. /\ n \notin Node \ todo /\ Node \ todo \in SUBSET Node
        /\ Node \ todo' = (Node \ todo) \cup {n}
    BY DEF CountNode, AffinityInv, TypeInv
  <2>2. counts' = [kind \in Kind |-> Counted(kind, n, counts[kind])]
    BY DEF CountNode, Counted
  <2>3. ASSUME NEW kind \in Kind
        PROVE  Counted(kind, n, counts[kind]) = Map(kind, snapshot, Node \ todo')
    <3>1. counts[kind] = Map(kind, snapshot, Node \ todo)
      BY DEF CountNode, AffinityInv, CountingInv, Maps
    <3>2. incoming \in Incoming
      BY DEF AffinityInv, TypeInv
    <3>. QED
      BY <2>1, <3>1, <3>2, CountUp
  <2>4. counts' = Maps(snapshot, Node \ todo')
    BY <2>2, <2>3 DEF Maps
  <2>. QED
    BY <2>4, SameMaps DEF CountNode, AffinityInv, CountingInv, NoCounts
<1>3. FreshInv' /\ SkipInv' /\ CopyInv'
  BY DEF AffinityInv, CountingInv, CopyInv, FreshInv, SkipInv, CountNode
<1>. QED
  BY <1>1, <1>2, <1>3 DEF AffinityInv

\* Nothing counted for existing terms: nobody on a node with the key has any.
LEMMA NothingCounted ==
    ASSUME AffinityInv, phase = "prefilter", todo = {}, NothingToCheck
    PROVE  WouldSkip(incoming, snapshot)
<1>1. ASSUME NEW p \in Pod, snapshot[p] \in Node, NEW i \in DOMAIN Against[p],
             Label[snapshot[p]][Against[p][i]] # Missing
      PROVE  FALSE
  <2>. DEFINE k == Against[p][i]
              q == Pair(snapshot[p], k)
              t == <<p, i>>
  <2>1. TermKeys("existing", p) = Against[p] /\ "existing" \in Kind
    BY DEF TermKeys, Kind
  <2>2. t \in Terms("existing") /\ KeyOf("existing", t) = k
    BY <2>1 DEF Terms, KeyOf
  <2>3. k \in Key
    BY <2>1, KeysType DEF AffinityInv, TypeInv
  <2>4. q \in AllPairs /\ q[1] = k /\ q[2] = Label[snapshot[p]][k]
    BY <1>1, <2>3 DEF AllPairs, Pair
  <2>5. t \in TermsAt("existing", q, snapshot, Node)
    BY <1>1, <2>2, <2>4 DEF TermsAt
  <2>6. q \in DOMAIN Map("existing", snapshot, Node)
    <3>. HIDE DEF q, t
    <3>. QED
      BY <2>4, <2>5 DEF Map
  <2>7. Map("existing", snapshot, Node) = <<>>
    <3>1. Node \ todo = Node
      OBVIOUS
    <3>. QED
      BY <2>1, <3>1 DEF AffinityInv, CountingInv, NothingToCheck, Maps
  <2>. QED
    BY <2>6, <2>7
<1>. QED
  BY <1>1 DEF WouldSkip, NothingToCheck, AffTerms, AntiTerms

LEMMA SkipKeeps == ASSUME AffinityInv, Skip PROVE AffinityInv'
<1>1. TypeInv'
  BY DEF AffinityInv, TypeInv, Skip
<1>2. SkipInv'
  <2>1. WouldSkip(incoming, snapshot)
    BY NothingCounted DEF Skip
  <2>2. Node \ todo = Node
    BY DEF Skip
  <2>. QED
    BY <2>1, <2>2, SameMaps DEF Skip, SkipInv, AffinityInv, CountingInv, NoCounts
<1>. QED
  BY <1>1, <1>2 DEF AffinityInv, CountingInv, CopyInv, FreshInv, Skip

LEMMA WriteStateKeeps == ASSUME AffinityInv, WriteState PROVE AffinityInv'
<1>1. Node \ todo = Node
  BY DEF WriteState
<1>2. base' = Maps(snapshot, Node) /\ counts' = Maps(snapshot, Node) /\ where = snapshot
  BY <1>1 DEF WriteState, AffinityInv, CountingInv
<1>. QED
  BY <1>2, SameMaps DEF AffinityInv, TypeInv, CountingInv, CopyInv, FreshInv, SkipInv, WriteState

LEMMA CloneKeeps ==
    ASSUME AffinityInv, NEW n \in Node, Clone(n) PROVE AffinityInv'
<1>1. TypeInv' /\ CountingInv' /\ CopyInv'
  BY DEF AffinityInv, TypeInv, CountingInv, CopyInv, Clone
<1>2. FreshInv' /\ SkipInv'
  BY SameMaps DEF AffinityInv, FreshInv, SkipInv, NoCounts, Clone
<1>. QED
  BY <1>1, <1>2 DEF AffinityInv

LEMMA MoveKeeps ==
    ASSUME AffinityInv, NEW p \in Pod, AddPod(p) \/ RemovePod(p) PROVE AffinityInv'
<1>1. /\ phase = "dryrun" /\ phase' = "dryrun" /\ node \in Node /\ node' = node
      /\ UNCHANGED <<incoming, skip, snapshot, todo, base>>
      /\ where \in Placement /\ snapshot \in Placement /\ incoming \in Incoming
  BY DEF AffinityInv, TypeInv, CopyInv, AddPod, RemovePod
<1>2. TypeInv'
  BY <1>1 DEF AffinityInv, TypeInv, Placement, AddPod, RemovePod
<1>3. CopyInv'
  BY <1>1 DEF AffinityInv, CopyInv, Placement, AddPod, RemovePod
<1>4. CountingInv'
  BY <1>1 DEF CountingInv
<1>5. SkipInv'
  BY <1>1, SameMaps DEF AffinityInv, SkipInv, NoCounts, AddPod, RemovePod, UpdateWithPod
<1>6. FreshInv'
  <2>. SUFFICES ASSUME ~skip PROVE counts' = Maps(where', Node) /\ base' = Maps(snapshot', Node)
    BY <1>1, SameMaps DEF FreshInv
  <2>1. base' = Maps(snapshot', Node) /\ \A kind \in Kind : counts[kind] = Map(kind, where, Node)
    BY <1>1 DEF AffinityInv, FreshInv, Maps
  <2>2. CASE AddPod(p)
    <3>1. where[p] = Nowhere /\ where' = [where EXCEPT ![p] = node]
      BY <2>2 DEF AddPod
    <3>2. counts' = [kind \in Kind |-> Bump(counts[kind], node, TermKeys(kind, p), 1)]
      BY <2>2 DEF AddPod, UpdateWithPod
    <3>3. ASSUME NEW kind \in Kind
          PROVE  Bump(counts[kind], node, TermKeys(kind, p), 1) = Map(kind, where', Node)
      <4>1. Bump(Map(kind, where, Node), node, TermKeys(kind, p), 1)
                = Map(kind, [where EXCEPT ![p] = node], Node)
        <5>1. where[p] = Nowhere /\ where \in Placement /\ node \in Node /\ incoming \in Incoming
          BY <1>1, <3>1
        <5>. QED
          BY <5>1, BumpUp
      <4>. QED
        BY <2>1, <3>1, <4>1
    <3>. QED
      BY <2>1, <3>2, <3>3 DEF Maps
  <2>3. CASE RemovePod(p)
    <3>1. where[p] = node /\ where' = [where EXCEPT ![p] = Nowhere]
      BY <2>3 DEF RemovePod
    <3>2. counts' = [kind \in Kind |-> Bump(counts[kind], node, TermKeys(kind, p), -1)]
      BY <2>3 DEF RemovePod, UpdateWithPod
    <3>3. ASSUME NEW kind \in Kind
          PROVE  Bump(counts[kind], node, TermKeys(kind, p), -1) = Map(kind, where', Node)
      <4>1. Bump(Map(kind, where, Node), node, TermKeys(kind, p), -1)
                = Map(kind, [where EXCEPT ![p] = Nowhere], Node)
        BY <1>1, <3>1, BumpDown
      <4>. QED
        BY <2>1, <3>1, <4>1
    <3>. QED
      BY <2>1, <3>2, <3>3 DEF Maps
  <2>. QED
    BY <2>2, <2>3
<1>. QED
  BY <1>2, <1>3, <1>4, <1>5, <1>6 DEF AffinityInv

LEMMA NextInv == AffinityInv /\ [Next]_vars => AffinityInv'
<1>. SUFFICES ASSUME AffinityInv, [Next]_vars PROVE AffinityInv'
  OBVIOUS
<1>1. CASE UNCHANGED vars
  BY <1>1, SameMaps DEF vars, AffinityInv, TypeInv, CountingInv, CopyInv, FreshInv, SkipInv,
                        NoCounts
<1>. QED
  BY <1>1, CountNodeKeeps, SkipKeeps, WriteStateKeeps, CloneKeeps, MoveKeeps DEF Next

LEMMA AffinityInvariant == Spec => []AffinityInv
  BY InitInv, NextInv, PTL DEF Spec

-----------------------------------------------------------------------------
(* Types and maps                                                          *)

LEMMA MapsArePositive ==
    ASSUME incoming \in Incoming, NEW w, NEW S, NEW kind \in Kind,
           NEW pair \in DOMAIN Maps(w, S)[kind]
    PROVE  Maps(w, S)[kind][pair] \in Nat \ {0}
<1>1. Maps(w, S)[kind] = Map(kind, w, S)
  BY DEF Maps
<1>2. pair \in {q \in AllPairs : TermsAt(kind, q, w, S) # {}}
  BY <1>1 DEF Map
<1>3. Map(kind, w, S)[pair] = Number(kind, pair, w, S)
  BY <1>2 DEF Map
<1>4. Number(kind, pair, w, S) \in Nat /\ Number(kind, pair, w, S) # 0
  BY <1>2, NumberType
<1>. QED
  BY <1>1, <1>3, <1>4

LEMMA TypeFollows == AffinityInv => TypeOK
<1>. SUFFICES ASSUME AffinityInv PROVE TypeOK
  OBVIOUS
<1>1. \/ counts = NoCounts
      \/ counts = Maps(snapshot, Node \ todo)
      \/ counts = Maps(snapshot, Node)
      \/ counts = Maps(where, Node)
  BY DEF AffinityInv, TypeInv, CountingInv, FreshInv, SkipInv
<1>2. \A kind \in Kind : \A pair \in DOMAIN counts[kind] : counts[kind][pair] \in Nat \ {0}
  <2>1. CASE counts = NoCounts
    BY <2>1 DEF NoCounts
  <2>2. incoming \in Incoming
    BY DEF AffinityInv, TypeInv
  <2>. QED
    BY <1>1, <2>1, <2>2, MapsArePositive
<1>3. DOMAIN counts = Kind
  BY <1>1 DEF NoCounts, Maps
<1>4. DOMAIN base = Kind
  BY DEF AffinityInv, TypeInv, CountingInv, FreshInv, SkipInv, NoCounts, Maps
<1>. QED
  BY <1>2, <1>3, <1>4 DEF AffinityInv, TypeInv, TypeOK, Placement

\* Types, and that no entry of a map is ever zero or negative: update deletes
\* an entry whose count is down to zero (filtering.go:110-119).
THEOREM MapsHaveNoZeros == Spec => []TypeOK
  BY TypeFollows, AffinityInvariant, PTL

LEMMA FreshFollows == AffinityInv => CountsAreFresh
<1>. SUFFICES ASSUME AffinityInv, Answering, ~skip
              PROVE  counts = [kind \in Kind |-> FreshCounts(kind, where)]
  BY DEF CountsAreFresh
<1>1. counts = [kind \in Kind |-> Map(kind, where, Node)]
  BY DEF AffinityInv, FreshInv, Answering, Maps
<1>. QED
  BY <1>1, MapIsFresh

\* Whatever the order in which the goroutines merge their nodes, and whatever
\* pods a dry run takes away and puts back, the maps are those a recount of
\* the pods gives, entry by entry (filtering.go:57-119).
THEOREM MapsAreRecounts == Spec => []CountsAreFresh
  BY FreshFollows, AffinityInvariant, PTL

-----------------------------------------------------------------------------
(* Filter and the rules                                                    *)

LEMMA CountIsShared ==
    ASSUME AffinityInv, Answering, ~skip, NEW kind \in Kind, NEW n \in Node, NEW k \in Key
    PROVE  /\ CountOn(kind, n, k) \in Nat
           /\ Label[n][k] # Missing =>
                 (CountOn(kind, n, k) > 0 <=>
                    \E q \in Pod : /\ Shares(where, q, n, k)
                                   /\ \E i \in DOMAIN TermKeys(kind, q) : TermKeys(kind, q)[i] = k)
           /\ Label[n][k] = Missing => CountOn(kind, n, k) = 0
<1>. DEFINE q == Pair(n, k)
<1>1. counts[kind] = Map(kind, where, Node) /\ incoming \in Incoming
  BY DEF AffinityInv, TypeInv, FreshInv, Answering, Maps
<1>2. CASE Label[n][k] # Missing
  <2>1. q \in AllPairs /\ q[1] = k /\ q[2] = Label[n][k]
    BY <1>2 DEF AllPairs, Pair
  <2>2. /\ CountOn(kind, n, k) = Number(kind, q, where, Node)
        /\ Number(kind, q, where, Node) \in Nat
        /\ Number(kind, q, where, Node) = 0 <=> TermsAt(kind, q, where, Node) = {}
    <3>1. Get(Map(kind, where, Node), q) = Number(kind, q, where, Node)
      BY <1>1, <2>1, GetFromMap
    <3>. QED
      BY <1>1, <3>1, NumberType DEF CountOn
  <2>3. TermsAt(kind, q, where, Node) # {} <=>
            \E r \in Pod : /\ Shares(where, r, n, k)
                           /\ \E i \in DOMAIN TermKeys(kind, r) : TermKeys(kind, r)[i] = k
    <3>1. ASSUME NEW t \in TermsAt(kind, q, where, Node)
          PROVE  \E r \in Pod : /\ Shares(where, r, n, k)
                                /\ \E i \in DOMAIN TermKeys(kind, r) : TermKeys(kind, r)[i] = k
      <4>1. PICK r \in Pod : \E i \in DOMAIN TermKeys(kind, r) : t = <<r, i>>
        BY DEF TermsAt, Terms
      <4>2. PICK i \in DOMAIN TermKeys(kind, r) : t = <<r, i>>
        BY <4>1
      <4>3. Shares(where, r, n, k) /\ TermKeys(kind, r)[i] = k
        BY <1>2, <2>1, <4>2 DEF TermsAt, KeyOf, Shares
      <4>. QED
        BY <4>3
    <3>2. ASSUME NEW r \in Pod, Shares(where, r, n, k),
                 NEW i \in DOMAIN TermKeys(kind, r), TermKeys(kind, r)[i] = k
          PROVE  TermsAt(kind, q, where, Node) # {}
      <4>1. <<r, i>> \in Terms(kind) /\ KeyOf(kind, <<r, i>>) = k
        BY <3>2 DEF Terms, KeyOf
      <4>2. <<r, i>> \in TermsAt(kind, q, where, Node)
        BY <2>1, <3>2, <4>1 DEF TermsAt, Shares
      <4>. QED
        BY <4>2
    <3>. QED
      BY <3>1, <3>2
  <2>. HIDE DEF q
  <2>. QED
    BY <1>2, <2>2, <2>3
<1>3. CASE Label[n][k] = Missing
  <2>1. q \notin AllPairs
    BY <1>3 DEF AllPairs, Pair
  <2>2. q \notin DOMAIN counts[kind]
    <3>. HIDE DEF q
    <3>. QED
      BY <1>1, <2>1 DEF Map
  <2>. QED
    BY <1>3, <2>2 DEF CountOn, Get
<1>. QED
  BY <1>2, <1>3

LEMMA RequestKeys ==
    ASSUME incoming \in Incoming
    PROVE  /\ \A i \in DOMAIN AffTerms : AffTerms[i].key \in Key
           /\ \A i \in DOMAIN AntiTerms : AntiTerms[i].key \in Key
<1>1. incoming.affinity \in Seq(Term) /\ incoming.anti \in Seq(Term)
  BY TermsAssumption DEF Request
<1>2. /\ \A i \in DOMAIN incoming.affinity : incoming.affinity[i] \in Term
      /\ \A i \in DOMAIN incoming.anti : incoming.anti[i] \in Term
  BY <1>1
<1>. QED
  BY <1>2 DEF Term, AffTerms, AntiTerms

LEMMA ExistingVerdict ==
    ASSUME AffinityInv, Answering, ~skip, NEW n \in Node
    PROVE  SatisfyExistingPodsAntiAffinity(n) <=> ExistingRule(where, n)
<1>1. /\ incoming \in Incoming /\ "existing" \in Kind
      /\ \A q \in Pod : TermKeys("existing", q) = Against[q]
  BY DEF AffinityInv, TypeInv, Kind, TermKeys
<1>2. \A q \in Pod : \A i \in DOMAIN Against[q] : Against[q][i] \in Key
  BY <1>1, KeysType
<1>3. \A k \in Key : Label[n][k] # Missing =>
          (~(CountOn("existing", n, k) <= 0) <=>
              \E q \in Pod : Shares(where, q, n, k) /\ \E i \in DOMAIN Against[q] : Against[q][i] = k)
  <2>1. ASSUME NEW k \in Key, Label[n][k] # Missing
        PROVE  ~(CountOn("existing", n, k) <= 0) <=>
                  \E q \in Pod : /\ Shares(where, q, n, k)
                                 /\ \E i \in DOMAIN Against[q] : Against[q][i] = k
    <3>1. /\ CountOn("existing", n, k) \in Nat
          /\ CountOn("existing", n, k) > 0 <=>
                \E q \in Pod : /\ Shares(where, q, n, k)
                               /\ \E i \in DOMAIN TermKeys("existing", q) :
                                     TermKeys("existing", q)[i] = k
      BY <1>1, <2>1, CountIsShared
    <3>. QED
      BY <1>1, <3>1
  <2>. QED
    BY <2>1
<1>4. \A q \in Pod, k \in Key : Shares(where, q, n, k) => Label[n][k] # Missing
  BY DEF Shares
<1>. QED
  BY <1>2, <1>3, <1>4 DEF SatisfyExistingPodsAntiAffinity, ExistingRule

LEMMA AntiVerdict ==
    ASSUME AffinityInv, Answering, ~skip, NEW n \in Node
    PROVE  SatisfyPodAntiAffinity(n) <=> AntiRule(incoming, where, n)
<1>1. /\ incoming \in Incoming /\ "anti" \in Kind
      /\ \A q \in Pod : /\ DOMAIN TermKeys("anti", q) = Matched(AntiTerms, q)
                        /\ \A j \in Matched(AntiTerms, q) :
                              TermKeys("anti", q)[j] = AntiTerms[j].key
  BY DEF AffinityInv, TypeInv, Kind, TermKeys, Restrict, KeysOf, Matched
<1>2. ASSUME NEW i \in DOMAIN AntiTerms, Label[n][AntiTerms[i].key] # Missing
      PROVE  ~(CountOn("anti", n, AntiTerms[i].key) <= 0) <=>
                \E q \in Pod, j \in DOMAIN AntiTerms :
                   /\ Shares(where, q, n, AntiTerms[i].key)
                   /\ q \in AntiTerms[j].matches /\ AntiTerms[j].key = AntiTerms[i].key
  <2>. DEFINE k == AntiTerms[i].key
  <2>1. k \in Key
    BY <1>1, RequestKeys
  <2>2. /\ CountOn("anti", n, k) \in Nat
        /\ CountOn("anti", n, k) > 0 <=>
              \E q \in Pod : /\ Shares(where, q, n, k)
                             /\ \E j \in DOMAIN TermKeys("anti", q) : TermKeys("anti", q)[j] = k
    BY <1>1, <1>2, <2>1, CountIsShared
  <2>. HIDE DEF k
  <2>3. CountOn("anti", n, k) > 0 <=>
            \E q \in Pod, j \in DOMAIN AntiTerms :
               Shares(where, q, n, k) /\ q \in AntiTerms[j].matches /\ AntiTerms[j].key = k
    BY <1>1, <2>2 DEF Matched
  <2>. QED
    BY <2>2, <2>3 DEF k
<1>3. \A q \in Pod, k \in Key : Shares(where, q, n, k) => Label[n][k] # Missing
  BY DEF Shares
<1>4. \A i \in DOMAIN AntiTerms : AntiTerms[i].key \in Key
  BY <1>1, RequestKeys
<1>5. ASSUME SatisfyPodAntiAffinity(n) PROVE AntiRule(incoming, where, n)
  <2>. SUFFICES ASSUME NEW i \in DOMAIN AntiTerms, NEW q \in Pod, q \in AntiTerms[i].matches,
                       Shares(where, q, n, AntiTerms[i].key)
                PROVE  FALSE
    BY DEF AntiRule, AntiTerms
  <2>. QED
    BY <1>2, <1>3, <1>4, <1>5 DEF SatisfyPodAntiAffinity
<1>6. ASSUME AntiRule(incoming, where, n) PROVE SatisfyPodAntiAffinity(n)
  <2>. SUFFICES ASSUME NEW i \in DOMAIN AntiTerms, Label[n][AntiTerms[i].key] # Missing,
                       ~(CountOn("anti", n, AntiTerms[i].key) <= 0)
                PROVE  FALSE
    BY DEF SatisfyPodAntiAffinity
  <2>1. PICK q \in Pod, j \in DOMAIN AntiTerms :
           /\ Shares(where, q, n, AntiTerms[i].key)
           /\ q \in AntiTerms[j].matches /\ AntiTerms[j].key = AntiTerms[i].key
    BY <1>2
  <2>. QED
    BY <1>6, <2>1 DEF AntiRule, AntiTerms
<1>. QED
  BY <1>5, <1>6

LEMMA ExistIsShared ==
    ASSUME AffinityInv, Answering, ~skip, NEW n \in Node, NEW i \in DOMAIN AffTerms,
           Label[n][AffTerms[i].key] # Missing
    PROVE  CountOn("affinity", n, AffTerms[i].key) > 0 <=>
              \E q \in Pod : MatchesAll(q) /\ Shares(where, q, n, AffTerms[i].key)
<1>. DEFINE k == AffTerms[i].key
<1>1. /\ incoming \in Incoming /\ "affinity" \in Kind
      /\ \A q \in Pod : TermKeys("affinity", q) = IF MatchesAll(q) THEN KeysOf(AffTerms) ELSE <<>>
  BY DEF AffinityInv, TypeInv, Kind, TermKeys
<1>2. k \in Key
  BY <1>1, RequestKeys
<1>3. CountOn("affinity", n, k) > 0 <=>
         \E q \in Pod : /\ Shares(where, q, n, k)
                        /\ \E j \in DOMAIN TermKeys("affinity", q) : TermKeys("affinity", q)[j] = k
  BY <1>1, <1>2, CountIsShared
<1>4. \A q \in Pod : (\E j \in DOMAIN TermKeys("affinity", q) : TermKeys("affinity", q)[j] = k)
                        <=> MatchesAll(q)
  BY <1>1 DEF KeysOf
<1>. QED
  BY <1>3, <1>4

\* "Nobody matches yet", as the empty map says it.
LEMMA EmptyIsInvisible ==
    ASSUME AffinityInv, Answering, ~skip
    PROVE  counts["affinity"] = <<>> <=> NoneVisible(incoming, where)
<1>. DEFINE entries == {q \in AllPairs : TermsAt("affinity", q, where, Node) # {}}
<1>1. /\ incoming \in Incoming /\ "affinity" \in Kind /\ where \in Placement
      /\ \A q \in Pod : TermKeys("affinity", q) = IF MatchesAll(q) THEN KeysOf(AffTerms) ELSE <<>>
      /\ counts["affinity"] = Map("affinity", where, Node)
  BY DEF AffinityInv, TypeInv, FreshInv, Answering, Maps, Kind, TermKeys
<1>2. counts["affinity"] = <<>> <=> entries = {}
  BY <1>1 DEF Map
<1>3. ASSUME NEW q \in MatchedInCluster(incoming, where), Visible(incoming, where, q)
      PROVE  entries # {}
  <2>1. q \in Pod /\ MatchesAll(q) /\ where[q] \in Node
    BY DEF MatchedInCluster, MatchesAll, AffTerms
  <2>2. PICK i \in DOMAIN AffTerms : Label[where[q]][AffTerms[i].key] # Missing
    BY <1>3 DEF Visible, AffTerms
  <2>. DEFINE k == AffTerms[i].key
              pair == Pair(where[q], k)
  <2>3. k \in Key
    BY <1>1, RequestKeys
  <2>4. pair \in AllPairs /\ pair[1] = k /\ pair[2] = Label[where[q]][k]
    BY <2>1, <2>2, <2>3 DEF AllPairs, Pair
  <2>5. /\ <<q, i>> \in Terms("affinity")
        /\ KeyOf("affinity", <<q, i>>) = k
    BY <1>1, <2>1 DEF Terms, KeyOf, KeysOf
  <2>6. <<q, i>> \in TermsAt("affinity", pair, where, Node)
    BY <2>1, <2>4, <2>5 DEF TermsAt
  <2>. HIDE DEF pair
  <2>. QED
    BY <2>4, <2>6
<1>4. ASSUME NEW pair \in entries
      PROVE  \E q \in MatchedInCluster(incoming, where) : Visible(incoming, where, q)
  <2>1. pair[1] \in Key /\ pair[2] # Missing
    BY PairType
  <2>2. PICK t \in TermsAt("affinity", pair, where, Node) : TRUE
    OBVIOUS
  <2>3. PICK q \in Pod : \E i \in DOMAIN TermKeys("affinity", q) : t = <<q, i>>
    BY <2>2 DEF TermsAt, Terms
  <2>4. PICK i \in DOMAIN TermKeys("affinity", q) : t = <<q, i>>
    BY <2>3
  <2>5. MatchesAll(q) /\ i \in DOMAIN AffTerms /\ TermKeys("affinity", q)[i] = AffTerms[i].key
    BY <1>1, <2>4 DEF KeysOf
  <2>6. AffTerms[i].key = pair[1] /\ where[q] \in Node /\ Label[where[q]][pair[1]] = pair[2]
    BY <2>2, <2>4, <2>5 DEF TermsAt, KeyOf
  <2>. QED
    BY <2>1, <2>5, <2>6 DEF Visible, MatchedInCluster, MatchesAll, AffTerms
<1>. QED
  BY <1>2, <1>3, <1>4 DEF NoneVisible

LEMMA AffinityVerdict ==
    ASSUME AffinityInv, Answering, ~skip, NEW n \in Node
    PROVE  SatisfyPodAffinity(n) <=> AffinityAsBuilt(incoming, where, n)
<1>1. AllKeysOn(n) <=> \A i \in DOMAIN incoming.affinity : Label[n][incoming.affinity[i].key] # Missing
  BY DEF AllKeysOn, AffTerms
<1>2. ASSUME AllKeysOn(n)
      PROVE  PodsExist(n) <=>
                \A i \in DOMAIN incoming.affinity : \E q \in MatchedInCluster(incoming, where) :
                   Shares(where, q, n, incoming.affinity[i].key)
  <2>1. \A i \in DOMAIN AffTerms :
            CountOn("affinity", n, AffTerms[i].key) > 0 <=>
               \E q \in Pod : MatchesAll(q) /\ Shares(where, q, n, AffTerms[i].key)
    BY <1>2, ExistIsShared DEF AllKeysOn
  <2>2. \A q, k : q \in Pod /\ MatchesAll(q) /\ Shares(where, q, n, k)
                    <=> q \in MatchedInCluster(incoming, where) /\ Shares(where, q, n, k)
    BY DEF MatchedInCluster, MatchesAll, AffTerms, Shares
  <2>. QED
    BY <2>1, <2>2 DEF PodsExist, AffTerms
<1>3. AffTerms = <<>> => PodsExist(n)
  BY DEF PodsExist
<1>4. counts["affinity"] = <<>> <=> NoneVisible(incoming, where)
  BY EmptyIsInvisible
<1>. QED
  BY <1>1, <1>2, <1>3, <1>4
  DEF SatisfyPodAffinity, FirstOfSeries, SelfMatch, AffinityAsBuilt, AffinityRuleIf

LEMMA StatusIsAsBuilt ==
    ASSUME AffinityInv, Answering, ~skip, NEW n \in Node
    PROVE  FilterStatus(n) = StatusAsBuilt(incoming, where, n)
  BY ExistingVerdict, AntiVerdict, AffinityVerdict DEF FilterStatus, StatusAsBuilt, StatusIf

\* Where some matching pod shows in the map, or none is in the cluster, the
\* code's reading of "first of its series" is the comment's.
LEMMA ReadingsAgree ==
    ASSUME NEW r, NEW w, NEW n, ~AllHidden(r, w)
    PROVE  AffinityAsBuilt(r, w, n) <=> AffinityRule(r, w, n)
<1>1. MatchedInCluster(r, w) = {} => NoneVisible(r, w)
  BY DEF NoneVisible
<1>2. r.selfMatch => (NoneVisible(r, w) <=> MatchedInCluster(r, w) = {})
  BY <1>1 DEF AllHidden
<1>. QED
  BY <1>2 DEF AffinityAsBuilt, AffinityRule, AffinityRuleIf

LEMMA VerdictFollows == AffinityInv => VerdictIsTheRule
<1>. SUFFICES ASSUME AffinityInv, Answering, ~skip, ~AllHidden(incoming, where), NEW n \in Node
              PROVE  FilterStatus(n) = StatusByRule(incoming, where, n)
  BY DEF VerdictIsTheRule
<1>. QED
  BY StatusIsAsBuilt, ReadingsAgree DEF StatusAsBuilt, StatusByRule, StatusIf

\* Filter looks at three maps only and still decides the rules about pods, the
\* first-of-a-series rule included (filtering.go:361-442), unless all matching
\* pods are on nodes without any of the keys.
THEOREM FilterDecidesTheRule == Spec => []VerdictIsTheRule
  BY VerdictFollows, AffinityInvariant, PTL

-----------------------------------------------------------------------------
(* Skip, and nodes refused for affinity                                    *)

LEMMA SkipFollows == AffinityInv => SkipIsSound
<1>. SUFFICES ASSUME AffinityInv, skip, AddsNoTerms(snapshot, where), NEW n \in Node
              PROVE  StatusByRule(incoming, where, n) = "Success"
  BY DEF SkipIsSound
<1>1. WouldSkip(incoming, snapshot) /\ where \in Placement /\ CopyInv /\ Nowhere \notin Node
  BY SetsAssumption DEF AffinityInv, TypeInv, SkipInv
<1>2. AffinityRule(incoming, where, n) /\ AntiRule(incoming, where, n)
  BY <1>1 DEF WouldSkip, AffinityRule, AffinityRuleIf, AntiRule
<1>3. ASSUME NEW q \in Pod, NEW i \in DOMAIN Against[q], Shares(where, q, n, Against[q][i])
      PROVE  FALSE
  <2>1. where[q] \in Node /\ Label[where[q]][Against[q][i]] # Missing
    BY <1>3 DEF Shares
  <2>2. where[q] = snapshot[q] \/ snapshot[q] = Nowhere
    BY <1>1, <2>1 DEF CopyInv
  <2>3. CASE where[q] = snapshot[q]
    BY <1>1, <2>1, <2>3 DEF WouldSkip
  <2>4. CASE snapshot[q] = Nowhere
    BY <1>1, <1>3, <2>1, <2>4 DEF AddsNoTerms
  <2>. QED
    BY <2>2, <2>3, <2>4
<1>4. ExistingRule(where, n)
  BY <1>3 DEF ExistingRule
<1>. QED
  BY <1>2, <1>4 DEF StatusByRule, StatusIf

\* A pod for which PreFilter answers Skip (filtering.go:313-315) would have
\* passed every Filter of the cycle.
THEOREM SkipLosesNothing == Spec => []SkipIsSound
  BY SkipFollows, AffinityInvariant, PTL

\* On the level of pods: taking a pod off node n opens no affinity rule there.
LEMMA EvictionKeepsRefusal ==
    ASSUME NEW r, NEW w \in Placement, NEW n \in Node, NEW p \in Pod, w[p] = n,
           ~AffinityAsBuilt(r, w, n)
    PROVE  ~AffinityAsBuilt(r, [w EXCEPT ![p] = Nowhere], n)
<1>. DEFINE v == [w EXCEPT ![p] = Nowhere]
<1>. SUFFICES ASSUME AffinityAsBuilt(r, v, n) PROVE FALSE
  OBVIOUS
<1>1. v[p] = Nowhere /\ Nowhere \notin Node /\ \A q \in Pod : q # p => v[q] = w[q]
  BY SetsAssumption DEF Placement
<1>. HIDE DEF v
<1>2. \A i \in DOMAIN r.affinity : Label[n][r.affinity[i].key] # Missing
  BY DEF AffinityAsBuilt, AffinityRuleIf
<1>3. ~\A i \in DOMAIN r.affinity : \E q \in MatchedInCluster(r, v) :
          Shares(v, q, n, r.affinity[i].key)
  <2>1. ASSUME NEW q \in MatchedInCluster(r, v), NEW k, Shares(v, q, n, k)
        PROVE  q \in MatchedInCluster(r, w) /\ Shares(w, q, n, k)
    BY <1>1, <2>1 DEF Shares, MatchedInCluster
  <2>. QED
    BY <1>2, <2>1 DEF AffinityAsBuilt, AffinityRuleIf
<1>4. r.selfMatch /\ NoneVisible(r, v)
  BY <1>3 DEF AffinityAsBuilt, AffinityRuleIf
<1>5. PICK q \in MatchedInCluster(r, w) : Visible(r, w, q)
  BY <1>2, <1>4 DEF AffinityAsBuilt, AffinityRuleIf, NoneVisible
<1>6. q = p
  BY <1>1, <1>4, <1>5 DEF Visible, NoneVisible, MatchedInCluster
<1>7. /\ p \in MatchedInCluster(r, w)
      /\ \A i \in DOMAIN r.affinity : Shares(w, p, n, r.affinity[i].key)
  BY <1>2, <1>5, <1>6 DEF Shares
<1>. QED
  BY <1>2, <1>7 DEF AffinityAsBuilt, AffinityRuleIf

LEMMA StatusIsFinal ==
    ASSUME AffinityInv, Answering
    PROVE  /\ skip => \A n : FilterStatus(n) = "Success"
           /\ ~skip => \A n \in Node :
                 FilterStatus(n) = "UnschedulableAndUnresolvable"
                     <=> ~AffinityAsBuilt(incoming, where, n)
<1>1. skip => \A n : FilterStatus(n) = "Success"
  BY DEF FilterStatus
<1>2. ASSUME ~skip, NEW n \in Node
      PROVE  FilterStatus(n) = "UnschedulableAndUnresolvable"
                 <=> ~AffinityAsBuilt(incoming, where, n)
  BY <1>2, StatusIsAsBuilt DEF StatusAsBuilt, StatusIf
<1>. QED
  BY <1>1, <1>2

LEMMA RefusedOnNode ==
    AffinityInv /\ Answering /\ ~skip /\ node \in Node
        => (FilterStatus(node) = "UnschedulableAndUnresolvable"
                <=> ~AffinityAsBuilt(incoming, where, node))
  BY StatusIsFinal

LEMMA RefusedNext ==
    AffinityInv' /\ Answering' /\ ~skip' /\ (node \in Node)'
        => (FilterStatus(node)' = "UnschedulableAndUnresolvable"
                <=> ~AffinityAsBuilt(incoming', where', node'))
<1>1. (AffinityInv /\ Answering /\ ~skip /\ node \in Node
          => (FilterStatus(node) = "UnschedulableAndUnresolvable"
                  <=> ~AffinityAsBuilt(incoming, where, node)))'
  BY RefusedOnNode, PTL
<1>. QED
  BY <1>1

LEMMA RefusalStays == AffinityInv /\ AffinityInv' => EvictionCuresNothing
<1>. SUFFICES ASSUME AffinityInv, AffinityInv', NEW p \in Pod, RemovePod(p),
                     FilterStatus(node) = "UnschedulableAndUnresolvable"
              PROVE  FilterStatus(node)' = "UnschedulableAndUnresolvable"
  BY DEF EvictionCuresNothing
<1>1. /\ phase = "dryrun" /\ phase' = "dryrun" /\ node' = node /\ skip' = skip
      /\ incoming' = incoming /\ where[p] = node /\ where' = [where EXCEPT ![p] = Nowhere]
      /\ node \in Node /\ where \in Placement
  BY DEF RemovePod, AffinityInv, TypeInv, CopyInv
<1>2. ~skip /\ ~AffinityAsBuilt(incoming, where, node)
  BY <1>1, StatusIsFinal DEF Answering
<1>3. ~AffinityAsBuilt(incoming', where', node')
  BY <1>1, <1>2, EvictionKeepsRefusal
<1>. QED
  BY <1>1, <1>2, <1>3, RefusedNext DEF Answering

\* Preemption passes over a node refused for affinity (filtering.go:429-431):
\* rightly, no sequence of evictions there would open it.
THEOREM RefusalIsFinal == Spec => UnresolvableIsFinal
<1>1. AffinityInv /\ AffinityInv' /\ [Next]_vars => [EvictionCuresNothing]_vars
  BY RefusalStays
<1>. QED
  BY <1>1, AffinityInvariant, PTL DEF Spec, UnresolvableIsFinal

-----------------------------------------------------------------------------
(* The abstract oracle                                                     *)

Statuses == {"Success", "Unschedulable", "UnschedulableAndUnresolvable"}

LEMMA AnswersType ==
    ASSUME Answering PROVE Answers \in [Node -> Statuses]
  BY DEF Answers, FilterStatus, Statuses

LEMMA AnswersTypeNext == Answering' => Answers' \in [Node -> Statuses]
<1>1. (Answering => Answers \in [Node -> Statuses])'
  BY AnswersType, PTL
<1>. QED
  BY <1>1

LEMMA AnswersExact ==
    ASSUME AffinityInv, Answering, Followed(incoming, snapshot, where)
    PROVE  Answers = [n \in Node |-> StatusAsBuilt(incoming, where, n)]
<1>1. ASSUME NEW n \in Node PROVE FilterStatus(n) = StatusAsBuilt(incoming, where, n)
  <2>1. CASE skip
    <3>1. AddsNoTerms(snapshot, where)
      BY <2>1 DEF AffinityInv, SkipInv, Followed
    <3>2. StatusByRule(incoming, where, n) = "Success"
      BY <2>1, <3>1, SkipFollows DEF SkipIsSound
    <3>3. ~AllHidden(incoming, where)
      BY <2>1 DEF AffinityInv, SkipInv, WouldSkip, AllHidden, MatchedInCluster, MatchesTerms
    <3>. QED
      BY <2>1, <3>2, <3>3, ReadingsAgree DEF FilterStatus, StatusAsBuilt, StatusByRule, StatusIf
  <2>2. CASE ~skip
    BY <2>2, StatusIsAsBuilt
  <2>. QED
    BY <2>1, <2>2
<1>. QED
  BY <1>1 DEF Answers

LEMMA AnswersExactNext ==
    AffinityInv' /\ Answering' /\ Followed(incoming', snapshot', where')
        => Answers' = [n \in Node |-> StatusAsBuilt(incoming', where', n)]
<1>1. (AffinityInv /\ Answering /\ Followed(incoming, snapshot, where)
          => Answers = [n \in Node |-> StatusAsBuilt(incoming, where, n)])'
  BY AnswersExact, PTL
<1>. QED
  BY <1>1

\* On the snapshot no pod was added.
LEMMA SnapshotIsFollowed == ASSUME NEW r, NEW s PROVE Followed(r, s, s)
  BY DEF Followed, AddsNoTerms

LEMMA InitOracle == Init => Oracle!Init
  BY DEF Init, Oracle!Init, Oracle!Unanswered, Answers, Answering

LEMMA NextOracle ==
    ASSUME AffinityInv, AffinityInv', [Next]_vars PROVE [Oracle!Next]_(Oracle!vars)
<1>. USE DEF Oracle!vars
<1>1. ASSUME NEW n \in Node, CountNode(n) PROVE UNCHANGED Oracle!vars
  <2>1. ~Answering /\ ~Answering'
    BY <1>1 DEF CountNode, Answering
  <2>2. Answers' = Answers
    BY <2>1 DEF Answers
  <2>. QED
    BY <1>1, <2>2 DEF CountNode
<1>2. CASE Skip \/ WriteState
  <2>1. /\ ~Answering /\ Answering' /\ where' = where /\ snapshot' = snapshot
        /\ node' = node /\ incoming' = incoming /\ where = snapshot
    BY <1>2 DEF Skip, WriteState, Answering, AffinityInv, CountingInv
  <2>2. Answers = Oracle!Unanswered
    BY <2>1 DEF Answers, Oracle!Unanswered
  <2>3. Answers' = Oracle!Exact(snapshot)
    BY <2>1, SnapshotIsFollowed, AnswersExactNext DEF Oracle!Exact
  <2>. QED
    BY <2>1, <2>2, <2>3 DEF Oracle!Next, Oracle!PreFilter
<1>3. ASSUME NEW n \in Node, Clone(n) PROVE Oracle!Next
  <2>1. /\ Answering /\ Answering' /\ where' = snapshot /\ snapshot' = snapshot /\ node' = n
        /\ incoming' = incoming
    BY <1>3 DEF Clone, Answering
  <2>2. Answers # Oracle!Unanswered
    <3>1. Answers[n] \in Statuses /\ Oracle!Unanswered[n] = "none"
      BY <2>1, AnswersType DEF Oracle!Unanswered
    <3>. QED
      BY <3>1 DEF Statuses
  <2>3. Answers' = Oracle!Exact(snapshot)
    BY <2>1, SnapshotIsFollowed, AnswersExactNext DEF Oracle!Exact
  <2>. QED
    BY <2>1, <2>2, <2>3 DEF Oracle!Next, Oracle!Clone
<1>4. ASSUME NEW p \in Pod, AddPod(p) \/ RemovePod(p) PROVE Oracle!Next
  <2>1. /\ Answering' /\ node' = node /\ node \in Node
        /\ snapshot' = snapshot /\ incoming' = incoming
        /\ \/ where[p] = node /\ where' = [where EXCEPT ![p] = Nowhere]
           \/ where[p] = Nowhere /\ where' = [where EXCEPT ![p] = node]
    BY <1>4 DEF AddPod, RemovePod, AffinityInv, CopyInv, Answering
  <2>2. Answers' \in [Node -> Statuses]
    BY <2>1, AnswersTypeNext
  <2>3. Followed(incoming, snapshot, where') => Answers' = Oracle!Exact(where')
    BY <2>1, AnswersExactNext DEF Oracle!Exact
  <2>4. Oracle!Move(p)
    BY <2>1, <2>2, <2>3 DEF Oracle!Move, Statuses
  <2>. QED
    BY <2>4 DEF Oracle!Next
<1>5. CASE UNCHANGED vars
  BY <1>5 DEF vars, Answers, Answering, FilterStatus, SatisfyPodAffinity, AllKeysOn, PodsExist,
              FirstOfSeries, SelfMatch, SatisfyPodAntiAffinity, AffTerms, AntiTerms,
              SatisfyExistingPodsAntiAffinity, CountOn
<1>. QED
  BY <1>1, <1>2, <1>3, <1>4, <1>5 DEF Next

\* The maps and their copies implement the oracle that looks at the pods; after
\* Skip (filtering.go:313-315) they follow as long as no pod with terms of its
\* own against the incoming pod is added.
THEOREM AffinityImplementsOracle == Spec => ImplementsOracle
<1>1. AffinityInv /\ AffinityInv' /\ [Next]_vars => [Oracle!Next]_(Oracle!vars)
  BY NextOracle
<1>. QED
  BY <1>1, InitOracle, AffinityInvariant, PTL DEF Spec, Oracle!Spec, ImplementsOracle
=============================================================================
