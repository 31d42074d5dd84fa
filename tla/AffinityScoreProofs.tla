------------------------- MODULE AffinityScoreProofs -------------------------
(***************************************************************************)
(* The scores of the inter-pod affinity plugin, for every cluster and every *)
(* wish.  The invariant says what the goroutines have put into the shared   *)
(* map so far: for each pair, the weights of the additions of the nodes     *)
(* that are merged, whatever their order was.  Regrouping that sum, first   *)
(* by pair, then by pod, turns a raw score into the wish of all pods.       *)
(***************************************************************************)
EXTENDS AffinityScore, OperatorLemmas

-----------------------------------------------------------------------------
(* What a pod adds                                                         *)

Read == args \in ArgsSet /\ incoming \in Incoming

LEMMA SignedTerms ==
    ASSUME NEW p, NEW list, NEW terms, NEW chosen, NEW sign \in Int,
           IsFiniteSet(chosen),
           \A i \in chosen : terms[i].key \in Key /\ terms[i].weight \in Int
    PROVE  /\ IsFiniteSet(Signed(p, list, terms, chosen, sign))
           /\ \A a \in Signed(p, list, terms, chosen, sign) :
                 a.pod = p /\ a.key \in Key /\ a.weight \in Int
<1>. DEFINE f == [i \in chosen |-> [pod |-> p, list |-> list, at |-> i,
                                    key |-> terms[i].key, weight |-> sign * terms[i].weight]]
<1>1. Signed(p, list, terms, chosen, sign) = {f[i] : i \in chosen}
  BY DEF Signed
<1>2. \A i \in chosen : f[i].pod = p /\ f[i].key \in Key /\ f[i].weight \in Int
  OBVIOUS
<1>3. IsFiniteSet({f[i] : i \in chosen})
  <2>. HIDE DEF f
  <2>. QED
    BY ImageIsFinite
<1>. HIDE DEF f
<1>4. \A a \in {f[i] : i \in chosen} : a.pod = p /\ a.key \in Key /\ a.weight \in Int
  BY <1>2
<1>. QED
  BY <1>1, <1>3, <1>4

LEMMA PlacesAreFinite ==
    ASSUME NEW S, NEW terms \in Seq(S), NEW chosen, chosen \subseteq DOMAIN terms
    PROVE  IsFiniteSet(chosen) /\ \A i \in chosen : terms[i] \in S
<1>1. Len(terms) \in Nat /\ DOMAIN terms = 1 .. Len(terms) /\ \A i \in DOMAIN terms : terms[i] \in S
  OBVIOUS
<1>2. IsFiniteSet(DOMAIN terms)
  BY <1>1, FS_Interval
<1>. QED
  BY <1>1, <1>2, FS_Subset

LEMMA PreferredTerms ==
    ASSUME Read, incoming.class # Absent, NEW kind \in {"affinity", "anti"}
    PROVE  Preferred(kind) \in Seq(Term)
<1>1. /\ incoming.own \in Preferences
      /\ incoming.class # NoClass => incoming.class \in Preferences
  BY IncomingAssumption DEF Read
<1>2. \A r \in Preferences : r[kind] \in Seq(Term)
  BY DEF Preferences
<1>. HIDE DEF Term
<1>. QED
  BY <1>1, <1>2 DEF Preferred

LEMMA TheirTerms ==
    ASSUME Read, NEW p
    PROVE  /\ Theirs(p).affinity \in Seq(Existing) /\ Theirs(p).anti \in Seq(Existing)
           /\ Hard(p) \in Seq(Existing)
           /\ p \notin WithAffinity => /\ Theirs(p).affinity = <<>> /\ Theirs(p).anti = <<>>
                                       /\ Hard(p) = <<>>
<1>1. incoming.toward \in [WithAffinity -> Toward] /\ args.hardWeight \in Int
  BY IncomingAssumption DEF Read
<1>2. CASE p \in WithAffinity
  <2>1. incoming.toward[p] \in Toward /\ Theirs(p) = incoming.toward[p]
    BY <1>1, <1>2 DEF Theirs
  <2>2. Theirs(p) \in Toward
    BY <2>1
  <2>3. Theirs(p).affinity \in Seq(Existing) /\ Theirs(p).anti \in Seq(Existing)
        /\ Theirs(p).required \in Seq(Key)
    BY <2>2 DEF Toward
  <2>4. Hard(p) \in Seq(Existing)
    <3>. DEFINE r == Theirs(p).required
    <3>1. Len(r) \in Nat /\ DOMAIN r = 1 .. Len(r) /\ \A i \in DOMAIN r : r[i] \in Key
      BY <2>3
    <3>2. \A i \in 1 .. Len(r) : [key |-> r[i], weight |-> args.hardWeight] \in Existing
      BY <1>1, <3>1 DEF Existing
    <3>3. Hard(p) = IF args.hardWeight > 0
                    THEN [i \in 1 .. Len(r) |-> [key |-> r[i], weight |-> args.hardWeight]]
                    ELSE <<>>
      BY <3>1 DEF Hard
    <3>. HIDE DEF r
    <3>. QED
      BY <3>1, <3>2, <3>3
  <2>. QED
    BY <1>2, <2>3, <2>4
<1>3. CASE p \notin WithAffinity
  <2>1. Theirs(p) = [required |-> <<>>, affinity |-> <<>>, anti |-> <<>>]
    BY <1>3 DEF Theirs
  <2>2. Hard(p) = <<>>
    BY <2>1 DEF Hard
  <2>. QED
    BY <2>1, <2>2
<1>. QED
  BY <1>2, <1>3

\* Every addition belongs to its pod, and a pod that is not looked at would
\* not have added anything.
LEMMA AdditionsOfPod ==
    ASSUME Read, incoming.class # Absent, NEW p
    PROVE  /\ IsFiniteSet(Additions(p))
           /\ \A a \in Additions(p) : a.pod = p /\ a.key \in Key /\ a.weight \in Int
           /\ (p \in Pod /\ p \notin PodsToProcess) => Additions(p) = {}
<1>. DEFINE own == Signed(p, "affinity", Preferred("affinity"), Matching("affinity", p), 1)
            ownAnti == Signed(p, "anti", Preferred("anti"), Matching("anti", p), -1)
            hard == Signed(p, "hard", Hard(p), DOMAIN Hard(p), 1)
            theirs == Signed(p, "theirs", Theirs(p).affinity, DOMAIN Theirs(p).affinity, 1)
            theirAnti == Signed(p, "theirAnti", Theirs(p).anti, DOMAIN Theirs(p).anti, -1)
            Good(S) == IsFiniteSet(S) /\ \A a \in S : a.pod = p /\ a.key \in Key /\ a.weight \in Int
<1>1. Additions(p) = own \cup ownAnti \cup hard \cup theirs \cup theirAnti
  BY DEF Additions
<1>2. ASSUME NEW list, NEW terms, terms \in Seq(Term) \/ terms \in Seq(Existing),
             NEW chosen, chosen \subseteq DOMAIN terms, NEW sign \in Int
      PROVE  Good(Signed(p, list, terms, chosen, sign))
  <2>1. IsFiniteSet(chosen) /\ \A i \in chosen : terms[i] \in Term \cup Existing
    BY <1>2, PlacesAreFinite
  <2>2. \A t \in Term \cup Existing : t.key \in Key /\ t.weight \in Int
    BY DEF Term, Existing
  <2>3. \A i \in chosen : terms[i].key \in Key /\ terms[i].weight \in Int
    <3>. HIDE DEF Term, Existing
    <3>. QED
      BY <2>1, <2>2
  <2>. QED
    BY <2>1, <2>3, SignedTerms
<1>3. /\ Matching("affinity", p) \subseteq DOMAIN Preferred("affinity")
      /\ Matching("anti", p) \subseteq DOMAIN Preferred("anti")
  BY DEF Matching
<1>4. /\ Preferred("affinity") \in Seq(Term) /\ Preferred("anti") \in Seq(Term)
      /\ Theirs(p).affinity \in Seq(Existing) /\ Theirs(p).anti \in Seq(Existing)
      /\ Hard(p) \in Seq(Existing)
  BY PreferredTerms, TheirTerms
<1>. HIDE DEF Good
<1>5. Good(own) /\ Good(ownAnti) /\ Good(hard) /\ Good(theirs) /\ Good(theirAnti)
  BY <1>2, <1>3, <1>4
<1>6. ASSUME p \in Pod, p \notin PodsToProcess
      PROVE  own = {} /\ ownAnti = {} /\ hard = {} /\ theirs = {} /\ theirAnti = {}
  <2>1. ~HasConstraints /\ p \notin WithAffinity
    BY <1>6 DEF PodsToProcess
  <2>2. Preferred("affinity") = <<>> /\ Preferred("anti") = <<>>
    BY <2>1 DEF HasConstraints
  <2>3. Matching("affinity", p) = {} /\ Matching("anti", p) = {}
    BY <1>3, <2>2
  <2>4. DOMAIN Theirs(p).affinity = {} /\ DOMAIN Theirs(p).anti = {} /\ DOMAIN Hard(p) = {}
    BY <2>1, TheirTerms
  <2>. QED
    BY <2>3, <2>4 DEF Signed
<1>. HIDE DEF own, ownAnti, hard, theirs, theirAnti
<1>7. IsFiniteSet(Additions(p))
  <2>1. IsFiniteSet(own \cup ownAnti)
    BY <1>5, FS_Union DEF Good
  <2>2. IsFiniteSet(own \cup ownAnti \cup hard)
    BY <1>5, <2>1, FS_Union DEF Good
  <2>3. IsFiniteSet(own \cup ownAnti \cup hard \cup theirs)
    BY <1>5, <2>2, FS_Union DEF Good
  <2>4. IsFiniteSet(own \cup ownAnti \cup hard \cup theirs \cup theirAnti)
    BY <1>5, <2>3, FS_Union DEF Good
  <2>. QED
    BY <1>1, <2>4
<1>. QED
  BY <1>1, <1>5, <1>6, <1>7 DEF Good

-----------------------------------------------------------------------------
(* The shared map                                                          *)

All == UNION {Additions(p) : p \in PodsToProcess}
PairOf(a) == <<a.key, Label[Where[a.pod]][a.key]>>

\* The additions that count, of the nodes in s.
Counting(s) == {a \in All : Where[a.pod] \in s /\ PairOf(a)[2] # Missing}
On(s, pair) == {a \in Counting(s) : PairOf(a) = pair}

Weigh == [a \in All |-> a.weight]
Tally(s, pair) == SumFunctionOnSet(Weigh, On(s, pair))
Tallies(m, s) ==
    /\ m \in [DOMAIN m -> Int]
    /\ DOMAIN m = {PairOf(a) : a \in Counting(s)}
    /\ \A pair \in DOMAIN m : m[pair] = Tally(s, pair)

LEMMA AllAdditions ==
    ASSUME Read, incoming.class # Absent
    PROVE  /\ IsFiniteSet(All)
           /\ \A a \in All : /\ a.pod \in PodsToProcess /\ a.pod \in Pod /\ a \in Additions(a.pod)
                             /\ Where[a.pod] \in Node /\ a.key \in Key /\ a.weight \in Int
           /\ \A a \in All : Weigh[a] = a.weight
           /\ \A p \in PodsToProcess : \A a \in Additions(p) : a \in All
<1>1. PodsToProcess \subseteq Pod /\ IsFiniteSet(Pod) /\ Where \in [Pod -> Node]
  BY PodsAssumption DEF PodsToProcess
<1>2. IsFiniteSet(PodsToProcess)
  BY <1>1, FS_Subset
<1>. DEFINE f == [p \in PodsToProcess |-> Additions(p)]
<1>3. IsFiniteSet({f[p] : p \in PodsToProcess})
  <2>. HIDE DEF f
  <2>. QED
    BY <1>2, ImageIsFinite
<1>4. All = UNION {f[p] : p \in PodsToProcess}
  BY DEF All
<1>5. \A p \in PodsToProcess : IsFiniteSet(f[p])
  BY AdditionsOfPod
<1>6. IsFiniteSet(UNION {f[p] : p \in PodsToProcess})
  <2>. HIDE DEF f
  <2>. QED
    BY <1>3, <1>5, FS_UNION
<1>7. ASSUME NEW a \in All
      PROVE  /\ a.pod \in PodsToProcess /\ a \in Additions(a.pod)
             /\ a.key \in Key /\ a.weight \in Int
  <2>1. PICK p \in PodsToProcess : a \in Additions(p)
    BY DEF All
  <2>2. a.pod = p /\ a.key \in Key /\ a.weight \in Int
    BY <2>1, AdditionsOfPod
  <2>. QED
    BY <2>1, <2>2
<1>8. \A a \in All : Weigh[a] = a.weight
  BY DEF Weigh
<1>9. \A p \in PodsToProcess : \A a \in Additions(p) : a \in All
  BY DEF All
<1>. QED
  BY <1>1, <1>4, <1>6, <1>7, <1>8, <1>9

LEMMA TallyIsSum ==
    ASSUME Read, incoming.class # Absent, NEW s, NEW pair
    PROVE  /\ IsFiniteSet(On(s, pair)) /\ On(s, pair) \subseteq All
           /\ Tally(s, pair) \in Int
           /\ (pair \notin {PairOf(a) : a \in Counting(s)}) => Tally(s, pair) = 0
<1>1. On(s, pair) \subseteq All
  BY DEF On, Counting
<1>2. IsFiniteSet(On(s, pair)) /\ \A a \in On(s, pair) : Weigh[a] \in Int
  BY <1>1, AllAdditions, FS_Subset
<1>3. Tally(s, pair) \in Int
  BY <1>2, SumSplits DEF Tally
<1>4. ASSUME pair \notin {PairOf(a) : a \in Counting(s)} PROVE Tally(s, pair) = 0
  <2>1. On(s, pair) = {}
    BY <1>4 DEF On
  <2>. QED
    BY <2>1, SumOfNone DEF Tally
<1>. QED
  BY <1>1, <1>2, <1>3, <1>4

\* What one goroutine collects is the tally of its node.
LEMMA NodeTallies ==
    ASSUME Read, incoming.class # Absent, NEW n
    PROVE  Tallies(NodeScores(n), {n})
<1>. DEFINE keys == {k \in Key : Label[n][k] # Missing /\ AdditionsOn(n, k) # {}}
            dom == {<<k, Label[n][k]>> : k \in keys}
<1>1. NodeScores(n) = [pair \in dom |-> TotalWeight(AdditionsOn(n, pair[1]))]
  BY DEF NodeScores
<1>2. \A k : \A a : a \in AdditionsOn(n, k) <=> a \in All /\ Where[a.pod] = n /\ a.key = k
  <2>1. ASSUME NEW k, NEW a, a \in AdditionsOn(n, k)
        PROVE  a \in All /\ Where[a.pod] = n /\ a.key = k
    <3>1. PICK p \in PodsToProcess : Where[p] = n /\ a \in Additions(p) /\ a.key = k
      BY <2>1 DEF AdditionsOn
    <3>2. a.pod = p /\ a \in All
      BY <3>1, AdditionsOfPod, AllAdditions
    <3>. QED
      BY <3>1, <3>2
  <2>2. ASSUME NEW k, NEW a, a \in All, Where[a.pod] = n, a.key = k
        PROVE  a \in AdditionsOn(n, k)
    <3>1. a.pod \in PodsToProcess /\ a \in Additions(a.pod)
      BY <2>2, AllAdditions
    <3>. QED
      BY <2>2, <3>1 DEF AdditionsOn
  <2>. QED
    BY <2>1, <2>2
<1>3. dom = {PairOf(a) : a \in Counting({n})}
  <2>1. ASSUME NEW pair \in dom PROVE pair \in {PairOf(a) : a \in Counting({n})}
    <3>1. PICK k \in keys : pair = <<k, Label[n][k]>>
      OBVIOUS
    <3>2. PICK a : a \in AdditionsOn(n, k)
      OBVIOUS
    <3>3. a \in All /\ Where[a.pod] = n /\ a.key = k
      BY <1>2, <3>2
    <3>4. PairOf(a) = pair /\ a \in Counting({n})
      BY <3>1, <3>3 DEF PairOf, Counting
    <3>. QED
      BY <3>4
  <2>2. ASSUME NEW a \in Counting({n}) PROVE PairOf(a) \in dom
    <3>1. a \in All /\ Where[a.pod] = n /\ Label[n][a.key] # Missing
      BY DEF Counting, PairOf
    <3>2. a.key \in Key /\ a \in AdditionsOn(n, a.key)
      BY <1>2, <3>1, AllAdditions
    <3>3. a.key \in keys /\ PairOf(a) = <<a.key, Label[n][a.key]>>
      BY <3>1, <3>2 DEF PairOf
    <3>. QED
      BY <3>3
  <2>. HIDE DEF dom
  <2>. QED
    BY <2>1, <2>2
<1>4. ASSUME NEW pair \in dom
      PROVE  TotalWeight(AdditionsOn(n, pair[1])) = Tally({n}, pair) /\ Tally({n}, pair) \in Int
  <2>1. PICK k \in keys : pair = <<k, Label[n][k]>>
    OBVIOUS
  <2>2. \A a : a \in AdditionsOn(n, k) <=> a \in On({n}, pair)
    <3>1. k \in Key /\ Label[n][k] # Missing
      OBVIOUS
    <3>. HIDE DEF keys, dom
    <3>. QED
      BY <1>2, <2>1, <3>1 DEF On, Counting, PairOf
  <2>3. AdditionsOn(n, k) = On({n}, pair) /\ pair[1] = k
    <3>1. pair[1] = k
      BY <2>1
    <3>. QED
      BY <2>2, <3>1
  <2>4. /\ IsFiniteSet(On({n}, pair)) /\ On({n}, pair) \subseteq All
        /\ Tally({n}, pair) \in Int
    BY TallyIsSum
  <2>. DEFINE s == On({n}, pair)
              g == [a \in s |-> a.weight]
  <2>5. \A a \in s : Weigh[a] \in Int /\ g[a] = Weigh[a]
    BY <2>4, AllAdditions
  <2>6. SumFunctionOnSet(g, s) = SumFunctionOnSet(Weigh, s)
    <3>. HIDE DEF g, s
    <3>. QED
      BY <2>4, <2>5, SumSame DEF s
  <2>. QED
    BY <2>3, <2>4, <2>6 DEF TotalWeight, Tally
<1>. HIDE DEF dom
<1>5. /\ DOMAIN NodeScores(n) = dom
      /\ \A pair \in dom : NodeScores(n)[pair] = Tally({n}, pair) /\ NodeScores(n)[pair] \in Int
  BY <1>1, <1>4
<1>6. NodeScores(n) \in [dom -> Int]
  BY <1>1, <1>4
<1>. QED
  BY <1>3, <1>5, <1>6 DEF Tallies

\* Merging the maps of two disjoint sets of nodes: the order is of no account.
LEMMA AppendTallies ==
    ASSUME Read, incoming.class # Absent, NEW m, NEW other, NEW s, NEW u,
           Tallies(m, s), Tallies(other, u), s \cap u = {}
    PROVE  Tallies(AppendScores(m, other), s \cup u)
<1>1. Counting(s \cup u) = Counting(s) \cup Counting(u) /\ Counting(s) \cap Counting(u) = {}
  BY DEF Counting
<1>2. {PairOf(a) : a \in Counting(s \cup u)}
         = {PairOf(a) : a \in Counting(s)} \cup {PairOf(a) : a \in Counting(u)}
  BY <1>1
<1>3. ASSUME NEW pair
      PROVE  /\ (IF pair \in DOMAIN m THEN m[pair] ELSE 0) = Tally(s, pair)
             /\ (IF pair \in DOMAIN other THEN other[pair] ELSE 0) = Tally(u, pair)
  BY TallyIsSum DEF Tallies
<1>4. ASSUME NEW pair PROVE Tally(s \cup u, pair) = Tally(s, pair) + Tally(u, pair)
  <2>1. On(s \cup u, pair) = On(s, pair) \cup On(u, pair) /\ On(s, pair) \cap On(u, pair) = {}
    BY <1>1 DEF On
  <2>2. /\ IsFiniteSet(On(s, pair)) /\ On(s, pair) \subseteq All
        /\ IsFiniteSet(On(u, pair)) /\ On(u, pair) \subseteq All
    BY TallyIsSum
  <2>3. \A a \in On(s, pair) \cup On(u, pair) : Weigh[a] \in Int
    BY <2>2, AllAdditions
  <2>4. SumFunctionOnSet(Weigh, On(s, pair) \cup On(u, pair))
           = SumFunctionOnSet(Weigh, On(s, pair)) + SumFunctionOnSet(Weigh, On(u, pair))
    BY <2>1, <2>2, <2>3, SumOfUnion
  <2>5. SumFunctionOnSet(Weigh, On(s \cup u, pair))
           = SumFunctionOnSet(Weigh, On(s, pair) \cup On(u, pair))
    BY <2>1, Zenon
  <2>. QED
    BY <2>4, <2>5 DEF Tally
<1>. DEFINE dom == DOMAIN m \cup DOMAIN other
            sum == AppendScores(m, other)
<1>5. /\ sum = [pair \in dom |-> (IF pair \in DOMAIN m THEN m[pair] ELSE 0)
                                   + (IF pair \in DOMAIN other THEN other[pair] ELSE 0)]
  BY DEF AppendScores
<1>6. \A pair \in dom : sum[pair] = Tally(s, pair) + Tally(u, pair)
  BY <1>3, <1>5
<1>7. \A pair \in dom : Tally(s, pair) + Tally(u, pair) \in Int
  BY TallyIsSum
<1>8. DOMAIN sum = dom /\ sum \in [dom -> Int]
  <2>1. sum = [pair \in dom |-> sum[pair]]
    BY <1>5
  <2>2. \A pair \in dom : sum[pair] \in Int
    BY <1>6, <1>7
  <2>. HIDE DEF sum, dom
  <2>. QED
    BY <2>1, <2>2
<1>9. dom = {PairOf(a) : a \in Counting(s \cup u)}
  BY <1>2 DEF Tallies
<1>. HIDE DEF dom, sum
<1>10. Tallies(sum, s \cup u)
  BY <1>4, <1>6, <1>8, <1>9 DEF Tallies
<1>. QED
  BY <1>10 DEF sum

-----------------------------------------------------------------------------
(* The invariant                                                           *)

Merged == {Where[p] : p \in PodsToProcess} \ todo

TypeInv ==
    /\ Read /\ todo \subseteq Node
    /\ phase \in {"prescore", "count", "score", "scored", "done", "skip", "error"}
    /\ phase \notin {"prescore", "error"} => incoming.class # Absent

CountInv ==
    /\ phase \in {"prescore", "error", "skip"} => topology = <<>>
    /\ phase \in {"count", "score", "scored", "done"} => Tallies(topology, Merged)
    /\ phase = "count" => todo \subseteq {Where[p] : p \in PodsToProcess}
    /\ phase \in {"score", "scored", "done"} => todo = {}
    /\ phase = "skip" => \/ args.ignore /\ ~HasConstraints
                         \/ Counting({Where[p] : p \in PodsToProcess}) = {}

ResultInv ==
    /\ phase \notin {"scored", "done"} => raw = <<>>
    /\ phase \in {"scored", "done"} =>
          /\ DOMAIN raw \subseteq Node /\ DOMAIN raw # {}
          /\ raw = [n \in DOMAIN raw |-> ScoreOf(n)]
    /\ phase # "done" => final = <<>>
    /\ phase = "done" =>
          \E short \in SUBSET {v - Lowest : v \in Values} :
             final = [n \in DOMAIN raw |-> Scaled(raw[n] - Lowest, short)]

IInv == TypeInv /\ CountInv /\ ResultInv

\* All that the arguments and the wishes determine stays as it is.
Settled ==
    /\ Read' = Read
    /\ PodsToProcess' = PodsToProcess
    /\ HasConstraints' = HasConstraints
    /\ \A p : Additions(p)' = Additions(p)
    /\ \A n : NodeScores(n)' = NodeScores(n)
    /\ \A m, s : Tallies(m, s)' = Tallies(m, s)
    /\ \A s : Counting(s)' = Counting(s)

LEMMA ReadOnlySettles == ASSUME args' = args, incoming' = incoming PROVE Settled
<1>1. Read' = Read
  BY DEF Read
<1>2. \A kind : Preferred(kind)' = Preferred(kind)
  BY DEF Preferred
<1>3. HasConstraints' = HasConstraints
  BY <1>2 DEF HasConstraints
<1>4. PodsToProcess' = PodsToProcess
  BY <1>3 DEF PodsToProcess
<1>5. \A p : Additions(p)' = Additions(p)
  BY DEF Additions, Signed, Matching, Theirs, Hard, Preferred
<1>6. \A n : NodeScores(n)' = NodeScores(n)
  <2>1. \A n, k : AdditionsOn(n, k)' = AdditionsOn(n, k)
    BY <1>4, <1>5 DEF AdditionsOn
  <2>. QED
    BY <2>1 DEF NodeScores
<1>7. All' = All
  BY <1>4, <1>5 DEF All
<1>8. Weigh' = Weigh
  BY <1>7 DEF Weigh
<1>9. \A s : Counting(s)' = Counting(s)
  BY <1>7 DEF Counting, PairOf
<1>10. \A s, pair : Tally(s, pair)' = Tally(s, pair)
  BY <1>8, <1>9 DEF Tally, On, PairOf
<1>11. \A m, s : Tallies(m, s)' = Tallies(m, s)
  BY <1>9, <1>10 DEF Tallies, PairOf
<1>. QED
  BY <1>1, <1>3, <1>4, <1>5, <1>6, <1>9, <1>11 DEF Settled

LEMMA Initially == Init => IInv
<1>. SUFFICES ASSUME Init PROVE IInv
  OBVIOUS
<1>. QED
  BY DEF Init, IInv, TypeInv, CountInv, ResultInv, Read

LEMMA PreScoreKeeps == ASSUME IInv, PreScore PROVE IInv'
<1>1. /\ phase = "prescore" /\ UNCHANGED <<args, incoming, topology, raw, final>>
      /\ topology = <<>> /\ raw = <<>> /\ final = <<>>
  BY DEF PreScore, IInv, CountInv, ResultInv
<1>2. Settled
  BY <1>1, ReadOnlySettles
<1>3. CASE incoming.class = Absent
  <2>1. phase' = "error" /\ todo' = todo
    BY <1>3 DEF PreScore
  <2>. QED
    BY <1>1, <1>2, <2>1 DEF IInv, TypeInv, CountInv, ResultInv, Settled
<1>4. CASE incoming.class # Absent /\ args.ignore /\ ~HasConstraints
  <2>1. phase' = "skip" /\ todo' = todo
    BY <1>4 DEF PreScore
  <2>. QED
    BY <1>1, <1>2, <1>4, <2>1 DEF IInv, TypeInv, CountInv, ResultInv, Settled
<1>5. CASE incoming.class # Absent /\ ~(args.ignore /\ ~HasConstraints)
  <2>1. phase' = "count" /\ todo' = {Where[p] : p \in PodsToProcess}
    BY <1>5 DEF PreScore
  <2>2. todo' \subseteq Node
    BY <2>1, PodsAssumption DEF PodsToProcess
  <2>3. Merged' = {}
    BY <1>2, <2>1 DEF Merged, Settled
  <2>4. (todo \subseteq {Where[p] : p \in PodsToProcess})'
    BY <1>2, <2>1 DEF Settled
  <2>5. Tallies(topology, {})
    <3>1. DOMAIN topology = {} /\ topology \in [DOMAIN topology -> Int]
      BY <1>1
    <3>2. Counting({}) = {}
      BY DEF Counting
    <3>. QED
      BY <3>1, <3>2 DEF Tallies
  <2>6. Tallies(topology, Merged)'
    BY <1>1, <1>2, <2>3, <2>5 DEF Settled
  <2>. QED
    BY <1>1, <1>2, <1>5, <2>1, <2>2, <2>6, <2>4 DEF IInv, TypeInv, CountInv, ResultInv, Settled
<1>. QED
  BY <1>3, <1>4, <1>5

LEMMA CountNodeKeeps == ASSUME IInv, NEW n \in Node, CountNode(n) PROVE IInv'
<1>1. /\ phase = "count" /\ n \in todo /\ todo' = todo \ {n}
      /\ topology' = AppendScores(topology, NodeScores(n))
      /\ UNCHANGED <<args, incoming, phase, raw, final>>
  BY DEF CountNode
<1>2. Settled
  BY <1>1, ReadOnlySettles
<1>3. Read /\ incoming.class # Absent /\ Tallies(topology, Merged)
  BY <1>1 DEF IInv, TypeInv, CountInv
<1>4. n \in {Where[p] : p \in PodsToProcess} /\ todo \subseteq {Where[p] : p \in PodsToProcess}
  BY <1>1 DEF IInv, CountInv
<1>5. Merged' = Merged \cup {n} /\ Merged \cap {n} = {}
  BY <1>1, <1>2, <1>4 DEF Merged, Settled
<1>6. Tallies(NodeScores(n), {n})
  BY <1>3, NodeTallies
<1>7. Tallies(AppendScores(topology, NodeScores(n)), Merged \cup {n})
  BY <1>3, <1>5, <1>6, AppendTallies
<1>8. Tallies(topology, Merged)'
  BY <1>1, <1>2, <1>5, <1>7 DEF Settled
<1>9. (todo \subseteq {Where[p] : p \in PodsToProcess})'
  BY <1>1, <1>2, <1>4 DEF Settled
<1>. QED
  BY <1>1, <1>2, <1>8, <1>9 DEF IInv, TypeInv, CountInv, ResultInv, Settled

LEMMA EndPreScoreKeeps == ASSUME IInv, EndPreScore PROVE IInv'
<1>1. /\ phase = "count" /\ todo = {} /\ UNCHANGED <<args, incoming, todo, topology, raw, final>>
      /\ phase' = IF topology = <<>> THEN "skip" ELSE "score"
      /\ Tallies(topology, Merged)
  BY DEF EndPreScore, IInv, CountInv
<1>2. Settled
  BY <1>1, ReadOnlySettles
<1>3. Merged = {Where[p] : p \in PodsToProcess} /\ Merged' = Merged
  BY <1>1, <1>2 DEF Merged, Settled
<1>4. CASE topology = <<>>
  <2>1. DOMAIN topology = {}
    BY <1>4
  <2>2. {PairOf(a) : a \in Counting(Merged)} = {}
    BY <1>1, <2>1 DEF Tallies
  <2>3. Counting(Merged) = {}
    BY <2>2
  <2>4. Counting({Where[p] : p \in PodsToProcess}) = {}
    BY <1>3, <2>3, Zenon
  <2>5. (Counting({Where[p] : p \in PodsToProcess}) = {})'
    BY <1>2, <2>4 DEF Settled
  <2>. QED
    BY <1>1, <1>2, <1>4, <2>5 DEF IInv, TypeInv, CountInv, ResultInv, Settled
<1>5. CASE topology # <<>>
  <2>1. Tallies(topology, Merged)'
    BY <1>1, <1>2, <1>3 DEF Settled
  <2>. QED
    BY <1>1, <1>2, <1>5, <2>1 DEF IInv, TypeInv, CountInv, ResultInv, Settled
<1>. QED
  BY <1>4, <1>5

LEMMA ScoreKeeps == ASSUME IInv, Score PROVE IInv'
<1>1. /\ phase = "score" /\ phase' = "scored"
      /\ UNCHANGED <<args, incoming, todo, topology, final>>
  BY DEF Score
<1>2. Settled
  BY <1>1, ReadOnlySettles
<1>3. PICK feasible \in (SUBSET Node) \ {{}} : raw' = [n \in feasible |-> ScoreOf(n)]
  BY DEF Score
<1>4. DOMAIN raw' = feasible /\ feasible \subseteq Node /\ feasible # {}
  BY <1>3
<1>5. raw' = [n \in DOMAIN raw' |-> ScoreOf(n)']
  BY <1>1, <1>3, <1>4 DEF ScoreOf
<1>6. Tallies(topology, Merged)'
  <2>1. Merged' = Merged
    BY <1>1, <1>2 DEF Merged, Settled
  <2>. QED
    BY <1>1, <1>2, <2>1 DEF IInv, CountInv, Settled
<1>. QED
  BY <1>1, <1>2, <1>4, <1>5, <1>6 DEF IInv, TypeInv, CountInv, ResultInv, Settled

LEMMA NormalizeScoreKeeps == ASSUME IInv, NormalizeScore PROVE IInv'
<1>1. /\ phase = "scored" /\ phase' = "done"
      /\ UNCHANGED <<args, incoming, todo, topology, raw>>
  BY DEF NormalizeScore
<1>2. Settled
  BY <1>1, ReadOnlySettles
<1>3. PICK short \in SUBSET {v - Lowest : v \in Values} :
         final' = [n \in DOMAIN raw |-> Scaled(raw[n] - Lowest, short)]
  BY DEF NormalizeScore
<1>4. Values' = Values /\ Lowest' = Lowest /\ Spread' = Spread
  BY <1>1 DEF Values, Lowest, Spread
<1>5. \A above, s : Scaled(above, s)' = Scaled(above, s)
  BY <1>4 DEF Scaled
<1>6. (\E s \in SUBSET {v - Lowest : v \in Values} :
         final = [n \in DOMAIN raw |-> Scaled(raw[n] - Lowest, s)])'
  BY <1>1, <1>3, <1>4, <1>5
<1>7. raw' = [n \in DOMAIN raw' |-> ScoreOf(n)']
  <2>1. \A n : ScoreOf(n)' = ScoreOf(n)
    BY <1>1 DEF ScoreOf
  <2>. QED
    BY <1>1, <2>1 DEF IInv, ResultInv
<1>8. Tallies(topology, Merged)'
  <2>1. Merged' = Merged
    BY <1>1, <1>2 DEF Merged, Settled
  <2>. QED
    BY <1>1, <1>2, <2>1 DEF IInv, CountInv, Settled
<1>. QED
  BY <1>1, <1>2, <1>6, <1>7, <1>8 DEF IInv, TypeInv, CountInv, ResultInv, Settled

LEMMA StutterKeeps == ASSUME IInv, UNCHANGED vars PROVE IInv'
<1>1. UNCHANGED <<args, incoming, phase, todo, topology, raw, final>>
  BY DEF vars
<1>2. Settled
  BY <1>1, ReadOnlySettles
<1>3. Merged' = Merged /\ (\A n : ScoreOf(n)' = ScoreOf(n))
  BY <1>1, <1>2 DEF Merged, ScoreOf, Settled
<1>4. TypeInv' /\ CountInv'
  BY <1>1, <1>2, <1>3 DEF IInv, TypeInv, CountInv, Settled
<1>5. Values' = Values /\ Lowest' = Lowest /\ Spread' = Spread
  BY <1>1 DEF Values, Lowest, Spread
<1>6. \A above, s : Scaled(above, s)' = Scaled(above, s)
  BY <1>5 DEF Scaled
<1>7. ResultInv'
  <2>1. ASSUME phase = "done"
        PROVE  (\E s \in SUBSET {v - Lowest : v \in Values} :
                   final = [n \in DOMAIN raw |-> Scaled(raw[n] - Lowest, s)])'
    <3>1. PICK s \in SUBSET {v - Lowest : v \in Values} :
             final = [n \in DOMAIN raw |-> Scaled(raw[n] - Lowest, s)]
      BY <2>1 DEF IInv, ResultInv
    <3>. QED
      BY <1>1, <1>5, <1>6, <3>1
  <2>2. phase \in {"scored", "done"} => raw' = [n \in DOMAIN raw' |-> ScoreOf(n)']
    BY <1>1, <1>3 DEF IInv, ResultInv
  <2>. QED
    BY <1>1, <2>1, <2>2 DEF IInv, ResultInv
<1>. QED
  BY <1>4, <1>7 DEF IInv

LEMMA Inductive == Spec => []IInv
<1>1. IInv /\ [Next]_vars => IInv'
  BY PreScoreKeeps, CountNodeKeeps, EndPreScoreKeeps, ScoreKeeps, NormalizeScoreKeeps,
     StutterKeeps DEF Next
<1>. QED
  BY <1>1, Initially, PTL DEF Spec

-----------------------------------------------------------------------------
(* The wish of all pods                                                    *)

\* The additions that node n shares with the node of their pod.
Sharing(n) ==
    {a \in All : /\ Label[n][a.key] # Missing
                 /\ Label[Where[a.pod]][a.key] = Label[n][a.key]}

\* Grouped by pod, the shared additions are the wish of all pods.
LEMMA WishByPod ==
    ASSUME Read, incoming.class # Absent, NEW n
    PROVE  /\ IsFiniteSet(Sharing(n)) /\ Sharing(n) \subseteq All
           /\ \A a \in Sharing(n) : Weigh[a] \in Int
           /\ Preference(n) = SumFunctionOnSet(Weigh, Sharing(n))
<1>. DEFINE S == Sharing(n)
            h == [a \in S |-> a.pod]
            g == [p \in Pod |-> PairWeight(p, n)]
<1>1. S \subseteq All
  BY DEF Sharing
<1>2. IsFiniteSet(S) /\ \A a \in S : Weigh[a] \in Int /\ a.pod \in Pod
  BY <1>1, AllAdditions, FS_Subset
<1>3. ASSUME NEW p \in Pod PROVE g[p] = SumFunctionOnSet(Weigh, Group(S, h, p))
  <2>. DEFINE X == {a \in Additions(p) : /\ Label[n][a.key] # Missing
                                         /\ Label[Where[p]][a.key] = Label[n][a.key]}
              w == [a \in X |-> a.weight]
  <2>1. g[p] = SumFunctionOnSet(w, X)
    BY DEF PairWeight, TotalWeight
  <2>2. ASSUME NEW a \in X PROVE a \in S /\ h[a] = p
    <3>1. a \in Additions(p) /\ a.pod = p
      BY AdditionsOfPod
    <3>2. p \in PodsToProcess
      BY <3>1, AdditionsOfPod
    <3>3. a \in All
      BY <3>1, <3>2, AllAdditions
    <3>. QED
      BY <3>1, <3>3 DEF Sharing
  <2>3. ASSUME NEW a \in S, h[a] = p PROVE a \in X
    <3>1. a \in All /\ a.pod = p
      BY <1>1, <2>3
    <3>2. a \in Additions(p)
      BY <3>1, AllAdditions
    <3>. QED
      BY <3>1, <3>2 DEF Sharing
  <2>4. X = Group(S, h, p)
    <3>. HIDE DEF X, S, h
    <3>. QED
      BY <2>2, <2>3 DEF Group
  <2>5. IsFiniteSet(X)
    <3>1. X \subseteq S
      BY <2>2
    <3>. HIDE DEF X, S
    <3>. QED
      BY <1>2, <3>1, FS_Subset
  <2>6. \A a \in X : Weigh[a] \in Int /\ w[a] = Weigh[a]
    <3>1. \A a \in X : w[a] = a.weight
      OBVIOUS
    <3>. HIDE DEF X, w
    <3>. QED
      BY <1>1, <1>2, <2>2, <3>1, AllAdditions
  <2>. HIDE DEF X, w, S, h, g
  <2>7. SumFunctionOnSet(w, X) = SumFunctionOnSet(Weigh, X)
    BY <2>5, <2>6, SumSame
  <2>. QED
    BY <2>1, <2>4, <2>7, Zenon
<1>4. \A a \in S : h[a] \in Pod
  BY <1>2
<1>5. Preference(n) = SumFunctionOnSet(g, Pod)
  BY DEF Preference
<1>. HIDE DEF S, h, g
<1>6. SumFunctionOnSet(g, Pod) = SumFunctionOnSet(Weigh, S)
  <2>1. \A a \in S : Weigh[a] \in Int
    BY <1>2
  <2>2. IsFiniteSet(Pod)
    BY PodsAssumption
  <2>3. \A p \in Pod : g[p] = SumFunctionOnSet(Weigh, Group(S, h, p))
    BY <1>3
  <2>. QED
    BY <1>2, <1>4, <2>1, <2>2, <2>3, SumByGroup
<1>. QED
  BY <1>1, <1>2, <1>5, <1>6 DEF S

\* Grouped by pair, they are what Score reads out of the shared map.
LEMMA WishByPair ==
    ASSUME Read, incoming.class # Absent, NEW n,
           Tallies(topology, {Where[p] : p \in PodsToProcess})
    PROVE  ScoreOf(n) = Preference(n)
<1>. DEFINE S == Sharing(n)
            P == {pair \in DOMAIN topology : Label[n][pair[1]] = pair[2]}
            h == [a \in S |-> PairOf(a)]
            nodes == {Where[p] : p \in PodsToProcess}
<1>1. \A a : a \in Counting(nodes) <=> a \in All /\ PairOf(a)[2] # Missing
  <2>1. \A a \in All : Where[a.pod] \in nodes
    BY AllAdditions
  <2>. HIDE DEF nodes
  <2>. QED
    BY <2>1 DEF Counting
<1>2. DOMAIN topology = {PairOf(a) : a \in Counting(nodes)}
      /\ \A pair \in DOMAIN topology : topology[pair] = Tally(nodes, pair)
  BY DEF Tallies
<1>. HIDE DEF nodes
<1>3. \A a \in S : h[a] \in P
  <2>1. ASSUME NEW a \in S PROVE PairOf(a) \in P
    <3>1. /\ a \in All /\ PairOf(a)[2] # Missing
          /\ PairOf(a)[1] = a.key /\ PairOf(a)[2] = Label[n][a.key]
      BY DEF Sharing, PairOf
    <3>2. PairOf(a) \in DOMAIN topology
      BY <1>1, <1>2, <3>1
    <3>. QED
      BY <3>1, <3>2
  <2>. QED
    BY <2>1
<1>4. ASSUME NEW pair \in P PROVE topology[pair] = SumFunctionOnSet(Weigh, Group(S, h, pair))
  <2>1. \A a : a \in On(nodes, pair) <=> a \in S /\ PairOf(a) = pair
    <3>1. Label[n][pair[1]] = pair[2]
      OBVIOUS
    <3>2. \A a : PairOf(a)[1] = a.key /\ PairOf(a)[2] = Label[Where[a.pod]][a.key]
      BY DEF PairOf
    <3>. QED
      BY <1>1, <3>1, <3>2 DEF On, Sharing
  <2>2. \A a \in S : h[a] = PairOf(a)
    OBVIOUS
  <2>3. On(nodes, pair) = Group(S, h, pair)
    <3>. HIDE DEF S, h
    <3>. QED
      BY <2>1, <2>2 DEF Group
  <2>4. topology[pair] = SumFunctionOnSet(Weigh, On(nodes, pair))
    BY <1>2 DEF Tally
  <2>. HIDE DEF S, h, P
  <2>. QED
    BY <2>3, <2>4, Zenon
<1>5. /\ IsFiniteSet(S) /\ \A a \in S : Weigh[a] \in Int
      /\ Preference(n) = SumFunctionOnSet(Weigh, S)
  BY WishByPod
<1>6. IsFiniteSet(P)
  <2>. DEFINE f == [a \in All |-> PairOf(a)]
  <2>1. IsFiniteSet({f[a] : a \in All})
    <3>. HIDE DEF f
    <3>. QED
      BY AllAdditions, ImageIsFinite
  <2>2. P \subseteq {f[a] : a \in All}
    BY <1>1, <1>2
  <2>. HIDE DEF f, P
  <2>. QED
    BY <2>1, <2>2, FS_Subset
<1>7. ScoreOf(n) = SumFunctionOnSet(topology, P)
  BY DEF ScoreOf
<1>. HIDE DEF S, h, P
<1>8. SumFunctionOnSet(topology, P) = SumFunctionOnSet(Weigh, S)
  <2>1. IsFiniteSet(S) /\ \A a \in S : Weigh[a] \in Int
    BY <1>5
  <2>2. \A pair \in P : topology[pair] = SumFunctionOnSet(Weigh, Group(S, h, pair))
    BY <1>4
  <2>. QED
    BY <1>3, <1>6, <2>1, <2>2, SumByGroup
<1>. QED
  BY <1>5, <1>7, <1>8

\* What Score reads off the shared map is the wish of all pods, in whatever
\* order the goroutines merged their parts (scoring.go:50-124, 198-267).
THEOREM ScoreIsTheWish == Spec => []RawIsPreference
<1>1. IInv => RawIsPreference
  <2>. SUFFICES ASSUME IInv, phase \in {"scored", "done"}, NEW n \in DOMAIN raw
                PROVE  raw[n] = Preference(n)
    BY DEF RawIsPreference
  <2>1. Read /\ incoming.class # Absent /\ Tallies(topology, Merged) /\ todo = {}
    BY DEF IInv, TypeInv, CountInv
  <2>2. Merged = {Where[p] : p \in PodsToProcess}
    BY <2>1 DEF Merged
  <2>3. Tallies(topology, {Where[p] : p \in PodsToProcess})
    BY <2>1, <2>2, Zenon
  <2>4. raw[n] = ScoreOf(n)
    BY DEF IInv, ResultInv
  <2>. QED
    BY <2>1, <2>3, <2>4, WishByPair
<1>. QED
  BY <1>1, Inductive, PTL

\* A plugin that takes itself out of the cycle without being asked to has
\* nothing to say about any node (PreScore, scoring.go:231-233).
THEOREM SkippingIsHarmless == Spec => []SkipIsHarmless
<1>1. IInv => SkipIsHarmless
  <2>. SUFFICES ASSUME IInv, phase = "skip", ~(args.ignore /\ ~HasConstraints), NEW n \in Node
                PROVE  Preference(n) = 0
    BY DEF SkipIsHarmless
  <2>1. /\ Read /\ incoming.class # Absent
        /\ Counting({Where[p] : p \in PodsToProcess}) = {}
    BY DEF IInv, TypeInv, CountInv
  <2>2. Sharing(n) = {}
    <3>1. ASSUME NEW a \in Sharing(n) PROVE FALSE
      <4>1. /\ a \in All /\ PairOf(a)[2] # Missing
        BY DEF Sharing, PairOf
      <4>2. Where[a.pod] \in {Where[p] : p \in PodsToProcess}
        BY <2>1, <4>1, AllAdditions
      <4>. QED
        BY <2>1, <4>1, <4>2 DEF Counting
    <3>. QED
      BY <3>1
  <2>3. Preference(n) = SumFunctionOnSet(Weigh, Sharing(n))
    BY <2>1, WishByPod
  <2>. QED
    BY <2>2, <2>3, SumOfNone
<1>. QED
  BY <1>1, Inductive, PTL

-----------------------------------------------------------------------------
(* Types, and the final scores                                             *)

LEMMA ScoresAreWhole ==
    ASSUME IInv, phase \in {"scored", "done"}
    PROVE  /\ \A n \in DOMAIN raw : /\ raw[n] \in Int /\ raw[n] \in Values
                                    /\ Lowest <= raw[n] /\ raw[n] <= Max(Values)
           /\ Lowest \in Int /\ Max(Values) \in Int /\ Spread \in Nat
           /\ Spread = Max(Values) - Lowest
<1>1. /\ Read /\ incoming.class # Absent /\ Tallies(topology, Merged) /\ todo = {}
      /\ DOMAIN raw \subseteq Node /\ DOMAIN raw # {}
  BY DEF IInv, TypeInv, CountInv, ResultInv
<1>2. Merged = {Where[p] : p \in PodsToProcess}
  BY <1>1 DEF Merged
<1>3. Tallies(topology, {Where[p] : p \in PodsToProcess})
  BY <1>1, <1>2, Zenon
<1>4. ASSUME NEW n \in DOMAIN raw PROVE raw[n] \in Int /\ raw[n] \in Values
  <2>1. raw[n] = Preference(n)
    BY <1>1, <1>3, WishByPair DEF IInv, ResultInv
  <2>2. /\ IsFiniteSet(Sharing(n)) /\ \A a \in Sharing(n) : Weigh[a] \in Int
        /\ Preference(n) = SumFunctionOnSet(Weigh, Sharing(n))
    BY <1>1, WishByPod
  <2>3. Preference(n) \in Int
    BY <2>2, SumSplits
  <2>4. raw[n] \in Values
    BY DEF Values
  <2>. QED
    BY <2>1, <2>3, <2>4
<1>5. IsFiniteSet(Values)
  <2>1. IsFiniteSet(DOMAIN raw)
    BY <1>1, PodsAssumption, FS_Subset
  <2>. QED
    BY <2>1, ImageIsFinite DEF Values
<1>6. Values \subseteq Int /\ Values # {}
  BY <1>1, <1>4 DEF Values
<1>7. Max(Values) \in Values /\ \A v \in Values : v <= Max(Values)
  BY <1>5, <1>6, GreatestOfSet
<1>8. Lowest \in Values /\ \A v \in Values : Lowest <= v
  BY <1>5, <1>6, LeastOfSet DEF Lowest
<1>9. Lowest \in Int /\ Max(Values) \in Int /\ Lowest <= Max(Values)
  BY <1>6, <1>7, <1>8
<1>. QED
  BY <1>4, <1>7, <1>8, <1>9 DEF Spread

\* The quotient that falls short of a whole one still keeps to the range and
\* to the order.
LEMMA ScalingKeepsOrder ==
    ASSUME Spread \in Nat, NEW short, NEW x \in Int, NEW y \in Int,
           0 <= x, x <= y, y <= Spread
    PROVE  /\ Scaled(x, short) \in 0 .. 100
           /\ Scaled(x, short) <= Scaled(y, short)
           /\ Scaled(0, short) = 0
           /\ Spread # 0 => Scaled(Spread, short) = 100
<1>. DEFINE E(a) == (100 * a) \div Spread
<1>1. CASE Spread = 0
  BY <1>1 DEF Scaled
<1>2. CASE Spread # 0
  <2>. DEFINE Whole(a) == E(a) * Spread = 100 * a
              Short(a) == Whole(a) /\ a \notin {0, Spread} /\ a \in short
  <2>1. \A a : Scaled(a, short) = IF Short(a) THEN E(a) - 1 ELSE E(a)
    BY <1>2 DEF Scaled, MaxNodeScore
  <2>2. Spread \in Nat \ {0}
    BY <1>2
  <2>3. \A a \in Int : /\ E(a) \in Int /\ Spread * E(a) <= 100 * a
                       /\ \A q \in Int : Spread * q <= 100 * a => q <= E(a)
    <3>1. TAKE a \in Int
    <3>2. 100 * a \in Int
      OBVIOUS
    <3>. QED
      BY <2>2, <3>2, Dividing, QuotientIsGreatest
  <2>4. E(0) = 0 /\ E(Spread) = 100
    <3>1. /\ Spread * 0 <= 100 * 0 /\ Spread * 100 <= 100 * Spread
          /\ Spread * E(0) <= 100 * 0 /\ Spread * E(Spread) <= 100 * Spread
          /\ E(0) \in Int /\ E(Spread) \in Int
      BY <2>2, <2>3
    <3>2. 0 <= E(0) /\ 100 <= E(Spread)
      BY <2>2, <2>3, <3>1
    <3>. HIDE DEF E
    <3>3. Spread * E(0) <= Spread * 0 /\ Spread * E(Spread) <= Spread * 100
      BY <2>2, <3>1
    <3>4. E(0) <= 0 /\ E(Spread) <= 100
      BY <2>2, <3>1, <3>3, Cancelling
    <3>. QED
      BY <3>1, <3>2, <3>4
  <2>. HIDE DEF E
  <2>5. \A a, b \in Int : a <= b => E(a) <= E(b)
    <3>1. TAKE a, b \in Int
    <3>2. a <= b => 100 * a <= 100 * b
      OBVIOUS
    <3>3. Spread * E(a) \in Int
      BY <2>2, <2>3
    <3>. QED
      BY <2>3, <3>2, <3>3
  <2>6. ASSUME NEW a \in Int, NEW b \in Int, a < b, Whole(b) PROVE E(a) <= E(b) - 1
    <3>1. E(a) \in Int /\ E(b) \in Int /\ Spread * E(a) <= 100 * a
      BY <2>3
    <3>2. Spread * E(b) = E(b) * Spread
      BY <2>2, <3>1
    <3>3. E(b) * Spread = 100 * b
      BY <2>6
    <3>4. 100 * a < 100 * b /\ Spread * E(a) \in Int
      BY <2>2, <2>6, <3>1
    <3>5. Spread * E(a) < Spread * E(b)
      BY <3>1, <3>2, <3>3, <3>4
    <3>6. E(a) < E(b)
      BY <2>2, <3>1, <3>5, Cancelling
    <3>. QED
      BY <3>1, <3>6
  <2>7. Scaled(0, short) = 0 /\ Scaled(Spread, short) = 100
    BY <2>1, <2>4
  <2>8. E(x) \in Int /\ E(y) \in Int /\ 0 <= E(x) /\ E(x) <= E(y) /\ E(x) <= 100
    <3>1. E(x) \in Int /\ E(y) \in Int
      BY <2>3
    <3>2. E(0) <= E(x) /\ E(x) <= E(y) /\ E(x) <= E(Spread)
      <4>1. Spread \in Int /\ 0 \in Int /\ x <= Spread
        BY <2>2
      <4>. QED
        BY <2>5, <4>1
    <3>. QED
      BY <2>4, <3>1, <3>2
  <2>9. Short(x) => 1 <= E(x)
    <3>1. Short(x) => 0 < x /\ Whole(x)
      OBVIOUS
    <3>2. Short(x) => E(0) <= E(x) - 1
      BY <2>6, <3>1
    <3>. QED
      BY <2>4, <2>8, <3>2
  <2>10. Short(y) => (x = y \/ E(x) <= E(y) - 1)
    <3>1. Short(y) => Whole(y)
      OBVIOUS
    <3>. QED
      BY <2>6, <3>1
  <2>. HIDE DEF Short
  <2>11. Scaled(x, short) \in 0 .. 100
    BY <2>1, <2>8, <2>9
  <2>12. Scaled(x, short) <= Scaled(y, short)
    BY <2>1, <2>8, <2>10
  <2>. QED
    BY <2>7, <2>11, <2>12
<1>. QED
  BY <1>1, <1>2

LEMMA FinalIsScaled ==
    ASSUME IInv, phase = "done"
    PROVE  /\ final \in [DOMAIN raw -> 0 .. 100]
           /\ \A n, m \in DOMAIN raw :
                 /\ raw[n] <= raw[m] => final[n] <= final[m]
                 /\ (raw[n] = Lowest) => final[n] = 0
                 /\ (raw[m] = Max(Values) /\ raw[n] < raw[m]) => final[m] = 100
<1>1. PICK short : final = [n \in DOMAIN raw |-> Scaled(raw[n] - Lowest, short)]
  BY DEF IInv, ResultInv
<1>2. /\ \A n \in DOMAIN raw : raw[n] \in Int /\ Lowest <= raw[n] /\ raw[n] <= Max(Values)
      /\ Lowest \in Int /\ Max(Values) \in Int /\ Spread \in Nat /\ Spread = Max(Values) - Lowest
  BY ScoresAreWhole
<1>3. \A n \in DOMAIN raw : final[n] = Scaled(raw[n] - Lowest, short)
  BY <1>1
<1>4. \A n \in DOMAIN raw : /\ raw[n] - Lowest \in Int /\ 0 <= raw[n] - Lowest
                            /\ raw[n] - Lowest <= Spread
  BY <1>2
<1>5. \A n \in DOMAIN raw : final[n] \in 0 .. 100
  BY <1>2, <1>3, <1>4, ScalingKeepsOrder
<1>6. ASSUME NEW n \in DOMAIN raw, NEW m \in DOMAIN raw
      PROVE  /\ raw[n] <= raw[m] => final[n] <= final[m]
             /\ (raw[n] = Lowest) => final[n] = 0
             /\ (raw[m] = Max(Values) /\ raw[n] < raw[m]) => final[m] = 100
  <2>1. ASSUME raw[n] <= raw[m] PROVE final[n] <= final[m]
    <3>1. raw[n] - Lowest <= raw[m] - Lowest
      BY <1>2, <2>1
    <3>. QED
      BY <1>2, <1>3, <1>4, <3>1, ScalingKeepsOrder
  <2>2. ASSUME raw[n] = Lowest PROVE final[n] = 0
    <3>1. raw[n] - Lowest = 0
      BY <1>2, <2>2
    <3>. QED
      BY <1>2, <1>3, <3>1, ScalingKeepsOrder
  <2>3. ASSUME raw[m] = Max(Values), raw[n] < raw[m] PROVE final[m] = 100
    <3>1. raw[m] - Lowest = Spread /\ Spread # 0
      BY <1>2, <2>3
    <3>2. Scaled(Spread, short) = 100
      BY <1>2, <3>1, ScalingKeepsOrder
    <3>. QED
      BY <1>3, <3>1, <3>2
  <2>. QED
    BY <2>1, <2>2, <2>3
<1>7. final \in [DOMAIN raw -> 0 .. 100]
  BY <1>1, <1>3, <1>5
<1>. QED
  BY <1>6, <1>7

\* Types hold, and no entry of the shared map stands for a label that a node
\* does not carry.
THEOREM TypesHold == Spec => []TypeOK
<1>1. IInv => TypeOK
  <2>. SUFFICES ASSUME IInv PROVE TypeOK
    OBVIOUS
  <2>1. /\ args \in ArgsSet /\ incoming \in Incoming /\ todo \subseteq Node
        /\ phase \in {"prescore", "count", "score", "scored", "done", "skip", "error"}
    BY DEF IInv, TypeInv, Read
  <2>2. /\ topology \in [DOMAIN topology -> Int]
        /\ \A pair \in DOMAIN topology : /\ \E k \in Key, n \in Node : pair = <<k, Label[n][k]>>
                                         /\ pair[2] # Missing
    <3>1. CASE phase \in {"prescore", "error", "skip"}
      <4>1. topology = <<>>
        BY <3>1 DEF IInv, CountInv
      <4>2. DOMAIN topology = {} /\ topology \in [DOMAIN topology -> Int]
        BY <4>1
      <4>. QED
        BY <4>2
    <3>2. CASE phase \in {"count", "score", "scored", "done"}
      <4>1. Tallies(topology, Merged) /\ Read /\ incoming.class # Absent
        BY <3>2 DEF IInv, TypeInv, CountInv
      <4>2. ASSUME NEW a \in Counting(Merged)
            PROVE  /\ \E k \in Key, n \in Node : PairOf(a) = <<k, Label[n][k]>>
                   /\ PairOf(a)[2] # Missing
        <5>1. a \in All /\ PairOf(a)[2] # Missing
          BY DEF Counting
        <5>2. a.key \in Key /\ Where[a.pod] \in Node
          BY <4>1, <5>1, AllAdditions
        <5>. QED
          BY <5>1, <5>2 DEF PairOf
      <4>. QED
        BY <4>1, <4>2 DEF Tallies
    <3>. QED
      BY <2>1, <3>1, <3>2
  <2>3. DOMAIN raw \subseteq Node /\ raw \in [DOMAIN raw -> Int]
    <3>1. CASE phase \in {"scored", "done"}
      <4>1. DOMAIN raw \subseteq Node /\ raw = [n \in DOMAIN raw |-> ScoreOf(n)]
        BY <3>1 DEF IInv, ResultInv
      <4>2. \A n \in DOMAIN raw : ScoreOf(n) \in Int
        BY <3>1, <4>1, ScoresAreWhole
      <4>. QED
        BY <4>1, <4>2
    <3>2. CASE phase \notin {"scored", "done"}
      BY <3>2 DEF IInv, ResultInv
    <3>. QED
      BY <3>1, <3>2
  <2>4. DOMAIN final \subseteq DOMAIN raw /\ final \in [DOMAIN final -> 0 .. MaxNodeScore]
    <3>1. CASE phase = "done"
      BY <3>1, FinalIsScaled DEF MaxNodeScore
    <3>2. CASE phase # "done"
      BY <3>2 DEF IInv, ResultInv
    <3>. QED
      BY <3>1, <3>2
  <2>. QED
    BY <2>1, <2>2, <2>3, <2>4 DEF TypeOK
<1>. QED
  BY <1>1, Inductive, PTL

\* NormalizeScore spreads any sums over the whole range and keeps their order,
\* rounding errors of the float division included (scoring.go:270-302).
THEOREM FinalKeepsOrder == Spec => []FinalFollowsRaw
<1>1. IInv => FinalFollowsRaw
  BY FinalIsScaled DEF FinalFollowsRaw, MaxNodeScore, Lowest
<1>. QED
  BY <1>1, Inductive, PTL
=============================================================================
