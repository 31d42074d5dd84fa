-------------------------- MODULE SpreadScoreProofs --------------------------
(***************************************************************************)
(* The scores of topology spreading, for every cluster, class, weight and  *)
(* order of the workers.                                                   *)
(*                                                                         *)
(* The invariant says what the workers have added up so far: an entry is   *)
(* the number of matching pods on the nodes of its domain that are already *)
(* counted.  It relates the entries to the pods, so once the workers are   *)
(* done, scores can be compared by the pods behind them.                   *)
(***************************************************************************)
EXTENDS SpreadScore, OperatorLemmas

\* Pods that count for constraint i in domain v, on nodes already looked at.
CountedPods(i, v) ==
    {p \in constraints[i].matches :
        /\ where[p] \notin todo /\ Counted(where[p])
        /\ Value(where[p], constraints[i].key) = v}

TypeInv ==
    /\ class \in Classes \cup {Absent} /\ updates \in Nat
    /\ where \in [Pod -> Node]
    /\ feasible \subseteq Node /\ ignored \subseteq feasible /\ todo \subseteq Node
    /\ phase \in {"start", "decided", "failed", "skipped", "count", "scored", "normalized"}
    /\ phase \in {"start", "decided"} => todo = Node
    /\ IsFiniteSet(DOMAIN constraints)
    /\ \A i \in DOMAIN constraints : constraints[i] \in SpreadConstraint

Prepared == phase \in {"count", "scored", "normalized"}

\* What the first read decided still goes for the class as it is.
DecidedInv ==
    (/\ phase = "decided" \/ Prepared
     /\ updates = 0 /\ ~Failed /\ (RawConstraints # <<>> \/ ~SystemDefaulted)) => requireAll

CountsInv ==
    Prepared =>
        /\ ~Failed
        /\ ignored = {n \in feasible : requireAll /\ ~AllKeys(constraints, n)}
        /\ DOMAIN counts = DOMAIN constraints
        /\ \A i \in DOMAIN constraints :
              /\ DOMAIN counts[i] = Topologies(constraints[i], feasible \ ignored)
              /\ \A v \in DOMAIN counts[i] : counts[i][v] = Cardinality(CountedPods(i, v))

Taken == {raw[n] : n \in feasible \ ignored}
Highest == Max(Taken \cup {0})

ResultInv ==
    /\ phase \in {"scored", "normalized"} => todo = {} /\ raw = [n \in feasible |-> RawScore(n)]
    /\ phase = "normalized" =>
          final = [n \in feasible |->
                      IF n \in ignored \/ raw[n] = InvalidScore THEN 0
                      ELSE IF Highest = 0 THEN MaxNodeScore
                      ELSE Turned(raw[n], Min(Taken), Highest)]

IInv == TypeInv /\ DecidedInv /\ CountsInv /\ ResultInv

-----------------------------------------------------------------------------
(* The invariant is inductive                                              *)

LEMMA MatchesAreFinite ==
    ASSUME NEW c \in SpreadConstraint
    PROVE  c.matches \subseteq Pod /\ IsFiniteSet(c.matches) /\ c.maxSkew \in Int
  BY FS_Subset, ScalarsAssumption DEF SpreadConstraint

LEMMA InitIInv == Init => IInv
<1>. SUFFICES ASSUME Init PROVE IInv
  OBVIOUS
<1>1. DOMAIN constraints = {}
  BY DEF Init
<1>2. TypeInv
  BY <1>1, FS_EmptySet DEF Init, TypeInv
<1>. QED
  BY <1>2 DEF Init, IInv, DecidedInv, CountsInv, ResultInv, Prepared

LEMMA SoftTypes ==
    ASSUME class \in Classes \cup {Absent}, ~Failed
    PROVE  /\ IsFiniteSet(DOMAIN SoftConstraints)
           /\ \A i \in DOMAIN SoftConstraints : SoftConstraints[i] \in SpreadConstraint
<1>1. RawConstraints \in Seq(SpreadConstraint) /\ Defaults \in Seq(SpreadConstraint)
  <2>1. Own \in Seq(SpreadConstraint) /\ Defaults \in Seq(SpreadConstraint)
    BY ConstraintsAssumption
  <2>2. CASE Annotated
    <3>1. class \in Seq(SpreadConstraint)
      BY <2>2, ConstraintsAssumption DEF Failed
    <3>. QED
      BY <2>1, <2>2, <3>1 DEF RawConstraints
  <2>3. CASE ~Annotated
    BY <2>1, <2>3 DEF RawConstraints
  <2>. QED
    BY <2>2, <2>3
<1>2. ASSUME NEW s \in Seq(SpreadConstraint)
      PROVE  IsFiniteSet(DOMAIN s) /\ \A i \in DOMAIN s : s[i] \in SpreadConstraint
  <2>1. DOMAIN s = 1 .. Len(s) /\ Len(s) \in Nat
    OBVIOUS
  <2>. QED
    BY <2>1, FS_Interval
<1>3. CASE RawConstraints = <<>>
  BY <1>1, <1>2, <1>3 DEF SoftConstraints
<1>4. CASE RawConstraints # <<>>
  <2>. DEFINE soft == {i \in DOMAIN RawConstraints : RawConstraints[i].soft}
  <2>1. SoftConstraints = [i \in soft |-> RawConstraints[i]]
    BY <1>4 DEF SoftConstraints, RestrictValues, Restrict
  <2>2. IsFiniteSet(soft)
    BY <1>1, <1>2, FS_Subset
  <2>. QED
    BY <1>1, <1>2, <2>1, <2>2
<1>. QED
  BY <1>3, <1>4

\* A worker adds the pods of its node to the entries of the node's domains.
LEMMA CountNodeCounts ==
    ASSUME IInv, NEW n \in Node, CountNode(n)
    PROVE  CountsInv'
<1>. SUFFICES ASSUME NEW i \in DOMAIN constraints, NEW v \in DOMAIN counts[i]
              PROVE  counts'[i][v] = Cardinality(CountedPods(i, v)')
  <2>1. /\ DOMAIN counts' = DOMAIN constraints
        /\ \A i \in DOMAIN constraints : DOMAIN counts'[i] = DOMAIN counts[i]
    BY DEF CountNode
  <2>2. UNCHANGED <<phase, class, ignored, feasible, requireAll, constraints>>
    BY DEF CountNode
  <2>3. Prepared /\ CountsInv
    BY DEF IInv, CountNode, Prepared
  <2>4. ~Failed' /\ ignored' = {m \in feasible : requireAll /\ ~AllKeys(constraints, m)}'
    BY <2>2, <2>3 DEF CountsInv, Failed, AllKeys
  <2>5. \A i \in DOMAIN constraints :
            DOMAIN counts'[i] = Topologies(constraints[i], feasible \ ignored)'
    <3>1. TAKE j \in DOMAIN constraints
    <3>2. Topologies(constraints[j], feasible \ ignored)' = Topologies(constraints[j], feasible \ ignored)
      BY <2>2 DEF Topologies
    <3>. QED
      BY <2>1, <2>3, <3>2 DEF CountsInv
  <2>. QED
    BY <2>1, <2>2, <2>4, <2>5 DEF CountsInv
<1>. DEFINE c == constraints[i]
<1>1. UNCHANGED <<constraints, where, requireAll>> /\ todo' = todo \ {n} /\ n \in todo
  BY DEF CountNode
<1>2. counts'[i][v] = IF Counted(n) /\ v = Value(n, c.key)
                      THEN counts[i][v] + Cardinality(PodsOn(n, c)) ELSE counts[i][v]
  BY DEF CountNode
<1>3. counts[i][v] = Cardinality(CountedPods(i, v))
  BY DEF IInv, CountsInv, CountNode, Prepared
<1>4. c \in SpreadConstraint /\ where \in [Pod -> Node]
  BY DEF IInv, TypeInv
<1>5. c.matches \subseteq Pod /\ IsFiniteSet(c.matches)
  BY <1>4, MatchesAreFinite
<1>6. CountedPods(i, v)' =
          {p \in c.matches : /\ where[p] \notin todo \ {n} /\ Counted(where[p])
                             /\ Value(where[p], c.key) = v}
  BY <1>1 DEF CountedPods, Counted, AllKeys
<1>7. CASE Counted(n) /\ v = Value(n, c.key)
  <2>1. /\ CountedPods(i, v)' = CountedPods(i, v) \cup PodsOn(n, c)
        /\ CountedPods(i, v) \cap PodsOn(n, c) = {}
    BY <1>1, <1>6, <1>7 DEF CountedPods, PodsOn
  <2>2. IsFiniteSet(CountedPods(i, v)) /\ IsFiniteSet(PodsOn(n, c))
    BY <1>5, FS_Subset DEF CountedPods, PodsOn
  <2>3. Cardinality(CountedPods(i, v) \cup PodsOn(n, c))
            = Cardinality(CountedPods(i, v)) + Cardinality(PodsOn(n, c))
    BY <2>1, <2>2, DisjointUnion
  <2>. QED
    BY <1>2, <1>3, <1>7, <2>1, <2>3
<1>8. CASE ~(Counted(n) /\ v = Value(n, c.key))
  <2>1. CountedPods(i, v)' = CountedPods(i, v)
    BY <1>1, <1>6, <1>8 DEF CountedPods
  <2>. QED
    BY <1>2, <1>3, <1>8, <2>1
<1>. QED
  BY <1>7, <1>8

LEMMA PreparedCounts ==
    ASSUME IInv, InitPreScoreState, ~Failed
    PROVE  CountsInv'
<1>. DEFINE cs == SoftConstraints
            out == {n \in feasible : requireAll /\ ~AllKeys(cs, n)}
<1>1. /\ constraints' = cs /\ ignored' = out
      /\ counts' = [i \in DOMAIN cs |-> [v \in Topologies(cs[i], feasible \ out) |-> 0]]
      /\ UNCHANGED <<class, where, feasible, requireAll, todo>>
  BY DEF InitPreScoreState
<1>. HIDE DEF cs
<1>2. Failed' = Failed
  BY <1>1 DEF Failed
<1>3. ASSUME NEW i \in DOMAIN cs, NEW v \in Topologies(cs[i], feasible \ out)
      PROVE  counts'[i][v] = Cardinality(CountedPods(i, v)')
  <2>1. todo = Node /\ where \in [Pod -> Node] /\ cs[i].matches \subseteq Pod
    BY SoftTypes, MatchesAreFinite DEF IInv, TypeInv, InitPreScoreState, cs
  <2>2. CountedPods(i, v)' = {}
    BY <1>1, <2>1 DEF CountedPods
  <2>3. counts'[i][v] = 0
    BY <1>1
  <2>. QED
    BY <2>2, <2>3, FS_EmptySet
<1>. QED
  BY <1>1, <1>2, <1>3 DEF CountsInv, AllKeys, Topologies

LEMMA RawScoreStays ==
    ASSUME UNCHANGED <<constraints, counts, ignored, where, feasible>>
    PROVE  \A n : RawScore(n)' = RawScore(n)
  BY DEF RawScore, ScoreForCount, CountFor, Size, PodsOn

LEMMA NextIInv == IInv /\ [Next]_vars => IInv'
<1>. SUFFICES ASSUME IInv, [Next]_vars PROVE IInv'
  OBVIOUS
<1>1. ASSUME NEW c \in Classes \cup {Absent}, UpdateClass(c) PROVE IInv'
  <2>1. TypeInv'
    BY <1>1 DEF UpdateClass, IInv, TypeInv
  <2>2. updates' # 0 /\ phase' \in {"start", "decided"}
    BY <1>1 DEF UpdateClass, IInv, TypeInv
  <2>. QED
    BY <2>1, <2>2 DEF IInv, DecidedInv, CountsInv, ResultInv, Prepared
<1>2. CASE Decide
  <2>1. TypeInv' /\ phase' = "decided"
    BY <1>2 DEF Decide, IInv, TypeInv
  <2>2. UNCHANGED <<class, updates>> /\ requireAll' = RequireAll
    BY <1>2 DEF Decide
  <2>3. DecidedInv'
    BY <2>2 DEF DecidedInv, RequireAll, Failed, RawConstraints
  <2>. QED
    BY <2>1, <2>3 DEF IInv, CountsInv, ResultInv, Prepared
<1>3. CASE InitPreScoreState
  <2>0. phase = "decided" /\ UNCHANGED <<class, updates, where, feasible, requireAll, todo>>
    BY <1>3 DEF InitPreScoreState
  <2>1. DecidedInv'
    BY <2>0 DEF IInv, DecidedInv, Failed, RawConstraints
  <2>2. CASE Failed
    <3>1. phase' = "failed" /\ UNCHANGED <<constraints, ignored>>
      BY <1>3, <2>2 DEF InitPreScoreState
    <3>. QED
      BY <2>0, <2>1, <3>1 DEF IInv, TypeInv, CountsInv, ResultInv, Prepared
  <2>3. CASE ~Failed
    <3>1. /\ phase' \in {"skipped", "count"} /\ constraints' = SoftConstraints
          /\ ignored' \subseteq feasible
      BY <1>3, <2>3 DEF InitPreScoreState
    <3>2. TypeInv'
      BY <2>0, <2>3, <3>1, SoftTypes DEF IInv, TypeInv
    <3>. QED
      BY <1>3, <2>1, <2>3, <3>1, <3>2, PreparedCounts DEF IInv, ResultInv
  <2>. QED
    BY <2>2, <2>3
<1>4. ASSUME NEW n \in Node, CountNode(n) PROVE IInv'
  <2>1. TypeInv' /\ phase' = "count" /\ phase = "count"
    BY <1>4 DEF CountNode, IInv, TypeInv
  <2>2. DecidedInv'
    BY <1>4, <2>1 DEF CountNode, IInv, DecidedInv, Prepared, Failed, RawConstraints
  <2>. QED
    BY <1>4, <2>1, <2>2, CountNodeCounts DEF IInv, ResultInv
<1>5. ASSUME Prepared, phase' \in {"scored", "normalized"},
             UNCHANGED <<class, updates, where, feasible, requireAll, constraints, ignored, counts, todo>>
      PROVE  TypeInv' /\ DecidedInv' /\ CountsInv'
  <2>1. TypeInv' /\ DecidedInv'
    BY <1>5 DEF IInv, TypeInv, DecidedInv, Prepared, Failed, RawConstraints
  <2>2. \A i, v : CountedPods(i, v)' = CountedPods(i, v)
    BY <1>5 DEF CountedPods, Counted, AllKeys
  <2>3. \A i \in DOMAIN constraints :
            Topologies(constraints[i], feasible \ ignored)' = Topologies(constraints[i], feasible \ ignored)
    BY <1>5 DEF Topologies
  <2>4. CountsInv
    BY DEF IInv
  <2>5. ~Failed' /\ ignored' = {m \in feasible : requireAll /\ ~AllKeys(constraints, m)}'
    BY <1>5, <2>4 DEF CountsInv, Failed, AllKeys
  <2>. QED
    BY <1>5, <2>1, <2>2, <2>3, <2>4, <2>5 DEF CountsInv
<1>6. CASE Score
  <2>1. UNCHANGED <<class, updates, where, feasible, requireAll, constraints, ignored, counts, todo>>
    BY <1>6 DEF Score
  <2>2. todo = {} /\ raw' = [n \in feasible |-> RawScore(n)] /\ phase = "count" /\ phase' = "scored"
    BY <1>6 DEF Score
  <2>3. ResultInv'
    BY <2>1, <2>2, RawScoreStays DEF ResultInv
  <2>. QED
    BY <1>5, <2>1, <2>2, <2>3 DEF IInv, Prepared
<1>7. CASE NormalizeScore
  <2>1. UNCHANGED <<class, updates, where, feasible, requireAll, constraints, ignored, counts, todo, raw>>
    BY <1>7 DEF NormalizeScore
  <2>2. phase = "scored" /\ phase' = "normalized"
    BY <1>7 DEF NormalizeScore
  <2>3. todo = {} /\ raw = [n \in feasible |-> RawScore(n)]
    BY <2>2 DEF IInv, ResultInv
  <2>4. final' = [n \in feasible |->
                      IF n \in ignored \/ raw[n] = InvalidScore THEN 0
                      ELSE IF Highest = 0 THEN MaxNodeScore
                      ELSE Turned(raw[n], Min(Taken), Highest)]
    BY <1>7 DEF NormalizeScore, Highest, Taken
  <2>5. Highest' = Highest /\ Taken' = Taken
    BY <2>1 DEF Highest, Taken
  <2>6. ResultInv'
    BY <2>1, <2>2, <2>3, <2>4, <2>5, RawScoreStays DEF ResultInv
  <2>. QED
    BY <1>5, <2>1, <2>2, <2>6 DEF IInv, Prepared
<1>8. CASE UNCHANGED vars
  <2>1. UNCHANGED <<class, updates, where, feasible, phase, requireAll, constraints, ignored,
                    counts, todo, raw, final>>
    BY <1>8 DEF vars
  <2>2. TypeInv' /\ DecidedInv'
    BY <2>1 DEF IInv, TypeInv, DecidedInv, Prepared, Failed, RawConstraints
  <2>3. CountsInv'
    <3>1. \A i, v : CountedPods(i, v)' = CountedPods(i, v)
      BY <2>1 DEF CountedPods, Counted, AllKeys
    <3>2. \A i \in DOMAIN constraints :
              Topologies(constraints[i], feasible \ ignored)' = Topologies(constraints[i], feasible \ ignored)
      BY <2>1 DEF Topologies
    <3>3. CountsInv /\ Prepared' = Prepared /\ Failed' = Failed
      BY <2>1 DEF IInv, Prepared, Failed
    <3>4. {m \in feasible : requireAll /\ ~AllKeys(constraints, m)}'
              = {m \in feasible : requireAll /\ ~AllKeys(constraints, m)}
      BY <2>1 DEF AllKeys
    <3>. QED
      BY <2>1, <3>1, <3>2, <3>3, <3>4 DEF CountsInv
  <2>4. ResultInv'
    <3>1. Highest' = Highest /\ Taken' = Taken
      BY <2>1 DEF Highest, Taken
    <3>. QED
      BY <2>1, <3>1, RawScoreStays DEF IInv, ResultInv
  <2>. QED
    BY <2>2, <2>3, <2>4 DEF IInv
<1>. QED
  BY <1>1, <1>2, <1>3, <1>4, <1>6, <1>7, <1>8 DEF Next

LEMMA InvariantHolds == Spec => []IInv
  BY InitIInv, NextIInv, PTL DEF Spec

-----------------------------------------------------------------------------
(* What the counts and scores are                                          *)

LEMMA CountIsNumberOfPods ==
    ASSUME IInv, Prepared, todo = {}, NEW i \in DOMAIN constraints, NEW n \in feasible \ ignored
    PROVE  CountFor(i, n) = Cardinality(Matching(i, n))
<1>. DEFINE c == constraints[i]
<1>1. CASE c.key = Hostname
  <2>1. PodsOn(n, c) = Matching(i, n)
    BY <1>1 DEF PodsOn, Matching
  <2>. QED
    BY <1>1, <2>1 DEF CountFor
<1>2. CASE c.key # Hostname
  <2>1. Value(n, c.key) \in DOMAIN counts[i]
    BY <1>2 DEF IInv, CountsInv, Topologies
  <2>2. counts[i][Value(n, c.key)] = Cardinality(CountedPods(i, Value(n, c.key)))
    BY <2>1 DEF IInv, CountsInv
  <2>3. CountedPods(i, Value(n, c.key)) = Matching(i, n)
    BY <1>2 DEF CountedPods, Matching
  <2>. QED
    BY <1>2, <2>2, <2>3 DEF CountFor
<1>. QED
  BY <1>1, <1>2

LEMMA MatchingIsFinite ==
    ASSUME IInv, NEW i \in DOMAIN constraints, NEW n
    PROVE  Cardinality(Matching(i, n)) \in Nat
<1>1. IsFiniteSet(constraints[i].matches)
  BY MatchesAreFinite DEF IInv, TypeInv
<1>2. IsFiniteSet(Matching(i, n))
  BY <1>1, FS_Subset DEF Matching
<1>. QED
  BY <1>2, FS_CardinalityType

\* topologyNormalizingWeight has an entry for every size there may be.
LEMMA SizeInRange ==
    ASSUME IInv, Prepared, NEW i \in DOMAIN constraints
    PROVE  Weight[Size(i)] \in Nat
<1>. DEFINE c == constraints[i]
            scored == feasible \ ignored
<1>1. /\ feasible \subseteq Node /\ ignored \subseteq feasible
      /\ DOMAIN counts[i] = Topologies(c, scored)
  BY DEF IInv, TypeInv, CountsInv
<1>2. /\ IsFiniteSet(feasible) /\ IsFiniteSet(ignored) /\ IsFiniteSet(scored) /\ IsFiniteSet(Node)
      /\ Cardinality(feasible) <= Cardinality(Node) /\ Cardinality(ignored) <= Cardinality(feasible)
      /\ Cardinality(scored) <= Cardinality(Node)
  BY <1>1, ScalarsAssumption, FS_Subset
<1>3. /\ Cardinality(feasible) \in Nat /\ Cardinality(ignored) \in Nat
      /\ Cardinality(scored) \in Nat /\ Cardinality(Node) \in Nat
  BY <1>2, FS_CardinalityType
<1>4. Size(i) \in 0 .. Cardinality(Node)
  <2>1. CASE c.key = Hostname
    BY <1>2, <1>3, <2>1 DEF Size
  <2>2. CASE c.key # Hostname
    <3>. DEFINE f == [n \in scored |-> Value(n, c.key)]
    <3>1. DOMAIN counts[i] = {f[n] : n \in scored}
      BY <1>1, <2>2 DEF Topologies
    <3>2. f \in Surjection(scored, {f[n] : n \in scored})
      BY DEF Surjection
    <3>3. /\ IsFiniteSet({f[n] : n \in scored})
          /\ Cardinality({f[n] : n \in scored}) <= Cardinality(scored)
      <4>. HIDE DEF f
      <4>. QED
        BY <1>2, <3>2, FS_Surjection
    <3>4. Cardinality(DOMAIN counts[i]) \in Nat /\ Cardinality(DOMAIN counts[i]) <= Cardinality(scored)
      BY <3>1, <3>3, FS_CardinalityType
    <3>. QED
      BY <1>2, <1>3, <2>2, <3>4 DEF Size
  <2>. QED
    BY <2>1, <2>2
<1>. QED
  BY <1>4, ScalarsAssumption

\* With positive skews every constraint adds something to the score, and more
\* the more pods there are.
LEMMA ScoreGrowsWithPods ==
    ASSUME IInv, Prepared, todo = {}, PositiveSkews, NEW i \in DOMAIN constraints,
           NEW n \in feasible \ ignored
    PROVE  /\ ScoreForCount(i, n) \in Nat
           /\ \A m \in feasible \ ignored :
                 Cardinality(Matching(i, n)) <= Cardinality(Matching(i, m))
                 => ScoreForCount(i, n) <= ScoreForCount(i, m)
<1>. DEFINE w == Weight[Size(i)]
            k == constraints[i].maxSkew
<1>1. w \in Nat
  BY SizeInRange
<1>2. k \in Nat \ {0}
  BY MatchesAreFinite DEF PositiveSkews, IInv, TypeInv
<1>3. \A m \in feasible \ ignored : CountFor(i, m) \in Nat
                                    /\ CountFor(i, m) = Cardinality(Matching(i, m))
  BY CountIsNumberOfPods, MatchingIsFinite
<1>4. \A m \in feasible \ ignored : ScoreForCount(i, m) = CountFor(i, m) * w + 1000 * (k - 1)
  BY DEF ScoreForCount
<1>. HIDE DEF w, k
<1>5. \A a, b \in Nat : a <= b => a * w <= b * w
  BY <1>1
<1>6. \A a \in Nat : a * w \in Nat
  BY <1>1
<1>7. ASSUME NEW a \in Nat, NEW b \in Nat, a <= b
      PROVE  a * w + 1000 * (k - 1) \in Nat /\ a * w + 1000 * (k - 1) <= b * w + 1000 * (k - 1)
  <2>1. a * w \in Nat /\ b * w \in Nat /\ a * w <= b * w
    BY <1>5, <1>6, <1>7
  <2>. QED
    BY <1>2, <2>1
<1>. QED
  BY <1>3, <1>4, <1>7

LEMMA RoundGrows ==
    ASSUME NEW a \in Nat, NEW b \in Nat, a <= b
    PROVE  Round(a) \in Nat /\ Round(a) <= Round(b)
  BY DEF Round

LEMMA RawScores ==
    ASSUME IInv, Prepared, todo = {}, PositiveSkews, NEW n \in feasible \ ignored
    PROVE  /\ RawScore(n) \in Nat
           /\ \A m \in feasible \ ignored :
                 (/\ AllKeys(constraints, n) /\ AllKeys(constraints, m)
                  /\ \A i \in DOMAIN constraints :
                        Cardinality(Matching(i, n)) <= Cardinality(Matching(i, m)))
                 => RawScore(n) <= RawScore(m)
<1>. DEFINE with(l) == {i \in DOMAIN constraints : Label[l][constraints[i].key] # Missing}
            score(l) == [i \in with(l) |-> ScoreForCount(i, l)]
            total(l) == SumFunctionOnSet(score(l), with(l))
<1>1. ASSUME NEW l \in feasible \ ignored
      PROVE  IsFiniteSet(with(l)) /\ total(l) \in Nat /\ RawScore(l) = Round(total(l))
  <2>1. IsFiniteSet(with(l))
    BY FS_Subset DEF IInv, TypeInv
  <2>2. \A i \in with(l) : score(l)[i] \in Nat
    BY ScoreGrowsWithPods
  <2>3. total(l) \in Nat
    <3>. HIDE DEF score, with
    <3>. QED
      BY <2>1, <2>2, SumNotNegative
  <2>. QED
    BY <2>1, <2>3 DEF RawScore
<1>2. ASSUME NEW m \in feasible \ ignored,
             AllKeys(constraints, n), AllKeys(constraints, m),
             \A i \in DOMAIN constraints : Cardinality(Matching(i, n)) <= Cardinality(Matching(i, m))
      PROVE  total(n) <= total(m)
  <2>1. with(n) = DOMAIN constraints /\ with(m) = DOMAIN constraints
    BY <1>2 DEF AllKeys
  <2>2. \A i \in with(n) : /\ score(n)[i] \in Nat /\ score(m)[i] \in Nat
                           /\ score(n)[i] <= score(m)[i]
    BY <1>2, <2>1, ScoreGrowsWithPods
  <2>3. IsFiniteSet(with(n))
    BY <1>1
  <2>. HIDE DEF score, with
  <2>4. SumFunctionOnSet(score(n), with(n)) <= SumFunctionOnSet(score(m), with(n))
    BY <2>2, <2>3, SumMonotone
  <2>. QED
    BY <2>1, <2>4
<1>. HIDE DEF total, with, score
<1>3. RawScore(n) \in Nat
  <2>1. total(n) \in Nat /\ RawScore(n) = Round(total(n))
    BY <1>1
  <2>2. total(n) <= total(n)
    BY <2>1
  <2>. QED
    BY <2>1, <2>2, RoundGrows
<1>4. ASSUME NEW m \in feasible \ ignored, total(n) <= total(m)
      PROVE  RawScore(n) <= RawScore(m)
  BY <1>1, <1>4, RoundGrows
<1>. QED
  BY <1>2, <1>3, <1>4

-----------------------------------------------------------------------------
(* The theorems                                                            *)

\* Score finds an entry for every domain it asks for, also when the class
\* changed between the two reads of PreScore.
THEOREM CountsAreThere == Spec => []EveryDomainHasACount
<1>1. IInv => EveryDomainHasACount
  <2>. SUFFICES ASSUME IInv, Prepared, NEW n \in feasible \ ignored, NEW i \in DOMAIN constraints,
                       constraints[i].key # Hostname
                PROVE  Value(n, constraints[i].key) \in DOMAIN counts[i]
    BY DEF EveryDomainHasACount, Prepared, Value
  <2>. QED
    BY DEF IInv, CountsInv, Topologies
<1>. QED
  BY <1>1, InvariantHolds, PTL

\* What both reads saw of a stable class decides alike: a node that lacks one
\* of the topology keys gets nothing.
THEOREM KeysRequired == Spec => []KeysRequiredIfStable
<1>1. IInv => KeysRequiredIfStable
  <2>. SUFFICES ASSUME IInv, phase = "normalized", updates = 0,
                       RawConstraints # <<>> \/ ~SystemDefaulted,
                       NEW n \in feasible, ~AllKeys(constraints, n)
                PROVE  final[n] = 0
    BY DEF KeysRequiredIfStable
  <2>1. Prepared /\ ~Failed
    BY DEF IInv, CountsInv, Prepared
  <2>2. n \in ignored
    BY <2>1 DEF IInv, CountsInv, DecidedInv
  <2>. QED
    BY <2>2 DEF IInv, ResultInv
<1>. QED
  BY <1>1, InvariantHolds, PTL

LEMMA FinalScores ==
    ASSUME IInv, phase = "normalized", PositiveSkews, NEW n \in feasible \ ignored
    PROVE  /\ raw[n] = RawScore(n) /\ raw[n] \in Nat /\ Highest \in Nat
           /\ Min(Taken) \in Nat /\ Min(Taken) <= raw[n] /\ raw[n] <= Highest
           /\ final[n] = IF Highest = 0 THEN MaxNodeScore ELSE Turned(raw[n], Min(Taken), Highest)
<1>1. Prepared /\ todo = {} /\ raw = [m \in feasible |-> RawScore(m)]
  BY DEF Prepared, IInv, ResultInv
<1>2. \A m \in feasible \ ignored : raw[m] = RawScore(m) /\ raw[m] \in Nat
  BY <1>1, RawScores
<1>3. IsFiniteSet(feasible \ ignored)
  BY ScalarsAssumption, FS_Subset DEF IInv, TypeInv
<1>4. IsFiniteSet(Taken) /\ Taken \subseteq Nat /\ raw[n] \in Taken
  BY <1>2, <1>3, ImageIsFinite DEF Taken
<1>5. IsFiniteSet(Taken \cup {0}) /\ Taken \cup {0} \subseteq Int /\ Taken \cup {0} # {} /\ Taken # {}
  BY <1>4, FS_AddElement
<1>6. Highest \in Taken \cup {0} /\ \A x \in Taken \cup {0} : x <= Highest
  BY <1>4, <1>5, GreatestOfSet DEF Highest
<1>7. Min(Taken) \in Taken /\ \A x \in Taken : Min(Taken) <= x
  <2>1. Taken \subseteq Int
    BY <1>4
  <2>. QED
    BY <1>4, <1>5, <2>1, LeastOfSet
<1>8. ~(n \in ignored \/ raw[n] = InvalidScore)
  BY <1>2 DEF InvalidScore
<1>9. final[n] = IF Highest = 0 THEN MaxNodeScore ELSE Turned(raw[n], Min(Taken), Highest)
  BY <1>8 DEF IInv, ResultInv
<1>10. Min(Taken) \in Nat /\ Min(Taken) <= raw[n]
  BY <1>4, <1>7
<1>11. Highest \in Nat /\ raw[n] <= Highest
  <2>1. Taken \cup {0} \subseteq Nat /\ raw[n] \in Taken \cup {0}
    BY <1>4
  <2>. QED
    BY <1>6, <2>1
<1>. QED
  BY <1>2, <1>9, <1>10, <1>11

\* No cluster and no class with positive skews makes NormalizeScore leave the
\* range of the framework.
THEOREM FinalInRange == Spec => []ScoresInRange
<1>1. IInv => ScoresInRange
  <2>. SUFFICES ASSUME IInv, phase = "normalized", PositiveSkews, NEW n \in feasible
                PROVE  final[n] \in 0 .. MaxNodeScore
    BY DEF ScoresInRange
  <2>1. CASE n \in ignored
    BY <2>1 DEF IInv, ResultInv, MaxNodeScore
  <2>2. CASE n \notin ignored
    <3>. DEFINE x == Highest + Min(Taken) - raw[n]
    <3>1. /\ Highest \in Nat /\ x \in Nat /\ x <= Highest
          /\ final[n] = IF Highest = 0 THEN MaxNodeScore ELSE Quotient(MaxNodeScore * x, Highest)
      BY <2>2, FinalScores DEF Turned
    <3>2. CASE Highest = 0
      BY <3>1, <3>2 DEF MaxNodeScore
    <3>3. CASE Highest # 0
      <4>. HIDE DEF x
      <4>1. /\ MaxNodeScore * x \in Int /\ Highest * 100 \in Int /\ Highest * 0 \in Int
            /\ Highest * 0 <= MaxNodeScore * x /\ MaxNodeScore * x <= Highest * 100
        BY <3>1 DEF MaxNodeScore
      <4>2. /\ Quotient(Highest * 0, Highest) = 0 /\ Quotient(Highest * 100, Highest) = 100
            /\ Quotient(MaxNodeScore * x, Highest) \in Int
            /\ Quotient(Highest * 0, Highest) <= Quotient(MaxNodeScore * x, Highest)
            /\ Quotient(MaxNodeScore * x, Highest) <= Quotient(Highest * 100, Highest)
        <5>1. Highest \in Nat \ {0}
          BY <3>1, <3>3
        <5>2. Quotient(Highest * 0, Highest) = 0 /\ Quotient(Highest * 100, Highest) = 100
          BY <5>1, QuotientOfMultiple
        <5>. HIDE DEF MaxNodeScore
        <5>. QED
          BY <4>1, <5>1, <5>2, QuotientIsMonotone
      <4>. QED
        BY <3>1, <3>3, <4>2 DEF MaxNodeScore
    <3>. QED
      BY <3>2, <3>3
  <2>. QED
    BY <2>1, <2>2
<1>. QED
  BY <1>1, InvariantHolds, PTL

\* Whatever the weights, the order of the workers and the class, a node with at
\* most as many matching pods under every constraint does not score less.
THEOREM FewerPodsDoNotScoreLess == Spec => []FewerPodsScoreMore
<1>1. IInv => FewerPodsScoreMore
  <2>. SUFFICES ASSUME IInv, phase = "normalized", PositiveSkews,
                       NEW n \in feasible \ ignored, NEW m \in feasible \ ignored,
                       AllKeys(constraints, n), AllKeys(constraints, m),
                       \A i \in DOMAIN constraints :
                           Cardinality(Matching(i, n)) <= Cardinality(Matching(i, m))
                PROVE  final[n] >= final[m]
    BY DEF FewerPodsScoreMore
  <2>. DEFINE x(l) == Highest + Min(Taken) - raw[l]
  <2>1. Prepared /\ todo = {}
    BY DEF Prepared, IInv, ResultInv
  <2>2. RawScore(n) <= RawScore(m)
    BY <2>1, RawScores
  <2>3. \A l \in {n, m} :
          /\ raw[l] = RawScore(l) /\ raw[l] \in Nat /\ Highest \in Nat /\ Min(Taken) \in Nat
          /\ final[l] = IF Highest = 0 THEN MaxNodeScore ELSE Quotient(MaxNodeScore * x(l), Highest)
    BY FinalScores DEF Turned
  <2>4. CASE Highest = 0
    BY <2>3, <2>4 DEF MaxNodeScore
  <2>5. CASE Highest # 0
    <3>1. x(n) \in Int /\ x(m) \in Int /\ x(m) <= x(n)
      BY <2>2, <2>3
    <3>. HIDE DEF x
    <3>2. /\ MaxNodeScore * x(n) \in Int /\ MaxNodeScore * x(m) \in Int
          /\ MaxNodeScore * x(m) <= MaxNodeScore * x(n) /\ Highest \in Nat \ {0}
      BY <2>3, <2>5, <3>1 DEF MaxNodeScore
    <3>3. /\ Quotient(MaxNodeScore * x(m), Highest) \in Int /\ Quotient(MaxNodeScore * x(n), Highest) \in Int
          /\ Quotient(MaxNodeScore * x(m), Highest) <= Quotient(MaxNodeScore * x(n), Highest)
      BY <3>2, QuotientIsMonotone
    <3>. QED
      BY <2>3, <2>5, <3>3
  <2>. QED
    BY <2>4, <2>5
<1>. QED
  BY <1>1, InvariantHolds, PTL
=============================================================================
