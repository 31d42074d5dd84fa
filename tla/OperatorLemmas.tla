--------------------------- MODULE OperatorLemmas ---------------------------
(***************************************************************************)
(* Lemmas about the operators several models are built from: how a class's *)
(* node affinity combines with a pod's, what the sum over a finite set is, *)
(* the least and the greatest of a set, and integer division.  None of     *)
(* them is about a state.                                                  *)
(***************************************************************************)
EXTENDS ClassTerms, Scores, FiniteSetsExt, FiniteSetTheorems, TLAPS

-----------------------------------------------------------------------------
(* Merging node affinity                                                   *)

\* A pair of terms joined into one term matches where both terms do.  It
\* takes that neither is empty: an empty term matches nothing.
LEMMA JoinedTerm ==
    ASSUME NEW at, NEW bt, NEW n, at # {}, bt # {}
    PROVE  TermMatches(at \cup bt, n) <=> TermMatches(at, n) /\ TermMatches(bt, n)
BY DEF TermMatches

\* mergeNodeSelectors is the AND of its arguments when no term is empty.
LEMMA CrossProductIsAnd ==
    ASSUME NEW a, NEW b, NEW n,
           a # Nil => {} \notin a,
           b # Nil => {} \notin b,
           (a # Nil /\ b # Nil) => MergeNodeSelectors(a, b) # Nil
    PROVE  SelectorMatches(MergeNodeSelectors(a, b), n)
              <=> SelectorMatches(a, n) /\ SelectorMatches(b, n)
<1>1. CASE a = Nil
  BY <1>1 DEF MergeNodeSelectors, SelectorMatches
<1>2. CASE a # Nil /\ b = Nil
  BY <1>2 DEF MergeNodeSelectors, SelectorMatches
<1>3. CASE a # Nil /\ b # Nil
  <2>1. MergeNodeSelectors(a, b) = {at \cup bt : at \in a, bt \in b}
    BY <1>3 DEF MergeNodeSelectors
  <2>2. SelectorMatches(MergeNodeSelectors(a, b), n)
           <=> \E t \in MergeNodeSelectors(a, b) : TermMatches(t, n)
    BY <1>3 DEF SelectorMatches
  <2>3. (\E t \in MergeNodeSelectors(a, b) : TermMatches(t, n))
           <=> \E at \in a, bt \in b : TermMatches(at \cup bt, n)
    <3>1. \A t : t \in MergeNodeSelectors(a, b) <=> \E at \in a, bt \in b : t = at \cup bt
      BY <2>1
    <3>2. ASSUME NEW t \in MergeNodeSelectors(a, b), TermMatches(t, n)
          PROVE  \E at \in a, bt \in b : TermMatches(at \cup bt, n)
      <4>1. PICK at \in a, bt \in b : t = at \cup bt
        BY <3>1
      <4> QED BY <3>2, <4>1
    <3>3. ASSUME NEW at \in a, NEW bt \in b, TermMatches(at \cup bt, n)
          PROVE  \E t \in MergeNodeSelectors(a, b) : TermMatches(t, n)
      <4>1. at \cup bt \in MergeNodeSelectors(a, b)
        BY <3>1
      <4> QED BY <3>3, <4>1
    <3> QED BY <3>2, <3>3
  <2>4. \A at \in a, bt \in b : TermMatches(at \cup bt, n)
                                   <=> TermMatches(at, n) /\ TermMatches(bt, n)
    <3>1. SUFFICES ASSUME NEW at \in a, NEW bt \in b
                   PROVE  TermMatches(at \cup bt, n)
                             <=> TermMatches(at, n) /\ TermMatches(bt, n)
      OBVIOUS
    <3>2. at # {} /\ bt # {}
      BY <1>3
    <3> QED BY <3>2, JoinedTerm
  <2>5. SelectorMatches(a, n) /\ SelectorMatches(b, n)
           <=> \E at \in a, bt \in b : TermMatches(at, n) /\ TermMatches(bt, n)
    BY <1>3 DEF SelectorMatches
  <2> QED BY <2>2, <2>3, <2>4, <2>5
<1> QED BY <1>1, <1>2, <1>3

\* A node that carries the merged labels carries the overriding map's, and
\* the overridden map's at every key the first does not set.
LEMMA LabelsOfBoth ==
    ASSUME NEW cr, NEW own, NEW labels, HasLabels(labels, Overrides(cr, own))
    PROVE  /\ HasLabels(labels, cr)
           /\ \A k \in DOMAIN own : \/ k \in DOMAIN cr
                                    \/ k \in DOMAIN labels /\ labels[k] = own[k]
<1>1. DOMAIN Overrides(cr, own) = DOMAIN cr \cup DOMAIN own
  BY DEF Overrides
<1>2. \A k \in DOMAIN cr : Overrides(cr, own)[k] = cr[k]
  BY DEF Overrides
<1>3. \A k \in DOMAIN own : k \notin DOMAIN cr => Overrides(cr, own)[k] = own[k]
  BY DEF Overrides
<1> QED BY <1>1, <1>2, <1>3 DEF HasLabels

\* The merged affinity admits a node only if the class does, and only if the
\* pod's own required terms do.
LEMMA MergedAdmitsLess ==
    ASSUME NEW own, NEW cr, NEW n, NEW labels,
           ~HasEmptyTerm(own.required), ~HasEmptyTerm(cr.required),
           (own.required # Nil /\ cr.required # Nil) =>
               MergeNodeSelectors(own.required, cr.required) # Nil,
           RequiredMatches(MergeNodeAffinityTerms(own, cr), n, labels)
    PROVE  RequiredMatches(cr, n, labels) /\ SelectorMatches(own.required, n)
<1>. DEFINE aff == MergeNodeAffinityTerms(own, cr)
<1>1. /\ aff.nodeSelector = Overrides(cr.nodeSelector, own.nodeSelector)
      /\ aff.required = MergeNodeSelectors(own.required, cr.required)
  BY DEF MergeNodeAffinityTerms
<1>2. HasLabels(labels, cr.nodeSelector)
  BY <1>1, LabelsOfBoth DEF RequiredMatches
<1>3. /\ own.required # Nil => {} \notin own.required
      /\ cr.required # Nil => {} \notin cr.required
  BY DEF HasEmptyTerm
<1>4. SelectorMatches(own.required, n) /\ SelectorMatches(cr.required, n)
  BY <1>1, <1>3, CrossProductIsAnd DEF RequiredMatches
<1>. QED
  BY <1>2, <1>4 DEF RequiredMatches

-----------------------------------------------------------------------------
(* Finite sets                                                             *)

\* Among finite sets there is one that contains no other of them.
LEMMA MinimalSet ==
    ASSUME NEW S, IsFiniteSet(S), NEW T, T \subseteq SUBSET S, T # {}
    PROVE  \E x \in T : \A y \in T : ~(y \subseteq x /\ y # x)
<1>1. IsWellFoundedOn(StrictSubsetOrdering(S), FiniteSubsetsOf(S))
  BY FS_StrictSubsetOrderingWellFounded
<1>2. T \subseteq FiniteSubsetsOf(S)
  BY FS_FiniteSubsetsOfFinite
<1>3. PICK x \in T : \A y \in T : ~(<<y, x>> \in StrictSubsetOrdering(S))
  BY <1>1, <1>2, WFMin
<1>. QED
  BY <1>3 DEF StrictSubsetOrdering

\* Induction over a finite set, element by element: T holds the subsets for
\* which the claim is true.
LEMMA SetInduction ==
    ASSUME NEW S, IsFiniteSet(S), NEW T, {} \in T,
           \A s \in SUBSET S, x \in S : (s \in T /\ x \notin s) => s \cup {x} \in T
    PROVE  S \in T
<1>. SUFFICES ASSUME S \notin T PROVE FALSE
  OBVIOUS
<1>. DEFINE Bad == (SUBSET S) \ T
<1>1. Bad \subseteq SUBSET S /\ Bad # {}
  OBVIOUS
<1>. HIDE DEF Bad
<1>2. PICK b \in Bad : \A y \in Bad : ~(y \subseteq b /\ y # b)
  BY <1>1, MinimalSet
<1>. USE DEF Bad
<1>3. PICK x \in b : TRUE
  OBVIOUS
<1>4. b \ {x} \in T /\ x \in S
  BY <1>2, <1>3
<1>5. (b \ {x}) \cup {x} = b
  BY <1>3
<1>. QED
  BY <1>4, <1>5

LEMMA ImageIsFinite ==
    ASSUME NEW S, IsFiniteSet(S), NEW f
    PROVE  IsFiniteSet({f[x] : x \in S})
<1>. DEFINE Image(s) == {f[x] : x \in s}
            T == {s \in SUBSET S : IsFiniteSet(Image(s))}
<1>1. {} \in T
  <2>1. Image({}) = {}
    OBVIOUS
  <2>. QED
    BY <2>1, FS_EmptySet
<1>2. ASSUME NEW s \in SUBSET S, NEW y \in S, s \in T, y \notin s
      PROVE  s \cup {y} \in T
  <2>1. Image(s \cup {y}) = Image(s) \cup {f[y]}
    OBVIOUS
  <2>2. IsFiniteSet(Image(s))
    BY <1>2
  <2>3. IsFiniteSet(Image(s) \cup {f[y]})
    <3>. HIDE DEF Image
    <3>. QED
      BY <2>2, FS_AddElement
  <2>4. IsFiniteSet(Image(s \cup {y}))
    <3>. HIDE DEF Image
    <3>. QED
      BY <2>1, <2>3, Zenon
  <2>. QED
    BY <1>2, <2>4
<1>. HIDE DEF T
<1>3. S \in T
  BY <1>1, <1>2, SetInduction
<1>. QED
  BY <1>3 DEF T

LEMMA DisjointUnion ==
    ASSUME NEW S, IsFiniteSet(S), NEW U, IsFiniteSet(U), S \cap U = {}
    PROVE  Cardinality(S \cup U) = Cardinality(S) + Cardinality(U)
<1>1. Cardinality(S) \in Nat /\ Cardinality(U) \in Nat /\ Cardinality(S \cap U) = 0
  BY FS_CardinalityType, FS_EmptySet
<1>2. Cardinality(S \cup U) = Cardinality(S) + Cardinality(U) - Cardinality(S \cap U)
  BY FS_Union
<1>. QED
  BY <1>1, <1>2

-----------------------------------------------------------------------------
(* Sums                                                                    *)

(***************************************************************************)
(* SumFunctionOnSet is a fold, defined by a recursive function that takes  *)
(* one element after the other off the set, each chosen with CHOOSE.       *)
(***************************************************************************)
Pick(s) == CHOOSE x \in s : TRUE

Adds(f, S, g) ==
    g = [s \in SUBSET S |-> IF s = {} THEN 0 ELSE f[Pick(s)] + g[s \ {Pick(s)}]]

Adder(f, S) == CHOOSE g : Adds(f, S, g)

LEMMA SumIs ==
    ASSUME NEW f, NEW S
    PROVE  SumFunctionOnSet(f, S) = Adder(f, S)[S]
  BY DEF SumFunctionOnSet, FoldFunctionOnSet, MapThenFoldSet, Adds, Pick, Adder

LEMMA PickIn == ASSUME NEW s, s # {} PROVE Pick(s) \in s
  BY DEF Pick

LEMMA AddsOne ==
    ASSUME NEW f, NEW S, NEW g, Adds(f, S, g), NEW s, s \subseteq S
    PROVE  /\ s = {} => g[s] = 0
           /\ s # {} => g[s] = f[Pick(s)] + g[s \ {Pick(s)}]
<1>1. ASSUME NEW h, h = [t \in SUBSET S |-> IF t = {} THEN 0 ELSE f[Pick(t)] + g[t \ {Pick(t)}]]
      PROVE  h[s] = IF s = {} THEN 0 ELSE f[Pick(s)] + g[s \ {Pick(s)}]
  BY <1>1
<1>. QED
  BY <1>1 DEF Adds

LEMMA AddersAgree ==
    ASSUME NEW f, NEW S, NEW U \in SUBSET S, IsFiniteSet(U),
           NEW g, Adds(f, S, g), NEW h, Adds(f, U, h)
    PROVE  g[U] = h[U]
<1>. DEFINE T == {s \in SUBSET U : g[s] # h[s]}
<1>. SUFFICES ASSUME T # {} PROVE FALSE
  OBVIOUS
<1>1. T \subseteq SUBSET U
  OBVIOUS
<1>. HIDE DEF T
<1>2. PICK s \in T : \A t \in T : ~(t \subseteq s /\ t # s)
  BY <1>1, MinimalSet
<1>3. s \subseteq U /\ s \subseteq S
  BY <1>1
<1>4. /\ s = {} => g[s] = 0
      /\ s # {} => g[s] = f[Pick(s)] + g[s \ {Pick(s)}]
  BY <1>3, AddsOne
<1>5. /\ s = {} => h[s] = 0
      /\ s # {} => h[s] = f[Pick(s)] + h[s \ {Pick(s)}]
  BY <1>3, AddsOne
<1>6. CASE s = {}
  BY <1>4, <1>5, <1>6 DEF T
<1>7. CASE s # {}
  <2>. DEFINE t == s \ {Pick(s)}
  <2>1. t \subseteq s /\ t # s /\ t \in SUBSET U
    BY <1>3, <1>7, PickIn
  <2>2. g[t] = h[t]
    BY <1>2, <2>1 DEF T
  <2>. QED
    BY <1>4, <1>5, <1>7, <2>2 DEF T
<1>. QED
  BY <1>6, <1>7

LEMMA AdderExists ==
    ASSUME NEW f, NEW S, IsFiniteSet(S)
    PROVE  Adds(f, S, Adder(f, S))
<1>. DEFINE T == {s \in SUBSET S : ~\E g : Adds(f, s, g)}
<1>1. T = {}
  <2>. SUFFICES ASSUME T # {} PROVE FALSE
    OBVIOUS
  <2>1. T \subseteq SUBSET S
    OBVIOUS
  <2>. HIDE DEF T
  <2>2. PICK x \in T : \A t \in T : ~(t \subseteq x /\ t # x)
    BY <2>1, MinimalSet
  <2>3. ASSUME NEW t, t \subseteq x, t # x PROVE Adds(f, t, Adder(f, t)) /\ IsFiniteSet(t)
    <3>1. t \in SUBSET S
      BY <2>1, <2>3
    <3>2. \E g : Adds(f, t, g)
      BY <2>2, <2>3, <3>1 DEF T
    <3>. QED
      BY <3>1, <3>2, FS_Subset DEF Adder
  <2>. DEFINE V(t) == Adder(f, t)[t]
              h == [s \in SUBSET x |-> IF s = {} THEN 0 ELSE f[Pick(s)] + V(s \ {Pick(s)})]
  <2>4. ASSUME NEW t, t \subseteq x, t # x PROVE h[t] = V(t)
    <3>1. /\ t = {} => V(t) = 0
          /\ t # {} => V(t) = f[Pick(t)] + Adder(f, t)[t \ {Pick(t)}]
      BY <2>3, <2>4, AddsOne
    <3>2. CASE t = {}
      BY <3>1, <3>2
    <3>3. CASE t # {}
      <4>. DEFINE u == t \ {Pick(t)}
      <4>1. u \subseteq t /\ u \subseteq x /\ u # x
        BY <2>4, <3>3, PickIn
      <4>2. Adder(f, t)[u] = V(u)
        BY <2>3, <2>4, <4>1, AddersAgree
      <4>. QED
        BY <2>4, <3>1, <3>3, <4>2
    <3>. QED
      BY <3>2, <3>3
  <2>5. ASSUME NEW s \in SUBSET x, s # {}
        PROVE  h[s \ {Pick(s)}] = V(s \ {Pick(s)})
    BY <2>4, <2>5, PickIn
  <2>6. Adds(f, x, h)
    <3>. HIDE DEF V
    <3>. QED
      BY <2>5 DEF Adds
  <2>. QED
    BY <2>6 DEF T
<1>2. \E g : Adds(f, S, g)
  BY <1>1
<1>. QED
  BY <1>2 DEF Adder

LEMMA SumOfNone == ASSUME NEW f PROVE SumFunctionOnSet(f, {}) = 0
<1>1. Adds(f, {}, Adder(f, {}))
  BY AdderExists, FS_EmptySet
<1>. QED
  BY <1>1, AddsOne, SumIs

LEMMA SumPicks ==
    ASSUME NEW f, NEW S, IsFiniteSet(S), S # {}
    PROVE  SumFunctionOnSet(f, S) = f[Pick(S)] + SumFunctionOnSet(f, S \ {Pick(S)})
<1>. DEFINE U == S \ {Pick(S)}
<1>1. IsFiniteSet(U) /\ U \in SUBSET S
  BY FS_Subset
<1>2. Adds(f, S, Adder(f, S)) /\ Adds(f, U, Adder(f, U))
  BY <1>1, AdderExists
<1>3. Adder(f, S)[U] = Adder(f, U)[U]
  BY <1>1, <1>2, AddersAgree
<1>. QED
  BY <1>2, <1>3, AddsOne, SumIs

-----------------------------------------------------------------------------
\* Every sum of integers is an integer, and any element can be taken off it.
LEMMA SumSplits ==
    ASSUME NEW S, IsFiniteSet(S), NEW f, \A s \in S : f[s] \in Int
    PROVE  /\ SumFunctionOnSet(f, S) \in Int
           /\ \A x \in S : SumFunctionOnSet(f, S) = f[x] + SumFunctionOnSet(f, S \ {x})
<1>. DEFINE V(s) == SumFunctionOnSet(f, s)
            Good(s) == V(s) \in Int /\ \A x \in s : V(s) = f[x] + V(s \ {x})
            T == {s \in SUBSET S : ~Good(s)}
<1>. SUFFICES ASSUME T # {} PROVE FALSE
  OBVIOUS
<1>1. T \subseteq SUBSET S
  OBVIOUS
<1>. HIDE DEF T
<1>2. PICK b \in T : \A t \in T : ~(t \subseteq b /\ t # b)
  BY <1>1, MinimalSet
<1>3. b \subseteq S /\ IsFiniteSet(b)
  BY <1>1, FS_Subset
<1>4. ASSUME NEW t, t \subseteq b, t # b PROVE Good(t)
  BY <1>2, <1>3, <1>4 DEF T
<1>5. b # {}
  BY SumOfNone DEF T
<1>. DEFINE p == Pick(b)
<1>6. p \in b /\ f[p] \in Int
  BY <1>3, <1>5, PickIn
<1>7. V(b) = f[p] + V(b \ {p})
  BY <1>3, <1>5, SumPicks
<1>8. V(b \ {p}) \in Int
  BY <1>4, <1>6
<1>9. ASSUME NEW x \in b, x # p PROVE V(b) = f[x] + V(b \ {x})
  <2>1. x \in b \ {p} /\ p \in b \ {x} /\ (b \ {p}) \ {x} = (b \ {x}) \ {p} /\ f[x] \in Int
    BY <1>3, <1>6, <1>9
  <2>2. V(b \ {p}) = f[x] + V((b \ {p}) \ {x})
    BY <1>4, <1>6, <2>1
  <2>3. V(b \ {x}) = f[p] + V((b \ {x}) \ {p})
    BY <1>4, <2>1
  <2>4. V((b \ {p}) \ {x}) \in Int
    BY <1>4, <2>1
  <2>. HIDE DEF V, p
  <2>5. V((b \ {x}) \ {p}) = V((b \ {p}) \ {x})
    BY <2>1
  <2>. QED
    BY <1>6, <1>7, <2>1, <2>2, <2>3, <2>4, <2>5
<1>10. V(b) \in Int
  BY <1>6, <1>7, <1>8
<1>11. Good(b)
  BY <1>7, <1>9, <1>10
<1>. QED
  BY <1>2, <1>11 DEF T

\* An element that is new to a set adds its value to the sum.
LEMMA SumAdds ==
    ASSUME NEW S, IsFiniteSet(S), NEW f, \A s \in S : f[s] \in Int,
           NEW x, x \notin S, f[x] \in Int
    PROVE  SumFunctionOnSet(f, S \cup {x}) = f[x] + SumFunctionOnSet(f, S)
<1>1. IsFiniteSet(S \cup {x}) /\ \A s \in S \cup {x} : f[s] \in Int
  BY FS_AddElement
<1>2. (S \cup {x}) \ {x} = S
  OBVIOUS
<1>. QED
  BY <1>1, <1>2, SumSplits

\* A sum depends on the values at the elements of the set and nothing else.
LEMMA SumSame ==
    ASSUME NEW S, IsFiniteSet(S), NEW f, NEW g,
           \A s \in S : f[s] \in Int /\ g[s] = f[s]
    PROVE  SumFunctionOnSet(g, S) = SumFunctionOnSet(f, S)
<1>. DEFINE T == {s \in SUBSET S : SumFunctionOnSet(g, s) = SumFunctionOnSet(f, s)}
<1>1. {} \in T
  BY SumOfNone
<1>2. ASSUME NEW s \in SUBSET S, NEW x \in S, s \in T, x \notin s
      PROVE  s \cup {x} \in T
  <2>1. IsFiniteSet(s) /\ \A y \in s : f[y] \in Int /\ g[y] \in Int
    BY FS_Subset
  <2>2. SumFunctionOnSet(g, s \cup {x}) = SumFunctionOnSet(f, s \cup {x})
    BY <1>2, <2>1, SumAdds
  <2>. QED
    BY <2>2
<1>. HIDE DEF T
<1>3. S \in T
  BY <1>1, <1>2, SetInduction
<1>. QED
  BY <1>3 DEF T

LEMMA SumMonotone ==
    ASSUME NEW S, IsFiniteSet(S), NEW f, NEW g,
           \A s \in S : f[s] \in Int /\ g[s] \in Int /\ f[s] <= g[s]
    PROVE  SumFunctionOnSet(f, S) <= SumFunctionOnSet(g, S)
<1>. DEFINE T == {s \in SUBSET S : SumFunctionOnSet(f, s) <= SumFunctionOnSet(g, s)}
<1>1. {} \in T
  BY SumOfNone
<1>2. ASSUME NEW s \in SUBSET S, NEW x \in S, s \in T, x \notin s
      PROVE  s \cup {x} \in T
  <2>1. IsFiniteSet(s) /\ \A y \in s : f[y] \in Int /\ g[y] \in Int
    BY FS_Subset
  <2>2. SumFunctionOnSet(f, s) \in Int /\ SumFunctionOnSet(g, s) \in Int
    BY <2>1, SumSplits
  <2>3. /\ SumFunctionOnSet(f, s \cup {x}) = f[x] + SumFunctionOnSet(f, s)
        /\ SumFunctionOnSet(g, s \cup {x}) = g[x] + SumFunctionOnSet(g, s)
    BY <1>2, <2>1, SumAdds
  <2>. QED
    BY <1>2, <2>2, <2>3
<1>. HIDE DEF T
<1>3. S \in T
  BY <1>1, <1>2, SetInduction
<1>. QED
  BY <1>3 DEF T

LEMMA SumOfZeros ==
    ASSUME NEW S, IsFiniteSet(S), NEW f, \A s \in S : f[s] = 0
    PROVE  SumFunctionOnSet(f, S) = 0
<1>. DEFINE T == {s \in SUBSET S : SumFunctionOnSet(f, s) = 0}
<1>1. {} \in T
  BY SumOfNone
<1>2. ASSUME NEW s \in SUBSET S, NEW x \in S, s \in T, x \notin s
      PROVE  s \cup {x} \in T
  <2>1. IsFiniteSet(s) /\ \A y \in s : f[y] \in Int
    BY FS_Subset
  <2>. QED
    BY <1>2, <2>1, SumAdds
<1>. HIDE DEF T
<1>3. S \in T
  BY <1>1, <1>2, SetInduction
<1>. QED
  BY <1>3 DEF T

LEMMA SumNotNegative ==
    ASSUME NEW S, IsFiniteSet(S), NEW f, \A s \in S : f[s] \in Nat
    PROVE  SumFunctionOnSet(f, S) \in Nat
<1>. DEFINE T == {s \in SUBSET S : SumFunctionOnSet(f, s) \in Nat}
<1>1. {} \in T
  BY SumOfNone
<1>2. ASSUME NEW s \in SUBSET S, NEW x \in S, s \in T, x \notin s
      PROVE  s \cup {x} \in T
  <2>1. IsFiniteSet(s) /\ \A y \in s : f[y] \in Int
    BY FS_Subset
  <2>. QED
    BY <1>2, <2>1, SumAdds
<1>. HIDE DEF T
<1>3. S \in T
  BY <1>1, <1>2, SetInduction
<1>. QED
  BY <1>3 DEF T

LEMMA SumOfUnion ==
    ASSUME NEW S, IsFiniteSet(S), NEW U, IsFiniteSet(U), S \cap U = {},
           NEW f, \A x \in S \cup U : f[x] \in Int
    PROVE  SumFunctionOnSet(f, S \cup U) = SumFunctionOnSet(f, S) + SumFunctionOnSet(f, U)
<1>. DEFINE V(s) == SumFunctionOnSet(f, s)
            T == {s \in SUBSET U : V(S \cup s) = V(S) + V(s)}
<1>1. V(S) \in Int
  BY SumSplits
<1>2. {} \in T
  <2>1. S \cup {} = S
    OBVIOUS
  <2>. QED
    BY <1>1, <2>1, SumOfNone
<1>3. ASSUME NEW s \in SUBSET U, NEW x \in U, s \in T, x \notin s
      PROVE  s \cup {x} \in T
  <2>1. IsFiniteSet(s) /\ IsFiniteSet(S \cup s)
    BY FS_Subset, FS_Union
  <2>2. x \notin S \cup s /\ \A y \in S \cup s : f[y] \in Int
    BY <1>3
  <2>3. V(s) \in Int /\ V(s \cup {x}) = f[x] + V(s)
    BY <1>3, <2>1, <2>2, SumSplits, SumAdds
  <2>4. V((S \cup s) \cup {x}) = f[x] + V(S \cup s)
    BY <2>1, <2>2, SumAdds
  <2>5. (S \cup s) \cup {x} = S \cup (s \cup {x}) /\ f[x] \in Int
    OBVIOUS
  <2>6. V(S \cup s) = V(S) + V(s)
    BY <1>3
  <2>. HIDE DEF V
  <2>7. V(S \cup (s \cup {x})) = f[x] + V(S \cup s)
    BY <2>4, <2>5
  <2>8. V(S \cup (s \cup {x})) = V(S) + V(s \cup {x})
    BY <1>1, <2>3, <2>5, <2>6, <2>7
  <2>. QED
    BY <2>8
<1>. HIDE DEF T
<1>4. U \in T
  BY <1>2, <1>3, SetInduction
<1>. QED
  BY <1>4 DEF T

\* Renaming the elements of a set one to one leaves the sum as it is.
LEMMA SumRenamed ==
    ASSUME NEW U, IsFiniteSet(U), NEW b, NEW f, NEW g,
           \A x, y \in U : b[x] = b[y] => x = y,
           \A x \in U : g[x] \in Int /\ g[x] = f[b[x]]
    PROVE  SumFunctionOnSet(f, {b[x] : x \in U}) = SumFunctionOnSet(g, U)
<1>. DEFINE Image(s) == {b[x] : x \in s}
            T == {s \in SUBSET U : IsFiniteSet(Image(s))
                                    /\ SumFunctionOnSet(f, Image(s)) = SumFunctionOnSet(g, s)}
<1>1. {} \in T
  <2>1. Image({}) = {}
    OBVIOUS
  <2>. QED
    BY <2>1, SumOfNone, FS_EmptySet
<1>2. ASSUME NEW s \in SUBSET U, NEW x \in U, s \in T, x \notin s
      PROVE  s \cup {x} \in T
  <2>1. Image(s \cup {x}) = Image(s) \cup {b[x]} /\ b[x] \notin Image(s)
    BY <1>2
  <2>2. IsFiniteSet(s) /\ IsFiniteSet(Image(s)) /\ IsFiniteSet(Image(s) \cup {b[x]})
    BY <1>2, FS_Subset, FS_AddElement
  <2>3. (\A y \in Image(s) : f[y] \in Int) /\ f[b[x]] \in Int /\ f[b[x]] = g[x]
    OBVIOUS
  <2>4. SumFunctionOnSet(f, Image(s) \cup {b[x]}) = g[x] + SumFunctionOnSet(f, Image(s))
    <3>. HIDE DEF Image
    <3>. QED
      BY <2>1, <2>2, <2>3, SumAdds
  <2>5. SumFunctionOnSet(g, s \cup {x}) = g[x] + SumFunctionOnSet(g, s)
    BY <1>2, <2>2, SumAdds
  <2>6. SumFunctionOnSet(f, Image(s)) = SumFunctionOnSet(g, s)
    BY <1>2
  <2>. HIDE DEF Image
  <2>7. SumFunctionOnSet(f, Image(s \cup {x})) = SumFunctionOnSet(g, s \cup {x})
    BY <2>1, <2>4, <2>5, <2>6
  <2>. QED
    BY <2>1, <2>2, <2>7
<1>. HIDE DEF T
<1>3. U \in T
  BY <1>1, <1>2, SetInduction
<1>. QED
  BY <1>3 DEF T

\* A sum can be taken group by group: h[s] is the group of s.
Group(S, h, k) == {s \in S : h[s] = k}

LEMMA SumByGroup ==
    ASSUME NEW S, IsFiniteSet(S), NEW f, \A s \in S : f[s] \in Int,
           NEW K, IsFiniteSet(K), NEW h, \A s \in S : h[s] \in K,
           NEW g, \A k \in K : g[k] = SumFunctionOnSet(f, Group(S, h, k))
    PROVE  SumFunctionOnSet(g, K) = SumFunctionOnSet(f, S)
<1>. DEFINE V(s) == SumFunctionOnSet(f, s)
            Class(s, k) == {x \in s : h[x] = k}
            G(s) == [k \in K |-> V(Class(s, k))]
            T == {s \in SUBSET S : SumFunctionOnSet(G(s), K) = V(s)}
<1>0. ASSUME NEW s \in SUBSET S
      PROVE  /\ IsFiniteSet(s) /\ V(s) \in Int
             /\ \A k \in K : G(s)[k] = V(Class(s, k)) /\ G(s)[k] \in Int
  <2>1. IsFiniteSet(s) /\ V(s) \in Int
    BY FS_Subset, SumSplits
  <2>2. ASSUME NEW k \in K PROVE V(Class(s, k)) \in Int
    <3>1. IsFiniteSet(Class(s, k)) /\ \A x \in Class(s, k) : f[x] \in Int
      BY <2>1, FS_Subset
    <3>. QED
      BY <3>1, SumSplits
  <2>. QED
    BY <2>1, <2>2
<1>1. {} \in T
  <2>1. ASSUME NEW k \in K PROVE G({})[k] = 0
    <3>1. Class({}, k) = {}
      OBVIOUS
    <3>. QED
      BY <3>1, SumOfNone
  <2>. QED
    BY <2>1, SumOfZeros, SumOfNone
<1>2. ASSUME NEW s \in SUBSET S, NEW x \in S, s \in T, x \notin s
      PROVE  s \cup {x} \in T
  <2>. DEFINE k == h[x]
              t == s \cup {x}
  <2>1. k \in K /\ t \in SUBSET S
    OBVIOUS
  <2>2. G(t)[k] = f[x] + G(s)[k]
    <3>1. Class(t, k) = Class(s, k) \cup {x} /\ x \notin Class(s, k)
      BY <1>2
    <3>2. IsFiniteSet(Class(s, k)) /\ \A y \in Class(s, k) : f[y] \in Int
      BY <1>0, FS_Subset
    <3>3. V(Class(s, k) \cup {x}) = f[x] + V(Class(s, k))
      BY <3>1, <3>2, SumAdds
    <3>. HIDE DEF V, Class
    <3>. QED
      BY <2>1, <3>1, <3>3
  <2>3. \A l \in K \ {k} : G(t)[l] = G(s)[l]
    <3>1. TAKE l \in K \ {k}
    <3>2. Class(t, l) = Class(s, l)
      BY <3>1
    <3>. HIDE DEF V, Class
    <3>. QED
      BY <3>1, <3>2
  <2>. HIDE DEF G
  <2>4. \A l \in K : G(s)[l] \in Int /\ G(t)[l] \in Int
    BY <1>0, <2>1
  <2>5. SumFunctionOnSet(G(t), K) = G(t)[k] + SumFunctionOnSet(G(t), K \ {k})
    BY <2>1, <2>4, SumSplits
  <2>6. SumFunctionOnSet(G(s), K) = G(s)[k] + SumFunctionOnSet(G(s), K \ {k})
    BY <2>1, <2>4, SumSplits
  <2>7. IsFiniteSet(K \ {k})
    BY FS_Subset
  <2>8. /\ SumFunctionOnSet(G(t), K \ {k}) = SumFunctionOnSet(G(s), K \ {k})
        /\ SumFunctionOnSet(G(s), K \ {k}) \in Int
    BY <2>3, <2>4, <2>7, SumSame, SumSplits
  <2>9. V(t) = f[x] + V(s) /\ f[x] \in Int /\ V(s) \in Int
    BY <1>0, <1>2, SumAdds
  <2>10. SumFunctionOnSet(G(s), K) = V(s)
    BY <1>2
  <2>. HIDE DEF V, k, t
  <2>11. SumFunctionOnSet(G(t), K) = V(t)
    BY <2>1, <2>2, <2>4, <2>5, <2>6, <2>8, <2>9, <2>10
  <2>. QED
    BY <2>1, <2>11 DEF t
<1>. HIDE DEF T
<1>3. S \in T
  BY <1>1, <1>2, SetInduction
<1>4. SumFunctionOnSet(G(S), K) = V(S)
  BY <1>3 DEF T
<1>5. \A k \in K : G(S)[k] \in Int /\ g[k] = G(S)[k]
  BY <1>0 DEF Group
<1>. HIDE DEF G
<1>. QED
  BY <1>4, <1>5, SumSame

-----------------------------------------------------------------------------
(* The greatest and the least                                              *)

LEMMA GreatestOfSet ==
    ASSUME NEW S, IsFiniteSet(S), S # {}, S \subseteq Int
    PROVE  Max(S) \in S /\ \A x \in S : x <= Max(S)
<1>. DEFINE T == {s \in SUBSET S : s # {} => \E m \in s : \A x \in s : x <= m}
<1>1. {} \in T
  OBVIOUS
<1>2. ASSUME NEW s \in SUBSET S, NEW x \in S, s \in T, x \notin s
      PROVE  s \cup {x} \in T
  <2>1. CASE s = {}
    BY <2>1
  <2>2. CASE s # {}
    <3>1. PICK m \in s : \A y \in s : y <= m
      BY <1>2, <2>2
    <3>2. CASE x <= m
      BY <3>1, <3>2
    <3>3. CASE ~(x <= m)
      <4>1. \A y \in s \cup {x} : y <= x
        BY <3>1, <3>3
      <4>. QED
        BY <4>1
    <3>. QED
      BY <3>2, <3>3
  <2>. QED
    BY <2>1, <2>2
<1>. HIDE DEF T
<1>3. S \in T
  BY <1>1, <1>2, SetInduction
<1>4. \E m \in S : \A x \in S : m >= x
  BY <1>3 DEF T
<1>5. Max(S) \in S /\ \A x \in S : Max(S) >= x
  BY <1>4 DEF Max
<1>. QED
  BY <1>5

LEMMA LeastOfSet ==
    ASSUME NEW S, IsFiniteSet(S), S # {}, S \subseteq Int
    PROVE  Min(S) \in S /\ \A x \in S : Min(S) <= x
<1>. DEFINE T == {s \in SUBSET S : s # {} => \E m \in s : \A x \in s : m <= x}
<1>1. {} \in T
  OBVIOUS
<1>2. ASSUME NEW s \in SUBSET S, NEW x \in S, s \in T, x \notin s
      PROVE  s \cup {x} \in T
  <2>1. CASE s = {}
    BY <2>1
  <2>2. CASE s # {}
    <3>1. PICK m \in s : \A y \in s : m <= y
      BY <1>2, <2>2
    <3>2. CASE m <= x
      BY <3>1, <3>2
    <3>3. CASE ~(m <= x)
      <4>1. \A y \in s \cup {x} : x <= y
        BY <3>1, <3>3
      <4>. QED
        BY <4>1
    <3>. QED
      BY <3>2, <3>3
  <2>. QED
    BY <2>1, <2>2
<1>. HIDE DEF T
<1>3. S \in T
  BY <1>1, <1>2, SetInduction
<1>4. \E m \in S : \A x \in S : m <= x
  BY <1>3 DEF T
<1>5. Min(S) \in S /\ \A x \in S : Min(S) <= x
  BY <1>4 DEF Min
<1>. QED
  BY <1>5

-----------------------------------------------------------------------------
(* Division                                                                *)

LEMMA Dividing ==
    ASSUME NEW a \in Int, NEW b \in Nat \ {0}
    PROVE  a \div b \in Int /\ b * (a \div b) <= a /\ a < b * (a \div b) + b
  OBVIOUS

LEMMA Cancelling ==
    ASSUME NEW b \in Nat \ {0}, NEW x \in Int, NEW y \in Int
    PROVE  /\ b * x < b * y => x < y
           /\ b * x <= b * y => x <= y
           /\ b * x = b * y => x = y
  OBVIOUS

LEMMA QuotientIsGreatest ==
    ASSUME NEW a \in Int, NEW b \in Nat \ {0}, NEW q \in Int, b * q <= a
    PROVE  q <= a \div b
<1>1. a \div b \in Int /\ a < b * (a \div b) + b
  BY Dividing
<1>2. b * q < b * ((a \div b) + 1)
  BY <1>1
<1>3. q < (a \div b) + 1
  BY <1>1, <1>2, Cancelling
<1>. QED
  BY <1>1, <1>3

LEMMA DividingIsMonotone ==
    ASSUME NEW a \in Int, NEW c \in Int, NEW b \in Nat \ {0}, a <= c
    PROVE  a \div b <= c \div b
  BY Dividing, QuotientIsGreatest

\* Truncation keeps the order, also across zero.
LEMMA QuotientIsMonotone ==
    ASSUME NEW a \in Int, NEW c \in Int, NEW b \in Nat \ {0}, a <= c
    PROVE  Quotient(a, b) \in Int /\ Quotient(a, b) <= Quotient(c, b)
<1>1. /\ a \div b \in Int /\ c \div b \in Int /\ (-a) \div b \in Int /\ (-c) \div b \in Int
  BY Dividing
<1>2. b * 0 = 0
  OBVIOUS
<1>3. \A x \in Int : x >= 0 => 0 <= x \div b
  BY <1>2, QuotientIsGreatest
<1>4. CASE a >= 0
  BY <1>1, <1>4, DividingIsMonotone DEF Quotient
<1>5. CASE a < 0 /\ c >= 0
  <2>1. 0 <= c \div b /\ 0 <= (-a) \div b
    BY <1>3, <1>5
  <2>. QED
    BY <1>1, <1>5, <2>1 DEF Quotient
<1>6. CASE c < 0
  <2>1. (-c) \div b <= (-a) \div b
    BY DividingIsMonotone
  <2>. QED
    BY <1>1, <1>6, <2>1 DEF Quotient
<1>. QED
  BY <1>4, <1>5, <1>6

LEMMA QuotientOfMultiple ==
    ASSUME NEW q \in Int, NEW b \in Nat \ {0}
    PROVE  Quotient(b * q, b) = q
<1>1. b * q \in Int /\ -(b * q) = b * (-q) /\ -q \in Int
  OBVIOUS
<1>2. ASSUME NEW x \in Int PROVE (b * x) \div b = x
  <2>1. /\ (b * x) \div b \in Int /\ b * ((b * x) \div b) <= b * x
        /\ x <= (b * x) \div b
    BY Dividing, QuotientIsGreatest
  <2>. QED
    BY <2>1, Cancelling
<1>. QED
  BY <1>1, <1>2 DEF Quotient
=============================================================================
