--------------------------- MODULE RangeOps_proofs ---------------------------
(***************************************************************************)
(* Proof that the range is consistent for every scenario: RangeIsConsistent *)
(* is an invariant of RangeOps.                                            *)
(***************************************************************************)
EXTENDS RangeOps, WellFoundedInduction, FiniteSetTheorems, TLAPS

-----------------------------------------------------------------------------
(* Finite sets and sums.  Induction over a finite set takes the form of a  *)
(* least counterexample.                                                   *)

\* Least-counterexample form of induction over the natural numbers.
LEMMA LeastNatural ==
  ASSUME NEW T, T \subseteq Nat, T # {}
  PROVE  \E x \in T : \A y \in T : x <= y
<1>1. PICK x \in T : \A y \in T : ~ (<<y, x>> \in OpToRel(<, Nat))
  BY NatLessThanWellFounded, WFMin
<1>2. ASSUME NEW y \in T PROVE x <= y
  <2>1. x \in Nat /\ y \in Nat
    OBVIOUS
  <2>2. y < x => <<y, x>> \in OpToRel(<, Nat)
    BY <2>1 DEF OpToRel
  <2>3. ~ (<<y, x>> \in OpToRel(<, Nat))
    BY <1>1
  <2>4. ~ (y < x)
    BY <2>2, <2>3
  <2> QED
    BY <2>1, <2>4
<1> QED
  BY <1>2

\* A nonempty set of finite sets has a member that is least, in that it can
\* lose no element and remain a member.
LEMMA LeastSubset ==
  ASSUME NEW Q, Q # {}, \A T \in Q : IsFiniteSet(T)
  PROVE  \E T \in Q : \A x \in T : T \ {x} \notin Q
<1> DEFINE Sizes == {Cardinality(T) : T \in Q}
<1>1. Sizes \subseteq Nat /\ Sizes # {}
  BY FS_CardinalityType
<1>2. PICK n \in Sizes : \A m \in Sizes : n <= m
  <2> HIDE DEF Sizes
  <2> QED
    BY <1>1, LeastNatural
<1>3. PICK T \in Q : n = Cardinality(T)
  OBVIOUS
<1>4. ASSUME NEW x \in T, T \ {x} \in Q PROVE FALSE
  <2>1. Cardinality(T \ {x}) = n - 1
    BY <1>3, FS_RemoveElement
  <2>2. n <= n - 1
    BY <1>2, <1>4, <2>1
  <2> QED
    BY <1>1, <2>2
<1> QED
  BY <1>3, <1>4

\* Some element of a nonempty set.
Some(T) == CHOOSE x \in T : TRUE
\* The step of the sum: what it is of T, from what it is of smaller sets.
Plus(f, g, T) == IF T = {} THEN 0 ELSE f[Some(T)] + g[T \ {Some(T)}]
\* g computes the sums of f over the sets of D.
Sums(f, g, D) == g = [T \in D |-> Plus(f, g, T)]

LEMMA SomeIsMember == ASSUME NEW T, T # {} PROVE Some(T) \in T
BY DEF Some

LEMMA TotalIsChosen ==
  ASSUME NEW f, NEW S
  PROVE  Total(f, S) = (CHOOSE g : Sums(f, g, SUBSET S))[S]
BY DEF Total, MapThenSumSet, MapThenFoldSet, Sums, Plus, Some

\* The sums over the subsets of at most n elements exist.
LEMMA SumsExist ==
  ASSUME NEW S, IsFiniteSet(S), NEW f, \A x \in S : f[x] \in Nat
  PROVE  \E g : Sums(f, g, SUBSET S)
<1> DEFINE Small(n) == {T \in SUBSET S : Cardinality(T) <= n}
           Bad == {n \in Nat : ~ \E g : Sums(f, g, Small(n))}
<1>1. ASSUME NEW T \in SUBSET S PROVE IsFiniteSet(T) /\ Cardinality(T) \in Nat /\ Cardinality(T) <= Cardinality(S)
  BY FS_Subset, FS_CardinalityType
<1>2. Cardinality(S) \in Nat
  BY FS_CardinalityType
<1>3. Small(Cardinality(S)) = SUBSET S
  BY <1>1
<1>4. SUFFICES ASSUME Bad # {} PROVE FALSE
  BY <1>2, <1>3
<1>5. PICK n \in Bad : \A m \in Bad : n <= m
  <2>1. Bad \subseteq Nat
    OBVIOUS
  <2> HIDE DEF Bad
  <2> QED
    BY <1>4, <2>1, LeastNatural
<1>6. n # 0
  <2>1. SUFFICES ASSUME n = 0 PROVE FALSE
    OBVIOUS
  <2>2. ASSUME NEW T \in Small(0) PROVE T = {}
    <3>1. Cardinality(T) = 0
      BY <1>1
    <3> QED
      BY <1>1, <3>1, FS_EmptySet
  <2> DEFINE g == [T \in Small(0) |-> 0]
  <2>3. Sums(f, g, Small(0))
    BY <2>2 DEF Sums, Plus
  <2> QED
    BY <2>1, <2>3
<1>7. n \in Nat /\ n - 1 \in Nat /\ n - 1 \notin Bad
  <2>1. n \in Nat /\ n - 1 \in Nat /\ ~ (n <= n - 1)
    BY <1>6
  <2> HIDE DEF Bad
  <2> QED
    BY <2>1, <1>5
<1>8. PICK g : Sums(f, g, Small(n - 1))
  BY <1>7
<1> DEFINE h == [T \in Small(n) |-> Plus(f, g, T)]
<1>9. ASSUME NEW T \in Small(n), T # {}
      PROVE  T \ {Some(T)} \in Small(n) /\ T \ {Some(T)} \in Small(n - 1)
  <2>1. Some(T) \in T
    BY <1>9, SomeIsMember
  <2>2. Cardinality(T \ {Some(T)}) = Cardinality(T) - 1
    BY <1>1, <2>1, FS_RemoveElement
  <2>3. Cardinality(T) \in Nat /\ Cardinality(T) <= n
    BY <1>1
  <2>4. Cardinality(T) - 1 <= n - 1 /\ Cardinality(T) - 1 <= n
    BY <1>7, <2>3
  <2> QED
    BY <2>2, <2>4
<1>10. \A T \in Small(n - 1) : g[T] = Plus(f, g, T)
  <2> HIDE DEF Small
  <2> QED
    BY <1>8 DEF Sums
<1>11. \A T \in Small(n) : Plus(f, h, T) = Plus(f, g, T)
  <2>1. ASSUME NEW T \in Small(n), T # {} PROVE h[T \ {Some(T)}] = g[T \ {Some(T)}]
    <3> DEFINE U == T \ {Some(T)}
    <3>1. U \in Small(n) /\ U \in Small(n - 1)
      BY <1>9, <2>1
    <3> HIDE DEF U, Small
    <3>2. h[U] = Plus(f, g, U) /\ g[U] = Plus(f, g, U)
      BY <3>1, <1>10
    <3>3. h[U] = g[U]
      BY <3>2
    <3> QED
      BY <3>3 DEF U
  <2> HIDE DEF Small, h
  <2> QED
    BY <2>1 DEF Plus
<1>12. Sums(f, h, Small(n))
  <2> HIDE DEF Small
  <2>1. h = [T \in Small(n) |-> Plus(f, h, T)]
    <3> DEFINE k == [T \in Small(n) |-> Plus(f, h, T)]
    <3>1. \A T \in Small(n) : k[T] = h[T]
      BY <1>11
    <3> QED
      BY <3>1
  <2> HIDE DEF h
  <2> QED
    BY <2>1 DEF Sums
<1> QED
  BY <1>5, <1>12

\* Two functions that compute the sums of f agree where both do.
LEMMA SumsAgree ==
  ASSUME NEW S, IsFiniteSet(S), NEW T \in SUBSET S, NEW f, NEW g, NEW h,
         Sums(f, g, SUBSET S), Sums(f, h, SUBSET T)
  PROVE  \A U \in SUBSET T : g[U] = h[U]
<1> DEFINE Q == {U \in SUBSET T : g[U] # h[U]}
<1>1. SUFFICES ASSUME Q # {} PROVE FALSE
  OBVIOUS
<1>2. PICK U \in Q : \A x \in U : U \ {x} \notin Q
  <2>1. \A V \in Q : IsFiniteSet(V)
    BY FS_Subset
  <2> HIDE DEF Q
  <2> QED
    BY <1>1, <2>1, LeastSubset
<1>3. U \in SUBSET S /\ U \in SUBSET T /\ g[U] # h[U]
  BY <1>2
<1>4. g[U] = Plus(f, g, U) /\ h[U] = Plus(f, h, U)
  BY <1>3 DEF Sums
<1>5. U # {}
  BY <1>3, <1>4 DEF Plus
<1>6. Some(U) \in U
  BY <1>5, SomeIsMember
<1>7. g[U \ {Some(U)}] = h[U \ {Some(U)}]
  BY <1>2, <1>3, <1>6
<1> QED
  BY <1>3, <1>4, <1>7 DEF Plus

\* The recursion of the sum.
LEMMA TotalStep ==
  ASSUME NEW S, IsFiniteSet(S), NEW f, \A x \in S : f[x] \in Nat
  PROVE  /\ S = {} => Total(f, S) = 0
         /\ S # {} => Total(f, S) = f[Some(S)] + Total(f, S \ {Some(S)})
<1> DEFINE G(T) == CHOOSE g : Sums(f, g, SUBSET T)
<1>1. ASSUME NEW T \in SUBSET S PROVE Sums(f, G(T), SUBSET T)
  <2>1. IsFiniteSet(T) /\ \A x \in T : f[x] \in Nat
    BY FS_Subset
  <2>2. \E g : Sums(f, g, SUBSET T)
    BY <2>1, SumsExist
  <2> QED
    BY <2>2
<1>2. \A T \in SUBSET S : Total(f, T) = G(T)[T]
  BY TotalIsChosen
<1>3. ASSUME NEW T \in SUBSET S PROVE G(S)[T] = Total(f, T)
  <2> DEFINE g == G(S)
             h == G(T)
  <2>1. Sums(f, g, SUBSET S) /\ Sums(f, h, SUBSET T)
    BY <1>1
  <2>2. Total(f, T) = h[T]
    BY <1>2
  <2> HIDE DEF g, h
  <2>3. \A U \in SUBSET T : g[U] = h[U]
    BY <2>1, SumsAgree
  <2>4. g[T] = Total(f, T)
    BY <2>2, <2>3
  <2> QED
    BY <2>4 DEF g
<1>4. G(S)[S] = Plus(f, G(S), S)
  <2>1. Sums(f, G(S), SUBSET S)
    BY <1>1
  <2> HIDE DEF G
  <2> QED
    BY <2>1 DEF Sums
<1>5. Total(f, S) = G(S)[S] /\ Total(f, S \ {Some(S)}) = G(S)[S \ {Some(S)}]
  BY <1>3
<1> HIDE DEF G
<1> QED
  BY <1>4, <1>5 DEF Plus

LEMMA TotalEmpty == ASSUME NEW f PROVE Total(f, {}) = 0
BY TotalStep, FS_EmptySet

\* A sum of natural numbers is one.
LEMMA TotalIsNatural ==
  ASSUME NEW S, IsFiniteSet(S), NEW f, \A x \in S : f[x] \in Nat
  PROVE  Total(f, S) \in Nat
<1> DEFINE Q == {T \in SUBSET S : Total(f, T) \notin Nat}
<1>1. SUFFICES ASSUME Q # {} PROVE FALSE
  OBVIOUS
<1>2. PICK T \in Q : \A x \in T : T \ {x} \notin Q
  <2>1. \A V \in Q : IsFiniteSet(V)
    BY FS_Subset
  <2> HIDE DEF Q
  <2> QED
    BY <1>1, <2>1, LeastSubset
<1>3. T \in SUBSET S /\ Total(f, T) \notin Nat /\ IsFiniteSet(T) /\ \A x \in T : f[x] \in Nat
  BY FS_Subset
<1>4. T # {}
  BY <1>3, TotalEmpty
<1>5. Some(T) \in T
  BY <1>4, SomeIsMember
<1>6. Total(f, T \ {Some(T)}) \in Nat
  BY <1>2, <1>3, <1>5
<1>7. Total(f, T) = f[Some(T)] + Total(f, T \ {Some(T)})
  BY <1>3, <1>4, TotalStep
<1> QED
  BY <1>3, <1>5, <1>6, <1>7

\* Any element can be taken out first.
LEMMA TotalPeel ==
  ASSUME NEW S, IsFiniteSet(S), NEW f, \A x \in S : f[x] \in Nat, NEW x \in S
  PROVE  Total(f, S) = f[x] + Total(f, S \ {x})
<1> DEFINE Q == {T \in SUBSET S : \E y \in T : Total(f, T) # f[y] + Total(f, T \ {y})}
<1>1. SUFFICES ASSUME Q # {} PROVE FALSE
  OBVIOUS
<1>2. PICK T \in Q : \A y \in T : T \ {y} \notin Q
  <2>1. \A V \in Q : IsFiniteSet(V)
    BY FS_Subset
  <2> HIDE DEF Q
  <2> QED
    BY <1>1, <2>1, LeastSubset
<1>3. T \in SUBSET S
  OBVIOUS
<1>4. PICK y \in T : Total(f, T) # f[y] + Total(f, T \ {y})
  OBVIOUS
<1> DEFINE p == Some(T)
           R == T \ {p, y}
<1>5. p \in T
  BY <1>4, SomeIsMember
<1>6. \A U \in SUBSET S : IsFiniteSet(U) /\ (\A z \in U : f[z] \in Nat) /\ Total(f, U) \in Nat
  BY FS_Subset, TotalIsNatural
<1>7. Total(f, T) = f[p] + Total(f, T \ {p})
  BY <1>3, <1>5, <1>6, TotalStep
<1>8. p # y
  BY <1>4, <1>7
<1>9. Total(f, T \ {p}) = f[y] + Total(f, R)
  <2>1. T \ {p} \notin Q /\ y \in T \ {p} /\ (T \ {p}) \ {y} = R /\ T \ {p} \in SUBSET S
    BY <1>2, <1>3, <1>5, <1>8
  <2> QED
    BY <2>1
<1>10. Total(f, T \ {y}) = f[p] + Total(f, R)
  <2>1. T \ {y} \notin Q /\ p \in T \ {y} /\ (T \ {y}) \ {p} = R /\ T \ {y} \in SUBSET S
    BY <1>2, <1>3, <1>5, <1>8
  <2> QED
    BY <2>1
<1>11. f[p] \in Nat /\ f[y] \in Nat /\ Total(f, R) \in Nat
  BY <1>3, <1>5, <1>6
<1> HIDE DEF p, R, Q
<1> QED
  BY <1>4, <1>7, <1>9, <1>10, <1>11

\* Functions that agree on a set have the same sum over it.
LEMMA TotalSame ==
  ASSUME NEW S, IsFiniteSet(S), NEW f, NEW g, \A x \in S : f[x] \in Nat /\ g[x] = f[x]
  PROVE  Total(g, S) = Total(f, S)
<1> DEFINE Q == {T \in SUBSET S : Total(g, T) # Total(f, T)}
<1>1. SUFFICES ASSUME Q # {} PROVE FALSE
  OBVIOUS
<1>2. PICK T \in Q : \A y \in T : T \ {y} \notin Q
  <2>1. \A V \in Q : IsFiniteSet(V)
    BY FS_Subset
  <2> HIDE DEF Q
  <2> QED
    BY <1>1, <2>1, LeastSubset
<1>3. T \in SUBSET S /\ Total(g, T) # Total(f, T) /\ IsFiniteSet(T)
  BY FS_Subset
<1>4. \A x \in T : f[x] \in Nat /\ g[x] \in Nat /\ g[x] = f[x]
  BY <1>3
<1>5. T # {}
  <2>1. Total(f, {}) = 0 /\ Total(g, {}) = 0
    BY TotalEmpty
  <2> QED
    BY <1>3, <2>1
<1>6. PICK x \in T : TRUE
  BY <1>5
<1>7. Total(f, T) = f[x] + Total(f, T \ {x})
  BY <1>3, <1>4, TotalPeel
<1>8. Total(g, T) = g[x] + Total(g, T \ {x})
  BY <1>3, <1>4, TotalPeel
<1>9. Total(f, T \ {x}) = Total(g, T \ {x})
  BY <1>2, <1>3
<1> QED
  BY <1>3, <1>4, <1>7, <1>8, <1>9

\* The sum of the pointwise sums is the sum of the sums.
LEMMA TotalAdd ==
  ASSUME NEW S, IsFiniteSet(S), NEW f, NEW g, NEW h,
         \A x \in S : f[x] \in Nat /\ g[x] \in Nat /\ h[x] = f[x] + g[x]
  PROVE  Total(h, S) = Total(f, S) + Total(g, S)
<1> DEFINE Q == {T \in SUBSET S : Total(h, T) # Total(f, T) + Total(g, T)}
<1>1. SUFFICES ASSUME Q # {} PROVE FALSE
  OBVIOUS
<1>2. PICK T \in Q : \A y \in T : T \ {y} \notin Q
  <2>1. \A V \in Q : IsFiniteSet(V)
    BY FS_Subset
  <2> HIDE DEF Q
  <2> QED
    BY <1>1, <2>1, LeastSubset
<1>3. T \in SUBSET S /\ Total(h, T) # Total(f, T) + Total(g, T) /\ IsFiniteSet(T)
  BY FS_Subset
<1>4. \A x \in T : f[x] \in Nat /\ g[x] \in Nat /\ h[x] \in Nat /\ h[x] = f[x] + g[x]
  BY <1>3
<1>5. T # {}
  <2>1. Total(f, {}) = 0 /\ Total(g, {}) = 0 /\ Total(h, {}) = 0
    BY TotalEmpty
  <2>2. Total(h, {}) = Total(f, {}) + Total(g, {})
    BY <2>1
  <2> HIDE DEF Q
  <2> QED
    BY <1>3, <2>2
<1>6. PICK x \in T : TRUE
  BY <1>5
<1> DEFINE U == T \ {x}
<1>7. Total(f, T) = f[x] + Total(f, U) /\ Total(g, T) = g[x] + Total(g, U)
      /\ Total(h, T) = h[x] + Total(h, U)
  BY <1>3, <1>4, TotalPeel
<1>8. Total(h, U) = Total(f, U) + Total(g, U)
  BY <1>2, <1>3
<1>9. Total(f, U) \in Nat /\ Total(g, U) \in Nat
  <2>1. IsFiniteSet(U) /\ \A z \in U : f[z] \in Nat /\ g[z] \in Nat
    BY <1>3, <1>4, FS_Subset
  <2> QED
    BY <2>1, TotalIsNatural
<1>10. f[x] \in Nat /\ g[x] \in Nat /\ h[x] = f[x] + g[x]
  BY <1>4
<1> HIDE DEF U, Q
<1> QED
  BY <1>3, <1>7, <1>8, <1>9, <1>10

\* Elements that add nothing may be left out.
LEMMA TotalWithin ==
  ASSUME NEW S, IsFiniteSet(S), NEW A \in SUBSET S, NEW f,
         \A x \in S : f[x] \in Nat, \A x \in S \ A : f[x] = 0
  PROVE  Total(f, S) = Total(f, A)
<1> DEFINE Q == {T \in SUBSET S : A \subseteq T /\ Total(f, T) # Total(f, A)}
<1>1. SUFFICES ASSUME Q # {} PROVE FALSE
  OBVIOUS
<1>2. PICK T \in Q : \A y \in T : T \ {y} \notin Q
  <2>1. \A V \in Q : IsFiniteSet(V)
    BY FS_Subset
  <2> HIDE DEF Q
  <2> QED
    BY <1>1, <2>1, LeastSubset
<1>3. T \in SUBSET S /\ A \subseteq T /\ Total(f, T) # Total(f, A) /\ IsFiniteSet(T)
  BY FS_Subset
<1>4. PICK x \in T : x \notin A
  BY <1>3
<1>5. Total(f, T) = f[x] + Total(f, T \ {x})
  BY <1>3, TotalPeel
<1>6. Total(f, T \ {x}) = Total(f, A)
  BY <1>2, <1>3, <1>4
<1>7. f[x] = 0 /\ Total(f, A) \in Nat
  <2>1. IsFiniteSet(A) /\ \A z \in A : f[z] \in Nat
    BY FS_Subset
  <2> QED
    BY <1>3, <1>4, <2>1, TotalIsNatural
<1> QED
  BY <1>3, <1>5, <1>6, <1>7

\* Every summand is at most the sum.
LEMMA TotalBounds ==
  ASSUME NEW S, IsFiniteSet(S), NEW f, \A x \in S : f[x] \in Nat, NEW x \in S
  PROVE  f[x] <= Total(f, S)
<1>1. Total(f, S) = f[x] + Total(f, S \ {x})
  BY TotalPeel
<1>2. IsFiniteSet(S \ {x})
  BY FS_Subset
<1>3. Total(f, S \ {x}) \in Nat
  BY <1>2, TotalIsNatural
<1> QED
  BY <1>1, <1>3

-----------------------------------------------------------------------------
(* Lines.                                                                  *)

\* g[i] is what is kept of the first i members of l.
Keeps(l, S, g, n) ==
    g = [i \in 0 .. n |-> IF i = 0 THEN <<>>
                          ELSE IF l[i] \in S THEN Append(g[i - 1], l[i]) ELSE g[i - 1]]

LEMMA KeepsExist ==
  ASSUME NEW l, NEW S, NEW n \in Nat
  PROVE  \E g : Keeps(l, S, g, n)
<1> DEFINE Bad == {m \in Nat : ~ \E g : Keeps(l, S, g, m)}
<1>1. SUFFICES ASSUME Bad # {} PROVE FALSE
  OBVIOUS
<1>2. PICK m \in Bad : \A k \in Bad : m <= k
  <2>1. Bad \subseteq Nat
    OBVIOUS
  <2> HIDE DEF Bad
  <2> QED
    BY <1>1, <2>1, LeastNatural
<1>3. m # 0
  <2> DEFINE g == [i \in 0 .. 0 |-> <<>>]
  <2>1. Keeps(l, S, g, 0)
    BY DEF Keeps
  <2>2. 0 \notin Bad
    BY <2>1
  <2> QED
    BY <2>2
<1>4. m \in Nat /\ m - 1 \in Nat /\ m - 1 \notin Bad
  <2>1. m \in Nat /\ m - 1 \in Nat /\ ~ (m <= m - 1)
    BY <1>3
  <2> HIDE DEF Bad
  <2> QED
    BY <2>1, <1>2
<1>5. PICK g : Keeps(l, S, g, m - 1)
  BY <1>4
<1> DEFINE h == [i \in 0 .. m |-> IF i = 0 THEN <<>>
                    ELSE IF l[i] \in S THEN Append(g[i - 1], l[i]) ELSE g[i - 1]]
<1>6. ASSUME NEW i \in 0 .. m - 1 PROVE h[i] = g[i]
  <2>1. i \in 0 .. m
    BY <1>4
  <2>2. g[i] = IF i = 0 THEN <<>> ELSE IF l[i] \in S THEN Append(g[i - 1], l[i]) ELSE g[i - 1]
    BY <1>5 DEF Keeps
  <2> QED
    BY <2>1, <2>2
<1>7. ASSUME NEW i \in 0 .. m, i # 0 PROVE h[i - 1] = g[i - 1]
  <2>1. i - 1 \in 0 .. m - 1
    BY <1>4, <1>7
  <2> HIDE DEF h
  <2> QED
    BY <2>1, <1>6
<1>8. Keeps(l, S, h, m)
  <2> DEFINE k == [i \in 0 .. m |-> IF i = 0 THEN <<>>
                    ELSE IF l[i] \in S THEN Append(h[i - 1], l[i]) ELSE h[i - 1]]
  <2>1. ASSUME NEW i \in 0 .. m PROVE k[i] = h[i]
    <3>1. CASE i = 0
      BY <3>1
    <3>2. CASE i # 0
      <4>1. h[i - 1] = g[i - 1]
        BY <1>7, <3>2
      <4>2. h[i] = IF l[i] \in S THEN Append(g[i - 1], l[i]) ELSE g[i - 1]
        BY <3>2
      <4>3. k[i] = IF l[i] \in S THEN Append(h[i - 1], l[i]) ELSE h[i - 1]
        BY <3>2
      <4> HIDE DEF h, k
      <4> QED
        BY <4>1, <4>2, <4>3
    <3> QED
      BY <3>1, <3>2
  <2>2. k = h
    <3>1. DOMAIN k = DOMAIN h /\ k = [i \in DOMAIN k |-> k[i]] /\ h = [i \in DOMAIN h |-> h[i]]
      OBVIOUS
    <3>2. DOMAIN k = 0 .. m
      OBVIOUS
    <3> HIDE DEF k, h
    <3> QED
      BY <3>1, <3>2, <2>1
  <2>3. h = k
    BY <2>2
  <2> HIDE DEF h
  <2> QED
    BY <2>3 DEF Keeps
<1> QED
  BY <1>2, <1>8

\* What g[i] is: a sequence no longer than what it is taken from; every member
\* that is in S is kept, not behind its place, and nothing else is there.
KeptOf(g, l, S, R, i) ==
    /\ g \in Seq(R) /\ Len(g) <= i
    /\ \A k \in 1 .. i : l[k] \in S => \E j \in 1 .. Len(g) : j <= k /\ g[j] = l[k]
    /\ \A j \in 1 .. Len(g) : g[j] \in S /\ \E k \in 1 .. i : l[k] = g[j]

LEMMA KeptStep ==
  ASSUME NEW R, NEW l \in Seq(R), NEW S, NEW i \in 1 .. Len(l), NEW g, KeptOf(g, l, S, R, i - 1),
         NEW h, h = IF l[i] \in S THEN Append(g, l[i]) ELSE g
  PROVE  KeptOf(h, l, S, R, i)
<1>1. i \in Nat /\ i - 1 \in Nat /\ l[i] \in R
  OBVIOUS
<1>2. g \in Seq(R) /\ Len(g) <= i - 1 /\ Len(g) \in Nat
  BY DEF KeptOf
<1>3. \A k \in 1 .. i - 1 : l[k] \in S => \E j \in 1 .. Len(g) : j <= k /\ g[j] = l[k]
  BY DEF KeptOf
<1>4. \A j \in 1 .. Len(g) : g[j] \in S /\ \E k \in 1 .. i - 1 : l[k] = g[j]
  BY DEF KeptOf
<1>5. \A k \in 1 .. i : k = i \/ k \in 1 .. i - 1
  BY <1>1
<1>6. \A k \in 1 .. i - 1 : k \in 1 .. i
  BY <1>1
<1>7. CASE l[i] \notin S
  <2>1. h = g /\ Len(g) <= i
    BY <1>1, <1>2, <1>7
  <2>2. \A k \in 1 .. i : l[k] \in S => k \in 1 .. i - 1
    BY <1>5, <1>7
  <2>3. \A k \in 1 .. i : l[k] \in S => \E j \in 1 .. Len(h) : j <= k /\ h[j] = l[k]
    BY <2>1, <2>2, <1>3
  <2>4. \A j \in 1 .. Len(h) : h[j] \in S /\ \E k \in 1 .. i : l[k] = h[j]
    BY <2>1, <1>4, <1>6
  <2> QED
    BY <2>1, <2>3, <2>4, <1>2 DEF KeptOf
<1>8. CASE l[i] \in S
  <2>1. h = Append(g, l[i]) /\ h \in Seq(R) /\ Len(h) = Len(g) + 1
    BY <1>1, <1>2, <1>8
  <2>2. (\A j \in 1 .. Len(g) : h[j] = g[j]) /\ h[Len(g) + 1] = l[i]
    BY <1>2, <2>1
  <2>3. \A j \in 1 .. Len(h) : j = Len(g) + 1 \/ j \in 1 .. Len(g)
    BY <1>2, <2>1
  <2>4. Len(g) + 1 \in 1 .. Len(h) /\ \A j \in 1 .. Len(g) : j \in 1 .. Len(h)
    BY <1>2, <2>1
  <2>5. ASSUME NEW k \in 1 .. i, l[k] \in S
        PROVE  \E j \in 1 .. Len(h) : j <= k /\ h[j] = l[k]
    <3>1. CASE k = i
      <4>1. Len(g) + 1 <= k
        BY <1>1, <1>2, <3>1
      <4> QED
        BY <2>2, <2>4, <3>1, <4>1
    <3>2. CASE k \in 1 .. i - 1
      <4>1. PICK j \in 1 .. Len(g) : j <= k /\ g[j] = l[k]
        BY <1>3, <2>5, <3>2
      <4> QED
        BY <2>2, <2>4, <4>1
    <3> QED
      BY <1>5, <3>1, <3>2
  <2>6. ASSUME NEW j \in 1 .. Len(h)
        PROVE  h[j] \in S /\ \E k \in 1 .. i : l[k] = h[j]
    <3>1. CASE j = Len(g) + 1
      <4>1. h[j] = l[i]
        BY <2>2, <3>1
      <4> QED
        BY <1>1, <1>8, <4>1
    <3>2. CASE j \in 1 .. Len(g)
      BY <1>4, <1>6, <2>2, <3>2
    <3> QED
      BY <2>3, <3>1, <3>2
  <2>7. Len(h) <= i
    BY <1>1, <1>2, <2>1
  <2> QED
    BY <2>1, <2>5, <2>6, <2>7 DEF KeptOf
<1> QED
  BY <1>7, <1>8

LEMMA KeptFacts ==
  ASSUME NEW R, NEW l \in Seq(R), NEW S
  PROVE  KeptOf(Kept(l, S), l, S, R, Len(l))
<1> DEFINE g == CHOOSE k : Keeps(l, S, k, Len(l))
           Bad == {i \in 0 .. Len(l) : ~ KeptOf(g[i], l, S, R, i)}
<1>1. Len(l) \in Nat /\ Kept(l, S) = g[Len(l)]
  BY DEF Kept, Keeps
<1>2. Keeps(l, S, g, Len(l))
  BY <1>1, KeepsExist
<1> HIDE DEF g
<1>3. SUFFICES ASSUME Bad # {} PROVE FALSE
  BY <1>1
<1>4. PICK i \in Bad : \A k \in Bad : i <= k
  <2>1. Bad \subseteq Nat
    BY <1>1
  <2> HIDE DEF Bad
  <2> QED
    BY <1>3, <2>1, LeastNatural
<1>5. i \in 0 .. Len(l) /\ ~ KeptOf(g[i], l, S, R, i)
  BY <1>4
<1>6. g[i] = IF i = 0 THEN <<>> ELSE IF l[i] \in S THEN Append(g[i - 1], l[i]) ELSE g[i - 1]
  BY <1>2, <1>5 DEF Keeps
<1>7. i # 0
  BY <1>5, <1>6 DEF KeptOf
<1>8. i - 1 \in 0 .. Len(l) /\ ~ (i <= i - 1) /\ i \in 1 .. Len(l)
  BY <1>1, <1>5, <1>7
<1>9. KeptOf(g[i - 1], l, S, R, i - 1)
  BY <1>4, <1>8
<1>10. g[i] = IF l[i] \in S THEN Append(g[i - 1], l[i]) ELSE g[i - 1]
  BY <1>6, <1>7
<1> HIDE DEF Bad
<1> QED
  BY <1>5, <1>8, <1>9, <1>10, KeptStep

-----------------------------------------------------------------------------
(* Robots.                                                                 *)

LEMMA LeastOfTwo ==
  ASSUME NEW a \in Int, NEW b \in Int
  PROVE  Least({a, b}) \in {a, b} /\ Least({a, b}) <= a /\ Least({a, b}) <= b
<1>1. \E x \in {a, b} : \A y \in {a, b} : x <= y
  BY SMT
<1>2. Least({a, b}) \in {a, b} /\ \A y \in {a, b} : Least({a, b}) <= y
  BY <1>1 DEF Least
<1> QED
  BY <1>2

LEMMA LeastOfThree ==
  ASSUME NEW a \in Int, NEW b \in Int, NEW c \in Int
  PROVE  /\ Least({a, b, c}) \in {a, b, c}
         /\ Least({a, b, c}) <= a /\ Least({a, b, c}) <= b /\ Least({a, b, c}) <= c
<1>1. \E x \in {a, b, c} : \A y \in {a, b, c} : x <= y
  BY SMT
<1>2. Least({a, b, c}) \in {a, b, c} /\ \A y \in {a, b, c} : Least({a, b, c}) <= y
  BY <1>1 DEF Least
<1> QED
  BY <1>2

\* The tasks in which a robot is in the line of its goal, and those in which
\* it has a slot there.
Holding == {"dock", "unload", "blocked", "connect", "charging"}
Queueing == Holding \cup {"queued"}
Tasks == {"none", "travel", "collect"} \cup Queueing
Resting == RobotActivity \ (ActiveActivities \cup {"emergency_stopped"})

Robot ==
    [activity : RobotActivity, health : RobotHealth, battery : 0 .. Capacity,
     payload : 0 .. PayloadCapacity, zone : Zones \cup {None}, at : Places \cup {"transit"},
     latched : BOOLEAN, awaiting : BOOLEAN, task : Tasks, goal : Places \cup {None},
     lot : Nat, leg : Nat, attempts : Nat]

\* Where the process of a robot waits determines what it shows and where it is
\* bound; the lot of a collection still fits into the basket.
Sound(rb) ==
    /\ rb.latched <=> rb.activity = "emergency_stopped"
    /\ rb.zone # None => rb.task \in {"travel", "collect"} /\ rb.goal = rb.zone
    /\ rb.task = "none" => rb.activity \notin ActiveActivities
    /\ rb.task = "travel" => rb.activity = "traveling" /\ rb.goal \in Places
    /\ rb.task = "collect" => /\ rb.activity = "collecting" /\ rb.goal \in Zones
                              /\ rb.lot + rb.payload <= PayloadCapacity
    /\ rb.task = "queued" => \/ rb.activity = "queued_handoff" /\ rb.goal \in Stations
                             \/ rb.activity = "queued_charger" /\ rb.goal = "charger"
    /\ rb.task \in {"dock", "unload", "blocked"} =>
         rb.activity = "unloading" /\ rb.goal \in Stations
    /\ rb.task \in {"connect", "charging"} => rb.activity = "charging" /\ rb.goal = "charger"

SoundRobot == {rb \in Robot : Sound(rb)}

\* The robot stays in the line it is in, or out of all of them.
Stays(new, old) ==
    /\ new.task \in Queueing <=> old.task \in Queueing
    /\ new.task \in Queueing => new.goal = old.goal
    /\ new.task \in Holding => old.task \in Holding

\* What a step of a robot's own may make of it.
Succeeds(new, old) ==
    /\ new \in SoundRobot
    /\ new.zone \in {old.zone, None}
    /\ new.awaiting = old.awaiting
    /\ new.task = "none" \/ Stays(new, old)

LEMMA DrainedFacts ==
  ASSUME NEW rb \in Robot, NEW energy \in Nat
  PROVE  \E b \in 0 .. Capacity : b <= rb.battery /\ Drained(rb, energy) = [rb EXCEPT !.battery = b]
<1> DEFINE n == Least({energy, rb.battery})
           b == rb.battery - n
<1>1. rb.battery \in 0 .. Capacity /\ rb.battery \in Int /\ energy \in Int
  BY ScenarioAssumption DEF Robot
<1>2. n \in {energy, rb.battery} /\ n <= rb.battery
  BY <1>1, LeastOfTwo
<1>3. n \in Int /\ 0 <= n
  BY <1>1, <1>2
<1>4. b \in 0 .. Capacity /\ b <= rb.battery
  <2> HIDE DEF n
  <2> QED
    BY <1>1, <1>2, <1>3, ScenarioAssumption
<1>5. Drained(rb, energy) = [rb EXCEPT !.battery = b]
  BY DEF Drained
<1> QED
  BY <1>4, <1>5

\* The battery alone does not matter to anything but the floor.
LEMMA BatteryOnly ==
  ASSUME NEW rb \in Robot, NEW b \in 0 .. Capacity
  PROVE  LET new == [rb EXCEPT !.battery = b] IN
         /\ new \in Robot
         /\ Sound(rb) => Sound(new)
         /\ new.battery = b /\ new.activity = rb.activity /\ new.health = rb.health
         /\ new.payload = rb.payload /\ new.zone = rb.zone /\ new.at = rb.at
         /\ new.latched = rb.latched /\ new.awaiting = rb.awaiting /\ new.task = rb.task
         /\ new.goal = rb.goal /\ new.lot = rb.lot /\ new.leg = rb.leg
         /\ new.attempts = rb.attempts
<1> DEFINE new == [rb EXCEPT !.battery = b]
<1>1. /\ new \in Robot
      /\ new.battery = b /\ new.activity = rb.activity /\ new.health = rb.health
      /\ new.payload = rb.payload /\ new.zone = rb.zone /\ new.at = rb.at
      /\ new.latched = rb.latched /\ new.awaiting = rb.awaiting /\ new.task = rb.task
      /\ new.goal = rb.goal /\ new.lot = rb.lot /\ new.leg = rb.leg
      /\ new.attempts = rb.attempts
  BY DEF Robot
<1>2. Sound(rb) => Sound(new)
  <2> HIDE DEF new
  <2> QED
    BY <1>1 DEF Sound
<1> QED
  BY <1>1, <1>2

\* A robot without its process.
Idle(rb, b) ==
    [rb EXCEPT !.battery = b, !.task = "none", !.goal = None, !.lot = 0, !.leg = 0, !.attempts = 0]

LEMMA ChargeFacts ==
  ASSUME NEW c \in Nat, NEW amount \in Nat
  PROVE  Least({ChargeTarget, c + amount}) \in 0 .. Capacity
<1>1. ChargeTarget \in Int /\ c + amount \in Int /\ 0 <= c + amount
  BY ScenarioAssumption
<1>2. Least({ChargeTarget, c + amount}) \in {ChargeTarget, c + amount}
      /\ Least({ChargeTarget, c + amount}) <= ChargeTarget
  BY <1>1, LeastOfTwo
<1>3. ChargeTarget \in Nat /\ Capacity \in Nat /\ ChargeTarget <= Capacity
  BY ScenarioAssumption
<1> QED
  BY <1>1, <1>2, <1>3

LEMMA SettledFacts ==
  ASSUME NEW rb \in Robot, NEW amount \in Nat
  PROVE  \E b \in 0 .. Capacity : Settled(rb, amount) = Idle(rb, b)
<1>1. rb.battery \in Nat /\ rb.battery \in 0 .. Capacity /\ rb.leg \in Nat
  BY ScenarioAssumption DEF Robot
<1>2. CASE rb.task = "travel"
  <2> DEFINE e == Least({amount, rb.leg})
  <2>1. e \in Nat
    <3>1. amount \in Int /\ rb.leg \in Int
      BY <1>1
    <3>2. e \in {amount, rb.leg}
      BY <3>1, LeastOfTwo
    <3> HIDE DEF e
    <3> QED
      BY <1>1, <3>2
  <2>2. PICK b \in 0 .. Capacity : Drained(rb, e) = [rb EXCEPT !.battery = b]
    <3> HIDE DEF e
    <3> QED
      BY <2>1, DrainedFacts
  <2>3. Drained(rb, e).task = "travel"
    <3> HIDE DEF e
    <3> QED
      BY <1>2, <2>2 DEF Robot
  <2>4. Settled(rb, amount) =
          [Drained(rb, e) EXCEPT !.task = "none", !.goal = None, !.lot = 0, !.leg = 0, !.attempts = 0]
    <3>1. Drained(rb, e).task # "charging"
      BY <2>3
    <3> QED
      BY <1>2, <3>1 DEF Settled
  <2>5. Settled(rb, amount) = Idle(rb, b)
    <3> HIDE DEF e
    <3> QED
      BY <2>2, <2>4 DEF Idle, Robot
  <2> QED
    BY <2>5
<1>3. CASE rb.task = "charging"
  <2> DEFINE b == Least({ChargeTarget, rb.battery + amount})
  <2>1. b \in 0 .. Capacity
    BY <1>1, ChargeFacts
  <2>2. Settled(rb, amount) =
          [[rb EXCEPT !.battery = b] EXCEPT !.task = "none", !.goal = None, !.lot = 0, !.leg = 0, !.attempts = 0]
    BY <1>3 DEF Settled
  <2>3. Settled(rb, amount) = Idle(rb, b)
    <3> HIDE DEF b
    <3> QED
      BY <2>1, <2>2 DEF Idle, Robot
  <2> QED
    BY <2>1, <2>3
<1>4. CASE rb.task \notin {"travel", "charging"}
  <2>1. Settled(rb, amount) =
          [rb EXCEPT !.task = "none", !.goal = None, !.lot = 0, !.leg = 0, !.attempts = 0]
    BY <1>4 DEF Settled
  <2>2. Settled(rb, amount) = Idle(rb, rb.battery)
    BY <2>1 DEF Idle, Robot
  <2> QED
    BY <1>1, <2>2
<1> QED
  BY <1>2, <1>3, <1>4

\* A robot whose process has ended.
Rests(new, rb) ==
    /\ new \in SoundRobot
    /\ new.task = "none" /\ new.zone = None
    /\ new.payload = rb.payload /\ new.awaiting = rb.awaiting

LEMMA IdleFacts ==
  ASSUME NEW rb \in Robot, NEW b \in 0 .. Capacity
  PROVE  LET new == Idle(rb, b) IN
         /\ new \in Robot /\ new.task = "none" /\ new.payload = rb.payload
         /\ new.zone = rb.zone /\ new.awaiting = rb.awaiting /\ new.latched = rb.latched
         /\ new.activity = rb.activity /\ new.battery = b
BY ScenarioAssumption DEF Idle, Robot, Tasks

LEMMA ReleasedFields ==
  ASSUME NEW rb \in Robot, NEW a \in RobotActivity
  PROVE  LET new == Released(rb, a) IN
         /\ new \in Robot /\ new.task = "none" /\ new.payload = rb.payload /\ new.zone = None
         /\ new.awaiting = rb.awaiting /\ new.latched = rb.latched /\ new.activity = a
<1>1. PICK b \in 0 .. Capacity : Settled(rb, 0) = Idle(rb, b)
  BY SettledFacts
<1> DEFINE idle == Idle(rb, b)
           new == [idle EXCEPT !.activity = a, !.zone = None]
<1>2. Released(rb, a) = new
  BY <1>1 DEF Released
<1>3. /\ idle \in Robot /\ idle.task = "none" /\ idle.payload = rb.payload
      /\ idle.awaiting = rb.awaiting /\ idle.latched = rb.latched
  BY IdleFacts
<1> HIDE DEF idle
<1>4. /\ new \in Robot /\ new.task = "none" /\ new.payload = rb.payload /\ new.zone = None
      /\ new.awaiting = rb.awaiting /\ new.latched = rb.latched /\ new.activity = a
  BY <1>3 DEF Robot
<1> QED
  BY <1>2, <1>4

LEMMA ReleasedFacts ==
  ASSUME NEW rb \in Robot, NEW a \in RobotActivity \ ActiveActivities,
         rb.latched <=> a = "emergency_stopped"
  PROVE  Rests(Released(rb, a), rb) /\ Released(rb, a).activity = a
<1> DEFINE new == Released(rb, a)
<1>1. /\ new \in Robot /\ new.task = "none" /\ new.payload = rb.payload /\ new.zone = None
      /\ new.awaiting = rb.awaiting /\ new.latched = rb.latched /\ new.activity = a
  BY ReleasedFields
<1> HIDE DEF new
<1>2. Sound(new)
  BY <1>1 DEF Sound
<1>3. Rests(new, rb) /\ new.activity = a
  BY <1>1, <1>2 DEF Rests, SoundRobot
<1> QED
  BY <1>3 DEF new

LEMMA FailingFacts ==
  ASSUME NEW rb \in Robot, ~ rb.latched
  PROVE  Rests(Failing(rb), rb) /\ Failing(rb).activity = "failed"
<1> DEFINE free == Released(rb, "failed")
           new == [free EXCEPT !.health = "failed"]
<1>1. "failed" \in RobotActivity \ ActiveActivities /\ "failed" \in RobotHealth
  BY DEF RobotActivity, ActiveActivities, RobotHealth
<1>2. /\ free \in Robot /\ free.task = "none" /\ free.payload = rb.payload /\ free.zone = None
      /\ free.awaiting = rb.awaiting /\ free.latched = rb.latched /\ free.activity = "failed"
  BY <1>1, ReleasedFields
<1> HIDE DEF free
<1>3. /\ new \in Robot /\ new.task = "none" /\ new.payload = rb.payload /\ new.zone = None
      /\ new.awaiting = rb.awaiting /\ new.latched = rb.latched /\ new.activity = "failed"
  BY <1>1, <1>2 DEF Robot
<1> HIDE DEF new
<1>4. Sound(new)
  BY <1>1, <1>3 DEF Sound
<1>5. Rests(new, rb)
  BY <1>3, <1>4 DEF Rests, SoundRobot
<1>6. Failing(rb) = new
  BY DEF Failing, new, free
<1> QED
  BY <1>3, <1>5, <1>6

LEMMA LatchingFacts ==
  ASSUME NEW rb \in Robot
  PROVE  Rests(Latching(rb), rb)
<1> DEFINE free == Released(rb, "emergency_stopped")
           new == [free EXCEPT !.latched = TRUE]
<1>1. "emergency_stopped" \in RobotActivity \ ActiveActivities
  BY DEF RobotActivity, ActiveActivities
<1>2. /\ free \in Robot /\ free.task = "none" /\ free.payload = rb.payload /\ free.zone = None
      /\ free.awaiting = rb.awaiting /\ free.activity = "emergency_stopped"
  BY <1>1, ReleasedFields
<1> HIDE DEF free
<1>3. /\ new \in Robot /\ new.task = "none" /\ new.payload = rb.payload /\ new.zone = None
      /\ new.awaiting = rb.awaiting /\ new.latched = TRUE /\ new.activity = "emergency_stopped"
  BY <1>1, <1>2 DEF Robot
<1> HIDE DEF new
<1>4. Sound(new)
  BY <1>1, <1>3 DEF Sound
<1>5. Rests(new, rb)
  BY <1>3, <1>4 DEF Rests, SoundRobot
<1>6. Latching(rb) = new
  BY DEF Latching, new, free
<1> QED
  BY <1>5, <1>6

LEMMA FloorCheckedFacts ==
  ASSUME NEW rb \in SoundRobot
  PROVE  \/ FloorChecked(rb) = rb
         \/ Rests(FloorChecked(rb), rb) /\ FloorChecked(rb).activity = "failed"
<1>1. rb \in Robot /\ Sound(rb)
  BY DEF SoundRobot
<1>2. CASE Depleted(rb)
  <2>1. ~ rb.latched
    BY <1>1, <1>2 DEF Depleted, Inoperative, Sound
  <2> QED
    BY <1>1, <1>2, <2>1, FailingFacts DEF FloorChecked
<1>3. CASE ~ Depleted(rb)
  BY <1>3 DEF FloorChecked
<1> QED
  BY <1>2, <1>3

\* A robot that goes on with what it is doing, in one of the tasks of T.
Works(new, rb, T) ==
    /\ new \in SoundRobot
    /\ new.task \in T
    /\ new.goal = rb.goal /\ new.zone = rb.zone
    /\ new.payload = rb.payload /\ new.awaiting = rb.awaiting

LEMMA ArrivedFacts ==
  ASSUME NEW rb \in SoundRobot, rb.task = "travel"
  PROVE  \/ Rests(Arrived(rb), rb) /\ Arrived(rb).activity = "failed"
         \/ Works(Arrived(rb), rb, {"travel"}) /\ Arrived(rb).activity = "traveling"
<1>1. rb \in Robot /\ Sound(rb) /\ rb.leg \in Nat
  BY DEF SoundRobot, Robot
<1>2. rb.activity = "traveling" /\ rb.goal \in Places
  BY <1>1 DEF Sound
<1>3. PICK b \in 0 .. Capacity : Drained(rb, rb.leg) = [rb EXCEPT !.battery = b]
  BY <1>1, DrainedFacts
<1> DEFINE new == [[rb EXCEPT !.battery = b] EXCEPT !.at = rb.goal, !.leg = 0]
<1>4. /\ new \in Robot /\ new.task = "travel" /\ new.payload = rb.payload /\ new.zone = rb.zone
      /\ new.awaiting = rb.awaiting /\ new.latched = rb.latched /\ new.activity = "traveling"
      /\ new.goal = rb.goal
  BY <1>1, <1>2 DEF Robot
<1>5. Arrived(rb) = FloorChecked(new)
  BY <1>3 DEF Arrived
<1> HIDE DEF new
<1>6. new \in SoundRobot
  BY <1>1, <1>4 DEF Sound, SoundRobot
<1>7. Works(new, rb, {"travel"})
  BY <1>4, <1>6 DEF Works
<1>8. CASE FloorChecked(new) = new
  BY <1>4, <1>5, <1>7, <1>8
<1>9. CASE Rests(FloorChecked(new), new) /\ FloorChecked(new).activity = "failed"
  BY <1>4, <1>5, <1>9 DEF Rests
<1> QED
  BY <1>6, <1>8, <1>9, FloorCheckedFacts

\* What remains to be collected of a zone, by a robot that is there.
LEMMA NextCycleFacts ==
  ASSUME NEW rb \in Robot, ~ rb.latched, rb.goal \in Zones,
         rb.zone # None => rb.goal = rb.zone, NEW b, b[rb.goal] \in Nat
  PROVE  \/ Rests(NextCycle(rb, b), rb)
         \/ Works(NextCycle(rb, b), rb, {"collect"}) /\ open[rb.goal]
<1> DEFINE more == open[rb.goal] /\ b[rb.goal] > 0 /\ rb.payload < PayloadCapacity /\ rb.battery > HardFloor
           lot == Least({CollectCycle, b[rb.goal], PayloadCapacity - rb.payload})
<1>1. CASE ~ more
  <2>1. NextCycle(rb, b) = Released(rb, "idle")
    BY <1>1 DEF NextCycle
  <2>2. "idle" \in RobotActivity \ ActiveActivities
    BY DEF RobotActivity, ActiveActivities
  <2> QED
    BY <2>1, <2>2, ReleasedFacts
<1>2. CASE more
  <2>1. /\ rb.payload \in Nat /\ rb.payload <= PayloadCapacity /\ PayloadCapacity \in Nat
        /\ CollectCycle \in Nat
    BY ScenarioAssumption DEF Robot
  <2>2. CollectCycle \in Int /\ b[rb.goal] \in Int /\ PayloadCapacity - rb.payload \in Int
    BY <2>1
  <2>3. lot \in {CollectCycle, b[rb.goal], PayloadCapacity - rb.payload}
        /\ lot <= PayloadCapacity - rb.payload
    BY <2>2, LeastOfThree
  <2>4. lot \in Nat /\ lot + rb.payload <= PayloadCapacity
    <3> HIDE DEF lot
    <3> QED
      BY <2>1, <2>3
  <2> DEFINE new == [rb EXCEPT !.activity = "collecting", !.task = "collect", !.lot = lot]
  <2>5. NextCycle(rb, b) = new
    BY <1>2 DEF NextCycle
  <2>6. /\ new \in Robot /\ new.task = "collect" /\ new.payload = rb.payload /\ new.zone = rb.zone
        /\ new.awaiting = rb.awaiting /\ new.latched = rb.latched /\ new.activity = "collecting"
        /\ new.goal = rb.goal /\ new.lot = lot
    <3> HIDE DEF lot
    <3> QED
      BY <2>4 DEF Robot, RobotActivity, Tasks
  <2> HIDE DEF new, lot
  <2>7. new \in SoundRobot
    BY <2>4, <2>6 DEF Sound, SoundRobot
  <2> QED
    BY <1>2, <2>5, <2>6, <2>7 DEF Works
<1> QED
  BY <1>1, <1>2

\* What a robot at the dock does next.
LEMMA NextLotFacts ==
  ASSUME NEW rb \in Robot, ~ rb.latched, rb.goal \in Stations, rb.zone = None,
         rb.activity = "unloading", NEW b, b[rb.goal] \in Nat
  PROVE  \/ Rests(NextLot(rb, b), rb)
         \/ Works(NextLot(rb, b), rb, {"unload", "blocked"})
<1> DEFINE room == Free(rb.goal, b)
           lot == Least({rb.payload, room})
<1>1. /\ rb.payload \in Nat /\ rb.payload \in Int /\ room \in Int
  BY ScenarioAssumption DEF Robot, Free
<1>2. CASE rb.payload = 0
  <2> DEFINE free == Released(rb, "idle")
  <2>1. "idle" \in RobotActivity \ ActiveActivities
    BY DEF RobotActivity, ActiveActivities
  <2>2. Rests(free, rb)
    BY <2>1, ReleasedFacts
  <2>3. NextLot(rb, b) = FloorChecked(free)
    BY <1>2 DEF NextLot
  <2> HIDE DEF free
  <2>4. free \in SoundRobot
    BY <2>2 DEF Rests
  <2>5. FloorChecked(free) = free \/ Rests(FloorChecked(free), free)
    BY <2>4, FloorCheckedFacts
  <2> QED
    BY <2>2, <2>3, <2>5 DEF Rests
<1>3. CASE rb.payload # 0 /\ room <= 0
  <2> DEFINE new == [rb EXCEPT !.task = "blocked", !.lot = 0]
  <2>1. NextLot(rb, b) = new
    BY <1>3 DEF NextLot
  <2>2. /\ new \in Robot /\ new.task = "blocked" /\ new.payload = rb.payload /\ new.zone = rb.zone
        /\ new.awaiting = rb.awaiting /\ new.latched = rb.latched /\ new.activity = "unloading"
        /\ new.goal = rb.goal
    BY DEF Robot, Tasks, Queueing, Holding
  <2> HIDE DEF new
  <2>3. new \in SoundRobot
    BY <2>2 DEF Sound, SoundRobot
  <2> QED
    BY <2>1, <2>2, <2>3 DEF Works
<1>4. CASE rb.payload # 0 /\ ~ (room <= 0)
  <2>1. lot \in {rb.payload, room}
    <3> HIDE DEF room
    <3> QED
      BY <1>1, LeastOfTwo
  <2>2. lot \in Nat
    <3> HIDE DEF room, lot
    <3> QED
      BY <1>1, <1>4, <2>1
  <2> DEFINE new == [rb EXCEPT !.task = "unload", !.lot = lot]
  <2>3. NextLot(rb, b) = new
    BY <1>4 DEF NextLot
  <2> HIDE DEF lot
  <2>4. /\ new \in Robot /\ new.task = "unload" /\ new.payload = rb.payload /\ new.zone = rb.zone
        /\ new.awaiting = rb.awaiting /\ new.latched = rb.latched /\ new.activity = "unloading"
        /\ new.goal = rb.goal
    BY <2>2 DEF Robot, Tasks, Queueing, Holding
  <2> HIDE DEF new
  <2>5. new \in SoundRobot
    BY <2>4 DEF Sound, SoundRobot
  <2> QED
    BY <2>3, <2>4, <2>5 DEF Works
<1> QED
  BY <1>2, <1>3, <1>4

-----------------------------------------------------------------------------
(* What robots, lines, zones and requests for help have to do with each    *)
(* other, as predicates of their values.                                   *)

Docks == Stations \cup {"charger"}
In(l, r) == \E i \in DOMAIN l : l[i] = r
AmongFirst(l, r, n) == \E i \in DOMAIN l : l[i] = r /\ i <= n

KeptLines(l, S) == [p \in DOMAIN l |-> Kept(l[p], S)]

LinesFit(q, l) ==
    /\ l \in [Docks -> Seq(Robots)]
    /\ \A r \in Robots, p \in Docks : In(l[p], r) <=> q[r].goal = p /\ q[r].task \in Queueing
    /\ \A r \in Robots : q[r].task \in Holding => AmongFirst(l[q[r].goal], r, Slots(q[r].goal))
    /\ \A s \in Stations : Len(l[s]) <= DockSlots + MaxQueueLength

ZonesFit(q, o) == \A r \in Robots : q[r].zone # None => o[q[r].zone]
HelpFit(q, h) == h \in Seq(Robots) /\ \A r \in Robots : q[r].awaiting = In(h, r)
Capped(q) == \A z \in Zones : Cardinality({r \in Robots : q[r].zone = z}) <= MaxRobotsPerZone

Fits(q, o, l, h) ==
    /\ q \in [Robots -> SoundRobot]
    /\ ZonesFit(q, o) /\ HelpFit(q, h) /\ LinesFit(q, l) /\ Capped(q)

LEMMA KeptLine ==
  ASSUME NEW l \in Seq(Robots), NEW S
  PROVE  LET k == Kept(l, S) IN
         /\ k \in Seq(Robots) /\ Len(k) <= Len(l)
         /\ \A r : In(k, r) <=> In(l, r) /\ r \in S
         /\ \A r \in S, n \in Nat : AmongFirst(l, r, n) => AmongFirst(k, r, n)
<1> DEFINE k == Kept(l, S)
<1>1. KeptOf(k, l, S, Robots, Len(l))
  BY KeptFacts
<1> HIDE DEF k
<1>2. k \in Seq(Robots) /\ Len(k) <= Len(l)
  BY <1>1 DEF KeptOf
<1>3. DOMAIN k = 1 .. Len(k) /\ DOMAIN l = 1 .. Len(l) /\ Len(l) \in Nat /\ Len(k) \in Nat
  BY <1>2
<1>4. \A i \in DOMAIN l : l[i] \in S => \E j \in DOMAIN k : j <= i /\ k[j] = l[i]
  BY <1>1, <1>3 DEF KeptOf
<1>5. \A j \in DOMAIN k : k[j] \in S /\ \E i \in DOMAIN l : l[i] = k[j]
  BY <1>1, <1>3 DEF KeptOf
<1>6. ASSUME NEW r PROVE In(k, r) <=> In(l, r) /\ r \in S
  BY <1>4, <1>5 DEF In
<1>7. ASSUME NEW r \in S, NEW n \in Nat, AmongFirst(l, r, n) PROVE AmongFirst(k, r, n)
  <2>1. PICK i \in DOMAIN l : l[i] = r /\ i <= n
    BY <1>7 DEF AmongFirst
  <2>2. PICK j \in DOMAIN k : j <= i /\ k[j] = r
    BY <1>4, <2>1
  <2>3. i \in Nat /\ j \in Nat
    BY <1>3
  <2>4. j <= n
    BY <2>1, <2>2, <2>3
  <2> QED
    BY <2>2, <2>4 DEF AmongFirst
<1> QED
  BY <1>2, <1>6, <1>7 DEF k

LEMMA SlotsAreNatural == ASSUME NEW p PROVE Slots(p) \in Nat
BY ScenarioAssumption DEF Slots

\* A robot in the line of a place has its goal there.
LEMMA QueueingGoal ==
  ASSUME NEW rb \in SoundRobot, rb.task \in Queueing
  PROVE  rb.goal \in Docks
<1>1. Sound(rb)
  BY DEF SoundRobot
<1>2. rb.task \in {"queued", "dock", "unload", "blocked", "connect", "charging"}
  BY DEF Queueing, Holding
<1> QED
  BY <1>1, <1>2 DEF Sound, Docks

\* Robots whose process ended left all lines, the others stayed where they were.
LEMMA LinesKept ==
  ASSUME NEW q \in [Robots -> SoundRobot], NEW r2 \in [Robots -> SoundRobot],
         NEW l, LinesFit(q, l), NEW K \in SUBSET Robots,
         \A r \in K : Stays(r2[r], q[r]),
         \A r \in Robots \ K : r2[r].task \notin Queueing,
         NEW l2, l2 = KeptLines(l, K)
  PROVE  LinesFit(r2, l2)
<1>1. l \in [Docks -> Seq(Robots)] /\ DOMAIN l = Docks
  BY DEF LinesFit
<1>2. ASSUME NEW p \in Docks
      PROVE  /\ l2[p] \in Seq(Robots) /\ Len(l2[p]) <= Len(l[p])
             /\ \A r : In(l2[p], r) <=> In(l[p], r) /\ r \in K
             /\ \A r \in K, n \in Nat : AmongFirst(l[p], r, n) => AmongFirst(l2[p], r, n)
  <2>1. l2[p] = Kept(l[p], K) /\ l[p] \in Seq(Robots)
    BY <1>1 DEF KeptLines
  <2> QED
    BY <2>1, KeptLine
<1>3. l2 \in [Docks -> Seq(Robots)]
  BY <1>1, <1>2 DEF KeptLines
<1>4. ASSUME NEW r \in Robots, NEW p \in Docks
      PROVE  In(l2[p], r) <=> r2[r].goal = p /\ r2[r].task \in Queueing
  <2>1. In(l[p], r) <=> q[r].goal = p /\ q[r].task \in Queueing
    BY DEF LinesFit
  <2>2. CASE r \in K
    BY <1>2, <2>1, <2>2 DEF Stays
  <2>3. CASE r \notin K
    BY <1>2, <2>3
  <2> QED
    BY <2>2, <2>3
<1>5. ASSUME NEW r \in Robots, r2[r].task \in Holding
      PROVE  AmongFirst(l2[r2[r].goal], r, Slots(r2[r].goal))
  <2>1. r2[r].task \in Queueing /\ r \in K
    BY <1>5 DEF Queueing
  <2>2. r2[r].goal = q[r].goal /\ q[r].task \in Holding
    BY <1>5, <2>1 DEF Stays
  <2>3. AmongFirst(l[q[r].goal], r, Slots(q[r].goal))
    BY <2>2 DEF LinesFit
  <2>4. q[r].goal \in Docks
    BY <2>2, QueueingGoal DEF Queueing
  <2> QED
    BY <1>2, <2>1, <2>2, <2>3, <2>4, SlotsAreNatural
<1>6. ASSUME NEW s \in Stations PROVE Len(l2[s]) <= DockSlots + MaxQueueLength
  <2>1. s \in Docks
    BY DEF Docks
  <2>2. Len(l2[s]) <= Len(l[s]) /\ Len(l2[s]) \in Nat /\ Len(l[s]) \in Nat
    BY <1>1, <1>2, <2>1
  <2>3. Len(l[s]) <= DockSlots + MaxQueueLength
    BY DEF LinesFit
  <2>4. DockSlots + MaxQueueLength \in Nat
    BY ScenarioAssumption
  <2> QED
    BY <2>2, <2>3, <2>4
<1> QED
  BY <1>3, <1>4, <1>5, <1>6 DEF LinesFit

\* The lines did not move, and whoever got a slot is among the first.
LEMMA LinesSame ==
  ASSUME NEW q \in [Robots -> SoundRobot], NEW r2 \in [Robots -> SoundRobot],
         NEW l, LinesFit(q, l),
         \A r \in Robots : /\ r2[r].task \in Queueing <=> q[r].task \in Queueing
                           /\ r2[r].task \in Queueing => r2[r].goal = q[r].goal
                           /\ r2[r].task \in Holding =>
                                \/ q[r].task \in Holding
                                \/ AmongFirst(l[r2[r].goal], r, Slots(r2[r].goal))
  PROVE  LinesFit(r2, l)
<1>1. ASSUME NEW r \in Robots, NEW p \in Docks
      PROVE  In(l[p], r) <=> r2[r].goal = p /\ r2[r].task \in Queueing
  BY DEF LinesFit
<1>2. ASSUME NEW r \in Robots, r2[r].task \in Holding
      PROVE  AmongFirst(l[r2[r].goal], r, Slots(r2[r].goal))
  BY <1>2 DEF LinesFit, Queueing
<1> QED
  BY <1>1, <1>2 DEF LinesFit

\* A robot joined the line of the place it had come to.
LEMMA LinesJoined ==
  ASSUME NEW q \in [Robots -> SoundRobot], NEW r2 \in [Robots -> SoundRobot],
         NEW l, LinesFit(q, l), NEW r \in Robots, NEW p \in Docks,
         q[r].task \notin Queueing, r2[r].task = "queued", r2[r].goal = p,
         \A o \in Robots \ {r} : r2[o] = q[o],
         p \in Stations => Len(l[p]) < DockSlots + MaxQueueLength,
         NEW l2, l2 = [l EXCEPT ![p] = Append(l[p], r)]
  PROVE  LinesFit(r2, l2)
<1>1. l \in [Docks -> Seq(Robots)] /\ DOMAIN l = Docks /\ l[p] \in Seq(Robots)
  BY DEF LinesFit
<1>2. l2[p] = Append(l[p], r) /\ \A o \in Docks \ {p} : l2[o] = l[o]
  BY <1>1
<1>3. l2[p] \in Seq(Robots) /\ Len(l2[p]) = Len(l[p]) + 1 /\ Len(l[p]) \in Nat
  BY <1>1, <1>2
<1>4. l2 \in [Docks -> Seq(Robots)]
  BY <1>1, <1>2, <1>3
<1>5. /\ DOMAIN l[p] = 1 .. Len(l[p]) /\ DOMAIN l2[p] = 1 .. Len(l[p]) + 1
      /\ l2[p][Len(l[p]) + 1] = r /\ \A i \in DOMAIN l[p] : l2[p][i] = l[p][i]
  BY <1>1, <1>2, <1>3
<1>6. \A o : In(l2[p], o) <=> In(l[p], o) \/ o = r
  <2>1. \A i \in DOMAIN l2[p] : i \in DOMAIN l[p] \/ i = Len(l[p]) + 1
    BY <1>3, <1>5
  <2>2. DOMAIN l[p] \subseteq DOMAIN l2[p] /\ Len(l[p]) + 1 \in DOMAIN l2[p]
    BY <1>3, <1>5
  <2> QED
    BY <1>5, <2>1, <2>2 DEF In
<1>7. \A o, n : AmongFirst(l[p], o, n) => AmongFirst(l2[p], o, n)
  <2>1. DOMAIN l[p] \subseteq DOMAIN l2[p]
    BY <1>3, <1>5
  <2> QED
    BY <1>5, <2>1 DEF AmongFirst
<1>8. ASSUME NEW o \in Robots, NEW d \in Docks
      PROVE  In(l2[d], o) <=> r2[o].goal = d /\ r2[o].task \in Queueing
  <2>1. In(l[d], o) <=> q[o].goal = d /\ q[o].task \in Queueing
    BY DEF LinesFit
  <2>2. CASE o = r
    <3>1. r2[o].goal = p /\ r2[o].task \in Queueing /\ ~ In(l[d], o)
      BY <2>1, <2>2 DEF Queueing
    <3> QED
      BY <1>2, <1>6, <2>2, <3>1
  <2>3. CASE o # r
    <3>1. r2[o] = q[o]
      BY <2>3
    <3> QED
      BY <1>2, <1>6, <2>1, <2>3, <3>1
  <2> QED
    BY <2>2, <2>3
<1>9. ASSUME NEW o \in Robots, r2[o].task \in Holding
      PROVE  AmongFirst(l2[r2[o].goal], o, Slots(r2[o].goal))
  <2>1. o # r
    BY <1>9 DEF Holding
  <2>2. r2[o] = q[o]
    BY <2>1
  <2>3. AmongFirst(l[q[o].goal], o, Slots(q[o].goal))
    BY <1>9, <2>2 DEF LinesFit
  <2>4. q[o].goal \in Docks
    BY <1>9, <2>2, QueueingGoal DEF Queueing
  <2> QED
    BY <1>2, <1>7, <2>2, <2>3, <2>4
<1>10. ASSUME NEW s \in Stations PROVE Len(l2[s]) <= DockSlots + MaxQueueLength
  <2>1. Len(l[s]) <= DockSlots + MaxQueueLength /\ s \in Docks
    BY DEF LinesFit, Docks
  <2>2. CASE s = p
    <3>1. DockSlots + MaxQueueLength \in Nat
      BY ScenarioAssumption
    <3>2. Len(l[p]) < DockSlots + MaxQueueLength
      BY <2>2
    <3>3. Len(l2[s]) = Len(l[p]) + 1
      BY <1>3, <2>2
    <3> QED
      BY <1>3, <3>1, <3>2, <3>3
  <2>3. CASE s # p
    BY <1>2, <2>1, <2>3
  <2> QED
    BY <2>2, <2>3
<1> QED
  BY <1>4, <1>8, <1>9, <1>10 DEF LinesFit

\* No zone gets more robots while robots only keep or lose their assignment.
LEMMA CappedShrinks ==
  ASSUME NEW q, Capped(q), NEW r2, \A r \in Robots : r2[r].zone \in {q[r].zone, None}
  PROVE  Capped(r2)
<1>1. ASSUME NEW z \in Zones
      PROVE  Cardinality({r \in Robots : r2[r].zone = z}) <= MaxRobotsPerZone
  <2> DEFINE A == {r \in Robots : r2[r].zone = z}
             B == {r \in Robots : q[r].zone = z}
  <2>1. z # None
    BY IdAssumption
  <2>2. A \subseteq B
    BY <2>1
  <2>3. IsFiniteSet(B)
    <3>1. B \subseteq Robots
      OBVIOUS
    <3> QED
      BY <3>1, IdAssumption, FS_Subset
  <2> HIDE DEF A, B
  <2>4. Cardinality(A) \in Nat /\ Cardinality(B) \in Nat /\ Cardinality(A) <= Cardinality(B)
    BY <2>2, <2>3, FS_Subset, FS_CardinalityType
  <2>5. Cardinality(B) <= MaxRobotsPerZone
    BY DEF Capped, B
  <2>6. MaxRobotsPerZone \in Nat
    BY ScenarioAssumption
  <2> QED
    BY <2>4, <2>5, <2>6 DEF A
<1> QED
  BY <1>1 DEF Capped

\* The robots of K stay in their lines, the others leave all of them; nobody is
\* assigned anew.
Parts(r2, q, K) ==
    /\ r2 \in [Robots -> SoundRobot] /\ K \subseteq Robots
    /\ \A r \in Robots : r2[r].zone \in {q[r].zone, None} /\ r2[r].awaiting = q[r].awaiting
    /\ \A r \in K : Stays(r2[r], q[r])
    /\ \A r \in Robots \ K : r2[r].task \notin Queueing

LEMMA FitsKept ==
  ASSUME NEW q, NEW o, NEW l, NEW h, Fits(q, o, l, h), NEW r2, NEW K, Parts(r2, q, K)
  PROVE  Fits(r2, o, KeptLines(l, K), h)
<1> DEFINE l2 == KeptLines(l, K)
<1>1. q \in [Robots -> SoundRobot] /\ LinesFit(q, l) /\ Capped(q) /\ ZonesFit(q, o) /\ HelpFit(q, h)
  BY DEF Fits
<1>2. /\ r2 \in [Robots -> SoundRobot] /\ K \in SUBSET Robots
      /\ \A r \in Robots : r2[r].zone \in {q[r].zone, None} /\ r2[r].awaiting = q[r].awaiting
  BY DEF Parts
<1>3. LinesFit(r2, l2)
  <2>1. \A r \in K : Stays(r2[r], q[r])
    BY DEF Parts
  <2>2. \A r \in Robots \ K : r2[r].task \notin Queueing
    BY DEF Parts
  <2> QED
    BY <1>2, <1>1, <2>1, <2>2, LinesKept
<1>4. Capped(r2)
  BY <1>2, <1>1, CappedShrinks
<1>5. ZonesFit(r2, o) /\ HelpFit(r2, h)
  BY <1>2, <1>1 DEF ZonesFit, HelpFit
<1> QED
  BY <1>2, <1>3, <1>4, <1>5 DEF Fits

LEMMA FitsSame ==
  ASSUME NEW q, NEW o, NEW l, NEW h, Fits(q, o, l, h),
         NEW r2 \in [Robots -> SoundRobot],
         \A r \in Robots : r2[r].zone \in {q[r].zone, None} /\ r2[r].awaiting = q[r].awaiting,
         \A r \in Robots : /\ r2[r].task \in Queueing <=> q[r].task \in Queueing
                           /\ r2[r].task \in Queueing => r2[r].goal = q[r].goal
                           /\ r2[r].task \in Holding =>
                                \/ q[r].task \in Holding
                                \/ AmongFirst(l[r2[r].goal], r, Slots(r2[r].goal))
  PROVE  Fits(r2, o, l, h)
<1>1. q \in [Robots -> SoundRobot] /\ LinesFit(q, l) /\ Capped(q) /\ ZonesFit(q, o) /\ HelpFit(q, h)
  BY DEF Fits
<1>2. LinesFit(r2, l)
  BY <1>1, LinesSame
<1>3. Capped(r2)
  BY <1>1, CappedShrinks
<1>4. ZonesFit(r2, o) /\ HelpFit(r2, h)
  BY <1>1 DEF ZonesFit, HelpFit
<1> QED
  BY <1>2, <1>3, <1>4 DEF Fits

\* The step of one robot.
LEMMA FitsOne ==
  ASSUME NEW q, NEW o, NEW l, NEW h, Fits(q, o, l, h),
         NEW r \in Robots, NEW new, Succeeds(new, q[r]),
         NEW r2, r2 = [q EXCEPT ![r] = new],
         NEW l2, l2 = IF new.task = "none" THEN KeptLines(l, Robots \ {r}) ELSE l
  PROVE  Fits(r2, o, l2, h)
<1>1. q \in [Robots -> SoundRobot] /\ new \in SoundRobot
  BY DEF Fits, Succeeds
<1>2. r2 \in [Robots -> SoundRobot] /\ r2[r] = new /\ \A a \in Robots \ {r} : r2[a] = q[a]
  BY <1>1
<1>3. \A a \in Robots : r2[a].zone \in {q[a].zone, None} /\ r2[a].awaiting = q[a].awaiting
  BY <1>2 DEF Succeeds
<1>4. CASE new.task = "none"
  <2> DEFINE K == Robots \ {r}
  <2>1. \A a \in K : Stays(r2[a], q[a])
    BY <1>2 DEF Stays
  <2>2. \A a \in Robots \ K : r2[a].task \notin Queueing
    BY <1>2, <1>4 DEF Queueing, Holding
  <2>3. Parts(r2, q, K)
    BY <1>2, <1>3, <2>1, <2>2 DEF Parts
  <2>4. l2 = KeptLines(l, K)
    BY <1>4
  <2> HIDE DEF K
  <2> QED
    BY <2>3, <2>4, FitsKept
<1>5. CASE new.task # "none"
  <2>1. \A a \in Robots : Stays(r2[a], q[a])
    BY <1>2, <1>5 DEF Stays, Succeeds
  <2>2. l2 = l
    BY <1>5
  <2>3. \A a \in Robots : /\ r2[a].task \in Queueing <=> q[a].task \in Queueing
                          /\ r2[a].task \in Queueing => r2[a].goal = q[a].goal
                          /\ r2[a].task \in Holding => q[a].task \in Holding
    BY <2>1 DEF Stays
  <2>4. Fits(r2, o, l, h)
    BY <1>2, <1>3, <2>3, FitsSame
  <2> QED
    BY <2>2, <2>4
<1> QED
  BY <1>4, <1>5

-----------------------------------------------------------------------------
(* The ledger.                                                             *)

LedgerFit(b) ==
    /\ b \in [Locations -> Nat]
    /\ Total(b, Locations) = TotalBalls
    /\ \A s \in Stations : b[s] <= BufferCapacity

LEMMA StationsAreFinite == IsFiniteSet(Stations)
<1>1. DOMAIN StationOrder = 1 .. Len(StationOrder) /\ Len(StationOrder) \in Nat
  BY IdAssumption
<1>2. IsFiniteSet(1 .. Len(StationOrder))
  BY <1>1, FS_Interval
<1>3. StationOrder \in Surjection(1 .. Len(StationOrder), Stations)
  <2>1. StationOrder \in [1 .. Len(StationOrder) -> Stations]
    BY IdAssumption
  <2>2. \A s \in Stations : \E i \in 1 .. Len(StationOrder) : StationOrder[i] = s
    BY <1>1 DEF Stations
  <2> QED
    BY <2>1, <2>2 DEF Surjection
<1> QED
  BY <1>2, <1>3, FS_Surjection

LEMMA LocationsAreFinite == IsFiniteSet(Locations)
<1>1. IsFiniteSet({"dispenser"} \cup {"washer"})
  BY FS_Singleton, FS_Union
<1>2. {"dispenser", "washer"} = {"dispenser"} \cup {"washer"}
  OBVIOUS
<1>3. IsFiniteSet({"dispenser", "washer"})
  BY <1>1, <1>2
<1>4. IsFiniteSet({"dispenser", "washer"} \cup Zones)
  BY <1>3, IdAssumption, FS_Union
<1>5. IsFiniteSet({"dispenser", "washer"} \cup Zones \cup Robots)
  BY <1>4, IdAssumption, FS_Union
<1>6. IsFiniteSet({"dispenser", "washer"} \cup Zones \cup Robots \cup Stations)
  BY <1>5, StationsAreFinite, FS_Union
<1> QED
  BY <1>6 DEF Locations

\* m at one place, nothing elsewhere.
Point(S, a, m) == [x \in S |-> IF x = a THEN m ELSE 0]

LEMMA TotalPoint ==
  ASSUME NEW S, IsFiniteSet(S), NEW a \in S, NEW m \in Nat
  PROVE  Total(Point(S, a, m), S) = m
<1> DEFINE f == Point(S, a, m)
<1>1. f[a] = m /\ (\A x \in S : f[x] \in Nat) /\ \A x \in S \ {a} : f[x] = 0
  BY DEF Point
<1> HIDE DEF f
<1>2. Total(f, S) = Total(f, {a})
  <2>1. {a} \in SUBSET S
    OBVIOUS
  <2> QED
    BY <1>1, <2>1, TotalWithin
<1>3. Total(f, {a}) = f[a] + Total(f, {a} \ {a})
  <2>1. IsFiniteSet({a}) /\ a \in {a} /\ \A x \in {a} : f[x] \in Nat
    BY <1>1, FS_Singleton
  <2> QED
    BY <2>1, TotalPeel
<1>4. {a} \ {a} = {}
  OBVIOUS
<1>5. Total(f, {a} \ {a}) = 0
  BY <1>4, TotalEmpty
<1> QED
  BY <1>1, <1>2, <1>3, <1>5 DEF f

\* What is taken away here is put down there.
LEMMA TotalExchange ==
  ASSUME NEW S, IsFiniteSet(S), NEW b, NEW b2, NEW d, NEW e,
         \A x \in S : /\ b[x] \in Nat /\ b2[x] \in Nat /\ d[x] \in Nat /\ e[x] \in Nat
                      /\ b2[x] + d[x] = b[x] + e[x],
         Total(d, S) = Total(e, S)
  PROVE  Total(b2, S) = Total(b, S)
<1> DEFINE f == [x \in S |-> b[x] + e[x]]
<1>1. Total(f, S) = Total(b, S) + Total(e, S)
  <2>1. \A x \in S : b[x] \in Nat /\ e[x] \in Nat /\ f[x] = b[x] + e[x]
    OBVIOUS
  <2> HIDE DEF f
  <2> QED
    BY <2>1, TotalAdd
<1>2. Total(f, S) = Total(b2, S) + Total(d, S)
  <2>1. \A x \in S : b2[x] \in Nat /\ d[x] \in Nat /\ f[x] = b2[x] + d[x]
    OBVIOUS
  <2> HIDE DEF f
  <2> QED
    BY <2>1, TotalAdd
<1>3. Total(b, S) \in Nat /\ Total(b2, S) \in Nat /\ Total(d, S) \in Nat
  BY TotalIsNatural
<1> HIDE DEF f
<1> QED
  BY <1>1, <1>2, <1>3

LEMMA MovedFacts ==
  ASSUME NEW b \in [Locations -> Nat], NEW from \in Locations, NEW n \in Nat
  PROVE  Moved(b, from, n) \in Nat /\ Moved(b, from, n) <= n /\ Moved(b, from, n) <= b[from]
<1>1. b[from] \in Nat
  OBVIOUS
<1>2. n \in Int /\ b[from] \in Int
  BY <1>1
<1>3. Moved(b, from, n) \in {n, b[from]} /\ Moved(b, from, n) <= n /\ Moved(b, from, n) <= b[from]
  BY <1>2, LeastOfTwo DEF Moved
<1> QED
  BY <1>1, <1>3

\* b2 is b with m moved from one place to another.
Carried(b2, b, from, to, m) ==
    /\ b2 \in [Locations -> Nat]
    /\ b2[from] = b[from] - m /\ b2[to] = b[to] + m
    /\ \A x \in Locations : x # from /\ x # to => b2[x] = b[x]
    /\ Total(b2, Locations) = Total(b, Locations)

LEMMA MoveFacts ==
  ASSUME NEW b \in [Locations -> Nat], NEW from \in Locations, NEW to \in Locations, from # to,
         NEW n \in Nat
  PROVE  Carried(Move(b, from, to, n), b, from, to, Moved(b, from, n))
<1> DEFINE b2 == Move(b, from, to, n)
           m == Moved(b, from, n)
           d == Point(Locations, from, m)
           e == Point(Locations, to, m)
<1>1. m \in Nat /\ m <= b[from]
  BY MovedFacts
<1> HIDE DEF m
<1>2. b2 = [b EXCEPT ![from] = @ - m, ![to] = @ + m]
  BY DEF Move, m
<1> HIDE DEF b2
<1>3. /\ b2[from] = b[from] - m /\ b2[to] = b[to] + m
      /\ \A x \in Locations : x # from /\ x # to => b2[x] = b[x]
  BY <1>2
<1>4. b[from] - m \in Nat /\ b[to] + m \in Nat
  BY <1>1
<1>5. b2 \in [Locations -> Nat]
  BY <1>2, <1>4
<1>6. \A x \in Locations : /\ b[x] \in Nat /\ b2[x] \in Nat /\ d[x] \in Nat /\ e[x] \in Nat
                           /\ b2[x] + d[x] = b[x] + e[x]
  <2>1. ASSUME NEW x \in Locations
        PROVE  /\ b[x] \in Nat /\ b2[x] \in Nat /\ d[x] \in Nat /\ e[x] \in Nat
               /\ b2[x] + d[x] = b[x] + e[x]
    <3>1. d[x] = (IF x = from THEN m ELSE 0) /\ e[x] = (IF x = to THEN m ELSE 0)
      BY DEF Point
    <3>2. b[x] \in Nat /\ b2[x] \in Nat
      BY <1>5
    <3> HIDE DEF d, e
    <3>3. CASE x = from
      BY <1>1, <1>3, <3>1, <3>2, <3>3
    <3>4. CASE x = to
      BY <1>1, <1>3, <3>1, <3>2, <3>4
    <3>5. CASE x \notin {from, to}
      BY <1>1, <1>3, <3>1, <3>2, <3>5
    <3> QED
      BY <3>3, <3>4, <3>5
  <2> QED
    BY <2>1
<1>7. Total(d, Locations) = m /\ Total(e, Locations) = m
  BY <1>1, LocationsAreFinite, TotalPoint
<1>8. Total(b2, Locations) = Total(b, Locations)
  <2> HIDE DEF d, e
  <2> QED
    BY <1>6, <1>7, LocationsAreFinite, TotalExchange
<1> QED
  BY <1>3, <1>5, <1>8 DEF b2, m, Carried

\* A customer's balls land in open zones.
LEMMA ServedFacts ==
  ASSUME NEW b \in [Locations -> Nat], NEW served \in Nat, served <= b["dispenser"],
         NEW zones \in SUBSET Zones, NEW landed \in [zones -> 0 .. served],
         Total(landed, zones) = served,
         NEW b2, b2 = [x \in Locations |->
                         IF x = "dispenser" THEN b[x] - served
                         ELSE IF x \in zones THEN b[x] + landed[x] ELSE b[x]]
  PROVE  /\ b2 \in [Locations -> Nat]
         /\ \A x \in Robots \cup Stations : b2[x] = b[x]
         /\ Total(b2, Locations) = Total(b, Locations)
<1> DEFINE d == Point(Locations, "dispenser", served)
           e == [x \in Locations |-> IF x \in zones THEN landed[x] ELSE 0]
<1>1. "dispenser" \in Locations /\ Zones \subseteq Locations /\ "dispenser" \notin Zones
      /\ Robots \cup Stations \subseteq Locations
      /\ \A x \in Robots \cup Stations : x # "dispenser" /\ x \notin Zones
  BY IdAssumption DEF Locations
<1>2. \A x \in zones : landed[x] \in Nat /\ x # "dispenser" /\ x \in Locations
  BY <1>1
<1>3. ASSUME NEW x \in Locations
      PROVE  /\ b[x] \in Nat /\ b2[x] \in Nat /\ d[x] \in Nat /\ e[x] \in Nat
             /\ b2[x] + d[x] = b[x] + e[x]
  <2>1. /\ d[x] = (IF x = "dispenser" THEN served ELSE 0)
        /\ e[x] = (IF x \in zones THEN landed[x] ELSE 0)
        /\ b2[x] = (IF x = "dispenser" THEN b[x] - served
                    ELSE IF x \in zones THEN b[x] + landed[x] ELSE b[x])
    BY DEF Point
  <2>2. b[x] \in Nat
    OBVIOUS
  <2> HIDE DEF d, e
  <2>3. CASE x = "dispenser"
    BY <1>2, <2>1, <2>2, <2>3
  <2>4. CASE x \in zones
    BY <1>2, <2>1, <2>2, <2>4
  <2>5. CASE x # "dispenser" /\ x \notin zones
    BY <2>1, <2>2, <2>5
  <2> QED
    BY <2>3, <2>4, <2>5
<1>4. Total(e, Locations) = served
  <2>1. (\A x \in Locations : e[x] \in Nat) /\ (\A x \in Locations \ zones : e[x] = 0)
        /\ \A x \in zones : e[x] = landed[x]
    BY <1>2
  <2> HIDE DEF e
  <2>2. zones \in SUBSET Locations
    BY <1>1
  <2>3. Total(e, Locations) = Total(e, zones)
    BY <2>1, <2>2, LocationsAreFinite, TotalWithin
  <2>4. IsFiniteSet(zones)
    BY <2>2, LocationsAreFinite, FS_Subset
  <2>5. Total(e, zones) = Total(landed, zones)
    BY <1>2, <2>1, <2>4, TotalSame
  <2> QED
    BY <2>3, <2>5
<1>5. Total(d, Locations) = served
  BY <1>1, LocationsAreFinite, TotalPoint
<1>6. Total(b2, Locations) = Total(b, Locations)
  <2> HIDE DEF d, e
  <2> QED
    BY <1>3, <1>4, <1>5, LocationsAreFinite, TotalExchange
<1>7. b2 \in [Locations -> Nat]
  BY <1>3
<1> QED
  BY <1>1, <1>6, <1>7

LEMMA StationIndex ==
  /\ DOMAIN StationOrder = 1 .. Len(StationOrder) /\ Len(StationOrder) \in Nat
  /\ \A i \in 1 .. Len(StationOrder) :
       /\ StationOrder[i] \in Stations
       /\ (CHOOSE j \in DOMAIN StationOrder : StationOrder[j] = StationOrder[i]) = i
  /\ \A s \in Stations : \E i \in 1 .. Len(StationOrder) : StationOrder[i] = s
<1>1. DOMAIN StationOrder = 1 .. Len(StationOrder) /\ Len(StationOrder) \in Nat
  BY IdAssumption
<1>2. ASSUME NEW i \in 1 .. Len(StationOrder)
      PROVE  /\ StationOrder[i] \in Stations
             /\ (CHOOSE j \in DOMAIN StationOrder : StationOrder[j] = StationOrder[i]) = i
  <2> DEFINE c == CHOOSE j \in DOMAIN StationOrder : StationOrder[j] = StationOrder[i]
  <2>1. c \in DOMAIN StationOrder /\ StationOrder[c] = StationOrder[i]
    BY <1>1
  <2> HIDE DEF c
  <2>2. c = i
    BY <1>1, <2>1, IdAssumption
  <2> QED
    BY <1>1, <2>2 DEF c, Stations
<1>3. \A s \in Stations : \E i \in 1 .. Len(StationOrder) : StationOrder[i] = s
  BY <1>1 DEF Stations
<1> QED
  BY <1>1, <1>2, <1>3

\* What is drawn from one station, when done of batch was drawn before.
Drawn(batch, done, here) == IF done >= batch THEN 0 ELSE Least({here, batch - done})

LEMMA DrawnFacts ==
  ASSUME NEW batch \in Nat, NEW done \in Nat, NEW here \in Nat
  PROVE  LET pull == Drawn(batch, done, here) IN
         /\ pull \in Nat /\ pull <= here
         /\ pull + Least({batch, done}) = Least({batch, here + done})
<1>1. batch \in Int /\ done \in Int /\ here + done \in Int /\ here \in Int /\ batch - done \in Int
  OBVIOUS
<1>2. /\ Least({batch, done}) \in {batch, done} /\ Least({batch, done}) <= batch
      /\ Least({batch, done}) <= done
  BY <1>1, LeastOfTwo
<1>3. /\ Least({batch, here + done}) \in {batch, here + done}
      /\ Least({batch, here + done}) <= batch /\ Least({batch, here + done}) <= here + done
  BY <1>1, LeastOfTwo
<1>4. /\ Least({here, batch - done}) \in {here, batch - done}
      /\ Least({here, batch - done}) <= here /\ Least({here, batch - done}) <= batch - done
  BY <1>1, LeastOfTwo
<1> DEFINE a == Least({batch, done})
           b == Least({batch, here + done})
           c == Least({here, batch - done})
<1> HIDE DEF a, b, c
<1>5. /\ a \in {batch, done} /\ a <= batch /\ a <= done
      /\ b \in {batch, here + done} /\ b <= batch /\ b <= here + done
      /\ c \in {here, batch - done} /\ c <= here /\ c <= batch - done
  BY <1>2, <1>3, <1>4 DEF a, b, c
<1> DEFINE pull == Drawn(batch, done, here)
<1>6. pull = IF done >= batch THEN 0 ELSE c
  BY DEF c, Drawn
<1> HIDE DEF pull
<1>7. pull \in Nat /\ pull <= here /\ pull + a = b
  <2>1. CASE done >= batch
    BY <1>5, <1>6, <2>1
  <2>2. CASE ~ (done >= batch)
    BY <1>5, <1>6, <2>2
  <2> QED
    BY <2>1, <2>2
<1> QED
  BY <1>7 DEF a, b, pull

\* The washer draws, over all stations, the batch it takes, from each at most
\* what is there.
LEMMA PulledFacts ==
  ASSUME balls \in [Locations -> Nat]
  PROVE  LET batch == Least({WashBatch, Buffered})
             p == [s \in Stations |->
                     Pulled(CHOOSE i \in DOMAIN StationOrder : StationOrder[i] = s)]
         IN  /\ batch \in Nat
             /\ \A s \in Stations : p[s] \in Nat /\ p[s] <= balls[s]
             /\ Total(p, Stations) = batch
<1> DEFINE N == Len(StationOrder)
           First(i) == {StationOrder[j] : j \in 1 .. i}
           batch == Least({WashBatch, Buffered})
           p == [s \in Stations |-> Pulled(CHOOSE i \in DOMAIN StationOrder : StationOrder[i] = s)]
<1>1. N \in Nat /\ \A i \in 1 .. N : StationOrder[i] \in Stations /\ p[StationOrder[i]] = Pulled(i)
  BY StationIndex
<1>2. Stations \subseteq Locations /\ \A s \in Stations : balls[s] \in Nat
  BY DEF Locations
<1>3. ASSUME NEW i \in 0 .. N
      PROVE  First(i) \subseteq Stations /\ IsFiniteSet(First(i)) /\ Total(balls, First(i)) \in Nat
  <2>1. First(i) \subseteq Stations
    <3>1. ASSUME NEW j \in 1 .. i PROVE StationOrder[j] \in Stations
      <4>1. j \in 1 .. N
        BY <1>1
      <4> QED
        BY <4>1, <1>1
    <3> QED
      BY <3>1
  <2>2. IsFiniteSet(First(i))
    BY <2>1, StationsAreFinite, FS_Subset
  <2>3. \A s \in First(i) : balls[s] \in Nat
    BY <1>2, <2>1
  <2> HIDE DEF First
  <2> QED
    BY <2>1, <2>2, <2>3, TotalIsNatural
<1>4. First(N) = Stations
  BY <1>1, StationIndex
<1>5. First(0) = {}
  OBVIOUS
<1>6. ASSUME NEW i \in 1 .. N
      PROVE  /\ First(i) \ {StationOrder[i]} = First(i - 1) /\ StationOrder[i] \in First(i)
             /\ i - 1 \in 0 .. N /\ i \in 0 .. N
  <2>1. i \in Nat /\ i - 1 \in 0 .. N /\ i \in 0 .. N
    BY <1>1
  <2>2. \A j \in 1 .. i : j = i \/ j \in 1 .. i - 1
    BY <2>1
  <2>3. \A j \in 1 .. i - 1 : j \in 1 .. i /\ j # i /\ j \in 1 .. N
    BY <1>1, <2>1
  <2>4. \A j \in 1 .. i - 1 : StationOrder[j] # StationOrder[i]
    BY <2>3, StationIndex, IdAssumption
  <2>5. i \in 1 .. i
    BY <2>1
  <2> QED
    BY <2>1, <2>2, <2>3, <2>4, <2>5
<1>7. \A i \in 1 .. N : Before(i) = Total(balls, First(i - 1))
  BY DEF Before
<1>8. Buffered \in Nat /\ Buffered = Total(balls, Stations)
  <2>1. Buffered = Total(balls, Stations)
    BY DEF Buffered
  <2>2. IsFiniteSet(Stations)
    BY StationsAreFinite
  <2> QED
    BY <1>2, <2>1, <2>2, TotalIsNatural
<1>9. batch \in Nat /\ batch <= Buffered
  <2>1. WashBatch \in Int /\ WashBatch \in Nat /\ Buffered \in Int
    BY <1>8, ScenarioAssumption
  <2>2. batch \in {WashBatch, Buffered} /\ batch <= Buffered
    BY <2>1, LeastOfTwo
  <2> HIDE DEF batch
  <2> QED
    BY <1>8, <2>1, <2>2
<1>10. ASSUME NEW i \in 1 .. N
       PROVE  /\ p[StationOrder[i]] \in Nat /\ p[StationOrder[i]] <= balls[StationOrder[i]]
              /\ p[StationOrder[i]] + Least({batch, Total(balls, First(i - 1))})
                   = Least({batch, Total(balls, First(i))})
  <2> DEFINE pull == p[StationOrder[i]]
             done == Total(balls, First(i - 1))
             here == balls[StationOrder[i]]
  <2>1. pull = Drawn(batch, done, here)
    <3>1. pull = Pulled(i) /\ Before(i) = done
      BY <1>1, <1>7
    <3> HIDE DEF pull, done, First, p
    <3> QED
      BY <3>1 DEF Pulled, Drawn, here
  <2>2. done \in Nat
    BY <1>3, <1>6
  <2>3. here \in Nat
    BY <1>1, <1>2
  <2>4. Total(balls, First(i)) = here + done
    <3>1. \A s \in First(i) : balls[s] \in Nat
      BY <1>2, <1>3, <1>6
    <3>2. IsFiniteSet(First(i)) /\ StationOrder[i] \in First(i) /\ First(i) \ {StationOrder[i]} = First(i - 1)
      BY <1>3, <1>6
    <3> HIDE DEF First
    <3>3. Total(balls, First(i)) = balls[StationOrder[i]] + Total(balls, First(i) \ {StationOrder[i]})
      BY <3>1, <3>2, TotalPeel
    <3> QED
      BY <3>2, <3>3
  <2>6. batch \in Nat
    BY <1>9
  <2> HIDE DEF pull, done, here, First, batch, p
  <2>7. /\ Drawn(batch, done, here) \in Nat /\ Drawn(batch, done, here) <= here
        /\ Drawn(batch, done, here) + Least({batch, done}) = Least({batch, here + done})
    BY <2>6, <2>2, <2>3, DrawnFacts
  <2>5. pull \in Nat /\ pull <= here /\ pull + Least({batch, done}) = Least({batch, here + done})
    BY <2>1, <2>7
  <2> QED
    BY <2>4, <2>5 DEF pull, done, here
<1>11. \A s \in Stations : p[s] \in Nat /\ p[s] <= balls[s]
  <2> HIDE DEF p
  <2> QED
    BY <1>10, StationIndex
<1>12. ASSUME NEW i \in 0 .. N
       PROVE  Total(p, First(i)) = Least({batch, Total(balls, First(i))})
  <2> DEFINE Bad == {j \in 0 .. N : Total(p, First(j)) # Least({batch, Total(balls, First(j))})}
  <2>1. SUFFICES ASSUME Bad # {} PROVE FALSE
    OBVIOUS
  <2>2. PICK j \in Bad : \A k \in Bad : j <= k
    <3>1. Bad \subseteq Nat
      BY <1>1
    <3> HIDE DEF Bad
    <3> QED
      BY <2>1, <3>1, LeastNatural
  <2>3. j \in 0 .. N /\ j \in Nat /\ Total(p, First(j)) # Least({batch, Total(balls, First(j))})
    BY <1>1, <2>2
  <2>4. j # 0
    <3>1. Total(p, {}) = 0 /\ Total(balls, {}) = 0
      BY TotalEmpty
    <3>2. Least({batch, 0}) = 0
      <4>1. batch \in Int /\ 0 \in Int
        BY <1>9
      <4> HIDE DEF batch
      <4>2. Least({batch, 0}) \in {batch, 0} /\ Least({batch, 0}) <= batch /\ Least({batch, 0}) <= 0
        BY <4>1, LeastOfTwo
      <4> QED
        BY <1>9, <4>2
    <3> HIDE DEF p, batch, First, Bad
    <3> QED
      BY <1>5, <2>3, <3>1, <3>2
  <2>5. j \in 1 .. N
    BY <1>1, <2>3, <2>4
  <2>6. Total(p, First(j - 1)) = Least({batch, Total(balls, First(j - 1))})
    <3>1. j - 1 \in 0 .. N /\ ~ (j <= j - 1)
      BY <1>1, <2>3, <2>5
    <3>2. j - 1 \notin Bad
      <4> HIDE DEF Bad
      <4> QED
        BY <2>2, <3>1
    <3> QED
      BY <3>1, <3>2
  <2>7. Total(p, First(j)) = p[StationOrder[j]] + Total(p, First(j - 1))
    <3>1. IsFiniteSet(First(j)) /\ StationOrder[j] \in First(j) /\ First(j) \ {StationOrder[j]} = First(j - 1)
      BY <1>3, <1>6, <2>5
    <3>2. \A s \in First(j) : p[s] \in Nat
      <4>1. First(j) \subseteq Stations
        BY <1>3, <2>3
      <4> HIDE DEF p, First
      <4> QED
        BY <1>11, <4>1
    <3> HIDE DEF First, p
    <3>3. Total(p, First(j)) = p[StationOrder[j]] + Total(p, First(j) \ {StationOrder[j]})
      BY <3>1, <3>2, TotalPeel
    <3> QED
      BY <3>1, <3>3
  <2>8. p[StationOrder[j]] + Least({batch, Total(balls, First(j - 1))}) = Least({batch, Total(balls, First(j))})
    BY <1>10, <2>5
  <2> HIDE DEF p, First, batch, Bad
  <2> QED
    BY <2>3, <2>6, <2>7, <2>8
<1>13. Total(p, Stations) = batch
  <2>1. N \in 0 .. N
    BY <1>1
  <2>2. Total(p, First(N)) = Least({batch, Total(balls, First(N))})
    BY <1>12, <2>1
  <2>3. Least({batch, Buffered}) = batch
    <3>1. batch \in Int /\ Buffered \in Int
      BY <1>8, <1>9
    <3> HIDE DEF batch
    <3>2. Least({batch, Buffered}) \in {batch, Buffered} /\ Least({batch, Buffered}) <= batch
      BY <3>1, LeastOfTwo
    <3> QED
      BY <1>8, <1>9, <3>2
  <2> HIDE DEF p, First, batch
  <2> QED
    BY <1>4, <1>8, <2>2, <2>3
<1> HIDE DEF p, batch
<1> QED
  BY <1>9, <1>11, <1>13 DEF p, batch

-----------------------------------------------------------------------------
(* The inductive invariant: robots, lines, zones and requests fit, the     *)
(* ledger is whole, and a basket holds what the ledger says.               *)

BasketsFit(q, b) == \A r \in Robots : q[r].payload = b[r]

Inv ==
    /\ Fits(rob, open, line, helpLine)
    /\ LedgerFit(balls)
    /\ BasketsFit(rob, balls)
    /\ open \in [Zones \cup Stations -> BOOLEAN]
    /\ faults \in 0 .. MaxFaults

LEMMA RobotFacts ==
  ASSUME Inv, NEW r \in Robots
  PROVE  /\ rob[r] \in SoundRobot /\ rob[r] \in Robot /\ Sound(rob[r])
         /\ rob[r].payload = balls[r] /\ r \in Locations
BY DEF Inv, Fits, SoundRobot, BasketsFit, Locations

LEMMA LedgerFacts ==
  ASSUME Inv
  PROVE  /\ balls \in [Locations -> Nat] /\ balls \in [Locations -> 0 .. TotalBalls]
         /\ \A s \in Stations : balls[s] <= BufferCapacity
<1>1. /\ balls \in [Locations -> Nat] /\ Total(balls, Locations) = TotalBalls
      /\ \A s \in Stations : balls[s] <= BufferCapacity
  BY DEF Inv, LedgerFit
<1>2. ASSUME NEW x \in Locations PROVE balls[x] \in 0 .. TotalBalls
  <2>1. balls[x] <= Total(balls, Locations)
    BY <1>1, LocationsAreFinite, TotalBounds
  <2> QED
    BY <1>1, <2>1, ScenarioAssumption
<1> QED
  BY <1>1, <1>2

\* The invariant says at least what the range is to satisfy.
LEMMA InvImplies == Inv => RangeIsConsistent
<1> SUFFICES ASSUME Inv PROVE RangeIsConsistent
  OBVIOUS
<1>1. TypeOK
  <2>1. ASSUME NEW r \in Robots
        PROVE  /\ rob[r].activity \in RobotActivity /\ rob[r].health \in RobotHealth
               /\ rob[r].battery \in 0 .. Capacity
               /\ rob[r].zone \in Zones \cup {None} /\ rob[r].at \in Places \cup {"transit"}
               /\ rob[r].awaiting = (\E i \in DOMAIN helpLine : helpLine[i] = r)
    <3>1. rob[r] \in Robot
      BY RobotFacts
    <3>2. rob[r].awaiting = (\E i \in DOMAIN helpLine : helpLine[i] = r)
      BY DEF Inv, Fits, HelpFit, In
    <3> QED
      BY <3>1, <3>2 DEF Robot
  <2>2. DOMAIN open = Zones \cup Stations /\ faults \in 0 .. MaxFaults
    BY DEF Inv
  <2> QED
    BY <2>1, <2>2, LedgerFacts DEF TypeOK
<1>2. EveryBallIsSomewhere
  <2>1. Total(balls, Locations) = TotalBalls /\ \A s \in Stations : balls[s] <= BufferCapacity
    BY DEF Inv, LedgerFit
  <2>2. ASSUME NEW r \in Robots PROVE rob[r].payload = balls[r] /\ balls[r] <= PayloadCapacity
    <3>1. rob[r] \in Robot /\ rob[r].payload = balls[r]
      BY RobotFacts
    <3>2. rob[r].payload \in 0 .. PayloadCapacity
      BY <3>1 DEF Robot
    <3> QED
      BY <3>1, <3>2, ScenarioAssumption
  <2> QED
    BY <2>1, <2>2 DEF EveryBallIsSomewhere
<1>3. LatchedShowsAsStopped
  BY RobotFacts DEF LatchedShowsAsStopped, Sound
<1>4. AssignmentsAreWorkedOn
  <2>1. ASSUME NEW r \in Robots
        PROVE  /\ rob[r].zone # None => /\ rob[r].activity \in {"traveling", "collecting"}
                                        /\ open[rob[r].zone]
               /\ rob[r].task # "none" <=> rob[r].activity \in ActiveActivities
    <3>1. Sound(rob[r]) /\ rob[r] \in Robot
      BY RobotFacts
    <3>2. rob[r].zone # None => open[rob[r].zone]
      BY DEF Inv, Fits, ZonesFit
    <3>3. rob[r].task \in {"none", "travel", "collect", "queued", "dock", "unload", "blocked", "connect", "charging"}
      BY <3>1 DEF Robot, Tasks, Queueing, Holding
    <3>4. rob[r].task # "none" <=> rob[r].activity \in ActiveActivities
      BY <3>1, <3>3 DEF Sound, ActiveActivities
    <3> QED
      BY <3>1, <3>2, <3>4 DEF Sound
  <2> QED
    BY <2>1 DEF AssignmentsAreWorkedOn
<1>5. SlotsAreHeldByWorkers
  <2>1. LinesFit(rob, line)
    BY DEF Inv, Fits
  <2>2. DOMAIN line = Docks
    BY <2>1 DEF LinesFit
  <2>3. Queueing = {"queued", "dock", "unload", "blocked", "connect", "charging"}
    BY DEF Queueing, Holding
  <2>4. ASSUME NEW r \in Robots, rob[r].task \in Holding PROVE HasSlot(rob[r].goal, r)
    BY <2>1, <2>4 DEF LinesFit, HasSlot, AmongFirst
  <2>5. \A r \in Robots, p \in DOMAIN line :
          (\E i \in DOMAIN line[p] : line[p][i] = r) <=> rob[r].goal = p /\ rob[r].task \in Queueing
    BY <2>1, <2>2 DEF LinesFit, In
  <2>6. \A s \in Stations : Len(line[s]) <= DockSlots + MaxQueueLength
    BY <2>1 DEF LinesFit
  <2> QED
    BY <2>3, <2>4, <2>5, <2>6 DEF SlotsAreHeldByWorkers, Holding
<1>6. OccupancyIsCapped
  BY DEF Inv, Fits, Capped, OccupancyIsCapped
<1> QED
  BY <1>1, <1>2, <1>3, <1>4, <1>5, <1>6 DEF RangeIsConsistent

LEMMA InitInv == Init => Inv
<1> SUFFICES ASSUME Init PROVE Inv
  OBVIOUS
<1>1. NewRobot \in SoundRobot
  <2>1. "charger" \in Places
    BY DEF Places
  <2>2. InitialBattery \in 0 .. Capacity /\ 0 \in 0 .. PayloadCapacity
    BY ScenarioAssumption
  <2>3. NewRobot \in Robot
    BY <2>1, <2>2 DEF NewRobot, Robot, RobotActivity, RobotHealth, Tasks
  <2>4. Sound(NewRobot)
    BY DEF NewRobot, Sound, ActiveActivities
  <2> QED
    BY <2>3, <2>4 DEF SoundRobot
<1>2. /\ rob = [r \in Robots |-> NewRobot] /\ helpLine = <<>>
      /\ line = [p \in Docks |-> <<>>] /\ open = [p \in Zones \cup Stations |-> TRUE]
      /\ faults = 0
  BY DEF Init, Docks
<1>3. /\ rob \in [Robots -> SoundRobot]
      /\ \A r \in Robots : /\ rob[r].zone = None /\ rob[r].task = "none" /\ rob[r].payload = 0
                           /\ rob[r].awaiting = FALSE
  BY <1>1, <1>2 DEF NewRobot
<1>4. ZonesFit(rob, open) /\ HelpFit(rob, helpLine)
  <2>1. ZonesFit(rob, open)
    BY <1>3 DEF ZonesFit
  <2>2. helpLine \in Seq(Robots) /\ \A r \in Robots : In(helpLine, r) = FALSE
    BY <1>2 DEF In
  <2> QED
    BY <1>3, <2>1, <2>2 DEF HelpFit
<1>5. LinesFit(rob, line)
  <2>1. line \in [Docks -> Seq(Robots)]
    BY <1>2
  <2>2. \A p \in Docks : \A r : ~ In(line[p], r)
    BY <1>2 DEF In
  <2>3. \A r \in Robots : rob[r].task \notin Queueing /\ rob[r].task \notin Holding
    BY <1>3 DEF Queueing, Holding
  <2>4. \A s \in Stations : Len(line[s]) <= DockSlots + MaxQueueLength
    <3>1. \A s \in Stations : line[s] = <<>> /\ Len(line[s]) = 0
      BY <1>2 DEF Docks
    <3>2. DockSlots + MaxQueueLength \in Nat
      BY ScenarioAssumption
    <3> QED
      BY <3>1, <3>2
  <2> QED
    BY <2>1, <2>2, <2>3, <2>4 DEF LinesFit
<1>6. Capped(rob)
  <2>1. ASSUME NEW z \in Zones
        PROVE  Cardinality({r \in Robots : rob[r].zone = z}) <= MaxRobotsPerZone
    <3>1. {r \in Robots : rob[r].zone = z} = {}
      BY <1>3, IdAssumption
    <3>2. Cardinality({r \in Robots : rob[r].zone = z}) = 0
      BY <3>1, FS_EmptySet
    <3> QED
      BY <3>2, ScenarioAssumption
  <2> QED
    BY <2>1 DEF Capped
<1>7. LedgerFit(balls) /\ BasketsFit(rob, balls)
  <2>1. PICK n \in [Locations -> 0 .. TotalBalls] :
          /\ \A x \in Locations \ ({"dispenser"} \cup Zones) : n[x] = 0
          /\ Total(n, Locations) = TotalBalls
          /\ balls = n
    BY DEF Init
  <2>2. \A x \in Robots \cup Stations : balls[x] = 0
    BY <2>1, IdAssumption DEF Locations
  <2>3. balls \in [Locations -> Nat] /\ Total(balls, Locations) = TotalBalls
    BY <2>1
  <2>4. \A s \in Stations : balls[s] <= BufferCapacity
    BY <2>2, ScenarioAssumption
  <2> QED
    BY <1>3, <2>2, <2>3, <2>4 DEF LedgerFit, BasketsFit
<1>8. open \in [Zones \cup Stations -> BOOLEAN] /\ faults \in 0 .. MaxFaults
  BY <1>2, ScenarioAssumption
<1> QED
  BY <1>3, <1>4, <1>5, <1>6, <1>7, <1>8 DEF Inv, Fits

-----------------------------------------------------------------------------
(* The steps.                                                              *)

LEMMA RestsSucceeds ==
  ASSUME NEW new, NEW rb, NEW old, Rests(new, rb), rb.awaiting = old.awaiting
  PROVE  Succeeds(new, old)
BY DEF Rests, Succeeds

LEMMA WorksSucceeds ==
  ASSUME NEW new, NEW rb, NEW old, NEW T, Works(new, rb, T), rb.awaiting = old.awaiting,
         rb.goal = old.goal, rb.zone = old.zone,
         \/ T \subseteq Holding /\ old.task \in Holding
         \/ T \cap Queueing = {} /\ old.task \notin Queueing
  PROVE  Succeeds(new, old)
<1>1. /\ new \in SoundRobot /\ new.zone = old.zone /\ new.awaiting = old.awaiting
      /\ new.goal = old.goal /\ new.task \in T
  BY DEF Works
<1>2. Stays(new, old)
  BY <1>1 DEF Stays, Queueing
<1> QED
  BY <1>1, <1>2 DEF Succeeds

LEMMA SetFits ==
  ASSUME Inv, NEW r \in Robots, NEW new, Succeeds(new, rob[r]), Set(r, new)
  PROVE  Fits(rob', open, line', helpLine)
<1>1. Fits(rob, open, line, helpLine)
  BY DEF Inv
<1>2. rob' = [rob EXCEPT ![r] = new]
  BY DEF Set
<1>3. line' = IF new.task = "none" THEN KeptLines(line, Robots \ {r}) ELSE line
  BY DEF Set, Leaving, Without, KeptLines
<1> QED
  BY <1>1, <1>2, <1>3, FitsOne

\* A step of one robot that moves no balls.
LEMMA QuietStep ==
  ASSUME Inv, NEW r \in Robots, NEW new, Succeeds(new, rob[r]), Set(r, new),
         new.payload = rob[r].payload, UNCHANGED <<balls, open, helpLine>>,
         faults' \in 0 .. MaxFaults
  PROVE  Inv'
<1>1. Fits(rob', open', line', helpLine')
  BY SetFits
<1>2. LedgerFit(balls')
  BY DEF Inv
<1>3. BasketsFit(rob', balls')
  BY DEF Inv, Fits, BasketsFit, Set
<1>4. open' \in [Zones \cup Stations -> BOOLEAN]
  BY DEF Inv
<1> QED
  BY <1>1, <1>2, <1>3, <1>4 DEF Inv

LEMMA FaultCount == Inv /\ (Fault \/ UNCHANGED faults) => faults' \in 0 .. MaxFaults
BY ScenarioAssumption DEF Inv, Fault

LEMMA ArriveStep ==
  ASSUME Inv, NEW r \in Robots, Arrive(r), UNCHANGED <<open, helpLine>>
  PROVE  Inv'
<1> DEFINE old == rob[r]
           rb == Arrived(rob[r])
           goal == rob[r].goal
<1>1. /\ old \in SoundRobot /\ old \in Robot /\ Sound(old) /\ old.payload = balls[r]
      /\ old.task = "travel"
  BY RobotFacts DEF Arrive
<1>2. goal \in Places /\ old.activity = "traveling" /\ ~ old.latched
  BY <1>1 DEF Sound
<1>3. \/ Rests(rb, old) /\ rb.activity = "failed"
      \/ Works(rb, old, {"travel"}) /\ rb.activity = "traveling"
  BY <1>1, ArrivedFacts
<1>4. faults' \in 0 .. MaxFaults /\ UNCHANGED <<balls, open, helpLine>>
  BY FaultCount DEF Arrive
<1>5. \/ rb.activity = "failed" /\ Set(r, rb)
      \/ goal \in Zones /\ rb.activity # "failed" /\ Set(r, NextCycle(rb, balls))
      \/ goal \in Stations /\ rb.activity # "failed" /\ Set(r, Released(rb, "idle"))
      \/ /\ rb.activity # "failed" /\ goal \in Docks
         /\ goal \in Stations => Accepts(goal)
         /\ rob' = [rob EXCEPT ![r] = [Becoming(rb, IF goal = "charger" THEN "queued_charger" ELSE "queued_handoff")
                                         EXCEPT !.task = "queued"]]
         /\ Joining(r, goal)
  <2>1. "charger" \notin Stations /\ "charger" \notin Zones /\ Zones \cap Stations = {}
    BY IdAssumption
  <2>2. goal \in Zones \/ goal \in Stations \/ goal = "charger"
    BY <1>2 DEF Places
  <2> USE DEF Docks
  <2>3. CASE rb.activity = "failed"
    BY <2>3 DEF Arrive
  <2>4. CASE rb.activity # "failed" /\ goal \in Zones
    BY <2>1, <2>4 DEF Arrive
  <2>5. CASE rb.activity # "failed" /\ goal \in Stations /\ ~ Accepts(goal)
    BY <2>1, <2>5 DEF Arrive
  <2>6. CASE rb.activity # "failed" /\ goal \in Stations /\ Accepts(goal)
    BY <2>1, <2>6 DEF Arrive
  <2>7. CASE rb.activity # "failed" /\ goal = "charger"
    BY <2>1, <2>7 DEF Arrive
  <2> QED
    BY <2>2, <2>3, <2>4, <2>5, <2>6, <2>7
<1>6. CASE rb.activity = "failed" /\ Set(r, rb)
  <2>1. Rests(rb, old)
    BY <1>3, <1>6
  <2>2. Succeeds(rb, old) /\ rb.payload = old.payload
    BY <2>1, RestsSucceeds DEF Rests
  <2> HIDE DEF rb
  <2> QED
    BY <1>4, <1>6, <2>2, QuietStep
<1>7. CASE rb.activity # "failed"
  <2>1. Works(rb, old, {"travel"}) /\ rb.activity = "traveling"
    BY <1>3, <1>7
  <2>2. /\ rb \in SoundRobot /\ rb \in Robot /\ Sound(rb) /\ rb.task = "travel"
        /\ rb.goal = goal /\ rb.zone = old.zone /\ rb.payload = old.payload
        /\ rb.awaiting = old.awaiting
    BY <2>1 DEF Works, SoundRobot
  <2>3. ~ rb.latched /\ (rb.zone # None => rb.goal = rb.zone)
    BY <2>1, <2>2 DEF Sound
  <2>4. old.task \notin Queueing
    BY <1>1 DEF Queueing, Holding
  <2> HIDE DEF rb
  <2>5. CASE goal \in Zones /\ Set(r, NextCycle(rb, balls))
    <3> DEFINE new == NextCycle(rb, balls)
    <3>1. balls[rb.goal] \in Nat
      BY <2>2, <2>5, LedgerFacts DEF Locations
    <3>2. Rests(new, rb) \/ Works(new, rb, {"collect"})
      BY <2>2, <2>3, <2>5, <3>1, NextCycleFacts
    <3> HIDE DEF new
    <3>3. Succeeds(new, old)
      <4>1. CASE Rests(new, rb)
        BY <2>2, <4>1, RestsSucceeds
      <4>2. CASE Works(new, rb, {"collect"})
        <5>1. {"collect"} \cap Queueing = {}
          BY DEF Queueing, Holding
        <5> QED
          BY <2>2, <2>4, <4>2, <5>1, WorksSucceeds
      <4> QED
        BY <3>2, <4>1, <4>2
    <3>4. new.payload = old.payload
      BY <2>2, <3>2 DEF Rests, Works
    <3>5. Set(r, new)
      BY <2>5 DEF new
    <3> QED
      BY <1>4, <3>3, <3>4, <3>5, QuietStep
  <2>6. CASE goal \in Stations /\ Set(r, Released(rb, "idle"))
    <3> DEFINE new == Released(rb, "idle")
    <3>1. "idle" \in RobotActivity \ ActiveActivities
      BY DEF RobotActivity, ActiveActivities
    <3>2. Rests(new, rb)
      BY <2>2, <2>3, <3>1, ReleasedFacts
    <3>3. Set(r, new)
      BY <2>6
    <3> HIDE DEF new
    <3>4. Succeeds(new, old) /\ new.payload = old.payload
      BY <2>2, <3>2, RestsSucceeds DEF Rests
    <3> QED
      BY <1>4, <3>3, <3>4, QuietStep
  <2>7. CASE /\ goal \in Docks
             /\ goal \in Stations => Accepts(goal)
             /\ rob' = [rob EXCEPT ![r] = [Becoming(rb, IF goal = "charger" THEN "queued_charger" ELSE "queued_handoff")
                                             EXCEPT !.task = "queued"]]
             /\ Joining(r, goal)
    <3> DEFINE a == IF goal = "charger" THEN "queued_charger" ELSE "queued_handoff"
               new == [Becoming(rb, a) EXCEPT !.task = "queued"]
    <3>1. a \in RobotActivity
      BY DEF RobotActivity
    <3>2. /\ new \in Robot /\ new.task = "queued" /\ new.activity = a /\ new.goal = goal
          /\ new.zone = rb.zone /\ new.payload = rb.payload /\ new.awaiting = rb.awaiting
          /\ new.latched = rb.latched
      <4> HIDE DEF a
      <4> QED
        BY <2>2, <3>1 DEF Becoming, Robot, Tasks, Queueing
    <3>3. goal \notin Zones /\ (goal = "charger" \/ (goal \in Stations /\ goal # "charger"))
      BY <2>7, IdAssumption DEF Docks
    <3>4. rb.zone = None
      <4>1. rb.zone \in Zones \cup {None}
        BY <2>2 DEF Robot
      <4> QED
        BY <2>2, <2>3, <3>3, <4>1
    <3>5. new \in SoundRobot
      <4> HIDE DEF new
      <4> QED
        BY <2>3, <3>2, <3>3, <3>4 DEF Sound, SoundRobot
    <3>6. rob' = [rob EXCEPT ![r] = new] /\ line' = [line EXCEPT ![goal] = Append(line[goal], r)]
      BY <2>7 DEF Joining
    <3> HIDE DEF new
    <3>7. /\ rob \in [Robots -> SoundRobot] /\ LinesFit(rob, line) /\ Capped(rob)
          /\ ZonesFit(rob, open) /\ HelpFit(rob, helpLine)
      BY DEF Inv, Fits
    <3>8. /\ rob' \in [Robots -> SoundRobot] /\ rob'[r] = new
          /\ \A o \in Robots \ {r} : rob'[o] = rob[o]
      BY <3>5, <3>6, <3>7
    <3>9. goal \in Stations => Len(line[goal]) < DockSlots + MaxQueueLength
      BY <2>7 DEF Accepts
    <3>10. LinesFit(rob', line')
      BY <2>4, <2>7, <3>2, <3>6, <3>7, <3>8, <3>9, LinesJoined
    <3>11. \A o \in Robots : rob'[o].zone \in {rob[o].zone, None} /\ rob'[o].awaiting = rob[o].awaiting
                             /\ rob'[o].payload = rob[o].payload
      BY <2>2, <3>2, <3>4, <3>8
    <3>12. Capped(rob')
      BY <3>7, <3>11, CappedShrinks
    <3>13. ZonesFit(rob', open') /\ HelpFit(rob', helpLine')
      BY <1>4, <3>7, <3>11 DEF ZonesFit, HelpFit
    <3>14. LedgerFit(balls') /\ BasketsFit(rob', balls') /\ open' \in [Zones \cup Stations -> BOOLEAN]
      BY <1>4, <3>11 DEF Inv, BasketsFit
    <3> QED
      BY <1>4, <3>8, <3>10, <3>12, <3>13, <3>14 DEF Inv, Fits
  <2> QED
    BY <1>5, <1>7, <2>5, <2>6, <2>7
<1> QED
  BY <1>5, <1>6, <1>7

\* A step of one robot in which nobody leaves or joins a line.
LEMMA InPlaceStep ==
  ASSUME Inv, NEW r \in Robots, NEW new, new \in SoundRobot,
         rob' = [rob EXCEPT ![r] = new], UNCHANGED <<balls, line, open, helpLine>>,
         new.zone = rob[r].zone, new.awaiting = rob[r].awaiting, new.payload = rob[r].payload,
         new.task \in Queueing <=> rob[r].task \in Queueing,
         new.task \in Queueing => new.goal = rob[r].goal,
         new.task \in Holding => \/ rob[r].task \in Holding
                                 \/ AmongFirst(line[new.goal], r, Slots(new.goal)),
         faults' \in 0 .. MaxFaults
  PROVE  Inv'
<1>1. rob \in [Robots -> SoundRobot] /\ Fits(rob, open, line, helpLine)
  BY DEF Inv, Fits
<1>2. rob' \in [Robots -> SoundRobot] /\ rob'[r] = new /\ \A o \in Robots \ {r} : rob'[o] = rob[o]
  BY <1>1
<1>3. \A o \in Robots : /\ rob'[o].zone \in {rob[o].zone, None} /\ rob'[o].awaiting = rob[o].awaiting
                        /\ rob'[o].payload = rob[o].payload
  BY <1>2
<1>4. \A o \in Robots : /\ rob'[o].task \in Queueing <=> rob[o].task \in Queueing
                        /\ rob'[o].task \in Queueing => rob'[o].goal = rob[o].goal
                        /\ rob'[o].task \in Holding =>
                             \/ rob[o].task \in Holding
                             \/ AmongFirst(line[rob'[o].goal], o, Slots(rob'[o].goal))
  BY <1>2
<1>5. Fits(rob', open, line, helpLine)
  BY <1>1, <1>2, <1>3, <1>4, FitsSame
<1>6. LedgerFit(balls') /\ BasketsFit(rob', balls') /\ open' \in [Zones \cup Stations -> BOOLEAN]
  BY <1>3 DEF Inv, BasketsFit
<1> QED
  BY <1>5, <1>6 DEF Inv

\* A step of one robot that moves balls out of its basket or into it.
LEMMA BasketStep ==
  ASSUME Inv, NEW r \in Robots, NEW new, Succeeds(new, rob[r]), Set(r, new),
         LedgerFit(balls'), new.payload = balls'[r],
         \A o \in Robots \ {r} : balls'[o] = balls[o],
         UNCHANGED <<open, helpLine, faults>>
  PROVE  Inv'
<1>1. Fits(rob', open', line', helpLine')
  BY SetFits
<1>2. rob' = [rob EXCEPT ![r] = new] /\ rob \in [Robots -> SoundRobot]
  BY DEF Set, Inv, Fits
<1>3. BasketsFit(rob', balls')
  <2>1. rob'[r] = new /\ \A o \in Robots \ {r} : rob'[o] = rob[o]
    BY <1>2
  <2> QED
    BY <2>1 DEF Inv, BasketsFit
<1> QED
  BY <1>1, <1>3 DEF Inv

\* What a skill draws changes the battery alone.
LEMMA DrainedKeeps ==
  ASSUME NEW rb \in Robot, NEW energy \in Nat
  PROVE  LET new == Drained(rb, energy) IN
         /\ new \in Robot
         /\ Sound(rb) => Sound(new)
         /\ new.activity = rb.activity /\ new.health = rb.health
         /\ new.payload = rb.payload /\ new.zone = rb.zone /\ new.at = rb.at
         /\ new.latched = rb.latched /\ new.awaiting = rb.awaiting /\ new.task = rb.task
         /\ new.goal = rb.goal /\ new.lot = rb.lot /\ new.leg = rb.leg
         /\ new.attempts = rb.attempts
<1>1. PICK b \in 0 .. Capacity : Drained(rb, energy) = [rb EXCEPT !.battery = b]
  BY DrainedFacts
<1> QED
  BY <1>1, BatteryOnly

LEMMA EnergyIsNatural == ASSUME NEW e \in Energy PROVE e \in Nat
BY DEF Energy

\* A robot that fails at its task.
LEMMA FailStep ==
  ASSUME Inv, NEW r \in Robots, ~ rob[r].latched, NEW energy \in Nat,
         Set(r, Failing(Drained(rob[r], energy))),
         UNCHANGED <<balls, open, helpLine>>, faults' \in 0 .. MaxFaults
  PROVE  Inv'
<1> DEFINE rb == Drained(rob[r], energy)
           new == Failing(rb)
<1>1. rob[r] \in Robot
  BY RobotFacts
<1>2. /\ rb \in Robot /\ ~ rb.latched /\ rb.payload = rob[r].payload
      /\ rb.awaiting = rob[r].awaiting
  BY <1>1, DrainedKeeps
<1>3. Set(r, new)
  OBVIOUS
<1> HIDE DEF rb
<1>4. Rests(new, rb)
  BY <1>2, FailingFacts
<1> HIDE DEF new
<1>5. Succeeds(new, rob[r]) /\ new.payload = rob[r].payload
  BY <1>2, <1>4, RestsSucceeds DEF Rests
<1> QED
  BY <1>3, <1>5, QuietStep

LEMMA StrandStep ==
  ASSUME Inv, NEW r \in Robots, Strand(r), UNCHANGED <<open, helpLine>>
  PROVE  Inv'
<1>1. rob[r] \in Robot /\ Sound(rob[r]) /\ rob[r].task = "travel"
  BY RobotFacts DEF Strand
<1>2. ~ rob[r].latched /\ rob[r].leg \in Nat
  BY <1>1 DEF Sound, Robot
<1>3. Set(r, Failing(Drained(rob[r], rob[r].leg))) /\ UNCHANGED balls /\ faults' \in 0 .. MaxFaults
  BY FaultCount DEF Strand
<1> QED
  BY <1>2, <1>3, FailStep

LEMMA CollectCycleFailsStep ==
  ASSUME Inv, NEW r \in Robots, CollectCycleFails(r), UNCHANGED <<open, helpLine>>
  PROVE  Inv'
<1>1. rob[r] \in Robot /\ Sound(rob[r]) /\ rob[r].task = "collect"
  BY RobotFacts DEF CollectCycleFails
<1>2. ~ rob[r].latched
  BY <1>1 DEF Sound
<1>3. PICK energy \in Energy : Set(r, Failing(Drained(rob[r], energy)))
  BY DEF CollectCycleFails
<1>4. UNCHANGED balls /\ faults' \in 0 .. MaxFaults /\ energy \in Nat
  BY FaultCount, EnergyIsNatural DEF CollectCycleFails
<1> QED
  BY <1>2, <1>3, <1>4, FailStep

LEMMA CollectCycleDoneStep ==
  ASSUME Inv, NEW r \in Robots, CollectCycleDone(r), UNCHANGED <<open, helpLine>>
  PROVE  Inv'
<1> DEFINE old == rob[r]
<1>1. PICK energy \in Energy :
         LET rb == Drained(rob[r], energy)
             n == Moved(balls, rb.goal, rb.lot)
         IN  /\ rb.task = "collect"
             /\ balls' = Move(balls, rb.goal, r, rb.lot)
             /\ Set(r, NextCycle([rb EXCEPT !.payload = @ + n], balls'))
             /\ UNCHANGED faults
  BY DEF CollectCycleDone
<1> DEFINE rb == Drained(rob[r], energy)
           n == Moved(balls, rb.goal, rb.lot)
           full == [rb EXCEPT !.payload = @ + n]
           new == NextCycle(full, balls')
<1>2. energy \in Nat
  BY EnergyIsNatural
<1>3. /\ old \in Robot /\ Sound(old) /\ old.payload = balls[r] /\ r \in Locations
  BY RobotFacts
<1>4. /\ rb \in Robot /\ Sound(rb) /\ rb.payload = old.payload /\ rb.zone = old.zone
      /\ rb.latched = old.latched /\ rb.awaiting = old.awaiting /\ rb.task = old.task
      /\ rb.goal = old.goal /\ rb.lot = old.lot
  BY <1>2, <1>3, DrainedKeeps
<1>5. /\ rb.task = "collect" /\ balls' = Move(balls, rb.goal, r, rb.lot)
      /\ Set(r, new) /\ UNCHANGED faults
  BY <1>1
<1> HIDE DEF rb
<1>6. /\ rb.goal \in Zones /\ rb.lot + rb.payload <= PayloadCapacity /\ ~ rb.latched
      /\ rb.zone # None => rb.goal = rb.zone
      /\ rb.lot \in Nat /\ rb.payload \in Nat
  BY <1>4, <1>5, ScenarioAssumption DEF Sound, Robot
<1>7. /\ rb.goal \in Locations /\ rb.goal # r
      /\ \A x \in Robots \cup Stations : x # rb.goal
      /\ \A s \in Stations : s # r
  BY <1>6, IdAssumption DEF Locations
<1>8. balls \in [Locations -> Nat]
  BY LedgerFacts
<1>9. n \in Nat /\ n <= rb.lot
  BY <1>6, <1>7, <1>8, MovedFacts
<1>10. /\ balls' \in [Locations -> Nat] /\ balls'[r] = balls[r] + n
       /\ \A x \in Locations : x # rb.goal /\ x # r => balls'[x] = balls[x]
       /\ Total(balls', Locations) = Total(balls, Locations)
  <2>1. rb.goal \in Locations /\ r \in Locations /\ rb.goal # r /\ rb.lot \in Nat
    BY <1>3, <1>6, <1>7
  <2>2. Carried(Move(balls, rb.goal, r, rb.lot), balls, rb.goal, r, n)
    BY <2>1, <1>8, MoveFacts
  <2>3. Carried(balls', balls, rb.goal, r, n)
    BY <2>2, <1>5
  <2> HIDE DEF n
  <2> QED
    BY <2>3 DEF Carried
<1> HIDE DEF n
<1>11. /\ full \in Robot /\ full.payload = rb.payload + n /\ full.zone = rb.zone
       /\ full.latched = rb.latched /\ full.awaiting = rb.awaiting /\ full.goal = rb.goal
  <2>1. rb.payload + n \in 0 .. PayloadCapacity
    BY <1>6, <1>9, ScenarioAssumption
  <2> QED
    BY <1>4, <2>1 DEF Robot
<1> HIDE DEF full
<1>12. PICK b : b = balls'
  OBVIOUS
<1>13. new = NextCycle(full, b)
  BY <1>12
<1>14. Rests(new, full) \/ Works(new, full, {"collect"})
  <2>1. b[full.goal] \in Nat
    BY <1>7, <1>10, <1>11, <1>12
  <2>2. ~ full.latched /\ full.goal \in Zones /\ (full.zone # None => full.goal = full.zone)
    BY <1>6, <1>11
  <2> HIDE DEF new
  <2> QED
    BY <1>11, <1>13, <2>1, <2>2, NextCycleFacts
<1> HIDE DEF new
<1>15. Succeeds(new, old)
  <2>1. {"collect"} \cap Queueing = {} /\ old.task \notin Queueing
    BY <1>4, <1>5 DEF Queueing, Holding
  <2>2. CASE Rests(new, full)
    BY <1>4, <1>11, <2>2, RestsSucceeds
  <2>3. CASE Works(new, full, {"collect"})
    BY <1>4, <1>11, <2>1, <2>3, WorksSucceeds
  <2> QED
    BY <1>14, <2>2, <2>3
<1>16. new.payload = balls'[r]
  <2>1. new.payload = full.payload
    BY <1>14 DEF Rests, Works
  <2> QED
    BY <2>1, <1>3, <1>4, <1>10, <1>11
<1>17. LedgerFit(balls')
  <2>1. \A s \in Stations : balls'[s] = balls[s]
    BY <1>7, <1>10 DEF Locations
  <2> QED
    BY <2>1, <1>10 DEF Inv, LedgerFit
<1>18. \A o \in Robots \ {r} : balls'[o] = balls[o]
  BY <1>7, <1>10 DEF Locations
<1> QED
  BY <1>5, <1>15, <1>16, <1>17, <1>18, BasketStep

LEMMA TakeSlotStep ==
  ASSUME Inv, NEW r \in Robots, TakeSlot(r), UNCHANGED <<open, helpLine>>
  PROVE  Inv'
<1> DEFINE old == rob[r]
           new == IF old.goal = "charger"
                  THEN [old EXCEPT !.activity = "charging", !.task = "connect"]
                  ELSE [old EXCEPT !.activity = "unloading", !.task = "dock", !.attempts = 1]
<1>1. /\ old \in SoundRobot /\ old \in Robot /\ Sound(old) /\ old.task = "queued"
      /\ HasSlot(old.goal, r) /\ rob \in [Robots -> SoundRobot] /\ LinesFit(rob, line)
  BY RobotFacts DEF TakeSlot, Inv, Fits
<1>2. rob' = [rob EXCEPT ![r] = new] /\ UNCHANGED <<balls, line, open, helpLine, faults>>
  BY <1>1 DEF TakeSlot
<1>3. \/ old.goal = "charger"
      \/ old.goal \in Stations /\ old.goal # "charger"
  BY <1>1, IdAssumption DEF Sound
<1>4. /\ new \in Robot /\ new.goal = old.goal /\ new.zone = old.zone
      /\ new.payload = old.payload /\ new.awaiting = old.awaiting /\ new.latched = old.latched
      /\ \/ new.task = "connect" /\ new.activity = "charging" /\ new.goal = "charger"
         \/ new.task = "dock" /\ new.activity = "unloading" /\ new.goal \in Stations
  <2>1. CASE old.goal = "charger"
    BY <1>1, <2>1 DEF Robot, RobotActivity, Tasks, Queueing, Holding
  <2>2. CASE old.goal \in Stations /\ old.goal # "charger"
    BY <1>1, <2>2 DEF Robot, RobotActivity, Tasks, Queueing, Holding
  <2> QED
    BY <1>3, <2>1, <2>2
<1> HIDE DEF new
<1>5. ~ old.latched /\ old.zone = None
  BY <1>1 DEF Sound
<1>6. new \in SoundRobot
  BY <1>4, <1>5 DEF Sound, SoundRobot
<1>7. AmongFirst(line[new.goal], r, Slots(new.goal))
  BY <1>1, <1>4 DEF HasSlot, AmongFirst
<1>8. new.task \in Queueing /\ old.task \in Queueing
  BY <1>1, <1>4 DEF Queueing, Holding
<1>9. faults' \in 0 .. MaxFaults
  BY <1>2, FaultCount
<1> HIDE DEF old
<1>10. new.zone = rob[r].zone /\ new.awaiting = rob[r].awaiting /\ new.payload = rob[r].payload
       /\ rob[r].task \in Queueing /\ new.goal = rob[r].goal
  BY <1>4, <1>8 DEF old
<1> QED
  BY <1>2, <1>6, <1>7, <1>8, <1>9, <1>10, InPlaceStep

LEMMA ConnectStep ==
  ASSUME Inv, NEW r \in Robots, Connect(r), UNCHANGED <<open, helpLine>>
  PROVE  Inv'
<1> DEFINE new == [rob[r] EXCEPT !.task = "charging"]
<1>1. /\ rob[r] \in Robot /\ Sound(rob[r]) /\ rob[r].task = "connect"
      /\ rob \in [Robots -> SoundRobot]
  BY RobotFacts DEF Connect, Inv, Fits
<1>2. rob' = [rob EXCEPT ![r] = new] /\ UNCHANGED <<balls, line, open, helpLine, faults>>
  BY DEF Connect
<1>3. /\ new \in Robot /\ new.goal = rob[r].goal /\ new.zone = rob[r].zone
      /\ new.payload = rob[r].payload /\ new.awaiting = rob[r].awaiting
      /\ new.latched = rob[r].latched /\ new.task = "charging"
      /\ new.activity = rob[r].activity
  BY <1>1 DEF Robot, Tasks, Queueing, Holding
<1> HIDE DEF new
<1>4. new \in SoundRobot
  BY <1>1, <1>3 DEF Sound, SoundRobot
<1>5. new.task \in Queueing /\ rob[r].task \in Queueing /\ rob[r].task \in Holding
  BY <1>1, <1>3 DEF Queueing, Holding
<1>6. faults' \in 0 .. MaxFaults
  BY <1>2, FaultCount
<1> QED
  BY <1>2, <1>3, <1>4, <1>5, <1>6, InPlaceStep

\* A robot at the dock, after whatever it drew.
LEMMA AtDock ==
  ASSUME Inv, NEW r \in Robots, NEW energy \in Energy,
         rob[r].task \in {"dock", "unload", "blocked"}
  PROVE  LET rb == Drained(rob[r], energy) IN
         /\ rb \in Robot /\ Sound(rb) /\ ~ rb.latched /\ rb.zone = None
         /\ rb.activity = "unloading" /\ rb.goal \in Stations /\ rb.goal \in Locations
         /\ rb.goal = rob[r].goal /\ rb.zone = rob[r].zone /\ rb.awaiting = rob[r].awaiting
         /\ rb.payload = rob[r].payload /\ rb.task = rob[r].task /\ rb.lot = rob[r].lot
         /\ rb.lot \in Nat /\ rb.payload \in Nat
         /\ rob[r].task \in Holding
<1> DEFINE rb == Drained(rob[r], energy)
<1>1. rob[r] \in Robot /\ Sound(rob[r])
  BY RobotFacts
<1>2. energy \in Nat
  BY EnergyIsNatural
<1>3. /\ rb \in Robot /\ Sound(rb) /\ rb.activity = rob[r].activity /\ rb.zone = rob[r].zone
      /\ rb.latched = rob[r].latched /\ rb.goal = rob[r].goal /\ rb.awaiting = rob[r].awaiting
      /\ rb.payload = rob[r].payload /\ rb.task = rob[r].task /\ rb.lot = rob[r].lot
  BY <1>1, <1>2, DrainedKeeps
<1> HIDE DEF rb
<1>4. rb.activity = "unloading" /\ rb.goal \in Stations /\ ~ rb.latched /\ rb.zone = None
  BY <1>1, <1>3 DEF Sound
<1>5. rb.lot \in Nat /\ rb.payload \in Nat
  BY <1>3, ScenarioAssumption DEF Robot
<1>6. rb.goal \in Locations
  BY <1>4 DEF Locations
<1>7. rob[r].task \in Holding
  BY DEF Holding
<1> QED
  BY <1>3, <1>4, <1>5, <1>6, <1>7 DEF rb

LEMMA DockStep ==
  ASSUME Inv, NEW r \in Robots, Dock(r), UNCHANGED <<open, helpLine>>
  PROVE  Inv'
<1>1. PICK energy \in Energy : Set(r, NextLot(Drained(rob[r], energy), balls))
  BY DEF Dock
<1>2. rob[r].task = "dock" /\ UNCHANGED <<balls, open, helpLine, faults>>
  BY DEF Dock
<1> DEFINE rb == Drained(rob[r], energy)
           new == NextLot(rb, balls)
<1>3. /\ rb \in Robot /\ ~ rb.latched /\ rb.zone = None
      /\ rb.activity = "unloading" /\ rb.goal \in Stations /\ rb.goal \in Locations
      /\ rb.goal = rob[r].goal /\ rb.zone = rob[r].zone /\ rb.awaiting = rob[r].awaiting
      /\ rb.payload = rob[r].payload /\ rob[r].task \in Holding
  BY <1>2, AtDock
<1>4. Set(r, new)
  BY <1>1
<1> HIDE DEF rb
<1>5. balls[rb.goal] \in Nat
  BY <1>3, LedgerFacts
<1>6. Rests(new, rb) \/ Works(new, rb, {"unload", "blocked"})
  BY <1>3, <1>5, NextLotFacts
<1> HIDE DEF new
<1>7. Succeeds(new, rob[r])
  <2>1. {"unload", "blocked"} \subseteq Holding
    BY DEF Holding
  <2> QED
    BY <1>3, <1>6, <2>1, RestsSucceeds, WorksSucceeds
<1>8. new.payload = rob[r].payload
  BY <1>3, <1>6 DEF Rests, Works
<1>9. faults' \in 0 .. MaxFaults
  BY <1>2, FaultCount
<1> QED
  BY <1>2, <1>4, <1>7, <1>8, <1>9, QuietStep

LEMMA UnblockStep ==
  ASSUME Inv, NEW r \in Robots, Unblock(r), UNCHANGED <<open, helpLine>>
  PROVE  Inv'
<1> DEFINE rb == rob[r]
           new == NextLot(rb, balls)
<1>1. rb.task = "blocked" /\ UNCHANGED <<balls, open, helpLine, faults>> /\ Set(r, new)
  BY DEF Unblock
<1>2. rb \in Robot /\ Sound(rb)
  BY RobotFacts
<1>3. /\ ~ rb.latched /\ rb.zone = None /\ rb.activity = "unloading" /\ rb.goal \in Stations
      /\ rb.task \in Holding
  BY <1>1, <1>2 DEF Sound, Holding
<1>4. balls[rb.goal] \in Nat
  BY <1>3, LedgerFacts DEF Locations
<1>5. Rests(new, rb) \/ Works(new, rb, {"unload", "blocked"})
  BY <1>2, <1>3, <1>4, NextLotFacts
<1> HIDE DEF new
<1>6. Succeeds(new, rob[r])
  <2>1. {"unload", "blocked"} \subseteq Holding
    BY DEF Holding
  <2> QED
    BY <1>3, <1>5, <2>1, RestsSucceeds, WorksSucceeds
<1>7. new.payload = rob[r].payload
  BY <1>5 DEF Rests, Works
<1>8. faults' \in 0 .. MaxFaults
  BY <1>1, FaultCount
<1> QED
  BY <1>1, <1>6, <1>7, <1>8, QuietStep

LEMMA DockFailsStep ==
  ASSUME Inv, NEW r \in Robots, DockFails(r), UNCHANGED <<open, helpLine>>
  PROVE  Inv'
<1>1. PICK energy \in Energy :
         LET rb == Drained(rob[r], energy)
         IN  \/ Set(r, Latching(rb))
             \/ rb.attempts > MaxDockRetries /\ Set(r, Failing(rb))
             \/ /\ rb.attempts <= MaxDockRetries
                /\ Set(r, [rb EXCEPT !.attempts = @ + 1])
  BY DEF DockFails
<1>2. rob[r].task = "dock" /\ UNCHANGED <<balls, open, helpLine, faults>>
  BY DEF DockFails
<1> DEFINE rb == Drained(rob[r], energy)
           again == [rb EXCEPT !.attempts = @ + 1]
<1>3. /\ rb \in Robot /\ Sound(rb) /\ ~ rb.latched /\ rb.goal = rob[r].goal
      /\ rb.zone = rob[r].zone /\ rb.awaiting = rob[r].awaiting /\ rb.task = "dock"
      /\ rb.payload = rob[r].payload /\ rob[r].task \in Holding
  BY <1>2, AtDock
<1>4. Set(r, Latching(rb)) \/ Set(r, Failing(rb)) \/ Set(r, again)
  BY <1>1
<1> HIDE DEF rb
<1>5. faults' \in 0 .. MaxFaults
  BY <1>2, FaultCount
<1>6. ASSUME NEW new, Rests(new, rb), Set(r, new) PROVE Inv'
  <2>1. Succeeds(new, rob[r]) /\ new.payload = rob[r].payload
    BY <1>3, <1>6, RestsSucceeds DEF Rests
  <2> QED
    BY <1>2, <1>5, <1>6, <2>1, QuietStep
<1>7. CASE Set(r, Latching(rb))
  <2>1. Rests(Latching(rb), rb)
    BY <1>3, LatchingFacts
  <2> QED
    BY <1>6, <1>7, <2>1
<1>8. CASE Set(r, Failing(rb))
  <2>1. Rests(Failing(rb), rb)
    BY <1>3, FailingFacts
  <2> QED
    BY <1>6, <1>8, <2>1
<1>9. CASE Set(r, again)
  <2>1. /\ again \in Robot /\ again.goal = rb.goal /\ again.zone = rb.zone /\ again.task = "dock"
        /\ again.payload = rb.payload /\ again.awaiting = rb.awaiting
        /\ again.latched = rb.latched /\ again.activity = rb.activity
    BY <1>3 DEF Robot
  <2> HIDE DEF again
  <2>2. again \in SoundRobot
    BY <1>3, <2>1 DEF Sound, SoundRobot
  <2>3. Works(again, rb, {"dock"}) /\ {"dock"} \subseteq Holding
    BY <2>1, <2>2 DEF Works, Holding
  <2>4. Succeeds(again, rob[r])
    BY <1>3, <2>3, WorksSucceeds
  <2> QED
    BY <1>2, <1>3, <1>5, <1>9, <2>1, <2>4, QuietStep
<1> QED
  BY <1>4, <1>7, <1>8, <1>9

LEMMA ChargedStep ==
  ASSUME Inv, NEW r \in Robots, Charged(r), UNCHANGED <<open, helpLine>>
  PROVE  Inv'
<1> DEFINE free == Released(rob[r], "idle")
           new == [free EXCEPT !.battery = ChargeTarget]
<1>1. rob[r] \in Robot /\ Sound(rob[r]) /\ rob[r].task = "charging"
  BY RobotFacts DEF Charged
<1>2. ~ rob[r].latched
  BY <1>1 DEF Sound
<1>3. Rests(free, rob[r])
  <2>1. "idle" \in RobotActivity \ ActiveActivities
    BY DEF RobotActivity, ActiveActivities
  <2> QED
    BY <1>1, <1>2, <2>1, ReleasedFacts
<1>4. Set(r, new) /\ UNCHANGED <<balls, open, helpLine, faults>>
  BY DEF Charged
<1> HIDE DEF free
<1>5. ChargeTarget \in 0 .. Capacity
  BY ScenarioAssumption
<1>6. free \in Robot /\ Sound(free)
  BY <1>3 DEF Rests, SoundRobot
<1>7. Rests(new, rob[r])
  BY <1>3, <1>5, <1>6, BatteryOnly DEF Rests, SoundRobot
<1> HIDE DEF new
<1>8. Succeeds(new, rob[r]) /\ new.payload = rob[r].payload
  BY <1>7, RestsSucceeds DEF Rests
<1>9. faults' \in 0 .. MaxFaults
  BY <1>4, FaultCount
<1> QED
  BY <1>4, <1>8, <1>9, QuietStep

LEMMA SpontaneousFailureStep ==
  ASSUME Inv, NEW r \in Robots, SpontaneousFailure(r), UNCHANGED <<open, helpLine>>
  PROVE  Inv'
<1>1. /\ rob[r] \in Robot /\ Sound(rob[r]) /\ ~ rob[r].latched
      /\ rob \in [Robots -> SoundRobot]
  BY RobotFacts DEF SpontaneousFailure, Inoperative, Sound, Inv, Fits
<1>2. UNCHANGED <<balls, open, helpLine>> /\ faults' \in 0 .. MaxFaults
  BY FaultCount DEF SpontaneousFailure
<1>3. CASE rob' = [rob EXCEPT ![r].health = "degraded"] /\ UNCHANGED line
  <2> DEFINE new == [rob[r] EXCEPT !.health = "degraded"]
  <2>1. rob' = [rob EXCEPT ![r] = new]
    BY <1>3
  <2>2. /\ new \in Robot /\ new.goal = rob[r].goal /\ new.zone = rob[r].zone
        /\ new.payload = rob[r].payload /\ new.awaiting = rob[r].awaiting
        /\ new.latched = rob[r].latched /\ new.task = rob[r].task
        /\ new.activity = rob[r].activity /\ new.lot = rob[r].lot
    BY <1>1 DEF Robot, RobotHealth
  <2> HIDE DEF new
  <2>3. new \in SoundRobot
    BY <1>1, <2>2 DEF Sound, SoundRobot
  <2> QED
    BY <1>2, <1>3, <2>1, <2>2, <2>3, InPlaceStep
<1>4. CASE \E amount \in Energy : Set(r, Failing(Settled(rob[r], amount)))
  <2>1. PICK amount \in Energy : Set(r, Failing(Settled(rob[r], amount)))
    BY <1>4
  <2> DEFINE rb == Settled(rob[r], amount)
             new == Failing(rb)
  <2>2. PICK b \in 0 .. Capacity : rb = Idle(rob[r], b)
    BY <1>1, SettledFacts, EnergyIsNatural
  <2>3. /\ rb \in Robot /\ ~ rb.latched /\ rb.payload = rob[r].payload
        /\ rb.awaiting = rob[r].awaiting
    <3> HIDE DEF rb
    <3> QED
      BY <1>1, <2>2, IdleFacts
  <2>4. Set(r, new)
    BY <2>1
  <2> HIDE DEF rb
  <2>5. Rests(new, rb)
    BY <2>3, FailingFacts
  <2> HIDE DEF new
  <2>6. Succeeds(new, rob[r]) /\ new.payload = rob[r].payload
    BY <2>3, <2>5, RestsSucceeds DEF Rests
  <2> QED
    BY <1>2, <2>4, <2>6, QuietStep
<1> QED
  BY <1>3, <1>4 DEF SpontaneousFailure

LEMMA UnloadStep ==
  ASSUME Inv, NEW r \in Robots, Unload(r), UNCHANGED <<open, helpLine>>
  PROVE  Inv'
<1>1. PICK energy \in Energy :
         LET rb == Drained(rob[r], energy)
             room == IF Free(rb.goal, balls) > 0 THEN Free(rb.goal, balls) ELSE 0
             n == Moved(balls, r, Least({rb.lot, room}))
         IN  /\ rb.task = "unload"
             /\ balls' = Move(balls, r, rb.goal, n)
             /\ Set(r, NextLot([rb EXCEPT !.payload = @ - n], balls'))
             /\ UNCHANGED faults
  BY DEF Unload
<1> DEFINE rb == Drained(rob[r], energy)
           room == IF Free(rb.goal, balls) > 0 THEN Free(rb.goal, balls) ELSE 0
           most == Least({rb.lot, room})
           n == Moved(balls, r, most)
           rest == [rb EXCEPT !.payload = @ - n]
           new == NextLot(rest, balls')
<1>2. rob[r].task \in {"dock", "unload", "blocked"}
  <2>1. rob[r] \in Robot
    BY RobotFacts
  <2>2. Drained(rob[r], energy).task = rob[r].task
    BY <2>1, EnergyIsNatural, DrainedKeeps
  <2> QED
    BY <1>1, <2>2
<1>3. /\ rb \in Robot /\ ~ rb.latched /\ rb.zone = None
      /\ rb.activity = "unloading" /\ rb.goal \in Stations /\ rb.goal \in Locations
      /\ rb.goal = rob[r].goal /\ rb.zone = rob[r].zone /\ rb.awaiting = rob[r].awaiting
      /\ rb.payload = rob[r].payload /\ rb.lot \in Nat /\ rb.payload \in Nat
      /\ rob[r].task \in Holding
  BY <1>2, AtDock
<1>4. balls' = Move(balls, r, rb.goal, n) /\ Set(r, new) /\ UNCHANGED faults
  BY <1>1
<1> HIDE DEF rb
<1>5. /\ balls \in [Locations -> Nat] /\ r \in Locations /\ rb.goal # r
      /\ rb.payload = balls[r] /\ balls[rb.goal] \in Nat /\ balls[r] \in Nat
      /\ balls[rb.goal] <= BufferCapacity
      /\ \A x \in Robots : x # rb.goal
  BY <1>3, LedgerFacts, RobotFacts, IdAssumption
<1>6. room \in Nat /\ balls[rb.goal] + room <= BufferCapacity /\ BufferCapacity \in Nat
  <2>1. BufferCapacity \in Nat
    BY ScenarioAssumption
  <2> QED
    BY <1>5, <2>1 DEF Free
<1> HIDE DEF room
<1>7. most \in Nat /\ most <= room
  <2>1. rb.lot \in Int /\ room \in Int
    BY <1>3, <1>6
  <2> QED
    BY <1>3, <1>6, <2>1, LeastOfTwo
<1> HIDE DEF most
<1>8. n \in Nat /\ n <= most /\ n <= balls[r]
  BY <1>5, <1>7, MovedFacts
<1> HIDE DEF n
<1>9. Moved(balls, r, n) = n
  <2>1. n \in Int /\ balls[r] \in Int
    BY <1>5, <1>8
  <2>2. Moved(balls, r, n) \in {n, balls[r]} /\ Moved(balls, r, n) <= n
    BY <2>1, LeastOfTwo DEF Moved
  <2> QED
    BY <1>8, <2>1, <2>2
<1>10. /\ balls' \in [Locations -> Nat] /\ balls'[r] = balls[r] - n
       /\ balls'[rb.goal] = balls[rb.goal] + n
       /\ \A x \in Locations : x # rb.goal /\ x # r => balls'[x] = balls[x]
       /\ Total(balls', Locations) = Total(balls, Locations)
  <2>1. Carried(Move(balls, r, rb.goal, n), balls, r, rb.goal, n)
    BY <1>3, <1>5, <1>8, <1>9, MoveFacts
  <2>2. Carried(balls', balls, r, rb.goal, n)
    BY <2>1, <1>4
  <2> QED
    BY <2>2 DEF Carried
<1>11. /\ rest \in Robot /\ rest.payload = rb.payload - n /\ rest.zone = rb.zone
       /\ rest.latched = rb.latched /\ rest.awaiting = rb.awaiting /\ rest.goal = rb.goal
       /\ rest.activity = rb.activity
  <2>1. rb.payload - n \in 0 .. PayloadCapacity
    BY <1>3, <1>5, <1>8, ScenarioAssumption DEF Robot
  <2> QED
    BY <1>3, <2>1 DEF Robot
<1> HIDE DEF rest
<1>12. PICK b : b = balls'
  OBVIOUS
<1>13. new = NextLot(rest, b)
  BY <1>12
<1>14. Rests(new, rest) \/ Works(new, rest, {"unload", "blocked"})
  <2>1. b[rest.goal] \in Nat
    BY <1>3, <1>10, <1>11, <1>12
  <2>2. ~ rest.latched /\ rest.goal \in Stations /\ rest.zone = None /\ rest.activity = "unloading"
    BY <1>3, <1>11
  <2> HIDE DEF new
  <2> QED
    BY <1>11, <1>13, <2>1, <2>2, NextLotFacts
<1> HIDE DEF new
<1>15. Succeeds(new, rob[r])
  <2>1. {"unload", "blocked"} \subseteq Holding
    BY DEF Holding
  <2>2. CASE Rests(new, rest)
    BY <1>3, <1>11, <2>2, RestsSucceeds
  <2>3. CASE Works(new, rest, {"unload", "blocked"})
    BY <1>3, <1>11, <2>1, <2>3, WorksSucceeds
  <2> QED
    BY <1>14, <2>2, <2>3
<1>16. new.payload = balls'[r]
  <2>1. new.payload = rest.payload
    BY <1>14 DEF Rests, Works
  <2> QED
    BY <2>1, <1>5, <1>10, <1>11
<1>17. LedgerFit(balls')
  <2>1. ASSUME NEW s \in Stations PROVE balls'[s] <= BufferCapacity
    <3>1. s \in Locations /\ s # r
      BY IdAssumption DEF Locations
    <3>2. CASE s = rb.goal
      BY <3>2, <1>5, <1>6, <1>7, <1>8, <1>10
    <3>3. CASE s # rb.goal
      BY <3>1, <3>3, <1>10, LedgerFacts
    <3> QED
      BY <3>2, <3>3
  <2> QED
    BY <2>1, <1>10 DEF Inv, LedgerFit
<1>18. \A o \in Robots \ {r} : balls'[o] = balls[o]
  BY <1>5, <1>10 DEF Locations
<1> QED
  BY <1>4, <1>15, <1>16, <1>17, <1>18, BasketStep

\* A step of the facility that moves balls and leaves robots and baskets alone.
LEMMA LedgerStep ==
  ASSUME Inv, UNCHANGED <<rob, line, open, helpLine, faults>>,
         LedgerFit(balls'), \A r \in Robots : balls'[r] = balls[r]
  PROVE  Inv'
<1>1. Fits(rob', open', line', helpLine')
  BY DEF Inv
<1>2. BasketsFit(rob', balls')
  BY DEF Inv, BasketsFit
<1> QED
  BY <1>1, <1>2 DEF Inv

LEMMA DemandStep ==
  ASSUME Inv, Demand, UNCHANGED <<open, helpLine>>
  PROVE  Inv'
<1> DEFINE zones == {z \in Zones : open[z]}
<1>1. PICK requested \in 1 .. MaxDemand :
         LET served == Moved(balls, "dispenser", requested)
         IN  /\ served > 0
             /\ \E landed \in [zones -> 0 .. served] :
                  /\ Total(landed, zones) = served
                  /\ balls' = [x \in Locations |->
                                 IF x = "dispenser" THEN balls[x] - served
                                 ELSE IF x \in zones THEN balls[x] + landed[x] ELSE balls[x]]
  BY DEF Demand
<1> DEFINE served == Moved(balls, "dispenser", requested)
<1>2. balls \in [Locations -> Nat] /\ "dispenser" \in Locations /\ requested \in Nat
  BY LedgerFacts, ScenarioAssumption DEF Locations
<1>3. served \in Nat /\ served <= balls["dispenser"]
  BY <1>2, MovedFacts
<1>4. PICK landed \in [zones -> 0 .. served] :
        /\ Total(landed, zones) = served
        /\ balls' = [x \in Locations |->
                       IF x = "dispenser" THEN balls[x] - served
                       ELSE IF x \in zones THEN balls[x] + landed[x] ELSE balls[x]]
  BY <1>1
<1>5. zones \in SUBSET Zones
  OBVIOUS
<1> HIDE DEF served, zones
<1>6. PICK b : b = balls
  OBVIOUS
<1>7. PICK b2 : b2 = balls'
  OBVIOUS
<1>8. b2 = [x \in Locations |->
              IF x = "dispenser" THEN b[x] - served
              ELSE IF x \in zones THEN b[x] + landed[x] ELSE b[x]]
  BY <1>4, <1>6, <1>7
<1>9. /\ b2 \in [Locations -> Nat]
      /\ \A x \in Robots \cup Stations : b2[x] = b[x]
      /\ Total(b2, Locations) = Total(b, Locations)
  BY <1>2, <1>3, <1>4, <1>5, <1>6, <1>8, ServedFacts
<1>10. LedgerFit(balls') /\ \A r \in Robots : balls'[r] = balls[r]
  BY <1>6, <1>7, <1>9 DEF LedgerFit, Inv
<1>11. UNCHANGED <<rob, line, open, helpLine, faults>>
  BY DEF Demand
<1> QED
  BY <1>10, <1>11, LedgerStep

LEMMA WashDoneStep ==
  ASSUME Inv, WashDone, UNCHANGED <<open, helpLine>>
  PROVE  Inv'
<1> DEFINE n == balls["washer"]
           m == Moved(balls, "washer", n)
<1>1. /\ "washer" \in Locations /\ "dispenser" \in Locations
      /\ \A x \in Robots \cup Stations : x \in Locations /\ x # "washer" /\ x # "dispenser"
  BY IdAssumption DEF Locations
<1>2. balls \in [Locations -> Nat] /\ n \in Nat
  BY <1>1, LedgerFacts
<1>3. Carried(Move(balls, "washer", "dispenser", n), balls, "washer", "dispenser", m)
  <2> HIDE DEF n
  <2> QED
    BY <1>1, <1>2, MoveFacts
<1>4. balls' = Move(balls, "washer", "dispenser", n)
  BY DEF WashDone
<1> HIDE DEF m, n
<1>5. Carried(balls', balls, "washer", "dispenser", m)
  BY <1>3, <1>4
<1>6. LedgerFit(balls') /\ \A r \in Robots : balls'[r] = balls[r]
  BY <1>1, <1>5 DEF LedgerFit, Inv, Carried
<1>7. UNCHANGED <<rob, line, open, helpLine, faults>>
  BY DEF WashDone
<1> QED
  BY <1>6, <1>7, LedgerStep

LEMMA WashStartStep ==
  ASSUME Inv, WashStart, UNCHANGED <<open, helpLine>>
  PROVE  Inv'
<1> DEFINE batch == Least({WashBatch, Buffered})
           p == [s \in Stations |->
                   Pulled(CHOOSE i \in DOMAIN StationOrder : StationOrder[i] = s)]
           d == [x \in Locations |-> IF x \in Stations THEN p[x] ELSE 0]
           e == Point(Locations, "washer", batch)
<1>1. /\ balls["washer"] = 0
      /\ balls' = [x \in Locations |->
                     IF x = "washer" THEN batch
                     ELSE IF x \in Stations THEN balls[x] - p[x] ELSE balls[x]]
  BY DEF WashStart
<1>2. UNCHANGED <<rob, line, open, helpLine, faults>>
  BY DEF WashStart
<1>3. balls \in [Locations -> Nat]
  BY LedgerFacts
<1>4. /\ batch \in Nat
      /\ \A s \in Stations : p[s] \in Nat /\ p[s] <= balls[s]
      /\ Total(p, Stations) = batch
  BY <1>3, PulledFacts
<1>5. /\ "washer" \in Locations /\ "washer" \notin Stations /\ Stations \in SUBSET Locations
      /\ \A r \in Robots : r \in Locations /\ r # "washer" /\ r \notin Stations
  BY IdAssumption DEF Locations
<1> HIDE DEF p, batch
<1>6. ASSUME NEW x \in Locations
      PROVE  /\ balls[x] \in Nat /\ balls'[x] \in Nat /\ d[x] \in Nat /\ e[x] \in Nat
             /\ balls'[x] + d[x] = balls[x] + e[x]
  <2>1. e[x] = (IF x = "washer" THEN batch ELSE 0) /\ d[x] = (IF x \in Stations THEN p[x] ELSE 0)
    BY DEF Point
  <2>2. balls[x] \in Nat
    BY <1>3
  <2>3. balls'[x] = IF x = "washer" THEN batch
                    ELSE IF x \in Stations THEN balls[x] - p[x] ELSE balls[x]
    BY <1>1
  <2> HIDE DEF d, e
  <2>4. CASE x = "washer"
    BY <1>1, <1>4, <1>5, <2>1, <2>2, <2>3, <2>4
  <2>5. CASE x \in Stations
    <3>1. p[x] \in Nat /\ p[x] <= balls[x] /\ x # "washer"
      BY <1>4, <1>5, <2>5
    <3> QED
      BY <2>1, <2>2, <2>3, <2>5, <3>1
  <2>6. CASE x # "washer" /\ x \notin Stations
    BY <2>1, <2>2, <2>3, <2>6
  <2> QED
    BY <2>4, <2>5, <2>6
<1>7. Total(d, Locations) = batch
  <2>1. \A x \in Stations : d[x] = p[x] /\ p[x] \in Nat
    BY <1>4, <1>5
  <2>2. \A x \in Locations : d[x] \in Nat
    BY <1>6
  <2>3. \A x \in Locations \ Stations : d[x] = 0
    OBVIOUS
  <2> HIDE DEF d
  <2>4. Total(d, Locations) = Total(d, Stations)
    BY <1>5, <2>2, <2>3, LocationsAreFinite, TotalWithin
  <2>5. Total(d, Stations) = Total(p, Stations)
    BY <2>1, StationsAreFinite, TotalSame
  <2> QED
    BY <1>4, <2>4, <2>5
<1>8. Total(e, Locations) = batch
  BY <1>4, <1>5, LocationsAreFinite, TotalPoint
<1>9. PICK b : b = balls
  OBVIOUS
<1>10. PICK b2 : b2 = balls'
  OBVIOUS
<1>11. Total(b2, Locations) = Total(b, Locations)
  <2>1. \A x \in Locations : /\ b[x] \in Nat /\ b2[x] \in Nat /\ d[x] \in Nat /\ e[x] \in Nat
                             /\ b2[x] + d[x] = b[x] + e[x]
    BY <1>6, <1>9, <1>10
  <2> HIDE DEF d, e
  <2> QED
    BY <1>7, <1>8, <2>1, LocationsAreFinite, TotalExchange
<1>12. LedgerFit(balls')
  <2>1. balls' \in [Locations -> Nat]
    BY <1>1, <1>6
  <2>2. ASSUME NEW s \in Stations PROVE balls'[s] <= BufferCapacity
    <3>1. balls'[s] = balls[s] - p[s] /\ p[s] \in Nat /\ balls[s] \in Nat
      BY <1>1, <1>3, <1>4, <1>5
    <3>2. balls[s] <= BufferCapacity /\ BufferCapacity \in Nat
      BY LedgerFacts, ScenarioAssumption
    <3> QED
      BY <3>1, <3>2
  <2> QED
    BY <1>9, <1>10, <1>11, <2>1, <2>2 DEF LedgerFit, Inv
<1>13. \A r \in Robots : balls'[r] = balls[r]
  BY <1>1, <1>5
<1> QED
  BY <1>2, <1>12, <1>13, LedgerStep

LEMMA FacilityClosesStep ==
  ASSUME Inv, FacilityCloses, UNCHANGED <<open, helpLine>>
  PROVE  Inv'
BY DEF FacilityCloses, Inv

LEMMA ReopenStep ==
  ASSUME Inv, NEW p \in Zones \cup Stations, Reopen(p), UNCHANGED helpLine
  PROVE  Inv'
<1>1. open' = [open EXCEPT ![p] = TRUE] /\ UNCHANGED <<rob, balls, line, helpLine, faults>>
  BY DEF Reopen
<1>2. open \in [Zones \cup Stations -> BOOLEAN] /\ Fits(rob, open, line, helpLine)
  BY DEF Inv
<1>3. open' \in [Zones \cup Stations -> BOOLEAN]
  BY <1>1, <1>2
<1>4. ZonesFit(rob, open')
  <2>1. ASSUME NEW r \in Robots, rob[r].zone # None PROVE open'[rob[r].zone]
    <3>1. open[rob[r].zone] /\ rob[r].zone \in Zones
      BY <1>2, <2>1 DEF Fits, ZonesFit, SoundRobot, Robot
    <3> QED
      BY <1>1, <1>2, <3>1
  <2> QED
    BY <2>1 DEF ZonesFit
<1>5. Fits(rob, open', line, helpLine)
  BY <1>2, <1>4 DEF Fits
<1> QED
  BY <1>1, <1>3, <1>5 DEF Inv

\* A robot whose process is interrupted.
LEMMA InterruptedFacts ==
  ASSUME NEW rb \in SoundRobot, ~ rb.latched, NEW amount \in Nat
  PROVE  Rests(Released(Settled(rb, amount), "idle"), rb)
<1> DEFINE cut == Settled(rb, amount)
<1>1. rb \in Robot
  BY DEF SoundRobot
<1>2. PICK b \in 0 .. Capacity : cut = Idle(rb, b)
  BY <1>1, SettledFacts
<1>3. cut \in Robot /\ ~ cut.latched /\ cut.payload = rb.payload /\ cut.awaiting = rb.awaiting
  <2> HIDE DEF cut
  <2> QED
    BY <1>1, <1>2, IdleFacts
<1> HIDE DEF cut
<1>4. "idle" \in RobotActivity \ ActiveActivities
  BY DEF RobotActivity, ActiveActivities
<1>5. Rests(Released(cut, "idle"), cut)
  BY <1>3, <1>4, ReleasedFacts
<1>6. Rests(Released(cut, "idle"), rb)
  BY <1>3, <1>5 DEF Rests
<1> QED
  BY <1>6 DEF cut

\* Whoever is interrupted gives up its zone and its lines; who is not must not
\* be bound for what is closed.
LEMMA InterruptStep ==
  ASSUME Inv, NEW R \in SUBSET Robots, \A r \in R : ~ rob[r].latched, Interrupt(R),
         UNCHANGED <<balls, helpLine>>, faults' \in 0 .. MaxFaults,
         open' \in [Zones \cup Stations -> BOOLEAN],
         \A r \in Robots \ R : rob[r].zone # None => open'[rob[r].zone]
  PROVE  Inv'
<1> DEFINE K == Robots \ R
<1>1. PICK amount \in Energy :
        rob' = [r \in Robots |->
                  IF r \in R THEN Released(Settled(rob[r], amount), "idle") ELSE rob[r]]
  BY DEF Interrupt
<1>2. line' = KeptLines(line, K)
  BY DEF Interrupt, KeptLines
<1>3. rob \in [Robots -> SoundRobot] /\ Fits(rob, open, line, helpLine)
  BY DEF Inv, Fits
<1>4. ASSUME NEW r \in R PROVE Rests(rob'[r], rob[r])
  <2>1. rob'[r] = Released(Settled(rob[r], amount), "idle") /\ rob[r] \in SoundRobot
    BY <1>1, <1>3
  <2> QED
    BY <2>1, InterruptedFacts, EnergyIsNatural
<1>5. \A r \in K : rob'[r] = rob[r]
  BY <1>1
<1>6. rob' \in [Robots -> SoundRobot]
  <2>1. \A r \in Robots : rob'[r] \in SoundRobot
    BY <1>3, <1>4, <1>5 DEF Rests
  <2> QED
    BY <1>1, <2>1
<1>7. Parts(rob', rob, K)
  <2>1. \A r \in Robots : rob'[r].zone \in {rob[r].zone, None} /\ rob'[r].awaiting = rob[r].awaiting
    BY <1>4, <1>5 DEF Rests
  <2>2. \A r \in K : Stays(rob'[r], rob[r])
    BY <1>5 DEF Stays
  <2>3. \A r \in Robots \ K : rob'[r].task \notin Queueing
    BY <1>4 DEF Rests, Queueing, Holding
  <2> QED
    BY <1>6, <2>1, <2>2, <2>3 DEF Parts
<1>8. Fits(rob', open, line', helpLine)
  <2> HIDE DEF K
  <2> QED
    BY <1>2, <1>3, <1>7, FitsKept
<1>9. ZonesFit(rob', open')
  <2>1. ASSUME NEW r \in Robots, rob'[r].zone # None PROVE open'[rob'[r].zone]
    <3>1. r \in K
      BY <1>4, <2>1 DEF Rests
    <3> QED
      BY <1>5, <2>1, <3>1
  <2> QED
    BY <2>1 DEF ZonesFit
<1>10. Fits(rob', open', line', helpLine')
  BY <1>8, <1>9 DEF Fits
<1>11. BasketsFit(rob', balls') /\ LedgerFit(balls')
  <2>1. \A r \in Robots : rob'[r].payload = rob[r].payload
    BY <1>4, <1>5 DEF Rests
  <2> QED
    BY <2>1 DEF Inv, BasketsFit
<1> QED
  BY <1>10, <1>11 DEF Inv

LEMMA CloseZoneStep ==
  ASSUME Inv, NEW z \in Zones, CloseZone(z), UNCHANGED helpLine
  PROVE  Inv'
<1> DEFINE R == BoundFor(z)
<1>1. R \in SUBSET Robots
  BY DEF BoundFor
<1>2. z # None
  BY IdAssumption
<1>3. ASSUME NEW r \in R PROVE ~ rob[r].latched
  <2>1. r \in Robots /\ rob[r].zone = z
    BY DEF BoundFor
  <2>2. Sound(rob[r])
    BY <2>1, RobotFacts
  <2> QED
    BY <1>2, <2>1, <2>2 DEF Sound
<1>4. /\ open' = [open EXCEPT ![z] = FALSE] /\ Interrupt(R) /\ UNCHANGED balls
      /\ faults' \in 0 .. MaxFaults
  BY FaultCount DEF CloseZone
<1>5. open \in [Zones \cup Stations -> BOOLEAN] /\ ZonesFit(rob, open)
  BY DEF Inv, Fits
<1>6. open' \in [Zones \cup Stations -> BOOLEAN]
  BY <1>4, <1>5
<1>7. ASSUME NEW r \in Robots \ R, rob[r].zone # None PROVE open'[rob[r].zone]
  <2>1. open[rob[r].zone] /\ rob[r].zone # z /\ rob[r].zone \in Zones
    BY <1>5, <1>7, RobotFacts DEF ZonesFit, BoundFor, Robot
  <2> QED
    BY <1>4, <1>5, <2>1
<1> HIDE DEF R
<1> QED
  BY <1>1, <1>3, <1>4, <1>6, <1>7, InterruptStep

LEMMA StationOutageStep ==
  ASSUME Inv, NEW s \in Stations, StationOutage(s), UNCHANGED helpLine
  PROVE  Inv'
<1> DEFINE R == WorkingAt(s)
<1>1. R \in SUBSET Robots
  BY DEF WorkingAt
<1>2. ASSUME NEW r \in R PROVE ~ rob[r].latched
  <2>1. r \in Robots /\ rob[r].activity \in {"queued_handoff", "unloading"}
    BY DEF WorkingAt
  <2>2. Sound(rob[r])
    BY <2>1, RobotFacts
  <2> QED
    BY <2>1, <2>2 DEF Sound
<1>3. /\ open' = [open EXCEPT ![s] = FALSE] /\ Interrupt(R) /\ UNCHANGED balls
      /\ faults' \in 0 .. MaxFaults
  BY FaultCount DEF StationOutage
<1>4. open \in [Zones \cup Stations -> BOOLEAN] /\ ZonesFit(rob, open)
  BY DEF Inv, Fits
<1>5. open' \in [Zones \cup Stations -> BOOLEAN]
  BY <1>3, <1>4
<1>6. ASSUME NEW r \in Robots \ R, rob[r].zone # None PROVE open'[rob[r].zone]
  <2>1. rob[r].zone \in Zones /\ open[rob[r].zone]
    BY <1>4, <1>6, RobotFacts DEF ZonesFit, Robot
  <2>2. rob[r].zone # s
    BY <2>1, IdAssumption
  <2> QED
    BY <1>3, <1>4, <2>1, <2>2
<1> HIDE DEF R
<1> QED
  BY <1>1, <1>2, <1>3, <1>5, <1>6, InterruptStep

\* A robot without a place in any line.
LEMMA LeavingFits ==
  ASSUME Inv, NEW r \in Robots, NEW new \in SoundRobot, new.task \notin Queueing,
         rob' = [rob EXCEPT ![r] = new], line' = Leaving(r)
  PROVE  /\ rob' \in [Robots -> SoundRobot] /\ rob'[r] = new
         /\ \A o \in Robots \ {r} : rob'[o] = rob[o]
         /\ LinesFit(rob', line')
<1> DEFINE K == Robots \ {r}
<1>1. rob \in [Robots -> SoundRobot] /\ LinesFit(rob, line)
  BY DEF Inv, Fits
<1>2. rob' \in [Robots -> SoundRobot] /\ rob'[r] = new /\ \A o \in K : rob'[o] = rob[o]
  BY <1>1
<1>3. \A o \in K : Stays(rob'[o], rob[o])
  BY <1>2 DEF Stays
<1>4. \A o \in Robots \ K : rob'[o].task \notin Queueing
  BY <1>2
<1>5. line' = KeptLines(line, K) /\ K \in SUBSET Robots
  BY DEF Leaving, Without, KeptLines
<1>6. PICK r2 : r2 = rob'
  OBVIOUS
<1>7. PICK l2 : l2 = line'
  OBVIOUS
<1>8. LinesFit(r2, l2)
  <2>1. /\ r2 \in [Robots -> SoundRobot] /\ l2 = KeptLines(line, K)
        /\ \A o \in K : Stays(r2[o], rob[o])
        /\ \A o \in Robots \ K : r2[o].task \notin Queueing
    BY <1>2, <1>3, <1>4, <1>5, <1>6, <1>7
  <2> HIDE DEF K
  <2> QED
    BY <1>1, <1>5, <2>1, LinesKept
<1> QED
  BY <1>2, <1>6, <1>7, <1>8

LEMMA HelpedFacts ==
  ASSUME NEW rb \in Robot
  PROVE  LET new == Helped(rb) IN
         /\ new \in SoundRobot /\ new.task = "none" /\ new.zone = None
         /\ new.payload = rb.payload /\ new.awaiting = FALSE
<1> DEFINE free == Released(rb, "idle")
           charge == IF free.battery < MinReserve THEN MinReserve ELSE free.battery
           new == [free EXCEPT !.health = "ok", !.latched = FALSE, !.awaiting = FALSE,
                               !.battery = charge]
<1>1. "idle" \in RobotActivity /\ "ok" \in RobotHealth /\ "idle" \notin ActiveActivities
  BY DEF RobotActivity, RobotHealth, ActiveActivities
<1>2. /\ free \in Robot /\ free.task = "none" /\ free.payload = rb.payload /\ free.zone = None
      /\ free.activity = "idle"
  BY <1>1, ReleasedFields
<1>3. Helped(rb) = new
  BY DEF Helped
<1> HIDE DEF free
<1>4. charge \in 0 .. Capacity
  BY <1>2, ScenarioAssumption DEF Robot
<1> HIDE DEF charge
<1>5. /\ new \in Robot /\ new.task = "none" /\ new.payload = rb.payload /\ new.zone = None
      /\ new.activity = "idle" /\ new.latched = FALSE /\ new.awaiting = FALSE
  BY <1>1, <1>2, <1>4 DEF Robot
<1> HIDE DEF new
<1>6. Sound(new)
  BY <1>1, <1>5 DEF Sound
<1> QED
  BY <1>3, <1>5, <1>6 DEF SoundRobot

\* A step of one robot that leaves it without a zone and out of all lines, and
\* may change who waits for a person.
LEMMA LeavingStep ==
  ASSUME Inv, NEW r \in Robots, NEW new \in SoundRobot, new.task \notin Queueing,
         new.zone = None, new.payload = rob[r].payload,
         rob' = [rob EXCEPT ![r] = new], line' = Leaving(r),
         helpLine' \in Seq(Robots),
         \A o \in Robots : In(helpLine', o) = IF o = r THEN new.awaiting ELSE In(helpLine, o),
         UNCHANGED <<balls, open, faults>>
  PROVE  Inv'
<1>1. /\ rob' \in [Robots -> SoundRobot] /\ rob'[r] = new
      /\ \A o \in Robots \ {r} : rob'[o] = rob[o]
      /\ LinesFit(rob', line')
  BY LeavingFits
<1>2. Capped(rob) /\ ZonesFit(rob, open) /\ HelpFit(rob, helpLine) /\ BasketsFit(rob, balls)
  BY DEF Inv, Fits
<1>3. \A o \in Robots : rob'[o].zone \in {rob[o].zone, None} /\ rob'[o].payload = rob[o].payload
  BY <1>1
<1>4. Capped(rob')
  <2>1. PICK q : q = rob'
    OBVIOUS
  <2>2. \A o \in Robots : q[o].zone \in {rob[o].zone, None}
    BY <1>3, <2>1
  <2>3. Capped(q)
    BY <1>2, <2>2, CappedShrinks
  <2> QED
    BY <2>1, <2>3
<1>5. ZonesFit(rob', open') /\ BasketsFit(rob', balls')
  BY <1>2, <1>3 DEF ZonesFit, BasketsFit
<1>6. HelpFit(rob', helpLine')
  BY <1>1, <1>2 DEF HelpFit
<1> QED
  BY <1>1, <1>4, <1>5, <1>6 DEF Inv, Fits

LEMMA HumanDoneStep ==
  ASSUME Inv, NEW r \in Robots, HumanDone(r), UNCHANGED open
  PROVE  Inv'
<1> DEFINE new == Helped(rob[r])
<1>1. /\ new \in SoundRobot /\ new.task = "none" /\ new.zone = None
      /\ new.payload = rob[r].payload /\ new.awaiting = FALSE
  BY RobotFacts, HelpedFacts
<1>2. /\ helpLine' = Without(helpLine, r) /\ Set(r, new) /\ UNCHANGED <<balls, open, faults>>
  BY DEF HumanDone
<1> HIDE DEF new
<1>3. rob' = [rob EXCEPT ![r] = new] /\ line' = Leaving(r)
  BY <1>1, <1>2 DEF Set
<1>4. new.task \notin Queueing
  BY <1>1 DEF Queueing, Holding
<1>5. helpLine \in Seq(Robots)
  BY DEF Inv, Fits, HelpFit
<1> DEFINE k == Kept(helpLine, Robots \ {r})
<1>6. k \in Seq(Robots) /\ \A o : In(k, o) <=> In(helpLine, o) /\ o \in Robots \ {r}
  BY <1>5, KeptLine
<1>7. helpLine' = k
  BY <1>2 DEF Without
<1> HIDE DEF k
<1>8. ASSUME NEW o \in Robots
      PROVE  In(helpLine', o) = IF o = r THEN new.awaiting ELSE In(helpLine, o)
  <2>1. In(helpLine', o) \in BOOLEAN /\ In(helpLine, o) \in BOOLEAN
    BY DEF In
  <2> QED
    BY <1>1, <1>6, <1>7, <2>1
<1> QED
  BY <1>1, <1>2, <1>3, <1>4, <1>6, <1>7, <1>8, LeavingStep

\* A robot that is told to go somewhere.
LEMMA TravelingFacts ==
  ASSUME NEW rb \in Robot, ~ rb.latched, NEW goal \in Places, rb.zone # None => rb.zone = goal,
         NEW energy \in Nat
  PROVE  LET new == Traveling(rb, goal, energy) IN
         /\ new \in SoundRobot /\ new.task = "travel" /\ new.zone = rb.zone
         /\ new.payload = rb.payload /\ new.awaiting = rb.awaiting
<1> DEFINE new == Traveling(rb, goal, energy)
<1>1. /\ new \in Robot /\ new.task = "travel" /\ new.zone = rb.zone /\ new.goal = goal
      /\ new.payload = rb.payload /\ new.awaiting = rb.awaiting /\ new.latched = rb.latched
      /\ new.activity = "traveling"
  BY DEF Traveling, Robot, RobotActivity, Tasks
<1> HIDE DEF new
<1>2. Sound(new)
  BY <1>1 DEF Sound
<1> QED
  BY <1>1, <1>2 DEF SoundRobot, new

\* Who waits for a person has not changed.
LEMMA SameHelp ==
  ASSUME Inv, NEW r \in Robots, NEW new, new.awaiting = rob[r].awaiting, UNCHANGED helpLine
  PROVE  /\ helpLine' \in Seq(Robots)
         /\ \A o \in Robots : In(helpLine', o) = IF o = r THEN new.awaiting ELSE In(helpLine, o)
<1>1. HelpFit(rob, helpLine)
  BY DEF Inv, Fits
<1> QED
  BY <1>1 DEF HelpFit

\* A directive that takes the robot out of its zone and its lines.
LEMMA StartStep ==
  ASSUME Inv, NEW r \in Robots, NEW new \in SoundRobot, new.task \notin Queueing,
         new.zone = None, new.payload = rob[r].payload, new.awaiting = rob[r].awaiting,
         Start(r, new), UNCHANGED <<balls, open, faults>>
  PROVE  Inv'
<1>1. rob' = [rob EXCEPT ![r] = new] /\ line' = Leaving(r) /\ UNCHANGED helpLine
  BY DEF Start
<1>2. /\ helpLine' \in Seq(Robots)
      /\ \A o \in Robots : In(helpLine', o) = IF o = r THEN new.awaiting ELSE In(helpLine, o)
  BY <1>1, SameHelp
<1> QED
  BY <1>1, <1>2, LeavingStep

LEMMA DepartStep ==
  ASSUME Inv, NEW r \in Robots, ~ rob[r].latched, NEW goal \in Places,
         Depart(r, Released(rob[r], "idle"), goal), UNCHANGED <<balls, open, faults>>
  PROVE  Inv'
<1> DEFINE free == Released(rob[r], "idle")
<1>1. PICK energy \in Energy : Start(r, Traveling(free, goal, energy))
  BY DEF Depart
<1>2. /\ free \in Robot /\ free.payload = rob[r].payload /\ free.zone = None
      /\ free.awaiting = rob[r].awaiting /\ free.latched = rob[r].latched
  <2>1. "idle" \in RobotActivity
    BY DEF RobotActivity
  <2> QED
    BY <2>1, RobotFacts, ReleasedFields
<1> HIDE DEF free
<1> DEFINE new == Traveling(free, goal, energy)
<1>3. /\ new \in SoundRobot /\ new.task = "travel" /\ new.zone = None
      /\ new.payload = rob[r].payload /\ new.awaiting = rob[r].awaiting
  BY <1>2, EnergyIsNatural, TravelingFacts
<1>4. Start(r, new)
  BY <1>1
<1> HIDE DEF new
<1>5. new.task \notin Queueing
  BY <1>3 DEF Queueing, Holding
<1> QED
  BY <1>3, <1>4, <1>5, StartStep

LEMMA SendToHandoffStep ==
  ASSUME Inv, NEW r \in Robots, NEW s \in Stations, SendToHandoff(r, s),
         UNCHANGED <<balls, open, faults>>
  PROVE  Inv'
<1>1. ~ rob[r].latched /\ Depart(r, Released(rob[r], "idle"), s)
  BY DEF SendToHandoff, MayHandOff, Workable, Commandable
<1>2. s \in Places
  BY DEF Places
<1> QED
  BY <1>1, <1>2, DepartStep

LEMMA SendToChargeStep ==
  ASSUME Inv, NEW r \in Robots, SendToCharge(r), UNCHANGED <<balls, open, faults>>
  PROVE  Inv'
<1>1. ~ rob[r].latched /\ Depart(r, Released(rob[r], "idle"), "charger")
  BY DEF SendToCharge, MayCharge, Workable, Commandable
<1>2. "charger" \in Places
  BY DEF Places
<1> QED
  BY <1>1, <1>2, DepartStep

LEMMA PauseRobotStep ==
  ASSUME Inv, NEW r \in Robots, PauseRobot(r), UNCHANGED <<balls, open, faults>>
  PROVE  Inv'
<1> DEFINE new == Released(rob[r], "paused")
<1>1. ~ rob[r].latched /\ Start(r, new)
  BY DEF PauseRobot, Workable, Commandable
<1>2. "paused" \in RobotActivity \ ActiveActivities
  BY DEF RobotActivity, ActiveActivities
<1>3. Rests(new, rob[r])
  BY <1>1, <1>2, RobotFacts, ReleasedFacts
<1> HIDE DEF new
<1>4. /\ new \in SoundRobot /\ new.task \notin Queueing /\ new.zone = None
      /\ new.payload = rob[r].payload /\ new.awaiting = rob[r].awaiting
  BY <1>3 DEF Rests, Queueing, Holding
<1> QED
  BY <1>1, <1>4, StartStep

LEMMA ResumeRobotStep ==
  ASSUME Inv, NEW r \in Robots, ResumeRobot(r), UNCHANGED <<balls, open, faults>>
  PROVE  Inv'
<1> DEFINE new == Becoming(rob[r], "idle")
<1>1. ~ rob[r].latched /\ rob[r].activity = "paused" /\ Start(r, new)
  BY DEF ResumeRobot, Commandable
<1>2. rob[r] \in Robot /\ Sound(rob[r])
  BY RobotFacts
<1>3. rob[r].task = "none" /\ rob[r].zone = None
  <2>1. rob[r].task \in Tasks
    BY <1>2 DEF Robot
  <2> QED
    BY <1>1, <1>2, <2>1 DEF Sound, Tasks, Queueing, Holding
<1>4. /\ new \in Robot /\ new.task = "none" /\ new.zone = None /\ new.activity = "idle"
      /\ new.latched = rob[r].latched
      /\ new.payload = rob[r].payload /\ new.awaiting = rob[r].awaiting
  BY <1>2, <1>3 DEF Becoming, Robot, RobotActivity
<1> HIDE DEF new
<1>5. Sound(new)
  BY <1>1, <1>4 DEF Sound, ActiveActivities
<1>6. new \in SoundRobot /\ new.task \notin Queueing
  BY <1>4, <1>5 DEF SoundRobot, Queueing, Holding
<1> QED
  BY <1>1, <1>4, <1>6, StartStep

LEMMA AskingFacts ==
  ASSUME NEW rb \in SoundRobot
  PROVE  LET new == [rb EXCEPT !.awaiting = TRUE] IN
         /\ new \in SoundRobot /\ new.task = rb.task /\ new.zone = rb.zone /\ new.goal = rb.goal
         /\ new.payload = rb.payload /\ new.awaiting = TRUE
<1> DEFINE new == [rb EXCEPT !.awaiting = TRUE]
<1>1. rb \in Robot /\ Sound(rb)
  BY DEF SoundRobot
<1>2. /\ new \in Robot /\ new.task = rb.task /\ new.zone = rb.zone /\ new.goal = rb.goal
      /\ new.payload = rb.payload /\ new.awaiting = TRUE /\ new.latched = rb.latched
      /\ new.activity = rb.activity /\ new.lot = rb.lot
  BY <1>1 DEF Robot
<1> HIDE DEF new
<1>3. Sound(new)
  BY <1>1, <1>2 DEF Sound
<1> QED
  BY <1>2, <1>3 DEF SoundRobot, new

LEMMA RequestHumanAssistanceStep ==
  ASSUME Inv, NEW r \in Robots, RequestHumanAssistance(r), UNCHANGED <<balls, open, faults>>
  PROVE  Inv'
<1>1. helpLine' = Append(helpLine, r)
  BY DEF RequestHumanAssistance
<1>2. /\ rob \in [Robots -> SoundRobot] /\ LinesFit(rob, line) /\ Capped(rob)
      /\ ZonesFit(rob, open) /\ HelpFit(rob, helpLine) /\ BasketsFit(rob, balls)
  BY DEF Inv, Fits
<1>3. /\ helpLine' \in Seq(Robots)
      /\ \A o \in Robots : In(helpLine', o) = IF o = r THEN TRUE ELSE In(helpLine, o)
  <2>1. helpLine \in Seq(Robots) /\ Len(helpLine) \in Nat /\ DOMAIN helpLine = 1 .. Len(helpLine)
    BY <1>2 DEF HelpFit
  <2>2. /\ helpLine' \in Seq(Robots) /\ DOMAIN helpLine' = 1 .. Len(helpLine) + 1
        /\ helpLine'[Len(helpLine) + 1] = r
        /\ \A i \in 1 .. Len(helpLine) : helpLine'[i] = helpLine[i]
    BY <1>1, <2>1
  <2>3. ASSUME NEW o \in Robots
        PROVE  In(helpLine', o) = IF o = r THEN TRUE ELSE In(helpLine, o)
    <3>1. In(helpLine', r)
      BY <2>1, <2>2 DEF In
    <3>2. o # r => (In(helpLine', o) <=> In(helpLine, o))
      <4>1. 1 .. Len(helpLine) + 1 = 1 .. Len(helpLine) \cup {Len(helpLine) + 1}
        BY <2>1
      <4> QED
        BY <2>1, <2>2, <4>1 DEF In
    <3>3. In(helpLine', o) \in BOOLEAN /\ In(helpLine, o) \in BOOLEAN
      BY DEF In
    <3> QED
      BY <3>1, <3>2, <3>3
  <2> QED
    BY <2>2, <2>3
<1>4. CASE rob[r].activity \in {"failed", "emergency_stopped"}
  <2> DEFINE new == [rob[r] EXCEPT !.awaiting = TRUE]
  <2>1. rob' = [rob EXCEPT ![r] = new] /\ UNCHANGED line
    BY <1>4 DEF RequestHumanAssistance
  <2>2. /\ new \in SoundRobot /\ new.task = rob[r].task /\ new.zone = rob[r].zone
        /\ new.goal = rob[r].goal /\ new.payload = rob[r].payload /\ new.awaiting = TRUE
    BY RobotFacts, AskingFacts
  <2> HIDE DEF new
  <2>3. /\ rob' \in [Robots -> SoundRobot] /\ rob'[r] = new
        /\ \A o \in Robots \ {r} : rob'[o] = rob[o]
    BY <1>2, <2>1, <2>2
  <2>4. \A o \in Robots : /\ rob'[o].task = rob[o].task /\ rob'[o].goal = rob[o].goal
                          /\ rob'[o].zone = rob[o].zone /\ rob'[o].payload = rob[o].payload
    BY <2>2, <2>3
  <2>5. LinesFit(rob', line') /\ ZonesFit(rob', open') /\ BasketsFit(rob', balls')
    <3>1. LinesFit(rob', line)
      BY <1>2, <2>4 DEF LinesFit
    <3> QED
      BY <1>2, <2>1, <2>4, <3>1 DEF ZonesFit, BasketsFit
  <2>6. Capped(rob')
    <3>1. PICK q : q = rob'
      OBVIOUS
    <3>2. \A o \in Robots : q[o].zone \in {rob[o].zone, None}
      BY <2>4, <3>1
    <3>3. Capped(q)
      BY <1>2, <3>2, CappedShrinks
    <3> QED
      BY <3>1, <3>3
  <2>7. HelpFit(rob', helpLine')
    BY <1>2, <1>3, <2>2, <2>3 DEF HelpFit
  <2> QED
    BY <2>3, <2>5, <2>6, <2>7 DEF Inv, Fits
<1>5. CASE rob[r].activity \notin {"failed", "emergency_stopped"}
  <2> DEFINE free == Released(rob[r], "awaiting_human")
             new == [free EXCEPT !.awaiting = TRUE]
  <2>1. rob' = [rob EXCEPT ![r] = new] /\ line' = Leaving(r)
    BY <1>5 DEF RequestHumanAssistance
  <2>2. ~ rob[r].latched /\ rob[r] \in Robot
    BY <1>5, RobotFacts DEF Sound
  <2>3. "awaiting_human" \in RobotActivity \ ActiveActivities
    BY DEF RobotActivity, ActiveActivities
  <2>4. Rests(free, rob[r])
    BY <2>2, <2>3, ReleasedFacts
  <2> HIDE DEF free
  <2>5. /\ new \in SoundRobot /\ new.task = "none" /\ new.zone = None
        /\ new.payload = rob[r].payload /\ new.awaiting = TRUE
    BY <2>4, AskingFacts DEF Rests
  <2> HIDE DEF new
  <2>6. new.task \notin Queueing
    BY <2>5 DEF Queueing, Holding
  <2>7. \A o \in Robots : In(helpLine', o) = IF o = r THEN new.awaiting ELSE In(helpLine, o)
    BY <1>3, <2>5
  <2> QED
    BY <1>3, <2>1, <2>5, <2>6, <2>7, LeavingStep
<1> QED
  BY <1>4, <1>5

\* One more robot for a zone that is not full.
LEMMA CappedGrows ==
  ASSUME NEW q, Capped(q), NEW r \in Robots, NEW z \in Zones,
         Cardinality({o \in Robots \ {r} : q[o].zone = z}) < MaxRobotsPerZone,
         NEW r2, r2[r].zone = z, \A o \in Robots \ {r} : r2[o].zone = q[o].zone
  PROVE  Capped(r2)
<1>1. ASSUME NEW y \in Zones
      PROVE  Cardinality({o \in Robots : r2[o].zone = y}) <= MaxRobotsPerZone
  <2> DEFINE A == {o \in Robots : r2[o].zone = y}
             B == {o \in Robots : q[o].zone = y}
             C == {o \in Robots \ {r} : q[o].zone = z}
  <2>1. IsFiniteSet(B) /\ IsFiniteSet(C)
    <3>1. B \subseteq Robots /\ C \subseteq Robots
      OBVIOUS
    <3> HIDE DEF B, C
    <3> QED
      BY <3>1, IdAssumption, FS_Subset
  <2>2. MaxRobotsPerZone \in Nat
    BY ScenarioAssumption
  <2>3. CASE y = z
    <3>1. A = C \cup {r} /\ r \notin C
      BY <2>3
    <3>2. Cardinality(C) \in Nat /\ Cardinality(C) < MaxRobotsPerZone
      BY <2>1, FS_CardinalityType
    <3> HIDE DEF A, C
    <3>3. Cardinality(C \cup {r}) = Cardinality(C) + 1
      BY <2>1, <3>1, FS_AddElement
    <3>4. Cardinality(A) <= MaxRobotsPerZone
      BY <2>2, <3>1, <3>2, <3>3
    <3> QED
      BY <3>4 DEF A
  <2>4. CASE y # z
    <3>1. A \subseteq B
      BY <2>4
    <3>2. Cardinality(B) <= MaxRobotsPerZone
      BY DEF Capped
    <3> HIDE DEF A, B
    <3>3. Cardinality(A) \in Nat /\ Cardinality(B) \in Nat /\ Cardinality(A) <= Cardinality(B)
      BY <2>1, <3>1, FS_Subset, FS_CardinalityType
    <3> QED
      BY <2>2, <3>2, <3>3 DEF A
  <2> QED
    BY <2>3, <2>4
<1> QED
  BY <1>1 DEF Capped

LEMMA CollectStep ==
  ASSUME Inv, NEW r \in Robots, NEW z \in Zones, MayCollect(r, z), Collect(r, z),
         UNCHANGED <<balls, open, faults>>
  PROVE  Inv'
<1> DEFINE idle == Settled(rob[r], 0)
           rb == [idle EXCEPT !.zone = z]
<1>1. /\ ~ rob[r].latched /\ open[z]
      /\ Cardinality({o \in Robots \ {r} : rob[o].zone = z}) < MaxRobotsPerZone
  BY DEF MayCollect, Workable, Commandable, Commitments
<1>2. PICK energy \in Energy : Start(r, Traveling(rb, z, energy))
  BY DEF Collect, Depart
<1>3. rob[r] \in Robot
  BY RobotFacts
<1>4. PICK b \in 0 .. Capacity : idle = Idle(rob[r], b)
  BY <1>3, SettledFacts
<1>5. /\ idle \in Robot /\ idle.payload = rob[r].payload /\ idle.awaiting = rob[r].awaiting
      /\ idle.latched = rob[r].latched
  <2> HIDE DEF idle
  <2> QED
    BY <1>3, <1>4, IdleFacts
<1> HIDE DEF idle
<1>6. /\ rb \in Robot /\ rb.payload = rob[r].payload /\ rb.awaiting = rob[r].awaiting
      /\ rb.latched = FALSE /\ rb.zone = z
  BY <1>1, <1>3, <1>5 DEF Robot
<1> HIDE DEF rb
<1> DEFINE new == Traveling(rb, z, energy)
<1>7. /\ new \in SoundRobot /\ new.task = "travel" /\ new.zone = z
      /\ new.payload = rob[r].payload /\ new.awaiting = rob[r].awaiting
  <2>1. z \in Places /\ ~ rb.latched
    BY <1>6 DEF Places
  <2> QED
    BY <1>6, <2>1, EnergyIsNatural, TravelingFacts
<1>8. rob' = [rob EXCEPT ![r] = new] /\ line' = Leaving(r) /\ UNCHANGED helpLine
  BY <1>2 DEF Start
<1> HIDE DEF new
<1>9. new.task \notin Queueing
  BY <1>7 DEF Queueing, Holding
<1>10. /\ rob' \in [Robots -> SoundRobot] /\ rob'[r] = new
       /\ \A o \in Robots \ {r} : rob'[o] = rob[o]
       /\ LinesFit(rob', line')
  BY <1>7, <1>8, <1>9, LeavingFits
<1>11. Capped(rob) /\ ZonesFit(rob, open) /\ HelpFit(rob, helpLine) /\ BasketsFit(rob, balls)
  BY DEF Inv, Fits
<1>12. Capped(rob')
  <2>1. PICK q : q = rob'
    OBVIOUS
  <2>2. q[r].zone = z /\ \A o \in Robots \ {r} : q[o].zone = rob[o].zone
    BY <1>7, <1>10, <2>1
  <2>3. Capped(q)
    BY <1>1, <1>11, <2>2, CappedGrows
  <2> QED
    BY <2>1, <2>3
<1>13. ZonesFit(rob', open')
  BY <1>1, <1>7, <1>10, <1>11 DEF ZonesFit
<1>14. HelpFit(rob', helpLine') /\ BasketsFit(rob', balls')
  BY <1>7, <1>8, <1>10, <1>11 DEF HelpFit, BasketsFit
<1> QED
  BY <1>10, <1>12, <1>13, <1>14 DEF Inv, Fits

\* What is booked at a flush changes the battery and what is left of the leg.
LEMMA BookedFacts ==
  ASSUME NEW rb \in SoundRobot, NEW amount \in Nat
  PROVE  LET new == Booked(rb, amount) IN
         /\ new \in SoundRobot /\ new.task = rb.task /\ new.zone = rb.zone /\ new.goal = rb.goal
         /\ new.payload = rb.payload /\ new.awaiting = rb.awaiting
<1>1. rb \in Robot /\ Sound(rb) /\ rb.leg \in Nat /\ rb.leg \in Int /\ rb.battery \in Nat
  BY ScenarioAssumption DEF SoundRobot, Robot
<1>2. CASE rb.task = "travel"
  <2> DEFINE e == Least({amount, rb.leg})
             mid == Drained(rb, e)
             new == [mid EXCEPT !.leg = mid.leg - Least({amount, mid.leg})]
  <2>1. e \in Nat /\ e <= rb.leg
    <3>1. amount \in Int
      OBVIOUS
    <3>2. e \in {amount, rb.leg} /\ e <= rb.leg
      BY <1>1, <3>1, LeastOfTwo
    <3> HIDE DEF e
    <3> QED
      BY <1>1, <3>2
  <2>2. /\ mid \in Robot /\ mid.activity = rb.activity /\ mid.payload = rb.payload
        /\ mid.zone = rb.zone /\ mid.latched = rb.latched /\ mid.awaiting = rb.awaiting
        /\ mid.task = rb.task /\ mid.goal = rb.goal /\ mid.lot = rb.lot /\ mid.leg = rb.leg
    <3> HIDE DEF e
    <3> QED
      BY <1>1, <2>1, DrainedKeeps
  <2>3. Booked(rb, amount) = new
    <3>1. rb.task # "charging" /\ rb.activity \notin IdleDrain
      BY <1>1, <1>2 DEF Sound, IdleDrain
    <3> QED
      BY <1>2, <3>1 DEF Booked
  <2> HIDE DEF mid
  <2>4. mid.leg - Least({amount, mid.leg}) \in Nat
    <3>1. Least({amount, mid.leg}) = e
      BY <2>2
    <3> HIDE DEF e
    <3> QED
      BY <1>1, <2>1, <2>2, <3>1
  <2>5. /\ new \in Robot /\ new.activity = rb.activity /\ new.payload = rb.payload
        /\ new.zone = rb.zone /\ new.latched = rb.latched /\ new.awaiting = rb.awaiting
        /\ new.task = rb.task /\ new.goal = rb.goal /\ new.lot = rb.lot
    BY <2>2, <2>4 DEF Robot
  <2> HIDE DEF new
  <2>6. Sound(new)
    BY <1>1, <2>5 DEF Sound
  <2> QED
    BY <2>3, <2>5, <2>6 DEF SoundRobot
<1>3. ASSUME NEW b \in 0 .. Capacity, Booked(rb, amount) = [rb EXCEPT !.battery = b]
      PROVE  LET new == Booked(rb, amount) IN
             /\ new \in SoundRobot /\ new.task = rb.task /\ new.zone = rb.zone
             /\ new.goal = rb.goal
             /\ new.payload = rb.payload /\ new.awaiting = rb.awaiting
  BY <1>1, <1>3, BatteryOnly DEF SoundRobot
<1>4. CASE rb.task # "travel" /\ rb.task = "charging"
  <2>1. Booked(rb, amount) = [rb EXCEPT !.battery = Least({ChargeTarget, rb.battery + amount})]
    <3>1. rb.activity \notin IdleDrain
      BY <1>1, <1>4 DEF Sound, IdleDrain
    <3> QED
      BY <1>4, <3>1 DEF Booked
  <2>2. Least({ChargeTarget, rb.battery + amount}) \in 0 .. Capacity
    BY <1>1, ChargeFacts
  <2> QED
    BY <1>3, <2>1, <2>2
<1>5. CASE rb.task \notin {"travel", "charging"} /\ rb.activity \in IdleDrain
  <2>1. Booked(rb, amount) = Drained(rb, amount)
    BY <1>5 DEF Booked
  <2>2. PICK b \in 0 .. Capacity : Drained(rb, amount) = [rb EXCEPT !.battery = b]
    BY <1>1, DrainedFacts
  <2> QED
    BY <1>3, <2>1, <2>2
<1>6. CASE rb.task \notin {"travel", "charging"} /\ rb.activity \notin IdleDrain
  BY <1>6 DEF Booked
<1> QED
  BY <1>2, <1>4, <1>5, <1>6

\* A robot at a flush goes on with its task or fails on an empty battery.
LEMMA FlushedFacts ==
  ASSUME NEW rb \in SoundRobot, NEW amount \in Nat
  PROVE  LET new == FloorChecked(Booked(rb, amount)) IN
         Succeeds(new, rb) /\ new.payload = rb.payload /\ (new.task # "none" => Stays(new, rb))
<1> DEFINE mid == Booked(rb, amount)
           new == FloorChecked(mid)
<1>1. /\ mid \in SoundRobot /\ mid.task = rb.task /\ mid.zone = rb.zone /\ mid.goal = rb.goal
      /\ mid.payload = rb.payload /\ mid.awaiting = rb.awaiting
  BY BookedFacts
<1> HIDE DEF mid
<1>2. new = mid \/ Rests(new, mid)
  BY <1>1, FloorCheckedFacts
<1> HIDE DEF new
<1>3. CASE new = mid
  <2>1. Stays(new, rb)
    BY <1>1, <1>3 DEF Stays
  <2> QED
    BY <1>1, <1>3, <2>1 DEF Succeeds, new, mid
<1>4. CASE Rests(new, mid)
  <2>1. Succeeds(new, rb) /\ new.payload = rb.payload /\ new.task = "none"
    BY <1>1, <1>4 DEF Rests, Succeeds
  <2> QED
    BY <2>1 DEF new, mid
<1> QED
  BY <1>2, <1>3, <1>4

LEMMA FlushStep ==
  ASSUME Inv, Flush
  PROVE  Inv'
<1>1. PICK amount \in [Robots -> Energy] :
        LET after == [r \in Robots |-> FloorChecked(Booked(rob[r], amount[r]))]
        IN  /\ rob' = after
            /\ line' = [p \in DOMAIN line |->
                          Kept(line[p], {r \in Robots : after[r].task # "none"})]
  BY DEF Flush
<1> DEFINE K == {r \in Robots : rob'[r].task # "none"}
<1>2. rob \in [Robots -> SoundRobot] /\ Fits(rob, open, line, helpLine) /\ BasketsFit(rob, balls)
  BY DEF Inv, Fits
<1>3. rob' = [r \in Robots |-> FloorChecked(Booked(rob[r], amount[r]))]
  BY <1>1
<1>4. ASSUME NEW r \in Robots
      PROVE  /\ Succeeds(rob'[r], rob[r]) /\ rob'[r].payload = rob[r].payload
             /\ rob'[r].task # "none" => Stays(rob'[r], rob[r])
  <2>1. rob[r] \in SoundRobot /\ amount[r] \in Nat
    BY <1>2, EnergyIsNatural
  <2>2. rob'[r] = FloorChecked(Booked(rob[r], amount[r]))
    BY <1>3
  <2> QED
    BY <2>1, <2>2, FlushedFacts
<1>5. line' = KeptLines(line, K)
  BY <1>1 DEF KeptLines
<1>6. Parts(rob', rob, K)
  <2>1. rob' \in [Robots -> SoundRobot]
    BY <1>3, <1>4 DEF Succeeds
  <2>2. \A r \in Robots : rob'[r].zone \in {rob[r].zone, None} /\ rob'[r].awaiting = rob[r].awaiting
    BY <1>4 DEF Succeeds
  <2>3. \A r \in K : Stays(rob'[r], rob[r])
    BY <1>4
  <2>4. \A r \in Robots \ K : rob'[r].task \notin Queueing
    BY DEF Queueing, Holding
  <2>5. K \subseteq Robots
    OBVIOUS
  <2> QED
    BY <2>1, <2>2, <2>3, <2>4, <2>5 DEF Parts
<1>7. Fits(rob', open, line', helpLine)
  <2> HIDE DEF K
  <2> QED
    BY <1>2, <1>5, <1>6, FitsKept
<1>8. BasketsFit(rob', balls)
  BY <1>2, <1>4 DEF BasketsFit
<1>9. UNCHANGED <<balls, open, helpLine, faults>>
  BY DEF Flush
<1> QED
  BY <1>7, <1>8, <1>9 DEF Inv

LEMMA DirectiveStep ==
  ASSUME Inv, Directive
  PROVE  Inv'
<1>1. UNCHANGED <<balls, open, faults>>
  BY DEF Directive
<1>2. CASE Wait
  BY <1>1, <1>2 DEF Wait, Inv
<1>3. ASSUME NEW r \in Robots,
             \/ \E z \in Zones : AssignCollection(r, z) \/ ReassignRobot(r, z)
             \/ \E s \in Stations : SendToHandoff(r, s)
             \/ SendToCharge(r)
             \/ PauseRobot(r)
             \/ ResumeRobot(r)
             \/ RequestHumanAssistance(r)
      PROVE  Inv'
  <2>1. ASSUME NEW z \in Zones, AssignCollection(r, z) PROVE Inv'
    BY <1>1, <2>1, CollectStep DEF AssignCollection, MayAssign
  <2>2. ASSUME NEW z \in Zones, ReassignRobot(r, z) PROVE Inv'
    BY <1>1, <2>2, CollectStep DEF ReassignRobot, MayReassign
  <2>3. ASSUME NEW s \in Stations, SendToHandoff(r, s) PROVE Inv'
    BY <1>1, <2>3, SendToHandoffStep
  <2>4. CASE SendToCharge(r)
    BY <1>1, <2>4, SendToChargeStep
  <2>5. CASE PauseRobot(r)
    BY <1>1, <2>5, PauseRobotStep
  <2>6. CASE ResumeRobot(r)
    BY <1>1, <2>6, ResumeRobotStep
  <2>7. CASE RequestHumanAssistance(r)
    BY <1>1, <2>7, RequestHumanAssistanceStep
  <2> QED
    BY <1>3, <2>1, <2>2, <2>3, <2>4, <2>5, <2>6, <2>7
<1> QED
  BY <1>2, <1>3 DEF Directive

LEMMA TaskStep ==
  ASSUME Inv, NEW r \in Robots, Task(r), UNCHANGED <<open, helpLine>>
  PROVE  Inv'
<1>1. CASE Arrive(r)
  BY <1>1, ArriveStep
<1>2. CASE Strand(r)
  BY <1>2, StrandStep
<1>3. CASE CollectCycleDone(r)
  BY <1>3, CollectCycleDoneStep
<1>4. CASE CollectCycleFails(r)
  BY <1>4, CollectCycleFailsStep
<1>5. CASE TakeSlot(r)
  BY <1>5, TakeSlotStep
<1>6. CASE Dock(r)
  BY <1>6, DockStep
<1>7. CASE DockFails(r)
  BY <1>7, DockFailsStep
<1>8. CASE Unload(r)
  BY <1>8, UnloadStep
<1>9. CASE Unblock(r)
  BY <1>9, UnblockStep
<1>10. CASE Connect(r)
  BY <1>10, ConnectStep
<1>11. CASE Charged(r)
  BY <1>11, ChargedStep
<1> QED
  BY <1>1, <1>2, <1>3, <1>4, <1>5, <1>6, <1>7, <1>8, <1>9, <1>10, <1>11 DEF Task

LEMMA RunStep ==
  ASSUME Inv, Run
  PROVE  Inv'
<1>1. ASSUME NEW r \in Robots, Task(r), UNCHANGED <<open, helpLine>> PROVE Inv'
  BY <1>1, TaskStep
<1>2. ASSUME NEW r \in Robots, SpontaneousFailure(r), UNCHANGED <<open, helpLine>> PROVE Inv'
  BY <1>2, SpontaneousFailureStep
<1>3. ASSUME Demand, UNCHANGED <<open, helpLine>> PROVE Inv'
  BY <1>3, DemandStep
<1>4. ASSUME Wash, UNCHANGED <<open, helpLine>> PROVE Inv'
  BY <1>4, WashStartStep, WashDoneStep DEF Wash
<1>5. ASSUME NEW z \in Zones, CloseZone(z), UNCHANGED helpLine PROVE Inv'
  BY <1>5, CloseZoneStep
<1>6. ASSUME NEW s \in Stations, StationOutage(s), UNCHANGED helpLine PROVE Inv'
  BY <1>6, StationOutageStep
<1>7. ASSUME NEW p \in Zones \cup Stations, Reopen(p), UNCHANGED helpLine PROVE Inv'
  BY <1>7, ReopenStep
<1>8. ASSUME NEW r \in Robots, HumanDone(r), UNCHANGED open PROVE Inv'
  BY <1>8, HumanDoneStep
<1>9. ASSUME FacilityCloses, UNCHANGED <<open, helpLine>> PROVE Inv'
  BY <1>9, FacilityClosesStep
<1> QED
  BY <1>1, <1>2, <1>3, <1>4, <1>5, <1>6, <1>7, <1>8, <1>9 DEF Run

LEMMA NextInv == Inv /\ [Next]_vars => Inv'
<1> SUFFICES ASSUME Inv, [Next]_vars PROVE Inv'
  OBVIOUS
<1>1. CASE Flush
  BY <1>1, FlushStep
<1>2. CASE Directive
  BY <1>2, DirectiveStep
<1>3. CASE Run
  BY <1>3, RunStep
<1>4. CASE UNCHANGED vars
  BY <1>4 DEF Inv, vars
<1> QED
  BY <1>1, <1>2, <1>3, <1>4 DEF Next

\* For every set of robots, zones and stations and every scenario the
\* validators accept: in every state of an operating day, robots, lines, zones
\* and requests for help fit each other and the ledger is whole.
THEOREM RangeInvariant == Spec => []Inv
<1>1. Init => Inv
  BY InitInv
<1>2. Inv /\ [Next]_vars => Inv'
  BY NextInv
<1> QED
  BY <1>1, <1>2, PTL DEF Spec

\* Balls, robots, lines and assignments agree with each other, whatever faults,
\* closures, outages, directives and flushes come between two steps of a
\* robot: what the engine's ledger asserts at every move, its robots' baskets
\* and buffers, the slots of stations and charger, the latch of an emergency
\* stop and the shield's cap on the robots of a zone.
THEOREM RangeConsistency == Spec => []RangeIsConsistent
<1>1. Inv => RangeIsConsistent
  BY InvImplies
<1> QED
  BY <1>1, RangeInvariant, PTL

=============================================================================
