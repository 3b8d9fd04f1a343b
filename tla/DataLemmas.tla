----------------------------- MODULE DataLemmas -----------------------------
(***************************************************************************)
(* Facts about sums, filtered sequences and numerals, for any finite set,   *)
(* sequence or number.  Each rests on a set of natural numbers, or of       *)
(* subsets, having a least element: the predicate of the induction is a set.*)
(***************************************************************************)
EXTENDS Filters, Decimal, FiniteSets, Functions, FiniteSetTheorems, TLAPS

\* In a set of subsets of a finite set some element has no proper subset in it.
LEMMA MinimalSubset ==
  ASSUME NEW S, IsFiniteSet(S), NEW T, T \subseteq SUBSET S, T # {}
  PROVE  \E s \in T : \A u \in T : u \subseteq s => u = s
<1>1. IsWellFoundedOn(StrictSubsetOrdering(S), FiniteSubsetsOf(S))
  BY FS_StrictSubsetOrderingWellFounded
<1>2. FiniteSubsetsOf(S) = SUBSET S
  BY FS_FiniteSubsetsOfFinite
<1>3. \E s \in T : \A u \in T : ~(<<u, s>> \in StrictSubsetOrdering(S))
  BY <1>1, <1>2, WFMin
<1> QED  BY Zenon, <1>3 DEF StrictSubsetOrdering

\* A set of natural numbers that holds 0 and with a number its successor.
LEMMA Induction ==
  ASSUME NEW T, T \subseteq Nat, 0 \in T, \A n \in T : n + 1 \in T
  PROVE  T = Nat
<1> SUFFICES ASSUME Nat \ T # {} PROVE FALSE
  BY Zenon
<1>1. IsWellFoundedOn(OpToRel(<, Nat), Nat)
  BY NatLessThanWellFounded
<1>2. PICK m \in Nat \ T : \A y \in Nat \ T : ~(<<y, m>> \in OpToRel(<, Nat))
  BY <1>1, WFMin
<1>3. \A y \in Nat \ T : ~(y < m)
  BY Zenon, <1>2 DEF OpToRel
<1>4. m \in Nat /\ m \notin T
  BY <1>2
<1>5. m # 0
  BY <1>4
<1>6. m - 1 \in Nat /\ m - 1 < m /\ (m - 1) + 1 = m
  BY <1>4, <1>5
<1>7. m - 1 \in T
  BY <1>3, <1>6
<1> QED  BY <1>4, <1>6, <1>7

\* A set that holds a number when it holds all smaller ones.
LEMMA StrongInduction ==
  ASSUME NEW T, T \subseteq Nat, \A n \in Nat : (\A m \in Nat : m < n => m \in T) => n \in T
  PROVE  T = Nat
<1> DEFINE A == {n \in Nat : \A m \in Nat : m < n => m \in T}
<1>1. 0 \in A
  OBVIOUS
<1>2. ASSUME NEW n \in A PROVE n + 1 \in A
  <2>1. n \in Nat /\ n + 1 \in Nat /\ \A m \in Nat : m < n => m \in T
    OBVIOUS
  <2>2. n \in T
    BY <2>1
  <2>3. \A m \in Nat : m < n + 1 => m < n \/ m = n
    BY <2>1
  <2> QED  BY <2>1, <2>2, <2>3
<1>3. A = Nat
  <2>1. A \subseteq Nat
    OBVIOUS
  <2> HIDE DEF A
  <2> QED  BY Zenon, <1>1, <1>2, <2>1, Induction
<1>4. ASSUME NEW n \in Nat PROVE n \in T
  <2>1. n \in A
    BY <1>3
  <2> QED  BY <2>1
<1> QED  BY Zenon, <1>4

\* A function on Nat given by its value at 0 and by each from the one before.
Recursion(k, V, a, F) == k \in [Nat -> V] /\ k[0] = a /\ \A n \in Nat : k[n + 1] = F[n][k[n]]

LEMMA NatRecursion ==
  ASSUME NEW V, NEW a \in V, NEW F \in [Nat -> [V -> V]]
  PROVE  \E k : Recursion(k, V, a, F)
<1> DEFINE UpTo(k, m) == /\ k \in [0 .. m -> V] /\ k[0] = a
                         /\ \A n \in Nat : n + 1 <= m => k[n + 1] = F[n][k[n]]
           T == {m \in Nat : \E k : UpTo(k, m)}
<1>1. 0 \in T
  <2> DEFINE z == [n \in 0 .. 0 |-> a]
  <2>1. z \in [0 .. 0 -> V] /\ z[0] = a
    OBVIOUS
  <2>2. \A n \in Nat : ~(n + 1 <= 0)
    OBVIOUS
  <2> HIDE DEF z
  <2>3. UpTo(z, 0)
    BY <2>1, <2>2
  <2> HIDE DEF UpTo
  <2> QED  BY <2>3
<1>2. ASSUME NEW m \in T PROVE m + 1 \in T
  <2>1. PICK k : UpTo(k, m)
    OBVIOUS
  <2>2. m \in Nat /\ m + 1 \in Nat /\ k[m] \in V
    BY <2>1
  <2> DEFINE h == [n \in 0 .. m + 1 |-> IF n = m + 1 THEN F[m][k[m]] ELSE k[n]]
  <2>3. /\ \A n \in 0 .. m : h[n] = k[n]
        /\ h[m + 1] = F[m][k[m]] /\ F[m][k[m]] \in V
    BY <2>2
  <2>4. h \in [0 .. m + 1 -> V] /\ h[0] = a
    BY <2>1, <2>2, <2>3
  <2> HIDE DEF h
  <2>5. ASSUME NEW n \in Nat, n + 1 <= m + 1
        PROVE  h[n + 1] = F[n][h[n]]
    <3>1. CASE n = m
      BY <2>2, <2>3, <3>1
    <3>2. CASE n # m
      <4>1. n \in 0 .. m /\ n + 1 \in 0 .. m /\ n + 1 <= m
        BY <2>2, <2>5, <3>2
      <4>2. k[n + 1] = F[n][k[n]]
        BY <2>1, <4>1
      <4> QED  BY <2>3, <4>1, <4>2
    <3> QED  BY <3>1, <3>2
  <2>6. UpTo(h, m + 1)
    BY <2>4, <2>5
  <2> HIDE DEF UpTo
  <2> QED  BY <2>2, <2>6
<1>3. T = Nat
  <2>1. T \subseteq Nat
    OBVIOUS
  <2> HIDE DEF T
  <2> QED  BY Zenon, <1>1, <1>2, <2>1, Induction
<1>4. ASSUME NEW k, NEW m \in Nat, UpTo(k, m), NEW l, NEW p \in Nat, UpTo(l, p),
             NEW j \in Nat, j <= m, j <= p
      PROVE  k[j] = l[j]
  <2> DEFINE A == {n \in Nat : n <= m /\ n <= p => k[n] = l[n]}
  <2>1. 0 \in A
    BY <1>4
  <2>2. ASSUME NEW n \in A PROVE n + 1 \in A
    <3>1. n \in Nat /\ n + 1 \in Nat
      OBVIOUS
    <3> SUFFICES ASSUME n + 1 <= m, n + 1 <= p
                 PROVE  k[n + 1] = l[n + 1]
      BY <3>1
    <3>2. n <= m /\ n <= p
      BY <3>1
    <3>3. k[n] = l[n]
      BY <3>2
    <3>4. k[n + 1] = F[n][k[n]] /\ l[n + 1] = F[n][l[n]]
      BY <1>4, <3>1
    <3> QED  BY <3>3, <3>4
  <2>3. A = Nat
    <3>1. A \subseteq Nat
      OBVIOUS
    <3> HIDE DEF A
    <3> QED  BY Zenon, <2>1, <2>2, <3>1, Induction
  <2>4. j \in A
    BY <2>3
  <2> QED  BY <1>4, <2>4
<1> DEFINE K(n) == CHOOSE k : UpTo(k, n)
           f == [n \in Nat |-> K(n)[n]]
<1>5. ASSUME NEW n \in Nat PROVE UpTo(K(n), n)
  <2>1. n \in T
    BY <1>3
  <2>2. \E k : UpTo(k, n)
    BY <2>1
  <2> HIDE DEF UpTo
  <2> QED  BY <2>2
<1>6. ASSUME NEW n \in Nat PROVE f[n] = K(n)[n] /\ f[n] \in V
  <2>1. f[n] = K(n)[n]
    OBVIOUS
  <2>2. UpTo(K(n), n)
    BY Zenon, <1>5
  <2>3. \A k : UpTo(k, n) => k[n] \in V
    OBVIOUS
  <2> HIDE DEF K, UpTo, f
  <2> QED  BY <2>1, <2>2, <2>3
<1>7. f[0] = a
  <2>1. \A k : UpTo(k, 0) => k[0] = a
    OBVIOUS
  <2> HIDE DEF K, UpTo, f
  <2>2. UpTo(K(0), 0) /\ f[0] = K(0)[0]
    BY <1>5, <1>6
  <2> QED  BY <2>1, <2>2
<1>8. ASSUME NEW n \in Nat PROVE f[n + 1] = F[n][f[n]]
  <2>1. n + 1 \in Nat /\ n <= n + 1 /\ n <= n /\ n + 1 <= n + 1
    OBVIOUS
  <2>2. UpTo(K(n), n) /\ UpTo(K(n + 1), n + 1) /\ f[n] = K(n)[n] /\ f[n + 1] = K(n + 1)[n + 1]
    BY Zenon, <1>5, <1>6, <2>1
  <2>3. ASSUME NEW k, UpTo(k, n + 1) PROVE k[n + 1] = F[n][k[n]]
    BY <2>1, <2>3
  <2> HIDE DEF K, UpTo, f
  <2>4. K(n)[n] = K(n + 1)[n]
    BY <1>4, <2>1, <2>2
  <2> QED  BY <2>2, <2>3, <2>4
<1>9. f \in [Nat -> V]
  BY <1>6
<1> HIDE DEF f
<1> QED  BY <1>7, <1>8, <1>9 DEF Recursion

Pick(s) == CHOOSE x \in s : TRUE

\* g sums f over the subsets of S, element by element as the fold picks them.
Folded(g, f, S) ==
  g = [s \in SUBSET S |-> IF s = {} THEN 0 ELSE f[Pick(s)] + g[s \ {Pick(s)}]]

\* g sums f over the subsets of S, in any order.
Adds(g, f, S) ==
  /\ g \in [SUBSET S -> Int]
  /\ g[{}] = 0
  /\ \A s \in SUBSET S : \A x \in s : g[s] = f[x] + g[s \ {x}]

LEMMA FoldIs ==
  ASSUME NEW f, NEW S
  PROVE  SumFunctionOnSet(f, S) = (CHOOSE g : Folded(g, f, S))[S]
BY DEF SumFunctionOnSet, FoldFunctionOnSet, MapThenFoldSet, Folded, Pick

\* The fold has a value on every subset.
LEMMA FoldExists ==
  ASSUME NEW f, NEW S, IsFiniteSet(S)
  PROVE  \E g : Folded(g, f, S)
<1> DEFINE Rec(g, u) == IF u = {} THEN 0 ELSE f[Pick(u)] + g[u \ {Pick(u)}]
           UpTo(g, n) == \A u \in SUBSET S : Cardinality(u) <= n => g[u] = Rec(g, u)
           T == {n \in Nat : \E g : UpTo(g, n)}
<1>1. \A u \in SUBSET S : IsFiniteSet(u) /\ Cardinality(u) \in Nat
                            /\ Cardinality(u) <= Cardinality(S)
  BY FS_Subset, FS_CardinalityType
<1>2. 0 \in T
  <2> DEFINE z == [u \in SUBSET S |-> 0]
  <2>1. UpTo(z, 0)
    BY <1>1, FS_EmptySet
  <2> QED  BY Zenon, <2>1
<1>3. ASSUME NEW n \in T PROVE n + 1 \in T
  <2>1. PICK g : UpTo(g, n)
    BY Zenon
  <2> DEFINE h == [u \in SUBSET S |-> IF Cardinality(u) <= n THEN g[u] ELSE Rec(g, u)]
  <2>2. ASSUME NEW u \in SUBSET S, Cardinality(u) <= n + 1
        PROVE  h[u] = Rec(h, u)
    <3>1. h[u] = Rec(g, u)
      BY <2>1
    <3>2. CASE u = {}
      BY <3>1, <3>2
    <3>3. CASE u # {}
      <4> DEFINE v == u \ {Pick(u)}
      <4>1. Pick(u) \in u
        BY <3>3 DEF Pick
      <4>2. v \in SUBSET S /\ Cardinality(v) = Cardinality(u) - 1
        BY <1>1, <4>1, FS_RemoveElement
      <4>3. Cardinality(v) <= n
        BY <1>1, <2>2, <4>2
      <4>4. h[v] = g[v]
        BY <4>2, <4>3
      <4> QED  BY <3>1, <3>3, <4>4
    <3> QED  BY <3>2, <3>3
  <2>3. UpTo(h, n + 1)
    BY Zenon, <2>2
  <2>4. n + 1 \in Nat
    OBVIOUS
  <2> HIDE DEF h, UpTo
  <2> QED  BY <2>3, <2>4
<1>4. T = Nat
  <2> HIDE DEF T
  <2>1. T \subseteq Nat
    BY DEF T
  <2> QED  BY Zenon, <1>2, <1>3, <2>1, Induction
<1>5. PICK g : UpTo(g, Cardinality(S))
  BY Zenon, <1>4, FS_CardinalityType
<1>6. \A u \in SUBSET S : g[u] = Rec(g, u)
  BY Zenon, <1>1, <1>5
<1> DEFINE h == [u \in SUBSET S |-> Rec(g, u)]
<1>7. \A u \in SUBSET S : h[u] = g[u]
  BY <1>6
<1>8. \A u \in SUBSET S : Rec(h, u) = Rec(g, u)
  BY Zenon, <1>7
<1>9. Folded(h, f, S)
  BY Zenon, <1>8 DEF Folded
<1> QED  BY <1>9

\* It does not matter in which order the elements are picked.
LEMMA FoldAdds ==
  ASSUME NEW f, NEW S, IsFiniteSet(S), \A x \in S : f[x] \in Int,
         NEW g, Folded(g, f, S)
  PROVE  Adds(g, f, S)
<1> DEFINE Bad == {s \in SUBSET S : ~(/\ g[s] \in Int
                                      /\ \A x \in s : g[s] = f[x] + g[s \ {x}])}
<1>1. g[{}] = 0
  BY DEF Folded
<1>2. ASSUME NEW s \in SUBSET S, s # {}
      PROVE  Pick(s) \in s /\ g[s] = f[Pick(s)] + g[s \ {Pick(s)}]
  <2>1. Pick(s) \in s
    BY <1>2 DEF Pick
  <2>2. g[s] = f[Pick(s)] + g[s \ {Pick(s)}]
    BY Zenon, <1>2 DEF Folded
  <2> QED  BY <2>1, <2>2
<1>3. Bad = {}
  <2> SUFFICES ASSUME Bad # {} PROVE FALSE
    BY Zenon
  <2>1. PICK s \in Bad : \A u \in Bad : u \subseteq s => u = s
    <3> HIDE DEF Bad
    <3>1. Bad \subseteq SUBSET S
      BY DEF Bad
    <3> QED  BY <3>1, MinimalSubset
  <2>2. s \in SUBSET S
    OBVIOUS
  <2>3. s # {}
    <3> SUFFICES ASSUME s = {} PROVE FALSE
      OBVIOUS
    <3>1. g[s] \in Int /\ \A x \in s : g[s] = f[x] + g[s \ {x}]
      BY <1>1
    <3> QED  BY <2>1, <3>1
  <2> DEFINE p == Pick(s)
  <2>4. p \in s /\ g[s] = f[p] + g[s \ {p}] /\ f[p] \in Int
    BY Zenon, <1>2, <2>2, <2>3
  <2> HIDE DEF p
  <2>5. ASSUME NEW u \in SUBSET s, u # s
        PROVE  g[u] \in Int /\ \A x \in u : g[u] = f[x] + g[u \ {x}]
    <3>1. u \notin Bad
      BY <2>1, <2>5
    <3> QED  BY Zenon, <2>2, <3>1
  <2>6. g[s] \in Int
    <3>1. s \ {p} \in SUBSET s /\ s \ {p} # s
      BY <2>4
    <3>2. g[s \ {p}] \in Int
      BY <2>5, <3>1
    <3> QED  BY <2>4, <3>2
  <2>7. ASSUME NEW x \in s
        PROVE  g[s] = f[x] + g[s \ {x}]
    <3>1. CASE x = p
      BY <2>4, <3>1
    <3>2. CASE x # p
      <4> DEFINE a == s \ {p}
                 b == s \ {x}
                 c == s \ {p, x}
      <4>1. /\ a \in SUBSET s /\ a # s /\ x \in a /\ a \ {x} = c
            /\ b \in SUBSET s /\ b # s /\ p \in b /\ b \ {p} = c
            /\ c \in SUBSET s /\ c # s
        BY <2>4, <3>2
      <4> HIDE DEF a, b, c
      <4>2. g[a] = f[x] + g[c]
        BY <2>5, <4>1
      <4>3. g[b] = f[p] + g[c]
        BY <2>5, <4>1
      <4>4. g[c] \in Int /\ f[x] \in Int
        BY <2>2, <2>5, <4>1
      <4>5. g[s] = f[p] + g[a]
        BY <2>4 DEF a
      <4>6. g[s] = f[x] + g[b]
        BY <2>4, <4>2, <4>3, <4>4, <4>5
      <4> QED  BY <4>6 DEF b
    <3> QED  BY <3>1, <3>2
  <2> QED  BY <2>1, <2>6, <2>7
<1>4. g \in [SUBSET S -> Int]
  <2>1. \A s \in SUBSET S : g[s] \in Int
    BY <1>3
  <2> HIDE DEF Bad
  <2> QED  BY Zenon, <2>1 DEF Folded
<1> QED  BY <1>1, <1>3, <1>4 DEF Adds

\* Two functions that agree on a set have the same sum over it.
LEMMA AddsAgree ==
  ASSUME NEW f, NEW S, NEW g, Adds(g, f, S),
         NEW f2, NEW S2, NEW g2, Adds(g2, f2, S2),
         NEW T, IsFiniteSet(T), T \subseteq S, T \subseteq S2, \A x \in T : f[x] = f2[x]
  PROVE  g[T] = g2[T]
<1> DEFINE Bad == {s \in SUBSET T : g[s] # g2[s]}
<1> SUFFICES ASSUME Bad # {} PROVE FALSE
  OBVIOUS
<1>1. PICK s \in Bad : \A u \in Bad : u \subseteq s => u = s
  <2> HIDE DEF Bad
  <2>1. Bad \subseteq SUBSET T
    BY DEF Bad
  <2> QED  BY <2>1, MinimalSubset
<1>2. s # {}
  BY Zenon DEF Adds
<1>3. PICK x : x \in s
  BY <1>2
<1>4. s \ {x} \notin Bad /\ s \ {x} \in SUBSET T
  BY <1>1, <1>3
<1>5. g[s \ {x}] = g2[s \ {x}]
  BY <1>4
<1>6. s \in SUBSET S /\ s \in SUBSET S2 /\ x \in T
  BY <1>3
<1>7. g[s] = f[x] + g[s \ {x}] /\ g2[s] = f2[x] + g2[s \ {x}]
  BY <1>3, <1>6 DEF Adds
<1> QED  BY <1>5, <1>6, <1>7

-----------------------------------------------------------------------------
(* What a sum is.                                                           *)

\* The library's sum is the value of a function that adds.
LEMMA SumAdds ==
  ASSUME NEW f, NEW S, IsFiniteSet(S), \A x \in S : f[x] \in Int
  PROVE  \E g : Adds(g, f, S) /\ SumFunctionOnSet(f, S) = g[S]
<1> DEFINE g == CHOOSE h : Folded(h, f, S)
<1>1. Folded(g, f, S)
  BY FoldExists
<1>2. SumFunctionOnSet(f, S) = g[S]
  BY FoldIs
<1> HIDE DEF g
<1>3. Adds(g, f, S)
  BY <1>1, FoldAdds
<1> QED  BY <1>2, <1>3

LEMMA SumInt ==
  ASSUME NEW f, NEW S, IsFiniteSet(S), \A x \in S : f[x] \in Int
  PROVE  SumFunctionOnSet(f, S) \in Int
<1>1. PICK g : Adds(g, f, S) /\ SumFunctionOnSet(f, S) = g[S]
  BY SumAdds
<1> QED  BY <1>1 DEF Adds

LEMMA SumNone ==
  ASSUME NEW f
  PROVE  SumFunctionOnSet(f, {}) = 0
<1>1. IsFiniteSet({})
  BY FS_EmptySet
<1> QED  BY Zenon, <1>1, SumAdds DEF Adds

\* Sums of functions that agree.
LEMMA SumSame ==
  ASSUME NEW f, NEW g, NEW S, IsFiniteSet(S),
         \A x \in S : f[x] \in Int /\ g[x] = f[x]
  PROVE  SumFunctionOnSet(g, S) = SumFunctionOnSet(f, S)
<1>1. PICK a : Adds(a, f, S) /\ SumFunctionOnSet(f, S) = a[S]
  BY SumAdds
<1>2. PICK b : Adds(b, g, S) /\ SumFunctionOnSet(g, S) = b[S]
  BY SumAdds
<1> QED  BY <1>1, <1>2, AddsAgree

\* One element of the sum, and the rest.
LEMMA SumOut ==
  ASSUME NEW f, NEW S, IsFiniteSet(S), \A x \in S : f[x] \in Int, NEW x \in S
  PROVE  SumFunctionOnSet(f, S) = f[x] + SumFunctionOnSet(f, S \ {x})
<1>1. PICK a : Adds(a, f, S) /\ SumFunctionOnSet(f, S) = a[S]
  BY SumAdds
<1>2. IsFiniteSet(S \ {x})
  BY FS_RemoveElement
<1>3. PICK b : Adds(b, f, S \ {x}) /\ SumFunctionOnSet(f, S \ {x}) = b[S \ {x}]
  BY <1>2, SumAdds
<1>4. a[S \ {x}] = b[S \ {x}]
  BY <1>1, <1>2, <1>3, AddsAgree
<1>5. a[S] = f[x] + a[S \ {x}]
  BY <1>1 DEF Adds
<1> QED  BY <1>1, <1>3, <1>4, <1>5

\* One value of a function changes.
LEMMA SumUpdate ==
  ASSUME NEW D, IsFiniteSet(D), NEW f \in [D -> Int], NEW a \in D, NEW v \in Int
  PROVE  SumFunction([f EXCEPT ![a] = v]) = SumFunction(f) - f[a] + v
<1> DEFINE g == [f EXCEPT ![a] = v]
           R == D \ {a}
<1>1. g \in [D -> Int] /\ g[a] = v /\ \A x \in R : g[x] = f[x]
  OBVIOUS
<1>2. SumFunction(f) = SumFunctionOnSet(f, D) /\ SumFunction(g) = SumFunctionOnSet(g, D)
  BY <1>1 DEF SumFunction
<1> HIDE DEF g
<1>3. IsFiniteSet(R)
  BY FS_RemoveElement
<1>4. SumFunctionOnSet(g, R) = SumFunctionOnSet(f, R)
  BY <1>1, <1>3, SumSame
<1>5. SumFunctionOnSet(g, D) = v + SumFunctionOnSet(g, R)
  BY <1>1, SumOut
<1>6. SumFunctionOnSet(f, D) = f[a] + SumFunctionOnSet(f, R)
  BY SumOut
<1>7. SumFunctionOnSet(f, R) \in Int
  BY <1>3, SumInt
<1> QED  BY <1>2, <1>4, <1>5, <1>6, <1>7 DEF g

\* A sum of natural numbers, and of some of them.
LEMMA SumMonotone ==
  ASSUME NEW f, NEW S, IsFiniteSet(S), \A x \in S : f[x] \in Nat, NEW T \in SUBSET S
  PROVE  /\ SumFunctionOnSet(f, T) \in Nat
         /\ SumFunctionOnSet(f, T) <= SumFunctionOnSet(f, S)
<1>1. PICK g : Adds(g, f, S) /\ SumFunctionOnSet(f, S) = g[S]
  BY SumAdds
<1>2. \A u \in SUBSET S : SumFunctionOnSet(f, u) = g[u]
  <2>1. TAKE u \in SUBSET S
  <2>2. IsFiniteSet(u)
    BY FS_Subset
  <2>3. PICK b : Adds(b, f, u) /\ SumFunctionOnSet(f, u) = b[u]
    BY <2>2, SumAdds
  <2> QED  BY <1>1, <2>2, <2>3, AddsAgree
<1> DEFINE Bad == {s \in SUBSET S : ~(/\ g[s] \in Nat
                                      /\ \A u \in SUBSET s : g[u] <= g[s])}
<1>3. Bad = {}
  <2> SUFFICES ASSUME Bad # {} PROVE FALSE
    OBVIOUS
  <2>1. PICK s \in Bad : \A u \in Bad : u \subseteq s => u = s
    <3> HIDE DEF Bad
    <3>1. Bad \subseteq SUBSET S
      BY DEF Bad
    <3> QED  BY <3>1, MinimalSubset
  <2>2. s \in SUBSET S
    OBVIOUS
  <2>3. \A x \in s : /\ g[s] = f[x] + g[s \ {x}] /\ f[x] \in Nat
                      /\ g[s \ {x}] \in Nat /\ \A u \in SUBSET (s \ {x}) : g[u] <= g[s \ {x}]
    <3>1. TAKE x \in s
    <3>2. s \ {x} \in SUBSET S /\ s \ {x} \notin Bad
      BY <2>1
    <3>3. g[s \ {x}] \in Nat /\ \A u \in SUBSET (s \ {x}) : g[u] <= g[s \ {x}]
      BY Zenon, <3>2
    <3> QED  BY <1>1, <2>2, <3>3 DEF Adds
  <2>4. g[s] \in Nat
    <3>1. CASE s = {}
      BY <1>1, <3>1 DEF Adds
    <3>2. CASE s # {}
      <4>1. PICK x : x \in s
        BY <3>2
      <4>2. g[s] = f[x] + g[s \ {x}] /\ f[x] \in Nat /\ g[s \ {x}] \in Nat
        BY <2>3, <4>1
      <4> QED  BY <4>2
    <3> QED  BY <3>1, <3>2
  <2>5. ASSUME NEW u \in SUBSET s
        PROVE  g[u] <= g[s]
    <3>1. CASE u = s
      BY <2>4, <3>1
    <3>2. CASE u # s
      <4>1. PICK x \in s : x \notin u
        BY <3>2
      <4>2. u \in SUBSET (s \ {x})
        BY <4>1
      <4>3. g[u] \in Int
        BY <1>1, <2>2 DEF Adds
      <4>4. /\ g[s] = f[x] + g[s \ {x}] /\ f[x] \in Nat
            /\ g[s \ {x}] \in Nat /\ g[u] <= g[s \ {x}]
        BY <2>3, <4>1, <4>2
      <4> QED  BY <4>3, <4>4
    <3> QED  BY <3>1, <3>2
  <2> QED  BY <2>1, <2>4, <2>5
<1>4. g[T] \in Nat /\ g[T] <= g[S]
  <2>1. T \notin Bad /\ S \notin Bad
    BY <1>3
  <2> QED  BY <2>1
<1> QED  BY <1>1, <1>2, <1>4

\* The elements of a finite set one by one: a property of sets that the empty
\* set has, and any set has that has it without one of its elements.
LEMMA SetInduction ==
  ASSUME NEW S, IsFiniteSet(S), NEW T,
         {} \in T, \A u \in SUBSET S : \A x \in u : u \ {x} \in T => u \in T
  PROVE  SUBSET S \subseteq T
<1> DEFINE Bad == {u \in SUBSET S : u \notin T}
<1> SUFFICES ASSUME Bad # {} PROVE FALSE
  OBVIOUS
<1>1. PICK s \in Bad : \A u \in Bad : u \subseteq s => u = s
  <2> HIDE DEF Bad
  <2>1. Bad \subseteq SUBSET S
    BY DEF Bad
  <2> QED  BY <2>1, MinimalSubset
<1>2. PICK x : x \in s
  BY Zenon
<1>3. s \ {x} \notin Bad /\ s \ {x} \in SUBSET S
  BY <1>1, <1>2
<1> QED  BY <1>2, <1>3

\* The sum over two disjoint sets.
LEMMA SumDisjoint ==
  ASSUME NEW f, NEW S, IsFiniteSet(S), NEW R, IsFiniteSet(R), S \cap R = {},
         \A x \in S \cup R : f[x] \in Int
  PROVE  SumFunctionOnSet(f, S \cup R) = SumFunctionOnSet(f, S) + SumFunctionOnSet(f, R)
<1> DEFINE Sum(u) == SumFunctionOnSet(f, u)
           T == {u \in SUBSET R : Sum(S \cup u) = Sum(S) + Sum(u)}
<1>1. \A u \in SUBSET R : /\ IsFiniteSet(u) /\ IsFiniteSet(S \cup u)
                           /\ Sum(u) \in Int /\ Sum(S \cup u) \in Int
  <2>1. TAKE u \in SUBSET R
  <2>2. IsFiniteSet(u)
    BY FS_Subset
  <2>3. IsFiniteSet(S \cup u)
    BY Zenon, <2>2, FS_Union
  <2> QED  BY <2>2, <2>3, SumInt
<1>2. {} \in T
  <2>1. S \cup {} = S /\ Sum({}) = 0 /\ Sum(S) \in Int
    BY SumNone, SumInt
  <2> HIDE DEF Sum
  <2> QED  BY <2>1
<1>3. ASSUME NEW u \in SUBSET R, NEW x \in u, u \ {x} \in T
      PROVE  u \in T
  <2>1. Sum(u) = f[x] + Sum(u \ {x})
    <3>1. IsFiniteSet(u) /\ \A y \in u : f[y] \in Int
      BY Zenon, <1>1
    <3> QED  BY <3>1, SumOut
  <2>2. x \in S \cup u /\ (S \cup u) \ {x} = S \cup (u \ {x})
    OBVIOUS
  <2>3. Sum(S \cup u) = f[x] + Sum(S \cup (u \ {x}))
    <3>1. Sum(S \cup u) = f[x] + Sum((S \cup u) \ {x})
      <4>1. IsFiniteSet(S \cup u) /\ \A y \in S \cup u : f[y] \in Int
        BY <1>1
      <4> QED  BY <2>2, <4>1, SumOut
    <3> HIDE DEF Sum
    <3> QED  BY <2>2, <3>1
  <2>4. f[x] \in Int /\ Sum(S) \in Int /\ Sum(u \ {x}) \in Int
    BY Zenon, <1>1, SumInt
  <2> HIDE DEF Sum
  <2> QED  BY <1>3, <2>1, <2>3, <2>4
<1>4. SUBSET R \subseteq T
  <2> HIDE DEF T
  <2> QED  BY Zenon, <1>2, <1>3, SetInduction
<1>5. R \in T
  BY <1>4
<1> QED  BY <1>5

\* Only what is not zero counts.
LEMMA SumSupport ==
  ASSUME NEW f, NEW S, IsFiniteSet(S), \A x \in S : f[x] \in Int,
         NEW U \in SUBSET S, \A x \in S \ U : f[x] = 0
  PROVE  SumFunctionOnSet(f, S) = SumFunctionOnSet(f, U)
<1> DEFINE Sum(u) == SumFunctionOnSet(f, u)
           R == S \ U
           T == {u \in SUBSET R : Sum(u) = 0}
<1>1. IsFiniteSet(R) /\ IsFiniteSet(U)
  BY FS_Subset
<1>2. {} \in T
  BY SumNone
<1>3. ASSUME NEW u \in SUBSET R, NEW x \in u, u \ {x} \in T
      PROVE  u \in T
  <2>1. IsFiniteSet(u)
    BY <1>1, FS_Subset
  <2>2. Sum(u) = f[x] + Sum(u \ {x})
    BY <2>1, SumOut
  <2> HIDE DEF Sum
  <2> QED  BY <1>3, <2>2
<1>4. SUBSET R \subseteq T
  <2> HIDE DEF T, R
  <2> QED  BY Zenon, <1>1, <1>2, <1>3, SetInduction
<1>5. Sum(R) = 0
  <2>1. R \in T
    BY <1>4
  <2> QED  BY <2>1
<1>6. Sum(S) = Sum(U) + Sum(R)
  <2>1. U \cap R = {} /\ U \cup R = S
    OBVIOUS
  <2>2. \A x \in U \cup R : f[x] \in Int
    OBVIOUS
  <2> HIDE DEF R
  <2>3. Sum(U \cup R) = Sum(U) + Sum(R)
    BY <1>1, <2>1, <2>2, SumDisjoint
  <2> QED  BY Zenon, <2>1, <2>3
<1>7. Sum(U) \in Int
  BY <1>1, SumInt
<1> HIDE DEF Sum
<1>8. Sum(S) = Sum(U)
  BY <1>5, <1>6, <1>7
<1> QED  BY <1>8 DEF Sum

-----------------------------------------------------------------------------
(* Filtered sequences.                                                      *)

\* k is the loop of Filter: what is kept of each prefix of s.
FilterLoop(k, s, A) ==
  k = [n \in 0 .. Len(s) |->
         IF n = 0 THEN <<>>
         ELSE IF s[n] \in A THEN Append(k[n - 1], s[n]) ELSE k[n - 1]]

LEMMA FilterIs ==
  ASSUME NEW s, NEW A
  PROVE  Filter(s, A) = (CHOOSE k : FilterLoop(k, s, A))[Len(s)]
BY DEF Filter, FilterLoop

\* The loop has a result for every prefix.
LEMMA LoopExists ==
  ASSUME NEW X, NEW s \in Seq(X), NEW A
  PROVE  \E k : FilterLoop(k, s, A)
<1> DEFINE Rec(k, n) == IF n = 0 THEN <<>>
                        ELSE IF s[n] \in A THEN Append(k[n - 1], s[n]) ELSE k[n - 1]
           UpTo(k, m) == \A n \in 0 .. Len(s) : n <= m => k[n] = Rec(k, n)
           T == {m \in Nat : \E k : UpTo(k, m)}
<1>1. 0 \in T
  <2> DEFINE z == [n \in 0 .. Len(s) |-> <<>>]
  <2>1. UpTo(z, 0)
    OBVIOUS
  <2> HIDE DEF z, UpTo
  <2> QED  BY <2>1
<1>2. ASSUME NEW m \in T PROVE m + 1 \in T
  <2>1. PICK k : UpTo(k, m)
    OBVIOUS
  <2> DEFINE h == [n \in 0 .. Len(s) |-> IF n <= m THEN k[n] ELSE Rec(k, n)]
  <2>2. m \in Nat /\ m + 1 \in Nat
    OBVIOUS
  <2>3. ASSUME NEW n \in 0 .. Len(s), n <= m + 1
        PROVE  h[n] = Rec(h, n)
    <3>1. h[n] = Rec(k, n)
      BY <2>1
    <3>2. CASE n = 0
      BY <3>1, <3>2
    <3>3. CASE n # 0
      <4>1. n - 1 \in 0 .. Len(s) /\ n - 1 <= m
        BY <2>2, <2>3, <3>3
      <4>2. h[n - 1] = k[n - 1]
        BY <4>1
      <4> QED  BY <3>1, <3>3, <4>2
    <3> QED  BY <3>2, <3>3
  <2>4. UpTo(h, m + 1)
    BY <2>3
  <2> HIDE DEF h, UpTo
  <2> QED  BY <2>2, <2>4
<1>3. T = Nat
  <2> HIDE DEF T
  <2>1. T \subseteq Nat
    BY DEF T
  <2> QED  BY Zenon, <1>1, <1>2, <2>1, Induction
<1>4. Len(s) \in Nat
  OBVIOUS
<1>5. PICK k : UpTo(k, Len(s))
  BY <1>3, <1>4
<1>6. \A n \in 0 .. Len(s) : k[n] = Rec(k, n)
  BY <1>4, <1>5
<1> DEFINE h == [n \in 0 .. Len(s) |-> Rec(k, n)]
<1>7. \A n \in 0 .. Len(s) : h[n] = k[n]
  BY <1>6
<1>8. \A n \in 0 .. Len(s) : Rec(h, n) = Rec(k, n)
  <2> TAKE n \in 0 .. Len(s)
  <2>1. n # 0 => n - 1 \in 0 .. Len(s)
    BY <1>4
  <2> HIDE DEF h
  <2> QED  BY <1>7, <2>1
<1>9. FilterLoop(h, s, A)
  BY <1>8 DEF FilterLoop
<1> QED  BY <1>9

\* What the loop keeps of a prefix depends on that prefix only.
LEMMA LoopAgree ==
  ASSUME NEW X, NEW s \in Seq(X), NEW u \in Seq(X), NEW A, NEW m \in Nat,
         m <= Len(s), m <= Len(u), \A n \in 1 .. m : s[n] = u[n],
         NEW k, FilterLoop(k, s, A), NEW l, FilterLoop(l, u, A)
  PROVE  k[m] = l[m]
<1> DEFINE T == {n \in Nat : n <= m => k[n] = l[n]}
<1>1. Len(s) \in Nat /\ Len(u) \in Nat
  OBVIOUS
<1>2. k[0] = <<>> /\ l[0] = <<>>
  BY <1>1 DEF FilterLoop
<1>3. ASSUME NEW n \in T PROVE n + 1 \in T
  <2>1. n \in Nat /\ n + 1 \in Nat /\ (n + 1) - 1 = n /\ n + 1 # 0
    OBVIOUS
  <2> SUFFICES ASSUME n + 1 <= m PROVE k[n + 1] = l[n + 1]
    BY <2>1
  <2>2. n + 1 \in 0 .. Len(s) /\ n + 1 \in 0 .. Len(u) /\ n + 1 \in 1 .. m /\ k[n] = l[n]
    BY <1>1, <2>1
  <2>3. /\ k[n + 1] = IF s[n + 1] \in A THEN Append(k[n], s[n + 1]) ELSE k[n]
        /\ l[n + 1] = IF u[n + 1] \in A THEN Append(l[n], u[n + 1]) ELSE l[n]
    <3> DEFINE p == n + 1
    <3>1. p - 1 = n /\ p # 0
      BY <2>1
    <3> HIDE DEF p
    <3>2. p \in 0 .. Len(s) /\ p \in 0 .. Len(u)
      BY <2>2 DEF p
    <3>3. /\ k[p] = IF s[p] \in A THEN Append(k[p - 1], s[p]) ELSE k[p - 1]
          /\ l[p] = IF u[p] \in A THEN Append(l[p - 1], u[p]) ELSE l[p - 1]
      BY Zenon, <3>1, <3>2 DEF FilterLoop
    <3> QED  BY <3>1, <3>3 DEF p
  <2> QED  BY <2>2, <2>3
<1>4. T = Nat
  <2>1. 0 \in T /\ T \subseteq Nat
    BY <1>2
  <2> HIDE DEF T
  <2> QED  BY Zenon, <1>3, <2>1, Induction
<1>5. m \in T
  BY <1>4
<1> QED  BY <1>5

\* The empty list, and one more element.
LEMMA FilterNone ==
  ASSUME NEW A
  PROVE  Filter(<<>>, A) = <<>>
<1>1. <<>> \in Seq({}) /\ Len(<<>>) = 0
  OBVIOUS
<1> DEFINE k == CHOOSE h : FilterLoop(h, <<>>, A)
<1>2. FilterLoop(k, <<>>, A)
  BY Zenon, <1>1, LoopExists
<1>3. Filter(<<>>, A) = k[0]
  BY Zenon, <1>1, FilterIs
<1> HIDE DEF k
<1> QED  BY <1>1, <1>2, <1>3 DEF FilterLoop

LEMMA FilterAppend ==
  ASSUME NEW X, NEW s \in Seq(X), NEW x \in X, NEW A
  PROVE  Filter(Append(s, x), A) = IF x \in A THEN Append(Filter(s, A), x) ELSE Filter(s, A)
<1> DEFINE u == Append(s, x)
           n == Len(s)
           k == CHOOSE h : FilterLoop(h, s, A)
           l == CHOOSE h : FilterLoop(h, u, A)
<1>1. /\ u \in Seq(X) /\ n \in Nat /\ Len(u) = n + 1 /\ u[n + 1] = x
      /\ \A j \in 1 .. n : u[j] = s[j]
  OBVIOUS
<1> HIDE DEF u, n
<1>2. FilterLoop(k, s, A) /\ FilterLoop(l, u, A)
  BY <1>1, LoopExists
<1>3. Filter(s, A) = k[n] /\ Filter(u, A) = l[n + 1]
  BY <1>1, FilterIs DEF n
<1> HIDE DEF k, l
<1>4. k[n] = l[n]
  <2>1. n <= Len(s) /\ n <= Len(u) /\ \A j \in 1 .. n : s[j] = u[j]
    BY <1>1 DEF n
  <2>2. n \in Nat /\ u \in Seq(X)
    BY <1>1
  <2> QED  BY <1>2, <2>1, <2>2, LoopAgree
<1>5. l[n + 1] = IF x \in A THEN Append(l[n], x) ELSE l[n]
  <2> DEFINE p == n + 1
  <2>1. p - 1 = n /\ p # 0 /\ p \in 0 .. Len(u) /\ u[p] = x
    BY <1>1
  <2> HIDE DEF p
  <2>2. l[p] = IF u[p] \in A THEN Append(l[p - 1], u[p]) ELSE l[p - 1]
    BY Zenon, <1>2, <2>1 DEF FilterLoop
  <2> QED  BY <2>1, <2>2 DEF p
<1> QED  BY <1>3, <1>4, <1>5 DEF u

\* A set of sequences that holds the empty one and with a sequence all its
\* extensions by one element.
LEMMA SeqInduction ==
  ASSUME NEW X, NEW T, <<>> \in T, \A s \in Seq(X) : s \in T => \A x \in X : Append(s, x) \in T
  PROVE  Seq(X) \subseteq T
<1> DEFINE N == {n \in Nat : \A s \in Seq(X) : Len(s) = n => s \in T}
<1>1. 0 \in N
  <2>1. \A s \in Seq(X) : Len(s) = 0 => s = <<>>
    OBVIOUS
  <2> QED  BY <2>1
<1>2. ASSUME NEW n \in N PROVE n + 1 \in N
  <2>1. n \in Nat /\ n + 1 \in Nat
    OBVIOUS
  <2> SUFFICES ASSUME NEW s \in Seq(X), Len(s) = n + 1 PROVE s \in T
    BY <2>1
  <2> DEFINE f == SubSeq(s, 1, n)
  <2>2. f \in Seq(X) /\ Len(f) = n /\ s[n + 1] \in X /\ s = Append(f, s[n + 1])
    BY <2>1
  <2> HIDE DEF f
  <2>3. f \in T
    BY <2>2
  <2> HIDE DEF N
  <2> QED  BY Zenon, <2>2, <2>3
<1>3. N = Nat
  <2>1. N \subseteq Nat
    OBVIOUS
  <2> HIDE DEF N
  <2> QED  BY Zenon, <1>1, <1>2, <2>1, Induction
<1>4. ASSUME NEW s \in Seq(X) PROVE s \in T
  <2>1. Len(s) \in N
    BY <1>3
  <2> QED  BY <2>1
<1> QED  BY <1>4

\* What is kept: a sequence of elements of A, no longer than s.
LEMMA FilterType ==
  ASSUME NEW X, NEW s \in Seq(X), NEW A
  PROVE  Filter(s, A) \in Seq(X \cap A) /\ Len(Filter(s, A)) <= Len(s)
<1> DEFINE T == {u \in Seq(X) : Filter(u, A) \in Seq(X \cap A) /\ Len(Filter(u, A)) <= Len(u)}
<1>1. <<>> \in T
  <2>1. <<>> \in Seq(X) /\ <<>> \in Seq(X \cap A) /\ Len(<<>>) <= Len(<<>>)
    OBVIOUS
  <2> QED  BY Zenon, <2>1, FilterNone
<1>2. ASSUME NEW u \in Seq(X), u \in T, NEW x \in X PROVE Append(u, x) \in T
  <2> DEFINE f == Filter(u, A)
  <2>1. f \in Seq(X \cap A) /\ Len(f) <= Len(u) /\ Append(u, x) \in Seq(X)
    BY <1>2
  <2>2. Filter(Append(u, x), A) = IF x \in A THEN Append(f, x) ELSE f
    BY FilterAppend
  <2> HIDE DEF f
  <2>3. CASE x \in A
    <3>1. x \in X \cap A
      BY <2>3
    <3>2. Append(f, x) \in Seq(X \cap A) /\ Len(Append(f, x)) <= Len(Append(u, x))
      BY <2>1, <3>1
    <3> QED  BY Zenon, <2>1, <2>2, <2>3, <3>2
  <2>4. CASE x \notin A
    <3>1. Len(f) <= Len(Append(u, x))
      BY <2>1
    <3> QED  BY <2>1, <2>2, <2>4, <3>1
  <2> QED  BY <2>3, <2>4
<1>3. Seq(X) \subseteq T
  <2> HIDE DEF T
  <2> QED  BY <1>1, <1>2, SeqInduction
<1> QED  BY <1>3

\* Which elements are kept, and in which order: m gives the position in s of
\* each element of the filtered sequence f.
Positions(m, f, s, A) ==
  /\ m \in [1 .. Len(f) -> 1 .. Len(s)]
  /\ \A j, k \in 1 .. Len(f) : j < k => m[j] < m[k]
  /\ \A j \in 1 .. Len(f) : f[j] = s[m[j]] /\ f[j] \in A
  /\ \A n \in 1 .. Len(s) : s[n] \in A => \E j \in 1 .. Len(f) : m[j] = n

LEMMA FilterPositions ==
  ASSUME NEW X, NEW s \in Seq(X), NEW A
  PROVE  \E m : Positions(m, Filter(s, A), s, A)
<1> DEFINE T == {u \in Seq(X) : \E m : Positions(m, Filter(u, A), u, A)}
<1>1. <<>> \in T
  <2>1. <<>> \in Seq(X) /\ Len(<<>>) = 0 /\ Filter(<<>>, A) = <<>>
    BY FilterNone
  <2> DEFINE m == [j \in 1 .. 0 |-> 0]
  <2>2. Positions(m, <<>>, <<>>, A)
    BY <2>1 DEF Positions
  <2> HIDE DEF m
  <2> QED  BY <2>1, <2>2
<1>2. ASSUME NEW u \in Seq(X), u \in T, NEW x \in X
      PROVE  Append(u, x) \in T
  <2> DEFINE f == Filter(u, A)
             v == Append(u, x)
             g == Filter(v, A)
             n == Len(u)
             l == Len(f)
  <2>1. PICK m : Positions(m, f, u, A)
    BY <1>2
  <2>2. f \in Seq(X \cap A) /\ l \in Nat /\ n \in Nat
    BY FilterType
  <2>3. /\ v \in Seq(X) /\ Len(v) = n + 1 /\ v[n + 1] = x
        /\ \A j \in 1 .. n : v[j] = u[j]
    OBVIOUS
  <2>4. g = IF x \in A THEN Append(f, x) ELSE f
    BY FilterAppend
  <2> HIDE DEF f, v, g
  <2>5. /\ m \in [1 .. l -> 1 .. n]
        /\ \A j, k \in 1 .. l : j < k => m[j] < m[k]
        /\ \A j \in 1 .. l : f[j] = u[m[j]] /\ f[j] \in A
        /\ \A p \in 1 .. n : u[p] \in A => \E j \in 1 .. l : m[j] = p
    BY Zenon, <2>1 DEF Positions
  <2> HIDE DEF n, l
  <2>6. CASE x \in A
    <3> DEFINE q == [j \in 1 .. l + 1 |-> IF j = l + 1 THEN n + 1 ELSE m[j]]
    <3>1. Len(g) = l + 1 /\ g[l + 1] = x /\ \A j \in 1 .. l : g[j] = f[j]
      BY <2>2, <2>4, <2>6 DEF l
    <3>2. q \in [1 .. l + 1 -> 1 .. n + 1] /\ q[l + 1] = n + 1 /\ \A j \in 1 .. l : q[j] = m[j]
      BY <2>2, <2>5
    <3> HIDE DEF q
    <3>3. \A j, k \in 1 .. l + 1 : j < k => q[j] < q[k]
      <4> SUFFICES ASSUME NEW j \in 1 .. l + 1, NEW k \in 1 .. l + 1, j < k
                   PROVE  q[j] < q[k]
        OBVIOUS
      <4>1. j \in 1 .. l /\ q[j] = m[j] /\ m[j] \in 1 .. n
        BY <2>2, <2>5, <3>2
      <4>2. CASE k = l + 1
        BY <2>2, <3>2, <4>1, <4>2
      <4>3. CASE k \in 1 .. l
        BY <2>5, <3>2, <4>1, <4>3
      <4> QED  BY <2>2, <4>2, <4>3
    <3>4. \A j \in 1 .. l + 1 : g[j] = v[q[j]] /\ g[j] \in A
      <4> TAKE j \in 1 .. l + 1
      <4>1. CASE j = l + 1
        BY <2>3, <2>6, <3>1, <3>2, <4>1
      <4>2. CASE j \in 1 .. l
        <5>1. m[j] \in 1 .. n
          BY <2>5, <4>2
        <5>2. g[j] = f[j] /\ q[j] = m[j]
          BY <3>1, <3>2, <4>2
        <5>3. f[j] = u[m[j]] /\ f[j] \in A
          BY <2>5, <4>2
        <5>4. v[m[j]] = u[m[j]]
          BY <2>3, <5>1
        <5> QED  BY <5>2, <5>3, <5>4
      <4> QED  BY <2>2, <4>1, <4>2
    <3>5. \A p \in 1 .. n + 1 : v[p] \in A => \E j \in 1 .. l + 1 : q[j] = p
      <4> SUFFICES ASSUME NEW p \in 1 .. n + 1, v[p] \in A
                   PROVE  \E j \in 1 .. l + 1 : q[j] = p
        OBVIOUS
      <4>1. CASE p = n + 1
        <5>1. l + 1 \in 1 .. l + 1
          BY <2>2
        <5> QED  BY <3>2, <4>1, <5>1
      <4>2. CASE p \in 1 .. n
        <5>1. PICK j \in 1 .. l : m[j] = p
          BY <2>3, <2>5, <4>2
        <5>2. j \in 1 .. l + 1 /\ q[j] = p
          BY <2>2, <3>2, <5>1
        <5> QED  BY <5>2
      <4> QED  BY <2>2, <4>1, <4>2
    <3>6. Positions(q, g, v, A)
      BY <2>3, <3>1, <3>2, <3>3, <3>4, <3>5 DEF Positions
    <3> QED  BY <2>3, <3>6 DEF g, v
  <2>7. CASE x \notin A
    <3>1. g = f
      BY <2>4, <2>7
    <3>2. m \in [1 .. l -> 1 .. n + 1] /\ \A j \in 1 .. l : m[j] \in 1 .. n
      BY <2>2, <2>5
    <3>3. \A j \in 1 .. l : f[j] = v[m[j]]
      BY <2>3, <2>5, <3>2
    <3>4. \A p \in 1 .. n + 1 : v[p] \in A => \E j \in 1 .. l : m[j] = p
      <4> TAKE p \in 1 .. n + 1
      <4>1. p = n + 1 \/ p \in 1 .. n
        BY <2>2
      <4> QED  BY <2>3, <2>5, <2>7, <4>1
    <3>5. Len(f) = l
      BY DEF l
    <3>6. Positions(m, f, v, A)
      BY <2>3, <2>5, <3>2, <3>3, <3>4, <3>5 DEF Positions
    <3> QED  BY <2>3, <3>1, <3>6 DEF g, v
  <2> QED  BY <2>6, <2>7
<1>3. Seq(X) \subseteq T
  <2> HIDE DEF T
  <2> QED  BY <1>1, <1>2, SeqInduction
<1> QED  BY <1>3

\* Nothing is left out, or everything.
LEMMA FilterAll ==
  ASSUME NEW X, NEW s \in Seq(X), NEW A, X \subseteq A
  PROVE  Filter(s, A) = s
<1> DEFINE T == {u \in Seq(X) : Filter(u, A) = u}
<1>1. <<>> \in T
  BY FilterNone
<1>2. ASSUME NEW u \in Seq(X), u \in T, NEW x \in X
      PROVE  Append(u, x) \in T
  <2>1. Filter(Append(u, x), A) = Append(Filter(u, A), x)
    BY FilterAppend
  <2> QED  BY <1>2, <2>1
<1>3. Seq(X) \subseteq T
  <2> HIDE DEF T
  <2> QED  BY <1>1, <1>2, SeqInduction
<1> QED  BY <1>3

LEMMA FilterEmpty ==
  ASSUME NEW X, NEW s \in Seq(X), NEW A, X \cap A = {}
  PROVE  Filter(s, A) = <<>>
<1>1. Filter(s, A) \in Seq({})
  BY FilterType
<1> QED  BY <1>1

\* One filter after another.
LEMMA FilterTwice ==
  ASSUME NEW X, NEW s \in Seq(X), NEW A, NEW B
  PROVE  Filter(Filter(s, A), B) = Filter(s, A \cap B)
<1> DEFINE T == {u \in Seq(X) : Filter(Filter(u, A), B) = Filter(u, A \cap B)}
<1>1. <<>> \in T
  BY FilterNone
<1>2. ASSUME NEW u \in Seq(X), u \in T, NEW x \in X
      PROVE  Append(u, x) \in T
  <2> DEFINE f == Filter(u, A)
             g == Filter(u, A \cap B)
  <2>1. f \in Seq(X)
    <3>1. f \in Seq(X \cap A) /\ X \cap A \subseteq X
      BY FilterType
    <3> HIDE DEF f
    <3> QED  BY <3>1
  <2>2. Filter(Append(u, x), A) = IF x \in A THEN Append(f, x) ELSE f
    BY FilterAppend
  <2>3. Filter(Append(u, x), A \cap B) = IF x \in A \cap B THEN Append(g, x) ELSE g
    BY FilterAppend
  <2>4. Filter(Append(f, x), B) = IF x \in B THEN Append(Filter(f, B), x) ELSE Filter(f, B)
    <3> HIDE DEF f
    <3> QED  BY <2>1, FilterAppend
  <2>5. Filter(f, B) = g
    BY <1>2
  <2> HIDE DEF f, g
  <2>6. Filter(Filter(Append(u, x), A), B) = Filter(Append(u, x), A \cap B)
    BY Zenon, <2>2, <2>3, <2>4, <2>5
  <2> QED  BY <2>6
<1>3. Seq(X) \subseteq T
  <2> HIDE DEF T
  <2> QED  BY <1>1, <1>2, SeqInduction
<1> QED  BY Zenon, <1>3
-----------------------------------------------------------------------------
(* Digits and numbers.                                                     *)

LEMMA TensIs ==
  /\ Tens \in [Nat -> Nat \ {0}] /\ Tens[0] = 1
  /\ \A n \in Nat : Tens[n + 1] = 10 * Tens[n]
<1> DEFINE Is(g) == g = [n \in Nat |-> IF n = 0 THEN 1 ELSE 10 * g[n - 1]]
           V == Nat \ {0}
           F == [n \in Nat |-> [v \in V |-> 10 * v]]
<1>1. PICK k : Recursion(k, V, 1, F)
  <2>1. F \in [Nat -> [V -> V]] /\ 1 \in V
    OBVIOUS
  <2> HIDE DEF F, V
  <2> QED  BY Zenon, <2>1, NatRecursion
<1>2. k \in [Nat -> V] /\ k[0] = 1 /\ \A n \in Nat : k[n + 1] = 10 * k[n]
  BY Zenon, <1>1 DEF Recursion
<1>3. \A n \in Nat : k[n] = IF n = 0 THEN 1 ELSE 10 * k[n - 1]
  <2> TAKE n \in Nat
  <2>1. n # 0 => n - 1 \in Nat /\ (n - 1) + 1 = n
    OBVIOUS
  <2> HIDE DEF F, V
  <2> QED  BY <1>2, <2>1
<1>4. Is(k)
  BY <1>2, <1>3
<1>5. Is(Tens)
  <2>1. Tens = CHOOSE g : Is(g)
    BY DEF Tens
  <2> HIDE DEF Is
  <2> QED  BY <1>4, <2>1
<1>6. DOMAIN Tens = Nat /\ Tens[0] = 1 /\ \A n \in Nat : n # 0 => Tens[n] = 10 * Tens[n - 1]
  BY <1>5
<1>7. \A n \in Nat : Tens[n + 1] = 10 * Tens[n]
  <2> TAKE n \in Nat
  <2>1. n + 1 \in Nat /\ n + 1 # 0 /\ (n + 1) - 1 = n
    OBVIOUS
  <2> HIDE DEF Is, F, V
  <2> QED  BY <1>6, <2>1
<1> DEFINE T == {n \in Nat : Tens[n] \in Nat \ {0}}
<1>8. 0 \in T
  BY <1>6
<1>9. ASSUME NEW n \in T PROVE n + 1 \in T
  <2>1. n \in Nat /\ n + 1 \in Nat /\ Tens[n] \in Nat \ {0}
    OBVIOUS
  <2>2. Tens[n + 1] = 10 * Tens[n]
    BY <1>7, <2>1
  <2> QED  BY <2>1, <2>2
<1>10. T = Nat
  <2>1. T \subseteq Nat
    OBVIOUS
  <2> HIDE DEF T, Is
  <2> QED  BY Zenon, <1>8, <1>9, <2>1, Induction
<1>11. \A n \in Nat : Tens[n] \in Nat \ {0}
  BY <1>10
<1>12. Tens = [n \in Nat |-> Tens[n]]
  BY <1>5
<1> HIDE DEF Is, T
<1> QED  BY <1>6, <1>7, <1>11, <1>12

LEMMA TensAdd ==
  ASSUME NEW a \in Nat, NEW b \in Nat
  PROVE  Tens[a + b] = Tens[a] * Tens[b]
<1> DEFINE T == {n \in Nat : Tens[a + n] = Tens[a] * Tens[n]}
<1>1. 0 \in T
  BY TensIs
<1>2. ASSUME NEW n \in T PROVE n + 1 \in T
  <2>1. /\ n \in Nat /\ n + 1 \in Nat /\ a + n \in Nat /\ a + (n + 1) = (a + n) + 1
        /\ Tens[a + n] = Tens[a] * Tens[n]
    OBVIOUS
  <2>2. Tens[(a + n) + 1] = 10 * Tens[a + n] /\ Tens[n + 1] = 10 * Tens[n]
    BY <2>1, TensIs
  <2>3. Tens[a] \in Nat /\ Tens[n] \in Nat
    BY <2>1, TensIs
  <2>4. 10 * (Tens[a] * Tens[n]) = Tens[a] * (10 * Tens[n])
    BY <2>3
  <2>5. Tens[a + (n + 1)] = Tens[a] * Tens[n + 1]
    BY <2>1, <2>2, <2>4
  <2> QED  BY <2>1, <2>5
<1>3. T = Nat
  <2>1. T \subseteq Nat
    OBVIOUS
  <2> HIDE DEF T
  <2> QED  BY Zenon, <1>1, <1>2, <2>1, Induction
<1> QED  BY <1>3

\* k is the loop of Number over the digits s.
NumberLoop(k, s) == k = [i \in 0 .. Len(s) |-> IF i = 0 THEN 0 ELSE 10 * k[i - 1] + s[i]]

LEMMA NumberIs ==
  ASSUME NEW s \in Seq(Nat)
  PROVE  \E k \in [0 .. Len(s) -> Nat] :
           /\ Number(s) = k[Len(s)] /\ k[0] = 0
           /\ \A i \in 1 .. Len(s) : k[i] = 10 * k[i - 1] + s[i]
<1> DEFINE L == Len(s)
           F == [n \in Nat |-> [v \in Nat |-> IF n + 1 \in 1 .. L THEN 10 * v + s[n + 1] ELSE 0]]
<1>0. L \in Nat /\ \A i \in 1 .. L : s[i] \in Nat
  OBVIOUS
<1>1. PICK g : Recursion(g, Nat, 0, F)
  <2>1. F \in [Nat -> [Nat -> Nat]] /\ 0 \in Nat
    BY <1>0
  <2> HIDE DEF F
  <2> QED  BY Zenon, <2>1, NatRecursion
<1>2. ASSUME NEW i \in 1 .. L PROVE g[i] = 10 * g[i - 1] + s[i]
  <2>1. i - 1 \in Nat /\ (i - 1) + 1 = i
    BY <1>0
  <2>2. g[i] = F[i - 1][g[i - 1]] /\ g[i - 1] \in Nat
    BY Zenon, <1>1, <2>1 DEF Recursion
  <2> QED  BY <2>1, <2>2
<1> HIDE DEF F
<1> DEFINE h == [i \in 0 .. L |-> g[i]]
<1>3. /\ h[0] = 0
      /\ \A i \in 1 .. L : h[i] = 10 * h[i - 1] + s[i]
  <2>1. \A i \in 1 .. L : i - 1 \in 0 .. L /\ i \in 0 .. L
    BY <1>0
  <2>2. \A i \in 0 .. L : h[i] = g[i]
    OBVIOUS
  <2>3. 0 \in 0 .. L
    BY <1>0
  <2> HIDE DEF h
  <2> QED  BY Zenon, <1>1, <1>2, <2>1, <2>2, <2>3 DEF Recursion
<1>4. NumberLoop(h, s)
  <2>1. h = [i \in 0 .. L |-> h[i]]
    OBVIOUS
  <2> HIDE DEF h
  <2>2. \A i \in 0 .. L : h[i] = IF i = 0 THEN 0 ELSE 10 * h[i - 1] + s[i]
    BY <1>0, <1>3
  <2> QED  BY <2>1, <2>2 DEF NumberLoop
<1> DEFINE k == CHOOSE x : NumberLoop(x, s)
<1>5. NumberLoop(k, s)
  BY <1>4
<1>6. Number(s) = k[L]
  BY DEF Number, NumberLoop
<1> HIDE DEF k, h
<1>7. k = [i \in 0 .. L |-> k[i]] /\ k[0] = 0 /\ \A i \in 1 .. L : k[i] = 10 * k[i - 1] + s[i]
  <2>1. k = [i \in 0 .. L |-> IF i = 0 THEN 0 ELSE 10 * k[i - 1] + s[i]]
    BY Zenon, <1>5 DEF NumberLoop
  <2>2. \A i \in 0 .. L : k[i] = IF i = 0 THEN 0 ELSE 10 * k[i - 1] + s[i]
    BY Zenon, <2>1
  <2>3. k = [i \in 0 .. L |-> k[i]]
    BY <2>1
  <2>4. 0 \in 0 .. L /\ \A i \in 1 .. L : i \in 0 .. L /\ i # 0
    BY <1>0
  <2> QED  BY <2>2, <2>3, <2>4
<1> DEFINE T == {n \in Nat : n <= L => k[n] \in Nat}
<1>8. 0 \in T
  BY <1>7
<1>9. ASSUME NEW n \in T PROVE n + 1 \in T
  <2>1. n \in Nat /\ n + 1 \in Nat /\ (n + 1) - 1 = n
    OBVIOUS
  <2> SUFFICES ASSUME n + 1 <= L PROVE k[n + 1] \in Nat
    BY <2>1
  <2>2. n + 1 \in 1 .. L /\ k[n] \in Nat
    BY <1>0, <2>1
  <2>3. k[n + 1] = 10 * k[(n + 1) - 1] + s[n + 1] /\ s[n + 1] \in Nat
    BY Zenon, <1>0, <1>7, <2>2
  <2>4. \A x, y \in Nat : 10 * x + y \in Nat
    OBVIOUS
  <2>5. 10 * k[n] + s[n + 1] \in Nat
    BY <2>2, <2>3, <2>4
  <2> QED  BY <2>1, <2>3, <2>5
<1>10. T = Nat
  <2>1. T \subseteq Nat
    OBVIOUS
  <2> HIDE DEF T
  <2> QED  BY Zenon, <1>8, <1>9, <2>1, Induction
<1>11. \A i \in 0 .. L : k[i] \in Nat
  BY <1>0, <1>10
<1> HIDE DEF T
<1>12. k \in [0 .. L -> Nat]
  BY <1>7, <1>11
<1> QED  BY Zenon, <1>6, <1>7, <1>12

LEMMA NumberNone == Number(<<>>) = 0
<1>1. <<>> \in Seq(Nat) /\ Len(<<>>) = 0
  OBVIOUS
<1> QED  BY Zenon, <1>1, NumberIs

LEMMA NumberAppend ==
  ASSUME NEW s \in Seq(Nat), NEW d \in Nat
  PROVE  Number(s) \in Nat /\ Number(Append(s, d)) = 10 * Number(s) + d
<1> DEFINE u == Append(s, d)
           L == Len(s)
<1>1. /\ u \in Seq(Nat) /\ L \in Nat /\ Len(u) = L + 1 /\ u[L + 1] = d
      /\ \A i \in 1 .. L : u[i] = s[i]
  OBVIOUS
<1> HIDE DEF u
<1>2. PICK k \in [0 .. L -> Nat] : /\ Number(s) = k[L] /\ k[0] = 0
                                   /\ \A i \in 1 .. L : k[i] = 10 * k[i - 1] + s[i]
  BY NumberIs
<1>3. PICK l \in [0 .. L + 1 -> Nat] : /\ Number(u) = l[L + 1] /\ l[0] = 0
                                       /\ \A i \in 1 .. L + 1 : l[i] = 10 * l[i - 1] + u[i]
  BY <1>1, NumberIs
<1> HIDE DEF L
<1> DEFINE T == {n \in Nat : n <= L => k[n] = l[n]}
<1>4. 0 \in T
  BY <1>2, <1>3
<1>5. ASSUME NEW n \in T PROVE n + 1 \in T
  <2>1. n \in Nat /\ n + 1 \in Nat /\ (n + 1) - 1 = n
    OBVIOUS
  <2> SUFFICES ASSUME n + 1 <= L PROVE k[n + 1] = l[n + 1]
    BY <2>1
  <2>2. n + 1 \in 1 .. L /\ n + 1 \in 1 .. L + 1 /\ k[n] = l[n]
    BY <1>1, <2>1
  <2>3. k[n + 1] = 10 * k[(n + 1) - 1] + s[n + 1] /\ l[n + 1] = 10 * l[(n + 1) - 1] + u[n + 1]
    BY <1>2, <1>3, <2>2
  <2>4. u[n + 1] = s[n + 1]
    BY <1>1, <2>2
  <2> QED  BY <2>1, <2>2, <2>3, <2>4
<1>6. T = Nat
  <2>1. T \subseteq Nat
    OBVIOUS
  <2> HIDE DEF T
  <2> QED  BY Zenon, <1>4, <1>5, <2>1, Induction
<1>7. k[L] = l[L] /\ k[L] \in Nat
  <2>1. L <= L /\ L \in 0 .. L /\ L \in T
    <3> HIDE DEF T
    <3> QED  BY <1>1, <1>6
  <2>2. k[L] = l[L]
    BY <2>1
  <2> QED  BY <1>2, <2>1, <2>2
<1>8. l[L + 1] = 10 * l[L] + d
  <2>1. L + 1 \in 1 .. L + 1 /\ (L + 1) - 1 = L
    BY <1>1
  <2>2. l[L + 1] = 10 * l[(L + 1) - 1] + u[L + 1]
    BY <1>3, <2>1
  <2> QED  BY <1>1, <2>1, <2>2
<1> QED  BY <1>2, <1>3, <1>7, <1>8 DEF u

LEMMA SeqWiden ==
  ASSUME NEW S, NEW T, S \subseteq T, NEW u \in Seq(S)
  PROVE  u \in Seq(T) /\ Len(u) \in Nat
<1>1. Len(u) \in Nat /\ u \in [1 .. Len(u) -> S]
  OBVIOUS
<1>2. u \in [1 .. Len(u) -> T]
  BY <1>1
<1> QED  BY <1>1, <1>2

\* Digits after digits.
LEMMA NumberConcat ==
  ASSUME NEW s \in Seq(Nat), NEW t \in Seq(Nat)
  PROVE  Number(s \o t) = Number(s) * Tens[Len(t)] + Number(t)
<1> DEFINE T == {u \in Seq(Nat) : Number(s \o u) = Number(s) * Tens[Len(u)] + Number(u)}
<1>0. Number(s) \in Nat
  <2>1. 0 \in Nat
    OBVIOUS
  <2> QED  BY <2>1, NumberAppend
<1>1. <<>> \in T
  <2>1. <<>> \in Seq(Nat) /\ Len(<<>>) = 0 /\ s \o <<>> = s
    OBVIOUS
  <2>2. Number(s) * Tens[0] + 0 = Number(s)
    BY <1>0, TensIs
  <2> QED  BY <2>1, <2>2, NumberNone
<1>2. ASSUME NEW u \in Seq(Nat), u \in T, NEW d \in Nat PROVE Append(u, d) \in T
  <2>1. /\ Append(u, d) \in Seq(Nat) /\ Len(Append(u, d)) = Len(u) + 1 /\ Len(u) \in Nat
        /\ s \o u \in Seq(Nat) /\ s \o Append(u, d) = Append(s \o u, d)
    OBVIOUS
  <2>2. Number(s \o u) = Number(s) * Tens[Len(u)] + Number(u)
    BY <1>2
  <2>3. Number(Append(s \o u, d)) = 10 * Number(s \o u) + d
    BY Zenon, <2>1, NumberAppend
  <2>4. Number(Append(u, d)) = 10 * Number(u) + d /\ Number(u) \in Nat
    BY NumberAppend
  <2>5. Tens[Len(u) + 1] = 10 * Tens[Len(u)] /\ Tens[Len(u)] \in Nat
    BY <2>1, TensIs
  <2>6. \A a, b, c \in Nat : 10 * (a * b + c) + d = a * (10 * b) + (10 * c + d)
    OBVIOUS
  <2>7. 10 * (Number(s) * Tens[Len(u)] + Number(u)) + d
          = Number(s) * (10 * Tens[Len(u)]) + (10 * Number(u) + d)
    BY SMTT(30), <1>0, <2>4, <2>5, <2>6
  <2>8. Number(s \o Append(u, d)) = Number(s) * Tens[Len(Append(u, d))] + Number(Append(u, d))
    BY <2>1, <2>2, <2>3, <2>4, <2>5, <2>7
  <2> QED  BY Zenon, <2>1, <2>8
<1>3. Seq(Nat) \subseteq T
  <2> HIDE DEF T
  <2> QED  BY <1>1, <1>2, SeqInduction
<1> QED  BY <1>3

LEMMA NumberNat ==
  ASSUME NEW s \in Seq(Nat)
  PROVE  Number(s) \in Nat
<1>1. 0 \in Nat
  OBVIOUS
<1> QED  BY <1>1, NumberAppend

LEMMA ZerosType ==
  ASSUME NEW n \in Nat
  PROVE  Zeros(n) \in Seq(0 .. 9) /\ Zeros(n) \in Seq(Nat) /\ Len(Zeros(n)) = n
BY DEF Zeros

LEMMA NumberZeros ==
  ASSUME NEW n \in Nat
  PROVE  Number(Zeros(n)) = 0
<1> DEFINE T == {m \in Nat : Number(Zeros(m)) = 0}
<1>1. 0 \in T
  <2>1. Zeros(0) = <<>>
    BY DEF Zeros
  <2> QED  BY <2>1, NumberNone
<1>2. ASSUME NEW m \in T PROVE m + 1 \in T
  <2>1. m \in Nat /\ m + 1 \in Nat /\ 0 \in Nat
    OBVIOUS
  <2>2. Zeros(m) \in Seq(Nat) /\ Zeros(m + 1) = Append(Zeros(m), 0)
    BY <2>1 DEF Zeros
  <2>3. Number(Append(Zeros(m), 0)) = 10 * Number(Zeros(m)) + 0
    BY <2>1, <2>2, NumberAppend
  <2>4. Number(Zeros(m)) = 0
    OBVIOUS
  <2> HIDE DEF T
  <2>5. Number(Zeros(m + 1)) = 0
    <3>1. Number(Append(Zeros(m), 0)) = 10 * 0 + 0
      BY Zenon, <2>3, <2>4
    <3>2. 10 * 0 + 0 = 0
      OBVIOUS
    <3> QED  BY Zenon, <2>2, <3>1, <3>2
  <2> QED  BY <2>1, <2>5 DEF T
<1>3. T = Nat
  <2>1. T \subseteq Nat
    OBVIOUS
  <2> HIDE DEF T
  <2> QED  BY Zenon, <1>1, <1>2, <2>1, Induction
<1> QED  BY <1>3

\* Zeros after the digits multiply, zeros before them change nothing.
LEMMA NumberPadded ==
  ASSUME NEW s \in Seq(Nat), NEW n \in Nat
  PROVE  /\ Number(s \o Zeros(n)) = Number(s) * Tens[n]
         /\ Number(Zeros(n) \o s) = Number(s)
<1>1. Zeros(n) \in Seq(Nat) /\ Len(Zeros(n)) = n /\ Number(Zeros(n)) = 0
  BY ZerosType, NumberZeros
<1>2. Number(s) \in Nat /\ Tens[n] \in Nat /\ Tens[Len(s)] \in Nat
  <2>1. Len(s) \in Nat
    OBVIOUS
  <2>2. Number(s) \in Nat
    BY NumberNat
  <2> QED  BY Zenon, <2>1, <2>2, TensIs
<1>3. Number(s \o Zeros(n)) = Number(s) * Tens[n] + 0
  BY <1>1, NumberConcat
<1>4. Number(Zeros(n) \o s) = 0 * Tens[Len(s)] + Number(s)
  BY <1>1, NumberConcat
<1> QED  BY <1>2, <1>3, <1>4

-----------------------------------------------------------------------------
(* Trailing zeros, and the digits of a number.                             *)

\* k is the loop of TrimRight over s.
TrimLoop(k, s) == k = [i \in 0 .. Len(s) |-> IF i = 0 \/ s[i] # 0 THEN i ELSE k[i - 1]]

LEMMA TrimRightIs ==
  ASSUME NEW s \in Seq(Nat)
  PROVE  \E m \in 0 .. Len(s) : /\ TrimRight(s) = SubSeq(s, 1, m)
                                /\ \A j \in m + 1 .. Len(s) : s[j] = 0
<1> DEFINE L == Len(s)
           F == [n \in Nat |-> [v \in Nat |-> IF n + 1 \in 1 .. L /\ s[n + 1] = 0 THEN v ELSE n + 1]]
<1>0. L \in Nat
  OBVIOUS
<1>1. PICK g : Recursion(g, Nat, 0, F)
  <2>1. F \in [Nat -> [Nat -> Nat]] /\ 0 \in Nat
    BY <1>0
  <2> HIDE DEF F
  <2> QED  BY Zenon, <2>1, NatRecursion
<1>2. ASSUME NEW i \in 1 .. L PROVE g[i] = IF s[i] # 0 THEN i ELSE g[i - 1]
  <2>1. i - 1 \in Nat /\ (i - 1) + 1 = i
    BY <1>0
  <2>2. g[i] = F[i - 1][g[i - 1]] /\ g[i - 1] \in Nat
    BY Zenon, <1>1, <2>1 DEF Recursion
  <2>3. F[i - 1][g[i - 1]] = IF i \in 1 .. L /\ s[i] = 0 THEN g[i - 1] ELSE i
    BY <2>1, <2>2
  <2> QED  BY <2>2, <2>3
<1> HIDE DEF F
<1> DEFINE h == [i \in 0 .. L |-> g[i]]
<1>3. /\ h[0] = 0
      /\ \A i \in 1 .. L : h[i] = IF s[i] # 0 THEN i ELSE h[i - 1]
  <2>1. \A i \in 1 .. L : i - 1 \in 0 .. L /\ i \in 0 .. L
    BY <1>0
  <2>2. \A i \in 0 .. L : h[i] = g[i]
    OBVIOUS
  <2>3. 0 \in 0 .. L
    BY <1>0
  <2> HIDE DEF h
  <2> QED  BY Zenon, <1>1, <1>2, <2>1, <2>2, <2>3 DEF Recursion
<1>4. TrimLoop(h, s)
  <2>1. h = [i \in 0 .. L |-> h[i]]
    OBVIOUS
  <2> HIDE DEF h
  <2>2. \A i \in 0 .. L : h[i] = IF i = 0 \/ s[i] # 0 THEN i ELSE h[i - 1]
    BY <1>0, <1>3
  <2> QED  BY Zenon, <2>1, <2>2 DEF TrimLoop
<1> DEFINE k == CHOOSE x : TrimLoop(x, s)
<1>5. TrimLoop(k, s)
  BY <1>4
<1>6. TrimRight(s) = SubSeq(s, 1, k[L])
  BY DEF TrimRight, TrimLoop
<1> HIDE DEF k, h
<1>7. k[0] = 0 /\ \A i \in 1 .. L : k[i] = IF s[i] # 0 THEN i ELSE k[i - 1]
  <2>1. k = [i \in 0 .. L |-> IF i = 0 \/ s[i] # 0 THEN i ELSE k[i - 1]]
    BY <1>5 DEF TrimLoop
  <2>2. \A i \in 0 .. L : k[i] = IF i = 0 \/ s[i] # 0 THEN i ELSE k[i - 1]
    BY Zenon, <2>1
  <2>3. 0 \in 0 .. L /\ \A i \in 1 .. L : i \in 0 .. L /\ i # 0
    BY <1>0
  <2> QED  BY <2>2, <2>3
<1> DEFINE P(n) == k[n] \in 0 .. n /\ \A j \in k[n] + 1 .. n : s[j] = 0
           T == {n \in Nat : n <= L => P(n)}
<1>8. 0 \in T
  BY <1>7
<1>9. ASSUME NEW n \in T PROVE n + 1 \in T
  <2>1. n \in Nat /\ n + 1 \in Nat /\ (n + 1) - 1 = n
    OBVIOUS
  <2> SUFFICES ASSUME n + 1 <= L PROVE P(n + 1)
    BY <2>1
  <2>2. n + 1 \in 1 .. L /\ k[n] \in 0 .. n /\ \A j \in k[n] + 1 .. n : s[j] = 0
    BY <1>0, <2>1
  <2>3. k[n + 1] = IF s[n + 1] # 0 THEN n + 1 ELSE k[n]
    BY <1>7, <2>1, <2>2
  <2>4. CASE s[n + 1] # 0
    BY <2>1, <2>3, <2>4
  <2>5. CASE s[n + 1] = 0
    BY <2>1, <2>2, <2>3, <2>5
  <2> QED  BY <2>4, <2>5
<1>10. T = Nat
  <2>1. T \subseteq Nat
    OBVIOUS
  <2> HIDE DEF T
  <2> QED  BY Zenon, <1>8, <1>9, <2>1, Induction
<1>11. P(L)
  <2>1. L \in T
    <3> HIDE DEF T
    <3> QED  BY <1>0, <1>10
  <2> QED  BY <1>0, <2>1
<1> QED  BY Zenon, <1>6, <1>11

\* What TrimRight takes away is zeros.
LEMMA TrimRightPadded ==
  ASSUME NEW s \in Seq(0 .. 9)
  PROVE  LET t == TrimRight(s)
         IN  /\ t \in Seq(0 .. 9) /\ Len(t) \in Nat /\ Len(t) <= Len(s)
             /\ t \o Zeros(Len(s) - Len(t)) = s
<1> DEFINE L == Len(s)
           t == TrimRight(s)
           D == 0 .. 9
<1>0. s \in Seq(D) /\ L \in Nat /\ s \in Seq(Nat) /\ s = [i \in 1 .. L |-> s[i]]
  <2>1. D \subseteq Nat
    OBVIOUS
  <2>2. s \in Seq(D)
    OBVIOUS
  <2> HIDE DEF D
  <2>3. s \in Seq(Nat)
    BY <2>1, <2>2, SeqWiden
  <2> QED  BY <2>2, <2>3
<1>1. PICK m \in 0 .. L : t = SubSeq(s, 1, m) /\ \A j \in m + 1 .. L : s[j] = 0
  BY Zenon, <1>0, TrimRightIs
<1> HIDE DEF t, D
<1>2. /\ t \in Seq(D) /\ Len(t) = m /\ \A i \in 1 .. m : t[i] = s[i]
  BY <1>0, <1>1
<1>3. L - m \in Nat /\ m \in Nat /\ m <= L
  BY <1>0, <1>1
<1> DEFINE z == Zeros(L - m)
<1>4. z \in Seq(Nat) /\ Len(z) = L - m /\ \A i \in 1 .. L - m : z[i] = 0
  BY <1>3 DEF Zeros
<1> HIDE DEF z, L
<1>5. t \in Seq(Nat)
  <2>1. D \subseteq Nat
    BY DEF D
  <2> QED  BY Zenon, <1>2, <2>1, SeqWiden
<1>6. Len(t \o z) = L /\ t \o z \in Seq(Nat)
  BY <1>0, <1>2, <1>3, <1>4, <1>5
<1>7. ASSUME NEW i \in 1 .. L PROVE (t \o z)[i] = s[i]
  <2>1. CASE i <= m
    BY <1>2, <1>3, <1>4, <1>5, <2>1
  <2>2. CASE i > m
    <3>1. i - m \in 1 .. L - m /\ i \in m + 1 .. L
      BY <1>0, <1>3, <2>2
    <3>2. (t \o z)[i] = z[i - m]
      BY <1>0, <1>2, <1>3, <1>4, <1>5, <2>2
    <3> QED  BY <1>1, <1>4, <3>1, <3>2
  <2>3. i <= m \/ i > m
    BY <1>0, <1>3
  <2> QED  BY Zenon, <2>1, <2>2, <2>3
<1>8. t \o z = s
  <2> DEFINE u == t \o z
  <2>1. u \in Seq(Nat) /\ Len(u) = L /\ \A i \in 1 .. L : u[i] = s[i]
    BY <1>6, <1>7
  <2> HIDE DEF u
  <2>2. u = [i \in 1 .. L |-> u[i]]
    BY <2>1
  <2>3. u = s
    BY <1>0, <2>1, <2>2
  <2> QED  BY <2>3 DEF u
<1> QED  BY <1>2, <1>3, <1>8 DEF t, z, L, D

LEMMA TenthOf ==
  ASSUME NEW n \in Nat
  PROVE  /\ n \div 10 \in Nat /\ n % 10 \in 0 .. 9 /\ n = 10 * (n \div 10) + (n % 10)
         /\ n >= 10 => n \div 10 < n
OBVIOUS

\* The equation that DigitsOf solves.
WritesDigits(g) ==
  g = [n \in Nat |-> IF n < 10 THEN <<n>> ELSE Append(g[n \div 10], n % 10)]

LEMMA DigitsExist == \E g : WritesDigits(g)
<1> DEFINE V == [Nat -> Seq(Nat)]
           Longer(v) == [n \in Nat |-> IF n < 10 THEN <<n>> ELSE Append(v[n \div 10], n % 10)]
           F == [i \in Nat |-> [v \in V |-> Longer(v)]]
           a == [n \in Nat |-> <<>>]
<1>1. PICK h : Recursion(h, V, a, F)
  <2>1. a \in V
    OBVIOUS
  <2>2. ASSUME NEW v \in V PROVE Longer(v) \in V
    <3>1. ASSUME NEW n \in Nat
          PROVE  (IF n < 10 THEN <<n>> ELSE Append(v[n \div 10], n % 10)) \in Seq(Nat)
      <4>1. n \div 10 \in Nat /\ n % 10 \in Nat
        BY TenthOf
      <4>2. v[n \div 10] \in Seq(Nat)
        BY <4>1
      <4>3. Append(v[n \div 10], n % 10) \in Seq(Nat)
        BY <4>1, <4>2
      <4>4. <<n>> \in Seq(Nat)
        OBVIOUS
      <4> QED  BY <4>3, <4>4
    <3> QED  BY <3>1
  <2> HIDE DEF V, Longer, a
  <2>3. F \in [Nat -> [V -> V]]
    BY <2>2
  <2> HIDE DEF F
  <2> QED  BY Zenon, <2>1, <2>3, NatRecursion
<1>2. ASSUME NEW i \in Nat, NEW n \in Nat
      PROVE  h[i + 1][n] = IF n < 10 THEN <<n>> ELSE Append(h[i][n \div 10], n % 10)
  <2>1. h[i + 1] = F[i][h[i]] /\ h[i] \in V
    BY Zenon, <1>1 DEF Recursion
  <2>2. F[i][h[i]] = Longer(h[i])
    <3> HIDE DEF V, Longer
    <3> QED  BY <2>1
  <2>3. h[i + 1] = Longer(h[i])
    BY Zenon, <2>1, <2>2
  <2> QED  BY <2>3
<1> HIDE DEF V, F, a, Longer
\* h[i][n] does not depend on i once i is above n.
<1> DEFINE T == {n \in Nat : \A i, j \in Nat : n < i /\ n < j => h[i][n] = h[j][n]}
<1>3. T = Nat
  <2>1. T \subseteq Nat
    OBVIOUS
  <2>2. ASSUME NEW n \in Nat, \A m \in Nat : m < n => m \in T PROVE n \in T
    <3> SUFFICES ASSUME NEW i \in Nat, NEW j \in Nat, n < i, n < j PROVE h[i][n] = h[j][n]
      OBVIOUS
    <3>1. i - 1 \in Nat /\ (i - 1) + 1 = i /\ j - 1 \in Nat /\ (j - 1) + 1 = j
      OBVIOUS
    <3>2. /\ h[i][n] = IF n < 10 THEN <<n>> ELSE Append(h[i - 1][n \div 10], n % 10)
          /\ h[j][n] = IF n < 10 THEN <<n>> ELSE Append(h[j - 1][n \div 10], n % 10)
      <4> HIDE DEF T
      <4> QED  BY <1>2, <3>1
    <3>3. CASE n < 10
      BY <3>2, <3>3
    <3>4. CASE ~(n < 10)
      <4>1. n \div 10 \in Nat /\ n \div 10 < n
        BY <3>4, TenthOf
      <4>2. n \div 10 < i - 1 /\ n \div 10 < j - 1
        BY <4>1
      <4>3. n \div 10 \in T
        BY <2>2, <4>1
      <4>4. h[i - 1][n \div 10] = h[j - 1][n \div 10]
        BY <3>1, <4>2, <4>3
      <4> QED  BY <3>2, <3>4, <4>4
    <3> QED  BY <3>3, <3>4
  <2> HIDE DEF T
  <2> QED  BY Zenon, <2>1, <2>2, StrongInduction
<1> DEFINE g == [n \in Nat |-> h[n + 1][n]]
<1>4. ASSUME NEW n \in Nat
      PROVE  g[n] = IF n < 10 THEN <<n>> ELSE Append(g[n \div 10], n % 10)
  <2>1. g[n] = IF n < 10 THEN <<n>> ELSE Append(h[n][n \div 10], n % 10)
    BY <1>2
  <2>2. CASE n < 10
    BY <2>1, <2>2
  <2>3. CASE ~(n < 10)
    <3> DEFINE q == n \div 10
    <3>1. q \in Nat /\ q < n /\ q < q + 1 /\ q + 1 \in Nat
      BY <2>3, TenthOf
    <3> HIDE DEF q
    <3>2. q \in T
      <4> HIDE DEF T
      <4> QED  BY <1>3, <3>1
    <3>3. h[n][q] = h[q + 1][q]
      BY <3>1, <3>2
    <3>4. g[q] = h[q + 1][q]
      BY <3>1
    <3> QED  BY <2>1, <2>3, <3>3, <3>4 DEF q
  <2> QED  BY <2>2, <2>3
<1>5. g = [n \in Nat |-> g[n]]
  OBVIOUS
<1> HIDE DEF g
<1>6. WritesDigits(g)
  BY Zenon, <1>4, <1>5 DEF WritesDigits
<1> QED  BY <1>6

LEMMA DigitsOfIs ==
  ASSUME NEW n \in Nat
  PROVE  DigitsOf[n] = IF n < 10 THEN <<n>> ELSE Append(DigitsOf[n \div 10], n % 10)
<1>1. DigitsOf = CHOOSE g : WritesDigits(g)
  BY DEF DigitsOf, WritesDigits
<1>2. WritesDigits(DigitsOf)
  BY <1>1, DigitsExist
<1>3. DigitsOf = [m \in Nat |-> IF m < 10 THEN <<m>> ELSE Append(DigitsOf[m \div 10], m % 10)]
  BY Zenon, <1>2 DEF WritesDigits
<1> QED  BY Zenon, <1>3

\* DigitsOf writes the number, in no more digits than it needs.
LEMMA DigitsOfNumber ==
  ASSUME NEW n \in Nat
  PROVE  /\ DigitsOf[n] \in Seq(0 .. 9) /\ DigitsOf[n] \in Seq(Nat) /\ Len(DigitsOf[n]) \in Nat \ {0}
         /\ Number(DigitsOf[n]) = n
         /\ \A k \in Nat \ {0} : n < Tens[k] => Len(DigitsOf[n]) <= k
<1> DEFINE D == 0 .. 9
           Short(m) == \A k \in Nat \ {0} : m < Tens[k] => Len(DigitsOf[m]) <= k
           T == {m \in Nat : /\ DigitsOf[m] \in Seq(D) /\ DigitsOf[m] \in Seq(Nat)
                             /\ Len(DigitsOf[m]) \in Nat \ {0}
                             /\ Number(DigitsOf[m]) = m /\ Short(m)}
<1>1. T \subseteq Nat
  OBVIOUS
<1>2. ASSUME NEW m \in Nat, \A l \in Nat : l < m => l \in T PROVE m \in T
  <2>1. CASE m < 10
    <3>1. DigitsOf[m] = <<m>>
      BY Zenon, <2>1, DigitsOfIs
    <3>2. m \in D
      BY <2>1
    <3> HIDE DEF D
    <3>3. <<m>> \in Seq(D) /\ <<m>> \in Seq(Nat) /\ Len(<<m>>) = 1
      BY <3>2
    <3>4. Number(<<m>>) = m
      <4>1. <<>> \in Seq(Nat) /\ <<m>> = Append(<<>>, m)
        OBVIOUS
      <4>2. Number(Append(<<>>, m)) = 10 * Number(<<>>) + m
        BY Zenon, <4>1, NumberAppend
      <4>3. 10 * 0 + m = m
        OBVIOUS
      <4> QED  BY <4>1, <4>2, <4>3, NumberNone
    <3> DEFINE w == <<m>>
    <3> HIDE DEF w
    <3>5. DigitsOf[m] = w /\ w \in Seq(D) /\ w \in Seq(Nat) /\ Len(w) = 1 /\ Number(w) = m
      BY <3>1, <3>3, <3>4 DEF w
    <3>6. Short(m)
      <4> SUFFICES ASSUME NEW k \in Nat \ {0} PROVE Len(DigitsOf[m]) <= k
        OBVIOUS
      <4> QED  BY <3>5
    <3>7. Len(w) \in Nat \ {0}
      BY <3>5
    <3> HIDE DEF Short
    <3> QED  BY <3>5, <3>6, <3>7
  <2>2. CASE ~(m < 10)
    <3> DEFINE q == m \div 10
               d == m % 10
               s == DigitsOf[q]
               u == DigitsOf[m]
    <3>1. q \in Nat /\ d \in D /\ d \in Nat /\ d < 10 /\ m = 10 * q + d /\ q < m
      BY <2>2, TenthOf
    <3>2. u = Append(s, d)
      BY Zenon, <2>2, DigitsOfIs
    <3>3. q \in T
      BY <1>2, <3>1
    <3> HIDE DEF q, d
    <3>4. /\ s \in Seq(D) /\ s \in Seq(Nat) /\ Len(s) \in Nat \ {0}
          /\ Number(s) = q /\ Short(q)
      BY <3>3
    <3> HIDE DEF D
    <3>5. u \in Seq(D) /\ u \in Seq(Nat) /\ Len(u) = Len(s) + 1
      <4> HIDE DEF s, u
      <4> QED  BY <3>1, <3>2, <3>4
    <3>6. Number(u) = m
      <4>1. Number(Append(s, d)) = 10 * Number(s) + d
        BY <3>1, <3>4, NumberAppend
      <4> QED  BY <3>1, <3>2, <3>4, <4>1
    <3>7. Short(m)
      <4> SUFFICES ASSUME NEW k \in Nat \ {0}, m < Tens[k] PROVE Len(u) <= k
        OBVIOUS
      <4>1. k - 1 \in Nat /\ (k - 1) + 1 = k
        OBVIOUS
      <4>2. Tens[k] = 10 * Tens[k - 1] /\ Tens[k - 1] \in Nat
        BY <4>1, TensIs
      <4>3. q < Tens[k - 1]
        BY <3>1, <4>2
      <4>4. k - 1 # 0
        <5> SUFFICES ASSUME k - 1 = 0 PROVE FALSE
          OBVIOUS
        <5>1. Tens[k - 1] = 1
          BY TensIs
        <5> QED  BY <2>2, <4>2, <5>1
      <4>5. Len(s) <= k - 1
        BY <3>4, <4>1, <4>3, <4>4
      <4> HIDE DEF s, u
      <4> QED  BY <3>4, <3>5, <4>5
    <3>8. Len(u) \in Nat \ {0}
      <4> HIDE DEF s, u
      <4> QED  BY <3>4, <3>5
    <3> QED  BY <3>5, <3>6, <3>7, <3>8
  <2> QED  BY <2>1, <2>2
<1>3. T = Nat
  <2> HIDE DEF T
  <2> QED  BY Zenon, <1>1, <1>2, StrongInduction
<1>4. n \in T
  <2> HIDE DEF T
  <2> QED  BY <1>3
<1> QED  BY <1>4

LEMMA Division ==
  ASSUME NEW n \in Nat, NEW b \in Nat \ {0}
  PROVE  n \div b \in Nat /\ n % b \in Nat /\ n % b < b /\ n = b * (n \div b) + (n % b)
OBVIOUS
=============================================================================
