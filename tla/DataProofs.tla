----------------------------- MODULE DataProofs -----------------------------
(***************************************************************************)
(* Facts about data: induction, in the form of minimal counterexamples;    *)
(* what the sum of a function over a finite set, SumFunctionOnSet(), is;   *)
(* what is left of a list.                                                 *)
(***************************************************************************)
EXTENDS DataLaws, FiniteSetTheorems, WellFoundedInduction, TLAPS

LEMMA UpToSize == ASSUME NEW k \in Nat PROVE IsFiniteSet(1..k) /\ Cardinality(1..k) = k
<1>1. Cardinality(1..k) = IF 1 > k THEN 0 ELSE k - 1 + 1
  BY FS_Interval
<1>2. IsFiniteSet(1..k)
  BY FS_Interval
<1> QED
  BY <1>1, <1>2

(* A set of natural numbers that is not empty has a least element.         *)
LEMMA NatLeast ==
  ASSUME NEW T \in SUBSET Nat, T # {}
  PROVE  \E x \in T : \A y \in T : x <= y
<1>1. PICK x \in T : \A y \in T : ~(<<y, x>> \in OpToRel(<, Nat))
  BY WFMin, NatLessThanWellFounded, Zenon
<1>2. ASSUME NEW y \in T PROVE x <= y
  <2>1. <<y, x>> \in Nat \X Nat /\ <<y, x>>[1] = y /\ <<y, x>>[2] = x
    OBVIOUS
  <2>2. ~(y < x)
    BY <1>1, <2>1, Zenon DEF OpToRel
  <2> QED
    BY <2>2
<1> QED
  BY <1>2

(* Induction on natural numbers, for a set instead of a predicate.         *)
LEMMA NatSetInduction ==
  ASSUME NEW T \in SUBSET Nat, 0 \in T, \A n \in T : n + 1 \in T
  PROVE  T = Nat
<1> SUFFICES ASSUME Nat \ T # {} PROVE FALSE
  BY Zenon
<1>1. PICK m \in Nat \ T : \A y \in Nat \ T : m <= y
  <2>1. Nat \ T \in SUBSET Nat
    OBVIOUS
  <2> QED
    BY <2>1, NatLeast, Zenon
<1>2. m # 0 /\ m - 1 \in Nat
  OBVIOUS
<1>3. m - 1 \in T
  BY <1>1, <1>2
<1> QED
  BY <1>3

(* A nonempty set of subsets of a finite set has a minimal element.        *)
LEMMA FiniteMinimal ==
  ASSUME NEW S, IsFiniteSet(S), NEW T \in SUBSET (SUBSET S), T # {}
  PROVE  \E x \in T : \A y \in T : ~(y \subseteq x /\ y # x)
<1>1. IsWellFoundedOn(StrictSubsetOrdering(S), SUBSET S)
  BY FS_StrictSubsetOrderingWellFounded, FS_FiniteSubsetsOfFinite
<1>2. \E x \in T : \A y \in T : ~(<<y, x>> \in StrictSubsetOrdering(S))
  BY <1>1, WFMin, Zenon
<1> QED
  BY <1>2, Zenon DEF StrictSubsetOrdering

-----------------------------------------------------------------------------
(***************************************************************************)
(* SumFunctionOnSet() satisfies its recursion equation.                    *)
(***************************************************************************)
Pick(s) == CHOOSE x \in s : TRUE
Plus(g, f, s) == IF s = {} THEN 0 ELSE f[Pick(s)] + g[s \ {Pick(s)}]
IsIter(g, f, D) == g = [s \in D |-> Plus(g, f, s)]
Iter(f, S) == CHOOSE g : IsIter(g, f, SUBSET S)

LEMMA SumIsIter ==
  ASSUME NEW f, NEW S
  PROVE  SumFunctionOnSet(f, S) = Iter(f, S)[S]
BY DEF SumFunctionOnSet, FoldFunctionOnSet, MapThenFoldSet, Iter, IsIter, Plus, Pick

LEMMA PickIn == ASSUME NEW s, s # {} PROVE Pick(s) \in s
BY DEF Pick

(* The subsets of up to n elements.                                        *)
UpTo(S, n) == {s \in SUBSET S : Cardinality(s) <= n}

LEMMA IterStep ==
  ASSUME NEW f, NEW S, IsFiniteSet(S), NEW n \in Nat, \E g : IsIter(g, f, UpTo(S, n))
  PROVE  \E h : IsIter(h, f, UpTo(S, n + 1))
<1>1. PICK g : IsIter(g, f, UpTo(S, n))
  OBVIOUS
<1> DEFINE h == [s \in UpTo(S, n + 1) |-> Plus(g, f, s)]
<1>2. ASSUME NEW s \in UpTo(S, n + 1), s # {}
      PROVE  s \ {Pick(s)} \in UpTo(S, n) /\ s \ {Pick(s)} \in UpTo(S, n + 1)
  <2>1. IsFiniteSet(s) /\ Pick(s) \in s /\ s \subseteq S /\ Cardinality(s) <= n + 1
    BY <1>2, FS_Subset, PickIn DEF UpTo
  <2>2. /\ Cardinality(s \ {Pick(s)}) = Cardinality(s) - 1
        /\ Cardinality(s) \in Nat
    BY <2>1, FS_RemoveElement, FS_CardinalityType
  <2> QED
    BY <2>1, <2>2 DEF UpTo
<1>3. \A s \in UpTo(S, n) : h[s] = g[s]
  <2>1. UpTo(S, n) \subseteq UpTo(S, n + 1)
    BY FS_Subset, FS_CardinalityType DEF UpTo
  <2>2. \A s \in UpTo(S, n) : g[s] = Plus(g, f, s)
    BY <1>1, Zenon DEF IsIter
  <2> QED
    BY <2>1, <2>2, Zenon
<1>4. \A s \in UpTo(S, n + 1) : Plus(g, f, s) = Plus(h, f, s)
  BY <1>2, <1>3, Zenon DEF Plus
<1>5. IsIter(h, f, UpTo(S, n + 1))
  BY <1>4, Zenon DEF IsIter
<1> QED
  BY <1>5

LEMMA IterExists ==
  ASSUME NEW f, NEW S, IsFiniteSet(S)
  PROVE  IsIter(Iter(f, S), f, SUBSET S)
<1> DEFINE T == {n \in Nat : \E g : IsIter(g, f, UpTo(S, n))}
<1>1. 0 \in T
  <2>1. UpTo(S, 0) = {{}}
    BY FS_Subset, FS_CardinalityType, FS_EmptySet DEF UpTo
  <2>2. IsIter([s \in {{}} |-> 0], f, UpTo(S, 0))
    BY <2>1 DEF IsIter, Plus
  <2> QED
    BY <2>2
<1>2. \A n \in T : n + 1 \in T
  BY IterStep
<1>3. T = Nat
  <2>1. T \in SUBSET Nat
    OBVIOUS
  <2> HIDE DEF T
  <2> QED
    BY <1>1, <1>2, <2>1, NatSetInduction
<1>4. Cardinality(S) \in Nat /\ UpTo(S, Cardinality(S)) = SUBSET S
  BY FS_Subset, FS_CardinalityType DEF UpTo
<1>5. \E g : IsIter(g, f, SUBSET S)
  <2>1. Cardinality(S) \in T
    BY <1>3, <1>4, Zenon
  <2> QED
    BY <1>4, <2>1, Zenon
<1> QED
  BY <1>5, Zenon DEF Iter

(* Summing up over a subset is the same, whichever set the function Iter() *)
(* was made for.                                                           *)
LEMMA IterAgrees ==
  ASSUME NEW f, NEW S, IsFiniteSet(S), NEW U \in SUBSET S
  PROVE  Iter(f, S)[U] = SumFunctionOnSet(f, U)
<1> DEFINE g == Iter(f, S)
           h == Iter(f, U)
           T == {V \in SUBSET U : g[V] # h[V]}
<1>1. IsFiniteSet(U)
  BY FS_Subset
<1>2. /\ \A V \in SUBSET S : g[V] = Plus(g, f, V)
      /\ \A V \in SUBSET U : h[V] = Plus(h, f, V)
  <2>1. IsIter(g, f, SUBSET S) /\ IsIter(h, f, SUBSET U)
    BY <1>1, IterExists
  <2> HIDE DEF g, h
  <2> QED
    BY <2>1, Zenon DEF IsIter
<1> HIDE DEF g, h
<1>3. T = {}
  <2> SUFFICES ASSUME T # {} PROVE FALSE
    BY Zenon
  <2>1. PICK V \in T : \A W \in T : ~(W \subseteq V /\ W # V)
    <3>1. T \in SUBSET (SUBSET U)
      OBVIOUS
    <3> HIDE DEF T
    <3> QED
      BY <1>1, <3>1, FiniteMinimal
  <2>2. V \in SUBSET U /\ V \in SUBSET S /\ g[V] # h[V]
    OBVIOUS
  <2>3. V # {}
    BY <1>2, <2>2, Zenon DEF Plus
  <2>4. Pick(V) \in V
    BY <2>3, PickIn
  <2> DEFINE W == V \ {Pick(V)}
  <2>5. W \in SUBSET U /\ W \subseteq V /\ W # V
    BY <2>2, <2>4
  <2>6. g[W] = h[W]
    BY <2>1, <2>5, Zenon
  <2>7. g[V] = f[Pick(V)] + g[W] /\ h[V] = f[Pick(V)] + h[W]
    BY <1>2, <2>2, <2>3, Zenon DEF Plus
  <2> QED
    BY <2>2, <2>6, <2>7, Zenon
<1>4. g[U] = h[U]
  BY <1>3, Zenon
<1> QED
  BY <1>4, SumIsIter, Zenon DEF g, h

LEMMA SumRecursion ==
  ASSUME NEW f, NEW S, IsFiniteSet(S)
  PROVE  SumFunctionOnSet(f, S) =
           IF S = {} THEN 0 ELSE f[Pick(S)] + SumFunctionOnSet(f, S \ {Pick(S)})
<1> DEFINE g == Iter(f, S)
<1>1. IsIter(g, f, SUBSET S)
  BY IterExists
<1>2. g[S] = SumFunctionOnSet(f, S) /\ g[S \ {Pick(S)}] = SumFunctionOnSet(f, S \ {Pick(S)})
  <2>1. S \in SUBSET S /\ S \ {Pick(S)} \in SUBSET S
    OBVIOUS
  <2> QED
    BY <2>1, IterAgrees, Zenon
<1> HIDE DEF g
<1>3. g[S] = Plus(g, f, S)
  BY <1>1, Zenon DEF IsIter
<1> QED
  BY <1>2, <1>3, Zenon DEF Plus

-----------------------------------------------------------------------------
(***************************************************************************)
(* The laws of sums that the proofs about the kernel's counters use.       *)
(***************************************************************************)
LEMMA SumEmpty == ASSUME NEW f PROVE SumFunctionOnSet(f, {}) = 0
BY SumRecursion, FS_EmptySet, Zenon

(* The sum of integers is an integer, of natural numbers a natural number. *)
LEMMA SumType ==
  ASSUME NEW f, NEW S, IsFiniteSet(S), NEW N, N = Int \/ N = Nat, \A x \in S : f[x] \in N
  PROVE  SumFunctionOnSet(f, S) \in N
<1> DEFINE T == {U \in SUBSET S : SumFunctionOnSet(f, U) \notin N}
<1> SUFFICES ASSUME T # {} PROVE FALSE
  BY Zenon
<1>1. PICK U \in T : \A W \in T : ~(W \subseteq U /\ W # U)
  <2>1. T \in SUBSET (SUBSET S)
    OBVIOUS
  <2> HIDE DEF T
  <2> QED
    BY <2>1, FiniteMinimal
<1>2. U \subseteq S /\ IsFiniteSet(U) /\ SumFunctionOnSet(f, U) \notin N
  BY FS_Subset
<1>3. U # {} /\ Pick(U) \in U
  BY <1>2, SumEmpty, PickIn
<1> DEFINE W == U \ {Pick(U)}
<1>4. SumFunctionOnSet(f, W) \in N
  <2>1. W \in SUBSET S /\ W \subseteq U /\ W # U
    BY <1>2, <1>3
  <2> QED
    BY <1>1, <2>1, Zenon
<1>5. SumFunctionOnSet(f, U) = f[Pick(U)] + SumFunctionOnSet(f, W) /\ f[Pick(U)] \in N
  BY <1>2, <1>3, SumRecursion, Zenon
<1> QED
  BY <1>2, <1>4, <1>5

(* Any element may be taken out of a sum first.                            *)
LEMMA SumRemove ==
  ASSUME NEW f, NEW S, IsFiniteSet(S), \A x \in S : f[x] \in Int, NEW x \in S
  PROVE  SumFunctionOnSet(f, S) = f[x] + SumFunctionOnSet(f, S \ {x})
<1> DEFINE Splits(U, y) == SumFunctionOnSet(f, U) = f[y] + SumFunctionOnSet(f, U \ {y})
           T == {U \in SUBSET S : \E y \in U : ~Splits(U, y)}
<1> SUFFICES ASSUME T # {} PROVE FALSE
  BY Zenon
<1>1. PICK U \in T : \A W \in T : ~(W \subseteq U /\ W # U)
  <2>1. T \in SUBSET (SUBSET S)
    OBVIOUS
  <2> HIDE DEF T
  <2> QED
    BY <2>1, FiniteMinimal
<1>2. PICK y \in U : ~Splits(U, y)
  OBVIOUS
<1>3. U \in SUBSET S /\ IsFiniteSet(U) /\ U # {}
  BY FS_Subset
<1> DEFINE c == Pick(U)
<1>4. c \in U
  BY <1>3, PickIn
<1>5. Splits(U, c)
  BY <1>3, SumRecursion, Zenon
<1>6. c # y
  BY <1>2, <1>5, Zenon
<1> DEFINE A == U \ {c}
           B == U \ {y}
           C == (U \ {c}) \ {y}
<1>7. /\ A \in SUBSET S /\ A \subseteq U /\ A # U /\ y \in A
      /\ B \in SUBSET S /\ B \subseteq U /\ B # U /\ c \in B
      /\ C \in SUBSET S
  BY <1>3, <1>4, <1>6
<1>8. Splits(A, y) /\ Splits(B, c)
  <2>1. A \notin T /\ B \notin T
    BY <1>1, <1>7, Zenon
  <2> QED
    BY <1>7, <2>1, Zenon
<1>9. B \ {c} = C /\ A \ {y} = C
  OBVIOUS
<1>10. f[c] \in Int /\ f[y] \in Int /\ SumFunctionOnSet(f, C) \in Int
  <2>1. \A z \in C : f[z] \in Int
    BY <1>7
  <2>2. IsFiniteSet(C)
    BY <1>7, FS_Subset
  <2>3. SumFunctionOnSet(f, C) \in Int
    BY <2>1, <2>2, SumType, Zenon
  <2> QED
    BY <1>3, <1>4, <2>3
<1>11. /\ SumFunctionOnSet(f, U) = f[c] + SumFunctionOnSet(f, A)
       /\ SumFunctionOnSet(f, A) = f[y] + SumFunctionOnSet(f, C)
       /\ SumFunctionOnSet(f, B) = f[c] + SumFunctionOnSet(f, C)
  BY <1>5, <1>8, <1>9, Zenon
<1>12. SumFunctionOnSet(f, U) # f[y] + SumFunctionOnSet(f, B)
  BY <1>2, Zenon
<1> HIDE DEF A, B, C, c
<1> QED
  BY <1>10, <1>11, <1>12

LEMMA SumAdd ==
  ASSUME NEW f, NEW S, IsFiniteSet(S), \A x \in S : f[x] \in Int,
         NEW x, x \notin S, f[x] \in Int
  PROVE  SumFunctionOnSet(f, S \cup {x}) = f[x] + SumFunctionOnSet(f, S)
<1> DEFINE U == S \cup {x}
<1>1. IsFiniteSet(U)
  BY FS_AddElement
<1>2. U \ {x} = S /\ x \in U /\ \A y \in U : f[y] \in Int
  OBVIOUS
<1> HIDE DEF U
<1>3. SumFunctionOnSet(f, U) = f[x] + SumFunctionOnSet(f, U \ {x})
  BY <1>1, <1>2, SumRemove
<1> QED
  BY <1>2, <1>3, Zenon DEF U

(* Only the values on the set matter.                                      *)
LEMMA SumSame ==
  ASSUME NEW f, NEW g, NEW S, IsFiniteSet(S), \A x \in S : f[x] = g[x]
  PROVE  SumFunctionOnSet(f, S) = SumFunctionOnSet(g, S)
<1> DEFINE T == {U \in SUBSET S : SumFunctionOnSet(f, U) # SumFunctionOnSet(g, U)}
<1> SUFFICES ASSUME T # {} PROVE FALSE
  BY Zenon
<1>1. PICK U \in T : \A W \in T : ~(W \subseteq U /\ W # U)
  <2>1. T \in SUBSET (SUBSET S)
    OBVIOUS
  <2> HIDE DEF T
  <2> QED
    BY <2>1, FiniteMinimal
<1>2. U \in SUBSET S /\ IsFiniteSet(U) /\ SumFunctionOnSet(f, U) # SumFunctionOnSet(g, U)
  BY FS_Subset
<1>3. U # {} /\ Pick(U) \in U
  BY <1>2, SumEmpty, PickIn
<1> DEFINE W == U \ {Pick(U)}
<1>4. SumFunctionOnSet(f, W) = SumFunctionOnSet(g, W)
  <2>1. W \in SUBSET S /\ W \subseteq U /\ W # U
    BY <1>2, <1>3
  <2> QED
    BY <1>1, <2>1, Zenon
<1>5. /\ SumFunctionOnSet(f, U) = f[Pick(U)] + SumFunctionOnSet(f, W)
      /\ SumFunctionOnSet(g, U) = g[Pick(U)] + SumFunctionOnSet(g, W)
      /\ f[Pick(U)] = g[Pick(U)]
  BY <1>2, <1>3, SumRecursion, Zenon
<1> QED
  BY <1>2, <1>4, <1>5, Zenon

(* Changing one value changes the sum by the difference.                   *)
LEMMA SumUpdate ==
  ASSUME NEW f, NEW g, NEW S, IsFiniteSet(S), NEW x \in S,
         \A y \in S : f[y] \in Int /\ g[y] \in Int,
         \A y \in S \ {x} : f[y] = g[y]
  PROVE  SumFunctionOnSet(g, S) = SumFunctionOnSet(f, S) + (g[x] - f[x])
<1>1. IsFiniteSet(S \ {x})
  BY FS_RemoveElement
<1>2. SumFunctionOnSet(f, S \ {x}) = SumFunctionOnSet(g, S \ {x})
  BY <1>1, SumSame
<1>3. SumFunctionOnSet(f, S \ {x}) \in Int
  BY <1>1, SumType
<1>4. /\ SumFunctionOnSet(f, S) = f[x] + SumFunctionOnSet(f, S \ {x})
      /\ SumFunctionOnSet(g, S) = g[x] + SumFunctionOnSet(g, S \ {x})
  BY SumRemove
<1> QED
  BY <1>2, <1>3, <1>4

(* Summing up over other indices.                                          *)
LEMMA SumImage ==
  ASSUME NEW f, NEW b, NEW S, IsFiniteSet(S),
         \A x, y \in S : b[x] = b[y] => x = y,
         \A x \in S : f[b[x]] \in Int
  PROVE  SumFunctionOnSet(f, {b[x] : x \in S}) = SumFunctionOnSet([x \in S |-> f[b[x]]], S)
<1> DEFINE Img(U) == {b[x] : x \in U}
           g == [x \in S |-> f[b[x]]]
           T == {U \in SUBSET S : SumFunctionOnSet(f, Img(U)) # SumFunctionOnSet(g, U)}
<1> SUFFICES ASSUME T # {} PROVE FALSE
  BY Zenon
<1>1. PICK U \in T : \A W \in T : ~(W \subseteq U /\ W # U)
  <2>1. T \in SUBSET (SUBSET S)
    OBVIOUS
  <2> HIDE DEF T
  <2> QED
    BY <2>1, FiniteMinimal
<1>2. U \in SUBSET S /\ IsFiniteSet(U) /\ SumFunctionOnSet(f, Img(U)) # SumFunctionOnSet(g, U)
  BY FS_Subset
<1>3. U # {}
  <2>1. Img({}) = {}
    OBVIOUS
  <2> QED
    BY <1>2, <2>1, SumEmpty, Zenon
<1>4. PICK c \in U : TRUE
  BY <1>3
<1> DEFINE W == U \ {c}
<1>5. SumFunctionOnSet(f, Img(W)) = SumFunctionOnSet(g, W)
  <2>1. W \in SUBSET S /\ W \subseteq U /\ W # U
    BY <1>2, <1>4
  <2> QED
    BY <1>1, <2>1, Zenon
<1>6. Img(W) = Img(U) \ {b[c]} /\ b[c] \in Img(U)
  BY <1>2, <1>4
<1>7. \A z \in U : g[z] = f[b[z]] /\ g[z] \in Int
  BY <1>2
<1>8. SumFunctionOnSet(g, U) = g[c] + SumFunctionOnSet(g, W)
  <2> HIDE DEF g
  <2> QED
    BY <1>2, <1>4, <1>7, SumRemove
<1>9. SumFunctionOnSet(f, Img(U)) = f[b[c]] + SumFunctionOnSet(f, Img(W))
  <2>1. IsFiniteSet(Img(U))
    <3>1. [x \in U |-> b[x]] \in Surjection(U, Img(U))
      BY DEF Surjection
    <3> QED
      BY <1>2, <3>1, FS_Surjection, Zenon
  <2>2. \A y \in Img(U) : f[y] \in Int
    BY <1>2
  <2>3. SumFunctionOnSet(f, Img(U)) = f[b[c]] + SumFunctionOnSet(f, Img(U) \ {b[c]})
    <3> DEFINE I == Img(U)
    <3>1. IsFiniteSet(I) /\ (\A y \in I : f[y] \in Int) /\ b[c] \in I
      BY <2>1, <2>2, <1>6, Zenon
    <3> HIDE DEF I
    <3>2. SumFunctionOnSet(f, I) = f[b[c]] + SumFunctionOnSet(f, I \ {b[c]})
      BY <3>1, SumRemove
    <3> QED
      BY <3>2, Zenon DEF I
  <2> QED
    BY <1>6, <2>3, Zenon
<1>10. g[c] = f[b[c]]
  BY <1>4, <1>7, Zenon
<1> HIDE DEF Img, g, W
<1> QED
  BY <1>2, <1>5, <1>8, <1>9, <1>10, Zenon

-----------------------------------------------------------------------------
(***************************************************************************)
(* What list_del() leaves on a list.                                       *)
(***************************************************************************)
KeptOf(g, s, T, i) ==
    IF i = 0 THEN <<>> ELSE IF s[i] \in T THEN g[i-1] ELSE Append(g[i-1], s[i])
IsKept(g, s, T, n) == g = [i \in 0..n |-> KeptOf(g, s, T, i)]

LEMMA WithoutIsKept ==
  ASSUME NEW s, NEW T
  PROVE  Without(s, T) = (CHOOSE g : IsKept(g, s, T, Len(s)))[Len(s)]
BY DEF Without, IsKept, KeptOf

LEMMA KeptExists ==
  ASSUME NEW s, NEW T, NEW n \in Nat
  PROVE  \E g : IsKept(g, s, T, n)
<1> DEFINE N == {m \in Nat : \E g : IsKept(g, s, T, m)}
<1>1. 0 \in N
  <2>1. IsKept([i \in 0..0 |-> <<>>], s, T, 0)
    BY DEF IsKept, KeptOf
  <2> QED
    BY <2>1
<1>2. ASSUME NEW m \in N PROVE m + 1 \in N
  <2>1. PICK g : IsKept(g, s, T, m)
    OBVIOUS
  <2> DEFINE h == [i \in 0..(m + 1) |-> KeptOf(g, s, T, i)]
  <2>2. \A i \in 0..m : h[i] = g[i]
    <3>1. 0..m \subseteq 0..(m + 1)
      OBVIOUS
    <3>2. \A i \in 0..m : g[i] = KeptOf(g, s, T, i)
      BY <2>1, Zenon DEF IsKept
    <3> QED
      BY <3>1, <3>2, Zenon
  <2>3. ASSUME NEW i \in 0..(m + 1) PROVE KeptOf(g, s, T, i) = KeptOf(h, s, T, i)
    <3>1. i = 0 \/ i - 1 \in 0..m
      OBVIOUS
    <3> HIDE DEF h
    <3> QED
      BY <2>2, <3>1, Zenon DEF KeptOf
  <2>4. IsKept(h, s, T, m + 1)
    BY <2>3, Zenon DEF IsKept
  <2> QED
    BY <2>4
<1>3. N = Nat
  <2>1. N \in SUBSET Nat
    OBVIOUS
  <2> HIDE DEF N
  <2> QED
    BY <1>1, <1>2, <2>1, NatSetInduction
<1> QED
  BY <1>3, Zenon

(* Appending an element to a list.                                         *)
LEMMA Appended ==
  ASSUME NEW S, NEW s \in Seq(S), NEW x \in S
  PROVE  /\ Append(s, x) \in Seq(S)
         /\ Range(Append(s, x)) = Range(s) \cup {x}
         /\ NoRepeat(s) /\ x \notin Range(s) => NoRepeat(Append(s, x))
<1>1. /\ Append(s, x) \in Seq(S) /\ Len(Append(s, x)) = Len(s) + 1 /\ Len(s) \in Nat
      /\ \A i \in 1..(Len(s) + 1) : Append(s, x)[i] = IF i = Len(s) + 1 THEN x ELSE s[i]
  OBVIOUS
<1>2. Range(s) = {s[i] : i \in 1..Len(s)} /\ Range(Append(s, x)) = {Append(s, x)[i] : i \in 1..(Len(s) + 1)}
  BY <1>1 DEF Range
<1> DEFINE a == Append(s, x)
<1> HIDE DEF a
<1>3. /\ Range(a) = {a[i] : i \in 1..(Len(s) + 1)} /\ Len(a) = Len(s) + 1
      /\ \A i \in 1..(Len(s) + 1) : a[i] = IF i = Len(s) + 1 THEN x ELSE s[i]
  BY <1>1, <1>2 DEF a
<1>4. Range(a) = Range(s) \cup {x}
  <2>1. 1..(Len(s) + 1) = 1..Len(s) \cup {Len(s) + 1} /\ \A i \in 1..Len(s) : i # Len(s) + 1
    BY <1>1
  <2> QED
    BY <1>2, <1>3, <2>1
<1>5. NoRepeat(s) /\ x \notin Range(s) => NoRepeat(a)
  BY <1>1, <1>2, <1>3 DEF NoRepeat
<1> QED
  BY <1>1, <1>4, <1>5 DEF a

LEMMA WithoutFacts ==
  ASSUME NEW S, NEW s \in Seq(S), NEW T
  PROVE  /\ Without(s, T) \in Seq(S)
         /\ Range(Without(s, T)) = Range(s) \ T
         /\ NoRepeat(s) => NoRepeat(Without(s, T))
<1> DEFINE n == Len(s)
           g == CHOOSE h : IsKept(h, s, T, n)
           Before(i) == {s[j] : j \in 1..i}
           Good(i) == /\ g[i] \in Seq(S) /\ Range(g[i]) = Before(i) \ T
                      /\ NoRepeat(s) => NoRepeat(g[i])
           N == {i \in Nat : i <= n => Good(i)}
<1>0. n \in Nat /\ Before(n) = Range(s)
  BY DEF Range
<1>1. \A i \in 0..n : g[i] = KeptOf(g, s, T, i)
  <2>1. IsKept(g, s, T, n)
    BY <1>0, KeptExists, Zenon
  <2> HIDE DEF g
  <2> QED
    BY <2>1, Zenon DEF IsKept
<1>6. Without(s, T) = g[n]
  BY WithoutIsKept, Zenon
<1> HIDE DEF g, n, Good
<1>2. 0 \in N
  <2>1. g[0] = <<>>
    BY <1>0, <1>1 DEF KeptOf
  <2>2. <<>> \in Seq(S) /\ Range(<<>>) = {} /\ NoRepeat(<<>>) /\ Before(0) = {}
    BY DEF Range, NoRepeat
  <2> QED
    BY <2>1, <2>2, Zenon DEF Good
<1>3. ASSUME NEW i \in N PROVE i + 1 \in N
  <2> SUFFICES ASSUME i + 1 <= n PROVE Good(i + 1)
    OBVIOUS
  <2>1. Good(i) /\ i + 1 \in 0..n /\ i + 1 # 0 /\ (i + 1) - 1 = i /\ i + 1 \in 1..n
    BY <1>0
  <2>2. g[i + 1] = IF s[i + 1] \in T THEN g[i] ELSE Append(g[i], s[i + 1])
    BY <1>1, <2>1 DEF KeptOf
  <2>3. Before(i + 1) = Before(i) \cup {s[i + 1]}
    <3>1. 1..(i + 1) = 1..i \cup {i + 1}
      OBVIOUS
    <3> QED
      BY <3>1
  <2>4. s[i + 1] \in S
    BY <2>1 DEF n
  <2>5. NoRepeat(s) => s[i + 1] \notin Before(i)
    BY <2>1 DEF NoRepeat, n
  <2> HIDE DEF Before
  <2>6. CASE s[i + 1] \in T
    BY <2>1, <2>2, <2>3, <2>6 DEF Good
  <2>7. CASE s[i + 1] \notin T
    <3>1. g[i + 1] = Append(g[i], s[i + 1])
      BY <2>2, <2>7
    <3>2. /\ Append(g[i], s[i + 1]) \in Seq(S)
          /\ Range(Append(g[i], s[i + 1])) = Range(g[i]) \cup {s[i + 1]}
          /\ NoRepeat(g[i]) /\ s[i + 1] \notin Range(g[i]) => NoRepeat(Append(g[i], s[i + 1]))
      BY <2>1, <2>4, Appended, Zenon DEF Good
    <3>3. Range(g[i]) \cup {s[i + 1]} = Before(i + 1) \ T
      BY <2>1, <2>3, <2>7 DEF Good
    <3>4. NoRepeat(s) => NoRepeat(g[i]) /\ s[i + 1] \notin Range(g[i])
      BY <2>1, <2>5 DEF Good
    <3> QED
      BY <3>1, <3>2, <3>3, <3>4, Zenon DEF Good
  <2> QED
    BY <2>6, <2>7
<1>4. N = Nat
  <2>1. N \in SUBSET Nat
    OBVIOUS
  <2> HIDE DEF N
  <2> QED
    BY <1>2, <1>3, <2>1, NatSetInduction
<1>5. Good(n)
  BY <1>0, <1>4
<1> QED
  BY <1>0, <1>5, <1>6, Zenon DEF Good

LEMMA EmbedsMore ==
  ASSUME NEW S, NEW s \in Seq(S), NEW T, NEW i \in Nat, i < Len(s), NEW w \in Seq(S), NEW e,
         Embeds(e, w, s, T, i), s[i + 1] \notin T
  PROVE  \E f : Embeds(f, Append(w, s[i + 1]), s, T, i + 1)
<1> DEFINE a == Append(w, s[i + 1])
           n == Len(w)
           f == [k \in 1..(n + 1) |-> IF k = n + 1 THEN i + 1 ELSE e[k]]
<1>1. n \in Nat /\ s[i + 1] \in S
  OBVIOUS
<1>2. Len(a) = n + 1 /\ \A k \in 1..(n + 1) : a[k] = IF k = n + 1 THEN s[i + 1] ELSE w[k]
  BY <1>1
<1>3. /\ e \in [1..n -> 1..i]
      /\ \A j, k \in 1..n : j < k => e[j] < e[k]
      /\ \A k \in 1..n : w[k] = s[e[k]] /\ s[e[k]] \notin T
      /\ \A h \in 1..i : s[h] \notin T => \E k \in 1..n : e[k] = h
  BY DEF Embeds
<1> HIDE DEF n, a
<1>4. \A k \in 1..(n + 1) : f[k] = (IF k = n + 1 THEN i + 1 ELSE e[k])
  BY Zenon
<1>5. f \in [1..(n + 1) -> 1..(i + 1)]
  <2>1. \A k \in 1..(n + 1) : (IF k = n + 1 THEN i + 1 ELSE e[k]) \in 1..(i + 1)
    BY <1>1, <1>3
  <2> QED
    BY <2>1, Zenon
<1> HIDE DEF f
<1>6. \A j, k \in 1..(n + 1) : j < k => f[j] < f[k]
  BY <1>1, <1>3, <1>4
<1>7. \A k \in 1..(n + 1) : a[k] = s[f[k]] /\ s[f[k]] \notin T
  <2> SUFFICES ASSUME NEW k \in 1..(n + 1) PROVE a[k] = s[f[k]] /\ s[f[k]] \notin T
    OBVIOUS
  <2>1. CASE k = n + 1
    BY <1>2, <1>4, <2>1, Zenon
  <2>2. CASE k # n + 1
    <3>1. k \in 1..n
      BY <1>1, <2>2
    <3> QED
      BY <1>2, <1>3, <1>4, <2>2, <3>1, Zenon
  <2> QED
    BY <2>1, <2>2
<1>8. ASSUME NEW h \in 1..(i + 1), s[h] \notin T PROVE \E k \in 1..(n + 1) : f[k] = h
  <2>1. CASE h = i + 1
    <3>1. n + 1 \in 1..(n + 1)
      BY <1>1
    <3> QED
      BY <1>4, <2>1, <3>1, Zenon
  <2>2. CASE h # i + 1
    <3>1. h \in 1..i
      BY <2>2
    <3>2. PICK k \in 1..n : e[k] = h
      BY <1>3, <1>8, <3>1
    <3>3. k \in 1..(n + 1) /\ k # n + 1
      BY <1>1
    <3> QED
      BY <1>4, <3>2, <3>3, Zenon
  <2> QED
    BY <2>1, <2>2
<1>9. Embeds(f, a, s, T, i + 1)
  BY <1>2, <1>5, <1>6, <1>7, <1>8 DEF Embeds
<1> QED
  BY <1>9 DEF a

LEMMA WithoutEmbeds ==
  ASSUME NEW S, NEW s \in Seq(S), NEW T
  PROVE  \E e : Embeds(e, Without(s, T), s, T, Len(s))
<1> DEFINE n == Len(s)
           g == CHOOSE h : IsKept(h, s, T, n)
           Good(i) == g[i] \in Seq(S) /\ \E e : Embeds(e, g[i], s, T, i)
           N == {i \in Nat : i <= n => Good(i)}
<1>0. n \in Nat
  OBVIOUS
<1>1. \A i \in 0..n : g[i] = KeptOf(g, s, T, i)
  <2>1. IsKept(g, s, T, n)
    BY <1>0, KeptExists, Zenon
  <2> HIDE DEF g
  <2> QED
    BY <2>1, Zenon DEF IsKept
<1>2. Without(s, T) = g[n]
  BY WithoutIsKept, Zenon
<1> HIDE DEF g
<1>3. 0 \in N
  <2>1. g[0] = <<>>
    BY <1>0, <1>1 DEF KeptOf
  <2>2. <<>> \in Seq(S) /\ Embeds([k \in 1..0 |-> 0], <<>>, s, T, 0)
    BY DEF Embeds
  <2> QED
    BY <2>1, <2>2, Zenon
<1>4. ASSUME NEW i \in N PROVE i + 1 \in N
  <2> SUFFICES ASSUME i + 1 <= n PROVE Good(i + 1)
    OBVIOUS
  <2>1. Good(i) /\ i + 1 \in 0..n /\ i + 1 # 0 /\ (i + 1) - 1 = i /\ i < Len(s) /\ s[i + 1] \in S
    BY <1>0
  <2>2. g[i + 1] = IF s[i + 1] \in T THEN g[i] ELSE Append(g[i], s[i + 1])
    BY <1>1, <2>1 DEF KeptOf
  <2>3. PICK e : Embeds(e, g[i], s, T, i)
    BY <2>1
  <2>4. CASE s[i + 1] \in T
    <3>1. 1..(i + 1) = 1..i \cup {i + 1}
      OBVIOUS
    <3>2. Embeds(e, g[i], s, T, i + 1)
      BY <2>3, <2>4, <3>1 DEF Embeds
    <3> QED
      BY <2>1, <2>2, <2>4, <3>2, Zenon
  <2>5. CASE s[i + 1] \notin T
    <3>1. \E f : Embeds(f, Append(g[i], s[i + 1]), s, T, i + 1)
      BY <2>1, <2>3, <2>5, EmbedsMore
    <3>2. Append(g[i], s[i + 1]) \in Seq(S)
      BY <2>1, Appended, Zenon
    <3> QED
      BY <2>2, <2>5, <3>1, <3>2, Zenon
  <2> QED
    BY <2>4, <2>5
<1>5. N = Nat
  <2>1. N \in SUBSET Nat
    OBVIOUS
  <2> HIDE DEF N
  <2> QED
    BY <1>3, <1>4, <2>1, NatSetInduction
<1>6. Good(n)
  BY <1>0, <1>5
<1> QED
  BY <1>2, <1>6, Zenon
(* b maps S one to one onto T, and h is f after it.                        *)
Carries(b, h, S, f, T) ==
    /\ \A x, y \in S : b[x] = b[y] => x = y
    /\ \A x \in S : f[b[x]] \in Int /\ h[x] = f[b[x]] /\ b[x] \in T
    /\ \A y \in T : \E x \in S : b[x] = y

LEMMA SumBijection ==
  ASSUME NEW b, NEW h, NEW S, NEW f, NEW T, IsFiniteSet(S), Carries(b, h, S, f, T)
  PROVE  SumFunctionOnSet(f, T) = SumFunctionOnSet(h, S)
<1> DEFINE c == [x \in S |-> f[b[x]]]
<1>1. SumFunctionOnSet(f, {b[x] : x \in S}) = SumFunctionOnSet(c, S)
  BY SumImage DEF Carries
<1>2. \A x \in S : c[x] = h[x]
  BY DEF Carries
<1> HIDE DEF c
<1>3. SumFunctionOnSet(c, S) = SumFunctionOnSet(h, S)
  BY <1>2, SumSame
<1>4. T = {b[x] : x \in S}
  BY DEF Carries
<1> QED
  BY <1>1, <1>3, <1>4, Zenon

-----------------------------------------------------------------------------
LEMMA TotalAppend ==
  ASSUME NEW S, NEW f \in [S -> Int], NEW s \in Seq(S), NEW x \in S
  PROVE  Total(f, Append(s, x)) = Total(f, s) + f[x]
<1> DEFINE n == Len(s)
           g == [i \in DOMAIN s |-> f[s[i]]]
           a == Append(s, x)
           h == [i \in DOMAIN a |-> f[a[i]]]
<1>1. /\ n \in Nat /\ DOMAIN s = 1..n /\ DOMAIN a = 1..(n + 1) /\ 1..(n + 1) = (1..n) \cup {n + 1}
      /\ \A i \in 1..n : a[i] = s[i] /\ s[i] \in S
      /\ a[n + 1] = x /\ n + 1 \notin 1..n
  OBVIOUS
<1>2. IsFiniteSet(1..n)
  BY <1>1, FS_Interval
<1>3. (\A i \in 1..n : h[i] \in Int /\ g[i] \in Int /\ h[i] = g[i]) /\ h[n + 1] = f[x] /\ f[x] \in Int
  BY <1>1
<1> HIDE DEF h, g, n, a
<1>4. SumFunctionOnSet(h, (1..n) \cup {n + 1}) = h[n + 1] + SumFunctionOnSet(h, 1..n)
  BY <1>1, <1>2, <1>3, SumAdd, Zenon
<1>5. SumFunctionOnSet(h, 1..n) = SumFunctionOnSet(g, 1..n)
  BY <1>2, <1>3, SumSame, Zenon
<1>6. SumFunctionOnSet(g, 1..n) \in Int
  <2>1. \A i \in 1..n : g[i] \in Int
    BY <1>3
  <2> QED
    BY <1>2, <2>1, SumType, Zenon
<1>7. Total(f, s) = SumFunctionOnSet(g, 1..n) /\ Total(f, Append(s, x)) = SumFunctionOnSet(h, (1..n) \cup {n + 1})
  BY <1>1, Zenon DEF Total, g, h, a
<1> QED
  BY <1>3, <1>4, <1>5, <1>6, <1>7

(* No simple type fits x \in x: a leaf that has this among its facts is   *)
(* given to the SMT solver in the untyped translation.  It says nothing.   *)
LEMMA WithoutTypes == \A x : x \in x => TRUE
  OBVIOUS

(* The same as SumRemove, with its conclusion under a name.                *)
PutsFirst(f, S, x) == SumFunctionOnSet(f, S) = f[x] + SumFunctionOnSet(f, S \ {x})

LEMMA SumPutsFirst ==
  \A f, S, x : IsFiniteSet(S) /\ x \in S /\ (\A y \in S : f[y] \in Int) => PutsFirst(f, S, x)
<1> TAKE f, S, x
<1> HAVE IsFiniteSet(S) /\ x \in S /\ (\A y \in S : f[y] \in Int)
<1>1. SumFunctionOnSet(f, S) = f[x] + SumFunctionOnSet(f, S \ {x})
  BY SumRemove
<1> QED
  BY <1>1, Zenon DEF PutsFirst

(* Taking a member off that is there once.                                 *)
LEMMA TotalWithout ==
  ASSUME NEW S, NEW f \in [S -> Int], NEW s \in Seq(S), NEW at \in 1..Len(s),
         \A i \in 1..Len(s) : s[i] = s[at] => i = at
  PROVE  /\ Len(Without(s, {s[at]})) = Len(s) - 1
         /\ Total(f, Without(s, {s[at]})) = Total(f, s) - f[s[at]]
<1> DEFINE w == Without(s, {s[at]})
           n == Len(s)
           m == Len(w)
           g == [i \in DOMAIN s |-> f[s[i]]]
           h == [i \in DOMAIN w |-> f[w[i]]]
           T == (1..n) \ {at}
<1>1. PICK e : Embeds(e, w, s, {s[at]}, n)
  BY WithoutEmbeds, Zenon
<1>2. w \in Seq(S) /\ n \in Nat /\ m \in Nat /\ DOMAIN s = 1..n /\ DOMAIN w = 1..m
  <2>1. w \in Seq(S)
    BY WithoutFacts
  <2> QED
    BY <2>1
<1>3. /\ e \in [1..m -> T]
      /\ \A j, k \in 1..m : e[j] = e[k] => j = k
      /\ \A k \in 1..m : w[k] = s[e[k]]
      /\ \A i \in T : \E k \in 1..m : e[k] = i
  <2>1. /\ e \in [1..m -> 1..n] /\ \A j, k \in 1..m : j < k => e[j] < e[k]
        /\ \A k \in 1..m : w[k] = s[e[k]] /\ s[e[k]] # s[at]
        /\ \A i \in 1..n : s[i] # s[at] => \E k \in 1..m : e[k] = i
    BY <1>1, Zenon DEF Embeds
  <2> HIDE DEF w, m, n
  <2>2. \A k \in 1..m : e[k] \in T
    BY <2>1
  <2>3. ASSUME NEW j \in 1..m, NEW k \in 1..m, e[j] = e[k] PROVE j = k
    <3>1. j \in Int /\ k \in Int /\ e[j] \in Int
      BY <1>2, <2>1
    <3>2. ~(j < k) /\ ~(k < j)
      BY <2>1, <2>3, <3>1
    <3> QED
      BY <3>1, <3>2
  <2>4. e \in [1..m -> T]
    BY <2>1, <2>2
  <2>5. \A i \in T : \E k \in 1..m : e[k] = i
    BY <2>1 DEF n
  <2> QED
    BY <2>1, <2>3, <2>4, <2>5
<1>4. IsFiniteSet(1..n) /\ IsFiniteSet(1..m) /\ Cardinality(1..n) = n /\ Cardinality(1..m) = m
  BY <1>2, UpToSize, Zenon
<1>5. IsFiniteSet(T) /\ Cardinality(T) = n - 1
  BY <1>4, FS_RemoveElement, Zenon
<1>6. \A i \in 1..n : g[i] \in Int /\ s[i] \in S /\ g[i] = f[s[i]]
  BY <1>2
<1>7. \A k \in 1..m : h[k] = g[e[k]]
  BY <1>2, <1>3, <1>6, Zenon
<1>8. Total(f, s) = SumFunctionOnSet(g, 1..n) /\ Total(f, w) = SumFunctionOnSet(h, 1..m)
  BY <1>2 DEF Total
<1> HIDE DEF w, n, m, g, h
<1>9. m = n - 1
  <2>1. e \in Injection(1..m, T) /\ e \in Surjection(1..m, T)
    BY <1>3 DEF Injection, Surjection, IsInjective
  <2> QED
    BY <1>4, <1>5, <2>1, FS_Injection
<1>10. SumFunctionOnSet(g, T) = SumFunctionOnSet(h, 1..m)
  <2>1. \A k \in 1..m : g[e[k]] \in Int
    BY <1>3, <1>6 DEF n
  <2> DEFINE M == 1..m
  <2>2. \A k \in M : g[e[k]] \in Int /\ h[k] = g[e[k]] /\ e[k] \in T
    BY <1>3, <1>7, <2>1
  <2>3. \A j, k \in M : e[j] = e[k] => j = k
    BY <1>3, Zenon
  <2>4. IsFiniteSet(M) /\ \A i \in T : \E k \in M : e[k] = i
    BY <1>3, <1>4, Zenon
  <2> HIDE DEF T, M
  <2>5. Carries(e, h, M, g, T)
    BY <2>2, <2>3, <2>4 DEF Carries
  <2>6. SumFunctionOnSet(g, T) = SumFunctionOnSet(h, M)
    BY <2>4, <2>5, SumBijection
  <2> QED
    BY <2>6, Zenon DEF M
<1>11. SumFunctionOnSet(g, 1..n) = g[at] + SumFunctionOnSet(g, T)
  <2> DEFINE D == 1..n
  <2>1. at \in D
    BY DEF n
  <2>2. \A i \in D : g[i] \in Int
    BY <1>6, Zenon
  <2>3. IsFiniteSet(D)
    BY <1>4
  <2> HIDE DEF D
  <2>4. PutsFirst(g, D, at)
    BY <2>1, <2>2, <2>3, SumPutsFirst, Zenon
  <2> QED
    BY <2>4, Zenon DEF D, PutsFirst
<1>12. SumFunctionOnSet(g, T) \in Int
  <2>1. \A i \in T : g[i] \in Int
    BY <1>6
  <2> QED
    BY <1>5, <2>1, SumType
<1>13. g[at] = f[s[at]] /\ g[at] \in Int
  BY <1>6 DEF n
<1> QED
  BY <1>8, <1>9, <1>10, <1>11, <1>12, <1>13 DEF w, m, n

-----------------------------------------------------------------------------
(* What the proofs about components take as given.                         *)
THEOREM FiniteLawsHold == FiniteLaws
<1>1. LeastNumber /\ AllNumbers
  BY NatLeast, NatSetInduction, Zenon DEF LeastNumber, AllNumbers
<1>2. EmptySize /\ SingletonSize /\ SizeIsNat
  BY FS_EmptySet, FS_Singleton, FS_CardinalityType, Zenon DEF EmptySize, SingletonSize, SizeIsNat
<1>3. SubsetSize
  BY FS_Subset, Zenon DEF SubsetSize
<1>4. AddSize
  BY FS_AddElement, Zenon DEF AddSize
<1>5. RemoveSize
  BY FS_RemoveElement, Zenon DEF RemoveSize
<1>6. IntervalFinite
  BY FS_Interval DEF IntervalFinite
<1>7. ProductFinite
  BY FS_Product, Zenon DEF ProductFinite
<1>8. SliceSize
  <2> SUFFICES ASSUME NEW a, NEW S, IsFiniteSet(S)
               PROVE  IsFiniteSet({a} \X S) /\ Cardinality({a} \X S) = Cardinality(S)
    BY Zenon DEF SliceSize
  <2>1. IsFiniteSet({a}) /\ Cardinality({a}) = 1
    BY FS_Singleton, Zenon
  <2>2. IsFiniteSet({a} \X S) /\ Cardinality({a} \X S) = Cardinality({a}) * Cardinality(S)
    BY <2>1, FS_Product, Zenon
  <2>3. Cardinality(S) \in Nat
    BY FS_CardinalityType
  <2> QED
    BY <2>1, <2>2, <2>3
<1>9. DifferenceSize
  BY FS_Difference, Zenon DEF DifferenceSize
<1> QED
  BY <1>1, <1>2, <1>3, <1>4, <1>5, <1>6, <1>7, <1>8, <1>9 DEF FiniteLaws

THEOREM ListLawsHold == ListLaws
<1>1. AppendLaw
  <2>1. ASSUME NEW S, NEW s \in Seq(S), NEW x \in S
        PROVE  /\ Append(s, x) \in Seq(S) /\ Range(Append(s, x)) = Range(s) \cup {x}
               /\ NoRepeat(s) /\ x \notin Range(s) => NoRepeat(Append(s, x))
    BY Appended
  <2> QED
    BY <2>1, Zenon DEF AppendLaw
<1>2. WithoutLaw
  BY WithoutFacts, Zenon DEF WithoutLaw
<1>3. WithoutOrder
  BY WithoutEmbeds, Zenon DEF WithoutOrder
<1>4. SumOfNone
  BY SumEmpty, Zenon DEF SumOfNone
<1>5. SumIsInt
  BY SumType, Zenon DEF SumIsInt
<1>6. SumIsNat
  BY SumType, Zenon DEF SumIsNat
<1>7. TotalAppended
  BY TotalAppend, Zenon DEF TotalAppended
<1>8. TotalRemoved
  BY TotalWithout, Zenon DEF TotalRemoved
<1> QED
  BY <1>1, <1>2, <1>3, <1>4, <1>5, <1>6, <1>7, <1>8 DEF ListLaws

(* A loop has a result: the recursive functions that stand for loops exist.*)
LEMMA LoopResult ==
  ASSUME NEW S, NEW n \in Nat, NEW x \in S, NEW F \in LoopBodies(n, S)
  PROVE  \E g : RunsFrom(g, x, F, n, S)
<1>0. F \in [(1..n) \X S -> S]
  BY DEF LoopBodies
<1> DEFINE Runs(g, m) == RunsFrom(g, x, F, m, S)
           N == {m \in Nat : m <= n => \E g : Runs(g, m)}
<1>1. 0 \in N
  <2>1. Runs([i \in 0..0 |-> x], 0)
    BY DEF RunsFrom
  <2> QED
    BY <2>1, Zenon
<1>2. ASSUME NEW m \in N PROVE m + 1 \in N
  <2> SUFFICES ASSUME m + 1 <= n PROVE \E g : Runs(g, m + 1)
    OBVIOUS
  <2>1. m \in Nat /\ m + 1 \in 1..n /\ m <= n
    OBVIOUS
  <2>2. PICK g : g \in [0..m -> S] /\ g[0] = x /\ \A i \in 1..m : g[i] = F[<<i, g[i-1]>>]
    BY <2>1, Zenon DEF RunsFrom
  <2> DEFINE h == [i \in 0..(m + 1) |-> IF i = m + 1 THEN F[<<m + 1, g[m]>>] ELSE g[i]]
  <2>3. g[m] \in S /\ F[<<m + 1, g[m]>>] \in S
    BY <1>0, <2>1, <2>2
  <2>4. h \in [0..(m + 1) -> S]
    BY <2>2, <2>3
  <2>5. h[0] = x
    BY <2>1, <2>2
  <2>6. ASSUME NEW i \in 1..(m + 1) PROVE h[i] = F[<<i, h[i-1]>>]
    <3>1. i \in 0..(m + 1) /\ i - 1 \in 0..(m + 1) /\ i - 1 \in 0..m /\ i - 1 # m + 1
      BY <2>1
    <3>2. h[i-1] = g[i-1]
      BY <3>1, Zenon
    <3>3. CASE i = m + 1
      <4>1. h[i] = F[<<m + 1, g[m]>>] /\ i - 1 = m
        BY <2>1, <3>1, <3>3
      <4> QED
        BY <3>2, <3>3, <4>1, Zenon
    <3>4. CASE i # m + 1
      <4>1. h[i] = g[i] /\ i \in 1..m
        BY <2>1, <3>1, <3>4
      <4> QED
        BY <2>2, <3>2, <4>1, Zenon
    <3> QED
      BY <3>3, <3>4, Zenon
  <2> HIDE DEF h
  <2>7. Runs(h, m + 1)
    BY <2>4, <2>5, <2>6, Zenon DEF RunsFrom
  <2> QED
    BY <2>7, Zenon
<1>3. N = Nat
  <2>1. N \in SUBSET Nat
    OBVIOUS
  <2> HIDE DEF N
  <2> QED
    BY <1>1, <1>2, <2>1, NatSetInduction
<1>4. n \in N /\ n <= n
  BY <1>3
<1> QED
  BY <1>4, Zenon

(* The law as the proofs of the components use it.                         *)
THEOREM LoopLawHolds == LoopLaw
  BY LoopResult, Zenon DEF LoopLaw

(* A sum grows with its set by what is added, and depends on the function  *)
(* on that set only.                                                       *)
THEOREM SumLawsHold == SumLaws
<1>1. SumOfNone
  BY SumEmpty, Zenon DEF SumOfNone
<1>2. SumIsInt
  BY SumType, Zenon DEF SumIsInt
<1>3. SumAdded
  BY SumAdd, Zenon DEF SumAdded
<1>4. SumAgrees
  BY SumSame, WithoutTypes DEF SumAgrees
<1> QED
  BY <1>1, <1>2, <1>3, <1>4, Zenon DEF SumLaws
=============================================================================
