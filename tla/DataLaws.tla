------------------------------ MODULE DataLaws ------------------------------
(***************************************************************************)
(* Facts about finite sets, numbers, sums and lists that the proofs use.   *)
(* Module DataProofs proves them.  The lemmas of a component take them as  *)
(* hypotheses, FiniteLaws or ListLaws, and its theorems, which come last,  *)
(* instantiate DataProofs: a proof is checked the faster the fewer         *)
(* theorems are known where it stands.                                     *)
(***************************************************************************)
EXTENDS Integers, FiniteSets, Sequences, Functions, Lists

(* A set of natural numbers that is not empty has a least element.         *)
LeastNumber == \A T \in SUBSET Nat : T # {} => \E x \in T : \A y \in T : x <= y
AllNumbers == \A T \in SUBSET Nat : 0 \in T /\ (\A n \in T : n + 1 \in T) => T = Nat

EmptySize ==
    /\ IsFiniteSet({}) /\ Cardinality({}) = 0
    /\ \A S : IsFiniteSet(S) /\ Cardinality(S) = 0 => S = {}
SingletonSize == \A x : IsFiniteSet({x}) /\ Cardinality({x}) = 1
SizeIsNat == \A S : IsFiniteSet(S) => Cardinality(S) \in Nat
SubsetSize ==
    \A S, T : IsFiniteSet(S) /\ T \subseteq S => IsFiniteSet(T) /\ Cardinality(T) <= Cardinality(S)
AddSize ==
    \A S, x : IsFiniteSet(S) /\ x \notin S
        => IsFiniteSet(S \cup {x}) /\ Cardinality(S \cup {x}) = Cardinality(S) + 1
RemoveSize ==
    \A S, x : IsFiniteSet(S) /\ x \in S
        => IsFiniteSet(S \ {x}) /\ Cardinality(S \ {x}) = Cardinality(S) - 1
IntervalFinite == \A a, b \in Int : IsFiniteSet(a..b)
ProductFinite == \A S, T : IsFiniteSet(S) /\ IsFiniteSet(T) => IsFiniteSet(S \X T)
SliceSize ==
    \A a, S : IsFiniteSet(S) => IsFiniteSet({a} \X S) /\ Cardinality({a} \X S) = Cardinality(S)
DifferenceSize ==
    \A S, T : IsFiniteSet(S)
        => IsFiniteSet(S \ T) /\ Cardinality(S \ T) = Cardinality(S) - Cardinality(S \cap T)

FiniteLaws ==
    /\ LeastNumber /\ AllNumbers /\ EmptySize /\ SingletonSize /\ SizeIsNat /\ SubsetSize
    /\ AddSize /\ RemoveSize /\ IntervalFinite /\ ProductFinite /\ SliceSize /\ DifferenceSize

-----------------------------------------------------------------------------
NoRepeat(s) == \A i, j \in 1..Len(s) : s[i] = s[j] => i = j

(* What is left of the first i elements of s is in the same order: the     *)
(* k-th element left was the e[k]-th.                                      *)
Embeds(e, w, s, T, i) ==
    /\ e \in [1..Len(w) -> 1..i]
    /\ \A j, k \in 1..Len(w) : j < k => e[j] < e[k]
    /\ \A k \in 1..Len(w) : w[k] = s[e[k]] /\ s[e[k]] \notin T
    /\ \A h \in 1..i : s[h] \notin T => \E k \in 1..Len(w) : e[k] = h

(* The sum of f over the members of a sequence, one by one.                *)
Total(f, s) == SumFunctionOnSet([i \in DOMAIN s |-> f[s[i]]], DOMAIN s)

AppendLaw ==
    \A S : \A s \in Seq(S), x \in S :
        /\ Append(s, x) \in Seq(S) /\ Range(Append(s, x)) = Range(s) \cup {x}
        /\ NoRepeat(s) /\ x \notin Range(s) => NoRepeat(Append(s, x))
WithoutLaw ==
    \A S, T : \A s \in Seq(S) :
        /\ Without(s, T) \in Seq(S) /\ Range(Without(s, T)) = Range(s) \ T
        /\ NoRepeat(s) => NoRepeat(Without(s, T))
WithoutOrder == \A S, T : \A s \in Seq(S) : \E e : Embeds(e, Without(s, T), s, T, Len(s))
SumOfNone == \A f : SumFunctionOnSet(f, {}) = 0
SumIsInt == \A f, S : IsFiniteSet(S) /\ (\A x \in S : f[x] \in Int) => SumFunctionOnSet(f, S) \in Int
SumIsNat == \A f, S : IsFiniteSet(S) /\ (\A x \in S : f[x] \in Nat) => SumFunctionOnSet(f, S) \in Nat
TotalAppended ==
    \A S : \A f \in [S -> Int], s \in Seq(S), x \in S : Total(f, Append(s, x)) = Total(f, s) + f[x]
TotalRemoved ==
    \A S : \A f \in [S -> Int], s \in Seq(S) : \A at \in 1..Len(s) :
        (\A i \in 1..Len(s) : s[i] = s[at] => i = at)
            => /\ Len(Without(s, {s[at]})) = Len(s) - 1
               /\ Total(f, Without(s, {s[at]})) = Total(f, s) - f[s[at]]

ListLaws ==
    /\ AppendLaw /\ WithoutLaw /\ WithoutOrder /\ SumOfNone /\ SumIsInt /\ SumIsNat
    /\ TotalAppended /\ TotalRemoved

-----------------------------------------------------------------------------
(* A loop of n passes over states in S: pass i goes from x to F[<<i, x>>]. *)
LoopBodies(n, S) == [(1..n) \X S -> S]
RunsFrom(g, x, F, n, S) ==
    /\ g \in [0..n -> S] /\ g[0] = x
    /\ \A i \in 1..n : g[i] = F[<<i, g[i-1]>>]
LoopLaw == \A S : \A n \in Nat : \A x \in S : \A F \in LoopBodies(n, S) : \E g : RunsFrom(g, x, F, n, S)

-----------------------------------------------------------------------------
SumAdded ==
    \A f, S, x : IsFiniteSet(S) /\ (\A y \in S : f[y] \in Int) /\ x \notin S /\ f[x] \in Int
        => SumFunctionOnSet(f, S \cup {x}) = f[x] + SumFunctionOnSet(f, S)
SumAgrees ==
    \A f, g, S : IsFiniteSet(S) /\ (\A y \in S : f[y] = g[y])
        => SumFunctionOnSet(f, S) = SumFunctionOnSet(g, S)

SumLaws == SumOfNone /\ SumIsInt /\ SumAdded /\ SumAgrees
=============================================================================
