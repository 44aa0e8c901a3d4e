--------------------------- MODULE CountingTheorems ---------------------------
(***************************************************************************)
(* What the other proofs count with: finite sets, their images and orders, *)
(* and the folds and sums of the community modules, which these define by  *)
(* recursive functions: that such a function exists, what it is for a      *)
(* smaller set, and how a sum follows its set and its terms.               *)
(*                                                                         *)
(* The induction theorems of the library have an operator as a parameter.  *)
(* Here induction is on a set of counterexamples, which has a least one.   *)
(***************************************************************************)
EXTENDS Integers, Sequences, SequencesExt, FiniteSetTheorems, WellFoundedInduction, TLAPS

-----------------------------------------------------------------------------
(* Induction.                                                                *)

\* Numbers among which there is no least one do not exist.
LEMMA LeastNumber ==
  ASSUME NEW S, S \subseteq Nat, S # {}
  PROVE  \E n \in S : \A m \in S : n <= m
<1> DEFINE less == OpToRel(<, Nat)
<1>1. IsWellFoundedOn(less, Nat)
  BY NatLessThanWellFounded
<1>2. less = {p \in Nat \X Nat : p[1] < p[2]}
  BY DEF OpToRel
<1> HIDE DEF less
<1>3. PICK n \in S : \A m \in S : <<m, n>> \notin less
  BY <1>1, WFMin
<1>4. \A m \in S : ~(m < n)
  BY <1>2, <1>3
<1> QED BY <1>4

\* What holds of 0, and of each number after one of which it holds, holds of all.
LEMMA NumberByNumber ==
  ASSUME NEW Good, 0 \in Good, \A n \in Nat : n \in Good => n + 1 \in Good
  PROVE  Nat \subseteq Good
<1> SUFFICES ASSUME Nat \ Good # {} PROVE FALSE
  OBVIOUS
<1>1. PICK n \in Nat \ Good : \A m \in Nat \ Good : n <= m
  BY LeastNumber
<1>2. n # 0 /\ n - 1 \in Nat /\ n - 1 \in Good
  BY <1>1
<1>3. n \in Good
  BY <1>2
<1> QED BY <1>3

\* A set without one of its elements.
LEMMA OneLess ==
  ASSUME NEW S, IsFiniteSet(S), NEW x \in S
  PROVE  /\ IsFiniteSet(S \ {x})
         /\ Cardinality(S \ {x}) = Cardinality(S) - 1
         /\ Cardinality(S) \in Nat \ {0}
BY FS_RemoveElement, FS_CardinalityType, FS_EmptySet

\* What holds of a part of a finite set whenever it holds of that part without any one of
\* its elements holds of all parts.
LEMMA PartByPart ==
  ASSUME NEW S, IsFiniteSet(S), NEW Good,
         \A s \in SUBSET S : (\A x \in s : s \ {x} \in Good) => s \in Good
  PROVE  \A s \in SUBSET S : s \in Good
<1> SUFFICES ASSUME (SUBSET S) \ Good # {} PROVE FALSE
  OBVIOUS
<1> DEFINE sizes == {Cardinality(s) : s \in (SUBSET S) \ Good}
<1>1. \A s \in SUBSET S : IsFiniteSet(s) /\ Cardinality(s) \in Nat
  BY FS_Subset, FS_CardinalityType
<1>2. PICK n \in sizes : \A m \in sizes : n <= m
  <2>1. sizes \subseteq Nat /\ sizes # {}
    BY <1>1
  <2> HIDE DEF sizes
  <2> QED BY <2>1, LeastNumber
<1>3. PICK s \in (SUBSET S) \ Good : n = Cardinality(s)
  OBVIOUS
<1>4. ASSUME NEW x \in s
      PROVE  s \ {x} \in Good
  <2> SUFFICES ASSUME s \ {x} \notin Good PROVE FALSE
    OBVIOUS
  <2>1. Cardinality(s \ {x}) \in sizes
    OBVIOUS
  <2> HIDE DEF sizes
  <2>2. Cardinality(s \ {x}) = Cardinality(s) - 1 /\ Cardinality(s) \in Nat
    BY <1>1, OneLess
  <2> QED BY <1>2, <1>3, <2>1, <2>2
<1> QED BY <1>3, <1>4

-----------------------------------------------------------------------------
(* Folds.                                                                    *)

\* A fold takes the elements of a set one after the other.  The function by which it is
\* defined exists.
Folds(S, V, base, pick, op, g) ==
  /\ g \in [SUBSET S -> V]
  /\ \A s \in SUBSET S : g[s] = IF s = {} THEN base ELSE op[<<pick[s], g[s \ {pick[s]}]>>]

LEMMA FoldExists ==
  ASSUME NEW S, IsFiniteSet(S), NEW V, NEW base \in V,
         NEW pick, \A s \in SUBSET S : s # {} => pick[s] \in s,
         NEW op, \A x \in S : \A v \in V : op[<<x, v>>] \in V
  PROVE  \E g : Folds(S, V, base, pick, op, g)
<1> DEFINE Does(g, s) == g[s] = IF s = {} THEN base ELSE op[<<pick[s], g[s \ {pick[s]}]>>]
           Upto(g, n) == \A s \in SUBSET S : Cardinality(s) <= n => Does(g, s)
           Good == {n \in Nat : \E g \in [SUBSET S -> V] : Upto(g, n)}
<1>1. \A s \in SUBSET S : IsFiniteSet(s) /\ Cardinality(s) \in Nat
  BY FS_Subset, FS_CardinalityType
<1>2. 0 \in Good
  <2> DEFINE g == [s \in SUBSET S |-> base]
  <2>1. ASSUME NEW s \in SUBSET S, Cardinality(s) <= 0
        PROVE  s = {}
    BY <1>1, <2>1, FS_EmptySet
  <2>2. Upto(g, 0)
    BY <2>1
  <2>3. g \in [SUBSET S -> V]
    OBVIOUS
  <2> HIDE DEF g
  <2> QED BY <2>2, <2>3
<1>3. ASSUME NEW n \in Nat, n \in Good
      PROVE  n + 1 \in Good
  <2>1. PICK g \in [SUBSET S -> V] : Upto(g, n)
    BY <1>3
  <2> DEFINE h == [s \in SUBSET S |-> IF s = {} THEN base ELSE op[<<pick[s], g[s \ {pick[s]}]>>]]
  <2>2. h \in [SUBSET S -> V]
    <3> SUFFICES ASSUME NEW s \in SUBSET S, s # {}
                 PROVE  op[<<pick[s], g[s \ {pick[s]}]>>] \in V
      OBVIOUS
    <3>1. pick[s] \in S /\ s \ {pick[s]} \in SUBSET S
      OBVIOUS
    <3> QED BY <3>1
  <2>3. ASSUME NEW s \in SUBSET S, Cardinality(s) <= n
        PROVE  h[s] = g[s]
    BY <2>1, <2>3
  <2>4. ASSUME NEW s \in SUBSET S, Cardinality(s) <= n + 1, s # {}
        PROVE  h[s \ {pick[s]}] = g[s \ {pick[s]}]
    <3>1. pick[s] \in s /\ s \ {pick[s]} \in SUBSET S
      BY <2>4
    <3>2. Cardinality(s \ {pick[s]}) = Cardinality(s) - 1
      BY <1>1, <3>1, OneLess
    <3>3. Cardinality(s \ {pick[s]}) <= n
      BY <1>1, <2>4, <3>2
    <3> QED BY <2>3, <3>1, <3>3
  <2>5. Upto(h, n + 1)
    <3> SUFFICES ASSUME NEW s \in SUBSET S, Cardinality(s) <= n + 1
                 PROVE  Does(h, s)
      OBVIOUS
    <3>1. CASE s = {}
      BY <3>1
    <3>2. CASE s # {}
      <4>1. h[s] = op[<<pick[s], g[s \ {pick[s]}]>>]
        BY <3>2
      <4> HIDE DEF h
      <4> QED BY <2>4, <3>2, <4>1
    <3> QED BY <3>1, <3>2
  <2> HIDE DEF h, Upto
  <2> QED BY <2>2, <2>5
<1>4. Cardinality(S) \in Good
  <2> HIDE DEF Good
  <2>1. Cardinality(S) \in Nat
    BY FS_CardinalityType
  <2> QED BY <1>2, <1>3, <2>1, NumberByNumber
<1>5. PICK g \in [SUBSET S -> V] : Upto(g, Cardinality(S))
  BY <1>4
<1>6. \A s \in SUBSET S : Cardinality(s) <= Cardinality(S)
  BY FS_Subset
<1> QED BY <1>5, <1>6 DEF Folds

-----------------------------------------------------------------------------
(* Sums.                                                                     *)

\* A function by which the sum over a set is defined.
Sums(f, S, g) ==
  g = [s \in SUBSET S |-> IF s = {} THEN 0
                          ELSE f[CHOOSE x \in s : TRUE] + g[s \ {CHOOSE x \in s : TRUE}]]

IntegersOn(f, S) == \A x \in S : f[x] \in Int
NaturalsOn(f, S) == \A x \in S : f[x] \in Nat

LEMMA SumsExist ==
  ASSUME NEW S, IsFiniteSet(S), NEW f, IntegersOn(f, S)
  PROVE  \E g \in [SUBSET S -> Int] : Sums(f, S, g)
<1> DEFINE pick == [s \in SUBSET S |-> CHOOSE x \in s : TRUE]
           op == [p \in S \X Int |-> f[p[1]] + p[2]]
<1>1. \A s \in SUBSET S : s # {} => pick[s] \in s
  OBVIOUS
<1>2. \A x \in S : \A v \in Int : op[<<x, v>>] = f[x] + v
  OBVIOUS
<1>3. \A x \in S : \A v \in Int : op[<<x, v>>] \in Int
  BY DEF IntegersOn
<1> HIDE DEF pick, op
<1>4. PICK g : Folds(S, Int, 0, pick, op, g)
  BY <1>1, <1>3, FoldExists
<1>5. ASSUME NEW s \in SUBSET S, s # {}
      PROVE  g[s] = f[pick[s]] + g[s \ {pick[s]}]
  <2>1. pick[s] \in S /\ g[s \ {pick[s]}] \in Int
    BY <1>1, <1>4, <1>5 DEF Folds
  <2> QED BY <1>2, <1>4, <1>5, <2>1 DEF Folds
<1>6. \A s \in SUBSET S : pick[s] = CHOOSE x \in s : TRUE
  BY DEF pick
<1>7. Sums(f, S, g)
  BY <1>4, <1>5, <1>6 DEF Sums, Folds
<1> QED BY <1>4, <1>7 DEF Folds

\* It is the same for a smaller set.
LEMMA SumsAgree ==
  ASSUME NEW S, IsFiniteSet(S), NEW T \in SUBSET S, NEW f, NEW g, Sums(f, S, g),
         NEW h, Sums(f, T, h)
  PROVE  \A s \in SUBSET T : g[s] = h[s]
<1> DEFINE Good == {s \in SUBSET T : g[s] = h[s]}
<1>1. ASSUME NEW s \in SUBSET T, \A x \in s : s \ {x} \in Good
      PROVE  g[s] = h[s]
  <2>1. CASE s = {}
    BY <2>1 DEF Sums
  <2>2. CASE s # {}
    <3> DEFINE x == CHOOSE x \in s : TRUE
    <3>1. x \in s
      BY <2>2
    <3>2. g[s] = f[x] + g[s \ {x}] /\ h[s] = f[x] + h[s \ {x}]
      BY <2>2 DEF Sums
    <3> HIDE DEF x
    <3> QED BY <1>1, <3>1, <3>2
  <2> QED BY <2>1, <2>2
<1>2. IsFiniteSet(T)
  BY FS_Subset
<1>3. \A s \in SUBSET T : (\A x \in s : s \ {x} \in Good) => s \in Good
  BY <1>1
<1> HIDE DEF Good
<1>4. \A s \in SUBSET T : s \in Good
  BY <1>2, <1>3, PartByPart
<1> QED BY <1>4 DEF Good

\* The sum, by one function for all parts of a set.
SumsParts(f, S, g) ==
  /\ g \in [SUBSET S -> Int]
  /\ Sums(f, S, g)
  /\ \A T \in SUBSET S : SumFunctionOnSet(f, T) = g[T]

LEMMA SumsOfParts ==
  ASSUME NEW S, IsFiniteSet(S), NEW f, IntegersOn(f, S)
  PROVE  \E g : SumsParts(f, S, g)
<1>1. PICK g \in [SUBSET S -> Int] : Sums(f, S, g)
  BY SumsExist
<1>2. ASSUME NEW T \in SUBSET S
      PROVE  SumFunctionOnSet(f, T) = g[T]
  <2> DEFINE h == CHOOSE h : Sums(f, T, h)
  <2>1. SumFunctionOnSet(f, T) = h[T]
    BY DEF SumFunctionOnSet, FoldFunctionOnSet, MapThenFoldSet, Sums
  <2>2. IsFiniteSet(T) /\ IntegersOn(f, T)
    BY FS_Subset DEF IntegersOn
  <2>3. Sums(f, T, h)
    <3>1. \E k : Sums(f, T, k)
      BY <2>2, SumsExist
    <3> QED BY <3>1
  <2> HIDE DEF h
  <2>4. g[T] = h[T]
    BY <1>1, <2>3, SumsAgree
  <2> QED BY <2>1, <2>4
<1> QED BY <1>1, <1>2 DEF SumsParts

\* Any function by which the sum may be defined gives it.
LEMMA SumIsUnique ==
  ASSUME NEW S, IsFiniteSet(S), NEW f, IntegersOn(f, S), NEW h, Sums(f, S, h)
  PROVE  SumFunctionOnSet(f, S) = h[S]
<1>1. PICK g : SumsParts(f, S, g)
  BY SumsOfParts
<1>2. \A s \in SUBSET S : g[s] = h[s]
  BY <1>1, SumsAgree DEF SumsParts
<1> QED BY <1>1, <1>2 DEF SumsParts

LEMMA SumIsInteger ==
  ASSUME NEW S, IsFiniteSet(S), NEW f, IntegersOn(f, S)
  PROVE  SumFunctionOnSet(f, S) \in Int
<1>1. PICK g : SumsParts(f, S, g)
  BY SumsOfParts
<1> QED BY <1>1 DEF SumsParts

LEMMA SumOfNone ==
  ASSUME NEW f
  PROVE  SumFunctionOnSet(f, {}) = 0
<1>1. IsFiniteSet({}) /\ IntegersOn(f, {})
  BY FS_EmptySet DEF IntegersOn
<1>2. PICK g : SumsParts(f, {}, g)
  BY <1>1, SumsOfParts
<1> QED BY <1>2 DEF SumsParts, Sums

\* Whichever element is taken first.
LEMMA SumByElement ==
  ASSUME NEW S, IsFiniteSet(S), NEW f, IntegersOn(f, S), NEW x \in S
  PROVE  SumFunctionOnSet(f, S) = f[x] + SumFunctionOnSet(f, S \ {x})
<1>1. PICK g : SumsParts(f, S, g)
  BY SumsOfParts
<1> DEFINE Takes(s) == \A a \in s : g[s] = f[a] + g[s \ {a}]
           Good == {s \in SUBSET S : Takes(s)}
<1>2. ASSUME NEW s \in SUBSET S, \A y \in s : s \ {y} \in Good, NEW a \in s
      PROVE  g[s] = f[a] + g[s \ {a}]
  <2> DEFINE b == CHOOSE b \in s : TRUE
  <2>1. b \in s
    OBVIOUS
  <2>2. g[s] = f[b] + g[s \ {b}]
    BY <1>1 DEF Sums, SumsParts
  <2> HIDE DEF b
  <2>3. CASE a = b
    BY <2>2, <2>3
  <2>4. CASE a # b
    <3>1. Takes(s \ {b}) /\ Takes(s \ {a})
      BY <1>2, <2>1
    <3>2. g[s \ {b}] = f[a] + g[(s \ {b}) \ {a}]
      BY <2>4, <3>1
    <3>3. g[s \ {a}] = f[b] + g[(s \ {a}) \ {b}]
      BY <2>1, <2>4, <3>1
    <3>4. (s \ {b}) \ {a} = (s \ {a}) \ {b}
      OBVIOUS
    <3> DEFINE rest == g[(s \ {a}) \ {b}]
    <3>5. f[a] \in Int /\ f[b] \in Int /\ rest \in Int
      BY <1>1, <2>1 DEF IntegersOn, SumsParts
    <3>6. g[s] = f[b] + (f[a] + rest) /\ g[s \ {a}] = f[b] + rest
      BY <2>2, <3>2, <3>3, <3>4
    <3> HIDE DEF rest
    <3> QED BY <3>5, <3>6
  <2> QED BY <2>3, <2>4
<1>3. \A s \in SUBSET S : (\A y \in s : s \ {y} \in Good) => s \in Good
  BY <1>2
<1> HIDE DEF Good
<1>4. \A s \in SUBSET S : s \in Good
  BY <1>3, PartByPart
<1>5. Takes(S)
  BY <1>4 DEF Good
<1> QED BY <1>1, <1>5 DEF SumsParts

-----------------------------------------------------------------------------
(* How a sum follows its set and its terms.                                  *)

LEMMA SumOfOne ==
  ASSUME NEW f, NEW x, f[x] \in Int
  PROVE  SumFunctionOnSet(f, {x}) = f[x]
<1>1. IsFiniteSet({x}) /\ IntegersOn(f, {x})
  BY FS_Singleton DEF IntegersOn
<1>2. SumFunctionOnSet(f, {x}) = f[x] + SumFunctionOnSet(f, {x} \ {x})
  BY <1>1, SumByElement
<1>3. {x} \ {x} = {}
  OBVIOUS
<1> QED BY <1>2, <1>3, SumOfNone

\* Terms that are added.
LEMMA SumOfBoth ==
  ASSUME NEW S, IsFiniteSet(S), NEW f, IntegersOn(f, S), NEW h, IntegersOn(h, S),
         NEW k, \A x \in S : k[x] = f[x] + h[x]
  PROVE  SumFunctionOnSet(k, S) = SumFunctionOnSet(f, S) + SumFunctionOnSet(h, S)
<1> DEFINE Adds(s) == SumFunctionOnSet(k, s) = SumFunctionOnSet(f, s) + SumFunctionOnSet(h, s)
           Good == {s \in SUBSET S : Adds(s)}
<1>1. ASSUME NEW s \in SUBSET S, \A x \in s : s \ {x} \in Good
      PROVE  Adds(s)
  <2>1. CASE s = {}
    BY <2>1, SumOfNone
  <2>2. ASSUME NEW x \in s
        PROVE  Adds(s)
    <3> DEFINE t == s \ {x}
               F == SumFunctionOnSet(f, t)
               H == SumFunctionOnSet(h, t)
               K == SumFunctionOnSet(k, t)
    <3>1. IsFiniteSet(s) /\ IsFiniteSet(t)
      BY FS_Subset
    <3>2. /\ IntegersOn(f, s) /\ IntegersOn(h, s) /\ IntegersOn(k, s)
          /\ IntegersOn(f, t) /\ IntegersOn(h, t)
      BY DEF IntegersOn
    <3>3. /\ SumFunctionOnSet(k, s) = k[x] + K
          /\ SumFunctionOnSet(f, s) = f[x] + F
          /\ SumFunctionOnSet(h, s) = h[x] + H
      BY <3>1, <3>2, SumByElement
    <3>4. K = F + H
      BY <1>1
    <3>5. F \in Int /\ H \in Int
      BY <3>1, <3>2, SumIsInteger
    <3>6. k[x] = f[x] + h[x] /\ f[x] \in Int /\ h[x] \in Int
      BY DEF IntegersOn
    <3> HIDE DEF F, H, K
    <3>7. k[x] + K = (f[x] + F) + (h[x] + H)
      BY <3>4, <3>5, <3>6
    <3> QED BY <3>3, <3>7
  <2> QED BY <2>1, <2>2
<1>2. \A s \in SUBSET S : (\A x \in s : s \ {x} \in Good) => s \in Good
  BY <1>1
<1> HIDE DEF Good
<1>3. \A s \in SUBSET S : s \in Good
  BY <1>2, PartByPart
<1> QED BY <1>3 DEF Good

LEMMA SumOfZero ==
  ASSUME NEW S, IsFiniteSet(S), NEW f, \A x \in S : f[x] = 0
  PROVE  SumFunctionOnSet(f, S) = 0
<1> DEFINE Z == SumFunctionOnSet(f, S)
<1>1. IntegersOn(f, S) /\ \A x \in S : f[x] = f[x] + f[x]
  BY DEF IntegersOn
<1>2. Z = Z + Z
  BY <1>1, SumOfBoth
<1>3. Z \in Int
  BY <1>1, SumIsInteger
<1> HIDE DEF Z
<1>4. Z = 0
  BY <1>2, <1>3
<1> QED BY <1>4 DEF Z

\* The same terms.
LEMMA SumOfSame ==
  ASSUME NEW S, IsFiniteSet(S), NEW f, IntegersOn(f, S), NEW h, \A x \in S : h[x] = f[x]
  PROVE  SumFunctionOnSet(h, S) = SumFunctionOnSet(f, S)
<1> DEFINE zero == [x \in S |-> 0]
<1>1. IntegersOn(zero, S) /\ \A x \in S : h[x] = f[x] + zero[x]
  BY DEF IntegersOn
<1>2. SumFunctionOnSet(zero, S) = 0
  BY SumOfZero
<1> HIDE DEF zero
<1>3. SumFunctionOnSet(h, S) = SumFunctionOnSet(f, S) + SumFunctionOnSet(zero, S)
  BY <1>1, SumOfBoth
<1>4. SumFunctionOnSet(f, S) \in Int
  BY SumIsInteger
<1> QED BY <1>2, <1>3, <1>4

\* One term that is not zero.
LEMMA SumOfSingle ==
  ASSUME NEW S, IsFiniteSet(S), NEW x \in S, NEW f, f[x] \in Int,
         \A y \in S : y # x => f[y] = 0
  PROVE  SumFunctionOnSet(f, S) = f[x]
<1>1. IntegersOn(f, S)
  BY DEF IntegersOn
<1>2. SumFunctionOnSet(f, S) = f[x] + SumFunctionOnSet(f, S \ {x})
  BY <1>1, SumByElement
<1>3. SumFunctionOnSet(f, S \ {x}) = 0
  BY OneLess, SumOfZero
<1> QED BY <1>2, <1>3

\* Two sets that have nothing in common.
LEMMA SumOfUnion ==
  ASSUME NEW S, IsFiniteSet(S), NEW T, IsFiniteSet(T), S \cap T = {},
         NEW f, IntegersOn(f, S \cup T)
  PROVE  SumFunctionOnSet(f, S \cup T) = SumFunctionOnSet(f, S) + SumFunctionOnSet(f, T)
<1> DEFINE Adds(t) == SumFunctionOnSet(f, S \cup t) = SumFunctionOnSet(f, S) + SumFunctionOnSet(f, t)
           Good == {t \in SUBSET T : Adds(t)}
           A == SumFunctionOnSet(f, S)
<1>1. A \in Int
  <2>1. IntegersOn(f, S)
    BY DEF IntegersOn
  <2> QED BY <2>1, SumIsInteger
<1>2. ASSUME NEW t \in SUBSET T, \A x \in t : t \ {x} \in Good
      PROVE  Adds(t)
  <2>1. CASE t = {}
    <3>1. S \cup t = S /\ SumFunctionOnSet(f, t) = 0
      BY <2>1, SumOfNone
    <3> QED BY <1>1, <3>1
  <2>2. ASSUME NEW x \in t
        PROVE  Adds(t)
    <3> DEFINE r == t \ {x}
               B == SumFunctionOnSet(f, r)
               C == SumFunctionOnSet(f, S \cup r)
    <3>1. IsFiniteSet(t) /\ IsFiniteSet(r) /\ IsFiniteSet(S \cup t)
      BY FS_Subset, FS_Union
    <3>2. IntegersOn(f, t) /\ IntegersOn(f, r) /\ IntegersOn(f, S \cup t) /\ f[x] \in Int
      BY DEF IntegersOn
    <3>3. SumFunctionOnSet(f, t) = f[x] + B
      BY <3>1, <3>2, SumByElement
    <3>4. SumFunctionOnSet(f, S \cup t) = f[x] + C
      <4>1. (S \cup t) \ {x} = S \cup r
        OBVIOUS
      <4>2. SumFunctionOnSet(f, S \cup t) = f[x] + SumFunctionOnSet(f, (S \cup t) \ {x})
        BY <3>1, <3>2, SumByElement
      <4> QED BY <4>1, <4>2
    <3>5. C = A + B
      BY <1>2
    <3>6. B \in Int
      BY <3>1, <3>2, SumIsInteger
    <3> HIDE DEF A, B, C
    <3>7. f[x] + C = A + (f[x] + B)
      BY <1>1, <3>2, <3>5, <3>6
    <3> QED BY <3>3, <3>4, <3>7 DEF A
  <2> QED BY <2>1, <2>2
<1>3. \A t \in SUBSET T : (\A x \in t : t \ {x} \in Good) => t \in Good
  BY <1>2
<1> HIDE DEF Good
<1>4. \A t \in SUBSET T : t \in Good
  BY <1>3, PartByPart
<1> QED BY <1>4 DEF Good

\* Terms that are no less than nothing.
LEMMA SumIsNatural ==
  ASSUME NEW S, IsFiniteSet(S), NEW f, NaturalsOn(f, S)
  PROVE  SumFunctionOnSet(f, S) \in Nat
<1> DEFINE Good == {s \in SUBSET S : SumFunctionOnSet(f, s) \in Nat}
<1>1. ASSUME NEW s \in SUBSET S, \A x \in s : s \ {x} \in Good
      PROVE  SumFunctionOnSet(f, s) \in Nat
  <2>1. CASE s = {}
    BY <2>1, SumOfNone
  <2>2. ASSUME NEW x \in s
        PROVE  SumFunctionOnSet(f, s) \in Nat
    <3>1. IsFiniteSet(s) /\ IntegersOn(f, s) /\ f[x] \in Nat
      BY FS_Subset DEF NaturalsOn, IntegersOn
    <3>2. SumFunctionOnSet(f, s) = f[x] + SumFunctionOnSet(f, s \ {x})
      BY <3>1, SumByElement
    <3>3. SumFunctionOnSet(f, s \ {x}) \in Nat
      BY <1>1
    <3> QED BY <3>1, <3>2, <3>3
  <2> QED BY <2>1, <2>2
<1>2. \A s \in SUBSET S : (\A x \in s : s \ {x} \in Good) => s \in Good
  BY <1>1
<1> HIDE DEF Good
<1>3. \A s \in SUBSET S : s \in Good
  BY <1>2, PartByPart
<1> QED BY <1>3 DEF Good

\* A part of the terms.
LEMMA SumOfPart ==
  ASSUME NEW S, IsFiniteSet(S), NEW T \in SUBSET S, NEW f, NaturalsOn(f, S)
  PROVE  /\ SumFunctionOnSet(f, T) <= SumFunctionOnSet(f, S)
         /\ SumFunctionOnSet(f, T) \in Nat /\ SumFunctionOnSet(f, S) \in Nat
<1> DEFINE R == S \ T
           A == SumFunctionOnSet(f, T)
           B == SumFunctionOnSet(f, R)
<1>1. IsFiniteSet(T) /\ IsFiniteSet(R)
  BY FS_Subset
<1>2. NaturalsOn(f, T) /\ NaturalsOn(f, R) /\ IntegersOn(f, T \cup R)
  BY DEF NaturalsOn, IntegersOn
<1>3. T \cap R = {} /\ T \cup R = S
  OBVIOUS
<1>4. SumFunctionOnSet(f, T \cup R) = A + B
  <2> HIDE DEF R
  <2> QED BY <1>1, <1>2, <1>3, SumOfUnion
<1>5. A \in Nat /\ B \in Nat
  BY <1>1, <1>2, SumIsNatural
<1>6. SumFunctionOnSet(f, S) = A + B
  BY <1>3, <1>4
<1> HIDE DEF A, B
<1>7. A <= A + B /\ A + B \in Nat
  BY <1>5
<1> QED BY <1>5, <1>6, <1>7 DEF A

\* A term that grows.
LEMMA SumOfIncreased ==
  ASSUME NEW S, IsFiniteSet(S), NEW f, IntegersOn(f, S), NEW x \in S, NEW n \in Int,
         NEW h, \A y \in S : h[y] = IF y = x THEN f[y] + n ELSE f[y]
  PROVE  SumFunctionOnSet(h, S) = SumFunctionOnSet(f, S) + n
<1> DEFINE d == [y \in S |-> IF y = x THEN n ELSE 0]
<1>1. /\ IntegersOn(d, S) /\ d[x] = n /\ \A y \in S : y # x => d[y] = 0
      /\ \A y \in S : h[y] = f[y] + d[y]
  BY DEF IntegersOn
<1> HIDE DEF d
<1>2. SumFunctionOnSet(d, S) = n
  BY <1>1, SumOfSingle
<1> QED BY <1>1, <1>2, SumOfBoth

\* The image of a finite set.
LEMMA ImageIsFinite ==
  ASSUME NEW S, IsFiniteSet(S), NEW f
  PROVE  IsFiniteSet({f[x] : x \in S})
<1> DEFINE g == [x \in S |-> f[x]]
<1>1. g \in Surjection(S, {f[x] : x \in S})
  BY DEF Surjection
<1> HIDE DEF g
<1> QED BY <1>1, FS_Surjection

LEMMA ImageIsCounted ==
  ASSUME NEW S, IsFiniteSet(S), NEW f, \A x, y \in S : f[x] = f[y] => x = y
  PROVE  Cardinality({f[x] : x \in S}) = Cardinality(S)
<1> DEFINE image(s) == {f[x] : x \in s}
           Good == {s \in SUBSET S : Cardinality(image(s)) = Cardinality(s)}
<1>1. ASSUME NEW s \in SUBSET S, \A x \in s : s \ {x} \in Good
      PROVE  Cardinality(image(s)) = Cardinality(s)
  <2>1. CASE s = {}
    BY <2>1
  <2>2. ASSUME NEW x \in s
        PROVE  Cardinality(image(s)) = Cardinality(s)
    <3> DEFINE t == s \ {x}
    <3>1. Cardinality(image(t)) = Cardinality(t)
      BY <1>1
    <3>2. IsFiniteSet(s) /\ Cardinality(t) = Cardinality(s) - 1 /\ Cardinality(s) \in Nat
      BY FS_Subset, OneLess
    <3>3. IsFiniteSet(image(s))
      BY <3>2, ImageIsFinite
    <3>4. f[x] \in image(s) /\ image(t) = image(s) \ {f[x]}
      OBVIOUS
    <3> HIDE DEF image, t
    <3>5. /\ Cardinality(image(t)) = Cardinality(image(s)) - 1
          /\ Cardinality(image(s)) \in Nat
      BY <3>3, <3>4, OneLess
    <3> QED BY <3>1, <3>2, <3>5
  <2> QED BY <2>1, <2>2
<1>2. \A s \in SUBSET S : (\A x \in s : s \ {x} \in Good) => s \in Good
  BY <1>1
<1> HIDE DEF Good
<1>3. \A s \in SUBSET S : s \in Good
  BY <1>2, PartByPart
<1> QED BY <1>3 DEF Good

\* Elements are counted by a key of theirs.
Having(S, key, k) == {x \in S : key[x] = k}
CountsByKey(S, key, K) == [k \in K |-> Cardinality(Having(S, key, k))]

LEMMA CountsAreNatural ==
  ASSUME NEW S, IsFiniteSet(S), NEW key, NEW K
  PROVE  NaturalsOn(CountsByKey(S, key, K), K) /\ IntegersOn(CountsByKey(S, key, K), K)
<1>1. \A k \in K : Cardinality(Having(S, key, k)) \in Nat
  BY FS_Subset, FS_CardinalityType DEF Having
<1> QED BY <1>1 DEF CountsByKey, NaturalsOn, IntegersOn

LEMMA CountedByKey ==
  ASSUME NEW S, IsFiniteSet(S), NEW K, IsFiniteSet(K), NEW key, \A x \in S : key[x] \in K
  PROVE  SumFunctionOnSet(CountsByKey(S, key, K), K) = Cardinality(S)
<1> DEFINE total(s) == SumFunctionOnSet(CountsByKey(s, key, K), K)
           Good == {s \in SUBSET S : total(s) = Cardinality(s)}
<1>1. ASSUME NEW s \in SUBSET S, \A x \in s : s \ {x} \in Good
      PROVE  total(s) = Cardinality(s)
  <2>1. CASE s = {}
    <3> DEFINE counts == CountsByKey(s, key, K)
    <3>1. \A k \in K : counts[k] = 0
      BY <2>1, FS_EmptySet DEF CountsByKey, Having
    <3> HIDE DEF counts
    <3>2. SumFunctionOnSet(counts, K) = 0
      BY <3>1, SumOfZero
    <3>3. total(s) = 0
      BY <3>2 DEF counts
    <3> QED BY <2>1, <3>3, FS_EmptySet
  <2>2. ASSUME NEW x \in s
        PROVE  total(s) = Cardinality(s)
    <3> DEFINE t == s \ {x}
               counts == CountsByKey(t, key, K)
               more == CountsByKey(s, key, K)
    <3>1. IsFiniteSet(s) /\ IsFiniteSet(t) /\ Cardinality(t) = Cardinality(s) - 1
          /\ Cardinality(s) \in Nat
      BY FS_Subset, OneLess
    <3>2. SumFunctionOnSet(counts, K) = Cardinality(t)
      BY <1>1
    <3>3. ASSUME NEW k \in K
          PROVE  more[k] = IF k = key[x] THEN counts[k] + 1 ELSE counts[k]
      <4>1. CASE k = key[x]
        <5>1. x \in Having(s, key, k) /\ Having(t, key, k) = Having(s, key, k) \ {x}
          BY <4>1 DEF Having
        <5>2. IsFiniteSet(Having(s, key, k))
          BY <3>1, FS_Subset DEF Having
        <5>3. /\ Cardinality(Having(t, key, k)) = Cardinality(Having(s, key, k)) - 1
              /\ Cardinality(Having(s, key, k)) \in Nat
          BY <5>1, <5>2, OneLess
        <5> QED BY <4>1, <5>3 DEF CountsByKey
      <4>2. CASE k # key[x]
        <5>1. Having(t, key, k) = Having(s, key, k)
          BY <4>2 DEF Having
        <5> QED BY <4>2, <5>1 DEF CountsByKey
      <4> QED BY <4>1, <4>2
    <3>4. IntegersOn(counts, K)
      BY <3>1, CountsAreNatural
    <3>5. key[x] \in K
      OBVIOUS
    <3> HIDE DEF counts, more
    <3>6. SumFunctionOnSet(more, K) = SumFunctionOnSet(counts, K) + 1
      BY <3>3, <3>4, <3>5, SumOfIncreased
    <3>7. SumFunctionOnSet(more, K) = Cardinality(s)
      BY <3>1, <3>2, <3>6
    <3> QED BY <3>7 DEF more
  <2> QED BY <2>1, <2>2
<1>2. \A s \in SUBSET S : (\A x \in s : s \ {x} \in Good) => s \in Good
  BY <1>1
<1> HIDE DEF Good
<1>3. \A s \in SUBSET S : s \in Good
  BY <1>2, PartByPart
<1> QED BY <1>3 DEF Good

-----------------------------------------------------------------------------
(* Sums over the positions of a sequence.                                    *)

LEMMA Interval ==
  ASSUME NEW n \in Nat
  PROVE  IsFiniteSet(1..n) /\ Cardinality(1..n) = n
BY FS_Interval

\* One more at the end.
LEMMA SumOfAppended ==
  ASSUME NEW n \in Nat, NEW f, IntegersOn(f, 1..(n + 1)), NEW h, \A i \in 1..n : h[i] = f[i]
  PROVE  SumFunctionOnSet(f, 1..(n + 1)) = SumFunctionOnSet(h, 1..n) + f[n + 1]
<1>1. IsFiniteSet(1..(n + 1)) /\ IsFiniteSet(1..n)
  BY Interval
<1>2. n + 1 \in 1..(n + 1) /\ (1..(n + 1)) \ {n + 1} = 1..n
  OBVIOUS
<1>3. SumFunctionOnSet(f, 1..(n + 1)) = f[n + 1] + SumFunctionOnSet(f, 1..n)
  BY <1>1, <1>2, SumByElement
<1>4. IntegersOn(f, 1..n) /\ f[n + 1] \in Int
  BY <1>2 DEF IntegersOn
<1>5. SumFunctionOnSet(h, 1..n) = SumFunctionOnSet(f, 1..n)
  BY <1>1, <1>4, SumOfSame
<1>6. SumFunctionOnSet(f, 1..n) \in Int
  BY <1>1, <1>4, SumIsInteger
<1> QED BY <1>3, <1>4, <1>5, <1>6

\* One less at the beginning.
LEMMA SumOfRest ==
  ASSUME NEW n \in Nat, NEW f, IntegersOn(f, 1..(n + 1)),
         NEW h, \A i \in 1..n : h[i] = f[i + 1]
  PROVE  SumFunctionOnSet(f, 1..(n + 1)) = f[1] + SumFunctionOnSet(h, 1..n)
<1> DEFINE Holds(m) == SumFunctionOnSet(f, 1..(m + 1)) = f[1] + SumFunctionOnSet(h, 1..m)
           Good == {m \in Nat : m <= n => Holds(m)}
<1>1. \A m \in Nat : m <= n => IntegersOn(f, 1..(m + 1)) /\ IntegersOn(h, 1..m)
  BY DEF IntegersOn
<1>2. 0 \in Good
  <2>1. 1..(0 + 1) = {1} /\ 1..0 = {} /\ f[1] \in Int
    BY DEF IntegersOn
  <2>2. SumFunctionOnSet(f, {1}) = f[1] /\ SumFunctionOnSet(h, {}) = 0
    BY <2>1, SumOfOne, SumOfNone
  <2>3. f[1] = f[1] + 0
    BY <2>1
  <2>4. Holds(0)
    BY <2>1, <2>2, <2>3
  <2> QED BY <2>4
<1>3. ASSUME NEW m \in Nat, m \in Good
      PROVE  m + 1 \in Good
  <2> SUFFICES ASSUME m + 1 <= n
               PROVE  Holds(m + 1)
    OBVIOUS
  <2> DEFINE F == SumFunctionOnSet(f, 1..(m + 1))
             H == SumFunctionOnSet(h, 1..m)
  <2>1. F = f[1] + H
    BY <1>3
  <2>2. IntegersOn(f, 1..((m + 1) + 1)) /\ IntegersOn(h, 1..(m + 1)) /\ IntegersOn(h, 1..m)
        /\ m + 1 \in Nat
    BY <1>1
  <2>3. SumFunctionOnSet(f, 1..((m + 1) + 1)) = F + f[(m + 1) + 1]
    BY <2>2, SumOfAppended
  <2>4. SumFunctionOnSet(h, 1..(m + 1)) = H + h[m + 1]
    BY <2>2, SumOfAppended
  <2>5. h[m + 1] = f[(m + 1) + 1] /\ h[m + 1] \in Int /\ f[1] \in Int
    BY <2>2 DEF IntegersOn
  <2>6. H \in Int
    BY <2>2, Interval, SumIsInteger
  <2> HIDE DEF F, H
  <2>7. F + f[(m + 1) + 1] = f[1] + (H + h[m + 1])
    BY <2>1, <2>5, <2>6
  <2> QED BY <2>3, <2>4, <2>7
<1> HIDE DEF Good
<1>4. Nat \subseteq Good
  BY <1>2, <1>3, NumberByNumber
<1> QED BY <1>4 DEF Good

-----------------------------------------------------------------------------
(* A fold of a sequence.                                                     *)

LEMMA MaxOfPositions ==
  ASSUME NEW n \in Nat, NEW s \in SUBSET (1..n), s # {}
  PROVE  Max(s) \in s /\ \A i \in s : i <= Max(s)
<1> DEFINE below == {n - i : i \in s}
<1>1. below \subseteq Nat /\ below # {}
  <2>1. \A i \in s : i \in 1..n
    OBVIOUS
  <2>2. \A i \in 1..n : n - i \in Nat
    OBVIOUS
  <2> QED BY <2>1, <2>2
<1>2. PICK b \in below : \A c \in below : b <= c
  <2> HIDE DEF below
  <2> QED BY <1>1, LeastNumber
<1>3. PICK i \in s : b = n - i
  OBVIOUS
<1>4. \A j \in s : i >= j
  <2> SUFFICES ASSUME NEW j \in s PROVE i >= j
    OBVIOUS
  <2>1. b <= n - j
    BY <1>2
  <2> QED BY <1>3, <2>1
<1>5. \E m \in s : \A j \in s : m >= j
  BY <1>4
<1>6. Max(s) \in s /\ \A j \in s : Max(s) >= j
  BY <1>5 DEF Max
<1> QED BY <1>6

LEMMA MaxOfFirst ==
  ASSUME NEW i \in Nat \ {0}
  PROVE  Max(1..i) = i /\ (1..i) \ {i} = 1..(i - 1)
<1>1. 1..i # {} /\ i \in 1..i
  OBVIOUS
<1>2. Max(1..i) \in 1..i /\ \A j \in 1..i : j <= Max(1..i)
  BY <1>1, MaxOfPositions
<1>3. Max(1..i) = i
  BY <1>1, <1>2
<1>4. (1..i) \ {i} = 1..(i - 1)
  OBVIOUS
<1> QED BY <1>3, <1>4

\* A fold of a sequence takes the last position first.
LEMMA FoldOfPositionsExists ==
  ASSUME NEW n \in Nat, NEW V, NEW base \in V,
         NEW op, \A i \in 1..n : \A v \in V : op[<<i, v>>] \in V
  PROVE  \E g : Folds(1..n, V, base, [s \in SUBSET (1..n) |-> Max(s)], op, g)
<1> DEFINE S == 1..n
           pick == [s \in SUBSET S |-> Max(s)]
<1>1. IsFiniteSet(S)
  BY Interval
<1>2. \A s \in SUBSET S : s # {} => pick[s] \in s
  BY MaxOfPositions
<1>3. \A x \in S : \A v \in V : op[<<x, v>>] \in V
  OBVIOUS
<1> HIDE DEF S, pick
<1>4. \E g : Folds(S, V, base, pick, op, g)
  BY <1>1, <1>2, <1>3, FoldExists
<1> QED BY <1>4 DEF S, pick

-----------------------------------------------------------------------------
(* Sorting.                                                                  *)

\* A finite set with an order on it has a last element, and its elements in sequence.
IsOrder(S, before) ==
  /\ \A a, b \in S : a # b => <<a, b>> \in before \/ <<b, a>> \in before
  /\ \A a, b, c \in S : <<a, b>> \in before /\ <<b, c>> \in before => <<a, c>> \in before
  /\ \A a \in S : <<a, a>> \notin before

LEMMA LastElement ==
  ASSUME NEW S, IsFiniteSet(S), NEW before, IsOrder(S, before)
  PROVE  \A s \in SUBSET S : s # {} => \E z \in s : \A x \in s : x # z => <<x, z>> \in before
<1> DEFINE Ends(s) == \E z \in s : \A x \in s : x # z => <<x, z>> \in before
           Good == {s \in SUBSET S : s # {} => Ends(s)}
<1>1. ASSUME NEW s \in SUBSET S, \A x \in s : s \ {x} \in Good, s # {}
      PROVE  Ends(s)
  <2>1. PICK y \in s : TRUE
    BY <1>1
  <2>2. CASE s \ {y} = {}
    BY <2>1, <2>2
  <2>3. CASE s \ {y} # {}
    <3>1. PICK z \in s \ {y} : \A x \in s \ {y} : x # z => <<x, z>> \in before
      BY <1>1, <2>3
    <3>2. CASE <<y, z>> \in before
      BY <3>1, <3>2
    <3>3. CASE <<z, y>> \in before
      BY <3>1, <3>3 DEF IsOrder
    <3> QED BY <3>1, <3>2, <3>3 DEF IsOrder
  <2> QED BY <2>2, <2>3
<1>2. \A s \in SUBSET S : (\A x \in s : s \ {x} \in Good) => s \in Good
  BY <1>1
<1> HIDE DEF Good
<1>3. \A s \in SUBSET S : s \in Good
  BY <1>2, PartByPart
<1> QED BY <1>3 DEF Good

Sorted(s, before, order) ==
  /\ order \in SetToSeqs(s)
  /\ \A i, j \in DOMAIN order : i < j => <<order[i], order[j]>> \in before

\* SetToSeqs has the sequences of all elements of a set, each once.
LEMMA SequencesOfSet ==
  ASSUME NEW s, IsFiniteSet(s), NEW order
  PROVE  order \in SetToSeqs(s) <=>
           /\ order \in [1..Cardinality(s) -> s]
           /\ \A i, j \in 1..Cardinality(s) : i # j => order[i] # order[j]
BY DEF SetToSeqs

LEMMA SortedExists ==
  ASSUME NEW S, IsFiniteSet(S), NEW before, IsOrder(S, before)
  PROVE  \E order : Sorted(S, before, order)
<1> DEFINE Good == {s \in SUBSET S : \E order : Sorted(s, before, order)}
<1>1. ASSUME NEW s \in SUBSET S, \A x \in s : s \ {x} \in Good
      PROVE  \E order : Sorted(s, before, order)
  <2>1. IsFiniteSet(s) /\ Cardinality(s) \in Nat
    BY FS_Subset, FS_CardinalityType
  <2>2. CASE s = {}
    <3> DEFINE order == [i \in 1..0 |-> 0]
    <3>1. Cardinality(s) = 0
      BY <2>2, FS_EmptySet
    <3>2. order \in [1..0 -> s] /\ DOMAIN order = 1..0 /\ 1..0 = {}
      OBVIOUS
    <3> HIDE DEF order
    <3>3. order \in SetToSeqs(s)
      BY <2>1, <3>1, <3>2, SequencesOfSet
    <3>4. Sorted(s, before, order)
      BY <3>2, <3>3 DEF Sorted
    <3> QED BY <3>4
  <2>3. CASE s # {}
    <3>1. PICK z \in s : \A x \in s : x # z => <<x, z>> \in before
      BY <2>3, LastElement
    <3> DEFINE t == s \ {z}
               n == Cardinality(s)
    <3>2. IsFiniteSet(t) /\ Cardinality(t) = n - 1 /\ n \in Nat \ {0}
      BY <2>1, <3>1, OneLess
    <3>3. PICK first : Sorted(t, before, first)
      BY <1>1, <3>1
    <3> HIDE DEF n
    <3>4. /\ first \in [1..(n - 1) -> t]
          /\ \A i, j \in 1..(n - 1) : i # j => first[i] # first[j]
          /\ \A i, j \in 1..(n - 1) : i < j => <<first[i], first[j]>> \in before
      BY <3>2, <3>3, SequencesOfSet DEF Sorted
    <3> DEFINE order == [i \in 1..n |-> IF i = n THEN z ELSE first[i]]
    <3>5. \A i \in 1..n : i = n \/ i \in 1..(n - 1)
      BY <3>2
    <3>6. order \in [1..n -> s] /\ order[n] = z /\ \A i \in 1..(n - 1) : order[i] = first[i]
      BY <3>1, <3>2, <3>4, <3>5
    <3>7. DOMAIN order = 1..n
      OBVIOUS
    <3> HIDE DEF order
    <3>8. \A i, j \in 1..n : i # j => order[i] # order[j]
      BY <3>4, <3>5, <3>6
    <3>9. \A i, j \in 1..n : i < j => <<order[i], order[j]>> \in before
      BY <3>1, <3>2, <3>4, <3>5, <3>6
    <3>10. order \in SetToSeqs(s)
      BY <2>1, <3>6, <3>8, SequencesOfSet DEF n
    <3> QED BY <3>7, <3>9, <3>10 DEF Sorted
  <2> QED BY <2>2, <2>3
<1>2. \A s \in SUBSET S : (\A x \in s : s \ {x} \in Good) => s \in Good
  BY <1>1
<1> HIDE DEF Good
<1>3. \A s \in SUBSET S : s \in Good
  BY <1>2, PartByPart
<1> QED BY <1>3 DEF Good

\* Such a sequence leaves none of the elements out.
LEMMA SequenceHasAll ==
  ASSUME NEW S, IsFiniteSet(S), NEW order \in SetToSeqs(S)
  PROVE  /\ order \in [1..Cardinality(S) -> S]
         /\ \A i, j \in 1..Cardinality(S) : i # j => order[i] # order[j]
         /\ {order[i] : i \in 1..Cardinality(S)} = S
<1> DEFINE n == Cardinality(S)
           image == {order[i] : i \in 1..n}
<1>1. /\ n \in Nat
      /\ order \in [1..n -> S]
      /\ \A i, j \in 1..n : i # j => order[i] # order[j]
  BY SequencesOfSet, FS_CardinalityType
<1> HIDE DEF n
<1> DEFINE part(m) == {order[i] : i \in 1..m}
           Good == {m \in Nat : m <= n => IsFiniteSet(part(m)) /\ Cardinality(part(m)) = m}
<1>2. 0 \in Good
  <2>1. part(0) = {}
    OBVIOUS
  <2> QED BY <2>1, FS_EmptySet
<1>3. ASSUME NEW m \in Nat, m \in Good
      PROVE  m + 1 \in Good
  <2> SUFFICES ASSUME m + 1 <= n
               PROVE  IsFiniteSet(part(m + 1)) /\ Cardinality(part(m + 1)) = m + 1
    OBVIOUS
  <2>1. part(m + 1) = part(m) \cup {order[m + 1]}
    OBVIOUS
  <2>2. order[m + 1] \notin part(m)
    BY <1>1
  <2>3. IsFiniteSet(part(m)) /\ Cardinality(part(m)) = m
    <3>1. m <= n
      BY <1>1
    <3> HIDE DEF part
    <3> QED BY <1>3, <3>1
  <2> HIDE DEF part
  <2> QED BY <2>1, <2>2, <2>3, FS_AddElement
<1>4. IsFiniteSet(image) /\ Cardinality(image) = n
  <2> HIDE DEF Good
  <2>1. Nat \subseteq Good
    BY <1>2, <1>3, NumberByNumber
  <2> QED BY <1>1, <2>1 DEF Good
<1>5. image \subseteq S
  BY <1>1
<1>6. image = S
  BY <1>4, <1>5, FS_Subset DEF n
<1> QED BY <1>1, <1>6 DEF n

-----------------------------------------------------------------------------
(* What comes first by an order.                                             *)

\* What comes before an element, and the elements that fewer than n others come before.
Ahead(S, before, x) == {y \in S : <<y, x>> \in before}
FirstBy(S, before, n) == {x \in S : Cardinality(Ahead(S, before, x)) < n}

LEMMA AheadIsCounted ==
  ASSUME NEW S, IsFiniteSet(S), NEW before, IsOrder(S, before), NEW x \in S
  PROVE  /\ IsFiniteSet(Ahead(S, before, x))
         /\ Cardinality(Ahead(S, before, x)) \in Nat
         /\ Cardinality(Ahead(S, before, x)) < Cardinality(S)
<1>1. Ahead(S, before, x) \subseteq S \ {x}
  BY DEF Ahead, IsOrder
<1>2. IsFiniteSet(S \ {x}) /\ Cardinality(S \ {x}) = Cardinality(S) - 1 /\ Cardinality(S) \in Nat
  BY OneLess
<1>3. /\ IsFiniteSet(Ahead(S, before, x))
      /\ Cardinality(Ahead(S, before, x)) <= Cardinality(S \ {x})
  BY <1>1, <1>2, FS_Subset
<1> QED BY <1>2, <1>3, FS_CardinalityType

LEMMA FirstAreFew ==
  ASSUME NEW S, IsFiniteSet(S), NEW before, IsOrder(S, before), NEW n \in Nat
  PROVE  /\ IsFiniteSet(FirstBy(S, before, n))
         /\ Cardinality(FirstBy(S, before, n)) \in Nat
         /\ Cardinality(FirstBy(S, before, n)) <= n
<1> DEFINE T == FirstBy(S, before, n)
           rank == [x \in S |-> Cardinality(Ahead(S, before, x))]
<1>1. \A x \in S : rank[x] = Cardinality(Ahead(S, before, x)) /\ rank[x] \in Nat
  BY AheadIsCounted
<1>2. T \subseteq S /\ \A x \in T : rank[x] \in 0..(n-1)
  BY <1>1 DEF FirstBy
<1>3. IsFiniteSet(T)
  BY <1>2, FS_Subset
<1> HIDE DEF rank, T
<1>4. ASSUME NEW a \in S, NEW b \in S, <<a, b>> \in before
      PROVE  rank[a] < rank[b]
  <2>1. Ahead(S, before, a) \subseteq Ahead(S, before, b) \ {a}
    BY <1>4 DEF Ahead, IsOrder
  <2>2. a \in Ahead(S, before, b) /\ IsFiniteSet(Ahead(S, before, b))
    BY <1>4, AheadIsCounted DEF Ahead
  <2>3. /\ IsFiniteSet(Ahead(S, before, b) \ {a})
        /\ Cardinality(Ahead(S, before, b) \ {a}) = rank[b] - 1
    BY <1>1, <2>2, OneLess
  <2>4. rank[a] <= rank[b] - 1
    BY <1>1, <2>1, <2>3, FS_Subset
  <2> QED BY <1>1, <2>4
<1>5. \A a, b \in T : rank[a] = rank[b] => a = b
  <2> SUFFICES ASSUME NEW a \in T, NEW b \in T, a # b PROVE rank[a] # rank[b]
    OBVIOUS
  <2>1. a \in S /\ b \in S /\ rank[a] \in Nat /\ rank[b] \in Nat
    BY <1>1, <1>2
  <2>2. <<a, b>> \in before \/ <<b, a>> \in before
    BY <2>1 DEF IsOrder
  <2>3. rank[a] < rank[b] \/ rank[b] < rank[a]
    BY <1>4, <2>1, <2>2
  <2> QED BY <2>1, <2>3
<1>6. Cardinality({rank[x] : x \in T}) = Cardinality(T)
  BY <1>3, <1>5, ImageIsCounted
<1>7. {rank[x] : x \in T} \subseteq 0..(n-1)
  BY <1>2
<1>8. IsFiniteSet(0..(n-1)) /\ Cardinality(0..(n-1)) = n
  <2>1. 0 \in Int /\ n - 1 \in Int
    OBVIOUS
  <2>2. IsFiniteSet(0..(n-1))
        /\ Cardinality(0..(n-1)) = IF 0 > n-1 THEN 0 ELSE (n-1) - 0 + 1
    BY <2>1, FS_Interval, SMT
  <2> QED BY <2>2
<1>9. Cardinality(T) <= n
  <2> DEFINE ranks == {rank[x] : x \in T}
             below == 0..(n-1)
  <2>1. IsFiniteSet(below) /\ Cardinality(below) = n /\ ranks \subseteq below
    BY <1>7, <1>8
  <2> HIDE DEF ranks, below
  <2>2. Cardinality(ranks) <= n
    BY <2>1, FS_Subset
  <2> QED BY <1>6, <2>2 DEF ranks
<1> QED BY <1>3, <1>9, FS_CardinalityType DEF T

LEMMA FewAreFirst ==
  ASSUME NEW S, IsFiniteSet(S), NEW before, IsOrder(S, before), NEW n \in Nat, Cardinality(S) <= n
  PROVE  FirstBy(S, before, n) = S
BY AheadIsCounted, FS_CardinalityType DEF FirstBy
=============================================================================
