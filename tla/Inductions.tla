------------------------------ MODULE Inductions -------------------------------
(***************************************************************************)
(* Facts that need an induction, about the sums and the selections that    *)
(* the models are written with.                                            *)
(***************************************************************************)
EXTENDS Selections, FiniteSetTheorems, TLAPS

(* A set of naturals that is not empty has a least one. *)
LEMMA LeastNatural ==
    ASSUME NEW T \in SUBSET Nat, T # {}
    PROVE  \E x \in T : \A y \in T : x <= y
<1> DEFINE R == OpToRel(<, Nat)
<1>1. \A x, y \in T : y < x => <<y, x>> \in R
  BY DEF OpToRel
<1>2. IsWellFoundedOn(R, Nat)
  BY NatLessThanWellFounded
<1> HIDE DEF R
<1>3. \E x \in T : \A y \in T : ~ (<<y, x>> \in R)
  BY <1>2, WFMin
<1>4. PICK x \in T : \A y \in T : ~ (<<y, x>> \in R)
  BY <1>3
<1>5. \A y \in T : ~ (y < x)
  BY <1>1, <1>4
<1>6. \A y \in T : y \in Nat /\ x \in Nat
  OBVIOUS
<1>7. \A y \in T : x <= y
  BY <1>5, <1>6
<1> QED
  BY <1>7

(* Induction, for a set instead of a predicate. *)
LEMMA Induction ==
    ASSUME NEW T, 0 \in T, \A n \in Nat : n \in T => n + 1 \in T
    PROVE  \A n \in Nat : n \in T
<1> SUFFICES ASSUME Nat \ T # {} PROVE FALSE
  OBVIOUS
<1>1. PICK n \in Nat \ T : \A m \in Nat \ T : n <= m
  BY LeastNatural
<1>2. n # 0 /\ n - 1 \in Nat /\ n - 1 \in T
  BY <1>1
<1>3. (n - 1) + 1 \in T
  BY <1>2
<1> QED
  BY <1>1, <1>3

LEMMA TakenOut ==
    ASSUME NEW S, IsFiniteSet(S), NEW n \in Nat, Cardinality(S) = n + 1
    PROVE  /\ S # {}
           /\ \A x \in S : Cardinality(S \ {x}) = n
<1>1. S # {}
  <2> SUFFICES ASSUME S = {} PROVE FALSE
    OBVIOUS
  <2>1. Cardinality({}) = 0
    BY FS_EmptySet
  <2> QED
    BY <2>1
<1>2. ASSUME NEW x \in S PROVE Cardinality(S \ {x}) = n
  <2>1. Cardinality(S \ {x}) = Cardinality(S) - 1
    BY FS_RemoveElement
  <2> QED
    BY <2>1
<1> QED
  BY <1>1, <1>2

(* What holds of no element, and of one more whenever of some, holds of    *)
(* all.                                                                    *)
LEMMA InductionOnSet ==
    ASSUME NEW S, IsFiniteSet(S), NEW P, {} \in P,
           \A t \in SUBSET S : \A x \in S \ t : t \in P => t \cup {x} \in P
    PROVE  S \in P
<1> DEFINE N == {n \in Nat : \A t \in SUBSET S : Cardinality(t) = n => t \in P}
<1>1. \A t \in SUBSET S : IsFiniteSet(t) /\ Cardinality(t) \in Nat
  BY FS_Subset, FS_CardinalityType
<1>2. 0 \in N
  BY <1>1, FS_EmptySet
<1>3. ASSUME NEW n \in Nat, n \in N PROVE n + 1 \in N
  <2> SUFFICES ASSUME NEW t \in SUBSET S, Cardinality(t) = n + 1 PROVE t \in P
    OBVIOUS
  <2>1. t # {}
    BY <1>1, TakenOut
  <2>2. PICK x \in t : TRUE
    BY <2>1
  <2>3. t \ {x} \in SUBSET S /\ x \in S \ (t \ {x}) /\ t = (t \ {x}) \cup {x}
    OBVIOUS
  <2>4. Cardinality(t \ {x}) = n
    BY <1>1, TakenOut
  <2>5. t \ {x} \in P
    BY <1>3, <2>3, <2>4
  <2> QED
    BY <2>3, <2>5
<1> HIDE DEF N
<1>4. Cardinality(S) \in N
  BY <1>1, <1>2, <1>3, Induction
<1> QED
  BY <1>4 DEF N

LEMMA GreatestNatural ==
    ASSUME NEW T \in SUBSET Nat, T # {}, NEW b \in Nat, \A x \in T : x <= b
    PROVE  Max(T) \in T /\ \A y \in T : y <= Max(T)
<1> DEFINE U == {b - x : x \in T}
<1>1. U \in SUBSET Nat /\ U # {}
  <2>1. \A x \in T : b - x \in Nat /\ b - x \in U
    OBVIOUS
  <2>2. \E x \in T : TRUE
    OBVIOUS
  <2> QED
    BY <2>1, <2>2
<1>2. PICK u \in U : \A v \in U : u <= v
  BY <1>1, LeastNatural
<1>3. PICK x \in T : u = b - x
  BY <1>2
<1>4. \A y \in T : y <= x
  <2> TAKE y \in T
  <2>1. b - y \in U
    OBVIOUS
  <2>2. b - x <= b - y
    BY <1>2, <1>3, <2>1
  <2>3. x \in Nat /\ y \in Nat
    OBVIOUS
  <2> HIDE DEF U
  <2> QED
    BY <2>2, <2>3
<1>5. \E z \in T : \A y \in T : z >= y
  BY <1>4
<1> QED
  BY <1>5 DEF Max

LEMMA LastOfInterval ==
    ASSUME NEW n \in Nat
    PROVE  /\ 1 .. n + 1 # {}
           /\ Max(1 .. n + 1) = n + 1
           /\ (1 .. n + 1) \ {n + 1} = 1 .. n
<1> DEFINE I == 1 .. n + 1
<1>1. n + 1 \in I /\ I \in SUBSET Nat /\ \A y \in I : y <= n + 1
  OBVIOUS
<1>2. (1 .. n + 1) \ {n + 1} = 1 .. n
  OBVIOUS
<1> HIDE DEF I
<1>3. Max(I) \in I /\ \A y \in I : y <= Max(I)
  <2>1. n + 1 \in Nat
    OBVIOUS
  <2> QED
    BY <1>1, <2>1, GreatestNatural
<1>4. Max(I) \in Nat /\ Max(I) <= n + 1 /\ n + 1 <= Max(I)
  BY <1>1, <1>3
<1>5. Max(I) = n + 1
  BY <1>4
<1> QED
  BY <1>1, <1>2, <1>5 DEF I

(* Induction on sequences. *)
LEMMA InductionOnSeq ==
    ASSUME NEW S, NEW P, << >> \in P,
           \A s \in Seq(S) : \A x \in S : s \in P => Append(s, x) \in P
    PROVE  \A s \in Seq(S) : s \in P
<1> DEFINE N == {n \in Nat : \A s \in Seq(S) : Len(s) = n => s \in P}
<1>1. 0 \in N
  OBVIOUS
<1>2. ASSUME NEW n \in Nat, n \in N PROVE n + 1 \in N
  <2> SUFFICES ASSUME NEW s \in Seq(S), Len(s) = n + 1 PROVE s \in P
    OBVIOUS
  <2> DEFINE front == [i \in 1 .. n |-> s[i]]
  <2>1. front \in Seq(S) /\ Len(front) = n
    OBVIOUS
  <2>2. s[n + 1] \in S
    OBVIOUS
  <2>3. s = Append(front, s[n + 1])
    OBVIOUS
  <2>4. front \in P
    BY <1>2, <2>1
  <2> HIDE DEF front
  <2>5. Append(front, s[n + 1]) \in P
    BY <2>1, <2>2, <2>4
  <2> QED
    BY <2>3, <2>5
<1> HIDE DEF N
<1>3. \A n \in Nat : n \in N
  BY <1>1, <1>2, Induction
<1> QED
  BY <1>3 DEF N

-----------------------------------------------------------------------------
(* Sums. *)
Some(s) == CHOOSE x \in s : TRUE

(* it sums f over every part of S, by taking out one element at a time. *)
Sums(f, S, it) ==
    it = [s \in SUBSET S |-> IF s = {} THEN 0 ELSE f[Some(s)] + it[s \ {Some(s)}]]

LEMMA SumIsRecursive ==
    ASSUME NEW f, NEW S
    PROVE  SumFunctionOnSet(f, S) = (CHOOSE it : Sums(f, S, it))[S]
BY DEF SumFunctionOnSet, FoldFunctionOnSet, MapThenFoldSet, Sums, Some

(* Two such functions agree where both are defined. *)
LEMMA SumsAgree ==
    ASSUME NEW f, NEW S, NEW T, NEW a, NEW b, Sums(f, S, a), Sums(f, T, b),
           NEW U, U \in SUBSET S, U \in SUBSET T, IsFiniteSet(U)
    PROVE  a[U] = b[U]
<1> DEFINE N == {n \in Nat : \A u \in SUBSET U : Cardinality(u) = n => a[u] = b[u]}
<1>1. \A u \in SUBSET U : IsFiniteSet(u) /\ Cardinality(u) \in Nat
  BY FS_Subset, FS_CardinalityType
<1>2. a[{}] = 0 /\ b[{}] = 0
  BY DEF Sums
<1>3. 0 \in N
  BY <1>1, <1>2, FS_EmptySet
<1>4. ASSUME NEW n \in Nat, n \in N PROVE n + 1 \in N
  <2> SUFFICES ASSUME NEW u \in SUBSET U, Cardinality(u) = n + 1 PROVE a[u] = b[u]
    OBVIOUS
  <2>1. u # {}
    BY <1>1, TakenOut
  <2> DEFINE x == Some(u)
  <2>2. x \in u
    BY <2>1 DEF Some
  <2>3. Cardinality(u \ {x}) = n
    BY <1>1, <2>2, TakenOut
  <2>4. a[u \ {x}] = b[u \ {x}]
    BY <1>4, <2>3
  <2>5. a[u] = f[x] + a[u \ {x}] /\ b[u] = f[x] + b[u \ {x}]
    BY <2>1 DEF Sums
  <2> QED
    BY <2>4, <2>5
<1> HIDE DEF N
<1>5. Cardinality(U) \in N
  BY <1>1, <1>3, <1>4, Induction
<1> QED
  BY <1>5 DEF N

LEMMA SumsExist ==
    ASSUME NEW f, NEW S, IsFiniteSet(S)
    PROVE  \E it : Sums(f, S, it)
<1> DEFINE Upto(n) == {t \in SUBSET S : Cardinality(t) <= n}
           Next(g, t) == IF t = {} THEN 0 ELSE f[Some(t)] + g[t \ {Some(t)}]
           N == {n \in Nat : \E g : g = [t \in Upto(n) |-> Next(g, t)]}
<1>1. \A t \in SUBSET S : IsFiniteSet(t) /\ Cardinality(t) \in Nat
  BY FS_Subset, FS_CardinalityType
<1>2. \A t \in SUBSET S : t # {} =>
        /\ t \ {Some(t)} \in SUBSET S
        /\ Cardinality(t \ {Some(t)}) = Cardinality(t) - 1
  <2> TAKE t \in SUBSET S
  <2> HAVE t # {}
  <2>1. Some(t) \in t
    BY DEF Some
  <2> QED
    BY <1>1, <2>1, FS_RemoveElement
<1>3. 0 \in N
  <2> DEFINE g == [t \in Upto(0) |-> 0]
  <2>1. \A t \in Upto(0) : t = {}
    BY <1>1, FS_EmptySet
  <2>2. g = [t \in Upto(0) |-> Next(g, t)]
    BY <2>1
  <2> QED
    BY <2>2
<1>4. ASSUME NEW n \in Nat, n \in N PROVE n + 1 \in N
  <2>1. PICK g : g = [t \in Upto(n) |-> Next(g, t)]
    BY <1>4
  <2> DEFINE h == [t \in Upto(n + 1) |-> IF t \in Upto(n) THEN g[t] ELSE Next(g, t)]
  <2>2. \A t \in Upto(n + 1) : t # {} => t \ {Some(t)} \in Upto(n)
    BY <1>1, <1>2
  <2>3. \A t \in Upto(n) : t \in Upto(n + 1)
    BY <1>1
  <2>4. \A t \in Upto(n) : h[t] = g[t]
    BY <2>3
  <2> HIDE DEF Upto
  <2>5. ASSUME NEW t \in Upto(n + 1) PROVE h[t] = Next(h, t)
    <3>1. Next(h, t) = Next(g, t)
      BY <2>2, <2>4
    <3>2. h[t] = Next(g, t)
      <4> HIDE DEF Next
      <4> QED
        BY <2>1
    <3> QED
      BY <3>1, <3>2
  <2>6. h = [t \in Upto(n + 1) |-> Next(h, t)]
    <3> HIDE DEF Next
    <3>1. h = [t \in Upto(n + 1) |-> h[t]]
      OBVIOUS
    <3> HIDE DEF h
    <3> QED
      BY <3>1, <2>5
  <2>7. \E k : k = [t \in Upto(n + 1) |-> Next(k, t)]
    <3> HIDE DEF h, Next
    <3> QED
      BY <2>6
  <2> HIDE DEF Next
  <2> QED
    BY <2>7
<1> HIDE DEF N
<1>5. Cardinality(S) \in N
  BY <1>1, <1>3, <1>4, Induction
<1>6. Upto(Cardinality(S)) = SUBSET S
  BY FS_Subset
<1> QED
  BY <1>5, <1>6 DEF N, Sums

LEMMA SumEmpty ==
    ASSUME NEW f
    PROVE  SumFunctionOnSet(f, {}) = 0
<1> DEFINE it == CHOOSE i : Sums(f, {}, i)
<1>1. Sums(f, {}, it)
  BY SumsExist, FS_EmptySet
<1>2. SumFunctionOnSet(f, {}) = it[{}]
  BY SumIsRecursive
<1> HIDE DEF it
<1> QED
  BY <1>1, <1>2 DEF Sums

LEMMA SumOfPart ==
    ASSUME NEW f, NEW S, IsFiniteSet(S), NEW it, Sums(f, S, it), NEW T \in SUBSET S
    PROVE  it[T] = SumFunctionOnSet(f, T)
<1> DEFINE its == CHOOSE i : Sums(f, T, i)
<1>1. IsFiniteSet(T)
  BY FS_Subset
<1>2. Sums(f, T, its)
  BY <1>1, SumsExist
<1>3. SumFunctionOnSet(f, T) = its[T]
  BY SumIsRecursive
<1> HIDE DEF its
<1> QED
  BY <1>1, <1>2, <1>3, SumsAgree

LEMMA SumNonempty ==
    ASSUME NEW f, NEW S, IsFiniteSet(S), S # {}
    PROVE  /\ Some(S) \in S
           /\ SumFunctionOnSet(f, S) = f[Some(S)] + SumFunctionOnSet(f, S \ {Some(S)})
<1>1. PICK it : Sums(f, S, it)
  BY SumsExist
<1>2. it[S] = f[Some(S)] + it[S \ {Some(S)}]
  BY <1>1 DEF Sums
<1>3. it[S] = SumFunctionOnSet(f, S)
  BY <1>1, SumOfPart
<1>4. it[S \ {Some(S)}] = SumFunctionOnSet(f, S \ {Some(S)})
  <2>1. S \ {Some(S)} \in SUBSET S
    OBVIOUS
  <2> QED
    BY <1>1, <2>1, SumOfPart
<1>5. Some(S) \in S
  BY DEF Some
<1> QED
  BY <1>2, <1>3, <1>4, <1>5

LEMMA SumIsNat ==
    ASSUME NEW S, IsFiniteSet(S), NEW f, \A x \in S : f[x] \in Nat
    PROVE  \A t \in SUBSET S : SumFunctionOnSet(f, t) \in Nat
<1> DEFINE Sum(t) == SumFunctionOnSet(f, t)
           N == {n \in Nat : \A t \in SUBSET S : Cardinality(t) = n => Sum(t) \in Nat}
<1>1. \A t \in SUBSET S : IsFiniteSet(t) /\ Cardinality(t) \in Nat
  BY FS_Subset, FS_CardinalityType
<1>2. 0 \in N
  <2>1. Sum({}) \in Nat
    BY SumEmpty
  <2> HIDE DEF Sum
  <2> QED
    BY <1>1, <2>1, FS_EmptySet
<1>3. ASSUME NEW n \in Nat, n \in N PROVE n + 1 \in N
  <2> SUFFICES ASSUME NEW t \in SUBSET S, Cardinality(t) = n + 1 PROVE Sum(t) \in Nat
    OBVIOUS
  <2> DEFINE y == Some(t)
  <2>1. t # {} /\ \A x \in t : Cardinality(t \ {x}) = n
    BY <1>1, TakenOut
  <2>2. y \in t /\ Sum(t) = f[y] + Sum(t \ {y})
    BY <1>1, <2>1, SumNonempty
  <2> HIDE DEF Sum, y
  <2>3. Sum(t \ {y}) \in Nat
    BY <1>3, <2>1, <2>2
  <2> QED
    BY <2>2, <2>3
<1> HIDE DEF N
<1>4. \A t \in SUBSET S : Cardinality(t) \in N
  BY <1>1, <1>2, <1>3, Induction
<1> QED
  BY <1>4 DEF N

(* It does not matter which of them is added first. *)
LEMMA SumTakesOut ==
    ASSUME NEW S, IsFiniteSet(S), NEW f, \A x \in S : f[x] \in Nat
    PROVE  \A t \in SUBSET S : \A x \in t :
             SumFunctionOnSet(f, t) = f[x] + SumFunctionOnSet(f, t \ {x})
<1> DEFINE Sum(t) == SumFunctionOnSet(f, t)
           Fine(t) == \A x \in t : Sum(t) = f[x] + Sum(t \ {x})
           N == {n \in Nat : \A t \in SUBSET S : Cardinality(t) = n => Fine(t)}
<1>1. \A t \in SUBSET S : IsFiniteSet(t) /\ Cardinality(t) \in Nat
  BY FS_Subset, FS_CardinalityType
<1>2. 0 \in N
  BY <1>1, FS_EmptySet
<1>3. ASSUME NEW n \in Nat, n \in N PROVE n + 1 \in N
  <2> SUFFICES ASSUME NEW t \in SUBSET S, Cardinality(t) = n + 1 PROVE Fine(t)
    BY DEF N
  <2> DEFINE y == Some(t)
  <2>1. t # {} /\ \A x \in t : Cardinality(t \ {x}) = n
    BY <1>1, TakenOut
  <2>2. y \in t /\ Sum(t) = f[y] + Sum(t \ {y})
    BY <1>1, <2>1, SumNonempty
  <2>3. \A u \in SUBSET t : Sum(u) \in Nat
    BY SumIsNat
  <2> HIDE DEF Sum, y
  <2>4. \A x \in t : \A z \in t \ {x} : Sum(t \ {x}) = f[z] + Sum((t \ {x}) \ {z})
    BY <1>3, <2>1
  <2>5. ASSUME NEW x \in t, x # y PROVE Sum(t) = f[x] + Sum(t \ {x})
    <3> DEFINE s == Sum((t \ {x}) \ {y})
    <3>1. (t \ {y}) \ {x} = (t \ {x}) \ {y}
      OBVIOUS
    <3>2. Sum(t \ {y}) = f[x] + s
      BY <2>2, <2>4, <2>5, <3>1
    <3>3. Sum(t \ {x}) = f[y] + s
      BY <2>2, <2>4, <2>5
    <3>4. s \in Nat /\ f[x] \in Nat /\ f[y] \in Nat
      BY <2>2, <2>3
    <3> HIDE DEF s
    <3> QED
      BY <2>2, <3>2, <3>3, <3>4
  <2> QED
    BY <2>2, <2>5
<1> HIDE DEF N
<1>4. \A t \in SUBSET S : Cardinality(t) \in N
  BY <1>1, <1>2, <1>3, Induction
<1> QED
  BY <1>4 DEF N

(* What is added for some of the elements is part of what is added for     *)
(* all.                                                                    *)
LEMMA SumMonotone ==
    ASSUME NEW S, IsFiniteSet(S), NEW f, \A x \in S : f[x] \in Nat, NEW T \in SUBSET S
    PROVE  SumFunctionOnSet(f, T) <= SumFunctionOnSet(f, S)
<1> DEFINE Sum(t) == SumFunctionOnSet(f, t)
           P == {t \in SUBSET (S \ T) : Sum(T) <= Sum(T \cup t)}
<1>1. \A t \in SUBSET S : Sum(t) \in Nat
  BY SumIsNat
<1>2. {} \in P
  BY <1>1
<1>3. ASSUME NEW t \in SUBSET (S \ T), NEW x \in (S \ T) \ t, t \in P PROVE t \cup {x} \in P
  <2>1. Sum(T \cup t \cup {x}) = f[x] + Sum((T \cup t \cup {x}) \ {x})
    <3>1. T \cup t \cup {x} \in SUBSET S /\ x \in T \cup t \cup {x}
      OBVIOUS
    <3> HIDE DEF P
    <3> QED
      BY <3>1, SumTakesOut
  <2> HIDE DEF Sum
  <2>2. (T \cup t \cup {x}) \ {x} = T \cup t /\ T \cup t \cup {x} = T \cup (t \cup {x})
    OBVIOUS
  <2>3. Sum(T \cup (t \cup {x})) = f[x] + Sum(T \cup t)
    BY <2>1, <2>2
  <2>4. f[x] \in Nat /\ Sum(T) \in Nat /\ Sum(T \cup t) \in Nat /\ Sum(T) <= Sum(T \cup t)
    BY <1>1, <1>3
  <2>5. Sum(T) <= Sum(T \cup (t \cup {x}))
    BY <2>3, <2>4
  <2> QED
    BY <2>5
<1>4. IsFiniteSet(S \ T)
  BY FS_Subset
<1> HIDE DEF P
<1>5. S \ T \in P
  BY <1>2, <1>3, <1>4, InductionOnSet
<1>6. T \cup (S \ T) = S
  OBVIOUS
<1> QED
  BY <1>5, <1>6 DEF P

LEMMA SumBounded ==
    ASSUME NEW S, IsFiniteSet(S), NEW f, NEW c \in Nat, \A x \in S : f[x] \in 0 .. c
    PROVE  SumFunctionOnSet(f, S) <= c * Cardinality(S)
<1> DEFINE Sum(t) == SumFunctionOnSet(f, t)
           P == {t \in SUBSET S : Sum(t) <= c * Cardinality(t)}
<1>0. \A x \in S : f[x] \in Nat
  OBVIOUS
<1>1. \A t \in SUBSET S : Sum(t) \in Nat /\ IsFiniteSet(t) /\ Cardinality(t) \in Nat
  BY <1>0, SumIsNat, FS_Subset, FS_CardinalityType
<1>2. {} \in P
  BY SumEmpty, FS_EmptySet
<1>3. ASSUME NEW t \in SUBSET S, NEW x \in S \ t, t \in P PROVE t \cup {x} \in P
  <2>1. Sum(t \cup {x}) = f[x] + Sum((t \cup {x}) \ {x})
    <3>1. t \cup {x} \in SUBSET S /\ x \in t \cup {x}
      OBVIOUS
    <3> HIDE DEF P
    <3> QED
      BY <1>0, <3>1, SumTakesOut
  <2>2. (t \cup {x}) \ {x} = t
    OBVIOUS
  <2>3. Cardinality(t \cup {x}) = Cardinality(t) + 1
    BY <1>1, FS_AddElement
  <2> HIDE DEF Sum
  <2>4. c * (Cardinality(t) + 1) = c * Cardinality(t) + c
    BY <1>1
  <2>5. Sum(t) \in Nat /\ Sum(t) <= c * Cardinality(t) /\ c * Cardinality(t) \in Nat
    BY <1>1, <1>3
  <2>6. Sum(t \cup {x}) <= c * Cardinality(t) + c
    <3> DEFINE m == c * Cardinality(t)
    <3>1. m \in Nat /\ Sum(t) <= m /\ Sum(t) \in Nat /\ f[x] \in 0 .. c
      BY <2>5
    <3>2. Sum(t \cup {x}) = f[x] + Sum(t)
      BY <2>1, <2>2
    <3> HIDE DEF m
    <3>3. Sum(t \cup {x}) <= m + c
      BY <3>1, <3>2
    <3> QED
      BY <3>3 DEF m
  <2> QED
    BY <2>3, <2>4, <2>6
<1> HIDE DEF P
<1>4. S \in P
  BY <1>2, <1>3, InductionOnSet
<1> QED
  BY <1>4 DEF P

-----------------------------------------------------------------------------
(* Selections. *)
AppendIf(A, kept, x) == IF x \in A THEN Append(kept, x) ELSE kept

(* it selects from every part of s, the last place last. *)
Keeps(s, A, it) ==
    it = [t \in SUBSET DOMAIN s |->
            IF t = {} THEN << >> ELSE AppendIf(A, it[t \ {Max(t)}], s[Max(t)])]

LEMMA OnlyIsRecursive ==
    ASSUME NEW s, NEW A
    PROVE  Only(s, A) = (CHOOSE it : Keeps(s, A, it))[DOMAIN s]
BY DEF Only, FoldLeft, MapThenFoldSet, Keeps, AppendIf

LEMMA KeepsExist ==
    ASSUME NEW S, NEW s \in Seq(S), NEW A
    PROVE  \E it : Keeps(s, A, it)
<1> DEFINE D == DOMAIN s
           Upto(n) == {t \in SUBSET D : Cardinality(t) <= n}
           Kept(g, t) == IF t = {} THEN << >> ELSE AppendIf(A, g[t \ {Max(t)}], s[Max(t)])
           N == {n \in Nat : \E g : g = [t \in Upto(n) |-> Kept(g, t)]}
<1>0. D = 1 .. Len(s) /\ Len(s) \in Nat /\ IsFiniteSet(D)
  BY FS_Interval
<1>1. \A t \in SUBSET D : IsFiniteSet(t) /\ Cardinality(t) \in Nat
  BY <1>0, FS_Subset, FS_CardinalityType
<1>2. \A t \in SUBSET D : t # {} =>
        /\ t \ {Max(t)} \in SUBSET D
        /\ Cardinality(t \ {Max(t)}) = Cardinality(t) - 1
  <2> TAKE t \in SUBSET D
  <2> HAVE t # {}
  <2>1. t \in SUBSET Nat /\ \A x \in t : x <= Len(s)
    BY <1>0
  <2>2. Max(t) \in t
    BY <1>0, <2>1, GreatestNatural
  <2> QED
    BY <1>1, <2>2, FS_RemoveElement
<1> HIDE DEF D
<1>3. 0 \in N
  <2> DEFINE g == [t \in Upto(0) |-> << >>]
  <2>1. \A t \in Upto(0) : t = {}
    BY <1>1, FS_EmptySet
  <2>2. g = [t \in Upto(0) |-> Kept(g, t)]
    BY <2>1
  <2> QED
    BY <2>2
<1>4. ASSUME NEW n \in Nat, n \in N PROVE n + 1 \in N
  <2>1. PICK g : g = [t \in Upto(n) |-> Kept(g, t)]
    BY <1>4
  <2> DEFINE h == [t \in Upto(n + 1) |-> IF t \in Upto(n) THEN g[t] ELSE Kept(g, t)]
  <2>2. \A t \in Upto(n + 1) : t # {} => t \ {Max(t)} \in Upto(n)
    BY <1>1, <1>2
  <2>3. \A t \in Upto(n) : t \in Upto(n + 1)
    BY <1>1
  <2>4. \A t \in Upto(n) : h[t] = g[t]
    BY <2>3
  <2> HIDE DEF Upto
  <2>5. ASSUME NEW t \in Upto(n + 1) PROVE h[t] = Kept(h, t)
    <3>1. Kept(h, t) = Kept(g, t)
      <4>1. t # {} => h[t \ {Max(t)}] = g[t \ {Max(t)}]
        BY <2>2, <2>4
      <4> HIDE DEF h
      <4> QED
        BY <4>1
    <3>2. h[t] = Kept(g, t)
      <4> HIDE DEF Kept
      <4> QED
        BY <2>1
    <3> QED
      BY <3>1, <3>2
  <2>6. h = [t \in Upto(n + 1) |-> Kept(h, t)]
    <3> HIDE DEF Kept
    <3>1. h = [t \in Upto(n + 1) |-> h[t]]
      OBVIOUS
    <3> HIDE DEF h
    <3> QED
      BY <3>1, <2>5
  <2>7. \E k : k = [t \in Upto(n + 1) |-> Kept(k, t)]
    <3> HIDE DEF h, Kept
    <3> QED
      BY <2>6
  <2> HIDE DEF Kept
  <2> QED
    BY <2>7
<1> HIDE DEF N
<1>5. Cardinality(D) \in N
  BY <1>0, <1>1, <1>3, <1>4, Induction
<1>6. Upto(Cardinality(D)) = SUBSET D
  BY <1>0, FS_Subset
<1> QED
  BY <1>5, <1>6 DEF N, Keeps, D

(* A selection depends on no more than what it selects from. *)
LEMMA KeepsAgree ==
    ASSUME NEW S, NEW s \in Seq(S), NEW t \in Seq(S), NEW A, NEW a, NEW b,
           Keeps(s, A, a), Keeps(t, A, b),
           NEW n \in Nat, n <= Len(s), n <= Len(t), \A i \in 1 .. n : s[i] = t[i]
    PROVE  a[1 .. n] = b[1 .. n]
<1> DEFINE N == {m \in Nat : m <= n => a[1 .. m] = b[1 .. m]}
<1>1. 0 \in N
  <2>1. 1 .. 0 = {}
    OBVIOUS
  <2>2. a[{}] = << >> /\ b[{}] = << >>
    BY DEF Keeps
  <2> QED
    BY <2>1, <2>2
<1>2. ASSUME NEW m \in Nat, m \in N PROVE m + 1 \in N
  <2> SUFFICES ASSUME m + 1 <= n PROVE a[1 .. m + 1] = b[1 .. m + 1]
    OBVIOUS
  <2>1. Max(1 .. m + 1) = m + 1 /\ (1 .. m + 1) \ {m + 1} = 1 .. m /\ 1 .. m + 1 # {}
    BY LastOfInterval
  <2>2. m + 1 <= Len(s) /\ m + 1 <= Len(t) /\ m + 1 \in 1 .. n
    OBVIOUS
  <2>3. 1 .. m + 1 \in SUBSET DOMAIN s /\ 1 .. m + 1 \in SUBSET DOMAIN t
    <3>1. DOMAIN s = 1 .. Len(s) /\ DOMAIN t = 1 .. Len(t)
      OBVIOUS
    <3>2. \A y \in 1 .. m + 1 : y \in 1 .. Len(s) /\ y \in 1 .. Len(t)
      BY <2>2
    <3> QED
      BY <3>1, <3>2
  <2>4. a[1 .. m + 1] = AppendIf(A, a[1 .. m], s[m + 1])
    BY <2>1, <2>3 DEF Keeps
  <2>5. b[1 .. m + 1] = AppendIf(A, b[1 .. m], t[m + 1])
    BY <2>1, <2>3 DEF Keeps
  <2>6. s[m + 1] = t[m + 1] /\ a[1 .. m] = b[1 .. m]
    BY <1>2, <2>2
  <2> QED
    BY <2>4, <2>5, <2>6
<1> HIDE DEF N
<1>3. n \in N
  BY <1>1, <1>2, Induction
<1> QED
  BY <1>3 DEF N

LEMMA OnlyEmpty ==
    ASSUME NEW A
    PROVE  Only(<< >>, A) = << >>
<1> DEFINE it == CHOOSE i : Keeps(<< >>, A, i)
<1>1. Keeps(<< >>, A, it)
  <2>1. << >> \in Seq({})
    OBVIOUS
  <2> QED
    BY <2>1, KeepsExist
<1>2. Only(<< >>, A) = it[DOMAIN << >>]
  BY OnlyIsRecursive
<1>3. DOMAIN << >> = {}
  OBVIOUS
<1> HIDE DEF it
<1>4. it[{}] = << >>
  BY <1>1 DEF Keeps
<1> QED
  BY <1>2, <1>3, <1>4

LEMMA OnlyAppend ==
    ASSUME NEW S, NEW s \in Seq(S), NEW x \in S, NEW A
    PROVE  Only(Append(s, x), A) = AppendIf(A, Only(s, A), x)
<1> DEFINE t == Append(s, x)
           a == CHOOSE i : Keeps(s, A, i)
           b == CHOOSE i : Keeps(t, A, i)
<1>0. t \in Seq(S) /\ Len(t) = Len(s) + 1 /\ t[Len(s) + 1] = x /\ \A i \in 1 .. Len(s) : t[i] = s[i]
  OBVIOUS
<1>1. Keeps(s, A, a) /\ Only(s, A) = a[DOMAIN s]
  BY KeepsExist, OnlyIsRecursive
<1>2. Keeps(t, A, b) /\ Only(t, A) = b[DOMAIN t]
  BY <1>0, KeepsExist, OnlyIsRecursive
<1> HIDE DEF a, b, t
<1> DEFINE n == Len(s)
<1>3. n \in Nat /\ DOMAIN s = 1 .. n /\ DOMAIN t = 1 .. n + 1
  BY <1>0
<1>4. a[1 .. n] = b[1 .. n]
  BY <1>0, <1>1, <1>2, <1>3, KeepsAgree
<1>5. Max(1 .. n + 1) = n + 1 /\ (1 .. n + 1) \ {n + 1} = 1 .. n /\ 1 .. n + 1 # {}
  BY <1>3, LastOfInterval
<1>6. 1 .. n + 1 \in SUBSET DOMAIN t
  BY <1>3
<1> HIDE DEF n
<1>7. b[1 .. n + 1] = AppendIf(A, b[1 .. n], t[n + 1])
  BY <1>2, <1>5, <1>6 DEF Keeps
<1>8. t[n + 1] = x
  BY <1>0 DEF n
<1> QED
  BY <1>1, <1>2, <1>3, <1>4, <1>7, <1>8 DEF t

LEMMA AppendFacts ==
    ASSUME NEW S, NEW s \in Seq(S), NEW x \in S
    PROVE  /\ Append(s, x) \in Seq(S)
           /\ ToSet(Append(s, x)) = ToSet(s) \cup {x}
<1>1. Append(s, x) \in Seq(S)
  OBVIOUS
<1>2. \A i \in DOMAIN s : i \in DOMAIN Append(s, x) /\ Append(s, x)[i] = s[i]
  OBVIOUS
<1>3. Len(s) + 1 \in DOMAIN Append(s, x) /\ Append(s, x)[Len(s) + 1] = x
  OBVIOUS
<1>4. \A i \in DOMAIN Append(s, x) : i \in DOMAIN s \/ i = Len(s) + 1
  OBVIOUS
<1>5. ToSet(Append(s, x)) = ToSet(s) \cup {x}
  <2> DEFINE t == Append(s, x)
             l == Len(s) + 1
  <2>1. \A i \in DOMAIN s : i \in DOMAIN t /\ t[i] = s[i]
    BY <1>2
  <2>2. l \in DOMAIN t /\ t[l] = x /\ \A i \in DOMAIN t : i \in DOMAIN s \/ i = l
    BY <1>3, <1>4
  <2> HIDE DEF t, l
  <2>3. ToSet(t) = ToSet(s) \cup {x}
    BY <2>1, <2>2 DEF ToSet
  <2> QED
    BY <2>3 DEF t
<1> QED
  BY <1>1, <1>5

(* What is selected is what is in both. *)
LEMMA OnlyIsSeq ==
    ASSUME NEW S, NEW A
    PROVE  \A s \in Seq(S) : /\ Only(s, A) \in Seq(S)
                             /\ ToSet(Only(s, A)) = ToSet(s) \cap A
<1> DEFINE P == {s \in Seq(S) : Only(s, A) \in Seq(S) /\ ToSet(Only(s, A)) = ToSet(s) \cap A}
<1>1. << >> \in P
  <2>1. << >> \in Seq(S) /\ ToSet(<< >>) = {}
    BY DEF ToSet
  <2> QED
    BY <2>1, OnlyEmpty
<1>2. ASSUME NEW s \in Seq(S), NEW x \in S, s \in P PROVE Append(s, x) \in P
  <2>1. Only(Append(s, x), A) = AppendIf(A, Only(s, A), x)
    BY OnlyAppend
  <2>2. Append(s, x) \in Seq(S) /\ ToSet(Append(s, x)) = ToSet(s) \cup {x}
    BY AppendFacts
  <2>3. Only(s, A) \in Seq(S) /\ ToSet(Only(s, A)) = ToSet(s) \cap A
    BY <1>2
  <2>4. CASE x \in A
    <3>1. /\ Append(Only(s, A), x) \in Seq(S)
          /\ ToSet(Append(Only(s, A), x)) = (ToSet(s) \cap A) \cup {x}
      BY <2>3, AppendFacts
    <3>2. Only(Append(s, x), A) = Append(Only(s, A), x)
      BY <2>1, <2>4 DEF AppendIf
    <3> HIDE DEF Only
    <3> QED
      BY <2>2, <2>4, <3>1, <3>2
  <2>5. CASE x \notin A
    <3>1. Only(Append(s, x), A) = Only(s, A)
      BY <2>1, <2>5 DEF AppendIf
    <3> QED
      BY <2>2, <2>3, <2>5, <3>1
  <2> QED
    BY <2>4, <2>5
<1> HIDE DEF P
<1>3. \A s \in Seq(S) : s \in P
  BY <1>1, <1>2, InductionOnSeq
<1> QED
  BY <1>3 DEF P

LEMMA AppendToConcat ==
    ASSUME NEW S, NEW x \in S, NEW s \in Seq(S), NEW t \in Seq(S)
    PROVE  Append(s \o t, x) = s \o Append(t, x)
  OBVIOUS

LEMMA OnlyConcat ==
    ASSUME NEW S, NEW A
    PROVE  \A s, t \in Seq(S) : Only(s \o t, A) = Only(s, A) \o Only(t, A)
<1> TAKE s \in Seq(S)
<1> DEFINE P == {t \in Seq(S) : Only(s \o t, A) = Only(s, A) \o Only(t, A)}
<1>0. \A t \in Seq(S) : Only(t, A) \in Seq(S)
  BY OnlyIsSeq
<1>1. << >> \in P
  <2>1. << >> \in Seq(S) /\ s \o << >> = s /\ Only(s, A) \o << >> = Only(s, A)
    BY <1>0
  <2> QED
    BY <2>1, OnlyEmpty
<1>2. ASSUME NEW t \in Seq(S), NEW x \in S, t \in P PROVE Append(t, x) \in P
  <2>1. s \o Append(t, x) = Append(s \o t, x) /\ s \o t \in Seq(S) /\ Append(t, x) \in Seq(S)
    OBVIOUS
  <2>2. Only(Append(s \o t, x), A) = AppendIf(A, Only(s \o t, A), x)
    BY <2>1, OnlyAppend
  <2>3. Only(Append(t, x), A) = AppendIf(A, Only(t, A), x)
    BY OnlyAppend
  <2>4. Only(s \o t, A) = Only(s, A) \o Only(t, A)
    BY <1>2
  <2>5. Append(Only(s, A) \o Only(t, A), x) = Only(s, A) \o Append(Only(t, A), x)
    <3>1. Only(s, A) \in Seq(S) /\ Only(t, A) \in Seq(S)
      BY <1>0
    <3> HIDE DEF P
    <3> QED
      <4>1. ASSUME NEW u \in Seq(S), NEW v \in Seq(S)
            PROVE  Append(u \o v, x) = u \o Append(v, x)
        BY AppendToConcat, Zenon
      <4> HIDE DEF Only
      <4> QED
        BY <3>1, <4>1, Zenon
  <2>6. AppendIf(A, Only(s, A) \o Only(t, A), x) = Only(s, A) \o AppendIf(A, Only(t, A), x)
    BY <2>5 DEF AppendIf
  <2> QED
    BY <2>1, <2>2, <2>3, <2>4, <2>6
<1> HIDE DEF P
<1>3. \A t \in Seq(S) : t \in P
  BY <1>1, <1>2, InductionOnSeq
<1> QED
  BY <1>3 DEF P

LEMMA OnlyOnly ==
    ASSUME NEW S, NEW A, NEW B
    PROVE  \A s \in Seq(S) : Only(Only(s, A), B) = Only(s, A \cap B)
<1> DEFINE P == {s \in Seq(S) : Only(Only(s, A), B) = Only(s, A \cap B)}
<1>1. << >> \in P
  <2>1. << >> \in Seq(S)
    OBVIOUS
  <2> QED
    BY <2>1, OnlyEmpty
<1>2. ASSUME NEW s \in Seq(S), NEW x \in S, s \in P PROVE Append(s, x) \in P
  <2>1. Only(Append(s, x), A) = AppendIf(A, Only(s, A), x)
    BY OnlyAppend
  <2>2. Only(Append(s, x), A \cap B) = AppendIf(A \cap B, Only(s, A \cap B), x)
    BY OnlyAppend
  <2>3. Only(Append(Only(s, A), x), B) = AppendIf(B, Only(Only(s, A), B), x)
    <3>1. Only(s, A) \in Seq(S)
      BY OnlyIsSeq
    <3> QED
      BY <3>1, OnlyAppend
  <2>4. Only(Only(s, A), B) = Only(s, A \cap B) /\ Append(s, x) \in Seq(S)
    BY <1>2
  <2>5. Only(Only(Append(s, x), A), B) = Only(Append(s, x), A \cap B)
    <3>1. CASE x \in A
      <4>1. Only(Only(Append(s, x), A), B) = AppendIf(B, Only(s, A \cap B), x)
        BY <2>1, <2>3, <2>4, <3>1 DEF AppendIf
      <4>2. AppendIf(B, Only(s, A \cap B), x) = AppendIf(A \cap B, Only(s, A \cap B), x)
        BY <3>1 DEF AppendIf
      <4> QED
        BY <2>2, <4>1, <4>2
    <3>2. CASE x \notin A
      BY <2>1, <2>2, <2>4, <3>2 DEF AppendIf
    <3> QED
      BY <3>1, <3>2
  <2> QED
    BY <2>4, <2>5
<1> HIDE DEF P
<1>3. \A s \in Seq(S) : s \in P
  BY <1>1, <1>2, InductionOnSeq
<1> QED
  BY <1>3 DEF P

LEMMA OnlyAll ==
    ASSUME NEW S
    PROVE  \A s \in Seq(S) : Only(s, S) = s
<1> DEFINE P == {s \in Seq(S) : Only(s, S) = s}
<1>1. << >> \in P
  <2>1. << >> \in Seq(S)
    OBVIOUS
  <2> QED
    BY <2>1, OnlyEmpty
<1>2. ASSUME NEW s \in Seq(S), NEW x \in S, s \in P PROVE Append(s, x) \in P
  <2>1. Only(Append(s, x), S) = AppendIf(S, Only(s, S), x)
    BY OnlyAppend
  <2> QED
    BY <1>2, <2>1 DEF AppendIf
<1> HIDE DEF P
<1>3. \A s \in Seq(S) : s \in P
  BY <1>1, <1>2, InductionOnSeq
<1> QED
  BY <1>3 DEF P

LEMMA OnlyNone ==
    ASSUME NEW S
    PROVE  \A s \in Seq(S) : Only(s, {}) = << >>
<1> DEFINE P == {s \in Seq(S) : Only(s, {}) = << >>}
<1>1. << >> \in P
  <2>1. << >> \in Seq(S)
    OBVIOUS
  <2> QED
    BY <2>1, OnlyEmpty
<1>2. ASSUME NEW s \in Seq(S), NEW x \in S, s \in P PROVE Append(s, x) \in P
  <2>1. Only(Append(s, x), {}) = AppendIf({}, Only(s, {}), x)
    BY OnlyAppend
  <2> QED
    BY <1>2, <2>1 DEF AppendIf
<1> HIDE DEF P
<1>3. \A s \in Seq(S) : s \in P
  BY <1>1, <1>2, InductionOnSeq
<1> QED
  BY <1>3 DEF P

(* Only what occurs in the sequence matters. *)
LEMMA OnlyThoseIn ==
    ASSUME NEW S, NEW s \in Seq(S), NEW A, NEW B, ToSet(s) \cap A = ToSet(s) \cap B
    PROVE  Only(s, A) = Only(s, B)
<1> DEFINE E == ToSet(s)
<1>1. s \in Seq(E)
  BY DEF ToSet
<1> HIDE DEF E
<1>2. Only(s, E) = s
  BY <1>1, OnlyAll
<1>3. Only(Only(s, E), A) = Only(s, E \cap A) /\ Only(Only(s, E), B) = Only(s, E \cap B)
  BY OnlyOnly
<1> QED
  BY <1>2, <1>3 DEF E

(* As many as there are places that hold one. *)
LEMMA OnlyCounts ==
    ASSUME NEW S, NEW A
    PROVE  \A s \in Seq(S) : Len(Only(s, A)) = Cardinality({k \in DOMAIN s : s[k] \in A})
<1> DEFINE At(s) == {k \in DOMAIN s : s[k] \in A}
           P == {s \in Seq(S) : Len(Only(s, A)) = Cardinality(At(s))}
<1>1. << >> \in P
  <2>1. << >> \in Seq(S) /\ At(<< >>) = {} /\ Len(<< >>) = 0
    OBVIOUS
  <2> QED
    BY <2>1, OnlyEmpty, FS_EmptySet
<1>2. ASSUME NEW s \in Seq(S), NEW x \in S, s \in P PROVE Append(s, x) \in P
  <2> DEFINE n == Len(s) + 1
  <2>0. IsFiniteSet(At(s)) /\ n \notin At(s)
    <3>1. IsFiniteSet(1 .. Len(s)) /\ At(s) \in SUBSET (1 .. Len(s))
      BY FS_Interval
    <3>2. n \notin 1 .. Len(s)
      OBVIOUS
    <3> QED
      BY <3>1, <3>2, FS_Subset
  <2>1. Only(Append(s, x), A) = AppendIf(A, Only(s, A), x) /\ Only(s, A) \in Seq(S)
    BY OnlyAppend, OnlyIsSeq
  <2>2. At(Append(s, x)) = IF x \in A THEN At(s) \cup {n} ELSE At(s)
    <3> DEFINE t == Append(s, x)
    <3>1. /\ \A k \in DOMAIN s : k \in DOMAIN t /\ t[k] = s[k]
          /\ n \in DOMAIN t /\ t[n] = x
          /\ \A k \in DOMAIN t : k \in DOMAIN s \/ k = n
      OBVIOUS
    <3> HIDE DEF t, n
    <3>2. {k \in DOMAIN t : t[k] \in A} = IF x \in A THEN At(s) \cup {n} ELSE At(s)
      BY <3>1
    <3> QED
      BY <3>2 DEF t
  <2> HIDE DEF At
  <2>3. Len(Only(s, A)) = Cardinality(At(s)) /\ Append(s, x) \in Seq(S)
    BY <1>2
  <2>4. CASE x \in A
    <3>1. Len(Append(Only(s, A), x)) = Len(Only(s, A)) + 1
      BY <2>1
    <3>2. Cardinality(At(s) \cup {n}) = Cardinality(At(s)) + 1
      BY <2>0, FS_AddElement
    <3> HIDE DEF n
    <3> QED
      BY <2>1, <2>2, <2>3, <2>4, <3>1, <3>2 DEF AppendIf
  <2>5. CASE x \notin A
    BY <2>1, <2>2, <2>3, <2>5 DEF AppendIf
  <2> QED
    BY <2>4, <2>5
<1> HIDE DEF P
<1>3. \A s \in Seq(S) : s \in P
  BY <1>1, <1>2, InductionOnSeq
<1> QED
  BY <1>3 DEF P

LEMMA OnlySplits ==
    ASSUME NEW S, NEW A, NEW B, A \cap B = {}
    PROVE  \A s \in Seq(S) : Len(Only(s, A \cup B)) = Len(Only(s, A)) + Len(Only(s, B))
<1> TAKE s \in Seq(S)
<1> DEFINE At(C) == {k \in DOMAIN s : s[k] \in C}
<1>1. \A C : Len(Only(s, C)) = Cardinality(At(C))
  BY OnlyCounts
<1>2. At(A \cup B) = At(A) \cup At(B) /\ At(A) \cap At(B) = {}
  OBVIOUS
<1>3. IsFiniteSet(DOMAIN s)
  BY FS_Interval
<1>4. \A C : IsFiniteSet(At(C)) /\ Cardinality(At(C)) \in Nat
  <2>1. \A C : At(C) \in SUBSET DOMAIN s
    OBVIOUS
  <2> QED
    BY <1>3, <2>1, FS_Subset, FS_CardinalityType
<1> HIDE DEF At
<1>5. Cardinality(At(A) \cup At(B))
        = Cardinality(At(A)) + Cardinality(At(B)) - Cardinality(At(A) \cap At(B))
  BY <1>4, FS_Union
<1>6. Cardinality(At(A \cup B)) = Cardinality(At(A)) + Cardinality(At(B))
  <2> DEFINE c == Cardinality(At(A))
             d == Cardinality(At(B))
  <2>1. c \in Nat /\ d \in Nat
    BY <1>4
  <2>2. Cardinality(At(A \cup B)) = c + d - Cardinality({})
    BY <1>2, <1>5
  <2>3. Cardinality({}) = 0
    BY FS_EmptySet
  <2> HIDE DEF c, d
  <2>4. Cardinality(At(A \cup B)) = c + d
    BY <2>1, <2>2, <2>3
  <2> QED
    BY <2>4 DEF c, d
<1> QED
  BY <1>1, <1>6

-----------------------------------------------------------------------------
(* Stable partitions. *)
LEMMA ConcatenatedSet ==
    ASSUME NEW S, NEW s \in Seq(S), NEW t \in Seq(S)
    PROVE  s \o t \in Seq(S) /\ ToSet(s \o t) = ToSet(s) \cup ToSet(t)
<1> DEFINE c == s \o t
           n == Len(s)
<1>1. c \in Seq(S)
  OBVIOUS
<1>2. /\ \A i \in DOMAIN s : i \in DOMAIN c /\ c[i] = s[i]
      /\ \A i \in DOMAIN t : n + i \in DOMAIN c /\ c[n + i] = t[i]
  OBVIOUS
<1>3. \A i \in DOMAIN c : i \in DOMAIN s \/ (i - n \in DOMAIN t /\ n + (i - n) = i)
  OBVIOUS
<1> HIDE DEF c, n
<1>4. ToSet(c) \subseteq ToSet(s) \cup ToSet(t)
  BY <1>2, <1>3 DEF ToSet
<1>5. ToSet(s) \cup ToSet(t) \subseteq ToSet(c)
  BY <1>2 DEF ToSet
<1> QED
  BY <1>1, <1>4, <1>5 DEF c

LEMMA PartitionIsSeq ==
    ASSUME NEW S, NEW s \in Seq(S), NEW M
    PROVE  /\ StablePartition(s, M) \in Seq(S)
           /\ ToSet(StablePartition(s, M)) = ToSet(s)
<1> DEFINE a == Only(s, M)
           b == Only(s, ToSet(s) \ M)
<1>1. a \in Seq(S) /\ ToSet(a) = ToSet(s) \cap M
  BY OnlyIsSeq
<1>2. b \in Seq(S) /\ ToSet(b) = ToSet(s) \cap (ToSet(s) \ M)
  BY OnlyIsSeq
<1> HIDE DEF a, b
<1>3. a \o b \in Seq(S) /\ ToSet(a \o b) = ToSet(a) \cup ToSet(b)
  BY <1>1, <1>2, ConcatenatedSet
<1>4. ToSet(a \o b) = ToSet(s)
  BY <1>1, <1>2, <1>3
<1> QED
  BY <1>3, <1>4 DEF StablePartition, a, b

(* What is selected after partitioning: first of M, then of the others.    *)
LEMMA OnlyOfPartition ==
    ASSUME NEW S, NEW s \in Seq(S), NEW M, NEW B
    PROVE  Only(StablePartition(s, M), B) = Only(s, M \cap B) \o Only(s, B \ M)
<1> DEFINE O == ToSet(s) \ M
<1>1. Only(s, M) \in Seq(S) /\ Only(s, O) \in Seq(S)
  BY OnlyIsSeq
<1>2. Only(StablePartition(s, M), B) = Only(Only(s, M), B) \o Only(Only(s, O), B)
  <2> HIDE DEF O
  <2>1. Only(Only(s, M) \o Only(s, O), B) = Only(Only(s, M), B) \o Only(Only(s, O), B)
    <3>1. \A u, v \in Seq(S) : Only(u \o v, B) = Only(u, B) \o Only(v, B)
      BY OnlyConcat
    <3> QED
      BY <1>1, <3>1, Zenon
  <2> QED
    BY <2>1 DEF StablePartition, O
<1>3. Only(Only(s, M), B) = Only(s, M \cap B) /\ Only(Only(s, O), B) = Only(s, O \cap B)
  BY OnlyOnly
<1>4. ToSet(s) \cap (O \cap B) = ToSet(s) \cap (B \ M)
  OBVIOUS
<1>5. Only(s, O \cap B) = Only(s, B \ M)
  BY <1>4, OnlyThoseIn
<1> QED
  BY <1>2, <1>3, <1>5

(* Partitioning changes neither how many there are of a kind,              *)
LEMMA PartitionCounts ==
    ASSUME NEW S, NEW s \in Seq(S), NEW M, NEW B
    PROVE  Len(Only(StablePartition(s, M), B)) = Len(Only(s, B))
<1>1. Only(StablePartition(s, M), B) = Only(s, M \cap B) \o Only(s, B \ M)
  BY OnlyOfPartition
<1>2. Only(s, M \cap B) \in Seq(S) /\ Only(s, B \ M) \in Seq(S)
  BY OnlyIsSeq
<1>3. Len(Only(s, M \cap B) \o Only(s, B \ M)) = Len(Only(s, M \cap B)) + Len(Only(s, B \ M))
  BY <1>2
<1>4. Len(Only(s, (M \cap B) \cup (B \ M))) = Len(Only(s, M \cap B)) + Len(Only(s, B \ M))
  <2> DEFINE C == M \cap B
             D == B \ M
  <2>1. C \cap D = {}
    OBVIOUS
  <2> HIDE DEF C, D
  <2>2. Len(Only(s, C \cup D)) = Len(Only(s, C)) + Len(Only(s, D))
    BY <2>1, OnlySplits
  <2> QED
    BY <2>2 DEF C, D
<1>5. (M \cap B) \cup (B \ M) = B
  OBVIOUS
<1> QED
  BY <1>1, <1>3, <1>4, <1>5

(* nor the order of those that it takes together.                          *)
LEMMA PartitionKeepsOrder ==
    ASSUME NEW S, NEW s \in Seq(S), NEW M, NEW B, ToSet(s) \cap B \subseteq M
    PROVE  Only(StablePartition(s, M), B) = Only(s, B)
<1>1. Only(StablePartition(s, M), B) = Only(s, M \cap B) \o Only(s, B \ M)
  BY OnlyOfPartition
<1>2. Only(s, B \ M) = Only(s, {}) /\ Only(s, M \cap B) = Only(s, B)
  <2>1. ToSet(s) \cap (B \ M) = ToSet(s) \cap {} /\ ToSet(s) \cap (M \cap B) = ToSet(s) \cap B
    OBVIOUS
  <2> QED
    BY <2>1, OnlyThoseIn
<1>3. Only(s, {}) = << >> /\ Only(s, B) \in Seq(S)
  BY OnlyNone, OnlyIsSeq
<1>4. Only(s, B) \o << >> = Only(s, B)
  BY <1>3
<1> QED
  BY <1>1, <1>2, <1>3, <1>4

(* Partitioning again changes nothing. *)
LEMMA PartitionTwice ==
    ASSUME NEW S, NEW s \in Seq(S), NEW M
    PROVE  StablePartition(StablePartition(s, M), M) = StablePartition(s, M)
<1> DEFINE p == StablePartition(s, M)
           E == ToSet(s)
<1>1. p \in Seq(S) /\ ToSet(p) = E
  BY PartitionIsSeq
<1>2. Only(p, M) = Only(s, M)
  BY PartitionKeepsOrder
<1>3. Only(p, E \ M) = Only(s, E \ M)
  <2>1. Only(p, E \ M) = Only(s, M \cap (E \ M)) \o Only(s, (E \ M) \ M)
    BY OnlyOfPartition
  <2>2. M \cap (E \ M) = {} /\ (E \ M) \ M = E \ M
    OBVIOUS
  <2> HIDE DEF E
  <2>3. Only(s, {}) = << >> /\ Only(s, E \ M) \in Seq(S)
    BY OnlyNone, OnlyIsSeq
  <2>4. << >> \o Only(s, E \ M) = Only(s, E \ M)
    BY <2>3
  <2> QED
    BY <2>1, <2>2, <2>3, <2>4
<1> QED
  BY <1>1, <1>2, <1>3 DEF StablePartition

(* Nothing is lost, added or repeated, whatever of the elements is looked  *)
(* at.                                                                     *)
LEMMA PartitionSameBag ==
    ASSUME NEW S, NEW s \in Seq(S), NEW M, NEW f
    PROVE  LET p == StablePartition(s, M)
           IN  ToBag([k \in DOMAIN p |-> f[p[k]]]) = ToBag([k \in DOMAIN s |-> f[s[k]]])
<1> DEFINE p == StablePartition(s, M)
           Seen(t) == [k \in DOMAIN t |-> f[t[k]]]
           At(t, x) == {k \in DOMAIN Seen(t) : Seen(t)[k] = x}
<1>1. p \in Seq(S) /\ ToSet(p) = ToSet(s)
  BY PartitionIsSeq
<1>2. \A x : Len(Only(p, {y \in S : f[y] = x})) = Len(Only(s, {y \in S : f[y] = x}))
  <2> TAKE x
  <2> DEFINE A == {y \in S : f[y] = x}
  <2> HIDE DEF A
  <2>1. Len(Only(p, A)) = Len(Only(s, A))
    BY PartitionCounts
  <2> QED
    BY <2>1 DEF A
<1> HIDE DEF p
<1>3. ASSUME NEW t \in Seq(S), NEW x
      PROVE  Cardinality(At(t, x)) = Len(Only(t, {y \in S : f[y] = x}))
  <2> DEFINE A == {y \in S : f[y] = x}
  <2>1. At(t, x) = {k \in DOMAIN t : t[k] \in A}
    OBVIOUS
  <2> HIDE DEF A, At
  <2>2. Len(Only(t, A)) = Cardinality({k \in DOMAIN t : t[k] \in A})
    BY OnlyCounts
  <2> QED
    BY <2>1, <2>2 DEF A
<1>4. Range(Seen(p)) = Range(Seen(s))
  <2>1. \A t : Range(Seen(t)) = {f[y] : y \in ToSet(t)}
    BY DEF Range, ToSet
  <2> QED
    BY <1>1, <2>1
<1>5. \A x : Cardinality(At(p, x)) = Cardinality(At(s, x))
  <2> TAKE x
  <2>1. Cardinality(At(p, x)) = Len(Only(p, {y \in S : f[y] = x}))
    BY <1>1, <1>3
  <2>2. Cardinality(At(s, x)) = Len(Only(s, {y \in S : f[y] = x}))
    BY <1>3
  <2> HIDE DEF At
  <2> QED
    BY <1>2, <2>1, <2>2
<1>6. \A t : ToBag(Seen(t)) = [x \in Range(Seen(t)) |-> Cardinality(At(t, x))]
  BY DEF ToBag
<1>7. ToBag(Seen(p)) = ToBag(Seen(s))
  <2> HIDE DEF Seen, At
  <2> QED
    BY <1>4, <1>5, <1>6
<1> QED
  BY <1>7 DEF p
=============================================================================
