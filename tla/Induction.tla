----------------------------- MODULE Induction -----------------------------
(***************************************************************************)
(* Induction in first-order form.  The induction theorems of the library   *)
(* take a predicate as a parameter, which needs a higher-order prover;     *)
(* here the predicate is the set of the numbers that have it, and the      *)
(* principle is proved from a fact about finite sets: an injection of a    *)
(* set into itself less one element would make it smaller than it is.      *)
(*                                                                         *)
(* From it, that a recursion over a sequence defines what it says, and     *)
(* what FlattenSeq computes, element by element and place by place.        *)
(***************************************************************************)
EXTENDS Integers, Sequences, SequencesExt, FiniteSetTheorems, FunctionTheorems, SequenceTheorems,
        TLAPS

(* A set that holds 0 and with each number the next holds all of them.     *)
THEOREM SetInduction ==
    ASSUME NEW S, 0 \in S, \A m \in Nat : m \in S => m + 1 \in S
    PROVE  Nat \subseteq S
<1> SUFFICES ASSUME NEW n \in Nat, n \notin S PROVE FALSE
  OBVIOUS
<1> DEFINE A == {m \in 0..n : m \in S}
           B == A \ {0}
           up == [m \in A |-> m + 1]
<1>1. IsFiniteSet(A) /\ IsFiniteSet(B)
  <2>1. IsFiniteSet(0..n)
    BY FS_Interval
  <2>2. A \in SUBSET (0..n) /\ B \in SUBSET (0..n)
    OBVIOUS
  <2> QED BY <2>1, <2>2, FS_Subset
<1>2. up \in [A -> B]
  <2>1. ASSUME NEW m \in A PROVE m + 1 \in B
    <3>1. m \in Nat /\ m <= n /\ m # n /\ m \in S
      OBVIOUS
    <3> QED BY <3>1
  <2> QED BY <2>1
<1>3. \A x, y \in A : up[x] = up[y] => x = y
  OBVIOUS
<1>4. up \in Injection(A, B)
  BY <1>2, <1>3 DEF Injection, IsInjective
<1>5. Cardinality(A) <= Cardinality(B)
  BY <1>1, <1>4, FS_Injection
<1>6. 0 \in A
  OBVIOUS
<1>7. Cardinality(B) = Cardinality(A) - 1 /\ Cardinality(A) \in Nat
  BY <1>1, <1>6, FS_RemoveElement, FS_CardinalityType
<1> QED BY <1>5, <1>7

(* A non-empty set of naturals has a least element.                        *)
THEOREM LeastExists ==
    ASSUME NEW S, S \subseteq Nat, S # {}
    PROVE  \E i \in S : \A j \in S : i <= j
<1> DEFINE T == {m \in Nat : (\E j \in S : j <= m) => \E i \in S : \A j \in S : i <= j}
<1>1. 0 \in T
  OBVIOUS
<1>2. \A m \in Nat : m \in T => m + 1 \in T
  <2> SUFFICES ASSUME NEW m \in Nat, m \in T, NEW n \in S, n <= m + 1
               PROVE  \E i \in S : \A j \in S : i <= j
    OBVIOUS
  <2>1. CASE \E j \in S : j <= m
    BY <2>1
  <2>2. CASE ~\E j \in S : j <= m
    <3>1. \A j \in S : j \in Nat /\ ~(j <= m)
      BY <2>2
    <3>2. n \in Nat /\ \A j \in S : n <= j
      BY <3>1
    <3> QED BY <3>2
  <2> QED BY <2>1, <2>2
<1>3. Nat \subseteq T
  <2> HIDE DEF T
  <2> QED BY <1>1, <1>2, SetInduction
<1>4. PICK n \in S : n \in Nat
  OBVIOUS
<1> QED BY <1>3, <1>4

(* Up to a bound only. *)
THEOREM BoundedInduction ==
    ASSUME NEW n \in Nat, NEW S, 0 \in S, \A m \in 1..n : m - 1 \in S => m \in S
    PROVE  0..n \subseteq S
<1> DEFINE T == {m \in Nat : m <= n => m \in S}
<1>1. 0 \in T
  OBVIOUS
<1>2. \A m \in Nat : m \in T => m + 1 \in T
  <2> SUFFICES ASSUME NEW m \in Nat, m \in T, m + 1 <= n PROVE m + 1 \in S
    OBVIOUS
  <2>1. m \in S /\ m + 1 \in 1..n /\ (m + 1) - 1 = m
    OBVIOUS
  <2> QED BY <2>1
<1>3. Nat \subseteq T
  <2> HIDE DEF T
  <2> QED BY <1>1, <1>2, SetInduction
<1> QED BY <1>3

(* A recursion that starts with base and takes step[<<v, i>>] from v to    *)
(* the i-th value stays in V, and f is its course.                         *)
StaysIn(V, n, base, step) == base \in V /\ \A v \in V, i \in 1..n : step[<<v, i>>] \in V

Course(f, V, n, base, step) ==
    f \in [0..n -> V] /\ f[0] = base /\ \A i \in 1..n : f[i] = step[<<f[i - 1], i>>]

(* There is one.                                                           *)
THEOREM Recursion ==
    ASSUME NEW n \in Nat, NEW V, NEW base, NEW step, StaysIn(V, n, base, step)
    PROVE  \E f : Course(f, V, n, base, step)
<1> USE DEF StaysIn, Course
<1> DEFINE Solves(f, m) == f[0] = base /\ \A i \in 1..m : f[i] = step[<<f[i - 1], i>>]
           Solvable(m) == \E f \in [0..m -> V] : Solves(f, m)
           S == {m \in 0..n : Solvable(m)}
<1>1. Solvable(0)
  <2> DEFINE f == [i \in 0..0 |-> base]
  <2>1. f \in [0..0 -> V] /\ f[0] = base /\ 1..0 = {}
    OBVIOUS
  <2>2. Solves(f, 0)
    BY <2>1
  <2> HIDE DEF f, Solves
  <2> QED BY <2>1, <2>2
<1>2. ASSUME NEW m \in 1..n, Solvable(m - 1) PROVE Solvable(m)
  <2>1. PICK f \in [0..(m - 1) -> V] : Solves(f, m - 1)
    BY <1>2
  <2> DEFINE g == [i \in 0..m |-> IF i = m THEN step[<<f[m - 1], m>>] ELSE f[i]]
  <2>2. f[m - 1] \in V /\ step[<<f[m - 1], m>>] \in V
    OBVIOUS
  <2>3. g \in [0..m -> V]
    BY <2>2
  <2>4. Solves(g, m)
    <3>1. g[0] = base
      BY <2>1
    <3>2. ASSUME NEW i \in 1..m PROVE g[i] = step[<<g[i - 1], i>>]
      <4>0. i \in 0..m /\ i - 1 \in 0..m /\ i - 1 # m
        OBVIOUS
      <4>1. g[i - 1] = f[i - 1]
        BY <4>0
      <4>2. CASE i = m
        <5>1. g[i] = step[<<f[m - 1], m>>]
          BY <4>0, <4>2
        <5> QED BY <4>1, <4>2, <5>1
      <4>3. CASE i # m
        <5>1. g[i] = f[i] /\ i \in 1..(m - 1)
          BY <4>0, <4>3
        <5>2. f[i] = step[<<f[i - 1], i>>]
          BY <2>1, <5>1
        <5> QED BY <4>1, <5>1, <5>2
      <4> QED BY <4>2, <4>3
    <3> QED BY <3>1, <3>2
  <2> HIDE DEF g, Solves
  <2> QED BY <2>3, <2>4
<1>3. 0..n \subseteq S
  <2>1. 0 \in S /\ \A m \in 1..n : m - 1 \in S => m \in S
    <3> HIDE DEF Solvable
    <3> QED BY <1>1, <1>2
  <2> HIDE DEF S
  <2> QED BY <2>1, BoundedInduction
<1> QED BY <1>3
-----------------------------------------------------------------------------
(* FlattenSeq, as the recursion it is.                                     *)
LEMMA FlattenRecursion ==
    ASSUME NEW S, NEW ss \in Seq(Seq(S)), ss # <<>>
    PROVE  \E f \in [1..Len(ss) -> Seq(S)] :
              /\ f[1] = ss[1]
              /\ \A i \in 2..Len(ss) : f[i] = f[i - 1] \o ss[i]
              /\ FlattenSeq(ss) = f[Len(ss)]
<1> SUFFICES ASSUME NEW n \in Nat \ {0}, n = Len(ss)
             PROVE  \E f \in [1..n -> Seq(S)] :
                      /\ f[1] = ss[1]
                      /\ \A i \in 2..n : f[i] = f[i - 1] \o ss[i]
                      /\ FlattenSeq(ss) = f[n]
  <2>1. Len(ss) \in Nat \ {0}
    BY EmptySeq
  <2> QED BY <2>1
<1> DEFINE Unfolds(f) == f = [i \in 1..n |-> IF i = 1 THEN ss[i] ELSE f[i - 1] \o ss[i]]
           step == [p \in Seq(S) \X (1..n) |-> p[1] \o ss[p[2]]]
<1>1. n \in Nat /\ 1 \in 1..n /\ \A i \in 1..n : ss[i] \in Seq(S)
  OBVIOUS
<1>2. /\ \A v \in Seq(S), i \in 1..n : step[<<v, i>>] = v \o ss[i]
      /\ \A v \in Seq(S), i \in 1..n : step[<<v, i>>] \in Seq(S)
      /\ <<>> \in Seq(S)
  <2>1. ASSUME NEW v \in Seq(S), NEW i \in 1..n
        PROVE  step[<<v, i>>] = v \o ss[i] /\ v \o ss[i] \in Seq(S)
    <3>1. <<v, i>> \in Seq(S) \X (1..n) /\ ss[i] \in Seq(S)
      BY <1>1
    <3> QED BY <3>1, ConcatProperties
  <2>2. <<>> \in Seq(S)
    BY EmptySeq
  <2> HIDE DEF step
  <2> QED BY <2>1, <2>2
<1>3. \E f : Unfolds(f)
  <2>1. PICK g \in [0..n -> Seq(S)] :
           g[0] = <<>> /\ \A i \in 1..n : g[i] = step[<<g[i - 1], i>>]
    <3>1. StaysIn(Seq(S), n, <<>>, step)
      BY <1>2 DEF StaysIn
    <3>2. PICK g : Course(g, Seq(S), n, <<>>, step)
      BY <1>1, <3>1, Recursion
    <3> QED BY <3>2 DEF Course
  <2>2. \A i \in 1..n : g[i] = g[i - 1] \o ss[i]
    <3> SUFFICES ASSUME NEW i \in 1..n PROVE g[i] = g[i - 1] \o ss[i]
      OBVIOUS
    <3>1. i - 1 \in 0..n /\ g[i - 1] \in Seq(S)
      <4>1. i - 1 \in 0..n
        BY <1>1
      <4> QED BY <4>1
    <3>2. <<g[i - 1], i>> \in Seq(S) \X (1..n)
      BY <3>1
    <3> QED BY <2>1, <3>2
  <2>3. g[1] = ss[1]
    <3>1. 1 \in 1..n /\ ss[1] \in Seq(S)
      BY <1>1
    <3>2. g[0] = <<>>
      BY <2>1
    <3>3. g[1] = step[<<g[0], 1>>]
      <4>1. PICK i \in 1..n : i = 1
        BY <1>1
      <4>2. g[i] = step[<<g[i - 1], i>>]
        <5> HIDE DEF step
        <5> QED BY <2>1
      <4>3. i - 1 = 0
        BY <4>1
      <4> QED BY <4>1, <4>2, <4>3
    <3>4. step[<< <<>>, 1 >>] = <<>> \o ss[1]
      <4> HIDE DEF step
      <4> QED BY <1>1, <1>2
    <3>5. g[1] = <<>> \o ss[1]
      <4> HIDE DEF step
      <4> QED BY <3>2, <3>3, <3>4
    <3> QED BY <3>1, <3>5, ConcatEmptySeq
  <2> DEFINE f == [i \in 1..n |-> g[i]]
  <2>4. ASSUME NEW i \in 1..n PROVE f[i] = IF i = 1 THEN ss[i] ELSE f[i - 1] \o ss[i]
    <3>1. i = 1 \/ (i # 1 /\ i - 1 \in 1..n)
      BY <1>1
    <3> QED BY <2>2, <2>3, <3>1
  <2>5. f = [i \in 1..n |-> f[i]]
    OBVIOUS
  <2> HIDE DEF f
  <2>6. Unfolds(f)
    BY <2>4, <2>5
  <2> QED BY <2>6
<1> DEFINE h == CHOOSE f : Unfolds(f)
<1>4. Unfolds(h)
  BY <1>3
<1>5. FlattenSeq(ss) = h[n]
  BY <1>1 DEF FlattenSeq
<1> HIDE DEF h
<1>6. DOMAIN h = 1..n /\ h[1] = ss[1] /\ \A i \in 2..n : h[i] = h[i - 1] \o ss[i]
  <2>1. DOMAIN h = 1..n
    BY <1>4
  <2>2. \A i \in 1..n : h[i] = IF i = 1 THEN ss[i] ELSE h[i - 1] \o ss[i]
    BY <1>4
  <2>3. \A i \in 2..n : i \in 1..n /\ i # 1
    OBVIOUS
  <2> QED BY <1>1, <2>1, <2>2, <2>3
<1>7. \A i \in 1..n : h[i] \in Seq(S)
  <2> DEFINE T == {i \in 0..n : i > 0 => h[i] \in Seq(S)}
  <2>1. \A i \in 1..n : i - 1 \in T => i \in T
    <3> SUFFICES ASSUME NEW i \in 1..n, i - 1 \in T PROVE h[i] \in Seq(S)
      OBVIOUS
    <3>1. CASE i = 1
      BY <1>1, <1>6, <3>1
    <3>2. CASE i # 1
      <4>1. i - 1 > 0 /\ i \in 2..n
        BY <3>2
      <4>2. h[i - 1] \in Seq(S)
        BY <4>1
      <4>3. h[i] = h[i - 1] \o ss[i] /\ ss[i] \in Seq(S)
        BY <1>1, <1>6, <4>1
      <4> QED BY <4>2, <4>3, ConcatProperties
    <3> QED BY <3>1, <3>2
  <2>2. 0 \in T
    BY <1>1
  <2> HIDE DEF T
  <2>3. 0..n \subseteq T
    BY <1>1, <2>1, <2>2, BoundedInduction
  <2>4. \A i \in 1..n : i \in 0..n /\ i > 0
    BY <1>1
  <2>5. \A i \in T : i > 0 => h[i] \in Seq(S)
    BY DEF T
  <2> QED BY <2>3, <2>4, <2>5
<1>8. h \in [1..n -> Seq(S)]
  <2>1. h = [i \in 1..n |-> h[i]]
    BY <1>4, <1>6
  <2> QED BY <1>7, <2>1
<1> QED BY <1>5, <1>6, <1>8

(* The elements of the first m sequences of ss, in their order.            *)
Gathers(flat, ss, m) ==
    /\ \A p \in DOMAIN flat : \E a \in 1..m : \E x \in DOMAIN ss[a] : flat[p] = ss[a][x]
    /\ \A a \in 1..m : \A x \in DOMAIN ss[a] : \E p \in DOMAIN flat : flat[p] = ss[a][x]
    /\ \A p, q \in DOMAIN flat : p < q =>
          \E a, b \in 1..m : \E x \in DOMAIN ss[a], y \in DOMAIN ss[b] :
             flat[p] = ss[a][x] /\ flat[q] = ss[b][y] /\ (a < b \/ (a = b /\ x < y))

LEMMA GatherNext ==
    ASSUME NEW S, NEW ss \in Seq(Seq(S)), NEW m \in 2..Len(ss), NEW flat \in Seq(S),
           Gathers(flat, ss, m - 1)
    PROVE  Gathers(flat \o ss[m], ss, m)
<1> DEFINE t == ss[m]
           more == flat \o t
           k == Len(flat)
<1>1. /\ t \in Seq(S) /\ k \in Nat /\ Len(t) \in Nat /\ DOMAIN flat = 1..k
      /\ DOMAIN t = 1..Len(t) /\ m \in 1..m /\ \A a \in 1..(m - 1) : a \in 1..m /\ a < m
      /\ \A a \in 1..m : a = m \/ a \in 1..(m - 1)
  OBVIOUS
<1>2. /\ DOMAIN more = 1..(k + Len(t))
      /\ \A p \in 1..k : p \in DOMAIN more /\ more[p] = flat[p]
      /\ \A x \in 1..Len(t) : k + x \in DOMAIN more /\ more[k + x] = t[x]
      /\ \A p \in DOMAIN more \ (1..k) : p - k \in 1..Len(t) /\ more[p] = t[p - k]
  <2>1. more \in Seq(S) /\ Len(more) = k + Len(t)
    BY <1>1, ConcatProperties
  <2>2. \A p \in 1..(k + Len(t)) : more[p] = IF p <= k THEN flat[p] ELSE t[p - k]
    BY <1>1, ConcatProperties
  <2>3. DOMAIN more = 1..(k + Len(t))
    BY <2>1, LenProperties
  <2> HIDE DEF more, k, t
  <2>4. \A p \in 1..k : p \in 1..(k + Len(t)) /\ p <= k
    BY <1>1
  <2>5. \A x \in 1..Len(t) : k + x \in 1..(k + Len(t)) /\ ~(k + x <= k) /\ (k + x) - k = x
    BY <1>1
  <2>6. \A p \in (1..(k + Len(t))) \ (1..k) : ~(p <= k) /\ p - k \in 1..Len(t)
    BY <1>1
  <2>7. \A p \in 1..k : p \in DOMAIN more /\ more[p] = flat[p]
    BY <2>2, <2>3, <2>4
  <2>8. \A x \in 1..Len(t) : k + x \in DOMAIN more /\ more[k + x] = t[x]
    BY <2>2, <2>3, <2>5
  <2>9. \A p \in DOMAIN more \ (1..k) : p - k \in 1..Len(t) /\ more[p] = t[p - k]
    BY <2>2, <2>3, <2>6
  <2> QED BY <2>3, <2>7, <2>8, <2>9
<1> HIDE DEF more, k
<1>3. ASSUME NEW p \in DOMAIN more
      PROVE  \E a \in 1..m : \E x \in DOMAIN ss[a] : more[p] = ss[a][x]
  <2>1. CASE p \in 1..k
    <3>1. PICK a \in 1..(m - 1) : \E x \in DOMAIN ss[a] : flat[p] = ss[a][x]
      BY <1>1, <2>1 DEF Gathers
    <3> QED BY <1>1, <1>2, <2>1, <3>1
  <2>2. CASE p \notin 1..k
    BY <1>1, <1>2, <2>2
  <2> QED BY <2>1, <2>2
<1>4. ASSUME NEW a \in 1..m, NEW x \in DOMAIN ss[a]
      PROVE  \E p \in DOMAIN more : more[p] = ss[a][x]
  <2>1. CASE a \in 1..(m - 1)
    <3>1. PICK p \in DOMAIN flat : flat[p] = ss[a][x]
      BY <2>1 DEF Gathers
    <3> QED BY <1>1, <1>2, <3>1
  <2>2. CASE a = m
    BY <1>1, <1>2, <2>2
  <2> QED BY <1>1, <2>1, <2>2
<1>5. ASSUME NEW p \in DOMAIN more, NEW q \in DOMAIN more, p < q
      PROVE  \E a, b \in 1..m : \E x \in DOMAIN ss[a], y \in DOMAIN ss[b] :
                more[p] = ss[a][x] /\ more[q] = ss[b][y] /\ (a < b \/ (a = b /\ x < y))
  <2>1. CASE q \in 1..k
    <3>1. p \in 1..k
      BY <1>1, <1>2, <1>5, <2>1
    <3>2. p \in DOMAIN flat /\ q \in DOMAIN flat
      BY <1>1, <2>1, <3>1
    <3>3. PICK a \in 1..(m - 1), b \in 1..(m - 1) :
             \E x \in DOMAIN ss[a], y \in DOMAIN ss[b] :
                flat[p] = ss[a][x] /\ flat[q] = ss[b][y] /\ (a < b \/ (a = b /\ x < y))
      BY <1>5, <3>2 DEF Gathers
    <3> QED BY <1>1, <1>2, <2>1, <3>1, <3>3
  <2>2. CASE p \in 1..k /\ q \notin 1..k
    <3>1. PICK a \in 1..(m - 1) : \E x \in DOMAIN ss[a] : flat[p] = ss[a][x]
      BY <1>1, <2>2 DEF Gathers
    <3>2. PICK x \in DOMAIN ss[a] : flat[p] = ss[a][x]
      BY <3>1
    <3>3. q - k \in DOMAIN ss[m] /\ more[q] = ss[m][q - k] /\ more[p] = ss[a][x]
      BY <1>1, <1>2, <2>2, <3>2
    <3>4. a \in 1..m /\ a < m
      BY <1>1
    <3> QED BY <1>1, <3>2, <3>3, <3>4
  <2>3. CASE p \notin 1..k
    <3>1. q \notin 1..k
      BY <1>1, <1>2, <1>5, <2>3
    <3>2. /\ p - k \in DOMAIN ss[m] /\ more[p] = ss[m][p - k]
          /\ q - k \in DOMAIN ss[m] /\ more[q] = ss[m][q - k]
          /\ p - k < q - k
      BY <1>1, <1>2, <1>5, <2>3, <3>1
    <3> QED BY <1>1, <3>2
  <2> QED BY <2>1, <2>2, <2>3
<1> QED BY <1>3, <1>4, <1>5 DEF Gathers, more

(* What FlattenSeq returns, for every sequence of sequences.               *)
THEOREM FlattenProperties ==
    ASSUME NEW S, NEW ss \in Seq(Seq(S))
    PROVE  FlattenSeq(ss) \in Seq(S) /\ Gathers(FlattenSeq(ss), ss, Len(ss))
<1>1. CASE ss = <<>>
  <2>1. FlattenSeq(ss) = <<>> /\ Len(ss) = 0
    BY <1>1 DEF FlattenSeq
  <2> QED BY <2>1 DEF Gathers
<1>2. CASE ss # <<>>
  <2>1. PICK f \in [1..Len(ss) -> Seq(S)] :
           /\ f[1] = ss[1]
           /\ \A i \in 2..Len(ss) : f[i] = f[i - 1] \o ss[i]
           /\ FlattenSeq(ss) = f[Len(ss)]
    BY <1>2, FlattenRecursion
  <2> DEFINE T == {i \in 0..Len(ss) : i > 0 => Gathers(f[i], ss, i)}
  <2>2. Len(ss) \in Nat \ {0} /\ ss[1] \in Seq(S)
    BY <1>2, EmptySeq
  <2>3. \A i \in 1..Len(ss) : i - 1 \in T => i \in T
    <3> SUFFICES ASSUME NEW i \in 1..Len(ss), i - 1 \in T PROVE Gathers(f[i], ss, i)
      OBVIOUS
    <3>1. CASE i = 1
      <4>1. Gathers(ss[1], ss, 1)
        BY <2>2 DEF Gathers
      <4> QED BY <2>1, <3>1, <4>1
    <3>2. CASE i # 1
      <4>1. i \in 2..Len(ss) /\ i - 1 \in 1..Len(ss) /\ i - 1 > 0
        BY <2>2, <3>2
      <4>2. Gathers(f[i - 1], ss, i - 1) /\ f[i - 1] \in Seq(S) /\ f[i] = f[i - 1] \o ss[i]
        BY <2>1, <4>1
      <4> QED BY <4>1, <4>2, GatherNext
    <3> QED BY <3>1, <3>2
  <2>4. 0 \in T
    BY <2>2
  <2>5. 0..Len(ss) \subseteq T
    <3> HIDE DEF T
    <3> QED BY <2>2, <2>3, <2>4, BoundedInduction
  <2>6. Len(ss) \in 0..Len(ss) /\ Len(ss) \in 1..Len(ss) /\ Len(ss) > 0
    BY <2>2
  <2> QED BY <2>1, <2>5, <2>6
<1> QED BY <1>1, <1>2

(* Its elements are theirs.                                                *)
COROLLARY FlattenElements ==
    ASSUME NEW S, NEW ss \in Seq(Seq(S))
    PROVE  /\ FlattenSeq(ss) \in Seq(S)
           /\ ToSet(FlattenSeq(ss)) = UNION {ToSet(ss[i]) : i \in DOMAIN ss}
<1> DEFINE flat == FlattenSeq(ss)
<1>1. DOMAIN ss = 1..Len(ss)
  OBVIOUS
<1>2. flat \in Seq(S) /\ Gathers(flat, ss, Len(ss))
  BY FlattenProperties
<1> HIDE DEF flat
<1>3. ToSet(flat) \subseteq UNION {ToSet(ss[i]) : i \in DOMAIN ss}
  <2> SUFFICES ASSUME NEW p \in DOMAIN flat PROVE flat[p] \in UNION {ToSet(ss[i]) : i \in DOMAIN ss}
    BY DEF ToSet
  <2>1. PICK a \in 1..Len(ss) : \E x \in DOMAIN ss[a] : flat[p] = ss[a][x]
    BY <1>2 DEF Gathers
  <2>2. flat[p] \in ToSet(ss[a]) /\ a \in DOMAIN ss
    BY <1>1, <2>1 DEF ToSet
  <2> QED BY <2>2
<1>4. UNION {ToSet(ss[i]) : i \in DOMAIN ss} \subseteq ToSet(flat)
  BY <1>1, <1>2 DEF Gathers, ToSet
<1> QED BY <1>2, <1>3, <1>4 DEF flat

Spots(ss, m) == {s \in (1..m) \X Nat : s[2] \in DOMAIN ss[s[1]]}

(* flat lists the first m sequences of ss spot by spot.                    *)
SpotBySpot(at, flat, ss, m) ==
    /\ at \in Bijection(1..Len(flat), Spots(ss, m))
    /\ \A p \in 1..Len(flat) : flat[p] = ss[at[p][1]][at[p][2]]

LEMMA ListNext ==
    ASSUME NEW S, NEW ss \in Seq(Seq(S)), NEW m \in 1..Len(ss), NEW flat \in Seq(S), NEW at,
           SpotBySpot(at, flat, ss, m - 1)
    PROVE  \E more : SpotBySpot(more, flat \o ss[m], ss, m)
<1> DEFINE k == Len(flat)
           l == Len(ss[m])
           more == [p \in 1..(k + l) |-> IF p <= k THEN at[p] ELSE <<m, p - k>>]
<1>1. k \in Nat /\ ss[m] \in Seq(S) /\ l \in Nat /\ DOMAIN ss[m] = 1..l /\ m \in Nat
  OBVIOUS
<1>2. /\ flat \o ss[m] \in Seq(S) /\ Len(flat \o ss[m]) = k + l
      /\ \A p \in 1..k : (flat \o ss[m])[p] = flat[p]
      /\ \A p \in 1..(k + l) : ~(p <= k) => (flat \o ss[m])[p] = ss[m][p - k]
  BY <1>1
<1>3. /\ at \in [1..k -> Spots(ss, m - 1)]
      /\ \A p, q \in 1..k : at[p] = at[q] => p = q
      /\ \A s \in Spots(ss, m - 1) : \E p \in 1..k : at[p] = s
  BY DEF SpotBySpot, Bijection, Injection, Surjection, IsInjective
<1>4. ASSUME NEW p \in 1..(k + l)
      PROVE  \/ p <= k /\ p \in 1..k /\ more[p] = at[p] /\ at[p] \in Spots(ss, m - 1)
             \/ ~(p <= k) /\ more[p] = <<m, p - k>> /\ p - k \in 1..l
  <2>1. CASE p <= k
    <3>1. p \in 1..k
      BY <1>1, <2>1
    <3>2. at[p] \in Spots(ss, m - 1)
      BY <1>3, <3>1
    <3>3. more[p] = at[p]
      BY <2>1
    <3> QED BY <2>1, <3>1, <3>2, <3>3
  <2>2. CASE ~(p <= k)
    <3>1. p - k \in 1..l
      BY <1>1, <2>2
    <3>2. more[p] = <<m, p - k>>
      BY <2>2
    <3> QED BY <2>2, <3>1, <3>2
  <2> QED BY <2>1, <2>2
<1>5. \A s \in Spots(ss, m - 1) : s \in Spots(ss, m) /\ s[1] # m /\ s[1] \in 1..(m - 1)
  BY <1>1 DEF Spots
<1>6. \A x \in 1..l : <<m, x>> \in Spots(ss, m)
  BY <1>1 DEF Spots
<1>7. \A s \in Spots(ss, m) : s \in Spots(ss, m - 1) \/ (s = <<m, s[2]>> /\ s[2] \in 1..l)
  <2> SUFFICES ASSUME NEW s \in Spots(ss, m)
               PROVE  s \in Spots(ss, m - 1) \/ (s = <<m, s[2]>> /\ s[2] \in 1..l)
    OBVIOUS
  <2>1. s \in (1..m) \X Nat /\ s[2] \in DOMAIN ss[s[1]] /\ s = <<s[1], s[2]>>
    BY DEF Spots
  <2>2. CASE s[1] = m
    BY <1>1, <2>1, <2>2
  <2>3. CASE s[1] # m
    <3>1. s[1] \in 1..(m - 1)
      BY <1>1, <2>1, <2>3
    <3>2. s \in (1..(m - 1)) \X Nat
      BY <2>1, <3>1
    <3> QED BY <2>1, <3>2 DEF Spots
  <2> QED BY <2>2, <2>3
<1>8. more \in [1..(k + l) -> Spots(ss, m)]
  <2> SUFFICES ASSUME NEW p \in 1..(k + l) PROVE more[p] \in Spots(ss, m)
    OBVIOUS
  <2> HIDE DEF more
  <2> QED BY <1>4, <1>5, <1>6
<1>9. ASSUME NEW p \in 1..(k + l), NEW q \in 1..(k + l), more[p] = more[q] PROVE p = q
  <2>1. CASE p <= k /\ q <= k
    <3> HIDE DEF more
    <3> QED BY <1>3, <1>4, <1>9, <2>1
  <2>2. CASE ~(p <= k) /\ ~(q <= k)
    <3>1. <<m, p - k>> = <<m, q - k>>
      <4> HIDE DEF more
      <4> QED BY <1>4, <1>9, <2>2
    <3>2. p - k = q - k
      BY <3>1
    <3> QED BY <1>1, <3>2
  <2>3. CASE p <= k /\ ~(q <= k)
    <3>1. more[p][1] # m /\ more[q][1] = m
      <4> HIDE DEF more
      <4> QED BY <1>4, <1>5, <2>3
    <3> QED BY <1>9, <3>1
  <2>4. CASE ~(p <= k) /\ q <= k
    <3>1. more[q][1] # m /\ more[p][1] = m
      <4> HIDE DEF more
      <4> QED BY <1>4, <1>5, <2>4
    <3> QED BY <1>9, <3>1
  <2> QED BY <2>1, <2>2, <2>3, <2>4
<1>10. ASSUME NEW s \in Spots(ss, m) PROVE \E p \in 1..(k + l) : more[p] = s
  <2>1. CASE s \in Spots(ss, m - 1)
    <3>1. PICK p \in 1..k : at[p] = s
      BY <1>3, <2>1
    <3>2. p \in 1..(k + l) /\ p <= k
      BY <1>1
    <3> QED BY <3>1, <3>2
  <2>2. CASE s = <<m, s[2]>> /\ s[2] \in 1..l
    <3>1. k + s[2] \in 1..(k + l) /\ ~(k + s[2] <= k) /\ (k + s[2]) - k = s[2]
      BY <1>1, <2>2
    <3>2. more[k + s[2]] = <<m, s[2]>>
      BY <3>1
    <3> QED BY <2>2, <3>1, <3>2
  <2> QED BY <1>7, <2>1, <2>2
<1>11. more \in Bijection(1..(k + l), Spots(ss, m))
  <2> HIDE DEF more
  <2> QED BY <1>8, <1>9, <1>10 DEF Bijection, Injection, Surjection, IsInjective
<1>12. ASSUME NEW p \in 1..(k + l) PROVE (flat \o ss[m])[p] = ss[more[p][1]][more[p][2]]
  <2>1. CASE p <= k
    BY <1>2, <1>4, <2>1 DEF SpotBySpot
  <2>2. CASE ~(p <= k)
    BY <1>2, <1>4, <2>2
  <2> QED BY <2>1, <2>2
<1>13. SpotBySpot(more, flat \o ss[m], ss, m)
  <2> HIDE DEF more, k, l
  <2> QED BY <1>2, <1>11, <1>12 DEF SpotBySpot
<1> QED BY <1>13

(* The places of FlattenSeq are those of the sequences, one to one.        *)
THEOREM FlattenLists ==
    ASSUME NEW S, NEW ss \in Seq(Seq(S))
    PROVE  \E at : SpotBySpot(at, FlattenSeq(ss), ss, Len(ss))
<1>1. CASE ss = <<>>
  <2>1. FlattenSeq(ss) = <<>> /\ Len(ss) = 0
    BY <1>1 DEF FlattenSeq
  <2>2. Len(FlattenSeq(ss)) = 0 /\ 1..0 = {}
    BY <2>1
  <2>3. Spots(ss, 0) = {}
    BY <2>2 DEF Spots
  <2> DEFINE none == [p \in {} |-> p]
  <2>4. none \in Bijection({}, {})
    BY DEF Bijection, Injection, Surjection, IsInjective
  <2>5. SpotBySpot(none, FlattenSeq(ss), ss, Len(ss))
    BY <2>1, <2>2, <2>3, <2>4 DEF SpotBySpot
  <2> QED BY <2>5
<1>2. CASE ss # <<>>
  <2>1. PICK f \in [1..Len(ss) -> Seq(S)] :
           /\ f[1] = ss[1]
           /\ \A i \in 2..Len(ss) : f[i] = f[i - 1] \o ss[i]
           /\ FlattenSeq(ss) = f[Len(ss)]
    BY <1>2, FlattenRecursion
  <2> DEFINE Listed(i) == \E at : SpotBySpot(at, f[i], ss, i)
             T == {i \in 0..Len(ss) : i > 0 => Listed(i)}
  <2>2. Len(ss) \in Nat \ {0} /\ ss[1] \in Seq(S)
    BY <1>2, EmptySeq
  <2>3. \A i \in 1..Len(ss) : i - 1 \in T => i \in T
    <3> SUFFICES ASSUME NEW i \in 1..Len(ss), i - 1 \in T PROVE Listed(i)
      <4> HIDE DEF Listed
      <4> QED BY <2>2
    <3>1. CASE i = 1
      <4>1. <<>> \in Seq(S) /\ Len(<<>>) = 0 /\ <<>> \o ss[1] = ss[1] /\ 1..0 = {} /\ 1 - 1 = 0
        BY <2>2
      <4>2. Spots(ss, 0) = {}
        BY <4>1 DEF Spots
      <4> DEFINE none == [p \in {} |-> p]
      <4>3. none \in Bijection({}, {})
        BY DEF Bijection, Injection, Surjection, IsInjective
      <4>4. SpotBySpot(none, <<>>, ss, 1 - 1)
        BY <4>1, <4>2, <4>3 DEF SpotBySpot
      <4>5. 1 \in 1..Len(ss)
        BY <2>2
      <4>6. \E more : SpotBySpot(more, <<>> \o ss[1], ss, 1)
        BY <4>1, <4>4, <4>5, ListNext
      <4> QED BY <2>1, <3>1, <4>1, <4>6
    <3>2. CASE i # 1
      <4>1. i \in 2..Len(ss) /\ i - 1 \in 1..Len(ss) /\ i - 1 > 0
        BY <2>2, <3>2
      <4>2. f[i - 1] \in Seq(S) /\ f[i] = f[i - 1] \o ss[i]
        BY <2>1, <4>1
      <4>3. PICK at : SpotBySpot(at, f[i - 1], ss, i - 1)
        BY <4>1
      <4> QED BY <4>2, <4>3, ListNext
    <3> QED BY <3>1, <3>2
  <2>4. 0 \in T
    BY <2>2
  <2>5. 0..Len(ss) \subseteq T
    <3> HIDE DEF T
    <3> QED BY <2>2, <2>3, <2>4, BoundedInduction
  <2>6. Len(ss) \in 0..Len(ss) /\ Len(ss) > 0
    BY <2>2
  <2> QED BY <2>1, <2>5, <2>6
<1> QED BY <1>1, <1>2
=============================================================================
