--------------------------- MODULE OperatorLemmas ---------------------------
(***************************************************************************)
(* What the operators of the model do for every argument: sums, compaction *)
(* and the benchmark, by induction on the lists they work on, and the      *)
(* regression guard.  The induction theorems of the library take an        *)
(* operator for the predicate, which the provers cannot instantiate; here  *)
(* the predicate is the set of the values that satisfy it, which is enough *)
(* for SMT and Zenon.                                                      *)
(***************************************************************************)
EXTENDS Benchmark, RegressionGuard, FiniteSetTheorems, SequenceTheorems,
        WellFoundedInduction, TLAPS

(* Induction over the naturals.                                            *)
LEMMA SetInduction ==
    ASSUME NEW T, 0 \in T, \A n \in Nat : n \in T => n + 1 \in T
    PROVE  Nat \subseteq T
<1> DEFINE Bad == Nat \ T
<1> SUFFICES ASSUME Bad # {} PROVE FALSE
  OBVIOUS
<1>1. PICK m \in Bad : \A k \in Bad : ~(<<k, m>> \in OpToRel(<, Nat))
  BY NatLessThanWellFounded, WFMin
<1>2. m # 0 /\ m - 1 \in Nat
  OBVIOUS
<1>3. m - 1 \notin Bad
  <2> SUFFICES <<m - 1, m>> \in OpToRel(<, Nat)
    BY <1>1
  <2> QED
    BY <1>2 DEF OpToRel
<1> QED
  BY <1>2, <1>3

(* Induction over sequences, by their last element.                        *)
LEMMA SequenceInduction ==
    ASSUME NEW S, NEW T, <<>> \in T,
           \A s \in Seq(S), x \in S : s \in T => Append(s, x) \in T
    PROVE  Seq(S) \subseteq T
<1> DEFINE N == {n \in Nat : \A s \in Seq(S) : Len(s) = n => s \in T}
<1>1. 0 \in N
  OBVIOUS
<1>2. ASSUME NEW n \in Nat, n \in N PROVE n + 1 \in N
  <2> SUFFICES ASSUME NEW s \in Seq(S), Len(s) = n + 1 PROVE s \in T
    OBVIOUS
  <2> DEFINE front == SubSeq(s, 1, n)
  <2>1. front \in Seq(S) /\ Len(front) = n /\ s[n + 1] \in S
    OBVIOUS
  <2>2. s = Append(front, s[n + 1])
    OBVIOUS
  <2> HIDE DEF front
  <2>3. front \in T
    BY <1>2, <2>1
  <2> QED
    BY <2>1, <2>2, <2>3
<1>3. Nat \subseteq N
  <2> HIDE DEF N
  <2> QED
    BY <1>1, <1>2, SetInduction
<1> QED
  BY <1>3

(* A function on 1..n is a sequence.                                       *)
LEMMA FunctionIsSequence ==
    ASSUME NEW X, NEW n \in Nat, NEW f \in [1..n -> X]
    PROVE  f \in Seq(X) /\ Len(f) = n /\ DOMAIN f = 1..n
  OBVIOUS

LEMMA AppendDefinition ==
    ASSUME NEW X, NEW s \in Seq(X), NEW x \in X
    PROVE  Append(s, x)
               = [i \in 1..(Len(s) + 1) |-> IF i = Len(s) + 1 THEN x ELSE s[i]]
<1> DEFINE c == Append(s, x)
<1>1. /\ c \in Seq(X) /\ Len(c) = Len(s) + 1 /\ c[Len(s) + 1] = x
      /\ \A i \in 1..Len(s) : c[i] = s[i]
      /\ Len(s) \in Nat
  OBVIOUS
<1> HIDE DEF c
<1>2. c = [i \in 1..Len(c) |-> c[i]]
  BY <1>1
<1>3. \A i \in 1..(Len(s) + 1) : i \in 1..Len(s) \/ i = Len(s) + 1
  BY <1>1
<1> QED
  BY <1>1, <1>2, <1>3 DEF c

LEMMA ConcatDefinition ==
    ASSUME NEW X, NEW u \in Seq(X), NEW v \in Seq(X)
    PROVE  u \o v = [i \in 1..(Len(u) + Len(v)) |->
                         IF i <= Len(u) THEN u[i] ELSE v[i - Len(u)]]
<1> DEFINE c == u \o v
<1>1. /\ c \in Seq(X) /\ Len(c) = Len(u) + Len(v)
      /\ \A i \in 1..(Len(u) + Len(v)) :
            c[i] = IF i <= Len(u) THEN u[i] ELSE v[i - Len(u)]
  BY ConcatProperties
<1> HIDE DEF c
<1>2. c = [i \in 1..Len(c) |-> c[i]]
  BY <1>1
<1> QED
  BY <1>1, <1>2 DEF c

-----------------------------------------------------------------------------
(* Sums.                                                                   *)

(* The partial sums of the first n elements of w.                          *)
PartialSums(s, w, n) ==
    /\ s \in [0..n -> Int] /\ s[0] = 0
    /\ \A i \in 1..n : s[i] = s[i - 1] + w[i]

LEMMA PartialSumsExist ==
    ASSUME NEW w \in Seq(Int) PROVE \E s : PartialSums(s, w, Len(w))
<1> DEFINE T == {n \in Nat : n <= Len(w) => \E s : PartialSums(s, w, n)}
<1>1. 0 \in T
  <2>1. PartialSums([i \in 0..0 |-> 0], w, 0)
    BY DEF PartialSums
  <2> QED
    BY <2>1
<1>2. ASSUME NEW n \in Nat, n \in T PROVE n + 1 \in T
  <2> SUFFICES ASSUME n + 1 <= Len(w) PROVE \E s : PartialSums(s, w, n + 1)
    OBVIOUS
  <2>1. n <= Len(w) /\ w[n + 1] \in Int
    OBVIOUS
  <2>2. PICK s : PartialSums(s, w, n)
    BY <1>2, <2>1
  <2> DEFINE t == [i \in 0..(n + 1) |-> IF i = n + 1 THEN s[n] + w[n + 1] ELSE s[i]]
  <2>4. /\ n \in 0..n /\ 0 \in 0..n /\ n + 1 # 0 /\ n + 1 \in 0..(n + 1)
        /\ \A i \in 0..(n + 1) : i # n + 1 => i \in 0..n
        /\ \A i \in 0..n : i \in 0..(n + 1) /\ i # n + 1
        /\ \A i \in 1..n : i \in 0..n /\ i - 1 \in 0..n
        /\ (n + 1) - 1 = n
        /\ \A i \in 1..(n + 1) : i = n + 1 \/ i \in 1..n
    OBVIOUS
  <2>5. /\ s \in [0..n -> Int] /\ s[0] = 0 /\ s[n] + w[n + 1] \in Int
        /\ \A i \in 1..n : s[i] = s[i - 1] + w[i]
    BY <2>1, <2>2, <2>4 DEF PartialSums
  <2>6. t[n + 1] = s[n] + w[n + 1] /\ \A i \in 0..n : t[i] = s[i]
    BY <2>4
  <2>7. t \in [0..(n + 1) -> Int]
    BY <2>4, <2>5
  <2> HIDE DEF t
  <2>8. ASSUME NEW i \in 1..(n + 1) PROVE t[i] = t[i - 1] + w[i]
    BY <2>4, <2>5, <2>6
  <2>3. PartialSums(t, w, n + 1)
    BY <2>4, <2>5, <2>6, <2>7, <2>8 DEF PartialSums
  <2> QED
    BY <2>3
<1>3. Nat \subseteq T
  <2> HIDE DEF T
  <2> QED
    BY <1>1, <1>2, SetInduction
<1> QED
  BY <1>3

(* Sum is the last of them, also for a prefix w of the list v.             *)
LEMMA SumIsPartialSum ==
    ASSUME NEW w \in Seq(Int), NEW v \in Seq(Int), NEW s, NEW n \in Nat,
           PartialSums(s, v, n), Len(w) <= n, \A i \in 1..Len(w) : w[i] = v[i]
    PROVE  SumOf(w) = s[Len(w)]
<1> DEFINE Eq(f) == f = [i \in 0..Len(w) |-> IF i = 0 THEN 0 ELSE f[i - 1] + w[i]]
           F == CHOOSE f : Eq(f)
<1>1. PICK r : PartialSums(r, w, Len(w))
  BY PartialSumsExist
<1>2. Eq(r)
  BY <1>1 DEF PartialSums
<1>3. Eq(F)
  <2> HIDE DEF Eq
  <2> QED
    BY <1>2, Zenon
<1>4. SumOf(w) = F[Len(w)]
  BY DEF SumOf
<1> HIDE DEF F
<1> DEFINE T == {k \in Nat : k <= Len(w) => F[k] = s[k]}
<1>5. 0 \in T
  BY <1>3 DEF PartialSums
<1>6. ASSUME NEW k \in Nat, k \in T PROVE k + 1 \in T
  <2> SUFFICES ASSUME k + 1 <= Len(w) PROVE F[k + 1] = s[k + 1]
    OBVIOUS
  <2>1. /\ k + 1 \in 0..Len(w) /\ k + 1 # 0 /\ (k + 1) - 1 = k
        /\ k + 1 \in 1..Len(w) /\ k + 1 \in 1..n
    OBVIOUS
  <2>2. F[k] = s[k]
    BY <1>6
  <2>3. F[k + 1] = F[k] + w[k + 1]
    BY <1>3, <2>1
  <2>4. s[k + 1] = s[k] + v[k + 1]
    BY <2>1 DEF PartialSums
  <2> QED
    BY <2>1, <2>2, <2>3, <2>4
<1>7. Nat \subseteq T
  <2> HIDE DEF T
  <2> QED
    BY <1>5, <1>6, SetInduction
<1> QED
  BY <1>4, <1>7

LEMMA SumEmpty == SumOf(<<>>) = 0
<1>1. <<>> \in Seq(Int) /\ Len(<<>>) = 0
  OBVIOUS
<1>2. PartialSums([i \in 0..0 |-> 0], <<>>, 0)
  BY DEF PartialSums
<1>3. SumOf(<<>>) = [i \in 0..0 |-> 0][Len(<<>>)]
  BY <1>1, <1>2, SumIsPartialSum
<1> QED
  BY <1>1, <1>3

LEMMA SumAppend ==
    ASSUME NEW w \in Seq(Int), NEW x \in Int
    PROVE  SumOf(w) \in Int /\ SumOf(Append(w, x)) = SumOf(w) + x
<1> DEFINE v == Append(w, x)
<1>1. v \in Seq(Int) /\ Len(v) = Len(w) + 1 /\ v[Len(v)] = x
         /\ (\A i \in 1..Len(w) : w[i] = v[i]) /\ Len(w) \in Nat
  OBVIOUS
<1> HIDE DEF v
<1>2. PICK s : PartialSums(s, v, Len(v))
  BY <1>1, PartialSumsExist
<1>3. SumOf(w) = s[Len(w)] /\ SumOf(v) = s[Len(v)]
  BY <1>1, <1>2, SumIsPartialSum
<1>4. Len(v) \in 1..Len(v) /\ Len(w) \in 0..Len(v) /\ Len(v) - 1 = Len(w)
  BY <1>1
<1>5. s[Len(v)] = s[Len(v) - 1] + v[Len(v)]
  BY <1>2, <1>4 DEF PartialSums
<1>6. s[Len(w)] \in Int
  BY <1>2, <1>4 DEF PartialSums
<1> QED
  BY <1>1, <1>3, <1>4, <1>5, <1>6 DEF v

LEMMA SumType == ASSUME NEW w \in Seq(Int) PROVE SumOf(w) \in Int
  BY SumAppend

(* A sum of natural numbers is one.                                        *)
LEMMA SumIsNatural ==
    ASSUME NEW w \in Seq(Nat) PROVE SumOf(w) \in Nat
<1> DEFINE T == {v \in Seq(Nat) : SumOf(v) \in Nat}
<1>1. <<>> \in T
  BY SumEmpty
<1>2. ASSUME NEW v \in Seq(Nat), NEW x \in Nat, v \in T
      PROVE  Append(v, x) \in T
  <2>1. v \in Seq(Int) /\ Append(v, x) \in Seq(Nat)
    OBVIOUS
  <2>2. SumOf(Append(v, x)) = SumOf(v) + x
    BY <2>1, SumAppend
  <2> QED
    BY <1>2, <2>1, <2>2
<1>3. Seq(Nat) \subseteq T
  <2> HIDE DEF T
  <2> QED
    BY <1>1, <1>2, SequenceInduction
<1> QED
  BY <1>3

(* Sums add up along concatenations.                                       *)
LEMMA SumConcat ==
    ASSUME NEW u \in Seq(Int), NEW v \in Seq(Int)
    PROVE  SumOf(u \o v) = SumOf(u) + SumOf(v)
<1> DEFINE T == {w \in Seq(Int) : SumOf(u \o w) = SumOf(u) + SumOf(w)}
<1>1. <<>> \in T
  <2>1. u \o <<>> = u /\ <<>> \in Seq(Int)
    OBVIOUS
  <2> QED
    BY <2>1, SumEmpty, SumType
<1>2. ASSUME NEW w \in Seq(Int), NEW x \in Int, w \in T
      PROVE  Append(w, x) \in T
  <2>1. u \o Append(w, x) = Append(u \o w, x) /\ u \o w \in Seq(Int)
           /\ Append(w, x) \in Seq(Int)
    OBVIOUS
  <2>2. SumOf(Append(u \o w, x)) = SumOf(u \o w) + x
    BY <2>1, SumAppend
  <2>3. SumOf(Append(w, x)) = SumOf(w) + x /\ SumOf(w) \in Int /\ SumOf(u) \in Int
    BY SumAppend, SumType
  <2>4. SumOf(u \o w) = SumOf(u) + SumOf(w)
    BY <1>2
  <2>5. SumOf(u \o Append(w, x)) = SumOf(u) + SumOf(Append(w, x))
    BY <2>1, <2>2, <2>3, <2>4
  <2> QED
    BY <2>1, <2>5
<1>3. Seq(Int) \subseteq T
  <2> HIDE DEF T
  <2> QED
    BY <1>1, <1>2, SequenceInduction
<1> QED
  BY <1>3

LEMMA SumOfZeros ==
    ASSUME NEW w \in Seq(Int), \A i \in 1..Len(w) : w[i] = 0
    PROVE  SumOf(w) = 0
<1> DEFINE T == {v \in Seq(Int) : (\A i \in 1..Len(v) : v[i] = 0) => SumOf(v) = 0}
<1>1. <<>> \in T
  BY SumEmpty
<1>2. ASSUME NEW v \in Seq(Int), NEW x \in Int, v \in T
      PROVE  Append(v, x) \in T
  <2> SUFFICES ASSUME \A i \in 1..Len(Append(v, x)) : Append(v, x)[i] = 0
               PROVE  SumOf(Append(v, x)) = 0
    <3>1. Append(v, x) \in Seq(Int)
      OBVIOUS
    <3> QED
      BY <3>1
  <2>1. x = 0 /\ \A i \in 1..Len(v) : v[i] = 0
    <3>1. Len(Append(v, x)) = Len(v) + 1 /\ Append(v, x)[Len(v) + 1] = x
             /\ (\A i \in 1..Len(v) : Append(v, x)[i] = v[i]) /\ Len(v) \in Nat
      OBVIOUS
    <3> QED
      BY <3>1
  <2> QED
    BY <1>2, <2>1, SumAppend
<1>3. Seq(Int) \subseteq T
  <2> HIDE DEF T
  <2> QED
    BY <1>1, <1>2, SequenceInduction
<1> QED
  BY <1>3

(* A sum with a single term.                                               *)
LEMMA SumOfOne ==
    ASSUME NEW w \in Seq(Int), NEW k \in 1..Len(w),
           \A i \in 1..Len(w) : i # k => w[i] = 0
    PROVE  SumOf(w) = w[k]
<1> DEFINE Only(v, j) == \A i \in 1..Len(v) : i # j => v[i] = 0
           T == {v \in Seq(Int) : \A j \in 1..Len(v) : Only(v, j) => SumOf(v) = v[j]}
<1>1. <<>> \in T
  OBVIOUS
<1>2. ASSUME NEW v \in Seq(Int), NEW x \in Int, v \in T
      PROVE  Append(v, x) \in T
  <2> DEFINE u == Append(v, x)
  <2>1. /\ u \in Seq(Int) /\ Len(u) = Len(v) + 1 /\ u[Len(v) + 1] = x
        /\ \A i \in 1..Len(v) : u[i] = v[i]
        /\ Len(v) \in Nat
    OBVIOUS
  <2>2. SumOf(u) = SumOf(v) + x
    BY SumAppend
  <2> HIDE DEF u
  <2> SUFFICES ASSUME NEW j \in 1..Len(u), Only(u, j) PROVE SumOf(u) = u[j]
    BY <2>1 DEF u
  <2>3. CASE j = Len(v) + 1
    <3>1. ASSUME NEW i \in 1..Len(v) PROVE v[i] = 0
      <4>1. i \in 1..Len(u) /\ i # j
        BY <2>1, <2>3
      <4> QED
        BY <2>1, <4>1
    <3>2. SumOf(v) = 0
      BY <3>1, SumOfZeros
    <3> QED
      BY <2>1, <2>2, <2>3, <3>2
  <2>4. CASE j # Len(v) + 1
    <3>1. j \in 1..Len(v) /\ x = 0 /\ Only(v, j)
      <4>1. j \in 1..Len(v)
        BY <2>1, <2>4
      <4>2. Len(v) + 1 \in 1..Len(u) /\ Len(v) + 1 # j
        BY <2>1, <2>4
      <4>3. x = 0
        BY <2>1, <4>2
      <4>4. \A i \in 1..Len(v) : i \in 1..Len(u) /\ u[i] = v[i]
        BY <2>1
      <4> QED
        BY <4>1, <4>3, <4>4
    <3>2. SumOf(v) = v[j] /\ SumOf(v) \in Int
      BY <1>2, <3>1, SumType
    <3>3. u[j] = v[j]
      BY <2>1, <3>1
    <3> HIDE DEF Only
    <3> QED
      BY <2>2, <3>1, <3>2, <3>3
  <2> QED
    BY <2>3, <2>4
<1>3. Seq(Int) \subseteq T
  <2> HIDE DEF T
  <2> QED
    BY <1>1, <1>2, SequenceInduction
<1> QED
  BY <1>3

(* Sums add up term by term.                                               *)
LEMMA SumOfSums ==
    ASSUME NEW u \in Seq(Int), NEW v \in Seq(Int), Len(u) = Len(v)
    PROVE  SumOf([i \in 1..Len(u) |-> u[i] + v[i]]) = SumOf(u) + SumOf(v)
<1> DEFINE Plus(s, t) == [i \in 1..Len(s) |-> s[i] + t[i]]
           T == {s \in Seq(Int) : \A t \in Seq(Int) :
                    Len(t) = Len(s) => SumOf(Plus(s, t)) = SumOf(s) + SumOf(t)}
<1>1. <<>> \in T
  <2> SUFFICES ASSUME NEW t \in Seq(Int), Len(t) = Len(<<>>)
               PROVE  SumOf(Plus(<<>>, t)) = SumOf(<<>>) + SumOf(t)
    <3>1. <<>> \in Seq(Int)
      OBVIOUS
    <3> HIDE DEF Plus
    <3> QED
      BY <3>1
  <2>1. t = <<>> /\ Plus(<<>>, t) = <<>>
    OBVIOUS
  <2> QED
    <3>1. SumOf(Plus(<<>>, t)) = 0 /\ SumOf(t) = 0 /\ SumOf(<<>>) = 0
      BY <2>1, SumEmpty
    <3> QED
      BY <3>1
<1>2. ASSUME NEW s \in Seq(Int), NEW x \in Int, s \in T
      PROVE  Append(s, x) \in T
  <2> SUFFICES ASSUME NEW t \in Seq(Int), Len(t) = Len(s) + 1
               PROVE  SumOf(Plus(Append(s, x), t)) = SumOf(Append(s, x)) + SumOf(t)
    <3>1. Append(s, x) \in Seq(Int) /\ Len(Append(s, x)) = Len(s) + 1
      OBVIOUS
    <3> HIDE DEF Plus
    <3> QED
      BY <3>1
  <2> DEFINE front == SubSeq(t, 1, Len(s))
             y     == t[Len(s) + 1]
  <2>1. front \in Seq(Int) /\ Len(front) = Len(s) /\ y \in Int
           /\ t = Append(front, y)
    OBVIOUS
  <2>2. Plus(s, front) \in Seq(Int) /\ Len(Plus(s, front)) = Len(s)
    <3>1. \A i \in 1..Len(s) : s[i] + front[i] \in Int
      BY <2>1
    <3> QED
      BY <3>1
  <2>3. Plus(Append(s, x), t) = Append(Plus(s, front), x + y)
    <3>1. /\ \A i \in 1..Len(s) : Append(s, x)[i] = s[i] /\ t[i] = front[i]
          /\ Append(s, x)[Len(s) + 1] = x /\ Len(Append(s, x)) = Len(s) + 1
          /\ Len(s) \in Nat
      OBVIOUS
    <3> DEFINE p == Plus(s, front)
    <3>3. \A i \in 1..Len(s) : p[i] = s[i] + front[i]
      OBVIOUS
    <3> HIDE DEF front, y, p
    <3>4. p \in Seq(Int) /\ Len(p) = Len(s) /\ x + y \in Int
      BY <2>1, <2>2 DEF p
    <3>5. Append(p, x + y)
             = [i \in 1..(Len(p) + 1) |-> IF i = Len(p) + 1 THEN x + y ELSE p[i]]
      BY <3>4, AppendDefinition
    <3>6. \A i \in 1..(Len(s) + 1) : i # Len(s) + 1 => i \in 1..Len(s)
      OBVIOUS
    <3>2. Append(p, x + y)
             = [i \in 1..(Len(s) + 1) |->
                   IF i = Len(s) + 1 THEN x + y ELSE s[i] + front[i]]
      BY <3>3, <3>4, <3>5, <3>6
    <3> QED
      BY <3>1, <3>2 DEF y, p
  <2> HIDE DEF front, y
  <2>4. SumOf(Plus(s, front)) = SumOf(s) + SumOf(front)
    BY <1>2, <2>1
  <2> HIDE DEF Plus
  <2>5. /\ SumOf(Plus(Append(s, x), t)) = SumOf(Plus(s, front)) + (x + y)
        /\ SumOf(Append(s, x)) = SumOf(s) + x
        /\ SumOf(t) = SumOf(front) + y
        /\ SumOf(s) \in Int /\ SumOf(front) \in Int
    BY <2>1, <2>2, <2>3, SumAppend
  <2> QED
    BY <2>1, <2>4, <2>5
<1>3. Seq(Int) \subseteq T
  <2> HIDE DEF T
  <2> QED
    BY <1>1, <1>2, SequenceInduction
<1> QED
  BY <1>3

(* A sum grows with its terms.                                             *)
LEMMA SumMonotone ==
    ASSUME NEW u \in Seq(Int), NEW v \in Seq(Int), Len(u) = Len(v),
           \A i \in 1..Len(u) : u[i] <= v[i]
    PROVE  SumOf(u) <= SumOf(v)
<1> DEFINE d == [i \in 1..Len(u) |-> v[i] - u[i]]
<1>1. d \in Seq(Nat) /\ d \in Seq(Int) /\ Len(d) = Len(u)
  <2>1. \A i \in 1..Len(u) : v[i] - u[i] \in Nat
    OBVIOUS
  <2> QED
    BY <2>1
<1>2. [i \in 1..Len(u) |-> u[i] + d[i]] = v
  OBVIOUS
<1>3. SumOf(v) = SumOf(u) + SumOf(d)
  <2> HIDE DEF d
  <2> QED
    BY <1>1, <1>2, SumOfSums
<1> QED
  <2> HIDE DEF d
  <2>1. SumOf(d) \in Nat /\ SumOf(u) \in Int
    BY <1>1, SumIsNatural, SumType
  <2> QED
    BY <1>3, <2>1

-----------------------------------------------------------------------------
(* Flattened lists of lists.                                               *)

(* The concatenations of the first 1, ..., n members of seqs.              *)
PartialConcats(c, seqs, X, n) ==
    /\ c \in [1..n -> Seq(X)]
    /\ n >= 1 => c[1] = seqs[1]
    /\ \A i \in 2..n : c[i] = c[i - 1] \o seqs[i]

LEMMA PartialConcatsExist ==
    ASSUME NEW X, NEW seqs \in Seq(Seq(X))
    PROVE  \E c : PartialConcats(c, seqs, X, Len(seqs))
<1> DEFINE T == {n \in Nat : n <= Len(seqs) => \E c : PartialConcats(c, seqs, X, n)}
<1>1. 0 \in T
  <2>1. PartialConcats([i \in 1..0 |-> <<>>], seqs, X, 0)
    BY DEF PartialConcats
  <2> QED
    BY <2>1
<1>2. ASSUME NEW n \in Nat, n \in T PROVE n + 1 \in T
  <2> SUFFICES ASSUME n + 1 <= Len(seqs)
               PROVE  \E c : PartialConcats(c, seqs, X, n + 1)
    OBVIOUS
  <2>1. n <= Len(seqs) /\ seqs[n + 1] \in Seq(X)
    OBVIOUS
  <2>2. PICK c : PartialConcats(c, seqs, X, n)
    BY <1>2, <2>1
  <2>3. CASE n = 0
    <3>1. PartialConcats([i \in 1..1 |-> seqs[1]], seqs, X, 1)
      BY <2>1, <2>3 DEF PartialConcats
    <3> QED
      BY <2>3, <3>1
  <2>4. CASE n # 0
    <3> DEFINE new == c[n] \o seqs[n + 1]
               d   == [i \in 1..(n + 1) |-> IF i = n + 1 THEN new ELSE c[i]]
    <3>1. c[n] \in Seq(X)
      BY <2>2, <2>4 DEF PartialConcats
    <3>2. new \in Seq(X)
      BY <2>1, <3>1
    <3> HIDE DEF new
    <3>3. d \in [1..(n + 1) -> Seq(X)]
      BY <2>2, <3>2 DEF PartialConcats
    <3>4. d[1] = seqs[1]
      BY <2>2, <2>4 DEF PartialConcats
    <3>5. ASSUME NEW i \in 2..(n + 1) PROVE d[i] = d[i - 1] \o seqs[i]
      <4>1. CASE i = n + 1
        <5>1. d[i] = new /\ i - 1 = n /\ n \in 1..(n + 1) /\ n # n + 1
          BY <2>4, <4>1
        <5>2. d[n] = c[n]
          BY <5>1
        <5> HIDE DEF d
        <5> QED
          BY <4>1, <5>1, <5>2 DEF new
      <4>2. CASE i # n + 1
        <5>1. i \in 2..n /\ d[i] = c[i] /\ d[i - 1] = c[i - 1]
          BY <4>2
        <5> QED
          BY <2>2, <5>1 DEF PartialConcats
      <4> QED
        BY <4>1, <4>2
    <3> QED
      BY <3>3, <3>4, <3>5 DEF PartialConcats
  <2> QED
    BY <2>3, <2>4
<1>3. Nat \subseteq T
  <2> HIDE DEF T
  <2> QED
    BY <1>1, <1>2, SetInduction
<1> QED
  BY <1>3

(* FlattenSeq is the last of them, also for a prefix of the list.          *)
LEMMA FlattenIsPartialConcat ==
    ASSUME NEW X, NEW u \in Seq(Seq(X)), NEW v \in Seq(Seq(X)), NEW c,
           NEW n \in Nat, PartialConcats(c, v, X, n), Len(u) # 0, Len(u) <= n,
           \A i \in 1..Len(u) : u[i] = v[i]
    PROVE  FlattenSeq(u) = c[Len(u)]
<1> DEFINE Eq(f) == f = [i \in 1..Len(u) |-> IF i = 1 THEN u[i] ELSE f[i - 1] \o u[i]]
           F == CHOOSE f : Eq(f)
<1>1. PICK r : PartialConcats(r, u, X, Len(u))
  BY PartialConcatsExist
<1>2. Eq(r)
  <2>1. Len(u) >= 1 /\ Len(u) \in Nat
    OBVIOUS
  <2>2. r = [i \in 1..Len(u) |-> r[i]]
    BY <1>1 DEF PartialConcats
  <2>3. ASSUME NEW i \in 1..Len(u)
        PROVE  r[i] = IF i = 1 THEN u[i] ELSE r[i - 1] \o u[i]
    <3>1. i = 1 \/ i \in 2..Len(u)
      BY <2>1
    <3> QED
      BY <1>1, <2>1, <3>1 DEF PartialConcats
  <2> QED
    BY <2>2, <2>3
<1>3. Eq(F)
  <2> HIDE DEF Eq
  <2> QED
    BY <1>2, Zenon
<1>4. FlattenSeq(u) = F[Len(u)]
  BY DEF FlattenSeq
<1>5. F[1] = u[1] /\ \A i \in 2..Len(u) : F[i] = F[i - 1] \o u[i]
  <2> HIDE DEF F
  <2>1. \A i \in 1..Len(u) : F[i] = IF i = 1 THEN u[i] ELSE F[i - 1] \o u[i]
    BY <1>3
  <2>2. 1 \in 1..Len(u) /\ \A i \in 2..Len(u) : i \in 1..Len(u) /\ i # 1
    OBVIOUS
  <2> HIDE DEF Eq
  <2> QED
    BY <2>1, <2>2
<1> HIDE DEF F
<1> DEFINE T == {k \in Nat : k + 1 <= Len(u) => F[k + 1] = c[k + 1]}
<1>6. 0 \in T
  BY <1>5 DEF PartialConcats
<1>7. ASSUME NEW k \in Nat, k \in T PROVE k + 1 \in T
  <2> SUFFICES ASSUME k + 2 <= Len(u) PROVE F[k + 2] = c[k + 2]
    OBVIOUS
  <2>1. k + 2 \in 2..Len(u) /\ k + 2 \in 2..n /\ (k + 2) - 1 = k + 1
           /\ k + 1 <= Len(u) /\ k + 2 \in 1..Len(u)
    OBVIOUS
  <2>2. F[k + 2] = F[k + 1] \o u[k + 2]
    BY <1>5, <2>1
  <2>3. c[k + 2] = c[k + 1] \o v[k + 2]
    BY <2>1 DEF PartialConcats
  <2>4. F[k + 1] = c[k + 1] /\ u[k + 2] = v[k + 2]
    BY <1>7, <2>1
  <2> QED
    BY <2>2, <2>3, <2>4
<1>8. Nat \subseteq T
  <2> HIDE DEF T
  <2> QED
    BY <1>6, <1>7, SetInduction
<1>9. Len(u) - 1 \in Nat /\ (Len(u) - 1) + 1 = Len(u)
  OBVIOUS
<1>10. F[(Len(u) - 1) + 1] = c[(Len(u) - 1) + 1]
  <2>1. Len(u) - 1 \in T
    <3> HIDE DEF T
    <3> QED
      BY <1>8, <1>9
  <2> QED
    BY <1>9, <2>1
<1> QED
  BY <1>4, <1>9, <1>10

LEMMA FlattenEmpty == FlattenSeq(<<>>) = <<>>
  BY DEF FlattenSeq

LEMMA FlattenAppend ==
    ASSUME NEW X, NEW seqs \in Seq(Seq(X)), NEW s \in Seq(X)
    PROVE  /\ FlattenSeq(seqs) \in Seq(X)
           /\ FlattenSeq(Append(seqs, s)) = FlattenSeq(seqs) \o s
<1> DEFINE v == Append(seqs, s)
<1>1. /\ v \in Seq(Seq(X)) /\ Len(v) = Len(seqs) + 1 /\ v[Len(v)] = s
      /\ \A i \in 1..Len(seqs) : seqs[i] = v[i]
      /\ Len(seqs) \in Nat
  OBVIOUS
<1> HIDE DEF v
<1>2. PICK c : PartialConcats(c, v, X, Len(v))
  BY <1>1, PartialConcatsExist
<1>3. FlattenSeq(v) = c[Len(v)]
  BY <1>1, <1>2, FlattenIsPartialConcat
<1>4. CASE Len(seqs) = 0
  <2>1. seqs = <<>> /\ FlattenSeq(seqs) = <<>>
    BY <1>4, FlattenEmpty
  <2>2. c[Len(v)] = s
    BY <1>1, <1>2, <1>4 DEF PartialConcats
  <2> QED
    <3>1. <<>> \o s = s /\ <<>> \in Seq(X)
      OBVIOUS
    <3> QED
      BY <1>3, <2>1, <2>2, <3>1 DEF v
<1>5. CASE Len(seqs) # 0
  <2>1. FlattenSeq(seqs) = c[Len(seqs)]
    <3>1. Len(v) \in Nat /\ Len(seqs) <= Len(v)
      BY <1>1
    <3> HIDE DEF PartialConcats
    <3> QED
      BY <1>1, <1>2, <1>5, <3>1, FlattenIsPartialConcat
  <2>2. Len(v) \in 2..Len(v) /\ Len(v) - 1 = Len(seqs) /\ Len(seqs) \in 1..Len(v)
    BY <1>1, <1>5
  <2>3. c[Len(v)] = c[Len(seqs)] \o v[Len(v)] /\ c[Len(seqs)] \in Seq(X)
    BY <1>2, <2>2 DEF PartialConcats
  <2> QED
    BY <1>1, <1>3, <2>1, <2>3 DEF v
<1> QED
  BY <1>4, <1>5

LEMMA FlattenType ==
    ASSUME NEW X, NEW seqs \in Seq(Seq(X)) PROVE FlattenSeq(seqs) \in Seq(X)
<1>1. <<>> \in Seq(X)
  OBVIOUS
<1> QED
  BY <1>1, FlattenAppend

(* Every member of a flattened list is a member of one of its lists.       *)
LEMMA FlattenMember ==
    ASSUME NEW X, NEW seqs \in Seq(Seq(X)), NEW i \in 1..Len(FlattenSeq(seqs))
    PROVE  \E k \in 1..Len(seqs) : \E j \in 1..Len(seqs[k]) :
               FlattenSeq(seqs)[i] = seqs[k][j]
<1> DEFINE In(q, x) == \E k \in 1..Len(q) : \E j \in 1..Len(q[k]) : x = q[k][j]
           T == {q \in Seq(Seq(X)) : \A m \in 1..Len(FlattenSeq(q)) :
                                         In(q, FlattenSeq(q)[m])}
<1>1. <<>> \in T
  BY FlattenEmpty
<1>2. ASSUME NEW q \in Seq(Seq(X)), NEW s \in Seq(X), q \in T
      PROVE  Append(q, s) \in T
  <2> DEFINE r == Append(q, s)
             F == FlattenSeq(q)
  <2>1. /\ r \in Seq(Seq(X)) /\ Len(r) = Len(q) + 1 /\ r[Len(q) + 1] = s
        /\ \A k \in 1..Len(q) : r[k] = q[k]
        /\ Len(q) \in Nat
    OBVIOUS
  <2>2. F \in Seq(X) /\ FlattenSeq(r) = F \o s
    BY FlattenAppend
  <2>3. \A m \in 1..Len(F) : In(q, F[m])
    BY <1>2
  <2> HIDE DEF r, F
  <2>4. ASSUME NEW m \in 1..Len(F \o s) PROVE In(r, (F \o s)[m])
    <3>1. Len(F \o s) = Len(F) + Len(s) /\ Len(F) \in Nat /\ Len(s) \in Nat
      BY <2>2
    <3>2. CASE m <= Len(F)
      <4>1. m \in 1..Len(F) /\ (F \o s)[m] = F[m]
        BY <2>2, <3>2
      <4>2. PICK k \in 1..Len(q) : \E j \in 1..Len(q[k]) : F[m] = q[k][j]
        BY <2>3, <4>1
      <4>3. k \in 1..Len(r) /\ r[k] = q[k]
        BY <2>1
      <4> QED
        BY <4>1, <4>2, <4>3
    <3>3. CASE m > Len(F)
      <4>1. m - Len(F) \in 1..Len(s) /\ (F \o s)[m] = s[m - Len(F)]
        BY <2>2, <3>1, <3>3
      <4>2. Len(q) + 1 \in 1..Len(r) /\ r[Len(q) + 1] = s
        BY <2>1
      <4> QED
        BY <4>1, <4>2
    <3> QED
      BY <3>1, <3>2, <3>3
  <2> HIDE DEF In
  <2>5. \A m \in 1..Len(FlattenSeq(r)) : In(r, FlattenSeq(r)[m])
    BY <2>2, <2>4
  <2> QED
    BY <2>1, <2>5 DEF r
<1>3. Seq(Seq(X)) \subseteq T
  <2> HIDE DEF T
  <2> QED
    BY <1>1, <1>2, SequenceInduction
<1> QED
  BY <1>3

-----------------------------------------------------------------------------
(* Statistics of a list of files: the sum of what each of them weighs.     *)

Weigh(files, weight) == SumOf([i \in DOMAIN files |-> weight[files[i]]])

LEMMA WeighEmpty == ASSUME NEW weight PROVE Weigh(<<>>, weight) = 0
<1>1. [i \in DOMAIN <<>> |-> weight[<<>>[i]]] = <<>>
  OBVIOUS
<1> QED
  BY <1>1, SumEmpty DEF Weigh

LEMMA WeighType ==
    ASSUME NEW X, NEW weight \in [X -> Int], NEW files \in Seq(X)
    PROVE  Weigh(files, weight) \in Int
<1>1. [i \in DOMAIN files |-> weight[files[i]]] \in Seq(Int)
  OBVIOUS
<1> QED
  BY <1>1, SumType DEF Weigh

LEMMA WeighAppend ==
    ASSUME NEW X, NEW weight \in [X -> Int], NEW files \in Seq(X), NEW f \in X
    PROVE  Weigh(Append(files, f), weight) = Weigh(files, weight) + weight[f]
<1> DEFINE w == [i \in DOMAIN files |-> weight[files[i]]]
           g == Append(files, f)
<1>1. w \in Seq(Int) /\ weight[f] \in Int
  OBVIOUS
<1>2. [i \in DOMAIN g |-> weight[g[i]]] = Append(w, weight[f])
  <2>1. /\ g \in Seq(X) /\ Len(g) = Len(files) + 1 /\ g[Len(files) + 1] = f
        /\ \A i \in 1..Len(files) : g[i] = files[i]
        /\ Len(files) \in Nat
    OBVIOUS
  <2>2. Append(w, weight[f])
           = [i \in 1..(Len(files) + 1) |->
                 IF i = Len(files) + 1 THEN weight[f] ELSE weight[files[i]]]
    BY <1>1
  <2> HIDE DEF g
  <2>3. DOMAIN g = 1..(Len(files) + 1)
    BY <2>1
  <2> QED
    BY <2>1, <2>2, <2>3
<1> HIDE DEF w
<1> QED
  BY <1>1, <1>2, SumAppend DEF Weigh, w

LEMMA WeighConcat ==
    ASSUME NEW X, NEW weight \in [X -> Int], NEW u \in Seq(X), NEW v \in Seq(X)
    PROVE  Weigh(u \o v, weight) = Weigh(u, weight) + Weigh(v, weight)
<1> DEFINE Of(s) == [i \in DOMAIN s |-> weight[s[i]]]
<1>1. Of(u) \in Seq(Int) /\ Of(v) \in Seq(Int)
  OBVIOUS
<1>2. Of(u \o v) = Of(u) \o Of(v)
  <2>1. /\ DOMAIN (u \o v) = 1..(Len(u) + Len(v))
        /\ \A i \in 1..(Len(u) + Len(v)) :
              (u \o v)[i] = IF i <= Len(u) THEN u[i] ELSE v[i - Len(u)]
    OBVIOUS
  <2>2. /\ Len(Of(u)) = Len(u) /\ Len(Of(v)) = Len(v)
        /\ \A i \in 1..Len(u) : Of(u)[i] = weight[u[i]]
        /\ \A i \in 1..Len(v) : Of(v)[i] = weight[v[i]]
        /\ Len(u) \in Nat /\ Len(v) \in Nat
    OBVIOUS
  <2>3. Of(u \o v) = [i \in 1..(Len(u) + Len(v)) |-> weight[(u \o v)[i]]]
    BY <2>1
  <2> HIDE DEF Of
  <2>4. Of(u) \o Of(v)
           = [i \in 1..(Len(u) + Len(v)) |->
                 IF i <= Len(u) THEN Of(u)[i] ELSE Of(v)[i - Len(u)]]
    <3>1. Of(u) \o Of(v)
              = [i \in 1..(Len(Of(u)) + Len(Of(v))) |->
                    IF i <= Len(Of(u)) THEN Of(u)[i] ELSE Of(v)[i - Len(Of(u))]]
      BY <1>1, ConcatDefinition
    <3> QED
      BY <2>2, <3>1
  <2>5. ASSUME NEW i \in 1..(Len(u) + Len(v))
        PROVE  weight[(u \o v)[i]]
                   = IF i <= Len(u) THEN Of(u)[i] ELSE Of(v)[i - Len(u)]
    <3>1. CASE i <= Len(u)
      <4>1. i \in 1..Len(u)
        BY <2>2, <3>1
      <4> QED
        BY <2>1, <2>2, <3>1, <4>1
    <3>2. CASE ~(i <= Len(u))
      <4>1. i - Len(u) \in 1..Len(v)
        BY <2>2, <3>2
      <4> QED
        BY <2>1, <2>2, <3>2, <4>1
    <3> QED
      BY <3>1, <3>2
  <2> QED
    BY <2>3, <2>4, <2>5
<1> HIDE DEF Of
<1> QED
  BY <1>1, <1>2, SumConcat DEF Weigh, Of

LEMMA WeighFlatten ==
    ASSUME NEW X, NEW weight \in [X -> Int], NEW seqs \in Seq(Seq(X))
    PROVE  Weigh(FlattenSeq(seqs), weight)
               = SumOf([k \in DOMAIN seqs |-> Weigh(seqs[k], weight)])
<1> DEFINE Each(q) == [k \in DOMAIN q |-> Weigh(q[k], weight)]
           T == {q \in Seq(Seq(X)) :
                    Weigh(FlattenSeq(q), weight) = SumOf(Each(q))}
<1>1. <<>> \in T
  <2>1. Each(<<>>) = <<>>
    OBVIOUS
  <2> HIDE DEF Each
  <2> QED
    BY <2>1, FlattenEmpty, WeighEmpty, SumEmpty
<1>2. ASSUME NEW q \in Seq(Seq(X)), NEW s \in Seq(X), q \in T
      PROVE  Append(q, s) \in T
  <2> DEFINE r == Append(q, s)
  <2>1. /\ r \in Seq(Seq(X)) /\ Len(r) = Len(q) + 1 /\ r[Len(q) + 1] = s
        /\ \A k \in 1..Len(q) : r[k] = q[k]
        /\ Len(q) \in Nat
    OBVIOUS
  <2>2. Each(q) \in Seq(Int) /\ Weigh(s, weight) \in Int
    <3>1. \A k \in 1..Len(q) : q[k] \in Seq(X)
      OBVIOUS
    <3>2. \A k \in 1..Len(q) : Weigh(q[k], weight) \in Int
      BY <3>1, WeighType
    <3>3. Each(q) \in [1..Len(q) -> Int]
      BY <3>2
    <3> HIDE DEF Each
    <3>4. Each(q) \in Seq(Int)
      BY <2>1, <3>3, FunctionIsSequence
    <3> QED
      BY <3>4, WeighType
  <2>3. Each(r) = Append(Each(q), Weigh(s, weight))
    <3>1. Append(Each(q), Weigh(s, weight))
             = [k \in 1..(Len(q) + 1) |->
                   IF k = Len(q) + 1 THEN Weigh(s, weight) ELSE Weigh(q[k], weight)]
      BY <2>2
    <3> HIDE DEF r
    <3>2. DOMAIN r = 1..(Len(q) + 1)
      BY <2>1
    <3> QED
      BY <2>1, <3>1, <3>2
  <2>4. FlattenSeq(q) \in Seq(X) /\ FlattenSeq(r) = FlattenSeq(q) \o s
    BY FlattenAppend
  <2> HIDE DEF Each, r
  <2>5. Weigh(FlattenSeq(r), weight) = Weigh(FlattenSeq(q), weight) + Weigh(s, weight)
    BY <2>4, WeighConcat
  <2>6. SumOf(Each(r)) = SumOf(Each(q)) + Weigh(s, weight)
    BY <2>2, <2>3, SumAppend
  <2> QED
    BY <1>2, <2>1, <2>5, <2>6 DEF r
<1>3. Seq(Seq(X)) \subseteq T
  <2> HIDE DEF T
  <2> QED
    BY <1>1, <1>2, SequenceInduction
<1> QED
  BY <1>3

-----------------------------------------------------------------------------
(* The weights behind the statistics of TableStats.                        *)
MbIn(S, part)    == [f \in File(S) |-> IF f.partition = part THEN f.mb ELSE 0]
RowsIn(S, part)  == [f \in File(S) |-> IF f.partition = part THEN f.rows ELSE 0]
CountIn(S, part) == [f \in File(S) |-> IF f.partition = part THEN 1 ELSE 0]
Mb(S)            == [f \in File(S) |-> f.mb]
Rows(S)          == [f \in File(S) |-> f.rows]

LEMMA WeightTypes ==
    ASSUME NEW S, NEW part
    PROVE  /\ MbIn(S, part) \in [File(S) -> Int]
           /\ RowsIn(S, part) \in [File(S) -> Int]
           /\ CountIn(S, part) \in [File(S) -> Int]
           /\ Mb(S) \in [File(S) -> Int]
           /\ Rows(S) \in [File(S) -> Int]
  BY DEF MbIn, RowsIn, CountIn, Mb, Rows, File

LEMMA StatisticsAreWeights ==
    ASSUME NEW S, NEW part, NEW files \in Seq(File(S))
    PROVE  /\ PartMb(files, part) = Weigh(files, MbIn(S, part))
           /\ PartRows(files, part) = Weigh(files, RowsIn(S, part))
           /\ PartCount(files, part) = Weigh(files, CountIn(S, part))
           /\ TotalMb(files) = Weigh(files, Mb(S))
           /\ TotalRows(files) = Weigh(files, Rows(S))
<1>1. \A i \in DOMAIN files : files[i] \in File(S)
  OBVIOUS
<1>2. /\ [i \in DOMAIN files |-> IF files[i].partition = part THEN files[i].mb ELSE 0]
             = [i \in DOMAIN files |-> MbIn(S, part)[files[i]]]
      /\ [i \in DOMAIN files |-> IF files[i].partition = part THEN files[i].rows ELSE 0]
             = [i \in DOMAIN files |-> RowsIn(S, part)[files[i]]]
      /\ [i \in DOMAIN files |-> IF files[i].partition = part THEN 1 ELSE 0]
             = [i \in DOMAIN files |-> CountIn(S, part)[files[i]]]
      /\ [i \in DOMAIN files |-> files[i].mb] = [i \in DOMAIN files |-> Mb(S)[files[i]]]
      /\ [i \in DOMAIN files |-> files[i].rows]
             = [i \in DOMAIN files |-> Rows(S)[files[i]]]
  BY <1>1 DEF MbIn, RowsIn, CountIn, Mb, Rows
<1> QED
  BY <1>2 DEF Weigh, PartMb, PartRows, PartCount, TotalMb, TotalRows

(* Bytes and counts are natural numbers, rows are integers.                *)
LEMMA StatisticsTypes ==
    ASSUME NEW S, NEW part, NEW files \in Seq(File(S))
    PROVE  /\ PartMb(files, part) \in Nat
           /\ PartRows(files, part) \in Int
           /\ PartCount(files, part) \in Nat
           /\ TotalMb(files) \in Nat
           /\ TotalRows(files) \in Int
<1>1. /\ [i \in DOMAIN files |-> IF files[i].partition = part THEN files[i].mb ELSE 0]
             \in Seq(Nat)
      /\ [i \in DOMAIN files |-> IF files[i].partition = part THEN 1 ELSE 0] \in Seq(Nat)
      /\ [i \in DOMAIN files |-> files[i].mb] \in Seq(Nat)
  <2>1. \A i \in 1..Len(files) : files[i].mb \in Nat
    <3>1. \A i \in 1..Len(files) : files[i] \in File(S)
      OBVIOUS
    <3> QED
      BY <3>1 DEF File
  <2>2. Len(files) \in Nat /\ DOMAIN files = 1..Len(files)
    OBVIOUS
  <2>3. /\ [i \in DOMAIN files |-> IF files[i].partition = part THEN files[i].mb ELSE 0]
               \in [1..Len(files) -> Nat]
        /\ [i \in DOMAIN files |-> IF files[i].partition = part THEN 1 ELSE 0]
               \in [1..Len(files) -> Nat]
        /\ [i \in DOMAIN files |-> files[i].mb] \in [1..Len(files) -> Nat]
    BY <2>1, <2>2
  <2> QED
    BY <2>2, <2>3, FunctionIsSequence
<1>2. PartRows(files, part) \in Int /\ TotalRows(files) \in Int
  <2>1. RowsIn(S, part) \in [File(S) -> Int] /\ Rows(S) \in [File(S) -> Int]
    BY WeightTypes
  <2>2. Weigh(files, RowsIn(S, part)) \in Int /\ Weigh(files, Rows(S)) \in Int
    BY <2>1, WeighType
  <2> QED
    BY <2>2, StatisticsAreWeights
<1> QED
  BY <1>1, <1>2, SumIsNatural DEF PartMb, PartCount, TotalMb

-----------------------------------------------------------------------------
(* The order in which compaction takes the partitions.                     *)

\* Does some file lie in the partition?
Names(files, part) == \E j \in 1..Len(files) : files[j].partition = part

LEMMA NamesAppend ==
    ASSUME NEW S, NEW files \in Seq(File(S)), NEW f \in File(S), NEW part
    PROVE  Names(Append(files, f), part) <=> Names(files, part) \/ f.partition = part
<1> DEFINE g == Append(files, f)
<1>1. /\ Len(g) = Len(files) + 1 /\ g[Len(files) + 1] = f
      /\ \A j \in 1..Len(files) : g[j] = files[j]
      /\ Len(files) \in Nat
  OBVIOUS
<1> HIDE DEF g
<1>2. ASSUME Names(g, part) PROVE Names(files, part) \/ f.partition = part
  <2>1. PICK j \in 1..Len(g) : g[j].partition = part
    BY <1>2 DEF Names
  <2>2. j \in 1..Len(files) \/ j = Len(files) + 1
    BY <1>1
  <2> QED
    BY <1>1, <2>1, <2>2 DEF Names
<1>3. ASSUME Names(files, part) \/ f.partition = part PROVE Names(g, part)
  <2>1. 1..Len(files) \subseteq 1..Len(g) /\ Len(files) + 1 \in 1..Len(g)
    BY <1>1
  <2> QED
    BY <1>1, <1>3, <2>1 DEF Names
<1> QED
  BY <1>2, <1>3 DEF g

LEMMA OrderAppend ==
    ASSUME NEW S, NEW files \in Seq(File(S)), NEW f \in File(S)
    PROVE  /\ PartitionOrder(files) \in Seq(S)
           /\ PartitionOrder(Append(files, f))
                  = IF Names(files, f.partition) THEN PartitionOrder(files)
                    ELSE Append(PartitionOrder(files), f.partition)
<1> DEFINE g    == Append(files, f)
           n    == Len(files)
           K(s) == [i \in DOMAIN s |-> NewKey(s, i)]
           new  == IF Names(files, f.partition) THEN <<>> ELSE <<f.partition>>
<1>1. /\ g \in Seq(File(S)) /\ Len(g) = n + 1 /\ g[n + 1] = f
      /\ \A j \in 1..n : g[j] = files[j] /\ files[j] \in File(S)
      /\ n \in Nat /\ DOMAIN files = 1..n /\ f.partition \in S
  <2>1. f.partition \in S
    BY DEF File
  <2> QED
    BY <2>1
<1> HIDE DEF g, n
<1>2. K(files) \in Seq(Seq(S)) /\ Len(K(files)) = n
  <2>1. ASSUME NEW i \in 1..n PROVE NewKey(files, i) \in Seq(S)
    <3>1. files[i].partition \in S
      BY <1>1 DEF File
    <3> QED
      BY <3>1 DEF NewKey
  <2>2. K(files) \in [1..n -> Seq(S)]
    BY <1>1, <2>1
  <2> HIDE DEF K
  <2> QED
    BY <1>1, <2>2, FunctionIsSequence
<1>3. ASSUME NEW i \in 1..n PROVE NewKey(g, i) = NewKey(files, i)
  <2>1. \A j \in 1..(i - 1) : j \in 1..n
    BY <1>1
  <2> QED
    BY <1>1, <2>1 DEF NewKey, IsFirst
<1>4. NewKey(g, n + 1) = new /\ new \in Seq(S)
  <2>1. (n + 1) - 1 = n
    BY <1>1
  <2>2. IsFirst(g, n + 1) <=> ~Names(files, f.partition)
    BY <1>1, <2>1 DEF IsFirst, Names, n
  <2> QED
    BY <1>1, <2>2 DEF NewKey
<1>5. K(g) = Append(K(files), new)
  <2>1. Append(K(files), new)
           = [i \in 1..(n + 1) |-> IF i = n + 1 THEN new ELSE NewKey(files, i)]
    <3>1. \A i \in 1..n : K(files)[i] = NewKey(files, i)
      BY <1>1
    <3> HIDE DEF K, new
    <3>2. Append(K(files), new)
              = [i \in 1..(n + 1) |-> IF i = n + 1 THEN new ELSE K(files)[i]]
      BY <1>2, <1>4, AppendDefinition
    <3>3. \A i \in 1..(n + 1) : i = n + 1 \/ i \in 1..n
      BY <1>1
    <3> QED
      BY <3>1, <3>2, <3>3
  <2>2. K(g) = [i \in 1..(n + 1) |-> NewKey(g, i)]
    BY <1>1
  <2>3. ASSUME NEW i \in 1..(n + 1)
        PROVE  NewKey(g, i) = IF i = n + 1 THEN new ELSE NewKey(files, i)
    <3>1. i = n + 1 \/ i \in 1..n
      BY <1>1
    <3> QED
      BY <1>1, <1>3, <1>4, <3>1
  <2> HIDE DEF K, new
  <2> QED
    BY <2>1, <2>2, <2>3
<1>6. PartitionOrder(files) = FlattenSeq(K(files)) /\ PartitionOrder(g) = FlattenSeq(K(g))
  BY DEF PartitionOrder, NewKeys
<1> HIDE DEF K, new
<1>7. PartitionOrder(files) \in Seq(S)
         /\ PartitionOrder(g) = PartitionOrder(files) \o new
  BY <1>2, <1>4, <1>5, <1>6, FlattenAppend
<1>8. CASE Names(files, f.partition)
  <2>1. new = <<>> /\ PartitionOrder(files) \o <<>> = PartitionOrder(files)
    BY <1>7, <1>8 DEF new
  <2> QED
    BY <1>7, <1>8, <2>1 DEF g
<1>9. CASE ~Names(files, f.partition)
  <2>1. new = <<f.partition>>
    BY <1>9 DEF new
  <2>2. Append(PartitionOrder(files), f.partition)
           = PartitionOrder(files) \o <<f.partition>>
    BY <1>1, <1>7, AppendIsConcat
  <2> QED
    BY <1>7, <1>9, <2>1, <2>2 DEF g
<1> QED
  BY <1>8, <1>9

LEMMA OrderEmpty == PartitionOrder(<<>>) = <<>>
<1>1. [i \in DOMAIN <<>> |-> NewKey(<<>>, i)] = <<>>
  OBVIOUS
<1> QED
  BY <1>1, FlattenEmpty DEF PartitionOrder, NewKeys

(* It names every partition once.                                          *)
IsOrderOf(parts, files) ==
    /\ \A k, m \in 1..Len(parts) : parts[k] = parts[m] => k = m
    /\ \A k \in 1..Len(parts) : Names(files, parts[k])
    /\ \A j \in 1..Len(files) : \E k \in 1..Len(parts) : parts[k] = files[j].partition

LEMMA OrderNamesEachOnce ==
    ASSUME NEW S, NEW files \in Seq(File(S))
    PROVE  PartitionOrder(files) \in Seq(S) /\ IsOrderOf(PartitionOrder(files), files)
<1> DEFINE T == {s \in Seq(File(S)) : /\ PartitionOrder(s) \in Seq(S)
                                      /\ IsOrderOf(PartitionOrder(s), s)}
<1>1. <<>> \in T
  <2>1. <<>> \in Seq(S) /\ <<>> \in Seq(File(S)) /\ Len(<<>>) = 0
    OBVIOUS
  <2>2. IsOrderOf(<<>>, <<>>)
    BY <2>1 DEF IsOrderOf
  <2> QED
    BY <2>1, <2>2, OrderEmpty
<1>2. ASSUME NEW s \in Seq(File(S)), NEW f \in File(S), s \in T
      PROVE  Append(s, f) \in T
  <2> DEFINE g     == Append(s, f)
             parts == PartitionOrder(s)
             more  == PartitionOrder(g)
  <2>1. /\ g \in Seq(File(S)) /\ Len(g) = Len(s) + 1 /\ g[Len(s) + 1] = f
        /\ \A j \in 1..Len(s) : g[j] = s[j]
        /\ Len(s) \in Nat /\ f.partition \in S
    BY DEF File
  <2>2. /\ parts \in Seq(S)
        /\ more = IF Names(s, f.partition) THEN parts ELSE Append(parts, f.partition)
    BY OrderAppend
  <2>3. IsOrderOf(parts, s)
    BY <1>2
  <2>4. \A part : Names(g, part) <=> Names(s, part) \/ f.partition = part
    BY NamesAppend
  <2>5. \A j \in 1..Len(g) : j \in 1..Len(s) \/ j = Len(s) + 1
    BY <2>1
  <2> HIDE DEF g, parts, more
  <2>6. CASE Names(s, f.partition)
    <3>1. more = parts
      BY <2>2, <2>6
    <3>2. PICK j0 \in 1..Len(s) : s[j0].partition = f.partition
      BY <2>6 DEF Names
    <3>3. PICK k0 \in 1..Len(parts) : parts[k0] = f.partition
      BY <2>3, <3>2 DEF IsOrderOf
    <3>4. \A j \in 1..Len(g) : \E k \in 1..Len(parts) : parts[k] = g[j].partition
      BY <2>1, <2>3, <2>5, <3>3 DEF IsOrderOf
    <3>5. \A k \in 1..Len(parts) : Names(g, parts[k])
      BY <2>3, <2>4 DEF IsOrderOf
    <3> QED
      BY <2>1, <2>2, <2>3, <3>1, <3>4, <3>5 DEF IsOrderOf, g, more
  <2>7. CASE ~Names(s, f.partition)
    <3>1. /\ more \in Seq(S) /\ Len(more) = Len(parts) + 1
          /\ more[Len(parts) + 1] = f.partition
          /\ \A k \in 1..Len(parts) : more[k] = parts[k]
          /\ Len(parts) \in Nat
      BY <2>1, <2>2, <2>7
    <3>2. \A k \in 1..Len(more) : k \in 1..Len(parts) \/ k = Len(parts) + 1
      BY <3>1
    <3>3. \A k \in 1..Len(parts) : parts[k] # f.partition
      BY <2>3, <2>7 DEF IsOrderOf
    <3>4. ASSUME NEW k \in 1..Len(more), NEW m \in 1..Len(more), more[k] = more[m]
          PROVE  k = m
      BY <2>3, <3>1, <3>2, <3>3, <3>4 DEF IsOrderOf
    <3>5. \A k \in 1..Len(more) : Names(g, more[k])
      BY <2>3, <2>4, <3>1, <3>2 DEF IsOrderOf
    <3>6. ASSUME NEW j \in 1..Len(g)
          PROVE  \E k \in 1..Len(more) : more[k] = g[j].partition
      <4>1. CASE j \in 1..Len(s)
        <5>1. PICK k \in 1..Len(parts) : parts[k] = s[j].partition
          BY <2>3, <4>1 DEF IsOrderOf
        <5>2. k \in 1..Len(more)
          BY <3>1
        <5> QED
          BY <2>1, <3>1, <4>1, <5>1, <5>2
      <4>2. CASE j = Len(s) + 1
        <5>1. Len(parts) + 1 \in 1..Len(more)
          BY <3>1
        <5> QED
          BY <2>1, <3>1, <4>2, <5>1
      <4> QED
        BY <2>5, <4>1, <4>2
    <3> QED
      BY <2>1, <3>1, <3>4, <3>5, <3>6 DEF IsOrderOf, g, more
  <2> QED
    BY <2>6, <2>7
<1>3. Seq(File(S)) \subseteq T
  <2> HIDE DEF T
  <2> QED
    BY <1>1, <1>2, SequenceInduction
<1> QED
  BY <1>3

LEMMA ConcatAppend ==
    ASSUME NEW X, NEW u \in Seq(X), NEW v \in Seq(X), NEW x \in X
    PROVE  u \o Append(v, x) = Append(u \o v, x) /\ u \o v \in Seq(X)
  OBVIOUS

(* A block of files of one new partition adds that partition at the end.   *)
LEMMA OrderOfBlock ==
    ASSUME NEW S, NEW u \in Seq(File(S)), NEW v \in Seq(File(S)), NEW part \in S,
           ~Names(u, part), v # <<>>, \A j \in 1..Len(v) : v[j].partition = part
    PROVE  PartitionOrder(u \o v) = Append(PartitionOrder(u), part)
<1> DEFINE Only(s) == \A j \in 1..Len(s) : s[j].partition = part
           Goal(s) == /\ PartitionOrder(u \o s) = IF s = <<>> THEN PartitionOrder(u)
                                               ELSE Append(PartitionOrder(u), part)
                      /\ Names(u \o s, part) <=> s # <<>>
           T == {s \in Seq(File(S)) : Only(s) => Goal(s)}
<1>1. <<>> \in T
  <2>1. u \o <<>> = u /\ <<>> \in Seq(File(S))
    OBVIOUS
  <2> QED
    BY <2>1
<1>2. ASSUME NEW s \in Seq(File(S)), NEW f \in File(S), s \in T
      PROVE  Append(s, f) \in T
  <2>1. Append(s, f) \in Seq(File(S)) /\ Append(s, f) # <<>>
    BY AppendProperties
  <2> SUFFICES ASSUME Only(Append(s, f)) PROVE Goal(Append(s, f))
    BY <2>1
  <2>2. f.partition = part /\ Only(s)
    <3>1. /\ Len(Append(s, f)) = Len(s) + 1 /\ Append(s, f)[Len(s) + 1] = f
          /\ \A j \in 1..Len(s) : Append(s, f)[j] = s[j]
          /\ Len(s) \in Nat
      OBVIOUS
    <3>2. Len(s) + 1 \in 1..Len(Append(s, f)) /\ 1..Len(s) \subseteq 1..Len(Append(s, f))
      BY <3>1
    <3> QED
      BY <3>1, <3>2
  <2>3. Goal(s)
    BY <1>2, <2>2
  <2>4. u \o Append(s, f) = Append(u \o s, f) /\ u \o s \in Seq(File(S))
    BY ConcatAppend
  <2>5. PartitionOrder(Append(u \o s, f))
            = IF Names(u \o s, part) THEN PartitionOrder(u \o s)
              ELSE Append(PartitionOrder(u \o s), part)
    BY <2>2, <2>4, OrderAppend
  <2>6. Names(Append(u \o s, f), part)
    BY <2>2, <2>4, NamesAppend
  <2> HIDE DEF Only
  <2>7. CASE s = <<>>
    BY <2>1, <2>3, <2>4, <2>5, <2>6, <2>7
  <2>8. CASE s # <<>>
    BY <2>1, <2>3, <2>4, <2>5, <2>6, <2>8
  <2> QED
    BY <2>7, <2>8
<1>3. v \in T
  <2> HIDE DEF T
  <2> QED
    BY <1>1, <1>2, SequenceInduction
<1> QED
  BY <1>3

(* Compaction's output is one block per partition, which keeps the order.  *)
LEMMA OrderOfBlocks ==
    ASSUME NEW S, NEW parts \in Seq(S), NEW blocks \in Seq(Seq(File(S))),
           Len(blocks) = Len(parts),
           \A k, m \in 1..Len(parts) : parts[k] = parts[m] => k = m,
           \A k \in 1..Len(parts) :
               /\ blocks[k] # <<>>
               /\ \A j \in 1..Len(blocks[k]) : blocks[k][j].partition = parts[k]
    PROVE  PartitionOrder(FlattenSeq(blocks)) = parts
<1> DEFINE Lead(k) == SubSeq(blocks, 1, k)
           T == {n \in Nat : n <= Len(parts) =>
                    PartitionOrder(FlattenSeq(Lead(n))) = SubSeq(parts, 1, n)}
<1>1. 0 \in T
  <2>1. Lead(0) = <<>> /\ SubSeq(parts, 1, 0) = <<>>
    OBVIOUS
  <2> QED
    BY <2>1, FlattenEmpty, OrderEmpty
<1>2. ASSUME NEW n \in Nat, n \in T PROVE n + 1 \in T
  <2> SUFFICES ASSUME n + 1 <= Len(parts)
               PROVE  PartitionOrder(FlattenSeq(Lead(n + 1)))
                          = SubSeq(parts, 1, n + 1)
    OBVIOUS
  <2> DEFINE u == FlattenSeq(Lead(n))
             v == blocks[n + 1]
             p == parts[n + 1]
             done == SubSeq(parts, 1, n)
  <2>1. /\ Lead(n) \in Seq(Seq(File(S))) /\ v \in Seq(File(S)) /\ p \in S
        /\ Lead(n + 1) = Append(Lead(n), v)
    OBVIOUS
  <2>2. /\ done \in Seq(S) /\ Len(done) = n /\ \A k \in 1..n : done[k] = parts[k]
        /\ SubSeq(parts, 1, n + 1) = Append(done, p)
    OBVIOUS
  <2>3. n + 1 \in 1..Len(parts) /\ 1..n \subseteq 1..Len(parts) /\ n + 1 \notin 1..n
    OBVIOUS
  <2>4. v # <<>> /\ \A j \in 1..Len(v) : v[j].partition = p
    BY <2>3
  <2>5. \A k \in 1..n : parts[k] # p
    BY <2>3
  <2>6. u \in Seq(File(S)) /\ FlattenSeq(Lead(n + 1)) = u \o v
    <3> HIDE DEF Lead
    <3> QED
      BY <2>1, FlattenAppend
  <2>7. PartitionOrder(u) = done
    BY <1>2
  <2> HIDE DEF Lead, u, v, p, done
  <2>8. ~Names(u, p)
    <3>1. IsOrderOf(done, u)
      BY <2>6, <2>7, OrderNamesEachOnce
    <3> SUFFICES ASSUME NEW j \in 1..Len(u), u[j].partition = p PROVE FALSE
      BY DEF Names
    <3>2. PICK k \in 1..Len(done) : done[k] = u[j].partition
      BY <3>1 DEF IsOrderOf
    <3> QED
      BY <2>2, <2>5, <3>2
  <2>9. PartitionOrder(u \o v) = Append(done, p)
    BY <2>1, <2>4, <2>6, <2>7, <2>8, OrderOfBlock
  <2> QED
    BY <2>2, <2>6, <2>9
<1>3. Nat \subseteq T
  <2> HIDE DEF T
  <2> QED
    BY <1>1, <1>2, SetInduction
<1>4. Lead(Len(blocks)) = blocks /\ SubSeq(parts, 1, Len(parts)) = parts
         /\ Len(parts) \in Nat
  OBVIOUS
<1>5. Len(parts) \in T
  <2> HIDE DEF T
  <2> QED
    BY <1>3, <1>4
<1>6. PartitionOrder(FlattenSeq(Lead(Len(parts)))) = SubSeq(parts, 1, Len(parts))
  BY <1>5
<1> HIDE DEF Lead
<1> QED
  BY <1>4, <1>6

-----------------------------------------------------------------------------
(* One partition, repacked.                                                *)

(* Banker's rounding is off by at most a half.                             *)
LEMMA RoundingError ==
    ASSUME NEW a \in Int, NEW n \in Nat \ {0}
    PROVE  /\ RoundHalfEven(a, n) \in Int
           /\ 2 * (a - n * RoundHalfEven(a, n)) <= n
           /\ 2 * (n * RoundHalfEven(a, n) - a) <= n
<1> DEFINE floor == a \div n
           rest  == a % n
<1>1. floor \in Int /\ rest \in Int /\ a = n * floor + rest /\ 0 <= rest /\ rest < n
  OBVIOUS
<1> HIDE DEF floor, rest
<1>2. n * (floor + 1) = n * floor + n /\ n * floor \in Int
  BY <1>1
<1>3. CASE 2 * rest > n \/ (2 * rest = n /\ floor % 2 = 1)
  <2>1. RoundHalfEven(a, n) = floor + 1
    BY <1>3 DEF RoundHalfEven, floor, rest
  <2> QED
    BY <1>1, <1>2, <1>3, <2>1
<1>4. CASE ~(2 * rest > n \/ (2 * rest = n /\ floor % 2 = 1))
  <2>1. RoundHalfEven(a, n) = floor
    BY <1>4 DEF RoundHalfEven, floor, rest
  <2> QED
    BY <1>1, <1>2, <1>4, <2>1
<1> QED
  BY <1>3, <1>4

LEMMA SumOfConstants ==
    ASSUME NEW c \in Int, NEW n \in Nat
    PROVE  [i \in 1..n |-> c] \in Seq(Int) /\ SumOf([i \in 1..n |-> c]) = n * c
<1> DEFINE W(k) == [i \in 1..k |-> c]
           T == {k \in Nat : SumOf(W(k)) = k * c}
<1>1. \A k \in Nat : W(k) \in Seq(Int) /\ Len(W(k)) = k
  OBVIOUS
<1>2. 0 \in T
  <2>1. W(0) = <<>>
    OBVIOUS
  <2> QED
    BY <2>1, SumEmpty
<1>3. ASSUME NEW k \in Nat, k \in T PROVE k + 1 \in T
  <2>1. W(k + 1) = Append(W(k), c)
    OBVIOUS
  <2>2. SumOf(W(k + 1)) = SumOf(W(k)) + c
    <3> HIDE DEF W
    <3> QED
      BY <1>1, <2>1, SumAppend
  <2>3. (k + 1) * c = k * c + c
    OBVIOUS
  <2> QED
    BY <1>3, <2>2, <2>3
<1>4. Nat \subseteq T
  <2> HIDE DEF T
  <2> QED
    BY <1>2, <1>3, SetInduction
<1> QED
  BY <1>1, <1>4

LEMMA SumOfOnesUpTo ==
    ASSUME NEW r \in Nat, NEW n \in Nat, r <= n
    PROVE  SumOf([i \in 1..n |-> IF i <= r THEN 1 ELSE 0]) = r
<1> DEFINE W(k) == [i \in 1..k |-> IF i <= r THEN 1 ELSE 0]
           T == {k \in Nat : SumOf(W(k)) = IF k <= r THEN k ELSE r}
<1>1. \A k \in Nat : W(k) \in Seq(Int) /\ Len(W(k)) = k
  OBVIOUS
<1>2. 0 \in T
  <2>1. W(0) = <<>>
    OBVIOUS
  <2> QED
    BY <2>1, SumEmpty
<1>3. ASSUME NEW k \in Nat, k \in T PROVE k + 1 \in T
  <2> DEFINE x == IF k + 1 <= r THEN 1 ELSE 0
  <2>1. W(k + 1) = Append(W(k), x)
    OBVIOUS
  <2>2. SumOf(W(k + 1)) = SumOf(W(k)) + x
    <3>1. x \in Int
      OBVIOUS
    <3> HIDE DEF W, x
    <3> QED
      BY <1>1, <2>1, <3>1, SumAppend
  <2> QED
    BY <1>3, <2>2
<1>4. Nat \subseteq T
  <2> HIDE DEF T
  <2> QED
    BY <1>2, <1>3, SetInduction
<1> QED
  BY <1>4

(* The output files of a partition add up to it, in bytes and in rows.     *)
LEMMA SplitMbIsExact ==
    ASSUME NEW total \in Nat, NEW n \in Nat \ {0}
    PROVE  SplitMb(total, n) \in [1..n -> Nat] /\ SumOf(SplitMb(total, n)) = total
<1> DEFINE q == total \div n
           r == total % n
           A == [i \in 1..n |-> q]
           B == [i \in 1..n |-> IF i <= r THEN 1 ELSE 0]
<1>1. q \in Nat /\ r \in Nat /\ r <= n /\ total = n * q + r
  OBVIOUS
<1> HIDE DEF q, r
<1>2. SplitMb(total, n) = [i \in 1..n |-> q + (IF i <= r THEN 1 ELSE 0)]
  BY DEF SplitMb, q, r
<1>3. A \in Seq(Int) /\ B \in Seq(Int) /\ Len(A) = n /\ Len(B) = n
  <2>1. A \in [1..n -> Int] /\ B \in [1..n -> Int]
    BY <1>1
  <2> HIDE DEF A, B
  <2> QED
    BY <2>1, FunctionIsSequence
<1>4. [i \in 1..Len(A) |-> A[i] + B[i]] = SplitMb(total, n)
  BY <1>2, <1>3
<1>5. SumOf(A) = n * q /\ SumOf(B) = r
  BY <1>1, SumOfConstants, SumOfOnesUpTo
<1> HIDE DEF A, B
<1>6. SumOf(SplitMb(total, n)) = SumOf(A) + SumOf(B)
  BY <1>3, <1>4, SumOfSums
<1> QED
  BY <1>1, <1>2, <1>5, <1>6

LEMMA SplitRowsIsExact ==
    ASSUME NEW total \in Int, NEW n \in Nat \ {0}
    PROVE  SplitRows(total, n) \in [1..n -> Int] /\ SumOf(SplitRows(total, n)) = total
<1> DEFINE share == RoundHalfEven(total, n)
           delta == total - n * share
           A == [i \in 1..n |-> share]
           B == [i \in 1..n |-> IF i = n THEN delta ELSE 0]
<1>1. share \in Int /\ n * share \in Int /\ delta \in Int
  BY RoundingError
<1>2. SplitRows(total, n) = [i \in 1..n |-> IF i = n THEN share + delta ELSE share]
  BY DEF SplitRows
<1> HIDE DEF share
<1>3. A \in Seq(Int) /\ B \in Seq(Int) /\ Len(A) = n /\ Len(B) = n
  <2> HIDE DEF delta
  <2> QED
    BY <1>1
<1>4. [i \in 1..Len(A) |-> A[i] + B[i]] = SplitRows(total, n)
  <2> HIDE DEF delta
  <2> QED
    BY <1>1, <1>2, <1>3
<1>5. SumOf(A) = n * share /\ SumOf(B) = delta
  <2>1. n \in 1..Len(B) /\ B[n] = delta /\ \A i \in 1..Len(B) : i # n => B[i] = 0
    BY <1>3
  <2>2. SumOf(A) = n * share
    BY <1>1, SumOfConstants
  <2> HIDE DEF B
  <2>3. SumOf(B) = delta
    BY <1>3, <2>1, SumOfOne
  <2> QED
    BY <2>2, <2>3
<1>6. SumOf(SplitRows(total, n)) = SumOf(A) + SumOf(B)
  <2> HIDE DEF A, B
  <2> QED
    BY <1>3, <1>4, SumOfSums
<1>7. SplitRows(total, n) \in [1..n -> Int]
  <2> HIDE DEF delta
  <2> QED
    BY <1>1, <1>2
<1> QED
  BY <1>1, <1>5, <1>6, <1>7

\* The number of files that bin-packing makes of mb megabytes.
PackedInto(mb, target) ==
    IF CeilDiv(mb, target) > 1 THEN CeilDiv(mb, target) ELSE 1

LEMMA PackedIntoType ==
    ASSUME NEW mb \in Nat, NEW target \in Nat \ {0}
    PROVE  PackedInto(mb, target) \in Nat \ {0}
  BY DEF PackedInto, CeilDiv

(* The output for one partition has a file, lies in that partition, and    *)
(* holds exactly what the partition held.                                  *)
LEMMA BinPackConserves ==
    ASSUME NEW S, NEW files \in Seq(File(S)), NEW part \in S,
           NEW target \in Nat \ {0}, NEW other
    PROVE  LET out == BinPack(files, part, target)
               n   == PackedInto(PartMb(files, part), target)
           IN  /\ out \in Seq(File(S)) /\ Len(out) = n /\ out # <<>>
               /\ \A i \in 1..Len(out) :
                     /\ out[i].partition = part
                     /\ out[i].rows = SplitRows(PartRows(files, part), n)[i]
               /\ PartMb(out, other) = IF other = part THEN PartMb(files, part) ELSE 0
               /\ PartRows(out, other) = IF other = part THEN PartRows(files, part) ELSE 0
               /\ PartCount(out, other) = IF other = part THEN n ELSE 0
<1> DEFINE out   == BinPack(files, part, target)
           total == PartMb(files, part)
           rows  == PartRows(files, part)
           n     == PackedInto(total, target)
           M     == SplitMb(total, n)
           R     == SplitRows(rows, n)
<1>1. total \in Nat /\ rows \in Int
  BY StatisticsTypes
<1>2. n \in Nat \ {0}
  BY <1>1, PackedIntoType
<1>3. M \in [1..n -> Nat] /\ SumOf(M) = total /\ R \in [1..n -> Int] /\ SumOf(R) = rows
  BY <1>1, <1>2, SplitMbIsExact, SplitRowsIsExact
<1>4. out = [i \in 1..n |-> [mb |-> M[i], rows |-> R[i], partition |-> part]]
  BY DEF BinPack, PackedInto
<1> HIDE DEF out, M, R, n, total, rows
<1>5. out \in [1..n -> File(S)]
  BY <1>3, <1>4 DEF File
<1>6. out \in Seq(File(S)) /\ Len(out) = n /\ DOMAIN out = 1..n
  BY <1>2, <1>5, FunctionIsSequence
<1>7. out # <<>>
  BY <1>2, <1>6
<1>8. \A i \in 1..n : /\ out[i].partition = part /\ out[i].mb = M[i]
                      /\ out[i].rows = R[i]
  BY <1>4
<1>9. CASE other = part
  <2>1. [i \in DOMAIN out |-> IF out[i].partition = other THEN out[i].mb ELSE 0] = M
    BY <1>3, <1>6, <1>8, <1>9
  <2>2. [i \in DOMAIN out |-> IF out[i].partition = other THEN out[i].rows ELSE 0] = R
    BY <1>3, <1>6, <1>8, <1>9
  <2>3. [i \in DOMAIN out |-> IF out[i].partition = other THEN 1 ELSE 0]
            = [i \in 1..n |-> 1]
    BY <1>6, <1>8, <1>9
  <2>4. SumOf([i \in 1..n |-> 1]) = n
    <3>1. SumOf([i \in 1..n |-> 1]) = n * 1
      BY <1>2, SumOfConstants
    <3> QED
      BY <1>2, <3>1
  <2>5. PartMb(out, other) = total /\ PartRows(out, other) = rows
           /\ PartCount(out, other) = n
    BY <1>3, <2>1, <2>2, <2>3, <2>4 DEF PartMb, PartRows, PartCount
  <2> QED
    BY <1>6, <1>7, <1>8, <1>9, <2>5 DEF out, total, rows, n, R
<1>10. CASE other # part
  <2> DEFINE Z == [i \in 1..n |-> 0]
  <2>1. /\ [i \in DOMAIN out |-> IF out[i].partition = other THEN out[i].mb ELSE 0] = Z
        /\ [i \in DOMAIN out |-> IF out[i].partition = other THEN out[i].rows ELSE 0] = Z
        /\ [i \in DOMAIN out |-> IF out[i].partition = other THEN 1 ELSE 0] = Z
    BY <1>6, <1>8, <1>10
  <2>2. SumOf(Z) = 0
    <3>1. SumOf(Z) = n * 0
      BY <1>2, SumOfConstants
    <3> QED
      BY <1>2, <3>1
  <2>3. PartMb(out, other) = 0 /\ PartRows(out, other) = 0 /\ PartCount(out, other) = 0
    BY <2>1, <2>2 DEF PartMb, PartRows, PartCount
  <2> QED
    BY <1>6, <1>7, <1>8, <1>10, <2>3 DEF out, total, rows, n, R
<1> QED
  BY <1>9, <1>10

(* What a partition becomes depends on its bytes and rows alone.           *)
LEMMA BinPackDependsOnTotals ==
    ASSUME NEW u, NEW v, NEW part, NEW target,
           PartMb(u, part) = PartMb(v, part), PartRows(u, part) = PartRows(v, part)
    PROVE  BinPack(u, part, target) = BinPack(v, part, target)
  BY DEF BinPack

-----------------------------------------------------------------------------
(* The whole table, rewritten.                                             *)

Blocks(files, target) ==
    [k \in DOMAIN PartitionOrder(files) |->
        BinPack(files, PartitionOrder(files)[k], target)]

Rewritten(files, target) == FlattenSeq(Blocks(files, target))

LEMMA RewriteIs ==
    ASSUME NEW table, NEW target,
           table = [layout |-> table.layout, files |-> table.files,
                    bytes_rewritten_mb |-> table.bytes_rewritten_mb]
    PROVE  RewriteDataFiles(table, target)
               = [layout             |-> table.layout,
                  files              |-> Rewritten(table.files, target),
                  bytes_rewritten_mb |->
                      table.bytes_rewritten_mb + TotalMb(table.files)]
<1> DEFINE t == RewriteDataFiles(table, target)
<1>1. t = [table EXCEPT !.files = Rewritten(table.files, target),
                        !.bytes_rewritten_mb = @ + TotalMb(table.files)]
  BY DEF RewriteDataFiles, Rewritten, Blocks
<1> HIDE DEF t
<1> QED
  BY <1>1 DEF t

LEMMA BlocksType ==
    ASSUME NEW S, NEW files \in Seq(File(S)), NEW target \in Nat \ {0}
    PROVE  /\ PartitionOrder(files) \in Seq(S)
           /\ Blocks(files, target) \in Seq(Seq(File(S)))
           /\ Len(Blocks(files, target)) = Len(PartitionOrder(files))
           /\ DOMAIN Blocks(files, target) = 1..Len(PartitionOrder(files))
           /\ \A k \in 1..Len(PartitionOrder(files)) :
                 /\ PartitionOrder(files)[k] \in S
                 /\ Blocks(files, target)[k]
                        = BinPack(files, PartitionOrder(files)[k], target)
<1> DEFINE parts == PartitionOrder(files)
           n     == Len(parts)
<1>1. parts \in Seq(S)
  BY OrderNamesEachOnce
<1> HIDE DEF parts
<1>2. DOMAIN parts = 1..n /\ n \in Nat /\ \A k \in 1..n : parts[k] \in S
  BY <1>1
<1>3. \A k \in 1..n : BinPack(files, parts[k], target) \in Seq(File(S))
  BY <1>2, BinPackConserves
<1>4. Blocks(files, target) = [k \in 1..n |-> BinPack(files, parts[k], target)]
  BY <1>2 DEF Blocks, parts
<1>5. Blocks(files, target) \in [1..n -> Seq(File(S))]
  BY <1>3, <1>4
<1>6. Blocks(files, target) \in Seq(Seq(File(S))) /\ Len(Blocks(files, target)) = n
         /\ DOMAIN Blocks(files, target) = 1..n
  BY <1>2, <1>5, FunctionIsSequence
<1> QED
  BY <1>1, <1>2, <1>4, <1>6 DEF parts

LEMMA RewrittenType ==
    ASSUME NEW S, NEW files \in Seq(File(S)), NEW target \in Nat \ {0}
    PROVE  Rewritten(files, target) \in Seq(File(S))
  BY BlocksType, FlattenType DEF Rewritten

(* Compaction leaves the order of the partitions as it is.                 *)
LEMMA RewriteKeepsOrder ==
    ASSUME NEW S, NEW files \in Seq(File(S)), NEW target \in Nat \ {0}
    PROVE  PartitionOrder(Rewritten(files, target)) = PartitionOrder(files)
<1> DEFINE parts  == PartitionOrder(files)
           blocks == Blocks(files, target)
<1>1. /\ parts \in Seq(S) /\ blocks \in Seq(Seq(File(S))) /\ Len(blocks) = Len(parts)
      /\ \A k \in 1..Len(parts) :
            /\ parts[k] \in S
            /\ blocks[k] = BinPack(files, parts[k], target)
  BY BlocksType
<1>2. \A k, m \in 1..Len(parts) : parts[k] = parts[m] => k = m
  BY OrderNamesEachOnce DEF IsOrderOf
<1> HIDE DEF parts, blocks
<1>3. ASSUME NEW k \in 1..Len(parts)
      PROVE  /\ blocks[k] # <<>>
             /\ \A j \in 1..Len(blocks[k]) : blocks[k][j].partition = parts[k]
  <2> DEFINE out == BinPack(files, parts[k], target)
  <2>1. blocks[k] = out /\ parts[k] \in S
    BY <1>1
  <2>2. /\ out # <<>> /\ \A j \in 1..Len(out) : out[j].partition = parts[k]
        /\ PartMb(out, parts[k]) = PartMb(files, parts[k])
    BY <2>1, BinPackConserves
  <2> HIDE DEF out
  <2> QED
    BY <2>1, <2>2
<1>4. PartitionOrder(FlattenSeq(blocks)) = parts
  BY <1>1, <1>2, <1>3, OrderOfBlocks
<1> QED
  BY <1>4 DEF Rewritten, parts, blocks

\* No output file outside of the partition weighs anything.
ZeroOutside(S, files, target, part, weight) ==
    \A p \in S \ {part} : Weigh(BinPack(files, p, target), weight) = 0

(* The sum, over the output blocks, of a weight that only the files of one *)
(* partition have.                                                         *)
LEMMA OneBlockWeighs ==
    ASSUME NEW S, NEW files \in Seq(File(S)), NEW target \in Nat \ {0},
           NEW part, NEW weight \in [File(S) -> Int],
           ZeroOutside(S, files, target, part, weight)
    PROVE  Weigh(Rewritten(files, target), weight)
               = IF Names(files, part) THEN Weigh(BinPack(files, part, target), weight)
                                       ELSE 0
<1> DEFINE parts  == PartitionOrder(files)
           blocks == Blocks(files, target)
           n      == Len(parts)
           W      == [k \in DOMAIN blocks |-> Weigh(blocks[k], weight)]
<1>1. /\ parts \in Seq(S) /\ blocks \in Seq(Seq(File(S))) /\ DOMAIN blocks = 1..n
      /\ \A k \in 1..n : /\ parts[k] \in S
                         /\ blocks[k] = BinPack(files, parts[k], target)
  BY BlocksType
<1>2. IsOrderOf(parts, files)
  BY OrderNamesEachOnce
<1>3. Weigh(Rewritten(files, target), weight) = SumOf(W)
  <2> HIDE DEF blocks
  <2> QED
    BY <1>1, WeighFlatten DEF Rewritten, blocks
<1> HIDE DEF parts, blocks
<1>4. /\ \A k \in 1..n : parts[k] # part => W[k] = 0
      /\ \A k \in 1..n : W[k] = Weigh(BinPack(files, parts[k], target), weight)
  BY <1>1 DEF ZeroOutside
<1>5. W \in Seq(Int) /\ Len(W) = n
  <2>1. n \in Nat
    BY <1>1
  <2>2. W = [k \in 1..n |-> W[k]]
    BY <1>1
  <2> HIDE DEF W
  <2>3. \A k \in 1..n : W[k] \in Int
    <3>1. \A k \in 1..n : BinPack(files, parts[k], target) \in Seq(File(S))
      BY <1>1, BinPackConserves
    <3>2. \A b \in Seq(File(S)) : Weigh(b, weight) \in Int
      BY WeighType
    <3> QED
      BY <1>4, <3>1, <3>2
  <2>4. W \in [1..n -> Int]
    BY <2>2, <2>3
  <2> QED
    BY <2>1, <2>4, FunctionIsSequence
<1> HIDE DEF W
<1>6. CASE Names(files, part)
  <2>1. PICK k \in 1..n : parts[k] = part
    BY <1>2, <1>6 DEF IsOrderOf, Names
  <2>2. \A m \in 1..n : m # k => parts[m] # part
    BY <1>2, <2>1 DEF IsOrderOf
  <2>3. \A m \in 1..Len(W) : m # k => W[m] = 0
    BY <1>4, <1>5, <2>2
  <2>4. SumOf(W) = W[k]
    BY <1>5, <2>3, SumOfOne
  <2> QED
    BY <1>3, <1>4, <1>6, <2>1, <2>4
<1>7. CASE ~Names(files, part)
  <2>1. \A m \in 1..Len(W) : W[m] = 0
    BY <1>2, <1>4, <1>5, <1>7 DEF IsOrderOf
  <2>2. SumOf(W) = 0
    BY <1>5, <2>1, SumOfZeros
  <2> QED
    BY <1>3, <1>7, <2>2
<1> QED
  BY <1>6, <1>7

(* A partition that no file names holds nothing.                           *)
LEMMA UnnamedIsEmpty ==
    ASSUME NEW S, NEW files \in Seq(File(S)), NEW part, ~Names(files, part)
    PROVE  PartMb(files, part) = 0 /\ PartRows(files, part) = 0
              /\ PartCount(files, part) = 0
<1> DEFINE n == Len(files)
           Z == [i \in 1..n |-> 0]
<1>1. n \in Nat /\ DOMAIN files = 1..n /\ \A i \in 1..n : files[i].partition # part
  BY DEF Names
<1>2. /\ [i \in DOMAIN files |-> IF files[i].partition = part THEN files[i].mb ELSE 0] = Z
      /\ [i \in DOMAIN files |-> IF files[i].partition = part THEN files[i].rows ELSE 0] = Z
      /\ [i \in DOMAIN files |-> IF files[i].partition = part THEN 1 ELSE 0] = Z
  BY <1>1
<1>3. SumOf(Z) = 0
  <2>1. SumOf(Z) = n * 0
    BY <1>1, SumOfConstants
  <2> QED
    BY <1>1, <2>1
<1> QED
  BY <1>2, <1>3 DEF PartMb, PartRows, PartCount

(* A rewrite moves no row and no byte from one partition to another, and   *)
(* neither loses nor makes up any.                                         *)
THEOREM RewriteConservesContent ==
    ASSUME NEW S, NEW files \in Seq(File(S)), NEW target \in Nat \ {0}, NEW part
    PROVE  /\ PartMb(Rewritten(files, target), part) = PartMb(files, part)
           /\ PartRows(Rewritten(files, target), part) = PartRows(files, part)
<1> DEFINE out == Rewritten(files, target)
<1>1. out \in Seq(File(S))
  BY RewrittenType
<1>2. PartMb(files, part) \in Int /\ PartRows(files, part) \in Int
  BY StatisticsTypes
<1> DEFINE m == MbIn(S, part)
           r == RowsIn(S, part)
<1>3. m \in [File(S) -> Int] /\ r \in [File(S) -> Int]
  BY WeightTypes
<1>4. \A b \in Seq(File(S)) : PartMb(b, part) = Weigh(b, m) /\ PartRows(b, part) = Weigh(b, r)
  BY StatisticsAreWeights
<1> HIDE DEF out, m, r
<1>5. ASSUME NEW p \in S
      PROVE  /\ Weigh(BinPack(files, p, target), m)
                    = IF part = p THEN PartMb(files, part) ELSE 0
             /\ Weigh(BinPack(files, p, target), r)
                    = IF part = p THEN PartRows(files, part) ELSE 0
  <2> DEFINE b == BinPack(files, p, target)
  <2>1. /\ b \in Seq(File(S))
        /\ PartMb(b, part) = IF part = p THEN PartMb(files, p) ELSE 0
        /\ PartRows(b, part) = IF part = p THEN PartRows(files, p) ELSE 0
    BY BinPackConserves
  <2> HIDE DEF b
  <2> QED
    BY <1>4, <2>1 DEF b
<1>6. ZeroOutside(S, files, target, part, m) /\ ZeroOutside(S, files, target, part, r)
  BY <1>5 DEF ZeroOutside
<1>7. /\ Weigh(out, m) = IF Names(files, part)
                         THEN Weigh(BinPack(files, part, target), m) ELSE 0
      /\ Weigh(out, r) = IF Names(files, part)
                         THEN Weigh(BinPack(files, part, target), r) ELSE 0
  <2>1. Weigh(out, m) = IF Names(files, part)
                        THEN Weigh(BinPack(files, part, target), m) ELSE 0
    BY <1>3, <1>6, OneBlockWeighs DEF out
  <2>2. Weigh(out, r) = IF Names(files, part)
                        THEN Weigh(BinPack(files, part, target), r) ELSE 0
    BY <1>3, <1>6, OneBlockWeighs DEF out
  <2> QED
    BY <2>1, <2>2
<1>8. Weigh(out, m) = PartMb(files, part) /\ Weigh(out, r) = PartRows(files, part)
  <2>1. CASE Names(files, part)
    <3>1. part \in S
      <4>1. PICK j \in 1..Len(files) : files[j].partition = part
        BY <2>1 DEF Names
      <4>2. files[j] \in File(S)
        BY <4>1
      <4> QED
        BY <4>1, <4>2 DEF File
    <3> QED
      BY <1>5, <1>7, <2>1, <3>1
  <2>2. CASE ~Names(files, part)
    BY <1>7, <2>2, UnnamedIsEmpty
  <2> QED
    BY <2>1, <2>2
<1> QED
  BY <1>1, <1>4, <1>8 DEF out

(* Repeating a compaction changes nothing: it finds the same totals in the *)
(* same order.                                                             *)
THEOREM RewriteIsIdempotent ==
    ASSUME NEW S, NEW files \in Seq(File(S)), NEW target \in Nat \ {0}
    PROVE  Rewritten(Rewritten(files, target), target) = Rewritten(files, target)
<1> DEFINE out == Rewritten(files, target)
<1>1. PartitionOrder(out) = PartitionOrder(files)
  BY RewriteKeepsOrder
<1>2. \A part : BinPack(out, part, target) = BinPack(files, part, target)
  BY RewriteConservesContent, BinPackDependsOnTotals
<1> HIDE DEF out
<1>3. Blocks(out, target) = Blocks(files, target)
  BY <1>1, <1>2 DEF Blocks
<1> QED
  BY <1>3 DEF Rewritten, out

\* The share of a weight that lies in one partition.
Within(S, weight, part) ==
    [f \in File(S) |-> IF f.partition = part THEN weight[f] ELSE 0]

SumOverParts(S, weight, parts, files) ==
    SumOf([k \in 1..Len(parts) |-> Weigh(files, Within(S, weight, parts[k]))])

(* A total is the sum over the partitions.                                 *)
LEMMA TotalIsSumOfParts ==
    ASSUME NEW S, NEW weight \in [File(S) -> Int], NEW parts \in Seq(S),
           NEW files \in Seq(File(S)), IsOrderOf(parts, files)
    PROVE  Weigh(files, weight) = SumOverParts(S, weight, parts, files)
<1> DEFINE n        == Len(parts)
           Covers(s) == \A j \in 1..Len(s) : \E k \in 1..n : parts[k] = s[j].partition
           Each(s)  == [k \in 1..n |-> Weigh(s, Within(S, weight, parts[k]))]
           T == {s \in Seq(File(S)) : Covers(s) => Weigh(s, weight) = SumOf(Each(s))}
<1>1. n \in Nat /\ \A k \in 1..n : Within(S, weight, parts[k]) \in [File(S) -> Int]
  BY DEF Within
<1>2. ASSUME NEW s \in Seq(File(S)) PROVE Each(s) \in Seq(Int) /\ Len(Each(s)) = n
  <2>1. \A k \in 1..n : Weigh(s, Within(S, weight, parts[k])) \in Int
    BY <1>1, WeighType
  <2>2. Each(s) \in [1..n -> Int]
    BY <2>1
  <2> HIDE DEF Each
  <2> QED
    BY <1>1, <2>2, FunctionIsSequence
<1>3. <<>> \in T
  <2>1. <<>> \in Seq(File(S)) /\ Each(<<>>) = [k \in 1..n |-> 0]
    BY WeighEmpty
  <2>2. SumOf([k \in 1..n |-> 0]) = n * 0
    BY <1>1, SumOfConstants
  <2> HIDE DEF Each
  <2> QED
    <3>1. n * 0 = 0 /\ Weigh(<<>>, weight) = 0
      BY <1>1, WeighEmpty
    <3> QED
      BY <2>1, <2>2, <3>1
<1>4. ASSUME NEW s \in Seq(File(S)), NEW f \in File(S), s \in T
      PROVE  Append(s, f) \in T
  <2> DEFINE g == Append(s, f)
             D == [k \in 1..n |-> IF parts[k] = f.partition THEN weight[f] ELSE 0]
  <2>1. /\ g \in Seq(File(S)) /\ Len(g) = Len(s) + 1 /\ g[Len(s) + 1] = f
        /\ \A j \in 1..Len(s) : g[j] = s[j]
        /\ Len(s) \in Nat
    OBVIOUS
  <2> SUFFICES ASSUME Covers(g) PROVE Weigh(g, weight) = SumOf(Each(g))
    BY <2>1
  <2>2. Covers(s) /\ \E k \in 1..n : parts[k] = f.partition
    <3> HIDE DEF g
    <3>1. 1..Len(s) \subseteq 1..Len(g) /\ Len(s) + 1 \in 1..Len(g)
      BY <2>1
    <3> QED
      BY <2>1, <3>1
  <2>3. Weigh(s, weight) = SumOf(Each(s))
    BY <1>4, <2>2
  <2>4. PICK k0 \in 1..n : parts[k0] = f.partition
    BY <2>2
  <2>5. D \in Seq(Int) /\ Len(D) = n /\ weight[f] \in Int
    <3>1. D \in [1..n -> Int] /\ weight[f] \in Int
      OBVIOUS
    <3> HIDE DEF D
    <3> QED
      BY <1>1, <3>1, FunctionIsSequence
  <2>6. D[k0] = weight[f] /\ \A k \in 1..Len(D) : k # k0 => D[k] = 0
    BY <2>4, <2>5 DEF IsOrderOf
  <2>7. SumOf(D) = weight[f]
    <3> HIDE DEF D
    <3> QED
      BY <2>4, <2>5, <2>6, SumOfOne
  <2>8. Each(g) = [k \in 1..Len(Each(s)) |-> Each(s)[k] + D[k]]
    <3>1. ASSUME NEW k \in 1..n
          PROVE  Weigh(g, Within(S, weight, parts[k]))
                     = Weigh(s, Within(S, weight, parts[k])) + D[k]
      <4> DEFINE w == Within(S, weight, parts[k])
      <4>1. w[f] = D[k]
        BY DEF Within
      <4>2. w \in [File(S) -> Int]
        BY <1>1
      <4> HIDE DEF D, w
      <4>3. Weigh(g, w) = Weigh(s, w) + w[f]
        BY <4>2, WeighAppend
      <4> QED
        BY <4>1, <4>3 DEF w
    <3>2. Len(Each(s)) = n
      BY <1>2
    <3>3. \A k \in 1..n : Each(s)[k] = Weigh(s, Within(S, weight, parts[k]))
      OBVIOUS
    <3> HIDE DEF D, g
    <3> QED
      BY <3>1, <3>2, <3>3
  <2> HIDE DEF D, Each
  <2>9. SumOf(Each(g)) = SumOf(Each(s)) + SumOf(D)
    BY <1>2, <2>5, <2>8, SumOfSums
  <2>10. Weigh(g, weight) = Weigh(s, weight) + weight[f]
    BY WeighAppend
  <2> QED
    BY <2>3, <2>7, <2>9, <2>10
<1>5. files \in T
  <2> HIDE DEF T
  <2> QED
    BY <1>3, <1>4, SequenceInduction
<1>6. Covers(files)
  BY DEF IsOrderOf
<1> QED
  BY <1>5, <1>6 DEF SumOverParts

(* A rewrite keeps the totals of the table.                                *)
THEOREM RewriteConservesTotals ==
    ASSUME NEW S, NEW files \in Seq(File(S)), NEW target \in Nat \ {0}
    PROVE  /\ TotalMb(Rewritten(files, target)) = TotalMb(files)
           /\ TotalRows(Rewritten(files, target)) = TotalRows(files)
<1> DEFINE out   == Rewritten(files, target)
           parts == PartitionOrder(files)
<1>1. out \in Seq(File(S))
  BY RewrittenType
<1>2. parts \in Seq(S) /\ IsOrderOf(parts, files) /\ IsOrderOf(parts, out)
  BY <1>1, OrderNamesEachOnce, RewriteKeepsOrder
<1>3. \A p : PartMb(out, p) = PartMb(files, p) /\ PartRows(out, p) = PartRows(files, p)
  BY RewriteConservesContent
<1> HIDE DEF out, parts
<1>4. \A p : Within(S, Mb(S), p) = MbIn(S, p) /\ Within(S, Rows(S), p) = RowsIn(S, p)
  BY DEF Within, Mb, Rows, MbIn, RowsIn
<1>5. Mb(S) \in [File(S) -> Int] /\ Rows(S) \in [File(S) -> Int]
  BY WeightTypes
<1>6. ASSUME NEW s \in Seq(File(S)), IsOrderOf(parts, s)
      PROVE  /\ TotalMb(s) = SumOf([k \in 1..Len(parts) |-> PartMb(s, parts[k])])
             /\ TotalRows(s) = SumOf([k \in 1..Len(parts) |-> PartRows(s, parts[k])])
  <2>1. /\ TotalMb(s) = Weigh(s, Mb(S)) /\ TotalRows(s) = Weigh(s, Rows(S))
        /\ \A p : /\ PartMb(s, p) = Weigh(s, Within(S, Mb(S), p))
                  /\ PartRows(s, p) = Weigh(s, Within(S, Rows(S), p))
    BY <1>4, StatisticsAreWeights
  <2>2. Weigh(s, Mb(S)) = SumOverParts(S, Mb(S), parts, s)
    BY <1>2, <1>5, <1>6, TotalIsSumOfParts
  <2>3. Weigh(s, Rows(S)) = SumOverParts(S, Rows(S), parts, s)
    BY <1>2, <1>5, <1>6, TotalIsSumOfParts
  <2> QED
    BY <2>1, <2>2, <2>3 DEF SumOverParts
<1>7. /\ [k \in 1..Len(parts) |-> PartMb(out, parts[k])]
             = [k \in 1..Len(parts) |-> PartMb(files, parts[k])]
      /\ [k \in 1..Len(parts) |-> PartRows(out, parts[k])]
             = [k \in 1..Len(parts) |-> PartRows(files, parts[k])]
  BY <1>3
<1> QED
  BY <1>1, <1>2, <1>6, <1>7 DEF out

(* How many files a rewrite leaves in a partition.                         *)
LEMMA RewriteCounts ==
    ASSUME NEW S, NEW files \in Seq(File(S)), NEW target \in Nat \ {0}, NEW part \in S,
           Names(files, part)
    PROVE  PartCount(Rewritten(files, target), part)
               = PackedInto(PartMb(files, part), target)
<1> DEFINE out == Rewritten(files, target)
           c   == CountIn(S, part)
<1>1. out \in Seq(File(S))
  BY RewrittenType
<1>2. c \in [File(S) -> Int]
  BY WeightTypes
<1>3. \A b \in Seq(File(S)) : PartCount(b, part) = Weigh(b, c)
  BY StatisticsAreWeights
<1> HIDE DEF out, c
<1>4. ASSUME NEW p \in S
      PROVE  Weigh(BinPack(files, p, target), c)
                 = IF part = p THEN PackedInto(PartMb(files, p), target) ELSE 0
  <2> DEFINE b == BinPack(files, p, target)
  <2>1. /\ b \in Seq(File(S))
        /\ PartCount(b, part)
               = IF part = p THEN PackedInto(PartMb(files, p), target) ELSE 0
    BY BinPackConserves
  <2> HIDE DEF b
  <2> QED
    BY <1>3, <2>1 DEF b
<1>5. ZeroOutside(S, files, target, part, c)
  BY <1>4 DEF ZeroOutside
<1>6. Weigh(out, c) = Weigh(BinPack(files, part, target), c)
  BY <1>2, <1>5, OneBlockWeighs DEF out
<1> QED
  BY <1>1, <1>3, <1>4, <1>6 DEF out

(* No output row count is far from an equal share.                         *)
LEMMA SplitSkew ==
    ASSUME NEW total \in Int, NEW n \in Nat \ {0}, NEW j \in 1..n
    PROVE  LET rows  == SplitRows(total, n)[j]
               bound == IF n > 1 THEN n * (n - 1) ELSE 0
           IN  2 * (n * rows - total) <= bound /\ 2 * (total - n * rows) <= bound
<1> DEFINE share == RoundHalfEven(total, n)
           e     == total - n * share
           rows  == SplitRows(total, n)[j]
           m     == n - 1
<1>1. share \in Int /\ n * share \in Int /\ e \in Int /\ 2 * e <= n /\ 2 * (-e) <= n
  <2>1. share \in Int /\ 2 * e <= n /\ 2 * (n * share - total) <= n
    BY RoundingError
  <2> HIDE DEF share
  <2>2. n * share \in Int
    BY <2>1
  <2> QED
    BY <2>1, <2>2
<1>2. rows = IF j = n THEN share + e ELSE share
  BY DEF SplitRows
<1>3. total = n * share + e
  BY <1>1
<1> HIDE DEF share, e, rows
<1>4. CASE j = n
  <2>1. n * rows - total = m * e
    <3>1. n * (share + e) = n * share + n * e /\ m * e = n * e - e
      BY <1>1
    <3> QED
      BY <1>1, <1>2, <1>3, <1>4, <3>1
  <2>2. m * (2 * e) <= m * n /\ m * (2 * (-e)) <= m * n
    <3>1. m \in Nat
      OBVIOUS
    <3>2. \A x \in Int : x <= n => m * x <= m * n
      BY <3>1
    <3> QED
      BY <1>1, <3>2
  <2>3. m * (2 * e) = 2 * (m * e) /\ m * (2 * (-e)) = -(2 * (m * e)) /\ m * n = n * (n - 1)
    BY <1>1
  <2>4. m * e \in Int /\ total - n * rows = -(m * e)
    <3>1. rows \in Int /\ n * rows \in Int
      BY <1>1, <1>2
    <3> QED
      BY <1>1, <2>1, <3>1
  <2>5. n = 1 => m * e = 0 /\ m * n = 0
    BY <1>1
  <2> QED
    BY <2>1, <2>2, <2>3, <2>4, <2>5 DEF rows
<1>5. CASE j # n
  <2>1. n >= 2 /\ rows = share
    BY <1>2, <1>5
  <2>2. n <= n * (n - 1)
    <3>1. n * (n - 1) = n + n * (n - 2) /\ n * (n - 2) >= 0
      BY <2>1
    <3> QED
      BY <3>1
  <2> QED
    BY <1>1, <1>3, <2>1, <2>2 DEF rows
<1> QED
  BY <1>4, <1>5

(* Every file of a rewritten table holds about its share of its partition. *)
THEOREM RewriteSkew ==
    ASSUME NEW S, NEW files \in Seq(File(S)), NEW target \in Nat \ {0},
           NEW i \in 1..Len(Rewritten(files, target))
    PROVE  LET packed == Rewritten(files, target)
               n      == PartCount(packed, packed[i].partition)
               total  == PartRows(packed, packed[i].partition)
               Bound  == IF n > 1 THEN n * (n - 1) ELSE 0
           IN  /\ 2 * (n * packed[i].rows - total) <= Bound
               /\ 2 * (total - n * packed[i].rows) <= Bound
<1> DEFINE packed == Rewritten(files, target)
           parts  == PartitionOrder(files)
           blocks == Blocks(files, target)
<1>1. /\ blocks \in Seq(Seq(File(S))) /\ Len(blocks) = Len(parts)
      /\ \A k \in 1..Len(parts) :
            parts[k] \in S /\ blocks[k] = BinPack(files, parts[k], target)
  BY BlocksType
<1>2. PICK k \in 1..Len(parts) : \E j \in 1..Len(blocks[k]) : packed[i] = blocks[k][j]
  <2> HIDE DEF blocks, parts
  <2>1. i \in 1..Len(FlattenSeq(blocks)) /\ packed = FlattenSeq(blocks)
    BY DEF Rewritten, blocks
  <2> QED
    <3>1. PICK k \in 1..Len(blocks) : \E j \in 1..Len(blocks[k]) :
              FlattenSeq(blocks)[i] = blocks[k][j]
      BY <1>1, <2>1, FlattenMember
    <3> QED
      BY <1>1, <2>1, <3>1
<1>3. PICK j \in 1..Len(blocks[k]) : packed[i] = blocks[k][j]
  BY <1>2
<1> DEFINE p     == parts[k]
           n     == PackedInto(PartMb(files, p), target)
           total == PartRows(files, p)
<1>4. p \in S /\ blocks[k] = BinPack(files, p, target) /\ Names(files, p)
  <2>1. IsOrderOf(parts, files)
    BY OrderNamesEachOnce
  <2> HIDE DEF parts, blocks
  <2> QED
    BY <1>1, <2>1 DEF IsOrderOf
<1> HIDE DEF blocks, parts, p, packed
<1>5. /\ packed[i].partition = p /\ packed[i].rows = SplitRows(total, n)[j]
      /\ j \in 1..n
      /\ PartMb(BinPack(files, p, target), p) = PartMb(files, p)
  BY <1>3, <1>4, BinPackConserves
<1>6. n \in Nat \ {0} /\ total \in Int
  BY StatisticsTypes, PackedIntoType
<1>7. PartCount(packed, p) = n /\ PartRows(packed, p) = total
  BY <1>4, RewriteCounts, RewriteConservesContent DEF packed
<1> HIDE DEF n, total
<1> QED
  BY <1>5, <1>6, <1>7, SplitSkew DEF packed

-----------------------------------------------------------------------------
(* Whole tables: compaction and flush, with whatever layouts there are.    *)

TablesOver(S, L) == [layout : L, files : Seq(File(S)), bytes_rewritten_mb : Nat]

(* A rewrite of a table is a table.                                        *)
LEMMA RewriteOfTable ==
    ASSUME NEW S, NEW L, NEW t \in TablesOver(S, L), NEW target \in Nat \ {0}
    PROVE  /\ RewriteDataFiles(t, target) \in TablesOver(S, L)
           /\ RewriteDataFiles(t, target).files = Rewritten(t.files, target)
           /\ RewriteDataFiles(t, target).layout = t.layout
<1>1. t = [layout |-> t.layout, files |-> t.files,
           bytes_rewritten_mb |-> t.bytes_rewritten_mb]
         /\ t.layout \in L /\ t.files \in Seq(File(S))
         /\ t.bytes_rewritten_mb \in Nat
  BY DEF TablesOver
<1>2. RewriteDataFiles(t, target)
         = [layout |-> t.layout, files |-> Rewritten(t.files, target),
            bytes_rewritten_mb |-> t.bytes_rewritten_mb + TotalMb(t.files)]
  BY <1>1, RewriteIs
<1>3. TotalMb(t.files) \in Nat /\ Rewritten(t.files, target) \in Seq(File(S))
  BY <1>1, StatisticsTypes, RewrittenType
<1> QED
  BY <1>1, <1>2, <1>3 DEF TablesOver

(* A flush appends its file, and may then compact to the layout's target.  *)
LEMMA IngestOfTable ==
    ASSUME NEW S, NEW L, \A layout \in L : layout.target_file_mb \in Nat \ {0},
           NEW t \in TablesOver(S, L), NEW file \in File(S)
    PROVE  LET grown == Append(t.files, file)
               out   == IngestMicroBatch(t, file)
           IN  /\ out \in TablesOver(S, L) /\ out.layout = t.layout
               /\ grown \in Seq(File(S))
               /\ \/ out.files = grown /\ ~NeedsCompaction(out)
                  \/ out.files = Rewritten(grown, t.layout.target_file_mb)
<1> DEFINE g == [t EXCEPT !.files = Append(@, file)]
<1>1. /\ g \in TablesOver(S, L) /\ g.layout = t.layout
      /\ g.files = Append(t.files, file) /\ Append(t.files, file) \in Seq(File(S))
  BY DEF TablesOver
<1>2. g.layout.target_file_mb \in Nat \ {0}
  <2>1. t.layout \in L
    BY DEF TablesOver
  <2> QED
    BY <1>1, <2>1
<1> HIDE DEF g
<1>3. IngestMicroBatch(t, file) = MaybeAutocompact(g)
  BY DEF IngestMicroBatch, g
<1>4. CASE NeedsCompaction(g)
  <2> DEFINE target == g.layout.target_file_mb
  <2>1. IngestMicroBatch(t, file) = RewriteDataFiles(g, target)
    BY <1>3, <1>4 DEF MaybeAutocompact
  <2>2. target \in Nat \ {0} /\ g \in TablesOver(S, L)
    BY <1>1, <1>2
  <2> HIDE DEF target
  <2>3. /\ RewriteDataFiles(g, target) \in TablesOver(S, L)
        /\ RewriteDataFiles(g, target).files = Rewritten(g.files, target)
        /\ RewriteDataFiles(g, target).layout = g.layout
    BY <2>2, RewriteOfTable
  <2> QED
    BY <1>1, <2>1, <2>3 DEF target
<1>5. CASE ~NeedsCompaction(g)
  BY <1>1, <1>3, <1>5 DEF MaybeAutocompact
<1> QED
  BY <1>4, <1>5

(* One more file adds its rows to the total.                               *)
LEMMA TotalAppend ==
    ASSUME NEW S, NEW files \in Seq(File(S)), NEW file \in File(S)
    PROVE  TotalRows(Append(files, file)) = TotalRows(files) + file.rows
<1> DEFINE g == Append(files, file)
<1>1. Rows(S) \in [File(S) -> Int]
  BY DEF Rows, File
<1>2. g \in Seq(File(S))
  OBVIOUS
<1>3. Weigh(g, Rows(S)) = Weigh(files, Rows(S)) + Rows(S)[file]
  BY <1>1, WeighAppend
<1> HIDE DEF g
<1>4. TotalRows(g) = Weigh(g, Rows(S)) /\ TotalRows(files) = Weigh(files, Rows(S))
  BY <1>2, StatisticsAreWeights
<1> QED
  BY <1>3, <1>4 DEF g, Rows

-----------------------------------------------------------------------------
(* The benchmark.                                                          *)

LEMMA PruningType ==
    ASSUME NEW count \in Nat, NEW granularity
    PROVE  FilesAfterPruning(count, granularity) \in Nat
<1>1. (count * 2) \div 5 \in Int /\ (count * 7) \div 10 \in Int
  OBVIOUS
<1> DEFINE kept == IF granularity = "hour" THEN (count * 2) \div 5
                                          ELSE (count * 7) \div 10
<1>2. kept \in Int
  BY <1>1
<1>3. FilesAfterPruning(count, granularity) = IF kept > 1 THEN kept ELSE 1
  BY DEF FilesAfterPruning
<1> HIDE DEF kept
<1> QED
  BY <1>2, <1>3

LEMMA CostIsMonotone ==
    ASSUME NEW m \in Nat, NEW n \in Nat, m <= n, NEW a \in Nat, NEW b \in Nat, a <= b,
           NEW s \in 0..90
    PROVE  /\ m * 8000 + a * s * 7 \in Nat
           /\ m * 8000 + a * s * 7 <= n * 8000 + b * 90 * 7
<1>1. a * s \in Nat /\ a * s <= a * 90
  OBVIOUS
<1> QED
  BY <1>1

(* No query of the suite costs more than one that reads nine tenths of     *)
(* every file.                                                             *)
LEMMA FullScanIsSlowest ==
    ASSUME NEW S, NEW table, table.files \in Seq(File(S)),
           NEW selectivity \in 0..90, NEW pruned \in BOOLEAN
    PROVE  /\ Scan(table, selectivity, pruned) \in Nat
           /\ Scan(table, selectivity, pruned) <= Scan(table, 90, FALSE)
<1> DEFINE files == table.files
           read  == ScannedFiles(table, pruned)
<1>1. \E k \in 0..Len(files) : read = SubSeq(files, 1, k)
  <2>1. CASE read = files
    <3>1. files = SubSeq(files, 1, Len(files)) /\ Len(files) \in 0..Len(files)
      OBVIOUS
    <3> QED
      BY <2>1, <3>1
  <2>2. CASE read # files
    <3> DEFINE keep == FilesAfterPruning(Len(files), table.layout.partition_granularity)
    <3>1. keep \in Nat
      <4>1. Len(files) \in Nat
        OBVIOUS
      <4> QED
        BY <4>1, PruningType
    <3>2. read = SubSeq(files, 1, IF keep < Len(files) THEN keep ELSE Len(files))
      BY <2>2 DEF ScannedFiles
    <3> HIDE DEF keep, read
    <3>3. (IF keep < Len(files) THEN keep ELSE Len(files)) \in 0..Len(files)
      BY <3>1
    <3> QED
      BY <3>2, <3>3
  <2> QED
    BY <2>1, <2>2
<1>2. PICK k \in 0..Len(files) : read = SubSeq(files, 1, k)
  BY <1>1
<1> DEFINE rest == SubSeq(files, k + 1, Len(files))
<1>3. /\ read \in Seq(File(S)) /\ rest \in Seq(File(S)) /\ files = read \o rest
      /\ Len(read) \in Nat /\ Len(read) <= Len(files)
  <2>1. /\ SubSeq(files, 1, k) \in Seq(File(S)) /\ rest \in Seq(File(S))
        /\ Len(SubSeq(files, 1, k)) = k
    OBVIOUS
  <2>2. files = SubSeq(files, 1, k) \o rest
    <3>1. SubSeq(files, 1, k) \o rest = SubSeq(files, 1, Len(files))
      <4>1. /\ 1 \in 1..Len(files) + 1 /\ k \in (1 - 1)..Len(files)
            /\ Len(files) \in k..Len(files)
        OBVIOUS
      <4> HIDE DEF files
      <4> QED
        BY <4>1, ConcatAdjacentSubSeq DEF files, rest
    <3>2. SubSeq(files, 1, Len(files)) = files
      OBVIOUS
    <3> QED
      BY <3>1, <3>2
  <2> HIDE DEF read, rest
  <2> QED
    BY <1>2, <2>1, <2>2
<1> HIDE DEF read, rest
<1>4. TotalMb(files) = TotalMb(read) + TotalMb(rest)
         /\ TotalMb(read) \in Nat /\ TotalMb(rest) \in Nat /\ TotalMb(files) \in Nat
  <2>1. Weigh(read \o rest, Mb(S)) = Weigh(read, Mb(S)) + Weigh(rest, Mb(S))
    BY <1>3, WeightTypes, WeighConcat
  <2> QED
    BY <1>3, <2>1, StatisticsAreWeights, StatisticsTypes
<1> DEFINE a == TotalMb(read)
           b == TotalMb(files)
           some == Scan(table, selectivity, pruned)
           full == Scan(table, 90, FALSE)
<1>5. some = Len(read) * 8000 + a * selectivity * 7
  BY DEF Scan, read, FILE_OPEN_COST, MB_SCAN_COST
<1>6. full = Len(files) * 8000 + b * 90 * 7
  BY DEF Scan, ScannedFiles, FILE_OPEN_COST, MB_SCAN_COST
<1>7. a \in Nat /\ b \in Nat /\ a <= b
  BY <1>4
<1> HIDE DEF a, b, some, full
<1>8. Len(files) \in Nat
  OBVIOUS
<1>9. /\ Len(read) * 8000 + a * selectivity * 7 \in Nat
      /\ Len(read) * 8000 + a * selectivity * 7 <= Len(files) * 8000 + b * 90 * 7
  BY <1>3, <1>7, <1>8, CostIsMonotone
<1>10. some \in Nat /\ some <= full
  BY <1>5, <1>6, <1>9
<1> QED
  BY <1>10 DEF some, full

LEMMA SumOfFour ==
    ASSUME NEW a \in Int, NEW b \in Int, NEW c \in Int, NEW d \in Int
    PROVE  SumOf(<<a, b, c, d>>) = a + b + c + d
<1>1. <<>> \in Seq(Int) /\ <<a>> \in Seq(Int) /\ <<a, b>> \in Seq(Int)
         /\ <<a, b, c>> \in Seq(Int)
  OBVIOUS
<1>2. /\ <<a>> = Append(<<>>, a) /\ <<a, b>> = Append(<<a>>, b)
      /\ <<a, b, c>> = Append(<<a, b>>, c) /\ <<a, b, c, d>> = Append(<<a, b, c>>, d)
  OBVIOUS
<1>3. SumOf(<<a>>) = a
  <2>1. SumOf(Append(<<>>, a)) = 0 + a
    BY <1>1, SumAppend, SumEmpty
  <2> QED
    BY <1>2, <2>1
<1>4. SumOf(<<a, b>>) = a + b
  BY <1>1, <1>2, <1>3, SumAppend
<1>5. SumOf(<<a, b, c>>) = a + b + c
  BY <1>1, <1>2, <1>4, SumAppend
<1> QED
  BY <1>1, <1>2, <1>5, SumAppend

(* The weighted 95th percentile of the suite is the one query that neither *)
(* prunes nor is selective: it is an eleventh of the samples, all of them  *)
(* at the top.                                                             *)
THEOREM PercentileIsFullScan ==
    ASSUME NEW S, NEW table, table.files \in Seq(File(S))
    PROVE  /\ MeasureP95Latency(table) = 20 * Scan(table, 90, FALSE)
           /\ MeasureP95Latency(table) \in Nat
<1> DEFINE l1 == Scan(table, 2, TRUE)
           l2 == Scan(table, 5, TRUE)
           l3 == Scan(table, 30, TRUE)
           l4 == Scan(table, 90, FALSE)
           T  == Timings(table)
<1>1. /\ l1 \in Nat /\ l2 \in Nat /\ l3 \in Nat /\ l4 \in Nat
      /\ l1 <= l4 /\ l2 <= l4 /\ l3 <= l4
  <2>1. 2 \in 0..90 /\ 5 \in 0..90 /\ 30 \in 0..90 /\ 90 \in 0..90
    OBVIOUS
  <2>2. l4 \in Nat
    BY <2>1, FullScanIsSlowest
  <2>3. l1 \in Nat /\ l1 <= l4
    BY <2>1, FullScanIsSlowest
  <2>4. l2 \in Nat /\ l2 <= l4
    BY <2>1, FullScanIsSlowest
  <2>5. l3 \in Nat /\ l3 <= l4
    BY <2>1, FullScanIsSlowest
  <2> QED
    BY <2>2, <2>3, <2>4, <2>5
<1>2. T = <<[latency |-> l1, weight |-> 5], [latency |-> l2, weight |-> 3],
            [latency |-> l3, weight |-> 2], [latency |-> l4, weight |-> 1]>>
  BY DEF Timings, Timing, DEFAULT_SUITE, Query
<1>3. MeasureP95Latency(table) = Percentile95(T)
  BY DEF MeasureP95Latency
<1> HIDE DEF l1, l2, l3, l4, T
<1>4. SampleCount(T) = 220
  <2>1. [i \in DOMAIN T |-> T[i].weight] = <<5, 3, 2, 1>>
    BY <1>2
  <2>2. SumOf(<<5, 3, 2, 1>>) = 11
    <3>1. SumOf(<<5, 3, 2, 1>>) = 5 + 3 + 2 + 1
      BY SumOfFour
    <3> QED
      BY <3>1
  <2>3. SampleCount(T) = 20 * SumOf(<<5, 3, 2, 1>>)
    BY <2>1 DEF SampleCount, Repeats
  <2> QED
    BY <2>2, <2>3
<1>5. ASSUME NEW bound \in Int
      PROVE  /\ SamplesUpTo(T, bound) \in Int
             /\ bound = l4 => SamplesUpTo(T, bound) = 220
             /\ bound < l4 => SamplesUpTo(T, bound) <= 200
  <2> DEFINE a == IF l1 <= bound THEN 5 ELSE 0
             b == IF l2 <= bound THEN 3 ELSE 0
             c == IF l3 <= bound THEN 2 ELSE 0
             d == IF l4 <= bound THEN 1 ELSE 0
  <2>1. [i \in DOMAIN T |-> IF T[i].latency <= bound THEN T[i].weight ELSE 0]
            = <<a, b, c, d>>
    BY <1>2
  <2>2. a \in Int /\ b \in Int /\ c \in Int /\ d \in Int
    OBVIOUS
  <2> HIDE DEF a, b, c, d
  <2>3. SumOf(<<a, b, c, d>>) = a + b + c + d
    BY <2>2, SumOfFour
  <2>4. SamplesUpTo(T, bound) = 20 * (a + b + c + d)
    BY <2>1, <2>3 DEF SamplesUpTo, Repeats
  <2> QED
    BY <1>1, <2>4 DEF a, b, c, d
<1>6. ASSUME NEW k \in {208, 209} PROVE Sample(T, k) = l4
  <2> DEFINE Late == {t.latency : t \in {u \in ToSet(T) : SamplesUpTo(T, u.latency) > k}}
  <2>1. ToSet(T) = {[latency |-> l1, weight |-> 5], [latency |-> l2, weight |-> 3],
                    [latency |-> l3, weight |-> 2], [latency |-> l4, weight |-> 1]}
    BY <1>2 DEF ToSet
  <2>2. l4 \in Late
    <3> DEFINE u == [latency |-> l4, weight |-> 1]
    <3>1. u \in ToSet(T) /\ u.latency = l4
      BY <2>1
    <3>2. SamplesUpTo(T, u.latency) > k
      BY <1>1, <1>5, <3>1
    <3> QED
      BY <3>1, <3>2
  <2>3. ASSUME NEW x \in Late PROVE x = l4
    <3>1. PICK u \in ToSet(T) : u.latency = x /\ SamplesUpTo(T, u.latency) > k
      OBVIOUS
    <3>2. u.latency \in Int /\ u.latency <= l4
      BY <1>1, <2>1
    <3>3. ~(u.latency < l4)
      <4> SUFFICES ASSUME u.latency < l4 PROVE FALSE
        OBVIOUS
      <4>1. SamplesUpTo(T, u.latency) <= 200 
        BY <1>5, <3>2
      <4>2. SamplesUpTo(T, u.latency) \in Int
        BY <1>5, <3>2
      <4> QED
        BY <3>1, <4>1, <4>2
    <3> QED
      BY <1>1, <3>1, <3>2, <3>3
  <2>4. Late = {l4}
    BY <2>2, <2>3
  <2>5. Sample(T, k) = Min(Late)
    BY DEF Sample
  <2> HIDE DEF Late
  <2> QED
    BY <1>1, <2>4, <2>5 DEF Min
<1>7. Percentile95(T) = 19 * l4 + 1 * l4
  <2>1. (19 * (220 - 1)) \div 20 = 208 /\ (19 * (220 - 1)) % 20 = 1
    OBVIOUS
  <2>2. Sample(T, 208) = l4 /\ Sample(T, 208 + 1) = l4
    BY <1>6
  <2> QED
    BY <1>4, <2>1, <2>2 DEF Percentile95
<1> QED
  <2>1. MeasureP95Latency(table) = 20 * l4 /\ 20 * l4 \in Nat
    BY <1>1, <1>3, <1>7
  <2> QED
    BY <2>1 DEF l4

-----------------------------------------------------------------------------
(* The regression guard.                                                   *)

(* A percentage test that passes, zero baselines included, bounds the new  *)
(* value by a multiple of the old one.                                     *)
LEMMA WithinTolerance ==
    ASSUME NEW new \in Int, NEW old \in Int, NEW tol \in Nat,
           ~PctChangeExceeds(new, old, tol)
    PROVE  100 * new <= (100 + tol) * old
<1>1. CASE old = 0
  BY <1>1 DEF PctChangeExceeds
<1>2. CASE old # 0
  <2>1. tol * old \in Int
    OBVIOUS
  <2>2. (new - old) * 100 <= tol * old
    BY <1>2, <2>1 DEF PctChangeExceeds
  <2>3. (100 + tol) * old = 100 * old + tol * old
    OBVIOUS
  <2> QED
    BY <2>1, <2>2, <2>3
<1> QED
  BY <1>1, <1>2

(* An improvement test that passes gains the required share.               *)
LEMMA ImprovesEnough ==
    ASSUME NEW cand \in Int, NEW base \in Int, NEW min \in Nat,
           ~ImprovementBelow(cand, base, min)
    PROVE  100 * cand <= (100 - min) * base
<1>1. CASE base = 0
  BY <1>1 DEF ImprovementBelow
<1>2. CASE base # 0
  <2>1. min * base \in Int
    OBVIOUS
  <2>2. (base - cand) * 100 >= min * base
    BY <1>2, <2>1 DEF ImprovementBelow
  <2>3. (100 - min) * base = 100 * base - min * base
    OBVIOUS
  <2> QED
    BY <2>1, <2>2, <2>3
<1> QED
  BY <1>1, <1>2

(* The objective of finite metrics is an integer.                          *)
LEMMA ObjectiveIsInteger ==
    ASSUME NEW config \in GuardConfig, NEW m, HasFiniteMetrics(m)
    PROVE  Objective(m, config) \in Int
<1>1. /\ config.w_latency \in Nat /\ config.w_cost \in Nat
      /\ config.w_write_amp \in Nat
  BY DEF GuardConfig
<1>2. /\ config.w_latency * m.p95_latency_ms \in Int
      /\ config.w_cost * m.storage_cost \in Int
      /\ config.w_write_amp * m.write_amplification \in Int
  BY <1>1 DEF HasFiniteMetrics
<1> QED
  BY <1>2 DEF Objective

(* A promotion means that every check was made and passed: both            *)
(* measurements are finite, no guarded metric is beyond its tolerance, and *)
(* the objective gained at least the required share.                       *)
THEOREM PromotionIsSound ==
    ASSUME NEW config \in GuardConfig, NEW baseline, NEW candidate,
           EvaluatePromotion(baseline, candidate, config).promote
    PROVE  /\ HasFiniteMetrics(baseline) /\ HasFiniteMetrics(candidate)
           /\ 100 * candidate.p95_latency_ms
                  <= (100 + config.latency_regression_tol_pct)
                         * baseline.p95_latency_ms
           /\ 100 * candidate.storage_cost
                  <= (100 + config.storage_regression_tol_pct)
                         * baseline.storage_cost
           /\ candidate.write_amplification - baseline.write_amplification
                  <= config.write_amp_regression_tol_abs
           /\ 100 * Objective(candidate, config)
                  <= (100 - config.min_improvement_pct)
                         * Objective(baseline, config)
<1>1. HasFiniteMetrics(baseline) /\ HasFiniteMetrics(candidate)
         /\ RejectReasons(baseline, candidate, config) = {}
  BY DEF EvaluatePromotion
<1>2. /\ ~PctChangeExceeds(candidate.p95_latency_ms, baseline.p95_latency_ms,
                           config.latency_regression_tol_pct)
      /\ ~PctChangeExceeds(candidate.storage_cost, baseline.storage_cost,
                           config.storage_regression_tol_pct)
      /\ ~(candidate.write_amplification - baseline.write_amplification
               > config.write_amp_regression_tol_abs)
      /\ ~ImprovementBelow(Objective(candidate, config),
                           Objective(baseline, config),
                           config.min_improvement_pct)
  BY <1>1 DEF RejectReasons
<1>3. /\ config.latency_regression_tol_pct \in Nat
      /\ config.storage_regression_tol_pct \in Nat
      /\ config.write_amp_regression_tol_abs \in Nat
      /\ config.min_improvement_pct \in Nat
  BY DEF GuardConfig
<1>4. /\ candidate.p95_latency_ms \in Int /\ baseline.p95_latency_ms \in Int
      /\ candidate.storage_cost \in Int /\ baseline.storage_cost \in Int
      /\ candidate.write_amplification \in Int
      /\ baseline.write_amplification \in Int
  BY <1>1 DEF HasFiniteMetrics
<1>5. 100 * candidate.p95_latency_ms
          <= (100 + config.latency_regression_tol_pct) * baseline.p95_latency_ms
  BY <1>2, <1>3, <1>4, WithinTolerance
<1>6. 100 * candidate.storage_cost
          <= (100 + config.storage_regression_tol_pct) * baseline.storage_cost
  BY <1>2, <1>3, <1>4, WithinTolerance
<1>7. 100 * Objective(candidate, config)
          <= (100 - config.min_improvement_pct) * Objective(baseline, config)
  BY <1>1, <1>2, <1>3, ObjectiveIsInteger, ImprovesEnough
<1> QED
  BY <1>1, <1>2, <1>3, <1>4, <1>5, <1>6, <1>7

(* The objective of metrics that are natural numbers is one.               *)
LEMMA ObjectiveIsNatural ==
    ASSUME NEW config \in GuardConfig, NEW m, m.p95_latency_ms \in Nat,
           m.storage_cost \in Nat, m.write_amplification \in Nat
    PROVE  Objective(m, config) \in Nat
<1>1. /\ config.w_latency \in Nat /\ config.w_cost \in Nat
      /\ config.w_write_amp \in Nat
  BY DEF GuardConfig
<1>2. /\ config.w_latency * m.p95_latency_ms \in Nat
      /\ config.w_cost * m.storage_cost \in Nat
      /\ config.w_write_amp * m.write_amplification \in Nat
  BY <1>1
<1> QED
  BY <1>2 DEF Objective

(* Where some improvement is asked for, a promotion takes the objective    *)
(* strictly down; a baseline whose objective is zero is never replaced.    *)
THEOREM PromotionLowersObjective ==
    ASSUME NEW config \in GuardConfig, config.min_improvement_pct > 0,
           NEW baseline, NEW candidate,
           EvaluatePromotion(baseline, candidate, config).promote,
           Objective(baseline, config) \in Nat
    PROVE  Objective(candidate, config) < Objective(baseline, config)
<1> DEFINE old == Objective(baseline, config)
           new == Objective(candidate, config)
           min == config.min_improvement_pct
<1>1. HasFiniteMetrics(candidate) /\ ~ImprovementBelow(new, old, min)
  BY DEF EvaluatePromotion, RejectReasons
<1>2. new \in Int /\ old \in Nat /\ min \in Nat /\ min > 0
  BY <1>1, ObjectiveIsInteger DEF GuardConfig
<1> HIDE DEF old, new, min
<1>3. old # 0 /\ (old - new) * 100 >= min * old
  <2>1. min * old \in Nat
    BY <1>2
  <2> QED
    BY <1>1, <1>2, <2>1 DEF ImprovementBelow
<1>4. min * old > 0
  BY <1>2, <1>3
<1>5. new < old
  BY <1>2, <1>3, <1>4
<1> QED
  BY <1>5 DEF old, new
=============================================================================
