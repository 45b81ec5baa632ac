---------------------------- MODULE Filter_proofs ----------------------------
(***************************************************************************)
(* Facts about the operators of module Filter, for every sequence and      *)
(* every set: what Concat and Without return, and what adding to a filter  *)
(* and removing from it do to the items it holds.                          *)
(***************************************************************************)
EXTENDS Filter, WellFoundedInduction, NaturalsInduction, TLAPS

(***************************************************************************)
(* Induction up to a bound, stated for sets: the induction theorems of the *)
(* library are about predicates, and no prover here can instantiate those. *)
(***************************************************************************)
LEMMA UpToInduction ==
    ASSUME NEW N \in Nat, NEW T,
           0 \in T,
           \A n \in 0..(N - 1) : n \in T => n + 1 \in T
    PROVE  \A n \in 0..N : n \in T
<1> DEFINE Bad == { n \in 0..N : n \notin T }
<1>1. SUFFICES ASSUME Bad # {} PROVE FALSE
  OBVIOUS
<1>2. IsWellFoundedOn(OpToRel(<, Nat), Nat)
  BY NatLessThanWellFounded
<1>3. Bad \subseteq Nat
  OBVIOUS
<1>4. PICK x \in Bad : \A y \in Bad : ~(<<y, x>> \in OpToRel(<, Nat))
  <2> HIDE DEF Bad
  <2> QED
    BY <1>1, <1>2, <1>3, WFMin
<1>5. x \in 0..N /\ x \notin T
  OBVIOUS
<1>6. x # 0
  BY <1>5
<1>7. x - 1 \in 0..(N - 1) /\ x - 1 \in 0..N /\ x \in Nat /\ x - 1 \in Nat
  BY <1>5, <1>6
<1>8. x - 1 \in T
  <2>1. ASSUME x - 1 \in Bad PROVE FALSE
    <3>1. <<x - 1, x>> \in Nat \X Nat /\ x - 1 < x
      BY <1>7
    <3>2. <<x - 1, x>> \in OpToRel(<, Nat)
      BY <3>1 DEF OpToRel
    <3> QED
      BY <1>4, <2>1, <3>2
  <2> QED
    BY <1>7, <2>1
<1>9. (x - 1) + 1 \in T
  BY <1>7, <1>8
<1> QED
  BY <1>5, <1>7, <1>9

(***************************************************************************)
(* The function that Concat recurs with, over the first m sequences of ss. *)
(***************************************************************************)
PartialConcats(S, ss, m) ==
    { f \in [0..m -> Seq(S)] :
        /\ f[0] = << >>
        /\ \A n \in 1..m : f[n] = f[n - 1] \o ss[n] }

(* There is a function that satisfies the recursion of ConcatUpTo.         *)
LEMMA PartialConcatsExist ==
    ASSUME NEW S, NEW N \in Nat, NEW ss \in [1..N -> Seq(S)]
    PROVE  PartialConcats(S, ss, N) # {}
<1> DEFINE T == { m \in 0..N : PartialConcats(S, ss, m) # {} }
<1>1. 0 \in T
  <2>1. PICK f : f = [n \in 0..0 |-> << >>]
    OBVIOUS
  <2>2. f \in [0..0 -> Seq(S)] /\ f[0] = << >>
    BY <2>1
  <2>3. f \in PartialConcats(S, ss, 0)
    BY <2>2 DEF PartialConcats
  <2> QED
    BY <2>3
<1>2. ASSUME NEW m \in 0..(N - 1), m \in T
      PROVE  m + 1 \in T
  <2>1. PICK f : f \in PartialConcats(S, ss, m)
    BY <1>2
  <2>2. /\ f \in [0..m -> Seq(S)]
        /\ f[0] = << >>
        /\ \A n \in 1..m : f[n] = f[n - 1] \o ss[n]
    BY <2>1 DEF PartialConcats
  <2>3. f[m] \in Seq(S) /\ ss[m + 1] \in Seq(S)
    BY <2>2
  <2>4. f[m] \o ss[m + 1] \in Seq(S)
    BY <2>3
  <2>5. PICK x : x = f[m] \o ss[m + 1]
    OBVIOUS
  <2>6. PICK g : g = [n \in 0..(m + 1) |-> IF n = m + 1 THEN x ELSE f[n]]
    OBVIOUS
  <2>7. g \in [0..(m + 1) -> Seq(S)]
    BY <2>2, <2>4, <2>5, <2>6
  <2>8. g[0] = << >>
    BY <2>2, <2>6
  <2>9. ASSUME NEW n \in 1..(m + 1)
        PROVE  g[n] = g[n - 1] \o ss[n]
    <3>1. CASE n = m + 1
      <4>1. g[n] = x /\ g[n - 1] = f[m]
        BY <2>6, <3>1
      <4> QED
        BY <2>5, <3>1, <4>1
    <3>2. CASE n # m + 1
      <4>1. n \in 1..m /\ g[n] = f[n] /\ g[n - 1] = f[n - 1]
        BY <2>6, <3>2
      <4> QED
        BY <4>1, <2>2
    <3> QED
      BY <3>1, <3>2
  <2>10. g \in PartialConcats(S, ss, m + 1)
    BY <2>7, <2>8, <2>9 DEF PartialConcats
  <2>11. m + 1 \in 0..N
    OBVIOUS
  <2> QED
    BY <2>10, <2>11
<1>3. N \in 0..N
  OBVIOUS
<1>4. N \in T
  <2> HIDE DEF T
  <2>1. \A n \in 0..N : n \in T
    BY <1>1, <1>2, UpToInduction
  <2> QED
    BY <1>3, <2>1
<1> QED
  BY <1>4

(***************************************************************************)
(* A function with Concat's recursion is such a function.                  *)
(***************************************************************************)
LEMMA RecursionIsPartialConcats ==
    ASSUME NEW S, NEW N \in Nat, NEW ss \in [1..N -> Seq(S)],
           NEW u,
           u = [n \in 0..N |-> IF n = 0 THEN << >> ELSE u[n - 1] \o ss[n]]
    PROVE  u \in PartialConcats(S, ss, N)
<1> DEFINE T == { n \in 0..N : u[n] \in Seq(S) }
<1>1. u[0] = << >>
  OBVIOUS
<1>2. ASSUME NEW n \in 1..N
      PROVE  u[n] = u[n - 1] \o ss[n]
  <2>1. n \in 0..N /\ n # 0
    OBVIOUS
  <2> QED
    BY <2>1
<1>3. 0 \in T
  BY <1>1
<1>4. ASSUME NEW n \in 0..(N - 1), n \in T
      PROVE  n + 1 \in T
  <2>1. n + 1 \in 1..N /\ n + 1 \in 0..N /\ (n + 1) - 1 = n
    OBVIOUS
  <2>2. u[n + 1] = u[n] \o ss[n + 1]
    BY <1>2, <2>1
  <2>3. u[n] \in Seq(S) /\ ss[n + 1] \in Seq(S)
    BY <1>4, <2>1
  <2>4. u[n] \o ss[n + 1] \in Seq(S)
    BY <2>3
  <2>5. u[n + 1] \in Seq(S)
    BY <2>2, <2>4
  <2> QED
    BY <2>1, <2>5
<1>5. \A n \in 0..N : n \in T
  <2> HIDE DEF T
  <2> QED
    BY <1>3, <1>4, UpToInduction
<1>6. u \in [0..N -> Seq(S)]
  BY <1>5
<1> QED
  BY <1>1, <1>2, <1>6 DEF PartialConcats

(* ConcatUpTo satisfies the equations of its recursion.                    *)
LEMMA ConcatUpToIs ==
    ASSUME NEW S, NEW N \in Nat, NEW ss \in [1..N -> Seq(S)]
    PROVE  /\ ConcatUpTo(ss) \in PartialConcats(S, ss, N)
           /\ Concat(ss) = ConcatUpTo(ss)[N]
<1>1. Len(ss) = N
  OBVIOUS
<1>2. PICK f : f \in PartialConcats(S, ss, N)
  BY PartialConcatsExist
<1>3. /\ f \in [0..N -> Seq(S)]
      /\ f[0] = << >>
      /\ \A n \in 1..N : f[n] = f[n - 1] \o ss[n]
  BY <1>2 DEF PartialConcats
<1>4. ASSUME NEW n \in 0..N
      PROVE  f[n] = IF n = 0 THEN << >> ELSE f[n - 1] \o ss[n]
  <2>1. CASE n = 0
    BY <1>3, <2>1
  <2>2. CASE n # 0
    <3>1. n \in 1..N
      BY <2>2
    <3> QED
      BY <1>3, <2>2, <3>1
  <2> QED
    BY <2>1, <2>2
<1>5. f = [n \in 0..N |-> IF n = 0 THEN << >> ELSE f[n - 1] \o ss[n]]
  BY <1>3, <1>4
<1>6. ConcatUpTo(ss) =
        CHOOSE u : u = [n \in 0..N |->
                          IF n = 0 THEN << >> ELSE u[n - 1] \o ss[n]]
  BY <1>1 DEF ConcatUpTo
<1>7. ConcatUpTo(ss) =
        [n \in 0..N |->
           IF n = 0 THEN << >> ELSE ConcatUpTo(ss)[n - 1] \o ss[n]]
  BY <1>5, <1>6
<1>8. Concat(ss) = ConcatUpTo(ss)[N]
  BY <1>1 DEF Concat
<1>9. ConcatUpTo(ss) \in PartialConcats(S, ss, N)
  BY <1>7, RecursionIsPartialConcats
<1> QED
  BY <1>8, <1>9


-----------------------------------------------------------------------------
(***************************************************************************)
(* What Concat returns.                                                    *)
(***************************************************************************)
LEMMA ConcatType ==
    ASSUME NEW S, NEW N \in Nat, NEW ss \in [1..N -> Seq(S)]
    PROVE  Concat(ss) \in Seq(S)
<1>1. ConcatUpTo(ss) \in [0..N -> Seq(S)] /\ Concat(ss) = ConcatUpTo(ss)[N]
  BY ConcatUpToIs DEF PartialConcats
<1> QED
  BY <1>1

(* The elements of s \o t.                                                 *)
LEMMA ElementsOfConcatenation ==
    ASSUME NEW S, NEW s \in Seq(S), NEW t \in Seq(S)
    PROVE  Elements(s \o t) = Elements(s) \cup Elements(t)
<1>1. ASSUME NEW x \in Elements(s \o t)
      PROVE  x \in Elements(s) \cup Elements(t)
  <2>1. PICK i \in 1..(Len(s) + Len(t)) : x = (s \o t)[i]
    BY DEF Elements
  <2>2. CASE i <= Len(s)
    BY <2>1, <2>2 DEF Elements
  <2>3. CASE i > Len(s)
    <3>1. i - Len(s) \in 1..Len(t) /\ x = t[i - Len(s)]
      BY <2>1, <2>3
    <3> QED
      BY <3>1 DEF Elements
  <2> QED
    BY <2>2, <2>3
<1>2. ASSUME NEW x \in Elements(s)
      PROVE  x \in Elements(s \o t)
  <2>1. PICK i \in 1..Len(s) : x = s[i]
    BY DEF Elements
  <2>2. i \in DOMAIN (s \o t) /\ (s \o t)[i] = x
    BY <2>1
  <2> QED
    BY <2>2 DEF Elements
<1>3. ASSUME NEW x \in Elements(t)
      PROVE  x \in Elements(s \o t)
  <2>1. PICK i \in 1..Len(t) : x = t[i]
    BY DEF Elements
  <2>2. /\ Len(s) + i \in DOMAIN (s \o t)
        /\ (s \o t)[Len(s) + i] = x
    BY <2>1
  <2> QED
    BY <2>2 DEF Elements
<1> QED
  BY <1>1, <1>2, <1>3

(* The elements of a concatenation are those of the sequences.             *)
LEMMA ConcatElements ==
    ASSUME NEW S, NEW N \in Nat, NEW ss \in [1..N -> Seq(S)]
    PROVE  \A x : x \in Elements(Concat(ss))
                    <=> \E i \in 1..N : x \in Elements(ss[i])
<1>1. PICK u : /\ u \in [0..N -> Seq(S)]
               /\ u[0] = << >>
               /\ \A n \in 1..N : u[n] = u[n - 1] \o ss[n]
               /\ Concat(ss) = u[N]
  BY ConcatUpToIs DEF PartialConcats
<1> SUFFICES ASSUME NEW x
             PROVE  x \in Elements(Concat(ss))
                      <=> \E i \in 1..N : x \in Elements(ss[i])
  OBVIOUS
<1> DEFINE T == { n \in 0..N : x \in Elements(u[n])
                                 <=> \E i \in 1..n : x \in Elements(ss[i]) }
<1>2. 0 \in T
  BY <1>1 DEF Elements
<1>3. ASSUME NEW n \in 0..(N - 1), n \in T
      PROVE  n + 1 \in T
  <2>1. n + 1 \in 1..N /\ n + 1 \in 0..N /\ n \in 0..N /\ (n + 1) - 1 = n
    OBVIOUS
  <2>2. u[n + 1] = u[n] \o ss[n + 1]
    BY <1>1, <2>1
  <2>3. u[n] \in Seq(S) /\ ss[n + 1] \in Seq(S)
    BY <1>1, <2>1
  <2>4. Elements(u[n + 1]) = Elements(u[n]) \cup Elements(ss[n + 1])
    BY <2>2, <2>3, ElementsOfConcatenation
  <2>5. x \in Elements(u[n]) <=> \E i \in 1..n : x \in Elements(ss[i])
    BY <1>3
  <2>6. \A i : i \in 1..(n + 1) <=> i \in 1..n \/ i = n + 1
    OBVIOUS
  <2>7. x \in Elements(u[n + 1])
          <=> \E i \in 1..(n + 1) : x \in Elements(ss[i])
    BY <2>4, <2>5, <2>6
  <2> QED
    BY <2>1, <2>7
<1>4. \A n \in 0..N : n \in T
  <2> HIDE DEF T
  <2> QED
    BY <1>2, <1>3, UpToInduction
<1>5. N \in 0..N
  OBVIOUS
<1> QED
  BY <1>1, <1>4, <1>5

-----------------------------------------------------------------------------
(***************************************************************************)
(* What Without returns: the items that stay, in their order.              *)
(***************************************************************************)
Singles(s, gone) == [i \in 1..Len(s) |-> IF s[i] \in gone THEN << >> ELSE <<s[i]>>]

(* The pieces that Without concatenates.                                   *)
LEMMA SinglesType ==
    ASSUME NEW S, NEW s \in Seq(S), NEW gone
    PROVE  /\ Len(s) \in Nat
           /\ Singles(s, gone) \in [1..Len(s) -> Seq(S)]
           /\ Without(s, gone) = Concat(Singles(s, gone))
<1>1. ASSUME NEW i \in 1..Len(s)
      PROVE  (IF s[i] \in gone THEN << >> ELSE <<s[i]>>) \in Seq(S)
  <2>1. s[i] \in S
    OBVIOUS
  <2> QED
    BY <2>1
<1> QED
  BY <1>1 DEF Singles, Without

(* Without returns a sequence over the same set.                           *)
LEMMA WithoutType ==
    ASSUME NEW S, NEW s \in Seq(S), NEW gone
    PROVE  Without(s, gone) \in Seq(S)
BY SinglesType, ConcatType

(* Without removes exactly the items of gone.                              *)
LEMMA WithoutElements ==
    ASSUME NEW S, NEW s \in Seq(S), NEW gone
    PROVE  Elements(Without(s, gone)) = Elements(s) \ gone
<1>1. ASSUME NEW x
      PROVE  x \in Elements(Without(s, gone)) <=> x \in Elements(s) /\ x \notin gone
  <2>1. x \in Elements(Without(s, gone))
          <=> \E i \in 1..Len(s) : x \in Elements(Singles(s, gone)[i])
    BY SinglesType, ConcatElements
  <2>2. ASSUME NEW i \in 1..Len(s)
        PROVE  x \in Elements(Singles(s, gone)[i]) <=> x = s[i] /\ s[i] \notin gone
    BY DEF Singles, Elements
  <2>3. x \in Elements(s) <=> \E i \in 1..Len(s) : x = s[i]
    BY DEF Elements
  <2> QED
    BY <2>1, <2>2, <2>3
<1> QED
  BY <1>1

(***************************************************************************)
(* w lists items of the first n positions of s in their order.             *)
(***************************************************************************)
InOrder(w, s, n) ==
    /\ \A i \in 1..Len(w) : \E p \in 1..n : w[i] = s[p]
    /\ \A i, j \in 1..Len(w) :
          i < j => \E p, q \in 1..n : p < q /\ w[i] = s[p] /\ w[j] = s[q]

(* Without keeps the order, and drops nothing but the items of gone.       *)
LEMMA WithoutOrder ==
    ASSUME NEW S, NEW s \in Seq(S), NEW gone
    PROVE  InOrder(Without(s, gone), s, Len(s))
<1> DEFINE N == Len(s)
<1> DEFINE ss == Singles(s, gone)
<1>1. N \in Nat /\ ss \in [1..N -> Seq(S)] /\ Without(s, gone) = Concat(ss)
  BY SinglesType
<1>2. PICK u : /\ u \in [0..N -> Seq(S)]
               /\ u[0] = << >>
               /\ \A n \in 1..N : u[n] = u[n - 1] \o ss[n]
               /\ Concat(ss) = u[N]
  <2> HIDE DEF N, ss
  <2> QED
    BY <1>1, ConcatUpToIs, ZenonT(40) DEF PartialConcats
<1> DEFINE T == { n \in 0..N : InOrder(u[n], s, n) }
<1>3. 0 \in T
  <2>1. InOrder(u[0], s, 0)
    BY <1>2 DEF InOrder
  <2> QED
    BY <1>1, <2>1
<1>4. ASSUME NEW n \in 0..(N - 1), n \in T
      PROVE  n + 1 \in T
  <2>1. /\ n + 1 \in 1..N /\ n + 1 \in 0..N /\ n \in 0..N /\ n \in Nat
        /\ (n + 1) - 1 = n
    BY <1>1
  <2>2. u[n + 1] = u[n] \o ss[n + 1] /\ u[n] \in Seq(S)
    <3> HIDE DEF N, ss
    <3>1. u[n + 1] = u[(n + 1) - 1] \o ss[n + 1]
      BY <1>2, <2>1
    <3> QED
      BY <1>2, <2>1, <3>1
  <2>3. InOrder(u[n], s, n)
    BY <1>4
  <2>4. CASE s[n + 1] \in gone
    <3>1. ss[n + 1] = << >>
      BY <2>1, <2>4 DEF Singles
    <3>2. u[n + 1] = u[n]
      BY <2>2, <3>1
    <3>3. InOrder(u[n], s, n + 1)
      BY <2>1, <2>3 DEF InOrder
    <3> QED
      BY <2>1, <3>2, <3>3
  <2>5. CASE s[n + 1] \notin gone
    <3>1. ss[n + 1] = <<s[n + 1]>> /\ s[n + 1] \in S
      BY <2>1, <2>5 DEF Singles
    <3>2. PICK w : w = u[n] /\ w \in Seq(S) /\ InOrder(w, s, n)
      BY <2>2, <2>3
    <3>3. PICK v : v = u[n + 1]
      OBVIOUS
    <3>4. /\ Len(v) = Len(w) + 1
          /\ v[Len(w) + 1] = s[n + 1]
          /\ \A i \in 1..Len(w) : v[i] = w[i]
      <4>1. v = w \o <<s[n + 1]>>
        BY <2>2, <3>1, <3>2, <3>3
      <4> HIDE DEF N, ss
      <4> QED
        BY <3>1, <3>2, <4>1
    <3>5. ASSUME NEW i \in 1..Len(v)
          PROVE  \E p \in 1..(n + 1) : v[i] = s[p]
      <4>1. CASE i = Len(w) + 1
        BY <2>1, <3>4, <4>1
      <4>2. CASE i # Len(w) + 1
        <5>1. i \in 1..Len(w)
          BY <3>2, <3>4, <4>2
        <5>2. PICK p \in 1..n : w[i] = s[p]
          BY <3>2, <5>1 DEF InOrder
        <5> QED
          BY <2>1, <3>4, <5>1, <5>2
      <4> QED
        BY <4>1, <4>2
    <3>6. ASSUME NEW i \in 1..Len(v), NEW j \in 1..Len(v), i < j
          PROVE  \E p, q \in 1..(n + 1) : p < q /\ v[i] = s[p] /\ v[j] = s[q]
      <4>1. i \in 1..Len(w)
        BY <3>2, <3>4, <3>6
      <4>2. CASE j = Len(w) + 1
        <5>1. PICK p \in 1..n : w[i] = s[p]
          BY <3>2, <4>1 DEF InOrder
        <5>2. p \in 1..(n + 1) /\ n + 1 \in 1..(n + 1) /\ p < n + 1
          BY <2>1
        <5> QED
          BY <3>4, <4>1, <4>2, <5>1, <5>2
      <4>3. CASE j # Len(w) + 1
        <5>1. j \in 1..Len(w)
          BY <3>2, <3>4, <4>3
        <5>2. PICK p \in 1..n, q \in 1..n : p < q /\ w[i] = s[p] /\ w[j] = s[q]
          BY <3>2, <3>6, <4>1, <5>1 DEF InOrder
        <5>3. p \in 1..(n + 1) /\ q \in 1..(n + 1)
          BY <2>1
        <5> QED
          BY <3>4, <4>1, <5>1, <5>2, <5>3
      <4> QED
        BY <4>2, <4>3
    <3>7. InOrder(v, s, n + 1)
      BY <3>5, <3>6 DEF InOrder
    <3> QED
      BY <2>1, <3>3, <3>7
  <2> QED
    BY <2>4, <2>5
<1>5. \A n \in 0..N : n \in T
  <2> HIDE DEF T, N
  <2> QED
    BY <1>1, <1>3, <1>4, UpToInduction
<1>6. N \in 0..N
  BY <1>1
<1>7. InOrder(u[N], s, N)
  BY <1>5, <1>6
<1> QED
  BY <1>1, <1>2, <1>7
-----------------------------------------------------------------------------
(***************************************************************************)
(* The operations on one filter and on dictionaries of filters: what they  *)
(* return is of the same type, and their values are what one expects.      *)
(***************************************************************************)
LEMMA FilterOperations ==
    ASSUME NEW Items, NEW f \in FilterOf(Items), NEW items \in Seq(Items), NEW gone
    PROVE  /\ Add(f, items) \in FilterOf(Items)
           /\ Add(f, items).values = f.values \o items
           /\ Drained(f) \in FilterOf(Items)
           /\ Drained(f).values = f.values
           /\ Remove(f, gone) \in FilterOf(Items)
           /\ Remove(f, gone).values = Without(f.values, gone)
<1>1. f.values \in Seq(Items) /\ f.queue \in Seq(Items)
  BY DEF FilterOf
<1>2. Without(f.values, gone) \in Seq(Items) /\ Without(f.queue, gone) \in Seq(Items)
  BY <1>1, WithoutType
<1>3. f.values \o items \in Seq(Items) /\ f.queue \o items \in Seq(Items)
  BY <1>1
<1>4. << >> \in Seq(Items)
  OBVIOUS
<1>5. Add(f, items) \in FilterOf(Items) /\ Add(f, items).values = f.values \o items
  BY <1>3 DEF FilterOf, Add
<1>6. Drained(f) \in FilterOf(Items) /\ Drained(f).values = f.values
  BY <1>4 DEF FilterOf, Drained
<1>7. /\ Remove(f, gone) \in FilterOf(Items)
      /\ Remove(f, gone).values = Without(f.values, gone)
  BY <1>2 DEF FilterOf, Remove
<1> QED
  BY <1>5, <1>6, <1>7

(* What a revert leaves in a filter is valid, and was there before.        *)
LEMMA RetainLeavesValid ==
    ASSUME NEW Items, NEW f \in FilterOf(Items), NEW valid
    PROVE  /\ Retain(f, valid) \in FilterOf(Items)
           /\ Elements(Retain(f, valid).values) = Elements(f.values) \cap valid
<1>1. f.values \in Seq(Items)
  BY DEF FilterOf
<1>2. Elements(Without(f.values, Elements(f.values) \ valid))
        = Elements(f.values) \ (Elements(f.values) \ valid)
  BY <1>1, WithoutElements
<1>3. << >> \in Seq(Items)
  OBVIOUS
<1> QED
  BY <1>2, <1>3, FilterOperations DEF Retain

(* A new filter is a filter.                                               *)
LEMMA NewFilterType ==
    ASSUME NEW Items
    PROVE  NewFilter \in FilterOf(Items)
BY DEF NewFilter, FilterOf

(* Adding and deleting a key of a dictionary.                              *)
LEMMA DictOperations ==
    ASSUME NEW Values, NEW dict, DictOf(dict, Values),
           NEW key \in Nat, NEW value \in Values
    PROVE  /\ DictOf(With(dict, key, value), Values)
           /\ DictOf(Minus(dict, key), Values)
BY DEF DictOf, With, Minus

(* Adding to, and reverting, all the filters of a dictionary.              *)
LEMMA FilterDictOperations ==
    ASSUME NEW Items, NEW filters, DictOf(filters, FilterOf(Items)),
           NEW items \in Seq(Items), NEW valid
    PROVE  /\ DictOf(AddToAll(filters, items), FilterOf(Items))
           /\ DictOf(RetainInAll(filters, valid), FilterOf(Items))
<1>1. \A id \in DOMAIN filters : filters[id] \in FilterOf(Items)
  BY DEF DictOf
<1>2. \A id \in DOMAIN filters : Add(filters[id], items) \in FilterOf(Items)
  BY <1>1, FilterOperations
<1>3. \A id \in DOMAIN filters : Retain(filters[id], valid) \in FilterOf(Items)
  BY <1>1, RetainLeavesValid
<1>4. DictOf(AddToAll(filters, items), FilterOf(Items))
  BY <1>2 DEF DictOf, AddToAll
<1>5. DictOf(RetainInAll(filters, valid), FilterOf(Items))
  BY <1>3 DEF DictOf, RetainInAll
<1> QED
  BY <1>4, <1>5

-----------------------------------------------------------------------------
(***************************************************************************)
(* Facts about every prefix of a sequence: what holds of << >>, and of a   *)
(* longer prefix when it holds of a shorter one, holds of the sequence.    *)
(***************************************************************************)
LEMMA PrefixInduction ==
    ASSUME NEW S, NEW t \in Seq(S), NEW T,
           << >> \in T,
           \A n \in 0..(Len(t) - 1) :
              SubSeq(t, 1, n) \in T => Append(SubSeq(t, 1, n), t[n + 1]) \in T
    PROVE  t \in T
<1> DEFINE prefix(n) == SubSeq(t, 1, n)
<1> DEFINE P == { n \in 0..Len(t) : prefix(n) \in T }
<1>1. Len(t) \in Nat /\ 0 \in 0..Len(t) /\ Len(t) \in 0..Len(t)
  OBVIOUS
<1>2. prefix(0) = << >> /\ prefix(Len(t)) = t
  OBVIOUS
<1>3. ASSUME NEW n \in 0..(Len(t) - 1), prefix(n) \in T
      PROVE  prefix(n + 1) \in T
  <2>1. prefix(n + 1) = Append(SubSeq(t, 1, n), t[n + 1])
    OBVIOUS
  <2>2. Append(SubSeq(t, 1, n), t[n + 1]) \in T
    BY <1>3
  <2> QED
    BY <2>1, <2>2
<1> HIDE DEF prefix
<1>4. 0 \in P
  BY <1>1, <1>2
<1>5. ASSUME NEW n \in 0..(Len(t) - 1), n \in P
      PROVE  n + 1 \in P
  BY <1>1, <1>3, <1>5
<1>6. \A n \in 0..Len(t) : n \in P
  <2> HIDE DEF P
  <2> QED
    BY <1>1, <1>4, <1>5, UpToInduction
<1> QED
  BY <1>1, <1>2, <1>6

(* Without looks at one item after the other.                              *)
LEMMA WithoutAppend ==
    ASSUME NEW S, NEW s \in Seq(S), NEW x \in S, NEW gone
    PROVE  Without(Append(s, x), gone)
             = IF x \in gone THEN Without(s, gone) ELSE Append(Without(s, gone), x)
<1> DEFINE N == Len(s)
<1> DEFINE longer == Append(s, x)
<1> DEFINE ss == Singles(s, gone)
<1> DEFINE tt == Singles(longer, gone)
<1>1. /\ N \in Nat /\ Len(longer) = N + 1 /\ longer \in Seq(S)
      /\ \A i \in 1..N : longer[i] = s[i]
      /\ longer[N + 1] = x
  OBVIOUS
<1>2. /\ ss \in [1..N -> Seq(S)] /\ Without(s, gone) = Concat(ss)
  BY SinglesType
<1>3. /\ tt \in [1..(N + 1) -> Seq(S)] /\ Without(longer, gone) = Concat(tt)
  <2> HIDE DEF longer
  <2> QED
    BY <1>1, SinglesType
<1>4. /\ \A i \in 1..N : tt[i] = ss[i]
      /\ tt[N + 1] = IF x \in gone THEN << >> ELSE <<x>>
  <2> HIDE DEF longer
  <2> QED
    BY <1>1 DEF Singles
<1> HIDE DEF N, longer, ss, tt
<1>5. PICK u : /\ u \in [0..N -> Seq(S)]
               /\ u[0] = << >>
               /\ \A n \in 1..N : u[n] = u[n - 1] \o ss[n]
               /\ Concat(ss) = u[N]
  BY <1>1, <1>2, ConcatUpToIs DEF PartialConcats
<1>6. PICK v : /\ v \in [0..(N + 1) -> Seq(S)]
               /\ v[0] = << >>
               /\ \A n \in 1..(N + 1) : v[n] = v[n - 1] \o tt[n]
               /\ Concat(tt) = v[N + 1]
  <2>1. PICK M \in Nat : M = N + 1
    BY <1>1
  <2>2. tt \in [1..M -> Seq(S)]
    BY <1>3, <2>1
  <2>3. /\ ConcatUpTo(tt) \in PartialConcats(S, tt, M)
        /\ Concat(tt) = ConcatUpTo(tt)[M]
    BY <2>2, ConcatUpToIs
  <2> QED
    BY <2>1, <2>3 DEF PartialConcats
<1> DEFINE T == { n \in 0..N : v[n] = u[n] }
<1>7. 0 \in T
  BY <1>1, <1>5, <1>6
<1>8. ASSUME NEW n \in 0..(N - 1), n \in T
      PROVE  n + 1 \in T
  <2>1. n + 1 \in 1..N /\ n + 1 \in 1..(N + 1) /\ n + 1 \in 0..N /\ (n + 1) - 1 = n
    BY <1>1
  <2>2. v[n + 1] = v[n] \o tt[n + 1] /\ u[n + 1] = u[n] \o ss[n + 1]
    BY <1>5, <1>6, <2>1
  <2> QED
    BY <1>4, <1>8, <2>1, <2>2
<1>9. \A n \in 0..N : n \in T
  <2> HIDE DEF T
  <2> QED
    BY <1>1, <1>7, <1>8, UpToInduction
<1>10. v[N] = u[N]
  BY <1>1, <1>9
<1>11. v[N + 1] = u[N] \o (IF x \in gone THEN << >> ELSE <<x>>)
  <2>1. N + 1 \in 1..(N + 1) /\ (N + 1) - 1 = N
    BY <1>1
  <2>2. v[N + 1] = v[N] \o tt[N + 1]
    BY <1>6, <2>1
  <2> QED
    BY <1>4, <1>10, <2>2
<1>12. u[N] \in Seq(S)
  BY <1>1, <1>5
<1>13. Without(Append(s, x), gone) = v[N + 1] /\ Without(s, gone) = u[N]
  BY <1>2, <1>3, <1>5, <1>6 DEF longer
<1>14. u[N] \o << >> = u[N] /\ u[N] \o <<x>> = Append(u[N], x)
  BY <1>12
<1> QED
  BY <1>11, <1>13, <1>14

(* Removing from nothing.                                                  *)
LEMMA WithoutFromEmpty ==
    ASSUME NEW gone
    PROVE  Without(<< >>, gone) = << >>
<1>1. << >> \in Seq({})
  OBVIOUS
<1>2. Without(<< >>, gone) \in Seq({})
  BY <1>1, WithoutType
<1> QED
  BY <1>2

(* Appending to a concatenation is appending to its second part.           *)
LEMMA ConcatenationAppend ==
    ASSUME NEW S, NEW s \in Seq(S), NEW t \in Seq(S), NEW x \in S
    PROVE  s \o Append(t, x) = Append(s \o t, x)
OBVIOUS

(* Removing from a concatenation is removing from both its parts.          *)
LEMMA WithoutConcatenation ==
    ASSUME NEW S, NEW s \in Seq(S), NEW t \in Seq(S), NEW gone
    PROVE  Without(s \o t, gone) = Without(s, gone) \o Without(t, gone)
<1> DEFINE T == { q \in Seq(S) : Without(s \o q, gone)
                                   = Without(s, gone) \o Without(q, gone) }
<1>1. Without(s, gone) \in Seq(S)
  BY WithoutType
<1>2. << >> \in T
  <2>1. s \o << >> = s /\ Without(s, gone) \o << >> = Without(s, gone)
    BY <1>1
  <2>2. Without(<< >>, gone) = << >> /\ << >> \in Seq(S)
    BY WithoutFromEmpty
  <2> QED
    BY <2>1, <2>2
<1>3. ASSUME NEW n \in 0..(Len(t) - 1), SubSeq(t, 1, n) \in T
      PROVE  Append(SubSeq(t, 1, n), t[n + 1]) \in T
  <2>1. PICK q : q = SubSeq(t, 1, n)
    OBVIOUS
  <2>2. PICK x \in S : x = t[n + 1]
    OBVIOUS
  <2>3. q \in Seq(S) /\ s \o q \in Seq(S) /\ Append(q, x) \in Seq(S)
    BY <1>3, <2>1
  <2>4. s \o Append(q, x) = Append(s \o q, x)
    BY <2>3, ConcatenationAppend
  <2>5. Without(s \o q, gone) = Without(s, gone) \o Without(q, gone)
    BY <1>3, <2>1
  <2>6. PICK r \in Seq(S) : r = s \o q
    BY <2>3
  <2>7. /\ Without(Append(r, x), gone)
             = IF x \in gone THEN Without(r, gone) ELSE Append(Without(r, gone), x)
        /\ Without(Append(q, x), gone)
             = IF x \in gone THEN Without(q, gone) ELSE Append(Without(q, gone), x)
    BY <2>3, WithoutAppend
  <2>8. Append(Without(s, gone) \o Without(q, gone), x)
          = Without(s, gone) \o Append(Without(q, gone), x)
    <3>1. PICK a \in Seq(S), b \in Seq(S) :
            a = Without(s, gone) /\ b = Without(q, gone)
      BY <1>1, <2>3, WithoutType
    <3>2. a \o Append(b, x) = Append(a \o b, x)
      BY ConcatenationAppend
    <3> QED
      BY <3>1, <3>2
  <2>9. Without(s \o Append(q, x), gone)
          = Without(s, gone) \o Without(Append(q, x), gone)
    BY <2>4, <2>5, <2>6, <2>7, <2>8
  <2> QED
    BY <2>1, <2>2, <2>3, <2>9
<1>4. t \in T
  <2> HIDE DEF T
  <2> QED
    BY <1>2, <1>3, PrefixInduction
<1> QED
  BY <1>4

(* Only the removed items that occur matter.                               *)
LEMMA WithoutSame ==
    ASSUME NEW S, NEW s \in Seq(S), NEW gone, NEW other,
           \A x \in Elements(s) : x \in gone <=> x \in other
    PROVE  Without(s, gone) = Without(s, other)
<1> DEFINE T == { q \in Seq(S) : Without(q, gone) = Without(q, other) }
<1>1. << >> \in T
  BY WithoutFromEmpty
<1>2. ASSUME NEW n \in 0..(Len(s) - 1), SubSeq(s, 1, n) \in T
      PROVE  Append(SubSeq(s, 1, n), s[n + 1]) \in T
  <2>1. PICK q : q = SubSeq(s, 1, n)
    OBVIOUS
  <2>2. PICK x \in S : x = s[n + 1]
    OBVIOUS
  <2>3. x \in Elements(s)
    BY <2>2 DEF Elements
  <2>4. q \in Seq(S) /\ Append(q, x) \in Seq(S)
    BY <1>2, <2>1
  <2>5. Without(q, gone) = Without(q, other)
    BY <1>2, <2>1
  <2>6. /\ Without(Append(q, x), gone)
             = IF x \in gone THEN Without(q, gone) ELSE Append(Without(q, gone), x)
        /\ Without(Append(q, x), other)
             = IF x \in other THEN Without(q, other) ELSE Append(Without(q, other), x)
    BY <2>4, WithoutAppend
  <2>7. Without(Append(q, x), gone) = Without(Append(q, x), other)
    BY <2>3, <2>5, <2>6
  <2> QED
    BY <2>1, <2>2, <2>4, <2>7
<1>3. s \in T
  <2> HIDE DEF T
  <2> QED
    BY <1>1, <1>2, PrefixInduction
<1> QED
  BY <1>3

(* Removing nothing.                                                       *)
LEMMA WithoutNothing ==
    ASSUME NEW S, NEW s \in Seq(S), NEW gone, Elements(s) \cap gone = {}
    PROVE  Without(s, gone) = s
<1> DEFINE T == { q \in Seq(S) : Without(q, gone) = q }
<1>1. << >> \in T
  BY WithoutFromEmpty
<1>2. ASSUME NEW n \in 0..(Len(s) - 1), SubSeq(s, 1, n) \in T
      PROVE  Append(SubSeq(s, 1, n), s[n + 1]) \in T
  <2>1. PICK q : q = SubSeq(s, 1, n)
    OBVIOUS
  <2>2. PICK x \in S : x = s[n + 1]
    OBVIOUS
  <2>3. x \notin gone
    BY <2>2 DEF Elements
  <2>4. q \in Seq(S) /\ Append(q, x) \in Seq(S) /\ Without(q, gone) = q
    BY <1>2, <2>1
  <2>5. Without(Append(q, x), gone) = Append(q, x)
    BY <2>3, <2>4, WithoutAppend
  <2> QED
    BY <2>1, <2>2, <2>4, <2>5
<1>3. s \in T
  <2> HIDE DEF T
  <2> QED
    BY <1>1, <1>2, PrefixInduction
<1> QED
  BY <1>3

-----------------------------------------------------------------------------
(***************************************************************************)
(* The items of queue are the last ones of values.                         *)
(***************************************************************************)
EndsWith(S, values, queue) == \E read \in Seq(S) : values = read \o queue

(* Feeding, polling and withdrawing keep it so.                            *)
LEMMA EndsWithOperations ==
    ASSUME NEW S, NEW values \in Seq(S), NEW queue \in Seq(S),
           EndsWith(S, values, queue), NEW items \in Seq(S), NEW gone
    PROVE  /\ EndsWith(S, values \o items, queue \o items)
           /\ EndsWith(S, values, << >>)
           /\ EndsWith(S, Without(values, gone), Without(queue, gone))
<1>1. PICK read \in Seq(S) : values = read \o queue
  BY DEF EndsWith
<1>2. (read \o queue) \o items = read \o (queue \o items)
  OBVIOUS
<1>3. values = values \o << >>
  OBVIOUS
<1>4. Without(values, gone) = Without(read, gone) \o Without(queue, gone)
  BY <1>1, WithoutConcatenation
<1>5. Without(read, gone) \in Seq(S)
  BY WithoutType
<1>6. EndsWith(S, values \o items, queue \o items)
  BY <1>1, <1>2 DEF EndsWith
<1>7. EndsWith(S, values, << >>)
  BY <1>3 DEF EndsWith
<1>8. EndsWith(S, Without(values, gone), Without(queue, gone))
  BY <1>4, <1>5 DEF EndsWith
<1> QED
  BY <1>6, <1>7, <1>8

(* Sequences are equal that have the same items.                           *)
LEMMA SequencesEqual ==
    ASSUME NEW S, NEW s \in Seq(S), NEW t \in Seq(S),
           Len(s) = Len(t), \A i \in 1..Len(t) : s[i] = t[i]
    PROVE  s = t
<1>1. DOMAIN s = 1..Len(t) /\ DOMAIN t = 1..Len(t)
  OBVIOUS
<1>2. s = [i \in 1..Len(t) |-> s[i]] /\ t = [i \in 1..Len(t) |-> t[i]]
  BY <1>1
<1> QED
  BY <1>2

(* What ends with its queue has a queue that is a suffix.                  *)
LEMMA EndsWithIsSuffix ==
    ASSUME NEW S, NEW f, f.values \in Seq(S), f.queue \in Seq(S),
           EndsWith(S, f.values, f.queue)
    PROVE  QueueIsSuffix(f)
<1>1. PICK values \in Seq(S), queue \in Seq(S), read \in Seq(S) :
        values = f.values /\ queue = f.queue /\ values = read \o queue
  BY DEF EndsWith
<1>2. Len(values) = Len(read) + Len(queue)
  BY <1>1
<1>3. Len(values) - Len(queue) = Len(read) /\ Len(read) >= 0
  BY <1>2
<1>4. queue = SubSeq(values, Len(read) + 1, Len(values))
  <2>1. /\ SubSeq(values, Len(read) + 1, Len(values)) \in Seq(S)
        /\ Len(SubSeq(values, Len(read) + 1, Len(values))) = Len(queue)
    BY <1>2
  <2>2. \A i \in 1..Len(queue) :
           SubSeq(values, Len(read) + 1, Len(values))[i] = queue[i]
    BY <1>1, <1>2
  <2>3. PICK s \in Seq(S) : s = SubSeq(values, Len(read) + 1, Len(values))
    BY <2>1
  <2>4. Len(s) = Len(queue) /\ \A i \in 1..Len(queue) : s[i] = queue[i]
    BY <2>1, <2>2, <2>3
  <2>5. s = queue
    BY <2>4, SequencesEqual
  <2> QED
    BY <2>3, <2>5
<1> QED
  BY <1>1, <1>3, <1>4 DEF QueueIsSuffix
=============================================================================
