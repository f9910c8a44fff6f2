---------------------------- MODULE ReturnsProofs ----------------------------
(* Proofs about what Returns computes, for any rewards: sums and weeks, the *)
(* order of flows, and the search for a rate, which the handler's proofs    *)
(* (WalletPageProofs) use.                                                  *)
EXTENDS Returns, TLAPS, WellFoundedInduction, FiniteSetTheorems

----------------------------------------------------------------------------
(* Sums.                                                                   *)

(* Some natural numbers have a least one.                                  *)
LEMMA LeastNumber ==
    ASSUME NEW B, B \subseteq Nat, B # {}
    PROVE  \E m \in B : \A x \in B : m <= x
<1>1. PICK m \in B : \A x \in B : ~(<<x, m>> \in OpToRel(<, Nat))
  <2>1. \E m \in B : \A x \in B : ~(<<x, m>> \in OpToRel(<, Nat))
    BY NatLessThanWellFounded, WFMin
  <2>2. QED
    BY <2>1
<1>2. ASSUME NEW x \in B
      PROVE  m <= x
  <2>1. x \in Nat /\ m \in Nat
    OBVIOUS
  <2>2. ~(<<x, m>> \in OpToRel(<, Nat))
    BY <1>1
  <2>3. ~(x < m)
    BY <2>1, <2>2 DEF OpToRel
  <2>4. QED
    BY <2>1, <2>3
<1>3. QED
  BY <1>1, <1>2

(* What is true of 0, and of each number up to n after the one before, is  *)
(* true up to n: the set of the numbers it is not true of has no least.    *)
LEMMA UpToAll ==
    ASSUME NEW n \in Nat, NEW Good, 0 \in Good,
           \A k \in 1..n : k - 1 \in Good => k \in Good
    PROVE  0..n \subseteq Good
<1> DEFINE Bad == {k \in 0..n : k \notin Good}
<1>1. SUFFICES ASSUME Bad # {}
               PROVE  FALSE
  OBVIOUS
<1>2. PICK m \in Bad : \A x \in Bad : m <= x
  <2>1. Bad \subseteq Nat
    OBVIOUS
  <2> HIDE DEF Bad
  <2>2. QED
    BY <1>1, <2>1, LeastNumber
<1>3. m # 0 /\ m \in 0..n /\ m \notin Good
  BY <1>2
<1>4. m \in 1..n /\ m - 1 \in 0..n /\ ~(m <= m - 1)
  BY <1>3
<1>5. m - 1 \in Good
  BY <1>2, <1>4
<1>6. QED
  BY <1>3, <1>4, <1>5

(* The sums of the first 0, 1, ... numbers of a sequence.                  *)
IsSums(p, s) ==
    /\ p \in [0..Len(s) -> Int]
    /\ p[0] = 0
    /\ \A i \in 1..Len(s) : p[i] = p[i - 1] + s[i]

(* They exist: each is made from the one before.                           *)
LEMMA SumsExist ==
    ASSUME NEW s \in Seq(Int)
    PROVE  \E p : IsSums(p, s)
<1> DEFINE n == Len(s)
           UpTo(p, k) == /\ p \in [0..k -> Int] /\ p[0] = 0
                         /\ \A i \in 1..k : p[i] = p[i - 1] + s[i]
           Good == {k \in 0..n : \E p : UpTo(p, k)}
<1>1. n \in Nat
  OBVIOUS
<1>2. 0 \in Good
  <2>1. UpTo([i \in 0..0 |-> 0], 0)
    OBVIOUS
  <2> HIDE DEF UpTo
  <2>2. QED
    BY <1>1, <2>1
<1>3. ASSUME NEW k \in 1..n, k - 1 \in Good
      PROVE  k \in Good
  <2>1. PICK p : UpTo(p, k - 1)
    BY <1>3
  <2> DEFINE q == [i \in 0..k |-> IF i = k THEN p[k - 1] + s[k] ELSE p[i]]
  <2>2. s[k] \in Int /\ k - 1 \in 0..(k - 1) /\ k - 1 \in Nat
    BY <1>1
  <2>3. \A i \in 0..(k - 1) : q[i] = p[i] /\ p[i] \in Int
    BY <1>1, <2>1
  <2>4. q[k] = p[k - 1] + s[k]
    BY <1>1
  <2>5. q \in [0..k -> Int]
    BY <2>1, <2>2, <2>3
  <2>6. q[0] = 0
    BY <2>1, <2>2, <2>3
  <2>7. ASSUME NEW i \in 1..k
        PROVE  q[i] = q[i - 1] + s[i]
    <3> HIDE DEF q
    <3>1. i - 1 \in 0..(k - 1) /\ q[i - 1] = p[i - 1]
      BY <1>1, <2>3
    <3>2. CASE i = k
      BY <2>4, <3>1, <3>2
    <3>3. CASE i # k
      <4>1. i \in 1..(k - 1) /\ i \in 0..(k - 1)
        BY <1>1, <3>3
      <4>2. QED
        BY <2>1, <2>3, <3>1, <4>1
    <3>4. QED
      BY <3>2, <3>3
  <2>8. UpTo(q, k)
    BY <2>5, <2>6, <2>7
  <2>9. k \in 0..n
    BY <1>1
  <2> HIDE DEF UpTo, q
  <2>10. QED
    BY <2>8, <2>9
<1>4. n \in Good
  <2> HIDE DEF Good, n
  <2>1. 0..n \subseteq Good
    BY <1>1, <1>2, <1>3, UpToAll
  <2>2. QED
    BY <1>1, <2>1
<1>5. QED
  BY <1>4 DEF IsSums

(* The recursive function of SumSeq is one of them, and the last is the    *)
(* sum.                                                                    *)
LEMMA SumsAreSum ==
    ASSUME NEW s \in Seq(Int)
    PROVE  \E p : IsSums(p, s) /\ SumSeq(s) = p[Len(s)]
<1> DEFINE F(p) == [i \in 0..Len(s) |-> IF i = 0 THEN 0 ELSE p[i - 1] + s[i]]
           P(p) == p = F(p)
<1>1. PICK f : IsSums(f, s)
  BY SumsExist
<1>2. P(f)
  <2>1. ASSUME NEW i \in 0..Len(s)
        PROVE  f[i] = F(f)[i]
    <3>1. CASE i = 0
      BY <1>1, <3>1 DEF IsSums
    <3>2. CASE i # 0
      <4>1. i \in 1..Len(s)
        BY <3>2
      <4>2. QED
        BY <1>1, <3>2, <4>1 DEF IsSums
    <3>3. QED
      BY <3>1, <3>2
  <2>2. f = [i \in 0..Len(s) |-> f[i]]
    BY <1>1 DEF IsSums
  <2>3. F(f) = [i \in 0..Len(s) |-> F(f)[i]]
    OBVIOUS
  <2> HIDE DEF F
  <2>4. QED
    BY <2>1, <2>2, <2>3
<1> DEFINE g == CHOOSE p : P(p)
<1>3. P(g)
  <2> HIDE DEF P
  <2>1. QED
    BY <1>2
<1>4. SumSeq(s) = g[Len(s)]
  BY DEF SumSeq
<1> HIDE DEF g
<1>5. /\ DOMAIN g = 0..Len(s) /\ Len(s) \in Nat
      /\ g[0] = 0 /\ g = [i \in 0..Len(s) |-> g[i]]
      /\ \A i \in 1..Len(s) : g[i] = g[i - 1] + s[i] /\ s[i] \in Int
  BY <1>3
<1>6. ASSUME NEW i \in 0..Len(s)
      PROVE  g[i] \in Int
  <2> DEFINE Good == {j \in 0..Len(s) : g[j] \in Int}
  <2>1. 0 \in Good
    BY <1>5
  <2>2. ASSUME NEW k \in 1..Len(s), k - 1 \in Good
        PROVE  k \in Good
    <3>1. k \in 0..Len(s) /\ g[k - 1] \in Int /\ s[k] \in Int
      BY <1>5, <2>2
    <3>2. g[k] = g[k - 1] + s[k]
      BY <1>5
    <3>3. QED
      BY <3>1, <3>2
  <2>3. 0..Len(s) \subseteq Good
    <3> HIDE DEF Good
    <3>1. QED
      BY <1>5, <2>1, <2>2, UpToAll
  <2>4. QED
    BY <2>3
<1>7. IsSums(g, s)
  BY <1>5, <1>6 DEF IsSums
<1>8. QED
  BY <1>4, <1>7

(* So is every other one, since they all agree.                            *)
LEMMA SumIsLast ==
    ASSUME NEW s \in Seq(Int), NEW p, IsSums(p, s)
    PROVE  SumSeq(s) = p[Len(s)]
<1>1. PICK q : IsSums(q, s) /\ SumSeq(s) = q[Len(s)]
  BY SumsAreSum
<1> DEFINE Good == {k \in 0..Len(s) : p[k] = q[k]}
<1>2. 0 \in Good
  BY <1>1 DEF IsSums
<1>3. ASSUME NEW k \in 1..Len(s), k - 1 \in Good
      PROVE  k \in Good
  BY <1>1, <1>3 DEF IsSums
<1>4. 0..Len(s) \subseteq Good
  <2>1. Len(s) \in Nat
    OBVIOUS
  <2> HIDE DEF Good
  <2>2. QED
    BY <1>2, <1>3, <2>1, UpToAll
<1>5. QED
  BY <1>1, <1>4

(* Numbers have a number as their sum.                                     *)
LEMMA SumIsInt ==
    ASSUME NEW n \in Nat, NEW s \in [1..n -> Int]
    PROVE  SumSeq(s) \in Int
<1>1. s \in Seq(Int) /\ Len(s) = n
  OBVIOUS
<1>2. PICK p : IsSums(p, s) /\ SumSeq(s) = p[n]
  BY <1>1, SumsAreSum
<1>3. QED
  BY <1>1, <1>2 DEF IsSums

(* Sums of sums of the same length add up.                                 *)
LEMMA SumAdds ==
    ASSUME NEW n \in Nat, NEW a \in [1..n -> Int], NEW b \in [1..n -> Int]
    PROVE  SumSeq([i \in 1..n |-> a[i] + b[i]]) = SumSeq(a) + SumSeq(b)
<1> DEFINE c == [i \in 1..n |-> a[i] + b[i]]
<1>1. /\ a \in Seq(Int) /\ Len(a) = n /\ b \in Seq(Int) /\ Len(b) = n
      /\ c \in Seq(Int) /\ Len(c) = n
  OBVIOUS
<1>2. PICK p, q : /\ IsSums(p, a) /\ SumSeq(a) = p[n]
                  /\ IsSums(q, b) /\ SumSeq(b) = q[n]
  BY <1>1, SumsAreSum
<1> DEFINE r == [i \in 0..n |-> p[i] + q[i]]
<1>3. IsSums(r, c)
  <2>1. \A i \in 0..n : p[i] \in Int /\ q[i] \in Int
    BY <1>1, <1>2 DEF IsSums
  <2>2. r \in [0..n -> Int] /\ r[0] = 0
    BY <1>1, <1>2, <2>1 DEF IsSums
  <2>3. ASSUME NEW i \in 1..n
        PROVE  r[i] = r[i - 1] + c[i]
    <3>1. i \in 0..n /\ i - 1 \in 0..n
      OBVIOUS
    <3>2. p[i] = p[i - 1] + a[i] /\ q[i] = q[i - 1] + b[i]
      BY <1>1, <1>2 DEF IsSums
    <3>3. QED
      BY <2>1, <3>1, <3>2
  <2>4. QED
    BY <1>1, <2>2, <2>3 DEF IsSums
<1>4. SumSeq(c) = r[n]
  BY <1>1, <1>3, SumIsLast
<1>5. QED
  BY <1>2, <1>4

(* No number of a sequence is more than its sum.                           *)
LEMMA SumIsMost ==
    ASSUME NEW n \in Nat, NEW s \in [1..n -> Nat]
    PROVE  SumSeq(s) \in Nat /\ \A i \in 1..n : s[i] <= SumSeq(s)
<1>1. s \in Seq(Int) /\ Len(s) = n
  OBVIOUS
<1>2. PICK p : IsSums(p, s) /\ SumSeq(s) = p[n]
  BY <1>1, SumsAreSum
<1> DEFINE Good == {k \in 0..n : p[k] \in Nat /\ \A i \in 1..k : s[i] <= p[k]}
<1>3. 0 \in Good
  BY <1>1, <1>2 DEF IsSums
<1>4. ASSUME NEW k \in 1..n, k - 1 \in Good
      PROVE  k \in Good
  <2>1. p[k] = p[k - 1] + s[k] /\ s[k] \in Nat /\ k \in 0..n
    BY <1>1, <1>2 DEF IsSums
  <2>2. p[k - 1] \in Nat /\ \A i \in 1..(k - 1) : s[i] <= p[k - 1]
    BY <1>4
  <2>3. ASSUME NEW i \in 1..k
        PROVE  s[i] <= p[k]
    <3>1. CASE i = k
      BY <2>1, <2>2, <3>1
    <3>2. CASE i # k
      <4>1. i \in 1..(k - 1) /\ s[i] \in Nat
        BY <3>2
      <4>2. QED
        BY <2>1, <2>2, <4>1
    <3>3. QED
      BY <3>1, <3>2
  <2>4. QED
    BY <2>1, <2>2, <2>3
<1>5. n \in Good
  <2> HIDE DEF Good
  <2>1. 0..n \subseteq Good
    BY <1>3, <1>4, UpToAll
  <2>2. QED
    BY <2>1
<1>6. QED
  BY <1>2, <1>5

(* Used at each step of the next proof.                                    *)
LEMMA BothAtMost ==
    ASSUME NEW a \in Int, NEW b \in Int, NEW c \in Int, NEW x \in Int, NEW y \in Int,
           NEW z \in Int, a <= b + c, x <= y + z
    PROVE  a + x <= (b + y) + (c + z)
  OBVIOUS

(* Parts that are dealt out over m heaps, and the rest: if each part is    *)
(* no more than what the heaps and the rest have of it, the parts together *)
(* are no more than the heaps and the rest together.                       *)
LEMMA SumOfSums ==
    ASSUME NEW m \in Nat, NEW n \in Nat, NEW x \in [1..n -> Nat],
           NEW y \in [1..m -> [1..n -> Nat]], NEW rest \in [1..n -> Nat],
           \A i \in 1..n : x[i] <= SumSeq([w \in 1..m |-> y[w][i]]) + rest[i]
    PROVE  SumSeq(x) <= SumSeq([w \in 1..m |-> SumSeq(y[w])]) + SumSeq(rest)
<1>1. PICK p, q : /\ IsSums(p, x) /\ SumSeq(x) = p[n] /\ Len(x) = n
                  /\ IsSums(q, rest) /\ SumSeq(rest) = q[n] /\ Len(rest) = n
  <2>1. x \in Seq(Int) /\ Len(x) = n /\ rest \in Seq(Int) /\ Len(rest) = n
    OBVIOUS
  <2>2. QED
    BY <2>1, SumsAreSum
<1> DEFINE part == [w \in 1..m |-> CHOOSE f : IsSums(f, y[w]) /\ SumSeq(y[w]) = f[n]]
           Heaps(k) == [w \in 1..m |-> part[w][k]]
           Dealt(k) == SumSeq(Heaps(k))
<1>2. ASSUME NEW w \in 1..m
      PROVE  IsSums(part[w], y[w]) /\ SumSeq(y[w]) = part[w][n] /\ Len(y[w]) = n
  <2>1. y[w] \in [1..n -> Nat]
    OBVIOUS
  <2>2. y[w] \in Seq(Int) /\ Len(y[w]) = n
    BY <2>1
  <2>3. \E f : IsSums(f, y[w]) /\ SumSeq(y[w]) = f[n]
    BY <2>2, SumsAreSum
  <2>4. QED
    BY <2>2, <2>3
<1>3. \A k \in 0..n : \A w \in 1..m : part[w][k] \in Int
  <2> HIDE DEF part
  <2>1. QED
    BY <1>2 DEF IsSums
<1> HIDE DEF part
<1>4. \A k \in 0..n : Heaps(k) \in [1..m -> Int]
  BY <1>3
<1> DEFINE Good == {k \in 0..n : p[k] <= Dealt(k) + q[k]}
<1>5. 0 \in Good
  <2>1. p[0] = 0 /\ q[0] = 0
    BY <1>1 DEF IsSums
  <2>2. ASSUME NEW w \in 1..m
        PROVE  part[w][0] = 0
    BY <1>2 DEF IsSums
  <2>3. Heaps(0) \in [1..m -> Nat]
    BY <2>2
  <2>4. Dealt(0) \in Nat
    <3> HIDE DEF Heaps
    <3>1. QED
      BY <2>3, SumIsMost
  <2>5. 0 \in 0..n
    OBVIOUS
  <2> HIDE DEF Dealt
  <2>6. QED
    BY <2>1, <2>4, <2>5
<1>6. ASSUME NEW k \in 1..n, k - 1 \in Good
      PROVE  k \in Good
  <2> DEFINE new == [w \in 1..m |-> y[w][k]]
  <2>1. k \in 0..n /\ k - 1 \in 0..n
    OBVIOUS
  <2>2. new \in [1..m -> Int]
    OBVIOUS
  <2>3. Heaps(k) = [w \in 1..m |-> Heaps(k - 1)[w] + new[w]]
    <3>1. ASSUME NEW w \in 1..m
          PROVE  part[w][k] = part[w][k - 1] + y[w][k]
      BY <1>2 DEF IsSums
    <3>2. QED
      BY <3>1
  <2>4. Dealt(k) = Dealt(k - 1) + SumSeq(new)
    <3>1. Heaps(k - 1) \in [1..m -> Int]
      BY <1>4, <2>1
    <3> HIDE DEF Heaps, new
    <3>2. SumSeq([w \in 1..m |-> Heaps(k - 1)[w] + new[w]])
             = SumSeq(Heaps(k - 1)) + SumSeq(new)
      BY <2>2, <3>1, SumAdds
    <3>3. QED
      BY <2>3, <3>2
  <2>5. x[k] <= SumSeq(new) + rest[k]
    OBVIOUS
  <2>6. p[k] = p[k - 1] + x[k] /\ q[k] = q[k - 1] + rest[k]
    BY <1>1 DEF IsSums
  <2>7. p[k - 1] <= Dealt(k - 1) + q[k - 1]
    BY <1>6
  <2>8. /\ p[k - 1] \in Int /\ q[k - 1] \in Int /\ x[k] \in Int /\ rest[k] \in Int
        /\ Dealt(k - 1) \in Int /\ SumSeq(new) \in Int
    <3>1. p[k - 1] \in Int /\ q[k - 1] \in Int
      BY <1>1, <2>1 DEF IsSums
    <3>2. new \in [1..m -> Nat]
      OBVIOUS
    <3>3. SumSeq(new) \in Int
      <4> HIDE DEF new
      <4>1. QED
        BY <3>2, SumIsMost
    <3>4. Dealt(k - 1) \in Int
      <4>1. Heaps(k - 1) \in [1..m -> Int]
        BY <1>4, <2>1
      <4> HIDE DEF Heaps
      <4>2. QED
        BY <4>1, SumIsInt
    <3> HIDE DEF Dealt, new
    <3>5. QED
      BY <3>1, <3>3, <3>4
  <2> HIDE DEF Dealt, new
  <2>9. p[k - 1] + x[k] <= (Dealt(k - 1) + SumSeq(new)) + (q[k - 1] + rest[k])
    BY <2>5, <2>7, <2>8, BothAtMost, Zenon
  <2>10. p[k] <= Dealt(k) + q[k]
    BY <2>4, <2>6, <2>9
  <2>11. QED
    BY <2>1, <2>10
<1>7. n \in Good
  <2> HIDE DEF Good
  <2>1. 0..n \subseteq Good
    BY <1>5, <1>6, UpToAll
  <2>2. QED
    BY <2>1
<1>8. Heaps(n) = [w \in 1..m |-> SumSeq(y[w])]
  BY <1>2
<1>9. QED
  BY <1>1, <1>7, <1>8

----------------------------------------------------------------------------
(* Weeks.                                                                  *)

(* Whole weeks, counted.                                                   *)
LEMMA WholeWeeks ==
    ASSUME NEW d \in Int
    PROVE  (d * WeekTicks) \div WeekTicks = d
<1>1. WeekTicks \in Nat \ {0}
  BY ReturnsAssumption
<1>2. QED
  BY <1>1

(* A time is a number of whole weeks and a part of one.                    *)
LEMMA WeekParts ==
    ASSUME NEW t \in Nat
    PROVE  \E k \in Nat, part \in 0..(WeekTicks - 1) :
              t = k * WeekTicks + part /\ WeekFloor(t) = k * WeekTicks
<1>1. WeekTicks \in Nat \ {0}
  BY ReturnsAssumption
<1>2. t \div WeekTicks \in Nat /\ t % WeekTicks \in 0..(WeekTicks - 1)
      /\ t = (t \div WeekTicks) * WeekTicks + (t % WeekTicks)
  BY <1>1
<1>3. WeekFloor(t) = (t \div WeekTicks) * WeekTicks
  BY <1>1, <1>2 DEF WeekFloor
<1>4. QED
  BY <1>2, <1>3

(* The part decides nothing between times of different weeks.              *)
LEMMA MultiplesOrdered ==
    ASSUME NEW d \in Int, NEW e \in Int, NEW part \in 0..(WeekTicks - 1)
    PROVE  d * WeekTicks + part >= e * WeekTicks <=> d >= e
<1>1. WeekTicks \in Nat \ {0}
  BY ReturnsAssumption
<1>2. CASE d >= e
  <2>1. PICK g \in Nat : d = e + g
    BY <1>2, d - e \in Nat
  <2>2. d * WeekTicks = e * WeekTicks + g * WeekTicks
    BY <1>1, <2>1
  <2>3. g * WeekTicks \in Nat /\ e * WeekTicks \in Int
    BY <1>1
  <2>4. QED
    BY <1>1, <1>2, <2>2, <2>3
<1>3. CASE d < e
  <2>1. PICK g \in Nat : e = d + 1 + g
    BY <1>3, e - d - 1 \in Nat
  <2>2. e * WeekTicks = d * WeekTicks + WeekTicks + g * WeekTicks
    BY <1>1, <2>1
  <2>3. g * WeekTicks \in Nat /\ d * WeekTicks \in Int
    BY <1>1
  <2>4. QED
    BY <1>1, <1>3, <2>2, <2>3
<1>4. QED
  BY <1>2, <1>3

----------------------------------------------------------------------------
(* Functions made value by value, and orders.                              *)

(* A function that starts somewhere and goes on by a rule, "next".         *)
IsIterated(f, n, Values, first, next) ==
    /\ f \in [0..n -> Values]
    /\ f[0] = first
    /\ \A k \in 1..n : f[k] = next[f[k - 1]]

(* There is one.                                                           *)
LEMMA Iterates ==
    ASSUME NEW n \in Nat, NEW Values, NEW first \in Values, NEW next \in [Values -> Values]
    PROVE  \E f : IsIterated(f, n, Values, first, next)
<1> DEFINE UpTo(f, k) == /\ f \in [0..k -> Values] /\ f[0] = first
                         /\ \A i \in 1..k : f[i] = next[f[i - 1]]
           Good == {k \in 0..n : \E f : UpTo(f, k)}
<1>1. 0 \in Good
  <2>1. UpTo([i \in 0..0 |-> first], 0)
    OBVIOUS
  <2> HIDE DEF UpTo
  <2>2. QED
    BY <2>1
<1>2. ASSUME NEW k \in 1..n, k - 1 \in Good
      PROVE  k \in Good
  <2>1. PICK f : UpTo(f, k - 1)
    BY <1>2
  <2> DEFINE g == [i \in 0..k |-> IF i = k THEN next[f[k - 1]] ELSE f[i]]
  <2>2. k - 1 \in 0..(k - 1) /\ f[k - 1] \in Values /\ next[f[k - 1]] \in Values
    BY <2>1
  <2>3. /\ \A i \in 0..(k - 1) : g[i] = f[i] /\ f[i] \in Values
        /\ g[k] = next[f[k - 1]]
    BY <2>1
  <2>4. g \in [0..k -> Values] /\ g[0] = first
    BY <2>1, <2>2, <2>3
  <2>5. ASSUME NEW i \in 1..k
        PROVE  g[i] = next[g[i - 1]]
    <3> HIDE DEF g
    <3>1. i - 1 \in 0..(k - 1) /\ g[i - 1] = f[i - 1]
      BY <2>3
    <3>2. CASE i = k
      BY <2>3, <3>1, <3>2
    <3>3. CASE i # k
      <4>1. i \in 1..(k - 1) /\ i \in 0..(k - 1)
        BY <3>3
      <4>2. QED
        BY <2>1, <2>3, <3>1, <4>1
    <3>4. QED
      BY <3>2, <3>3
  <2> HIDE DEF g
  <2>6. UpTo(g, k)
    BY <2>4, <2>5
  <2>7. k \in 0..n
    OBVIOUS
  <2> HIDE DEF UpTo
  <2>8. QED
    BY <2>6, <2>7
<1>3. n \in Good
  <2> HIDE DEF Good
  <2>1. 0..n \subseteq Good
    BY <1>1, <1>2, UpToAll
  <2>2. QED
    BY <2>1
<1>4. QED
  BY <1>3 DEF IsIterated

(* What "before" must say of keys to put each at a place of its own.       *)
IsOrder(before, S) ==
    /\ IsFiniteSet(S) /\ before \in [S -> SUBSET S]
    /\ \A i \in S : i \notin before[i]
    /\ \A i, j \in S : j \in before[i] => before[j] \subseteq before[i]
    /\ \A i, j \in S : i = j \/ i \in before[j] \/ j \in before[i]

(* No two keys have as many others before them.                            *)
LEMMA RanksDiffer ==
    ASSUME NEW S, NEW before, IsOrder(before, S), NEW i \in S, NEW j \in S,
           Cardinality(before[i]) = Cardinality(before[j])
    PROVE  i = j
<1>1. ASSUME NEW x \in S, NEW y \in S, x \in before[y],
             Cardinality(before[x]) = Cardinality(before[y])
      PROVE  FALSE
  <2>1. before[y] \in SUBSET S /\ before[x] \in SUBSET before[y] /\ IsFiniteSet(S)
    BY <1>1 DEF IsOrder
  <2>2. IsFiniteSet(before[y])
    BY <2>1, FS_Subset
  <2>3. before[x] = before[y]
    BY <1>1, <2>1, <2>2, FS_Subset
  <2>4. QED
    BY <1>1, <2>3 DEF IsOrder
<1>2. QED
  BY <1>1 DEF IsOrder

(* So there is a key for each place.                                       *)
LEMMA RankedIsOrder ==
    ASSUME NEW S, NEW before, IsOrder(before, S)
    PROVE  /\ Cardinality(S) \in Nat
           /\ Ranked(before) \in [1..Cardinality(S) -> S]
           /\ \A k \in 1..Cardinality(S) : Cardinality(before[Ranked(before)[k]]) = k - 1
<1> DEFINE n == Cardinality(S)
           rank == [i \in S |-> Cardinality(before[i])]
<1>1. IsFiniteSet(S) /\ n \in Nat /\ DOMAIN before = S
  BY FS_CardinalityType DEF IsOrder
<1>2. ASSUME NEW i \in S
      PROVE  rank[i] \in 0..(n - 1)
  <2>1. before[i] \in SUBSET (S \ {i})
    BY DEF IsOrder
  <2>2. IsFiniteSet(S \ {i}) /\ Cardinality(S \ {i}) = n - 1
    BY <1>1, FS_RemoveElement
  <2>3. IsFiniteSet(before[i]) /\ Cardinality(before[i]) <= n - 1
    BY <2>1, <2>2, FS_Subset
  <2>4. Cardinality(before[i]) \in Nat
    BY <2>3, FS_CardinalityType
  <2>5. QED
    BY <1>1, <2>3, <2>4
<1>3. ASSUME NEW k \in 1..n, ~ \E i \in S : rank[i] = k - 1
      PROVE  FALSE
  <2> DEFINE others == (0..(n - 1)) \ {k - 1}
  <2>1. IsFiniteSet(0..(n - 1)) /\ Cardinality(0..(n - 1)) = n
    <3>1. 0 \in Int /\ n - 1 \in Int /\ (0 > n - 1 => n = 0) /\ (n - 1) - 0 + 1 = n
      BY <1>1
    <3> HIDE DEF n
    <3>2. QED
      BY <3>1, FS_Interval
  <2>2. IsFiniteSet(others) /\ Cardinality(others) = n - 1
    <3>1. k - 1 \in 0..(n - 1)
      BY <1>1
    <3> HIDE DEF n
    <3>2. QED
      BY <2>1, <3>1, FS_RemoveElement
  <2>3. rank \in [S -> others]
    BY <1>2, <1>3
  <2> HIDE DEF others, rank
  <2>4. PICK x \in S, y \in S : x # y /\ rank[x] = rank[y]
    BY <1>1, <2>2, <2>3, FS_PigeonHole
  <2>5. QED
    BY <2>4, RanksDiffer DEF rank
<1>4. ASSUME NEW k \in 1..n
      PROVE  Ranked(before)[k] \in S /\ Cardinality(before[Ranked(before)[k]]) = k - 1
  <2>1. \E i \in S : Cardinality(before[i]) = k - 1
    BY <1>3
  <2>2. Ranked(before)[k] = CHOOSE i \in S : Cardinality(before[i]) = k - 1
    BY <1>1 DEF Ranked
  <2>3. QED
    BY <2>1, <2>2
<1>5. Ranked(before) = [k \in 1..n |-> Ranked(before)[k]]
  BY <1>1 DEF Ranked
<1>6. QED
  BY <1>1, <1>4, <1>5

(* Some places in increasing order are a sequence of them.                 *)
LEMMA InOrderIsSeq ==
    ASSUME NEW n \in Nat, NEW places, places \subseteq 1..n
    PROVE  /\ Cardinality(places) \in Nat
           /\ InOrder(places) \in [1..Cardinality(places) -> places]
           /\ Cardinality(places) = 0 <=> places = {}
<1> DEFINE before == [i \in places |-> {j \in places : j < i}]
<1>1. IsFiniteSet(places)
  <2>1. IsFiniteSet(1..n)
    BY FS_Interval
  <2>2. QED
    BY <2>1, FS_Subset
<1>2. IsOrder(before, places)
  <2>1. \A i \in places : i \in Int
    OBVIOUS
  <2>2. before \in [places -> SUBSET places]
    OBVIOUS
  <2>3. \A i, j \in places : j \in before[i] <=> j < i
    OBVIOUS
  <2> HIDE DEF before
  <2>4. \A i \in places : i \notin before[i]
    BY <2>1, <2>3
  <2>5. ASSUME NEW i \in places, NEW j \in places, j \in before[i]
        PROVE  before[j] \subseteq before[i]
    <3>1. ASSUME NEW k \in before[j]
          PROVE  k \in before[i]
      <4>1. k \in places
        BY <2>2, <3>1
      <4>2. k < j /\ j < i
        BY <2>3, <2>5, <3>1, <4>1
      <4>3. k < i
        BY <2>1, <4>1, <4>2
      <4>4. QED
        BY <2>3, <4>1, <4>3
    <3>2. QED
      BY <3>1
  <2>6. \A i, j \in places : i = j \/ i \in before[j] \/ j \in before[i]
    BY <2>1, <2>3
  <2>7. QED
    BY <1>1, <2>2, <2>4, <2>5, <2>6 DEF IsOrder
<1>3. InOrder(places) = Ranked(before)
  BY DEF InOrder
<1> HIDE DEF before
<1>4. Cardinality(places) = 0 <=> places = {}
  BY <1>1, FS_EmptySet
<1>5. QED
  BY <1>2, <1>3, <1>4, RankedIsOrder

----------------------------------------------------------------------------
(* The cash flows.                                                         *)

Flow == [when : Int, amount : Int]

(* Sorting changes neither the first flow, when all others are later, nor  *)
(* the last, when all others are earlier, and puts the others between.     *)
LEMMA ByTimeSorts ==
    ASSUME NEW n \in Nat, n >= 2, NEW flows \in [1..n -> Flow],
           \A j \in 2..n : flows[1].when < flows[j].when,
           \A j \in 1..(n - 1) : flows[j].when < flows[n].when
    PROVE  /\ ByTime(flows) \in [1..n -> Flow]
           /\ ByTime(flows)[1] = flows[1]
           /\ ByTime(flows)[n] = flows[n]
           /\ \A k \in 2..(n - 1) : \E i \in 2..(n - 1) : ByTime(flows)[k] = flows[i]
<1> DEFINE S == 1..n
           Earlier(j, i) == \/ flows[j].when < flows[i].when
                            \/ flows[j].when = flows[i].when /\ j < i
           before == [i \in S |-> {j \in S : Earlier(j, i)}]
           order == Ranked(before)
<1>1. IsFiniteSet(S) /\ Cardinality(S) = n /\ 1 \in S /\ n \in S /\ 1 # n
  <2>1. IsFiniteSet(1..n) /\ Cardinality(1..n) = n
    <3>1. 1 \in Int /\ ~(1 > n) /\ n - 1 + 1 = n
      OBVIOUS
    <3>2. QED
      BY <3>1, FS_Interval
  <2>2. QED
    BY <2>1
<1>2. \A i \in S : flows[i].when \in Int /\ i \in Int
  BY DEF Flow
<1>3. /\ before \in [S -> SUBSET S]
      /\ \A i, j \in S : j \in before[i] <=> Earlier(j, i)
  OBVIOUS
<1>4. IsOrder(before, S)
  <2> HIDE DEF before, S
  <2>1. \A i \in S : i \notin before[i]
    BY <1>2, <1>3
  <2>2. ASSUME NEW i \in S, NEW j \in S, j \in before[i], NEW k \in before[j]
        PROVE  k \in before[i]
    <3>1. k \in S
      BY <1>3, <2>2
    <3>2. Earlier(k, j) /\ Earlier(j, i)
      BY <1>3, <2>2, <3>1
    <3>3. Earlier(k, i)
      BY <1>2, <3>1, <3>2
    <3>4. QED
      BY <1>3, <3>1, <3>3
  <2>3. \A i, j \in S : i = j \/ i \in before[j] \/ j \in before[i]
    BY <1>2, <1>3
  <2>4. QED
    BY <1>1, <1>3, <2>1, <2>2, <2>3 DEF IsOrder
<1>5. ByTime(flows) = [k \in S |-> flows[order[k]]]
  BY DEF ByTime
<1>6. /\ order \in [S -> S]
      /\ \A k \in S : Cardinality(before[order[k]]) = k - 1
  <2> HIDE DEF before
  <2>1. QED
    BY <1>1, <1>4, RankedIsOrder
<1>7. before[1] = {} /\ before[n] = S \ {n}
  <2> HIDE DEF before
  <2>1. ASSUME NEW j \in S
        PROVE  ~Earlier(j, 1) /\ (Earlier(j, n) <=> j # n)
    <3>1. CASE j = 1
      BY <1>2, <3>1
    <3>2. CASE j = n
      BY <1>2, <3>2
    <3>3. CASE j # 1 /\ j # n
      BY <1>2, <3>3
    <3>4. QED
      BY <3>1, <3>2, <3>3
  <2>2. \A j \in S : j \notin before[1] /\ (j \in before[n] <=> j # n)
    BY <1>1, <1>3, <2>1
  <2>3. before[1] \subseteq S /\ before[n] \subseteq S
    BY <1>1, <1>3
  <2> HIDE DEF S
  <2>4. QED
    BY <2>2, <2>3
<1>8. Cardinality(before[1]) = 0 /\ Cardinality(before[n]) = n - 1
  <2> HIDE DEF before, S
  <2>1. QED
    BY <1>1, <1>7, FS_EmptySet, FS_RemoveElement
<1>9. order[1] = 1 /\ order[n] = n
  <2>1. /\ Cardinality(before[order[1]]) = Cardinality(before[1])
        /\ Cardinality(before[order[n]]) = Cardinality(before[n])
    <3> HIDE DEF before, order
    <3>1. QED
      BY <1>1, <1>6, <1>8
  <2> HIDE DEF before, order, S
  <2>2. order[1] \in S /\ order[n] \in S
    BY <1>1, <1>6
  <2>3. QED
    BY <1>1, <1>4, <2>1, <2>2, RanksDiffer
<1> HIDE DEF before, order
<1>10. ASSUME NEW k \in 2..(n - 1)
       PROVE  order[k] \in 2..(n - 1)
  <2>1. k \in S
    OBVIOUS
  <2>2. order[k] \in S /\ Cardinality(before[order[k]]) = k - 1
    <3> HIDE DEF S
    <3>1. QED
      BY <1>6, <2>1
  <2>3. order[k] # 1 /\ order[k] # n
    BY <1>8, <2>2
  <2>4. QED
    BY <2>2, <2>3
<1>11. ByTime(flows) \in [1..n -> Flow]
  BY <1>5, <1>6
<1>12. ASSUME NEW k \in 2..(n - 1)
       PROVE  \E i \in 2..(n - 1) : ByTime(flows)[k] = flows[i]
  <2>1. k \in S
    OBVIOUS
  <2>2. QED
    BY <1>5, <1>10, <2>1
<1>13. QED
  BY <1>1, <1>5, <1>9, <1>11, <1>12

LEMMA SeqIsFunction ==
    ASSUME NEW Values, NEW s \in Seq(Values)
    PROVE  s \in [1..Len(s) -> Values]
  OBVIOUS

(* A flow before n others, and one after them.                             *)
IsAround(all, a, flows, b, n) ==
    /\ all \in [1..(n + 2) -> Flow]
    /\ all[1] = a /\ all[n + 2] = b
    /\ \A i \in 2..(n + 1) : all[i] = flows[i - 1]

LEMMA StakeAround ==
    ASSUME NEW n \in Nat, NEW a \in Flow, NEW b \in Flow, NEW flows \in [1..n -> Flow]
    PROVE  IsAround(<<a>> \o flows \o <<b>>, a, flows, b, n)
<1> DEFINE all == <<a>> \o flows \o <<b>>
<1>1. /\ flows \in Seq(Flow) /\ Len(flows) = n
      /\ <<a>> \in Seq(Flow) /\ Len(<<a>>) = 1 /\ <<a>>[1] = a
      /\ <<b>> \in Seq(Flow) /\ Len(<<b>>) = 1 /\ <<b>>[1] = b
  OBVIOUS
<1> DEFINE most == <<a>> \o flows
<1>2. most \in Seq(Flow) /\ Len(most) = n + 1
  BY <1>1
<1>3. most[1] = a /\ \A i \in 2..(n + 1) : most[i] = flows[i - 1]
  BY <1>1
<1> HIDE DEF most
<1>4. all = most \o <<b>>
  BY DEF most
<1>5. /\ most \o <<b>> \in Seq(Flow) /\ Len(most \o <<b>>) = n + 2
      /\ (most \o <<b>>)[n + 2] = b
      /\ \A i \in 1..(n + 1) : (most \o <<b>>)[i] = most[i]
  BY <1>1, <1>2
<1> HIDE DEF all
<1>6. /\ all \in Seq(Flow) /\ Len(all) = n + 2
      /\ all[n + 2] = b /\ \A i \in 1..(n + 1) : all[i] = most[i]
  BY <1>4, <1>5
<1>7. all \in [1..(n + 2) -> Flow]
  BY <1>6, SeqIsFunction, Zenon
<1>8. all[1] = a
  BY <1>3, <1>6
<1>9. \A i \in 2..(n + 1) : all[i] = flows[i - 1]
  BY <1>3, <1>6
<1>10. QED
  BY <1>6, <1>7, <1>8, <1>9 DEF all, IsAround

(* earliestReward finds the first of the oldest rewards.                   *)
LEMMA EarliestIsOldest ==
    ASSUME NEW n \in Nat \ {0}, NEW rows, DOMAIN rows = 1..n,
           \A i \in 1..n : rows[i].at \in Nat
    PROVE  /\ Earliest(rows) \in 1..n
           /\ \A j \in 1..n : rows[Earliest(rows)].at <= rows[j].at
<1> DEFINE times == {rows[i].at : i \in 1..n}
<1>1. PICK time \in times : \A x \in times : time <= x
  <2>1. times \subseteq Nat /\ rows[1].at \in times
    OBVIOUS
  <2> HIDE DEF times
  <2>2. QED
    BY <2>1, LeastNumber
<1> DEFINE oldest == {i \in 1..n : rows[i].at = time}
<1>2. PICK first \in oldest : \A i \in oldest : first <= i
  <2>1. oldest \subseteq Nat /\ oldest # {}
    BY <1>1
  <2> HIDE DEF oldest
  <2>2. QED
    BY <2>1, LeastNumber
<1>3. ASSUME NEW j \in 1..n
      PROVE  \/ rows[first].at < rows[j].at
             \/ rows[first].at = rows[j].at /\ first <= j
  <2>1. rows[first].at = time /\ rows[first].at \in Nat /\ rows[j].at \in Nat
    BY <1>2
  <2>2. rows[first].at <= rows[j].at
    BY <1>1, <2>1
  <2>3. CASE rows[j].at = time
    BY <1>2, <2>1, <2>3
  <2>4. CASE rows[j].at # time
    BY <2>1, <2>2, <2>4
  <2>5. QED
    BY <2>3, <2>4
<1>4. first \in 1..n
  BY <1>2
<1>5. /\ Earliest(rows) \in 1..n
      /\ \A j \in 1..n : \/ rows[Earliest(rows)].at < rows[j].at
                         \/ rows[Earliest(rows)].at = rows[j].at /\ Earliest(rows) <= j
  BY <1>3, <1>4 DEF Earliest
<1>6. QED
  BY <1>5

(* The estimate of the epoch's end is at least an hour ahead.              *)
IsInfo(info) == info = {} \/ \E index \in 0..(EpochTicks - 1) : info = {index}

LEMMA EndIsAhead ==
    ASSUME NEW asOf \in Nat, NEW info, IsInfo(info)
    PROVE  /\ CurrentEpochEnd(asOf, info) \in Int
           /\ CurrentEpochEnd(asOf, info) >= asOf + HourTicks
           /\ CurrentEpochEnd(asOf, info) <= asOf + EpochTicks
<1> USE ReturnsAssumption
<1>1. CASE info = {}
  BY <1>1 DEF CurrentEpochEnd
<1>2. ASSUME NEW index \in 0..(EpochTicks - 1), info = {index}
      PROVE  /\ CurrentEpochEnd(asOf, info) \in Int
             /\ CurrentEpochEnd(asOf, info) >= asOf + HourTicks
             /\ CurrentEpochEnd(asOf, info) <= asOf + EpochTicks
  <2>1. info # {} /\ (CHOOSE i \in info : TRUE) = index
    BY <1>2
  <2>2. CurrentEpochEnd(asOf, info)
           = asOf + IF EpochTicks - index < HourTicks THEN HourTicks ELSE EpochTicks - index
    BY <2>1 DEF CurrentEpochEnd
  <2>3. QED
    BY <2>2
<1>3. QED
  BY <1>1, <1>2 DEF IsInfo

(* The flows of a stake: n of them, the stake first and last.              *)
IsReturn(flows, n, stake) ==
    /\ n \in Nat /\ n >= 2 /\ flows \in [1..n -> Flow]
    /\ flows[1].amount = -stake /\ flows[n].amount = stake
    /\ \A i \in 1..n : flows[i].when - flows[1].when \in 0..MaxTicks
    /\ \A i \in 2..(n - 1) : /\ flows[i].amount \in Nat
                             /\ flows[1].when < flows[i].when
                             /\ flows[i].when < flows[n].when

(* The start that buildCashFlows finds for a reward is before it, and not  *)
(* before "low".                                                           *)
StartsBefore(row, boundaries, low) ==
    /\ low <= row.at - EpochDuration(boundaries)
    /\ \/ EpochStart(row.epoch, boundaries) = {}
       \/ \E end \in Int : /\ EpochStart(row.epoch, boundaries) = {end}
                           /\ low <= end /\ end < row.at

(* buildCashFlows: when rewards are older than the estimated end, and have *)
(* a start, the stake goes out before all of them and comes back after.    *)
LEMMA CashFlowsReturn ==
    ASSUME NEW asOf \in Nat, NEW stake \in Nat, NEW n \in Nat \ {0}, NEW rows,
           DOMAIN rows = 1..n, NEW boundaries, NEW info, IsInfo(info),
           EpochDuration(boundaries) \in Nat \ {0},
           NEW low \in Int, asOf + EpochTicks - low <= MaxTicks,
           \A i \in 1..n : /\ rows[i].at \in Nat /\ rows[i].amount \in Nat
                           /\ rows[i].at < asOf + HourTicks
                           /\ StartsBefore(rows[i], boundaries, low)
    PROVE  IsReturn(CashFlows(asOf, stake, rows, boundaries, info), n + 2, stake)
<1> DEFINE first == rows[Earliest(rows)]
           known == EpochStart(first.epoch, boundaries)
           start == IF known = {} THEN first.at - EpochDuration(boundaries) ELSE Max(known)
           rewards == [i \in DOMAIN rows |-> [when |-> rows[i].at, amount |-> rows[i].amount]]
           oldest == rewards[Len(rewards)].when
           estimate == CurrentEpochEnd(asOf, info)
           end == IF estimate <= oldest THEN oldest + HourTicks ELSE estimate
           out == [when |-> start, amount |-> -stake]
           back == [when |-> end, amount |-> stake]
           all == <<out>> \o rewards \o <<back>>
<1>1. /\ Earliest(rows) \in 1..n /\ first.at \in Nat
      /\ \A j \in 1..n : first.at <= rows[j].at
  BY EarliestIsOldest
<1>2. start \in Int /\ low <= start /\ start < first.at
  <2>1. StartsBefore(first, boundaries, low)
    BY <1>1
  <2>2. CASE known = {}
    BY <1>1, <2>1, <2>2 DEF StartsBefore
  <2>3. CASE known # {}
    <3>1. PICK e \in Int : known = {e} /\ low <= e /\ e < first.at
      BY <2>1, <2>3 DEF StartsBefore
    <3>2. Max(known) = e
      BY <3>1 DEF Max
    <3>3. QED
      BY <2>3, <3>1, <3>2
  <2>4. QED
    BY <2>2, <2>3
<1>3. /\ rewards \in [1..n -> Flow] /\ Len(rewards) = n
      /\ \A i \in 1..n : rewards[i].when = rows[i].at /\ rewards[i].amount = rows[i].amount
  BY DEF Flow
<1>4. end = estimate /\ estimate \in Int /\ estimate >= asOf + HourTicks
      /\ estimate <= asOf + EpochTicks
  <2>1. oldest = rows[n].at /\ rows[n].at \in Nat /\ rows[n].at < asOf + HourTicks
    BY <1>3
  <2> HIDE DEF oldest
  <2>2. /\ estimate \in Int /\ estimate >= asOf + HourTicks
        /\ estimate <= asOf + EpochTicks
    BY EndIsAhead
  <2> HIDE DEF estimate
  <2>3. QED
    BY <2>1, <2>2, ReturnsAssumption
<1>5. CashFlows(asOf, stake, rows, boundaries, info) = ByTime(all)
  BY DEF CashFlows
<1>5a. HourTicks \in Nat
  BY ReturnsAssumption
<1> HIDE DEF start, rewards, estimate, end, first
<1>6. /\ out \in Flow /\ out.when = start /\ out.amount = -stake
      /\ back \in Flow /\ back.when = end /\ back.amount = stake
  BY <1>2, <1>4 DEF Flow
<1> HIDE DEF out, back
<1>7. /\ all \in [1..(n + 2) -> Flow]
      /\ all[1] = out /\ all[n + 2] = back
      /\ \A i \in 2..(n + 1) : all[i] = rewards[i - 1]
  <2>1. all = <<out>> \o rewards \o <<back>>
    OBVIOUS
  <2>2. n \in Nat /\ rewards \in [1..n -> Flow] /\ out \in Flow /\ back \in Flow
    BY <1>3, <1>6
  <2>3. IsAround(<<out>> \o rewards \o <<back>>, out, rewards, back, n)
    BY <2>2, StakeAround
  <2> HIDE DEF all
  <2>4. IsAround(all, out, rewards, back, n)
    BY <2>1, <2>3, Zenon
  <2>5. QED
    BY <2>4 DEF IsAround
<1> HIDE DEF all
<1>8. ASSUME NEW i \in 2..(n + 1)
      PROVE  /\ all[i].amount \in Nat /\ all[i].when \in Int
             /\ start < all[i].when /\ all[i].when < end
  <2>1. i - 1 \in 1..n
    OBVIOUS
  <2>2. all[i].when = rows[i - 1].at /\ all[i].amount = rows[i - 1].amount
    BY <1>3, <1>7, <2>1
  <2>3. /\ rows[i - 1].at \in Nat /\ rows[i - 1].amount \in Nat
        /\ rows[i - 1].at < asOf + HourTicks /\ first.at <= rows[i - 1].at
    BY <1>1, <2>1
  <2>4. start < rows[i - 1].at /\ rows[i - 1].at < end
    BY ONLY <1>1, <1>2, <1>4, <2>3, <1>5a, asOf \in Nat
  <2>5. QED
    BY <2>2, <2>3, <2>4
<1>9. start < end /\ end - start \in 0..MaxTicks
  <2>1. start < asOf + HourTicks
    <3>1. 1 \in 1..n
      OBVIOUS
    <3>2. first.at <= rows[1].at /\ rows[1].at \in Nat /\ rows[1].at < asOf + HourTicks
      BY <1>1, <3>1
    <3>3. QED
      BY ONLY <1>1, <1>2, <3>2, <1>5a, asOf \in Nat
  <2>2. QED
    BY <1>2, <1>4, <2>1, ReturnsAssumption
<1>10. /\ ByTime(all) \in [1..(n + 2) -> Flow]
       /\ ByTime(all)[1] = all[1] /\ ByTime(all)[n + 2] = all[n + 2]
       /\ \A k \in 2..(n + 1) : \E i \in 2..(n + 1) : ByTime(all)[k] = all[i]
  <2>1. \A j \in 2..(n + 2) : all[1].when < all[j].when
    BY <1>6, <1>7, <1>8, <1>9
  <2>2. \A j \in 1..(n + 1) : all[j].when < all[n + 2].when
    BY <1>6, <1>7, <1>8, <1>9
  <2> DEFINE m == n + 2
  <2>3. m \in Nat /\ m >= 2 /\ m - 1 = n + 1
    OBVIOUS
  <2>4. /\ \A j \in 2..m : all[1].when < all[j].when
        /\ \A j \in 1..(m - 1) : all[j].when < all[m].when
    BY <2>1, <2>2, <2>3
  <2>5. all \in [1..m -> Flow]
    BY <1>7
  <2> HIDE DEF m
  <2>6. /\ ByTime(all) \in [1..m -> Flow]
        /\ ByTime(all)[1] = all[1] /\ ByTime(all)[m] = all[m]
        /\ \A k \in 2..(m - 1) : \E i \in 2..(m - 1) : ByTime(all)[k] = all[i]
    BY <2>3, <2>4, <2>5, ByTimeSorts
  <2>7. QED
    BY <2>3, <2>6 DEF m
<1> DEFINE sorted == ByTime(all)
<1> HIDE DEF sorted
<1>11. /\ sorted \in [1..(n + 2) -> Flow]
       /\ sorted[1] = out /\ sorted[n + 2] = back
       /\ \A k \in 2..(n + 1) : \E i \in 2..(n + 1) : sorted[k] = all[i]
  BY <1>7, <1>10 DEF sorted
<1>12. ASSUME NEW k \in 2..(n + 1)
       PROVE  /\ sorted[k].amount \in Nat /\ sorted[k].when \in Int
              /\ start < sorted[k].when /\ sorted[k].when < end
  BY <1>8, <1>11
<1>13. ASSUME NEW k \in 1..(n + 2)
       PROVE  sorted[k].when - sorted[1].when \in 0..MaxTicks
  <2> HIDE DEF all
  <2>0. MaxTicks \in Nat /\ sorted[1].when = start /\ start \in Int
    BY <1>2, <1>6, <1>11, ReturnsAssumption
  <2>1. CASE k = 1
    BY <2>0, <2>1
  <2>2. CASE k = n + 2
    BY <1>6, <1>9, <1>11, <2>2
  <2>3. CASE k # 1 /\ k # n + 2
    <3>1. k \in 2..(n + 1)
      BY <2>3
    <3>2. /\ sorted[k].when \in Int /\ start < sorted[k].when /\ sorted[k].when < end
      BY <1>12, <3>1
    <3>3. QED
      BY <1>4, <1>9, <2>0, <3>2
  <2>4. QED
    BY <2>1, <2>2, <2>3
<1>14. IsReturn(sorted, n + 2, stake)
  <2>1. (n + 2) - 1 = n + 1 /\ n + 2 \in Nat /\ n + 2 >= 2
    OBVIOUS
  <2>2. \A k \in 2..(n + 1) : /\ sorted[k].amount \in Nat
                              /\ sorted[1].when < sorted[k].when
                              /\ sorted[k].when < sorted[n + 2].when
    BY <1>6, <1>11, <1>12
  <2>3. QED
    BY <1>6, <1>11, <1>13, <2>1, <2>2 DEF IsReturn
<1>15. QED
  BY <1>5, <1>14 DEF sorted

----------------------------------------------------------------------------
(* Present values.                                                         *)

Rates == (Points[1] - 1)..MaxRate

LEMMA RatesArePositive ==
    /\ Rates \subseteq Nat \ {0}
    /\ One \in Rates /\ Points[1] \in Rates /\ MaxRate \in Rates
<1>1. Points[1] \in 2..MaxRate
  BY ReturnsAssumption
<1>2. QED
  BY <1>1, ReturnsAssumption DEF Rates

(* More divided by less is not less.                                       *)
LEMMA QuotientsOrdered ==
    ASSUME NEW a \in Nat, NEW b \in Nat, NEW r \in Nat \ {0}, NEW s \in Nat \ {0},
           a >= b, r <= s
    PROVE  /\ a \div r \in Nat /\ b \div s \in Nat
           /\ b \div s <= a \div r
<1> DEFINE p == a \div r
           q == b \div s
<1>1. /\ p \in Nat /\ a < (p + 1) * r
      /\ q \in Nat /\ q * s <= b
  <2>1. /\ p \in Nat /\ a % r \in 0..(r - 1) /\ a = r * p + (a % r)
        /\ q \in Nat /\ b % s \in 0..(s - 1) /\ b = s * q + (b % s)
    OBVIOUS
  <2>2. (p + 1) * r = r * p + r /\ q * s = s * q
    BY <2>1
  <2> HIDE DEF p, q
  <2>3. r * p \in Nat /\ s * q \in Nat
    BY <2>1
  <2>4. QED
    BY <2>1, <2>2, <2>3
<1> HIDE DEF p, q
<1>2. CASE q <= p
  BY <1>1, <1>2 DEF p, q
<1>3. CASE q >= p + 1
  <2>1. PICK d \in Nat : q = p + 1 + d
    BY <1>1, <1>3, q - p - 1 \in Nat
  <2>2. PICK e \in Nat : s = r + e
    BY s - r \in Nat
  <2>3. q * s = (p + 1) * r + (d * r + q * e)
    <3>1. q * s = q * r + q * e
      BY <1>1, <2>2
    <3>2. q * r = (p + 1) * r + d * r
      BY <1>1, <2>1
    <3>3. q * r \in Nat /\ q * e \in Nat /\ (p + 1) * r \in Nat /\ d * r \in Nat
      BY <1>1
    <3>4. QED
      BY <3>1, <3>2, <3>3
  <2>4. d * r + q * e \in Nat /\ (p + 1) * r \in Nat /\ q * s \in Nat
    BY <1>1
  <2>5. QED
    BY <1>1, <2>3, <2>4
<1>4. QED
  BY <1>1, <1>2, <1>3

(* The discount of a rate starts with Scale, and is divided by the rate    *)
(* with each tick.                                                         *)
LEMMA DiscountIs ==
    ASSUME NEW rate \in Rates
    PROVE  /\ Discount[rate] \in [0..MaxTicks -> Nat]
           /\ Discount[rate][0] = Scale
           /\ \A t \in 1..MaxTicks :
                 Discount[rate][t] = (Discount[rate][t - 1] * One) \div rate
<1> DEFINE n == MaxTicks
           next == [v \in Nat |-> (v * One) \div rate]
           F(f) == [t \in 0..n |-> IF t = 0 THEN Scale ELSE (f[t - 1] * One) \div rate]
           P(f) == f = F(f)
<1>1. n \in Nat /\ Scale \in Nat /\ One \in Nat \ {0} /\ rate \in Nat \ {0}
  BY ReturnsAssumption, RatesArePositive
<1>2. ASSUME NEW v \in Nat
      PROVE  (v * One) \div rate \in Nat
  <2>1. v * One \in Nat
    BY <1>1
  <2> DEFINE w == v * One
  <2> HIDE DEF w
  <2>2. w \in Nat
    BY <2>1 DEF w
  <2>3. w \div rate \in Nat
    BY <1>1, <2>2
  <2>4. QED
    BY <2>3 DEF w
<1>3. next \in [Nat -> Nat] /\ \A v \in Nat : next[v] = (v * One) \div rate
  BY <1>2
<1> HIDE DEF next, n
<1>4. PICK f \in [0..n -> Nat] :
         f[0] = Scale /\ \A t \in 1..n : f[t] = next[f[t - 1]]
  <2>1. next \in [Nat -> Nat] /\ n \in Nat /\ Scale \in Nat
    BY <1>1, <1>3
  <2>2. \E h : IsIterated(h, n, Nat, Scale, next)
    BY <2>1, Iterates, Zenon
  <2>3. QED
    BY <2>2 DEF IsIterated
<1>5. P(f)
  <2>1. ASSUME NEW t \in 0..n
        PROVE  f[t] = IF t = 0 THEN Scale ELSE (f[t - 1] * One) \div rate
    <3>1. CASE t = 0
      BY <1>4, <3>1
    <3>2. CASE t # 0
      <4>1. t \in 1..n /\ t - 1 \in 0..n
        BY <1>1, <3>2
      <4>2. f[t - 1] \in Nat /\ f[t] = next[f[t - 1]]
        BY <1>4, <4>1
      <4>3. QED
        BY <1>3, <3>2, <4>2
    <3>3. QED
      BY <3>1, <3>2
  <2>2. f = [t \in 0..n |-> f[t]]
    OBVIOUS
  <2>3. QED
    BY <2>1, <2>2, Zenon
<1> DEFINE g == CHOOSE f_1 : P(f_1)
<1>6. P(g)
  <2> HIDE DEF P
  <2>1. QED
    BY <1>5
<1>7. Discount[rate] = g
  BY DEF Discount, Rates, n
<1> HIDE DEF g
<1>8. /\ g = [t \in 0..n |-> g[t]] /\ g[0] = Scale
      /\ \A t \in 1..n : g[t] = (g[t - 1] * One) \div rate
  BY <1>1, <1>6
<1>9. ASSUME NEW t \in 0..n
      PROVE  g[t] \in Nat
  <2> DEFINE Good == {k \in 0..n : g[k] \in Nat}
  <2>1. 0 \in Good
    BY <1>1, <1>8
  <2>2. ASSUME NEW k \in 1..n, k - 1 \in Good
        PROVE  k \in Good
    <3>1. k \in 0..n /\ g[k - 1] \in Nat
      BY <1>1, <2>2
    <3>2. g[k] = (g[k - 1] * One) \div rate
      BY <1>8
    <3>3. QED
      BY <1>2, <3>1, <3>2
  <2>3. 0..n \subseteq Good
    <3> HIDE DEF Good
    <3>1. QED
      BY <1>1, <2>1, <2>2, UpToAll
  <2>4. QED
    BY <2>3
<1>10. QED
  BY <1>7, <1>8, <1>9 DEF n

(* A higher rate discounts more.                                           *)
LEMMA DiscountFalls ==
    ASSUME NEW r \in Rates, NEW s \in Rates, r <= s, NEW t \in 0..MaxTicks
    PROVE  Discount[s][t] <= Discount[r][t]
<1> DEFINE n == MaxTicks
           a == Discount[r]
           b == Discount[s]
           Good == {k \in 0..n : b[k] <= a[k]}
<1>1. n \in Nat /\ Scale \in Nat /\ One \in Nat \ {0} /\ r \in Nat \ {0} /\ s \in Nat \ {0}
  BY ReturnsAssumption, RatesArePositive
<1>2. /\ a \in [0..n -> Nat] /\ a[0] = Scale
      /\ \A k \in 1..n : a[k] = (a[k - 1] * One) \div r
      /\ b \in [0..n -> Nat] /\ b[0] = Scale
      /\ \A k \in 1..n : b[k] = (b[k - 1] * One) \div s
  BY DiscountIs
<1> HIDE DEF a, b, n
<1>3. 0 \in Good
  BY <1>1, <1>2
<1>4. ASSUME NEW k \in 1..n, k - 1 \in Good
      PROVE  k \in Good
  <2>1. k \in 0..n /\ a[k - 1] \in Nat /\ b[k - 1] \in Nat /\ b[k - 1] <= a[k - 1]
    BY <1>1, <1>2, <1>4
  <2>2. PICK d \in Nat : a[k - 1] = b[k - 1] + d
    BY <2>1, a[k - 1] - b[k - 1] \in Nat
  <2>3. a[k - 1] * One = b[k - 1] * One + d * One
    BY <1>1, <2>1, <2>2
  <2> DEFINE x == a[k - 1] * One
             y == b[k - 1] * One
  <2>4. x \in Nat /\ y \in Nat /\ x >= y
    <3>1. a[k - 1] * One \in Nat /\ b[k - 1] * One \in Nat /\ d * One \in Nat
      BY <1>1, <2>1
    <3>2. QED
      BY <2>3, <3>1
  <2>5. a[k] = x \div r /\ b[k] = y \div s
    BY <1>2
  <2> HIDE DEF x, y
  <2>6. y \div s <= x \div r
    BY <1>1, <2>4, QuotientsOrdered
  <2>7. QED
    BY <2>1, <2>5, <2>6
<1>5. 0..n \subseteq Good
  <2> HIDE DEF Good
  <2>1. QED
    BY <1>1, <1>3, <1>4, UpToAll
<1>6. QED
  BY <1>5 DEF a, b, n

(* Without growth, nothing is discounted.                                  *)
LEMMA DiscountAtOne ==
    ASSUME NEW t \in 0..MaxTicks
    PROVE  Discount[One][t] = Scale
<1> DEFINE n == MaxTicks
           a == Discount[One]
           Good == {k \in 0..n : a[k] = Scale}
<1>1. n \in Nat /\ Scale \in Nat /\ One \in Nat \ {0} /\ One \in Rates
  BY ReturnsAssumption, RatesArePositive
<1>2. /\ a \in [0..n -> Nat] /\ a[0] = Scale
      /\ \A k \in 1..n : a[k] = (a[k - 1] * One) \div One
  BY <1>1, DiscountIs
<1> HIDE DEF a, n
<1>3. 0 \in Good
  BY <1>1, <1>2
<1>4. ASSUME NEW k \in 1..n, k - 1 \in Good
      PROVE  k \in Good
  <2>1. k \in 0..n /\ a[k] = (Scale * One) \div One
    BY <1>1, <1>2, <1>4
  <2>2. (Scale * One) \div One = Scale
    BY <1>1
  <2>3. QED
    BY <2>1, <2>2
<1>5. 0..n \subseteq Good
  <2> HIDE DEF Good
  <2>1. QED
    BY <1>1, <1>3, <1>4, UpToAll
<1>6. QED
  BY <1>5 DEF a, n

(* A sum of numbers that are not more is not more.                         *)
LEMMA SumsOrdered ==
    ASSUME NEW n \in Nat, NEW a \in [1..n -> Int], NEW b \in [1..n -> Int],
           \A i \in 1..n : a[i] <= b[i]
    PROVE  SumSeq(a) <= SumSeq(b)
<1> DEFINE d == [i \in 1..n |-> b[i] - a[i]]
<1>1. d \in [1..n -> Nat] /\ d \in [1..n -> Int]
  OBVIOUS
<1>2. b = [i \in 1..n |-> a[i] + d[i]]
  OBVIOUS
<1> HIDE DEF d
<1>3. SumSeq(b) = SumSeq(a) + SumSeq(d)
  BY <1>1, <1>2, SumAdds
<1>4. SumSeq(d) \in Nat /\ SumSeq(a) \in Int
  BY <1>1, SumIsMost, SumIsInt
<1>5. QED
  BY <1>3, <1>4

(* What goes out first and comes back last sums up to no loss.             *)
LEMMA SumOfReturn ==
    ASSUME NEW n \in Nat, n >= 2, NEW s \in [1..n -> Int], NEW c \in Int,
           s[1] = -c, s[n] >= c, \A i \in 2..(n - 1) : s[i] >= 0
    PROVE  SumSeq(s) >= 0
<1>1. s \in Seq(Int) /\ Len(s) = n
  OBVIOUS
<1>2. PICK p : IsSums(p, s) /\ SumSeq(s) = p[n]
  BY <1>1, SumsAreSum
<1>3. /\ p \in [0..n -> Int] /\ p[0] = 0
      /\ \A i \in 1..n : p[i] = p[i - 1] + s[i]
  BY <1>1, <1>2 DEF IsSums
<1> DEFINE m == n - 1
           Good == {k \in 0..m : k # 0 => p[k] >= -c}
<1>4. m \in Nat /\ 0 \in Good
  OBVIOUS
<1>5. ASSUME NEW k \in 1..m, k - 1 \in Good
      PROVE  k \in Good
  <2>1. /\ k \in 0..m /\ k \in 1..n /\ k \in 0..n /\ k - 1 \in 0..n
        /\ p[k - 1] \in Int /\ s[k] \in Int /\ p[k] = p[k - 1] + s[k]
    BY <1>3
  <2>2. CASE k = 1
    BY <1>3, <2>1, <2>2
  <2>3. CASE k # 1
    <3>1. s[k] >= 0 /\ p[k - 1] >= -c
      BY <1>5, <2>3
    <3>2. QED
      BY <2>1, <3>1
  <2>4. QED
    BY <2>2, <2>3
<1>6. m \in Good
  <2> HIDE DEF Good, m
  <2>1. 0..m \subseteq Good
    BY <1>4, <1>5, UpToAll
  <2>2. QED
    BY <1>4, <2>1
<1>7. p[n - 1] >= -c /\ p[n - 1] \in Int /\ p[n] = p[n - 1] + s[n] /\ s[n] \in Int
  BY <1>3, <1>6
<1>8. QED
  BY <1>2, <1>7

(* The present values of the flows.                                        *)
Terms(rate, flows, n) ==
    [i \in 1..n |-> flows[i].amount * Discount[rate][flows[i].when - flows[1].when]]

LEMMA XnpvIsSum ==
    ASSUME NEW stake \in Nat, NEW n, NEW flows, IsReturn(flows, n, stake),
           NEW rate \in Rates
    PROVE  /\ \A i \in 1..n : Discount[rate][flows[i].when - flows[1].when] \in Nat
           /\ Terms(rate, flows, n) \in [1..n -> Int]
           /\ Xnpv(rate, flows) = SumSeq(Terms(rate, flows, n))
           /\ Xnpv(rate, flows) \in Int
<1>1. /\ n \in Nat /\ flows \in [1..n -> Flow]
      /\ \A i \in 1..n : flows[i].when - flows[1].when \in 0..MaxTicks
  BY DEF IsReturn
<1>2. Discount[rate] \in [0..MaxTicks -> Nat]
  BY DiscountIs
<1>3. \A i \in 1..n : Discount[rate][flows[i].when - flows[1].when] \in Nat
  BY <1>1, <1>2
<1>4. \A i \in 1..n : flows[i].amount \in Int
  BY <1>1 DEF Flow
<1>5. Terms(rate, flows, n) \in [1..n -> Int]
  BY <1>3, <1>4 DEF Terms
<1>6. Xnpv(rate, flows) = SumSeq(Terms(rate, flows, n))
  BY <1>1 DEF Xnpv, Terms
<1>7. QED
  BY <1>1, <1>3, <1>5, <1>6, SumIsInt

(* The net present value falls with the rate: only what goes out at the    *)
(* start is not discounted.                                                *)
LEMMA XnpvFalls ==
    ASSUME NEW stake \in Nat, NEW n, NEW flows, IsReturn(flows, n, stake),
           NEW r \in Rates, NEW s \in Rates, r <= s
    PROVE  Xnpv(s, flows) <= Xnpv(r, flows)
<1>1. /\ n \in Nat /\ n >= 2 /\ flows[1].amount = -stake /\ flows[n].amount = stake
      /\ \A i \in 1..n : flows[i].when - flows[1].when \in 0..MaxTicks
      /\ \A i \in 2..(n - 1) : flows[i].amount \in Nat
      /\ flows[1].when \in Int
  BY DEF IsReturn, Flow
<1> DEFINE a == Terms(r, flows, n)
           b == Terms(s, flows, n)
<1>2. /\ a \in [1..n -> Int] /\ Xnpv(r, flows) = SumSeq(a)
      /\ b \in [1..n -> Int] /\ Xnpv(s, flows) = SumSeq(b)
  BY XnpvIsSum
<1>3. ASSUME NEW i \in 1..n
      PROVE  b[i] <= a[i]
  <2> DEFINE t == flows[i].when - flows[1].when
             x == Discount[r][t]
             y == Discount[s][t]
  <2>1. a[i] = flows[i].amount * x /\ b[i] = flows[i].amount * y
    BY DEF Terms
  <2>2. t \in 0..MaxTicks /\ x \in Nat /\ y \in Nat /\ y <= x
    <3>1. t \in 0..MaxTicks
      BY <1>1
    <3>2. x \in Nat /\ y \in Nat
      BY XnpvIsSum
    <3> HIDE DEF t
    <3>3. QED
      BY <3>1, <3>2, DiscountFalls
  <2>3. CASE i = 1
    <3>1. t = 0
      BY <1>1, <2>3
    <3>2. x = Scale /\ y = Scale
      BY <3>1, DiscountIs
    <3> HIDE DEF x, y, t, a, b
    <3>3. a[i] = b[i]
      BY <2>1, <3>2
    <3>4. QED
      BY <1>2, <3>3
  <2>4. CASE i # 1
    <3>1. flows[i].amount \in Nat
      BY <1>1, <2>4
    <3> DEFINE amount == flows[i].amount
    <3> HIDE DEF amount, x, y, t, a, b
    <3>2. PICK d \in Nat : x = y + d
      BY <2>2, x - y \in Nat
    <3>3. amount \in Nat /\ a[i] = amount * x /\ b[i] = amount * y
      BY <2>1, <3>1 DEF amount
    <3>4. amount * x = amount * y + amount * d
      BY <2>2, <3>2, <3>3
    <3>5. amount * d \in Nat /\ amount * y \in Nat
      BY <2>2, <3>3
    <3>6. QED
      BY <3>3, <3>4, <3>5
  <2>5. QED
    BY <2>3, <2>4
<1> HIDE DEF a, b
<1>4. SumSeq(b) <= SumSeq(a)
  BY <1>1, <1>2, <1>3, SumsOrdered
<1>5. QED
  BY <1>2, <1>4

(* Without growth a stake that comes back, with rewards, is no loss; at    *)
(* the first point of the search, a lower rate, neither.                   *)
LEMMA XnpvStarts ==
    ASSUME NEW stake \in Nat, NEW n, NEW flows, IsReturn(flows, n, stake)
    PROVE  Xnpv(Points[1], flows) >= 0
<1>1. /\ n \in Nat /\ n >= 2 /\ flows[1].amount = -stake /\ flows[n].amount = stake
      /\ \A i \in 1..n : flows[i].when - flows[1].when \in 0..MaxTicks
      /\ \A i \in 2..(n - 1) : flows[i].amount \in Nat
  BY DEF IsReturn
<1>2. One \in Rates /\ Points[1] \in Rates /\ Points[1] <= One /\ Scale \in Nat
  BY RatesArePositive, ReturnsAssumption
<1> DEFINE s == Terms(One, flows, n)
           c == stake * Scale
<1>3. /\ s \in [1..n -> Int] /\ Xnpv(One, flows) = SumSeq(s)
      /\ Xnpv(One, flows) \in Int /\ Xnpv(Points[1], flows) \in Int
  BY <1>2, XnpvIsSum
<1>4. ASSUME NEW i \in 1..n
      PROVE  s[i] = flows[i].amount * Scale
  BY <1>1, DiscountAtOne DEF Terms
<1>5. c \in Nat /\ (-stake) * Scale = -c
  BY <1>2
<1>6. s[1] = -c /\ s[n] = c
  BY <1>1, <1>4, <1>5
<1>7. ASSUME NEW i \in 2..(n - 1)
      PROVE  s[i] >= 0
  <2>1. s[i] = flows[i].amount * Scale /\ flows[i].amount \in Nat
    BY <1>1, <1>4
  <2> DEFINE x == flows[i].amount
  <2> HIDE DEF s, x
  <2>2. x \in Nat /\ s[i] = x * Scale
    BY <2>1 DEF x
  <2>3. x * Scale \in Nat
    BY <1>2, <2>2
  <2>4. QED
    BY <2>2, <2>3
<1> HIDE DEF s, c
<1>8. SumSeq(s) >= 0
  <2>1. n \in Nat /\ n >= 2 /\ s \in [1..n -> Int] /\ c \in Int
    BY <1>1, <1>3, <1>5
  <2>2. s[1] = -c /\ s[n] >= c
    BY <1>5, <1>6
  <2>3. \A i \in 2..(n - 1) : s[i] >= 0
    BY <1>7
  <2>4. QED
    BY ONLY <2>1, <2>2, <2>3, SumOfReturn
<1>9. Xnpv(One, flows) <= Xnpv(Points[1], flows)
  BY <1>2, XnpvFalls
<1>10. QED
  BY <1>3, <1>8, <1>9

----------------------------------------------------------------------------
(* The search.                                                             *)

(* Reach doubles.                                                          *)
LEMMA ReachIs ==
    /\ Reach \in [0..Rounds -> Nat]
    /\ Reach[0] = 1
    /\ \A k \in 1..Rounds : Reach[k] = 2 * Reach[k - 1]
<1> DEFINE n == Rounds
           next == [v \in Nat |-> 2 * v]
           P(f) == f = [k \in 0..n |-> IF k = 0 THEN 1 ELSE 2 * f[k - 1]]
<1>1. n \in Nat
  BY ReturnsAssumption
<1>2. next \in [Nat -> Nat] /\ \A v \in Nat : next[v] = 2 * v
  OBVIOUS
<1> HIDE DEF next, n
<1>3. PICK f \in [0..n -> Nat] :
         f[0] = 1 /\ \A k \in 1..n : f[k] = next[f[k - 1]]
  <2>1. n \in Nat /\ 1 \in Nat /\ next \in [Nat -> Nat]
    BY <1>1, <1>2
  <2>2. \E h : IsIterated(h, n, Nat, 1, next)
    BY <2>1, Iterates, Zenon
  <2>3. QED
    BY <2>2 DEF IsIterated
<1>4. P(f)
  <2>1. ASSUME NEW k \in 0..n
        PROVE  f[k] = IF k = 0 THEN 1 ELSE 2 * f[k - 1]
    <3>1. CASE k = 0
      BY <1>3, <3>1
    <3>2. CASE k # 0
      <4>1. k \in 1..n /\ k - 1 \in 0..n
        BY <1>1, <3>2
      <4>2. f[k - 1] \in Nat /\ f[k] = next[f[k - 1]]
        BY <1>3, <4>1
      <4>3. QED
        BY <1>2, <3>2, <4>2
    <3>3. QED
      BY <3>1, <3>2
  <2>2. f = [k \in 0..n |-> f[k]]
    OBVIOUS
  <2>3. QED
    BY <2>1, <2>2, Zenon
<1> DEFINE g == CHOOSE f_1 : P(f_1)
<1>5. P(g)
  <2> HIDE DEF P
  <2>1. QED
    BY <1>4
<1>6. Reach = g
  BY DEF Reach, n
<1> HIDE DEF g
<1>7. /\ g = [k \in 0..n |-> g[k]] /\ g[0] = 1
      /\ \A k \in 1..n : g[k] = 2 * g[k - 1]
  <2>1. g = [k \in 0..n |-> IF k = 0 THEN 1 ELSE 2 * g[k - 1]]
    BY <1>5
  <2>2. 0 \in 0..n /\ \A k \in 1..n : k \in 0..n /\ k # 0
    BY <1>1
  <2>3. QED
    BY ONLY <2>1, <2>2
<1>8. 0..n \subseteq {k \in 0..n : g[k] \in Nat}
  <2> DEFINE Good == {k \in 0..n : g[k] \in Nat}
  <2>1. 0 \in Good
    BY <1>1, <1>7
  <2>2. ASSUME NEW k \in 1..n, k - 1 \in Good
        PROVE  k \in Good
    <3>1. k \in 0..n /\ g[k - 1] \in Nat
      BY <1>1, <2>2
    <3>2. g[k] = 2 * g[k - 1]
      BY <1>7
    <3>3. QED
      BY <3>1, <3>2
  <2> HIDE DEF Good
  <2>3. 0..n \subseteq Good
    BY <1>1, <2>1, <2>2, UpToAll
  <2>4. QED
    BY <2>3 DEF Good
<1>9. QED
  BY <1>6, <1>7, <1>8 DEF n

(* A rate is found when the present value is not negative a step before it *)
(* and not positive a step after it.                                       *)
IsRoot(rate, flows) ==
    /\ rate \in Rates /\ rate - 1 \in Rates /\ rate + 1 \in Rates
    /\ Xnpv(rate - 1, flows) >= 0
    /\ Xnpv(rate + 1, flows) <= 0

Brackets == [low : Points[1]..MaxRate, high : Points[1]..MaxRate]

(* What every round of the bisection keeps: the ends have met at a root,   *)
(* or have one between them.                                               *)
IsClosing(b, flows) ==
    /\ b \in Brackets
    /\ \/ b.low = b.high /\ IsRoot(b.low, flows)
       \/ b.low < b.high /\ Xnpv(b.low, flows) > 0 /\ Xnpv(b.high, flows) < 0

LEMMA BracketRates ==
    /\ Points[1] \in Nat /\ MaxRate \in Nat /\ 2 <= Points[1] /\ Points[1] <= MaxRate
    /\ \A rate \in Points[1]..MaxRate : rate \in Rates /\ rate - 1 \in Rates
    /\ \A rate \in Points[1]..MaxRate : rate < MaxRate => rate + 1 \in Rates
<1>1. Points[1] \in 2..MaxRate /\ MaxRate \in Nat
  BY ReturnsAssumption
<1>2. QED
  BY <1>1 DEF Rates

(* A rate without a present value, below the highest, is a root.           *)
LEMMA ZeroIsRoot ==
    ASSUME NEW stake \in Nat, NEW n, NEW flows, IsReturn(flows, n, stake),
           NEW rate \in Points[1]..MaxRate, rate < MaxRate, Xnpv(rate, flows) = 0
    PROVE  IsRoot(rate, flows)
<1>1. rate \in Rates /\ rate - 1 \in Rates /\ rate + 1 \in Rates
  BY BracketRates
<1>2. rate \in Int /\ rate - 1 <= rate /\ rate <= rate + 1
  BY BracketRates
<1>3. Xnpv(rate, flows) <= Xnpv(rate - 1, flows)
  BY <1>1, <1>2, XnpvFalls
<1>4. Xnpv(rate + 1, flows) <= Xnpv(rate, flows)
  BY <1>1, <1>2, XnpvFalls
<1>5. QED
  BY <1>1, <1>3, <1>4 DEF IsRoot

(* Neighbours with a root between them are roots, to the grain.            *)
LEMMA MidIsRoot ==
    ASSUME NEW stake \in Nat, NEW n, NEW flows, IsReturn(flows, n, stake),
           NEW b, IsClosing(b, flows), b.high - b.low <= 1
    PROVE  IsRoot((b.low + b.high) \div 2, flows)
<1>1. b.low \in Nat /\ b.high \in Nat /\ b.low \in Points[1]..MaxRate
      /\ b.high \in Points[1]..MaxRate
  BY BracketRates DEF IsClosing, Brackets
<1>2. CASE b.low = b.high /\ IsRoot(b.low, flows)
  <2>1. (b.low + b.high) \div 2 = b.low
    BY <1>1, <1>2
  <2>2. QED
    BY <1>2, <2>1
<1>3. CASE b.low < b.high /\ Xnpv(b.low, flows) > 0 /\ Xnpv(b.high, flows) < 0
  <2>1. b.high = b.low + 1 /\ (b.low + b.high) \div 2 = b.low
    BY <1>1, <1>3
  <2>2. b.low \in Rates /\ b.low - 1 \in Rates /\ b.low + 1 \in Rates /\ b.low - 1 <= b.low
    <3>1. b.low < MaxRate
      BY <1>1, <1>3, BracketRates
    <3>2. QED
      BY <1>1, <3>1, BracketRates
  <2>3. Xnpv(b.low, flows) <= Xnpv(b.low - 1, flows)
    BY <2>2, XnpvFalls
  <2>4. Xnpv(b.low - 1, flows) \in Int /\ Xnpv(b.low, flows) \in Int
        /\ Xnpv(b.high, flows) \in Int
    BY <1>1, <2>1, <2>2, XnpvIsSum
  <2>5. QED
    BY <1>3, <2>1, <2>2, <2>3, <2>4 DEF IsRoot
<1>4. QED
  BY <1>2, <1>3 DEF IsClosing

(* A round takes brackets to brackets.                                     *)
LEMMA HalvedIsBracket ==
    ASSUME NEW flows, NEW b \in Brackets
    PROVE  Halved(flows, b) \in Brackets
<1>1. b.low \in Points[1]..MaxRate /\ b.high \in Points[1]..MaxRate
      /\ b = [low |-> b.low, high |-> b.high]
  BY DEF Brackets
<1>2. (b.low + b.high) \div 2 \in Points[1]..MaxRate
  BY <1>1, BracketRates
<1>3. QED
  BY <1>1, <1>2 DEF Halved, Brackets

(* A round keeps the root, and halves the distance of the ends.            *)
LEMMA HalvedCloses ==
    ASSUME NEW stake \in Nat, NEW n, NEW flows, IsReturn(flows, n, stake),
           NEW b, IsClosing(b, flows)
    PROVE  /\ IsClosing(Halved(flows, b), flows)
           /\ \/ Halved(flows, b).high = Halved(flows, b).low
              \/ 2 * (Halved(flows, b).high - Halved(flows, b).low) <= b.high - b.low + 1
<1> DEFINE mid == (b.low + b.high) \div 2
<1>1. /\ b.low \in Points[1]..MaxRate /\ b.high \in Points[1]..MaxRate
      /\ b.low \in Nat /\ b.high \in Nat
      /\ b = [low |-> b.low, high |-> b.high]
  BY BracketRates DEF IsClosing, Brackets
<1>2. mid \in Points[1]..MaxRate /\ mid \in Nat
  BY <1>1, BracketRates
<1>3. b.low <= b.high
  BY <1>1 DEF IsClosing
<1>4. /\ mid + mid <= b.low + b.high /\ b.low + b.high <= mid + mid + 1
      /\ b.low <= mid /\ mid <= b.high
  BY <1>1, <1>3
<1>5. Halved(flows, b) =
         IF Xnpv(mid, flows) = 0 \/ b.high - b.low <= 1
         THEN [low |-> mid, high |-> mid]
         ELSE IF Opposite(Xnpv(b.low, flows), Xnpv(mid, flows))
              THEN [low |-> b.low, high |-> mid] ELSE [low |-> mid, high |-> b.high]
  BY <1>1 DEF Halved
<1>6. b.low \in Rates /\ b.high \in Rates /\ mid \in Rates
  BY <1>1, <1>2, BracketRates
<1>7. Xnpv(b.low, flows) \in Int /\ Xnpv(mid, flows) \in Int /\ Xnpv(b.high, flows) \in Int
  BY <1>6, XnpvIsSum
<1>8. b.high - b.low <= 1 => IsRoot(mid, flows)
  BY MidIsRoot
<1>9. CASE Xnpv(mid, flows) = 0 \/ b.high - b.low <= 1
  <2>1. IsRoot(mid, flows)
    <3>1. CASE b.high - b.low <= 1
      BY <1>8, <3>1
    <3>2. CASE ~(b.high - b.low <= 1)
      <4>1. Xnpv(mid, flows) = 0
        BY <1>9, <3>2
      <4>2. mid < MaxRate
        <5>1. mid < b.high
          BY <1>1, <1>2, <1>4, <3>2
        <5>2. QED
          BY <1>1, <1>2, <5>1, BracketRates
      <4> HIDE DEF mid
      <4>3. QED
        BY <1>2, <4>1, <4>2, ZeroIsRoot
    <3>3. QED
      BY <3>1, <3>2
  <2> HIDE DEF mid
  <2>2. Halved(flows, b) = [low |-> mid, high |-> mid]
    BY <1>5, <1>9
  <2>3. QED
    BY <1>2, <2>1, <2>2 DEF IsClosing, Brackets
<1>10. CASE ~(Xnpv(mid, flows) = 0 \/ b.high - b.low <= 1)
  <2>1. /\ b.low < mid /\ mid < b.high
        /\ Xnpv(b.low, flows) > 0 /\ Xnpv(b.high, flows) < 0
    BY <1>1, <1>2, <1>4, <1>10 DEF IsClosing
  <2> HIDE DEF mid
  <2>2. CASE Xnpv(mid, flows) < 0
    <3>1. Halved(flows, b) = [low |-> b.low, high |-> mid]
      BY <1>5, <1>7, <1>10, <2>1, <2>2 DEF Opposite
    <3>2. 2 * (mid - b.low) <= b.high - b.low + 1
      BY <1>1, <1>2, <1>4
    <3>3. QED
      BY <1>1, <1>2, <2>1, <2>2, <3>1, <3>2 DEF IsClosing, Brackets
  <2>3. CASE Xnpv(mid, flows) > 0
    <3>1. Halved(flows, b) = [low |-> mid, high |-> b.high]
      BY <1>5, <1>7, <1>10, <2>1, <2>3 DEF Opposite
    <3>2. 2 * (b.high - mid) <= b.high - b.low + 1
      BY <1>1, <1>2, <1>4
    <3>3. QED
      BY <1>1, <1>2, <2>1, <2>3, <3>1, <3>2 DEF IsClosing, Brackets
  <2>4. QED
    BY <1>7, <1>10, <2>2, <2>3
<1>11. QED
  BY <1>9, <1>10

(* So the rounds suffice: bisectXIRR ends with a root.                     *)
LEMMA BisectFinds ==
    ASSUME NEW stake \in Nat, NEW n, NEW flows, IsReturn(flows, n, stake),
           NEW b, IsClosing(b, flows), ~SameSign(Xnpv(b.low, flows), Xnpv(b.high, flows))
    PROVE  \E rate : Bisect(flows, b) = {rate} /\ IsRoot(rate, flows)
<1> DEFINE m == Rounds
           next == [c \in Brackets |-> Halved(flows, c)]
           P(f) == f = [k \in 0..m |-> IF k = 0 THEN b ELSE Halved(flows, f[k - 1])]
<1>1. m \in Nat /\ b \in Brackets
  BY ReturnsAssumption DEF IsClosing
<1>2. next \in [Brackets -> Brackets] /\ \A c \in Brackets : next[c] = Halved(flows, c)
  BY HalvedIsBracket
<1> HIDE DEF next, m
<1>3. PICK f \in [0..m -> Brackets] :
         f[0] = b /\ \A k \in 1..m : f[k] = next[f[k - 1]]
  <2>1. \E h : IsIterated(h, m, Brackets, b, next)
    BY <1>1, <1>2, Iterates, Zenon
  <2>2. QED
    BY <2>1 DEF IsIterated
<1>4. P(f)
  <2>1. ASSUME NEW k \in 0..m
        PROVE  f[k] = IF k = 0 THEN b ELSE Halved(flows, f[k - 1])
    <3>1. CASE k = 0
      BY <1>3, <3>1
    <3>2. CASE k # 0
      <4>1. k \in 1..m /\ k - 1 \in 0..m
        BY <1>1, <3>2
      <4>2. f[k - 1] \in Brackets /\ f[k] = next[f[k - 1]]
        BY <1>3, <4>1
      <4>3. QED
        BY <1>2, <3>2, <4>2
    <3>3. QED
      BY <3>1, <3>2
  <2>2. f = [k \in 0..m |-> f[k]]
    OBVIOUS
  <2>3. QED
    BY <2>1, <2>2, Zenon
<1> DEFINE round == CHOOSE f_1 : P(f_1)
<1>5. P(round)
  <2> HIDE DEF P
  <2>1. QED
    BY <1>4
<1>6. Bisect(flows, b) = {(round[m].low + round[m].high) \div 2}
  BY DEF Bisect, m
<1> HIDE DEF round
<1>7. /\ round[0] = b
      /\ \A k \in 1..m : round[k] = Halved(flows, round[k - 1])
  BY <1>1, <1>5
<1> DEFINE Good == {k \in 0..m : /\ IsClosing(round[k], flows)
                                 /\ round[k].high - round[k].low <= Reach[m - k]}
<1>8. 0 \in Good
  <2>1. b.low \in Points[1]..MaxRate /\ b.high \in Points[1]..MaxRate
    BY <1>1 DEF Brackets
  <2>2. MaxRate - Points[1] <= Reach[m] /\ Reach[m] \in Nat
    BY <1>1, ReturnsAssumption, ReachIs DEF m
  <2>3. b.high - b.low <= Reach[m]
    BY <2>1, <2>2, BracketRates
  <2>4. 0 \in 0..m /\ m - 0 = m
    BY <1>1
  <2>5. QED
    BY <1>7, <2>3, <2>4
<1>9. ASSUME NEW k \in 1..m, k - 1 \in Good
      PROVE  k \in Good
  <2> DEFINE c == round[k - 1]
             d == round[k]
             j == m - k
  <2>1. /\ IsClosing(c, flows) /\ c.high - c.low <= Reach[m - (k - 1)]
        /\ d = Halved(flows, c)
    BY <1>7, <1>9
  <2>2. j \in 0..m /\ j + 1 \in 1..m /\ m - (k - 1) = j + 1 /\ (j + 1) - 1 = j /\ k \in 0..m
    BY <1>1
  <2>3. Reach[j + 1] = 2 * Reach[j] /\ Reach[j] \in Nat
    BY <2>2, ReachIs DEF m
  <2> HIDE DEF c, d, j
  <2>4. /\ IsClosing(d, flows)
        /\ d.high = d.low \/ 2 * (d.high - d.low) <= c.high - c.low + 1
    BY <2>1, HalvedCloses
  <2>5. c.high \in Nat /\ c.low \in Nat /\ d.high \in Nat /\ d.low \in Nat
    <3>1. c \in Brackets /\ d \in Brackets
      BY <2>1, <2>4 DEF IsClosing
    <3>2. Points[1]..MaxRate \subseteq Nat
      BY BracketRates
    <3>3. QED
      BY <3>1, <3>2 DEF Brackets
  <2>6. c.high - c.low <= 2 * Reach[j]
    BY <2>1, <2>2, <2>3
  <2> DEFINE reach == Reach[j]
  <2> HIDE DEF reach
  <2>7. d.high - d.low <= reach
    <3>1. reach \in Nat /\ c.high - c.low <= 2 * reach
      BY <2>3, <2>6 DEF reach
    <3>2. QED
      BY <2>4, <2>5, <3>1
  <2>8. QED
    BY <2>2, <2>4, <2>7 DEF reach, d, j
<1>10. IsClosing(round[m], flows) /\ round[m].high - round[m].low <= Reach[0]
  <2> HIDE DEF Good
  <2>1. 0..m \subseteq Good
    BY <1>1, <1>8, <1>9, UpToAll
  <2>2. m \in Good /\ m - m = 0
    BY <1>1, <2>1
  <2>3. QED
    BY <2>2 DEF Good
<1>11. round[m].high - round[m].low <= 1
  BY <1>10, ReachIs
<1> DEFINE last == round[m]
<1> HIDE DEF last
<1>12. IsRoot((last.low + last.high) \div 2, flows)
  BY <1>10, <1>11, MidIsRoot DEF last
<1>13. QED
  BY <1>6, <1>12 DEF last

(* Where bracketXIRR looks: the points increase, from the first to the     *)
(* last, and the present value falls.                                      *)
LEMMA PointsIncrease ==
    /\ Len(Points) \in Nat \ {0}
    /\ Last(Points) = Points[Len(Points)]
    /\ \A i \in 1..Len(Points) : Points[i] \in Points[1]..MaxRate
    /\ \A i \in 2..Len(Points) : /\ i - 1 \in 1..Len(Points)
                                 /\ Points[i - 1] < Points[i]
<1> DEFINE m == Len(Points)
<1>1. /\ Points \in Seq(2..MaxRate) /\ Points # <<>> /\ MaxRate \in Nat
      /\ \A i, j \in DOMAIN Points : i < j => Points[i] < Points[j]
  BY ReturnsAssumption
<1>2. m \in Nat \ {0} /\ DOMAIN Points = 1..m /\ \A i \in 1..m : Points[i] \in 2..MaxRate
  BY <1>1
<1>3. Last(Points) = Points[m]
  BY DEF Last
<1> HIDE DEF m
<1>4. ASSUME NEW i \in 1..m
      PROVE  Points[i] \in Points[1]..MaxRate
  <2>1. 1 \in 1..m /\ Points[1] \in 2..MaxRate /\ Points[i] \in 2..MaxRate
    BY <1>2
  <2>2. Points[1] <= Points[i]
    <3>1. CASE i = 1
      BY <2>1, <3>1
    <3>2. CASE i # 1
      <4>1. 1 < i
        BY <3>2
      <4>2. QED
        BY <1>1, <1>2, <2>1, <4>1
    <3>3. QED
      BY <3>1, <3>2
  <2>3. QED
    BY <1>1, <2>1, <2>2
<1>5. ASSUME NEW i \in 2..m
      PROVE  i - 1 \in 1..m /\ Points[i - 1] < Points[i]
  <2>1. i \in 1..m /\ i - 1 \in 1..m /\ i - 1 < i
    BY <1>2
  <2>2. QED
    BY <1>1, <1>2, <2>1
<1>6. QED
  BY <1>2, <1>3, <1>4, <1>5 DEF m

(* What bracketXIRR finds has a root for the bisection.                    *)
LEMMA BracketCloses ==
    ASSUME NEW stake \in Nat, NEW n, NEW flows, IsReturn(flows, n, stake),
           NEW b \in Bracket(flows)
    PROVE  IsClosing(b, flows) /\ ~SameSign(Xnpv(b.low, flows), Xnpv(b.high, flows))
<1> DEFINE m == Len(Points)
           npv == [i \in DOMAIN Points |-> Xnpv(Points[i], flows)]
           hits == {i \in 2..m : npv[i - 1] = 0 \/ Opposite(npv[i - 1], npv[i])}
<1>1. m \in Nat \ {0} /\ DOMAIN Points = 1..m
  BY ReturnsAssumption, PointsIncrease
<1>2. hits # {}
  BY DEF Bracket
<1> DEFINE i == Min(hits)
<1>3. /\ i \in hits
      /\ b = [low |-> Points[i - 1], high |-> IF npv[i - 1] = 0 THEN Points[i - 1] ELSE Points[i]]
  <2>1. hits \subseteq Nat
    BY <1>1
  <2>2. PICK k \in hits : \A x \in hits : k <= x
    <3> HIDE DEF hits
    <3>1. QED
      BY <1>2, <2>1, LeastNumber
  <2>3. Min(hits) \in hits
    <3> HIDE DEF hits
    <3>1. QED
      BY <2>2 DEF Min
  <2>4. b = [low |-> Points[i - 1], high |-> IF npv[i - 1] = 0 THEN Points[i - 1] ELSE Points[i]]
    BY <1>2 DEF Bracket
  <2>5. QED
    BY <2>3, <2>4
<1> DEFINE low == Points[i - 1]
           high == Points[i]
<1> HIDE DEF i
<1>4. /\ i \in 2..m /\ i \in 1..m /\ i - 1 \in 1..m
      /\ low \in Points[1]..MaxRate /\ high \in Points[1]..MaxRate /\ low < high
  BY <1>1, <1>3, PointsIncrease
<1>5. npv[i - 1] = Xnpv(low, flows) /\ npv[i] = Xnpv(high, flows)
  BY <1>1, <1>4
<1>6. /\ Xnpv(low, flows) = 0 \/ Opposite(Xnpv(low, flows), Xnpv(high, flows))
      /\ b = [low |-> low, high |-> IF Xnpv(low, flows) = 0 THEN low ELSE high]
  <2>1. npv[i - 1] = 0 \/ Opposite(npv[i - 1], npv[i])
    BY <1>3
  <2> HIDE DEF npv, hits
  <2>2. QED
    BY <1>3, <1>5, <2>1
<1> HIDE DEF npv, hits, low, high, m
<1>7. low \in Rates /\ high \in Rates /\ low \in Nat /\ high \in Nat /\ low < MaxRate
  BY <1>4, BracketRates
<1>8. Xnpv(low, flows) \in Int /\ Xnpv(high, flows) \in Int
      /\ Xnpv(high, flows) <= Xnpv(low, flows)
  <2>1. low <= high
    BY <1>4, <1>7
  <2>2. QED
    BY <1>7, <2>1, XnpvIsSum, XnpvFalls
<1>9. CASE Xnpv(low, flows) = 0
  <2>1. IsRoot(low, flows) /\ b = [low |-> low, high |-> low]
    BY <1>4, <1>6, <1>7, <1>9, ZeroIsRoot
  <2>2. QED
    BY <1>4, <1>9, <2>1 DEF IsClosing, Brackets, SameSign
<1>10. CASE Xnpv(low, flows) # 0
  <2>1. /\ b = [low |-> low, high |-> high]
        /\ Xnpv(low, flows) > 0 /\ Xnpv(high, flows) < 0
    BY <1>6, <1>8, <1>10 DEF Opposite
  <2>2. QED
    BY <1>4, <1>7, <1>8, <2>1 DEF IsClosing, Brackets, SameSign
<1>11. QED
  BY <1>9, <1>10

(* It finds one when the present value is negative at the last point.      *)
LEMMA BracketFinds ==
    ASSUME NEW stake \in Nat, NEW n, NEW flows, IsReturn(flows, n, stake),
           Xnpv(Last(Points), flows) < 0
    PROVE  Bracket(flows) # {}
<1> DEFINE m == Len(Points)
           npv == [i \in DOMAIN Points |-> Xnpv(Points[i], flows)]
           hits == {i \in 2..m : npv[i - 1] = 0 \/ Opposite(npv[i - 1], npv[i])}
           negative == {i \in 1..m : npv[i] < 0}
<1>1. m \in Nat \ {0} /\ DOMAIN Points = 1..m
  BY ReturnsAssumption, PointsIncrease
<1>2. \A i \in 1..m : npv[i] = Xnpv(Points[i], flows) /\ npv[i] \in Int
  <2>1. ASSUME NEW i \in 1..m
        PROVE  npv[i] = Xnpv(Points[i], flows) /\ npv[i] \in Int
    <3>1. npv[i] = Xnpv(Points[i], flows)
      BY <1>1
    <3>2. Points[i] \in Rates
      BY PointsIncrease, BracketRates
    <3>3. Xnpv(Points[i], flows) \in Int
      BY <3>2, XnpvIsSum
    <3>4. QED
      BY <3>1, <3>3
  <2>2. QED
    BY <2>1
<1>3. npv[1] >= 0 /\ npv[m] < 0
  <2>1. Xnpv(Points[1], flows) >= 0
    BY XnpvStarts
  <2>2. 1 \in 1..m /\ m \in 1..m /\ Last(Points) = Points[m]
    BY <1>1, PointsIncrease
  <2> HIDE DEF npv
  <2>3. QED
    BY <1>2, <2>1, <2>2
<1> HIDE DEF npv
<1>4. PICK i \in negative : \A k \in negative : i <= k
  <2>1. negative \subseteq Nat /\ m \in negative
    BY <1>1, <1>3
  <2> HIDE DEF negative
  <2>2. QED
    BY <2>1, LeastNumber
<1>5. i \in 2..m /\ i - 1 \in 1..m /\ i - 1 \notin negative /\ i \in 1..m
  <2>1. i \in 1..m /\ i # 1
    BY <1>1, <1>2, <1>3, <1>4
  <2>2. i - 1 \notin negative
    BY <1>4, <2>1
  <2>3. QED
    BY <2>1, <2>2
<1>6. npv[i - 1] >= 0 /\ npv[i] < 0
  BY <1>2, <1>4, <1>5
<1>7. npv[i - 1] = 0 \/ Opposite(npv[i - 1], npv[i])
  BY <1>2, <1>5, <1>6 DEF Opposite
<1>8. hits # {}
  BY <1>5, <1>7
<1>9. QED
  BY <1>8 DEF Bracket, npv

(* Newton's method, where it converges, ends with a root too.              *)
LEMMA NewtonFinds ==
    ASSUME NEW stake \in Nat, NEW n, NEW flows, IsReturn(flows, n, stake),
           NEW rate \in Newton(flows)
    PROVE  IsRoot(rate, flows)
<1> DEFINE all == [low |-> Points[1], high |-> MaxRate]
<1>1. /\ Opposite(Xnpv(Points[1], flows), Xnpv(MaxRate, flows))
      /\ Newton(flows) = Bisect(flows, all)
  BY DEF Newton
<1>2. Points[1] \in Rates /\ MaxRate \in Rates /\ Points[1] \in Nat /\ MaxRate \in Nat
      /\ Points[1] <= MaxRate
  BY BracketRates, RatesArePositive
<1>3. Xnpv(Points[1], flows) \in Int /\ Xnpv(MaxRate, flows) \in Int
      /\ Xnpv(Points[1], flows) >= 0
  BY <1>2, XnpvIsSum, XnpvStarts
<1>4. Xnpv(Points[1], flows) > 0 /\ Xnpv(MaxRate, flows) < 0
  BY <1>1, <1>3 DEF Opposite
<1>5. Points[1] < MaxRate
  BY <1>2, <1>3, <1>4
<1>6. IsClosing(all, flows) /\ ~SameSign(Xnpv(all.low, flows), Xnpv(all.high, flows))
  <2>1. all \in Brackets /\ all.low = Points[1] /\ all.high = MaxRate
    BY <1>2 DEF Brackets
  <2> HIDE DEF all
  <2>2. QED
    BY <1>3, <1>4, <1>5, <2>1 DEF IsClosing, SameSign
<1> HIDE DEF all
<1>7. PICK root : Bisect(flows, all) = {root} /\ IsRoot(root, flows)
  BY <1>6, BisectFinds
<1>8. QED
  BY <1>1, <1>7

(* For any flows that begin with a stake going out and end with it coming  *)
(* back, all rates that xirr returns are roots, and it returns one when    *)
(* the present value is negative at the last point of bracketXIRR.         *)
THEOREM XirrFinds ==
    ASSUME NEW stake \in Nat, NEW n, NEW flows, IsReturn(flows, n, stake)
    PROVE  /\ \A converges \in BOOLEAN : \A rate \in Xirr(flows, converges) :
                 IsRoot(rate, flows)
           /\ Xnpv(Last(Points), flows) < 0 => Xirr(flows, FALSE) # {}
<1> DEFINE found == UNION {Bisect(flows, bracket) : bracket \in Bracket(flows)}
<1>1. ASSUME NEW b \in Bracket(flows)
      PROVE  \E root : Bisect(flows, b) = {root} /\ IsRoot(root, flows)
  BY BracketCloses, BisectFinds
<1>2. ASSUME NEW rate \in found
      PROVE  IsRoot(rate, flows)
  BY <1>1
<1>3. ASSUME NEW converges \in BOOLEAN, NEW rate \in Xirr(flows, converges)
      PROVE  IsRoot(rate, flows)
  <2>1. rate \in Newton(flows) \/ rate \in found
    BY DEF Xirr
  <2> HIDE DEF found
  <2>2. QED
    BY <1>2, <2>1, NewtonFinds
<1>4. Xnpv(Last(Points), flows) < 0 => Xirr(flows, FALSE) # {}
  <2>1. Xirr(flows, FALSE) = found
    BY DEF Xirr
  <2>2. Bracket(flows) # {} => found # {}
    BY <1>1
  <2>3. QED
    BY <2>1, <2>2, BracketFinds
<1>5. QED
  BY <1>3, <1>4

=============================================================================
