------------------------ MODULE WalletRewardsProofs ------------------------
(* Proofs about WalletRewards, for every number of requests and wallets,   *)
(* every capacity of the cache, and every length of epochs, weeks and      *)
(* lookback: no cached list is a partial one, and what is served from the  *)
(* cache is at most one epoch behind.                                      *)
EXTENDS WalletRewards, Integers, SequenceTheorems, TLAPS, WellFoundedInduction

----------------------------------------------------------------------------
(* The inductive invariant.                                                *)

Request == [pc : Places, wallet : Wallets, start : Nat, staked : BOOLEAN,
            epochs : SUBSET Nat, asOf : Nat, todo : SUBSET Nat, rows : SUBSET Nat,
            hit : BOOLEAN, clean : BOOLEAN, expiry : Nat]

(* What a list of rewards has, in the window that time t lies in, until    *)
(* the given end: no gap; unless it is empty, all but the last epoch; all  *)
(* epochs if it was collected without failure.                             *)
NoGap(rows, t) ==
    \A f \in rows : \A e \in 0..f : EndTime(e) >= WindowStart(t) => e \in rows

AllButLast(rows, t, end) ==
    rows # {} => \A e \in Nat :
        EndTime(e) >= WindowStart(t) /\ EndTime(e + 1) < end => e \in rows

All(rows, t, end) ==
    \A e \in Nat : EndTime(e) >= WindowStart(t) /\ EndTime(e) < end => e \in rows

ListOK(rows, clean, t, end) ==
    NoGap(rows, t) /\ AllButLast(rows, t, end) /\ (clean => All(rows, t, end))

(* The cache holds one entry per wallet, each a list good until it expires. *)
StoreOK ==
    /\ store \in Seq(Entry)
    /\ Len(store) <= Capacity
    /\ \A i, j \in DOMAIN store : store[i].wallet = store[j].wallet => i = j
    /\ \A i \in DOMAIN store :
          ListOK(store[i].rows, store[i].clean, now, store[i].expiresAt)

ClockOK ==
    /\ now \in Nat /\ now >= StartTick
    /\ known \in Nat /\ known <= CurrentEpoch

(* The rows that Finish leaves.                                            *)
Cut(q) == {e \in EpochsOfWindow(q.asOf, q.start) : EndTime(e) < WindowEnd(q.start)}

(* A running request at time t, the epoch cache being refreshed in epoch k: *)
(* it is not older than MaxServeTicks, and it took the completed epochs of *)
(* its window from the epoch cache, or none.                               *)
LocalsOK(q, t, k) ==
    /\ q \in Request
    /\ q.start <= t /\ t <= q.start + MaxServeTicks
    /\ q.asOf <= k
    /\ q.asOf > 0 => q.start <= EndTime(q.asOf)
    /\ q.epochs = EpochsOfWindow(q.asOf, q.start)

(* What it has at each place, at time t.                                   *)
PlaceOK(q, t) ==
    /\ q.pc \in {"balance", "stakes", "epochs"} => q.asOf = 0
    /\ q.pc # "render" => ~q.hit
    /\ q.pc \in {"balance", "stakes", "epochs", "cache", "collect"} => q.rows = {}
    /\ q.pc = "rewards" =>
          q.staked /\ q.asOf > 0 /\ q.todo \subseteq q.epochs /\ q.rows \cup q.todo = q.epochs
    /\ q.pc = "expiry" => q.rows = IF q.staked /\ q.asOf > 0 THEN Cut(q) ELSE {}
    /\ q.pc = "add" => ListOK(q.rows, q.clean, q.start, q.expiry)
    /\ q.pc = "render" /\ q.hit => ListOK(q.rows, q.clean, t, q.start)

RequestOK(q, t, k) == q = Idle \/ (LocalsOK(q, t, k) /\ PlaceOK(q, t))

IInv ==
    /\ ClockOK
    /\ StoreOK
    /\ request \in [Requests -> {Idle} \cup Request]
    /\ \A r \in Requests : RequestOK(request[r], now, known)

----------------------------------------------------------------------------
(* Arithmetic.                                                             *)

LEMMA Constants ==
    /\ Capacity \in Nat /\ Capacity > 0
    /\ EpochTicks \in Nat /\ EpochTicks > 0
    /\ WeekTicks \in Nat /\ WeekTicks > 0
    /\ LookbackWeeks * WeekTicks \in Nat
    /\ MaxServeTicks \in Nat /\ MaxServeTicks < EpochTicks
    /\ StartTick \in Nat /\ StartTick >= EpochTicks
  BY WalletRewardsAssumption

(* Division with remainder.                                                *)
LEMMA DivMod ==
    ASSUME NEW a \in Nat, NEW n \in Nat \ {0}
    PROVE  /\ a \div n \in Nat
           /\ a % n \in Nat
           /\ a % n < n
           /\ a = n * (a \div n) + (a % n)
  OBVIOUS

(* Multiples are ordered as their factors.                                 *)
LEMMA Multiples ==
    ASSUME NEW a \in Nat, NEW b \in Nat, NEW n \in Nat, a <= b
    PROVE  a * n <= b * n
<1>1. PICK d \in Nat : b = a + d
  BY b - a \in Nat
<1>2. b * n = a * n + d * n
  BY <1>1
<1>3. d * n \in Nat /\ a * n \in Nat
  OBVIOUS
<1>4. QED
  BY <1>2, <1>3

(* A later tick is in no earlier epoch and no earlier week.                *)
LEMMA DivMonotonic ==
    ASSUME NEW a \in Nat, NEW b \in Nat, NEW n \in Nat \ {0}, a <= b
    PROVE  a \div n <= b \div n
<1>1. SUFFICES ASSUME b \div n < a \div n
               PROVE  FALSE
  BY DivMod
<1>2. (b \div n + 1) * n <= (a \div n) * n
  BY <1>1, DivMod, Multiples
<1>3. QED
  BY <1>2, DivMod

(* A nonempty set of epochs has a newest one.                              *)
LEMMA HasNewest ==
    ASSUME NEW n \in Nat, NEW T, T \subseteq 0..n, T # {}
    PROVE  \E x \in T : \A y \in T : y <= x
<1> DEFINE U == {m \in 0..n : n - m \in T}
<1>1. U \subseteq Nat
  OBVIOUS
<1>2. U # {}
  <2>1. PICK y \in T : TRUE
    OBVIOUS
  <2>2. n - y \in 0..n /\ n - (n - y) = y
    OBVIOUS
  <2>3. n - y \in U
    BY <2>1, <2>2
  <2>4. QED
    BY <2>3
<1>3. \E u \in U : \A v \in U : ~(<<v, u>> \in OpToRel(<, Nat))
  BY <1>1, <1>2, NatLessThanWellFounded, WFMin
<1>4. PICK u \in U : \A v \in U : ~(<<v, u>> \in OpToRel(<, Nat))
  BY <1>3
<1>5. ASSUME NEW y \in T PROVE y <= n - u
  <2> DEFINE v == n - y
  <2>1. v \in 0..n /\ n - v = y
    OBVIOUS
  <2>2. v \in U /\ v \in Nat /\ u \in Nat
    BY <2>1
  <2>3. ~(<<v, u>> \in OpToRel(<, Nat))
    BY <2>2, <1>4
  <2> HIDE DEF v
  <2>4. ~(v < u)
    BY <2>2, <2>3 DEF OpToRel
  <2>5. QED
    BY <2>1, <2>2, <2>4
<1>6. n - u \in T
  OBVIOUS
<1>7. QED
  BY <1>5, <1>6

(* The ends of the epochs, an epoch apart.                                 *)
LEMMA EndTimes ==
    ASSUME NEW a \in Nat, NEW b \in Nat
    PROVE  /\ EndTime(a) \in Nat
           /\ EndTime(a + 1) = EndTime(a) + EpochTicks
           /\ a <= b => EndTime(a) <= EndTime(b)
           /\ a < b => EndTime(a) + EpochTicks <= EndTime(b)
<1>1. EpochTicks \in Nat
  BY Constants
<1>2. EndTime(a) \in Nat /\ EndTime(b) \in Nat
  BY <1>1 DEF EndTime
<1>3. EndTime(a + 1) = EndTime(a) + EpochTicks
  BY <1>1 DEF EndTime
<1>4. a <= b => EndTime(a) <= EndTime(b)
  BY <1>1, Multiples DEF EndTime
<1>5. a < b => EndTime(a + 1) <= EndTime(b)
  BY <1>1, Multiples DEF EndTime
<1>6. QED
  BY <1>1, <1>2, <1>3, <1>4, <1>5

(* The epochs order as their ends.                                         *)
LEMMA EndTimeOrder ==
    ASSUME NEW a \in Nat, NEW b \in Nat, EndTime(a) < EndTime(b)
    PROVE  a < b
  BY EndTimes

(* Tick t is before the end of its epoch, and the epoch before has ended.  *)
LEMMA TickInEpoch ==
    ASSUME NEW t \in Nat
    PROVE  /\ t \div EpochTicks \in Nat
           /\ t < EndTime(t \div EpochTicks)
           /\ EndTime(t \div EpochTicks) <= t + EpochTicks
<1> DEFINE d == t \div EpochTicks
<1>1. /\ EpochTicks \in Nat \ {0} /\ d \in Nat
      /\ t % EpochTicks \in Nat /\ t % EpochTicks < EpochTicks
      /\ t = EpochTicks * d + (t % EpochTicks)
  BY Constants, DivMod
<1> HIDE DEF d
<1>2. EndTime(d) = EpochTicks * d + EpochTicks /\ EpochTicks * d \in Nat
  BY <1>1 DEF EndTime
<1>3. QED
  BY <1>1, <1>2 DEF d

(* The window of a later tick starts no earlier; a tick is in its window.  *)
LEMMA Windows ==
    ASSUME NEW s \in Nat, NEW t \in Nat, s <= t
    PROVE  /\ WindowStart(s) \in Nat /\ WindowStart(t) \in Nat
           /\ WindowStart(s) <= WindowStart(t)
           /\ WindowEnd(s) \in Nat /\ s < WindowEnd(s)
<1> DEFINE W == WeekTicks
<1>1. W \in Nat \ {0} /\ LookbackWeeks * W \in Nat
  BY Constants
<1>2. /\ s \div W \in Nat /\ t \div W \in Nat /\ s \div W <= t \div W
      /\ s % W \in Nat /\ t % W \in Nat /\ s % W < W
      /\ s = W * (s \div W) + (s % W) /\ t = W * (t \div W) + (t % W)
  BY <1>1, DivMod, DivMonotonic
<1>3. WeekFloor(s) = (s \div W) * W /\ WeekFloor(t) = (t \div W) * W
  <2>1. W * (s \div W) \in Nat /\ W * (t \div W) \in Nat
    BY <1>1, <1>2
  <2>2. WeekFloor(s) = W * (s \div W) /\ WeekFloor(t) = W * (t \div W)
    BY <1>2, <2>1 DEF WeekFloor
  <2>3. QED
    BY <2>2, <1>1, <1>2
<1>4. (s \div W) * W <= (t \div W) * W
  BY <1>1, <1>2, Multiples
<1>5. WeekFloor(s) \in Nat /\ WeekFloor(t) \in Nat /\ WeekFloor(s) <= WeekFloor(t)
  BY <1>1, <1>2, <1>3, <1>4
<1>6. s < WeekFloor(s) + W
  BY <1>1, <1>2, <1>5 DEF WeekFloor
<1>7. QED
  BY <1>1, <1>5, <1>6 DEF WindowStart, WindowEnd

(* A list stays good as time passes, and is good until any earlier end.    *)
LEMMA ListStays ==
    ASSUME NEW s \in Nat, NEW t \in Nat, s <= t,
           NEW end \in Nat, NEW sooner \in Nat, sooner <= end,
           NEW rows \in SUBSET Nat, NEW clean \in BOOLEAN,
           ListOK(rows, clean, s, end)
    PROVE  ListOK(rows, clean, t, sooner)
<1>1. \A e \in Nat : EndTime(e) >= WindowStart(t) => EndTime(e) >= WindowStart(s)
  BY Windows, EndTimes
<1>2. \A e \in Nat : EndTime(e) < sooner => EndTime(e) < end
  BY EndTimes
<1>3. NoGap(rows, t)
  BY <1>1 DEF ListOK, NoGap
<1>4. AllButLast(rows, t, sooner)
  BY <1>1, <1>2 DEF ListOK, AllButLast
<1>5. clean => All(rows, t, sooner)
  BY <1>1, <1>2 DEF ListOK, All
<1>6. QED
  BY <1>3, <1>4, <1>5 DEF ListOK

(* An empty list that was not collected without failure promises nothing.  *)
LEMMA EmptyListOK ==
    ASSUME NEW t, NEW end
    PROVE  ListOK({}, FALSE, t, end)
  BY DEF ListOK, NoGap, AllButLast

----------------------------------------------------------------------------
(* The epoch cache and the rewards of a request.                           *)

(* A call answers with an epoch that has not ended or ends this tick, and  *)
(* never with an older one than before.                                    *)
LEMMA CallFacts ==
    ASSUME ClockOK
    PROVE  /\ CurrentEpoch \in Nat
           /\ KnownAfterCall \in Nat /\ KnownAfterCall > 0
           /\ known <= KnownAfterCall /\ KnownAfterCall <= CurrentEpoch
           /\ now <= EndTime(KnownAfterCall)
<1>1. /\ CurrentEpoch \in Nat /\ now < EndTime(CurrentEpoch)
  BY TickInEpoch DEF ClockOK, CurrentEpoch
<1>2. EndTime(0) = EpochTicks /\ now >= EpochTicks
  BY Constants DEF EndTime, ClockOK
<1>3. CurrentEpoch > 0
  BY <1>1, <1>2, EndTimes, EndTimeOrder, Constants DEF ClockOK
<1>4. now <= EndTime(CurrentEpoch)
  BY <1>1, EndTimes DEF ClockOK
<1>5. QED
  BY <1>1, <1>3, <1>4 DEF KnownAfterCall, Unexpired, ClockOK

(* The clock only runs, and so does the epoch.                             *)
LEMMA EpochGrows ==
    ASSUME ClockOK, now' \in Nat, now <= now'
    PROVE  CurrentEpoch \in Nat /\ CurrentEpoch' \in Nat /\ CurrentEpoch <= CurrentEpoch'
<1>1. EpochTicks \in Nat \ {0}
  BY Constants
<1>2. QED
  BY <1>1, DivMod, DivMonotonic DEF CurrentEpoch, ClockOK

LEMMA WindowEpochs ==
    ASSUME NEW n \in Nat, NEW t \in Nat
    PROVE  EpochsOfWindow(n, t) = {e \in Nat : e < n /\ EndTime(e) >= WindowStart(t)}
  BY DEF EpochsOfWindow

(* The list a request collected, when the end of the current epoch is read *)
(* for it: although epochs may have ended since it arrived, fewer than two *)
(* have.                                                                   *)
LEMMA CollectedListOK ==
    ASSUME ClockOK, NEW q, LocalsOK(q, now, known), q.asOf > 0
    PROVE  LET end == EndTime(KnownAfterCall)
           IN  /\ NoGap(Cut(q), q.start)
               /\ AllButLast(Cut(q), q.start, end)
               /\ q.asOf = q.start \div EpochTicks /\ q.asOf = KnownAfterCall
                  => All(Cut(q), q.start, end)
<1> DEFINE k == KnownAfterCall
           C == Cut(q)
<1>1. /\ q.start \in Nat /\ q.asOf \in Nat /\ now \in Nat
      /\ q.start <= now /\ now <= q.start + MaxServeTicks
      /\ q.start <= EndTime(q.asOf)
  BY DEF LocalsOK, Request, ClockOK
<1>2. /\ k \in Nat /\ k <= CurrentEpoch /\ CurrentEpoch \in Nat
  BY CallFacts
<1>3. /\ WindowStart(q.start) \in Nat
      /\ WindowEnd(q.start) \in Nat /\ q.start < WindowEnd(q.start)
  BY <1>1, Windows
<1>4. C = {e \in Nat : /\ e < q.asOf /\ EndTime(e) >= WindowStart(q.start)
                       /\ EndTime(e) < WindowEnd(q.start)}
  BY <1>1, WindowEpochs DEF Cut
<1> HIDE DEF k, C
<1>5. EndTime(k) <= now + EpochTicks
  <2>1. EndTime(CurrentEpoch) <= now + EpochTicks
    BY <1>1, TickInEpoch DEF CurrentEpoch
  <2>2. EndTime(k) <= EndTime(CurrentEpoch)
    BY <1>2, EndTimes
  <2>3. EndTime(k) \in Nat /\ EndTime(CurrentEpoch) \in Nat
    BY <1>2, EndTimes
  <2>4. QED
    BY <2>1, <2>2, <2>3, <1>1, Constants
<1>6. /\ EndTime(k) \in Nat /\ EndTime(q.asOf) \in Nat /\ EpochTicks \in Nat
      /\ EndTime(k) < q.start + EpochTicks + EpochTicks
  <2>1. EndTime(k) \in Nat /\ EndTime(q.asOf) \in Nat
    BY <1>1, <1>2, EndTimes
  <2>2. QED
    BY <2>1, <1>1, <1>5, Constants
<1>7. NoGap(C, q.start)
  <2>1. SUFFICES ASSUME NEW f \in C, NEW e \in 0..f, EndTime(e) >= WindowStart(q.start)
                 PROVE  e \in C
    BY DEF NoGap
  <2>2. f \in Nat /\ f < q.asOf /\ EndTime(f) < WindowEnd(q.start)
    BY <1>4
  <2>3. e \in Nat /\ e < q.asOf
    BY <2>2, <1>1
  <2>4. EndTime(e) < WindowEnd(q.start)
    BY <2>2, <2>3, EndTimes, <1>3
  <2>5. QED
    BY <1>4, <2>1, <2>3, <2>4
<1>8. AllButLast(C, q.start, EndTime(k))
  <2>1. SUFFICES ASSUME NEW e \in Nat, EndTime(e) >= WindowStart(q.start),
                        EndTime(e + 1) < EndTime(k)
                 PROVE  e \in C
    BY DEF AllButLast
  <2>2. EndTime(e) \in Nat /\ EndTime(e + 1) = EndTime(e) + EpochTicks
    BY EndTimes
  <2>3. e + 1 < k
    BY <2>1, <1>2, EndTimeOrder
  <2>4. EndTime(e + 1) + EpochTicks <= EndTime(k)
    BY <2>3, <1>2, EndTimes
  <2>5. EndTime(e) < EndTime(q.asOf)
    BY <2>2, <2>4, <1>1, <1>6
  <2>6. e < q.asOf
    BY <2>5, <1>1, EndTimeOrder
  <2>7. EndTime(e) < WindowEnd(q.start)
    BY <2>2, <2>4, <1>1, <1>3, <1>6
  <2>8. QED
    BY <1>4, <2>1, <2>6, <2>7
<1>9. ASSUME q.asOf = q.start \div EpochTicks, q.asOf = k
      PROVE  All(C, q.start, EndTime(k))
  <2>1. SUFFICES ASSUME NEW e \in Nat, EndTime(e) >= WindowStart(q.start),
                        EndTime(e) < EndTime(k)
                 PROVE  e \in C
    BY DEF All
  <2>2. e < q.asOf
    BY <2>1, <1>2, <1>9, EndTimeOrder
  <2>3. EndTime(e) + EpochTicks <= EndTime(q.asOf) /\ EndTime(e) \in Nat
    BY <2>2, <1>1, EndTimes
  <2>4. EndTime(q.asOf) <= q.start + EpochTicks
    BY <1>1, <1>9, TickInEpoch
  <2>5. EndTime(e) < WindowEnd(q.start)
    BY <2>3, <2>4, <1>1, <1>3, <1>6
  <2>6. QED
    BY <1>4, <2>1, <2>2, <2>5
<1>10. QED
  BY <1>7, <1>8, <1>9 DEF k, C

----------------------------------------------------------------------------
(* The wallet cache.                                                       *)

(* The store without a wallet: what remains of it, in the same order.      *)
LEMMA WithoutFacts ==
    ASSUME StoreOK, NEW w
    PROVE  /\ Without(w) \in Seq(Entry)
           /\ Len(Without(w)) <= Len(store)
           /\ IndexOf(w) # {} => Len(Without(w)) < Len(store)
           /\ \A k \in DOMAIN Without(w) :
                 /\ \E i \in DOMAIN store : Without(w)[k] = store[i]
                 /\ Without(w)[k].wallet # w
           /\ \A k, l \in DOMAIN Without(w) :
                 Without(w)[k].wallet = Without(w)[l].wallet => k = l
<1>1. store \in Seq(Entry) /\ DOMAIN store = 1..Len(store) /\ Len(store) \in Nat
  BY DEF StoreOK
<1>2. \A i, j \in DOMAIN store : store[i].wallet = store[j].wallet => i = j
  BY DEF StoreOK
<1>3. CASE IndexOf(w) = {}
  <2>1. Without(w) = store
    BY <1>3 DEF Without
  <2>2. \A k \in DOMAIN store : store[k].wallet # w
    BY <1>3 DEF IndexOf
  <2>3. QED
    BY <1>1, <1>2, <1>3, <2>1, <2>2
<1>4. CASE IndexOf(w) # {}
  <2> DEFINE i == CHOOSE j \in IndexOf(w) : TRUE
             S == SubSeq(store, 1, i - 1) \o SubSeq(store, i + 1, Len(store))
  <2>1. i \in 1..Len(store) /\ store[i].wallet = w
    BY <1>1, <1>4 DEF IndexOf
  <2>2. Without(w) = S
    BY <1>4 DEF Without
  <2> HIDE DEF i
  <2> DEFINE A == SubSeq(store, 1, i - 1)
             B == SubSeq(store, i + 1, Len(store))
  <2>3. /\ A \in Seq(Entry) /\ Len(A) = i - 1
        /\ \A k \in 1..(i - 1) : A[k] = store[k]
    <3>1. \A k \in 1..(i - 1) : store[k] \in Entry
      BY <1>1, <2>1
    <3>2. QED
      BY <3>1, <2>1, SubSeqProperties
  <2>4. /\ B \in Seq(Entry) /\ Len(B) = Len(store) - i
        /\ \A k \in 1..(Len(store) - i) : B[k] = store[i + k]
    <3>1. \A k \in (i + 1)..Len(store) : store[k] \in Entry
      BY <1>1, <2>1
    <3>2. /\ B \in Seq(Entry)
          /\ Len(B) = IF i + 1 <= Len(store) THEN Len(store) - (i + 1) + 1 ELSE 0
          /\ \A k \in 1..(Len(store) - (i + 1) + 1) : B[k] = store[(i + 1) + k - 1]
      BY <3>1, <2>1, <1>1, SubSeqProperties
    <3> HIDE DEF B
    <3>3. i \in Nat /\ Len(store) \in Nat /\ i <= Len(store)
      BY <2>1, <1>1
    <3>4. Len(B) = Len(store) - i
      BY <3>2, <3>3
    <3>5. ASSUME NEW k \in 1..(Len(store) - i) PROVE B[k] = store[i + k]
      <4>1. k \in 1..(Len(store) - (i + 1) + 1) /\ (i + 1) + k - 1 = i + k
        BY <3>3
      <4>2. B[k] = store[(i + 1) + k - 1]
        BY <4>1, <3>2
      <4>3. QED
        BY <4>1, <4>2
    <3>6. QED
      BY <3>2, <3>4, <3>5
  <2> HIDE DEF A, B
  <2>5. S = A \o B
    BY DEF A, B
  <2> HIDE DEF S
  <2> DEFINE at(k) == IF k < i THEN k ELSE k + 1
  <2>6. /\ S \in Seq(Entry) /\ Len(S) = Len(store) - 1
        /\ \A k \in 1..Len(S) :
              S[k] = IF k <= i - 1 THEN A[k] ELSE B[k - (i - 1)]
    <3>1. /\ A \o B \in Seq(Entry) /\ Len(A \o B) = Len(A) + Len(B)
          /\ \A k \in 1..(Len(A) + Len(B)) :
                (A \o B)[k] = IF k <= Len(A) THEN A[k] ELSE B[k - Len(A)]
      BY <2>3, <2>4, ConcatProperties
    <3>2. Len(A) = i - 1 /\ Len(A) + Len(B) = Len(store) - 1
      BY <2>1, <2>3, <2>4, <1>1
    <3>3. QED
      BY <3>1, <3>2, <2>5
  <2>7. \A k \in 1..Len(S) : S[k] = store[at(k)]
    <3>1. TAKE k \in 1..Len(S)
    <3>2. CASE k < i
      <4>1. k \in 1..(i - 1) /\ at(k) = k
        BY <3>2, <2>1
      <4>2. QED
        BY <4>1, <2>1, <2>3, <2>6
    <3>3. CASE ~(k < i)
      <4>1. /\ k - (i - 1) \in 1..(Len(store) - i) /\ i + (k - (i - 1)) = k + 1
            /\ at(k) = k + 1 /\ ~(k <= i - 1)
        BY <3>3, <2>1, <2>6, <1>1
      <4>2. S[k] = B[k - (i - 1)]
        BY <4>1, <2>6
      <4>3. B[k - (i - 1)] = store[k + 1]
        BY <4>1, <2>4
      <4>4. QED
        BY <4>1, <4>2, <4>3
    <3>4. QED
      BY <3>2, <3>3
  <2>8. /\ \A k \in 1..Len(S) : at(k) \in DOMAIN store /\ at(k) # i
        /\ \A k, l \in 1..Len(S) : at(k) = at(l) => k = l
    BY <2>1, <2>6, <1>1
  <2>9. DOMAIN S = 1..Len(S)
    BY <2>6
  <2> HIDE DEF at
  <2>10. \A k \in DOMAIN S :
            /\ \E m \in DOMAIN store : S[k] = store[m]
            /\ S[k].wallet # w
    BY <2>1, <2>7, <2>8, <2>9, <1>1, <1>2
  <2>11. \A k, l \in DOMAIN S : S[k].wallet = S[l].wallet => k = l
    BY <2>7, <2>8, <2>9, <1>2
  <2>12. Len(S) < Len(store) /\ Len(S) <= Len(store)
    BY <2>6, <1>1
  <2>13. QED
    BY <2>2, <2>6, <2>10, <2>11, <2>12
<1>5. QED
  BY <1>3, <1>4

(* An entry put in front of the store without its wallet.                  *)
LEMMA FrontFacts ==
    ASSUME StoreOK, NEW entry \in Entry,
           ListOK(entry.rows, entry.clean, now, entry.expiresAt)
    PROVE  LET s == <<entry>> \o Without(entry.wallet)
           IN  /\ s \in Seq(Entry)
               /\ Len(s) = Len(Without(entry.wallet)) + 1
               /\ \A i, j \in DOMAIN s : s[i].wallet = s[j].wallet => i = j
               /\ \A i \in DOMAIN s : ListOK(s[i].rows, s[i].clean, now, s[i].expiresAt)
<1> DEFINE R == Without(entry.wallet)
           s == <<entry>> \o R
<1>1. /\ R \in Seq(Entry)
      /\ \A k \in DOMAIN R : /\ \E i \in DOMAIN store : R[k] = store[i]
                             /\ R[k].wallet # entry.wallet
      /\ \A k, l \in DOMAIN R : R[k].wallet = R[l].wallet => k = l
  BY WithoutFacts
<1>2. \A i \in DOMAIN store :
          ListOK(store[i].rows, store[i].clean, now, store[i].expiresAt)
  BY DEF StoreOK
<1> HIDE DEF R
<1>3. /\ <<entry>> \in Seq(Entry) /\ Len(<<entry>>) = 1 /\ <<entry>>[1] = entry
  OBVIOUS
<1>4. /\ s \in Seq(Entry) /\ Len(s) = 1 + Len(R) /\ Len(R) \in Nat
      /\ \A i \in 1..(1 + Len(R)) : s[i] = IF i <= 1 THEN <<entry>>[i] ELSE R[i - 1]
  BY <1>1, <1>3, ConcatProperties
<1> HIDE DEF s
<1>5. DOMAIN s = 1..(1 + Len(R)) /\ DOMAIN R = 1..Len(R)
  BY <1>1, <1>4
<1>6. s[1] = entry
  BY <1>3, <1>4
<1>7. ASSUME NEW i \in DOMAIN s, i # 1
      PROVE  i - 1 \in DOMAIN R /\ s[i] = R[i - 1]
  BY <1>4, <1>5, <1>7
<1>8. ASSUME NEW i \in DOMAIN s
      PROVE  ListOK(s[i].rows, s[i].clean, now, s[i].expiresAt)
  <2>1. CASE i = 1
    BY <2>1, <1>6
  <2>2. CASE i # 1
    BY <2>2, <1>1, <1>2, <1>7
  <2>3. QED
    BY <2>1, <2>2
<1>9. ASSUME NEW i \in DOMAIN s, NEW j \in DOMAIN s, s[i].wallet = s[j].wallet
      PROVE  i = j
  <2>1. i \in Nat /\ j \in Nat
    BY <1>5
  <2>2. CASE i = 1 \/ j = 1
    BY <2>2, <1>1, <1>6, <1>7, <1>9
  <2>3. CASE i # 1 /\ j # 1
    <3>1. i - 1 = j - 1
      BY <2>3, <1>1, <1>7, <1>9
    <3>2. QED
      BY <3>1, <2>1
  <2>4. QED
    BY <2>2, <2>3
<1>10. QED
  BY <1>4, <1>8, <1>9 DEF s, R

(* Time passes: every list in the cache stays good.                        *)
LEMMA StoreStays ==
    ASSUME ClockOK, StoreOK, now' \in Nat, now <= now', store' = store
    PROVE  StoreOK'
<1>1. ASSUME NEW i \in DOMAIN store
      PROVE  ListOK(store[i].rows, store[i].clean, now', store[i].expiresAt)
  <2>1. /\ store[i].rows \in SUBSET Nat /\ store[i].clean \in BOOLEAN
        /\ store[i].expiresAt \in Nat
    <3>1. store[i] \in Entry
      BY DEF StoreOK
    <3>2. QED
      BY <3>1 DEF Entry
  <2>2. ListOK(store[i].rows, store[i].clean, now, store[i].expiresAt)
    BY DEF StoreOK
  <2>3. now \in Nat /\ store[i].expiresAt <= store[i].expiresAt
    BY <2>1 DEF ClockOK
  <2>4. QED
    BY <2>1, <2>2, <2>3, ListStays
<1>2. QED
  BY <1>1 DEF StoreOK

(* A hit moves its entry to the front.                                     *)
LEMMA HitKeepsStore ==
    ASSUME StoreOK, NEW w, NEW i \in IndexOf(w),
           now' = now, store' = <<store[i]>> \o Without(w)
    PROVE  StoreOK'
<1> DEFINE entry == store[i]
<1>1. entry \in Entry /\ entry.wallet = w
  BY DEF StoreOK, IndexOf
<1>2. ListOK(entry.rows, entry.clean, now, entry.expiresAt)
  BY DEF StoreOK, IndexOf
<1>3. Len(Without(w)) < Len(store) /\ Len(Without(w)) \in Nat
  BY WithoutFacts
<1>4. Len(store) \in Nat /\ Len(store) <= Capacity /\ Capacity \in Nat
  BY Constants DEF StoreOK
<1> HIDE DEF entry
<1>5. store' = <<entry>> \o Without(entry.wallet)
  BY <1>1 DEF entry
<1>6. /\ store' \in Seq(Entry) /\ Len(store') = Len(Without(entry.wallet)) + 1
      /\ \A k, l \in DOMAIN store' : store'[k].wallet = store'[l].wallet => k = l
      /\ \A k \in DOMAIN store' :
            ListOK(store'[k].rows, store'[k].clean, now, store'[k].expiresAt)
  BY <1>1, <1>2, <1>5, FrontFacts
<1>7. Len(store') <= Capacity
  BY <1>1, <1>3, <1>4, <1>6
<1>8. QED
  BY <1>6, <1>7 DEF StoreOK

(* A miss removes the expired entry.                                       *)
LEMMA MissKeepsStore ==
    ASSUME StoreOK, NEW w, now' = now, store' = Without(w)
    PROVE  StoreOK'
<1>1. /\ store' \in Seq(Entry) /\ Len(store') <= Len(store)
      /\ \A k \in DOMAIN store' : \E i \in DOMAIN store : store'[k] = store[i]
      /\ \A k, l \in DOMAIN store' : store'[k].wallet = store'[l].wallet => k = l
  BY WithoutFacts
<1>2. \A i \in DOMAIN store :
          ListOK(store[i].rows, store[i].clean, now, store[i].expiresAt)
  BY DEF StoreOK
<1>3. Len(store) \in Nat /\ Len(store') \in Nat /\ Len(store) <= Capacity /\ Capacity \in Nat
  BY <1>1, Constants DEF StoreOK
<1>4. QED
  BY <1>1, <1>2, <1>3 DEF StoreOK

(* A full cache drops its oldest entries.                                  *)
LEMMA AddKeepsStore ==
    ASSUME StoreOK, NEW entry \in Entry,
           ListOK(entry.rows, entry.clean, now, entry.expiresAt),
           now' = now, store' = Newest(Capacity, <<entry>> \o Without(entry.wallet))
    PROVE  StoreOK'
<1> DEFINE s == <<entry>> \o Without(entry.wallet)
           n == IF Len(s) < Capacity THEN Len(s) ELSE Capacity
<1>1. /\ s \in Seq(Entry)
      /\ \A i, j \in DOMAIN s : s[i].wallet = s[j].wallet => i = j
      /\ \A i \in DOMAIN s : ListOK(s[i].rows, s[i].clean, now, s[i].expiresAt)
  BY FrontFacts
<1> HIDE DEF s
<1>2. store' = SubSeq(s, 1, n)
  BY DEF Newest, s
<1>3. n \in Nat /\ n <= Len(s) /\ n <= Capacity /\ DOMAIN s = 1..Len(s) /\ Len(s) \in Nat
  BY <1>1, Constants
<1> HIDE DEF n
<1>4. \A i \in 1..n : s[i] \in Entry
  BY <1>1, <1>3
<1>5. /\ store' \in Seq(Entry) /\ Len(store') = IF 1 <= n THEN n - 1 + 1 ELSE 0
      /\ \A i \in 1..(n - 1 + 1) : store'[i] = s[1 + i - 1]
  BY <1>2, <1>3, <1>4, SubSeqProperties
<1>6. /\ store' \in Seq(Entry) /\ Len(store') = n /\ DOMAIN store' = 1..n
      /\ \A i \in 1..n : store'[i] = s[i]
  BY <1>3, <1>5
<1>7. \A i \in DOMAIN store' : i \in DOMAIN s /\ store'[i] = s[i]
  BY <1>3, <1>6
<1>8. QED
  BY <1>1, <1>3, <1>6, <1>7 DEF StoreOK

----------------------------------------------------------------------------
(* The requests.                                                           *)

(* The other requests stay as they are while one moves.                    *)
LEMMA OneMoves ==
    ASSUME IInv, NEW r \in Requests, NEW q \in {Idle} \cup Request,
           request' = [request EXCEPT ![r] = q],
           now' = now, known' \in Nat, known <= known',
           RequestOK(q, now, known')
    PROVE  /\ request' \in [Requests -> {Idle} \cup Request]
           /\ \A p \in Requests : RequestOK(request'[p], now', known')
<1>1. request' \in [Requests -> {Idle} \cup Request]
  BY DEF IInv
<1>2. request'[r] = q /\ \A p \in Requests \ {r} : request'[p] = request[p]
  BY DEF IInv
<1>3. ASSUME NEW p \in Requests \ {r}
      PROVE  RequestOK(request[p], now, known')
  <2>1. RequestOK(request[p], now, known)
    BY DEF IInv
  <2>2. CASE request[p] = Idle
    BY <2>2 DEF RequestOK
  <2>3. CASE LocalsOK(request[p], now, known) /\ PlaceOK(request[p], now)
    <3>1. request[p].asOf \in Nat /\ known \in Nat
      BY <2>3 DEF LocalsOK, Request, IInv, ClockOK
    <3>2. LocalsOK(request[p], now, known')
      BY <2>3, <3>1 DEF LocalsOK
    <3>3. QED
      BY <2>3, <3>2 DEF RequestOK
  <2>4. QED
    BY <2>1, <2>2, <2>3 DEF RequestOK
<1>4. QED
  BY <1>1, <1>2, <1>3

(* A request at a place is running.                                        *)
LEMMA Running ==
    ASSUME IInv, NEW r \in Requests, request[r].pc # "idle"
    PROVE  /\ request[r] \in Request
           /\ LocalsOK(request[r], now, known)
           /\ PlaceOK(request[r], now)
<1>1. request[r] # Idle
  BY DEF Idle
<1>2. QED
  BY <1>1 DEF IInv, RequestOK, LocalsOK

(* The tick of the clock: a running request stays within its time, and a   *)
(* list from the cache stays good.                                         *)
LEMMA AdvanceStep ==
    ASSUME IInv, Advance
    PROVE  IInv'
<1>1. /\ now \in Nat /\ known \in Nat /\ now' = now + 1 /\ now' \in Nat /\ now <= now'
      /\ known' = known /\ store' = store /\ request' = request
  BY DEF Advance, IInv, ClockOK
<1>2. ClockOK'
  <2>1. CurrentEpoch \in Nat /\ CurrentEpoch' \in Nat /\ CurrentEpoch <= CurrentEpoch'
    BY <1>1, EpochGrows DEF IInv
  <2>2. QED
    BY <1>1, <2>1, Constants DEF IInv, ClockOK
<1>3. StoreOK'
  BY <1>1, StoreStays DEF IInv
<1>4. ASSUME NEW r \in Requests
      PROVE  RequestOK(request[r], now', known)
  <2>1. CASE request[r] = Idle
    BY <2>1 DEF RequestOK
  <2>2. CASE request[r] # Idle
    <3> DEFINE q == request[r]
    <3>1. LocalsOK(q, now, known) /\ PlaceOK(q, now) /\ q \in Request
      BY <2>2 DEF IInv, RequestOK, LocalsOK
    <3>2. q.pc # "idle" /\ q.start \in Nat /\ q.rows \in SUBSET Nat /\ q.clean \in BOOLEAN
      BY <3>1 DEF Request, Places
    <3>3. now - q.start < MaxServeTicks
      BY <3>2 DEF Advance, At
    <3>4. now' <= q.start + MaxServeTicks /\ q.start <= now'
      BY <1>1, <3>1, <3>2, <3>3, Constants DEF LocalsOK
    <3>5. LocalsOK(q, now', known)
      BY <3>1, <3>4 DEF LocalsOK
    <3>6. q.pc = "render" /\ q.hit => ListOK(q.rows, q.clean, now', q.start)
      BY <1>1, <3>1, <3>2, ListStays DEF PlaceOK
    <3>7. PlaceOK(q, now')
      BY <3>1, <3>6 DEF PlaceOK
    <3>8. QED
      BY <3>5, <3>7 DEF RequestOK
  <2>3. QED
    BY <2>1, <2>2
<1>5. QED
  BY <1>1, <1>2, <1>3, <1>4 DEF IInv

(* A request moves and leaves the clock and the caches alone.              *)
LEMMA OnlyRequest ==
    ASSUME IInv, NEW r \in Requests, NEW q \in {Idle} \cup Request,
           request' = [request EXCEPT ![r] = q],
           UNCHANGED <<now, known, store>>,
           RequestOK(q, now, known)
    PROVE  IInv'
<1>1. now \in Nat /\ known \in Nat /\ known' = known /\ now' = now /\ store' = store
  BY DEF IInv, ClockOK
<1>2. ClockOK' /\ StoreOK'
  BY <1>1 DEF IInv, ClockOK, StoreOK, CurrentEpoch
<1>3. known' \in Nat /\ known <= known' /\ RequestOK(q, now, known')
  BY <1>1
<1>4. QED
  BY <1>1, <1>2, <1>3, OneMoves DEF IInv

LEMMA ArriveStep ==
    ASSUME IInv, NEW r \in Requests, Arrive(r)
    PROVE  IInv'
<1>1. PICK w \in Wallets :
          request' = [request EXCEPT ![r] =
              [pc |-> "balance", wallet |-> w, start |-> now,
               staked |-> FALSE, epochs |-> {}, asOf |-> 0,
               todo |-> {}, rows |-> {}, hit |-> FALSE, clean |-> FALSE,
               expiry |-> 0]]
  BY DEF Arrive
<1> DEFINE q == [pc |-> "balance", wallet |-> w, start |-> now,
                 staked |-> FALSE, epochs |-> {}, asOf |-> 0,
                 todo |-> {}, rows |-> {}, hit |-> FALSE, clean |-> FALSE,
                 expiry |-> 0]
<1>2. now \in Nat /\ known \in Nat
  BY DEF IInv, ClockOK
<1>3. q \in Request
  BY <1>2 DEF Request, Places
<1>4. EpochsOfWindow(0, now) = {}
  BY DEF EpochsOfWindow
<1>5. LocalsOK(q, now, known)
  BY <1>2, <1>3, <1>4, Constants DEF LocalsOK
<1>6. PlaceOK(q, now)
  BY DEF PlaceOK
<1>7. RequestOK(q, now, known)
  BY <1>5, <1>6 DEF RequestOK
<1>8. request' = [request EXCEPT ![r] = q]
  BY <1>1
<1> HIDE DEF q
<1>9. QED
  BY <1>3, <1>7, <1>8, OnlyRequest DEF Arrive

(* A request that ends.                                                    *)
LEMMA EndStep ==
    ASSUME IInv, NEW r \in Requests,
           request' = [request EXCEPT ![r] = Idle], UNCHANGED <<now, known, store>>
    PROVE  IInv'
  BY OnlyRequest DEF RequestOK

(* What a request read from the epoch cache outlasts a change of the rest. *)
LEMMA LocalsStay ==
    ASSUME NEW q \in Request, NEW s \in Request, NEW t, NEW k \in Nat, NEW l \in Nat,
           LocalsOK(q, t, k), k <= l,
           s.start = q.start, s.asOf = q.asOf, s.epochs = q.epochs
    PROVE  LocalsOK(s, t, l)
<1>1. q.asOf \in Nat
  BY DEF Request
<1>2. QED
  BY <1>1 DEF LocalsOK

(* A request goes on with changes to its other locals only.                *)
LEMMA GoesOn ==
    ASSUME IInv, NEW r \in Requests, NEW s \in Request, request[r].pc # "idle",
           s.start = request[r].start, s.asOf = request[r].asOf,
           s.epochs = request[r].epochs, PlaceOK(s, now),
           request' = [request EXCEPT ![r] = s], UNCHANGED <<now, known, store>>
    PROVE  IInv'
<1>1. request[r] \in Request /\ LocalsOK(request[r], now, known) /\ known \in Nat
  BY Running DEF IInv, ClockOK
<1>2. LocalsOK(s, now, known)
  BY <1>1, LocalsStay
<1>3. RequestOK(s, now, known)
  BY <1>2 DEF RequestOK
<1>4. QED
  BY <1>3, OnlyRequest

LEMMA GetBalanceStep ==
    ASSUME IInv, NEW r \in Requests, GetBalance(r)
    PROVE  IInv'
<1> DEFINE q == request[r]
           s == [q EXCEPT !.pc = "stakes"]
<1>1. q.pc = "balance" /\ q \in Request /\ PlaceOK(q, now)
  BY Running DEF GetBalance, At
<1>2. s \in Request
  BY <1>1 DEF Request, Places
<1>3. PlaceOK(s, now)
  BY <1>1 DEF PlaceOK, Request
<1>4. CASE Goto(r, "stakes")
  <2>1. request' = [request EXCEPT ![r] = s]
    BY <1>4 DEF Goto
  <2>2. s.start = q.start /\ s.asOf = q.asOf /\ s.epochs = q.epochs
    BY <1>1 DEF Request
  <2> HIDE DEF s
  <2>3. QED
    BY <1>1, <1>2, <1>3, <2>1, <2>2, GoesOn DEF GetBalance
<1>5. CASE request' = [request EXCEPT ![r] = Idle]
  BY <1>5, EndStep DEF GetBalance
<1>6. QED
  BY <1>4, <1>5 DEF GetBalance

LEMMA ListStakeAccountsStep ==
    ASSUME IInv, NEW r \in Requests, ListStakeAccounts(r)
    PROVE  IInv'
<1>1. PICK ok \in BOOLEAN :
          request' = [request EXCEPT ![r].pc = "epochs", ![r].staked = ok]
  BY DEF ListStakeAccounts
<1> DEFINE q == request[r]
           s == [q EXCEPT !.pc = "epochs", !.staked = ok]
<1>2. q.pc = "stakes" /\ q \in Request /\ PlaceOK(q, now)
  BY Running DEF ListStakeAccounts, At
<1>3. s \in Request
  BY <1>2 DEF Request, Places
<1>4. PlaceOK(s, now)
  BY <1>2 DEF PlaceOK, Request
<1>5. s.start = q.start /\ s.asOf = q.asOf /\ s.epochs = q.epochs
  BY <1>2 DEF Request
<1>6. request' = [request EXCEPT ![r] = s]
  BY <1>1
<1> HIDE DEF s
<1>7. QED
  BY <1>2, <1>3, <1>4, <1>5, <1>6, GoesOn DEF ListStakeAccounts

(* The epochs are those that the epoch cache knows to be completed.        *)
LEMMA GetEpochBoundariesStep ==
    ASSUME IInv, NEW r \in Requests, GetEpochBoundaries(r)
    PROVE  IInv'
<1> DEFINE k == KnownAfterCall
           q == request[r]
           s == [q EXCEPT !.pc = "cache", !.asOf = k, !.epochs = EpochsOfWindow(k, q.start)]
<1>1. q.pc = "epochs" /\ q \in Request /\ PlaceOK(q, now) /\ LocalsOK(q, now, known)
  BY Running DEF GetEpochBoundaries, At
<1>2. /\ known \in Nat /\ now \in Nat /\ CurrentEpoch \in Nat
      /\ k \in Nat /\ k > 0 /\ known <= k /\ k <= CurrentEpoch /\ now <= EndTime(k)
  BY CallFacts DEF IInv, ClockOK
<1>3. known' = k /\ now' = now /\ store' = store
  BY DEF GetEpochBoundaries
<1>4. request' = [request EXCEPT ![r] = s]
  BY DEF GetEpochBoundaries
<1> HIDE DEF k
<1>5. q.start \in Nat /\ q.start <= now /\ EndTime(k) \in Nat
  BY <1>1, <1>2, EndTimes DEF LocalsOK, Request
<1>6. EpochsOfWindow(k, q.start) \in SUBSET Nat
  BY <1>2, <1>5, WindowEpochs
<1>7. /\ s \in Request /\ s.start = q.start /\ s.asOf = k
      /\ s.epochs = EpochsOfWindow(k, q.start)
  BY <1>1, <1>2, <1>6 DEF Request, Places
<1>8. PlaceOK(s, now)
  BY <1>1 DEF PlaceOK, Request
<1> HIDE DEF s
<1>9. LocalsOK(s, now, k)
  BY <1>1, <1>2, <1>5, <1>7 DEF LocalsOK
<1>10. RequestOK(s, now, known')
  BY <1>3, <1>8, <1>9 DEF RequestOK
<1>11. ClockOK' /\ StoreOK'
  BY <1>2, <1>3 DEF IInv, ClockOK, StoreOK, CurrentEpoch
<1>12. /\ request' \in [Requests -> {Idle} \cup Request]
       /\ \A p \in Requests : RequestOK(request'[p], now', known')
  BY <1>2, <1>3, <1>4, <1>7, <1>10, OneMoves
<1>13. QED
  BY <1>11, <1>12 DEF IInv

LEMMA EpochBoundariesFailStep ==
    ASSUME IInv, NEW r \in Requests, EpochBoundariesFail(r)
    PROVE  IInv'
<1> DEFINE q == request[r]
           s == [q EXCEPT !.pc = "cache"]
<1>1. q.pc = "epochs" /\ q \in Request /\ PlaceOK(q, now)
  BY Running DEF EpochBoundariesFail, At
<1>2. s \in Request
  BY <1>1 DEF Request, Places
<1>3. PlaceOK(s, now)
  BY <1>1 DEF PlaceOK, Request
<1>4. s.start = q.start /\ s.asOf = q.asOf /\ s.epochs = q.epochs
  BY <1>1 DEF Request
<1>5. request' = [request EXCEPT ![r] = s]
  BY DEF EpochBoundariesFail, Goto
<1> HIDE DEF s
<1>6. QED
  BY <1>1, <1>2, <1>3, <1>4, <1>5, GoesOn DEF EpochBoundariesFail

(* A hit: the list is good, since it has not expired when the request      *)
(* started.                                                                *)
LEMMA CacheHitStep ==
    ASSUME IInv, NEW r \in Requests, CacheHit(r)
    PROVE  IInv'
<1>1. PICK i \in IndexOf(request[r].wallet) :
          /\ request[r].start <= store[i].expiresAt
          /\ store' = <<store[i]>> \o Without(request[r].wallet)
          /\ request' = [request EXCEPT ![r].pc = "render", ![r].rows = store[i].rows,
                             ![r].hit = TRUE, ![r].clean = store[i].clean]
  BY DEF CacheHit
<1> DEFINE q == request[r]
           entry == store[i]
           s == [q EXCEPT !.pc = "render", !.rows = entry.rows, !.hit = TRUE,
                          !.clean = entry.clean]
<1>2. q.pc = "cache" /\ q \in Request /\ LocalsOK(q, now, known)
  BY Running DEF CacheHit, At
<1>3. /\ now \in Nat /\ known \in Nat /\ now' = now /\ known' = known
      /\ known' \in Nat /\ known <= known'
  BY DEF IInv, ClockOK, CacheHit
<1>4. StoreOK'
  BY <1>1, <1>3, HitKeepsStore DEF IInv
<1>5. /\ entry.rows \in SUBSET Nat /\ entry.clean \in BOOLEAN /\ entry.expiresAt \in Nat
      /\ ListOK(entry.rows, entry.clean, now, entry.expiresAt)
  <2>1. entry \in Entry
    BY DEF IInv, StoreOK, IndexOf
  <2>2. entry.rows \in SUBSET Nat /\ entry.clean \in BOOLEAN /\ entry.expiresAt \in Nat
    BY <2>1 DEF Entry
  <2>3. ListOK(entry.rows, entry.clean, now, entry.expiresAt)
    BY DEF IInv, StoreOK, IndexOf
  <2>4. QED
    BY <2>2, <2>3
<1>6. request' = [request EXCEPT ![r] = s] /\ q.start <= entry.expiresAt
  BY <1>1
<1> HIDE DEF entry
<1>7. /\ s \in Request /\ s.pc = "render" /\ s.rows = entry.rows /\ s.clean = entry.clean
      /\ s.start = q.start /\ s.asOf = q.asOf /\ s.epochs = q.epochs /\ q.start \in Nat
  BY <1>2, <1>5 DEF Request, Places
<1> HIDE DEF s
<1>8. ListOK(s.rows, s.clean, now, s.start)
  BY <1>3, <1>5, <1>6, <1>7, ListStays
<1>9. PlaceOK(s, now)
  BY <1>7, <1>8 DEF PlaceOK
<1>10. RequestOK(s, now, known')
  BY <1>2, <1>3, <1>7, <1>9, LocalsStay DEF RequestOK
<1>11. ClockOK'
  BY <1>3 DEF IInv, ClockOK, CurrentEpoch
<1>12. /\ request' \in [Requests -> {Idle} \cup Request]
       /\ \A p \in Requests : RequestOK(request'[p], now', known')
  BY <1>3, <1>6, <1>7, <1>10, OneMoves
<1>13. QED
  BY <1>4, <1>11, <1>12 DEF IInv

LEMMA CacheMissStep ==
    ASSUME IInv, NEW r \in Requests, CacheMiss(r)
    PROVE  IInv'
<1> DEFINE q == request[r]
           s == [q EXCEPT !.pc = "collect"]
<1>1. q.pc = "cache" /\ q \in Request /\ PlaceOK(q, now) /\ LocalsOK(q, now, known)
  BY Running DEF CacheMiss, At
<1>2. /\ now \in Nat /\ known \in Nat /\ now' = now /\ known' = known
      /\ known' \in Nat /\ known <= known'
  BY DEF IInv, ClockOK, CacheMiss
<1>3. StoreOK'
  BY <1>2, MissKeepsStore DEF IInv, CacheMiss
<1>4. request' = [request EXCEPT ![r] = s]
  BY DEF CacheMiss, Goto
<1>5. s \in Request /\ s.start = q.start /\ s.asOf = q.asOf /\ s.epochs = q.epochs
  BY <1>1 DEF Request, Places
<1>6. PlaceOK(s, now)
  BY <1>1 DEF PlaceOK, Request
<1> HIDE DEF s
<1>7. RequestOK(s, now, known')
  BY <1>1, <1>2, <1>5, <1>6, LocalsStay DEF RequestOK
<1>8. ClockOK'
  BY <1>2 DEF IInv, ClockOK, CurrentEpoch
<1>9. /\ request' \in [Requests -> {Idle} \cup Request]
      /\ \A p \in Requests : RequestOK(request'[p], now', known')
  BY <1>2, <1>4, <1>5, <1>7, OneMoves
<1>10. QED
  BY <1>3, <1>8, <1>9 DEF IInv

(* Nothing to collect: the empty list is the list that Finish would leave. *)
LEMMA NothingToCollectStep ==
    ASSUME IInv, NEW r \in Requests, NothingToCollect(r)
    PROVE  IInv'
<1> DEFINE q == request[r]
           s == [q EXCEPT !.pc = "expiry"]
<1>1. q.pc = "collect" /\ q \in Request /\ PlaceOK(q, now) /\ LocalsOK(q, now, known)
  BY Running DEF NothingToCollect, At
<1>2. request' = [request EXCEPT ![r] = s]
  BY DEF NothingToCollect, Goto
<1>3. /\ s \in Request /\ s.start = q.start /\ s.asOf = q.asOf /\ s.epochs = q.epochs
      /\ s.pc = "expiry" /\ s.rows = q.rows /\ s.hit = q.hit /\ s.staked = q.staked
  BY <1>1 DEF Request, Places
<1> HIDE DEF s
<1>4. q.rows = {} /\ ~q.hit
  BY <1>1 DEF PlaceOK
<1>5. ASSUME s.staked PROVE Cut(s) = {}
  <2>1. q.epochs = {} /\ q.epochs = EpochsOfWindow(q.asOf, q.start)
    BY <1>1, <1>3, <1>5 DEF NothingToCollect, LocalsOK
  <2>2. QED
    BY <2>1, <1>3 DEF Cut
<1>6. PlaceOK(s, now)
  BY <1>3, <1>4, <1>5 DEF PlaceOK
<1>7. QED
  BY <1>1, <1>2, <1>3, <1>6, GoesOn DEF NothingToCollect

LEMMA CollectStep ==
    ASSUME IInv, NEW r \in Requests, Collect(r)
    PROVE  IInv'
<1> DEFINE q == request[r]
           s == [q EXCEPT !.pc = "rewards", !.todo = q.epochs]
<1>1. q.pc = "collect" /\ q \in Request /\ PlaceOK(q, now) /\ LocalsOK(q, now, known)
  BY Running DEF Collect, At
<1>2. request' = [request EXCEPT ![r] = s]
  BY DEF Collect
<1>3. /\ s \in Request /\ s.start = q.start /\ s.asOf = q.asOf /\ s.epochs = q.epochs
      /\ s.pc = "rewards" /\ s.rows = q.rows /\ s.hit = q.hit /\ s.staked = q.staked
      /\ s.todo = q.epochs
  BY <1>1 DEF Request, Places
<1> HIDE DEF s
<1>4. q.asOf > 0
  <2>1. q.asOf \in Nat /\ q.epochs = EpochsOfWindow(q.asOf, q.start) /\ q.epochs # {}
    BY <1>1 DEF Collect, LocalsOK, Request
  <2>2. QED
    BY <2>1 DEF EpochsOfWindow
<1>5. q.rows = {} /\ ~q.hit /\ q.staked
  BY <1>1 DEF PlaceOK, Collect
<1>6. PlaceOK(s, now)
  BY <1>3, <1>4, <1>5 DEF PlaceOK
<1>7. QED
  BY <1>1, <1>2, <1>3, <1>6, GoesOn DEF Collect

(* The newest epoch left is read: it moves from todo to the rows.          *)
LEMMA GetInflationRewardStep ==
    ASSUME IInv, NEW r \in Requests, GetInflationReward(r)
    PROVE  IInv'
<1> DEFINE q == request[r]
           e == NextEpoch(r)
           s == [q EXCEPT !.rows = q.rows \cup {e}, !.todo = q.todo \ {e}]
<1>1. q.pc = "rewards" /\ q \in Request /\ PlaceOK(q, now) /\ LocalsOK(q, now, known)
  BY Running DEF GetInflationReward, At
<1>2. e \in q.todo
  <2>1. q.todo \subseteq EpochsOfWindow(q.asOf, q.start) /\ q.asOf \in Nat /\ q.asOf > 0
    BY <1>1 DEF PlaceOK, LocalsOK, Request
  <2>2. q.todo \subseteq 0..(q.asOf - 1) /\ q.todo # {} /\ q.asOf - 1 \in Nat
    BY <2>1 DEF EpochsOfWindow, GetInflationReward
  <2>3. \E x \in q.todo : \A y \in q.todo : y <= x
    BY <2>2, HasNewest
  <2>4. QED
    BY <2>3 DEF NextEpoch
<1>3. request' = [request EXCEPT ![r] = s]
  BY DEF GetInflationReward
<1> HIDE DEF e
<1>4. /\ s \in Request /\ s.start = q.start /\ s.asOf = q.asOf /\ s.epochs = q.epochs
      /\ s.pc = "rewards" /\ s.hit = q.hit /\ s.staked = q.staked
      /\ s.rows = q.rows \cup {e} /\ s.todo = q.todo \ {e}
  BY <1>1, <1>2 DEF Request
<1> HIDE DEF s
<1>5. /\ q.staked /\ q.asOf > 0 /\ q.todo \subseteq q.epochs /\ q.rows \cup q.todo = q.epochs
      /\ ~q.hit
  BY <1>1 DEF PlaceOK
<1>6. s.todo \subseteq s.epochs /\ s.rows \cup s.todo = s.epochs
  BY <1>2, <1>4, <1>5
<1>7. PlaceOK(s, now)
  BY <1>4, <1>5, <1>6 DEF PlaceOK
<1>8. QED
  BY <1>1, <1>3, <1>4, <1>7, GoesOn DEF GetInflationReward

LEMMA FinishStep ==
    ASSUME IInv, NEW r \in Requests, Finish(r)
    PROVE  IInv'
<1> DEFINE q == request[r]
           left == {e \in q.rows : /\ EndTime(e) >= WindowStart(q.start)
                                   /\ EndTime(e) < WindowEnd(q.start)}
           s == [q EXCEPT !.pc = "expiry", !.rows = left]
<1>1. q.pc = "rewards" /\ q \in Request /\ PlaceOK(q, now) /\ LocalsOK(q, now, known)
  BY Running DEF Finish, At
<1>2. request' = [request EXCEPT ![r] = s]
  BY DEF Finish
<1>3. /\ q.rows = q.epochs /\ q.staked /\ q.asOf > 0 /\ ~q.hit
      /\ q.epochs = EpochsOfWindow(q.asOf, q.start)
  BY <1>1 DEF Finish, PlaceOK, LocalsOK
<1>4. left = Cut(q) /\ left \in SUBSET Nat
  <2>1. \A e \in q.rows : EndTime(e) >= WindowStart(q.start)
    BY <1>3 DEF EpochsOfWindow
  <2>2. q.rows \in SUBSET Nat
    BY <1>1 DEF Request
  <2>3. QED
    BY <2>1, <2>2, <1>3 DEF Cut
<1> HIDE DEF left
<1>5. /\ s \in Request /\ s.start = q.start /\ s.asOf = q.asOf /\ s.epochs = q.epochs
      /\ s.pc = "expiry" /\ s.rows = left /\ s.hit = q.hit /\ s.staked = q.staked
  BY <1>1, <1>4 DEF Request, Places
<1> HIDE DEF s
<1>6. Cut(s) = Cut(q)
  BY <1>5 DEF Cut
<1>7. PlaceOK(s, now)
  BY <1>3, <1>4, <1>5, <1>6 DEF PlaceOK
<1>8. QED
  BY <1>1, <1>2, <1>5, <1>7, GoesOn DEF Finish

LEMMA CollectFailsStep ==
    ASSUME IInv, NEW r \in Requests, CollectFails(r)
    PROVE  IInv'
<1> DEFINE q == request[r]
           s == [q EXCEPT !.pc = "render", !.rows = {}, !.todo = {}]
<1>1. q.pc = "rewards" /\ q \in Request /\ PlaceOK(q, now)
  BY Running DEF CollectFails, At
<1>2. request' = [request EXCEPT ![r] = s]
  BY DEF CollectFails
<1>3. /\ s \in Request /\ s.start = q.start /\ s.asOf = q.asOf /\ s.epochs = q.epochs
      /\ s.pc = "render" /\ s.hit = q.hit
  BY <1>1 DEF Request, Places
<1> HIDE DEF s
<1>4. PlaceOK(s, now)
  BY <1>1, <1>3 DEF PlaceOK
<1>5. QED
  BY <1>1, <1>2, <1>3, <1>4, GoesOn DEF CollectFails

(* The list is good until the end of the epoch read for it.                *)
LEMMA GetCurrentEpochEndStep ==
    ASSUME IInv, NEW r \in Requests, GetCurrentEpochEnd(r)
    PROVE  IInv'
<1> DEFINE k == KnownAfterCall
           q == request[r]
           clean == /\ q.staked
                    /\ q.asOf = q.start \div EpochTicks
                    /\ q.asOf = k
           place == IF EndTime(k) > q.start THEN "add" ELSE "render"
           s == [q EXCEPT !.pc = place, !.expiry = EndTime(k), !.clean = clean]
<1>1. q.pc = "expiry" /\ q \in Request /\ PlaceOK(q, now) /\ LocalsOK(q, now, known)
  BY Running DEF GetCurrentEpochEnd, At
<1>2. /\ known \in Nat /\ now \in Nat /\ CurrentEpoch \in Nat
      /\ k \in Nat /\ k > 0 /\ known <= k /\ k <= CurrentEpoch
  BY CallFacts DEF IInv, ClockOK
<1>3. known' = k /\ now' = now /\ store' = store
  BY DEF GetCurrentEpochEnd
<1>4. request' = [request EXCEPT ![r] = s]
  BY DEF GetCurrentEpochEnd
<1>5. EndTime(k) \in Nat
  BY <1>2, EndTimes
<1>6. ListOK(q.rows, clean, q.start, EndTime(k))
  <2>1. ~q.hit /\ q.rows = IF q.staked /\ q.asOf > 0 THEN Cut(q) ELSE {}
    BY <1>1 DEF PlaceOK
  <2>2. CASE q.staked /\ q.asOf > 0
    <3>1. /\ NoGap(Cut(q), q.start)
          /\ AllButLast(Cut(q), q.start, EndTime(k))
          /\ q.asOf = q.start \div EpochTicks /\ q.asOf = k
             => All(Cut(q), q.start, EndTime(k))
      BY <1>1, <2>2, CollectedListOK DEF IInv
    <3>2. QED
      BY <2>1, <2>2, <3>1 DEF ListOK
  <2>3. CASE ~(q.staked /\ q.asOf > 0)
    <3>1. q.rows = {} /\ ~clean
      BY <2>1, <2>3, <1>2
    <3>2. QED
      BY <3>1 DEF ListOK, NoGap, AllButLast
  <2>4. QED
    BY <2>2, <2>3
<1>7. clean \in BOOLEAN /\ place \in {"add", "render"}
  OBVIOUS
<1> HIDE DEF k, clean, place
<1>8. /\ s \in Request /\ s.start = q.start /\ s.asOf = q.asOf /\ s.epochs = q.epochs
      /\ s.pc = place /\ s.hit = q.hit /\ s.rows = q.rows
      /\ s.clean = clean /\ s.expiry = EndTime(k)
  BY <1>1, <1>5, <1>7 DEF Request, Places
<1> HIDE DEF s
<1>9. PlaceOK(s, now)
  <2>1. ~q.hit
    BY <1>1 DEF PlaceOK
  <2>2. QED
    BY <2>1, <1>6, <1>7, <1>8 DEF PlaceOK
<1>10. LocalsOK(s, now, k)
  BY <1>1, <1>2, <1>8, LocalsStay
<1>11. RequestOK(s, now, known')
  BY <1>3, <1>9, <1>10 DEF RequestOK
<1>12. ClockOK' /\ StoreOK'
  BY <1>2, <1>3 DEF IInv, ClockOK, StoreOK, CurrentEpoch
<1>13. /\ request' \in [Requests -> {Idle} \cup Request]
       /\ \A p \in Requests : RequestOK(request'[p], now', known')
  BY <1>2, <1>3, <1>4, <1>8, <1>11, OneMoves
<1>14. QED
  BY <1>12, <1>13 DEF IInv

LEMMA EpochEndFailsStep ==
    ASSUME IInv, NEW r \in Requests, EpochEndFails(r)
    PROVE  IInv'
<1> DEFINE q == request[r]
           s == [q EXCEPT !.pc = "render"]
<1>1. q.pc = "expiry" /\ q \in Request /\ PlaceOK(q, now)
  BY Running DEF EpochEndFails, At
<1>2. request' = [request EXCEPT ![r] = s]
  BY DEF EpochEndFails, Goto
<1>3. /\ s \in Request /\ s.start = q.start /\ s.asOf = q.asOf /\ s.epochs = q.epochs
      /\ s.pc = "render" /\ s.hit = q.hit
  BY <1>1 DEF Request, Places
<1> HIDE DEF s
<1>4. PlaceOK(s, now)
  BY <1>1, <1>3 DEF PlaceOK
<1>5. QED
  BY <1>1, <1>2, <1>3, <1>4, GoesOn DEF EpochEndFails

LEMMA AddStep ==
    ASSUME IInv, NEW r \in Requests, Add(r)
    PROVE  IInv'
<1> DEFINE q == request[r]
           entry == [wallet |-> q.wallet, rows |-> q.rows,
                     expiresAt |-> q.expiry, clean |-> q.clean]
           s == [q EXCEPT !.pc = "render"]
<1>1. q.pc = "add" /\ q \in Request /\ PlaceOK(q, now) /\ LocalsOK(q, now, known)
  BY Running DEF Add, At
<1>2. /\ now \in Nat /\ known \in Nat /\ now' = now /\ known' = known
      /\ known' \in Nat /\ known <= known'
  BY DEF IInv, ClockOK, Add
<1>3. request' = [request EXCEPT ![r] = s]
  BY DEF Add, Goto
<1>4. /\ entry \in Entry /\ entry.wallet = q.wallet /\ entry.rows = q.rows
      /\ entry.clean = q.clean /\ entry.expiresAt = q.expiry
      /\ q.rows \in SUBSET Nat /\ q.clean \in BOOLEAN /\ q.expiry \in Nat
      /\ q.start \in Nat /\ q.start <= now
  BY <1>1 DEF Entry, Request, LocalsOK
<1>5. store' = Newest(Capacity, <<entry>> \o Without(q.wallet))
  BY DEF Add
<1> HIDE DEF entry
<1>6. ListOK(q.rows, q.clean, now, q.expiry)
  <2>1. ListOK(q.rows, q.clean, q.start, q.expiry)
    BY <1>1 DEF PlaceOK
  <2>2. QED
    BY <2>1, <1>2, <1>4, ListStays
<1>7. StoreOK'
  BY <1>2, <1>4, <1>5, <1>6, AddKeepsStore DEF IInv
<1>8. /\ s \in Request /\ s.start = q.start /\ s.asOf = q.asOf /\ s.epochs = q.epochs
      /\ s.pc = "render" /\ s.hit = q.hit
  BY <1>1 DEF Request, Places
<1> HIDE DEF s
<1>9. PlaceOK(s, now)
  BY <1>1, <1>8 DEF PlaceOK
<1>10. RequestOK(s, now, known')
  BY <1>1, <1>2, <1>8, <1>9, LocalsStay DEF RequestOK
<1>11. ClockOK'
  BY <1>2 DEF IInv, ClockOK, CurrentEpoch
<1>12. /\ request' \in [Requests -> {Idle} \cup Request]
       /\ \A p \in Requests : RequestOK(request'[p], now', known')
  BY <1>2, <1>3, <1>8, <1>10, OneMoves
<1>13. QED
  BY <1>7, <1>11, <1>12 DEF IInv

----------------------------------------------------------------------------
(* The theorems.                                                           *)

LEMMA InitInv == Init => IInv
<1> SUFFICES ASSUME Init
             PROVE  IInv
  OBVIOUS
<1>2. now = StartTick /\ known = 0 /\ store = <<>> /\ request = [r \in Requests |-> Idle]
  BY DEF Init
<1>3. ClockOK
  <2>1. now \in Nat
    BY <1>2, Constants
  <2>2. CurrentEpoch \in Nat
    BY <2>1, TickInEpoch DEF CurrentEpoch
  <2>3. QED
    BY <1>2, <2>1, <2>2 DEF ClockOK
<1>4. StoreOK
  BY <1>2, Constants DEF StoreOK
<1>5. QED
  BY <1>2, <1>3, <1>4 DEF IInv, RequestOK

(* Every step keeps the inductive invariant.                               *)
LEMMA StepInv == IInv /\ [Next]_vars => IInv'
<1> SUFFICES ASSUME IInv, [Next]_vars
             PROVE  IInv'
  OBVIOUS
<1>2. CASE Advance
  BY <1>2, AdvanceStep
<1>3. ASSUME NEW r \in Requests, Arrive(r)
      PROVE  IInv'
  BY <1>3, ArriveStep
<1>4. ASSUME NEW r \in Requests, Serve(r)
      PROVE  IInv'
  <2>1. CASE GetBalance(r)
    BY <2>1, GetBalanceStep
  <2>2. CASE ListStakeAccounts(r)
    BY <2>2, ListStakeAccountsStep
  <2>3. CASE GetEpochBoundaries(r)
    BY <2>3, GetEpochBoundariesStep
  <2>4. CASE EpochBoundariesFail(r)
    BY <2>4, EpochBoundariesFailStep
  <2>5. CASE CacheHit(r)
    BY <2>5, CacheHitStep
  <2>6. CASE CacheMiss(r)
    BY <2>6, CacheMissStep
  <2>7. CASE NothingToCollect(r)
    BY <2>7, NothingToCollectStep
  <2>8. CASE Collect(r)
    BY <2>8, CollectStep
  <2>9. CASE GetInflationReward(r)
    BY <2>9, GetInflationRewardStep
  <2>10. CASE Finish(r)
    BY <2>10, FinishStep
  <2>11. CASE CollectFails(r)
    BY <2>11, CollectFailsStep
  <2>12. CASE GetCurrentEpochEnd(r)
    BY <2>12, GetCurrentEpochEndStep
  <2>13. CASE EpochEndFails(r)
    BY <2>13, EpochEndFailsStep
  <2>14. CASE Add(r)
    BY <2>14, AddStep
  <2>15. CASE Render(r)
    BY <2>15, EndStep DEF Render
  <2>16. QED
    BY <1>4, <2>1, <2>2, <2>3, <2>4, <2>5, <2>6, <2>7, <2>8, <2>9, <2>10, <2>11,
       <2>12, <2>13, <2>14, <2>15 DEF Serve
<1>5. CASE UNCHANGED vars
  BY <1>5 DEF vars, IInv, ClockOK, StoreOK, CurrentEpoch
<1>6. QED
  BY <1>2, <1>3, <1>4, <1>5 DEF Next

LEMMA Invariance == Spec => []IInv
  BY InitInv, StepInv, PTL DEF Spec

(* The values of the variables: in the wallet cache, one entry a wallet    *)
(* and no more than the capacity, whatever requests add and remove.        *)
THEOREM TypeCorrect == Spec => []TypeOK
<1>1. ASSUME IInv
      PROVE  TypeOK
  <2>1. \A i \in DOMAIN store : store[i] \in Entry
    BY <1>1 DEF IInv, StoreOK
  <2>2. \A r \in Requests :
            request[r] = Idle \/ /\ request[r].pc \in Places
                                 /\ request[r].wallet \in Wallets
                                 /\ request[r].rows \subseteq Nat
    BY <1>1 DEF IInv, Request
  <2>3. QED
    BY <1>1, <2>1, <2>2 DEF IInv, StoreOK, ClockOK, TypeOK
<1>2. QED
  BY <1>1, Invariance, PTL

(* walletSummaryCache never holds a list with a gap: a reward call that    *)
(* fails half way leaves nothing behind, and neither does a window that    *)
(* moves while the rewards are collected.                                  *)
THEOREM NoPartialLists == Spec => []NoPartialEntry
<1>1. ASSUME IInv
      PROVE  NoPartialEntry
  <2>1. \A i \in DOMAIN store : NoGap(store[i].rows, now)
    BY <1>1 DEF IInv, StoreOK, ListOK
  <2>2. QED
    BY <2>1 DEF NoGap, NoPartialEntry
<1>2. QED
  BY <1>1, Invariance, PTL

(* What a request at "render" was served from the cache.                   *)
LEMMA Served ==
    ASSUME IInv, NEW r \in Requests, At(r, "render"), request[r].hit
    PROVE  /\ ListOK(request[r].rows, request[r].clean, now, request[r].start)
           /\ \A e \in 0..CurrentEpoch : e \in Nat
<1>1. PlaceOK(request[r], now)
  BY Running DEF At
<1>2. CurrentEpoch \in Nat
  BY CallFacts DEF IInv
<1>3. QED
  BY <1>1, <1>2 DEF PlaceOK, At

(* handleWallet answers from the cache with a list that was collected      *)
(* without a failure or the end of an epoch: no epoch of the window that   *)
(* ended before the request is missing.                                    *)
THEOREM CleanHitsComplete == Spec => []CleanHitIsComplete
<1>1. ASSUME IInv
      PROVE  CleanHitIsComplete
  BY <1>1, Served DEF CleanHitIsComplete, ListOK, All
<1>2. QED
  BY <1>1, Invariance, PTL

(* And with any list that has rewards: all but the last epoch that ended.  *)
THEOREM HitsOneBehind == Spec => []AtMostOneEpochBehind
<1>1. ASSUME IInv
      PROVE  AtMostOneEpochBehind
  BY <1>1, Served DEF AtMostOneEpochBehind, ListOK, AllButLast
<1>2. QED
  BY <1>1, Invariance, PTL
=============================================================================
