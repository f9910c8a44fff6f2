-------------------------- MODULE EpochCacheProofs --------------------------
(* Proofs about EpochCache, for every number of callers, length of epochs, *)
(* pace of the chain, and lookbacks: what is cached is true history, the   *)
(* file is never ahead of memory, and the cache is an EpochOracle.         *)
EXTENDS EpochCache, Integers, TLAPS

----------------------------------------------------------------------------
(* Arithmetic.                                                             *)

(* Division with remainder.                                                *)
LEMMA DivMod ==
    ASSUME NEW a \in Nat, NEW n \in Nat \ {0}
    PROVE  /\ a \div n \in Nat
           /\ a % n \in Nat
           /\ a % n < n
           /\ a = n * (a \div n) + (a % n)
  OBVIOUS

(* Multiples are ordered as their factors.                                 *)
LEMMA Multiples ==
    ASSUME NEW a \in Nat, NEW b \in Nat, NEW n \in Nat, a <= b
    PROVE  a * n <= b * n
<1>1. PICK d \in Nat : b = a + d
  BY b - a \in Nat
<1>2. b * n = a * n + d * n
  BY <1>1
<1>3. d * n \in Nat /\ a * n \in Nat
  OBVIOUS
<1>4. QED
  BY <1>2, <1>3

(* A later slot is in no earlier epoch.                                    *)
LEMMA DivMonotonic ==
    ASSUME NEW a \in Nat, NEW b \in Nat, NEW n \in Nat \ {0}, a <= b
    PROVE  a \div n <= b \div n
<1>1. SUFFICES ASSUME b \div n < a \div n
               PROVE  FALSE
  BY DivMod
<1>2. (b \div n + 1) * n <= (a \div n) * n
  BY <1>1, DivMod, Multiples
<1>3. QED
  BY <1>2, DivMod

(* Less than an epoch later it is the same epoch or the next.              *)
LEMMA DivStep ==
    ASSUME NEW a \in Nat, NEW k \in Nat, NEW n \in Nat \ {0}, k < n
    PROVE  (a + k) \div n <= a \div n + 1
<1> DEFINE d == a \div n
           e == (a + k) \div n
<1>1. d \in Nat /\ e \in Nat /\ a < n * d + n /\ n * e <= a + k
  BY DivMod, a + k \in Nat
<1> HIDE DEF d, e
<1>2. SUFFICES ASSUME d + 2 <= e
               PROVE  FALSE
  BY <1>1 DEF d, e
<1>3. (d + 2) * n <= e * n
  BY <1>1, <1>2, Multiples, d + 2 \in Nat
<1>4. (d + 2) * n = n * d + 2 * n /\ e * n = n * e
  BY <1>1
<1>5. n * d \in Nat /\ n * e \in Nat
  BY <1>1
<1>6. QED
  BY <1>1, <1>3, <1>4, <1>5

----------------------------------------------------------------------------
(* The chain.                                                              *)

EndSlot(e) == (e + 1) * SlotsInEpoch - 1

ChainOK ==
    /\ now \in Nat
    /\ blockTimes \in Seq(Nat)
    /\ Len(blockTimes) > 0

(* The newest slot lies SlotIndex slots into its epoch.                    *)
LEMMA ChainFacts ==
    ASSUME ChainOK
    PROVE  /\ slot \in Nat /\ Epoch \in Nat /\ SlotIndex \in Nat
           /\ slot = Epoch * SlotsInEpoch + SlotIndex
<1>1. slot \in Nat /\ SlotsInEpoch \in Nat \ {0}
  BY EpochCacheAssumption DEF ChainOK, slot
<1>2. QED
  BY <1>1, DivMod DEF Epoch, SlotIndex

(* The last slot of an epoch before the current one has been produced.     *)
LEMMA EndSlotProduced ==
    ASSUME ChainOK, NEW e \in Nat, e < Epoch
    PROVE  /\ EndSlot(e) \in Nat
           /\ EndSlot(e) + 1 \in 1..Len(blockTimes)
           /\ BlockTime(EndSlot(e)) \in Nat
<1>1. SlotsInEpoch \in Nat /\ SlotsInEpoch > 0
  BY EpochCacheAssumption
<1>2. (e + 1) * SlotsInEpoch <= Epoch * SlotsInEpoch
  BY <1>1, ChainFacts, Multiples
<1>3. 1 * SlotsInEpoch <= (e + 1) * SlotsInEpoch
  BY <1>1, Multiples
<1>4. (e + 1) * SlotsInEpoch \in Nat
  BY <1>1
<1>5. EndSlot(e) \in Nat /\ EndSlot(e) + 1 <= slot
  BY <1>1, <1>2, <1>3, <1>4, ChainFacts DEF EndSlot
<1>6. EndSlot(e) + 1 \in 1..Len(blockTimes)
  BY <1>5 DEF slot, ChainOK
<1>7. QED
  BY <1>5, <1>6 DEF BlockTime, ChainOK

(* What a step does to the chain: it may append to it.                     *)
ChainGrows ==
    /\ ChainOK'
    /\ now <= now'
    /\ Len(blockTimes) <= Len(blockTimes')
    /\ \A i \in 1..Len(blockTimes) : blockTimes'[i] = blockTimes[i]

LEMMA ChainStep ==
    ASSUME ChainOK, [Next]_vars
    PROVE  ChainGrows
<1>1. CASE Advance
  <2>1. PICK produced \in 0..MaxSlotsPerTick :
            blockTimes' = blockTimes \o [i \in 1..produced |-> now + 1]
    BY <1>1 DEF Advance
  <2>2. produced \in Nat
    BY <2>1, EpochCacheAssumption
  <2> DEFINE new == [i \in 1..produced |-> now + 1]
  <2>3. new \in Seq(Nat) /\ Len(new) = produced
    BY <2>2 DEF ChainOK
  <2>4. blockTimes' \in Seq(Nat) /\ Len(blockTimes') = Len(blockTimes) + produced
    BY <2>1, <2>3 DEF ChainOK
  <2>5. \A i \in 1..Len(blockTimes) : blockTimes'[i] = blockTimes[i]
    BY <2>1, <2>3 DEF ChainOK
  <2>6. QED
    BY <1>1, <2>2, <2>4, <2>5 DEF Advance, ChainGrows, ChainOK
<1>2. CASE UNCHANGED chain
  BY <1>2 DEF ChainGrows, ChainOK, chain
<1>3. [Next]_vars => Advance \/ UNCHANGED chain
  BY DEF Next, Work, Call, Lock, Hit, Miss, ReadInfo, ReadBlockTime, Fail, Store,
         Persist, Unlock, Leave, Restart, vars
<1>4. QED
  BY <1>1, <1>2, <1>3

(* Epochs and the times of their ends stay as they are.                    *)
LEMMA HistoryStays ==
    ASSUME ChainOK, ChainGrows
    PROVE  /\ Epoch \in Nat /\ Epoch' \in Nat /\ Epoch <= Epoch'
           /\ \A e \in Nat : e < Epoch =>
                 blockTimes'[EndSlot(e) + 1] = blockTimes[EndSlot(e) + 1]
<1>1. Epoch \in Nat /\ Epoch' \in Nat /\ Epoch <= Epoch'
  <2>1. slot \in Nat /\ slot' \in Nat /\ slot <= slot'
    BY DEF ChainGrows, ChainOK, slot
  <2>2. QED
    BY <2>1, DivMod, DivMonotonic, EpochCacheAssumption DEF Epoch
<1>2. QED
  BY <1>1, EndSlotProduced DEF ChainGrows

----------------------------------------------------------------------------
(* The inductive invariant.                                                *)

(* What a cache knows is of an epoch that has begun.                       *)
Sound(c) ==
    /\ c \in Snapshot
    /\ c.asOf <= Epoch
    /\ Len(c.boundaries) <= c.asOf
    /\ IsHistory(c)

(* The mutex is held by the caller that is between Lock and Unlock.        *)
MutexHeld ==
    \A p \in Callers :
        pc[p] \in {"check", "info", "blocks", "store", "persist", "unlock"} => mu = p

(* The epoch info of a refresh is no newer than the chain and no older     *)
(* than the cache.                                                         *)
InfoTrue(p) ==
    /\ info[p].epoch > 0 /\ info[p].epoch <= Epoch
    /\ info[p].absoluteSlot = info[p].epoch * SlotsInEpoch + info[p].slotIndex
    /\ info[p].at <= now
    /\ cache.asOf <= info[p].epoch

(* The epochs found so far are those below the info's, newest first.       *)
FoundTrue(p) ==
    /\ Len(found[p]) <= info[p].epoch
    /\ \A i \in DOMAIN found[p] :
          found[p][i] = [epoch |-> info[p].epoch - i, endSlot |-> EndSlot(info[p].epoch - i),
                         endTime |-> BlockTime(EndSlot(info[p].epoch - i))]

RefreshOK(p) ==
    /\ pc[p] \in {"idle", "lock", "check", "info", "done"} => found[p] = <<>>
    /\ pc[p] \in {"blocks", "store"} => InfoTrue(p) /\ FoundTrue(p)
    /\ pc[p] = "blocks" => Len(found[p]) < info[p].epoch
    /\ pc[p] = "store" => Len(found[p]) > 0

IInv ==
    /\ TypeOK
    /\ ChainOK
    /\ Sound(cache) /\ Sound(disk)
    /\ disk.asOf <= cache.asOf
    /\ MutexHeld
    /\ \A p \in Callers : RefreshOK(p)

(* The invariant holds before the first call.                              *)
LEMMA InitHolds == Init => IInv
<1> SUFFICES ASSUME Init
             PROVE  IInv
  OBVIOUS
<1>1. ChainOK
  <2>1. StartSlot + 1 \in Nat /\ StartSlot \in Nat
    BY EpochCacheAssumption
  <2>2. [i \in 1..(StartSlot + 1) |-> i - 1] \in Seq(Nat)
    BY <2>1
  <2>3. Len([i \in 1..(StartSlot + 1) |-> i - 1]) = StartSlot + 1
    BY <2>1
  <2>4. QED
    BY <2>1, <2>2, <2>3 DEF Init, ChainOK
<1>2. Sound(NoCache)
  BY <1>1, ChainFacts DEF NoCache, Sound, Snapshot, IsHistory
<1>3. TypeOK
  BY <1>1, <1>2 DEF Init, TypeOK, ChainOK, Sound, NoInfo, NoFile, Places
<1>4. MutexHeld /\ \A p \in Callers : RefreshOK(p)
  BY DEF Init, MutexHeld, RefreshOK
<1>5. disk.asOf <= cache.asOf /\ Sound(cache) /\ Sound(disk)
  BY <1>2 DEF Init, NoFile, NoCache
<1>6. QED
  BY <1>1, <1>3, <1>4, <1>5 DEF IInv

(* The caches stay sound while the chain grows.                            *)
LEMMA SoundStays ==
    ASSUME ChainOK, ChainGrows, Sound(cache), Sound(disk),
           cache' \in {cache, disk}, disk' \in {cache, disk}
    PROVE  Sound(cache)' /\ Sound(disk)'
<1> DEFINE Ends(c) == \A i \in DOMAIN c.boundaries :
                         /\ c.boundaries[i].epoch \in Nat
                         /\ c.boundaries[i].epoch < Epoch
                         /\ c.boundaries[i].endSlot = EndSlot(c.boundaries[i].epoch)
           Times(c) == \A i \in DOMAIN c.boundaries :
                          c.boundaries[i].endTime = blockTimes'[c.boundaries[i].endSlot + 1]
<1>1. ASSUME NEW c \in {cache, disk}
      PROVE  Ends(c)
  <2>1. Sound(c) /\ c.asOf \in Nat /\ c.boundaries \in Seq(Boundary)
    BY <1>1 DEF Sound, Snapshot
  <2>2. ASSUME NEW i \in DOMAIN c.boundaries
        PROVE  /\ c.boundaries[i].epoch = c.asOf - i
               /\ i \in Nat /\ i >= 1 /\ i <= c.asOf
    BY <2>1, <2>2 DEF Sound, IsHistory
  <2>3. QED
    BY <2>1, <2>2, ChainFacts DEF Sound, IsHistory, EndSlot
<1>2. ASSUME NEW c \in {cache, disk}
      PROVE  Times(c)
  BY <1>1, <1>2, HistoryStays DEF Sound, IsHistory, BlockTime
<1>3. ASSUME NEW c \in {cache, disk}
      PROVE  c.asOf <= Epoch'
  BY <1>3, HistoryStays DEF Sound, Snapshot
<1>4. Sound(cache)'
  BY <1>2, <1>3 DEF Sound, IsHistory, BlockTime
<1>5. Sound(disk)'
  BY <1>2, <1>3 DEF Sound, IsHistory, BlockTime
<1>6. QED
  BY <1>4, <1>5

(* What a refresh has read stays true while the chain grows.               *)
LEMMA RefreshStays ==
    ASSUME IInv, ChainGrows, NEW p \in Callers,
           info'[p] = info[p], found'[p] = found[p], cache' = cache, pc'[p] = pc[p]
    PROVE  RefreshOK(p)'
<1>1. ChainOK /\ RefreshOK(p) /\ info[p].epoch \in Nat /\ found[p] \in Seq(Boundary)
  BY DEF IInv, TypeOK
<1>2. FoundTrue(p) /\ InfoTrue(p) => FoundTrue(p)'
  <2>1. SUFFICES ASSUME FoundTrue(p), InfoTrue(p), NEW i \in DOMAIN found[p]
                 PROVE  BlockTime(EndSlot(info[p].epoch - i))'
                          = BlockTime(EndSlot(info[p].epoch - i))
    BY DEF FoundTrue, EndSlot
  <2>2. info[p].epoch - i \in Nat /\ info[p].epoch - i < Epoch
    BY <1>1, <2>1, ChainFacts DEF FoundTrue, InfoTrue
  <2>3. QED
    BY <1>1, <2>2, HistoryStays DEF BlockTime, EndSlot
<1>3. InfoTrue(p) => InfoTrue(p)'
  <2>1. info[p].at <= now => info[p].at <= now'
    BY DEF ChainGrows, ChainOK, IInv, TypeOK
  <2>2. info[p].epoch <= Epoch => info[p].epoch <= Epoch'
    BY <1>1, HistoryStays
  <2>3. QED
    BY <2>1, <2>2 DEF InfoTrue
<1>4. QED
  BY <1>1, <1>2, <1>3 DEF RefreshOK

(* A step of one caller that leaves the caches alone.                      *)
LEMMA CallerStep ==
    ASSUME IInv, ChainGrows, NEW p \in Callers, cache' = cache, disk' = disk,
           TypeOK', MutexHeld', RefreshOK(p)',
           \A q \in Callers \ {p} :
              pc'[q] = pc[q] /\ info'[q] = info[q] /\ found'[q] = found[q]
    PROVE  IInv'
<1>1. \A q \in Callers : RefreshOK(q)'
  BY RefreshStays DEF IInv
<1>2. Sound(cache)' /\ Sound(disk)'
  BY SoundStays DEF IInv
<1>3. QED
  BY <1>1, <1>2 DEF IInv, ChainGrows

(* The steps outside a refresh.                                            *)
LEMMA QuietSteps ==
    ASSUME IInv, ChainGrows, NEW p \in Callers,
           Call(p) \/ Lock(p) \/ Hit(p) \/ Miss(p) \/ Fail(p) \/ Unlock(p) \/ Leave(p)
    PROVE  IInv'
<1>1. TypeOK /\ MutexHeld /\ RefreshOK(p) /\ EpochCacheAssumption /\ ChainOK'
  BY EpochCacheAssumption DEF IInv, ChainGrows
<1>2. TypeOK'
  <2>1. \A w \in Nat : Back(w) \in Nat
    BY <1>1 DEF Back, TypeOK
  <2>2. CASE Call(p)
    <3>1. Windows \subseteq Nat
      BY <1>1 DEF EpochCacheAssumption
    <3>2. min' \in [Callers -> Nat] /\ op' \in [Callers -> {"none", "boundaries", "end"}]
      <4>1. CASE op' = [op EXCEPT ![p] = "end"] /\ UNCHANGED min
        BY <1>1, <4>1 DEF TypeOK
      <4>2. CASE \E w \in Windows : /\ op' = [op EXCEPT ![p] = "boundaries"]
                                    /\ min' = [min EXCEPT ![p] = Back(w)]
        <5>1. PICK w \in Windows : /\ op' = [op EXCEPT ![p] = "boundaries"]
                                   /\ min' = [min EXCEPT ![p] = Back(w)]
          BY <4>2
        <5>2. Back(w) \in Nat
          BY <2>1, <3>1
        <5>3. QED
          BY <1>1, <5>1, <5>2 DEF TypeOK
      <4>3. QED
        BY <2>2, <4>1, <4>2 DEF Call
    <3>3. QED
      BY <1>1, <2>2, <3>2 DEF Call, TypeOK, chain, Places
  <2>3. CASE Lock(p)
    BY <1>1, <2>3 DEF Lock, TypeOK, chain, locals, Places
  <2>4. CASE Hit(p)
    BY <1>1, <2>4 DEF Hit, TypeOK, chain, Places
  <2>5. CASE Miss(p)
    <3>1. min' \in [Callers -> Nat]
      BY <1>1, <2>1, <2>5 DEF Miss, TypeOK, EpochCacheAssumption
    <3>2. QED
      BY <1>1, <2>5, <3>1 DEF Miss, TypeOK, chain, Places
  <2>6. CASE Fail(p)
    BY <1>1, <2>6 DEF Fail, TypeOK, chain, Places
  <2>7. CASE Unlock(p)
    BY <1>1, <2>7 DEF Unlock, TypeOK, chain, Places, NoInfo
  <2>8. CASE Leave(p)
    BY <1>1, <2>8 DEF Leave, TypeOK, chain, Places
  <2>9. QED
    BY <2>2, <2>3, <2>4, <2>5, <2>6, <2>7, <2>8
<1>3. MutexHeld'
  <2>1. CASE Call(p)
    BY <1>1, <2>1 DEF Call, TypeOK, MutexHeld, EpochCacheAssumption
  <2>2. CASE Lock(p)
    BY <1>1, <2>2 DEF Lock, TypeOK, MutexHeld, EpochCacheAssumption
  <2>3. CASE Hit(p)
    BY <1>1, <2>3 DEF Hit, TypeOK, MutexHeld, EpochCacheAssumption
  <2>4. CASE Miss(p)
    BY <1>1, <2>4 DEF Miss, TypeOK, MutexHeld, EpochCacheAssumption
  <2>5. CASE Fail(p)
    BY <1>1, <2>5 DEF Fail, TypeOK, MutexHeld, EpochCacheAssumption
  <2>6. CASE Unlock(p)
    BY <1>1, <2>6 DEF Unlock, TypeOK, MutexHeld, EpochCacheAssumption
  <2>7. CASE Leave(p)
    BY <1>1, <2>7 DEF Leave, TypeOK, MutexHeld, EpochCacheAssumption
  <2>8. QED
    BY <2>1, <2>2, <2>3, <2>4, <2>5, <2>6, <2>7
<1>4. RefreshOK(p)'
  <2>1. CASE Call(p)
    BY <1>1, <2>1 DEF Call, TypeOK, RefreshOK
  <2>2. CASE Lock(p)
    BY <1>1, <2>2 DEF Lock, locals, TypeOK, RefreshOK
  <2>3. CASE Hit(p)
    BY <1>1, <2>3 DEF Hit, TypeOK, RefreshOK
  <2>4. CASE Miss(p)
    BY <1>1, <2>4 DEF Miss, TypeOK, RefreshOK
  <2>5. CASE Fail(p)
    BY <1>1, <2>5 DEF Fail, TypeOK, RefreshOK
  <2>6. CASE Unlock(p)
    BY <1>1, <2>6 DEF Unlock, TypeOK, RefreshOK
  <2>7. CASE Leave(p)
    BY <1>1, <2>7 DEF Leave, TypeOK, RefreshOK
  <2>8. QED
    BY <2>1, <2>2, <2>3, <2>4, <2>5, <2>6, <2>7
<1>5. cache' = cache /\ disk' = disk
  BY DEF Call, Lock, Hit, Miss, Fail, Unlock, Leave
<1>6. \A q \in Callers \ {p} :
         pc'[q] = pc[q] /\ info'[q] = info[q] /\ found'[q] = found[q]
  BY <1>1 DEF Call, Lock, Hit, Miss, Fail, Unlock, Leave, locals, TypeOK
<1>7. QED
  BY <1>2, <1>3, <1>4, <1>5, <1>6, CallerStep

(* The epoch info of a refresh is true, and at least as new as the cache.  *)
LEMMA ReadInfoStep ==
    ASSUME IInv, ChainGrows, NEW p \in Callers, ReadInfo(p)
    PROVE  IInv'
<1>1. TypeOK /\ MutexHeld /\ RefreshOK(p) /\ ChainOK /\ cache.asOf <= Epoch
  BY DEF IInv, Sound
<1>2. TypeOK'
  BY <1>1, ChainFacts DEF ReadInfo, TypeOK, chain, Places
<1>3. MutexHeld'
  BY <1>1 DEF ReadInfo, TypeOK, MutexHeld
<1>4. found' = found /\ found[p] = <<>> /\ chain' = chain /\ cache' = cache
  BY <1>1 DEF ReadInfo, RefreshOK
<1>5. info'[p] = [epoch |-> Epoch, slotIndex |-> SlotIndex, absoluteSlot |-> slot, at |-> now]
  BY <1>1 DEF ReadInfo, TypeOK
<1>6. Epoch' = Epoch /\ now' = now
  BY <1>4 DEF chain, Epoch, slot
<1>7. InfoTrue(p)' /\ Epoch > 0
  BY <1>1, <1>4, <1>5, <1>6, ChainFacts DEF InfoTrue, ReadInfo, ChainOK
<1>8. FoundTrue(p)'
  BY <1>1, <1>4, <1>5, ChainFacts DEF FoundTrue
<1>9. pc'[p] = "blocks"
  BY <1>1 DEF ReadInfo, TypeOK
<1>10. RefreshOK(p)'
  BY <1>4, <1>5, <1>7, <1>8, <1>9 DEF RefreshOK
<1>11. QED
  BY <1>1, <1>2, <1>3, <1>10, CallerStep DEF ReadInfo, TypeOK

(* The next entry is the epoch below those found so far.                   *)
LEMMA NextBoundary ==
    ASSUME IInv, NEW p \in Callers, ReadBlockTime(p)
    PROVE  LET k == info[p].epoch - 1 - Len(found[p]) IN
           /\ k \in Nat /\ k < Epoch
           /\ NextEpoch(p) = k /\ NextSlot(p) = EndSlot(k)
           /\ BlockTime(EndSlot(k)) \in Nat
           /\ [epoch |-> k, endSlot |-> EndSlot(k), endTime |-> BlockTime(EndSlot(k))] \in Boundary
<1> DEFINE k == info[p].epoch - 1 - Len(found[p])
<1>1. TypeOK /\ ChainOK
  BY DEF IInv
<1>2. InfoTrue(p) /\ FoundTrue(p) /\ Len(found[p]) < info[p].epoch
  BY DEF IInv, RefreshOK, ReadBlockTime
<1>3. /\ info[p] \in [epoch : Nat, slotIndex : Nat, absoluteSlot : Nat, at : Nat]
      /\ found[p] \in Seq(Boundary)
  BY <1>1 DEF TypeOK
<1>4. k \in Nat /\ k < Epoch /\ NextEpoch(p) = k
  <2>1. info[p].epoch \in Nat /\ Len(found[p]) \in Nat /\ Epoch \in Nat
    BY <1>1, <1>3, ChainFacts
  <2>2. Len(found[p]) < info[p].epoch /\ info[p].epoch <= Epoch
    BY <1>2 DEF InfoTrue
  <2>3. QED
    BY <2>1, <2>2 DEF NextEpoch
<1>5. NextSlot(p) = EndSlot(k)
  <2>1. SlotsInEpoch \in Nat
    BY EpochCacheAssumption
  <2>2. (k + 1) * SlotsInEpoch
          = info[p].epoch * SlotsInEpoch - Len(found[p]) * SlotsInEpoch
    BY <1>3, <2>1
  <2>3. info[p].epoch * SlotsInEpoch \in Nat /\ Len(found[p]) * SlotsInEpoch \in Nat
    BY <1>3, <2>1
  <2>4. info[p].absoluteSlot - info[p].slotIndex = info[p].epoch * SlotsInEpoch
    BY <1>2, <1>3, <2>3 DEF InfoTrue
  <2>5. QED
    BY <2>2, <2>3, <2>4 DEF NextSlot, EndSlot
<1> HIDE DEF k
<1>6. EndSlot(k) \in Nat /\ BlockTime(EndSlot(k)) \in Nat
  BY <1>1, <1>4, EndSlotProduced
<1>7. [epoch |-> k, endSlot |-> EndSlot(k), endTime |-> BlockTime(EndSlot(k))] \in Boundary
  BY <1>4, <1>6 DEF Boundary
<1>8. QED
  BY <1>4, <1>5, <1>6, <1>7 DEF k

LEMMA ReadBlockTimeStep ==
    ASSUME IInv, ChainGrows, NEW p \in Callers, ReadBlockTime(p)
    PROVE  IInv'
<1> DEFINE k == info[p].epoch - 1 - Len(found[p])
           entry == [epoch |-> NextEpoch(p), endSlot |-> NextSlot(p),
                     endTime |-> BlockTime(NextSlot(p))]
<1>1. TypeOK /\ MutexHeld /\ ChainOK
  BY DEF IInv
<1>2. InfoTrue(p) /\ FoundTrue(p) /\ Len(found[p]) < info[p].epoch
  BY DEF IInv, RefreshOK, ReadBlockTime
<1>3. /\ info[p] \in [epoch : Nat, slotIndex : Nat, absoluteSlot : Nat, at : Nat]
      /\ found[p] \in Seq(Boundary)
  BY <1>1 DEF TypeOK
<1>3a. info[p].epoch \in Nat /\ Len(found[p]) \in Nat
  BY <1>3
<1>4. k \in Nat /\ k < Epoch /\ NextEpoch(p) = k /\ NextSlot(p) = EndSlot(k)
  BY NextBoundary
<1>5. [epoch |-> k, endSlot |-> EndSlot(k), endTime |-> BlockTime(EndSlot(k))] \in Boundary
  BY NextBoundary
<1>6. entry = [epoch |-> k, endSlot |-> EndSlot(k), endTime |-> BlockTime(EndSlot(k))]
  BY <1>4
<1>7. entry \in Boundary
  BY <1>5, <1>6
<1>8. found'[p] = Append(found[p], entry)
  BY <1>1 DEF ReadBlockTime, TypeOK
<1>9. found' \in [Callers -> Seq(Boundary)]
  BY <1>1, <1>3, <1>7 DEF ReadBlockTime, TypeOK
<1>10. /\ pc'[p] \in {"blocks", "store"}
       /\ pc'[p] = "blocks" => k # 0
  BY <1>1, <1>4 DEF ReadBlockTime, TypeOK
<1>11. TypeOK'
  BY <1>1, <1>9 DEF ReadBlockTime, TypeOK, chain, Places
<1>12. MutexHeld'
  BY <1>1, <1>10 DEF ReadBlockTime, TypeOK, MutexHeld
<1>13. info' = info /\ cache' = cache /\ blockTimes' = blockTimes /\ now' = now
  BY DEF ReadBlockTime, chain
<1>14. InfoTrue(p)'
  BY <1>2, <1>13 DEF InfoTrue, Epoch, slot
<1>15. Len(found'[p]) = Len(found[p]) + 1
  BY <1>3, <1>7, <1>8
<1>16. FoundTrue(p)'
  <2>1. Len(found'[p]) <= info[p].epoch
    BY <1>2, <1>3, <1>15
  <2>2. ASSUME NEW i \in DOMAIN found'[p]
        PROVE  found'[p][i] = [epoch |-> info[p].epoch - i,
                               endSlot |-> EndSlot(info[p].epoch - i),
                               endTime |-> BlockTime(EndSlot(info[p].epoch - i))]
    <3>1. CASE i = Len(found[p]) + 1
      <4>1. info[p].epoch - i = k
        BY <1>3a, <3>1
      <4>2. found'[p][i] = entry
        BY <1>3, <1>7, <1>8, <3>1
      <4>3. QED
        BY <1>6, <4>1, <4>2
    <3>2. CASE i \in DOMAIN found[p]
      <4>1. found'[p][i] = found[p][i]
        BY <1>3, <1>7, <1>8, <3>2
      <4>2. QED
        BY <1>2, <3>2, <4>1 DEF FoundTrue
    <3>3. QED
      BY <1>3, <1>7, <1>8, <1>15, <3>1, <3>2
  <2>3. QED
    BY <1>13, <2>1, <2>2 DEF FoundTrue, BlockTime, EndSlot
<1>17. RefreshOK(p)'
  <2>1. pc'[p] = "blocks" => Len(found'[p]) < info'[p].epoch
    BY <1>3a, <1>4, <1>10, <1>13, <1>15
  <2>2. Len(found'[p]) > 0
    BY <1>3a, <1>15
  <2>3. QED
    BY <1>10, <1>14, <1>16, <2>1, <2>2 DEF RefreshOK
<1>18. QED
  BY <1>1, <1>11, <1>12, <1>17, CallerStep DEF ReadBlockTime, TypeOK

(* What a refresh stores is sound, and replaces nothing newer, since no    *)
(* other caller can have stored meanwhile.                                 *)
LEMMA StoreStep ==
    ASSUME IInv, ChainGrows, NEW p \in Callers, Store(p)
    PROVE  /\ IInv'
           /\ cache'.asOf \in cache.asOf..Epoch
<1>1. TypeOK /\ MutexHeld /\ ChainOK /\ Sound(cache) /\ Sound(disk) /\ disk.asOf <= cache.asOf
  BY DEF IInv
<1>2. InfoTrue(p) /\ FoundTrue(p) /\ Len(found[p]) > 0 /\ pc[p] = "store" /\ mu = p
  BY DEF IInv, RefreshOK, Store, MutexHeld
<1>3. /\ info[p] \in [epoch : Nat, slotIndex : Nat, absoluteSlot : Nat, at : Nat]
      /\ found[p] \in Seq(Boundary)
  BY <1>1 DEF TypeOK
<1>4. cache' = Refreshed(p) /\ disk' = disk /\ chain' = chain /\ locals' = locals /\ mu' = mu
  BY DEF Store
<1>5. /\ cache'.boundaries = found[p]
      /\ cache'.coveredFrom = found[p][Len(found[p])].endTime
      /\ cache'.asOf = info[p].epoch
  BY <1>4 DEF Refreshed
<1>6. cache' \in Snapshot
  <2>1. EstimatedExpiry(info[p]) \in Nat
    <3>1. SlotsInEpoch \in Nat /\ RetryDelay \in Nat
      BY EpochCacheAssumption
    <3>2. now \in Nat /\ info[p].slotIndex \in Nat
      BY <1>1, <1>3 DEF TypeOK
    <3>3. QED
      BY ONLY <3>1, <3>2 DEF EstimatedExpiry
  <2>2. now - info[p].at \in Nat
    BY <1>1, <1>2, <1>3 DEF InfoTrue, TypeOK
  <2>3. found[p][Len(found[p])].endTime \in Nat
    <3>1. found[p][Len(found[p])] \in Boundary
      BY <1>2, <1>3
    <3>2. QED
      BY <3>1 DEF Boundary
  <2>4. QED
    BY <1>3, <1>4, <2>1, <2>2, <2>3 DEF Refreshed, Snapshot
<1>7. Epoch' = Epoch /\ blockTimes' = blockTimes
  BY <1>4 DEF chain, Epoch, slot
<1>8. IsHistory(cache)'
  <2>1. ASSUME NEW i \in DOMAIN found[p]
        PROVE  /\ found[p][i].epoch = info[p].epoch - i
               /\ found[p][i].endSlot = EndSlot(found[p][i].epoch)
               /\ found[p][i].endTime = BlockTime(found[p][i].endSlot)
    <3> DEFINE e == info[p].epoch - i
    <3>1. found[p][i] = [epoch |-> e, endSlot |-> EndSlot(e), endTime |-> BlockTime(EndSlot(e))]
      BY <1>2 DEF FoundTrue
    <3> HIDE DEF e
    <3>2. /\ found[p][i].epoch = e
          /\ found[p][i].endSlot = EndSlot(e)
          /\ found[p][i].endTime = BlockTime(EndSlot(e))
      BY <3>1
    <3>3. QED
      BY <3>2 DEF e
  <2>2. QED
    BY <1>5, <1>7, <2>1 DEF IsHistory, EndSlot, BlockTime
<1>9. Sound(cache)'
  BY <1>2, <1>5, <1>6, <1>7, <1>8 DEF Sound, InfoTrue, FoundTrue
<1>10. Sound(disk)'
  BY <1>1, <1>4, <1>7 DEF Sound, IsHistory, BlockTime
<1>11. disk'.asOf <= cache'.asOf /\ cache'.asOf \in cache.asOf..Epoch
  <2>1. cache.asOf \in Nat /\ disk.asOf \in Nat /\ Epoch \in Nat
    BY <1>1, ChainFacts DEF Sound, Snapshot
  <2>2. QED
    BY <1>1, <1>2, <1>3, <1>4, <1>5, <2>1 DEF InfoTrue
<1>12. TypeOK'
  BY <1>1, <1>4, <1>6 DEF Store, TypeOK, chain, locals, Places
<1>13. MutexHeld'
  BY <1>1, <1>2, <1>4 DEF Store, TypeOK, MutexHeld
<1>14. ASSUME NEW q \in Callers
       PROVE  RefreshOK(q)'
  <2>1. CASE q = p
    BY <1>1, <2>1 DEF Store, TypeOK, RefreshOK
  <2>2. CASE q # p
    <3>1. pc'[q] = pc[q] /\ found'[q] = found[q]
      BY <1>1, <1>4, <2>2 DEF Store, TypeOK, locals
    <3>2. pc[q] \notin {"blocks", "store"}
      BY <1>1, <1>2, <2>2 DEF MutexHeld
    <3>3. QED
      BY <3>1, <3>2 DEF IInv, RefreshOK
  <2>3. QED
    BY <2>1, <2>2
<1>15. QED
  BY <1>9, <1>10, <1>11, <1>12, <1>13, <1>14 DEF IInv, ChainGrows

(* The file takes over what memory has, or nothing.                        *)
LEMMA PersistStep ==
    ASSUME IInv, ChainGrows, NEW p \in Callers, Persist(p)
    PROVE  IInv'
<1>1. TypeOK /\ MutexHeld /\ ChainOK /\ Sound(cache) /\ Sound(disk)
      /\ disk.asOf <= cache.asOf
  BY DEF IInv
<1>2. cache' = cache /\ disk' \in {disk, cache} /\ info' = info /\ found' = found
  BY DEF Persist
<1>3. Sound(cache)' /\ Sound(disk)'
  BY <1>1, <1>2, SoundStays
<1>4. disk'.asOf <= cache'.asOf
  BY <1>1, <1>2 DEF Sound, Snapshot
<1>5. TypeOK'
  BY <1>1, <1>2 DEF Persist, TypeOK, chain, Places
<1>6. MutexHeld'
  BY <1>1 DEF Persist, TypeOK, MutexHeld
<1>7. ASSUME NEW q \in Callers
      PROVE  RefreshOK(q)'
  <2>1. CASE q = p
    BY <1>1, <2>1 DEF Persist, TypeOK, RefreshOK
  <2>2. CASE q # p
    <3>1. pc'[q] = pc[q]
      BY <1>1, <2>2 DEF Persist, TypeOK
    <3>2. QED
      BY <1>2, <3>1, RefreshStays
  <2>3. QED
    BY <2>1, <2>2
<1>8. QED
  BY <1>3, <1>4, <1>5, <1>6, <1>7 DEF IInv, ChainGrows

(* Time and the chain leave the process alone.                             *)
LEMMA AdvanceStep ==
    ASSUME IInv, ChainGrows, Advance
    PROVE  IInv'
<1>1. UNCHANGED <<cache, disk, mu, pc, locals>>
  BY DEF Advance
<1>2. TypeOK'
  BY <1>1 DEF IInv, TypeOK, ChainGrows, ChainOK, locals
<1>3. Sound(cache)' /\ Sound(disk)'
  BY <1>1, SoundStays DEF IInv
<1>4. ASSUME NEW p \in Callers
      PROVE  RefreshOK(p)'
  BY <1>1, RefreshStays DEF locals
<1>5. QED
  BY <1>1, <1>2, <1>3, <1>4 DEF IInv, MutexHeld, ChainGrows, locals

(* A restart leaves no caller behind, and memory as the file.              *)
LEMMA RestartStep ==
    ASSUME IInv, ChainGrows, Restart
    PROVE  IInv'
<1>1. TypeOK'
  BY DEF IInv, Restart, TypeOK, chain, Places, NoInfo
<1>2. cache' = disk /\ disk' = disk
  BY DEF Restart
<1>3. Sound(cache)' /\ Sound(disk)'
  BY <1>2, SoundStays DEF IInv
<1>4. disk'.asOf <= cache'.asOf
  BY <1>2 DEF IInv, Sound, Snapshot
<1>5. MutexHeld' /\ \A p \in Callers : RefreshOK(p)'
  BY DEF Restart, MutexHeld, RefreshOK
<1>6. QED
  BY <1>1, <1>3, <1>4, <1>5 DEF IInv, ChainGrows

(* The invariant is inductive.                                             *)
LEMMA Inductive == IInv /\ [Next]_vars => IInv'
<1> SUFFICES ASSUME IInv, [Next]_vars
             PROVE  IInv'
  OBVIOUS
<1>1. ChainGrows
  BY ChainStep DEF IInv
<1>2. CASE Advance
  BY <1>1, <1>2, AdvanceStep
<1>3. CASE Restart
  BY <1>1, <1>3, RestartStep
<1>4. ASSUME NEW p \in Callers, Call(p) \/ Lock(p) \/ Work(p)
      PROVE  IInv'
  BY <1>1, <1>4, QuietSteps, ReadInfoStep, ReadBlockTimeStep, StoreStep, PersistStep DEF Work
<1>5. CASE UNCHANGED vars
  <2>1. UNCHANGED <<cache, disk, mu, pc, locals, chain>>
    BY <1>5 DEF vars
  <2>2. TypeOK'
    BY <2>1 DEF IInv, TypeOK, locals, chain
  <2>3. Sound(cache)' /\ Sound(disk)'
    BY <1>1, <2>1, SoundStays DEF IInv
  <2>4. ASSUME NEW p \in Callers
        PROVE  RefreshOK(p)'
    BY <1>1, <2>1, RefreshStays DEF locals
  <2>5. QED
    BY <1>1, <2>1, <2>2, <2>3, <2>4 DEF IInv, MutexHeld, ChainGrows, locals
<1>6. QED
  BY <1>2, <1>3, <1>4, <1>5 DEF Next

LEMMA Invariance == Spec => []IInv
  BY InitHolds, Inductive, PTL DEF Spec

----------------------------------------------------------------------------
(* The theorems.                                                           *)

(* Every variable of the epoch cache keeps to its values.                  *)
THEOREM TypeCorrect == Spec => []TypeOK
<1>1. IInv => TypeOK
  BY DEF IInv
<1>2. QED
  BY <1>1, Invariance, PTL

(* What is cached, in memory and in the file, is true history, although    *)
(* the chain moves on between the calls of a refresh.                      *)
THEOREM HistoryTrue == Spec => []CacheIsHistory
<1>1. IInv => CacheIsHistory
  BY DEF IInv, Sound, CacheIsHistory
<1>2. QED
  BY <1>1, Invariance, PTL

(* Memory is never behind the file.                                        *)
THEOREM FileNotAhead == Spec => []MemoryNotBehindDisk
<1>1. IInv => MemoryNotBehindDisk
  BY DEF IInv, Sound, Snapshot, MemoryNotBehindDisk
<1>2. QED
  BY <1>1, Invariance, PTL

(* Within a tick at most one epoch ends.                                   *)
LEMMA AtMostOneEpochEnds ==
    ASSUME ChainOK, Advance
    PROVE  Epoch' \in {Epoch, Epoch + 1}
<1>1. PICK produced \in 0..MaxSlotsPerTick :
          blockTimes' = blockTimes \o [i \in 1..produced |-> now + 1]
  BY DEF Advance
<1>2. /\ produced \in Nat /\ produced < SlotsInEpoch
      /\ SlotsInEpoch \in Nat \ {0}
  BY <1>1, EpochCacheAssumption
<1>3. [i \in 1..produced |-> now + 1] \in Seq(Nat)
      /\ Len([i \in 1..produced |-> now + 1]) = produced
  BY <1>2 DEF ChainOK
<1>4. slot \in Nat /\ slot' = slot + produced
  BY <1>1, <1>2, <1>3 DEF ChainOK, slot
<1>5. Epoch' \in Nat /\ Epoch \in Nat /\ Epoch <= Epoch'
  BY <1>2, <1>4, DivMod, DivMonotonic DEF Epoch
<1>6. Epoch' <= Epoch + 1
  BY <1>2, <1>4, DivStep DEF Epoch
<1>7. QED
  BY <1>5, <1>6

(* The cache, with its callers, its mutex, its RPC calls and their         *)
(* failures, implements the oracle that its users rely on.                 *)
THEOREM CacheIsOracle == Spec => IsEpochOracle
<1>1. Init => Oracle!Init
  <2> SUFFICES ASSUME Init
               PROVE  Oracle!Init
    OBVIOUS
  <2>1. Epoch \in Nat
    BY InitHolds, ChainFacts DEF IInv
  <2>2. QED
    BY <2>1 DEF Init, NoCache, NoFile, Oracle!Init
<1>2. IInv /\ [Next]_vars => [Oracle!Next]_(Oracle!vars)
  <2> SUFFICES ASSUME IInv, [Next]_vars
               PROVE  [Oracle!Next]_(Oracle!vars)
    OBVIOUS
  <2>1. ChainGrows
    BY ChainStep DEF IInv
  <2>2. CASE Advance
    BY <2>2, AtMostOneEpochEnds
       DEF IInv, Advance, Oracle!Next, Oracle!EpochEnds, Oracle!vars
  <2>3. UNCHANGED chain => Epoch' = Epoch
    BY DEF chain, Epoch, slot
  <2>4. CASE Restart
    BY <2>3, <2>4 DEF Restart, Oracle!Next, Oracle!Restart
  <2>5. ASSUME NEW p \in Callers, Store(p)
        PROVE  Oracle!Next
    BY <2>1, <2>3, <2>5, StoreStep DEF Store, Oracle!Next, Oracle!Refresh
  <2>6. ASSUME NEW p \in Callers, Persist(p)
        PROVE  [Oracle!Next]_(Oracle!vars)
    BY <2>3, <2>6 DEF Persist, Oracle!Next, Oracle!Save, Oracle!vars
  <2>7. ASSUME NEW p \in Callers,
               \/ Call(p) \/ Lock(p) \/ Hit(p) \/ Miss(p) \/ ReadInfo(p)
               \/ ReadBlockTime(p) \/ Fail(p) \/ Unlock(p) \/ Leave(p)
        PROVE  UNCHANGED Oracle!vars
    <3>1. UNCHANGED <<chain, cache, disk>>
      BY <2>7 DEF Call, Lock, Hit, Miss, ReadInfo, ReadBlockTime, Fail, Unlock, Leave
    <3>2. QED
      BY <2>3, <3>1 DEF Oracle!vars
  <2>8. CASE UNCHANGED vars
    BY <2>3, <2>8 DEF vars, Oracle!vars
  <2>9. QED
    BY <2>2, <2>4, <2>5, <2>6, <2>7, <2>8 DEF Next, Work
<1>3. QED
  BY <1>1, <1>2, Invariance, PTL DEF Spec, IsEpochOracle, Oracle!Spec

----------------------------------------------------------------------------
(* The inductive invariant, on top of IInv.                                *)

(* No slot is in the future, and the slots of a tick are fewer than those  *)
(* of an epoch: the ends of two epochs have two times.                     *)
ChainPaced ==
    /\ \A i \in 1..Len(blockTimes) : blockTimes[i] <= now
    /\ \A i, j \in 1..Len(blockTimes) :
          i + MaxSlotsPerTick <= j => blockTimes[i] < blockTimes[j]

(* A refresh that is ready to store, and a cache just stored, reach back   *)
(* to the start of the window or to the first epoch.                       *)
ReachOK(p) ==
    /\ pc[p] = "store" =>
          \/ found[p][Len(found[p])].endTime < min[p]
          \/ Len(found[p]) = info[p].epoch
    /\ pc[p] = "persist" =>
          /\ cache.boundaries # <<>>
          /\ cache.coveredFrom <= min[p] \/ Len(cache.boundaries) = cache.asOf

(* The epochs that were complete at the refresh are in the answer.         *)
Complete(p) ==
    pc[p] \in {"unlock", "done"} /\ op[p] = "boundaries" /\ result[p].ok =>
        /\ result[p].asOf \in Nat /\ result[p].asOf <= Epoch
        /\ \A e \in 0..(result[p].asOf - 1) :
              BlockTime(EndSlot(e)) >= min[p] =>
                  \E b \in result[p].boundaries : b.epoch = e

(* The first slot after epoch e is produced no earlier than at time t, at  *)
(* the nominal pace.                                                       *)
FirstSlotAfter(e) == (e + 1) * SlotsInEpoch

NotBefore(e, t) ==
    IF FirstSlotAfter(e) <= slot
    THEN t <= BlockTime(FirstSlotAfter(e))
    ELSE t <= now + (FirstSlotAfter(e) - slot)

(* So the epoch that was current at a refresh does not end before the time *)
(* estimated then; what the refresh took comes on top in expiresAt.        *)
Estimated(c) == c.boundaries # <<>> => NotBefore(c.asOf, c.expiresAt - c.took)

EstimateOK(p) ==
    pc[p] \in {"blocks", "store"} =>
        /\ info[p].slotIndex < SlotsInEpoch
        /\ NotBefore(info[p].epoch, info[p].at + (SlotsInEpoch - info[p].slotIndex))

NominalPace == MaxSlotsPerTick = 1

AInv ==
    /\ IInv
    /\ ChainPaced
    /\ DOMAIN result = Callers
    /\ \A p \in Callers : ReachOK(p) /\ Complete(p)
    /\ NominalPace => /\ Estimated(cache) /\ Estimated(disk)
                      /\ \A p \in Callers : EstimateOK(p)

----------------------------------------------------------------------------
(* The chain.                                                              *)

LEMMA Constants ==
    /\ SlotsInEpoch \in Nat /\ SlotsInEpoch > 1
    /\ MaxSlotsPerTick \in Nat /\ MaxSlotsPerTick >= 1 /\ MaxSlotsPerTick < SlotsInEpoch
  BY EpochCacheAssumption

(* A tick appends slots of the new time.                                   *)
LEMMA AdvanceAppends ==
    ASSUME ChainOK, Advance
    PROVE  /\ now' = now + 1 /\ ChainOK'
           /\ Len(blockTimes') \in Len(blockTimes)..(Len(blockTimes) + MaxSlotsPerTick)
           /\ \A i \in 1..Len(blockTimes) : blockTimes'[i] = blockTimes[i]
           /\ \A i \in 1..Len(blockTimes') : i > Len(blockTimes) => blockTimes'[i] = now + 1
<1>1. PICK produced \in 0..MaxSlotsPerTick :
          blockTimes' = blockTimes \o [i \in 1..produced |-> now + 1]
  BY DEF Advance
<1>2. produced \in Nat /\ produced <= MaxSlotsPerTick /\ MaxSlotsPerTick \in Nat
  BY <1>1, Constants
<1> DEFINE new == [i \in 1..produced |-> now + 1]
<1>3. new \in Seq(Nat) /\ Len(new) = produced
  BY <1>2 DEF ChainOK
<1>4. blockTimes' \in Seq(Nat) /\ Len(blockTimes') = Len(blockTimes) + produced
      /\ Len(blockTimes) \in Nat
  BY <1>1, <1>3 DEF ChainOK
<1>5. \A i \in 1..Len(blockTimes) : blockTimes'[i] = blockTimes[i]
  BY <1>1, <1>3 DEF ChainOK
<1>6. ASSUME NEW i \in 1..Len(blockTimes'), i > Len(blockTimes)
      PROVE  blockTimes'[i] = now + 1
  <2>1. i - Len(blockTimes) \in 1..produced
    BY <1>2, <1>4, <1>6
  <2>2. blockTimes'[i] = new[i - Len(blockTimes)]
    BY <1>1, <1>3, <1>4, <1>6 DEF ChainOK
  <2>3. QED
    BY <2>1, <2>2
<1>7. now' = now + 1
  BY DEF Advance
<1>8. QED
  BY <1>2, <1>4, <1>5, <1>6, <1>7 DEF ChainOK

LEMMA OnlyAdvance ==
    ASSUME [Next]_vars
    PROVE  Advance \/ UNCHANGED chain
  BY DEF Next, Work, Call, Lock, Hit, Miss, ReadInfo, ReadBlockTime, Fail, Store,
         Persist, Unlock, Leave, Restart, vars

LEMMA PacedStep ==
    ASSUME ChainOK, ChainPaced, [Next]_vars
    PROVE  ChainPaced'
<1>1. CASE Advance
  <2>1. /\ now' = now + 1 /\ now \in Nat
        /\ Len(blockTimes') \in Len(blockTimes)..(Len(blockTimes) + MaxSlotsPerTick)
        /\ Len(blockTimes) \in Nat
        /\ \A i \in 1..Len(blockTimes) : blockTimes'[i] = blockTimes[i] /\ blockTimes[i] \in Nat
        /\ \A i \in 1..Len(blockTimes') : i > Len(blockTimes) => blockTimes'[i] = now + 1
    BY <1>1, AdvanceAppends DEF ChainOK
  <2>2. ASSUME NEW i \in 1..Len(blockTimes')
        PROVE  /\ blockTimes'[i] <= now'
               /\ i <= Len(blockTimes) => blockTimes'[i] <= now
    <3>1. CASE i <= Len(blockTimes)
      <4>1. i \in 1..Len(blockTimes)
        BY <2>1, <3>1
      <4>2. blockTimes'[i] = blockTimes[i] /\ blockTimes[i] \in Nat /\ blockTimes[i] <= now
        BY <2>1, <4>1 DEF ChainPaced
      <4>3. QED
        BY <2>1, <4>2
    <3>2. CASE i > Len(blockTimes)
      BY <2>1, <3>2
    <3>3. QED
      BY <2>1, <3>1, <3>2
  <2>3. ASSUME NEW i \in 1..Len(blockTimes'), NEW j \in 1..Len(blockTimes'),
               i + MaxSlotsPerTick <= j
        PROVE  blockTimes'[i] < blockTimes'[j]
    <3>1. i <= Len(blockTimes)
      BY <2>1, <2>3, Constants
    <3>2. CASE j <= Len(blockTimes)
      <4>1. i \in 1..Len(blockTimes) /\ j \in 1..Len(blockTimes)
        BY <2>1, <3>1, <3>2
      <4>2. blockTimes[i] < blockTimes[j]
        BY <2>3, <4>1 DEF ChainPaced
      <4>3. QED
        BY <2>1, <4>1, <4>2
    <3>3. CASE j > Len(blockTimes)
      <4>1. blockTimes'[j] = now + 1
        BY <2>1, <3>3
      <4>2. blockTimes'[i] <= now /\ blockTimes'[i] \in Nat
        BY <2>1, <2>2, <3>1
      <4>3. QED
        BY <2>1, <4>1, <4>2
    <3>4. QED
      BY <2>1, <3>2, <3>3
  <2>4. QED
    BY <2>2, <2>3 DEF ChainPaced
<1>2. CASE UNCHANGED chain
  BY <1>2 DEF chain, ChainPaced
<1>3. QED
  BY <1>1, <1>2, OnlyAdvance

(* The ends of epochs have times in the order of the epochs.               *)
LEMMA EndsOrdered ==
    ASSUME ChainOK, ChainPaced, NEW d \in Nat, NEW e \in Nat, d < e, e < Epoch
    PROVE  BlockTime(EndSlot(d)) < BlockTime(EndSlot(e))
<1>1. d < Epoch /\ Epoch \in Nat
  BY ChainFacts
<1>2. /\ EndSlot(d) \in Nat /\ EndSlot(d) + 1 \in 1..Len(blockTimes)
      /\ EndSlot(e) \in Nat /\ EndSlot(e) + 1 \in 1..Len(blockTimes)
  BY <1>1, EndSlotProduced
<1>3. (d + 1) * SlotsInEpoch + SlotsInEpoch <= (e + 1) * SlotsInEpoch
  <2>1. (d + 2) * SlotsInEpoch <= (e + 1) * SlotsInEpoch
    BY Multiples, Constants, d + 2 \in Nat, e + 1 \in Nat
  <2>2. (d + 2) * SlotsInEpoch = (d + 1) * SlotsInEpoch + SlotsInEpoch
    BY Constants
  <2>3. QED
    BY <2>1, <2>2
<1>4. (d + 1) * SlotsInEpoch \in Nat /\ (e + 1) * SlotsInEpoch \in Nat
  BY Constants
<1>5. (EndSlot(d) + 1) + MaxSlotsPerTick <= EndSlot(e) + 1
  BY <1>3, <1>4, Constants DEF EndSlot
<1>6. QED
  BY <1>2, <1>5 DEF ChainPaced, BlockTime

(* At the nominal pace an estimate stays one.                              *)
LEMMA EstimateStays ==
    ASSUME ChainOK, ChainPaced, NominalPace, [Next]_vars, NEW e \in Nat, NEW t \in Int,
           NotBefore(e, t)
    PROVE  NotBefore(e, t)'
<1> DEFINE first == FirstSlotAfter(e)
<1>1. first \in Nat /\ slot \in Nat /\ now \in Nat /\ Len(blockTimes) = slot + 1
  BY Constants, ChainFacts DEF FirstSlotAfter, slot, ChainOK
<1>2. first' = first
  BY DEF FirstSlotAfter
<1> HIDE DEF first
<1>3. CASE UNCHANGED chain
  BY <1>3 DEF chain, NotBefore, slot, BlockTime, FirstSlotAfter
<1>4. CASE Advance
  <2>1. /\ now' = now + 1
        /\ slot' \in {slot, slot + 1} /\ Len(blockTimes') = slot' + 1
        /\ \A i \in 1..Len(blockTimes) : blockTimes'[i] = blockTimes[i]
        /\ \A i \in 1..Len(blockTimes') : i > Len(blockTimes) => blockTimes'[i] = now + 1
    BY <1>1, <1>4, AdvanceAppends DEF NominalPace, slot, ChainOK
  <2>2. slot' = slot \/ slot' = slot + 1
    BY <2>1
  <2>3. CASE first <= slot
    <3>1. first + 1 \in 1..Len(blockTimes)
      BY <1>1, <2>3
    <3>2. blockTimes'[first + 1] = blockTimes[first + 1]
      BY <2>1, <3>1
    <3>3. first <= slot'
      BY <1>1, <2>2, <2>3
    <3>4. QED
      BY <1>2, <2>3, <3>2, <3>3 DEF NotBefore, BlockTime, first
  <2>4. CASE first > slot
    <3>1. t <= now + (first - slot)
      BY <1>1, <2>4 DEF NotBefore, first
    <3>2. CASE first <= slot'
      <4>1. first = slot + 1 /\ slot' = slot + 1
        BY <1>1, <2>1, <2>4, <3>2
      <4>2. first + 1 \in 1..Len(blockTimes') /\ first + 1 > Len(blockTimes)
        BY <1>1, <2>1, <4>1
      <4>3. blockTimes'[first + 1] = now + 1
        BY <2>1, <4>2
      <4>4. t <= blockTimes'[first + 1]
        BY <1>1, <3>1, <4>1, <4>3
      <4>5. QED
        BY <1>2, <3>2, <4>4 DEF NotBefore, BlockTime, first
    <3>3. CASE ~(first <= slot')
      <4>1. t <= now' + (first - slot')
        <5>1. now' = now + 1
          BY <2>1
        <5>2. QED
          BY <1>1, <2>2, <3>1, <5>1
      <4>2. QED
        BY <1>2, <3>3, <4>1 DEF NotBefore, first
    <3>4. QED
      BY <3>2, <3>3
  <2>5. QED
    BY <1>1, <2>3, <2>4
<1>5. QED
  BY <1>3, <1>4, OnlyAdvance

----------------------------------------------------------------------------
(* What is answered.                                                       *)

(* A cache that reaches back to time m has every epoch that ended later.   *)
LEMMA EpochsCovered ==
    ASSUME IInv, ChainPaced, cache.boundaries # <<>>, NEW m \in Nat,
           cache.coveredFrom <= m \/ Len(cache.boundaries) = cache.asOf,
           NEW e \in 0..(cache.asOf - 1), BlockTime(EndSlot(e)) >= m
    PROVE  \E i \in DOMAIN cache.boundaries :
              /\ cache.boundaries[i].epoch = e
              /\ cache.boundaries[i].endTime = BlockTime(EndSlot(e))
<1> DEFINE n == Len(cache.boundaries)
<1>1. /\ ChainOK /\ cache.asOf <= Epoch /\ n <= cache.asOf /\ IsHistory(cache)
      /\ cache.asOf \in Nat /\ cache.boundaries \in Seq(Boundary) /\ Epoch \in Nat
  BY ChainFacts DEF IInv, Sound, Snapshot
<1>2. n \in Nat /\ n >= 1 /\ DOMAIN cache.boundaries = 1..n
  BY <1>1
<1>3. e \in Nat /\ e < cache.asOf /\ e < Epoch
  BY <1>1
<1>4. cache.asOf - e <= n
  <2>1. CASE n = cache.asOf
    BY <1>1, <1>3, <2>1
  <2>2. CASE cache.coveredFrom <= m
    <3> DEFINE oldest == cache.asOf - n
    <3>1. oldest \in Nat /\ oldest < Epoch
      BY <1>1, <1>2
    <3>2. /\ cache.boundaries[n].epoch = oldest
          /\ cache.boundaries[n].endSlot = EndSlot(cache.boundaries[n].epoch)
          /\ cache.boundaries[n].endTime = BlockTime(cache.boundaries[n].endSlot)
      BY <1>1, <1>2, n \in 1..n DEF IsHistory, EndSlot
    <3>3. cache.coveredFrom = BlockTime(EndSlot(oldest))
      <4>1. cache.coveredFrom = cache.boundaries[n].endTime
        BY <1>1 DEF IsHistory
      <4>2. QED
        BY <3>2, <4>1
    <3>4. BlockTime(EndSlot(oldest)) \in Nat /\ BlockTime(EndSlot(e)) \in Nat
      BY <1>1, <1>3, <3>1, EndSlotProduced
    <3>5. ~(BlockTime(EndSlot(e)) < BlockTime(EndSlot(oldest)))
      BY <2>2, <3>3, <3>4
    <3> HIDE DEF oldest
    <3>6. ~(e < oldest)
      BY <1>1, <1>3, <3>1, <3>5, EndsOrdered
    <3>7. QED
      BY <1>1, <1>2, <1>3, <3>6 DEF oldest
  <2>3. QED
    BY <2>1, <2>2
<1> DEFINE i == cache.asOf - e
<1>5. i \in 1..n
  BY <1>1, <1>2, <1>3, <1>4
<1>6. /\ cache.boundaries[i].epoch = cache.asOf - i
      /\ cache.boundaries[i].endSlot = EndSlot(cache.boundaries[i].epoch)
      /\ cache.boundaries[i].endTime = BlockTime(cache.boundaries[i].endSlot)
  BY <1>1, <1>2, <1>5 DEF IsHistory, EndSlot
<1>7. cache.asOf - i = e
  BY <1>1, <1>3
<1>8. QED
  BY <1>2, <1>5, <1>6, <1>7

(* So its answer to a window that starts there is complete.                *)
LEMMA AnswerComplete ==
    ASSUME IInv, ChainPaced, DOMAIN result = Callers, NEW p \in Callers, UNCHANGED <<chain, op, min>>,
           op[p] = "boundaries" =>
              /\ cache.boundaries # <<>>
              /\ cache.coveredFrom <= min[p] \/ Len(cache.boundaries) = cache.asOf,
           result' = [result EXCEPT ![p] = Answer(p, cache)]
    PROVE  Complete(p)'
<1>1. SUFFICES ASSUME op[p] = "boundaries"
               PROVE  Complete(p)'
  BY DEF Complete
<1>2. result'[p] = Answer(p, cache)
  OBVIOUS
<1>3. /\ result'[p].asOf = cache.asOf
      /\ result'[p].boundaries = {b \in {cache.boundaries[i] : i \in DOMAIN cache.boundaries} :
                                     b.endTime >= min[p]}
  BY <1>1, <1>2 DEF Answer
<1>4. min[p] \in Nat /\ cache.asOf \in Nat /\ cache.asOf <= Epoch
  BY DEF IInv, TypeOK, Sound, Snapshot
<1>5. ASSUME NEW e \in 0..(cache.asOf - 1), BlockTime(EndSlot(e)) >= min[p]
      PROVE  \E b \in result'[p].boundaries : b.epoch = e
  <2>1. PICK i \in DOMAIN cache.boundaries :
              /\ cache.boundaries[i].epoch = e
              /\ cache.boundaries[i].endTime = BlockTime(EndSlot(e))
    BY <1>1, <1>4, <1>5, EpochsCovered
  <2>2. cache.boundaries[i] \in result'[p].boundaries
    BY <1>3, <1>5, <2>1
  <2>3. QED
    BY <2>1, <2>2
<1>6. Epoch' = Epoch /\ min'[p] = min[p] /\ blockTimes' = blockTimes
  BY DEF chain, Epoch, slot
<1>7. QED
  BY <1>3, <1>4, <1>5, <1>6 DEF Complete, BlockTime, EndSlot

(* An answer stays complete while the chain grows.                         *)
LEMMA CompleteStays ==
    ASSUME IInv, ChainGrows, NEW p \in Callers, Complete(p),
           pc[p] \in {"unlock", "done"} \/ pc'[p] \notin {"unlock", "done"},
           op'[p] = op[p], min'[p] = min[p], result'[p] = result[p]
    PROVE  Complete(p)'
<1>1. SUFFICES ASSUME pc[p] \in {"unlock", "done"}, op[p] = "boundaries", result[p].ok
               PROVE  Complete(p)'
  BY DEF Complete
<1>2. /\ result[p].asOf \in Nat /\ result[p].asOf <= Epoch
      /\ \A e \in 0..(result[p].asOf - 1) :
            BlockTime(EndSlot(e)) >= min[p] => \E b \in result[p].boundaries : b.epoch = e
  BY <1>1 DEF Complete
<1>3. Epoch \in Nat /\ Epoch' \in Nat /\ Epoch <= Epoch'
      /\ \A e \in Nat : e < Epoch => blockTimes'[EndSlot(e) + 1] = blockTimes[EndSlot(e) + 1]
  BY HistoryStays DEF IInv
<1>4. ASSUME NEW e \in 0..(result[p].asOf - 1)
      PROVE  BlockTime(EndSlot(e))' = BlockTime(EndSlot(e))
  <2>1. e \in Nat /\ e < Epoch
    BY <1>2, <1>3
  <2>2. QED
    BY <1>3, <2>1 DEF BlockTime, EndSlot
<1>5. result[p].asOf <= Epoch'
  BY <1>2, <1>3
<1>6. QED
  BY <1>2, <1>4, <1>5 DEF Complete

----------------------------------------------------------------------------
(* The steps.                                                              *)

CallerMoves(p) == Call(p) \/ Lock(p) \/ Work(p)

(* A step of one caller changes nothing for the others.                    *)
LEMMA OthersStep ==
    ASSUME AInv, [Next]_vars, NEW p \in Callers, CallerMoves(p), NEW q \in Callers, q # p
    PROVE  ReachOK(q)' /\ Complete(q)' /\ (NominalPace => EstimateOK(q)')
<1>1. TypeOK /\ IInv /\ ChainOK /\ DOMAIN result = Callers
  BY DEF AInv, IInv
<1>2. pc'[q] = pc[q] /\ info'[q] = info[q] /\ found'[q] = found[q]
  BY <1>1 DEF CallerMoves, TypeOK, Call, Lock, Work, Hit, Miss, ReadInfo, ReadBlockTime, Fail,
              Store, Persist, Unlock, Leave, locals
<1>3. op'[q] = op[q] /\ min'[q] = min[q]
  BY <1>1 DEF CallerMoves, TypeOK, Call, Lock, Work, Hit, Miss, ReadInfo, ReadBlockTime, Fail,
              Store, Persist, Unlock, Leave, locals
<1>4. result'[q] = result[q]
  BY <1>1 DEF CallerMoves, Call, Lock, Work, Hit, Miss, ReadInfo, ReadBlockTime, Fail,
              Store, Persist, Unlock, Leave, locals
<1>5. Complete(q)'
  BY <1>1, <1>2, <1>3, <1>4, ChainStep, CompleteStays DEF AInv
<1>6. pc[q] = "persist" => cache' = cache
  <2>1. pc[q] = "persist" /\ Store(p) => FALSE
    BY <1>1 DEF IInv, MutexHeld, Store
  <2>2. QED
    BY <2>1 DEF CallerMoves, Call, Lock, Work, Hit, Miss, ReadInfo, ReadBlockTime, Fail,
                Persist, Unlock, Leave
<1>7. ReachOK(q)'
  BY <1>2, <1>3, <1>6 DEF AInv, ReachOK
<1>8. ASSUME NominalPace
      PROVE  EstimateOK(q)'
  <2>1. SUFFICES ASSUME pc[q] \in {"blocks", "store"}
                 PROVE  EstimateOK(q)'
    BY <1>2 DEF EstimateOK
  <2>2. EstimateOK(q) /\ info[q].epoch \in Nat /\ info[q].at \in Nat /\ info[q].slotIndex \in Nat
    BY <1>1, <1>8 DEF AInv, TypeOK
  <2>3. PICK e \in Nat, t \in Int :
            e = info[q].epoch /\ t = info[q].at + (SlotsInEpoch - info[q].slotIndex)
    BY <2>2, Constants
  <2>4. NotBefore(e, t)
    BY <2>1, <2>2, <2>3 DEF EstimateOK
  <2>5. NotBefore(e, t)'
    BY <1>1, <1>8, <2>4, EstimateStays DEF AInv
  <2>6. NotBefore(info[q].epoch, info[q].at + (SlotsInEpoch - info[q].slotIndex))'
    BY <1>2, <2>3, <2>5
  <2>7. QED
    BY <1>2, <2>1, <2>2, <2>6 DEF EstimateOK
<1>9. QED
  BY <1>5, <1>7, <1>8

(* The caches' estimates stay, while caches and file trade places.         *)
LEMMA EstimatedStays ==
    ASSUME AInv, NominalPace, [Next]_vars,
           cache' \in {cache, disk}, disk' \in {cache, disk}
    PROVE  Estimated(cache)' /\ Estimated(disk)'
<1>1. ASSUME NEW c \in {cache, disk}, c.boundaries # <<>>
      PROVE  NotBefore(c.asOf, c.expiresAt - c.took)'
  <2> DEFINE e == c.asOf
             t == c.expiresAt - c.took
  <2>1. Estimated(c)
    BY DEF AInv
  <2>2. c \in Snapshot
    BY DEF AInv, IInv, TypeOK
  <2>3. e \in Nat /\ t \in Int /\ NotBefore(e, t)
    BY <1>1, <2>1, <2>2 DEF Snapshot, Estimated
  <2> HIDE DEF e, t
  <2>4. NotBefore(e, t)'
    BY <2>3, EstimateStays DEF AInv, IInv
  <2>5. QED
    BY <2>4 DEF e, t
<1>2. QED
  BY <1>1 DEF Estimated

(* The steps that neither look at the cache nor fill it.                   *)
LEMMA OwnQuietSteps ==
    ASSUME AInv, [Next]_vars, NEW p \in Callers,
           Call(p) \/ Lock(p) \/ Miss(p) \/ Fail(p) \/ Unlock(p) \/ Leave(p)
    PROVE  ReachOK(p)' /\ Complete(p)' /\ EstimateOK(p)' /\ DOMAIN result' = Callers
<1>1. TypeOK /\ IInv /\ DOMAIN result = Callers /\ Complete(p)
  BY DEF AInv, IInv
<1>2. pc'[p] \in {"lock", "check", "info", "unlock", "done", "idle"}
  BY <1>1 DEF TypeOK, Call, Lock, Miss, Fail, Unlock, Leave
<1>3. ReachOK(p)' /\ EstimateOK(p)'
  BY <1>2 DEF ReachOK, EstimateOK
<1>4. DOMAIN result' = Callers
  BY <1>1 DEF Call, Lock, Miss, Fail, Unlock, Leave, locals
<1>5. Complete(p)'
  <2>1. CASE Unlock(p)
    <3>1. op' = op /\ min' = min /\ result' = result /\ pc[p] = "unlock"
      BY <2>1 DEF Unlock
    <3>2. QED
      BY <1>1, <3>1, ChainStep, CompleteStays DEF IInv
  <2>2. CASE Fail(p)
    BY <1>1, <2>2 DEF Fail, Failed, Complete
  <2>3. CASE Call(p) \/ Lock(p) \/ Miss(p) \/ Leave(p)
    <3>1. pc'[p] \notin {"unlock", "done"}
      BY <1>1, <2>3 DEF TypeOK, Call, Lock, Miss, Leave
    <3>2. QED
      BY <3>1 DEF Complete
  <2>4. QED
    BY <2>1, <2>2, <2>3
<1>6. QED
  BY <1>3, <1>4, <1>5

(* A hit answers from a cache that reaches back to the window; Persist     *)
(* from the one just stored.                                               *)
LEMMA OwnAnswerSteps ==
    ASSUME AInv, [Next]_vars, NEW p \in Callers, Hit(p) \/ Persist(p)
    PROVE  ReachOK(p)' /\ Complete(p)' /\ EstimateOK(p)' /\ DOMAIN result' = Callers
<1>1. TypeOK /\ IInv /\ ChainPaced /\ DOMAIN result = Callers /\ ReachOK(p)
  BY DEF AInv, IInv
<1>2. pc'[p] = "unlock" /\ result' = [result EXCEPT ![p] = Answer(p, cache)]
      /\ UNCHANGED <<chain, op, min>>
  BY <1>1 DEF TypeOK, Hit, Persist
<1>3. ReachOK(p)' /\ EstimateOK(p)' /\ DOMAIN result' = Callers
  BY <1>1, <1>2 DEF ReachOK, EstimateOK
<1>4. op[p] = "boundaries" =>
          /\ cache.boundaries # <<>>
          /\ cache.coveredFrom <= min[p] \/ Len(cache.boundaries) = cache.asOf
  <2>1. CASE Hit(p)
    <3>1. cache.coveredFrom \in Nat /\ min[p] \in Nat
      BY <1>1 DEF TypeOK, Snapshot
    <3>2. QED
      BY <2>1, <3>1 DEF Hit, NeedsRefresh
  <2>2. CASE Persist(p)
    BY <1>1, <2>2 DEF Persist, ReachOK
  <2>3. QED
    BY <2>1, <2>2
<1>5. Complete(p)'
  BY <1>1, <1>2, <1>4, AnswerComplete
<1>6. QED
  BY <1>3, <1>5

LEMMA OwnReadInfo ==
    ASSUME AInv, [Next]_vars, NEW p \in Callers, ReadInfo(p)
    PROVE  ReachOK(p)' /\ Complete(p)' /\ EstimateOK(p)' /\ DOMAIN result' = Callers
<1>1. TypeOK /\ ChainOK /\ DOMAIN result = Callers
  BY DEF AInv, IInv
<1>2. /\ pc'[p] = "blocks" /\ result' = result /\ chain' = chain
      /\ info'[p] = [epoch |-> Epoch, slotIndex |-> SlotIndex, absoluteSlot |-> slot, at |-> now]
  BY <1>1 DEF TypeOK, ReadInfo
<1>3. ReachOK(p)' /\ Complete(p)'
  BY <1>2 DEF ReachOK, Complete
<1>4. slot \in Nat /\ Epoch \in Nat /\ SlotIndex \in Nat /\ SlotIndex < SlotsInEpoch
      /\ slot = Epoch * SlotsInEpoch + SlotIndex /\ now \in Nat
  BY <1>1, ChainFacts, DivMod, EpochCacheAssumption DEF SlotIndex, ChainOK
<1>5. FirstSlotAfter(Epoch) = slot + (SlotsInEpoch - SlotIndex)
  BY <1>4, Constants DEF FirstSlotAfter
<1>6. NotBefore(Epoch, now + (SlotsInEpoch - SlotIndex))
  BY <1>4, <1>5, Constants DEF NotBefore
<1>7. NotBefore(info[p].epoch, info[p].at + (SlotsInEpoch - info[p].slotIndex))'
  BY <1>2, <1>6 DEF NotBefore, chain, slot, Epoch, SlotIndex, BlockTime, FirstSlotAfter
<1>8. EstimateOK(p)'
  BY <1>2, <1>4, <1>7 DEF EstimateOK
<1>9. QED
  BY <1>1, <1>2, <1>3, <1>8

(* The loop ends at the window or at the first epoch.                      *)
LEMMA OwnReadBlockTime ==
    ASSUME AInv, [Next]_vars, NEW p \in Callers, ReadBlockTime(p)
    PROVE  /\ ReachOK(p)' /\ Complete(p)' /\ DOMAIN result' = Callers
           /\ NominalPace => EstimateOK(p)'
<1> DEFINE k == info[p].epoch - 1 - Len(found[p])
           entry == [epoch |-> NextEpoch(p), endSlot |-> NextSlot(p),
                     endTime |-> BlockTime(NextSlot(p))]
<1>1. TypeOK /\ IInv /\ ChainOK /\ DOMAIN result = Callers
  BY DEF AInv, IInv
<1>2. /\ k \in Nat /\ NextEpoch(p) = k /\ NextSlot(p) = EndSlot(k) /\ BlockTime(EndSlot(k)) \in Nat
      /\ [epoch |-> k, endSlot |-> EndSlot(k), endTime |-> BlockTime(EndSlot(k))] \in Boundary
  BY <1>1, NextBoundary
<1>3. entry \in Boundary /\ entry.epoch = k /\ entry.endSlot = EndSlot(k)
  BY <1>2
<1>4. found[p] \in Seq(Boundary) /\ info[p].epoch \in Nat /\ min[p] \in Nat
      /\ info[p].slotIndex \in Nat /\ info[p].at \in Nat
  BY <1>1 DEF TypeOK
<1>5. found'[p] = Append(found[p], entry) /\ info' = info /\ min' = min /\ result' = result
      /\ op' = op /\ chain' = chain
  BY <1>1 DEF ReadBlockTime, TypeOK
<1>6. /\ pc'[p] \in {"blocks", "store"}
      /\ pc'[p] = "store" =>
            entry.endTime < min[p] \/ entry.epoch = 0 \/ entry.endSlot < SlotsInEpoch
  BY <1>1 DEF ReadBlockTime, TypeOK
<1> HIDE DEF entry
<1>7. Len(found'[p]) = Len(found[p]) + 1 /\ found'[p][Len(found'[p])] = entry
      /\ Len(found[p]) \in Nat
  BY <1>3, <1>4, <1>5
<1>8. EndSlot(k) < SlotsInEpoch => k = 0
  <2>1. SUFFICES ASSUME k >= 1, EndSlot(k) < SlotsInEpoch
                 PROVE  FALSE
    BY <1>2
  <2>2. 2 * SlotsInEpoch <= (k + 1) * SlotsInEpoch
    BY <1>2, <2>1, Multiples, Constants, k + 1 \in Nat
  <2>3. (k + 1) * SlotsInEpoch \in Nat
    BY <1>2, Constants
  <2>4. QED
    BY <2>1, <2>2, <2>3, Constants DEF EndSlot
<1>9. ReachOK(p)'
  <2>1. SUFFICES ASSUME pc'[p] = "store"
                 PROVE  \/ found'[p][Len(found'[p])].endTime < min'[p]
                        \/ Len(found'[p]) = info'[p].epoch
    BY <1>6 DEF ReachOK
  <2>2. entry.endTime < min[p] \/ k = 0
    BY <1>3, <1>6, <1>8, <2>1
  <2>3. k = 0 => Len(found[p]) + 1 = info[p].epoch
    BY <1>4, <1>7
  <2>4. QED
    BY <1>5, <1>7, <2>2, <2>3
<1>10. Complete(p)'
  BY <1>6 DEF Complete
<1>11. ASSUME NominalPace
       PROVE  EstimateOK(p)'
  <2>1. EstimateOK(p) /\ pc[p] = "blocks"
    BY <1>11 DEF AInv, ReadBlockTime
  <2>2. QED
    BY <1>5, <2>1 DEF EstimateOK, NotBefore, chain, slot, BlockTime
<1>12. QED
  BY <1>1, <1>5, <1>9, <1>10, <1>11

(* What is stored reaches back to the window, and its estimate is that of  *)
(* the epoch info it was computed from.                                    *)
LEMMA OwnStore ==
    ASSUME AInv, [Next]_vars, NEW p \in Callers, Store(p)
    PROVE  /\ ReachOK(p)' /\ Complete(p)' /\ DOMAIN result' = Callers
           /\ NominalPace => Estimated(cache)' /\ Estimated(disk)' /\ EstimateOK(p)'
<1>1. TypeOK /\ IInv /\ ChainOK /\ DOMAIN result = Callers
  BY DEF AInv, IInv
<1>2. /\ ReachOK(p) /\ InfoTrue(p) /\ Len(found[p]) > 0 /\ pc[p] = "store"
      /\ found[p] \in Seq(Boundary)
  BY <1>1 DEF AInv, IInv, RefreshOK, Store, TypeOK
<1>3. pc'[p] = "persist" /\ cache' = Refreshed(p) /\ disk' = disk /\ UNCHANGED <<chain, locals>>
  BY <1>1 DEF Store, TypeOK
<1>4. ReachOK(p)'
  <2>1. found[p][Len(found[p])] \in Boundary /\ min[p] \in Nat
    BY <1>1, <1>2 DEF TypeOK
  <2>2. found[p] # <<>>
    BY <1>2
  <2>3. found[p][Len(found[p])].endTime \in Nat
    BY <2>1 DEF Boundary
  <2>4. \/ cache'.coveredFrom <= min[p]
        \/ Len(cache'.boundaries) = cache'.asOf
    BY <1>2, <1>3, <2>1, <2>3 DEF Refreshed, ReachOK
  <2>5. cache'.boundaries # <<>>
    BY <1>3, <2>2 DEF Refreshed
  <2>6. QED
    BY <1>3, <2>4, <2>5 DEF ReachOK, locals
<1>5. Complete(p)' /\ EstimateOK(p)' /\ DOMAIN result' = Callers
  BY <1>1, <1>3 DEF Complete, EstimateOK, locals
<1>6. ASSUME NominalPace
      PROVE  Estimated(cache)' /\ Estimated(disk)'
  <2>1. EstimateOK(p) /\ Estimated(disk)
    BY <1>6 DEF AInv
  <2>2. Estimated(disk)'
    BY <1>3, <2>1 DEF Estimated, NotBefore, chain, slot, BlockTime
  <2>3. /\ info[p].slotIndex \in Nat /\ info[p].at \in Nat /\ now \in Nat
        /\ info[p].slotIndex < SlotsInEpoch
        /\ NotBefore(info[p].epoch, info[p].at + (SlotsInEpoch - info[p].slotIndex))
    BY <1>1, <1>2, <2>1 DEF EstimateOK, TypeOK
  <2>4. EstimatedExpiry(info[p]) = now + (SlotsInEpoch - info[p].slotIndex)
    BY <2>3, Constants DEF EstimatedExpiry
  <2>5. /\ cache'.asOf = info[p].epoch /\ cache'.took = now - info[p].at
        /\ cache'.expiresAt = now + (SlotsInEpoch - info[p].slotIndex)
    BY <1>3, <2>4 DEF Refreshed
  <2>6. cache'.expiresAt - cache'.took = info[p].at + (SlotsInEpoch - info[p].slotIndex)
    BY <2>3, <2>5, Constants
  <2>7. NotBefore(cache.asOf, cache.expiresAt - cache.took)'
    BY <1>3, <2>3, <2>5, <2>6 DEF NotBefore, chain, slot, BlockTime, FirstSlotAfter
  <2>8. QED
    BY <2>2, <2>7 DEF Estimated
<1>7. QED
  BY <1>4, <1>5, <1>6

----------------------------------------------------------------------------
(* The invariant is inductive.                                             *)

LEMMA AnswersInit == Init => AInv
<1> SUFFICES ASSUME Init
             PROVE  AInv
  OBVIOUS
<1>1. IInv
  BY InitHolds
<1>2. ChainPaced
  <2>1. /\ StartSlot \in Nat /\ now = StartSlot
        /\ blockTimes = [i \in 1..(StartSlot + 1) |-> i - 1]
    BY EpochCacheAssumption DEF Init
  <2>2. Len(blockTimes) = StartSlot + 1
    BY <2>1
  <2>3. \A i \in 1..Len(blockTimes) : blockTimes[i] = i - 1
    BY <2>1, <2>2
  <2>4. QED
    BY <2>1, <2>2, <2>3, Constants DEF ChainPaced
<1>3. DOMAIN result = Callers /\ \A p \in Callers : ReachOK(p) /\ Complete(p) /\ EstimateOK(p)
  BY DEF Init, ReachOK, Complete, EstimateOK
<1>4. Estimated(cache) /\ Estimated(disk)
  BY DEF Init, NoFile, NoCache, Estimated
<1>5. QED
  BY <1>1, <1>2, <1>3, <1>4 DEF AInv

LEMMA AnswersInductive == AInv /\ [Next]_vars => AInv'
<1> SUFFICES ASSUME AInv, [Next]_vars
             PROVE  AInv'
  OBVIOUS
<1>1. IInv /\ IInv' /\ ChainOK /\ ChainPaced' /\ ChainGrows
  BY Inductive, PacedStep, ChainStep DEF AInv, IInv
<1>2. ASSUME NEW p \in Callers, CallerMoves(p)
      PROVE  AInv'
  <2>1. \/ Call(p) \/ Lock(p) \/ Miss(p) \/ Fail(p) \/ Unlock(p) \/ Leave(p)
        \/ Hit(p) \/ Persist(p) \/ ReadInfo(p) \/ ReadBlockTime(p) \/ Store(p)
    BY <1>2 DEF CallerMoves, Work
  <2>2. /\ ReachOK(p)' /\ Complete(p)' /\ DOMAIN result' = Callers
        /\ NominalPace => EstimateOK(p)'
    BY <2>1, OwnQuietSteps, OwnAnswerSteps, OwnReadInfo, OwnReadBlockTime, OwnStore
  <2>3. \A q \in Callers :
           ReachOK(q)' /\ Complete(q)' /\ (NominalPace => EstimateOK(q)')
    BY <1>2, <2>2, OthersStep
  <2>4. ASSUME NominalPace
        PROVE  Estimated(cache)' /\ Estimated(disk)'
    <3>1. CASE Store(p)
      BY <2>4, <3>1, OwnStore
    <3>2. CASE ~Store(p)
      <4>1. cache' \in {cache, disk} /\ disk' \in {cache, disk}
        BY <2>1, <3>2 DEF Call, Lock, Miss, Fail, Unlock, Leave, Hit, Persist, ReadInfo,
                          ReadBlockTime
      <4>2. QED
        BY <2>4, <4>1, EstimatedStays
    <3>3. QED
      BY <3>1, <3>2
  <2>5. QED
    BY <1>1, <2>2, <2>3, <2>4 DEF AInv, NominalPace
<1>3. CASE Advance \/ UNCHANGED vars
  <2>1. UNCHANGED <<cache, disk, pc, op, min, info, found, result>>
    BY <1>3 DEF Advance, vars, locals
  <2>2. ASSUME NEW p \in Callers
        PROVE  ReachOK(p)' /\ Complete(p)'
    <3>1. ReachOK(p)'
      BY <2>1 DEF AInv, ReachOK
    <3>2. Complete(p)'
      BY <1>1, <2>1, CompleteStays DEF AInv
    <3>3. QED
      BY <3>1, <3>2
  <2>3. ASSUME NominalPace, NEW p \in Callers, pc[p] \in {"blocks", "store"}
        PROVE  NotBefore(info[p].epoch, info[p].at + (SlotsInEpoch - info[p].slotIndex))'
    <3>1. EstimateOK(p) /\ info[p].epoch \in Nat /\ info[p].at \in Nat /\ info[p].slotIndex \in Nat
      BY <2>3, <1>1 DEF AInv, IInv, TypeOK
    <3>2. PICK e \in Nat, t \in Int :
              e = info[p].epoch /\ t = info[p].at + (SlotsInEpoch - info[p].slotIndex)
      BY <3>1, Constants
    <3>3. NotBefore(e, t)'
      BY <1>1, <2>3, <3>1, <3>2, EstimateStays DEF EstimateOK, AInv
    <3>4. QED
      BY <2>1, <3>2, <3>3
  <2>4. NominalPace => \A p \in Callers : EstimateOK(p)'
    BY <2>1, <2>3 DEF AInv, EstimateOK
  <2>5. NominalPace => Estimated(cache)' /\ Estimated(disk)'
    BY <2>1, EstimatedStays
  <2>6. QED
    BY <1>1, <2>1, <2>2, <2>4, <2>5 DEF AInv, NominalPace
<1>4. CASE Restart
  <2>1. cache' = disk /\ disk' = disk /\ DOMAIN result' = Callers
        /\ \A p \in Callers : pc'[p] = "idle"
    BY <1>4 DEF Restart
  <2>2. \A p \in Callers : ReachOK(p)' /\ Complete(p)' /\ EstimateOK(p)'
    BY <2>1 DEF ReachOK, Complete, EstimateOK
  <2>3. NominalPace => Estimated(cache)' /\ Estimated(disk)'
    BY <2>1, EstimatedStays
  <2>4. QED
    BY <1>1, <2>1, <2>2, <2>3 DEF AInv, NominalPace
<1>5. QED
  BY <1>2, <1>3, <1>4 DEF Next, CallerMoves

LEMMA AnswersInvariance == Spec => []AInv
  BY AnswersInit, AnswersInductive, PTL DEF Spec

----------------------------------------------------------------------------
(* The theorems.                                                           *)

(* No epoch of the window that was complete at the last refresh is missing *)
(* from an answer, whoever refreshed, for which window, and whether the    *)
(* cache came from the file (getBoundaries, refreshLocked, loadFromDisk).  *)
THEOREM WindowsCovered == Spec => []WindowCovered
<1>1. AInv => WindowCovered
  BY DEF AInv, Complete, WindowCovered, EndSlot
<1>2. QED
  BY <1>1, AnswersInvariance, PTL

(* A cache that is not expired is behind the chain for no longer than its  *)
(* refresh took (estimateEpochExpiry).                                     *)
THEOREM StalenessBounded == Spec => []StaleNoLongerThanRefresh
<1>1. ASSUME AInv, MaxSlotsPerTick = 1, cache.boundaries # <<>>, now <= cache.expiresAt,
             Epoch > cache.asOf
      PROVE  now - BlockTime((cache.asOf + 1) * SlotsInEpoch) <= cache.took
  <2> DEFINE first == FirstSlotAfter(cache.asOf)
  <2>1. /\ ChainOK /\ cache.asOf \in Nat /\ cache.expiresAt \in Nat /\ cache.took \in Nat
        /\ now \in Nat
    BY <1>1 DEF AInv, IInv, TypeOK, Snapshot
  <2>2. slot \in Nat /\ Epoch \in Nat /\ SlotIndex \in Nat
        /\ slot = Epoch * SlotsInEpoch + SlotIndex
    BY <2>1, ChainFacts
  <2>3. (cache.asOf + 1) * SlotsInEpoch <= Epoch * SlotsInEpoch
    BY <1>1, <2>1, <2>2, Multiples, Constants, cache.asOf + 1 \in Nat
  <2>4. first \in Nat /\ first <= slot
    BY <2>1, <2>2, <2>3, Constants DEF FirstSlotAfter
  <2>5. cache.expiresAt - cache.took <= BlockTime(first)
    BY <1>1, <2>4 DEF AInv, NominalPace, Estimated, NotBefore
  <2>6. BlockTime(first) \in Nat
    <3>1. first + 1 \in 1..Len(blockTimes)
      BY <2>1, <2>4 DEF slot, ChainOK
    <3>2. QED
      BY <2>1, <3>1 DEF BlockTime, ChainOK
  <2> HIDE DEF first
  <2>7. now - BlockTime(first) <= cache.took
    BY <1>1, <2>1, <2>5, <2>6
  <2>8. QED
    BY <2>7 DEF first, FirstSlotAfter
<1>2. AInv => StaleNoLongerThanRefresh
  BY <1>1 DEF StaleNoLongerThanRefresh
<1>3. QED
  BY <1>2, AnswersInvariance, PTL
=============================================================================
