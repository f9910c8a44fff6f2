----------------------------- MODULE EpochCache -----------------------------
(***************************************************************************)
(* epochCache (solana_client.go): the end slots and end times of the       *)
(* completed epochs, rebuilt through RPC calls when they expire or do not  *)
(* reach far enough back, kept on disk, and shared by all requests.        *)
(*                                                                         *)
(* The chain moves while a refresh runs: a tick is approxSlotDuration, and *)
(* in each tick the chain produces at most MaxSlotsPerTick slots.  The     *)
(* cluster is modelled by what GetEpochInfo and getBlockTime report; each  *)
(* of these calls may fail (transport, status, timeout, cancelled context).*)
(* The process may be killed at any point and restarted.                   *)
(***************************************************************************)
EXTENDS Naturals, Sequences

CONSTANTS Callers,          \* goroutines that use the cache
          Nobody,           \* the holder of a free mutex
          SlotsInEpoch,
          MaxSlotsPerTick,
          StartSlot,        \* slot at which the observation starts
          LastTick,         \* bound: time stops here
          Windows,          \* lookbacks of GetEpochBoundaries, in ticks
          EndWindow,        \* lookback of GetCurrentEpochEnd (35 days)
          RetryDelay        \* the 5 minutes of estimateEpochExpiry

ASSUME EpochCacheAssumption ==
    /\ Nobody \notin Callers
    /\ SlotsInEpoch \in Nat \ {0, 1}
    /\ MaxSlotsPerTick \in 1..(SlotsInEpoch - 1)
    /\ StartSlot \in Nat
    /\ LastTick \in Nat
    /\ Windows \subseteq Nat
    /\ EndWindow \in Nat
    /\ RetryDelay \in Nat

VARIABLES now,              \* the clock
          blockTimes,       \* the chain: the times of its slots, from slot 0 on
          cache,            \* boundaries, coveredFrom and expiresAt in memory
          disk,             \* the snapshot file
          mu,               \* the caller that holds c.mu, or Nobody
          pc, op, min,      \* each caller: place, operation, minEndTime
          info, found,      \* locals of refreshLocked: info, boundaries
          result            \* what the caller got

chain == <<now, blockTimes>>
locals == <<op, min, info, found, result>>
vars == <<chain, cache, disk, mu, pc, locals>>

Failed == [ok |-> FALSE]

(* The newest slot, its epoch and its place in the epoch. *)
slot == Len(blockTimes) - 1
Epoch == slot \div SlotsInEpoch
SlotIndex == slot % SlotsInEpoch

(* now.Add(-w), not before the clock's zero. *)
Back(w) == IF now > w THEN now - w ELSE 0

(* boundaries is empty before the first refresh; asOf and took are history:*)
(* the epoch that was current when the refresh read the epoch info, and    *)
(* how long the refresh took from there.                                   *)
NoCache == [boundaries |-> <<>>, coveredFrom |-> 0, expiresAt |-> 0, asOf |-> 0, took |-> 0]
NoInfo == [epoch |-> 0, slotIndex |-> 0, absoluteSlot |-> 0, at |-> 0]
NoFile == NoCache

Init ==
    /\ now = StartSlot
    (* until now the chain ran at its nominal pace from genesis *)
    /\ blockTimes = [i \in 1..(StartSlot + 1) |-> i - 1]
    /\ cache = NoCache
    /\ disk = NoFile
    /\ mu = Nobody
    /\ pc = [p \in Callers |-> "idle"]
    /\ op = [p \in Callers |-> "none"]
    /\ min = [p \in Callers |-> 0]
    /\ info = [p \in Callers |-> NoInfo]
    /\ found = [p \in Callers |-> <<>>]
    /\ result = [p \in Callers |-> Failed]

----------------------------------------------------------------------------
(* The chain.                                                              *)

Advance ==
    /\ now < LastTick
    /\ now' = now + 1
    /\ \E produced \in 0..MaxSlotsPerTick :
          blockTimes' = blockTimes \o [i \in 1..produced |-> now + 1]
    /\ UNCHANGED <<cache, disk, mu, pc, locals>>

----------------------------------------------------------------------------
(* The two operations, up to the decision to refresh.                      *)

Call(p) ==
    /\ pc[p] = "idle"
    /\ \/ \E w \in Windows : op' = [op EXCEPT ![p] = "boundaries"]
                             /\ min' = [min EXCEPT ![p] = Back(w)]
       \/ op' = [op EXCEPT ![p] = "end"] /\ UNCHANGED min
    /\ pc' = [pc EXCEPT ![p] = "lock"]
    /\ UNCHANGED <<chain, cache, disk, mu, info, found, result>>

(* Mutation of Lock: the refresh runs without the mutex.                   *)
LockNothing(p) ==
    /\ pc[p] = "lock"
    /\ mu' = p
    /\ pc' = [pc EXCEPT ![p] = "check"]
    /\ UNCHANGED <<chain, cache, disk, locals>>

Lock(p) ==
    /\ pc[p] = "lock"
    /\ mu = Nobody
    /\ mu' = p
    /\ pc' = [pc EXCEPT ![p] = "check"]
    /\ UNCHANGED <<chain, cache, disk, locals>>

(* Mutation of NeedsRefresh: how far back the cache reaches is not tested. *)
NeedsRefreshAnyWindow(p) == cache.boundaries = <<>> \/ now > cache.expiresAt

NeedsRefresh(p) ==
    \/ cache.boundaries = <<>>
    \/ now > cache.expiresAt
    \/ op[p] = "boundaries" /\ min[p] < cache.coveredFrom

(* What a call answers from the cache c: the boundaries that end in the    *)
(* window (in the order they have there), or the estimated end of the      *)
(* current epoch.                                                          *)
Answer(p, c) ==
    IF op[p] = "boundaries"
    THEN [ok |-> TRUE, asOf |-> c.asOf,
          boundaries |-> {b \in {c.boundaries[i] : i \in DOMAIN c.boundaries} :
                             b.endTime >= min[p]}]
    ELSE [ok |-> TRUE, end |-> c.expiresAt]

Hit(p) ==
    /\ pc[p] = "check"
    /\ ~NeedsRefresh(p)
    /\ result' = [result EXCEPT ![p] = Answer(p, cache)]
    /\ pc' = [pc EXCEPT ![p] = "unlock"]
    /\ UNCHANGED <<chain, cache, disk, mu, op, min, info, found>>

(* Mutation of Miss: the lookback of GetCurrentEpochEnd in a wrong unit.   *)
MissWrongUnit(p) ==
    /\ pc[p] = "check"
    /\ NeedsRefresh(p)
    /\ min' = IF op[p] = "end" THEN [min EXCEPT ![p] = now - 24 * EndWindow] ELSE min
    /\ pc' = [pc EXCEPT ![p] = "info"]
    /\ UNCHANGED <<chain, cache, disk, mu, op, info, found, result>>

Miss(p) ==
    /\ pc[p] = "check"
    /\ NeedsRefresh(p)
    /\ min' = IF op[p] = "end" THEN [min EXCEPT ![p] = Back(EndWindow)] ELSE min
    /\ pc' = [pc EXCEPT ![p] = "info"]
    /\ UNCHANGED <<chain, cache, disk, mu, op, info, found, result>>

----------------------------------------------------------------------------
(* refreshLocked.                                                          *)

(* GetEpochInfo; the first epoch is refused. *)
ReadInfo(p) ==
    /\ pc[p] = "info"
    /\ Epoch > 0
    /\ info' = [info EXCEPT ![p] = [epoch |-> Epoch, slotIndex |-> SlotIndex,
                                    absoluteSlot |-> slot, at |-> now]]
    /\ pc' = [pc EXCEPT ![p] = "blocks"]
    /\ UNCHANGED <<chain, cache, disk, mu, op, min, found, result>>

(* The next slot whose block time is read: the last one of the previous    *)
(* epoch, then SlotsInEpoch lower in each turn of the loop.                *)
NextSlot(p) ==
    (info[p].absoluteSlot - info[p].slotIndex) - 1 - Len(found[p]) * SlotsInEpoch

(* Mutation of NextEpoch: counted from the epoch that is current now.      *)
NextEpochFromNow(p) == Epoch - 1 - Len(found[p])

NextEpoch(p) == info[p].epoch - 1 - Len(found[p])

(* The cluster's getBlockTime. *)
BlockTime(s) == blockTimes[s + 1]

ReadBlockTime(p) ==
    /\ pc[p] = "blocks"
    /\ LET entry == [epoch |-> NextEpoch(p), endSlot |-> NextSlot(p),
                     endTime |-> BlockTime(NextSlot(p))]
           last == \/ entry.endTime < min[p]
                   \/ entry.epoch = 0
                   \/ entry.endSlot < SlotsInEpoch
       IN  /\ found' = [found EXCEPT ![p] = Append(@, entry)]
           /\ pc' = [pc EXCEPT ![p] = IF last THEN "store" ELSE "blocks"]
    /\ UNCHANGED <<chain, cache, disk, mu, op, min, info, result>>

(* Mutation of Fail: an error path without the deferred Unlock.            *)
FailHoldingMutex(p) ==
    /\ pc[p] \in {"info", "blocks"}
    /\ result' = [result EXCEPT ![p] = Failed]
    /\ pc' = [pc EXCEPT ![p] = "done"]
    /\ UNCHANGED <<chain, cache, disk, mu, op, min, info, found>>

(* Any error ends the refresh and is returned; epoch 0 is one. *)
Fail(p) ==
    /\ pc[p] \in {"info", "blocks"}
    /\ result' = [result EXCEPT ![p] = Failed]
    /\ pc' = [pc EXCEPT ![p] = "unlock"]
    /\ UNCHANGED <<chain, cache, disk, mu, op, min, info, found>>

(* Mutation of EstimatedExpiry: a whole epoch instead of what remains.     *)
ExpiryAfterWholeEpoch(i) == now + SlotsInEpoch

(* estimateEpochExpiry: from now on, not from the time of the epoch info. *)
EstimatedExpiry(i) ==
    now + (IF i.slotIndex >= SlotsInEpoch THEN RetryDelay ELSE SlotsInEpoch - i.slotIndex)

Refreshed(p) ==
    [boundaries  |-> found[p],
     coveredFrom |-> found[p][Len(found[p])].endTime,
     expiresAt   |-> EstimatedExpiry(info[p]),
     asOf        |-> info[p].epoch,
     took        |-> now - info[p].at]

Store(p) ==
    /\ pc[p] = "store"
    /\ cache' = Refreshed(p)
    /\ pc' = [pc EXCEPT ![p] = "persist"]
    /\ UNCHANGED <<chain, disk, mu, locals>>

(* persistEpochSnapshot: the snapshot is written to a temporary file that  *)
(* is then renamed, so the file changes at once or, when any part of it    *)
(* fails, not at all; the failure is only logged.                          *)
Persist(p) ==
    /\ pc[p] = "persist"
    /\ disk' \in {disk, cache}
    /\ result' = [result EXCEPT ![p] = Answer(p, cache)]
    /\ pc' = [pc EXCEPT ![p] = "unlock"]
    /\ UNCHANGED <<chain, cache, mu, op, min, info, found>>

(* The deferred Unlock; the caller has its result. *)
Unlock(p) ==
    /\ pc[p] = "unlock"
    /\ mu' = Nobody
    /\ pc' = [pc EXCEPT ![p] = "done"]
    /\ info' = [info EXCEPT ![p] = NoInfo]
    /\ found' = [found EXCEPT ![p] = <<>>]
    /\ UNCHANGED <<chain, cache, disk, op, min, result>>

(* The caller goes on with its result. *)
Leave(p) ==
    /\ pc[p] = "done"
    /\ pc' = [pc EXCEPT ![p] = "idle"]
    /\ op' = [op EXCEPT ![p] = "none"]
    /\ min' = [min EXCEPT ![p] = 0]
    /\ result' = [result EXCEPT ![p] = Failed]
    /\ UNCHANGED <<chain, cache, disk, mu, info, found>>

----------------------------------------------------------------------------
(* Mutation of Restart: the file is not loaded.                            *)
RestartCold ==
    /\ \E p \in Callers : pc[p] # "idle"
    /\ cache' = NoCache
    /\ mu' = Nobody
    /\ pc' = [p \in Callers |-> "idle"]
    /\ op' = [p \in Callers |-> "none"]
    /\ min' = [p \in Callers |-> 0]
    /\ info' = [p \in Callers |-> NoInfo]
    /\ found' = [p \in Callers |-> <<>>]
    /\ result' = [p \in Callers |-> Failed]
    /\ UNCHANGED <<chain, disk>>

(* The process is killed and started again: the callers are gone, and      *)
(* loadFromDisk takes over the snapshot file, if there is one.             *)
Restart ==
    /\ \E p \in Callers : pc[p] # "idle"
    /\ cache' = disk
    /\ mu' = Nobody
    /\ pc' = [p \in Callers |-> "idle"]
    /\ op' = [p \in Callers |-> "none"]
    /\ min' = [p \in Callers |-> 0]
    /\ info' = [p \in Callers |-> NoInfo]
    /\ found' = [p \in Callers |-> <<>>]
    /\ result' = [p \in Callers |-> Failed]
    /\ UNCHANGED <<chain, disk>>

Work(p) ==
    \/ Hit(p) \/ Miss(p) \/ ReadInfo(p) \/ ReadBlockTime(p) \/ Fail(p)
    \/ Store(p) \/ Persist(p) \/ Unlock(p) \/ Leave(p)

Next ==
    \/ Advance
    \/ Restart
    \/ \E p \in Callers : Call(p) \/ Lock(p) \/ Work(p)

Spec == Init /\ [][Next]_vars

(* A mutex is handed to a waiter in the end, a goroutine that can run runs,*)
(* and an RPC call answers or fails (the HTTP client has a timeout).       *)
FairSpec ==
    /\ Spec
    /\ \A p \in Callers : SF_vars(Lock(p)) /\ WF_vars(Work(p))

----------------------------------------------------------------------------
(* Properties.                                                             *)

Boundary == [epoch : Nat, endSlot : Nat, endTime : Nat]
Snapshot == [boundaries : Seq(Boundary), coveredFrom : Nat, expiresAt : Nat,
             asOf : Nat, took : Nat]
Places == {"idle", "lock", "check", "info", "blocks", "store", "persist", "unlock", "done"}

(* The values each variable takes. *)
TypeOK ==
    /\ now \in Nat /\ blockTimes \in Seq(Nat)
    /\ cache \in Snapshot /\ disk \in Snapshot
    /\ mu \in Callers \cup {Nobody}
    /\ pc \in [Callers -> Places]
    /\ op \in [Callers -> {"none", "boundaries", "end"}]
    /\ min \in [Callers -> Nat]
    /\ info \in [Callers -> [epoch : Nat, slotIndex : Nat, absoluteSlot : Nat, at : Nat]]
    /\ found \in [Callers -> Seq(Boundary)]

(* What is cached, in memory and on disk, is an unbroken piece of the      *)
(* chain's history, newest epoch first, with the true end slots and times, *)
(* although the chain moves on between the calls of a refresh.             *)
IsHistory(c) ==
    /\ \A i \in DOMAIN c.boundaries :
          LET b == c.boundaries[i] IN
          /\ b.epoch = c.asOf - i
          /\ b.endSlot = (b.epoch + 1) * SlotsInEpoch - 1
          /\ b.endTime = BlockTime(b.endSlot)
    /\ c.boundaries # <<>> =>
          c.coveredFrom = c.boundaries[Len(c.boundaries)].endTime

CacheIsHistory == IsHistory(cache) /\ IsHistory(disk)

(* "GetEpochBoundaries returns metadata about completed epochs covering    *)
(* the provided lookback window": no epoch of the window that was complete *)
(* at the last refresh is missing, whoever refreshed, for which window,    *)
(* and whether the snapshot came from the disk.                            *)
WindowCovered ==
    \A p \in Callers :
        pc[p] = "done" /\ op[p] = "boundaries" /\ result[p].ok =>
            \A e \in 0..(result[p].asOf - 1) :
                BlockTime((e + 1) * SlotsInEpoch - 1) >= min[p] =>
                    \E b \in result[p].boundaries : b.epoch = e

(* A cache that is not expired misses an epoch that ended meanwhile for no *)
(* longer than the refresh that filled it took, provided the chain is not  *)
(* faster than approxSlotDuration.                                         *)
StaleNoLongerThanRefresh ==
    MaxSlotsPerTick = 1 /\ cache.boundaries # <<>> /\ now <= cache.expiresAt /\ Epoch > cache.asOf
        => now - BlockTime((cache.asOf + 1) * SlotsInEpoch) <= cache.took

(* Memory is never behind the file: a restart, a failed refresh and a      *)
(* failed write lose nothing the file already had.                         *)
MemoryNotBehindDisk == cache.asOf >= disk.asOf

(* To its users the cache is an EpochOracle: whoever refreshes it, and     *)
(* whatever fails or dies on the way, neither the running process nor the  *)
(* file goes back to an older epoch, of two refreshes the one that read    *)
(* the chain later is kept, and a restart goes back to the file at worst.  *)
Oracle == INSTANCE EpochOracle WITH
              epoch <- Epoch, known <- cache.asOf, saved <- disk.asOf

IsEpochOracle == Oracle!Spec

(* Every call returns, or is gone with the process: the search for the     *)
(* window's start ends, and no path keeps the mutex.                       *)
EveryCallReturns == \A p \in Callers : pc[p] = "lock" ~> pc[p] \in {"done", "idle"}
=============================================================================
