--------------------------- MODULE WalletRewards ---------------------------
(***************************************************************************)
(* handleWallet (server.go) up to the rewards table: a request reads the   *)
(* balance, the stake accounts and the completed epochs, takes the rewards *)
(* from the wallet cache (wallet_cache.go) or collects them epoch by epoch *)
(* (collectRecentRewards), and caches what it collected until the          *)
(* estimated end of the current epoch.  Requests run concurrently, every   *)
(* call to the cluster may fail, and epochs end in between.                *)
(*                                                                         *)
(* Each wallet earns one reward per epoch, so rewards are sets of epochs.  *)
(* The epoch cache is used as module EpochCache shows it to behave, on a   *)
(* chain that runs at its nominal pace: epochs are EpochTicks long, and    *)
(* "known" is the epoch in which the cache was last refreshed, 0 for an    *)
(* empty cache.  A call waits for it as long as it waits for the mutex, so *)
(* the call is one step.                                                   *)
(***************************************************************************)
EXTENDS Naturals, Sequences

CONSTANTS Requests,       \* concurrent requests
          Wallets,        \* wallets, all with stake accounts
          Capacity,       \* OCTOPI_CACHE_WALLET_MAX_ENTRIES
          EpochTicks,     \* length of an epoch
          WeekTicks,      \* length of a week
          LookbackWeeks,  \* rewardLookbackWeeks
          MaxServeTicks,  \* bound: no request lasts longer
          StartTick,      \* tick at which the server starts
          LastTick        \* bound: time stops here

ASSUME WalletRewardsAssumption ==
    /\ Capacity \in Nat \ {0}
    /\ EpochTicks \in Nat \ {0}
    /\ WeekTicks \in Nat \ {0}
    /\ LookbackWeeks \in Nat
    /\ MaxServeTicks \in 0..(EpochTicks - 1)
    /\ StartTick \in Nat /\ StartTick >= EpochTicks
    /\ LastTick \in Nat

VARIABLES now,       \* the clock
          known,     \* the epoch cache
          store,     \* the wallet cache, most recently used entry first
          request    \* each request: its place and its locals

vars == <<now, known, store, request>>

----------------------------------------------------------------------------
(* Time.                                                                   *)

CurrentEpoch == now \div EpochTicks
EndTime(epoch) == (epoch + 1) * EpochTicks

WeekFloor(t) == t - (t % WeekTicks)

(* rewardWindowStart, not before the clock's zero. *)
WindowStart(t) ==
    IF WeekFloor(t) > LookbackWeeks * WeekTicks
    THEN WeekFloor(t) - LookbackWeeks * WeekTicks ELSE 0

WindowEnd(t) == WeekFloor(t) + WeekTicks

(* Mutation of EpochsOfWindow: the epochs are numbered one too low.        *)
EpochsOfWindowShifted(n, t) == {e - 1 : e \in {f \in 0..(n - 1) : EndTime(f) >= WindowStart(t)}}

(* The completed epochs, those before epoch n, that end in t's window. *)
EpochsOfWindow(n, t) == {e \in 0..(n - 1) : EndTime(e) >= WindowStart(t)}

----------------------------------------------------------------------------
(* The epoch cache: a call is answered from the cache until the estimated  *)
(* end of the epoch it was refreshed in, and refreshes it afterwards.      *)

Unexpired == known > 0 /\ now <= EndTime(known)
KnownAfterCall == IF Unexpired THEN known ELSE CurrentEpoch

----------------------------------------------------------------------------
(* The wallet cache.  An entry's clean is history: the stake accounts and  *)
(* the epochs were read without failure, and no epoch ended between the    *)
(* start of the request and the reading of the expiry.                     *)

IndexOf(w) == {i \in DOMAIN store : store[i].wallet = w}

(* A wallet has one entry at most: the store without it.                   *)
Without(w) ==
    IF IndexOf(w) = {} THEN store
    ELSE LET i == CHOOSE j \in IndexOf(w) : TRUE
         IN  SubSeq(store, 1, i - 1) \o SubSeq(store, i + 1, Len(store))

Newest(n, s) == SubSeq(s, 1, IF Len(s) < n THEN Len(s) ELSE n)

----------------------------------------------------------------------------
(* A request.                                                              *)

Idle == [pc |-> "idle"]

Init ==
    /\ now = StartTick
    /\ known = 0
    /\ store = <<>>
    /\ request = [r \in Requests |-> Idle]

At(r, place) == request[r].pc = place
Goto(r, place) == request' = [request EXCEPT ![r].pc = place]

(* Requests last minutes at most and epochs days.                          *)
Advance ==
    /\ now < LastTick
    /\ \A r \in Requests : ~At(r, "idle") => now - request[r].start < MaxServeTicks
    /\ now' = now + 1
    /\ UNCHANGED <<known, store, request>>

(* handleWallet starts; now is read once and used throughout. *)
Arrive(r) ==
    /\ At(r, "idle")
    /\ \E w \in Wallets :
          request' = [request EXCEPT ![r] =
              [pc |-> "balance", wallet |-> w, start |-> now,
               staked |-> FALSE, epochs |-> {}, asOf |-> 0,
               todo |-> {}, rows |-> {}, hit |-> FALSE, clean |-> FALSE,
               expiry |-> 0]]
    /\ UNCHANGED <<now, known, store>>

(* Without the balance the request ends with 502. *)
GetBalance(r) ==
    /\ At(r, "balance")
    /\ \/ Goto(r, "stakes")
       \/ request' = [request EXCEPT ![r] = Idle]
    /\ UNCHANGED <<now, known, store>>

(* An error leaves the list empty and the request goes on. *)
ListStakeAccounts(r) ==
    /\ At(r, "stakes")
    /\ \E ok \in BOOLEAN :
          request' = [request EXCEPT ![r].pc = "epochs", ![r].staked = ok]
    /\ UNCHANGED <<now, known, store>>

GetEpochBoundaries(r) ==
    /\ At(r, "epochs")
    /\ known' = KnownAfterCall
    /\ request' = [request EXCEPT ![r].pc = "cache", ![r].asOf = KnownAfterCall,
                       ![r].epochs = EpochsOfWindow(KnownAfterCall, request[r].start)]
    /\ UNCHANGED <<now, store>>

(* A refresh that fails leaves the request without epochs; it goes on. *)
EpochBoundariesFail(r) ==
    /\ At(r, "epochs")
    /\ ~Unexpired
    /\ Goto(r, "cache")
    /\ UNCHANGED <<now, known, store>>

(* Mutation of CacheHit: the expiry of the entry is not tested.            *)
CacheHitForEver(r) ==
    /\ At(r, "cache")
    /\ \E i \in IndexOf(request[r].wallet) :
          /\ store' = <<store[i]>> \o Without(request[r].wallet)
          /\ request' = [request EXCEPT ![r].pc = "render", ![r].rows = store[i].rows,
                             ![r].hit = TRUE, ![r].clean = store[i].clean]
    /\ UNCHANGED <<now, known>>

(* walletSummaryCache.Get: a hit is moved to the front, an expired entry   *)
(* is removed.                                                             *)
CacheHit(r) ==
    /\ At(r, "cache")
    /\ \E i \in IndexOf(request[r].wallet) :
          /\ request[r].start <= store[i].expiresAt
          /\ store' = <<store[i]>> \o Without(request[r].wallet)
          /\ request' = [request EXCEPT ![r].pc = "render", ![r].rows = store[i].rows,
                             ![r].hit = TRUE, ![r].clean = store[i].clean]
    /\ UNCHANGED <<now, known>>

CacheMiss(r) ==
    /\ At(r, "cache")
    /\ \A i \in IndexOf(request[r].wallet) : request[r].start > store[i].expiresAt
    /\ store' = Without(request[r].wallet)
    /\ Goto(r, "collect")
    /\ UNCHANGED <<now, known>>

(* collectRecentRewards returns no rows and no error when it was given no  *)
(* stake accounts or no epochs.                                            *)
NothingToCollect(r) ==
    /\ At(r, "collect")
    /\ ~request[r].staked \/ request[r].epochs = {}
    /\ Goto(r, "expiry")
    /\ UNCHANGED <<now, known, store>>

Collect(r) ==
    /\ At(r, "collect")
    /\ request[r].staked
    /\ request[r].epochs # {}
    /\ request' = [request EXCEPT ![r].pc = "rewards", ![r].todo = request[r].epochs]
    /\ UNCHANGED <<now, known, store>>

(* GetInflationReward, newest epoch first. *)
NextEpoch(r) == CHOOSE e \in request[r].todo : \A f \in request[r].todo : f <= e

GetInflationReward(r) ==
    /\ At(r, "rewards")
    /\ request[r].todo # {}
    /\ request' = [request EXCEPT ![r].rows = @ \cup {NextEpoch(r)},
                       ![r].todo = @ \ {NextEpoch(r)}]
    /\ UNCHANGED <<now, known, store>>

(* The tips are collected and the rows cut to the window of the request.   *)
Finish(r) ==
    /\ At(r, "rewards")
    /\ request[r].todo = {}
    /\ request' = [request EXCEPT ![r].pc = "expiry",
                       ![r].rows = {e \in @ : /\ EndTime(e) >= WindowStart(request[r].start)
                                              /\ EndTime(e) < WindowEnd(request[r].start)}]
    /\ UNCHANGED <<now, known, store>>

(* Mutation of CollectFails: the rows so far are kept and cached.          *)
CollectKeepsPart(r) ==
    /\ At(r, "rewards")
    /\ request' = [request EXCEPT ![r].pc = "expiry", ![r].todo = {}]
    /\ UNCHANGED <<now, known, store>>

(* An error of a reward call or of the tips: no rows, nothing is cached. *)
CollectFails(r) ==
    /\ At(r, "rewards")
    /\ request' = [request EXCEPT ![r].pc = "render", ![r].rows = {}, ![r].todo = {}]
    /\ UNCHANGED <<now, known, store>>

(* Mutation of GetCurrentEpochEnd: the end of the epoch after this one.    *)
GetNextEpochEnd(r) ==
    /\ At(r, "expiry")
    /\ known' = KnownAfterCall
    /\ request' = [request EXCEPT ![r].pc = "add",
                       ![r].expiry = EndTime(KnownAfterCall + 1)]
    /\ UNCHANGED <<now, store>>

(* cacheWalletRewards: GetCurrentEpochEnd, then Add unless the expiry is   *)
(* not after the start of the request.                                     *)
GetCurrentEpochEnd(r) ==
    /\ At(r, "expiry")
    /\ known' = KnownAfterCall
    /\ request' = [request EXCEPT
          ![r].pc = IF EndTime(KnownAfterCall) > request[r].start THEN "add" ELSE "render",
          ![r].expiry = EndTime(KnownAfterCall),
          ![r].clean = /\ request[r].staked
                       /\ request[r].asOf = request[r].start \div EpochTicks
                       /\ request[r].asOf = KnownAfterCall]
    /\ UNCHANGED <<now, store>>

EpochEndFails(r) ==
    /\ At(r, "expiry")
    /\ ~Unexpired
    /\ Goto(r, "render")
    /\ UNCHANGED <<now, known, store>>

(* Mutation of Add: a wallet's former entry stays.                         *)
AddAgain(r) ==
    /\ At(r, "add")
    /\ store' = <<[wallet |-> request[r].wallet, rows |-> request[r].rows,
                   expiresAt |-> request[r].expiry, clean |-> request[r].clean]>> \o store
    /\ Goto(r, "render")
    /\ UNCHANGED <<now, known>>

Add(r) ==
    /\ At(r, "add")
    /\ store' = Newest(Capacity,
          <<[wallet |-> request[r].wallet, rows |-> request[r].rows,
             expiresAt |-> request[r].expiry, clean |-> request[r].clean]>>
          \o Without(request[r].wallet))
    /\ Goto(r, "render")
    /\ UNCHANGED <<now, known>>

Render(r) ==
    /\ At(r, "render")
    /\ request' = [request EXCEPT ![r] = Idle]
    /\ UNCHANGED <<now, known, store>>

Serve(r) ==
    \/ GetBalance(r) \/ ListStakeAccounts(r)
    \/ GetEpochBoundaries(r) \/ EpochBoundariesFail(r)
    \/ CacheHit(r) \/ CacheMiss(r)
    \/ NothingToCollect(r) \/ Collect(r) \/ GetInflationReward(r)
    \/ Finish(r) \/ CollectFails(r)
    \/ GetCurrentEpochEnd(r) \/ EpochEndFails(r) \/ Add(r) \/ Render(r)

Next == Advance \/ \E r \in Requests : Arrive(r) \/ Serve(r)

Spec == Init /\ [][Next]_vars

----------------------------------------------------------------------------
(* Properties.                                                             *)

Entry == [wallet : Wallets, rows : SUBSET Nat, expiresAt : Nat, clean : BOOLEAN]
Places == {"balance", "stakes", "epochs", "cache", "collect", "rewards", "expiry",
           "add", "render"}

(* The values each variable takes. *)
TypeOK ==
    /\ now \in Nat /\ known \in Nat
    /\ \A i \in DOMAIN store : store[i] \in Entry
    /\ Len(store) <= Capacity
    /\ \A i, j \in DOMAIN store : store[i].wallet = store[j].wallet => i = j
    /\ \A r \in Requests :
          request[r] = Idle \/ /\ request[r].pc \in Places
                               /\ request[r].wallet \in Wallets
                               /\ request[r].rows \subseteq Nat

(* A wallet's rewards collected while no call failed and no epoch ended    *)
(* are served complete for as long as the entry lives: every epoch of the  *)
(* current window that ended before the reader started is there, although  *)
(* the collector's window may have been a week older or younger.           *)
CleanHitIsComplete ==
    \A r \in Requests :
        At(r, "render") /\ request[r].hit /\ request[r].clean =>
            \A e \in 0..CurrentEpoch :
                /\ EndTime(e) >= WindowStart(now)
                /\ EndTime(e) < request[r].start
                => e \in request[r].rows

(* No cached list is a partial one: below a reward that is there none of   *)
(* the current window is missing.  A reward call that fails half way       *)
(* leaves nothing behind, and neither does a window that moved meanwhile.  *)
NoPartialEntry ==
    \A i \in DOMAIN store : \A f \in store[i].rows :
        \A e \in 0..f : EndTime(e) >= WindowStart(now) => e \in store[i].rows

(* Even when an epoch ended while the rows were collected, the list that   *)
(* is served from the cache is at most one completed epoch behind.         *)
AtMostOneEpochBehind ==
    \A r \in Requests :
        At(r, "render") /\ request[r].hit /\ request[r].rows # {} =>
            \A e \in 0..CurrentEpoch :
                /\ EndTime(e) >= WindowStart(now)
                /\ EndTime(e + 1) < request[r].start
                => e \in request[r].rows

(* spec.md, lazy loading: "Expired or missing data triggers refresh and    *)
(* re-caching": a request that got stake accounts and epochs is not        *)
(* answered from the cache with the empty list of a request that did not.  *)
MissingDataRefetched ==
    \A r \in Requests :
        /\ At(r, "render") /\ request[r].hit
        /\ request[r].staked /\ request[r].epochs # {}
        => request[r].rows # {}

(* spec.md, user story 3: "I want my staking rewards to be correctly       *)
(* tracked so I see my real yield": a list that has rewards has those of   *)
(* all completed epochs of the window that ended before the request.       *)
RewardsCorrectlyTracked ==
    \A r \in Requests :
        At(r, "render") /\ request[r].rows # {} =>
            \A e \in request[r].epochs :
                EndTime(e) < request[r].start => e \in request[r].rows
=============================================================================
