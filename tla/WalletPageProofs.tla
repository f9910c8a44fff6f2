-------------------------- MODULE WalletPageProofs --------------------------
(* Proofs about WalletPage, for any number of requests, times, prices and  *)
(* rewards: no page has a price that is too old or none without need, each *)
(* page's rows have the fiat values of its own price, its chart has all    *)
(* that its sum counts, and its annual return solves its own cash flows.   *)
EXTENDS WalletPage, ReturnsProofs

----------------------------------------------------------------------------
(* The inductive invariant.                                                *)

PriceValues == {NotCached} \cup [valid : {TRUE}, value : Nat, storedAt : Nat]

CallValues ==
    {Out} \cup [pc : {"cached", "fetch", "store", "fallback", "back"},
                hadPrice : BOOLEAN, value : Nat, failed : BOOLEAN]

RequestValues ==
    {Idle} \cup [pc : {"rewards", "price", "render"}, start : Nat, known : BOOLEAN,
                 rows : Lists, owner : Requests, info : Infos]

EntryValues == {NoEntry} \cup [valid : {TRUE}, rows : Lists, expiresAt : Nat]

Types ==
    /\ now \in StartTick..LastTick
    /\ price \in PriceValues
    /\ call \in [Requests -> CallValues]
    /\ request \in [Requests -> RequestValues]
    /\ fiat \in [Requests \cup {CacheEntry} -> Nat]
    /\ entry \in EntryValues

(* A request is served in a short time, and writes into its own rows.      *)
ServedSoon ==
    \A r \in Requests : request[r] # Idle =>
        /\ request[r].start >= StartTick
        /\ request[r].start <= now
        /\ now - request[r].start <= MaxServeTicks
        /\ request[r].owner = r

(* A price was stored soon after it was asked for.                         *)
PriceOK ==
    price.valid =>
        /\ price.value >= StartTick
        /\ price.value <= price.storedAt
        /\ price.storedAt <= now
        /\ price.storedAt - price.value <= MaxServeTicks

EntryOK == entry.valid => entry.expiresAt >= StartTick

(* The call of PriceUSD belongs to its request.                            *)
CallPlace ==
    \A r \in Requests :
        /\ call[r] # Out => At(r, "price") \/ At(r, "render")
        /\ At(r, "render") => InCall(r, "back")

(* What a caller holds at each place.                                      *)
CallHolds ==
    \A r \in Requests : call[r] # Out =>
        /\ InCall(r, "fetch") \/ InCall(r, "store") =>
              call[r].value >= request[r].start /\ call[r].value <= now
        /\ InCall(r, "fallback") => call[r].failed
        /\ InCall(r, "back") =>
              \/ call[r].value = NoPrice
              \/ /\ call[r].value >= StartTick
                 /\ call[r].value <= now
                 /\ \/ call[r].failed
                    \/ request[r].start - call[r].value <= PriceTTL + MaxServeTicks

(* A price that was known stays known.                                     *)
PriceKept ==
    \A r \in Requests : call[r] # Out /\ call[r].hadPrice =>
        /\ price.valid
        /\ InCall(r, "back") => call[r].value # NoPrice

(* Rows have no fiat values before a request has its price.                *)
FiatOK ==
    \A r \in Requests :
        /\ ~At(r, "render") => fiat[r] = NoPrice
        /\ At(r, "render") => fiat[r] = NoPrice \/ fiat[r] = call[r].value
        /\ At(r, "render") /\ request[r].rows # <<>> => fiat[r] = call[r].value

(* Rewards have been paid when they are collected: a list has none from    *)
(* after the present, and so none from long after the request's start, by  *)
(* way of the cache or not.                                                *)
Seen(list, tick) == \A i \in 1..Len(list) : Rows(list)[i].at <= tick

RowsSeen ==
    /\ entry.valid => Seen(entry.rows, now)
    /\ \A r \in Requests : request[r] # Idle =>
          Seen(request[r].rows, request[r].start + MaxServeTicks)

IInv ==
    /\ Types
    /\ ServedSoon
    /\ PriceOK
    /\ EntryOK
    /\ CallPlace
    /\ CallHolds
    /\ PriceKept
    /\ FiatOK
    /\ RowsSeen

----------------------------------------------------------------------------
(* Lists of rewards.                                                       *)

(* A list names rewards of the ledger.                                     *)
LEMMA PlacesAreInLedger ==
    ASSUME NEW list \in Lists
    PROVE  /\ list \in Seq(DOMAIN Ledger)
           /\ Len(list) \in Nat /\ list \in [1..Len(list) -> DOMAIN Ledger]
<1>1. Len(Ledger) \in Nat /\ DOMAIN Ledger = 1..Len(Ledger)
  BY LedgerAssumption
<1>2. ASSUME NEW start \in Starts, NEW known \in BOOLEAN
      PROVE  Collected(start, known) \in Seq(DOMAIN Ledger)
  <2> DEFINE places == {i \in DOMAIN Ledger : InWindow(i, start, known)}
             m == Cardinality(places)
  <2>1. places \subseteq 1..Len(Ledger)
    BY <1>1
  <2>2. m \in Nat /\ InOrder(places) \in [1..m -> places]
    <3> HIDE DEF places
    <3>1. QED
      BY <1>1, <2>1, InOrderIsSeq
  <2>3. Collected(start, known) \in [1..m -> DOMAIN Ledger]
    BY <1>1, <2>1, <2>2 DEF Collected
  <2> HIDE DEF m
  <2>4. QED
    BY <2>2, <2>3
<1>3. list \in Seq(DOMAIN Ledger)
  <2>1. CASE list = <<>>
    BY <2>1
  <2>2. CASE list # <<>>
    BY <1>2, <2>2 DEF Lists
  <2>3. QED
    BY <2>1, <2>2
<1>4. QED
  BY <1>3

(* The rows of a list have times, amounts and epochs.                      *)
LEMMA RowsOfList ==
    ASSUME NEW list \in Lists
    PROVE  /\ Len(list) \in Nat /\ DOMAIN Rows(list) = 1..Len(list)
           /\ \A i \in 1..Len(list) : /\ Rows(list)[i].at \in Nat
                                       /\ Rows(list)[i].amount \in Nat
           /\ \A i \in 1..Len(list) : /\ Rows(list)[i].epoch \in Nat \ {0}
                                       /\ EndTime(Rows(list)[i].epoch - 1) < Rows(list)[i].at
<1>1. list \in [1..Len(list) -> DOMAIN Ledger] /\ Len(list) \in Nat
  BY PlacesAreInLedger
<1>2. ASSUME NEW i \in 1..Len(list)
      PROVE  Rows(list)[i] = Ledger[list[i]] /\ list[i] \in DOMAIN Ledger
  BY <1>1 DEF Rows
<1>3. QED
  BY <1>1, <1>2, LedgerAssumption DEF Rows

(* What has been paid stays paid.                                          *)
LEMMA SeenLater ==
    ASSUME NEW list \in Lists, NEW tick \in Nat, NEW later \in Nat, tick <= later,
           Seen(list, tick)
    PROVE  Seen(list, later)
  BY RowsOfList DEF Seen

(* A list is collected from epochs that are over.                          *)
LEMMA CollectedIsSeen ==
    ASSUME NEW start \in Nat, NEW known \in BOOLEAN
    PROVE  Seen(Collected(start, known), start)
<1> DEFINE places == {i \in DOMAIN Ledger : InWindow(i, start, known)}
           list == Collected(start, known)
           n == Cardinality(places)
<1>1. n \in Nat /\ list \in [1..n -> places]
  <2>1. places \subseteq 1..Len(Ledger) /\ Len(Ledger) \in Nat
    BY LedgerAssumption
  <2>2. n \in Nat /\ InOrder(places) \in [1..n -> places]
    <3> HIDE DEF places
    <3>1. QED
      BY <2>1, InOrderIsSeq
  <2>3. QED
    BY <2>2 DEF Collected
<1>2. ASSUME NEW i \in places
      PROVE  Ledger[i].at <= start
  <2>1. PICK e \in 0..(EpochAt(start) - 1) : e = Ledger[i].epoch
    BY DEF InWindow, Boundaries
  <2>2. EpochTicks \in Nat \ {0}
    BY ReturnsAssumption
  <2> DEFINE m == EpochAt(start)
  <2>3. m \in Nat /\ m * EpochTicks <= start
    <3>1. /\ start \div EpochTicks \in Nat /\ start % EpochTicks \in Nat
          /\ start = EpochTicks * (start \div EpochTicks) + (start % EpochTicks)
      BY <2>2
    <3>2. EpochTicks * (start \div EpochTicks) = (start \div EpochTicks) * EpochTicks
      BY <2>2, <3>1
    <3>3. (start \div EpochTicks) * EpochTicks \in Nat
      BY <2>2, <3>1
    <3>4. QED
      BY <3>1, <3>2, <3>3 DEF EpochAt
  <2> HIDE DEF m
  <2>4. PICK d \in Nat : m = (e + 1) + d
    <3>1. e \in 0..(m - 1)
      BY <2>1 DEF m
    <3>2. m - (e + 1) \in Nat /\ m = (e + 1) + (m - (e + 1))
      BY <2>3, <3>1
    <3>3. QED
      BY <3>2
  <2>5. e \in Nat /\ EndTime(e) <= m * EpochTicks
    <3>1. e \in Nat
      BY <2>1
    <3>2. m * EpochTicks = (e + 1) * EpochTicks + d * EpochTicks
      BY <2>2, <2>4, <3>1
    <3>3. (e + 1) * EpochTicks \in Nat /\ d * EpochTicks \in Nat
      BY <2>2, <3>1
    <3>4. QED
      BY <3>1, <3>2, <3>3 DEF EndTime
  <2>6. Ledger[i].at \in Nat /\ Ledger[i].at <= EndTime(e)
    BY <2>1, LedgerAssumption
  <2>7. EndTime(e) \in Nat
    BY <2>2, <2>5 DEF EndTime
  <2>8. m * EpochTicks \in Nat
    BY <2>2, <2>3
  <2> DEFINE last == m * EpochTicks
  <2> HIDE DEF last
  <2>9. QED
    BY <2>3, <2>5, <2>6, <2>7, <2>8 DEF last
<1> HIDE DEF places, n, list
<1>3. Len(list) = n /\ \A i \in 1..n : Rows(list)[i].at <= start
  BY <1>1, <1>2 DEF Rows
<1>4. QED
  BY <1>3 DEF Seen, list

(* An entry has a list.                                                    *)
LEMMA EntryHasList ==
    ASSUME Types, entry.valid
    PROVE  entry.rows \in Lists
<1>1. entry # NoEntry
  BY DEF NoEntry
<1>2. QED
  BY <1>1 DEF Types, EntryValues

----------------------------------------------------------------------------
(* The times of WalletPageAssumption, and its names.                       *)
LEMMA Times ==
    /\ MaxServeTicks \in Nat /\ MaxServeTicks < HourTicks
    /\ StartTick \in Nat \ {0} /\ LastTick \in Nat /\ StartTick <= LastTick
    /\ "entry" \notin Callers
  BY WalletPageAssumption

(* The initial state.                                                      *)
LEMMA Initial == Init => IInv
<1> SUFFICES ASSUME Init PROVE IInv
  OBVIOUS
<1> USE Times DEF Init, PriceInit, Requests
<1>1. Types
  BY DEF Types, PriceValues, CallValues, RequestValues, EntryValues, NoPrice
<1>2. ServedSoon /\ PriceOK /\ EntryOK
  BY DEF ServedSoon, PriceOK, EntryOK, NotCached, NoEntry
<1>3. CallPlace /\ CallHolds /\ PriceKept
  BY DEF CallPlace, CallHolds, PriceKept, At, Idle
<1>4. FiatOK /\ RowsSeen
  BY DEF FiatOK, RowsSeen, At, Idle, NoEntry
<1>5. QED
  BY <1>1, <1>2, <1>3, <1>4 DEF IInv

----------------------------------------------------------------------------
(* Steps of PriceUSD.                                                      *)

LEMMA PriceIsKnownOrNot ==
    ASSUME Types
    PROVE  /\ price.valid \in BOOLEAN
           /\ price.valid => price.value \in Nat /\ price.storedAt \in Nat
<1>1. CASE price = NotCached
  BY <1>1 DEF NotCached
<1>2. CASE price \in [valid : {TRUE}, value : Nat, storedAt : Nat]
  <2>1. price.valid \in {TRUE} /\ price.value \in Nat /\ price.storedAt \in Nat
    BY <1>2
  <2>2. QED
    BY <2>1
<1>3. QED
  BY <1>1, <1>2 DEF Types, PriceValues

(* A caller goes on in PriceUSD, and keeps its history.                    *)
LEMMA CallUpdate ==
    ASSUME Types, NEW r \in Requests, call[r] # Out,
           NEW place \in {"cached", "fetch", "store", "fallback", "back"},
           NEW v \in Nat
    PROVE  /\ [call EXCEPT ![r].pc = place] \in [Requests -> CallValues]
           /\ [call EXCEPT ![r].pc = place, ![r].failed = TRUE]
                  \in [Requests -> CallValues]
           /\ [call EXCEPT ![r].pc = place, ![r].value = v]
                  \in [Requests -> CallValues]
<1>1. call[r] \in [pc : {"cached", "fetch", "store", "fallback", "back"},
                   hadPrice : BOOLEAN, value : Nat, failed : BOOLEAN]
  BY DEF Types, CallValues
<1>2. /\ [call[r] EXCEPT !.pc = place] \in CallValues
      /\ [call[r] EXCEPT !.pc = place, !.failed = TRUE] \in CallValues
      /\ [call[r] EXCEPT !.pc = place, !.value = v] \in CallValues
  BY <1>1 DEF CallValues
<1>3. QED
  BY <1>2 DEF Types

LEMMA PriceUSDStep ==
    ASSUME IInv, NEW r \in Requests, At(r, "price"), PriceUSD(r),
           UNCHANGED <<entry, fiat, request>>
    PROVE  IInv'
<1> USE DEF IInv, Types, Requests, PriceUSD
<1>1. Types'
  <2>1. [pc |-> "cached", hadPrice |-> price.valid, value |-> NoPrice, failed |-> FALSE]
            \in CallValues
    BY PriceIsKnownOrNot DEF CallValues, NoPrice
  <2>2. QED
    BY <2>1
<1>2. ServedSoon' /\ PriceOK' /\ EntryOK'
  BY DEF ServedSoon, PriceOK, EntryOK
<1>3. CallPlace'
  BY DEF CallPlace, InCall, At, CallValues, Out
<1>4. CallHolds'
  BY DEF CallHolds, InCall, At, CallValues, Out
<1>5. PriceKept'
  BY DEF PriceKept, InCall, CallValues, Out
<1>6. FiatOK' /\ RowsSeen'
  BY DEF FiatOK, RowsSeen, At
<1>7. QED
  BY <1>1, <1>2, <1>3, <1>4, <1>5, <1>6

(* What the steps of PriceUSD have in common: the caller goes on.          *)
LEMMA InsidePriceUSD ==
    ASSUME IInv, NEW r \in Requests, At(r, "price"), PriceStep(r)
    PROVE  /\ call[r] # Out
           /\ call[r].value \in Nat
           /\ request[r] # Idle
           /\ request[r].start \in Nat
<1>1. call[r] # Out
  BY DEF PriceStep, Cached, NotInCache, Fetch, Store, Fallback, InCall, Out
<1>2. request[r] # Idle
  BY DEF At, Idle
<1>3. QED
  BY <1>1, <1>2 DEF IInv, Types, CallValues, RequestValues

LEMMA CachedStep ==
    ASSUME IInv, NEW r \in Requests, At(r, "price"), Cached(r),
           UNCHANGED <<entry, fiat, request>>
    PROVE  IInv'
<1>1. /\ call[r] # Out /\ request[r] # Idle
      /\ call[r].value \in Nat /\ request[r].start \in Nat
  BY InsidePriceUSD DEF PriceStep
<1>2. price.valid /\ price.value \in Nat /\ price.storedAt \in Nat
  BY PriceIsKnownOrNot DEF Cached, Unexpired, IInv
<1>3. /\ now \in Nat /\ now - price.storedAt <= PriceTTL
      /\ request[r].start <= now
      /\ request[r].start - price.value <= PriceTTL + MaxServeTicks
  BY <1>1, <1>2, SolPriceAssumption, Times
     DEF Cached, Unexpired, IInv, Types, PriceOK, ServedSoon
<1> USE DEF IInv, Types, Requests, Cached
<1>4. Types'
  BY <1>1, <1>2, CallUpdate
<1>5. ServedSoon' /\ PriceOK' /\ EntryOK'
  BY DEF ServedSoon, PriceOK, EntryOK
<1>6. CallPlace'
  BY <1>1 DEF CallPlace, InCall, At, CallValues, Out
<1>7. CallHolds'
  BY <1>1, <1>2, <1>3, Times
     DEF CallHolds, InCall, At, CallValues, Out, PriceOK
<1>8. PriceKept'
  BY <1>1, <1>2, Times
     DEF PriceKept, InCall, CallValues, Out, PriceOK, NoPrice
<1>9. FiatOK' /\ RowsSeen'
  BY DEF FiatOK, RowsSeen, At
<1>10. QED
  BY <1>4, <1>5, <1>6, <1>7, <1>8, <1>9

LEMMA NotInCacheStep ==
    ASSUME IInv, NEW r \in Requests, At(r, "price"), NotInCache(r),
           UNCHANGED <<entry, fiat, request>>
    PROVE  IInv'
<1>1. /\ call[r] # Out /\ request[r] # Idle
      /\ call[r].value \in Nat /\ request[r].start \in Nat
  BY InsidePriceUSD DEF PriceStep
<1>2. now \in Nat
  BY Times DEF IInv, Types
<1> USE DEF IInv, Types, Requests, NotInCache
<1>3. Types'
  BY <1>1, <1>2, CallUpdate
<1>4. ServedSoon' /\ PriceOK' /\ EntryOK'
  BY DEF ServedSoon, PriceOK, EntryOK
<1>5. CallPlace'
  BY <1>1 DEF CallPlace, InCall, At, CallValues, Out
<1>6. CallHolds'
  BY <1>1, <1>2 DEF CallHolds, ServedSoon, InCall, At, CallValues, Out
<1>7. PriceKept'
  BY <1>1 DEF PriceKept, InCall, CallValues, Out
<1>8. FiatOK' /\ RowsSeen'
  BY DEF FiatOK, RowsSeen, At
<1>9. QED
  BY <1>3, <1>4, <1>5, <1>6, <1>7, <1>8

LEMMA FetchStep ==
    ASSUME IInv, NEW r \in Requests, At(r, "price"), Fetch(r),
           UNCHANGED <<entry, fiat, request>>
    PROVE  IInv'
<1>1. /\ call[r] # Out /\ request[r] # Idle
      /\ call[r].value \in Nat /\ request[r].start \in Nat
  BY InsidePriceUSD DEF PriceStep
<1>2. call' \in [Requests -> CallValues]
  <2>1. CASE call' = [call EXCEPT ![r].pc = "store"]
    BY <1>1, <2>1, CallUpdate DEF IInv
  <2>2. CASE call' = [call EXCEPT ![r].pc = "fallback", ![r].failed = TRUE]
    BY <1>1, <2>2, CallUpdate DEF IInv
  <2>3. QED
    BY <2>1, <2>2 DEF Fetch
<1> USE DEF IInv, Types, Requests, Fetch
<1>3. Types'
  BY <1>2
<1>4. ServedSoon' /\ PriceOK' /\ EntryOK'
  BY DEF ServedSoon, PriceOK, EntryOK
<1>5. CallPlace'
  BY <1>1 DEF CallPlace, InCall, At, CallValues, Out
<1>6. CallHolds'
  BY <1>1 DEF CallHolds, InCall, At, CallValues, Out
<1>7. PriceKept'
  BY <1>1 DEF PriceKept, InCall, CallValues, Out
<1>8. FiatOK' /\ RowsSeen'
  BY DEF FiatOK, RowsSeen, At
<1>9. QED
  BY <1>3, <1>4, <1>5, <1>6, <1>7, <1>8

LEMMA StoreStep ==
    ASSUME IInv, NEW r \in Requests, At(r, "price"), Store(r),
           UNCHANGED <<entry, fiat, request>>
    PROVE  IInv'
<1>1. /\ call[r] # Out /\ request[r] # Idle
      /\ call[r].value \in Nat /\ request[r].start \in Nat
  BY InsidePriceUSD DEF PriceStep
<1>2. /\ now \in Nat
      /\ request[r].start >= StartTick
      /\ call[r].value >= request[r].start
      /\ call[r].value <= now
      /\ now - request[r].start <= MaxServeTicks
  BY <1>1, Times DEF Store, IInv, Types, CallHolds, ServedSoon
<1> USE DEF IInv, Types, Requests, Store
<1>3. Types'
  BY <1>1, <1>2, CallUpdate DEF PriceValues
<1>4. ServedSoon' /\ EntryOK'
  BY DEF ServedSoon, EntryOK
<1>5. PriceOK'
  BY <1>1, <1>2, Times DEF PriceOK
<1>6. CallPlace'
  BY <1>1 DEF CallPlace, InCall, At, CallValues, Out
<1>7. CallHolds'
  BY <1>1, <1>2, Times, SolPriceAssumption
     DEF CallHolds, InCall, At, CallValues, Out
<1>8. PriceKept'
  BY <1>1, <1>2, Times DEF PriceKept, InCall, CallValues, Out, NoPrice
<1>9. FiatOK' /\ RowsSeen'
  BY DEF FiatOK, RowsSeen, At
<1>10. QED
  BY <1>3, <1>4, <1>5, <1>6, <1>7, <1>8, <1>9

LEMMA FallbackStep ==
    ASSUME IInv, NEW r \in Requests, At(r, "price"), Fallback(r),
           UNCHANGED <<entry, fiat, request>>
    PROVE  IInv'
<1> DEFINE v == IF price.valid THEN price.value ELSE NoPrice
<1>1. /\ call[r] # Out /\ request[r] # Idle
      /\ call[r].value \in Nat /\ request[r].start \in Nat
  BY InsidePriceUSD DEF PriceStep
<1>2. /\ v \in Nat
      /\ v = NoPrice \/ (v >= StartTick /\ v <= now)
      /\ price.valid => v # NoPrice
  <2>1. CASE price.valid
    BY <2>1, PriceIsKnownOrNot, Times DEF IInv, Types, PriceOK, NoPrice
  <2>2. CASE ~price.valid
    BY <2>2 DEF NoPrice
  <2>3. QED
    BY <2>1, <2>2
<1>3. call[r].failed
  BY <1>1 DEF Fallback, IInv, CallHolds
<1>4. call' = [call EXCEPT ![r].pc = "back", ![r].value = v]
  BY DEF Fallback
<1> HIDE DEF v
<1>5. /\ call' \in [Requests -> CallValues]
      /\ UNCHANGED <<now, price>>
  <2>1. [call EXCEPT ![r].pc = "back", ![r].value = v] \in [Requests -> CallValues]
    BY <1>1, <1>2, CallUpdate DEF IInv
  <2>2. QED
    BY <1>4, <2>1 DEF Fallback
<1> USE DEF IInv, Types, Requests
<1>6. Types'
  BY <1>5
<1>7. ServedSoon' /\ PriceOK' /\ EntryOK'
  BY <1>5 DEF ServedSoon, PriceOK, EntryOK
<1>8. CallPlace'
  BY <1>1, <1>4 DEF CallPlace, InCall, At, CallValues, Out
<1>9. CallHolds'
  BY <1>1, <1>2, <1>3, <1>4, <1>5 DEF CallHolds, InCall, At, CallValues, Out
<1>10. PriceKept'
  BY <1>1, <1>2, <1>4, <1>5 DEF PriceKept, InCall, CallValues, Out
<1>11. FiatOK' /\ RowsSeen'
  BY <1>4, <1>5 DEF FiatOK, RowsSeen, At
<1>12. QED
  BY <1>6, <1>7, <1>8, <1>9, <1>10, <1>11

----------------------------------------------------------------------------
(* Steps of the handler.                                                   *)

LEMMA AdvanceStep ==
    ASSUME IInv, Advance
    PROVE  IInv'
<1> USE Times, PriceIsKnownOrNot DEF IInv, Types, Requests, Advance, priceVars
<1>1. Types'
  OBVIOUS
<1>2. ServedSoon'
  BY DEF ServedSoon, At, RequestValues, Idle
<1>3. PriceOK'
  BY DEF PriceOK
<1>4. EntryOK' /\ CallPlace' /\ PriceKept' /\ FiatOK'
  BY DEF EntryOK, CallPlace, PriceKept, FiatOK, At, InCall
<1>5. CallHolds'
  BY DEF CallHolds, InCall, CallValues, Out
<1>6. RowsSeen'
  <2>1. entry.valid => Seen(entry.rows, now + 1)
    <3>1. ASSUME entry.valid
          PROVE  Seen(entry.rows, now + 1)
      <4>1. entry.rows \in Lists /\ Seen(entry.rows, now) /\ now \in Nat
        BY <3>1, EntryHasList DEF RowsSeen
      <4>2. QED
        BY <4>1, SeenLater
    <3>2. QED
      BY <3>1
  <2>2. QED
    BY <2>1 DEF RowsSeen
<1>7. QED
  BY <1>1, <1>2, <1>3, <1>4, <1>5, <1>6

(* The list of a request that finds nothing is one of the lists.           *)
LEMMA EmptyList == <<>> \in Lists
  BY DEF Lists

LEMMA ArriveStep ==
    ASSUME IInv, NEW r \in Requests, Arrive(r)
    PROVE  IInv'
<1>1. PICK known \in BOOLEAN :
          request' = [request EXCEPT ![r] =
              [pc |-> "rewards", start |-> now, known |-> known, rows |-> <<>>,
               owner |-> r, info |-> {}]]
  BY DEF Arrive
<1>2. UNCHANGED <<now, price, call, entry, fiat>> /\ request[r].pc = "idle"
  BY DEF Arrive, priceVars, At
<1>3. now \in Nat /\ now >= StartTick /\ now - now <= MaxServeTicks
  BY Times DEF IInv, Types
<1>4. [pc |-> "rewards", start |-> now, known |-> known, rows |-> <<>>,
       owner |-> r, info |-> {}] \in RequestValues
  BY <1>3, EmptyList DEF RequestValues, Infos
<1>5. call[r] = Out
  BY <1>2 DEF IInv, CallPlace, At
<1> USE DEF IInv, Types, Requests
<1>6. Types'
  BY <1>1, <1>2, <1>4
<1>7. ServedSoon'
  BY <1>1, <1>2, <1>3 DEF ServedSoon
<1>8. PriceOK' /\ EntryOK'
  BY <1>2 DEF PriceOK, EntryOK
<1>9. CallPlace'
  BY <1>1, <1>2, <1>5 DEF CallPlace, At, InCall
<1>10. CallHolds'
  BY <1>1, <1>2, <1>5 DEF CallHolds, InCall
<1>11. PriceKept'
  BY <1>2 DEF PriceKept, InCall
<1>12. FiatOK'
  BY <1>1, <1>2 DEF FiatOK, At
<1>13. RowsSeen'
  <2>1. \A tick : Seen(<<>>, tick)
    BY DEF Seen
  <2>2. QED
    BY <1>1, <1>2, <2>1 DEF RowsSeen
<1>14. QED
  BY <1>6, <1>7, <1>8, <1>9, <1>10, <1>11, <1>12, <1>13

(* A request goes on, with other rows or epoch information.                *)
LEMMA RequestUpdate ==
    ASSUME Types, NEW r \in Requests, request[r] # Idle,
           NEW place \in {"price", "render"},
           NEW list \in Lists, NEW epochInfo \in Infos
    PROVE  /\ [request EXCEPT ![r].pc = place, ![r].rows = list, ![r].owner = r]
                  \in [Requests -> RequestValues]
           /\ [request EXCEPT ![r].pc = place, ![r].rows = list]
                  \in [Requests -> RequestValues]
           /\ [request EXCEPT ![r].pc = place, ![r].info = epochInfo]
                  \in [Requests -> RequestValues]
<1>1. request[r] \in [pc : {"rewards", "price", "render"}, start : Nat, known : BOOLEAN,
                      rows : Lists, owner : Requests, info : Infos]
  BY DEF Types, RequestValues
<1>2. /\ [request[r] EXCEPT !.pc = place, !.rows = list, !.owner = r] \in RequestValues
      /\ [request[r] EXCEPT !.pc = place, !.rows = list] \in RequestValues
      /\ [request[r] EXCEPT !.pc = place, !.info = epochInfo] \in RequestValues
  BY <1>1 DEF RequestValues
<1>3. QED
  BY <1>2 DEF Types

(* What the handler's steps before the price have in common: the request   *)
(* gets its rows.                                                          *)
LEMMA RowsStep ==
    ASSUME IInv, NEW r \in Requests, At(r, "rewards"), UNCHANGED <<now, price, call>>,
           request' \in [Requests -> RequestValues],
           request'[r].pc = "price",
           request'[r].start = request[r].start, request'[r].owner = r,
           \A q \in Requests \ {r} : request'[q] = request[q] /\ fiat'[q] = fiat[q],
           fiat' \in [Requests \cup {CacheEntry} -> Nat],
           fiat'[r] = NoPrice,
           entry' \in EntryValues, EntryOK', entry'.valid => Seen(entry'.rows, now),
           Seen(request'[r].rows, request[r].start + MaxServeTicks)
    PROVE  IInv'
<1>1. request[r] # Idle /\ call[r] = Out
  BY DEF IInv, CallPlace, At, Idle
<1> USE <1>1 DEF IInv, Types, Requests
<1>2. Types'
  OBVIOUS
<1>3. ServedSoon'
  BY DEF ServedSoon
<1>4. PriceOK'
  BY DEF PriceOK
<1>5. CallPlace'
  BY DEF CallPlace, At, InCall
<1>6. CallHolds'
  BY DEF CallHolds, InCall
<1>7. PriceKept'
  BY DEF PriceKept, InCall
<1>8. FiatOK' /\ RowsSeen'
  BY DEF FiatOK, RowsSeen, At
<1>9. QED
  BY <1>2, <1>3, <1>4, <1>5, <1>6, <1>7, <1>8

LEMMA CacheHitStep ==
    ASSUME IInv, NEW r \in Requests, CacheHit(r)
    PROVE  IInv'
<1>1. At(r, "rewards") /\ request[r] # Idle
  BY DEF CacheHit, At, Idle
<1>2. entry.valid /\ entry.rows \in Lists
  BY EntryHasList DEF CacheHit, Live, IInv
<1>3. request' = [request EXCEPT ![r].pc = "price", ![r].rows = entry.rows,
                                 ![r].owner = r]
  BY DEF CacheHit, CloneRewardRows
<1>4. request' \in [Requests -> RequestValues]
  BY <1>1, <1>2, <1>3, RequestUpdate DEF IInv, Infos
<1>5. /\ request'[r].pc = "price"
      /\ request'[r].start = request[r].start /\ request'[r].owner = r
      /\ \A q \in Requests \ {r} : request'[q] = request[q]
  BY <1>1, <1>3 DEF IInv, Types, RequestValues
<1>6. /\ fiat' \in [Requests \cup {CacheEntry} -> Nat]
      /\ fiat'[r] = NoPrice
      /\ \A q \in Requests \ {r} : fiat'[q] = fiat[q]
  BY DEF CacheHit, IInv, Types, NoPrice
<1>7. UNCHANGED <<now, price, call, entry>> /\ EntryOK'
  BY DEF CacheHit, priceVars, IInv, EntryOK
<1>8. entry' \in EntryValues
  BY <1>7 DEF IInv, Types
<1>9. Seen(entry.rows, now) /\ Seen(entry.rows, request[r].start + MaxServeTicks)
  <2>1. Seen(entry.rows, now) /\ now \in Nat /\ request[r].start \in Nat
        /\ now - request[r].start <= MaxServeTicks
    BY <1>1, <1>2, Times DEF IInv, Types, RequestValues, RowsSeen, ServedSoon
  <2>2. now <= request[r].start + MaxServeTicks /\ request[r].start + MaxServeTicks \in Nat
    BY <2>1, Times
  <2>3. QED
    BY <1>2, <2>1, <2>2, SeenLater
<1>10. request'[r].rows = entry.rows
  BY <1>1, <1>3 DEF IInv, Types, RequestValues
<1>11. QED
  BY <1>1, <1>4, <1>5, <1>6, <1>7, <1>8, <1>9, <1>10, RowsStep

(* The end of the current epoch is not before the present.                 *)
LEMMA EpochEndsLater ==
    ASSUME NEW tick \in Nat
    PROVE  EndTime(EpochAt(tick)) \in Nat /\ EndTime(EpochAt(tick)) >= tick
<1>1. EpochTicks \in Nat \ {0}
  BY ReturnsAssumption
<1>2. /\ tick \div EpochTicks \in Nat
      /\ tick % EpochTicks < EpochTicks
      /\ tick = EpochTicks * (tick \div EpochTicks) + (tick % EpochTicks)
      /\ tick % EpochTicks \in Nat
  BY <1>1
<1>3. (tick \div EpochTicks + 1) * EpochTicks
          = EpochTicks * (tick \div EpochTicks) + EpochTicks
  BY <1>1, <1>2
<1>4. QED
  BY <1>1, <1>2, <1>3 DEF EndTime, EpochAt

LEMMA CollectStep ==
    ASSUME IInv, NEW r \in Requests, Collect(r)
    PROVE  IInv'
<1>1. At(r, "rewards") /\ request[r] # Idle
  BY DEF Collect, At, Idle
<1>2. PICK rows \in {<<>>, Collected(request[r].start, request[r].known)} :
          /\ request' = [request EXCEPT ![r].pc = "price", ![r].rows = rows]
          /\ entry' \in {NoEntry, [valid |-> TRUE, rows |-> rows,
                                    expiresAt |-> EndTime(EpochAt(now))]}
  BY DEF Collect
<1>3. now \in Nat /\ now >= StartTick
  BY Times DEF IInv, Types
<1>4. rows \in Lists
  <2>1. request[r].start \in Starts /\ request[r].known \in BOOLEAN
    <3>1. request[r].start \in Nat /\ request[r].known \in BOOLEAN
      BY <1>1 DEF IInv, Types, RequestValues
    <3>2. QED
      BY <1>1, <3>1, Times DEF IInv, Types, ServedSoon, Starts
  <2>2. QED
    BY <2>1 DEF Lists
<1>5. request' \in [Requests -> RequestValues]
  BY <1>1, <1>2, <1>4, RequestUpdate DEF IInv, Infos
<1>6. /\ request'[r].pc = "price"
      /\ request'[r].start = request[r].start /\ request'[r].owner = r
      /\ \A q \in Requests \ {r} : request'[q] = request[q]
  BY <1>1, <1>2 DEF IInv, Types, RequestValues, ServedSoon
<1>7. /\ fiat' \in [Requests \cup {CacheEntry} -> Nat]
      /\ fiat'[r] = NoPrice
      /\ \A q \in Requests \ {r} : fiat'[q] = fiat[q]
  BY Times DEF Collect, IInv, Types, NoPrice, Requests, CacheEntry
<1>8. EndTime(EpochAt(now)) \in Nat /\ EndTime(EpochAt(now)) >= StartTick
  BY <1>3, EpochEndsLater, Times
<1>9. entry' \in EntryValues /\ EntryOK'
  <2>1. CASE entry' = NoEntry
    BY <2>1 DEF EntryValues, EntryOK, NoEntry
  <2>2. CASE entry' = [valid |-> TRUE, rows |-> rows,
                       expiresAt |-> EndTime(EpochAt(now))]
    BY <1>4, <1>8, <2>2 DEF EntryValues, EntryOK
  <2>3. QED
    BY <1>2, <2>1, <2>2
<1>10. UNCHANGED <<now, price, call>>
  BY DEF Collect, priceVars
<1>11. Seen(rows, now) /\ Seen(rows, request[r].start + MaxServeTicks)
  <2>1. request[r].start \in Nat /\ request[r].start <= now /\ request[r].known \in BOOLEAN
        /\ request[r].start + MaxServeTicks \in Nat
    BY <1>1, Times DEF IInv, Types, RequestValues, ServedSoon
  <2>2. Seen(rows, request[r].start)
    <3>1. CASE rows = <<>>
      BY <3>1 DEF Seen
    <3>2. CASE rows = Collected(request[r].start, request[r].known)
      BY <2>1, <3>2, CollectedIsSeen
    <3>3. QED
      BY <3>1, <3>2
  <2>3. request[r].start <= request[r].start + MaxServeTicks
    BY <2>1, Times
  <2>4. QED
    BY <1>3, <1>4, <2>1, <2>2, <2>3, SeenLater
<1>12. request'[r].rows = rows /\ (entry'.valid => entry'.rows = rows)
  <2>1. request'[r].rows = rows
    BY <1>1, <1>2 DEF IInv, Types, RequestValues
  <2>2. QED
    BY <1>2, <2>1 DEF NoEntry
<1>13. QED
  BY <1>1, <1>5, <1>6, <1>7, <1>9, <1>10, <1>11, <1>12, RowsStep

LEMMA AnalyseStep ==
    ASSUME IInv, NEW r \in Requests, Analyse(r)
    PROVE  IInv'
<1>1. /\ At(r, "price") /\ request[r] # Idle
      /\ InCall(r, "back") /\ call[r] # Out
  BY DEF Analyse, At, InCall, Idle, Out
<1>2. /\ call[r].value \in Nat
      /\ fiat[r] = NoPrice /\ request[r].owner = r
  BY <1>1 DEF IInv, Types, CallValues, FiatOK, At, ServedSoon
<1>3. PICK epochInfo \in {{}, {now % EpochTicks}} :
          request' = [request EXCEPT ![r].pc = "render", ![r].info = epochInfo]
  BY DEF Analyse
<1>4. epochInfo \in Infos
  <2>1. now \in Nat /\ EpochTicks \in Nat \ {0}
    BY ReturnsAssumption, Times DEF IInv, Types
  <2>2. now % EpochTicks \in 0..(EpochTicks - 1)
    BY <2>1
  <2>3. QED
    BY <1>3, <2>2 DEF Infos
<1>5. request' \in [Requests -> RequestValues]
  <2>1. request[r].rows \in Lists
    BY <1>1 DEF IInv, Types, RequestValues
  <2>2. QED
    BY <1>1, <1>3, <1>4, <2>1, RequestUpdate DEF IInv, Infos
<1>6. /\ request'[r] # Idle /\ request'[r].pc = "render"
      /\ request'[r].start = request[r].start /\ request'[r].owner = r
      /\ request'[r].rows = request[r].rows
      /\ \A q \in Requests \ {r} : request'[q] = request[q]
  BY <1>1, <1>2, <1>3 DEF IInv, Types, RequestValues, Idle
<1>7. /\ fiat' \in [Requests \cup {CacheEntry} -> Nat]
      /\ \A q \in Requests \ {r} : fiat'[q] = fiat[q]
      /\ fiat'[r] = NoPrice \/ fiat'[r] = call[r].value
      /\ request[r].rows # <<>> => fiat'[r] = call[r].value
  BY <1>2 DEF Analyse, IInv, Types
<1>8. UNCHANGED <<now, price, call, entry>>
  BY DEF Analyse, priceVars
<1> USE DEF IInv, Types, Requests
<1>9. Types'
  BY <1>5, <1>7, <1>8
<1>10. ServedSoon'
  BY <1>1, <1>6, <1>8 DEF ServedSoon
<1>11. PriceOK' /\ EntryOK'
  BY <1>8 DEF PriceOK, EntryOK
<1>12. CallPlace'
  BY <1>1, <1>6, <1>8 DEF CallPlace, At, InCall
<1>13. CallHolds'
  BY <1>6, <1>8 DEF CallHolds, InCall
<1>14. PriceKept'
  BY <1>8 DEF PriceKept, InCall
<1>15. FiatOK'
  BY <1>6, <1>7, <1>8 DEF FiatOK, At
<1>16. RowsSeen'
  BY <1>1, <1>6, <1>8 DEF RowsSeen
<1>17. QED
  BY <1>9, <1>10, <1>11, <1>12, <1>13, <1>14, <1>15, <1>16

LEMMA RenderStep ==
    ASSUME IInv, NEW r \in Requests, Render(r)
    PROVE  IInv'
<1> USE DEF IInv, Types, Requests, Render
<1>1. Types'
  BY DEF RequestValues, CallValues, NoPrice
<1>2. ServedSoon'
  BY DEF ServedSoon
<1>3. PriceOK' /\ EntryOK'
  BY DEF PriceOK, EntryOK
<1>4. CallPlace'
  BY DEF CallPlace, At, InCall, Idle
<1>5. CallHolds'
  BY DEF CallHolds, InCall
<1>6. PriceKept'
  BY DEF PriceKept, InCall
<1>7. FiatOK'
  BY Times DEF FiatOK, At, Idle, NoPrice, CacheEntry
<1>8. RowsSeen'
  BY DEF RowsSeen, Idle
<1>9. QED
  BY <1>1, <1>2, <1>3, <1>4, <1>5, <1>6, <1>7, <1>8

LEMMA Inductive == IInv /\ [Next]_vars => IInv'
<1> SUFFICES ASSUME IInv, [Next]_vars
             PROVE  IInv'
  OBVIOUS
<1>1. CASE Advance
  BY <1>1, AdvanceStep
<1>2. ASSUME NEW r \in Requests, GetSOLPrice(r)
      PROVE  IInv'
  <2>1. At(r, "price") /\ UNCHANGED <<entry, fiat, request>>
    BY <1>2 DEF GetSOLPrice
  <2>2. PriceUSD(r) \/ Cached(r) \/ NotInCache(r) \/ Fetch(r) \/ Store(r) \/ Fallback(r)
    BY <1>2 DEF GetSOLPrice, PriceStep
  <2>3. QED
    BY <2>1, <2>2, PriceUSDStep, CachedStep, NotInCacheStep, FetchStep, StoreStep,
       FallbackStep
<1>3. ASSUME NEW r \in Requests,
             Arrive(r) \/ CacheHit(r) \/ Collect(r) \/ Analyse(r) \/ Render(r)
      PROVE  IInv'
  BY <1>3, ArriveStep, CacheHitStep, CollectStep, AnalyseStep, RenderStep
<1>4. CASE UNCHANGED vars
  BY <1>4 DEF vars, priceVars, IInv, Types, ServedSoon, PriceOK, EntryOK, CallPlace,
              CallHolds, PriceKept, FiatOK, RowsSeen, At, InCall
<1>5. QED
  BY <1>1, <1>2, <1>3, <1>4 DEF Next

(* The inductive invariant holds in every reachable state.                 *)
THEOREM Invariance == Spec => []IInv
  BY Initial, Inductive, PTL DEF Spec

----------------------------------------------------------------------------
(* The properties.                                                         *)

(* Every variable of the handler keeps to its values (handleWallet,        *)
(* solPriceRepository).                                                    *)
THEOREM TypeCorrect == Spec => []TypeOK
<1>1. ASSUME IInv
      PROVE  TypeOK
  <2> USE <1>1 DEF IInv
  <2>1. now \in StartTick..LastTick /\ now \in Nat
    BY Times DEF Types
  <2>2. price.valid => /\ price.value \in StartTick..price.storedAt
                       /\ price.storedAt <= now
    BY <2>1, PriceIsKnownOrNot, Times DEF PriceOK
  <2>3. ASSUME NEW r \in Requests, request[r] # Idle
        PROVE  /\ request[r].pc \in {"rewards", "price", "render"}
               /\ request[r].owner \in DOMAIN fiat
               /\ fiat[r] \in {NoPrice} \cup StartTick..now
    <3>1. request[r].pc \in {"rewards", "price", "render"} /\ request[r].owner \in Requests
      BY <2>3 DEF Types, RequestValues
    <3>2. fiat[r] \in {NoPrice} \cup StartTick..now
      <4>1. CASE ~At(r, "render")
        BY <4>1 DEF FiatOK
      <4>2. CASE At(r, "render")
        <5>1. InCall(r, "back") /\ call[r] # Out
          BY <4>2 DEF CallPlace, InCall, Out
        <5>2. call[r].value \in Nat
          BY <5>1 DEF Types, CallValues
        <5>3. QED
          BY <2>1, <4>2, <5>1, <5>2, Times DEF FiatOK, CallHolds
      <4>3. QED
        BY <4>1, <4>2
    <3>3. QED
      BY <3>1, <3>2 DEF Types
  <2>4. QED
    BY <2>1, <2>2, <2>3 DEF TypeOK, EntryOK
<1>2. QED
  BY <1>1, Invariance, PTL

(* No page shows a price older than the cache's hour and the time of two   *)
(* requests, unless its own call to the price API failed (PriceUSD).       *)
THEOREM PriceIsFresh == Spec => []PriceFresh
<1>1. ASSUME IInv
      PROVE  PriceFresh
  <2>1. SUFFICES ASSUME NEW r \in Requests, At(r, "render"),
                        call[r].value # NoPrice, ~call[r].failed
                 PROVE  now - call[r].value <= PriceTTL + 2 * MaxServeTicks
    BY DEF PriceFresh
  <2>2. InCall(r, "back") /\ call[r] # Out /\ request[r] # Idle
    BY <1>1, <2>1 DEF IInv, CallPlace, InCall, Out, At, Idle
  <2>3. call[r].value \in Nat /\ request[r].start \in Nat /\ now \in Nat
    BY <1>1, <2>2, Times DEF IInv, Types, CallValues, RequestValues
  <2>4. /\ request[r].start - call[r].value <= PriceTTL + MaxServeTicks
        /\ now - request[r].start <= MaxServeTicks
    BY <1>1, <2>1, <2>2 DEF IInv, CallHolds, ServedSoon
  <2>5. QED
    BY <2>3, <2>4, SolPriceAssumption, Times
<1>2. QED
  BY <1>1, Invariance, PTL

(* Once a price is known, no page is without one (PriceUSD's fallback).    *)
THEOREM PriceIsServed == Spec => []PriceServed
<1>1. ASSUME IInv
      PROVE  PriceServed
  BY <1>1 DEF IInv, CallPlace, PriceKept, PriceServed, InCall, Out
<1>2. QED
  BY <1>1, Invariance, PTL

(* The fiat values in the rows of a page are of its own price, whoever     *)
(* else takes rows from the same entry (cloneRewardRows).                  *)
THEOREM FiatIsOwn == Spec => []FiatOfOwnPrice
<1>1. ASSUME IInv
      PROVE  FiatOfOwnPrice
  BY <1>1 DEF IInv, FiatOK, ServedSoon, FiatOfOwnPrice, At, Idle
<1>2. QED
  BY <1>1, Invariance, PTL

----------------------------------------------------------------------------
(* The chart.                                                              *)

(* The bar of a reward is the one of its calendar week.                    *)
LEMMA BarOfWeek ==
    ASSUME NEW t \in Nat, NEW asOf \in Nat, NEW week \in Int
    PROVE  WeeksBetween(WindowStart(asOf), WeekFloor(t)) = week - 1
              <=> t >= Monday(asOf, week) /\ t < Monday(asOf, week + 1)
<1>1. WeekTicks \in Nat \ {0} /\ LookbackWeeks \in Nat
  BY ReturnsAssumption
<1>2. PICK k \in Nat, part \in 0..(WeekTicks - 1) :
         t = k * WeekTicks + part /\ WeekFloor(t) = k * WeekTicks
  BY WeekParts
<1>3. PICK j \in Nat : WeekFloor(asOf) = j * WeekTicks
  BY WeekParts
<1> DEFINE first == j - LookbackWeeks
           d == k - first
<1>4. WindowStart(asOf) = first * WeekTicks
  BY <1>1, <1>3 DEF WindowStart
<1>5. WeekFloor(t) - WindowStart(asOf) = d * WeekTicks
  BY <1>1, <1>2, <1>4
<1>6. WeeksBetween(WindowStart(asOf), WeekFloor(t)) = d
  BY <1>1, <1>5, WholeWeeks DEF WeeksBetween
<1>7. /\ Monday(asOf, week) = (first + week - 1) * WeekTicks
      /\ Monday(asOf, week + 1) = (first + week) * WeekTicks
  BY <1>1, <1>4 DEF Monday
<1>8. /\ t >= Monday(asOf, week) <=> k >= first + week - 1
      /\ t >= Monday(asOf, week + 1) <=> k >= first + week
  <2>1. k \in Int /\ first + week - 1 \in Int /\ first + week \in Int
    BY <1>1
  <2> HIDE DEF first
  <2>2. QED
    BY <1>2, <1>7, <2>1, MultiplesOrdered
<1>9. t \in Int /\ Monday(asOf, week + 1) \in Int
  BY <1>1, <1>7
<1>10. WeeksBetween(WindowStart(asOf), WeekFloor(t)) = week - 1 <=> k = first + week - 1
  BY <1>1, <1>6
<1>11. k = first + week - 1 <=> k >= first + week - 1 /\ ~(k >= first + week)
  BY <1>1
<1>12. t < Monday(asOf, week + 1) <=> ~(t >= Monday(asOf, week + 1))
  BY <1>9
<1>13. QED
  BY <1>8, <1>10, <1>11, <1>12

(* What the sum counts until the week's end has a bar.                     *)
LEMMA HasBar ==
    ASSUME NEW t \in Nat, NEW asOf \in Nat, t + MetricTicks >= asOf, t < WindowEnd(asOf)
    PROVE  \E week \in 1..ChartWeeks :
              WeeksBetween(WindowStart(asOf), WeekFloor(t)) = week - 1
<1>1. WeekTicks \in Nat \ {0} /\ LookbackWeeks \in Nat /\ ChartWeeks = LookbackWeeks + 1
      /\ MetricTicks = LookbackWeeks * WeekTicks
  BY ReturnsAssumption DEF ChartWeeks
<1>2. PICK k \in Nat, part \in 0..(WeekTicks - 1) :
         t = k * WeekTicks + part /\ WeekFloor(t) = k * WeekTicks
  BY WeekParts
<1>3. PICK j \in Nat, rest \in 0..(WeekTicks - 1) :
         asOf = j * WeekTicks + rest /\ WeekFloor(asOf) = j * WeekTicks
  BY WeekParts
<1> DEFINE first == j - LookbackWeeks
           d == k - first
<1>4. WindowStart(asOf) = first * WeekTicks
  BY <1>1, <1>3 DEF WindowStart
<1>5. WeekFloor(t) - WindowStart(asOf) = d * WeekTicks
  BY <1>1, <1>2, <1>4
<1>6. WeeksBetween(WindowStart(asOf), WeekFloor(t)) = d
  BY <1>1, <1>5, WholeWeeks DEF WeeksBetween
<1>7. k >= first
  <2>1. t >= first * WeekTicks
    BY <1>1, <1>3
  <2>2. k \in Int /\ first \in Int
    BY <1>1
  <2> HIDE DEF first
  <2>3. QED
    BY <1>2, <2>1, <2>2, MultiplesOrdered
<1>8. ~(k >= j + 1)
  <2>1. ~(t >= (j + 1) * WeekTicks)
    BY <1>1, <1>3 DEF WindowEnd
  <2>2. QED
    BY <1>2, <2>1, MultiplesOrdered
<1>9. d \in 0..LookbackWeeks
  BY <1>1, <1>7, <1>8
<1>10. d + 1 \in 1..ChartWeeks /\ d = (d + 1) - 1
  BY <1>1, <1>9
<1>11. QED
  BY <1>6, <1>10

(* The page is right whatever list it has, and whenever it was asked for.  *)
LEMMA ChartRight ==
    ASSUME NEW start \in Starts, NEW list \in Lists
    PROVE  ChartIsRight(start, Rows(list))
<1> DEFINE rows == Rows(list)
           n == Len(list)
           InWeek(week, row) == WeeksBetween(WindowStart(start), WeekFloor(row.at)) = week - 1
           bars == Bars(start, rows)
           y == [week \in 1..ChartWeeks |->
                    [i \in 1..n |-> IF InWeek(week, rows[i]) THEN rows[i].amount ELSE 0]]
           x == [i \in 1..n |-> IF rows[i].at + MetricTicks >= start THEN rows[i].amount ELSE 0]
           rest == [i \in 1..n |-> IF rows[i].at >= WindowEnd(start) THEN rows[i].amount ELSE 0]
<1>1. /\ n \in Nat /\ DOMAIN rows = 1..n
      /\ \A i \in 1..n : rows[i].at \in Nat /\ rows[i].amount \in Nat
  BY RowsOfList
<1>2. ChartWeeks \in Nat /\ start \in Nat /\ WindowEnd(start) \in Int
  BY ReturnsAssumption, Times DEF ChartWeeks, Starts, WindowEnd, WeekFloor
<1>3. /\ bars = [week \in 1..ChartWeeks |-> SumSeq(y[week])]
      /\ MetricSum(start, rows) = SumSeq(x)
      /\ Total(rows, LAMBDA row : row.at >= WindowEnd(start)) = SumSeq(rest)
  <2> HIDE DEF rows, n
  <2>1. bars = [week \in 1..ChartWeeks |-> SumSeq(y[week])]
    BY <1>1 DEF Bars, Total
  <2>2. MetricSum(start, rows) = SumSeq(x)
    BY <1>1 DEF MetricSum, Total
  <2>3. Total(rows, LAMBDA row : row.at >= WindowEnd(start)) = SumSeq(rest)
    BY <1>1 DEF Total
  <2>4. QED
    BY <2>1, <2>2, <2>3
<1> HIDE DEF rows, n, bars
<1>4. ASSUME NEW week \in DOMAIN bars
      PROVE  bars[week] = Total(rows, LAMBDA row : row.at >= Monday(start, week)
                                                   /\ row.at < Monday(start, week + 1))
  <2>1. week \in 1..ChartWeeks /\ week \in Int
    BY <1>2, <1>3
  <2>2. \A i \in 1..n : InWeek(week, rows[i])
           <=> rows[i].at >= Monday(start, week) /\ rows[i].at < Monday(start, week + 1)
    BY <1>1, <1>2, <2>1, BarOfWeek
  <2>3. y[week] = [i \in 1..n |-> IF rows[i].at >= Monday(start, week)
                                       /\ rows[i].at < Monday(start, week + 1)
                                  THEN rows[i].amount ELSE 0]
    BY <2>1, <2>2
  <2>4. bars[week] = SumSeq(y[week])
    BY <1>3, <2>1
  <2>5. QED
    BY <1>1, <2>3, <2>4 DEF Total
<1>5. x \in [1..n -> Nat] /\ rest \in [1..n -> Nat] /\ y \in [1..ChartWeeks -> [1..n -> Nat]]
  BY <1>1
<1>6. ASSUME NEW i \in 1..n
      PROVE  x[i] <= SumSeq([week \in 1..ChartWeeks |-> y[week][i]]) + rest[i]
  <2> DEFINE heaps == [week \in 1..ChartWeeks |-> y[week][i]]
  <2>1. heaps \in [1..ChartWeeks -> Nat] /\ x[i] \in Nat /\ rest[i] \in Nat
    BY <1>5
  <2>2. SumSeq(heaps) \in Nat /\ \A week \in 1..ChartWeeks : heaps[week] <= SumSeq(heaps)
    <3> HIDE DEF heaps
    <3>1. QED
      BY <1>2, <2>1, SumIsMost
  <2>3. CASE x[i] = 0
    BY <2>1, <2>2, <2>3
  <2>4. CASE rows[i].at >= WindowEnd(start)
    <3>1. rest[i] = rows[i].amount /\ x[i] <= rows[i].amount
      BY <1>1, <2>4
    <3>2. QED
      BY <2>1, <2>2, <3>1
  <2>5. CASE x[i] # 0 /\ ~(rows[i].at >= WindowEnd(start))
    <3>1. x[i] = rows[i].amount /\ rows[i].at + MetricTicks >= start
      BY <2>5
    <3>2. rows[i].at < WindowEnd(start)
      BY <1>1, <1>2, <2>5
    <3>3. PICK week \in 1..ChartWeeks : InWeek(week, rows[i])
      BY <1>1, <1>2, <3>1, <3>2, HasBar
    <3>4. heaps[week] = rows[i].amount
      BY <3>3
    <3>5. QED
      BY <2>1, <2>2, <3>1, <3>4
  <2>6. QED
    BY <2>3, <2>4, <2>5
<1>7. SumSeq(x) <= SumSeq([week \in 1..ChartWeeks |-> SumSeq(y[week])]) + SumSeq(rest)
  <2> HIDE DEF x, y, rest
  <2>1. QED
    BY <1>1, <1>2, <1>5, <1>6, SumOfSums
<1>8. MetricSum(start, rows)
         <= SumSeq(bars) + Total(rows, LAMBDA row : row.at >= WindowEnd(start))
  BY <1>3, <1>7
<1>9. QED
  BY <1>4, <1>8 DEF ChartIsRight, rows, bars

(* The bars of a page's chart are the sums of its calendar weeks, and      *)
(* together they have every reward that the 28 day sum counts, but those   *)
(* of a later week.                                                        *)
THEOREM ChartsCoverMetric == Spec => []ChartCoversMetric
<1>1. ASSUME IInv, NEW r \in Requests, At(r, "render")
      PROVE  [start |-> request[r].start, rows |-> request[r].rows] \in ChartsRight
  <2>1. request[r].rows \in Lists /\ request[r].start \in Nat
    BY <1>1 DEF IInv, Types, RequestValues, At, Idle
  <2>2. request[r].start \in Starts
    BY <1>1, <2>1, Times DEF IInv, Types, ServedSoon, Starts, At, Idle
  <2>3. ChartIsRight(request[r].start, Rows(request[r].rows))
    BY <2>1, <2>2, ChartRight
  <2>4. QED
    BY <2>1, <2>2, <2>3 DEF ChartsRight
<1>2. IInv => ChartCoversMetric
  BY <1>1 DEF ChartCoversMetric
<1>3. QED
  BY Invariance, <1>2, PTL

----------------------------------------------------------------------------
(* The rates.                                                              *)

(* The ends of an interval of epochs are an epoch apart.                   *)
LEMMA EndsAreApart ==
    ASSUME NEW lo \in Nat, NEW hi \in Nat, lo <= hi,
           NEW ends, ends = {EndTime(e) : e \in lo..hi}
    PROVE  /\ Cardinality(ends) = hi - lo + 1
           /\ Max(ends) = EndTime(hi) /\ Min(ends) = EndTime(lo)
           /\ Max(ends) - Min(ends) = (hi - lo) * EpochTicks
<1>1. EpochTicks \in Nat \ {0}
  BY ReturnsAssumption
<1>2. ASSUME NEW i \in lo..hi, NEW j \in lo..hi, i < j
      PROVE  EndTime(i) \in Nat /\ EndTime(j) \in Nat /\ EndTime(i) < EndTime(j)
  <2>1. PICK d \in Nat : j = i + 1 + d
    BY <1>2, j - i - 1 \in Nat
  <2>2. i \in Nat /\ EndTime(i) \in Nat /\ d * EpochTicks \in Nat
    BY <1>1 DEF EndTime
  <2>3. EndTime(j) = EndTime(i) + EpochTicks + d * EpochTicks
    BY <1>1, <2>1, <2>2 DEF EndTime
  <2>4. QED
    BY <1>1, <2>2, <2>3
<1>3. \A i \in lo..hi : EndTime(i) \in Nat
  BY <1>1 DEF EndTime
<1>4. Cardinality(ends) = hi - lo + 1
  <2> DEFINE f == [e \in lo..hi |-> EndTime(e)]
  <2>1. f \in Bijection(lo..hi, ends)
    <3>1. f \in [lo..hi -> ends] /\ \A x \in ends : \E e \in lo..hi : f[e] = x
      OBVIOUS
    <3>2. \A i, j \in lo..hi : f[i] = f[j] => i = j
      <4>1. ASSUME NEW i \in lo..hi, NEW j \in lo..hi, i # j
            PROVE  f[i] # f[j]
        <5>1. i < j \/ j < i
          BY <4>1
        <5>2. QED
          BY <1>2, <5>1
      <4>2. QED
        BY <4>1
    <3> HIDE DEF f
    <3>3. QED
      BY <3>1, <3>2 DEF Bijection, Injection, Surjection, IsInjective
  <2>2. IsFiniteSet(lo..hi) /\ Cardinality(lo..hi) = hi - lo + 1
    BY FS_Interval
  <2> HIDE DEF f
  <2>3. QED
    BY <2>1, <2>2, FS_Bijection DEF ExistsBijection
<1>5. /\ EndTime(hi) \in ends /\ EndTime(lo) \in ends
      /\ \A x \in ends : x \in Nat /\ EndTime(lo) <= x /\ x <= EndTime(hi)
  <2>1. lo \in lo..hi /\ hi \in lo..hi
    OBVIOUS
  <2>2. ASSUME NEW e \in lo..hi
        PROVE  EndTime(lo) <= EndTime(e) /\ EndTime(e) <= EndTime(hi)
    <3>1. (lo = e \/ lo < e) /\ (e = hi \/ e < hi)
      OBVIOUS
    <3>2. EndTime(lo) \in Nat /\ EndTime(e) \in Nat /\ EndTime(hi) \in Nat
      BY <1>3, <2>1
    <3>3. lo < e => EndTime(lo) < EndTime(e)
      BY <1>2, <2>1
    <3>4. e < hi => EndTime(e) < EndTime(hi)
      BY <1>2, <2>1
    <3>5. QED
      BY <3>1, <3>2, <3>3, <3>4
  <2>3. QED
    BY <1>3, <2>1, <2>2
<1>6. Max(ends) = EndTime(hi)
  <2>1. Max(ends) \in ends /\ \A y \in ends : Max(ends) >= y
    BY <1>5 DEF Max
  <2>2. /\ Max(ends) \in Nat /\ EndTime(hi) \in Nat
        /\ EndTime(hi) <= Max(ends) /\ Max(ends) <= EndTime(hi)
    BY <1>5, <2>1
  <2>3. QED
    BY ONLY <2>2
<1>7. Min(ends) = EndTime(lo)
  <2>1. Min(ends) \in ends /\ \A y \in ends : Min(ends) <= y
    BY <1>5 DEF Min
  <2>2. /\ Min(ends) \in Nat /\ EndTime(lo) \in Nat
        /\ Min(ends) <= EndTime(lo) /\ EndTime(lo) <= Min(ends)
    BY <1>5, <2>1
  <2>3. QED
    BY ONLY <2>2
<1>8. EndTime(hi) - EndTime(lo) = (hi - lo) * EpochTicks
  BY <1>1 DEF EndTime
<1>9. QED
  BY <1>4, <1>6, <1>7, <1>8

(* The epochs of the window are an interval, and their ends the multiples  *)
(* of an epoch's length: estimateEpochDuration finds it.                   *)
LEMMA DurationIs ==
    ASSUME NEW start \in Nat, NEW known \in BOOLEAN
    PROVE  EpochDuration(Boundaries(start, known)) \in {FallbackTicks, EpochTicks}
<1> DEFINE m == EpochAt(start)
           S == {f \in 0..(m - 1) : known /\ EndTime(f) >= WindowStart(start)}
           ends == {b.end : b \in Boundaries(start, known)}
<1>1. EpochTicks \in Nat \ {0} /\ m \in Int
  BY ReturnsAssumption DEF EpochAt
<1>2. ends = {EndTime(e) : e \in S}
  <2>1. Boundaries(start, known) = {[epoch |-> e, end |-> EndTime(e)] : e \in S}
    BY DEF Boundaries
  <2> HIDE DEF S
  <2>2. \A b \in Boundaries(start, known) : \E e \in S : b.end = EndTime(e)
    BY <2>1
  <2>3. ASSUME NEW e \in S
        PROVE  \E b \in Boundaries(start, known) : b.end = EndTime(e)
    <3>1. [epoch |-> e, end |-> EndTime(e)] \in Boundaries(start, known)
      BY <2>1
    <3>2. [epoch |-> e, end |-> EndTime(e)].end = EndTime(e)
      OBVIOUS
    <3>3. QED
      BY <3>1, <3>2, Zenon
  <2>4. QED
    BY <2>2, <2>3
<1>3. WindowStart(start) \in Int
  BY ReturnsAssumption DEF WindowStart, WeekFloor
<1> HIDE DEF ends
<1>4. EpochDuration(Boundaries(start, known)) =
         IF Cardinality(ends) < 2 THEN FallbackTicks
         ELSE (Max(ends) - Min(ends)) \div (Cardinality(ends) - 1)
  BY DEF EpochDuration, ends
<1>5. CASE S = {}
  <2>1. ends = {}
    BY <1>2, <1>5
  <2>2. Cardinality(ends) = 0
    BY <2>1, FS_EmptySet
  <2>3. QED
    BY <1>4, <2>2
<1>6. CASE S # {}
  <2>1. S \subseteq Nat
    OBVIOUS
  <2>2. PICK lo \in S : \A f \in S : lo <= f
    <3> HIDE DEF S
    <3>1. QED
      BY <1>6, <2>1, LeastNumber
  <2> DEFINE hi == m - 1
  <2>3. lo \in Nat /\ hi \in Nat /\ lo <= hi /\ known /\ EndTime(lo) >= WindowStart(start)
    BY <1>1, <2>2
  <2>4. ASSUME NEW f \in lo..hi
        PROVE  f \in S
    <3>1. PICK d \in Nat : f = lo + d
      BY <2>3, f - lo \in Nat
    <3>2. EndTime(f) = EndTime(lo) + d * EpochTicks
      BY <1>1, <2>3, <3>1 DEF EndTime
    <3>3. EndTime(lo) \in Nat /\ d * EpochTicks \in Nat
      BY <1>1, <2>3 DEF EndTime
    <3>4. EndTime(f) >= WindowStart(start)
      BY <1>3, <2>3, <3>2, <3>3
    <3>5. QED
      BY <1>1, <2>3, <3>4
  <2>5. S = lo..hi
    <3>1. \A f \in S : f \in lo..hi
      BY <1>1, <2>2, <2>3
    <3> HIDE DEF S, hi
    <3>2. QED
      BY <2>4, <3>1
  <2> HIDE DEF S, hi, m
  <2>6. /\ Cardinality(ends) = hi - lo + 1
        /\ Max(ends) - Min(ends) = (hi - lo) * EpochTicks
    BY <1>2, <2>3, <2>5, EndsAreApart
  <2> DEFINE n == hi - lo
  <2>7. n \in Nat /\ Cardinality(ends) = n + 1 /\ (n + 1) - 1 = n
    BY <2>3, <2>6
  <2> HIDE DEF n
  <2>8. CASE n = 0
    BY <1>4, <2>7, <2>8
  <2>9. CASE n # 0
    <3>1. (n * EpochTicks) \div n = EpochTicks
      BY <1>1, <2>7, <2>9
    <3>2. Max(ends) - Min(ends) = n * EpochTicks
      BY <2>6 DEF n
    <3>3. EpochDuration(Boundaries(start, known)) = (n * EpochTicks) \div n
      BY <1>4, <2>7, <2>9, <3>2
    <3>4. QED
      BY <3>1, <3>3
  <2>10. QED
    BY <2>8, <2>9
<1>7. QED
  BY <1>5, <1>6

(* epochStartTime finds the end of the epoch before, if any.               *)
LEMMA StartIs ==
    ASSUME NEW start \in Nat, NEW known \in BOOLEAN, NEW epoch \in Nat \ {0}
    PROVE  \/ EpochStart(epoch, Boundaries(start, known)) = {}
           \/ EpochStart(epoch, Boundaries(start, known)) = {EndTime(epoch - 1)}
<1> DEFINE found == EpochStart(epoch, Boundaries(start, known))
<1>1. ASSUME NEW x \in found
      PROVE  x = EndTime(epoch - 1)
  <2>1. PICK b \in Boundaries(start, known) : b.epoch + 1 = epoch /\ x = b.end
    BY DEF EpochStart
  <2>2. b.epoch \in Int /\ b.end = EndTime(b.epoch)
    BY DEF Boundaries
  <2>3. b.epoch = epoch - 1
    BY <2>1, <2>2
  <2>4. QED
    BY <2>1, <2>2, <2>3
<1> HIDE DEF found
<1>2. found = {} \/ found = {EndTime(epoch - 1)}
  BY <1>1
<1>3. QED
  BY <1>2 DEF found

(* No flow is before this.                                                 *)
FirstTick == IF FallbackTicks <= EpochTicks THEN 0 ELSE EpochTicks - FallbackTicks

(* A reward of an epoch is paid after the start that buildCashFlows finds. *)
LEMMA RowStartsBefore ==
    ASSUME NEW start \in Nat, NEW known \in BOOLEAN, NEW row,
           row.at \in Nat, row.epoch \in Nat \ {0}, EndTime(row.epoch - 1) < row.at
    PROVE  StartsBefore(row, Boundaries(start, known), FirstTick)
<1> DEFINE duration == EpochDuration(Boundaries(start, known))
           known0 == EpochStart(row.epoch, Boundaries(start, known))
           end == EndTime(row.epoch - 1)
<1>1. /\ EpochTicks \in Nat \ {0} /\ FallbackTicks \in Nat \ {0}
      /\ duration \in {FallbackTicks, EpochTicks}
      /\ known0 = {} \/ known0 = {end}
  <2>1. EpochTicks \in Nat \ {0} /\ FallbackTicks \in Nat \ {0}
    BY ReturnsAssumption
  <2>2. duration \in {FallbackTicks, EpochTicks}
    BY DurationIs, Zenon
  <2>3. known0 = {} \/ known0 = {end}
    <3> DEFINE epoch == row.epoch
    <3>1. epoch \in Nat \ {0}
      OBVIOUS
    <3> HIDE DEF epoch
    <3>2. \/ EpochStart(epoch, Boundaries(start, known)) = {}
          \/ EpochStart(epoch, Boundaries(start, known)) = {EndTime(epoch - 1)}
      BY <3>1, StartIs, Zenon
    <3>3. QED
      BY <3>2 DEF epoch
  <2>4. QED
    BY <2>1, <2>2, <2>3
<1>2. end \in Nat /\ end >= EpochTicks
  <2>1. PICK k \in Nat : row.epoch = k + 1
    BY row.epoch - 1 \in Nat
  <2>2. end = (k + 1) * EpochTicks
    BY <2>1 DEF EndTime
  <2>3. (k + 1) * EpochTicks = k * EpochTicks + EpochTicks /\ k * EpochTicks \in Nat
    BY <1>1
  <2>4. QED
    BY <1>1, <2>2, <2>3
<1> HIDE DEF end, duration, known0
<1>3. end < row.at
  BY DEF end
<1>4. FirstTick <= row.at - duration /\ FirstTick <= end /\ end \in Int
  BY <1>1, <1>2, <1>3 DEF FirstTick
<1>5. QED
  BY <1>1, <1>3, <1>4 DEF StartsBefore, duration, known0

(* The rows of a stake are rows of the list.                               *)
LEMMA RowsOfStake ==
    ASSUME NEW n \in Nat, NEW rows, DOMAIN rows = 1..n, NEW who
    PROVE  \E m \in Nat : /\ DOMAIN RowsOf(rows, who) = 1..m
                          /\ RowsOf(rows, who) # <<>> => m # 0
                          /\ \A k \in 1..m : \E i \in 1..n : RowsOf(rows, who)[k] = rows[i]
<1> DEFINE places == {i \in DOMAIN rows : PartOf(who, rows[i].validator)}
           own == InOrder(places)
           m == Cardinality(places)
<1>1. m \in Nat /\ own \in [1..m -> places]
  <2>1. places \subseteq 1..n
    OBVIOUS
  <2> HIDE DEF places
  <2>2. QED
    BY <2>1, InOrderIsSeq
<1>2. RowsOf(rows, who) = [k \in DOMAIN own |-> rows[own[k]]]
  BY DEF RowsOf
<1>3. \A i \in places : i \in 1..n
  OBVIOUS
<1> HIDE DEF places, own, m
<1>4. DOMAIN RowsOf(rows, who) = 1..m
  BY <1>1, <1>2
<1>5. \A k \in 1..m : RowsOf(rows, who)[k] = rows[own[k]] /\ own[k] \in 1..n
  BY <1>1, <1>2, <1>3
<1>6. m = 0 => RowsOf(rows, who) = <<>>
  <2>1. ASSUME m = 0
        PROVE  RowsOf(rows, who) = <<>>
    <3>1. DOMAIN own = {}
      BY <1>1, <2>1
    <3>2. QED
      BY <1>2, <3>1
  <2>2. QED
    BY <2>1
<1>7. QED
  BY <1>1, <1>4, <1>5, <1>6

(* A stake is a sum of its accounts.                                       *)
LEMMA StakeIsNat ==
    ASSUME NEW who
    PROVE  StakeOf(who) \in Nat
<1> DEFINE n == Len(StakeAccounts)
           s == [i \in 1..n |-> IF PartOf(who, StakeAccounts[i].validator)
                                THEN StakeAccounts[i].lamports ELSE 0]
<1>1. n \in Nat /\ DOMAIN StakeAccounts = 1..n
      /\ \A i \in 1..n : StakeAccounts[i].lamports \in Nat
  <2> DEFINE Accounts == [validator : Validators, lamports : Nat]
  <2>1. StakeAccounts \in Seq(Accounts)
    BY WalletPageAssumption
  <2>2. \A a \in Accounts : a.lamports \in Nat
    OBVIOUS
  <2> HIDE DEF Accounts
  <2>3. StakeAccounts \in [1..n -> Accounts] /\ n \in Nat
    BY <2>1, SeqIsFunction
  <2>4. QED
    BY <2>2, <2>3
<1>2. s \in [1..n -> Nat] /\ StakeOf(who) = SumSeq(s)
  BY <1>1 DEF StakeOf
<1> HIDE DEF s
<1>3. QED
  BY <1>1, <1>2, SumIsMost

(* The flows of a return, whatever list the page has: the rewards are none *)
(* from long after the request's start.                                    *)
LEMMA FlowsAreReturn ==
    ASSUME NEW start \in Starts, NEW known \in BOOLEAN, NEW list \in Lists,
           NEW epochInfo \in Infos, Seen(list, start + MaxServeTicks),
           NEW who \in WithReturn(list),
           NEW s, s = [start |-> start, known |-> known, rows |-> list, info |-> epochInfo]
    PROVE  /\ StakeOf(who) \in Nat
           /\ \E n : IsReturn(FlowsOf(who, s), n, StakeOf(who))
<1> DEFINE rows == Rows(list)
           own == RowsOf(rows, who)
           boundaries == Boundaries(start, known)
<1>1. /\ start \in Nat /\ start <= LastTick /\ LastTick \in Nat
      /\ MaxServeTicks \in Nat /\ MaxServeTicks < HourTicks
      /\ EpochTicks \in Nat \ {0} /\ FallbackTicks \in Nat \ {0} /\ HourTicks \in Nat
  BY Times, ReturnsAssumption DEF Starts
<1>2. /\ Len(list) \in Nat /\ DOMAIN rows = 1..Len(list)
      /\ \A i \in 1..Len(list) : /\ rows[i].at \in Nat /\ rows[i].amount \in Nat
                                 /\ rows[i].epoch \in Nat \ {0}
                                 /\ EndTime(rows[i].epoch - 1) < rows[i].at
                                 /\ rows[i].at <= start + MaxServeTicks
  BY RowsOfList DEF Seen
<1>3. own # <<>>
  BY DEF WithReturn
<1>4. FlowsOf(who, s) = CashFlows(start, StakeOf(who), own, boundaries, epochInfo)
  BY DEF FlowsOf
<1>5. IsInfo(epochInfo)
  BY DEF Infos, IsInfo
<1>6. EpochDuration(boundaries) \in Nat \ {0}
  BY <1>1, DurationIs
<1>7. FirstTick \in Int /\ start + EpochTicks - FirstTick <= MaxTicks
  BY <1>1, WalletPageAssumption, ReturnsAssumption DEF FirstTick
<1> HIDE DEF rows
<1>8. PICK m \in Nat : /\ DOMAIN own = 1..m
                       /\ own # <<>> => m # 0
                       /\ \A k \in 1..m : \E i \in 1..Len(list) : own[k] = rows[i]
  BY <1>2, RowsOfStake
<1> HIDE DEF own, boundaries
<1>9. ASSUME NEW k \in 1..m
      PROVE  /\ own[k].at \in Nat /\ own[k].amount \in Nat
             /\ own[k].at < start + HourTicks
             /\ StartsBefore(own[k], boundaries, FirstTick)
  <2>1. PICK i \in 1..Len(list) : own[k] = rows[i]
    BY <1>8
  <2> DEFINE row == own[k]
  <2>2. /\ row.at \in Nat /\ row.amount \in Nat /\ row.epoch \in Nat \ {0}
        /\ EndTime(row.epoch - 1) < row.at /\ row.at <= start + MaxServeTicks
    BY <1>2, <2>1
  <2> HIDE DEF row
  <2>3. row.at < start + HourTicks
    BY <1>1, <2>2
  <2>4. StartsBefore(row, boundaries, FirstTick)
    BY <1>1, <2>2, RowStartsBefore DEF boundaries
  <2>5. QED
    BY <2>2, <2>3, <2>4 DEF row
<1>10. StakeOf(who) \in Nat
  BY StakeIsNat
<1>11. IsReturn(CashFlows(start, StakeOf(who), own, boundaries, epochInfo), m + 2,
                StakeOf(who))
  <2>1. m \in Nat \ {0}
    BY <1>3, <1>8
  <2> DEFINE stake == StakeOf(who)
  <2> HIDE DEF stake
  <2>2. stake \in Nat
    BY <1>10 DEF stake
  <2>3. IsReturn(CashFlows(start, stake, own, boundaries, epochInfo), m + 2, stake)
    BY <1>1, <1>5, <1>6, <1>7, <1>8, <1>9, <2>1, <2>2, CashFlowsReturn
  <2>4. QED
    BY <2>3 DEF stake
<1>12. QED
  BY <1>4, <1>10, <1>11

(* So they are in order, and xirr finds a root.                            *)
LEMMA ReturnIsRight ==
    ASSUME NEW stake \in Nat, NEW n, NEW flows, IsReturn(flows, n, stake)
    PROVE  FlowsInOrder(flows, stake) /\ RateIsRoot(flows)
<1>1. /\ n \in Nat /\ n >= 2 /\ flows \in [1..n -> Flow]
      /\ flows[1].amount = -stake /\ flows[n].amount = stake
      /\ \A i \in 2..(n - 1) : /\ flows[1].when < flows[i].when
                               /\ flows[i].when < flows[n].when
  BY DEF IsReturn
<1>2. Len(flows) = n /\ Last(flows) = flows[n]
  BY <1>1 DEF Last
<1>3. FlowsInOrder(flows, stake)
  BY <1>1, <1>2 DEF FlowsInOrder
<1>4. RateIsRoot(flows)
  BY XirrFinds DEF RateIsRoot, IsRoot
<1>5. QED
  BY <1>3, <1>4

(* The flows of each return of a page begin with the stake going out and   *)
(* end with it coming back, with all rewards between, and the rate is a    *)
(* root of their present value, which is found when the search reaches it  *)
(* (buildCashFlows, xirr), whatever list, epochs and epoch end the request *)
(* has put together.                                                       *)
THEOREM XirrSolves == Spec => []XirrSolvesFlows
<1>1. ASSUME IInv, NEW r \in Requests, At(r, "render")
      PROVE  [start |-> request[r].start, known |-> request[r].known,
              rows |-> request[r].rows, info |-> request[r].info] \in RatesRight
  <2> DEFINE start == request[r].start
             known == request[r].known
             list == request[r].rows
             epochInfo == request[r].info
             s == [start |-> start, known |-> known, rows |-> list, info |-> epochInfo]
  <2>1. request[r] # Idle
    BY <1>1 DEF At, Idle
  <2>2. /\ start \in Nat /\ known \in BOOLEAN /\ list \in Lists /\ epochInfo \in Infos
        /\ start >= StartTick /\ start <= now /\ now \in StartTick..LastTick
        /\ Seen(list, start + MaxServeTicks)
    BY <1>1, <2>1 DEF IInv, Types, RequestValues, ServedSoon, RowsSeen
  <2>3. start \in Starts
    BY <2>2, Times DEF Starts
  <2> HIDE DEF start, known, list, epochInfo
  <2>4. ASSUME NEW return \in ReturnsOf(s)
        PROVE  FlowsInOrder(return.flows, return.stake) /\ RateIsRoot(return.flows)
    <3>1. PICK who \in WithReturn(list) :
             return = [stake |-> StakeOf(who), flows |-> FlowsOf(who, s)]
      BY DEF ReturnsOf
    <3>2. StakeOf(who) \in Nat /\ \E n : IsReturn(FlowsOf(who, s), n, StakeOf(who))
      BY <2>2, <2>3, FlowsAreReturn
    <3>3. return.stake = StakeOf(who) /\ return.flows = FlowsOf(who, s)
      BY <3>1
    <3> HIDE DEF s
    <3>4. QED
      BY <3>2, <3>3, ReturnIsRight
  <2>5. RatesAreRight(s)
    BY <2>4 DEF RatesAreRight
  <2>6. s \in RatesRight
    BY <2>2, <2>3, <2>5 DEF RatesRight
  <2>7. QED
    BY <2>6 DEF s, start, known, list, epochInfo
<1>2. IInv => XirrSolvesFlows
  BY <1>1 DEF XirrSolvesFlows
<1>3. QED
  BY Invariance, <1>2, PTL
=============================================================================
