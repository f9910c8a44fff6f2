----------------------------- MODULE WalletPage -----------------------------
(***************************************************************************)
(* The second half of handleWallet (server.go): with the rewards of one    *)
(* wallet, cached (wallet_cache.go) or collected, a request asks for the   *)
(* price of SOL (SolPrice) and the current epoch, computes the returns and *)
(* the chart (Returns), writes the fiat values into its rows, and renders  *)
(* them.  Requests run concurrently, and every call may fail.              *)
(*                                                                         *)
(* How the rewards are collected, and what can go wrong there, is module   *)
(* WalletRewards; here the wallet has stake accounts, and a list has the   *)
(* rewards of the epochs completed when it was collected, or none.  Rows   *)
(* are objects: what one request writes into them, all that hold the same  *)
(* rows see.                                                               *)
(***************************************************************************)
EXTENDS SolPrice, Returns

CONSTANTS Validators,
          StakeAccounts,  \* the wallet's stakes: [validator, lamports]
          Ledger,         \* its rewards, newest first
          MaxServeTicks,  \* bound: no request lasts longer
          StartTick,      \* tick at which the server starts
          LastTick        \* bound: time stops here

EpochAt(tick) == tick \div EpochTicks
EndTime(epoch) == (epoch + 1) * EpochTicks

ASSUME WalletPageAssumption ==
    /\ MaxServeTicks \in Nat /\ MaxServeTicks < HourTicks
    /\ StartTick \in Nat \ {0} /\ LastTick \in Nat /\ StartTick <= LastTick
    /\ "entry" \notin Callers /\ "wallet" \notin Validators
    /\ StakeAccounts \in Seq([validator : Validators, lamports : Nat])
    /\ LastTick + EpochTicks <= MaxTicks /\ LastTick + FallbackTicks <= MaxTicks

(* Rewards of nothing are not collected, and there are none of epoch 0.    *)
(* Inflation rewards have the end of their epoch for their time, and a tip *)
(* has its block's, which gives the epoch.                                 *)
ASSUME LedgerAssumption ==
    /\ Ledger \in Seq(ToSet(Ledger))
    /\ \A i \in DOMAIN Ledger :
          /\ Ledger[i].at \in Nat /\ Ledger[i].amount \in Nat \ {0}
          /\ Ledger[i].epoch \in Nat \ {0}
          /\ EndTime(Ledger[i].epoch - 1) < Ledger[i].at
          /\ Ledger[i].at <= EndTime(Ledger[i].epoch)
    /\ \A i, j \in DOMAIN Ledger : i < j => Ledger[i].at >= Ledger[j].at

VARIABLES entry,    \* the wallet's entry in the wallet cache
          fiat,     \* the price written into the rows of each owner
          request   \* each request: its place and its locals

vars == <<now, priceVars, entry, fiat, request>>

Requests == Callers
CacheEntry == "entry"
NoEntry == [valid |-> FALSE]
Idle == [pc |-> "idle"]

(* The epochs of the window that were complete when a request started. *)
Boundaries(start, known) ==
    {[epoch |-> e, end |-> EndTime(e)] :
        e \in {f \in 0..(EpochAt(start) - 1) : known /\ EndTime(f) >= WindowStart(start)}}

Init ==
    /\ now = StartTick
    /\ PriceInit
    /\ entry = NoEntry
    /\ fiat = [owner \in Requests \cup {CacheEntry} |-> NoPrice]
    /\ request = [r \in Requests |-> Idle]

At(r, place) == request[r].pc = place

(* Requests last minutes. *)
Advance ==
    /\ now < LastTick
    /\ \A r \in Requests : ~At(r, "idle") => now - request[r].start < MaxServeTicks
    /\ now' = now + 1
    /\ UNCHANGED <<priceVars, entry, fiat, request>>

(* The request reads the clock once; epochs are read, or an error leaves   *)
(* none.                                                                   *)
Arrive(r) ==
    /\ At(r, "idle")
    /\ \E known \in BOOLEAN :
          request' = [request EXCEPT ![r] =
              [pc |-> "rewards", start |-> now, known |-> known, rows |-> <<>>,
               owner |-> r, info |-> {}]]
    /\ UNCHANGED <<now, priceVars, entry, fiat>>

(* Mutation of CloneRewardRows: the rows of the entry itself.              *)
SameRewardRows(r) == CacheEntry

(* cloneRewardRows: the rows taken from an entry are the request's own. *)
CloneRewardRows(r) == r

Live(r) == entry.valid /\ request[r].start <= entry.expiresAt

(* A hit of the wallet cache. *)
CacheHit(r) ==
    /\ At(r, "rewards")
    /\ Live(r)
    /\ request' = [request EXCEPT ![r].pc = "price", ![r].rows = entry.rows,
                       ![r].owner = CloneRewardRows(r)]
    /\ fiat' = [fiat EXCEPT ![r] = NoPrice]
    /\ UNCHANGED <<now, priceVars, entry>>

(* A list of rewards is kept as their places in the ledger. *)
Rows(places) == [i \in DOMAIN places |-> Ledger[places[i]]]

(* The rows that collectRecentRewards returns: of the epochs that were     *)
(* complete when the request started, and in its window, appended in the   *)
(* order of the ledger.                                                    *)
InWindow(i, start, known) ==
    /\ \E b \in Boundaries(start, known) : b.epoch = Ledger[i].epoch
    /\ Ledger[i].at >= WindowStart(start)
    /\ Ledger[i].at < WindowEnd(start)

Collected(start, known) ==
    InOrder({i \in DOMAIN Ledger : InWindow(i, start, known)})

(* There are no rows when the stake accounts could not be read, or when    *)
(* collectRecentRewards fails.  What it returns is cached, a copy without  *)
(* fiat values, unless the end of the epoch cannot be read, at which the   *)
(* entry expires.                                                          *)
Collect(r) ==
    /\ At(r, "rewards")
    /\ ~Live(r)
    /\ fiat' = [fiat EXCEPT ![r] = NoPrice, ![CacheEntry] = NoPrice]
    /\ \E rows \in {<<>>, Collected(request[r].start, request[r].known)} :
          /\ request' = [request EXCEPT ![r].pc = "price", ![r].rows = rows]
          /\ entry' \in {NoEntry, [valid |-> TRUE, rows |-> rows,
                                   expiresAt |-> EndTime(EpochAt(now))]}
    /\ UNCHANGED <<now, priceVars>>

(* GetSOLPrice. *)
GetSOLPrice(r) ==
    /\ At(r, "price")
    /\ PriceUSD(r) \/ PriceStep(r)
    /\ UNCHANGED <<entry, fiat, request>>

----------------------------------------------------------------------------
(* The analysis.                                                           *)

(* The stakes whose return is computed: the wallet's, and each validator's *)
(* part of it (recordValidatorXIRR).                                       *)
Stakes == {"wallet"} \cup Validators
PartOf(who, validator) == who \in {"wallet", validator}

StakeOf(who) ==
    SumSeq([i \in DOMAIN StakeAccounts |->
               IF PartOf(who, StakeAccounts[i].validator) THEN StakeAccounts[i].lamports ELSE 0])
RowsOf(rows, who) ==
    LET own == InOrder({i \in DOMAIN rows : PartOf(who, rows[i].validator)})
    IN  [k \in DOMAIN own |-> rows[own[k]]]

FlowsOf(who, s) ==
    CashFlows(s.start, StakeOf(who), RowsOf(Rows(s.rows), who),
              Boundaries(s.start, s.known), s.info)

(* computeAnnualReturnPercent: for a stake that has rewards. *)
WithReturn(places) ==
    {who \in Stakes : StakeOf(who) > 0 /\ RowsOf(Rows(places), who) # <<>>}

(* GetEpochInfo answers or fails.  Metrics, returns and chart follow from  *)
(* it and from the request's locals, and are not kept; fiat values follow  *)
(* from the price, and are written into the rows.                          *)
Analyse(r) ==
    /\ At(r, "price") /\ InCall(r, "back")
    /\ \E info \in {{}, {now % EpochTicks}} :
          request' = [request EXCEPT ![r].pc = "render", ![r].info = info]
    /\ fiat' = IF call[r].value # NoPrice /\ request[r].rows # <<>>
               THEN [fiat EXCEPT ![request[r].owner] = call[r].value] ELSE fiat
    /\ UNCHANGED <<now, priceVars, entry>>

Render(r) ==
    /\ At(r, "render")
    /\ request' = [request EXCEPT ![r] = Idle]
    /\ call' = [call EXCEPT ![r] = Out]
    /\ fiat' = [fiat EXCEPT ![r] = NoPrice]
    /\ UNCHANGED <<now, price, entry>>

Next ==
    \/ Advance
    \/ \E r \in Requests :
          \/ Arrive(r) \/ CacheHit(r) \/ Collect(r)
          \/ GetSOLPrice(r) \/ Analyse(r) \/ Render(r)

Spec == Init /\ [][Next]_vars

----------------------------------------------------------------------------
(* Properties.                                                             *)

(* The values each variable takes. *)
TypeOK ==
    /\ now \in StartTick..LastTick
    /\ price.valid => price.value \in StartTick..price.storedAt /\ price.storedAt <= now
    /\ entry.valid => entry.expiresAt >= StartTick
    /\ \A r \in Requests :
          request[r] = Idle \/ /\ request[r].pc \in {"rewards", "price", "render"}
                               /\ request[r].owner \in DOMAIN fiat
                               /\ fiat[r] \in {NoPrice} \cup StartTick..now

(* A page's price is out of date by no more than the cache's hour, and the *)
(* time of the request that fetched it and of the one that shows it,       *)
(* although answers are stored late and in any order; only a page whose    *)
(* own call to the price API failed may show an older one.                 *)
PriceFresh ==
    \A r \in Requests :
        At(r, "render") /\ call[r].value # NoPrice /\ ~call[r].failed =>
            now - call[r].value <= PriceTTL + 2 * MaxServeTicks

(* Once a price is known, no page is without one, however old it is and    *)
(* whatever fails.                                                         *)
PriceServed ==
    \A r \in Requests : At(r, "render") /\ call[r].hadPrice => call[r].value # NoPrice

(* The fiat values in the rows of a page are of the price that the page    *)
(* shows for the balance; there are none when it has no price, although    *)
(* other requests write fiat values into rows from the same cache entry.   *)
FiatOfOwnPrice ==
    \A r \in Requests :
        At(r, "render") /\ request[r].rows # <<>> =>
            fiat[request[r].owner] = call[r].value

(* The requests whose page is right, whatever list they have got from      *)
(* whichever request: sets, so that TLC computes them once.                *)
Starts == StartTick..LastTick
Lists == {Collected(start, known) : start \in Starts, known \in BOOLEAN} \cup {<<>>}
Infos == {{}} \cup {{index} : index \in 0..(EpochTicks - 1)}

Monday(start, week) == WindowStart(start) + (week - 1) * WeekTicks

ChartIsRight(start, rows) ==
    LET bars == Bars(start, rows)
    IN  /\ \A week \in DOMAIN bars :
              bars[week] = Total(rows, LAMBDA row :
                  row.at >= Monday(start, week) /\ row.at < Monday(start, week + 1))
        /\ MetricSum(start, rows)
              <= SumSeq(bars) + Total(rows, LAMBDA row : row.at >= WindowEnd(start))

ChartsRight ==
    {s \in {[start |-> t, rows |-> list] : t \in Starts, list \in Lists} :
        ChartIsRight(s.start, Rows(s.rows))}

FlowsInOrder(flows, stake) ==
    /\ flows[1].amount = -stake
    /\ Last(flows).amount = stake
    /\ \A i \in 2..(Len(flows) - 1) :
          flows[1].when < flows[i].when /\ flows[i].when < Last(flows).when

RateIsRoot(flows) ==
    /\ \A converges \in BOOLEAN : \A rate \in Xirr(flows, converges) :
          Xnpv(rate - 1, flows) >= 0 /\ Xnpv(rate + 1, flows) <= 0
    /\ Xnpv(Last(Points), flows) < 0 => Xirr(flows, FALSE) # {}

(* The stakes of a page that get a return, and the flows of each. *)
ReturnsOf(s) ==
    {[stake |-> StakeOf(who), flows |-> FlowsOf(who, s)] : who \in WithReturn(s.rows)}

RatesAreRight(s) ==
    \A return \in ReturnsOf(s) :
        FlowsInOrder(return.flows, return.stake) /\ RateIsRoot(return.flows)

RatesRight ==
    {s \in {[start |-> t, known |-> k, rows |-> list, info |-> i] :
               t \in Starts, k \in BOOLEAN, list \in Lists, i \in Infos} : RatesAreRight(s)}

(* Each bar has the rewards of its calendar week and no others, and the    *)
(* bars together show every reward that the 28 day sum counts but those of *)
(* a later week.  (A request that started just before a week's end may get *)
(* a list from after it, by way of the cache: the sum counts the next      *)
(* week's rewards, and no bar has them.)                                   *)
ChartCoversMetric ==
    \A r \in Requests :
        At(r, "render") =>
            [start |-> request[r].start, rows |-> request[r].rows] \in ChartsRight

(* The flows of a return begin with the stake going out and end with it    *)
(* coming back, with all rewards strictly between, whatever list, epochs   *)
(* and epoch end the request put together; the rate is a root of their     *)
(* present value, to the grain of the search, and when there is a root     *)
(* below the last point of the search, a rate is found.                    *)
XirrSolvesFlows ==
    \A r \in Requests :
        At(r, "render") =>
            [start |-> request[r].start, known |-> request[r].known,
             rows |-> request[r].rows, info |-> request[r].info] \in RatesRight
=============================================================================
