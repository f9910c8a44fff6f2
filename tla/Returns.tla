------------------------------ MODULE Returns ------------------------------
(***************************************************************************)
(* What the wallet page computes from a list of rewards (server.go): the   *)
(* sum of the last 28 days, the bars of the chart, and the annual return,  *)
(* the rate at which the cash flows of the stake have no net present value.*)
(*                                                                         *)
(* Rewards are a sequence, newest first, of records [at, epoch, amount,    *)
(* validator].  Times are ticks.  A rate is the growth per tick in units   *)
(* of 1/One, so that One is no growth: the code's growth per year is a     *)
(* power of it, the same for all rates, and finds the same roots in the    *)
(* same order.  Present values are fixed point numbers, Scale to one,      *)
(* where the code has floating point.                                      *)
(***************************************************************************)
EXTENDS Integers, Sequences, SequencesExt, TLC

CONSTANTS HourTicks,      \* an hour, the least time to the end of an epoch
          DayTicks,       \* 24 hours, when the epoch is not known
          FallbackTicks,  \* 72 hours, an epoch when fewer than two are known
          EpochTicks,     \* SlotsInEpoch times approxSlotDuration
          WeekTicks,      \* length of a week
          LookbackWeeks,  \* rewardLookbackWeeks
          MetricTicks,    \* walletRewardMetricWindowDays
          One,            \* rate of no growth
          Scale,          \* one SOL of present value
          Points,         \* the rates at which bracketXIRR looks, increasing
          Rounds,         \* rounds of bisectXIRR, enough to come to an end
          MaxTicks,       \* bound: no flows are further apart
          MaxRate         \* bound: Newton's method stays between Points[1] and this

(* How far apart ends can be that some rounds of halving bring together.   *)
Reach[k \in 0..Rounds] == IF k = 0 THEN 1 ELSE 2 * Reach[k - 1]

ASSUME ReturnsAssumption ==
    /\ HourTicks \in Nat /\ DayTicks \in Nat /\ EpochTicks \in Nat
    /\ 0 < HourTicks /\ HourTicks <= DayTicks /\ DayTicks <= EpochTicks
    /\ FallbackTicks \in Nat \ {0}
    /\ WeekTicks \in Nat \ {0} /\ LookbackWeeks \in Nat
    /\ MetricTicks = LookbackWeeks * WeekTicks
    /\ One \in Nat \ {0} /\ Scale \in Nat \ {0}
    /\ MaxTicks \in Nat /\ MaxRate \in Nat /\ One <= MaxRate
    /\ Rounds \in Nat /\ MaxRate - Points[1] <= Reach[Rounds]
    /\ Points \in Seq(2..MaxRate) /\ Points # <<>> /\ Points[1] <= One
    /\ \A i, j \in DOMAIN Points : i < j => Points[i] < Points[j]

(* The sum of a sequence of numbers. *)
SumSeq(s) ==
    LET upTo[i \in 0..Len(s)] == IF i = 0 THEN 0 ELSE upTo[i - 1] + s[i] IN upTo[Len(s)]

(* The keys of a function, each after those it is mapped to: the first has *)
(* none before it, the next one, and so on.                                *)
Ranked(before) ==
    [k \in 1..Cardinality(DOMAIN before) |->
        CHOOSE i \in DOMAIN before : Cardinality(before[i]) = k - 1]

(* Places in increasing order. *)
InOrder(places) == Ranked([i \in places |-> {j \in places : j < i}])

(* The sum of the amounts of some rows. *)
Total(rows, Counts(_)) ==
    SumSeq([i \in DOMAIN rows |-> IF Counts(rows[i]) THEN rows[i].amount ELSE 0])

----------------------------------------------------------------------------
(* Weeks.                                                                  *)

WeekFloor(t) == t - (t % WeekTicks)
WindowStart(t) == WeekFloor(t) - LookbackWeeks * WeekTicks
WindowEnd(t) == WeekFloor(t) + WeekTicks

(* Mutation of ChartWeeks: no bar for the current week.                    *)
CompletedWeeks == LookbackWeeks
ChartWeeks == LookbackWeeks + 1

WeeksBetween(start, target) == (target - start) \div WeekTicks

(* rewardChartPayload: a bar for each week; a reward outside has none. *)
Bars(asOf, rows) ==
    [week \in 1..ChartWeeks |->
        Total(rows, LAMBDA row :
                        WeeksBetween(WindowStart(asOf), WeekFloor(row.at)) = week - 1)]

(* sumRewardsSince the start of the last 28 days. *)
MetricSum(asOf, rows) ==
    Total(rows, LAMBDA row : row.at + MetricTicks >= asOf)

----------------------------------------------------------------------------
(* The cash flows: the stake goes out before the first reward and comes    *)
(* back at the end of the current epoch.                                   *)

(* earliestReward: the first in the list of those that are oldest. *)
Earliest(rows) ==
    CHOOSE i \in DOMAIN rows :
        \A j \in DOMAIN rows : \/ rows[i].at < rows[j].at
                               \/ rows[i].at = rows[j].at /\ i <= j

(* Mutation of EpochStart: the end of the epoch itself.                    *)
EpochStartLate(epoch, boundaries) == {b.end : b \in {c \in boundaries : c.epoch = epoch}}

(* epochStartTime: the end of the epoch before, if that is known. *)
EpochStart(epoch, boundaries) == {b.end : b \in {c \in boundaries : c.epoch + 1 = epoch}}

(* estimateEpochDuration: the mean distance of the ends. *)
EpochDuration(boundaries) ==
    LET ends == {b.end : b \in boundaries}
    IN  IF Cardinality(ends) < 2 THEN FallbackTicks
        ELSE (Max(ends) - Min(ends)) \div (Cardinality(ends) - 1)

(* estimateCurrentEpochEnd, from the slot index if it could be read: what  *)
(* is left of the epoch counts from the start of the request on.           *)
CurrentEpochEnd(asOf, info) ==
    IF info = {} THEN asOf + DayTicks
    ELSE LET remaining == EpochTicks - CHOOSE index \in info : TRUE
         IN  asOf + IF remaining < HourTicks THEN HourTicks ELSE remaining

(* sort.Slice by the time; flows of the same time keep their order. *)
ByTime(flows) ==
    LET order == Ranked([i \in DOMAIN flows |->
                    {j \in DOMAIN flows : \/ flows[j].when < flows[i].when
                                          \/ flows[j].when = flows[i].when /\ j < i}])
    IN  [k \in DOMAIN flows |-> flows[order[k]]]

(* buildCashFlows: the end moves behind the reward that was appended last, *)
(* which is the oldest one, since rewards are newest first.                *)
CashFlows(asOf, delegated, rows, boundaries, info) ==
    LET first == rows[Earliest(rows)]
        known == EpochStart(first.epoch, boundaries)
        start == IF known = {} THEN first.at - EpochDuration(boundaries) ELSE Max(known)
        rewards == [i \in DOMAIN rows |-> [when |-> rows[i].at, amount |-> rows[i].amount]]
        oldest == rewards[Len(rewards)].when
        estimate == CurrentEpochEnd(asOf, info)
        end == IF estimate <= oldest THEN oldest + HourTicks ELSE estimate
    IN  ByTime(<<[when |-> start, amount |-> -delegated]>> \o rewards
               \o <<[when |-> end, amount |-> delegated]>>)

----------------------------------------------------------------------------
(* The rate.                                                               *)

(* The value now of one SOL after 0, 1, ... ticks, for each rate. *)
Discount ==
    [rate \in (Points[1] - 1)..MaxRate |->
        LET value[tick \in 0..MaxTicks] ==
                IF tick = 0 THEN Scale ELSE (value[tick - 1] * One) \div rate
        IN  value]

Xnpv(rate, flows) ==
    SumSeq([i \in DOMAIN flows |->
               flows[i].amount * Discount[rate][flows[i].when - flows[1].when]])

Opposite(a, b) == (a < 0 /\ b > 0) \/ (a > 0 /\ b < 0)
SameSign(a, b) == (a < 0 /\ b < 0) \/ (a > 0 /\ b > 0)

(* bracketXIRR: the first two neighbours among the points with a root      *)
(* between them or at the lower one.  A root at the last point is missed.  *)
Bracket(flows) ==
    LET npv == [i \in DOMAIN Points |-> Xnpv(Points[i], flows)]
        hits == {i \in 2..Len(Points) : npv[i - 1] = 0 \/ Opposite(npv[i - 1], npv[i])}
    IN  IF hits = {} THEN {}
        ELSE LET i == Min(hits)
             IN  {[low |-> Points[i - 1],
                   high |-> IF npv[i - 1] = 0 THEN Points[i - 1] ELSE Points[i]]}

(* One round of bisectXIRR: to the half with the root, or to the rate that *)
(* it returns, when that is a root or the ends are neighbours.             *)
Halved(flows, bracket) ==
    LET mid == (bracket.low + bracket.high) \div 2
    IN  IF Xnpv(mid, flows) = 0 \/ bracket.high - bracket.low <= 1
        THEN [low |-> mid, high |-> mid]
        ELSE IF Opposite(Xnpv(bracket.low, flows), Xnpv(mid, flows))
             THEN [bracket EXCEPT !.high = mid] ELSE [bracket EXCEPT !.low = mid]

(* bisectXIRR: no rate when the ends have the same sign. *)
Bisect(flows, bracket) ==
    LET round[k \in 0..Rounds] ==
            IF k = 0 THEN bracket ELSE Halved(flows, round[k - 1])
    IN  IF SameSign(Xnpv(bracket.low, flows), Xnpv(bracket.high, flows)) THEN {}
        ELSE {(round[Rounds].low + round[Rounds].high) \div 2}

(* xirrNewton, where it converges: to the root, wherever that is. *)
Newton(flows) ==
    IF Opposite(Xnpv(Points[1], flows), Xnpv(MaxRate, flows))
    THEN Bisect(flows, [low |-> Points[1], high |-> MaxRate]) ELSE {}

(* xirr: Newton's method, and the search when that gives up; no rate when  *)
(* both fail.                                                              *)
Xirr(flows, converges) ==
    IF converges /\ Newton(flows) # {} THEN Newton(flows)
    ELSE UNION {Bisect(flows, bracket) : bracket \in Bracket(flows)}
=============================================================================
