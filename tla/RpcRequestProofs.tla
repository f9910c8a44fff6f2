-------------------------- MODULE RpcRequestProofs --------------------------
(* Proofs about RpcRequest, for any number of calls, any limiter, timeout  *)
(* and delays: retries keep the endpoint's rate, no attempt is earlier     *)
(* than the server asked for, no body stays open, and nothing is sent for  *)
(* a call that is cancelled.                                               *)
EXTENDS RpcRequest, TLAPS

----------------------------------------------------------------------------
(* The inductive invariant.                                                *)

Types ==
    /\ pc \in [Calls -> {"idle", "wait", "sent", "sleep", "read"}]
    /\ cancelled \in [Calls -> BOOLEAN]
    /\ spent \in [Calls -> 0..Timeout]
    /\ timer \in [Calls -> 0..MaxDelay]
    /\ level \in 0..Capacity
    /\ broken \in BOOLEAN
    /\ open \in [Calls -> Int]
    /\ retryAfter \in [Calls -> 0..MaxDelay]
    /\ sentWithin \in [0..Window -> Nat]

(* What was sent in a window and what the limiter still holds, together,   *)
(* are no more than the limiter grants.                                    *)
RateInv ==
    ~broken => \A a \in 0..Window : sentWithin[a] * Cost + level <= Capacity + a

(* Only a sleeping call has a time to wait for, and its timer runs as long.*)
RetryInv ==
    \A c \in Calls :
        retryAfter[c] = IF pc[c] = "sleep" THEN timer[c] ELSE 0

(* Only a call that reads its answer has a body, one.                      *)
BodyInv ==
    \A c \in Calls : open[c] = IF pc[c] = "read" THEN 1 ELSE 0

IInv == Types /\ RateInv /\ RetryInv /\ BodyInv

(* A window without requests has no cost.                                  *)
LEMMA NothingSent == 0 * Cost = 0
<1>1. Cost \in Nat
  BY RpcRequestAssumption
<1>2. QED
  BY <1>1

LEMMA Initial == Init => IInv
<1> SUFFICES ASSUME Init
             PROVE  IInv
  OBVIOUS
<1> USE DEF Init, Limiter!Init
<1>1. Types
  <2>1. 0 \in 0..Timeout /\ 0 \in 0..MaxDelay /\ Capacity \in 0..Capacity
    BY RpcRequestAssumption
  <2>2. /\ pc \in [Calls -> {"idle", "wait", "sent", "sleep", "read"}]
        /\ cancelled \in [Calls -> BOOLEAN] /\ spent \in [Calls -> 0..Timeout]
        /\ timer \in [Calls -> 0..MaxDelay] /\ retryAfter \in [Calls -> 0..MaxDelay]
    BY <2>1
  <2>3. level \in 0..Capacity /\ broken \in BOOLEAN
    BY <2>1
  <2>4. open \in [Calls -> Int] /\ sentWithin \in [0..Window -> Nat]
    OBVIOUS
  <2>5. QED
    BY <2>2, <2>3, <2>4 DEF Types
<1>2. ASSUME NEW a \in 0..Window
      PROVE  sentWithin[a] * Cost + level <= Capacity + a
  <2>1. sentWithin[a] = 0 /\ level = Capacity /\ a \in Nat
    BY RpcRequestAssumption
  <2>2. sentWithin[a] * Cost = 0
    BY <2>1, NothingSent
  <2>3. QED
    BY <2>1, <2>2, RpcRequestAssumption
<1>3. RetryInv /\ BodyInv
  BY DEF RetryInv, BodyInv
<1>4. QED
  BY <1>1, <1>2, <1>3 DEF IInv, RateInv

----------------------------------------------------------------------------
(* The limiter and the history of what was sent.                           *)

(* What a step does to the limiter and to that history.                    *)
RateStep ==
    /\ level' \in 0..Capacity
    /\ broken' \in BOOLEAN
    /\ sentWithin' \in [0..Window -> Nat]
    /\ RateInv'

(* Most steps do nothing to them.                                          *)
LEMMA RateKept ==
    ASSUME IInv, UNCHANGED <<limiter, sentWithin>>
    PROVE  RateStep
  BY DEF IInv, Types, RateInv, RateStep, limiter

(* A request that is sent moves a token's units from the level to the      *)
(* history.                                                                *)
LEMMA RateSent ==
    ASSUME IInv, Pass, Sent
    PROVE  RateStep
<1> USE DEF IInv, Types
<1>1. CASE broken
  BY <1>1 DEF Pass, Sent, Limiter!Grant, limiter, RateStep, RateInv
<1>2. CASE ~broken
  <2>1. /\ level >= Cost /\ level' = level - Cost /\ broken' = broken
        /\ sentWithin' = [a \in 0..Window |-> sentWithin[a] + 1]
    BY <1>2 DEF Pass, Sent, Limiter!Grant
  <2>2. level' \in 0..Capacity
    BY <2>1, RpcRequestAssumption
  <2>3. ASSUME NEW a \in 0..Window
        PROVE  sentWithin'[a] * Cost + level' <= Capacity + a
    <3>1. sentWithin[a] * Cost + level <= Capacity + a
      BY <1>2 DEF RateInv
    <3>2. sentWithin[a] \in Nat /\ Cost \in Nat /\ Capacity \in Nat /\ level \in Nat
          /\ a \in Nat
      BY RpcRequestAssumption
    <3>3. (sentWithin[a] + 1) * Cost = sentWithin[a] * Cost + Cost
          /\ sentWithin[a] * Cost \in Nat
      BY <3>2
    <3>4. QED
      BY <2>1, <3>1, <3>2, <3>3
  <2>4. QED
    BY <2>1, <2>2, <2>3 DEF RateStep, RateInv
<1>3. QED
  BY <1>1, <1>2

(* A tick adds at most a unit to the level and a tick to every window.     *)
LEMMA RateTicks ==
    ASSUME IInv, Tick
    PROVE  RateStep
<1> USE RpcRequestAssumption DEF IInv, Types
<1>1. sentWithin' = [a \in 0..Window |-> IF a = 0 THEN 0 ELSE sentWithin[a - 1]]
  BY DEF Tick
<1>2. sentWithin' \in [0..Window -> Nat]
  BY <1>1
<1>3. CASE broken
  BY <1>2, <1>3 DEF Tick, Limiter!Tick, limiter, RateStep, RateInv
<1>4. CASE ~broken
  <2>1. level' = (IF level < Capacity THEN level + 1 ELSE level) /\ broken' = broken
    BY <1>4 DEF Tick, Limiter!Tick
  <2>2. level' \in 0..Capacity /\ level' <= level + 1
    BY <2>1
  <2>3. ASSUME NEW a \in 0..Window
        PROVE  sentWithin'[a] * Cost + level' <= Capacity + a
    <3>1. CASE a = 0
      <4>1. sentWithin'[a] = 0
        BY <1>1, <3>1
      <4>2. sentWithin'[a] * Cost = 0
        BY <4>1, NothingSent
      <4>3. QED
        BY <2>2, <3>1, <4>2
    <3>2. CASE a # 0
      <4>1. a - 1 \in 0..Window /\ sentWithin'[a] = sentWithin[a - 1]
        BY <1>1, <3>2
      <4>2. sentWithin[a - 1] * Cost + level <= Capacity + (a - 1)
        BY <1>4, <4>1 DEF RateInv
      <4>3. sentWithin[a - 1] * Cost \in Nat
        BY <4>1
      <4>4. QED
        BY <2>2, <4>1, <4>2, <4>3
    <3>3. QED
      BY <3>1, <3>2
  <2>4. QED
    BY <1>2, <2>1, <2>2, <2>3 DEF RateStep, RateInv
<1>5. QED
  BY <1>3, <1>4

(* A call that is cancelled in the limiter's sleep ends the promise.       *)
LEMMA RateEnds ==
    ASSUME IInv, Limiter!Break, level' = 0, sentWithin' = [a \in 0..Window |-> 0]
    PROVE  RateStep
  BY RpcRequestAssumption DEF IInv, Types, Limiter!Break, RateStep, RateInv

----------------------------------------------------------------------------
(* The steps.                                                              *)

LEMMA EndStep ==
    ASSUME IInv, NEW c \in Calls, End(c), RateStep,
           open' = [open EXCEPT ![c] = 0]
    PROVE  IInv'
<1> USE DEF IInv, End, Goto, RateStep
<1>1. Types'
  BY RpcRequestAssumption DEF Types
<1>2. RetryInv'
  BY DEF Types, RetryInv
<1>3. BodyInv'
  BY DEF Types, BodyInv
<1>4. QED
  BY <1>1, <1>2, <1>3

(* A call goes on where it has neither a body nor a time to wait for.      *)
LEMMA MoveStep ==
    ASSUME IInv, NEW c \in Calls, NEW place \in {"wait", "sent"}, Goto(c, place), RateStep,
           pc[c] # "read", retryAfter[c] = 0,
           UNCHANGED <<cancelled, spent, timer, open, retryAfter>>
    PROVE  IInv'
<1> USE DEF IInv, Goto, RateStep
<1>1. Types'
  BY DEF Types
<1>2. RetryInv'
  BY DEF Types, RetryInv
<1>3. BodyInv'
  BY DEF Types, BodyInv
<1>4. QED
  BY <1>1, <1>2, <1>3

LEMMA RespondStep ==
    ASSUME IInv, NEW c \in Calls, Respond(c)
    PROVE  IInv'
<1>1. RateStep
  BY RateKept DEF Respond
<1> USE DEF IInv, Respond, Goto, RateStep
<1>2. Types'
  BY <1>1, RpcRequestAssumption DEF Types
<1>3. RetryInv'
  BY DEF Types, RetryInv
<1>4. BodyInv'
  BY DEF Types, BodyInv
<1>5. QED
  BY <1>1, <1>2, <1>3, <1>4

(* A header's delay is a number of ticks up to MaxDelay.                   *)
LEMMA DelayInRange ==
    ASSUME NEW header \in Headers
    PROVE  RetryAfterDelay(header) \in 0..MaxDelay
<1>1. header.ticks \in (-1)..MaxDelay
  BY RpcRequestAssumption DEF Headers
<1>2. QED
  BY <1>1, RpcRequestAssumption DEF RetryAfterDelay

LEMMA TooManyRequestsStep ==
    ASSUME IInv, NEW c \in Calls, TooManyRequests(c)
    PROVE  IInv'
<1>1. RateStep
  BY RateKept DEF TooManyRequests
<1>2. PICK header \in Headers :
          /\ timer' = [timer EXCEPT ![c] = RetryAfterDelay(header)]
          /\ retryAfter' = [retryAfter EXCEPT ![c] = RetryAfterDelay(header)]
  BY DEF TooManyRequests, RetryAfterDelay
<1>3. RetryAfterDelay(header) \in 0..MaxDelay
  BY DelayInRange
<1> USE DEF IInv, TooManyRequests, Goto, RateStep
<1>4. Types'
  BY <1>1, <1>2, <1>3, RpcRequestAssumption DEF Types
<1>5. RetryInv'
  BY <1>2 DEF Types, RetryInv
<1>6. BodyInv'
  BY DEF Types, BodyInv
<1>7. QED
  BY <1>1, <1>4, <1>5, <1>6

LEMMA CancelStep ==
    ASSUME IInv, NEW c \in Calls, Cancel(c)
    PROVE  IInv'
<1>1. RateStep
  BY RateKept DEF Cancel
<1>2. Types'
  BY <1>1 DEF IInv, Types, Cancel, RateStep
<1>3. RetryInv' /\ BodyInv'
  BY DEF IInv, RetryInv, BodyInv, Cancel
<1>4. QED
  BY <1>1, <1>2, <1>3 DEF IInv, RateStep

(* Timers and the time the server asked for count down together.           *)
LEMMA TickStep ==
    ASSUME IInv, Tick
    PROVE  IInv'
<1>1. RateStep
  BY RateTicks
<1>2. Types'
  BY <1>1, RpcRequestAssumption DEF IInv, Types, Tick, CountDown, RateStep
<1>3. RetryInv'
  BY DEF IInv, Types, RetryInv, Tick, CountDown
<1>4. BodyInv'
  BY DEF IInv, BodyInv, Tick
<1>5. QED
  BY <1>1, <1>2, <1>3, <1>4 DEF IInv, RateStep

LEMMA Inductive == IInv /\ [Next]_vars => IInv'
<1> SUFFICES ASSUME IInv, [Next]_vars
             PROVE  IInv'
  OBVIOUS
<1>1. CASE Tick
  BY <1>1, TickStep
<1>2. ASSUME NEW c \in Calls, Call(c) \/ Retry(c)
      PROVE  IInv'
  <2>1. retryAfter[c] = 0 /\ pc[c] # "read"
    BY <1>2 DEF IInv, RetryInv, Call, Retry
  <2>2. RateStep
    BY <1>2, RateKept DEF Call, Retry
  <2>3. QED
    BY <1>2, <2>1, <2>2, MoveStep DEF Call, Retry, Attempt
<1>3. ASSUME NEW c \in Calls, Send(c)
      PROVE  IInv'
  <2>1. retryAfter[c] = 0 /\ pc[c] # "read"
    BY <1>3 DEF IInv, RetryInv, Send
  <2>2. RateStep
    BY <1>3, RateSent DEF Send
  <2>3. QED
    BY <1>3, <2>1, <2>2, MoveStep DEF Send
<1>4. ASSUME NEW c \in Calls, WaitOver(c) \/ RequestFails(c) \/ GiveUp(c) \/ Read(c)
      PROVE  IInv'
  <2>1. End(c)
    BY <1>4 DEF WaitOver, RequestFails, GiveUp, Read
  <2>2. RateStep
    BY <1>4, RateKept, RateEnds DEF WaitOver, RequestFails, GiveUp, Read
  <2>3. open' = [open EXCEPT ![c] = 0]
    BY <1>4 DEF WaitOver, RequestFails, GiveUp, Read, IInv, Types, BodyInv
  <2>4. QED
    BY <2>1, <2>2, <2>3, EndStep
<1>5. ASSUME NEW c \in Calls, Cancel(c) \/ Respond(c) \/ TooManyRequests(c)
      PROVE  IInv'
  BY <1>5, CancelStep, RespondStep, TooManyRequestsStep
<1>6. CASE UNCHANGED vars
  BY <1>6 DEF vars, limiter, IInv, Types, RateInv, RetryInv, BodyInv
<1>7. QED
  BY <1>1, <1>2, <1>3, <1>4, <1>5, <1>6 DEF Next

LEMMA Invariance == Spec => []IInv
  BY Initial, Inductive, PTL DEF Spec

----------------------------------------------------------------------------
(* The theorems.                                                           *)

(* Every variable of the calls and their limiter keeps to its values.      *)
THEOREM TypeCorrect == Spec => []TypeOK
<1>1. IInv => TypeOK
  BY DEF IInv, Types, BodyInv, TypeOK
<1>2. QED
  BY <1>1, Invariance, PTL

(* The endpoint sees no more requests than the limiter grants, retries     *)
(* included (doRPCRequest, RoundTrip).                                     *)
THEOREM RateHolds == Spec => []EndpointRate
<1>1. ASSUME IInv
      PROVE  EndpointRate
  <2>1. SUFFICES ASSUME ~broken, NEW a \in 0..Window
                 PROVE  sentWithin[a] * Cost <= Capacity + a
    BY DEF EndpointRate
  <2>2. sentWithin[a] * Cost + level <= Capacity + a
    BY <1>1, <2>1 DEF IInv, RateInv
  <2>3. level \in Nat /\ sentWithin[a] \in Nat
    BY <1>1, RpcRequestAssumption DEF IInv, Types
  <2>4. sentWithin[a] * Cost \in Nat
    BY <2>3, RpcRequestAssumption
  <2>5. QED
    BY <2>2, <2>3, <2>4, RpcRequestAssumption
<1>2. QED
  BY <1>1, Invariance, PTL

(* No attempt is queued or sent before the time the server named           *)
(* (retryAfterDelay).                                                      *)
THEOREM RetryNotEarly == Spec => []RetryAfterHonoured
<1>1. IInv => RetryAfterHonoured
  BY DEF IInv, RetryInv, RetryAfterHonoured
<1>2. QED
  BY <1>1, Invariance, PTL

(* No body stays open, however often a call is retried.                    *)
THEOREM BodiesAreClosed == Spec => []BodiesClosed
<1>1. IInv => BodiesClosed
  BY DEF IInv, Types, BodyInv, BodiesClosed
<1>2. QED
  BY <1>1, Invariance, PTL

(* Nothing is sent for a request whose context is done: the only step to   *)
(* "sent" looks at the context, whichever way the call came to it.         *)
THEOREM CancelledSendsNothing == Spec => NothingSentAfterCancel
<1>1. ASSUME IInv, [Next]_vars, NEW c \in Calls, cancelled[c], pc'[c] = "sent"
      PROVE  pc[c] = "sent"
  <2>1. CASE Tick \/ UNCHANGED vars
    BY <1>1, <2>1 DEF Tick, vars
  <2>2. ASSUME NEW d \in Calls, Send(d)
        PROVE  pc[c] = "sent"
    <3>1. c # d
      BY <1>1, <2>2 DEF Send, Over
    <3>2. QED
      BY <1>1, <2>2, <3>1 DEF Send, Goto, IInv, Types
  <2>3. ASSUME NEW d \in Calls,
               \/ Call(d) \/ Cancel(d) \/ WaitOver(d) \/ RequestFails(d) \/ Respond(d)
               \/ TooManyRequests(d) \/ Retry(d) \/ GiveUp(d) \/ Read(d)
        PROVE  pc[c] = "sent"
    <3>1. Cancel(d) => pc' = pc
      BY DEF Cancel
    <3>2. Call(d) \/ Retry(d) => Goto(d, "wait")
      BY DEF Call, Retry, Attempt
    <3>3. WaitOver(d) \/ RequestFails(d) \/ GiveUp(d) \/ Read(d) => Goto(d, "idle")
      BY DEF WaitOver, RequestFails, GiveUp, Read, End
    <3>4. Respond(d) => Goto(d, "read")
      BY DEF Respond
    <3>5. TooManyRequests(d) => Goto(d, "sleep")
      BY DEF TooManyRequests
    <3>6. QED
      BY <1>1, <2>3, <3>1, <3>2, <3>3, <3>4, <3>5 DEF Goto, IInv, Types
  <2>4. QED
    BY <1>1, <2>1, <2>2, <2>3 DEF Next
<1>2. IInv /\ [Next]_vars
        => (\A c \in Calls : cancelled[c] /\ pc'[c] = "sent" => pc[c] = "sent")
  BY <1>1
<1>3. QED
  BY <1>2, Invariance, PTL DEF Spec, NothingSentAfterCancel
=============================================================================
