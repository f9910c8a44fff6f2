----------------------------- MODULE RpcRequest -----------------------------
(***************************************************************************)
(* doRPCRequest (solana_client.go): the loop in which every JSON-RPC call  *)
(* sends its request through the rate limiter and, answered with status    *)
(* 429 and a Retry-After header, sleeps and sends it again, without a      *)
(* bound on the attempts.  The limiter is a RateLimiter; that the token    *)
(* bucket is one is a property of the module TokenBucket.                  *)
(*                                                                         *)
(* Two things end a call from outside: its context (the browser leaves),   *)
(* and the timeout of the HTTP client, which runs anew for each attempt,   *)
(* the wait for the limiter included.                                      *)
(***************************************************************************)
EXTENDS Integers

CONSTANTS Calls,         \* goroutines that make RPC calls
          Capacity, Cost,\* the limiter's, in ticks
          Timeout,       \* defaultHTTPTimeout, in ticks
          MaxDelay,      \* bound: the longest Retry-After, in ticks
          Window         \* the longest window the history covers, in ticks

ASSUME RpcRequestAssumption ==
    /\ Capacity \in Nat /\ Cost \in Nat
    /\ Timeout \in Nat
    /\ MaxDelay \in Nat /\ Window \in Nat

VARIABLES pc,            \* where each call is
          cancelled,     \* ctx.Err() # nil
          spent,         \* ticks the attempt has used of its Timeout
          timer,         \* ticks the timer of the retry has left
          level, broken, \* the limiter's state
          open,          \* response bodies not closed
          retryAfter,    \* history: ticks before the server wants to see the call
          sentWithin     \* history: requests sent in the last a ticks

limiter == <<level, broken>>
vars == <<pc, cancelled, spent, timer, limiter, open, retryAfter, sentWithin>>

Limiter == INSTANCE RateLimiter

Init ==
    /\ pc = [c \in Calls |-> "idle"]
    /\ cancelled = [c \in Calls |-> FALSE]
    /\ spent = [c \in Calls |-> 0]
    /\ timer = [c \in Calls |-> 0]
    /\ Limiter!Init
    /\ open = [c \in Calls |-> 0]
    /\ retryAfter = [c \in Calls |-> 0]
    /\ sentWithin = [a \in 0..Window |-> 0]

Goto(c, label) == pc' = [pc EXCEPT ![c] = label]

(* The context of the attempt, which carries the client's timeout. *)
Over(c) == cancelled[c] \/ spent[c] = Timeout

(* The call returns to its caller. *)
End(c) ==
    /\ Goto(c, "idle")
    /\ cancelled' = [cancelled EXCEPT ![c] = FALSE]
    /\ spent' = [spent EXCEPT ![c] = 0]
    /\ timer' = [timer EXCEPT ![c] = 0]
    /\ retryAfter' = [retryAfter EXCEPT ![c] = 0]

(* The top of the loop: a new request, a new timeout (spent is 0 here). *)
Attempt(c) == Goto(c, "wait")

----------------------------------------------------------------------------
Call(c) ==
    /\ pc[c] = "idle"
    /\ Attempt(c)
    /\ UNCHANGED <<cancelled, spent, timer, limiter, open, retryAfter, sentWithin>>

Cancel(c) ==
    /\ pc[c] # "idle"
    /\ ~cancelled[c]
    /\ cancelled' = [cancelled EXCEPT ![c] = TRUE]
    /\ UNCHANGED <<pc, spent, timer, limiter, open, retryAfter, sentWithin>>

----------------------------------------------------------------------------
(* RoundTrip: the limiter, then the request.                               *)

(* A broken limiter lets calls through as it likes. *)
Pass == Limiter!Grant \/ (broken /\ UNCHANGED limiter)

Sent == sentWithin' = IF broken THEN sentWithin ELSE [a \in 0..Window |-> sentWithin[a] + 1]

(* Mutation of Send: the context is not looked at.                         *)
SendAnyway(c) ==
    /\ pc[c] = "wait"
    /\ Pass
    /\ Sent
    /\ Goto(c, "sent")
    /\ UNCHANGED <<cancelled, spent, timer, open, retryAfter>>

(* Wait returns without an error. *)
Send(c) ==
    /\ pc[c] = "wait"
    /\ ~Over(c)
    /\ Pass
    /\ Sent
    /\ Goto(c, "sent")
    /\ UNCHANGED <<cancelled, spent, timer, open, retryAfter>>

(* Wait returns an error; when it slept, the limiter is broken from now on, *)
(* and neither its level nor the history means anything any more.          *)
WaitOver(c) ==
    /\ pc[c] = "wait"
    /\ Over(c)
    /\ \/ UNCHANGED <<limiter, sentWithin>>
       \/ /\ Limiter!Break /\ level' = 0
          /\ sentWithin' = [a \in 0..Window |-> 0]
    /\ End(c)
    /\ UNCHANGED open

(* No answer: the connection fails, or the attempt is over. *)
RequestFails(c) ==
    /\ pc[c] = "sent"
    /\ End(c)
    /\ UNCHANGED <<limiter, open, sentWithin>>

----------------------------------------------------------------------------
(* The answer.                                                             *)

(* A Retry-After header: seconds, a date (as the time until then, which    *)
(* may have passed), or one that is neither (empty, negative, garbage).    *)
Headers == [form : {"seconds"}, ticks : 0..MaxDelay] \cup
           [form : {"date"}, ticks : (-1)..MaxDelay] \cup
           [form : {"unusable"}, ticks : {0}]

Usable(header) == header.form # "unusable"

(* Mutation of RetryAfterDelay: a cap on the delay.                        *)
RetryAfterDelayCapped(header) ==
    IF header.ticks < 0 THEN 0 ELSE IF header.ticks > 1 THEN 1 ELSE header.ticks

RetryAfterDelay(header) == IF header.ticks < 0 THEN 0 ELSE header.ticks

(* Any other answer, and a 429 without a usable header, is the caller's,   *)
(* who reads the body and closes it.                                       *)
Respond(c) ==
    /\ pc[c] = "sent"
    /\ open' = [open EXCEPT ![c] = @ + 1]
    /\ Goto(c, "read")
    /\ spent' = [spent EXCEPT ![c] = 0]
    /\ UNCHANGED <<cancelled, timer, limiter, retryAfter, sentWithin>>

(* Mutation of TooManyRequests: the body stays open.                       *)
TooManyRequestsOpen(c) ==
    /\ pc[c] = "sent"
    /\ \E header \in Headers :
          /\ Usable(header)
          /\ timer' = [timer EXCEPT ![c] = RetryAfterDelay(header)]
          /\ retryAfter' = [retryAfter EXCEPT ![c] = IF header.ticks < 0 THEN 0 ELSE header.ticks]
    /\ open' = [open EXCEPT ![c] = @ + 1]
    /\ Goto(c, "sleep")
    /\ spent' = [spent EXCEPT ![c] = 0]
    /\ UNCHANGED <<cancelled, limiter, sentWithin>>

(* 429 with a usable header: the body is closed and a timer set. *)
TooManyRequests(c) ==
    /\ pc[c] = "sent"
    /\ \E header \in Headers :
          /\ Usable(header)
          /\ timer' = [timer EXCEPT ![c] = RetryAfterDelay(header)]
          /\ retryAfter' = [retryAfter EXCEPT ![c] = IF header.ticks < 0 THEN 0 ELSE header.ticks]
    /\ Goto(c, "sleep")
    /\ spent' = [spent EXCEPT ![c] = 0]
    /\ UNCHANGED <<cancelled, limiter, open, sentWithin>>

(* Mutations of Retry: past the limiter; with a context of its own.        *)
RetryDirectly(c) ==
    /\ pc[c] = "sleep"
    /\ timer[c] = 0
    /\ Sent
    /\ Goto(c, "sent")
    /\ UNCHANGED <<cancelled, spent, timer, limiter, open, retryAfter>>

RetryDetached(c) ==
    /\ pc[c] = "sleep"
    /\ timer[c] = 0
    /\ Attempt(c)
    /\ cancelled' = [cancelled EXCEPT ![c] = FALSE]
    /\ UNCHANGED <<spent, timer, limiter, open, retryAfter, sentWithin>>

(* The select: the timer, or the context; when both are ready, either. *)
Retry(c) ==
    /\ pc[c] = "sleep"
    /\ timer[c] = 0
    /\ Attempt(c)
    /\ UNCHANGED <<cancelled, spent, timer, limiter, open, retryAfter, sentWithin>>

GiveUp(c) ==
    /\ pc[c] = "sleep"
    /\ cancelled[c]
    /\ End(c)
    /\ UNCHANGED <<limiter, open, sentWithin>>

(* The caller's deferred Close, whether it could read the body or not. *)
Read(c) ==
    /\ pc[c] = "read"
    /\ open' = [open EXCEPT ![c] = @ - 1]
    /\ End(c)
    /\ UNCHANGED <<limiter, sentWithin>>

----------------------------------------------------------------------------
CountDown(ticks) == IF ticks = 0 THEN 0 ELSE ticks - 1

Tick ==
    /\ Limiter!Tick \/ (broken /\ UNCHANGED limiter)
    /\ spent' = [c \in Calls |->
          IF pc[c] \in {"wait", "sent"} /\ spent[c] < Timeout THEN spent[c] + 1 ELSE spent[c]]
    /\ timer' = [c \in Calls |-> CountDown(timer[c])]
    /\ retryAfter' = [c \in Calls |-> CountDown(retryAfter[c])]
    /\ sentWithin' = [a \in 0..Window |-> IF a = 0 THEN 0 ELSE sentWithin[a - 1]]
    /\ UNCHANGED <<pc, cancelled, open>>

Next ==
    \/ Tick
    \/ \E c \in Calls :
          \/ Call(c) \/ Cancel(c) \/ Send(c) \/ WaitOver(c) \/ RequestFails(c)
          \/ Respond(c) \/ TooManyRequests(c) \/ Retry(c) \/ GiveUp(c) \/ Read(c)

Spec == Init /\ [][Next]_vars

(* Goroutines that can run do run, and time passes.  The server owes no    *)
(* answer, but an attempt that is over ends: the transport watches the     *)
(* context.                                                                *)
Fairness ==
    /\ WF_vars(Tick)
    /\ \A c \in Calls :
          /\ WF_vars(WaitOver(c))
          /\ WF_vars(Over(c) /\ RequestFails(c))
          /\ WF_vars(Retry(c) \/ GiveUp(c))
          /\ WF_vars(Read(c))

FairSpec == Spec /\ Fairness

----------------------------------------------------------------------------
(* Properties.                                                             *)

(* The values each variable takes. *)
TypeOK ==
    /\ pc \in [Calls -> {"idle", "wait", "sent", "sleep", "read"}]
    /\ cancelled \in [Calls -> BOOLEAN]
    /\ spent \in [Calls -> 0..Timeout]
    /\ timer \in [Calls -> 0..MaxDelay]
    /\ level \in 0..Capacity
    /\ broken \in BOOLEAN
    /\ open \in [Calls -> {0, 1}]
    /\ retryAfter \in [Calls -> 0..MaxDelay]

(* Every attempt, a retry like a first one, takes its token: however calls *)
(* fail, retry and are cancelled in the queue, the endpoint sees no more   *)
(* requests in any window than the limiter grants, until a call is         *)
(* cancelled in the limiter's sleep.                                       *)
EndpointRate ==
    ~broken => \A a \in 0..Window : sentWithin[a] * Cost <= Capacity + a

(* spec.md asks to "respect the Retry-After header and retry after the     *)
(* specified delay": no call queues for, or sends, its next attempt before *)
(* the time the server named, in whichever form.                           *)
RetryAfterHonoured ==
    \A c \in Calls : pc[c] \in {"wait", "sent"} => retryAfter[c] = 0

(* No response body is left open, however often a call is retried: only a  *)
(* call that reads its answer has one.                                     *)
BodiesClosed ==
    \A c \in Calls : open[c] > 0 => pc[c] = "read"

(* Nothing is sent for a request whose context is done, also when the      *)
(* timer of the retry and the context are ready together and the timer is  *)
(* taken.                                                                  *)
NothingSentAfterCancel ==
    [][\A c \in Calls : cancelled[c] /\ pc'[c] = "sent" => pc[c] = "sent"]_vars

(* A cancelled call ends, although the loop has no bound and the server    *)
(* may answer 429 for ever or not at all.                                  *)
CancelledCallEnds ==
    \A c \in Calls : (pc[c] # "idle" /\ cancelled[c]) ~> pc[c] = "idle"
=============================================================================
