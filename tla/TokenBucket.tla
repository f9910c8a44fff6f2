---------------------------- MODULE TokenBucket ----------------------------
(***************************************************************************)
(* TokenBucketLimiter (rate_limiter.go): the limiter every RPC request to  *)
(* the Solana endpoint passes through.  Goroutines (Callers) call Wait     *)
(* again and again; their contexts may be cancelled at any moment, in the  *)
(* program by the 15 s timeout of the HTTP client or by the browser.       *)
(*                                                                         *)
(* Time is discrete and relative.  A tick is the time in which the bucket  *)
(* gains one unit, and a token is TicksPerToken units: the fraction of a   *)
(* token that l.tokens holds is a number of units.  No absolute time is    *)
(* kept: "since" is now - l.last, "remaining" what a timer has to run, and *)
(* grantedWithin[a] the tokens handed out during the last a ticks (a       *)
(* history that ends when the mutex can no longer be relied on).           *)
(*                                                                         *)
(* Under the mutex the test of the context, the refill and the decision    *)
(* are one step.  The mutex has no owner, as in Go: Unlock releases it     *)
(* whoever locked it, and kills the process when it is not locked.         *)
(***************************************************************************)
EXTENDS Naturals

CONSTANTS Callers,        \* goroutines that share the limiter
          TicksPerToken,  \* 1 / rate, in ticks
          Burst,          \* capacity of the bucket, in tokens
          Window          \* the longest window the history covers, in ticks

ASSUME TokenBucketAssumption ==
    /\ TicksPerToken \in Nat \ {0}
    /\ Burst \in Nat \ {0}
    /\ Window \in Nat

VARIABLES pc,             \* where each caller is in Wait
          cancelled,      \* ctx.Err() # nil, for each caller's context
          remaining,      \* ticks before the caller's timer fires
          locked,         \* state of l.mu
          tokens,         \* l.tokens, in units
          since,          \* ticks since l.last, counted up to Capacity
          fatal,          \* the runtime stopped the process
          grantedWithin,  \* history: tokens granted in the last a ticks
          abandoned       \* history: some Wait left its sleep through ctx.Done()

bucket == <<locked, tokens, since, fatal>>
vars == <<pc, cancelled, remaining, bucket, grantedWithin, abandoned>>

Capacity == Burst * TicksPerToken

AtMost(n, bound) == IF n <= bound THEN n ELSE bound

(* Mutation of Level: the capacity is forgotten.                           *)
LevelUncapped == tokens + since

(* What refill makes of l.tokens: the elapsed time is added up to capacity. *)
Level == AtMost(tokens + since, Capacity)

Init ==
    /\ pc = [p \in Callers |-> "idle"]
    /\ cancelled = [p \in Callers |-> FALSE]
    /\ remaining = [p \in Callers |-> 0]
    /\ locked = FALSE
    /\ tokens = Capacity
    /\ since = 0
    /\ fatal = FALSE
    /\ grantedWithin = [a \in 0..Window |-> 0]
    /\ abandoned = FALSE

----------------------------------------------------------------------------
(* The callers' environment: a request starts, its context is cancelled.   *)

Call(p) ==
    /\ ~fatal
    /\ pc[p] = "idle"
    /\ pc' = [pc EXCEPT ![p] = "lock"]
    /\ cancelled' = [cancelled EXCEPT ![p] = FALSE]
    /\ UNCHANGED <<remaining, bucket, grantedWithin, abandoned>>

Cancel(p) ==
    /\ ~fatal
    /\ pc[p] # "idle"
    /\ ~cancelled[p]
    /\ cancelled' = [cancelled EXCEPT ![p] = TRUE]
    /\ UNCHANGED <<pc, remaining, bucket, grantedWithin, abandoned>>

----------------------------------------------------------------------------
(* Wait.                                                                   *)

(* The Lock at the top of Wait and the one after the sleep. *)
Lock(p) ==
    /\ ~fatal
    /\ pc[p] = "lock"
    /\ ~locked
    /\ locked' = TRUE
    /\ pc' = [pc EXCEPT ![p] = "body"]
    /\ UNCHANGED <<cancelled, remaining, tokens, since, fatal, grantedWithin, abandoned>>

(* sync.Mutex.Unlock: fatal on a mutex that is not locked. *)
Unlock ==
    /\ locked' = FALSE
    /\ fatal' = (fatal \/ ~locked)

(* Mutation of Expire: an explicit Unlock before the deferred one.         *)
ExpireUnlocking(p) ==
    /\ ~fatal
    /\ pc[p] = "body"
    /\ cancelled[p]
    /\ pc' = [pc EXCEPT ![p] = "unlock"]
    /\ Unlock
    /\ UNCHANGED <<cancelled, remaining, tokens, since, grantedWithin, abandoned>>

(* ctx.Err() at the top of the loop. *)
Expire(p) ==
    /\ ~fatal
    /\ pc[p] = "body"
    /\ cancelled[p]
    /\ pc' = [pc EXCEPT ![p] = "unlock"]
    /\ UNCHANGED <<cancelled, remaining, bucket, grantedWithin, abandoned>>

(* The values refill may leave in l.tokens.  When two callers run the body *)
(* at once (the mutex is broken) the accesses race: any value between      *)
(* empty and full may be the one this caller works with.  No property      *)
(* speaks of the tokens from then on.                                      *)
Refilled(p) ==
    IF \E q \in Callers \ {p} : pc[q] = "body" THEN 0..Capacity ELSE {Level}

(* Mutation of Take: l.last is not moved, the same time counts twice.      *)
TakeKeepingLast(p) ==
    /\ ~fatal
    /\ pc[p] = "body"
    /\ ~cancelled[p]
    /\ Level >= TicksPerToken
    /\ tokens' = Level - TicksPerToken
    /\ grantedWithin' = IF abandoned THEN grantedWithin
                        ELSE [a \in 0..Window |-> grantedWithin[a] + 1]
    /\ pc' = [pc EXCEPT ![p] = "unlock"]
    /\ UNCHANGED <<since, cancelled, remaining, locked, fatal, abandoned>>

Take(p) ==
    /\ ~fatal
    /\ pc[p] = "body"
    /\ ~cancelled[p]
    /\ \E level \in Refilled(p) :
          /\ level >= TicksPerToken
          /\ tokens' = level - TicksPerToken
    /\ since' = 0
    /\ grantedWithin' = IF abandoned THEN grantedWithin
                        ELSE [a \in 0..Window |-> grantedWithin[a] + 1]
    /\ pc' = [pc EXCEPT ![p] = "unlock"]
    /\ UNCHANGED <<cancelled, remaining, locked, fatal, abandoned>>

(* Mutations of Sleep: the wait is a tick too long; l.last is not moved;   *)
(* the mutex is kept.                                                      *)
SleepTooLong(p) ==
    /\ ~fatal
    /\ pc[p] = "body"
    /\ ~cancelled[p]
    /\ Level < TicksPerToken
    /\ tokens' = Level
    /\ remaining' = [remaining EXCEPT ![p] = TicksPerToken - Level + 1]
    /\ since' = 0
    /\ Unlock
    /\ pc' = [pc EXCEPT ![p] = "sleep"]
    /\ UNCHANGED <<cancelled, grantedWithin, abandoned>>

SleepKeepingLast(p) ==
    /\ ~fatal
    /\ pc[p] = "body"
    /\ ~cancelled[p]
    /\ Level < TicksPerToken
    /\ tokens' = Level
    /\ remaining' = [remaining EXCEPT ![p] = TicksPerToken - Level]
    /\ Unlock
    /\ pc' = [pc EXCEPT ![p] = "sleep"]
    /\ UNCHANGED <<cancelled, since, grantedWithin, abandoned>>

SleepHoldingMutex(p) ==
    /\ ~fatal
    /\ pc[p] = "body"
    /\ ~cancelled[p]
    /\ Level < TicksPerToken
    /\ tokens' = Level
    /\ remaining' = [remaining EXCEPT ![p] = TicksPerToken - Level]
    /\ since' = 0
    /\ pc' = [pc EXCEPT ![p] = "sleep"]
    /\ UNCHANGED <<cancelled, locked, fatal, grantedWithin, abandoned>>

(* No token: the timer is set to the time the missing part of a token      *)
(* takes, cut to whole nanoseconds (so up to a tick short, never zero),    *)
(* and the mutex is released for the sleep.                                *)
Sleep(p) ==
    /\ ~fatal
    /\ pc[p] = "body"
    /\ ~cancelled[p]
    /\ \E level \in Refilled(p), cut \in {0, 1} :
          /\ level < TicksPerToken
          /\ cut = 1 => TicksPerToken - level > 1
          /\ tokens' = level
          /\ remaining' = [remaining EXCEPT ![p] = (TicksPerToken - level) - cut]
    /\ since' = 0
    /\ Unlock
    /\ pc' = [pc EXCEPT ![p] = "sleep"]
    /\ UNCHANGED <<cancelled, grantedWithin, abandoned>>

(* The select: the timer fires, or the context is done; when both are      *)
(* ready either may be chosen.  The second returns without Lock.           *)
Wake(p) ==
    /\ ~fatal
    /\ pc[p] = "sleep"
    /\ remaining[p] = 0
    /\ pc' = [pc EXCEPT ![p] = "lock"]
    /\ UNCHANGED <<cancelled, remaining, bucket, grantedWithin, abandoned>>

Abandon(p) ==
    /\ ~fatal
    /\ pc[p] = "sleep"
    /\ cancelled[p]
    /\ pc' = [pc EXCEPT ![p] = "unlock"]
    /\ remaining' = [remaining EXCEPT ![p] = 0]
    /\ abandoned' = TRUE
    /\ grantedWithin' = [a \in 0..Window |-> 0]
    /\ UNCHANGED <<cancelled, bucket>>

(* Mutation of Return: without the deferred Unlock.                        *)
ReturnHoldingMutex(p) ==
    /\ ~fatal
    /\ pc[p] = "unlock"
    /\ pc' = [pc EXCEPT ![p] = "idle"]
    /\ UNCHANGED <<cancelled, remaining, bucket, grantedWithin, abandoned>>

(* The deferred Unlock, on every return. *)
Return(p) ==
    /\ ~fatal
    /\ pc[p] = "unlock"
    /\ Unlock
    /\ pc' = [pc EXCEPT ![p] = "idle"]
    /\ UNCHANGED <<cancelled, remaining, tokens, since, grantedWithin, abandoned>>

----------------------------------------------------------------------------
(* Time passes, whatever the callers do. *)
Tick ==
    /\ since' = AtMost(since + 1, Capacity)
    /\ remaining' = [p \in Callers |-> IF remaining[p] = 0 THEN 0 ELSE remaining[p] - 1]
    /\ grantedWithin' = [a \in 0..Window |-> IF a = 0 THEN 0 ELSE grantedWithin[a - 1]]
    /\ UNCHANGED <<pc, cancelled, locked, tokens, fatal, abandoned>>

Next ==
    \/ Tick
    \/ \E p \in Callers :
          \/ Call(p) \/ Cancel(p)
          \/ Lock(p) \/ Expire(p) \/ Take(p) \/ Sleep(p)
          \/ Wake(p) \/ Abandon(p) \/ Return(p)

Spec == Init /\ [][Next]_vars

(* Go schedules every runnable goroutine, a mutex in starvation mode is    *)
(* handed to the caller that waits longest (strong fairness of Lock), and  *)
(* time passes.  Nothing makes a caller call or cancel.                    *)
Fairness ==
    /\ WF_vars(Tick)
    /\ \A p \in Callers :
          /\ SF_vars(Lock(p))
          /\ WF_vars(Expire(p) \/ Take(p) \/ Sleep(p))
          /\ WF_vars(Wake(p) \/ Abandon(p))
          /\ WF_vars(Return(p))

FairSpec == Spec /\ Fairness

----------------------------------------------------------------------------
(* Properties.                                                             *)

(* The values each variable takes. *)
TypeOK ==
    /\ pc \in [Callers -> {"idle", "lock", "body", "sleep", "unlock"}]
    /\ cancelled \in [Callers -> BOOLEAN]
    /\ remaining \in [Callers -> 0..TicksPerToken]
    /\ locked \in BOOLEAN
    /\ tokens \in 0..Capacity
    /\ since \in 0..Capacity
    /\ fatal \in BOOLEAN
    /\ grantedWithin \in [0..Window -> Nat]
    /\ abandoned \in BOOLEAN

InCriticalSection(p) == pc[p] \in {"body", "unlock"}

(* As long as no Wait was cancelled in its sleep, the mutex protects the   *)
(* bucket: it is held exactly while one caller is between Lock and Unlock, *)
(* and no Unlock meets an unlocked mutex.                                  *)
LockDiscipline ==
    ~abandoned =>
        /\ ~fatal
        /\ locked <=> \E p \in Callers : InCriticalSection(p)
        /\ \A p, q \in Callers :
              InCriticalSection(p) /\ InCriticalSection(q) => p = q

(* The promise of the bucket: in any window of a ticks at most             *)
(* Burst + a / TicksPerToken calls are let through, however the callers    *)
(* interleave, sleep and are cancelled while they queue for the mutex.     *)
RateBound ==
    ~abandoned =>
        \A a \in 0..Window : grantedWithin[a] * TicksPerToken <= Capacity + a

(* No caller sleeps past the tick at which the bucket holds a token for    *)
(* it: the wait computed before the sleep never exceeds what the bucket    *)
(* still lacks, although other callers take tokens during the sleep.       *)
NoOversleep ==
    ~abandoned =>
        \A p \in Callers :
            pc[p] = "sleep" /\ remaining[p] > 0 => remaining[p] + Level <= TicksPerToken

(* To its users the limiter is a RateLimiter: sleeping, waking, queueing   *)
(* and settling the elapsed time are not seen, a call that is let through  *)
(* takes its token at once, and time alone fills the bucket.               *)
Limiter == INSTANCE RateLimiter WITH
               Cost <- TicksPerToken, level <- Level, broken <- abandoned

IsRateLimiter == Limiter!Spec

(* rate_limiter.go says that Wait "blocks until a single token is          *)
(* available or the context is cancelled": a cancelled context ends the    *)
(* call, and does not end the process.                                     *)
NoFatalUnlock == ~fatal

(* A call whose context is cancelled returns, wherever it is in Wait,      *)
(* unless the process died.                                                *)
CancelledCallReturns ==
    \A p \in Callers :
        (pc[p] # "idle" /\ cancelled[p]) ~> (pc[p] = "idle" \/ fatal)

(* While calls are outstanding some call is always let through or ends:    *)
(* the callers never all sleep or all queue for ever, as long as the mutex *)
(* works.                                                                  *)
SomeCallReturns ==
    (\E p \in Callers : pc[p] # "idle")
        ~> (abandoned \/ \E p \in Callers : pc[p] = "unlock")
=============================================================================
