------------------------- MODULE TokenBucketProofs -------------------------
(* Proofs about TokenBucket, for every number of callers, rate, burst and  *)
(* window.  RateBound is not inductive: a full bucket lets a burst         *)
(* through, so what was granted and what the bucket still holds are        *)
(* bounded together (RateInv).                                             *)
EXTENDS TokenBucket, TLAPS

(* The tokens granted in the last a ticks and the level of the bucket      *)
(* never exceed a full bucket and what a ticks bring.                      *)
RateInv ==
    ~abandoned =>
        \A a \in 0..Window :
            grantedWithin[a] * TicksPerToken + Level <= Capacity + a

(* The capacity is a positive number of units, at least one token.         *)
LEMMA CapacityFacts ==
    /\ Capacity \in Nat
    /\ Capacity >= TicksPerToken
<1>1. TicksPerToken \in Nat /\ Burst \in Nat /\ Burst >= 1
  BY TokenBucketAssumption
<1>2. Burst * TicksPerToken \in Nat
  BY <1>1
<1>3. PICK b \in Nat : Burst = b + 1
  BY <1>1
<1>4. b * TicksPerToken \in Nat
  BY <1>1
<1>5. (b + 1) * TicksPerToken = b * TicksPerToken + TicksPerToken
  BY <1>1
<1>6. QED
  BY <1>1, <1>2, <1>3, <1>4, <1>5 DEF Capacity

(* What refill computes lies between the tokens and a full bucket.         *)
LEMMA LevelFacts ==
    ASSUME TypeOK
    PROVE  /\ Level \in 0..Capacity
           /\ tokens <= Level
  BY CapacityFacts DEF TypeOK, Level, AtMost

(* Unlock leaves the state of the mutex and the process well-typed.        *)
LEMMA UnlockType ==
    ASSUME Unlock
    PROVE  locked' \in BOOLEAN /\ fatal' \in BOOLEAN
  BY DEF Unlock

(* Every variable keeps its type: no step overflows the bucket or leaves   *)
(* Wait at a place that does not exist.                                    *)
THEOREM TypeCorrect == Spec => []TypeOK
<1> USE TokenBucketAssumption, CapacityFacts
<1>1. Init => TypeOK
  <2> SUFFICES ASSUME Init
               PROVE  TypeOK
    OBVIOUS
  <2>1. tokens \in 0..Capacity /\ since \in 0..Capacity
    BY DEF Init
  <2>2. remaining \in [Callers -> 0..TicksPerToken]
    BY DEF Init
  <2>3. grantedWithin \in [0..Window -> Nat]
    BY DEF Init
  <2>4. QED
    BY <2>1, <2>2, <2>3 DEF Init, TypeOK
<1>2. TypeOK /\ [Next]_vars => TypeOK'
  <2> SUFFICES ASSUME TypeOK, [Next]_vars
               PROVE  TypeOK'
    OBVIOUS
  <2> USE DEF TypeOK, bucket
  <2>1. CASE Tick
    BY <2>1 DEF Tick, AtMost
  <2>2. ASSUME NEW p \in Callers, Call(p) \/ Cancel(p) \/ Lock(p) \/ Expire(p)
        PROVE  TypeOK'
    BY <2>2 DEF Call, Cancel, Lock, Expire
  <2>3. ASSUME NEW p \in Callers, Take(p)
        PROVE  TypeOK'
    <3>1. Refilled(p) \subseteq 0..Capacity
      BY LevelFacts DEF Refilled
    <3>2. tokens' \in 0..Capacity
      BY <2>3, <3>1 DEF Take
    <3>3. grantedWithin' \in [0..Window -> Nat]
      BY <2>3 DEF Take
    <3>4. QED
      BY <2>3, <3>2, <3>3 DEF Take
  <2>4. ASSUME NEW p \in Callers, Sleep(p)
        PROVE  TypeOK'
    <3>1. Refilled(p) \subseteq 0..Capacity
      BY LevelFacts DEF Refilled
    <3>2. PICK level \in Refilled(p), cut \in {0, 1} :
             /\ level < TicksPerToken
             /\ cut = 1 => TicksPerToken - level > 1
             /\ tokens' = level
             /\ remaining' = [remaining EXCEPT ![p] = (TicksPerToken - level) - cut]
      BY <2>4 DEF Sleep
    <3>3. level \in 0..Capacity /\ level \in Nat /\ TicksPerToken \in Nat
      BY <3>1
    <3>4. (TicksPerToken - level) - cut \in 0..TicksPerToken
      <4>1. CASE cut = 0
        BY <3>2, <3>3, <4>1
      <4>2. CASE cut = 1
        BY <3>2, <3>3, <4>2
      <4>3. QED
        BY <4>1, <4>2
    <3>5. remaining' \in [Callers -> 0..TicksPerToken]
      BY <3>2, <3>4
    <3>6. tokens' \in 0..Capacity
      BY <3>2, <3>3
    <3>7. locked' \in BOOLEAN /\ fatal' \in BOOLEAN
      BY <2>4, UnlockType DEF Sleep
    <3>8. since' \in 0..Capacity
      BY <2>4 DEF Sleep
    <3>9. pc' \in [Callers -> {"idle", "lock", "body", "sleep", "unlock"}]
      BY <2>4 DEF Sleep
    <3>10. QED
      BY <2>4, <3>5, <3>6, <3>7, <3>8, <3>9 DEF Sleep
  <2>5. ASSUME NEW p \in Callers, Wake(p) \/ Abandon(p)
        PROVE  TypeOK'
    <3>1. CASE Wake(p)
      BY <3>1 DEF Wake
    <3>2. CASE Abandon(p)
      <4>1. grantedWithin' \in [0..Window -> Nat]
        BY <3>2 DEF Abandon
      <4>2. remaining' \in [Callers -> 0..TicksPerToken]
        BY <3>2 DEF Abandon
      <4>3. QED
        BY <3>2, <4>1, <4>2 DEF Abandon
    <3>3. QED
      BY <2>5, <3>1, <3>2
  <2>6. ASSUME NEW p \in Callers, Return(p)
        PROVE  TypeOK'
    <3>1. locked' \in BOOLEAN /\ fatal' \in BOOLEAN
      BY <2>6, UnlockType DEF Return
    <3>2. pc' \in [Callers -> {"idle", "lock", "body", "sleep", "unlock"}]
      BY <2>6 DEF Return
    <3>3. UNCHANGED <<cancelled, remaining, tokens, since, grantedWithin, abandoned>>
      BY <2>6 DEF Return
    <3>4. QED
      BY <3>1, <3>2, <3>3
  <2>7. CASE UNCHANGED vars
    BY <2>7 DEF vars
  <2>8. QED
    BY <2>1, <2>2, <2>3, <2>4, <2>5, <2>6, <2>7 DEF Next
<1>3. QED
  BY <1>1, <1>2, PTL DEF Spec

(* Until a Wait is cancelled in its sleep the mutex is held exactly while  *)
(* one caller is between Lock and Unlock, and the process lives.           *)
THEOREM MutexWorks == Spec => []LockDiscipline
<1>1. Init => LockDiscipline
  BY DEF Init, LockDiscipline, InCriticalSection
<1>2. TypeOK /\ LockDiscipline /\ [Next]_vars => LockDiscipline'
  <2> SUFFICES ASSUME TypeOK, LockDiscipline, [Next]_vars, ~abandoned'
               PROVE  LockDiscipline'
    BY DEF LockDiscipline
  <2> USE DEF TypeOK, LockDiscipline, InCriticalSection, bucket
  <2>1. CASE Tick
    BY <2>1 DEF Tick
  <2>2. ASSUME NEW p \in Callers, Call(p) \/ Cancel(p)
        PROVE  LockDiscipline'
    BY <2>2 DEF Call, Cancel
  <2>3. ASSUME NEW p \in Callers, Lock(p)
        PROVE  LockDiscipline'
    BY <2>3 DEF Lock
  <2>4. ASSUME NEW p \in Callers, Expire(p) \/ Take(p)
        PROVE  LockDiscipline'
    BY <2>4 DEF Expire, Take
  <2>5. ASSUME NEW p \in Callers, Sleep(p)
        PROVE  LockDiscipline'
    BY <2>5 DEF Sleep, Unlock
  <2>6. ASSUME NEW p \in Callers, Wake(p)
        PROVE  LockDiscipline'
    BY <2>6 DEF Wake
  <2>7. ASSUME NEW p \in Callers, Abandon(p)
        PROVE  FALSE
    BY <2>7 DEF Abandon
  <2>8. ASSUME NEW p \in Callers, Return(p)
        PROVE  LockDiscipline'
    BY <2>8 DEF Return, Unlock
  <2>9. CASE UNCHANGED vars
    BY <2>9 DEF vars
  <2>10. QED
    BY <2>1, <2>2, <2>3, <2>4, <2>5, <2>6, <2>7, <2>8, <2>9 DEF Next
<1>3. QED
  BY <1>1, <1>2, TypeCorrect, PTL DEF Spec

(* A caller that runs the body with a working mutex works with Level.      *)
LEMMA AloneInBody ==
    ASSUME LockDiscipline, ~abandoned, NEW p \in Callers, pc[p] = "body"
    PROVE  Refilled(p) = {Level}
  BY DEF LockDiscipline, InCriticalSection, Refilled

(* In every window of a ticks at most a full bucket and what a ticks bring *)
(* is let through, whatever the interleaving.                              *)
THEOREM RateBounded == Spec => []RateBound
<1> USE TokenBucketAssumption, CapacityFacts
<1>1. Init => RateInv
  <2> SUFFICES ASSUME Init, NEW a \in 0..Window
               PROVE  grantedWithin[a] * TicksPerToken + Level <= Capacity + a
    BY DEF RateInv
  <2>1. grantedWithin[a] * TicksPerToken = 0
    BY DEF Init
  <2>2. Level = Capacity
    BY DEF Init, Level, AtMost
  <2>3. QED
    BY <2>1, <2>2
<1>2. TypeOK /\ LockDiscipline /\ RateInv /\ [Next]_vars => RateInv'
  <2> SUFFICES ASSUME TypeOK, LockDiscipline, RateInv, [Next]_vars,
                      ~abandoned', NEW a \in 0..Window
               PROVE  grantedWithin'[a] * TicksPerToken + Level' <= Capacity + a
    BY DEF RateInv
  <2>1. ~abandoned
    BY DEF Next, Tick, Call, Cancel, Lock, Expire, Take, Sleep, Wake, Abandon,
           Return, vars
  <2>2. /\ Level \in 0..Capacity
        /\ tokens \in 0..Capacity
        /\ since \in 0..Capacity
        /\ grantedWithin \in [0..Window -> Nat]
    BY LevelFacts DEF TypeOK
  <2>3. grantedWithin[a] * TicksPerToken + Level <= Capacity + a
    BY <2>1 DEF RateInv
  <2>4. grantedWithin[a] \in Nat /\ grantedWithin[a] * TicksPerToken \in Nat
    BY <2>2
  <2>5. CASE Tick
    <3>1. Level' \in 0..Capacity /\ Level' <= Level + 1
      BY <2>2, <2>5 DEF Tick, Level, AtMost
    <3>2. CASE a = 0
      <4>1. grantedWithin'[a] * TicksPerToken = 0
        BY <2>5, <3>2 DEF Tick
      <4>2. QED
        BY <3>1, <3>2, <4>1
    <3>3. CASE a # 0
      <4>1. a - 1 \in 0..Window /\ grantedWithin'[a] = grantedWithin[a - 1]
        BY <2>5, <3>3 DEF Tick
      <4>2. grantedWithin[a - 1] * TicksPerToken + Level <= Capacity + (a - 1)
        BY <2>1, <4>1 DEF RateInv
      <4>3. grantedWithin[a - 1] * TicksPerToken \in Nat
        BY <2>2, <4>1
      <4>4. QED
        BY <2>2, <3>1, <4>1, <4>2, <4>3
    <3>4. QED
      BY <3>2, <3>3
  <2>6. ASSUME NEW p \in Callers, Take(p)
        PROVE  grantedWithin'[a] * TicksPerToken + Level' <= Capacity + a
    <3>1. tokens' = Level - TicksPerToken /\ since' = 0 /\ Level >= TicksPerToken
      BY <2>1, <2>6, AloneInBody DEF Take
    <3>2. Level' = Level - TicksPerToken
      BY <2>2, <3>1 DEF Level, AtMost
    <3>3. grantedWithin'[a] = grantedWithin[a] + 1
      BY <2>1, <2>6 DEF Take
    <3>4. grantedWithin'[a] * TicksPerToken = grantedWithin[a] * TicksPerToken + TicksPerToken
      BY <2>4, <3>3
    <3>5. QED
      BY <2>2, <2>3, <2>4, <3>2, <3>4
  <2>7. ASSUME NEW p \in Callers, Sleep(p)
        PROVE  grantedWithin'[a] * TicksPerToken + Level' <= Capacity + a
    <3>1. tokens' = Level /\ since' = 0 /\ grantedWithin' = grantedWithin
      BY <2>1, <2>7, AloneInBody DEF Sleep
    <3>2. Level' = Level
      BY <2>2, <3>1 DEF Level, AtMost
    <3>3. QED
      BY <2>3, <3>1, <3>2
  <2>8. ASSUME NEW p \in Callers, Abandon(p)
        PROVE  FALSE
    BY <2>8 DEF Abandon
  <2>9. ASSUME UNCHANGED <<tokens, since, grantedWithin>>
        PROVE  grantedWithin'[a] * TicksPerToken + Level' <= Capacity + a
    BY <2>3, <2>9 DEF Level
  <2>10. QED
    BY <2>5, <2>6, <2>7, <2>8, <2>9
       DEF Next, Call, Cancel, Lock, Expire, Wake, Return, vars, bucket
<1>3. TypeOK /\ RateInv => RateBound
  <2> SUFFICES ASSUME TypeOK, RateInv, ~abandoned, NEW a \in 0..Window
               PROVE  grantedWithin[a] * TicksPerToken <= Capacity + a
    BY DEF RateBound
  <2>1. grantedWithin[a] * TicksPerToken \in Nat
    BY DEF TypeOK
  <2>2. grantedWithin[a] * TicksPerToken + Level <= Capacity + a
    BY DEF RateInv
  <2>3. QED
    BY <2>1, <2>2, LevelFacts
<1>4. QED
  BY <1>1, <1>2, <1>3, TypeCorrect, MutexWorks, PTL DEF Spec

(* The timer of a sleeping caller never runs past the tick at which the    *)
(* bucket holds a token.                                                   *)
THEOREM NoCallerOversleeps == Spec => []NoOversleep
<1> USE TokenBucketAssumption, CapacityFacts
<1>1. Init => NoOversleep
  BY DEF Init, NoOversleep
<1>2. TypeOK /\ LockDiscipline /\ NoOversleep /\ [Next]_vars => NoOversleep'
  <2> SUFFICES ASSUME TypeOK, LockDiscipline, NoOversleep, [Next]_vars,
                      ~abandoned', NEW q \in Callers,
                      pc'[q] = "sleep", remaining'[q] > 0
               PROVE  remaining'[q] + Level' <= TicksPerToken
    BY DEF NoOversleep
  <2>1. ~abandoned
    BY DEF Next, Tick, Call, Cancel, Lock, Expire, Take, Sleep, Wake, Abandon,
           Return, vars
  <2>2. /\ Level \in 0..Capacity
        /\ tokens \in 0..Capacity
        /\ since \in 0..Capacity
        /\ remaining[q] \in 0..TicksPerToken
        /\ pc \in [Callers -> {"idle", "lock", "body", "sleep", "unlock"}]
        /\ remaining \in [Callers -> 0..TicksPerToken]
    BY LevelFacts DEF TypeOK
  <2>3. pc[q] = "sleep" /\ remaining[q] > 0 => remaining[q] + Level <= TicksPerToken
    BY <2>1 DEF NoOversleep
  <2>4. CASE Tick
    <3>1. Level' \in 0..Capacity /\ Level' <= Level + 1
      BY <2>2, <2>4 DEF Tick, Level, AtMost
    <3>2. pc[q] = "sleep" /\ remaining[q] > 0 /\ remaining'[q] = remaining[q] - 1
      BY <2>2, <2>4 DEF Tick
    <3>3. QED
      BY <2>2, <2>3, <3>1, <3>2
  <2>5. ASSUME NEW p \in Callers, Take(p)
        PROVE  remaining'[q] + Level' <= TicksPerToken
    <3>1. tokens' = Level - TicksPerToken /\ since' = 0 /\ Level >= TicksPerToken
      BY <2>1, <2>5, AloneInBody DEF Take
    <3>2. Level' = Level - TicksPerToken
      BY <2>2, <3>1 DEF Level, AtMost
    <3>3. pc[q] = "sleep" /\ remaining'[q] = remaining[q]
      BY <2>2, <2>5 DEF Take
    <3>4. QED
      BY <2>2, <2>3, <3>2, <3>3
  <2>6. ASSUME NEW p \in Callers, Sleep(p)
        PROVE  remaining'[q] + Level' <= TicksPerToken
    <3>1. PICK cut \in {0, 1} :
             /\ tokens' = Level /\ since' = 0
             /\ Level < TicksPerToken
             /\ remaining' = [remaining EXCEPT ![p] = (TicksPerToken - Level) - cut]
      BY <2>1, <2>6, AloneInBody DEF Sleep
    <3>2. Level' = Level
      BY <2>2, <3>1 DEF Level, AtMost
    <3>3. CASE q = p
      <4>1. remaining'[q] = (TicksPerToken - Level) - cut
        BY <2>2, <3>1, <3>3
      <4>2. CASE cut = 0
        BY <2>2, <3>2, <4>1, <4>2
      <4>3. CASE cut = 1
        BY <2>2, <3>2, <4>1, <4>3
      <4>4. QED
        BY <4>2, <4>3
    <3>4. CASE q # p
      <4>1. remaining'[q] = remaining[q]
        BY <2>2, <3>1, <3>4
      <4>2. pc[q] = "sleep"
        BY <2>2, <2>6, <3>4 DEF Sleep
      <4>3. QED
        BY <2>3, <3>2, <4>1, <4>2
    <3>5. QED
      BY <3>3, <3>4
  <2>7. ASSUME NEW p \in Callers, Abandon(p)
        PROVE  FALSE
    BY <2>7 DEF Abandon
  <2>8. ASSUME UNCHANGED <<tokens, since, remaining>>, pc[q] = "sleep"
        PROVE  remaining'[q] + Level' <= TicksPerToken
    BY <2>3, <2>8 DEF Level
  <2>9. ASSUME NEW p \in Callers,
               Call(p) \/ Cancel(p) \/ Lock(p) \/ Expire(p) \/ Wake(p) \/ Return(p)
        PROVE  UNCHANGED <<tokens, since, remaining>> /\ pc[q] = "sleep"
    BY <2>2, <2>9 DEF Call, Cancel, Lock, Expire, Wake, Return, bucket
  <2>10. QED
    BY <2>4, <2>5, <2>6, <2>7, <2>8, <2>9 DEF Next, vars, bucket
<1>3. QED
  BY <1>1, <1>2, TypeCorrect, MutexWorks, PTL DEF Spec

(* The bucket implements the limiter its users rely on, with Level as the  *)
(* level: a caller that sleeps, wakes or settles the elapsed time leaves   *)
(* the level alone, and Take and Tick are the grant and the tick.          *)
THEOREM BucketIsRateLimiter == Spec => IsRateLimiter
<1> USE TokenBucketAssumption, CapacityFacts
<1>1. Init => Limiter!Init
  <2> SUFFICES ASSUME Init
               PROVE  Level = Capacity /\ abandoned = FALSE
    BY DEF Limiter!Init
  <2>1. QED
    BY DEF Init, Level, AtMost
<1>2. TypeOK /\ TypeOK' /\ LockDiscipline /\ [Next]_vars
        => [Limiter!Next]_<<Level, abandoned>>
  <2> SUFFICES ASSUME TypeOK, TypeOK', LockDiscipline, [Next]_vars
               PROVE  Limiter!Next \/ UNCHANGED <<Level, abandoned>>
    OBVIOUS
  <2>1. /\ Level \in 0..Capacity
        /\ tokens \in 0..Capacity
        /\ since \in 0..Capacity
        /\ abandoned \in BOOLEAN
    BY LevelFacts DEF TypeOK
  <2>2. Level' \in 0..Capacity /\ abandoned' \in BOOLEAN
    <3>1. tokens' \in 0..Capacity /\ since' \in 0..Capacity /\ abandoned' \in BOOLEAN
      BY DEF TypeOK, Capacity
    <3>2. Capacity' = Capacity
      BY DEF Capacity
    <3>3. \A t, s \in 0..Capacity : AtMost(t + s, Capacity) \in 0..Capacity
      BY DEF AtMost
    <3>4. Level' = AtMost(tokens' + since', Capacity)
      BY <3>2 DEF Level, AtMost
    <3>5. Level' \in 0..Capacity
      BY <3>1, <3>3, <3>4
    <3>6. QED
      BY <3>1, <3>5
  <2>3. ASSUME abandoned'
        PROVE  Limiter!Next
    BY <2>2, <2>3 DEF Limiter!Next, Limiter!Break
  <2>4. CASE ~abandoned'
    <3>1. ~abandoned
      BY <2>4 DEF Next, Tick, Call, Cancel, Lock, Expire, Take, Sleep, Wake, Abandon,
             Return, vars
    <3>2. CASE Tick
      <4>1. Level' = IF Level < Capacity THEN Level + 1 ELSE Level
        BY <2>1, <3>2 DEF Tick, Level, AtMost
      <4>2. QED
        BY <3>1, <3>2, <4>1 DEF Tick, Limiter!Next, Limiter!Tick
    <3>3. ASSUME NEW p \in Callers, Take(p)
          PROVE  Limiter!Next
      <4>1. tokens' = Level - TicksPerToken /\ since' = 0 /\ Level >= TicksPerToken
        BY <3>1, <3>3, AloneInBody DEF Take
      <4>2. Level' = Level - TicksPerToken
        BY <2>1, <4>1 DEF Level, AtMost
      <4>3. QED
        BY <3>1, <3>3, <4>1, <4>2 DEF Take, Limiter!Next, Limiter!Grant
    <3>4. ASSUME NEW p \in Callers, Sleep(p)
          PROVE  UNCHANGED <<Level, abandoned>>
      <4>1. tokens' = Level /\ since' = 0
        BY <3>1, <3>4, AloneInBody DEF Sleep
      <4>2. QED
        BY <2>1, <3>4, <4>1 DEF Sleep, Level, AtMost
    <3>5. ASSUME UNCHANGED <<tokens, since, abandoned>>
          PROVE  UNCHANGED <<Level, abandoned>>
      BY <3>5 DEF Level
    <3>6. ASSUME NEW p \in Callers, Abandon(p)
          PROVE  FALSE
      BY <2>4, <3>6 DEF Abandon
    <3>7. QED
      BY <3>2, <3>3, <3>4, <3>5, <3>6
         DEF Next, Call, Cancel, Lock, Expire, Wake, Return, vars, bucket
  <2>5. QED
    BY <2>2, <2>3, <2>4
<1>3. QED
  BY <1>1, <1>2, TypeCorrect, MutexWorks, PTL DEF Spec, IsRateLimiter, Limiter!Spec
=============================================================================
