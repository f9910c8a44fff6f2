---------------------------- MODULE RateLimiter ----------------------------
(***************************************************************************)
(* What the users of a limiter rely on (type Limiter, rate_limiter.go): a  *)
(* level that rises by one unit per tick up to Capacity, from which each   *)
(* call that is let through takes Cost units at once.  Goroutines, mutex,  *)
(* timers and fractions of a token are not seen.                           *)
(*                                                                         *)
(* The promise ends with the first call that is cancelled in its sleep     *)
(* (broken): from then on nothing is known of the level.                   *)
(***************************************************************************)
EXTENDS Naturals

CONSTANTS Capacity, Cost

VARIABLES level, broken

Init == level = Capacity /\ broken = FALSE

Grant ==
    /\ ~broken
    /\ level >= Cost
    /\ level' = level - Cost
    /\ UNCHANGED broken

Tick ==
    /\ ~broken
    /\ level' = IF level < Capacity THEN level + 1 ELSE level
    /\ UNCHANGED broken

Break ==
    /\ broken' = TRUE
    /\ level' \in 0..Capacity

Next == Grant \/ Tick \/ Break

Spec == Init /\ [][Next]_<<level, broken>>
=============================================================================
