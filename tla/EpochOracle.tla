---------------------------- MODULE EpochOracle ----------------------------
(***************************************************************************)
(* What the users of the epoch cache rely on (solana_client.go): it knows  *)
(* the chain as it was in some epoch not later than the current one; what  *)
(* it knows grows only, unless the process is restarted, which takes it    *)
(* back to what it had saved.  Callers, mutex, RPC calls, their failures   *)
(* and the chain's slots are not seen.                                     *)
(***************************************************************************)
EXTENDS Naturals

VARIABLES epoch,   \* the chain's current epoch
          known,   \* the epoch as of which the cache knows the chain, or 0
          saved    \* that of the snapshot file, or 0

vars == <<epoch, known, saved>>

Init == epoch \in Nat /\ known = 0 /\ saved = 0

EpochEnds == epoch' = epoch + 1 /\ UNCHANGED <<known, saved>>

(* The chain may have moved on while it was read. *)
Refresh == known' \in known..epoch /\ UNCHANGED <<epoch, saved>>

Save == saved' = known /\ UNCHANGED <<epoch, known>>

Restart == known' = saved /\ UNCHANGED <<epoch, saved>>

Next == EpochEnds \/ Refresh \/ Save \/ Restart

Spec == Init /\ [][Next]_vars
=============================================================================
