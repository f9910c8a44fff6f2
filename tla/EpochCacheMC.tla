---------------------------- MODULE EpochCacheMC ----------------------------
(* EpochCache on small instances. *)
EXTENDS EpochCache
=============================================================================
