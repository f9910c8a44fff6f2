--------------------------- MODULE TokenBucketMC ---------------------------
(* TokenBucket on small instances. *)
EXTENDS TokenBucket
=============================================================================
