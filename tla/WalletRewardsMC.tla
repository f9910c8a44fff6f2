-------------------------- MODULE WalletRewardsMC --------------------------
(* WalletRewards on small instances. *)
EXTENDS WalletRewards, TLC

Symmetry == Permutations(Requests) \cup Permutations(Wallets)
=============================================================================
