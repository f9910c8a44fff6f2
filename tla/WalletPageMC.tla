---------------------------- MODULE WalletPageMC ----------------------------
(* WalletPage on a small instance: the rewards of two stakes.              *)
EXTENDS WalletPage

CONSTANTS r1, r2, v1, v2

MCPoints == <<80, 90, 95, 100, 102, 105, 110, 120, 130>>
MCStakeAccounts ==
    <<[validator |-> v1, lamports |-> 12], [validator |-> v2, lamports |-> 1],
      [validator |-> v1, lamports |-> 8]>>

Row(time, epochNumber, lamports, account) ==
    [at |-> time, epoch |-> epochNumber, amount |-> lamports, validator |-> account]

(* Epochs of four ticks; tips at 10, 15 and 18, one of them the oldest     *)
(* reward of a week's window.                                              *)
MCLedger ==
    <<Row(24, 5, 2, v1), Row(24, 5, 3, v2), Row(20, 4, 2, v1), Row(20, 4, 3, v2),
      Row(18, 4, 1, v1), Row(16, 3, 2, v1), Row(16, 3, 3, v2), Row(15, 3, 1, v1),
      Row(12, 2, 2, v1), Row(12, 2, 3, v2), Row(10, 2, 1, v1), Row(8, 1, 2, v1)>>

Symmetry == Permutations(Requests)
=============================================================================
