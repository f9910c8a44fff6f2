---------------------------- MODULE JitoTipsMC ----------------------------
(* JitoTips on small instances: two stake accounts and their transactions. *)
EXTENDS JitoTips, TLC

CONSTANTS c1, c2, a1, a2, payer, jito, system

By(name) == [program |-> name, index |-> 0]
ByIndex(i) == [program |-> "", index |-> i]

(* Two slots per epoch; the boundaries know epochs 2 and 3.  s3 belongs to *)
(* the current epoch and may land late; s1, with an inner instruction, to  *)
(* an epoch before the oldest known; s2 pays two accounts at once, one of  *)
(* which it loads, and finds the program through an index into the loaded  *)
(* keys; s4 names the program and moves lamports, but calls it not.        *)
s3 == [signature |-> "s3", slot |-> 8, failed |-> FALSE,
       keys |-> <<a1, jito>>, writable |-> <<>>, readonly |-> <<>>,
       instructions |-> {ByIndex(1)}, inner |-> {},
       pre |-> <<1, 1>>, post |-> <<3, 1>>, paid |-> (a1 :> 2 @@ a2 :> 0)]
s2 == [signature |-> "s2", slot |-> 6, failed |-> FALSE,
       keys |-> <<payer, a1>>, writable |-> <<a2>>, readonly |-> <<jito>>,
       instructions |-> {ByIndex(3)}, inner |-> {By(system)},
       pre |-> <<9, 1, 1, 1>>, post |-> <<1, 4, 6, 1>>, paid |-> (a1 :> 3 @@ a2 :> 5)]
s1 == [signature |-> "s1", slot |-> 3, failed |-> FALSE,
       keys |-> <<a1, payer>>, writable |-> <<>>, readonly |-> <<>>,
       instructions |-> {By(system), ByIndex(7)}, inner |-> {By(jito)},
       pre |-> <<1, 9>>, post |-> <<2, 8>>, paid |-> (a1 :> 1 @@ a2 :> 0)]
s4 == [signature |-> "s4", slot |-> 7, failed |-> FALSE,
       keys |-> <<a2, jito>>, writable |-> <<>>, readonly |-> <<>>,
       instructions |-> {By(system)}, inner |-> {},
       pre |-> <<1, 1>>, post |-> <<2, 1>>, paid |-> (a1 :> 0 @@ a2 :> 0)]

(* The collections are those of a wallet before and after it got its       *)
(* second stake account.                                                   *)
MCEndSlot == [e \in 2..3 |-> 2 * e + 1]
MCHistory == (a1 :> <<s3, s2, s1>> @@ a2 :> <<s4, s2>>)
MCLate == (a1 :> 1 @@ a2 :> 0)
MCAccountsOf == (c1 :> <<a2>> @@ c2 :> <<a1, a2>>)
OneAccount == (c1 :> <<a1>> @@ c2 :> <<a1>>)
MCJitoPrograms == {jito}
=============================================================================
