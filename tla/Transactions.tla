---------------------------- MODULE Transactions ----------------------------
(***************************************************************************)
(* What the tip collector reads of a transaction: convertTransactionResult *)
(* (solana_client.go) resolves the indexes of an answer to account keys,   *)
(* transactionHasJitoInstruction and computeTipLamports (jito_tips.go)     *)
(* decide whether it pays a tip and to whom.                               *)
(*                                                                         *)
(* An answer is a record: the keys of the message and the loaded writable  *)
(* and readonly ones, the instructions (of the message and inner ones),    *)
(* whether there is an error, and a balance before and after for each key. *)
(* An instruction names its program or, as "", gives the program's index.  *)
(***************************************************************************)
EXTENDS Integers, Sequences

CONSTANT JitoPrograms   \* jitoProgramIDs

(* Indexes count through the keys of the message, then the loaded ones.    *)
AccountKeys(tx) == tx.keys \o tx.writable \o tx.readonly

(* resolveProgramID: an index beyond the keys names no program. *)
ProgramID(instruction, keys) ==
    IF instruction.program # "" THEN instruction.program
    ELSE IF instruction.index < Len(keys) THEN keys[instruction.index + 1] ELSE ""

(* Mutation of HasJitoInstruction: the program need not be called.         *)
NamesJitoProgram(tx) == \E key \in {AccountKeys(tx)[i] : i \in DOMAIN AccountKeys(tx)} :
                            key \in JitoPrograms

HasJitoInstruction(tx) ==
    \E instruction \in tx.instructions \cup tx.inner :
        ProgramID(instruction, AccountKeys(tx)) \in JitoPrograms

(* The places of the account at which its balance rises, of those for      *)
(* which there are balances.                                               *)
Credits(tx, authority) ==
    {i \in DOMAIN AccountKeys(tx) :
        /\ AccountKeys(tx)[i] = authority
        /\ i <= Len(tx.post) /\ i <= Len(tx.pre)
        /\ tx.post[i] > tx.pre[i]}

(* computeTipLamports: the first of them counts. *)
TipLamports(tx, authority) ==
    IF Credits(tx, authority) = {} THEN 0
    ELSE LET i == CHOOSE j \in Credits(tx, authority) :
                      \A k \in Credits(tx, authority) : j <= k
         IN  tx.post[i] - tx.pre[i]
=============================================================================
