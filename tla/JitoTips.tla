----------------------------- MODULE JitoTips -----------------------------
(***************************************************************************)
(* jitoTipCollector (jito_tips.go): the collection of Jito tips for the    *)
(* stake accounts of a wallet.  A collection works through the completed   *)
(* epochs in chunks, newest first, through the accounts in each chunk, and *)
(* through the pages of each account's signatures, newest first.  All      *)
(* collections share one LRU of processed signatures; its mutex covers     *)
(* single operations, so collections interleave between any two of them.   *)
(*                                                                         *)
(* The accounts' histories are given, newest first.  Completed epochs do   *)
(* not change, but transactions of the current epoch land while pages are  *)
(* read.  A transaction has its signature, slot and content (Transactions) *)
(* and, as the truth to compare with, what it paid as tips to whom.  Each  *)
(* RPC call may fail, and answers to batches may lack transactions.        *)
(***************************************************************************)
EXTENDS Transactions, SequencesExt

CONSTANTS Collections,    \* calls of collectJitoTips
          AccountsOf,     \* the stake accounts of each collection's wallet
          History,        \* each account's transactions, newest first
          Late,           \* how many of them land while the server runs
          EndSlot,        \* boundaries: end slots by epoch
          PageSize,       \* jitoSignaturePageSize
          BatchLen,       \* maxTransactionBatchLen
          MaxPages,       \* jitoMaxPagesPerStake
          ProcessedSize,  \* jitoProcessedCacheSize
          Lookback,       \* jitoEpochLookback, epochs in a chunk
          ChunkRuns,      \* jitoEpochChunkRuns
          SlotsInEpoch    \* of the chain

ASSUME JitoTipsAssumption ==
    /\ PageSize \in Nat \ {0} /\ MaxPages \in Nat \ {0} /\ BatchLen \in Nat \ {0}
    /\ ProcessedSize \in Nat \ {0}
    /\ Lookback \in Nat \ {0} /\ ChunkRuns \in Nat \ {0}
    /\ SlotsInEpoch \in Nat \ {0}
    /\ DOMAIN AccountsOf = Collections
    /\ \A c \in Collections : /\ AccountsOf[c] \in Seq(DOMAIN History)
                               /\ AccountsOf[c] # <<>> /\ IsInjective(AccountsOf[c])
    /\ \A a \in DOMAIN History : History[a] \in Seq(ToSet(History[a]))
    /\ \A a \in DOMAIN History : \A i \in DOMAIN History[a] : History[a][i].slot \in Nat
    /\ \A a \in DOMAIN History : \A i, j \in DOMAIN History[a] :
          History[a][i].signature = History[a][j].signature => i = j
    /\ Late \in [DOMAIN History -> Nat]
    /\ \A a \in DOMAIN History : Late[a] <= Len(History[a])
    /\ \A a \in DOMAIN History : \A i, j \in DOMAIN History[a] :
          i < j => History[a][i].slot >= History[a][j].slot
    /\ \A a \in DOMAIN History : \A i \in 1..Late[a] : \A e \in DOMAIN EndSlot :
          History[a][i].slot > EndSlot[e]

(* What the ledger says, as the truth: the account keys of a transaction   *)
(* differ, each has a balance before and after, and an account gets a tip, *)
(* the rise of its balance, from a successful transaction with a call of a *)
(* Jito program.                                                           *)
Calls(tx, program) ==
    \E instruction \in tx.instructions \cup tx.inner :
        \/ instruction.program = program
        \/ /\ instruction.program = ""
           /\ \E i \in DOMAIN AccountKeys(tx) :
                 i = instruction.index + 1 /\ AccountKeys(tx)[i] = program

ASSUME LedgerAssumption ==
    /\ "" \notin JitoPrograms
    /\ \A a \in DOMAIN History : \A tx \in ToSet(History[a]) :
          LET keys == AccountKeys(tx)
              pays == ~tx.failed /\ \E program \in JitoPrograms : Calls(tx, program)
          IN  /\ \A instruction \in tx.instructions \cup tx.inner : instruction.index \in Nat
              /\ Len(keys) \in Nat /\ DOMAIN keys = 1..Len(keys) /\ IsInjective(keys)
              /\ tx.pre \in [DOMAIN keys -> Nat] /\ tx.post \in [DOMAIN keys -> Nat]
              /\ \A i \in DOMAIN keys : keys[i] = a =>
                    tx.paid[a] = IF pays /\ tx.post[i] > tx.pre[i]
                                 THEN tx.post[i] - tx.pre[i] ELSE 0
              /\ (\A i \in DOMAIN keys : keys[i] # a) => tx.paid[a] = 0

VARIABLES hidden,     \* how many transactions of each account have not landed
          processed,  \* processedSignatures, most recently used first
          work,       \* each collection: its place and its locals
          marked,     \* history: signatures ever marked as processed
          reported,   \* history: tips that some collection returned
          dropped     \* history: signatures whose rows a failed collection dropped

vars == <<hidden, processed, work, marked, reported, dropped>>

----------------------------------------------------------------------------
(* Epochs and slots.                                                       *)

Epochs == DOMAIN EndSlot
Oldest == CHOOSE e \in Epochs : \A f \in Epochs : e <= f
Latest == CHOOSE e \in Epochs : \A f \in Epochs : e >= f

(* The boundaries are an unbroken piece of history, as the epoch cache     *)
(* keeps it.                                                               *)
ASSUME BoundariesAssumption ==
    /\ Oldest \in Nat /\ Latest \in Nat /\ Oldest <= Latest
    /\ Epochs = Oldest..Latest
    /\ \A e \in Epochs : EndSlot[e] = (e + 1) * SlotsInEpoch - 1

(* buildEpochIntervals: an epoch starts after the end of the one before it *)
(* in the list, the oldest at slot 0.                                      *)
IntervalStart(e) == IF e = Oldest THEN 0 ELSE EndSlot[e - 1] + 1

(* Mutation of EpochsForSlot: only the start of the interval is compared.  *)
EpochsFromSlot(s) == {e \in Epochs : IntervalStart(e) <= s}

EpochsForSlot(s) == {e \in Epochs : IntervalStart(e) <= s /\ s <= EndSlot[e]}

(* targetEpochs: newest first, at most Lookback * ChunkRuns of them; the   *)
(* epochs of the chunk that starts at an offset.                           *)
TargetCount == IF Latest - Oldest + 1 <= Lookback * ChunkRuns
               THEN Latest - Oldest + 1 ELSE Lookback * ChunkRuns

(* Mutation of Allowed: a chunk keeps the epochs of the chunks before it.  *)
AllowedSoFar(offset) ==
    {e \in Epochs : Latest - e < offset + Lookback /\ Latest - e < TargetCount}

Allowed(offset) ==
    {e \in Epochs : Latest - e >= offset /\ Latest - e < offset + Lookback
                                         /\ Latest - e < TargetCount}

(* Mutation of MinAllowedSlot: the first slot of the epoch is left out.    *)
MinAllowedSlotExclusive(offset) ==
    IntervalStart(CHOOSE e \in Allowed(offset) : \A f \in Allowed(offset) : e <= f) + 1

MinAllowedSlot(offset) ==
    IntervalStart(CHOOSE e \in Allowed(offset) : \A f \in Allowed(offset) : e <= f)

----------------------------------------------------------------------------
(* stringLRU: Get moves a key that is there to the front, Add puts a key   *)
(* there and drops the last one beyond the capacity.                       *)

Without(s) ==
    IF s \notin ToSet(processed) THEN processed
    ELSE RemoveAt(processed, CHOOSE i \in DOMAIN processed : processed[i] = s)

Touched(s) == <<s>> \o Without(s)
LruGet(s) == IF s \in ToSet(processed) THEN Touched(s) ELSE processed
(* Mutation of LruAdd: nothing is evicted.                                 *)
LruAddUnbounded(s) == Touched(s)

LruAdd(s) == SubSeq(Touched(s), 1,
                    IF Len(Touched(s)) <= ProcessedSize THEN Len(Touched(s)) ELSE ProcessedSize)

----------------------------------------------------------------------------
Idle == [pc |-> "idle"]
Done == [pc |-> "done"]

Init ==
    /\ hidden = Late
    /\ processed = <<>>
    /\ work = [c \in Collections |-> Idle]
    /\ marked = {}
    /\ reported = {}
    /\ dropped = {}

At(c, place) == work[c].pc = place
Working(c) == work[c].pc \notin {"idle", "done"}

(* buildStakeAccountIndex drops duplicates; AccountsOf has none.           *)
Account(c) == AccountsOf[c][work[c].account]

(* The page after the cursor: a signature, so that what lands meanwhile    *)
(* only shifts the pages that are read from the newest end on.             *)
Page(c) ==
    LET h == History[Account(c)]
        first == 1 + IF work[c].before = 0 THEN hidden[Account(c)] ELSE work[c].before
        last == IF first + PageSize - 1 <= Len(h) THEN first + PageSize - 1 ELSE Len(h)
    IN  [i \in 1..(last - first + 1) |-> first + i - 1]

(* The transaction at a position of the account's history. *)
Tx(c, i) == History[Account(c)][i]

(* A transaction of the current epoch lands. *)
Land(a) ==
    /\ hidden[a] > 0
    /\ hidden' = [hidden EXCEPT ![a] = @ - 1]
    /\ UNCHANGED <<processed, work, marked, reported, dropped>>

(* collectJitoTips starts, at the first chunk and account. *)
Start(c) ==
    /\ At(c, "idle")
    /\ work' = [work EXCEPT ![c] =
          [pc |-> "signatures", offset |-> 0, account |-> 1, before |-> 0, pages |-> 0,
           page |-> <<>>, next |-> 1, fresh |-> <<>>, got |-> {}, old |-> FALSE,
           rows |-> <<>>, gap |-> FALSE]]
    /\ UNCHANGED <<hidden, processed, marked, reported, dropped>>

(* GetSignaturesForAddress: an empty page ends the account. *)
GetSignatures(c) ==
    /\ At(c, "signatures")
    /\ work' = [work EXCEPT ![c].pc = IF Page(c) = <<>> THEN "accountDone" ELSE "scan",
                    ![c].page = Page(c), ![c].next = 1, ![c].old = FALSE]
    /\ UNCHANGED <<hidden, processed, marked, reported, dropped>>

RowSignatures(c) == {row.signature : row \in ToSet(work[c].rows)}

(* The collection ends with an error: all rows are dropped. *)
Collapse(c) ==
    /\ work' = [work EXCEPT ![c] = Done]
    /\ dropped' = dropped \cup RowSignatures(c)
    /\ UNCHANGED <<hidden, processed, marked, reported>>

(* A failed call, and a context that is done after it. *)
SignaturesFail(c) == At(c, "signatures") /\ Collapse(c)

(* One turn of the loop over the page: too old, processed, or new. *)
Scan(c) ==
    /\ At(c, "scan")
    /\ work[c].next <= Len(work[c].page)
    /\ LET i == work[c].page[work[c].next]
           tx == Tx(c, i)
           isOld == tx.slot < MinAllowedSlot(work[c].offset)
           isNew == ~isOld /\ tx.signature \notin ToSet(processed)
       IN  /\ processed' = IF isOld THEN processed ELSE LruGet(tx.signature)
           /\ work' = [work EXCEPT ![c].next = @ + 1,
                           ![c].old = @ \/ isOld,
                           ![c].fresh = IF isNew THEN Append(@, i) ELSE @]
    /\ UNCHANGED <<hidden, marked, reported, dropped>>

(* Without new signatures nothing is fetched. *)
Scanned(c) ==
    /\ At(c, "scan")
    /\ work[c].next > Len(work[c].page)
    /\ work' = [work EXCEPT ![c].pc = IF work[c].fresh = <<>> THEN "rows" ELSE "batch",
                    ![c].next = 1]
    /\ UNCHANGED <<hidden, processed, marked, reported, dropped>>

(* batchSignatures: the batch that starts at the next of the signatures. *)
Batch(c) ==
    {work[c].fresh[i] : i \in {j \in DOMAIN work[c].fresh :
                                  j >= work[c].next /\ j < work[c].next + BatchLen}}

(* The transactions of a batch, or the last one fetched alone, are there. *)
Fetched(c, count, found) ==
    LET more == work[c].next + count <= Len(work[c].fresh)
    IN  work' = [work EXCEPT ![c].pc = IF more THEN @ ELSE "rows",
                     ![c].next = IF more THEN @ + count ELSE 1,
                     ![c].got = @ \cup found,
                     ![c].gap = @ \/ ~(Batch(c) \subseteq found \/ At(c, "single"))]

(* fetchTransactionBatch: items are told apart by their ids; those without *)
(* a result, and those that are missing, are left out.                     *)
FetchBatch(c) ==
    /\ At(c, "batch")
    /\ \E found \in SUBSET Batch(c) : Fetched(c, BatchLen, found)
    /\ UNCHANGED <<hidden, processed, marked, reported, dropped>>

(* An endpoint that refuses batches: fetchTransactions starts again, with  *)
(* one GetTransaction for each signature, the fetched ones included.       *)
BatchUnavailable(c) ==
    /\ At(c, "batch")
    /\ work' = [work EXCEPT ![c].pc = "single", ![c].next = 1, ![c].got = {}]
    /\ UNCHANGED <<hidden, processed, marked, reported, dropped>>

GetTransaction(c) ==
    /\ At(c, "single")
    /\ Fetched(c, 1, {work[c].fresh[work[c].next]})
    /\ UNCHANGED <<hidden, processed, marked, reported, dropped>>

(* Mutation of FetchFails: the rows of the account are dropped as well.    *)
FetchFailsWithoutRows(c) ==
    /\ work[c].pc \in {"batch", "single"}
    /\ work' = [work EXCEPT ![c].pc = "accountDone", ![c].gap = TRUE, ![c].got = {},
                    ![c].rows = SelectSeq(@, LAMBDA row : row.account # Account(c))]
    /\ UNCHANGED <<hidden, processed, marked, reported, dropped>>

(* An error of any batch, of one item of it, or of a single transaction is *)
(* only logged: the account ends with the rows of its former pages.        *)
FetchFails(c) ==
    /\ work[c].pc \in {"batch", "single"}
    /\ work' = [work EXCEPT ![c].pc = "accountDone", ![c].gap = TRUE, ![c].got = {}]
    /\ UNCHANGED <<hidden, processed, marked, reported, dropped>>

(* One turn of the loop over the fetched transactions: a tip to this       *)
(* account in an allowed epoch becomes a row, and its signature is marked. *)
IsTip(c, tx) ==
    /\ ~tx.failed
    /\ tx.slot >= MinAllowedSlot(work[c].offset)
    /\ HasJitoInstruction(tx)
    /\ EpochsForSlot(tx.slot) \cap Allowed(work[c].offset) # {}
    /\ TipLamports(tx, Account(c)) # 0

Row(c, tx) ==
    [signature |-> tx.signature, account |-> Account(c), slot |-> tx.slot,
     epoch |-> CHOOSE e \in EpochsForSlot(tx.slot) : TRUE,
     lamports |-> TipLamports(tx, Account(c))]

Process(c) ==
    /\ At(c, "rows")
    /\ work[c].next <= Len(work[c].fresh)
    /\ LET i == work[c].fresh[work[c].next]
           tx == Tx(c, i)
       IN IF i \in work[c].got /\ IsTip(c, tx)
          THEN /\ work' = [work EXCEPT ![c].next = @ + 1, ![c].rows = Append(@, Row(c, tx))]
               /\ processed' = LruAdd(tx.signature)
               /\ marked' = marked \cup {tx.signature}
          ELSE /\ work' = [work EXCEPT ![c].next = @ + 1]
               /\ UNCHANGED <<processed, marked>>
    /\ UNCHANGED <<hidden, reported, dropped>>

(* Mutation of NextPage: the cursor stays and the page is not counted.     *)
NextPageStuck(c) ==
    /\ At(c, "rows")
    /\ work[c].next > Len(work[c].fresh)
    /\ LET more == Len(work[c].page) = PageSize /\ ~work[c].old
       IN  work' = [work EXCEPT ![c].pc = IF more THEN "signatures" ELSE "accountDone",
                        ![c].fresh = <<>>, ![c].got = {}]
    /\ UNCHANGED <<hidden, processed, marked, reported, dropped>>

(* The end of a page: the cursor moves, unless the page was the last one,  *)
(* reached an old slot, or the pages are used up.                          *)
NextPage(c) ==
    /\ At(c, "rows")
    /\ work[c].next > Len(work[c].fresh)
    /\ LET more == /\ Len(work[c].page) = PageSize
                   /\ ~work[c].old
                   /\ work[c].pages + 1 < MaxPages
       IN  work' = [work EXCEPT ![c].pc = IF more THEN "signatures" ELSE "accountDone",
                        ![c].before = Last(work[c].page), ![c].pages = @ + 1,
                        ![c].page = <<>>, ![c].fresh = <<>>, ![c].got = {}]
    /\ UNCHANGED <<hidden, processed, marked, reported, dropped>>

NextAccount(c) ==
    /\ At(c, "accountDone")
    /\ work[c].account < Len(AccountsOf[c])
    /\ work' = [work EXCEPT ![c].pc = "signatures", ![c].account = @ + 1,
                    ![c].before = 0, ![c].pages = 0, ![c].page = <<>>, ![c].fresh = <<>>]
    /\ UNCHANGED <<hidden, processed, marked, reported, dropped>>

(* The next chunk starts over with the first account, a second later. *)
NextChunk(c) ==
    /\ At(c, "accountDone")
    /\ work[c].account = Len(AccountsOf[c])
    /\ work[c].offset + Lookback < TargetCount
    /\ work' = [work EXCEPT ![c].pc = "signatures", ![c].account = 1,
                    ![c].offset = @ + Lookback,
                    ![c].before = 0, ![c].pages = 0, ![c].page = <<>>, ![c].fresh = <<>>]
    /\ UNCHANGED <<hidden, processed, marked, reported, dropped>>

(* The context is done between two chunks. *)
ChunkCancelled(c) ==
    /\ At(c, "accountDone")
    /\ work[c].account = Len(AccountsOf[c])
    /\ work[c].offset + Lookback < TargetCount
    /\ Collapse(c)

LastChunk(c) ==
    /\ At(c, "accountDone")
    /\ work[c].account = Len(AccountsOf[c])
    /\ work[c].offset + Lookback >= TargetCount
    /\ work' = [work EXCEPT ![c].pc = "return"]
    /\ UNCHANGED <<hidden, processed, marked, reported, dropped>>

(* The rows reach the caller. *)
Return(c) ==
    /\ At(c, "return")
    /\ reported' = reported \cup ToSet(work[c].rows)
    /\ work' = [work EXCEPT ![c] = Done]
    /\ UNCHANGED <<hidden, processed, marked, dropped>>

Step(c) ==
    \/ GetSignatures(c) \/ SignaturesFail(c) \/ Scan(c) \/ Scanned(c)
    \/ FetchBatch(c) \/ BatchUnavailable(c) \/ GetTransaction(c) \/ FetchFails(c)
    \/ Process(c) \/ NextPage(c)
    \/ NextAccount(c) \/ NextChunk(c) \/ ChunkCancelled(c) \/ LastChunk(c) \/ Return(c)

Next ==
    \/ \E a \in DOMAIN History : Land(a)
    \/ \E c \in Collections : Start(c) \/ Step(c)

Spec == Init /\ [][Next]_vars

(* Every goroutine runs, and every call answers or fails. *)
FairSpec == Spec /\ \A c \in Collections : WF_vars(Step(c))

----------------------------------------------------------------------------
(* Properties.                                                             *)

Signatures == UNION {{tx.signature : tx \in ToSet(History[a])} : a \in DOMAIN History}
Places == {"signatures", "scan", "batch", "single", "rows", "accountDone", "return"}

(* The values each variable takes. *)
TypeOK ==
    /\ \A a \in DOMAIN History : hidden[a] \in 0..Late[a]
    /\ ToSet(processed) \subseteq Signatures
    /\ Len(processed) <= ProcessedSize
    /\ marked \subseteq Signatures /\ dropped \subseteq Signatures
    /\ \A c \in Collections :
          \/ work[c] \in {Idle, Done}
          \/ /\ work[c].pc \in Places
             /\ work[c].account \in DOMAIN AccountsOf[c]
             /\ work[c].pages \in 0..MaxPages

(* No tip is counted twice in one collection, although chunks read the     *)
(* same pages again, shifted by what landed meanwhile, and the LRU may     *)
(* have forgotten a signature.                                             *)
NoTipTwice ==
    \A c \in Collections : Working(c) => IsInjective(work[c].rows)

(* Every row is a tip that was paid to the account, with its lamports, in  *)
(* the epoch its slot lies in; only the oldest known epoch also takes the  *)
(* tips of the epochs before it.                                           *)
RowsAreTips ==
    \A c \in Collections : Working(c) =>
        \A row \in ToSet(work[c].rows) :
            /\ \/ row.epoch = row.slot \div SlotsInEpoch
               \/ row.epoch = Oldest /\ row.slot \div SlotsInEpoch < Oldest
            /\ \E tx \in ToSet(History[row.account]) :
                  /\ tx.signature = row.signature
                  /\ tx.slot = row.slot
                  /\ tx.paid[row.account] = row.lamports

(* The tips that a collection for these accounts can reach: in the epochs  *)
(* it looks at (or before the oldest known one) and in the pages it reads. *)
InTargetEpochs(s) ==
    LET e == IF s \div SlotsInEpoch < Oldest THEN Oldest ELSE s \div SlotsInEpoch
    IN  e <= Latest /\ Latest - e < TargetCount

Reachable(c) ==
    UNION {{[signature |-> History[a][i].signature, account |-> a] :
              i \in {j \in DOMAIN History[a] :
                        /\ j <= PageSize * MaxPages
                        /\ History[a][j].paid[a] > 0
                        /\ InTargetEpochs(History[a][j].slot)}}
           : a \in ToSet(AccountsOf[c])}

Has(rows, tip) == \E row \in rows : row.signature = tip.signature /\ row.account = tip.account

(* A collection without failed or incomplete calls misses no tip that was  *)
(* not marked before: the end of a page, of the old slots, of an account   *)
(* and of a chunk cut nothing off.                                         *)
CompleteExceptMarked ==
    \A c \in Collections :
        At(c, "return") /\ ~work[c].gap =>
            \A tip \in Reachable(c) :
                Has(ToSet(work[c].rows), tip) \/ tip.signature \in marked

(* A signature that the LRU keeps from being fetched again has its row:    *)
(* returned, or on its way to the caller.  A failed fetch or a lost answer *)
(* costs none of the rows before it; only an error that the caller sees    *)
(* does.                                                                   *)
NoTipLostQuietly ==
    \A s \in ToSet(processed) :
        \/ s \in dropped
        \/ \E row \in reported : row.signature = s
        \/ \E c \in Collections : Working(c) /\ s \in RowSignatures(c)

(* Every collection ends: the cursor moves, pages and chunks are counted.  *)
EveryCollectionEnds == \A c \in Collections : Working(c) ~> At(c, "done")

(* spec.md, user story 3: "I want my staking rewards to be correctly       *)
(* tracked": the caller replaces a wallet's list by the rows of the next   *)
(* collection, so a tip that was returned once is returned again by every  *)
(* collection of its account in which no call failed.                      *)
TipsStay ==
    \A c \in Collections :
        At(c, "return") /\ ~work[c].gap =>
            \A tip \in Reachable(c) : Has(reported, tip) => Has(ToSet(work[c].rows), tip)
=============================================================================
