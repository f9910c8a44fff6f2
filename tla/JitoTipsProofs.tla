--------------------------- MODULE JitoTipsProofs ---------------------------
(* Proofs about JitoTips, for any collections, accounts and histories, and *)
(* any sizes of pages, batches, chunks and of the LRU: no tip is counted   *)
(* twice, none is lost quietly, and a collection in which no call failed   *)
(* misses none.                                                            *)
EXTENDS JitoTips, SequenceTheorems, TLAPS

----------------------------------------------------------------------------
(* The inductive invariant.                                                *)

(* The row that a transaction of an account gives.                         *)
RowOf(a, i) ==
    [signature |-> History[a][i].signature, account |-> a, slot |-> History[a][i].slot,
     epoch |-> CHOOSE e \in EpochsForSlot(History[a][i].slot) : TRUE,
     lamports |-> TipLamports(History[a][i], a)]

Rows == UNION {{RowOf(a, i) : i \in {j \in DOMAIN History[a] :
                                       EpochsForSlot(History[a][j].slot) # {}}}
               : a \in DOMAIN History}

(* The locals of a collection.                                             *)
Locals == [pc : Places, offset : Nat, account : Nat, before : Nat, pages : Nat,
           page : Seq(Nat), next : Nat, fresh : Seq(Nat), got : SUBSET Nat,
           old : BOOLEAN, rows : Seq(Rows), gap : BOOLEAN]

(* The account that is read, and its history.                              *)
AccountOf(c, w) == AccountsOf[c][w.account]
HistoryOf(c, w) == History[AccountOf(c, w)]

LoopsOK(c, w) ==
    /\ w \in Locals
    /\ w.offset < TargetCount
    /\ w.account \in DOMAIN AccountsOf[c]
    /\ w.pages <= MaxPages
    /\ w.pages * PageSize <= w.before \/ w.pc \in {"accountDone", "return"}
    /\ w.pc \notin {"accountDone", "return"} => w.pages < MaxPages
    /\ w.pc = "return" =>
          w.account = Len(AccountsOf[c]) /\ w.offset + Lookback >= TargetCount

InPage == {"scan", "batch", "single", "rows"}

(* A page is an unbroken piece of the history after the cursor, full or up *)
(* to the end; what is old makes all that follows old.                     *)
PageOK(c, w) ==
    w.pc \in InPage =>
        /\ w.page # <<>> /\ Len(w.page) <= PageSize
        /\ w.before < w.page[1]
        /\ \A i \in DOMAIN w.page : /\ w.page[i] = w.page[1] + i - 1
                                    /\ w.page[i] \in DOMAIN HistoryOf(c, w)
        /\ Len(w.page) < PageSize => w.page[Len(w.page)] = Len(HistoryOf(c, w))
        /\ w.old => \A j \in DOMAIN HistoryOf(c, w) :
              j > w.page[Len(w.page)] => HistoryOf(c, w)[j].slot < MinAllowedSlot(w.offset)

(* The signatures to be fetched are some of the page, in its order.        *)
FreshOK(w) ==
    /\ w.pc = "signatures" => w.fresh = <<>>
    /\ w.pc \in InPage =>
          /\ \A k \in DOMAIN w.fresh : \E j \in DOMAIN w.page :
                w.fresh[k] = w.page[j] /\ (w.pc = "scan" => j < w.next)
          /\ \A k, l \in DOMAIN w.fresh : k < l => w.fresh[k] < w.fresh[l]
    /\ w.pc \in {"batch", "single"} => w.next \in DOMAIN w.fresh
    /\ w.next > 0

(* The transactions of the current account that have given their rows.     *)
Taken(w, i) ==
    \/ w.pc \in {"accountDone", "return"}
    \/ i <= w.before
    \/ w.pc = "rows" /\ \E k \in DOMAIN w.fresh : k < w.next /\ w.fresh[k] = i

(* A row comes from a tip of an earlier chunk, of an earlier account of    *)
(* this chunk, or of what is taken of this account.                        *)
Passed(w, m, i, e) ==
    \/ Latest - e < w.offset
    \/ /\ Latest - e < w.offset + Lookback
       /\ m < w.account \/ (m = w.account /\ Taken(w, i))

Pays(tx, a) == ~tx.failed /\ HasJitoInstruction(tx) /\ TipLamports(tx, a) # 0

RowOK(c, w, row) ==
    \E m \in DOMAIN AccountsOf[c] : \E i \in DOMAIN History[AccountsOf[c][m]] :
        /\ EpochsForSlot(History[AccountsOf[c][m]][i].slot) # {}
        /\ row = RowOf(AccountsOf[c][m], i)
        /\ Pays(History[AccountsOf[c][m]][i], AccountsOf[c][m])
        /\ Passed(w, m, i, row.epoch)

RowsOK(c, w) ==
    /\ IsInjective(w.rows)
    /\ \A k \in DOMAIN w.rows : RowOK(c, w, w.rows[k])

(* Without failed or incomplete calls, what was to be fetched is fetched.  *)
GotOK(w) ==
    /\ w.pc \in {"batch", "single"} =>
          w.gap \/ \A k \in DOMAIN w.fresh : k < w.next => w.fresh[k] \in w.got
    /\ w.pc = "rows" => w.gap \/ \A k \in DOMAIN w.fresh : w.fresh[k] \in w.got

(* The tips that are behind the cursor: all up to it but those still to be *)
(* fetched or looked at.                                                   *)
Behind(w, j) ==
    \/ w.pc = "signatures" /\ j <= w.before
    \/ /\ w.pc = "scan" /\ j <= w.page[Len(w.page)]
       /\ \A i \in DOMAIN w.page : i >= w.next => w.page[i] # j
       /\ \A k \in DOMAIN w.fresh : w.fresh[k] # j
    \/ /\ w.pc \in {"batch", "single"} /\ j <= w.page[Len(w.page)]
       /\ \A k \in DOMAIN w.fresh : w.fresh[k] # j
    \/ /\ w.pc = "rows" /\ j <= w.page[Len(w.page)]
       /\ \A k \in DOMAIN w.fresh : k >= w.next => w.fresh[k] # j
    \/ w.pc \in {"accountDone", "return"}

Due(w, m, j, e) ==
    \/ Latest - e < w.offset
    \/ /\ Latest - e < w.offset + Lookback
       /\ m < w.account \/ (m = w.account /\ Behind(w, j))

(* Account number m's transaction j pays a tip in the epoch e.             *)
TipIn(c, m, j, e) ==
    LET a == AccountsOf[c][m]
    IN  /\ j \in DOMAIN History[a] /\ j <= PageSize * MaxPages
        /\ Pays(History[a][j], a)
        /\ e \in EpochsForSlot(History[a][j].slot) /\ Latest - e < TargetCount

Accounted(c, w, m, j, mk) ==
    LET a == AccountsOf[c][m]
    IN  \/ History[a][j].signature \in mk
        \/ \E k \in DOMAIN w.rows : /\ w.rows[k].signature = History[a][j].signature
                                    /\ w.rows[k].account = a

Covered(c, w, mk) ==
    w.gap \/ \A m \in DOMAIN AccountsOf[c] : \A j \in Nat : \A e \in Epochs :
                TipIn(c, m, j, e) /\ Due(w, m, j, e) => Accounted(c, w, m, j, mk)

WorkOK(c, w, mk) ==
    \/ w \in {Idle, Done}
    \/ /\ LoopsOK(c, w) /\ PageOK(c, w) /\ FreshOK(w)
       /\ RowsOK(c, w) /\ GotOK(w) /\ Covered(c, w, mk)

LruOK ==
    /\ processed \in Seq(Signatures)
    /\ Len(processed) <= ProcessedSize
    /\ IsInjective(processed)
    /\ ToSet(processed) \subseteq marked

IInv ==
    /\ hidden \in [DOMAIN History -> Nat]
    /\ \A a \in DOMAIN History : hidden[a] <= Late[a]
    /\ marked \subseteq Signatures /\ dropped \subseteq Signatures
    /\ LruOK
    /\ DOMAIN work = Collections
    /\ \A c \in Collections : WorkOK(c, work[c], marked)
    /\ NoTipLostQuietly

----------------------------------------------------------------------------
(* The LRU.                                                                *)

LEMMA Sizes ==
    /\ PageSize \in Nat /\ PageSize > 0 /\ MaxPages \in Nat /\ MaxPages > 0
    /\ BatchLen \in Nat /\ BatchLen > 0 /\ ProcessedSize \in Nat /\ ProcessedSize > 0
    /\ Lookback \in Nat /\ Lookback > 0 /\ ChunkRuns \in Nat /\ ChunkRuns > 0
    /\ SlotsInEpoch \in Nat /\ SlotsInEpoch > 0
  BY JitoTipsAssumption

LEMMA ToSetIsIn ==
    ASSUME NEW S, NEW s \in Seq(S)
    PROVE  /\ ToSet(s) \subseteq S
           /\ \A x : x \in ToSet(s) <=> \E i \in 1..Len(s) : s[i] = x
  BY DEF ToSet

(* The memory without a signature: the other ones, in the same order.      *)
LEMMA WithoutFacts ==
    ASSUME LruOK, NEW s
    PROVE  /\ Without(s) \in Seq(Signatures)
           /\ IsInjective(Without(s))
           /\ \A x : x \in ToSet(Without(s)) => x \in ToSet(processed) /\ x # s
           /\ Len(Without(s)) <= Len(processed)
           /\ s \in ToSet(processed) => Len(Without(s)) < Len(processed)
<1>1. /\ processed \in Seq(Signatures) /\ Len(processed) \in Nat
      /\ DOMAIN processed = 1..Len(processed)
      /\ \A i, j \in DOMAIN processed : processed[i] = processed[j] => i = j
  BY DEF LruOK, IsInjective
<1>2. CASE s \notin ToSet(processed)
  <2>1. Without(s) = processed
    BY <1>2 DEF Without
  <2>2. QED
    BY <1>1, <1>2, <2>1 DEF LruOK
<1>3. CASE s \in ToSet(processed)
  <2> DEFINE i == CHOOSE j \in DOMAIN processed : processed[j] = s
             A == SubSeq(processed, 1, i - 1)
             B == SubSeq(processed, i + 1, Len(processed))
             S == A \o B
  <2>1. i \in 1..Len(processed) /\ processed[i] = s
    BY <1>1, <1>3 DEF ToSet
  <2>2. Without(s) = S
    BY <1>3 DEF Without, RemoveAt
  <2> HIDE DEF i
  <2>3. /\ A \in Seq(Signatures) /\ Len(A) = i - 1
        /\ \A k \in 1..(i - 1) : A[k] = processed[k]
    <3>1. \A k \in 1..(i - 1) : processed[k] \in Signatures
      BY <1>1, <2>1
    <3>2. QED
      BY <2>1, <3>1, SubSeqProperties
  <2>4. /\ B \in Seq(Signatures) /\ Len(B) = Len(processed) - i
        /\ \A k \in 1..(Len(processed) - i) : B[k] = processed[i + k]
    <3>1. \A k \in (i + 1)..Len(processed) : processed[k] \in Signatures
      BY <1>1, <2>1
    <3>2. /\ B \in Seq(Signatures)
          /\ Len(B) = IF i + 1 <= Len(processed) THEN Len(processed) - (i + 1) + 1 ELSE 0
          /\ \A k \in 1..(Len(processed) - (i + 1) + 1) : B[k] = processed[(i + 1) + k - 1]
      BY <1>1, <2>1, <3>1, SubSeqProperties
    <3> HIDE DEF B
    <3>3. i \in Nat /\ Len(processed) \in Nat /\ i <= Len(processed)
      BY <1>1, <2>1
    <3>4. Len(B) = Len(processed) - i
      BY <3>2, <3>3
    <3>5. ASSUME NEW k \in 1..(Len(processed) - i) PROVE B[k] = processed[i + k]
      <4>1. k \in 1..(Len(processed) - (i + 1) + 1) /\ (i + 1) + k - 1 = i + k
        BY <3>3
      <4>2. B[k] = processed[(i + 1) + k - 1]
        BY <3>2, <4>1
      <4>3. QED
        BY <4>1, <4>2
    <3>6. QED
      BY <3>2, <3>4, <3>5
  <2> HIDE DEF A, B
  <2>5. /\ S \in Seq(Signatures) /\ Len(S) = Len(A) + Len(B)
        /\ \A k \in 1..(Len(A) + Len(B)) :
              S[k] = IF k <= Len(A) THEN A[k] ELSE B[k - Len(A)]
    BY <2>3, <2>4, ConcatProperties
  <2> HIDE DEF S
  <2>6. Len(A) = i - 1 /\ Len(S) = Len(processed) - 1
    BY <1>1, <2>1, <2>3, <2>4, <2>5
  <2> DEFINE at(k) == IF k < i THEN k ELSE k + 1
  <2>7. \A k \in 1..Len(S) : S[k] = processed[at(k)]
    <3>1. TAKE k \in 1..Len(S)
    <3>2. CASE k < i
      <4>1. k \in 1..(i - 1) /\ at(k) = k /\ k <= Len(A) /\ k \in 1..(Len(A) + Len(B))
        BY <2>1, <2>5, <2>6, <3>2
      <4>2. QED
        BY <2>3, <2>5, <4>1
    <3>3. CASE ~(k < i)
      <4>1. /\ k - (i - 1) \in 1..(Len(processed) - i) /\ i + (k - (i - 1)) = k + 1
            /\ at(k) = k + 1 /\ ~(k <= Len(A)) /\ k \in 1..(Len(A) + Len(B))
        BY <1>1, <2>1, <2>5, <2>6, <3>3
      <4>2. S[k] = B[k - (i - 1)]
        BY <2>5, <2>6, <4>1
      <4>3. B[k - (i - 1)] = processed[k + 1]
        BY <2>4, <4>1
      <4>4. QED
        BY <4>1, <4>2, <4>3
    <3>4. QED
      BY <3>2, <3>3
  <2>8. /\ \A k \in 1..Len(S) : at(k) \in DOMAIN processed /\ at(k) # i
        /\ \A k, l \in 1..Len(S) : at(k) = at(l) => k = l
    BY <1>1, <2>1, <2>6
  <2> HIDE DEF at
  <2>9. DOMAIN S = 1..Len(S)
    BY <2>5
  <2>10. \A k \in DOMAIN S : S[k] \in ToSet(processed) /\ S[k] # s
    BY <1>1, <2>1, <2>7, <2>8, <2>9 DEF ToSet
  <2>11. IsInjective(S)
    BY <1>1, <2>7, <2>8, <2>9 DEF IsInjective
  <2>12. \A x : x \in ToSet(S) => x \in ToSet(processed) /\ x # s
    BY <2>10 DEF ToSet
  <2>13. Len(S) < Len(processed) /\ Len(S) <= Len(processed)
    BY <1>1, <2>6
  <2>14. QED
    BY <2>2, <2>5, <2>11, <2>12, <2>13
<1>4. QED
  BY <1>2, <1>3

(* A signature put in front.                                               *)
LEMMA TouchedFacts ==
    ASSUME LruOK, NEW s \in Signatures
    PROVE  /\ Touched(s) \in Seq(Signatures)
           /\ Len(Touched(s)) = Len(Without(s)) + 1
           /\ IsInjective(Touched(s))
           /\ \A x : x \in ToSet(Touched(s)) => x \in ToSet(processed) \/ x = s
<1> DEFINE R == Without(s)
           T == Touched(s)
<1>1. /\ R \in Seq(Signatures) /\ IsInjective(R)
      /\ \A x : x \in ToSet(R) => x \in ToSet(processed) /\ x # s
  BY WithoutFacts
<1>2. T = <<s>> \o R
  BY DEF Touched
<1> HIDE DEF R, T
<1>3. <<s>> \in Seq(Signatures) /\ Len(<<s>>) = 1 /\ <<s>>[1] = s
  OBVIOUS
<1>4. /\ T \in Seq(Signatures) /\ Len(T) = 1 + Len(R) /\ Len(R) \in Nat
      /\ \A i \in 1..(1 + Len(R)) : T[i] = IF i <= 1 THEN <<s>>[i] ELSE R[i - 1]
  BY <1>1, <1>2, <1>3, ConcatProperties
<1>5. DOMAIN T = 1..(1 + Len(R)) /\ DOMAIN R = 1..Len(R)
  BY <1>1, <1>4
<1>6. T[1] = s
  BY <1>3, <1>4
<1>7. ASSUME NEW i \in DOMAIN T, i # 1
      PROVE  i - 1 \in DOMAIN R /\ T[i] = R[i - 1] /\ T[i] \in ToSet(R)
  <2>1. i - 1 \in DOMAIN R /\ T[i] = R[i - 1]
    BY <1>4, <1>5, <1>7
  <2>2. QED
    BY <2>1 DEF ToSet
<1>8. \A x : x \in ToSet(T) => x \in ToSet(processed) \/ x = s
  <2>1. \A i \in DOMAIN T : T[i] \in ToSet(processed) \/ T[i] = s
    BY <1>1, <1>6, <1>7
  <2>2. QED
    BY <2>1 DEF ToSet
<1>9. ASSUME NEW i \in DOMAIN T, NEW j \in DOMAIN T, T[i] = T[j]
      PROVE  i = j
  <2>1. i \in Nat /\ j \in Nat
    BY <1>5
  <2>2. CASE i = 1 \/ j = 1
    BY <1>1, <1>6, <1>7, <1>9, <2>2
  <2>3. CASE i # 1 /\ j # 1
    <3>1. i - 1 = j - 1
      BY <1>1, <1>7, <1>9, <2>3 DEF IsInjective
    <3>2. QED
      BY <2>1, <3>1
  <2>4. QED
    BY <2>2, <2>3
<1>10. QED
  BY <1>4, <1>8, <1>9 DEF IsInjective, R, T

(* Get changes the order only.                                             *)
LEMMA GetKeepsLru ==
    ASSUME LruOK, NEW s, processed' = LruGet(s), marked' = marked
    PROVE  /\ LruOK'
           /\ ToSet(processed') \subseteq ToSet(processed)
<1>1. CASE s \notin ToSet(processed)
  BY <1>1 DEF LruGet, LruOK
<1>2. CASE s \in ToSet(processed)
  <2>1. s \in Signatures /\ processed' = Touched(s)
    BY <1>2, ToSetIsIn DEF LruOK, LruGet
  <2>2. /\ processed' \in Seq(Signatures) /\ IsInjective(processed')
        /\ Len(processed') = Len(Without(s)) + 1
        /\ \A x : x \in ToSet(processed') => x \in ToSet(processed) \/ x = s
    BY <2>1, TouchedFacts
  <2>3. /\ Len(processed) \in Nat /\ Len(Without(s)) \in Nat
        /\ Len(processed) <= ProcessedSize
        /\ Len(Without(s)) < Len(processed) /\ ProcessedSize \in Nat
    BY <1>2, WithoutFacts, Sizes DEF LruOK
  <2>4. Len(processed') <= ProcessedSize
    BY <2>2, <2>3
  <2>5. ToSet(processed') \subseteq ToSet(processed)
    BY <1>2, <2>2
  <2>6. QED
    BY <2>2, <2>4, <2>5 DEF LruOK
<1>3. QED
  BY <1>1, <1>2

(* Add keeps to the capacity, and brings in nothing else.                  *)
LEMMA AddKeepsLru ==
    ASSUME LruOK, NEW s \in Signatures,
           processed' = LruAdd(s), marked' = marked \cup {s}
    PROVE  /\ LruOK'
           /\ ToSet(processed') \subseteq ToSet(processed) \cup {s}
<1> DEFINE T == Touched(s)
           n == IF Len(T) <= ProcessedSize THEN Len(T) ELSE ProcessedSize
<1>1. /\ T \in Seq(Signatures) /\ IsInjective(T)
      /\ \A x : x \in ToSet(T) => x \in ToSet(processed) \/ x = s
  BY TouchedFacts
<1>2. processed' = SubSeq(T, 1, n)
  BY DEF LruAdd
<1> HIDE DEF T
<1>3. n \in Nat /\ n <= Len(T) /\ n <= ProcessedSize /\ Len(T) \in Nat /\ DOMAIN T = 1..Len(T)
  BY <1>1, Sizes
<1> HIDE DEF n
<1>4. \A i \in 1..n : T[i] \in Signatures
  BY <1>1, <1>3
<1>5. /\ processed' \in Seq(Signatures) /\ Len(processed') = IF 1 <= n THEN n - 1 + 1 ELSE 0
      /\ \A i \in 1..(n - 1 + 1) : processed'[i] = T[1 + i - 1]
  BY <1>2, <1>3, <1>4, SubSeqProperties
<1>6. /\ processed' \in Seq(Signatures) /\ Len(processed') = n /\ DOMAIN processed' = 1..n
      /\ \A i \in 1..n : processed'[i] = T[i]
  BY <1>3, <1>5
<1>7. \A i \in DOMAIN processed' : i \in DOMAIN T /\ processed'[i] = T[i]
  BY <1>3, <1>6
<1>8. IsInjective(processed')
  BY <1>1, <1>7 DEF IsInjective
<1>9. ToSet(processed') \subseteq ToSet(T)
  BY <1>7 DEF ToSet
<1>10. ToSet(processed') \subseteq ToSet(processed) \cup {s}
  BY <1>1, <1>9
<1>11. QED
  BY <1>3, <1>6, <1>8, <1>10 DEF LruOK

----------------------------------------------------------------------------
(* Epochs and slots.                                                       *)

LEMMA Products ==
    ASSUME NEW a \in Nat, NEW b \in Nat, NEW n \in Nat
    PROVE  /\ a * n \in Nat
           /\ (a + 1) * n = a * n + n
           /\ a <= b => a * n <= b * n
<1>1. ASSUME a <= b PROVE a * n <= b * n
  <2>1. PICK d \in Nat : b = a + d
    BY <1>1, b - a \in Nat
  <2>2. b * n = a * n + d * n
    BY <2>1
  <2>3. d * n \in Nat /\ a * n \in Nat
    OBVIOUS
  <2>4. QED
    BY <2>2, <2>3
<1>2. a * n \in Nat /\ (a + 1) * n = a * n + n
  OBVIOUS
<1>3. QED
  BY <1>1, <1>2

LEMMA EpochFacts ==
    /\ Oldest \in Nat /\ Latest \in Nat /\ Oldest <= Latest
    /\ Epochs = Oldest..Latest
    /\ TargetCount \in Nat /\ TargetCount > 0 /\ TargetCount <= Latest - Oldest + 1
<1>1. /\ Oldest \in Nat /\ Latest \in Nat /\ Oldest <= Latest
      /\ Epochs = Oldest..Latest
  BY BoundariesAssumption
<1>2. Lookback * ChunkRuns \in Nat
  BY Sizes
<1>3. Lookback * ChunkRuns > 0
  <2>1. 1 * ChunkRuns <= Lookback * ChunkRuns
    BY Sizes, Products
  <2>2. QED
    BY <2>1, Sizes
<1>4. QED
  BY <1>1, <1>2, <1>3 DEF TargetCount

(* An epoch's slots start where those of the one before end.               *)
LEMMA Intervals ==
    ASSUME NEW e \in Epochs
    PROVE  /\ e \in Nat /\ IntervalStart(e) \in Nat /\ EndSlot[e] \in Nat
           /\ EndSlot[e] = e * SlotsInEpoch + SlotsInEpoch - 1
           /\ IntervalStart(e) = IF e = Oldest THEN 0 ELSE e * SlotsInEpoch
<1>1. e \in Nat /\ Oldest <= e /\ e <= Latest
  BY EpochFacts
<1>2. /\ e * SlotsInEpoch \in Nat
      /\ EndSlot[e] = e * SlotsInEpoch + SlotsInEpoch - 1
  BY <1>1, Sizes, Products, BoundariesAssumption
<1>3. CASE e = Oldest
  BY <1>1, <1>2, <1>3, Sizes DEF IntervalStart
<1>4. CASE e # Oldest
  <2>1. e - 1 \in Epochs /\ (e - 1) + 1 = e
    BY <1>1, <1>4, EpochFacts
  <2>2. EndSlot[e - 1] = e * SlotsInEpoch - 1
    BY <2>1, BoundariesAssumption
  <2>3. QED
    BY <1>1, <1>2, <1>4, <2>2, Sizes DEF IntervalStart
<1>5. QED
  BY <1>3, <1>4

(* So a later epoch starts after an earlier one has ended.                 *)
LEMMA IntervalsApart ==
    ASSUME NEW e \in Epochs, NEW f \in Epochs, e < f
    PROVE  EndSlot[e] < IntervalStart(f)
<1>1. e \in Nat /\ f \in Nat /\ e + 1 <= f /\ f # Oldest
  BY EpochFacts
<1>2. (e + 1) * SlotsInEpoch <= f * SlotsInEpoch
  BY <1>1, Sizes, Products
<1>3. (e + 1) * SlotsInEpoch = e * SlotsInEpoch + SlotsInEpoch /\ e * SlotsInEpoch \in Nat
  BY <1>1, Sizes, Products
<1>4. f * SlotsInEpoch \in Nat
  BY <1>1, Sizes, Products
<1>5. QED
  BY <1>1, <1>2, <1>3, <1>4, Intervals, Sizes

(* No slot is in two epochs.                                               *)
LEMMA OneEpoch ==
    ASSUME NEW s \in Nat, NEW e \in EpochsForSlot(s), NEW f \in EpochsForSlot(s)
    PROVE  e = f
<1>1. /\ e \in Epochs /\ IntervalStart(e) <= s /\ s <= EndSlot[e]
      /\ f \in Epochs /\ IntervalStart(f) <= s /\ s <= EndSlot[f]
  BY DEF EpochsForSlot
<1>2. /\ e \in Nat /\ f \in Nat
      /\ IntervalStart(e) \in Nat /\ IntervalStart(f) \in Nat
      /\ EndSlot[e] \in Nat /\ EndSlot[f] \in Nat
  BY <1>1, Intervals
<1>3. ~(e < f) /\ ~(f < e)
  BY <1>1, <1>2, IntervalsApart
<1>4. QED
  BY <1>2, <1>3

(* A slot at or before the end of the newest epoch is in one, the oldest   *)
(* if it is before that.                                                   *)
LEMMA SlotHasEpoch ==
    ASSUME NEW s \in Nat, InTargetEpochs(s)
    PROVE  \E e \in EpochsForSlot(s) : Latest - e < TargetCount
<1> DEFINE d == s \div SlotsInEpoch
           e == IF d < Oldest THEN Oldest ELSE d
<1>1. /\ d \in Nat /\ s % SlotsInEpoch \in Nat /\ s % SlotsInEpoch < SlotsInEpoch
      /\ s = SlotsInEpoch * d + (s % SlotsInEpoch)
  BY Sizes
<1>2. d * SlotsInEpoch <= s /\ s < d * SlotsInEpoch + SlotsInEpoch /\ d * SlotsInEpoch \in Nat
  <2>1. SlotsInEpoch * d = d * SlotsInEpoch /\ d * SlotsInEpoch \in Nat
    BY <1>1, Sizes, Products
  <2>2. QED
    BY <1>1, <2>1, Sizes
<1>3. e <= Latest /\ Latest - e < TargetCount
  BY DEF InTargetEpochs
<1> HIDE DEF d
<1>4. e \in Epochs /\ e \in Nat /\ d <= e
  BY <1>1, <1>3, EpochFacts
<1>5. s <= EndSlot[e]
  <2>1. d * SlotsInEpoch <= e * SlotsInEpoch /\ e * SlotsInEpoch \in Nat
    BY <1>1, <1>4, Sizes, Products
  <2>2. EndSlot[e] = e * SlotsInEpoch + SlotsInEpoch - 1
    BY <1>4, Intervals
  <2>3. QED
    BY <1>2, <2>1, <2>2, Sizes
<1>6. IntervalStart(e) <= s
  <2>1. CASE e = Oldest
    BY <1>4, <2>1, Intervals
  <2>2. CASE e # Oldest
    <3>1. e = d /\ IntervalStart(e) = d * SlotsInEpoch
      BY <1>4, <2>2, Intervals
    <3>2. QED
      BY <1>2, <3>1
  <2>3. QED
    BY <2>1, <2>2
<1>7. e \in EpochsForSlot(s)
  BY <1>4, <1>5, <1>6 DEF EpochsForSlot
<1>8. QED
  BY <1>3, <1>7

(* What lands late is in no known epoch.                                   *)
LEMMA LateHasNoEpoch ==
    ASSUME NEW a \in DOMAIN History, NEW i \in DOMAIN History[a], i <= Late[a]
    PROVE  EpochsForSlot(History[a][i].slot) = {}
<1>1. i \in 1..Late[a]
  BY JitoTipsAssumption
<1>2. \A e \in Epochs : History[a][i].slot > EndSlot[e]
  BY <1>1, JitoTipsAssumption DEF Epochs
<1>3. History[a][i].slot \in Nat
  BY JitoTipsAssumption
<1>4. QED
  BY <1>2, <1>3, Intervals DEF EpochsForSlot

(* The smallest slot that a chunk allows is the start of its oldest epoch. *)
LEMMA MinAllowed ==
    ASSUME NEW offset \in Nat, offset < TargetCount
    PROVE  /\ MinAllowedSlot(offset) \in Nat
           /\ \A e \in Allowed(offset) : MinAllowedSlot(offset) <= IntervalStart(e)
<1> DEFINE A == Allowed(offset)
           low == IF Latest - offset - Lookback + 1 >= Latest - TargetCount + 1
                  THEN Latest - offset - Lookback + 1 ELSE Latest - TargetCount + 1
           min == CHOOSE e \in A : \A f \in A : e <= f
<1>1. low \in A /\ \A f \in A : low <= f
  BY EpochFacts, Sizes DEF Allowed
<1>2. min \in A /\ \A f \in A : min <= f
  BY <1>1
<1>3. A \subseteq Epochs
  BY DEF Allowed
<1>4. MinAllowedSlot(offset) = IntervalStart(min)
  BY DEF MinAllowedSlot
<1> HIDE DEF A, low, min
<1>5. ASSUME NEW e \in A PROVE IntervalStart(min) <= IntervalStart(e)
  <2>1. min \in Epochs /\ e \in Epochs /\ min <= e
    BY <1>2, <1>3
  <2>2. /\ min \in Nat /\ e \in Nat /\ IntervalStart(min) \in Nat
        /\ IntervalStart(e) \in Nat /\ EndSlot[min] \in Nat
    BY <2>1, Intervals
  <2>3. CASE min = e
    BY <2>2, <2>3
  <2>4. CASE min < e
    <3>1. EndSlot[min] < IntervalStart(e)
      BY <2>1, <2>4, IntervalsApart
    <3>2. IntervalStart(min) <= EndSlot[min]
      <4>1. /\ EndSlot[min] = min * SlotsInEpoch + SlotsInEpoch - 1
            /\ IntervalStart(min) = IF min = Oldest THEN 0 ELSE min * SlotsInEpoch
        BY <2>1, Intervals
      <4>2. min * SlotsInEpoch \in Nat
        BY <2>2, Sizes, Products
      <4>3. QED
        BY <2>2, <4>1, <4>2, Sizes
    <3>3. QED
      BY <2>2, <3>1, <3>2
  <2>5. QED
    BY <2>1, <2>2, <2>3, <2>4
<1>6. QED
  BY <1>2, <1>3, <1>4, <1>5, Intervals DEF A

----------------------------------------------------------------------------
(* A step of one collection.                                               *)

LEMMA Running ==
    ASSUME IInv, NEW c \in Collections, work[c].pc \in Places
    PROVE  /\ work[c] \in Locals
           /\ LoopsOK(c, work[c]) /\ PageOK(c, work[c]) /\ FreshOK(work[c])
           /\ RowsOK(c, work[c]) /\ GotOK(work[c]) /\ Covered(c, work[c], marked)
           /\ Working(c)
<1>1. work[c] \notin {Idle, Done} /\ Working(c)
  BY DEF Places, Idle, Done, Working
<1>2. WorkOK(c, work[c], marked)
  BY DEF IInv
<1>3. QED
  BY <1>1, <1>2 DEF WorkOK, LoopsOK

(* What is marked stays marked.                                            *)
LEMMA MoreMarked ==
    ASSUME NEW c, NEW w, NEW mk, NEW ml, mk \subseteq ml, WorkOK(c, w, mk)
    PROVE  WorkOK(c, w, ml)
<1>1. ASSUME Covered(c, w, mk) PROVE Covered(c, w, ml)
  BY <1>1 DEF Covered, Accounted
<1>2. QED
  BY <1>1 DEF WorkOK

LEMMA OneMoves ==
    ASSUME IInv, NEW c \in Collections, NEW v, work' = [work EXCEPT ![c] = v],
           WorkOK(c, v, marked'), hidden' = hidden,
           marked \subseteq marked', marked' \subseteq Signatures,
           dropped' \subseteq Signatures, LruOK', NoTipLostQuietly'
    PROVE  IInv'
<1>1. /\ hidden' \in [DOMAIN History -> Nat]
      /\ \A a \in DOMAIN History : hidden'[a] <= Late[a]
  BY DEF IInv
<1>2. DOMAIN work' = Collections
  BY DEF IInv
<1>3. ASSUME NEW d \in Collections PROVE WorkOK(d, work'[d], marked')
  <2>1. CASE d = c
    BY <1>2, <2>1
  <2>2. CASE d # c
    <3>1. work'[d] = work[d]
      BY <2>2 DEF IInv
    <3>2. WorkOK(d, work[d], marked)
      BY DEF IInv
    <3>3. QED
      BY <3>1, <3>2, MoreMarked
  <2>3. QED
    BY <2>1, <2>2
<1>4. QED
  BY <1>1, <1>2, <1>3 DEF IInv

(* The rows of a collection that goes on stay on their way.                *)
LEMMA RowsOnTheWay ==
    ASSUME IInv, NEW c \in Collections, NEW v, work' = [work EXCEPT ![c] = v],
           v.pc \in Places, Working(c) => ToSet(work[c].rows) \subseteq ToSet(v.rows),
           \A s \in ToSet(processed') :
              s \in ToSet(processed) \/ \E row \in ToSet(v.rows) : row.signature = s,
           dropped' = dropped, reported' = reported
    PROVE  NoTipLostQuietly'
<1>1. /\ work'[c] = v
      /\ \A d \in Collections : d # c => work'[d] = work[d]
  BY DEF IInv
<1>2. SUFFICES ASSUME NEW s \in ToSet(processed')
               PROVE  \/ s \in dropped
                      \/ \E row \in reported : row.signature = s
                      \/ \E d \in Collections : Working(d)' /\ s \in RowSignatures(d)'
  BY DEF NoTipLostQuietly
<1>3. Working(c)' /\ \A d \in Collections : d # c => (Working(d)' <=> Working(d))
  BY <1>1 DEF Working, Places
<1>4. RowSignatures(c)' = {row.signature : row \in ToSet(v.rows)}
  BY <1>1 DEF RowSignatures
<1>5. CASE \E row \in ToSet(v.rows) : row.signature = s
  BY <1>3, <1>4, <1>5
<1>6. CASE s \in ToSet(processed)
  <2>1. \/ s \in dropped
        \/ \E row \in reported : row.signature = s
        \/ \E d \in Collections : Working(d) /\ s \in RowSignatures(d)
    BY <1>6 DEF IInv, NoTipLostQuietly
  <2>2. ASSUME NEW d \in Collections, Working(d), s \in RowSignatures(d)
        PROVE  Working(d)' /\ s \in RowSignatures(d)'
    <3>1. CASE d = c
      BY <1>3, <1>4, <2>2, <3>1 DEF RowSignatures
    <3>2. CASE d # c
      BY <1>1, <1>3, <2>2, <3>2 DEF RowSignatures
    <3>3. QED
      BY <3>1, <3>2
  <2>3. QED
    BY <2>1, <2>2
<1>7. QED
  BY <1>2, <1>5, <1>6

(* A step that changes the place of a collection but not its rows.         *)
LEMMA MovesOn ==
    ASSUME IInv, NEW c \in Collections, NEW v \in Locals,
           work[c].pc \in Places, work' = [work EXCEPT ![c] = v],
           v.rows = work[c].rows,
           LoopsOK(c, v), PageOK(c, v), FreshOK(v),
           RowsOK(c, v), GotOK(v), Covered(c, v, marked),
           UNCHANGED <<hidden, marked, reported, dropped>>,
           LruOK', ToSet(processed') \subseteq ToSet(processed)
    PROVE  IInv'
<1>1. WorkOK(c, v, marked')
  BY DEF WorkOK
<1>2. v.pc \in Places
  BY DEF Locals
<1>3. NoTipLostQuietly'
  BY <1>2, RowsOnTheWay
<1>4. QED
  BY <1>1, <1>3, OneMoves DEF IInv

(* The same for a step that leaves the LRU alone.                          *)
LEMMA LruStays ==
    ASSUME IInv, UNCHANGED <<processed, marked>>
    PROVE  LruOK' /\ ToSet(processed') \subseteq ToSet(processed)
  BY DEF IInv, LruOK

(* The rows do not change with the place.                                  *)
LEMMA RowPasses ==
    ASSUME NEW c \in Collections, NEW w, NEW v,
           \A m \in DOMAIN AccountsOf[c] : \A i \in Nat : \A e \in Epochs :
              Passed(w, m, i, e) => Passed(v, m, i, e),
           NEW row, RowOK(c, w, row)
    PROVE  RowOK(c, v, row)
<1> PICK m \in DOMAIN AccountsOf[c] : \E i \in DOMAIN History[AccountsOf[c][m]] :
      /\ EpochsForSlot(History[AccountsOf[c][m]][i].slot) # {}
      /\ row = RowOf(AccountsOf[c][m], i)
      /\ Pays(History[AccountsOf[c][m]][i], AccountsOf[c][m])
      /\ Passed(w, m, i, row.epoch)
  BY DEF RowOK
<1>1. PICK i \in DOMAIN History[AccountsOf[c][m]] :
      /\ EpochsForSlot(History[AccountsOf[c][m]][i].slot) # {}
      /\ row = RowOf(AccountsOf[c][m], i)
      /\ Pays(History[AccountsOf[c][m]][i], AccountsOf[c][m])
      /\ Passed(w, m, i, row.epoch)
  OBVIOUS
<1>2. i \in Nat
  BY JitoTipsAssumption
<1>3. row.epoch \in Epochs
  BY <1>1 DEF RowOf, EpochsForSlot
<1>4. Passed(v, m, i, row.epoch)
  BY <1>1, <1>2, <1>3
<1>5. QED
  BY <1>1, <1>4 DEF RowOK

LEMMA RowsStay ==
    ASSUME NEW c \in Collections, NEW w, NEW v, RowsOK(c, w), v.rows = w.rows,
           \A m \in DOMAIN AccountsOf[c] : \A i \in Nat : \A e \in Epochs :
              Passed(w, m, i, e) => Passed(v, m, i, e)
    PROVE  RowsOK(c, v)
  BY RowPasses DEF RowsOK

(* In the same account of the same chunk, what had given its rows still    *)
(* has.                                                                    *)
LEMMA SamePasses ==
    ASSUME NEW w, NEW v, v.offset = w.offset, v.account = w.account,
           \A i \in Nat : Taken(w, i) => Taken(v, i),
           NEW m, NEW i \in Nat, NEW e, Passed(w, m, i, e)
    PROVE  Passed(v, m, i, e)
  BY DEF Passed

(* There, too, what is behind was so before, or is accounted for now.      *)
LEMMA SameCovered ==
    ASSUME NEW c \in Collections, NEW w, NEW v, NEW mk, NEW ml, Covered(c, w, mk),
           mk \subseteq ml,
           \A k \in DOMAIN w.rows : k \in DOMAIN v.rows /\ v.rows[k] = w.rows[k],
           v.offset = w.offset, v.account = w.account, w.gap => v.gap,
           v.gap \/ \A j \in Nat : \A e \in Epochs :
              /\ TipIn(c, w.account, j, e)
              /\ Latest - e < w.offset + Lookback /\ ~(Latest - e < w.offset)
              /\ Behind(v, j)
              => Behind(w, j) \/ Accounted(c, v, w.account, j, ml)
    PROVE  Covered(c, v, ml)
<1>1. CASE v.gap
  BY <1>1 DEF Covered
<1>2. CASE ~v.gap
  <2>1. SUFFICES ASSUME NEW m \in DOMAIN AccountsOf[c], NEW j \in Nat, NEW e \in Epochs,
                        TipIn(c, m, j, e), Due(v, m, j, e)
                 PROVE  Accounted(c, v, m, j, ml)
    BY DEF Covered
  <2>2. Due(w, m, j, e) \/ Accounted(c, v, m, j, ml)
    BY <1>2, <2>1 DEF Due
  <2>3. CASE Due(w, m, j, e)
    <3>1. Accounted(c, w, m, j, mk)
      BY <1>2, <2>1, <2>3 DEF Covered
    <3>2. QED
      BY <3>1 DEF Accounted
  <2>4. QED
    BY <2>2, <2>3
<1>3. QED
  BY <1>1, <1>2

(* Both for a step that stays in the account and leaves the rows.          *)
LEMMA SameAccount ==
    ASSUME NEW c \in Collections, NEW w, NEW v, NEW mk, RowsOK(c, w), Covered(c, w, mk),
           v.rows = w.rows, v.offset = w.offset, v.account = w.account,
           \A i \in Nat : Taken(w, i) => Taken(v, i),
           w.gap => v.gap,
           v.gap \/ \A j \in Nat : \A e \in Epochs :
              /\ TipIn(c, w.account, j, e)
              /\ Latest - e < w.offset + Lookback /\ ~(Latest - e < w.offset)
              /\ Behind(v, j)
              => Behind(w, j) \/ Accounted(c, v, w.account, j, mk)
    PROVE  RowsOK(c, v) /\ Covered(c, v, mk)
<1>1. RowsOK(c, v)
  BY RowsStay, SamePasses
<1>2. Covered(c, v, mk)
  BY SameCovered
<1>3. QED
  BY <1>1, <1>2

(* The accounts of a collection and their histories.                       *)
LEMMA AccountFacts ==
    ASSUME NEW c \in Collections, NEW m \in DOMAIN AccountsOf[c]
    PROVE  LET h == History[AccountsOf[c][m]]
           IN  /\ AccountsOf[c][m] \in DOMAIN History
               /\ Len(h) \in Nat /\ DOMAIN h = 1..Len(h)
               /\ \A i \in DOMAIN h : h[i].slot \in Nat /\ h[i].signature \in Signatures
               /\ \A i, j \in DOMAIN h : i < j => h[i].slot >= h[j].slot
               /\ \A i, j \in DOMAIN h : h[i].signature = h[j].signature => i = j
<1>1. AccountsOf[c] \in Seq(DOMAIN History)
  BY JitoTipsAssumption
<1>2. AccountsOf[c][m] \in DOMAIN History
  BY <1>1
<1> DEFINE a == AccountsOf[c][m]
<1>3. History[a] \in Seq(ToSet(History[a]))
  BY <1>2, JitoTipsAssumption
<1>4. Len(History[a]) \in Nat /\ DOMAIN History[a] = 1..Len(History[a])
  BY <1>3
<1>5. \A i \in DOMAIN History[a] : History[a][i].signature \in Signatures
  BY <1>2 DEF Signatures, ToSet
<1>6. QED
  BY <1>2, <1>4, <1>5, JitoTipsAssumption

LEMMA CollectionFacts ==
    ASSUME NEW c \in Collections
    PROVE  /\ DOMAIN AccountsOf[c] = 1..Len(AccountsOf[c]) /\ Len(AccountsOf[c]) \in Nat
           /\ Len(AccountsOf[c]) > 0
           /\ \A m, n \in DOMAIN AccountsOf[c] : AccountsOf[c][m] = AccountsOf[c][n] => m = n
  BY JitoTipsAssumption DEF IsInjective

----------------------------------------------------------------------------
(* The steps.                                                              *)

LEMMA InitInv == Init => IInv
<1> SUFFICES ASSUME Init PROVE IInv
  OBVIOUS
<1>1. /\ hidden \in [DOMAIN History -> Nat]
      /\ \A a \in DOMAIN History : hidden[a] <= Late[a]
  BY JitoTipsAssumption DEF Init
<1>2. processed \in Seq(Signatures) /\ Len(processed) = 0 /\ DOMAIN processed = {}
  BY DEF Init
<1>3. ToSet(processed) = {}
  BY <1>2 DEF ToSet
<1>4. LruOK
  BY <1>2, <1>3, Sizes DEF LruOK, IsInjective
<1>5. DOMAIN work = Collections /\ \A c \in Collections : WorkOK(c, work[c], marked)
  BY DEF Init, WorkOK
<1>6. NoTipLostQuietly
  BY <1>3 DEF NoTipLostQuietly
<1>7. QED
  BY <1>1, <1>4, <1>5, <1>6 DEF IInv, Init

LEMMA LandStep ==
    ASSUME IInv, NEW a \in DOMAIN History, Land(a)
    PROVE  IInv'
<1>1. /\ hidden[a] > 0 /\ hidden' = [hidden EXCEPT ![a] = @ - 1]
      /\ UNCHANGED <<processed, work, marked, reported, dropped>>
  BY DEF Land
<1>2. hidden \in [DOMAIN History -> Nat] /\ hidden[a] - 1 \in Nat
  BY <1>1 DEF IInv
<1>3. hidden' \in [DOMAIN History -> Nat]
  BY <1>1, <1>2
<1>4. \A b \in DOMAIN History : hidden'[b] <= Late[b]
  <2>1. TAKE b \in DOMAIN History
  <2>2. hidden'[b] <= hidden[b] /\ hidden'[b] \in Nat /\ hidden[b] \in Nat
    BY <1>1, <1>2
  <2>3. hidden[b] <= Late[b] /\ Late[b] \in Nat
    BY JitoTipsAssumption DEF IInv
  <2>4. QED
    BY <2>2, <2>3
<1>5. LruOK' /\ NoTipLostQuietly'
  BY <1>1 DEF IInv, LruOK, NoTipLostQuietly, Working, RowSignatures
<1>6. QED
  BY <1>1, <1>3, <1>4, <1>5 DEF IInv

LEMMA StartStep ==
    ASSUME IInv, NEW c \in Collections, Start(c)
    PROVE  IInv'
<1> DEFINE v ==
      [pc |-> "signatures", offset |-> 0, account |-> 1, before |-> 0, pages |-> 0,
       page |-> <<>>, next |-> 1, fresh |-> <<>>, got |-> {}, old |-> FALSE,
       rows |-> <<>>, gap |-> FALSE]
<1>1. /\ work[c].pc = "idle" /\ work' = [work EXCEPT ![c] = v]
      /\ UNCHANGED <<hidden, processed, marked, reported, dropped>>
  BY DEF Start, At
<1>2. <<>> \in Seq(Nat) /\ <<>> \in Seq(Rows)
  OBVIOUS
<1>3. v \in Locals
  BY <1>2 DEF Locals, Places
<1>4. LoopsOK(c, v)
  BY <1>3, EpochFacts, Sizes, CollectionFacts DEF LoopsOK
<1>5. PageOK(c, v) /\ FreshOK(v) /\ GotOK(v)
  BY DEF PageOK, FreshOK, GotOK, InPage
<1>6. RowsOK(c, v)
  BY DEF RowsOK, IsInjective
<1>7. Covered(c, v, marked)
  <2>1. SUFFICES ASSUME NEW m \in DOMAIN AccountsOf[c], NEW j \in Nat, NEW e \in Epochs,
                        TipIn(c, m, j, e), Due(v, m, j, e)
                 PROVE  FALSE
    BY DEF Covered
  <2>2. j > 0 /\ m \in Nat /\ m >= 1
    BY <2>1, AccountFacts, CollectionFacts DEF TipIn
  <2>3. ~(Latest - e < 0)
    BY EpochFacts
  <2>4. QED
    BY <2>1, <2>2, <2>3 DEF Due, Behind
<1>8. WorkOK(c, v, marked') /\ v.pc \in Places
  BY <1>1, <1>4, <1>5, <1>6, <1>7 DEF WorkOK, Places
<1>9. ~Working(c)
  BY <1>1 DEF Working
<1> HIDE DEF v
<1>10. LruOK' /\ NoTipLostQuietly'
  BY <1>1, <1>8, <1>9, LruStays, RowsOnTheWay
<1>11. QED
  BY <1>1, <1>8, <1>10, OneMoves DEF IInv

(* A collection ends: what it had on the way is dropped or reported.       *)
LEMMA EndStep ==
    ASSUME IInv, NEW c \in Collections, work[c].pc \in Places,
           work' = [work EXCEPT ![c] = Done],
           UNCHANGED <<hidden, processed, marked>>,
           dropped \subseteq dropped', dropped' \subseteq Signatures,
           reported \subseteq reported',
           \A s \in RowSignatures(c) :
              s \in dropped' \/ \E row \in reported' : row.signature = s
    PROVE  IInv'
<1>1. /\ work'[c] = Done
      /\ \A d \in Collections : d # c => work'[d] = work[d]
  BY DEF IInv
<1>2. WorkOK(c, Done, marked')
  BY DEF WorkOK
<1>3. NoTipLostQuietly'
  <2>1. SUFFICES ASSUME NEW s \in ToSet(processed)
                 PROVE  \/ s \in dropped'
                        \/ \E row \in reported' : row.signature = s
                        \/ \E d \in Collections : Working(d)' /\ s \in RowSignatures(d)'
    BY DEF NoTipLostQuietly
  <2>2. \/ s \in dropped
        \/ \E row \in reported : row.signature = s
        \/ \E d \in Collections : Working(d) /\ s \in RowSignatures(d)
    BY DEF IInv, NoTipLostQuietly
  <2>3. ASSUME NEW d \in Collections, Working(d), s \in RowSignatures(d), d # c
        PROVE  Working(d)' /\ s \in RowSignatures(d)'
    BY <1>1, <2>3 DEF Working, RowSignatures
  <2>4. QED
    BY <2>2, <2>3
<1>4. LruOK'
  BY LruStays
<1>5. QED
  BY <1>2, <1>3, <1>4, OneMoves DEF IInv

(* A row's signature is one of the histories'.                             *)
LEMMA SignaturesOfRows ==
    ASSUME NEW c \in Collections, NEW w \in Locals, RowsOK(c, w)
    PROVE  /\ DOMAIN w.rows = 1..Len(w.rows) /\ Len(w.rows) \in Nat
           /\ \A row \in ToSet(w.rows) : row.signature \in Signatures /\ RowOK(c, w, row)
<1>1. w.rows \in Seq(Rows)
  BY DEF Locals
<1>2. ASSUME NEW row \in ToSet(w.rows)
      PROVE  row.signature \in Signatures /\ RowOK(c, w, row)
  <2>1. RowOK(c, w, row)
    BY <1>2 DEF RowsOK, ToSet
  <2>2. PICK m \in DOMAIN AccountsOf[c] : \E i \in DOMAIN History[AccountsOf[c][m]] :
           row = RowOf(AccountsOf[c][m], i)
    BY <2>1 DEF RowOK
  <2>3. PICK i \in DOMAIN History[AccountsOf[c][m]] : row = RowOf(AccountsOf[c][m], i)
    BY <2>2
  <2>4. row.signature = History[AccountsOf[c][m]][i].signature
    BY <2>3 DEF RowOf
  <2>5. QED
    BY <2>1, <2>4, AccountFacts
<1>3. QED
  BY <1>1, <1>2

LEMMA CollapseStep ==
    ASSUME IInv, NEW c \in Collections, work[c].pc \in Places, Collapse(c)
    PROVE  IInv'
<1>1. RowSignatures(c) \subseteq Signatures
  BY Running, SignaturesOfRows DEF RowSignatures
<1>2. dropped' \subseteq Signatures
  BY <1>1 DEF Collapse, IInv
<1>3. QED
  BY <1>2, EndStep DEF Collapse

LEMMA ReturnStep ==
    ASSUME IInv, NEW c \in Collections, Return(c)
    PROVE  IInv'
<1>1. work[c].pc \in Places
  BY DEF Return, At, Places
<1>2. \A s \in RowSignatures(c) : \E row \in reported' : row.signature = s
  BY DEF Return, RowSignatures
<1>3. QED
  BY <1>1, <1>2, EndStep DEF Return, IInv

(* The page that is read starts after the cursor, or with what has landed. *)
First(c) == 1 + IF work[c].before = 0 THEN hidden[Account(c)] ELSE work[c].before

LEMMA PageFacts ==
    ASSUME IInv, NEW c \in Collections, work[c].pc \in Places
    PROVE  LET h == History[Account(c)]
               p == Page(c)
           IN  /\ First(c) \in Nat /\ First(c) > work[c].before
               /\ p \in Seq(Nat) /\ DOMAIN p = 1..Len(p) /\ Len(p) \in Nat
               /\ p = <<>> => First(c) > Len(h)
               /\ p # <<>> =>
                     /\ Len(p) > 0 /\ Len(p) <= PageSize
                     /\ \A i \in DOMAIN p : p[i] = First(c) + i - 1 /\ p[i] \in DOMAIN h
                     /\ p[1] = First(c)
                     /\ Len(p) < PageSize => p[Len(p)] = Len(h)
<1> DEFINE h == History[Account(c)]
           p == Page(c)
           f == First(c)
           last == IF f + PageSize - 1 <= Len(h) THEN f + PageSize - 1 ELSE Len(h)
           n == IF last - f + 1 >= 0 THEN last - f + 1 ELSE 0
<1>1. work[c] \in Locals /\ LoopsOK(c, work[c])
  BY Running
<1>2. /\ Account(c) \in DOMAIN History /\ Len(h) \in Nat /\ DOMAIN h = 1..Len(h)
  BY <1>1, AccountFacts DEF Account, LoopsOK
<1>3. hidden[Account(c)] \in Nat /\ work[c].before \in Nat
  BY <1>1, <1>2 DEF IInv, Locals
<1>4. f \in Nat /\ f > 0 /\ f > work[c].before
  BY <1>3 DEF First
<1>5. p = [i \in 1..(last - f + 1) |-> f + i - 1]
  BY DEF Page, First
<1> HIDE DEF f, h, p
<1>6. n \in Nat /\ last \in Int /\ 1..(last - f + 1) = 1..n
  BY <1>2, <1>4, Sizes
<1>7. p = [i \in 1..n |-> f + i - 1]
  BY <1>5, <1>6
<1>8. \A i \in 1..n : f + i - 1 \in Nat
  BY <1>4, <1>6
<1>9. p \in Seq(Nat) /\ Len(p) = n /\ DOMAIN p = 1..n /\ \A i \in 1..n : p[i] = f + i - 1
  <2> HIDE DEF n
  <2>1. p \in [1..n -> Nat]
    BY <1>7, <1>8
  <2>2. p \in Seq(Nat)
    BY <1>6, <2>1
  <2>3. QED
    BY <1>6, <1>7, <2>2
<1>10. CASE n = 0
  <2>1. p = <<>> /\ f > Len(h)
    BY <1>2, <1>4, <1>9, <1>10, Sizes
  <2>2. QED
    BY <1>4, <1>6, <1>9, <2>1 DEF f, h, p
<1>11. CASE n # 0
  <2>1. n > 0 /\ n = last - f + 1 /\ n <= PageSize /\ f + n - 1 <= Len(h)
    BY <1>2, <1>4, <1>11, Sizes
  <2>2. n < PageSize => f + n - 1 = Len(h)
    BY <1>2, <1>4, <2>1, Sizes
  <2> HIDE DEF n, last
  <2>3. \A i \in 1..n : f + i - 1 \in DOMAIN h
    BY <1>2, <1>4, <1>6, <2>1
  <2>4. p # <<>> /\ p[1] = f /\ p[n] = f + n - 1
    BY <1>4, <1>6, <1>9, <2>1
  <2>5. QED
    BY <1>4, <1>6, <1>9, <2>1, <2>2, <2>3, <2>4 DEF f, h, p
<1>12. QED
  BY <1>10, <1>11

(* No page has what lands late, and no chunk has its epochs.               *)
LEMMA GetSignaturesStep ==
    ASSUME IInv, NEW c \in Collections, GetSignatures(c)
    PROVE  IInv'
<1> DEFINE w == work[c]
           p == Page(c)
           v == [w EXCEPT !.pc = IF p = <<>> THEN "accountDone" ELSE "scan",
                          !.page = p, !.next = 1, !.old = FALSE]
<1>1. /\ w.pc = "signatures" /\ w.pc \in Places
      /\ UNCHANGED <<hidden, processed, marked, reported, dropped>>
  BY DEF GetSignatures, At, Places
<1>2. work' = [work EXCEPT ![c] = v]
  BY DEF GetSignatures
<1>3. /\ w \in Locals /\ LoopsOK(c, w) /\ FreshOK(w)
      /\ RowsOK(c, w) /\ GotOK(w) /\ Covered(c, w, marked)
  BY <1>1, Running
<1>4. /\ First(c) \in Nat /\ First(c) > w.before
      /\ p \in Seq(Nat) /\ DOMAIN p = 1..Len(p) /\ Len(p) \in Nat
      /\ p = <<>> => First(c) > Len(HistoryOf(c, w))
      /\ p # <<>> =>
            /\ Len(p) > 0 /\ Len(p) <= PageSize
            /\ \A i \in DOMAIN p : p[i] = First(c) + i - 1 /\ p[i] \in DOMAIN HistoryOf(c, w)
            /\ p[1] = First(c)
            /\ Len(p) < PageSize => p[Len(p)] = Len(HistoryOf(c, w))
  BY <1>1, PageFacts DEF HistoryOf, AccountOf, Account
<1> HIDE DEF p
<1>5. /\ v \in Locals
      /\ v.pc = IF p = <<>> THEN "accountDone" ELSE "scan"
      /\ v.page = p /\ v.next = 1 /\ v.old = FALSE /\ v.rows = w.rows
      /\ v.offset = w.offset /\ v.account = w.account /\ v.before = w.before
      /\ v.pages = w.pages /\ v.fresh = w.fresh /\ v.got = w.got /\ v.gap = w.gap
  BY <1>3, <1>4 DEF Locals, Places
<1> HIDE DEF v
<1>6. w.fresh = <<>> /\ w.before \in Nat
  BY <1>1, <1>3 DEF FreshOK, Locals
<1>7. LoopsOK(c, v)
  BY <1>1, <1>3, <1>5 DEF LoopsOK
<1>8. PageOK(c, v)
  BY <1>4, <1>5 DEF PageOK, InPage, HistoryOf, AccountOf
<1>9. FreshOK(v) /\ GotOK(v)
  BY <1>5, <1>6 DEF FreshOK, GotOK, InPage
<1>10. \A i \in Nat : Taken(w, i) => Taken(v, i)
  BY <1>1, <1>5 DEF Taken
<1>11. ASSUME NEW j \in Nat, NEW e \in Epochs, TipIn(c, w.account, j, e), Behind(v, j)
       PROVE  Behind(w, j)
  <2>1. /\ w.account \in DOMAIN AccountsOf[c] /\ AccountOf(c, w) \in DOMAIN History
        /\ j \in DOMAIN HistoryOf(c, w) /\ DOMAIN HistoryOf(c, w) = 1..Len(HistoryOf(c, w))
        /\ Len(HistoryOf(c, w)) \in Nat
        /\ e \in EpochsForSlot(HistoryOf(c, w)[j].slot)
    BY <1>3, <1>11, AccountFacts DEF TipIn, LoopsOK, HistoryOf, AccountOf
  <2>2. j < First(c)
    <3>1. CASE p = <<>>
      BY <1>4, <2>1, <3>1
    <3>2. CASE p # <<>>
      <4>1. v.pc = "scan" /\ 1 \in DOMAIN p /\ Len(p) \in DOMAIN p
        BY <1>4, <1>5, <3>2
      <4>2. j <= p[Len(p)] /\ \A i \in DOMAIN p : p[i] # j
        BY <1>4, <1>5, <1>11, <4>1 DEF Behind
      <4>3. ~(j >= First(c))
        <5>1. SUFFICES ASSUME j >= First(c) PROVE FALSE
          OBVIOUS
        <5>2. p[Len(p)] = First(c) + Len(p) - 1
          BY <1>4, <3>2, <4>1
        <5>3. j - First(c) + 1 \in DOMAIN p
          BY <1>4, <4>2, <5>1, <5>2
        <5>4. p[j - First(c) + 1] = First(c) + (j - First(c) + 1) - 1
          BY <1>4, <3>2, <5>3
        <5>5. p[j - First(c) + 1] = j
          BY <1>4, <5>4
        <5>6. QED
          BY <4>2, <5>3, <5>5
      <4>4. QED
        BY <1>4, <4>3
    <3>3. QED
      BY <3>1, <3>2
  <2>3. CASE w.before = 0
    <3>1. First(c) = 1 + hidden[AccountOf(c, w)]
      BY <2>3 DEF First, AccountOf, Account
    <3>2. /\ hidden[AccountOf(c, w)] \in Nat /\ Late[AccountOf(c, w)] \in Nat
          /\ hidden[AccountOf(c, w)] <= Late[AccountOf(c, w)]
      BY <2>1, JitoTipsAssumption DEF IInv
    <3>3. j <= Late[AccountOf(c, w)]
      BY <2>2, <3>1, <3>2
    <3>4. EpochsForSlot(HistoryOf(c, w)[j].slot) = {}
      BY <2>1, <3>3, LateHasNoEpoch DEF HistoryOf
    <3>5. QED
      BY <2>1, <3>4
  <2>4. CASE w.before # 0
    <3>1. First(c) = 1 + w.before
      BY <2>4 DEF First
    <3>2. j <= w.before
      BY <1>6, <2>2, <3>1
    <3>3. QED
      BY <1>1, <3>2 DEF Behind
  <2>5. QED
    BY <2>3, <2>4
<1>12. RowsOK(c, v) /\ Covered(c, v, marked)
  BY <1>3, <1>5, <1>10, <1>11, SameAccount
<1>13. QED
  BY <1>1, <1>2, <1>5, <1>7, <1>8, <1>9, <1>12, LruStays, MovesOn

(* A transaction in an epoch of the chunk is not too old for it.           *)
LEMMA NotTooOld ==
    ASSUME NEW offset \in Nat, offset < TargetCount, NEW s \in Nat,
           NEW e \in EpochsForSlot(s), Latest - e < TargetCount,
           Latest - e < offset + Lookback, ~(Latest - e < offset)
    PROVE  ~(s < MinAllowedSlot(offset)) /\ e \in Allowed(offset)
<1>1. e \in Epochs /\ IntervalStart(e) <= s
  BY DEF EpochsForSlot
<1>2. IntervalStart(e) \in Nat /\ e \in Nat
  BY <1>1, Intervals
<1>3. e \in Allowed(offset)
  BY <1>1, <1>2, EpochFacts DEF Allowed
<1>4. MinAllowedSlot(offset) \in Nat /\ MinAllowedSlot(offset) <= IntervalStart(e)
  BY <1>3, MinAllowed
<1>5. QED
  BY <1>1, <1>2, <1>3, <1>4

(* The transactions of a page, in the order of the history.                *)
LEMMA InThePage ==
    ASSUME NEW c \in Collections, NEW w \in Locals, LoopsOK(c, w), PageOK(c, w), FreshOK(w),
           w.pc \in InPage
    PROVE  /\ w.account \in DOMAIN AccountsOf[c]
           /\ DOMAIN w.page = 1..Len(w.page) /\ Len(w.page) \in Nat /\ Len(w.page) > 0
           /\ DOMAIN w.fresh = 1..Len(w.fresh) /\ Len(w.fresh) \in Nat
           /\ w.page[Len(w.page)] \in Nat /\ w.before \in Nat
           /\ w.page[1] \in Nat /\ w.before < w.page[1]
           /\ w.page[Len(w.page)] = w.page[1] + Len(w.page) - 1
           /\ \A i \in DOMAIN w.page : /\ w.page[i] \in DOMAIN HistoryOf(c, w)
                                       /\ w.page[i] \in Nat
                                       /\ w.page[i] = w.page[1] + i - 1
                                       /\ w.page[i] <= w.page[Len(w.page)]
                                       /\ w.before < w.page[i]
           /\ \A k \in DOMAIN w.fresh : /\ w.fresh[k] \in DOMAIN HistoryOf(c, w)
                                        /\ w.fresh[k] \in Nat
                                        /\ w.fresh[k] <= w.page[Len(w.page)]
                                        /\ w.before < w.fresh[k]
<1>1. /\ w.page \in Seq(Nat) /\ w.fresh \in Seq(Nat) /\ w.before \in Nat
      /\ w.account \in DOMAIN AccountsOf[c]
  BY DEF Locals, LoopsOK
<1>2. /\ w.page # <<>> /\ w.before < w.page[1]
      /\ \A i \in DOMAIN w.page : /\ w.page[i] = w.page[1] + i - 1
                                  /\ w.page[i] \in DOMAIN HistoryOf(c, w)
  BY DEF PageOK
<1>3. \A k \in DOMAIN w.fresh : \E j \in DOMAIN w.page : w.fresh[k] = w.page[j]
  BY DEF FreshOK
<1>4. /\ DOMAIN w.page = 1..Len(w.page) /\ Len(w.page) \in Nat /\ Len(w.page) > 0
      /\ DOMAIN w.fresh = 1..Len(w.fresh) /\ Len(w.fresh) \in Nat
  BY <1>1, <1>2
<1>5. /\ \A i \in DOMAIN w.page : w.page[i] \in Nat
      /\ 1 \in DOMAIN w.page /\ Len(w.page) \in DOMAIN w.page
  BY <1>1, <1>4
<1>6. w.page[Len(w.page)] = w.page[1] + Len(w.page) - 1
  BY <1>2, <1>5
<1>7. \A i \in DOMAIN w.page : /\ w.page[i] \in DOMAIN HistoryOf(c, w)
                               /\ w.page[i] \in Nat
                               /\ w.page[i] = w.page[1] + i - 1
                               /\ w.page[i] <= w.page[Len(w.page)]
                               /\ w.before < w.page[i]
  <2>1. TAKE i \in DOMAIN w.page
  <2>2. i \in 1..Len(w.page) /\ w.page[i] = w.page[1] + i - 1 /\ w.page[1] \in Nat
    BY <1>2, <1>4, <1>5
  <2>3. w.page[i] <= w.page[Len(w.page)]
    <3>1. i <= Len(w.page) /\ i \in Nat /\ Len(w.page) \in Nat
      BY <1>4, <2>2
    <3>2. QED
      BY <1>6, <2>2, <3>1
  <2>4. w.before < w.page[i]
    <3>1. i >= 1 /\ i \in Nat /\ w.before \in Nat /\ w.before < w.page[1]
      BY <1>1, <1>2, <2>2
    <3>2. QED
      BY <2>2, <3>1
  <2>5. QED
    BY <1>2, <1>5, <2>2, <2>3, <2>4
<1>8. QED
  BY <1>1, <1>2, <1>3, <1>4, <1>5, <1>6, <1>7

(* What is passed over is too old for the chunk or marked already.         *)
LEMMA ScanStep ==
    ASSUME IInv, NEW c \in Collections, Scan(c)
    PROVE  IInv'
<1> DEFINE w == work[c]
           i == w.page[w.next]
           tx == Tx(c, i)
           isOld == tx.slot < MinAllowedSlot(w.offset)
           isNew == ~isOld /\ tx.signature \notin ToSet(processed)
           old == w.old \/ isOld
           fresh == IF isNew THEN Append(w.fresh, i) ELSE w.fresh
           v == [w EXCEPT !.next = w.next + 1, !.old = old, !.fresh = fresh]
<1>1. /\ w.pc = "scan" /\ w.pc \in Places /\ w.pc \in InPage /\ w.next <= Len(w.page)
      /\ processed' = IF isOld THEN processed ELSE LruGet(tx.signature)
      /\ UNCHANGED <<hidden, marked, reported, dropped>>
  BY DEF Scan, At, Places, InPage
<1>2. work' = [work EXCEPT ![c] = v]
  BY DEF Scan
<1>3. /\ w \in Locals /\ LoopsOK(c, w) /\ PageOK(c, w) /\ FreshOK(w)
      /\ RowsOK(c, w) /\ GotOK(w) /\ Covered(c, w, marked)
  BY <1>1, Running
<1>4. /\ w.account \in DOMAIN AccountsOf[c]
      /\ w.next \in Nat /\ w.next > 0 /\ w.offset \in Nat /\ w.offset < TargetCount
  BY <1>3 DEF Locals, LoopsOK, FreshOK
<1>5. /\ DOMAIN w.page = 1..Len(w.page) /\ Len(w.page) \in Nat
      /\ \A k \in DOMAIN w.page : /\ w.page[k] \in DOMAIN HistoryOf(c, w)
                                  /\ w.page[k] \in Nat
                                  /\ w.page[k] = w.page[1] + k - 1
                                  /\ w.page[k] <= w.page[Len(w.page)]
  BY <1>1, <1>3, InThePage
<1>6. \A k \in DOMAIN w.page : k \in Nat
  BY <1>5
<1>7. DOMAIN w.fresh = 1..Len(w.fresh) /\ Len(w.fresh) \in Nat /\ w.fresh \in Seq(Nat)
  BY <1>1, <1>3, InThePage DEF Locals
<1>8. /\ w.next \in DOMAIN w.page /\ i \in Nat /\ i \in DOMAIN HistoryOf(c, w)
      /\ i <= w.page[Len(w.page)] /\ tx = HistoryOf(c, w)[i]
  BY <1>1, <1>4, <1>5 DEF Tx, Account, HistoryOf, AccountOf
<1>9. tx.slot \in Nat
  BY <1>4, <1>8, AccountFacts DEF HistoryOf, AccountOf
<1>10. isOld \in BOOLEAN /\ isNew \in BOOLEAN
  OBVIOUS
<1> HIDE DEF i, tx, isOld, isNew
<1>11. /\ fresh \in Seq(Nat) /\ DOMAIN fresh = 1..Len(fresh)
       /\ Len(fresh) = IF isNew THEN Len(w.fresh) + 1 ELSE Len(w.fresh)
       /\ \A k \in DOMAIN w.fresh : k \in DOMAIN fresh /\ fresh[k] = w.fresh[k]
       /\ isNew => fresh[Len(w.fresh) + 1] = i
       /\ ~isNew => fresh = w.fresh
  BY <1>7, <1>8
<1>12. fresh \in Seq(Nat) /\ old \in BOOLEAN /\ w.next + 1 \in Nat
  BY <1>3, <1>4, <1>10, <1>11 DEF Locals
<1> HIDE DEF fresh, old
<1>13. /\ v \in Locals /\ v.pc = "scan"
       /\ v.page = w.page /\ v.next = w.next + 1 /\ v.old = old /\ v.rows = w.rows
       /\ v.offset = w.offset /\ v.account = w.account /\ v.before = w.before
       /\ v.pages = w.pages /\ v.fresh = fresh /\ v.got = w.got /\ v.gap = w.gap
  BY <1>1, <1>3, <1>12 DEF Locals
<1> HIDE DEF v
<1>14. LoopsOK(c, v)
  BY <1>1, <1>3, <1>13 DEF LoopsOK
<1>15. PageOK(c, v)
  <2>1. HistoryOf(c, v) = HistoryOf(c, w)
    BY <1>13 DEF HistoryOf, AccountOf
  <2>2. ASSUME NEW j \in DOMAIN HistoryOf(c, w), j > w.page[Len(w.page)], isOld
        PROVE  HistoryOf(c, w)[j].slot < MinAllowedSlot(w.offset)
    <3>1. tx.slot < MinAllowedSlot(w.offset) /\ MinAllowedSlot(w.offset) \in Nat
      BY <1>4, <2>2, MinAllowed DEF isOld
    <3>2. /\ Len(HistoryOf(c, w)) \in Nat /\ DOMAIN HistoryOf(c, w) = 1..Len(HistoryOf(c, w))
          /\ \A k, l \in DOMAIN HistoryOf(c, w) :
                k < l => HistoryOf(c, w)[k].slot >= HistoryOf(c, w)[l].slot
          /\ HistoryOf(c, w)[j].slot \in Nat
      BY <1>4, AccountFacts DEF HistoryOf, AccountOf
    <3>3. i < j
      <4>1. Len(w.page) \in DOMAIN w.page /\ j \in Nat
        BY <1>5, <1>8, <3>2
      <4>2. w.page[Len(w.page)] \in Nat
        BY <1>5, <4>1
      <4>3. QED
        BY <1>8, <2>2, <4>1, <4>2
    <3>4. tx.slot >= HistoryOf(c, w)[j].slot
      BY <1>8, <3>2, <3>3
    <3>5. QED
      BY <1>9, <3>1, <3>2, <3>4
  <2>3. QED
    BY <1>1, <1>3, <1>13, <2>1, <2>2 DEF PageOK, InPage, old
<1>16. FreshOK(v)
  <2>1. /\ \A k \in DOMAIN w.fresh : \E j \in DOMAIN w.page : w.fresh[k] = w.page[j] /\ j < w.next
        /\ \A k, l \in DOMAIN w.fresh : k < l => w.fresh[k] < w.fresh[l]
    BY <1>1, <1>3 DEF FreshOK
  <2>2. i = w.page[w.next]
    BY DEF i
  <2>3. ASSUME NEW k \in DOMAIN fresh
        PROVE  \/ k \in DOMAIN w.fresh /\ fresh[k] = w.fresh[k]
               \/ k = Len(w.fresh) + 1 /\ fresh[k] = i
    <3>1. CASE isNew
      <4>1. k \in 1..(Len(w.fresh) + 1)
        BY <1>11, <3>1
      <4>2. k \in 1..Len(w.fresh) \/ k = Len(w.fresh) + 1
        BY <1>7, <4>1
      <4>3. QED
        BY <1>7, <1>11, <3>1, <4>2
    <3>2. CASE ~isNew
      BY <1>11, <3>2
    <3>3. QED
      BY <3>1, <3>2
  <2>4. ASSUME NEW k \in DOMAIN fresh
        PROVE  \E j \in DOMAIN w.page : fresh[k] = w.page[j] /\ j < w.next + 1
    <3>1. CASE k \in DOMAIN w.fresh /\ fresh[k] = w.fresh[k]
      <4>1. PICK j \in DOMAIN w.page : w.fresh[k] = w.page[j] /\ j < w.next
        BY <2>1, <3>1
      <4>2. j < w.next + 1
        BY <1>4, <1>6, <4>1
      <4>3. QED
        BY <3>1, <4>1, <4>2
    <3>2. CASE fresh[k] = i
      <4>1. w.next < w.next + 1
        BY <1>4
      <4>2. QED
        BY <1>8, <2>2, <3>2, <4>1
    <3>3. QED
      BY <2>3, <3>1, <3>2
  <2>5. ASSUME NEW k \in DOMAIN fresh, NEW l \in DOMAIN fresh, k < l
        PROVE  fresh[k] < fresh[l]
    <3>1. k \in Nat /\ l \in Nat /\ k \in DOMAIN w.fresh /\ fresh[k] = w.fresh[k]
      <4>1. k \in Nat /\ l \in Nat
        BY <1>11
      <4>2. k # Len(w.fresh) + 1
        BY <1>7, <2>3, <2>5, <4>1
      <4>3. QED
        BY <2>3, <4>1, <4>2
    <3>2. CASE l \in DOMAIN w.fresh /\ fresh[l] = w.fresh[l]
      BY <2>1, <2>5, <3>1, <3>2
    <3>3. CASE fresh[l] = i
      <4>1. PICK j \in DOMAIN w.page : w.fresh[k] = w.page[j] /\ j < w.next
        BY <2>1, <3>1
      <4>2. /\ w.page[j] = w.page[1] + j - 1 /\ w.page[w.next] = w.page[1] + w.next - 1
            /\ w.page[1] \in Nat /\ j \in Nat
        <5>1. 1 \in DOMAIN w.page /\ j \in Nat
          BY <1>5, <1>8
        <5>2. QED
          BY <1>5, <1>8, <5>1
      <4>3. w.page[j] < w.page[w.next]
        BY <1>4, <4>1, <4>2
      <4>4. QED
        BY <2>2, <3>1, <3>3, <4>1, <4>3
    <3>4. QED
      BY <2>3, <3>2, <3>3
  <2>6. QED
    BY <1>4, <1>13, <2>4, <2>5 DEF FreshOK
<1>17. GotOK(v)
  BY <1>13 DEF GotOK
<1>18. \A k \in Nat : Taken(w, k) => Taken(v, k)
  BY <1>1, <1>13 DEF Taken
<1>19. ASSUME NEW j \in Nat, NEW e \in Epochs, TipIn(c, w.account, j, e), Behind(v, j),
              Latest - e < w.offset + Lookback, ~(Latest - e < w.offset)
       PROVE  Behind(w, j) \/ Accounted(c, v, w.account, j, marked)
  <2>1. /\ j <= w.page[Len(w.page)]
        /\ \A k \in DOMAIN w.page : k >= w.next + 1 => w.page[k] # j
        /\ \A k \in DOMAIN fresh : fresh[k] # j
    BY <1>13, <1>19 DEF Behind
  <2>2. \A k \in DOMAIN w.fresh : w.fresh[k] # j
    BY <1>11, <2>1
  <2>3. CASE j # i
    <3>1. ASSUME NEW k \in DOMAIN w.page, k >= w.next PROVE w.page[k] # j
      <4>1. k = w.next \/ k >= w.next + 1
        BY <1>4, <1>6, <3>1
      <4>2. QED
        BY <2>1, <2>3, <4>1 DEF i
    <3>2. QED
      BY <1>1, <2>1, <2>2, <3>1 DEF Behind
  <2>4. CASE j = i
    <3>1. ~isNew
      <4>1. isNew => Len(w.fresh) + 1 \in DOMAIN fresh
        BY <1>7, <1>11
      <4>2. QED
        BY <1>11, <2>1, <2>4, <4>1
    <3>2. ~isOld
      <4>1. tx.slot \in Nat /\ e \in EpochsForSlot(tx.slot) /\ Latest - e < TargetCount
        BY <1>8, <1>9, <1>19, <2>4 DEF TipIn, HistoryOf, AccountOf
      <4>2. QED
        BY <1>4, <1>19, <4>1, NotTooOld DEF isOld
    <3>3. tx.signature \in marked
      BY <3>1, <3>2 DEF isNew, IInv, LruOK
    <3>4. QED
      BY <1>8, <2>4, <3>3 DEF Accounted, HistoryOf, AccountOf
  <2>5. QED
    BY <2>3, <2>4
<1>20. RowsOK(c, v) /\ Covered(c, v, marked)
  BY <1>3, <1>13, <1>18, <1>19, SameAccount
<1>21. LruOK' /\ ToSet(processed') \subseteq ToSet(processed)
  <2>1. CASE isOld
    BY <1>1, <2>1, LruStays
  <2>2. CASE ~isOld
    BY <1>1, <2>2, GetKeepsLru DEF IInv
  <2>3. QED
    BY <2>1, <2>2
<1>22. QED
  BY <1>1, <1>2, <1>13, <1>14, <1>15, <1>16, <1>17, <1>20, <1>21, MovesOn

LEMMA ScannedStep ==
    ASSUME IInv, NEW c \in Collections, Scanned(c)
    PROVE  IInv'
<1> DEFINE w == work[c]
           v == [w EXCEPT !.pc = IF w.fresh = <<>> THEN "rows" ELSE "batch", !.next = 1]
<1>1. /\ w.pc = "scan" /\ w.pc \in Places /\ w.pc \in InPage /\ w.next > Len(w.page)
      /\ UNCHANGED <<hidden, processed, marked, reported, dropped>>
      /\ work' = [work EXCEPT ![c] = v]
  BY DEF Scanned, At, Places, InPage
<1>2. /\ w \in Locals /\ LoopsOK(c, w) /\ PageOK(c, w) /\ FreshOK(w)
      /\ RowsOK(c, w) /\ GotOK(w) /\ Covered(c, w, marked)
  BY <1>1, Running
<1>3. /\ v \in Locals /\ v.pc = (IF w.fresh = <<>> THEN "rows" ELSE "batch") /\ v.next = 1
      /\ v.page = w.page /\ v.old = w.old /\ v.rows = w.rows
      /\ v.offset = w.offset /\ v.account = w.account /\ v.before = w.before
      /\ v.pages = w.pages /\ v.fresh = w.fresh /\ v.got = w.got /\ v.gap = w.gap
  BY <1>2 DEF Locals, Places
<1> HIDE DEF v
<1>4. /\ DOMAIN w.fresh = 1..Len(w.fresh) /\ Len(w.fresh) \in Nat /\ w.fresh \in Seq(Nat)
      /\ DOMAIN w.page = 1..Len(w.page) /\ Len(w.page) \in Nat /\ w.next \in Nat
  BY <1>1, <1>2, InThePage DEF Locals
<1>5. LoopsOK(c, v) /\ PageOK(c, v)
  BY <1>1, <1>2, <1>3 DEF LoopsOK, PageOK, InPage, HistoryOf, AccountOf
<1>6. FreshOK(v)
  <2>1. w.fresh # <<>> => 1 \in DOMAIN w.fresh
    BY <1>4
  <2>2. QED
    BY <1>1, <1>2, <1>3, <2>1 DEF FreshOK
<1>7. GotOK(v)
  <2>1. \A k \in DOMAIN w.fresh : ~(k < 1)
    BY <1>4
  <2>2. w.fresh = <<>> => DOMAIN w.fresh = {}
    BY <1>4
  <2>3. QED
    BY <1>3, <2>1, <2>2 DEF GotOK
<1>8. \A k \in Nat : Taken(w, k) => Taken(v, k)
  BY <1>1, <1>3 DEF Taken
<1>9. ASSUME NEW j \in Nat, Behind(v, j) PROVE Behind(w, j)
  <2>1. \A k \in DOMAIN w.page : ~(k >= w.next)
    BY <1>1, <1>4
  <2>2. j <= w.page[Len(w.page)] /\ \A k \in DOMAIN w.fresh : w.fresh[k] # j
    <3>1. \A k \in DOMAIN w.fresh : k >= 1
      BY <1>4
    <3>2. QED
      BY <1>3, <1>9, <3>1 DEF Behind
  <2>3. QED
    BY <1>1, <2>1, <2>2 DEF Behind
<1>10. RowsOK(c, v) /\ Covered(c, v, marked)
  BY <1>2, <1>3, <1>8, <1>9, SameAccount
<1>11. QED
  BY <1>1, <1>3, <1>5, <1>6, <1>7, <1>10, LruStays, MovesOn

(* Transactions arrive: all that were asked for, unless there is a gap.    *)
LEMMA FetchedStep ==
    ASSUME IInv, NEW c \in Collections, work[c].pc \in {"batch", "single"},
           NEW count \in Nat, count > 0, NEW found \in SUBSET Nat,
           Fetched(c, count, found),
           \/ ~(Batch(c) \subseteq found \/ At(c, "single"))
           \/ \A k \in DOMAIN work[c].fresh :
                 k >= work[c].next /\ k < work[c].next + count => work[c].fresh[k] \in found,
           UNCHANGED <<hidden, processed, marked, reported, dropped>>
    PROVE  IInv'
<1> DEFINE w == work[c]
           more == w.next + count <= Len(w.fresh)
           lost == ~(Batch(c) \subseteq found \/ At(c, "single"))
           v == [w EXCEPT !.pc = IF more THEN w.pc ELSE "rows",
                          !.next = IF more THEN w.next + count ELSE 1,
                          !.got = w.got \cup found, !.gap = w.gap \/ lost]
<1>1. /\ w.pc \in {"batch", "single"} /\ w.pc \in Places /\ w.pc \in InPage
      /\ work' = [work EXCEPT ![c] = v]
  BY DEF Fetched, Places, InPage
<1>2. /\ w \in Locals /\ LoopsOK(c, w) /\ PageOK(c, w) /\ FreshOK(w)
      /\ RowsOK(c, w) /\ GotOK(w) /\ Covered(c, w, marked)
  BY <1>1, Running
<1>3. w.next \in Nat /\ w.got \in SUBSET Nat
  BY <1>2 DEF Locals
<1> HIDE DEF lost
<1>4. /\ w.next \in Nat /\ w.next + count \in Nat
      /\ w.got \cup found \in SUBSET Nat
  <2>1. w.next + count \in Nat
    BY <1>3
  <2>2. w.got \cup found \in SUBSET Nat
    BY <1>3
  <2>3. QED
    BY <1>3, <2>1, <2>2
<1>5. (w.gap \/ lost) \in BOOLEAN
  OBVIOUS
<1>6. /\ DOMAIN w.fresh = 1..Len(w.fresh) /\ Len(w.fresh) \in Nat
      /\ w.next \in DOMAIN w.fresh
  BY <1>1, <1>2, InThePage DEF FreshOK
<1>7. /\ v \in Locals /\ v.pc = (IF more THEN w.pc ELSE "rows")
      /\ v.next = (IF more THEN w.next + count ELSE 1)
      /\ v.got = w.got \cup found /\ v.gap = (w.gap \/ lost)
      /\ v.page = w.page /\ v.old = w.old /\ v.rows = w.rows
      /\ v.offset = w.offset /\ v.account = w.account /\ v.before = w.before
      /\ v.pages = w.pages /\ v.fresh = w.fresh
  BY <1>1, <1>2, <1>4, <1>5 DEF Locals, Places
<1> HIDE DEF v
<1>8. LoopsOK(c, v) /\ PageOK(c, v)
  BY <1>1, <1>2, <1>7 DEF LoopsOK, PageOK, InPage, HistoryOf, AccountOf
<1>9. FreshOK(v)
  <2>1. v.next > 0 /\ (more => w.next + count \in DOMAIN w.fresh)
    BY <1>4, <1>6, <1>7
  <2>2. QED
    BY <1>1, <1>2, <1>7, <2>1 DEF FreshOK, InPage
<1>10. GotOK(v)
  <2>1. CASE w.gap \/ lost
    BY <1>7, <2>1 DEF GotOK
  <2>2. CASE ~w.gap /\ ~lost
    <3>1. \A k \in DOMAIN w.fresh : k < w.next => w.fresh[k] \in w.got
      BY <1>1, <1>2, <2>2 DEF GotOK
    <3>2. \A k \in DOMAIN w.fresh :
             k >= w.next /\ k < w.next + count => w.fresh[k] \in found
      BY <2>2 DEF lost
    <3>3. ASSUME NEW k \in DOMAIN w.fresh, k < w.next + count
          PROVE  w.fresh[k] \in v.got
      <4>1. k < w.next \/ k >= w.next
        BY <1>4, <1>6
      <4>2. QED
        BY <1>7, <3>1, <3>2, <3>3, <4>1
    <3>4. CASE more
      BY <1>1, <1>7, <3>3, <3>4 DEF GotOK
    <3>5. CASE ~more
      <4>1. \A k \in DOMAIN w.fresh : k < w.next + count
        BY <1>4, <1>6, <3>5
      <4>2. QED
        BY <1>7, <3>3, <3>5, <4>1 DEF GotOK
    <3>6. QED
      BY <3>4, <3>5
  <2>3. QED
    BY <2>1, <2>2
<1>11. \A k \in Nat : Taken(w, k) => Taken(v, k)
  BY <1>1, <1>7 DEF Taken
<1>12. ASSUME NEW j \in Nat, Behind(v, j) PROVE Behind(w, j)
  <2>1. \A k \in DOMAIN w.fresh : k >= 1
    BY <1>6
  <2>2. j <= w.page[Len(w.page)] /\ \A k \in DOMAIN w.fresh : w.fresh[k] # j
    BY <1>1, <1>7, <1>12, <2>1 DEF Behind
  <2>3. QED
    BY <1>1, <2>2 DEF Behind
<1>13. w.gap => v.gap
  BY <1>7
<1>14. RowsOK(c, v) /\ Covered(c, v, marked)
  BY <1>2, <1>7, <1>11, <1>12, <1>13, SameAccount
<1>15. QED
  BY <1>1, <1>7, <1>8, <1>9, <1>10, <1>14, LruStays, MovesOn

LEMMA FetchBatchStep ==
    ASSUME IInv, NEW c \in Collections, FetchBatch(c)
    PROVE  IInv'
<1> DEFINE w == work[c]
<1>1. PICK found \in SUBSET Batch(c) : Fetched(c, BatchLen, found)
  BY DEF FetchBatch
<1>2. /\ w.pc = "batch" /\ w.pc \in Places
      /\ UNCHANGED <<hidden, processed, marked, reported, dropped>>
  BY DEF FetchBatch, At, Places
<1>3. w.fresh \in Seq(Nat)
  BY <1>2, Running DEF Locals
<1>4. Batch(c) \subseteq Nat
  BY <1>3 DEF Batch
<1>5. ASSUME Batch(c) \subseteq found, NEW k \in DOMAIN w.fresh,
             k >= w.next, k < w.next + BatchLen
      PROVE  w.fresh[k] \in found
  BY <1>5 DEF Batch
<1>6. ~At(c, "single")
  BY <1>2 DEF At
<1>7. QED
  BY <1>1, <1>2, <1>4, <1>5, <1>6, Sizes, FetchedStep

LEMMA GetTransactionStep ==
    ASSUME IInv, NEW c \in Collections, GetTransaction(c)
    PROVE  IInv'
<1> DEFINE w == work[c]
<1>1. /\ w.pc = "single" /\ w.pc \in Places /\ w.pc \in InPage
      /\ Fetched(c, 1, {w.fresh[w.next]})
      /\ UNCHANGED <<hidden, processed, marked, reported, dropped>>
  BY DEF GetTransaction, At, Places, InPage
<1>2. w \in Locals /\ LoopsOK(c, w) /\ PageOK(c, w) /\ FreshOK(w)
  BY <1>1, Running
<1>3. /\ w.next \in DOMAIN w.fresh /\ w.fresh[w.next] \in Nat
      /\ \A k \in DOMAIN w.fresh : k \in Nat
  BY <1>1, <1>2, InThePage DEF FreshOK
<1>4. \A k \in DOMAIN w.fresh : k >= w.next /\ k < w.next + 1 => k = w.next
  BY <1>3
<1>5. QED
  BY <1>1, <1>3, <1>4, FetchedStep

(* All is asked for again, one by one.                                     *)
LEMMA BatchUnavailableStep ==
    ASSUME IInv, NEW c \in Collections, BatchUnavailable(c)
    PROVE  IInv'
<1> DEFINE w == work[c]
           v == [w EXCEPT !.pc = "single", !.next = 1, !.got = {}]
<1>1. /\ w.pc = "batch" /\ w.pc \in Places /\ w.pc \in InPage
      /\ UNCHANGED <<hidden, processed, marked, reported, dropped>>
      /\ work' = [work EXCEPT ![c] = v]
  BY DEF BatchUnavailable, At, Places, InPage
<1>2. /\ w \in Locals /\ LoopsOK(c, w) /\ PageOK(c, w) /\ FreshOK(w)
      /\ RowsOK(c, w) /\ GotOK(w) /\ Covered(c, w, marked)
  BY <1>1, Running
<1>3. /\ v \in Locals /\ v.pc = "single" /\ v.next = 1 /\ v.got = {} /\ v.gap = w.gap
      /\ v.page = w.page /\ v.old = w.old /\ v.rows = w.rows
      /\ v.offset = w.offset /\ v.account = w.account /\ v.before = w.before
      /\ v.pages = w.pages /\ v.fresh = w.fresh
  BY <1>2 DEF Locals, Places
<1> HIDE DEF v
<1>4. /\ DOMAIN w.fresh = 1..Len(w.fresh) /\ Len(w.fresh) \in Nat
      /\ 1 \in DOMAIN w.fresh /\ \A k \in DOMAIN w.fresh : ~(k < 1)
  BY <1>1, <1>2, InThePage DEF FreshOK
<1>5. LoopsOK(c, v) /\ PageOK(c, v)
  BY <1>1, <1>2, <1>3 DEF LoopsOK, PageOK, InPage, HistoryOf, AccountOf
<1>6. FreshOK(v) /\ GotOK(v)
  BY <1>1, <1>2, <1>3, <1>4 DEF FreshOK, GotOK
<1>7. \A k \in Nat : Taken(w, k) => Taken(v, k)
  BY <1>1, <1>3 DEF Taken
<1>8. \A j \in Nat : Behind(v, j) => Behind(w, j)
  BY <1>1, <1>3 DEF Behind
<1>9. RowsOK(c, v) /\ Covered(c, v, marked)
  BY <1>2, <1>3, <1>7, <1>8, SameAccount
<1>10. QED
  BY <1>1, <1>3, <1>5, <1>6, <1>9, LruStays, MovesOn

(* The account ends with a gap, and with the rows it has.                  *)
LEMMA FetchFailsStep ==
    ASSUME IInv, NEW c \in Collections, FetchFails(c)
    PROVE  IInv'
<1> DEFINE w == work[c]
           v == [w EXCEPT !.pc = "accountDone", !.gap = TRUE, !.got = {}]
<1>1. /\ w.pc \in {"batch", "single"} /\ w.pc \in Places /\ w.pc \in InPage
      /\ UNCHANGED <<hidden, processed, marked, reported, dropped>>
      /\ work' = [work EXCEPT ![c] = v]
  BY DEF FetchFails, Places, InPage
<1>2. /\ w \in Locals /\ LoopsOK(c, w) /\ PageOK(c, w) /\ FreshOK(w)
      /\ RowsOK(c, w) /\ GotOK(w) /\ Covered(c, w, marked)
  BY <1>1, Running
<1>3. /\ v \in Locals /\ v.pc = "accountDone" /\ v.next = w.next /\ v.gap = TRUE
      /\ v.page = w.page /\ v.old = w.old /\ v.rows = w.rows
      /\ v.offset = w.offset /\ v.account = w.account /\ v.before = w.before
      /\ v.pages = w.pages /\ v.fresh = w.fresh
  BY <1>2 DEF Locals, Places
<1> HIDE DEF v
<1>4. LoopsOK(c, v) /\ PageOK(c, v) /\ FreshOK(v) /\ GotOK(v)
  BY <1>1, <1>2, <1>3 DEF LoopsOK, PageOK, FreshOK, GotOK, InPage
<1>5. \A k \in Nat : Taken(w, k) => Taken(v, k)
  BY <1>3 DEF Taken
<1>6. RowsOK(c, v) /\ Covered(c, v, marked)
  BY <1>2, <1>3, <1>5, SameAccount
<1>7. QED
  BY <1>1, <1>3, <1>4, <1>6, LruStays, MovesOn

(* A transaction of an account of a collection.                            *)
LEMMA TxFacts ==
    ASSUME NEW c \in Collections, NEW m \in DOMAIN AccountsOf[c],
           NEW a, a = AccountsOf[c][m], NEW i \in DOMAIN History[a]
    PROVE  /\ a \in DOMAIN History
           /\ History[a][i].slot \in Nat /\ History[a][i].signature \in Signatures
           /\ \A j \in DOMAIN History[a] :
                 History[a][j].signature = History[a][i].signature => j = i
  BY AccountFacts

(* The transaction that a turn of the second loop looks at.                *)
LEMMA InTurn ==
    ASSUME IInv, NEW c \in Collections, work[c].pc = "rows",
           work[c].next <= Len(work[c].fresh)
    PROVE  LET w == work[c]
               i == w.fresh[w.next]
           IN  /\ w.account \in DOMAIN AccountsOf[c] /\ Account(c) = AccountsOf[c][w.account]
               /\ w.next \in Nat /\ w.next \in DOMAIN w.fresh
               /\ w.offset \in Nat /\ w.offset < TargetCount
               /\ i \in Nat /\ i \in DOMAIN History[Account(c)] /\ w.before < i
               /\ w.before \in Nat
               /\ Tx(c, i) = History[Account(c)][i]
               /\ Tx(c, i).slot \in Nat /\ Tx(c, i).signature \in Signatures
               /\ \A k \in DOMAIN w.fresh : /\ k \in Nat /\ w.fresh[k] \in Nat
                                            /\ k < w.next => w.fresh[k] < i
<1> DEFINE w == work[c]
           i == w.fresh[w.next]
<1>1. w.pc = "rows" /\ w.pc \in Places /\ w.pc \in InPage
  BY DEF Places, InPage
<1>2. w \in Locals /\ LoopsOK(c, w) /\ PageOK(c, w) /\ FreshOK(w)
  BY <1>1, Running
<1>3. /\ w.account \in DOMAIN AccountsOf[c] /\ w.next \in Nat /\ w.next > 0
      /\ w.offset \in Nat /\ w.offset < TargetCount /\ w.before \in Nat
      /\ \A k, l \in DOMAIN w.fresh : k < l => w.fresh[k] < w.fresh[l]
  BY <1>1, <1>2 DEF Locals, LoopsOK, FreshOK
<1>4. /\ DOMAIN w.fresh = 1..Len(w.fresh) /\ Len(w.fresh) \in Nat
      /\ \A k \in DOMAIN w.fresh : /\ w.fresh[k] \in DOMAIN HistoryOf(c, w)
                                   /\ w.fresh[k] \in Nat
                                   /\ w.before < w.fresh[k]
  BY <1>1, <1>2, InThePage
<1>5. w.next \in DOMAIN w.fresh
  BY <1>3, <1>4
<1>6. /\ i \in Nat /\ i \in DOMAIN History[Account(c)] /\ w.before < i
      /\ Account(c) = AccountsOf[c][w.account] /\ Tx(c, i) = History[Account(c)][i]
  BY <1>4, <1>5 DEF HistoryOf, AccountOf, Account, Tx
<1>7. Tx(c, i).slot \in Nat /\ Tx(c, i).signature \in Signatures
  <2> HIDE DEF i
  <2>1. QED
    BY <1>3, <1>6, TxFacts
<1>8. \A k \in DOMAIN w.fresh : /\ k \in Nat /\ w.fresh[k] \in Nat
                                /\ k < w.next => w.fresh[k] < i
  BY <1>3, <1>4, <1>5
<1>9. QED
  BY <1>3, <1>5, <1>6, <1>7, <1>8

(* A tip's row is the transaction's, in an epoch of this chunk.            *)
LEMMA TipRow ==
    ASSUME IInv, NEW c \in Collections, work[c].pc = "rows",
           work[c].next <= Len(work[c].fresh),
           IsTip(c, Tx(c, work[c].fresh[work[c].next]))
    PROVE  LET w == work[c]
               i == w.fresh[w.next]
               row == Row(c, Tx(c, i))
           IN  /\ row = RowOf(Account(c), i) /\ row \in Rows
               /\ EpochsForSlot(Tx(c, i).slot) # {} /\ Pays(Tx(c, i), Account(c))
               /\ row.signature = Tx(c, i).signature /\ row.account = Account(c)
               /\ row.epoch \in Allowed(w.offset)
<1> DEFINE w == work[c]
           i == w.fresh[w.next]
           tx == Tx(c, i)
           row == Row(c, tx)
<1>1. /\ i \in DOMAIN History[Account(c)] /\ tx = History[Account(c)][i] /\ tx.slot \in Nat
      /\ Account(c) = AccountsOf[c][w.account] /\ w.account \in DOMAIN AccountsOf[c]
  BY InTurn
<1>2. Account(c) \in DOMAIN History
  <2> HIDE DEF i
  <2>1. QED
    BY <1>1, TxFacts
<1>3. PICK e \in EpochsForSlot(tx.slot) : e \in Allowed(w.offset)
  BY DEF IsTip
<1>4. Pays(tx, Account(c))
  BY DEF IsTip, Pays
<1> HIDE DEF i
<1>5. row = RowOf(Account(c), i)
  BY <1>1 DEF Row, RowOf
<1>6. row \in Rows
  <2>1. i \in {j \in DOMAIN History[Account(c)] : EpochsForSlot(History[Account(c)][j].slot) # {}}
    BY <1>1, <1>3
  <2> HIDE DEF row, tx
  <2>2. QED
    BY <1>2, <1>5, <2>1 DEF Rows
<1>7. /\ row.signature = tx.signature /\ row.account = Account(c)
      /\ row.epoch = CHOOSE f \in EpochsForSlot(tx.slot) : TRUE
  BY DEF Row
<1> HIDE DEF row, tx
<1>8. row.epoch \in EpochsForSlot(tx.slot)
  BY <1>3, <1>7
<1>9. row.epoch = e
  BY <1>1, <1>3, <1>8, OneEpoch
<1>10. QED
  BY <1>3, <1>4, <1>5, <1>6, <1>7, <1>9 DEF row, tx, i

(* It is not among the rows: those of earlier chunks have other epochs,    *)
(* those of earlier accounts other accounts, and the others of this        *)
(* account other signatures.                                               *)
LEMMA TipRowIsNew ==
    ASSUME IInv, NEW c \in Collections, work[c].pc = "rows",
           work[c].next <= Len(work[c].fresh),
           IsTip(c, Tx(c, work[c].fresh[work[c].next])),
           NEW row, RowOK(c, work[c], row)
    PROVE  row # Row(c, Tx(c, work[c].fresh[work[c].next]))
<1> DEFINE w == work[c]
           i == w.fresh[w.next]
           new == Row(c, Tx(c, i))
<1>1. SUFFICES ASSUME row = new PROVE FALSE
  OBVIOUS
<1>2. /\ new = RowOf(Account(c), i) /\ new.signature = Tx(c, i).signature
      /\ new.account = Account(c) /\ new.epoch \in Allowed(w.offset)
  BY TipRow
<1>3. /\ w.account \in DOMAIN AccountsOf[c] /\ Account(c) = AccountsOf[c][w.account]
      /\ i \in Nat /\ i \in DOMAIN History[Account(c)] /\ w.before < i /\ w.before \in Nat
      /\ Tx(c, i) = History[Account(c)][i]
      /\ \A k \in DOMAIN w.fresh : k < w.next => w.fresh[k] < i /\ w.fresh[k] \in Nat
  BY InTurn
<1> HIDE DEF new, i
<1>4. PICK m \in DOMAIN AccountsOf[c] : \E j \in DOMAIN History[AccountsOf[c][m]] :
         row = RowOf(AccountsOf[c][m], j) /\ Passed(w, m, j, row.epoch)
  BY DEF RowOK
<1>5. PICK j \in DOMAIN History[AccountsOf[c][m]] :
         row = RowOf(AccountsOf[c][m], j) /\ Passed(w, m, j, row.epoch)
  BY <1>4
<1>6. row.account = AccountsOf[c][m] /\ row.signature = History[AccountsOf[c][m]][j].signature
  BY <1>5 DEF RowOf
<1>7. m = w.account
  BY <1>1, <1>2, <1>3, <1>6, CollectionFacts
<1>8. j = i
  <2>1. /\ j \in DOMAIN History[Account(c)]
        /\ History[Account(c)][j].signature = History[Account(c)][i].signature
    BY <1>1, <1>2, <1>3, <1>6, <1>7
  <2>2. QED
    BY <1>3, <2>1, TxFacts
<1>9. ~(Latest - row.epoch < w.offset)
  <2>1. w.offset \in Nat /\ row.epoch \in Allowed(w.offset)
    BY <1>1, <1>2, InTurn
  <2>2. row.epoch \in Nat /\ Latest - row.epoch >= w.offset
    BY <2>1, EpochFacts DEF Allowed
  <2>3. QED
    BY <2>1, <2>2, EpochFacts
<1>10. w.account \in Nat
  BY <1>3, CollectionFacts
<1>11. Taken(w, i)
  BY <1>5, <1>7, <1>8, <1>9, <1>10 DEF Passed
<1>12. QED
  BY <1>3, <1>11 DEF Taken

LEMMA ProcessTip ==
    ASSUME IInv, NEW c \in Collections, Process(c),
           work[c].fresh[work[c].next] \in work[c].got,
           IsTip(c, Tx(c, work[c].fresh[work[c].next]))
    PROVE  IInv'
<1> DEFINE w == work[c]
           i == w.fresh[w.next]
           tx == Tx(c, i)
           row == Row(c, tx)
           rows == Append(w.rows, row)
           v == [w EXCEPT !.next = w.next + 1, !.rows = rows]
<1>1. /\ w.pc = "rows" /\ w.pc \in Places /\ w.pc \in InPage /\ w.next <= Len(w.fresh)
      /\ work' = [work EXCEPT ![c] = v]
      /\ processed' = LruAdd(tx.signature) /\ marked' = marked \cup {tx.signature}
      /\ UNCHANGED <<hidden, reported, dropped>>
  BY DEF Process, At, Places, InPage
<1>2. /\ w \in Locals /\ LoopsOK(c, w) /\ PageOK(c, w) /\ FreshOK(w)
      /\ RowsOK(c, w) /\ GotOK(w) /\ Covered(c, w, marked)
  BY <1>1, Running
<1>3. /\ w.account \in DOMAIN AccountsOf[c] /\ Account(c) = AccountsOf[c][w.account]
      /\ w.next \in Nat /\ w.next \in DOMAIN w.fresh
      /\ i \in Nat /\ i \in DOMAIN History[Account(c)]
      /\ tx = History[Account(c)][i] /\ tx.signature \in Signatures
      /\ \A k \in DOMAIN w.fresh : k \in Nat
  BY <1>1, InTurn
<1>4. /\ row = RowOf(Account(c), i) /\ row \in Rows
      /\ EpochsForSlot(tx.slot) # {} /\ Pays(tx, Account(c))
      /\ row.signature = tx.signature /\ row.epoch \in Allowed(w.offset)
  BY <1>1, TipRow
<1>5. \A r : RowOK(c, w, r) => r # row
  BY <1>1, TipRowIsNew
<1> HIDE DEF i, tx, row
<1>6. w.rows \in Seq(Rows) /\ DOMAIN w.rows = 1..Len(w.rows) /\ Len(w.rows) \in Nat
  BY <1>2 DEF Locals
<1>7. /\ rows \in Seq(Rows) /\ Len(rows) = Len(w.rows) + 1 /\ DOMAIN rows = 1..Len(rows)
      /\ \A k \in DOMAIN w.rows : k \in DOMAIN rows /\ rows[k] = w.rows[k]
      /\ rows[Len(w.rows) + 1] = row
  BY <1>4, <1>6
<1> HIDE DEF rows
<1>8. /\ v \in Locals /\ v.pc = "rows" /\ v.next = w.next + 1 /\ v.rows = rows
      /\ v.page = w.page /\ v.old = w.old /\ v.got = w.got /\ v.gap = w.gap
      /\ v.offset = w.offset /\ v.account = w.account /\ v.before = w.before
      /\ v.pages = w.pages /\ v.fresh = w.fresh
  <2>1. w.next + 1 \in Nat
    BY <1>3
  <2>2. QED
    BY <1>1, <1>2, <1>7, <2>1 DEF Locals
<1> HIDE DEF v
<1>9. LoopsOK(c, v) /\ PageOK(c, v) /\ GotOK(v)
  BY <1>1, <1>2, <1>8 DEF LoopsOK, PageOK, GotOK, InPage, HistoryOf, AccountOf
<1>10. FreshOK(v)
  <2>1. w.next + 1 > 0
    BY <1>3
  <2>2. QED
    BY <1>1, <1>2, <1>8, <2>1 DEF FreshOK
<1>11. \A k \in Nat : Taken(w, k) => Taken(v, k)
  <2>1. \A k \in DOMAIN w.fresh : k < w.next => k < w.next + 1
    BY <1>3
  <2>2. QED
    BY <1>1, <1>8, <2>1 DEF Taken
<1>12. \A k \in DOMAIN rows : \/ k \in DOMAIN w.rows /\ rows[k] = w.rows[k]
                              \/ k = Len(w.rows) + 1 /\ rows[k] = row
  <2>1. TAKE k \in DOMAIN rows
  <2>2. k \in 1..Len(w.rows) \/ k = Len(w.rows) + 1
    BY <1>6, <1>7
  <2>3. QED
    BY <1>6, <1>7, <2>2
<1>13. RowOK(c, v, row)
  <2>1. Taken(v, i)
    <3>1. w.next < w.next + 1
      BY <1>3
    <3>2. QED
      BY <1>3, <1>8, <3>1 DEF Taken, i
  <2>2. Latest - row.epoch < w.offset + Lookback
    BY <1>4 DEF Allowed
  <2>3. Passed(v, w.account, i, row.epoch)
    BY <1>8, <2>1, <2>2 DEF Passed
  <2>4. QED
    BY <1>3, <1>4, <2>3 DEF RowOK
<1>14. RowsOK(c, v)
  <2>1. \A k \in DOMAIN w.rows : RowOK(c, w, w.rows[k])
    BY <1>2 DEF RowsOK
  <2>2. \A r : RowOK(c, w, r) => RowOK(c, v, r)
    BY <1>8, <1>11, SamePasses, RowPasses
  <2>3. \A k \in DOMAIN rows : RowOK(c, v, rows[k])
    BY <1>12, <1>13, <2>1, <2>2
  <2>4. ASSUME NEW k \in DOMAIN rows, NEW l \in DOMAIN rows, rows[k] = rows[l] PROVE k = l
    <3>1. \A m, n \in DOMAIN w.rows : w.rows[m] = w.rows[n] => m = n
      BY <1>2 DEF RowsOK, IsInjective
    <3>2. \A m \in DOMAIN w.rows : w.rows[m] # row
      BY <1>5, <2>1
    <3>3. QED
      BY <1>12, <2>4, <3>1, <3>2
  <2>5. QED
    BY <1>8, <2>3, <2>4 DEF RowsOK, IsInjective
<1>15. Covered(c, v, marked')
  <2>1. ASSUME NEW j \in Nat, Behind(v, j)
        PROVE  Behind(w, j) \/ Accounted(c, v, w.account, j, marked')
    <3>1. j <= w.page[Len(w.page)] /\ \A k \in DOMAIN w.fresh : k >= w.next + 1 => w.fresh[k] # j
      BY <1>8, <2>1 DEF Behind
    <3>2. CASE j = i
      BY <1>1, <1>3, <3>2 DEF Accounted
    <3>3. CASE j # i
      <4>1. \A k \in DOMAIN w.fresh : k >= w.next => k >= w.next + 1 \/ k = w.next
        BY <1>3
      <4>2. \A k \in DOMAIN w.fresh : k >= w.next => w.fresh[k] # j
        BY <3>1, <3>3, <4>1 DEF i
      <4>3. QED
        BY <1>1, <3>1, <4>2 DEF Behind
    <3>4. QED
      BY <3>2, <3>3
  <2>2. /\ marked \subseteq marked'
        /\ \A k \in DOMAIN w.rows : k \in DOMAIN v.rows /\ v.rows[k] = w.rows[k]
    BY <1>1, <1>7, <1>8
  <2>3. QED
    BY <1>2, <1>8, <2>1, <2>2, SameCovered
<1>16. WorkOK(c, v, marked')
  BY <1>9, <1>10, <1>14, <1>15 DEF WorkOK
<1>17. LruOK' /\ ToSet(processed') \subseteq ToSet(processed) \cup {tx.signature}
  BY <1>1, <1>3, AddKeepsLru DEF IInv
<1>18. NoTipLostQuietly'
  <2>1. ToSet(w.rows) \subseteq ToSet(v.rows)
    BY <1>7, <1>8 DEF ToSet
  <2>2. row \in ToSet(v.rows)
    <3>1. Len(w.rows) + 1 \in DOMAIN rows
      BY <1>6, <1>7
    <3>2. QED
      BY <1>7, <1>8, <3>1 DEF ToSet
  <2>3. \A s \in ToSet(processed') :
           s \in ToSet(processed) \/ \E r \in ToSet(v.rows) : r.signature = s
    BY <1>4, <1>17, <2>2
  <2>4. QED
    BY <1>1, <1>8, <2>1, <2>3, RowsOnTheWay
<1>19. marked \subseteq marked' /\ marked' \subseteq Signatures /\ dropped' \subseteq Signatures
  BY <1>1, <1>3 DEF IInv
<1>20. QED
  BY <1>1, <1>16, <1>17, <1>18, <1>19, OneMoves

(* What gives no row is no tip in this chunk, or was not fetched.          *)
LEMMA ProcessOther ==
    ASSUME IInv, NEW c \in Collections, Process(c),
           ~(/\ work[c].fresh[work[c].next] \in work[c].got
             /\ IsTip(c, Tx(c, work[c].fresh[work[c].next])))
    PROVE  IInv'
<1> DEFINE w == work[c]
           i == w.fresh[w.next]
           tx == Tx(c, i)
           v == [w EXCEPT !.next = w.next + 1]
<1>1. /\ w.pc = "rows" /\ w.pc \in Places /\ w.pc \in InPage /\ w.next <= Len(w.fresh)
      /\ work' = [work EXCEPT ![c] = v]
      /\ UNCHANGED <<hidden, processed, marked, reported, dropped>>
  BY DEF Process, At, Places, InPage
<1>2. /\ w \in Locals /\ LoopsOK(c, w) /\ PageOK(c, w) /\ FreshOK(w)
      /\ RowsOK(c, w) /\ GotOK(w) /\ Covered(c, w, marked)
  BY <1>1, Running
<1>3. /\ Account(c) = AccountsOf[c][w.account]
      /\ w.next \in Nat /\ w.next \in DOMAIN w.fresh
      /\ w.offset \in Nat /\ w.offset < TargetCount
      /\ tx = History[Account(c)][i] /\ tx.slot \in Nat
      /\ \A k \in DOMAIN w.fresh : k \in Nat
  BY <1>1, InTurn
<1>4. i \notin w.got \/ ~IsTip(c, tx)
  OBVIOUS
<1> HIDE DEF i, tx
<1>5. /\ v \in Locals /\ v.pc = "rows" /\ v.next = w.next + 1 /\ v.rows = w.rows
      /\ v.page = w.page /\ v.old = w.old /\ v.got = w.got /\ v.gap = w.gap
      /\ v.offset = w.offset /\ v.account = w.account /\ v.before = w.before
      /\ v.pages = w.pages /\ v.fresh = w.fresh
  <2>1. w.next + 1 \in Nat
    BY <1>3
  <2>2. QED
    BY <1>1, <1>2, <2>1 DEF Locals
<1> HIDE DEF v
<1>6. LoopsOK(c, v) /\ PageOK(c, v) /\ GotOK(v)
  BY <1>1, <1>2, <1>5 DEF LoopsOK, PageOK, GotOK, InPage, HistoryOf, AccountOf
<1>7. FreshOK(v)
  <2>1. w.next + 1 > 0
    BY <1>3
  <2>2. QED
    BY <1>1, <1>2, <1>5, <2>1 DEF FreshOK
<1>8. \A k \in Nat : Taken(w, k) => Taken(v, k)
  <2>1. \A k \in DOMAIN w.fresh : k < w.next => k < w.next + 1
    BY <1>3
  <2>2. QED
    BY <1>1, <1>5, <2>1 DEF Taken
<1>9. ASSUME ~v.gap, NEW j \in Nat, NEW e \in Epochs, TipIn(c, w.account, j, e), Behind(v, j),
             Latest - e < w.offset + Lookback, ~(Latest - e < w.offset)
      PROVE  Behind(w, j)
  <2>1. j <= w.page[Len(w.page)] /\ \A k \in DOMAIN w.fresh : k >= w.next + 1 => w.fresh[k] # j
    BY <1>5, <1>9 DEF Behind
  <2>2. j # i
    <3>1. SUFFICES ASSUME j = i PROVE FALSE
      OBVIOUS
    <3>2. i \in w.got
      BY <1>1, <1>2, <1>3, <1>5, <1>9 DEF GotOK, i
    <3>3. /\ Pays(tx, Account(c)) /\ e \in EpochsForSlot(tx.slot) /\ Latest - e < TargetCount
      BY <1>3, <1>9, <3>1 DEF TipIn
    <3>4. ~(tx.slot < MinAllowedSlot(w.offset)) /\ e \in Allowed(w.offset)
      BY <1>3, <1>9, <3>3, NotTooOld
    <3>5. tx.slot >= MinAllowedSlot(w.offset)
      BY <1>3, <3>4, MinAllowed
    <3>6. IsTip(c, tx)
      BY <3>3, <3>4, <3>5 DEF IsTip, Pays
    <3>7. QED
      BY <1>4, <3>2, <3>6
  <2>3. \A k \in DOMAIN w.fresh : k >= w.next => k >= w.next + 1 \/ k = w.next
    BY <1>3
  <2>4. \A k \in DOMAIN w.fresh : k >= w.next => w.fresh[k] # j
    BY <2>1, <2>2, <2>3 DEF i
  <2>5. QED
    BY <1>1, <2>1, <2>4 DEF Behind
<1>10. RowsOK(c, v) /\ Covered(c, v, marked)
  BY <1>2, <1>5, <1>8, <1>9, SameAccount
<1>11. QED
  BY <1>1, <1>5, <1>6, <1>7, <1>10, LruStays, MovesOn

LEMMA ProcessStep ==
    ASSUME IInv, NEW c \in Collections, Process(c)
    PROVE  IInv'
  BY ProcessTip, ProcessOther

(* The last page: it is short, what follows is too old for the chunk, or   *)
(* what follows is beyond the pages that are read.                         *)
LEMMA LastPage ==
    ASSUME NEW c \in Collections, NEW w \in Locals, LoopsOK(c, w), PageOK(c, w), FreshOK(w),
           w.pc = "rows",
           ~(/\ Len(w.page) = PageSize
             /\ ~w.old
             /\ w.pages + 1 < MaxPages),
           NEW j \in Nat, NEW e \in Epochs, TipIn(c, w.account, j, e),
           Latest - e < w.offset + Lookback, ~(Latest - e < w.offset)
    PROVE  j <= w.page[Len(w.page)]
<1> DEFINE last == w.page[Len(w.page)]
           h == HistoryOf(c, w)
<1>1. /\ w.offset \in Nat /\ w.offset < TargetCount /\ w.pages \in Nat /\ w.pages < MaxPages
      /\ w.pages * PageSize <= w.before /\ w.account \in DOMAIN AccountsOf[c]
  BY DEF LoopsOK, Locals
<1>2. /\ Len(w.page) \in Nat /\ last \in Nat /\ w.before \in Nat /\ w.page[1] \in Nat
      /\ w.before < w.page[1] /\ last = w.page[1] + Len(w.page) - 1
  BY InThePage DEF InPage
<1>3. /\ Len(w.page) <= PageSize
      /\ Len(w.page) < PageSize => last = Len(h)
      /\ w.old => \A k \in DOMAIN h : k > last => h[k].slot < MinAllowedSlot(w.offset)
  BY DEF PageOK, InPage
<1>4. /\ j \in DOMAIN h /\ e \in EpochsForSlot(h[j].slot) /\ Latest - e < TargetCount
      /\ j <= PageSize * MaxPages
  BY DEF TipIn, HistoryOf, AccountOf
<1>5. h[j].slot \in Nat /\ DOMAIN h = 1..Len(h) /\ Len(h) \in Nat
  BY <1>1, <1>4, AccountFacts DEF HistoryOf, AccountOf
<1> HIDE DEF last, h
<1>6. CASE Len(w.page) < PageSize
  <2>1. last = Len(h) /\ j \in Nat /\ j <= Len(h)
    BY <1>3, <1>4, <1>5, <1>6
  <2>2. QED
    BY <2>1 DEF last
<1>7. CASE w.old
  <2>1. ~(h[j].slot < MinAllowedSlot(w.offset))
    BY <1>1, <1>4, <1>5, NotTooOld
  <2>2. ~(j > last)
    BY <1>3, <1>4, <1>7, <2>1
  <2>3. QED
    BY <1>2, <2>2 DEF last
<1>8. CASE Len(w.page) = PageSize /\ w.pages + 1 = MaxPages
  <2>1. (w.pages + 1) * PageSize = w.pages * PageSize + PageSize /\ w.pages * PageSize \in Nat
    BY <1>1, Sizes, Products
  <2>2. PageSize * MaxPages = (w.pages + 1) * PageSize
    BY <1>1, <1>8, Sizes
  <2>3. last >= w.before + PageSize
    BY <1>2, <1>8, Sizes
  <2> DEFINE read == w.pages * PageSize
  <2>4. j <= read + PageSize /\ j \in Nat /\ read <= w.before /\ read \in Nat
    BY <1>1, <1>4, <1>5, <2>1, <2>2
  <2> HIDE DEF read
  <2>5. j <= last
    BY <1>2, <2>3, <2>4, Sizes
  <2>6. QED
    BY <2>5 DEF last
<1>9. QED
  <2>1. Len(w.page) < PageSize \/ Len(w.page) = PageSize
    BY <1>2, <1>3, Sizes
  <2>2. w.pages + 1 < MaxPages \/ w.pages + 1 = MaxPages
    BY <1>1, Sizes
  <2>3. QED
    BY <1>6, <1>7, <1>8, <2>1, <2>2

LEMMA NextPageStep ==
    ASSUME IInv, NEW c \in Collections, NextPage(c)
    PROVE  IInv'
<1> DEFINE w == work[c]
           last == w.page[Len(w.page)]
           more == /\ Len(w.page) = PageSize
                   /\ ~w.old
                   /\ w.pages + 1 < MaxPages
           v == [w EXCEPT !.pc = IF more THEN "signatures" ELSE "accountDone",
                          !.before = last, !.pages = w.pages + 1,
                          !.page = <<>>, !.fresh = <<>>, !.got = {}]
<1>1. /\ w.pc = "rows" /\ w.pc \in Places /\ w.pc \in InPage /\ w.next > Len(w.fresh)
      /\ UNCHANGED <<hidden, processed, marked, reported, dropped>>
      /\ work' = [work EXCEPT ![c] = v]
  BY DEF NextPage, At, Places, InPage, Last
<1>2. /\ w \in Locals /\ LoopsOK(c, w) /\ PageOK(c, w) /\ FreshOK(w)
      /\ RowsOK(c, w) /\ Covered(c, w, marked)
  BY <1>1, Running
<1>3. /\ w.pages \in Nat /\ w.pages + 1 \in Nat /\ w.pages < MaxPages
      /\ w.pages * PageSize <= w.before /\ w.next \in Nat /\ w.next > 0
  <2>1. /\ w.pages \in Nat /\ w.pages < MaxPages
        /\ w.pages * PageSize <= w.before /\ w.next \in Nat /\ w.next > 0
    BY <1>1, <1>2 DEF LoopsOK, FreshOK, Locals
  <2>2. QED
    BY <2>1
<1>4. /\ Len(w.page) \in Nat /\ last \in Nat /\ w.before \in Nat /\ w.page[1] \in Nat
      /\ w.before < w.page[1] /\ last = w.page[1] + Len(w.page) - 1 /\ Len(w.page) > 0
      /\ DOMAIN w.fresh = 1..Len(w.fresh) /\ Len(w.fresh) \in Nat
      /\ \A k \in DOMAIN w.fresh : w.fresh[k] <= last
  BY <1>1, <1>2, InThePage
<1>5. ASSUME ~more, NEW j \in Nat, NEW e \in Epochs, TipIn(c, w.account, j, e),
             Latest - e < w.offset + Lookback, ~(Latest - e < w.offset)
      PROVE  j <= last
  BY <1>1, <1>2, <1>5, LastPage
<1>6. more => Len(w.page) = PageSize /\ w.pages + 1 < MaxPages
  OBVIOUS
<1> HIDE DEF more, last
<1>7. /\ v \in Locals /\ v.pc = (IF more THEN "signatures" ELSE "accountDone")
      /\ v.before = last /\ v.pages = w.pages + 1
      /\ v.page = <<>> /\ v.fresh = <<>> /\ v.got = {}
      /\ v.next = w.next /\ v.old = w.old /\ v.rows = w.rows /\ v.gap = w.gap
      /\ v.offset = w.offset /\ v.account = w.account
  <2>1. <<>> \in Seq(Nat) /\ {} \in SUBSET Nat
    OBVIOUS
  <2>2. QED
    BY <1>2, <1>3, <1>4, <2>1 DEF Locals, Places
<1> HIDE DEF v
<1>8. LoopsOK(c, v)
  <2>1. more => (w.pages + 1) * PageSize <= last
    <3>1. (w.pages + 1) * PageSize = w.pages * PageSize + PageSize /\ w.pages * PageSize \in Nat
      BY <1>3, Sizes, Products
    <3>2. more => last >= w.before + PageSize
      BY <1>4, <1>6, Sizes
    <3> DEFINE read == w.pages * PageSize
    <3>3. (w.pages + 1) * PageSize = read + PageSize /\ read <= w.before /\ read \in Nat
      BY <1>3, <3>1
    <3> HIDE DEF read
    <3>4. more => read + PageSize <= last
      BY <1>4, <3>2, <3>3, Sizes
    <3>5. QED
      BY <3>3, <3>4
  <2>2. w.pages + 1 <= MaxPages
    BY <1>3, Sizes
  <2>3. QED
    BY <1>2, <1>6, <1>7, <2>1, <2>2 DEF LoopsOK
<1>9. PageOK(c, v) /\ FreshOK(v) /\ GotOK(v)
  BY <1>3, <1>7 DEF PageOK, FreshOK, GotOK, InPage
<1>10. \A k \in Nat : Taken(w, k) => Taken(v, k)
  <2>1. ASSUME NEW k \in Nat, Taken(w, k) PROVE k <= last
    <3>1. k <= w.before \/ \E l \in DOMAIN w.fresh : w.fresh[l] = k
      BY <1>1, <2>1 DEF Taken
    <3>2. CASE k <= w.before
      BY <1>4, <3>2
    <3>3. QED
      BY <1>4, <3>1, <3>2
  <2>2. QED
    BY <1>7, <2>1 DEF Taken
<1>11. ASSUME NEW j \in Nat, NEW e \in Epochs, TipIn(c, w.account, j, e), Behind(v, j),
              Latest - e < w.offset + Lookback, ~(Latest - e < w.offset)
       PROVE  Behind(w, j)
  <2>1. j <= last
    BY <1>5, <1>7, <1>11 DEF Behind
  <2>2. \A k \in DOMAIN w.fresh : ~(k >= w.next)
    BY <1>1, <1>3, <1>4
  <2>3. QED
    BY <1>1, <2>1, <2>2 DEF Behind, last
<1>12. RowsOK(c, v) /\ Covered(c, v, marked)
  BY <1>2, <1>7, <1>10, <1>11, SameAccount
<1>13. QED
  BY <1>1, <1>2, <1>7, <1>8, <1>9, <1>12, LruStays, MovesOn

(* What an account leaves behind: its rows are there, and so are its tips. *)
LEMMA AccountLeft ==
    ASSUME NEW c \in Collections, NEW w, NEW v, NEW mk,
           w.pc = "accountDone", RowsOK(c, w), Covered(c, w, mk),
           v.rows = w.rows, v.gap = w.gap,
           \A m \in DOMAIN AccountsOf[c] : \A i \in Nat : \A e \in Epochs :
              Passed(w, m, i, e) => Passed(v, m, i, e),
           \A m \in DOMAIN AccountsOf[c] : \A j \in Nat : \A e \in Epochs :
              TipIn(c, m, j, e) /\ Due(v, m, j, e) => Due(w, m, j, e)
    PROVE  RowsOK(c, v) /\ Covered(c, v, mk)
<1>1. RowsOK(c, v)
  BY RowsStay
<1>2. Covered(c, v, mk)
  BY DEF Covered, Accounted
<1>3. QED
  BY <1>1, <1>2

LEMMA NextAccountStep ==
    ASSUME IInv, NEW c \in Collections, NextAccount(c)
    PROVE  IInv'
<1> DEFINE w == work[c]
           v == [w EXCEPT !.pc = "signatures", !.account = w.account + 1,
                          !.before = 0, !.pages = 0, !.page = <<>>, !.fresh = <<>>]
<1>1. /\ w.pc = "accountDone" /\ w.pc \in Places /\ w.account < Len(AccountsOf[c])
      /\ UNCHANGED <<hidden, processed, marked, reported, dropped>>
      /\ work' = [work EXCEPT ![c] = v]
  BY DEF NextAccount, At, Places
<1>2. /\ w \in Locals /\ LoopsOK(c, w) /\ FreshOK(w)
      /\ RowsOK(c, w) /\ Covered(c, w, marked)
  BY <1>1, Running
<1>3. /\ w.account \in Nat /\ w.account + 1 \in Nat /\ w.account + 1 \in DOMAIN AccountsOf[c]
      /\ DOMAIN AccountsOf[c] \subseteq Nat /\ w.next > 0
  <2>1. w.account \in Nat /\ w.next > 0
    BY <1>2 DEF Locals, FreshOK
  <2>2. DOMAIN AccountsOf[c] = 1..Len(AccountsOf[c]) /\ Len(AccountsOf[c]) \in Nat
    BY CollectionFacts
  <2>3. QED
    BY <1>1, <2>1, <2>2
<1>4. /\ v \in Locals /\ v.pc = "signatures" /\ v.account = w.account + 1
      /\ v.before = 0 /\ v.pages = 0 /\ v.page = <<>> /\ v.fresh = <<>>
      /\ v.got = w.got /\ v.offset = w.offset
      /\ v.next = w.next /\ v.old = w.old /\ v.rows = w.rows /\ v.gap = w.gap
  <2>1. <<>> \in Seq(Nat) /\ 0 \in Nat
    OBVIOUS
  <2>2. QED
    BY <1>2, <1>3, <2>1 DEF Locals, Places
<1> HIDE DEF v
<1>5. LoopsOK(c, v)
  <2>1. 0 * PageSize <= 0 /\ 0 <= MaxPages /\ 0 < MaxPages
    BY Sizes
  <2>2. QED
    BY <1>2, <1>3, <1>4, <2>1 DEF LoopsOK
<1>6. PageOK(c, v) /\ FreshOK(v) /\ GotOK(v)
  BY <1>3, <1>4 DEF PageOK, FreshOK, GotOK, InPage
<1>7. ASSUME NEW m \in DOMAIN AccountsOf[c], NEW i \in Nat, NEW e, Passed(w, m, i, e)
      PROVE  Passed(v, m, i, e)
  <2>1. m < w.account \/ m = w.account => m < w.account + 1
    BY <1>3
  <2>2. QED
    BY <1>4, <1>7, <2>1 DEF Passed
<1>8. ASSUME NEW m \in DOMAIN AccountsOf[c], NEW j \in Nat, NEW e,
             TipIn(c, m, j, e), Due(v, m, j, e)
      PROVE  Due(w, m, j, e)
  <2>1. ~Behind(v, j)
    <3>1. j > 0
      BY <1>8, AccountFacts DEF TipIn
    <3>2. QED
      BY <1>4, <3>1 DEF Behind
  <2>2. m < w.account + 1 => m < w.account \/ m = w.account
    BY <1>3
  <2>3. Behind(w, j)
    BY <1>1 DEF Behind
  <2>4. QED
    BY <1>4, <1>8, <2>1, <2>2, <2>3 DEF Due
<1>9. RowsOK(c, v) /\ Covered(c, v, marked)
  BY <1>1, <1>2, <1>4, <1>7, <1>8, AccountLeft
<1>10. QED
  BY <1>1, <1>4, <1>5, <1>6, <1>9, LruStays, MovesOn

LEMMA NextChunkStep ==
    ASSUME IInv, NEW c \in Collections, NextChunk(c)
    PROVE  IInv'
<1> DEFINE w == work[c]
           v == [w EXCEPT !.pc = "signatures", !.account = 1, !.offset = w.offset + Lookback,
                          !.before = 0, !.pages = 0, !.page = <<>>, !.fresh = <<>>]
<1>1. /\ w.pc = "accountDone" /\ w.pc \in Places /\ w.account = Len(AccountsOf[c])
      /\ w.offset + Lookback < TargetCount
      /\ UNCHANGED <<hidden, processed, marked, reported, dropped>>
      /\ work' = [work EXCEPT ![c] = v]
  BY DEF NextChunk, At, Places
<1>2. /\ w \in Locals /\ LoopsOK(c, w) /\ FreshOK(w)
      /\ RowsOK(c, w) /\ Covered(c, w, marked)
  BY <1>1, Running
<1>3. /\ w.offset \in Nat /\ w.offset + Lookback \in Nat /\ w.next > 0
      /\ 1 \in DOMAIN AccountsOf[c]
      /\ \A m \in DOMAIN AccountsOf[c] : m < w.account \/ m = w.account
      /\ \A m \in DOMAIN AccountsOf[c] : ~(m < 1)
  <2>1. w.offset \in Nat /\ w.next > 0
    BY <1>2 DEF Locals, FreshOK
  <2>2. w.offset + Lookback \in Nat
    BY <2>1, Sizes
  <2>3. /\ DOMAIN AccountsOf[c] = 1..Len(AccountsOf[c]) /\ Len(AccountsOf[c]) \in Nat
        /\ Len(AccountsOf[c]) > 0
    BY CollectionFacts
  <2>4. QED
    BY <1>1, <2>1, <2>2, <2>3
<1>4. /\ v \in Locals /\ v.pc = "signatures" /\ v.account = 1
      /\ v.offset = w.offset + Lookback
      /\ v.before = 0 /\ v.pages = 0 /\ v.page = <<>> /\ v.fresh = <<>> /\ v.got = w.got
      /\ v.next = w.next /\ v.old = w.old /\ v.rows = w.rows /\ v.gap = w.gap
  <2>1. <<>> \in Seq(Nat) /\ 0 \in Nat /\ 1 \in Nat
    OBVIOUS
  <2>2. QED
    BY <1>2, <1>3, <2>1 DEF Locals, Places
<1> HIDE DEF v
<1>5. LoopsOK(c, v)
  <2>1. 0 * PageSize <= 0 /\ 0 <= MaxPages /\ 0 < MaxPages
    BY Sizes
  <2>2. QED
    BY <1>1, <1>2, <1>3, <1>4, <2>1 DEF LoopsOK
<1>6. PageOK(c, v) /\ FreshOK(v) /\ GotOK(v)
  BY <1>3, <1>4 DEF PageOK, FreshOK, GotOK, InPage
<1>7. ASSUME NEW m \in DOMAIN AccountsOf[c], NEW i \in Nat, NEW e \in Epochs, Passed(w, m, i, e)
      PROVE  Passed(v, m, i, e)
  <2>1. Latest - e < w.offset => Latest - e < w.offset + Lookback
    BY <1>3, EpochFacts, Sizes
  <2>2. QED
    BY <1>4, <1>7, <2>1 DEF Passed
<1>8. ASSUME NEW m \in DOMAIN AccountsOf[c], NEW j \in Nat, NEW e \in Epochs,
             TipIn(c, m, j, e), Due(v, m, j, e)
      PROVE  Due(w, m, j, e)
  <2>1. ~Behind(v, j)
    <3>1. j > 0
      BY <1>8, AccountFacts DEF TipIn
    <3>2. QED
      BY <1>4, <3>1 DEF Behind
  <2>2. Behind(w, j)
    BY <1>1 DEF Behind
  <2>3. QED
    BY <1>3, <1>4, <1>8, <2>1, <2>2 DEF Due
<1>9. RowsOK(c, v) /\ Covered(c, v, marked)
  BY <1>1, <1>2, <1>4, <1>7, <1>8, AccountLeft
<1>10. QED
  BY <1>1, <1>4, <1>5, <1>6, <1>9, LruStays, MovesOn

LEMMA LastChunkStep ==
    ASSUME IInv, NEW c \in Collections, LastChunk(c)
    PROVE  IInv'
<1> DEFINE w == work[c]
           v == [w EXCEPT !.pc = "return"]
<1>1. /\ w.pc = "accountDone" /\ w.pc \in Places /\ w.account = Len(AccountsOf[c])
      /\ w.offset + Lookback >= TargetCount
      /\ UNCHANGED <<hidden, processed, marked, reported, dropped>>
      /\ work' = [work EXCEPT ![c] = v]
  BY DEF LastChunk, At, Places
<1>2. /\ w \in Locals /\ LoopsOK(c, w) /\ FreshOK(w)
      /\ RowsOK(c, w) /\ Covered(c, w, marked)
  BY <1>1, Running
<1>3. /\ v \in Locals /\ v.pc = "return" /\ v.account = w.account /\ v.offset = w.offset
      /\ v.before = w.before /\ v.pages = w.pages /\ v.page = w.page /\ v.fresh = w.fresh
      /\ v.got = w.got /\ v.next = w.next /\ v.old = w.old /\ v.rows = w.rows /\ v.gap = w.gap
  BY <1>2 DEF Locals, Places
<1> HIDE DEF v
<1>4. LoopsOK(c, v) /\ PageOK(c, v) /\ FreshOK(v) /\ GotOK(v)
  BY <1>1, <1>2, <1>3 DEF LoopsOK, PageOK, FreshOK, GotOK, InPage
<1>5. RowsOK(c, v) /\ Covered(c, v, marked)
  <2>1. \A m, i, e : Passed(w, m, i, e) => Passed(v, m, i, e)
    BY <1>1, <1>3 DEF Passed, Taken
  <2>2. \A m, j, e : Due(v, m, j, e) => Due(w, m, j, e)
    BY <1>1, <1>3 DEF Due, Behind
  <2>3. QED
    BY <1>1, <1>2, <1>3, <2>1, <2>2, AccountLeft
<1>6. QED
  BY <1>1, <1>3, <1>4, <1>5, LruStays, MovesOn

LEMMA StepInv == IInv /\ [Next]_vars => IInv'
<1> SUFFICES ASSUME IInv, [Next]_vars PROVE IInv'
  OBVIOUS
<1>1. CASE \E a \in DOMAIN History : Land(a)
  BY <1>1, LandStep
<1>2. ASSUME NEW c \in Collections, Start(c) \/ Step(c) PROVE IInv'
  <2>1. CASE Start(c)
    BY <2>1, StartStep
  <2>2. CASE GetSignatures(c)
    BY <2>2, GetSignaturesStep
  <2>3. CASE SignaturesFail(c) \/ ChunkCancelled(c)
    <3>1. work[c].pc \in Places /\ Collapse(c)
      BY <2>3 DEF SignaturesFail, ChunkCancelled, At, Places
    <3>2. QED
      BY <3>1, CollapseStep
  <2>4. CASE Scan(c) \/ Scanned(c)
    BY <2>4, ScanStep, ScannedStep
  <2>5. CASE FetchBatch(c) \/ BatchUnavailable(c) \/ GetTransaction(c) \/ FetchFails(c)
    BY <2>5, FetchBatchStep, BatchUnavailableStep, GetTransactionStep, FetchFailsStep
  <2>6. CASE Process(c) \/ NextPage(c)
    BY <2>6, ProcessStep, NextPageStep
  <2>7. CASE NextAccount(c) \/ NextChunk(c) \/ LastChunk(c) \/ Return(c)
    BY <2>7, NextAccountStep, NextChunkStep, LastChunkStep, ReturnStep
  <2>8. QED
    BY <1>2, <2>1, <2>2, <2>3, <2>4, <2>5, <2>6, <2>7 DEF Step
<1>3. CASE UNCHANGED vars
  <2>1. UNCHANGED <<hidden, processed, work, marked, reported, dropped>>
    BY <1>3 DEF vars
  <2>2. LruOK' /\ NoTipLostQuietly'
    BY <2>1 DEF IInv, LruOK, NoTipLostQuietly, Working, RowSignatures
  <2>3. QED
    BY <2>1, <2>2 DEF IInv
<1>4. QED
  BY <1>1, <1>2, <1>3 DEF Next

LEMMA Invariance == Spec => []IInv
  BY InitInv, StepInv, PTL DEF Spec

----------------------------------------------------------------------------
(* Reading transactions.                                                   *)

(* A function on 1..n is as long as that.                                  *)
LEMMA LengthOf ==
    ASSUME NEW n \in Nat, NEW f \in [1..n -> Nat]
    PROVE  Len(f) = n
<1>1. f \in Seq(Nat)
  OBVIOUS
<1>2. QED
  BY <1>1

(* The instructions are read as the ledger means them.                     *)
LEMMA JitoIsCalled ==
    ASSUME NEW a \in DOMAIN History, NEW tx \in ToSet(History[a])
    PROVE  HasJitoInstruction(tx) <=> \E program \in JitoPrograms : Calls(tx, program)
<1> DEFINE keys == AccountKeys(tx)
<1>1. /\ Len(keys) \in Nat /\ DOMAIN keys = 1..Len(keys) /\ "" \notin JitoPrograms
      /\ \A instruction \in tx.instructions \cup tx.inner : instruction.index \in Nat
  BY LedgerAssumption
<1> HIDE DEF keys
<1>2. ASSUME NEW instruction \in tx.instructions \cup tx.inner
      PROVE  ProgramID(instruction, keys) \in JitoPrograms <=>
                \E program \in JitoPrograms :
                   \/ instruction.program = program
                   \/ /\ instruction.program = ""
                      /\ \E i \in DOMAIN keys : i = instruction.index + 1 /\ keys[i] = program
  <2>1. CASE instruction.program # ""
    BY <2>1 DEF ProgramID
  <2>2. CASE instruction.program = ""
    <3> DEFINE n == instruction.index
    <3>1. n \in Nat /\ Len(keys) \in Nat /\ DOMAIN keys = 1..Len(keys)
      BY <1>1
    <3> HIDE DEF n
    <3>2. n + 1 \in DOMAIN keys <=> n < Len(keys)
      BY <3>1
    <3>3. instruction.index + 1 \in DOMAIN keys <=> instruction.index < Len(keys)
      BY <3>2 DEF n
    <3>4. QED
      BY <1>1, <2>2, <3>3 DEF ProgramID
  <2>3. QED
    BY <2>1, <2>2
<1>3. QED
  BY <1>2 DEF HasJitoInstruction, Calls, keys

(* So what is counted as a tip is what was paid.                           *)
LEMMA TipsAreRead ==
    ASSUME NEW a \in DOMAIN History, NEW tx \in ToSet(History[a])
    PROVE  /\ Pays(tx, a) => tx.paid[a] = TipLamports(tx, a)
           /\ tx.paid[a] > 0 => Pays(tx, a)
<1> DEFINE keys == AccountKeys(tx)
           pays == ~tx.failed /\ HasJitoInstruction(tx)
<1>1. /\ Len(keys) \in Nat /\ DOMAIN keys = 1..Len(keys)
      /\ \A i, j \in DOMAIN keys : keys[i] = keys[j] => i = j
      /\ tx.pre \in [1..Len(keys) -> Nat] /\ tx.post \in [1..Len(keys) -> Nat]
  BY LedgerAssumption DEF IsInjective
<1>2. Len(tx.pre) = Len(keys) /\ Len(tx.post) = Len(keys)
  BY <1>1, LengthOf
<1>3. /\ \A i \in DOMAIN keys : keys[i] = a =>
            tx.paid[a] = IF pays /\ tx.post[i] > tx.pre[i]
                         THEN tx.post[i] - tx.pre[i] ELSE 0
      /\ (\A i \in DOMAIN keys : keys[i] # a) => tx.paid[a] = 0
  BY LedgerAssumption, JitoIsCalled
<1>4. Credits(tx, a) = {i \in DOMAIN keys : keys[i] = a /\ tx.post[i] > tx.pre[i]}
  BY <1>1, <1>2 DEF Credits
<1> HIDE DEF keys, pays
<1>5. CASE \E i \in DOMAIN keys : keys[i] = a /\ tx.post[i] > tx.pre[i]
  <2>1. PICK i \in DOMAIN keys : keys[i] = a /\ tx.post[i] > tx.pre[i]
    BY <1>5
  <2>2. Credits(tx, a) = {i} /\ i \in Nat
    BY <1>1, <1>4, <2>1
  <2>3. \A j \in Credits(tx, a) : i <= j
    BY <2>2
  <2>4. (CHOOSE j \in Credits(tx, a) : \A k \in Credits(tx, a) : j <= k) = i
    BY <2>2, <2>3
  <2>5. TipLamports(tx, a) = tx.post[i] - tx.pre[i]
    BY <2>2, <2>4 DEF TipLamports
  <2>6. tx.paid[a] = IF pays THEN tx.post[i] - tx.pre[i] ELSE 0
    BY <1>3, <2>1
  <2>7. tx.post[i] - tx.pre[i] # 0
    BY <1>1, <2>1
  <2>8. QED
    BY <2>5, <2>6, <2>7 DEF Pays, pays
<1>6. CASE \A i \in DOMAIN keys : ~(keys[i] = a /\ tx.post[i] > tx.pre[i])
  <2>1. Credits(tx, a) = {}
    BY <1>4, <1>6
  <2>2. TipLamports(tx, a) = 0
    BY <2>1 DEF TipLamports
  <2>3. tx.paid[a] = 0
    BY <1>3, <1>6
  <2>4. QED
    BY <2>2, <2>3 DEF Pays
<1>7. QED
  BY <1>5, <1>6

----------------------------------------------------------------------------
(* The theorems.                                                           *)

LEMMA WorkingIsRunning ==
    ASSUME IInv, NEW c \in Collections, Working(c)
    PROVE  work[c].pc \in Places
<1>1. WorkOK(c, work[c], marked) /\ work[c] \notin {Idle, Done}
  BY DEF IInv, Working, Idle, Done
<1>2. QED
  BY <1>1 DEF WorkOK, LoopsOK, Locals

(* The values each variable takes.                                         *)
THEOREM TypeCorrect == Spec => []TypeOK
<1>1. ASSUME IInv PROVE TypeOK
  <2>1. \A a \in DOMAIN History : hidden[a] \in 0..Late[a]
    BY <1>1, JitoTipsAssumption DEF IInv
  <2>2. /\ ToSet(processed) \subseteq Signatures /\ Len(processed) <= ProcessedSize
        /\ marked \subseteq Signatures /\ dropped \subseteq Signatures
    BY <1>1 DEF IInv, LruOK
  <2>3. ASSUME NEW c \in Collections, work[c] \notin {Idle, Done}
        PROVE  /\ work[c].pc \in Places
               /\ work[c].account \in DOMAIN AccountsOf[c]
               /\ work[c].pages \in 0..MaxPages
    <3>1. LoopsOK(c, work[c])
      BY <1>1, <2>3 DEF IInv, WorkOK
    <3>2. QED
      BY <3>1, Sizes DEF LoopsOK, Locals
  <2>4. QED
    BY <2>1, <2>2, <2>3 DEF TypeOK
<1>2. QED
  BY <1>1, Invariance, PTL

(* However often the chunks read the same pages, and whatever the LRU has  *)
(* forgotten, the rows of a collection differ.                             *)
THEOREM NoTipCountedTwice == Spec => []NoTipTwice
<1>1. ASSUME IInv PROVE NoTipTwice
  BY <1>1, WorkingIsRunning, Running DEF NoTipTwice, RowsOK
<1>2. QED
  BY <1>1, Invariance, PTL

(* A signature that the LRU remembers has its row, on the way or returned, *)
(* or was dropped with an error.                                           *)
THEOREM NothingLostQuietly == Spec => []NoTipLostQuietly
<1>1. ASSUME IInv PROVE NoTipLostQuietly
  BY <1>1 DEF IInv
<1>2. QED
  BY <1>1, Invariance, PTL

(* An epoch that a slot is found in is the slot's, or the oldest one.      *)
LEMMA EpochOfSlot ==
    ASSUME NEW s \in Nat, NEW e \in EpochsForSlot(s)
    PROVE  e = s \div SlotsInEpoch \/ (e = Oldest /\ s \div SlotsInEpoch < Oldest)
<1> DEFINE d == s \div SlotsInEpoch
           r == s % SlotsInEpoch
<1>1. /\ e \in Epochs /\ IntervalStart(e) <= s /\ s <= EndSlot[e]
  BY DEF EpochsForSlot
<1>2. /\ e \in Nat /\ EndSlot[e] = e * SlotsInEpoch + SlotsInEpoch - 1
      /\ IntervalStart(e) = IF e = Oldest THEN 0 ELSE e * SlotsInEpoch
  BY <1>1, Intervals
<1>3. d \in Nat /\ r \in Nat /\ r < SlotsInEpoch /\ s = SlotsInEpoch * d + r
  BY Sizes
<1>4. s = d * SlotsInEpoch + r
  <2>1. SlotsInEpoch * d = d * SlotsInEpoch
    BY <1>3, Sizes
  <2>2. QED
    BY <1>3, <2>1
<1> HIDE DEF d, r
<1>5. ~(e < d)
  <2>1. SUFFICES ASSUME e < d PROVE FALSE
    OBVIOUS
  <2>2. (e + 1) * SlotsInEpoch <= d * SlotsInEpoch
    BY <1>2, <1>3, <2>1, Sizes, Products
  <2>3. (e + 1) * SlotsInEpoch = e * SlotsInEpoch + SlotsInEpoch
    BY <1>2, Sizes, Products
  <2>4. e * SlotsInEpoch \in Nat /\ d * SlotsInEpoch \in Nat
    BY <1>2, <1>3, Sizes, Products
  <2>5. QED
    BY <1>1, <1>2, <1>3, <1>4, <2>2, <2>3, <2>4, Sizes
<1>6. ASSUME e # Oldest PROVE ~(d < e)
  <2>1. SUFFICES ASSUME d < e PROVE FALSE
    OBVIOUS
  <2>2. (d + 1) * SlotsInEpoch <= e * SlotsInEpoch
    BY <1>2, <1>3, <2>1, Sizes, Products
  <2>3. (d + 1) * SlotsInEpoch = d * SlotsInEpoch + SlotsInEpoch
    BY <1>3, Sizes, Products
  <2>4. e * SlotsInEpoch \in Nat /\ d * SlotsInEpoch \in Nat
    BY <1>2, <1>3, Sizes, Products
  <2>5. QED
    BY <1>1, <1>2, <1>3, <1>4, <1>6, <2>2, <2>3, <2>4, Sizes
<1>7. QED
  BY <1>2, <1>3, <1>5, <1>6 DEF d

(* Every row is a tip that the ledger knows of, in the epoch of its slot.  *)
THEOREM EveryRowIsATip == Spec => []RowsAreTips
<1>1. ASSUME IInv PROVE RowsAreTips
  <2>1. SUFFICES ASSUME NEW c \in Collections, Working(c), NEW row \in ToSet(work[c].rows)
                 PROVE  /\ \/ row.epoch = row.slot \div SlotsInEpoch
                           \/ row.epoch = Oldest /\ row.slot \div SlotsInEpoch < Oldest
                        /\ \E tx \in ToSet(History[row.account]) :
                              /\ tx.signature = row.signature
                              /\ tx.slot = row.slot
                              /\ tx.paid[row.account] = row.lamports
    BY DEF RowsAreTips
  <2>2. RowOK(c, work[c], row)
    BY <1>1, <2>1, WorkingIsRunning, Running, SignaturesOfRows
  <2>3. PICK m \in DOMAIN AccountsOf[c] : \E i \in DOMAIN History[AccountsOf[c][m]] :
          /\ EpochsForSlot(History[AccountsOf[c][m]][i].slot) # {}
          /\ row = RowOf(AccountsOf[c][m], i)
          /\ Pays(History[AccountsOf[c][m]][i], AccountsOf[c][m])
    BY <2>2 DEF RowOK
  <2> DEFINE a == AccountsOf[c][m]
  <2>4. PICK i \in DOMAIN History[a] :
          /\ EpochsForSlot(History[a][i].slot) # {}
          /\ row = RowOf(a, i)
          /\ Pays(History[a][i], a)
    BY <2>3
  <2>5. a \in DOMAIN History /\ History[a][i].slot \in Nat
    BY TxFacts
  <2> HIDE DEF a
  <2> DEFINE tx == History[a][i]
  <2>6. tx \in ToSet(History[a])
    BY DEF ToSet
  <2>7. /\ row.signature = tx.signature /\ row.account = a /\ row.slot = tx.slot
        /\ row.epoch = CHOOSE e \in EpochsForSlot(tx.slot) : TRUE
        /\ row.lamports = TipLamports(tx, a)
    BY <2>4 DEF RowOf
  <2>8. Pays(tx, a) /\ EpochsForSlot(tx.slot) # {} /\ tx.slot \in Nat
    BY <2>4, <2>5
  <2> HIDE DEF tx
  <2>9. row.epoch \in EpochsForSlot(row.slot) /\ row.slot \in Nat
    BY <2>7, <2>8
  <2>10. tx.paid[a] = row.lamports
    BY <2>5, <2>6, <2>7, <2>8, TipsAreRead
  <2>11. QED
    BY <2>6, <2>7, <2>9, <2>10, EpochOfSlot
<1>2. QED
  BY <1>1, Invariance, PTL

(* A collection without failed or incomplete calls has every tip that it   *)
(* can reach and that was not marked.                                      *)
THEOREM NothingIsMissed == Spec => []CompleteExceptMarked
<1>1. ASSUME IInv PROVE CompleteExceptMarked
  <2>1. SUFFICES ASSUME NEW c \in Collections, At(c, "return"), ~work[c].gap,
                        NEW tip \in Reachable(c)
                 PROVE  Has(ToSet(work[c].rows), tip) \/ tip.signature \in marked
    BY DEF CompleteExceptMarked
  <2> DEFINE w == work[c]
  <2>2. w.pc = "return" /\ w.pc \in Places
    BY <2>1 DEF At, Places
  <2>3. w \in Locals /\ LoopsOK(c, w) /\ Covered(c, w, marked)
    BY <1>1, <2>2, Running
  <2>4. PICK a \in ToSet(AccountsOf[c]) :
          \E j \in DOMAIN History[a] :
             /\ tip = [signature |-> History[a][j].signature, account |-> a]
             /\ j <= PageSize * MaxPages
             /\ History[a][j].paid[a] > 0
             /\ InTargetEpochs(History[a][j].slot)
    BY <2>1 DEF Reachable
  <2>5. PICK j \in DOMAIN History[a] :
             /\ tip = [signature |-> History[a][j].signature, account |-> a]
             /\ j <= PageSize * MaxPages
             /\ History[a][j].paid[a] > 0
             /\ InTargetEpochs(History[a][j].slot)
    BY <2>4
  <2>6. PICK m \in DOMAIN AccountsOf[c] : a = AccountsOf[c][m]
    BY DEF ToSet
  <2>7. a \in DOMAIN History /\ History[a][j].slot \in Nat /\ j \in Nat
    <3>1. a \in DOMAIN History /\ History[a][j].slot \in Nat
      BY <2>6, TxFacts
    <3>2. DOMAIN History[a] = 1..Len(History[a])
      BY <2>6, AccountFacts
    <3>3. QED
      BY <3>1, <3>2
  <2>8. History[a][j] \in ToSet(History[a])
    BY DEF ToSet
  <2>9. Pays(History[a][j], a)
    BY <2>5, <2>7, <2>8, TipsAreRead
  <2>10. PICK e \in EpochsForSlot(History[a][j].slot) : Latest - e < TargetCount
    BY <2>5, <2>7, SlotHasEpoch
  <2>11. e \in Epochs
    BY DEF EpochsForSlot
  <2>12. TipIn(c, m, j, e)
    BY <2>5, <2>6, <2>9, <2>10 DEF TipIn
  <2>13. Due(w, m, j, e)
    <3>1. /\ w.account = Len(AccountsOf[c]) /\ w.offset + Lookback >= TargetCount
          /\ w.offset \in Nat
      BY <2>2, <2>3 DEF LoopsOK, Locals
    <3>2. m < w.account \/ m = w.account
      BY <3>1, CollectionFacts
    <3>3. Latest - e < w.offset + Lookback
      BY <2>10, <2>11, <3>1, EpochFacts, Sizes
    <3>4. Behind(w, j)
      BY <2>2 DEF Behind
    <3>5. QED
      BY <3>2, <3>3, <3>4 DEF Due
  <2>14. Accounted(c, w, m, j, marked)
    BY <2>1, <2>3, <2>7, <2>11, <2>12, <2>13 DEF Covered
  <2>15. tip.signature = History[a][j].signature /\ tip.account = a
    BY <2>5
  <2>16. QED
    BY <2>6, <2>14, <2>15 DEF Accounted, Has, ToSet
<1>2. QED
  BY <1>1, Invariance, PTL
=============================================================================
