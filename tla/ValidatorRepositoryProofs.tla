--------------------- MODULE ValidatorRepositoryProofs ---------------------
(* Proofs about ValidatorRepository, for any number of requests and        *)
(* validators, any names, TTL and delays: whatever lookups, records and    *)
(* home pages overlap, names are not mixed, no XIRR outlives its TTL by    *)
(* more than the delays of three requests, and none is lost before it.     *)
EXTENDS ValidatorRepository, TLAPS

----------------------------------------------------------------------------
(* The inductive invariant.                                                *)

(* The names an entry may hold.  An account that is no vote account stands *)
(* for a node: only lookups store under it, and only the API's answer.     *)
NamesFor(a) == IF a \in Votes THEN OwnNames(a) ELSE {NameOf[a], NoName}

(* What an entry's XIRR and its expiry have to do with each other: the     *)
(* entry never expires before the XIRR does, and a lookup that renews the  *)
(* expiry adds no more than the delays of two requests.                    *)
EntryOf(a, entry) ==
    /\ entry \in Entries \cup {None}
    /\ entry # None => entry.name \in NamesFor(a)
    /\ entry # None /\ entry.xirrAge # None =>
          /\ a \in Votes
          /\ Lifetime <= entry.xirrAge + entry.left
          /\ entry.xirrAge + entry.left <= Lifetime + 2 * MaxServe

CacheInv ==
    /\ cache = [a \in Accounts |-> cache[a]]
    /\ \A a \in Accounts : EntryOf(a, cache[a])

NodesInv ==
    /\ nodes \in [Votes -> [value : Nodes \cup {NoNode}, left : Left] \cup {None}]
    /\ \A v \in Votes : nodes[v] # None => nodes[v].value = NodeOf[v]

RequestTypes ==
    /\ collected \subseteq Votes
    /\ pc \in [Requests -> {"idle", "node", "ask", "identity", "fetch", "store", "store both",
                            "store identity", "named", "record", "recent", "page"}]
    /\ served \in [Requests -> 0..MaxServe]
    /\ vote \in [Requests -> Votes \cup {None}]
    /\ identity \in [Requests -> Accounts \cup {None}]
    /\ got \in [Requests -> Names]
    /\ delay \in [Requests -> 0..MaxServe]
    /\ page \in [Requests -> SUBSET [vote : Accounts, age : 0..Oldest]]

(* The locals of a request, by the place it is at.                         *)
Voting == {"node", "ask", "identity", "fetch", "store", "store both", "store identity",
           "named", "record"}

IsNodeOf(a, v) == a = NodeOf[v] /\ a \in Nodes /\ a \notin Votes

RequestInv(r) ==
    /\ pc[r] = "idle" => served[r] = 0
    /\ delay[r] <= served[r]
    /\ pc[r] \in Voting => vote[r] \in Votes
    /\ pc[r] = "identity" => IsNodeOf(identity[r], vote[r])
    /\ pc[r] = "fetch" => identity[r] = vote[r] \/ IsNodeOf(identity[r], vote[r])
    /\ pc[r] \in {"store both", "store identity"} =>
          IsNodeOf(identity[r], vote[r]) /\ got[r] = NameOf[identity[r]]
    /\ pc[r] \in {"store", "store both"} => got[r] \in OwnNames(vote[r])
    /\ pc[r] # "page" => page[r] = {}
    /\ \A row \in page[r] : row.age <= TTL + 2 * MaxServe + served[r]

(* A lookup that is going to store a name found the entry expired and      *)
(* deleted it: an XIRR it renews was recorded while the lookup ran.        *)
Renewing == {"node", "ask", "identity", "fetch", "store", "store both"}

RenewalInv(r) ==
    pc[r] \in Renewing /\ HasXirr(cache, vote[r]) =>
        cache[vote[r]].xirrAge <= served[r] + MaxServe

IInv ==
    /\ CacheInv
    /\ NodesInv
    /\ RequestTypes
    /\ \A r \in Requests : RequestInv(r)
    /\ \A r \in Requests : RenewalInv(r)

(* The numbers that bound ages and what is left.                           *)
LEMMA Bounds ==
    /\ TTL \in Nat /\ MaxServe \in Nat /\ Lifetime = TTL + 1 /\ Lifetime \in Nat
    /\ Oldest = Lifetime + 3 * MaxServe /\ Oldest \in Nat
    /\ None \notin Nat
  BY ValidatorRepositoryAssumption DEF Lifetime, Oldest

(* Every name an entry may hold is a name.                                 *)
LEMMA NamesAreNames ==
    ASSUME NEW a \in Accounts
    PROVE  OwnNames(a) \subseteq Names /\ NamesFor(a) \subseteq Names
  BY DEF OwnNames, NamesFor, Names, Accounts

LEMMA Initial == Init => IInv
<1> SUFFICES ASSUME Init
             PROVE  IInv
  OBVIOUS
<1> USE DEF Init
<1>1. CacheInv
  BY DEF CacheInv, EntryOf
<1>2. NodesInv
  BY DEF NodesInv
<1>3. RequestTypes
  BY Bounds DEF RequestTypes, Names
<1>4. ASSUME NEW r \in Requests
      PROVE  RequestInv(r) /\ RenewalInv(r)
  BY Bounds DEF RequestInv, RenewalInv, Voting, Renewing
<1>5. QED
  BY <1>1, <1>2, <1>3, <1>4 DEF IInv

----------------------------------------------------------------------------
(* Entries.                                                                *)

LEMMA NoEntry == ASSUME NEW a PROVE EntryOf(a, None)
  BY DEF EntryOf

(* A lookup stores a name and renews the expiry of an XIRR that is young.  *)
LEMMA EntryStored ==
    ASSUME IInv, NEW a \in Accounts, NEW name \in NamesFor(a),
           HasXirr(cache, a) => cache[a].xirrAge <= 2 * MaxServe
    PROVE  EntryOf(a, [name |-> name,
                       xirrAge |-> IF HasXirr(cache, a) THEN cache[a].xirrAge ELSE None,
                       left |-> Lifetime])
<1>1. EntryOf(a, cache[a]) /\ name \in Names
  BY NamesAreNames DEF IInv, CacheInv
<1>2. Lifetime \in Left
  BY Bounds DEF Left
<1>3. CASE HasXirr(cache, a)
  <2>1. a \in Votes /\ cache[a].xirrAge \in 0..Oldest
    BY <1>1, <1>3 DEF EntryOf, HasXirr, Entries
  <2>2. Lifetime <= cache[a].xirrAge + Lifetime
        /\ cache[a].xirrAge + Lifetime <= Lifetime + 2 * MaxServe
    BY <1>3, <2>1, Bounds
  <2>3. QED
    BY <1>1, <1>2, <1>3, <2>1, <2>2 DEF EntryOf, Entries
<1>4. CASE ~HasXirr(cache, a)
  BY <1>1, <1>2, <1>4 DEF EntryOf, Entries
<1>5. QED
  BY <1>3, <1>4

(* A return is recorded under a vote account.                              *)
LEMMA EntryRecorded ==
    ASSUME IInv, NEW v \in Votes, NEW age \in 0..MaxServe
    PROVE  EntryOf(v, [name |-> IF cache[v] = None \/ cache[v].name = NoName
                                THEN v ELSE cache[v].name,
                       xirrAge |-> age,
                       left |-> Lifetime - age])
<1>1. EntryOf(v, cache[v]) /\ v \in Accounts
  BY DEF IInv, CacheInv, Accounts
<1>2. v \in NamesFor(v)
  BY DEF NamesFor, OwnNames
<1>3. (IF cache[v] = None \/ cache[v].name = NoName THEN v ELSE cache[v].name)
        \in NamesFor(v) \cap Names
  BY <1>1, <1>2, NamesAreNames DEF EntryOf
<1>4. age \in 0..Oldest /\ Lifetime - age \in Left /\ age + (Lifetime - age) = Lifetime
  BY Bounds DEF Left
<1>5. QED
  BY <1>3, <1>4, Bounds DEF EntryOf, Entries

(* Time: an XIRR ages as its entry's time runs out.                        *)
LEMMA EntryAges ==
    ASSUME NEW a \in Accounts, NEW entry, EntryOf(a, entry), entry # None
    PROVE  EntryOf(a, [entry EXCEPT !.left = Less(@), !.xirrAge = Older(@)])
<1> DEFINE aged == [entry EXCEPT !.left = Less(@), !.xirrAge = Older(@)]
<1>1. entry \in Entries
  BY DEF EntryOf
<1>2. aged.name = entry.name /\ aged.left = Less(entry.left)
      /\ aged.xirrAge = Older(entry.xirrAge)
  BY <1>1 DEF Entries
<1>3. entry.left \in Left /\ Less(entry.left) \in Left
  BY <1>1, Bounds DEF Entries, Left, Less
<1>4. CASE entry.xirrAge = None
  <2>1. Older(entry.xirrAge) = None
    BY <1>4 DEF Older
  <2>2. aged \in Entries
    BY <1>1, <1>3, <2>1 DEF Entries
  <2>3. QED
    BY <1>2, <2>1, <2>2 DEF EntryOf
<1>5. CASE entry.xirrAge # None
  <2>1. entry.xirrAge \in 0..Oldest
    BY <1>1, <1>5 DEF Entries
  <2>2. Older(entry.xirrAge) \in 0..Oldest
    BY <2>1, Bounds DEF Older
  <2>3. /\ Lifetime <= entry.xirrAge + entry.left
        /\ entry.xirrAge + entry.left <= Lifetime + 2 * MaxServe
        /\ a \in Votes
    BY <1>5 DEF EntryOf
  <2>4. /\ Lifetime <= Older(entry.xirrAge) + Less(entry.left)
        /\ Older(entry.xirrAge) + Less(entry.left) <= Lifetime + 2 * MaxServe
    BY <1>3, <1>5, <2>1, <2>3, Bounds DEF Older, Less, Left
  <2>5. aged \in Entries
    BY <1>1, <1>3, <2>2 DEF Entries
  <2>6. QED
    BY <1>2, <2>3, <2>4, <2>5 DEF EntryOf
<1>6. QED
  BY <1>4, <1>5

----------------------------------------------------------------------------
(* What a step of one request does to the cache: it brings no XIRR that is *)
(* older than a request.                                                   *)
XirrsKept ==
    \A a \in Accounts : HasXirr(cache', a) =>
        \/ HasXirr(cache, a) /\ cache'[a].xirrAge = cache[a].xirrAge
        \/ cache'[a].xirrAge \in 0..MaxServe

CacheStep == CacheInv' /\ XirrsKept

LEMMA CacheKept ==
    ASSUME IInv, UNCHANGED cache
    PROVE  CacheStep
  BY DEF IInv, CacheInv, CacheStep, XirrsKept, HasXirr

LEMMA CachePurged ==
    ASSUME IInv, NEW key \in Accounts, cache' = Purged(cache, key)
    PROVE  CacheStep
<1>1. ASSUME NEW a \in Accounts
      PROVE  cache'[a] = cache[a] \/ cache'[a] = None
  BY DEF IInv, CacheInv, Purged
<1>2. cache' = [a \in Accounts |-> cache'[a]]
  BY DEF IInv, CacheInv, Purged
<1>3. QED
  BY <1>1, <1>2, NoEntry DEF IInv, CacheInv, CacheStep, XirrsKept, HasXirr

LEMMA CacheStored ==
    ASSUME IInv, NEW key \in Accounts, NEW name \in NamesFor(key),
           HasXirr(cache, key) => cache[key].xirrAge <= 2 * MaxServe,
           cache' = Stored(key, name)
    PROVE  CacheStep
<1>1. EntryOf(key, cache'[key])
  BY EntryStored DEF Stored, IInv, CacheInv
<1>2. \A a \in Accounts \ {key} : cache'[a] = cache[a]
  BY DEF Stored, IInv, CacheInv
<1>3. cache' = [a \in Accounts |-> cache'[a]]
  BY DEF Stored, IInv, CacheInv
<1>4. HasXirr(cache', key) => HasXirr(cache, key) /\ cache'[key].xirrAge = cache[key].xirrAge
  BY DEF Stored, IInv, CacheInv, HasXirr
<1>5. QED
  BY <1>1, <1>2, <1>3, <1>4 DEF IInv, CacheInv, CacheStep, XirrsKept, HasXirr

LEMMA CacheRecorded ==
    ASSUME IInv, NEW v \in Votes, NEW age \in 0..MaxServe, cache' = Recorded(v, age)
    PROVE  CacheStep
<1>1. v \in Accounts
  BY DEF Accounts
<1>2. EntryOf(v, cache'[v]) /\ cache'[v].xirrAge = age
  BY <1>1, EntryRecorded DEF Recorded, IInv, CacheInv
<1>3. \A a \in Accounts \ {v} : cache'[a] = cache[a]
  BY DEF Recorded, IInv, CacheInv
<1>4. cache' = [a \in Accounts |-> cache'[a]]
  BY DEF Recorded, IInv, CacheInv
<1>5. QED
  BY <1>1, <1>2, <1>3, <1>4 DEF IInv, CacheInv, CacheStep, XirrsKept, HasXirr

----------------------------------------------------------------------------
(* What a step of one request does to the requests.                        *)

(* The others do not see it.                                               *)
Elsewhere(r) ==
    \A q \in Requests \ {r} :
        /\ pc'[q] = pc[q] /\ served'[q] = served[q] /\ delay'[q] = delay[q]
        /\ vote'[q] = vote[q] /\ identity'[q] = identity[q] /\ got'[q] = got[q]
        /\ page'[q] = page[q]

LocalStep(r) == RequestTypes' /\ Elsewhere(r) /\ RequestInv(r)'

(* A request that renews an entry did so before, or finds no XIRR there.   *)
RenewsStill(r) ==
    pc'[r] \in Renewing =>
        \/ pc[r] \in Renewing /\ vote'[r] = vote[r] /\ served'[r] = served[r]
        \/ ~HasXirr(cache', vote'[r])

LEMMA StepOfOne ==
    ASSUME IInv, NEW r \in Requests, CacheStep, NodesInv', LocalStep(r), RenewsStill(r)
    PROVE  IInv'
<1>1. ASSUME NEW q \in Requests
      PROVE  RequestInv(q)'
  <2>1. CASE q = r
    BY <2>1 DEF LocalStep
  <2>2. CASE q # r
    <3>1. /\ pc'[q] = pc[q] /\ served'[q] = served[q] /\ delay'[q] = delay[q]
          /\ vote'[q] = vote[q] /\ identity'[q] = identity[q] /\ got'[q] = got[q]
          /\ page'[q] = page[q]
      BY <2>2 DEF LocalStep, Elsewhere
    <3>2. QED
      BY <3>1 DEF IInv, RequestInv
  <2>3. QED
    BY <2>1, <2>2
<1>2. ASSUME NEW q \in Requests, pc'[q] \in Renewing, HasXirr(cache', vote'[q])
      PROVE  cache'[vote'[q]].xirrAge <= served'[q] + MaxServe
  <2>1. pc[q] \in Renewing /\ vote'[q] = vote[q] /\ served'[q] = served[q]
    BY <1>2 DEF RenewsStill, LocalStep, Elsewhere
  <2>2. vote[q] \in Accounts /\ served[q] \in 0..MaxServe
    BY <2>1 DEF IInv, RequestInv, RequestTypes, Renewing, Voting, Accounts
  <2>3. \/ HasXirr(cache, vote[q]) /\ cache'[vote[q]].xirrAge = cache[vote[q]].xirrAge
        \/ cache'[vote[q]].xirrAge \in 0..MaxServe
    BY <1>2, <2>1, <2>2 DEF CacheStep, XirrsKept
  <2>4. HasXirr(cache, vote[q]) => cache[vote[q]].xirrAge <= served[q] + MaxServe
    BY <2>1 DEF IInv, RenewalInv
  <2>5. QED
    BY <2>1, <2>2, <2>3, <2>4, Bounds
<1>3. QED
  BY <1>1, <1>2 DEF IInv, CacheStep, LocalStep, RenewalInv

(* A request that ends leaves nothing behind.                              *)
LEMMA DoneStep ==
    ASSUME IInv, NEW r \in Requests, Done(r), collected' \subseteq Votes
    PROVE  LocalStep(r) /\ RenewsStill(r)
<1>1. RequestTypes'
  <2>1. 0 \in 0..MaxServe
    BY Bounds
  <2>2. NoName \in Names
    BY DEF Names
  <2>3. QED
    BY <2>1, <2>2 DEF IInv, RequestTypes, Done, Goto
<1>2. Elsewhere(r)
  BY DEF Elsewhere, IInv, RequestTypes, Done, Goto
<1>3. /\ pc'[r] = "idle" /\ served'[r] = 0 /\ delay'[r] = 0 /\ page'[r] = {}
  BY DEF IInv, RequestTypes, Done, Goto
<1>4. RequestInv(r)'
  BY <1>3 DEF RequestInv, Voting
<1>5. RenewsStill(r)
  BY <1>3 DEF RenewsStill, Renewing
<1>6. QED
  BY <1>1, <1>2, <1>4, <1>5 DEF LocalStep

(* A request goes on, with these locals, in no time.                       *)
Moves(r, place, v, a, name) ==
    /\ pc' = [pc EXCEPT ![r] = place]
    /\ vote' = [vote EXCEPT ![r] = v]
    /\ identity' = [identity EXCEPT ![r] = a]
    /\ got' = [got EXCEPT ![r] = name]
    /\ UNCHANGED <<served, delay, page>>

LEMMA MoveStep ==
    ASSUME IInv, NEW r \in Requests, pc[r] # "page",
           NEW place \in Voting, NEW v \in Votes, NEW a \in Accounts \cup {None},
           NEW name \in Names,
           Moves(r, place, v, a, name), collected' \subseteq Votes,
           place = "identity" => IsNodeOf(a, v),
           place = "fetch" => a = v \/ IsNodeOf(a, v),
           place \in {"store both", "store identity"} =>
               IsNodeOf(a, v) /\ name = NameOf[a],
           place \in {"store", "store both"} => name \in OwnNames(v)
    PROVE  LocalStep(r)
<1> USE DEF IInv, RequestTypes, Moves
<1>1. RequestTypes'
  BY DEF Voting
<1>2. Elsewhere(r)
  BY DEF Elsewhere
<1>3. /\ pc'[r] = place /\ vote'[r] = v /\ identity'[r] = a /\ got'[r] = name
      /\ served'[r] = served[r] /\ delay'[r] = delay[r] /\ page'[r] = page[r]
  OBVIOUS
<1>4. delay[r] <= served[r] /\ page[r] = {}
  BY DEF RequestInv
<1>5. place \notin {"idle", "page"}
  BY DEF Voting
<1>6. RequestInv(r)'
  BY <1>3, <1>4, <1>5 DEF RequestInv
<1>7. QED
  BY <1>1, <1>2, <1>6 DEF LocalStep

----------------------------------------------------------------------------
(* The steps of a lookup.                                                  *)

(* What holds of the request at every place but the first and the last.    *)
LEMMA Here ==
    ASSUME IInv, NEW r \in Requests
    PROVE  /\ pc[r] \in Voting => vote[r] \in Votes /\ vote[r] \in Accounts
           /\ identity[r] \in Accounts \cup {None} /\ got[r] \in Names
           /\ collected \subseteq Votes
           /\ vote = [vote EXCEPT ![r] = vote[r]]
           /\ identity = [identity EXCEPT ![r] = identity[r]]
           /\ got = [got EXCEPT ![r] = got[r]]
<1> USE DEF IInv, RequestTypes
<1>1. pc[r] \in Voting => vote[r] \in Votes /\ vote[r] \in Accounts
  BY DEF RequestInv, Accounts
<1>2. QED
  BY <1>1

LEMMA NodesKept == ASSUME IInv, UNCHANGED nodes PROVE NodesInv'
  BY DEF IInv, NodesInv

LEMMA HitStep ==
    ASSUME IInv, NEW r \in Requests, NEW v \in Votes, Hit(r, v)
    PROVE  IInv'
<1> USE DEF Hit, Goto
<1>1. CacheStep /\ NodesInv'
  BY CacheKept, NodesKept DEF repository
<1>2. cache[v].name \in Names
  BY NamesAreNames DEF IInv, CacheInv, EntryOf, Alive, Accounts
<1>3. Moves(r, "named", v, identity[r], cache[v].name)
  BY Here DEF Moves
<1>4. LocalStep(r)
  BY <1>2, <1>3, Here, MoveStep DEF Voting
<1>5. RenewsStill(r)
  BY <1>3 DEF RenewsStill, Renewing, Moves, IInv, RequestTypes
<1>6. QED
  BY <1>1, <1>4, <1>5, StepOfOne

(* The entry is not there any more when the lookup begins.                 *)
LEMMA MissStep ==
    ASSUME IInv, NEW r \in Requests, NEW v \in Votes, Miss(r, v)
    PROVE  IInv'
<1> USE DEF Miss, Goto
<1>1. v \in Accounts
  BY DEF Accounts
<1>2. CacheStep /\ NodesInv'
  BY <1>1, CachePurged, NodesKept
<1>3. Moves(r, "node", v, identity[r], got[r])
  BY Here DEF Moves
<1>4. LocalStep(r)
  BY <1>3, Here, MoveStep DEF Voting
<1>5. cache'[v] = None
  BY <1>1 DEF Purged, IInv, CacheInv
<1>6. RenewsStill(r)
  BY <1>3, <1>5 DEF RenewsStill, HasXirr, Moves, IInv, RequestTypes
<1>7. QED
  BY <1>2, <1>4, <1>6, StepOfOne

(* The identity is the node the endpoint tells, or the vote account.       *)
LEMMA IdentifyStep ==
    ASSUME IInv, NEW r \in Requests, pc[r] \in {"node", "ask"},
           Identify(r, NodeOf[vote[r]]) \/ Identify(r, NoNode),
           UNCHANGED <<cache, collected, served, vote, got, delay, page>>, NodesInv'
    PROVE  IInv'
<1>1. CacheStep
  BY CacheKept
<1>2. PICK node \in {NodeOf[vote[r]], NoNode} : Identify(r, node)
  OBVIOUS
<1> DEFINE place == IF node \in {NoNode, vote[r]} THEN "fetch" ELSE "identity"
           account == IF node # NoNode THEN node ELSE vote[r]
<1>3. vote[r] \in Votes /\ vote[r] \in Accounts
  BY Here DEF Voting
<1>4. node \notin {NoNode, vote[r]} => IsNodeOf(node, vote[r])
  BY <1>3, ValidatorRepositoryAssumption DEF IsNodeOf
<1>5. account \in Accounts
  BY <1>3, <1>4 DEF IsNodeOf, Accounts
<1>6. Moves(r, place, vote[r], account, got[r])
  BY <1>2, Here DEF Identify, Goto, Moves
<1>7. LocalStep(r)
  <2>1. place \in {"identity", "fetch"}
    OBVIOUS
  <2>2. place = "identity" => IsNodeOf(account, vote[r])
    BY <1>4
  <2>3. place = "fetch" => account = vote[r] \/ IsNodeOf(account, vote[r])
    BY <1>4
  <2>4. QED
    BY <1>3, <1>5, <1>6, <2>1, <2>2, <2>3, Here, MoveStep DEF Voting
<1>8. RenewsStill(r)
  BY DEF RenewsStill, Renewing
<1>9. QED
  BY <1>1, <1>7, <1>8, StepOfOne

LEMMA NodeSteps ==
    ASSUME IInv, NEW r \in Requests,
           NodeHit(r) \/ LookupNodePubkey(r) \/ LookupNodePubkeyFails(r)
    PROVE  IInv'
<1>1. vote[r] \in Votes
  BY Here DEF NodeHit, LookupNodePubkey, LookupNodePubkeyFails, Voting
<1>2. CASE NodeHit(r)
  <2>1. nodes[vote[r]].value = NodeOf[vote[r]]
    BY <1>1, <1>2 DEF NodeHit, Alive, IInv, NodesInv
  <2>2. QED
    BY <1>2, <2>1, IdentifyStep, NodesKept DEF NodeHit, repository
<1>3. CASE LookupNodePubkey(r)
  <2>1. NodeOf[vote[r]] \in Nodes \cup {NoNode} /\ Lifetime \in Left
    BY <1>1, ValidatorRepositoryAssumption, Bounds DEF Left
  <2>2. NodesInv'
    BY <1>1, <1>3, <2>1 DEF LookupNodePubkey, IInv, NodesInv
  <2>3. QED
    BY <1>3, <2>2, IdentifyStep DEF LookupNodePubkey
<1>4. CASE LookupNodePubkeyFails(r)
  BY <1>4, IdentifyStep, NodesKept DEF LookupNodePubkeyFails, repository
<1>5. QED
  BY <1>2, <1>3, <1>4

LEMMA NodeMissStep ==
    ASSUME IInv, NEW r \in Requests, NodeMiss(r)
    PROVE  IInv'
<1> USE DEF NodeMiss, Goto
<1>1. vote[r] \in Votes
  BY Here DEF Voting
<1>2. CacheStep
  BY CacheKept
<1>3. NodesInv'
  BY <1>1 DEF IInv, NodesInv, Purged
<1>4. Moves(r, "ask", vote[r], identity[r], got[r])
  BY Here DEF Moves
<1>5. LocalStep(r)
  BY <1>1, <1>4, Here, MoveStep DEF Voting
<1>6. RenewsStill(r)
  BY DEF RenewsStill, Renewing
<1>7. QED
  BY <1>2, <1>3, <1>5, <1>6, StepOfOne

(* The name of the node account is one of the vote account's names.        *)
LEMMA NodeNames ==
    ASSUME NEW v \in Votes, NEW a, IsNodeOf(a, v)
    PROVE  NamesFor(a) \subseteq OwnNames(v) /\ NameOf[a] \in NamesFor(a) /\ a \in Accounts
<1>1. a \in Nodes /\ NodeOf[v] = a /\ a \notin Votes /\ a \in Accounts
  BY DEF IsNodeOf, Accounts
<1>2. NamesFor(a) = {NameOf[a], NoName}
  BY <1>1 DEF NamesFor
<1>3. NameOf[a] \in OwnNames(v) /\ NoName \in OwnNames(v)
  BY <1>1 DEF OwnNames
<1>4. QED
  BY <1>1, <1>2, <1>3

LEMMA IdentitySteps ==
    ASSUME IInv, NEW r \in Requests, IdentityHit(r) \/ IdentityMiss(r)
    PROVE  IInv'
<1>1. vote[r] \in Votes /\ IsNodeOf(identity[r], vote[r]) /\ identity[r] \in Accounts
  BY Here, NodeNames DEF IdentityHit, IdentityMiss, Voting, IInv, RequestInv
<1>2. RenewsStill(r)
  BY DEF IdentityHit, IdentityMiss, RenewsStill, Renewing
<1>3. NodesInv'
  BY NodesKept DEF IdentityHit, IdentityMiss, repository
<1>4. CASE IdentityHit(r)
  <2> DEFINE name == cache[identity[r]].name
  <2>1. name \in NamesFor(identity[r])
    BY <1>1, <1>4 DEF IdentityHit, Alive, IInv, CacheInv, EntryOf
  <2>2. name \in OwnNames(vote[r]) /\ name \in Names
    BY <1>1, <2>1, NodeNames, NamesAreNames
  <2>3. Moves(r, "store", vote[r], None, name)
    BY <1>4, Here DEF IdentityHit, Forget, Goto, Moves
  <2>4. LocalStep(r)
    BY <1>1, <1>4, <2>2, <2>3, Here, MoveStep DEF IdentityHit, Voting
  <2>5. CacheStep
    BY <1>4, CacheKept DEF IdentityHit, repository
  <2>6. QED
    BY <1>2, <1>3, <2>4, <2>5, StepOfOne
<1>5. CASE IdentityMiss(r)
  <2>1. Moves(r, "fetch", vote[r], identity[r], got[r])
    BY <1>5, Here DEF IdentityMiss, Goto, Moves
  <2>2. LocalStep(r)
    BY <1>1, <1>5, <2>1, Here, MoveStep DEF IdentityMiss, Voting
  <2>3. CacheStep
    BY <1>1, <1>5, CachePurged DEF IdentityMiss
  <2>4. QED
    BY <1>2, <1>3, <2>2, <2>3, StepOfOne
<1>6. QED
  BY <1>4, <1>5

LEMMA FetchStep ==
    ASSUME IInv, NEW r \in Requests, FetchName(r)
    PROVE  IInv'
<1> DEFINE name == NameOf[identity[r]]
           place == IF identity[r] = vote[r] THEN "store" ELSE "store both"
<1>1. vote[r] \in Votes /\ vote[r] \in Accounts
      /\ (identity[r] = vote[r] \/ IsNodeOf(identity[r], vote[r]))
  BY Here DEF FetchName, Voting, IInv, RequestInv
<1>2. CacheStep /\ NodesInv'
  BY CacheKept, NodesKept DEF FetchName, repository
<1>3. name \in OwnNames(vote[r])
  BY <1>1, NodeNames DEF OwnNames
<1>4. name \in Names
  BY <1>1, <1>3, NamesAreNames
<1>5. Moves(r, place, vote[r], identity[r], name)
  BY Here DEF FetchName, Goto, Moves
<1>6. LocalStep(r)
  BY <1>1, <1>3, <1>4, <1>5, Here, MoveStep DEF FetchName, Voting
<1>7. RenewsStill(r)
  BY DEF FetchName, RenewsStill, Renewing
<1>8. QED
  BY <1>2, <1>6, <1>7, StepOfOne

LEMMA FetchFailsStep ==
    ASSUME IInv, NEW r \in Requests, FetchNameFails(r)
    PROVE  IInv'
<1>1. CacheStep /\ NodesInv'
  BY CacheKept, NodesKept DEF FetchNameFails, repository
<1>2. Moves(r, "named", vote[r], None, got[r])
  BY Here DEF FetchNameFails, Forget, Goto, Moves
<1>3. LocalStep(r)
  BY <1>2, Here, MoveStep DEF FetchNameFails, Voting
<1>4. RenewsStill(r)
  BY <1>2 DEF RenewsStill, Renewing, Moves, IInv, RequestTypes
<1>5. QED
  BY <1>1, <1>3, <1>4, StepOfOne

(* The name is stored under the vote account, next to an XIRR that was     *)
(* recorded while the lookup ran.                                          *)
LEMMA StoreStep ==
    ASSUME IInv, NEW r \in Requests, Store(r)
    PROVE  IInv'
<1>1. pc[r] \in Renewing /\ vote[r] \in Votes /\ vote[r] \in Accounts
  BY Here DEF Store, Renewing, Voting
<1>2. got[r] \in NamesFor(vote[r])
  BY <1>1 DEF Store, IInv, RequestInv, NamesFor
<1>3. HasXirr(cache, vote[r]) => cache[vote[r]].xirrAge <= 2 * MaxServe
  <2>1. SUFFICES ASSUME HasXirr(cache, vote[r])
                 PROVE  cache[vote[r]].xirrAge <= 2 * MaxServe
    OBVIOUS
  <2>2. cache[vote[r]].xirrAge <= served[r] + MaxServe
    BY <1>1, <2>1 DEF IInv, RenewalInv
  <2>3. served[r] \in 0..MaxServe
    BY DEF IInv, RequestTypes
  <2>4. cache[vote[r]].xirrAge \in 0..Oldest
    BY <1>1, <2>1 DEF IInv, CacheInv, EntryOf, Entries, HasXirr
  <2>5. QED
    BY <2>2, <2>3, <2>4, Bounds
<1>4. CacheStep
  BY <1>1, <1>2, <1>3, CacheStored DEF Store
<1>5. NodesInv'
  BY NodesKept DEF Store
<1>6. CASE pc[r] = "store"
  <2>1. Moves(r, "named", vote[r], None, got[r])
    BY <1>6, Here DEF Store, Forget, Goto, Moves
  <2>2. LocalStep(r)
    BY <1>1, <1>6, <2>1, Here, MoveStep DEF Store, Voting
  <2>3. RenewsStill(r)
    BY <2>1 DEF RenewsStill, Renewing, Moves, IInv, RequestTypes
  <2>4. QED
    BY <1>4, <1>5, <2>2, <2>3, StepOfOne
<1>7. CASE pc[r] = "store both"
  <2>1. Moves(r, "store identity", vote[r], identity[r], got[r])
    BY <1>7, Here DEF Store, Goto, Moves
  <2>2. IsNodeOf(identity[r], vote[r]) /\ got[r] = NameOf[identity[r]]
    BY <1>7 DEF IInv, RequestInv
  <2>3. LocalStep(r)
    BY <1>1, <1>7, <2>1, <2>2, Here, MoveStep DEF Store, Voting
  <2>4. RenewsStill(r)
    BY <2>1 DEF RenewsStill, Renewing, Moves, IInv, RequestTypes
  <2>5. QED
    BY <1>4, <1>5, <2>3, <2>4, StepOfOne
<1>8. QED
  BY <1>6, <1>7 DEF Store

(* And under the node account, which has no XIRR.                          *)
LEMMA StoreIdentityStep ==
    ASSUME IInv, NEW r \in Requests, StoreIdentity(r)
    PROVE  IInv'
<1>1. vote[r] \in Votes /\ IsNodeOf(identity[r], vote[r]) /\ got[r] = NameOf[identity[r]]
  BY Here DEF StoreIdentity, Voting, IInv, RequestInv
<1>2. identity[r] \in Accounts /\ got[r] \in NamesFor(identity[r])
  BY <1>1, NodeNames
<1>3. ~HasXirr(cache, identity[r])
  BY <1>1, <1>2 DEF IInv, CacheInv, EntryOf, HasXirr, IsNodeOf
<1>4. CacheStep
  BY <1>2, <1>3, CacheStored DEF StoreIdentity
<1>5. NodesInv'
  BY NodesKept DEF StoreIdentity
<1>6. Moves(r, "named", vote[r], None, got[r])
  BY Here DEF StoreIdentity, Forget, Goto, Moves
<1>7. LocalStep(r)
  BY <1>1, <1>6, Here, MoveStep DEF StoreIdentity, Voting
<1>8. RenewsStill(r)
  BY <1>6 DEF RenewsStill, Renewing, Moves, IInv, RequestTypes
<1>9. QED
  BY <1>4, <1>5, <1>7, <1>8, StepOfOne

----------------------------------------------------------------------------
(* The steps of a return that is recorded, and of the home page.           *)

LEMMA EndSteps ==
    ASSUME IInv, NEW r \in Requests, NoReturn(r) \/ Render(r)
    PROVE  IInv'
<1>1. CacheStep /\ NodesInv'
  BY CacheKept, NodesKept DEF NoReturn, Render, repository
<1>2. Done(r) /\ collected' \subseteq Votes
  BY Here DEF NoReturn, Render, Voting
<1>3. QED
  BY <1>1, <1>2, DoneStep, StepOfOne

LEMMA ReadClockSteps ==
    ASSUME IInv, NEW r \in Requests,
           NEW v \in Votes, ReadClockCached(r, v) \/ ReadClock(r)
    PROVE  IInv'
<1>1. CacheStep /\ NodesInv'
  BY CacheKept, NodesKept DEF ReadClockCached, ReadClock, repository
<1>2. NoName \in Names
  BY DEF Names
<1>3. LocalStep(r) /\ pc'[r] = "record"
  <2>1. CASE ReadClockCached(r, v)
    <3>1. Moves(r, "record", v, identity[r], got[r])
      BY <2>1, Here DEF ReadClockCached, Goto, Moves
    <3>2. LocalStep(r)
      BY <2>1, <3>1, Here, MoveStep DEF ReadClockCached, Voting
    <3>3. QED
      BY <3>1, <3>2 DEF Moves, IInv, RequestTypes
  <2>2. CASE ReadClock(r)
    <3>1. Moves(r, "record", vote[r], identity[r], NoName)
      BY <2>2, Here DEF ReadClock, Goto, Moves
    <3>2. vote[r] \in Votes /\ collected' \subseteq Votes
      BY <2>2, Here DEF ReadClock, Voting
    <3>3. LocalStep(r)
      BY <1>2, <2>2, <3>1, <3>2, Here, MoveStep DEF ReadClock, Voting
    <3>4. QED
      BY <3>1, <3>3 DEF Moves, IInv, RequestTypes
  <2>3. QED
    BY <2>1, <2>2
<1>4. RenewsStill(r)
  BY <1>3 DEF RenewsStill, Renewing
<1>5. QED
  BY <1>1, <1>3, <1>4, StepOfOne

LEMMA RecordStep ==
    ASSUME IInv, NEW r \in Requests, RecordXIRR(r)
    PROVE  IInv'
<1>1. vote[r] \in Votes /\ delay[r] \in 0..MaxServe
  BY Here DEF RecordXIRR, Voting, IInv, RequestTypes
<1>2. CacheStep
  BY <1>1, CacheRecorded DEF RecordXIRR
<1>3. NodesInv'
  BY NodesKept DEF RecordXIRR
<1>4. collected' \subseteq Votes
  BY DEF RecordXIRR, IInv, RequestTypes
<1>5. QED
  BY <1>2, <1>3, <1>4, DoneStep, StepOfOne DEF RecordXIRR

LEMMA HomeStep ==
    ASSUME IInv, NEW r \in Requests, Home(r)
    PROVE  IInv'
<1> USE DEF Home, Goto
<1>1. CacheStep /\ NodesInv'
  BY CacheKept, NodesKept DEF repository
<1>2. RequestTypes' /\ Elsewhere(r) /\ pc'[r] = "recent"
  BY DEF IInv, RequestTypes, Elsewhere
<1>3. RequestInv(r)'
  BY <1>2 DEF IInv, RequestInv, Voting
<1>4. RenewsStill(r)
  BY <1>2 DEF RenewsStill, Renewing
<1>5. QED
  BY <1>1, <1>2, <1>3, <1>4, StepOfOne DEF LocalStep

(* The rows of the page are those of entries that were alive when the      *)
(* clock was read.                                                         *)
LEMMA RecentStep ==
    ASSUME IInv, NEW r \in Requests, RecentValidators(r)
    PROVE  IInv'
<1> DEFINE dead == {a \in Accounts : HasXirr(cache, a) /\ cache[a].left + delay[r] <= 0}
           alive == {a \in Accounts : HasXirr(cache, a)} \ dead
           row(a) == [vote |-> a, age |-> cache[a].xirrAge]
<1>1. /\ pc[r] = "recent"
      /\ cache' = [a \in Accounts |-> IF a \in dead THEN None ELSE cache[a]]
      /\ pc' = [pc EXCEPT ![r] = "page"]
      /\ UNCHANGED <<nodes, collected, served, vote, identity, got, delay>>
  BY DEF RecentValidators, Goto
<1>2. PICK top \in SUBSET alive : page' = [page EXCEPT ![r] = {row(a) : a \in top}]
  BY DEF RecentValidators, kSubset
<1>3. CacheStep
  <2>1. \A a \in Accounts : cache'[a] = cache[a] \/ cache'[a] = None
    BY <1>1
  <2>2. cache' = [a \in Accounts |-> cache'[a]]
    BY <1>1
  <2>3. QED
    BY <2>1, <2>2, NoEntry DEF IInv, CacheInv, CacheStep, XirrsKept, HasXirr
<1>4. NodesInv'
  BY <1>1, NodesKept
<1>5. served[r] \in 0..MaxServe /\ delay[r] \in 0..MaxServe /\ delay[r] <= served[r]
  BY DEF IInv, RequestTypes, RequestInv
<1>6. ASSUME NEW a \in top
      PROVE  /\ row(a) \in [vote : Accounts, age : 0..Oldest]
             /\ row(a).age <= TTL + 2 * MaxServe + served[r]
  <2>1. a \in Accounts /\ HasXirr(cache, a) /\ ~(cache[a].left + delay[r] <= 0)
    OBVIOUS
  <2>2. /\ cache[a].xirrAge \in 0..Oldest /\ cache[a].left \in Left
        /\ cache[a].xirrAge + cache[a].left <= Lifetime + 2 * MaxServe
    BY <2>1 DEF IInv, CacheInv, EntryOf, Entries, HasXirr
  <2>3. cache[a].xirrAge <= TTL + 2 * MaxServe + served[r]
    BY <1>5, <2>1, <2>2, Bounds DEF Left
  <2>4. QED
    BY <2>1, <2>2, <2>3
<1>7. RequestTypes'
  <2>1. {row(a) : a \in top} \in SUBSET [vote : Accounts, age : 0..Oldest]
    BY <1>6
  <2>2. page' \in [Requests -> SUBSET [vote : Accounts, age : 0..Oldest]]
    BY <1>2, <2>1 DEF IInv, RequestTypes
  <2>3. QED
    BY <1>1, <2>2 DEF IInv, RequestTypes
<1>8. Elsewhere(r)
  BY <1>1, <1>2 DEF Elsewhere, IInv, RequestTypes
<1>9. pc'[r] = "page" /\ page'[r] = {row(a) : a \in top}
  BY <1>1, <1>2 DEF IInv, RequestTypes
<1>10. RequestInv(r)'
  BY <1>1, <1>5, <1>6, <1>9 DEF RequestInv, Voting
<1>11. RenewsStill(r)
  BY <1>9 DEF RenewsStill, Renewing
<1>12. QED
  BY <1>3, <1>4, <1>7, <1>8, <1>10, <1>11, StepOfOne DEF LocalStep

----------------------------------------------------------------------------
(* Time.                                                                   *)

LEMMA CacheTicks ==
    ASSUME IInv, Tick
    PROVE  CacheInv'
<1>1. cache' = [a \in Accounts |->
          IF cache[a] = None THEN None
          ELSE [cache[a] EXCEPT !.left = Less(@), !.xirrAge = Older(@)]]
  BY DEF Tick
<1>2. ASSUME NEW a \in Accounts
      PROVE  EntryOf(a, cache'[a])
  <2>1. CASE cache[a] = None
    BY <1>1, <2>1, NoEntry
  <2>2. CASE cache[a] # None
    BY <1>1, <2>2, EntryAges DEF IInv, CacheInv
  <2>3. QED
    BY <2>1, <2>2
<1>3. cache' = [a \in Accounts |-> cache'[a]]
  BY <1>1
<1>4. QED
  BY <1>2, <1>3 DEF CacheInv

LEMMA NodesTick ==
    ASSUME IInv, Tick
    PROVE  NodesInv'
<1>1. nodes' = [v \in Votes |->
          IF Alive(nodes[v]) THEN [nodes[v] EXCEPT !.left = @ - 1] ELSE nodes[v]]
  BY DEF Tick
<1>2. ASSUME NEW v \in Votes
      PROVE  /\ nodes'[v] \in [value : Nodes \cup {NoNode}, left : Left] \cup {None}
             /\ nodes'[v] # None => nodes'[v].value = NodeOf[v]
  <2>1. nodes[v] \in [value : Nodes \cup {NoNode}, left : Left] \cup {None}
        /\ (nodes[v] # None => nodes[v].value = NodeOf[v])
    BY DEF IInv, NodesInv
  <2>2. CASE Alive(nodes[v])
    <3>1. nodes[v] \in [value : Nodes \cup {NoNode}, left : Left] /\ nodes[v].left > 0
          /\ nodes[v].value = NodeOf[v]
      BY <2>1, <2>2 DEF Alive
    <3>2. nodes[v].left - 1 \in Left
      BY <3>1, Bounds DEF Left
    <3>3. nodes'[v] = [nodes[v] EXCEPT !.left = @ - 1]
      BY <1>1, <2>2
    <3>4. QED
      BY <3>1, <3>2, <3>3
  <2>3. CASE ~Alive(nodes[v])
    BY <1>1, <2>1, <2>3
  <2>4. QED
    BY <2>2, <2>3
<1>3. QED
  BY <1>1, <1>2 DEF NodesInv

(* No request is older than MaxServe, and the clock it read no older than  *)
(* the request.                                                            *)
LEMMA RequestsTick ==
    ASSUME IInv, Tick
    PROVE  RequestTypes' /\ \A r \in Requests : RequestInv(r)'
<1>1. /\ served' = [r \in Requests |-> IF pc[r] = "idle" THEN 0 ELSE served[r] + 1]
      /\ delay' = [r \in Requests |->
            IF pc[r] \in {"record", "recent"} THEN delay[r] + 1 ELSE delay[r]]
      /\ page' = [r \in Requests |-> {[row EXCEPT !.age = Older(@)] : row \in page[r]}]
      /\ UNCHANGED <<collected, pc, vote, identity, got>>
  BY DEF Tick
<1>2. ASSUME NEW r \in Requests
      PROVE  /\ served'[r] \in 0..MaxServe /\ delay'[r] \in 0..MaxServe
             /\ delay'[r] <= served'[r]
             /\ pc[r] = "idle" => served'[r] = 0
             /\ pc[r] # "idle" => served'[r] = served[r] + 1
  <2>1. /\ served[r] \in 0..MaxServe /\ delay[r] \in 0..MaxServe
        /\ delay[r] <= served[r] /\ (pc[r] = "idle" => served[r] = 0)
    BY DEF IInv, RequestTypes, RequestInv
  <2>2. pc[r] # "idle" => served[r] < MaxServe
    BY DEF Tick
  <2>3. QED
    BY <1>1, <2>1, <2>2, Bounds
<1>3. ASSUME NEW r \in Requests, NEW new \in page'[r]
      PROVE  /\ new \in [vote : Accounts, age : 0..Oldest]
             /\ new.age <= TTL + 2 * MaxServe + served'[r]
  <2>1. PICK row \in page[r] : new = [row EXCEPT !.age = Older(@)]
    BY <1>1
  <2>2. row \in [vote : Accounts, age : 0..Oldest]
        /\ row.age <= TTL + 2 * MaxServe + served[r]
    BY DEF IInv, RequestTypes, RequestInv
  <2>3. pc[r] # "idle"
    BY <2>1 DEF IInv, RequestInv
  <2>4. Older(row.age) \in 0..Oldest /\ Older(row.age) <= row.age + 1
    BY <2>2, Bounds DEF Older
  <2>5. new.age = Older(row.age) /\ new \in [vote : Accounts, age : 0..Oldest]
    BY <2>1, <2>2, <2>4
  <2>6. served[r] \in 0..MaxServe /\ served'[r] = served[r] + 1
    BY <1>2, <2>3 DEF IInv, RequestTypes
  <2>7. QED
    BY <2>2, <2>4, <2>5, <2>6, Bounds
<1>4. RequestTypes'
  <2>1. page' \in [Requests -> SUBSET [vote : Accounts, age : 0..Oldest]]
    BY <1>1, <1>3
  <2>2. served' \in [Requests -> 0..MaxServe] /\ delay' \in [Requests -> 0..MaxServe]
    BY <1>1, <1>2
  <2>3. QED
    BY <1>1, <2>1, <2>2 DEF IInv, RequestTypes
<1>5. ASSUME NEW r \in Requests
      PROVE  RequestInv(r)'
  <2>1. pc'[r] # "page" => page'[r] = {}
    BY <1>1 DEF IInv, RequestInv
  <2>2. QED
    BY <1>1, <1>2, <1>3, <2>1 DEF IInv, RequestInv
<1>6. QED
  BY <1>4, <1>5

LEMMA RenewalTicks ==
    ASSUME IInv, Tick, NEW r \in Requests
    PROVE  RenewalInv(r)'
<1>1. SUFFICES ASSUME pc'[r] \in Renewing, HasXirr(cache', vote'[r])
               PROVE  cache'[vote'[r]].xirrAge <= served'[r] + MaxServe
  BY DEF RenewalInv
<1>2. pc[r] \in Renewing /\ vote'[r] = vote[r]
  BY <1>1 DEF Tick
<1>3. vote[r] \in Accounts /\ served[r] \in 0..MaxServe /\ served'[r] = served[r] + 1
  BY <1>2 DEF Tick, IInv, RequestTypes, RequestInv, Renewing, Voting, Accounts
<1> DEFINE entry == cache[vote[r]]
<1>4. entry # None /\ cache'[vote[r]] = [entry EXCEPT !.left = Less(@), !.xirrAge = Older(@)]
  BY <1>1, <1>2, <1>3 DEF Tick, HasXirr
<1>5. entry \in Entries
  BY <1>3, <1>4 DEF IInv, CacheInv, EntryOf
<1>6. cache'[vote[r]].xirrAge = Older(entry.xirrAge)
  BY <1>4, <1>5 DEF Entries
<1>7. entry.xirrAge # None
  BY <1>1, <1>2, <1>6 DEF HasXirr, Older
<1>8. entry.xirrAge <= served[r] + MaxServe
  BY <1>2, <1>4, <1>7 DEF IInv, RenewalInv, HasXirr
<1>9. entry.xirrAge \in 0..Oldest
  BY <1>5, <1>7 DEF Entries
<1>10. Older(entry.xirrAge) <= entry.xirrAge + 1
  BY <1>9, Bounds DEF Older
<1>11. QED
  BY <1>2, <1>3, <1>6, <1>8, <1>9, <1>10, Bounds DEF Older

LEMMA TickStep ==
    ASSUME IInv, Tick
    PROVE  IInv'
  BY CacheTicks, NodesTick, RequestsTick, RenewalTicks DEF IInv

----------------------------------------------------------------------------
LEMMA Inductive == IInv /\ [Next]_vars => IInv'
<1> SUFFICES ASSUME IInv, [Next]_vars
             PROVE  IInv'
  OBVIOUS
<1>1. CASE Tick
  BY <1>1, TickStep
<1>2. ASSUME NEW r \in Requests, NEW v \in Votes,
             Hit(r, v) \/ Miss(r, v) \/ ReadClockCached(r, v)
      PROVE  IInv'
  BY <1>2, HitStep, MissStep, ReadClockSteps
<1>3. ASSUME NEW r \in Requests,
             \/ NodeHit(r) \/ NodeMiss(r) \/ LookupNodePubkey(r) \/ LookupNodePubkeyFails(r)
             \/ IdentityHit(r) \/ IdentityMiss(r)
      PROVE  IInv'
  BY <1>3, NodeSteps, NodeMissStep, IdentitySteps
<1>4. ASSUME NEW r \in Requests,
             FetchName(r) \/ FetchNameFails(r) \/ Store(r) \/ StoreIdentity(r)
      PROVE  IInv'
  BY <1>4, FetchStep, FetchFailsStep, StoreStep, StoreIdentityStep
<1>5. ASSUME NEW r \in Requests, ReadClock(r)
      PROVE  IInv'
  <2>1. vote[r] \in Votes
    BY <1>5, Here DEF ReadClock, Voting
  <2>2. QED
    BY <1>5, <2>1, ReadClockSteps
<1>6. ASSUME NEW r \in Requests,
             NoReturn(r) \/ RecordXIRR(r) \/ Home(r) \/ RecentValidators(r) \/ Render(r)
      PROVE  IInv'
  BY <1>6, EndSteps, RecordStep, HomeStep, RecentStep
<1>7. CASE UNCHANGED vars
  BY <1>7 DEF vars, repository, IInv, CacheInv, NodesInv, RequestTypes, RequestInv, RenewalInv,
              HasXirr
<1>8. QED
  BY <1>1, <1>2, <1>3, <1>4, <1>5, <1>6, <1>7 DEF Next

LEMMA Invariance == Spec => []IInv
  BY Initial, Inductive, PTL DEF Spec

----------------------------------------------------------------------------
(* The theorems.                                                           *)

(* Every variable keeps to its values: an identity is an account.          *)
THEOREM TypeCorrect == Spec => []TypeOK
<1>1. IInv => TypeOK
  BY DEF IInv, CacheInv, EntryOf, NodesInv, RequestTypes, TypeOK
<1>2. QED
  BY <1>1, Invariance, PTL

(* No validator is shown under another one's name, whatever lookups        *)
(* overlap (LookupName, store, recordXIRR).                                *)
THEOREM NamesStayApart == Spec => []NamesNotMixed
<1>1. ASSUME IInv, NEW a \in Accounts, cache[a] # None
      PROVE  cache[a].name \in OwnNames(a)
  <2>1. cache[a].name \in NamesFor(a)
    BY <1>1 DEF IInv, CacheInv, EntryOf
  <2>2. NamesFor(a) \subseteq OwnNames(a)
    BY DEF NamesFor, OwnNames
  <2>3. QED
    BY <2>1, <2>2
<1>2. IInv => NamesNotMixed
  BY <1>1 DEF NamesNotMixed
<1>3. QED
  BY <1>2, Invariance, PTL

(* The home page shows no XIRR that is older than its TTL and the delays   *)
(* of three requests (recordXIRR, store, recentValidators).                *)
THEOREM PagesFresh == Spec => []PerformanceFresh
<1>1. ASSUME IInv, NEW r \in Requests, NEW row \in page[r]
      PROVE  row.age <= TTL + 3 * MaxServe
  <2>1. served[r] \in 0..MaxServe /\ page[r] \subseteq [vote : Accounts, age : 0..Oldest]
    BY <1>1 DEF IInv, RequestTypes
  <2>2. row.age \in 0..Oldest
    BY <2>1
  <2>3. row.age <= TTL + 2 * MaxServe + served[r]
    BY <1>1 DEF IInv, RequestInv
  <2>4. QED
    BY <2>1, <2>2, <2>3, Bounds
<1>2. IInv => PerformanceFresh
  BY <1>1 DEF PerformanceFresh
<1>3. QED
  BY <1>2, Invariance, PTL

(* A recorded XIRR is there for its TTL: what deletes an entry finds it    *)
(* expired, and an entry does not expire before its XIRR does.             *)
THEOREM RecordsSurvive == Spec => RecordSurvives
<1>1. ASSUME IInv, [Next]_vars, NEW a \in Accounts,
             HasXirr(cache, a), cache[a].xirrAge <= TTL
      PROVE  HasXirr(cache', a)
  <2>1. /\ cache[a] \in Entries /\ cache[a].xirrAge \in 0..Oldest /\ cache[a].left \in Left
        /\ Lifetime <= cache[a].xirrAge + cache[a].left
    BY <1>1 DEF IInv, CacheInv, EntryOf, Entries, HasXirr
  <2>2. cache[a].left > 0
    BY <1>1, <2>1, Bounds DEF Left
  <2>3. Alive(cache[a])
    BY <1>1, <2>2 DEF Alive, HasXirr
  <2>4. ASSUME NEW key \in Accounts, cache' = Purged(cache, key)
        PROVE  HasXirr(cache', a)
    BY <1>1, <2>3, <2>4 DEF Purged, HasXirr, IInv, CacheInv
  <2>5. ASSUME NEW key \in Accounts, NEW name \in Names, cache' = Stored(key, name)
        PROVE  HasXirr(cache', a)
    <3>1. CASE key = a
      <4>1. cache'[a] = [name |-> name, xirrAge |-> cache[a].xirrAge, left |-> Lifetime]
        BY <1>1, <2>5, <3>1 DEF Stored, IInv, CacheInv
      <4>2. Lifetime \in Left
        BY Bounds DEF Left
      <4>3. cache'[a] \in Entries /\ cache'[a].xirrAge = cache[a].xirrAge
        BY <2>1, <4>1, <4>2 DEF Entries
      <4>4. QED
        BY <1>1, <4>3, NoneIsNoEntry DEF HasXirr
    <3>2. CASE key # a
      BY <1>1, <2>5, <3>2 DEF Stored, HasXirr, IInv, CacheInv
    <3>3. QED
      BY <3>1, <3>2
  <2>6. ASSUME NEW r \in Requests, RecordXIRR(r)
        PROVE  HasXirr(cache', a)
    <3>1. delay[r] \in 0..MaxServe
      BY <1>1 DEF IInv, RequestTypes
    <3>2. cache' = Recorded(vote[r], delay[r])
      BY <2>6 DEF RecordXIRR
    <3>3. CASE vote[r] = a
      <4>1. cache'[a] = [name |-> IF cache[a] = None \/ cache[a].name = NoName
                                  THEN a ELSE cache[a].name,
                         xirrAge |-> delay[r], left |-> Lifetime - delay[r]]
        BY <1>1, <3>2, <3>3 DEF Recorded, IInv, CacheInv
      <4>2. delay[r] \in 0..Oldest /\ Lifetime - delay[r] \in Left
        BY <3>1, Bounds DEF Left
      <4>3. a \in Names /\ cache[a].name \in Names
        BY <2>1 DEF Entries, Names
      <4>4. cache'[a] \in Entries /\ cache'[a].xirrAge = delay[r]
        BY <4>1, <4>2, <4>3 DEF Entries
      <4>5. QED
        BY <3>1, <4>4, NoneIsNoEntry, Bounds DEF HasXirr
    <3>4. CASE vote[r] # a
      BY <1>1, <3>2, <3>4 DEF Recorded, HasXirr, IInv, CacheInv
    <3>5. QED
      BY <3>3, <3>4
  <2>7. ASSUME NEW r \in Requests, RecentValidators(r)
        PROVE  HasXirr(cache', a)
    <3>1. delay[r] \in 0..MaxServe
      BY <1>1 DEF IInv, RequestTypes
    <3>2. ~(cache[a].left + delay[r] <= 0)
      BY <2>1, <2>2, <3>1, Bounds DEF Left
    <3>3. cache'[a] = cache[a]
      BY <2>7, <3>2 DEF RecentValidators
    <3>4. QED
      BY <1>1, <3>3 DEF HasXirr
  <2>8. CASE Tick
    <3>1. cache'[a] = [cache[a] EXCEPT !.left = Less(@), !.xirrAge = Older(@)]
      BY <1>1, <2>8 DEF Tick, HasXirr
    <3>2. cache'[a].xirrAge = Older(cache[a].xirrAge)
      BY <2>1, <3>1 DEF Entries
    <3>3. Older(cache[a].xirrAge) \in Nat
      BY <2>1, Bounds DEF Older
    <3>4. Older(cache[a].xirrAge) \in 0..Oldest /\ Less(cache[a].left) \in Left
      BY <2>1, Bounds DEF Older, Less, Left
    <3>5. cache'[a] \in Entries
      BY <2>1, <3>1, <3>4 DEF Entries
    <3>6. QED
      BY <3>2, <3>3, <3>5, NoneIsNoEntry, Bounds DEF HasXirr
  <2>9. CASE UNCHANGED cache
    BY <1>1, <2>9 DEF HasXirr
  <2>10. ASSUME NEW r \in Requests, Store(r) \/ StoreIdentity(r) \/ IdentityMiss(r)
         PROVE  HasXirr(cache', a)
    <3>1. vote[r] \in Accounts /\ got[r] \in Names
      BY <1>1, <2>10, Here DEF Store, StoreIdentity, IdentityMiss, Voting
    <3>2. pc[r] \in {"store identity", "identity"} => identity[r] \in Accounts
      BY <1>1 DEF IInv, RequestInv, IsNodeOf, Accounts
    <3>3. QED
      BY <2>4, <2>5, <2>10, <3>1, <3>2 DEF Store, StoreIdentity, IdentityMiss
  <2>11. ASSUME NEW r \in Requests, NEW v \in Votes, Miss(r, v)
         PROVE  HasXirr(cache', a)
    BY <2>4, <2>11 DEF Miss, Accounts
  <2>12. ASSUME NEW r \in Requests, NEW v \in Votes, Hit(r, v) \/ ReadClockCached(r, v)
         PROVE  UNCHANGED cache
    BY <2>12 DEF Hit, ReadClockCached, repository
  <2>13. ASSUME NEW r \in Requests,
                \/ NodeHit(r) \/ NodeMiss(r) \/ LookupNodePubkey(r)
                \/ LookupNodePubkeyFails(r) \/ IdentityHit(r) \/ FetchName(r)
                \/ FetchNameFails(r) \/ NoReturn(r) \/ ReadClock(r) \/ Home(r) \/ Render(r)
         PROVE  UNCHANGED cache
    BY <2>13 DEF NodeHit, NodeMiss, LookupNodePubkey, LookupNodePubkeyFails, IdentityHit,
                 FetchName, FetchNameFails, NoReturn, ReadClock, Home, Render, repository
  <2>14. CASE UNCHANGED vars
    BY <2>9, <2>14 DEF vars, repository
  <2>15. QED
    BY <1>1, <2>6, <2>7, <2>8, <2>9, <2>10, <2>11, <2>12, <2>13, <2>14 DEF Next
<1>2. IInv /\ [Next]_vars
        => \A a \in Accounts :
              HasXirr(cache, a) /\ cache[a].xirrAge <= TTL => HasXirr(cache', a)
  BY <1>1
<1>3. QED
  BY <1>2, Invariance, PTL DEF Spec, RecordSurvives
=============================================================================
