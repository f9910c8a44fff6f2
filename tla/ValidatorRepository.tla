------------------------ MODULE ValidatorRepository ------------------------
(***************************************************************************)
(* validatorRepository (solana_client.go): one map from accounts to the    *)
(* name and the XIRR of a validator, with one expiry for both.  Names come *)
(* from an API, under the validator's node account when the RPC endpoint   *)
(* tells it; XIRRs come from the wallet pages (server.go).  The repository *)
(* locks its mutex for each access to a map and not across them: each      *)
(* access is a step of its own.                                            *)
(*                                                                         *)
(* A request is a visit of a wallet page with rewards of one validator, or *)
(* of the home page; it begins with its first use of the repository.  A    *)
(* page with several validators does to the repository what several        *)
(* requests do.                                                            *)
(*                                                                         *)
(* Time is relative: an entry counts down the ticks it has left (it is     *)
(* expired at 0; below that nothing but the delay of a home page counts),  *)
(* an XIRR and a request count up.                                         *)
(***************************************************************************)
EXTENDS Integers, FiniteSets, FiniteSetsExt

CONSTANTS Requests,   \* goroutines that serve pages
          Votes,      \* vote accounts of validators
          Nodes,      \* node accounts of validators
          NodeOf,     \* what getVoteAccounts tells: a node or NoNode, per vote
          NameOf,     \* the name the API answers, per account; NoName for a 404
          NoNode,     \* the endpoint does not know the vote account
          NoName,     \* the empty name
          None,       \* no entry in a map
          TTL,        \* validatorCacheTTL, in ticks
          MaxServe,   \* bound: a page is served within so many ticks
          Limit       \* rows of the home page

Accounts == Votes \cup Nodes

(* No validator's node account is another one's vote account: the chain    *)
(* keeps the two kinds of account apart.                                   *)
ASSUME ValidatorRepositoryAssumption ==
    /\ NodeOf \in [Votes -> Nodes \cup {NoNode}]
    /\ \A v, w \in Votes : NodeOf[v] = w => w = v
    /\ DOMAIN NameOf = Accounts
    /\ None \notin Nat
    /\ TTL \in Nat /\ MaxServe \in Nat /\ Limit \in Nat \ {0}

VARIABLES cache,      \* r.cache
          nodes,      \* r.nodeCache
          collected,  \* vote accounts in lists of rewards the wallet cache may hold
          pc,         \* where each request is
          served,     \* ticks since the request served
          vote,       \* accountID, the vote account of the rewards
          identity,   \* LookupName's identity
          got,        \* the name found
          delay,      \* ticks since the clock was read (now of recordXIRR, recentValidators)
          page        \* the rows of the home page

repository == <<cache, nodes>>
vars == <<repository, collected, pc, served, vote, identity, got, delay, page>>

Init ==
    /\ cache = [a \in Accounts |-> None]
    /\ nodes = [v \in Votes |-> None]
    /\ collected = {}
    /\ pc = [r \in Requests |-> "idle"]
    /\ served = [r \in Requests |-> 0]
    /\ vote = [r \in Requests |-> None]
    /\ identity = [r \in Requests |-> None]
    /\ got = [r \in Requests |-> NoName]
    /\ delay = [r \in Requests |-> 0]
    /\ page = [r \in Requests |-> {}]

Goto(r, label) == pc' = [pc EXCEPT ![r] = label]

(* A local that is not read again is cleared. *)
Forget(r) == identity' = [identity EXCEPT ![r] = None]

(* A request that ends leaves no locals behind. *)
Done(r) ==
    /\ Goto(r, "idle")
    /\ served' = [served EXCEPT ![r] = 0]
    /\ vote' = [vote EXCEPT ![r] = None]
    /\ identity' = [identity EXCEPT ![r] = None]
    /\ got' = [got EXCEPT ![r] = NoName]
    /\ delay' = [delay EXCEPT ![r] = 0]
    /\ page' = [page EXCEPT ![r] = {}]

Lifetime == TTL + 1

Alive(entry) == entry # None /\ entry.left > 0

(* An access deletes the entry it finds expired. *)
Purged(map, key) == IF Alive(map[key]) THEN map ELSE [map EXCEPT ![key] = None]

----------------------------------------------------------------------------
(* LookupName, for rewards that were just collected                        *)
(* (decorateRewardValidators).                                             *)

(* cached, for the vote account. *)
Hit(r, v) ==
    /\ pc[r] = "idle"
    /\ Alive(cache[v])
    /\ vote' = [vote EXCEPT ![r] = v]
    /\ got' = [got EXCEPT ![r] = cache[v].name]
    /\ Goto(r, "named")
    /\ UNCHANGED <<repository, collected, served, identity, delay, page>>

(* Mutation of Miss: the expired entry stays.                              *)
MissKeepingExpired(r, v) ==
    /\ pc[r] = "idle"
    /\ ~Alive(cache[v])
    /\ vote' = [vote EXCEPT ![r] = v]
    /\ Goto(r, "node")
    /\ UNCHANGED <<repository, collected, served, identity, got, delay, page>>

Miss(r, v) ==
    /\ pc[r] = "idle"
    /\ ~Alive(cache[v])
    /\ cache' = Purged(cache, v)
    /\ vote' = [vote EXCEPT ![r] = v]
    /\ Goto(r, "node")
    /\ UNCHANGED <<nodes, collected, served, identity, got, delay, page>>

(* Mutations of Identify: an empty node is taken; identity is a field of   *)
(* the repository.                                                         *)
IdentifyEmpty(r, node) ==
    /\ identity' = [identity EXCEPT ![r] = node]
    /\ Goto(r, IF node = vote[r] THEN "fetch" ELSE "identity")

IdentifyShared(r, node) ==
    /\ identity' = [q \in Requests |-> IF node # NoNode THEN node ELSE vote[r]]
    /\ Goto(r, IF node \in {NoNode, vote[r]} THEN "fetch" ELSE "identity")

(* The node is the identity unless it is empty or the vote account. *)
Identify(r, node) ==
    /\ identity' = [identity EXCEPT ![r] = IF node # NoNode THEN node ELSE vote[r]]
    /\ Goto(r, IF node \in {NoNode, vote[r]} THEN "fetch" ELSE "identity")

NodeHit(r) ==
    /\ pc[r] = "node"
    /\ Alive(nodes[vote[r]])
    /\ Identify(r, nodes[vote[r]].value)
    /\ UNCHANGED <<repository, collected, served, vote, got, delay, page>>

NodeMiss(r) ==
    /\ pc[r] = "node"
    /\ ~Alive(nodes[vote[r]])
    /\ nodes' = Purged(nodes, vote[r])
    /\ Goto(r, "ask")
    /\ UNCHANGED <<cache, collected, served, vote, identity, got, delay, page>>

(* GetVoteAccounts answers, an empty list included, and storeNode. *)
LookupNodePubkey(r) ==
    /\ pc[r] = "ask"
    /\ nodes' = [nodes EXCEPT ![vote[r]] =
                    [value |-> NodeOf[vote[r]], left |-> Lifetime]]
    /\ Identify(r, NodeOf[vote[r]])
    /\ UNCHANGED <<cache, collected, served, vote, got, delay, page>>

(* An error is logged, and the vote account stands in for the node. *)
LookupNodePubkeyFails(r) ==
    /\ pc[r] = "ask"
    /\ Identify(r, NoNode)
    /\ UNCHANGED <<repository, collected, served, vote, got, delay, page>>

(* cached, for the node account. *)
IdentityHit(r) ==
    /\ pc[r] = "identity"
    /\ Alive(cache[identity[r]])
    /\ got' = [got EXCEPT ![r] = cache[identity[r]].name]
    /\ Forget(r)
    /\ Goto(r, "store")
    /\ UNCHANGED <<repository, collected, served, vote, delay, page>>

IdentityMiss(r) ==
    /\ pc[r] = "identity"
    /\ ~Alive(cache[identity[r]])
    /\ cache' = Purged(cache, identity[r])
    /\ Goto(r, "fetch")
    /\ UNCHANGED <<nodes, collected, served, vote, identity, got, delay, page>>

(* The API answers; an account it does not know has the empty name. *)
FetchName(r) ==
    /\ pc[r] = "fetch"
    /\ got' = [got EXCEPT ![r] = NameOf[identity[r]]]
    /\ Goto(r, IF identity[r] = vote[r] THEN "store" ELSE "store both")
    /\ UNCHANGED <<repository, collected, served, vote, identity, delay, page>>

(* The error is logged by decorateRewardValidators, the name stays empty. *)
FetchNameFails(r) ==
    /\ pc[r] = "fetch"
    /\ Forget(r)
    /\ Goto(r, "named")
    /\ UNCHANGED <<repository, collected, served, vote, got, delay, page>>

HasXirr(map, a) == map[a] # None /\ map[a].xirrAge # None

(* Mutation of Stored: the entry is a new one.                             *)
StoredAnew(a, name) ==
    [cache EXCEPT ![a] = [name |-> name, xirrAge |-> None, left |-> Lifetime]]

(* store: the name changes and the entry lives on, an XIRR in it included. *)
Stored(a, name) ==
    [cache EXCEPT ![a] =
        [name |-> name,
         xirrAge |-> IF HasXirr(cache, a) THEN cache[a].xirrAge ELSE None,
         left |-> Lifetime]]

Store(r) ==
    /\ pc[r] \in {"store", "store both"}
    /\ cache' = Stored(vote[r], got[r])
    /\ IF pc[r] = "store" THEN Forget(r) /\ Goto(r, "named")
                           ELSE UNCHANGED identity /\ Goto(r, "store identity")
    /\ UNCHANGED <<nodes, collected, served, vote, got, delay, page>>

StoreIdentity(r) ==
    /\ pc[r] = "store identity"
    /\ cache' = Stored(identity[r], got[r])
    /\ Forget(r)
    /\ Goto(r, "named")
    /\ UNCHANGED <<nodes, collected, served, vote, got, delay, page>>

----------------------------------------------------------------------------
(* recordValidatorXIRR and recordXIRR.                                     *)

(* The decorated rewards go to the wallet cache; no return is recorded.    *)
NoReturn(r) ==
    /\ pc[r] = "named"
    /\ collected' = collected \cup {vote[r]}
    /\ Done(r)
    /\ UNCHANGED repository

(* Or one is: recordXIRR reads the time before it locks the mutex. *)
ReadClock(r) ==
    /\ pc[r] = "named"
    /\ collected' = collected \cup {vote[r]}
    /\ got' = [got EXCEPT ![r] = NoName]
    /\ Goto(r, "record")
    /\ UNCHANGED <<repository, served, vote, identity, delay, page>>

(* Rewards from the wallet cache are not decorated again; their return is  *)
(* recorded on every visit all the same.                                   *)
ReadClockCached(r, v) ==
    /\ pc[r] = "idle"
    /\ v \in collected
    /\ vote' = [vote EXCEPT ![r] = v]
    /\ Goto(r, "record")
    /\ UNCHANGED <<repository, collected, served, identity, got, delay, page>>

(* A name is kept, that of an expired entry too; without one the account   *)
(* becomes the name.                                                       *)
Recorded(a, age) ==
    [cache EXCEPT ![a] =
        [name |-> IF cache[a] = None \/ cache[a].name = NoName THEN a ELSE cache[a].name,
         xirrAge |-> age,
         left |-> Lifetime - age]]

RecordXIRR(r) ==
    /\ pc[r] = "record"
    /\ cache' = Recorded(vote[r], delay[r])
    /\ Done(r)
    /\ UNCHANGED <<nodes, collected>>

----------------------------------------------------------------------------
(* The home page: recentValidators, which reads the time first as well.    *)

Home(r) ==
    /\ pc[r] = "idle"
    /\ Goto(r, "recent")
    /\ UNCHANGED <<repository, collected, served, vote, identity, got, delay, page>>

(* Entries with an XIRR are deleted when they are expired; the Limit       *)
(* newest of the others are shown (those of one time in any order).        *)
RecentValidators(r) ==
    LET dead == {a \in Accounts : HasXirr(cache, a) /\ cache[a].left + delay[r] <= 0}
        rows == {a \in Accounts : HasXirr(cache, a)} \ dead
        count == IF Cardinality(rows) < Limit THEN Cardinality(rows) ELSE Limit
    IN  /\ pc[r] = "recent"
        /\ cache' = [a \in Accounts |-> IF a \in dead THEN None ELSE cache[a]]
        /\ \E top \in kSubset(count, rows) :
              /\ \A a \in top, b \in rows \ top : cache[a].xirrAge <= cache[b].xirrAge
              /\ page' = [page EXCEPT ![r] = {[vote |-> a, age |-> cache[a].xirrAge] : a \in top}]
        /\ Goto(r, "page")
        /\ UNCHANGED <<nodes, collected, served, vote, identity, got, delay>>

Render(r) ==
    /\ pc[r] = "page"
    /\ Done(r)
    /\ UNCHANGED <<repository, collected>>

----------------------------------------------------------------------------
(* Ages are not told apart beyond this one. *)
Oldest == TTL + 3 * MaxServe + 1

Older(age) == IF age = None \/ age = Oldest THEN age ELSE age + 1

Less(left) == IF left > -MaxServe THEN left - 1 ELSE left

(* Time passes; no page takes longer than MaxServe ticks. *)
Tick ==
    /\ \A r \in Requests : pc[r] # "idle" => served[r] < MaxServe
    /\ cache' = [a \in Accounts |->
          IF cache[a] = None THEN None
          ELSE [cache[a] EXCEPT !.left = Less(@), !.xirrAge = Older(@)]]
    /\ nodes' = [v \in Votes |->
          IF Alive(nodes[v]) THEN [nodes[v] EXCEPT !.left = @ - 1] ELSE nodes[v]]
    /\ served' = [r \in Requests |-> IF pc[r] = "idle" THEN 0 ELSE served[r] + 1]
    /\ delay' = [r \in Requests |->
          IF pc[r] \in {"record", "recent"} THEN delay[r] + 1 ELSE delay[r]]
    /\ page' = [r \in Requests |-> {[row EXCEPT !.age = Older(@)] : row \in page[r]}]
    /\ UNCHANGED <<collected, pc, vote, identity, got>>

Next ==
    \/ Tick
    \/ \E r \in Requests, v \in Votes : Hit(r, v) \/ Miss(r, v) \/ ReadClockCached(r, v)
    \/ \E r \in Requests :
          \/ NodeHit(r) \/ NodeMiss(r) \/ LookupNodePubkey(r) \/ LookupNodePubkeyFails(r)
          \/ IdentityHit(r) \/ IdentityMiss(r) \/ FetchName(r) \/ FetchNameFails(r)
          \/ Store(r) \/ StoreIdentity(r)
          \/ NoReturn(r) \/ ReadClock(r) \/ RecordXIRR(r)
          \/ Home(r) \/ RecentValidators(r) \/ Render(r)

Spec == Init /\ [][Next]_vars

----------------------------------------------------------------------------
(* Properties.                                                             *)

Names == Accounts \cup {NoName} \cup {NameOf[a] : a \in Accounts}
Left == (-MaxServe)..Lifetime
Entries == [name : Names, xirrAge : (0..Oldest) \cup {None}, left : Left]

ASSUME NoneIsNoEntry == None \notin Entries

(* The values each variable takes: an identity is an account, never empty. *)
TypeOK ==
    /\ cache \in [Accounts -> Entries \cup {None}]
    /\ nodes \in [Votes -> [value : Nodes \cup {NoNode}, left : Left] \cup {None}]
    /\ collected \subseteq Votes
    /\ pc \in [Requests -> {"idle", "node", "ask", "identity", "fetch", "store", "store both",
                            "store identity", "named", "record", "recent", "page"}]
    /\ served \in [Requests -> 0..MaxServe]
    /\ vote \in [Requests -> Votes \cup {None}]
    /\ identity \in [Requests -> Accounts \cup {None}]
    /\ got \in [Requests -> Names]
    /\ delay \in [Requests -> 0..MaxServe]
    /\ \A r \in Requests : page[r] \subseteq [vote : Accounts, age : 0..Oldest]

OwnNames(a) ==
    {NameOf[a], a, NoName} \cup
    {NameOf[n] : n \in {n \in Nodes : a \in Votes /\ NodeOf[a] = n}}

(* A validator is never shown under another one's name: whatever lookups   *)
(* overlap, an entry holds the name of its own account's validator, its    *)
(* account in place of a name, or no name.                                 *)
NamesNotMixed ==
    \A a \in Accounts : cache[a] # None => cache[a].name \in OwnNames(a)

(* The home page shows no XIRR older than the TTL, but for the time        *)
(* requests take: a lookup that renews the expiry of an entry (store)      *)
(* cannot carry an old XIRR into another lifetime.  The three MaxServe are *)
(* those of the request that records, of one that stores a name after it,  *)
(* and of the one that shows.                                              *)
PerformanceFresh ==
    \A r \in Requests : \A row \in page[r] : row.age <= TTL + 3 * MaxServe

(* An XIRR that was recorded is kept for its TTL: neither a lookup of the  *)
(* name, nor a visit of the home page, nor another request that records    *)
(* the same validator makes it disappear before.                           *)
RecordSurvives ==
    [][\A a \in Accounts :
          HasXirr(cache, a) /\ cache[a].xirrAge <= TTL => HasXirr(cache', a)]_vars

(* spec.md says of the cache that "expired or missing data triggers        *)
(* refresh": a lookup never finds the account id in place of a name that   *)
(* was never fetched.                                                      *)
NameWasFetched ==
    \A r \in Requests : got[r] # vote[r]
=============================================================================
