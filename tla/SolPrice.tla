------------------------------ MODULE SolPrice ------------------------------
(***************************************************************************)
(* solPriceRepository (solana_client.go): the price of SOL, cached for an  *)
(* hour.  PriceUSD tests the cache under the mutex, asks the price API     *)
(* without it, and stores the answer under it; when the call fails, the    *)
(* last price is returned whatever its age.  Callers interleave at these   *)
(* three points; an answer may be stored after a younger one.              *)
(*                                                                         *)
(* A price is named by the tick at which it was asked for, 0 for none: the *)
(* window of the request is computed then.                                 *)
(***************************************************************************)
EXTENDS Naturals

CONSTANTS Callers,    \* goroutines that want the price
          PriceTTL    \* solPriceCacheTTL

ASSUME SolPriceAssumption == PriceTTL \in Nat

VARIABLES now,        \* the clock
          price,      \* the cache
          call        \* each caller: its place in PriceUSD and its locals

priceVars == <<price, call>>

NoPrice == 0
NotCached == [valid |-> FALSE]
Out == [pc |-> "out"]

PriceInit ==
    /\ price = NotCached
    /\ call = [c \in Callers |-> Out]

InCall(c, place) == call[c].pc = place

(* PriceUSD is called; hadPrice is history: there was a price already.     *)
PriceUSD(c) ==
    /\ InCall(c, "out")
    /\ call' = [call EXCEPT ![c] = [pc |-> "cached", hadPrice |-> price.valid,
                                    value |-> NoPrice, failed |-> FALSE]]
    /\ UNCHANGED <<now, price>>

Unexpired == price.valid /\ now - price.storedAt <= PriceTTL

(* Mutation of Cached: the age is not tested.                              *)
CachedForEver(c) ==
    /\ InCall(c, "cached")
    /\ price.valid
    /\ call' = [call EXCEPT ![c].pc = "back", ![c].value = price.value]
    /\ UNCHANGED <<now, price>>

Cached(c) ==
    /\ InCall(c, "cached")
    /\ Unexpired
    /\ call' = [call EXCEPT ![c].pc = "back", ![c].value = price.value]
    /\ UNCHANGED <<now, price>>

NotInCache(c) ==
    /\ InCall(c, "cached")
    /\ ~Unexpired
    /\ call' = [call EXCEPT ![c].pc = "fetch", ![c].value = now]
    /\ UNCHANGED <<now, price>>

(* fetch: the API answers, or the call or its answer is no good. *)
Fetch(c) ==
    /\ InCall(c, "fetch")
    /\ \/ call' = [call EXCEPT ![c].pc = "store"]
       \/ call' = [call EXCEPT ![c].pc = "fallback", ![c].failed = TRUE]
    /\ UNCHANGED <<now, price>>

(* Mutation of Store: the time at which the price expires.                 *)
StoreWithExpiry(c) ==
    /\ InCall(c, "store")
    /\ price' = [valid |-> TRUE, value |-> call[c].value, storedAt |-> now + PriceTTL]
    /\ call' = [call EXCEPT ![c].pc = "back"]
    /\ UNCHANGED now

(* The age of a price counts from here, not from its request. *)
Store(c) ==
    /\ InCall(c, "store")
    /\ price' = [valid |-> TRUE, value |-> call[c].value, storedAt |-> now]
    /\ call' = [call EXCEPT ![c].pc = "back"]
    /\ UNCHANGED now

(* Mutation of Fallback: only a price that is not expired.                 *)
FallbackUnexpired(c) ==
    /\ InCall(c, "fallback")
    /\ call' = [call EXCEPT ![c].pc = "back",
                    ![c].value = IF Unexpired THEN price.value ELSE NoPrice]
    /\ UNCHANGED <<now, price>>

Fallback(c) ==
    /\ InCall(c, "fallback")
    /\ call' = [call EXCEPT ![c].pc = "back",
                    ![c].value = IF price.valid THEN price.value ELSE NoPrice]
    /\ UNCHANGED <<now, price>>

PriceStep(c) ==
    Cached(c) \/ NotInCache(c) \/ Fetch(c) \/ Store(c) \/ Fallback(c)
=============================================================================
