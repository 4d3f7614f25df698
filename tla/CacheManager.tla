------------------------------ MODULE CacheManager ------------------------------
(***************************************************************************)
(* Redis as cache_manager and idempotency_service use it: the cached       *)
(* balance of a wallet (TTL 5 min) and the stored response of an           *)
(* idempotency key (TTL 24 h).  Any command may fail when Redis is a       *)
(* source of faults; what the failure does is up to the caller.            *)
(***************************************************************************)
EXTENDS Requests

VARIABLES
    balance_cache,  \* balance_cache[w]: the cached row, or Blank
    idempotency     \* idempotency[k]: the stored response, or NoTxn

cacheVars == <<balance_cache, idempotency>>

CacheInit ==
    /\ balance_cache = [w \in Wallet |-> Blank]
    /\ idempotency = [k \in Key |-> NoTxn]

CacheTypeOK ==
    /\ balance_cache \in [Wallet -> Row]
    /\ idempotency \in [Key -> Txn \cup {NoTxn}]

\* Only the balance is stored.  The version beside it records which state of
\* the row it came from; no action reads it.
CacheHit(w) == balance_cache[w] # Blank

\* A GET that raises is logged and treated as a miss.
get_balance_misses(w) == ~CacheHit(w) \/ "redis" \in Faults

set_balance(w, row) ==
    /\ \/ balance_cache' = [balance_cache EXCEPT ![w] = row]
       \/ "redis" \in Faults /\ UNCHANGED balance_cache
    /\ UNCHANGED idempotency

Drop(W) ==
    balance_cache' = [w \in Wallet |-> IF w \in W THEN Blank ELSE balance_cache[w]]

\* Errors are swallowed: the caller goes on either way.
invalidate_balance(w) ==
    /\ Drop({w}) \/ ("redis" \in Faults /\ UNCHANGED balance_cache)
    /\ UNCHANGED idempotency

check_key_misses(key) == idempotency[key] = NoTxn \/ "redis" \in Faults

store_key(key, txn) ==
    /\ \/ idempotency' = [idempotency EXCEPT ![key] = txn]
       \/ "redis" \in Faults /\ UNCHANGED idempotency
    /\ UNCHANGED balance_cache

\* The TTL of an entry runs out (or Redis loses it: nothing is persisted).
ExpireBalance(w) ==
    /\ CacheHit(w)
    /\ Drop({w})
    /\ UNCHANGED idempotency

ExpireKey(k) ==
    /\ idempotency[k] # NoTxn
    /\ idempotency' = [idempotency EXCEPT ![k] = NoTxn]
    /\ UNCHANGED balance_cache
===============================================================================
