--------------------------------- MODULE Claims ---------------------------------
(***************************************************************************)
(* What the repository's comments and docs say of the running system, as   *)
(* properties.  Each is checked on its own and the code refutes it.        *)
(***************************************************************************)
EXTENDS PaymentSystem

\* payment_service.py:206, "Balance check with locked data (no race possible)":
\* a payment is refused for lack of funds only when the row it has locked is
\* short of them.
FreshBalanceCheck ==
    [][\A r \in Sends :
          status[r] # "InsufficientBalance" /\ status'[r] = "InsufficientBalance"
              => latest[req[r].caller].balance < req[r].amount]_vars

\* payment_service.py:69, "Retries internally on optimistic lock conflicts": a
\* payment that is tried again after a conflict does not end in a 500.
ConflictIsRetried ==
    \A r \in Sends : attempt[r] > 1 => status[r] # "error"

\* payment_service.py:16-18, "Redis is down -> system works without cache": a
\* payment that took effect is answered as such whatever Redis does.
RedisIsOptional ==
    \A r \in Sends :
        pc[r] = "done" /\ (\E t \in transactions : t.by = r) => status[r] = "ok"

\* cache_manager.py:12, "If cache becomes stale, it self-heals on the next
\* read": with no payment or top-up under way, a balance served from the cache
\* is the committed one.
Quiet == \A r \in Sends \cup TopUps : pc[r] \in {"start", "done"}
CacheSelfHeals ==
    [][\A r \in Reads :
          Quiet /\ pc[r] = "read_cache" /\ pc'[r] = "done"
              => balance_cache[req[r].caller].balance
                     = wallets[req[r].caller].balance]_vars
===============================================================================
