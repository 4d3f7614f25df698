----------------------------- MODULE WalletService -----------------------------
(***************************************************************************)
(* WalletService: top_up (POST /wallets/me/top-up) and get_wallet          *)
(* (GET /wallets/me), one action per await.  get_balance_fast makes the    *)
(* same calls as get_wallet and no route uses it.  Lines are those of      *)
(* app/services/wallet_service.py.                                         *)
(***************************************************************************)
EXTENDS WalletStore, CacheManager

CONSTANT MAX_TOPUP_RETRIES
ASSUME TopUpRetryAssumption == MAX_TOPUP_RETRIES \in Nat \ {0}

TopUp(r) ==
    /\ pc[r] = "start" /\ req[r].kind = "topup"
    /\ Goto(r, "topup_load")
    /\ UNCHANGED <<storeVars, cacheVars>>

\* 108-110; the rollback of a conflict has expired the object, so an attempt
\* always works on a row just read.
LoadForTopUp(r) ==
    /\ pc[r] = "topup_load"
    /\ IF req[r].caller = NoWallet
       THEN Answer(r, "WalletNotFound", NoTxn) /\ UNCHANGED storeVars
       ELSE Goto(r, "topup_update") /\ get_by_user_id(r, req[r].caller)
    /\ UNCHANGED cacheVars

\* 112-115, 137: no row updated is a version conflict.
UpdateForTopUp(r) ==
    /\ pc[r] = "topup_update"
    /\ update_balance(r, req[r].caller,
                      view[r][req[r].caller].balance + req[r].amount,
                      "topup_commit")
    /\ UNCHANGED cacheVars

\* Variant: the cached balance is not deleted after the commit.
CommitTopUpOnly(r) ==
    /\ pc[r] = "topup_commit"
    /\ commit(r)
    /\ Goto(r, "topup_refresh")
    /\ UNCHANGED cacheVars

\* 117-118
CommitTopUp(r) ==
    /\ pc[r] = "topup_commit"
    /\ commit(r)
    /\ Goto(r, "topup_invalidate")
    /\ UNCHANGED cacheVars

\* 118: the commit happened, its acknowledgement did not arrive.
CommitTopUpUnacknowledged(r) ==
    /\ "db" \in Faults
    /\ pc[r] = "topup_commit"
    /\ commit(r)
    /\ Fail(r, "error")
    /\ UNCHANGED cacheVars

\* 126-132; wallet:info, deleted too, is a key nothing ever sets.
InvalidateForTopUp(r) ==
    /\ pc[r] = "topup_invalidate"
    /\ invalidate_balance(req[r].caller)
    /\ Goto(r, "topup_refresh")
    /\ UNCHANGED storeVars

\* 134-135
RefreshForTopUp(r) ==
    /\ pc[r] = "topup_refresh"
    /\ Answer(r, "ok", NoTxn)
    /\ CloseSession(r)
    /\ UNCHANGED cacheVars

\* Variant: the attempts are not counted.
RollbackTopUpUncounted(r) ==
    /\ pc[r] = "rollback" /\ req[r].kind = "topup"
    /\ rollback(r)
    /\ IF status[r] = "OptimisticLock" /\ attempt[r] < MAX_TOPUP_RETRIES
       THEN Goto(r, "topup_load")
       ELSE Answer(r, status[r], NoTxn)
    /\ UNCHANGED cacheVars

\* 137-143
RollbackTopUp(r) ==
    /\ pc[r] = "rollback" /\ req[r].kind = "topup"
    /\ rollback(r)
    /\ IF status[r] = "OptimisticLock" /\ attempt[r] < MAX_TOPUP_RETRIES
       THEN /\ pc' = [pc EXCEPT ![r] = "topup_load"]
            /\ attempt' = [attempt EXCEPT ![r] = @ + 1]
            /\ UNCHANGED <<req, status, receipt>>
       ELSE Answer(r, status[r], NoTxn)
    /\ UNCHANGED cacheVars

GetWallet(r) ==
    /\ pc[r] = "start" /\ req[r].kind = "read"
    /\ Goto(r, "read_load")
    /\ UNCHANGED <<storeVars, cacheVars>>

\* 44-46
LoadForRead(r) ==
    /\ pc[r] = "read_load"
    /\ IF req[r].caller = NoWallet
       THEN Answer(r, "WalletNotFound", NoTxn) /\ UNCHANGED storeVars
       ELSE Goto(r, "read_cache") /\ get_by_user_id(r, req[r].caller)
    /\ UNCHANGED cacheVars

\* 49-55: the answer shows the cached balance.  Writing it into the Wallet
\* object marks the object dirty; nothing flushes it before the close.
ServeFromCache(r) ==
    /\ pc[r] = "read_cache"
    /\ CacheHit(req[r].caller)
    /\ Answer(r, "ok", NoTxn)
    /\ CloseSession(r)
    /\ UNCHANGED cacheVars

\* 56-57
MissCache(r) ==
    /\ pc[r] = "read_cache"
    /\ get_balance_misses(req[r].caller)
    /\ Goto(r, "read_fill")
    /\ UNCHANGED <<storeVars, cacheVars>>

\* Variant: the row is read uncommitted.
FillCacheDirty(r) ==
    /\ pc[r] = "read_fill"
    /\ set_balance(req[r].caller, latest[req[r].caller])
    /\ Answer(r, "ok", NoTxn)
    /\ CloseSession(r)

\* 58-62: what is cached is the row read at line 44.
FillCache(r) ==
    /\ pc[r] = "read_fill"
    /\ set_balance(req[r].caller, view[r][req[r].caller])
    /\ Answer(r, "ok", NoTxn)
    /\ CloseSession(r)

\* An exception in get_wallet: nothing was written, the session is closed.
RollbackRead(r) ==
    /\ pc[r] = "rollback" /\ req[r].kind = "read"
    /\ rollback(r)
    /\ Answer(r, status[r], NoTxn)
    /\ UNCHANGED cacheVars

\* Where top_up and get_wallet await the database.
WalletDbLabel ==
    {"topup_load", "topup_update", "topup_commit", "topup_refresh", "read_load"}

WalletStep(r) ==
    \/ TopUp(r)
    \/ LoadForTopUp(r)
    \/ UpdateForTopUp(r)
    \/ CommitTopUp(r)
    \/ InvalidateForTopUp(r)
    \/ RefreshForTopUp(r)
    \/ RollbackTopUp(r)
    \/ GetWallet(r)
    \/ LoadForRead(r)
    \/ ServeFromCache(r)
    \/ MissCache(r)
    \/ FillCache(r)
    \/ RollbackRead(r)
===============================================================================
