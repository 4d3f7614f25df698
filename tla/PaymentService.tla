----------------------------- MODULE PaymentService -----------------------------
(***************************************************************************)
(* POST /payments/send: PaymentService.send_money and _execute_transfer,   *)
(* one action per await.  The comment over an action names the lines of    *)
(* app/services/payment_service.py it stands for.                          *)
(***************************************************************************)
EXTENDS WalletStore, CacheManager

CONSTANT MAX_RETRY_ATTEMPTS
ASSUME RetryAssumption == MAX_RETRY_ATTEMPTS \in Nat \ {0}

\* Variant: the sender's row is always locked first.
SenderLocked(r) == req[r].caller

\* sorted([sender_wallet_id, receiver_wallet_id])
FirstLocked(r) == IF req[r].caller < req[r].to THEN req[r].caller ELSE req[r].to
SecondLocked(r) ==
    IF FirstLocked(r) = req[r].caller THEN req[r].to ELSE req[r].caller

\* The row _execute_transfer builds (status COMPLETED, a fresh id).
Record(r) ==
    [by |-> r, sender |-> req[r].caller, receiver |-> req[r].to,
     amount |-> req[r].amount, key |-> req[r].key]

\* The request has passed authentication, validation and the rate limiter.
SendMoney(r) ==
    /\ pc[r] = "start" /\ req[r].kind = "send"
    /\ Goto(r, "check_key")
    /\ UNCHANGED <<storeVars, cacheVars>>

\* 72-77: tier 1, Redis.
CheckKey(r) ==
    /\ pc[r] = "check_key"
    /\ \/ /\ idempotency[req[r].key] # NoTxn
          /\ Answer(r, "ok", idempotency[req[r].key])
       \/ /\ check_key_misses(req[r].key)
          /\ Goto(r, "find_txn")
    /\ UNCHANGED <<storeVars, cacheVars>>

\* 79-84: tier 2, the transactions table.
FindTxn(r) ==
    /\ pc[r] = "find_txn"
    /\ LET existing == get_by_idempotency_key(req[r].key)
       IN  \/ existing # NoTxn /\ Answer(r, "ok", existing)
           \/ existing = NoTxn /\ Goto(r, "load_sender")
    /\ UNCHANGED <<storeVars, cacheVars>>

\* 86-89
LoadSender(r) ==
    /\ pc[r] = "load_sender"
    /\ IF req[r].caller = NoWallet
       THEN Answer(r, "WalletNotFound", NoTxn) /\ UNCHANGED storeVars
       ELSE Goto(r, "load_receiver") /\ get_by_user_id(r, req[r].caller)
    /\ UNCHANGED cacheVars

\* 91-98
LoadReceiver(r) ==
    /\ pc[r] = "load_receiver"
    /\ \/ /\ req[r].to = NoWallet
          /\ Answer(r, "WalletNotFound", NoTxn)
          /\ CloseSession(r)
       \/ /\ req[r].to = req[r].caller
          /\ Answer(r, "SelfTransfer", NoTxn)
          /\ CloseSession(r)
       \/ /\ req[r].to \notin {NoWallet, req[r].caller}
          /\ Goto(r, "lock_first")
          /\ get_by_user_id(r, req[r].to)
    /\ UNCHANGED cacheVars

\* 102-107, 189-193
LockFirst(r) ==
    /\ pc[r] = "lock_first"
    /\ Loaded(r, req[r].caller) /\ Loaded(r, req[r].to)
    /\ get_by_id_for_update(r, FirstLocked(r))
    /\ Goto(r, "lock_second")
    /\ UNCHANGED cacheVars

\* 106-107 after a rollback: sender_wallet is expired, so reading its id asks
\* the database outside an await, which AsyncSession refuses (MissingGreenlet).
ExpiredAccess(r) ==
    /\ pc[r] = "lock_first"
    /\ ~Loaded(r, req[r].caller) \/ ~Loaded(r, req[r].to)
    /\ Fail(r, "error")
    /\ UNCHANGED <<storeVars, cacheVars>>

\* 194-196
LockSecond(r) ==
    /\ pc[r] = "lock_second"
    /\ get_by_id_for_update(r, SecondLocked(r))
    /\ Goto(r, "debit")
    /\ UNCHANGED cacheVars

\* Variant: the refusal is raised without a rollback.
InsufficientNoRollback(r) ==
    /\ pc[r] = "debit"
    /\ view[r][req[r].caller].balance < req[r].amount
    /\ Answer(r, "InsufficientBalance", NoTxn)
    /\ UNCHANGED <<storeVars, cacheVars>>

\* 206-211: the check reads the session's object of the sender's wallet.
InsufficientBalance(r) ==
    /\ pc[r] = "debit"
    /\ view[r][req[r].caller].balance < req[r].amount
    /\ Fail(r, "InsufficientBalance")
    /\ UNCHANGED <<storeVars, cacheVars>>

\* 213-218
DebitSender(r) ==
    /\ pc[r] = "debit"
    /\ view[r][req[r].caller].balance >= req[r].amount
    /\ update_balance(r, req[r].caller,
                      view[r][req[r].caller].balance - req[r].amount, "credit")
    /\ UNCHANGED cacheVars

\* Variant: the transfer is committed without its row of transactions.
CreditUnrecorded(r) ==
    /\ pc[r] = "credit"
    /\ update_balance(r, req[r].to,
                      view[r][req[r].to].balance + req[r].amount, "commit")
    /\ UNCHANGED cacheVars

\* 220-225
CreditReceiver(r) ==
    /\ pc[r] = "credit"
    /\ update_balance(r, req[r].to,
                      view[r][req[r].to].balance + req[r].amount, "record")
    /\ UNCHANGED cacheVars

\* 227-237
RecordTransaction(r) ==
    /\ pc[r] = "record"
    /\ create_transaction(r, Record(r), "commit")
    /\ UNCHANGED cacheVars

\* 239-240
CommitTransfer(r) ==
    /\ pc[r] = "commit"
    /\ commit(r)
    /\ Goto(r, "refresh")
    /\ UNCHANGED cacheVars

\* 240, 164-170: the commit happened, its acknowledgement did not arrive.
CommitUnacknowledged(r) ==
    /\ "db" \in Faults
    /\ pc[r] = "commit"
    /\ commit(r)
    /\ Fail(r, "error")
    /\ UNCHANGED cacheVars

\* Variant: the commit expires the objects, whose attributes are read next.
RefreshExpired(r) ==
    /\ pc[r] = "refresh"
    /\ Fail(r, "error")
    /\ UNCHANGED <<storeVars, cacheVars>>

\* 241-243
RefreshTransaction(r) ==
    /\ pc[r] = "refresh"
    /\ Goto(r, "store_key")
    /\ UNCHANGED <<storeVars, cacheVars>>

\* 115-122
StoreKey(r) ==
    /\ pc[r] = "store_key"
    /\ store_key(req[r].key, Record(r))
    /\ Goto(r, "invalidate")
    /\ UNCHANGED storeVars

\* Variant: the pipeline deletes the sender's balance only.
InvalidateSender(r) ==
    /\ pc[r] = "invalidate"
    /\ Drop({req[r].caller})
    /\ Answer(r, "ok", Record(r))
    /\ CloseSession(r)
    /\ UNCHANGED idempotency

\* 123-134; the pipeline is not in a try of its own, so when it raises (its
\* deletes carried out or not) lines 164-170 run: rollback and re-raise.
InvalidateBalances(r) ==
    /\ pc[r] = "invalidate"
    /\ \/ /\ Drop({req[r].caller, req[r].to})
          /\ Answer(r, "ok", Record(r))
          /\ CloseSession(r)
       \/ /\ "redis" \in Faults
          /\ Drop({req[r].caller, req[r].to}) \/ UNCHANGED balance_cache
          /\ Fail(r, "error")
          /\ UNCHANGED storeVars
    /\ UNCHANGED idempotency

\* Variant: any failure is reported as a conflict.
RollbackAsConflict(r) ==
    /\ pc[r] = "rollback" /\ req[r].kind = "send"
    /\ rollback(r)
    /\ Answer(r, "OptimisticLock", NoTxn)
    /\ UNCHANGED cacheVars

\* What the except clause does after db.rollback(): look the key up after an
\* IntegrityError, try again after a conflict, re-raise otherwise.
RollbackSend(r) ==
    /\ pc[r] = "rollback" /\ req[r].kind = "send"
    /\ rollback(r)
    /\ IF status[r] = "IntegrityError"
       THEN Goto(r, "lookup")
       ELSE IF status[r] = "OptimisticLock" /\ attempt[r] < MAX_RETRY_ATTEMPTS
       THEN /\ pc' = [pc EXCEPT ![r] = "lock_first"]
            /\ attempt' = [attempt EXCEPT ![r] = @ + 1]
            /\ UNCHANGED <<req, status, receipt>>
       ELSE Answer(r, status[r], NoTxn)
    /\ UNCHANGED cacheVars

\* 140-145
LookupExisting(r) ==
    /\ pc[r] = "lookup"
    /\ LET existing == get_by_idempotency_key(req[r].key)
       IN  Answer(r, IF existing = NoTxn THEN "DuplicateTransaction" ELSE "ok",
                  existing)
    /\ UNCHANGED <<storeVars, cacheVars>>

\* Where send_money awaits the database.
SendDbLabel ==
    {"find_txn", "load_sender", "load_receiver", "lock_first", "lock_second",
     "debit", "credit", "record", "commit", "refresh", "lookup"}

SendStep(r) ==
    \/ SendMoney(r)
    \/ CheckKey(r)
    \/ FindTxn(r)
    \/ LoadSender(r)
    \/ LoadReceiver(r)
    \/ LockFirst(r)
    \/ ExpiredAccess(r)
    \/ LockSecond(r)
    \/ InsufficientBalance(r)
    \/ DebitSender(r)
    \/ CreditReceiver(r)
    \/ RecordTransaction(r)
    \/ CommitTransfer(r)
    \/ RefreshTransaction(r)
    \/ StoreKey(r)
    \/ InvalidateBalances(r)
    \/ RollbackSend(r)
    \/ LookupExisting(r)
===============================================================================
