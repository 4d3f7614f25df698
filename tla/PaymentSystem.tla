----------------------------- MODULE PaymentSystem -----------------------------
(***************************************************************************)
(* The whole request path: any number of payments, top-ups and balance     *)
(* reads in flight over one database and one Redis, with entries expiring, *)
(* database and Redis calls failing and server instances dying.            *)
(***************************************************************************)
EXTENDS PaymentService, WalletService

vars == <<requestVars, storeVars, cacheVars>>

Init ==
    /\ RequestInit
    /\ StoreInit
    /\ CacheInit

Step(r) == SendStep(r) \/ WalletStep(r)

\* A database call of the handler raises (connection dropped, no connection
\* from the pool): nothing it asked for takes effect.
DbError(r) ==
    /\ "db" \in Faults
    /\ pc[r] \in SendDbLabel \cup WalletDbLabel
    /\ Fail(r, "error")
    /\ UNCHANGED <<storeVars, cacheVars>>

\* The server instance running the request dies; the database rolls back.
Crash(r) ==
    /\ "crash" \in Faults
    /\ InFlight(r)
    /\ rollback(r)
    /\ Goto(r, "crashed")
    /\ UNCHANGED cacheVars

Environment(r) ==
    \/ DbError(r)
    \/ CommitUnacknowledged(r)
    \/ CommitTopUpUnacknowledged(r)
    \/ Crash(r)

Expire ==
    /\ \/ \E w \in Wallet : ExpireBalance(w)
       \/ \E k \in Key : ExpireKey(k)
    /\ UNCHANGED <<requestVars, storeVars>>

Next ==
    \/ \E r \in Request : Step(r)
    \/ \E r \in Request : Environment(r)
    \/ Expire

Spec == Init /\ [][Next]_vars

-------------------------------------------------------------------------------
\* The types of the variables, module by module.
TypeOK == RequestTypeOK /\ StoreTypeOK /\ CacheTypeOK

\* The transfers and top-ups the requests ask for.
AskedTxn ==
    {[by |-> r, sender |-> p.caller, receiver |-> p.to,
      amount |-> p.amount, key |-> p.key] :
        r \in Request,
        p \in {q \in Payload : q.kind = "send" /\ {q.caller, q.to} \subseteq Wallet}}
AskedDeposit ==
    {[by |-> r, wallet |-> p.caller, amount |-> p.amount] :
        r \in Request,
        p \in {q \in Payload : q.kind = "topup" /\ q.caller \in Wallet}}

\* The ledger this system keeps: committed balances and recorded transactions.
L == INSTANCE Ledger WITH
        Txn <- AskedTxn,
        Deposit <- AskedDeposit,
        balance <- [w \in Wallet |-> wallets[w].balance],
        OpeningBalance <- [w \in Wallet |-> Opening[w].balance]

\* Every committed change of a balance is a whole transfer or a whole top-up,
\* applied to the balance of that moment and, for a transfer, at most once per
\* key: no update is lost, doubled or half done (send_money, top_up).
LedgerSpec == L!Spec

\* A payment answered 201 is in the transactions table, under the key and with
\* the id the client was given, and so is every response Redis replays, so
\* that all the answers to one key name the same transaction.
AnswersAreDurable ==
    /\ \A r \in Request : receipt[r] # NoTxn =>
          receipt[r] \in transactions /\ receipt[r].key = req[r].key
    /\ \A r \in Sends : pc[r] = "done" /\ status[r] = "ok" => receipt[r] # NoTxn
    /\ \A k \in Key : idempotency[k] # NoTxn =>
          idempotency[k] \in transactions /\ idempotency[k].key = k
    /\ \A t, u \in transactions : t.key = u.key => t = u

\* A refusal (400, 402, 404 or 409) means this request moved no money; only a
\* 500 leaves the client in doubt, and retrying the same key resolves it.
Refusals ==
    {"WalletNotFound", "SelfTransfer", "InsufficientBalance",
     "OptimisticLock", "DuplicateTransaction"}
RefusalMovesNoMoney ==
    \A r \in Request : pc[r] = "done" /\ status[r] \in Refusals =>
        /\ \A t \in transactions : t.by # r
        /\ \A d \in deposits : d.by # r

\* Doubt takes a failure: when Redis and the database answer, nothing between the
\* commit and the answer of send_money or top_up raises, so that what took effect
\* is answered with success, whatever interleaves.
DoubtTakesAFailure ==
    {"redis", "db"} \cap Faults = {} =>
        \A r \in Request :
            /\ pc[r] = "done"
            /\ \E change \in transactions \cup deposits : change.by = r
            => status[r] = "ok"

\* Only the IntegrityError of a duplicate key is ever raised, and the payment
\* that caused it is committed by the time it is: the lookup after the rollback
\* finds it, and DuplicateTransactionException (line 145) is never raised.
DuplicateIsAnswered == \A r \in Request : status[r] # "DuplicateTransaction"

\* A row lock is held only by a handler that still has its commit or rollback
\* to do, on a wallet it is working on: no answer leaves a wallet locked.
Holding ==
    {"lock_second", "debit", "credit", "record", "commit", "topup_commit",
     "rollback"}
LocksAreOwned ==
    \A w \in Wallet : rowLock[w] # NoRequest =>
        LET r == rowLock[w] IN
        /\ pc[r] \in Holding
        /\ \/ req[r].kind = "send" /\ w \in {req[r].caller, req[r].to}
           \/ req[r].kind = "topup" /\ w = req[r].caller

\* The row lock a handler's next statement needs.
Wants(r, w) ==
    \/ pc[r] = "lock_first" /\ Loaded(r, req[r].caller) /\ w = FirstLocked(r)
    \/ pc[r] = "lock_second" /\ w = SecondLocked(r)
    \/ pc[r] = "debit" /\ w = req[r].caller
    \/ pc[r] = "credit" /\ w = req[r].to
    \/ pc[r] = "topup_update" /\ w = req[r].caller /\ ~Superseded(r, w)

\* r cannot go on before p commits or rolls back.
WaitsFor(r, p) ==
    /\ r # p
    /\ \/ \E w \in Wallet : Wants(r, w) /\ rowLock[w] = p
       \/ pc[r] = "record" /\ \E t \in pending : t.by = p /\ t.key = req[r].key

\* No set of handlers waits for one another, through row locks or through the
\* unique index: locking in sorted order leaves no cycle of any length.
NoWaitCycle ==
    \A S \in (SUBSET Request) \ {{}} : \E r \in S : \A p \in S : ~WaitsFor(r, p)

\* The cache shows balances the wallet really had: never one of an update that
\* was not committed, and never one that differs from the committed balance of
\* the version it was read at.
CacheIsCommitted ==
    \A w \in Wallet : CacheHit(w) =>
        /\ balance_cache[w].version <= wallets[w].version
        /\ balance_cache[w].version = wallets[w].version =>
              balance_cache[w] = wallets[w]

\* The awaits a handler may still have ahead of it: those of this attempt, the
\* last of them being the rollback after an exception and the lookup of the key
\* after an IntegrityError, and those of the attempts it has left.
Attempts(r) ==
    IF req[r].kind = "send" THEN MAX_RETRY_ATTEMPTS ELSE MAX_TOPUP_RETRIES
Ahead ==
    [start |-> 17, check_key |-> 16, find_txn |-> 15, load_sender |-> 14,
     load_receiver |-> 13, lock_first |-> 12, lock_second |-> 11, debit |-> 10,
     credit |-> 9, record |-> 8, commit |-> 7, refresh |-> 6, store_key |-> 5,
     invalidate |-> 4, lookup |-> 2,
     topup_load |-> 8, topup_update |-> 7, topup_commit |-> 6,
     topup_invalidate |-> 5, topup_refresh |-> 4,
     read_load |-> 6, read_cache |-> 5, read_fill |-> 4,
     rollback |-> 1, done |-> 0, crashed |-> 0]
AheadInAttempt(r) ==
    IF pc[r] = "rollback" /\ status[r] = "IntegrityError"
    THEN Ahead.lookup + 1
    ELSE Ahead[pc[r]]
AwaitsLeft(r) ==
    Ahead.start * (Attempts(r) - attempt[r]) + AheadInAttempt(r)

\* The retry loops run out: a handler goes back only for another attempt, of
\* which it has so many, and so makes a bounded number of awaits, whoever it
\* meets and whatever fails (send_money, top_up).
RetriesRunOut ==
    [][\A r \in Request : pc'[r] # pc[r] =>
          0 <= AwaitsLeft(r)' /\ AwaitsLeft(r)' < AwaitsLeft(r)]_vars

\* Every request that has begun is answered, or dies with its server: no
\* handler waits for a lock for ever, and the retry loops end.
EveryRequestEnds ==
    \A r \in Request : pc[r] # "start" ~> pc[r] \in {"done", "crashed"}

Stale(w) == CacheHit(w) /\ balance_cache[w].balance # wallets[w].balance

\* r has committed a change of these wallets and has yet to delete their cached
\* balances.
Changes(r) ==
    (IF req[r].kind = "send" THEN {req[r].caller, req[r].to} ELSE {req[r].caller})
        \cap Wallet
OwesDeletion(r) ==
    pc[r] \in {"refresh", "store_key", "invalidate", "topup_invalidate"}

\* A reader of w is about to cache a row that has changed since he read it.
FillsLate(w) ==
    \E r \in Reads :
        /\ req[r].caller = w /\ pc[r] = "read_fill"
        /\ view[r][w].version < wallets[w].version

\* The commit of r takes effect, and its acknowledgement is lost.
LosesCommit(r) ==
    pc[r] \in {"commit", "topup_commit"} /\ status'[r] = "error"

\* A cached balance becomes stale in three ways only: by a commit whose handler
\* still has its deletion to do, by one whose handler does not learn of it, or
\* by a fill that comes late.  No other change goes round the deletion, and no
\* fill brings back what a reader has not read (send_money, top_up, get_wallet).
StalenessIsAccountedFor ==
    [][\A w \in Wallet : ~Stale(w) /\ Stale(w)' =>
          \/ \E r \in Request : OwesDeletion(r)' /\ w \in Changes(r)
          \/ \E r \in Request : LosesCommit(r)
          \/ FillsLate(w)]_vars

\* What a commit makes stale its own handler clears, unless it dies, as long as
\* Redis and the database answer: no TTL has to run out for it, and nothing
\* between the commit and the deletion, the refresh that needs a connection again
\* among them, holds it up for ever.
CommitsAreShown ==
    \A r \in Request :
        OwesDeletion(r) /\ (\E w \in Changes(r) : Stale(w))
            ~> pc[r] = "crashed" \/ \A w \in Changes(r) : ~Stale(w)
===============================================================================
