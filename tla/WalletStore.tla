------------------------------ MODULE WalletStore ------------------------------
(***************************************************************************)
(* The wallets and transactions tables as the repositories use them:       *)
(* PostgreSQL under READ COMMITTED, one SQLAlchemy session per request.    *)
(*                                                                         *)
(* latest[w] is the newest tuple of row w, written by the holder of its    *)
(* lock and not yet committed when it differs from wallets[w]; pending     *)
(* holds the flushed, uncommitted rows of transactions.  view[r] is the    *)
(* session's identity map: a SELECT, FOR UPDATE or not, returns the object *)
(* already loaded without refreshing it (no query here asks for            *)
(* populate_existing), and a rollback expires every object.                *)
(***************************************************************************)
EXTENDS Requests

VARIABLES
    wallets,       \* committed rows of wallets
    latest,        \* newest tuple of each row
    rowLock,       \* the session that holds the row's lock
    transactions,  \* committed rows of transactions
    pending,       \* rows of transactions flushed but not committed
    deposits,      \* history: the top-ups committed (no table records them)
    view           \* view[r]: the Wallet objects in the session of r

tableVars == <<wallets, latest, rowLock, transactions, pending, deposits>>
storeVars == <<wallets, latest, rowLock, transactions, pending, deposits, view>>

StoreInit ==
    /\ wallets = Opening
    /\ latest = Opening
    /\ rowLock = [w \in Wallet |-> NoRequest]
    /\ transactions = {}
    /\ pending = {}
    /\ deposits = {}
    /\ view = [r \in Request |-> [w \in Wallet |-> Blank]]

Deposit == [by : Request, wallet : Wallet, amount : Nat \ {0}]

StoreTypeOK ==
    /\ wallets \in [Wallet -> Row]
    /\ latest \in [Wallet -> Row]
    /\ rowLock \in [Wallet -> Request \cup {NoRequest}]
    /\ transactions \subseteq Txn
    /\ pending \subseteq Txn
    /\ deposits \subseteq Deposit
    /\ view \in [Request -> [Wallet -> Row]]

Loaded(r, w) == view[r][w] # Blank

\* What any SELECT of wallet w leaves in the session: an object that is there
\* keeps its attributes, whatever the database holds by now.
Fetch(r, w) ==
    view' = [view EXCEPT ![r][w] = IF Loaded(r, w) THEN @ ELSE wallets[w]]

get_by_user_id(r, w) == Fetch(r, w) /\ UNCHANGED tableVars

Free(r, w) == rowLock[w] \in {NoRequest, r}

\* Variant: the row is read without FOR UPDATE.
get_by_id_unlocked(r, w) == Fetch(r, w) /\ UNCHANGED tableVars

\* SELECT ... FOR UPDATE waits for the row's lock.
get_by_id_for_update(r, w) ==
    /\ Free(r, w)
    /\ rowLock' = [rowLock EXCEPT ![w] = r]
    /\ Fetch(r, w)
    /\ UNCHANGED <<wallets, latest, transactions, pending, deposits>>

\* Variant: the WHERE clause has no version.
UpdateUnversioned(r, w, new_balance) ==
    IF new_balance > MaxBalance THEN "error"
    ELSE IF new_balance < 0 THEN "IntegrityError"
    ELSE "ok"

\* Variant: the column takes any amount.
UpdateUnbounded(r, w, new_balance) ==
    IF latest[w].version # view[r][w].version THEN "OptimisticLock"
    ELSE IF new_balance < 0 THEN "IntegrityError"
    ELSE "ok"

\* How UPDATE wallets ... WHERE id = w AND version = (the object's) ends.
UpdateOutcome(r, w, new_balance) ==
    IF new_balance > MaxBalance THEN "error"
    ELSE IF latest[w].version # view[r][w].version THEN "OptimisticLock"
    ELSE IF new_balance < 0 THEN "IntegrityError"
    ELSE "ok"

\* The UPDATE waits for the row's lock, unless the committed version already
\* tells that no row matches.  When it applies, SQLAlchemy brings the object in
\* the session up to date as well.
Superseded(r, w) == wallets[w].version # view[r][w].version

update_balance(r, w, new_balance, next) ==
    /\ LET outcome == UpdateOutcome(r, w, new_balance)
           row == [balance |-> new_balance, version |-> view[r][w].version + 1]
       IN  \/ /\ outcome = "ok" /\ Free(r, w)
              /\ latest' = [latest EXCEPT ![w] = row]
              /\ rowLock' = [rowLock EXCEPT ![w] = r]
              /\ view' = [view EXCEPT ![r][w] = row]
              /\ Goto(r, next)
           \/ /\ outcome # "ok"
              /\ Free(r, w) \/ Superseded(r, w)
              /\ Fail(r, outcome)
              /\ UNCHANGED <<latest, rowLock, view>>
    /\ UNCHANGED <<wallets, transactions, pending, deposits>>

get_by_idempotency_key(key) ==
    IF \E t \in transactions : t.key = key
    THEN CHOOSE t \in transactions : t.key = key
    ELSE NoTxn

\* Variant: no UNIQUE index.
CreateNotUnique(r, txn, next) ==
    /\ pending' = pending \cup {txn}
    /\ Goto(r, next)
    /\ UNCHANGED <<wallets, latest, rowLock, transactions, deposits, view>>

\* Variant: an uncommitted row with the key makes the INSERT fail at once.
CreateNoWait(r, txn, next) ==
    /\ IF \E t \in pending \cup transactions : t.key = txn.key
       THEN Fail(r, "IntegrityError") /\ UNCHANGED pending
       ELSE Goto(r, next) /\ pending' = pending \cup {txn}
    /\ UNCHANGED <<wallets, latest, rowLock, transactions, deposits, view>>

\* INSERT INTO transactions: the UNIQUE index on idempotency_key makes it wait
\* for an uncommitted row with the same key and fail on a committed one.
create_transaction(r, txn, next) ==
    /\ \A t \in pending : t.key # txn.key
    /\ \/ /\ \A t \in transactions : t.key # txn.key
          /\ pending' = pending \cup {txn}
          /\ Goto(r, next)
       \/ /\ \E t \in transactions : t.key = txn.key
          /\ Fail(r, "IntegrityError")
          /\ UNCHANGED pending
    /\ UNCHANGED <<wallets, latest, rowLock, transactions, deposits, view>>

DepositOf(r) ==
    [by |-> r, wallet |-> req[r].caller, amount |-> req[r].amount]

\* COMMIT publishes everything the session wrote, at once, and frees its locks.
\* expire_on_commit is False: the objects in the session stay as they are.
commit(r) ==
    /\ wallets' = [w \in Wallet |->
                      IF rowLock[w] = r THEN latest[w] ELSE wallets[w]]
    /\ transactions' = transactions \cup {t \in pending : t.by = r}
    /\ pending' = {t \in pending : t.by # r}
    /\ deposits' = IF r \in TopUps THEN deposits \cup {DepositOf(r)} ELSE deposits
    /\ rowLock' = [w \in Wallet |->
                      IF rowLock[w] = r THEN NoRequest ELSE rowLock[w]]
    /\ UNCHANGED <<latest, view>>

\* Variant: closing a session commits what it wrote.
RollbackCommits(r) ==
    /\ wallets' = [w \in Wallet |->
                      IF rowLock[w] = r THEN latest[w] ELSE wallets[w]]
    /\ transactions' = transactions \cup {t \in pending : t.by = r}
    /\ pending' = {t \in pending : t.by # r}
    /\ rowLock' = [w \in Wallet |->
                      IF rowLock[w] = r THEN NoRequest ELSE rowLock[w]]
    /\ view' = [view EXCEPT ![r] = [w \in Wallet |-> Blank]]
    /\ UNCHANGED <<latest, deposits>>

\* ROLLBACK, by the code, by session.close() or by a lost connection.
rollback(r) ==
    /\ latest' = [w \in Wallet |->
                     IF rowLock[w] = r THEN wallets[w] ELSE latest[w]]
    /\ pending' = {t \in pending : t.by # r}
    /\ rowLock' = [w \in Wallet |->
                      IF rowLock[w] = r THEN NoRequest ELSE rowLock[w]]
    /\ view' = [view EXCEPT ![r] = [w \in Wallet |-> Blank]]
    /\ UNCHANGED <<wallets, transactions, deposits>>

\* The session of an answered request that holds nothing is closed.
CloseSession(r) ==
    /\ view' = [view EXCEPT ![r] = [w \in Wallet |-> Blank]]
    /\ UNCHANGED tableVars
===============================================================================
