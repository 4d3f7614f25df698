------------------------------- MODULE Requests -------------------------------
(***************************************************************************)
(* The requests the API accepts and the life of one of them: which await   *)
(* of its handler comes next (pc), the exception or success it is ending   *)
(* with (status), the attempt of the retry loop it is in and the           *)
(* transaction it was answered with (receipt).  One element of Request is  *)
(* one HTTP request; a client that retries sends another request with the  *)
(* same idempotency key, while the first is still running or later.        *)
(***************************************************************************)
EXTENDS Integers

CONSTANTS
    Request,      \* HTTP requests in flight, each handled once
    NoRequest,    \* the holder of a row nobody has locked
    Wallet,       \* wallet ids; a UUID orders like the integer it encodes
    MaxWalletId,  \* the largest id a UUID can encode
    NoWallet,     \* "this user has no wallet"
    Key,          \* idempotency keys
    Payload,      \* the request bodies clients send
    MaxBalance,   \* the largest amount Numeric(18, 2) holds, in cents
    Opening,      \* Opening[w]: the row of wallet w when the model starts
    NoTxn,        \* "no transaction found"
    Faults        \* the kinds of failure that may happen

\* Bodies of POST /payments/send, POST /wallets/me/top-up, GET /wallets/me.
\* "caller" is the wallet of the authenticated user (users and wallets are 1:1).
SendPayload ==
    [kind : {"send"}, caller : Wallet \cup {NoWallet},
     to : Wallet \cup {NoWallet}, amount : Nat \ {0}, key : Key]
TopUpPayload ==
    [kind : {"topup"}, caller : Wallet \cup {NoWallet}, amount : Nat \ {0}]
ReadPayload == [kind : {"read"}, caller : Wallet \cup {NoWallet}]

\* A row of the wallets table.  Versions start at 1, so Blank is no row: an
\* object the session has not loaded (or has expired), a missing cache entry.
Row == [balance : 0..MaxBalance, version : Nat]
Blank == [balance |-> 0, version |-> 0]

ASSUME RequestAssumption == NoRequest \notin Request
ASSUME WalletAssumption ==
    /\ MaxWalletId \in Nat
    /\ Wallet \subseteq 0..MaxWalletId
    /\ NoWallet \notin Wallet
ASSUME PayloadAssumption ==
    Payload \subseteq SendPayload \cup TopUpPayload \cup ReadPayload
ASSUME OpeningAssumption ==
    /\ MaxBalance \in Nat
    /\ Opening \in [Wallet -> Row]
    /\ \A w \in Wallet : Opening[w].version >= 1
ASSUME FaultsAssumption == Faults \subseteq {"redis", "db", "crash"}

VARIABLES
    req,      \* req[r]: the body of request r
    pc,       \* pc[r]: the next await of its handler
    status,   \* status[r]: how it ends ("none" until known)
    attempt,  \* attempt[r]: the loop variable of the retry loop
    receipt   \* receipt[r]: the transaction the client is answered with

requestVars == <<req, pc, status, attempt, receipt>>

\* A row of the transactions table.  Its id is fresh in every attempt and at
\* most one attempt of a request commits, so the request stands for the id.
Txn ==
    [by : Request, sender : Wallet, receiver : Wallet,
     amount : Nat \ {0}, key : Key]

ASSUME NoTxnAssumption == NoTxn \notin Txn

SendLabel ==
    {"check_key", "find_txn", "load_sender", "load_receiver", "lock_first",
     "lock_second", "debit", "credit", "record", "commit", "refresh",
     "store_key", "invalidate", "lookup"}
TopUpLabel ==
    {"topup_load", "topup_update", "topup_commit", "topup_invalidate",
     "topup_refresh"}
ReadLabel == {"read_load", "read_cache", "read_fill"}
Label ==
    SendLabel \cup TopUpLabel \cup ReadLabel
        \cup {"start", "rollback", "done", "crashed"}

\* The exceptions of core/exceptions.py, the driver's IntegrityError, and
\* "error" for anything the global handler turns into a 500.
Status ==
    {"none", "ok", "WalletNotFound", "SelfTransfer", "InsufficientBalance",
     "OptimisticLock", "DuplicateTransaction", "IntegrityError", "error"}

Sends == {r \in Request : req[r].kind = "send"}
TopUps == {r \in Request : req[r].kind = "topup"}
Reads == {r \in Request : req[r].kind = "read"}

RequestInit ==
    /\ req \in [Request -> Payload]
    /\ pc = [r \in Request |-> "start"]
    /\ status = [r \in Request |-> "none"]
    /\ attempt = [r \in Request |-> 1]
    /\ receipt = [r \in Request |-> NoTxn]

\* The handler goes on to its next await.
Goto(r, label) ==
    /\ pc' = [pc EXCEPT ![r] = label]
    /\ UNCHANGED <<req, status, attempt, receipt>>

\* The handler raises: what the session did is rolled back next, either by an
\* except clause or by session.close() when get_db unwinds.
Fail(r, exception) ==
    /\ pc' = [pc EXCEPT ![r] = "rollback"]
    /\ status' = [status EXCEPT ![r] = exception]
    /\ UNCHANGED <<req, attempt, receipt>>

\* The handler returns or raises to the client.
Answer(r, outcome, txn) ==
    /\ pc' = [pc EXCEPT ![r] = "done"]
    /\ status' = [status EXCEPT ![r] = outcome]
    /\ receipt' = [receipt EXCEPT ![r] = txn]
    /\ UNCHANGED <<req, attempt>>

RequestTypeOK ==
    /\ req \in [Request -> Payload]
    /\ pc \in [Request -> Label]
    /\ status \in [Request -> Status]
    /\ attempt \in [Request -> Nat]
    /\ receipt \in [Request -> Txn \cup {NoTxn}]

InFlight(r) == pc[r] \notin {"start", "done", "crashed"}
===============================================================================
