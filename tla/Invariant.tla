-------------------------------- MODULE Invariant --------------------------------
(***************************************************************************)
(* The inductive invariant of PaymentSystem, in the layers its proof is    *)
(* built in: each is inductive given the ones before it.                   *)
(***************************************************************************)
EXTENDS PaymentSystem

\* Labels of send_money at which the sender's wallet, and then both wallets,
\* are known to exist and to differ.
HasSender == SendLabel \ {"check_key", "find_txn", "load_sender"}
HasBoth == HasSender \ {"load_receiver"}

BothWallets(r) ==
    /\ {req[r].caller, req[r].to} \subseteq Wallet
    /\ req[r].caller # req[r].to

\* Layer 1.  A request runs its own handler, past the checks it has made.
MayBeAt(r, label, exception) ==
    /\ label \in SendLabel => req[r].kind = "send"
    /\ label \in TopUpLabel => req[r].kind = "topup"
    /\ label \in ReadLabel => req[r].kind = "read"
    /\ label \in HasSender \cup (TopUpLabel \ {"topup_load"})
                  \cup (ReadLabel \ {"read_load"})
          => req[r].caller \in Wallet
    /\ label \in HasBoth => BothWallets(r)
    /\ label = "rollback" =>
          /\ exception \in {"InsufficientBalance", "OptimisticLock",
                            "IntegrityError", "error"}
          /\ req[r].kind = "send" /\ exception # "error" => BothWallets(r)

ControlOK == \A r \in Request : MayBeAt(r, pc[r], status[r])

\* Layer 2.  Who holds which lock at which step.
LocksAreHeld ==
    \A r \in Request :
        /\ pc[r] = "lock_second" => rowLock[FirstLocked(r)] = r
        /\ pc[r] \in {"debit", "credit", "record", "commit"} =>
              rowLock[req[r].caller] = r /\ rowLock[req[r].to] = r
        /\ pc[r] = "topup_commit" => rowLock[req[r].caller] = r

\* Layer 3.  What the holder of a lock has written to the row so far.
Debited(r, w) == pc[r] \in {"credit", "record", "commit"} /\ w = req[r].caller
Credited(r, w) ==
    \/ pc[r] \in {"record", "commit"} /\ w = req[r].to
    \/ pc[r] = "topup_commit" /\ w = req[r].caller

RowOK(w) ==
    LET r == rowLock[w] IN
    /\ wallets[w].version >= 1
    /\ latest[w].version >= 1
    /\ r = NoRequest => latest[w] = wallets[w]
    /\ r # NoRequest /\ pc[r] # "rollback" =>
          /\ Debited(r, w) =>
                latest[w] = [balance |-> wallets[w].balance - req[r].amount,
                             version |-> wallets[w].version + 1]
          /\ Credited(r, w) =>
                latest[w] = [balance |-> wallets[w].balance + req[r].amount,
                             version |-> wallets[w].version + 1]
          /\ ~Debited(r, w) /\ ~Credited(r, w) => latest[w] = wallets[w]

RowsOK == \A w \in Wallet : RowOK(w)

\* Layer 4.  A row that was read is committed, now or earlier; the version tells.
IsCommitted(row, w) ==
    /\ row.version <= wallets[w].version
    /\ row.version = wallets[w].version => row = wallets[w]

ViewOK(r, w) ==
    Loaded(r, w) =>
        \/ IsCommitted(view[r][w], w)
        \/ rowLock[w] = r /\ view[r][w] = latest[w]

ViewsOK == \A r \in Request, w \in Wallet : ViewOK(r, w)

\* Layer 5.  Transactions, flushed and committed, and top-ups.
PendingOK ==
    /\ \A t \in pending : t = Record(t.by) /\ pc[t.by] \in {"commit", "rollback"}
    /\ \A r \in Request : pc[r] = "commit" => Record(r) \in pending

\* The request has committed what it does, and is not going to refuse.
Committed(r) ==
    \/ pc[r] \in {"refresh", "store_key", "invalidate", "topup_invalidate",
                  "topup_refresh", "crashed"}
    \/ pc[r] \in {"rollback", "done"} /\ status[r] \in {"ok", "error"}

HistoryOK ==
    /\ \A t \in transactions : t = Record(t.by) /\ Committed(t.by)
    /\ \A d \in deposits : d = DepositOf(d.by) /\ Committed(d.by)

KeysAreUnique ==
    /\ \A t, u \in pending \cup transactions : t.key = u.key => t = u
    /\ pending \cap transactions = {}

\* Layer 6.  What the answers rest on.
KeyCommitted(r) == \E t \in transactions : t.key = req[r].key
AnswersOK ==
    \A r \in Request :
        /\ pc[r] \in {"refresh", "store_key", "invalidate"} =>
              Record(r) \in transactions
        /\ pc[r] = "lookup" => KeyCommitted(r)
        /\ pc[r] = "rollback" /\ req[r].kind = "send" /\ status[r] = "IntegrityError"
              => KeyCommitted(r)

IInv ==
    /\ TypeOK
    /\ ControlOK
    /\ LocksAreOwned
    /\ LocksAreHeld
    /\ RowsOK
    /\ ViewsOK
    /\ CacheIsCommitted
    /\ PendingOK
    /\ HistoryOK
    /\ KeysAreUnique
    /\ AnswersOK
    /\ AnswersAreDurable
===============================================================================
