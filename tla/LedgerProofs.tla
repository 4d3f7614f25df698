------------------------------ MODULE LedgerProofs ------------------------------
(***************************************************************************)
(* The recorded history, the answers given, and that the system keeps the  *)
(* ledger of module Ledger (layers 5 and 6 of Invariant, refinement).      *)
(***************************************************************************)
EXTENDS StoreProofs

HistInv == PendingOK /\ HistoryOK /\ KeysAreUnique

-------------------------------------------------------------------------------
(* Layer 5: flushed and committed transactions, top-ups.                   *)

CommitStep(r) ==
    \/ CommitTransfer(r) \/ CommitUnacknowledged(r)
    \/ CommitTopUp(r) \/ CommitTopUpUnacknowledged(r)

\* A step that leaves the history alone does not leave a transaction behind.
QuietStep(r) ==
    /\ UNCHANGED <<transactions, pending, deposits>>
    /\ pc[r] # "rollback"
    /\ pc[r] = "commit" => pc'[r] = "rollback"
    /\ pc'[r] # "commit"

\* The four things a step can do to the history.
LEMMA HistoryStep ==
    ASSUME TypeInv, NEW r \in Request, Step(r) \/ Environment(r)
    PROVE  \/ QuietStep(r)
           \/ /\ pc[r] = "record" /\ pc'[r] = "commit"
              /\ create_transaction(r, Record(r), "commit")
              /\ pending' = pending \cup {Record(r)}
              /\ \A t \in pending \cup transactions : t.key # req[r].key
              /\ UNCHANGED <<transactions, deposits>>
           \/ CommitStep(r)
           \/ rollback(r) /\ pc'[r] \notin {"commit", "rollback"}
<1>. USE DEF QuietStep
<1>0. pc \in [Request -> Label]
    BY DEF TypeInv, TypeOK, RequestTypeOK
<1>1. CASE SendMoney(r) \/ CheckKey(r) \/ FindTxn(r) \/ ExpiredAccess(r)
        \/ InsufficientBalance(r) \/ RefreshTransaction(r) \/ StoreKey(r)
        \/ LookupExisting(r) \/ TopUp(r) \/ InvalidateForTopUp(r)
        \/ GetWallet(r) \/ MissCache(r) \/ DbError(r)
    BY <1>0, <1>1
       DEF SendMoney, CheckKey, FindTxn, ExpiredAccess, InsufficientBalance,
           RefreshTransaction, StoreKey, LookupExisting, TopUp,
           InvalidateForTopUp, GetWallet, MissCache, DbError, SendDbLabel,
           WalletDbLabel, storeVars, Goto, Fail, Answer
<1>2. CASE LoadSender(r) \/ LoadReceiver(r) \/ LoadForTopUp(r) \/ LoadForRead(r)
        \/ InvalidateBalances(r) \/ RefreshForTopUp(r) \/ ServeFromCache(r)
        \/ FillCache(r)
    BY <1>0, <1>2
       DEF LoadSender, LoadReceiver, LoadForTopUp, LoadForRead,
           InvalidateBalances, RefreshForTopUp, ServeFromCache, FillCache,
           get_by_user_id, CloseSession, tableVars, storeVars, Goto, Fail,
           Answer
<1>3. CASE LockFirst(r) \/ LockSecond(r) \/ DebitSender(r) \/ CreditReceiver(r)
        \/ UpdateForTopUp(r)
    BY <1>0, <1>3
       DEF LockFirst, LockSecond, DebitSender, CreditReceiver, UpdateForTopUp,
           get_by_id_for_update, update_balance, Goto, Fail
<1>4. CASE RecordTransaction(r)
    BY <1>0, <1>4 DEF RecordTransaction, create_transaction, Record, Goto, Fail
<1>5. CASE CommitStep(r)
    BY <1>5
<1>6. CASE RollbackSend(r) \/ RollbackTopUp(r) \/ RollbackRead(r) \/ Crash(r)
    BY <1>0, <1>6
       DEF RollbackSend, RollbackTopUp, RollbackRead, Crash, Goto, Answer
<1>. QED
    BY <1>1, <1>2, <1>3, <1>4, <1>5, <1>6
       DEF Step, SendStep, WalletStep, Environment, CommitStep

\* Where a handler goes once it has committed.
LEMMA AfterCommit ==
    ASSUME NEW r \in Request, Step(r) \/ Environment(r), Committed(r)
    PROVE  \/ RefreshTransaction(r) \/ StoreKey(r) \/ InvalidateBalances(r)
           \/ InvalidateForTopUp(r) \/ RefreshForTopUp(r)
           \/ RollbackSend(r) \/ RollbackTopUp(r) \/ RollbackRead(r)
           \/ DbError(r) \/ Crash(r)
BY
   DEF Committed, Step, SendStep, WalletStep, Environment, SendMoney, CheckKey,
       FindTxn, LoadSender, LoadReceiver, LockFirst, ExpiredAccess, LockSecond,
       InsufficientBalance, DebitSender, CreditReceiver, RecordTransaction,
       CommitTransfer, LookupExisting, TopUp, LoadForTopUp, UpdateForTopUp,
       CommitTopUp, GetWallet, LoadForRead, ServeFromCache, MissCache,
       FillCache, CommitUnacknowledged, CommitTopUpUnacknowledged

\* What has been committed is not refused afterwards.
LEMMA CommittedStays ==
    ASSUME TypeInv, NEW r \in Request, Step(r) \/ Environment(r),
           NEW p \in Request, Committed(p)
    PROVE  Committed(p)'
<1>0. /\ pc \in [Request -> Label] /\ status \in [Request -> Status]
      /\ MayBeAt(r, pc[r], status[r]) /\ Moves(r)
    BY StepFrame DEF TypeInv, TypeOK, RequestTypeOK, ControlOK
<1>1. CASE p # r
    BY <1>0, <1>1 DEF Moves, Committed
<1>2. CASE p = r
  <2>1. CASE RefreshTransaction(r) \/ StoreKey(r) \/ InvalidateBalances(r)
             \/ InvalidateForTopUp(r) \/ RefreshForTopUp(r)
    BY <1>0, <1>2, <2>1
       DEF RefreshTransaction, StoreKey, InvalidateBalances,
           InvalidateForTopUp, RefreshForTopUp, Committed, Goto, Fail, Answer
  <2>2. CASE RollbackSend(r) \/ RollbackTopUp(r) \/ RollbackRead(r)
    BY <1>0, <1>2, <2>2
       DEF RollbackSend, RollbackTopUp, RollbackRead, Committed, MayBeAt,
           Answer
  <2>3. CASE DbError(r) \/ Crash(r)
    BY <1>0, <1>2, <2>3 DEF DbError, Crash, Committed, Goto, Fail
  <2>. QED
    BY <1>2, <2>1, <2>2, <2>3, AfterCommit
<1>. QED
    BY <1>1, <1>2

\* After a commit, acknowledged or not, the handler counts as committed.
LEMMA CommitCommits ==
    ASSUME TypeInv, NEW r \in Request, CommitStep(r)
    PROVE  /\ commit(r) /\ Committed(r)'
           /\ \/ pc[r] = "commit" /\ req[r].kind = "send"
              \/ pc[r] = "topup_commit" /\ req[r].kind = "topup"
           /\ pc'[r] # "commit"
<1>0. /\ pc \in [Request -> Label] /\ status \in [Request -> Status]
      /\ MayBeAt(r, pc[r], status[r])
    BY DEF TypeInv, TypeOK, RequestTypeOK, ControlOK
<1>1. CASE CommitTransfer(r) \/ CommitUnacknowledged(r)
  <2>1. commit(r) /\ pc[r] = "commit" /\ (Goto(r, "refresh") \/ Fail(r, "error"))
    BY <1>1 DEF CommitTransfer, CommitUnacknowledged
  <2>2. req[r].kind = "send"
    BY <1>0, <2>1 DEF MayBeAt, SendLabel
  <2>3. pc'[r] # "commit" /\ Committed(r)'
    BY <1>0, <2>1 DEF Goto, Fail, Committed
  <2>. QED
    BY <2>1, <2>2, <2>3
<1>2. CASE CommitTopUp(r) \/ CommitTopUpUnacknowledged(r)
  <2>1. /\ commit(r) /\ pc[r] = "topup_commit"
        /\ Goto(r, "topup_invalidate") \/ Fail(r, "error")
    BY <1>2 DEF CommitTopUp, CommitTopUpUnacknowledged
  <2>. QED
    BY <1>0, <2>1 DEF Goto, Fail, Committed, MayBeAt, TopUpLabel
<1>. QED
    BY <1>1, <1>2 DEF CommitStep

\* A step keeps the transactions, flushed and committed, and the top-ups
\* those of requests that have written them, one per key.
LEMMA HistInvStep ==
    ASSUME TypeInv, TypeInv', HistInv, NEW r \in Request, Step(r) \/ Environment(r)
    PROVE  HistInv'
<1>0. /\ pc \in [Request -> Label]
      /\ \A t \in pending \cup transactions : t.by \in Request
      /\ \A d \in deposits : d.by \in Request
      /\ UNCHANGED req
      /\ \A p \in Request \ {r} : pc'[p] = pc[p]
      /\ \A p \in Request : Record(p)' = Record(p) /\ DepositOf(p)' = DepositOf(p)
    BY StepFrame
       DEF TypeInv, TypeOK, RequestTypeOK, StoreTypeOK, Txn, Deposit, Moves,
           Record, DepositOf
<1>1. \A p \in Request : Committed(p) => Committed(p)'
    BY CommittedStays
<1>. USE DEF HistInv
<1>2. CASE QuietStep(r)
  <2>1. PendingOK'
    BY <1>0, <1>2 DEF QuietStep, PendingOK
  <2>2. HistoryOK'
    BY <1>0, <1>1, <1>2 DEF QuietStep, HistoryOK
  <2>. QED
    BY <1>2, <2>1, <2>2 DEF QuietStep, KeysAreUnique
<1>3. CASE /\ pc[r] = "record" /\ pc'[r] = "commit"
           /\ pending' = pending \cup {Record(r)}
           /\ \A t \in pending \cup transactions : t.key # req[r].key
           /\ UNCHANGED <<transactions, deposits>>
  <2>1. Record(r).by = r /\ Record(r).key = req[r].key
    BY DEF Record
  <2>2. PendingOK'
    BY <1>0, <1>3, <2>1 DEF PendingOK
  <2>3. HistoryOK'
    BY <1>0, <1>1, <1>3 DEF HistoryOK
  <2>4. KeysAreUnique'
    BY <1>3, <2>1 DEF KeysAreUnique
  <2>. QED
    BY <2>2, <2>3, <2>4
<1>4. CASE CommitStep(r)
  <2>1. /\ transactions' = transactions \cup {t \in pending : t.by = r}
        /\ pending' = {t \in pending : t.by # r}
        /\ deposits' \subseteq deposits \cup {DepositOf(r)}
        /\ Committed(r)'
        /\ pc'[r] # "commit"
    BY <1>4, CommitCommits DEF commit
  <2>2. PendingOK'
    BY <1>0, <2>1 DEF PendingOK, Record
  <2>3. DepositOf(r).by = r
    BY DEF DepositOf
  <2>4. HistoryOK'
    BY <1>0, <1>1, <2>1, <2>3 DEF HistoryOK, PendingOK
  <2>5. KeysAreUnique'
    BY <2>1 DEF KeysAreUnique
  <2>. QED
    BY <2>2, <2>4, <2>5
<1>5. CASE rollback(r) /\ pc'[r] \notin {"commit", "rollback"}
  <2>1. /\ pending' = {t \in pending : t.by # r}
        /\ UNCHANGED <<transactions, deposits>>
    BY <1>5 DEF rollback
  <2>2. PendingOK'
    BY <1>0, <1>5, <2>1 DEF PendingOK, Record
  <2>3. HistoryOK'
    BY <1>0, <1>1, <2>1 DEF HistoryOK
  <2>4. KeysAreUnique'
    BY <2>1 DEF KeysAreUnique
  <2>. QED
    BY <2>2, <2>3, <2>4
<1>. QED
    BY <1>2, <1>3, <1>4, <1>5, HistoryStep

\* Layer 5 holds at all times.
LEMMA HistAlways == Spec => []HistInv
<1>1. Init => HistInv
    BY
       DEF Init, RequestInit, StoreInit, HistInv, PendingOK, HistoryOK,
           KeysAreUnique
<1>2. TypeInv /\ TypeInv' /\ HistInv /\ [Next]_vars => HistInv'
  <2>. SUFFICES ASSUME TypeInv, TypeInv', HistInv, [Next]_vars
                PROVE  HistInv'
    OBVIOUS
  <2>1. CASE UNCHANGED vars \/ Expire
    <3>1. UNCHANGED <<requestVars, storeVars>>
      BY <2>1 DEF vars, Expire
    <3>. QED
      BY <3>1
         DEF requestVars, storeVars, HistInv, PendingOK, HistoryOK,
             KeysAreUnique, Record, DepositOf, Committed
  <2>. QED
    BY <2>1, HistInvStep DEF Next
<1>. QED
    BY <1>1, <1>2, TypeCorrect, PTL DEF Spec, TypeInv

\* A refusal means that the request moved no money: whatever interleaves, fails
\* or dies, no answer of send_money or top_up other than success and 500 is
\* given once its commit has happened.
THEOREM RefusalsAreTrue == Spec => []RefusalMovesNoMoney
<1>1. TypeInv /\ HistInv => RefusalMovesNoMoney
    BY
       DEF TypeInv, TypeOK, StoreTypeOK, Txn, Deposit, HistInv, HistoryOK,
           Committed, RefusalMovesNoMoney, Refusals
<1>. QED
    BY <1>1, TypeCorrect, HistAlways, PTL DEF TypeInv

\* What took effect is on its way to a success, or its instance has died.
Undoubted(r) ==
    \/ pc[r] \in {"refresh", "store_key", "invalidate", "topup_invalidate",
                  "topup_refresh", "crashed"}
    \/ pc[r] = "done" /\ status[r] = "ok"

DoubtInv ==
    {"redis", "db"} \cap Faults = {} =>
        \A change \in transactions \cup deposits : Undoubted(change.by)

\* From the commit on, nothing but a failure leads away from the success.
LEMMA UndoubtedStays ==
    ASSUME TypeInv, NEW r \in Request, Step(r) \/ Environment(r),
           {"redis", "db"} \cap Faults = {}
    PROVE  /\ \A p \in Request : Undoubted(p) => Undoubted(p)'
           /\ CommitStep(r) => Undoubted(r)'
<1>0. /\ pc \in [Request -> Label] /\ status \in [Request -> Status] /\ Moves(r)
    BY StepFrame DEF TypeInv, TypeOK, RequestTypeOK
<1>1. CommitStep(r) => Undoubted(r)'
    BY <1>0
       DEF CommitStep, CommitTransfer, CommitUnacknowledged, CommitTopUp,
           CommitTopUpUnacknowledged, Goto, Undoubted
<1>2. \A p \in Request \ {r} : Undoubted(p) => Undoubted(p)'
    BY <1>0 DEF Moves, Undoubted
<1>3. ASSUME Undoubted(r)
      PROVE  Undoubted(r)'
  <2>1. Committed(r) /\ pc[r] # "rollback"
    BY <1>3 DEF Undoubted, Committed
  <2>2. \/ RefreshTransaction(r) \/ StoreKey(r) \/ InvalidateBalances(r)
        \/ InvalidateForTopUp(r) \/ RefreshForTopUp(r) \/ Crash(r)
    BY <2>1, AfterCommit DEF RollbackSend, RollbackTopUp, RollbackRead, DbError
  <2>. QED
    BY <1>0, <2>2
       DEF RefreshTransaction, StoreKey, InvalidateBalances,
           InvalidateForTopUp, RefreshForTopUp, Crash, Goto, Answer, Undoubted
<1>. QED
    BY <1>1, <1>2, <1>3

\* A 500 for a payment or top-up that took effect takes a failure of Redis or of
\* the database: conflicts, waits, retries and crashes of others never lead from
\* the commit to an error (send_money, top_up).
THEOREM DoubtNeedsAFailure == Spec => []DoubtTakesAFailure
<1>1. Init => DoubtInv
    BY DEF Init, StoreInit, DoubtInv
<1>2. TypeInv /\ DoubtInv /\ [Next]_vars => DoubtInv'
  <2>. SUFFICES ASSUME TypeInv, DoubtInv, [Next]_vars,
                       {"redis", "db"} \cap Faults = {},
                       NEW change \in transactions' \cup deposits'
                PROVE  Undoubted(change.by)'
    BY DEF DoubtInv
  <2>0. \A c \in transactions \cup deposits : c.by \in Request /\ Undoubted(c.by)
    BY DEF TypeInv, TypeOK, StoreTypeOK, Txn, Deposit, DoubtInv
  <2>1. CASE UNCHANGED vars \/ Expire
    <3>1. UNCHANGED <<requestVars, storeVars>>
      BY <2>1 DEF vars, Expire
    <3>. QED
      BY <2>0, <3>1 DEF requestVars, storeVars, Undoubted
  <2>2. ASSUME NEW r \in Request, Step(r) \/ Environment(r)
        PROVE  Undoubted(change.by)'
    <3>1. CASE change \in transactions \cup deposits
      BY <2>0, <2>2, <3>1, UndoubtedStays
    <3>2. CASE change \notin transactions \cup deposits
      <4>1. CommitStep(r)
        BY <2>2, <3>2, HistoryStep DEF QuietStep, rollback
      <4>2. change.by = r
        BY <2>2, <3>2, <4>1, CommitCommits DEF commit, DepositOf
      <4>. QED
        BY <2>2, <4>1, <4>2, UndoubtedStays
    <3>. QED
      BY <3>1, <3>2
  <2>. QED
    BY <2>1, <2>2 DEF Next
<1>3. DoubtInv => DoubtTakesAFailure
    BY DEF DoubtInv, DoubtTakesAFailure, Undoubted
<1>. QED
    BY <1>1, <1>2, <1>3, TypeCorrect, PTL DEF Spec, TypeInv

-------------------------------------------------------------------------------
(* Layer 6: what the answers rest on.                                      *)

AnswerInv == AnswersOK /\ AnswersAreDurable

\* Nothing is ever taken out of the transactions table.
LEMMA TransactionsGrow ==
    ASSUME TypeInv, NEW r \in Request, Step(r) \/ Environment(r)
    PROVE  transactions \subseteq transactions'
BY HistoryStep, CommitCommits DEF QuietStep, commit, rollback

\* A debit or a credit that violates the CHECK on the balance is never asked
\* for: the debit comes after the balance check, the credit only adds.
LEMMA NoCheckViolation ==
    ASSUME TypeInv, NEW r \in Request, DebitSender(r) \/ CreditReceiver(r)
    PROVE  pc'[r] = "rollback" => status'[r] \in {"error", "OptimisticLock"}
<1>. DEFINE C == req[r].caller
            R == req[r].to
<1>0. /\ pc \in [Request -> Label] /\ status \in [Request -> Status]
      /\ view \in [Request -> [Wallet -> Row]]
      /\ MayBeAt(r, pc[r], status[r])
      /\ req[r].kind = "send" => req[r].amount \in Nat \ {0}
    BY PayloadFields DEF TypeInv, TypeOK, RequestTypeOK, StoreTypeOK, ControlOK
<1>1. C \in Wallet /\ R \in Wallet /\ req[r].kind = "send"
    BY <1>0
       DEF DebitSender, CreditReceiver, MayBeAt, BothWallets, HasBoth,
           HasSender, SendLabel
<1>2. /\ view[r][C].balance \in Nat /\ view[r][R].balance \in Nat
      /\ req[r].amount \in Nat
    BY <1>0, <1>1, OpeningAssumption DEF Row
<1>3. CASE DebitSender(r)
  <2>. DEFINE b == view[r][C].balance - req[r].amount
  <2>1. b \in Int /\ b >= 0 /\ update_balance(r, C, b, "credit")
    BY <1>2, <1>3 DEF DebitSender
  <2>. HIDE DEF b
  <2>. QED
    BY <1>0, <1>1, <2>1, UpdateTyping DEF Goto, Fail, TypeInv, TypeOK
<1>4. CASE CreditReceiver(r)
  <2>. DEFINE b == view[r][R].balance + req[r].amount
  <2>1. b \in Int /\ b >= 0 /\ update_balance(r, R, b, "record")
    BY <1>2, <1>4 DEF CreditReceiver
  <2>. HIDE DEF b
  <2>. QED
    BY <1>0, <1>1, <2>1, UpdateTyping DEF Goto, Fail, TypeInv, TypeOK
<1>. QED
    BY <1>3, <1>4

\* A step keeps what the answers rest on: the transaction a handler is about
\* to answer with, or to look up, is committed.
LEMMA AnswersOKStep ==
    ASSUME TypeInv, HistInv, AnswersOK, NEW r \in Request, Step(r) \/ Environment(r)
    PROVE  AnswersOK'
<1>. DEFINE AnswerOK(p) ==
              /\ pc[p] \in {"refresh", "store_key", "invalidate"} =>
                    Record(p) \in transactions
              /\ pc[p] = "lookup" => KeyCommitted(p)
              /\ pc[p] = "rollback" /\ req[p].kind = "send"
                    /\ status[p] = "IntegrityError" => KeyCommitted(p)
<1>0. /\ pc \in [Request -> Label] /\ status \in [Request -> Status]
      /\ UNCHANGED req /\ Moves(r)
      /\ \A p \in Request : Record(p)' = Record(p)
      /\ \A p \in Request : KeyCommitted(p) => KeyCommitted(p)'
      /\ transactions \subseteq transactions'
      /\ MayBeAt(r, pc[r], status[r])
    BY StepFrame, TransactionsGrow
       DEF TypeInv, TypeOK, RequestTypeOK, ControlOK, Moves, Record,
           KeyCommitted
<1>1. \A p \in Request \ {r} : AnswerOK(p)'
    BY <1>0 DEF AnswersOK, Moves
<1>. SUFFICES AnswerOK(r)'
    BY <1>1 DEF AnswersOK
<1>2. CASE pc'[r] \notin {"refresh", "store_key", "invalidate", "lookup", "rollback"}
    BY <1>2
<1>3. CASE pc'[r] = "rollback" /\ (req[r].kind # "send" \/ status'[r] # "IntegrityError")
    BY <1>0, <1>3
<1>4. CASE SendMoney(r) \/ CheckKey(r) \/ FindTxn(r) \/ LoadSender(r) \/ LoadReceiver(r)
        \/ LockFirst(r) \/ ExpiredAccess(r) \/ LockSecond(r) \/ InsufficientBalance(r)
        \/ InvalidateBalances(r) \/ LookupExisting(r)
    BY <1>0, <1>2, <1>3, <1>4
       DEF SendMoney, CheckKey, FindTxn, LoadSender, LoadReceiver, LockFirst,
           ExpiredAccess, LockSecond, InsufficientBalance, InvalidateBalances,
           LookupExisting, Goto, Fail, Answer
<1>5. CASE DebitSender(r) \/ CreditReceiver(r)
  <2>1. pc'[r] \in {"credit", "record", "rollback"}
    BY <1>0, <1>5 DEF DebitSender, CreditReceiver, update_balance, Goto, Fail
  <2>. QED
    BY <1>2, <1>3, <1>5, <2>1, NoCheckViolation
<1>6. CASE RecordTransaction(r)
  <2>1. CASE pc'[r] = "commit"
    BY <1>2, <2>1
  <2>2. CASE pc'[r] = "rollback"
    <3>1. KeyCommitted(r)
      BY <1>0, <1>6, <2>2
         DEF RecordTransaction, create_transaction, Record, Goto, KeyCommitted
    <3>. QED
      BY <1>0, <2>2, <3>1
  <2>. QED
    BY <1>0, <1>6, <2>1, <2>2
       DEF RecordTransaction, create_transaction, Goto, Fail
<1>7. CASE CommitTransfer(r)
  <2>1. Record(r) \in {t \in pending : t.by = r} /\ pc'[r] = "refresh"
    BY <1>0, <1>7 DEF CommitTransfer, Goto, HistInv, PendingOK, Record
  <2>2. Record(r)' \in transactions'
    BY <1>0, <1>7, <2>1 DEF CommitTransfer, commit
  <2>. QED
    BY <2>1, <2>2
<1>8. CASE RefreshTransaction(r) \/ StoreKey(r)
    BY <1>0, <1>8 DEF RefreshTransaction, StoreKey, Goto, AnswersOK
<1>9. CASE RollbackSend(r)
  <2>1. CASE status[r] = "IntegrityError"
    BY <1>0, <1>9, <2>1 DEF RollbackSend, Goto, AnswersOK
  <2>2. CASE status[r] # "IntegrityError"
    BY <1>0, <1>2, <1>9, <2>2 DEF RollbackSend, Answer
  <2>. QED
    BY <2>1, <2>2
<1>10. CASE WalletStep(r)
  <2>1. req[r].kind # "send"
    BY <1>0, <1>10
       DEF WalletStep, TopUp, LoadForTopUp, UpdateForTopUp, CommitTopUp,
           InvalidateForTopUp, RefreshForTopUp, RollbackTopUp, GetWallet,
           LoadForRead, ServeFromCache, MissCache, FillCache, RollbackRead,
           MayBeAt, TopUpLabel, ReadLabel
  <2>2. pc'[r] \notin {"refresh", "store_key", "invalidate", "lookup"}
    BY <1>0, <1>10
       DEF WalletStep, TopUp, LoadForTopUp, UpdateForTopUp, update_balance,
           CommitTopUp, InvalidateForTopUp, RefreshForTopUp, RollbackTopUp,
           GetWallet, LoadForRead, ServeFromCache, MissCache, FillCache,
           RollbackRead, Goto, Fail, Answer
  <2>. QED
    BY <1>2, <1>3, <2>1, <2>2
<1>11. CASE Environment(r)
    BY <1>0, <1>2, <1>3, <1>11
       DEF Environment, DbError, CommitUnacknowledged,
           CommitTopUpUnacknowledged, Crash, Goto, Fail
<1>. QED
    BY <1>4, <1>5, <1>6, <1>7, <1>8, <1>9, <1>10, <1>11 DEF Step, SendStep

\* A transaction a client is answered with is committed, and has its key.
LEMMA ReceiptStep ==
    ASSUME TypeInv, AnswerInv, NEW r \in Request, Step(r) \/ Environment(r)
    PROVE  /\ receipt'[r] # NoTxn =>
                 receipt'[r] \in transactions /\ receipt'[r].key = req[r].key
           /\ req[r].kind = "send" /\ pc'[r] = "done" /\ status'[r] = "ok"
                 => receipt'[r] # NoTxn
<1>0. /\ pc \in [Request -> Label] /\ status \in [Request -> Status]
      /\ receipt \in [Request -> Txn \cup {NoTxn}]
      /\ MayBeAt(r, pc[r], status[r])
      /\ NoTxn \notin transactions
      /\ req[r].kind = "send" => req[r].key \in Key
      /\ receipt[r] # NoTxn =>
            receipt[r] \in transactions /\ receipt[r].key = req[r].key
    BY NoTxnAssumption, PayloadFields
       DEF TypeInv, TypeOK, RequestTypeOK, StoreTypeOK, ControlOK, AnswerInv,
           AnswersAreDurable
<1>1. CASE UNCHANGED receipt /\ pc'[r] # "done"
    BY <1>0, <1>1
<1>2. CASE receipt'[r] = NoTxn /\ (status'[r] # "ok" \/ req[r].kind # "send")
    BY <1>2
<1>3. CASE SendMoney(r) \/ LockFirst(r) \/ ExpiredAccess(r) \/ LockSecond(r)
        \/ InsufficientBalance(r) \/ DebitSender(r) \/ CreditReceiver(r)
        \/ RecordTransaction(r) \/ CommitTransfer(r) \/ RefreshTransaction(r)
        \/ StoreKey(r)
    BY <1>0, <1>1, <1>3
       DEF SendMoney, LockFirst, ExpiredAccess, LockSecond,
           InsufficientBalance, DebitSender, CreditReceiver, update_balance,
           RecordTransaction, create_transaction, CommitTransfer,
           RefreshTransaction, StoreKey, Goto, Fail
<1>4. CASE CheckKey(r)
  <2>1. CASE Goto(r, "find_txn")
    BY <1>0, <1>1, <2>1 DEF Goto
  <2>2. CASE Answer(r, "ok", idempotency[req[r].key]) /\ idempotency[req[r].key] # NoTxn
    <3>1. req[r].key \in Key
      BY <1>0, <1>4 DEF CheckKey, MayBeAt, SendLabel
    <3>. QED
      BY <1>0, <2>2, <3>1 DEF Answer, AnswerInv, AnswersAreDurable
  <2>. QED
    BY <1>4, <2>1, <2>2 DEF CheckKey
<1>5. CASE FindTxn(r)
    BY <1>0, <1>1, <1>5, KeyLookup DEF FindTxn, Goto, Answer
<1>6. CASE LoadSender(r) \/ LoadReceiver(r)
    BY <1>0, <1>1, <1>2, <1>6 DEF LoadSender, LoadReceiver, Goto, Answer
<1>7. CASE InvalidateBalances(r)
  <2>1. /\ Record(r) \in transactions /\ Record(r).key = req[r].key
        /\ Record(r) # NoTxn
    BY <1>0, <1>7 DEF InvalidateBalances, AnswerInv, AnswersOK, Record
  <2>. QED
    BY <1>0, <1>1, <1>7, <2>1 DEF InvalidateBalances, Answer, Fail
<1>8. CASE RollbackSend(r)
    BY <1>0, <1>1, <1>2, <1>8 DEF RollbackSend, Goto, Answer, MayBeAt
<1>9. CASE LookupExisting(r)
  <2>1. KeyCommitted(r)
    BY <1>9 DEF LookupExisting, AnswerInv, AnswersOK
  <2>. QED
    BY <1>0, <1>9, <2>1, KeyLookup DEF LookupExisting, Answer, KeyCommitted
<1>10. CASE WalletStep(r)
  <2>1. req[r].kind # "send"
    BY <1>0, <1>10
       DEF WalletStep, TopUp, LoadForTopUp, UpdateForTopUp, CommitTopUp,
           InvalidateForTopUp, RefreshForTopUp, RollbackTopUp, GetWallet,
           LoadForRead, ServeFromCache, MissCache, FillCache, RollbackRead,
           MayBeAt, TopUpLabel, ReadLabel
  <2>2. receipt'[r] \in {receipt[r], NoTxn}
    BY <1>0, <1>10
       DEF WalletStep, TopUp, LoadForTopUp, UpdateForTopUp, update_balance,
           CommitTopUp, InvalidateForTopUp, RefreshForTopUp, RollbackTopUp,
           GetWallet, LoadForRead, ServeFromCache, MissCache, FillCache,
           RollbackRead, Goto, Fail, Answer
  <2>. QED
    BY <1>0, <2>1, <2>2
<1>11. CASE Environment(r)
    BY <1>0, <1>1, <1>11
       DEF Environment, DbError, CommitUnacknowledged,
           CommitTopUpUnacknowledged, Crash, Goto, Fail
<1>. QED
    BY <1>3, <1>4, <1>5, <1>6, <1>7, <1>8, <1>9, <1>10, <1>11 DEF Step, SendStep

\* Only StoreKey puts a response into Redis.
LEMMA StoredResponses ==
    ASSUME TypeInv, AnswersOK, [Next]_vars, NEW k \in Key,
           idempotency'[k] # NoTxn, idempotency'[k] # idempotency[k]
    PROVE  idempotency'[k] \in transactions /\ idempotency'[k].key = k
<1>0. /\ idempotency \in [Key -> Txn \cup {NoTxn}]
      /\ \A r \in Request : MayBeAt(r, pc[r], status[r])
    BY DEF TypeInv, TypeOK, CacheTypeOK, ControlOK
<1>1. PICK r \in Request : StoreKey(r)
  <2>1. ~UNCHANGED idempotency /\ ~Expire
    BY <1>0 DEF Expire, ExpireBalance, ExpireKey
  <2>2. \A r \in Request : ~Environment(r) /\ ~WalletStep(r)
    BY <2>1
       DEF Environment, DbError, CommitUnacknowledged,
           CommitTopUpUnacknowledged, Crash, WalletStep, TopUp, LoadForTopUp,
           UpdateForTopUp, CommitTopUp, InvalidateForTopUp, invalidate_balance,
           RefreshForTopUp, RollbackTopUp, GetWallet, LoadForRead,
           ServeFromCache, MissCache, FillCache, set_balance, RollbackRead,
           cacheVars
  <2>3. \A r \in Request : SendStep(r) => StoreKey(r)
    BY <2>1
       DEF SendStep, SendMoney, CheckKey, FindTxn, LoadSender, LoadReceiver,
           LockFirst, ExpiredAccess, LockSecond, InsufficientBalance,
           DebitSender, CreditReceiver, RecordTransaction, CommitTransfer,
           RefreshTransaction, InvalidateBalances, RollbackSend,
           LookupExisting, cacheVars
  <2>. QED
    BY <2>1, <2>2, <2>3 DEF Next, Step, vars, cacheVars
<1>2. idempotency'[k] = Record(r) /\ k = req[r].key
    BY <1>0, <1>1 DEF StoreKey, store_key
<1>. QED
    BY <1>1, <1>2 DEF StoreKey, AnswersOK, Record

\* Layer 6 holds at all times, and answers are durable.
LEMMA AnswerAlways == Spec => []AnswerInv
<1>1. Init => AnswerInv
  <2>. SUFFICES ASSUME Init
                PROVE  AnswerInv
    OBVIOUS
  <2>1. /\ \A r \in Request : pc[r] = "start" /\ receipt[r] = NoTxn
        /\ \A k \in Key : idempotency[k] = NoTxn
        /\ transactions = {}
    BY DEF Init, RequestInit, StoreInit, CacheInit
  <2>. QED
    BY <2>1 DEF AnswerInv, AnswersOK, AnswersAreDurable, Sends
<1>2. TypeInv /\ HistInv /\ HistInv' /\ AnswerInv /\ [Next]_vars => AnswerInv'
  <2>. SUFFICES ASSUME TypeInv, HistInv, HistInv', AnswerInv, [Next]_vars
                PROVE  AnswerInv'
    OBVIOUS
  <2>1. transactions \subseteq transactions' /\ UNCHANGED req
    BY TransactionsGrow, StepFrame
       DEF Next, Expire, vars, requestVars, storeVars, Moves
  <2>2. AnswersOK'
    <3>1. CASE UNCHANGED vars \/ Expire
      <4>1. UNCHANGED <<requestVars, storeVars>>
        BY <3>1 DEF vars, Expire
      <4>. QED
        BY <4>1
           DEF requestVars, storeVars, AnswerInv, AnswersOK, KeyCommitted,
               Record
    <3>. QED
      BY <3>1, AnswersOKStep DEF Next, AnswerInv
  <2>3. \A p \in Request : receipt'[p] # NoTxn =>
            receipt'[p] \in transactions /\ receipt'[p].key = req[p].key
    <3>1. CASE UNCHANGED requestVars
      BY <3>1 DEF requestVars, AnswerInv, AnswersAreDurable
    <3>2. ASSUME NEW r \in Request, Step(r) \/ Environment(r)
          PROVE  \A p \in Request : receipt'[p] # NoTxn =>
                     receipt'[p] \in transactions /\ receipt'[p].key = req[p].key
      BY <3>2, ReceiptStep, StepFrame DEF Moves, AnswerInv, AnswersAreDurable
    <3>. QED
      BY <3>1, <3>2 DEF Next, Expire, vars
  <2>4. \A p \in Request : req[p].kind = "send" /\ pc'[p] = "done" /\ status'[p] = "ok"
            => receipt'[p] # NoTxn
    <3>1. CASE UNCHANGED requestVars
      BY <3>1 DEF requestVars, AnswerInv, AnswersAreDurable, Sends
    <3>2. ASSUME NEW r \in Request, Step(r) \/ Environment(r)
          PROVE  \A p \in Request :
                     req[p].kind = "send" /\ pc'[p] = "done" /\ status'[p] = "ok"
                         => receipt'[p] # NoTxn
      BY <3>2, ReceiptStep, StepFrame
         DEF Moves, AnswerInv, AnswersAreDurable, Sends
    <3>. QED
      BY <3>1, <3>2 DEF Next, Expire, vars
  <2>5. \A k \in Key : idempotency'[k] # NoTxn =>
            idempotency'[k] \in transactions /\ idempotency'[k].key = k
    BY StoredResponses DEF AnswerInv, AnswersAreDurable
  <2>6. \A t, u \in transactions' : t.key = u.key => t = u
    BY DEF HistInv, KeysAreUnique
  <2>7. AnswersAreDurable'
    BY <2>1, <2>3, <2>4, <2>5, <2>6 DEF AnswersAreDurable, Sends
  <2>. QED
    BY <2>2, <2>7 DEF AnswerInv
<1>. QED
    BY <1>1, <1>2, TypeCorrect, HistAlways, PTL DEF Spec, TypeInv

\* A payment reported as done is in the transactions table, under the key and
\* with the id reported, and every response Redis replays is too: what
\* send_money answers rests on a commit, with any failures and expiries.
THEOREM AnswersDurable == Spec => []AnswersAreDurable
BY AnswerAlways, PTL DEF AnswerInv

\* DuplicateTransactionException (payment_service.py:145) is never raised: the
\* INSERT fails on a key only once the row with that key is committed.
THEOREM DuplicatesAnswered == Spec => []DuplicateIsAnswered
<1>1. Init => DuplicateIsAnswered
    BY DEF Init, RequestInit, DuplicateIsAnswered
<1>2. TypeInv /\ AnswerInv /\ DuplicateIsAnswered /\ [Next]_vars => DuplicateIsAnswered'
  <2>. SUFFICES ASSUME TypeInv, AnswerInv, DuplicateIsAnswered, [Next]_vars
                PROVE  DuplicateIsAnswered'
    OBVIOUS
  <2>1. CASE UNCHANGED requestVars
    BY <2>1 DEF requestVars, DuplicateIsAnswered
  <2>2. ASSUME NEW r \in Request, Step(r) \/ Environment(r)
        PROVE  DuplicateIsAnswered'
    <3>0. /\ pc \in [Request -> Label] /\ status \in [Request -> Status]
          /\ NoTxn \notin transactions
          /\ Moves(r)
          /\ status[r] # "DuplicateTransaction"
      BY <2>2, StepFrame, NoTxnAssumption
         DEF TypeInv, TypeOK, RequestTypeOK, StoreTypeOK, DuplicateIsAnswered
    <3>. SUFFICES status'[r] # "DuplicateTransaction"
      BY <3>0 DEF Moves, DuplicateIsAnswered
    <3>1. CASE LookupExisting(r)
      <4>1. get_by_idempotency_key(req[r].key) # NoTxn
        BY <3>0, <3>1, KeyLookup
           DEF LookupExisting, AnswerInv, AnswersOK, KeyCommitted
      <4>. QED
        BY <3>0, <3>1, <4>1 DEF LookupExisting, Answer
    <3>2. CASE SendStep(r) /\ ~LookupExisting(r)
      BY <3>0, <3>2
         DEF SendStep, SendMoney, CheckKey, FindTxn, LoadSender, LoadReceiver,
             LockFirst, ExpiredAccess, LockSecond, InsufficientBalance,
             DebitSender, CreditReceiver, update_balance, UpdateOutcome,
             RecordTransaction, create_transaction, CommitTransfer,
             RefreshTransaction, StoreKey, InvalidateBalances, RollbackSend,
             Goto, Fail, Answer
    <3>3. CASE WalletStep(r)
      BY <3>0, <3>3
         DEF WalletStep, TopUp, LoadForTopUp, UpdateForTopUp, update_balance,
             UpdateOutcome, CommitTopUp, InvalidateForTopUp, RefreshForTopUp,
             RollbackTopUp, GetWallet, LoadForRead, ServeFromCache, MissCache,
             FillCache, RollbackRead, Goto, Fail, Answer
    <3>4. CASE Environment(r)
      BY <3>0, <3>4
         DEF Environment, DbError, CommitUnacknowledged,
             CommitTopUpUnacknowledged, Crash, Goto, Fail
    <3>. QED
      BY <2>2, <3>1, <3>2, <3>3, <3>4 DEF Step
  <2>. QED
    BY <2>1, <2>2 DEF Next, Expire, vars
<1>. QED
    BY <1>1, <1>2, TypeCorrect, AnswerAlways, PTL DEF Spec, TypeInv

-------------------------------------------------------------------------------
(* The system keeps the ledger.                                            *)

\* A payment takes effect whole, and only with the funds there: what was
\* written under the locks is the transfer of the committed balances.
LEMMA CommitsATransfer ==
    ASSUME StoreInv, HistInv, NEW r \in Request,
           commit(r), pc[r] = "commit", req[r].kind = "send"
    PROVE  Record(r) \in AskedTxn /\ L!Transfer(Record(r))
<1>. DEFINE C == req[r].caller
            R == req[r].to
            a == req[r].amount
            bal == [w \in Wallet |-> wallets[w].balance]
            new == [w \in Wallet |-> wallets'[w].balance]
<1>0. /\ wallets \in [Wallet -> Row] /\ latest \in [Wallet -> Row]
      /\ req[r] \in Payload /\ a \in Nat \ {0}
      /\ C \in Wallet /\ R \in Wallet /\ C # R
      /\ rowLock[C] = r /\ rowLock[R] = r
      /\ \A w \in Wallet : RowOK(w)
      /\ Record(r) \in pending
  <2>1. BothWallets(r)
    BY DEF StoreInv, TypeInv, ControlOK, MayBeAt, HasBoth, HasSender, SendLabel
  <2>2. req[r] \in Payload /\ a \in Nat \ {0}
    BY PayloadFields DEF StoreInv, TypeInv, TypeOK, RequestTypeOK
  <2>. QED
    BY <2>1, <2>2
       DEF StoreInv, TypeInv, TypeOK, StoreTypeOK, BothWallets, LockInv,
           LocksAreHeld, RowsOK, HistInv, PendingOK
<1>1. Record(r) \in AskedTxn
    BY <1>0 DEF Record, AskedTxn
<1>2. /\ latest[C] = [balance |-> wallets[C].balance - a,
                      version |-> wallets[C].version + 1]
      /\ latest[R] = [balance |-> wallets[R].balance + a,
                      version |-> wallets[R].version + 1]
    BY <1>0, RequestAssumption DEF RowOK, Debited, Credited
<1>3. \A w \in Wallet \ {C, R} : rowLock[w] # r
    BY RequestAssumption DEF StoreInv, LockInv, LocksAreOwned
<1>4. /\ wallets'[C].balance = wallets[C].balance - a
      /\ wallets'[R].balance = wallets[R].balance + a
      /\ \A w \in Wallet \ {C, R} : wallets'[w] = wallets[w]
    BY <1>0, <1>2, <1>3 DEF commit
<1>5. new = [bal EXCEPT ![C] = @ - a, ![R] = @ + a]
    BY <1>0, <1>4
<1>6. bal[C] >= a
  <2>1. latest[C].balance \in Nat /\ latest[C].balance = wallets[C].balance - a
    BY <1>0, <1>2, OpeningAssumption DEF Row
  <2>2. wallets[C].balance \in Nat
    BY <1>0, OpeningAssumption DEF Row
  <2>. QED
    BY <1>0, <2>1, <2>2
<1>7. transactions' = transactions \cup {Record(r)} /\ UNCHANGED deposits
    BY <1>0 DEF commit, HistInv, PendingOK, Record, TopUps
<1>8. \A u \in transactions : u.key # Record(r).key
    BY <1>0 DEF HistInv, KeysAreUnique
<1>9. Record(r).sender = C /\ Record(r).receiver = R /\ Record(r).amount = a
    BY DEF Record
<1>. QED
    BY <1>0, <1>1, <1>5, <1>6, <1>7, <1>8, <1>9 DEF L!Transfer

\* The commit of a top-up is the TopUp of the ledger.
LEMMA CommitsATopUp ==
    ASSUME StoreInv, HistInv, NEW r \in Request,
           commit(r), pc[r] = "topup_commit", req[r].kind = "topup"
    PROVE  DepositOf(r) \in AskedDeposit /\ L!TopUp(DepositOf(r))
<1>. DEFINE C == req[r].caller
            a == req[r].amount
            bal == [w \in Wallet |-> wallets[w].balance]
            new == [w \in Wallet |-> wallets'[w].balance]
<1>0. /\ wallets \in [Wallet -> Row]
      /\ req[r] \in Payload /\ a \in Nat \ {0}
      /\ C \in Wallet /\ rowLock[C] = r
      /\ RowOK(C)
      /\ \A d \in deposits : d.by # r
      /\ \A t \in pending : t.by # r
  <2>1. C \in Wallet
    BY DEF StoreInv, TypeInv, ControlOK, MayBeAt, TopUpLabel
  <2>2. req[r] \in Payload /\ a \in Nat \ {0}
    BY PayloadFields DEF StoreInv, TypeInv, TypeOK, RequestTypeOK
  <2>. QED
    BY <2>1, <2>2
       DEF StoreInv, TypeInv, TypeOK, StoreTypeOK, LockInv, LocksAreHeld,
           RowsOK, HistInv, PendingOK, HistoryOK, Committed
<1>1. DepositOf(r) \in AskedDeposit
    BY <1>0 DEF DepositOf, AskedDeposit
<1>2. latest[C] = [balance |-> wallets[C].balance + a,
                   version |-> wallets[C].version + 1]
    BY <1>0, RequestAssumption DEF RowOK, Debited, Credited
<1>3. \A w \in Wallet \ {C} : rowLock[w] # r
    BY RequestAssumption DEF StoreInv, LockInv, LocksAreOwned
<1>4. /\ wallets'[C].balance = wallets[C].balance + a
      /\ \A w \in Wallet \ {C} : wallets'[w] = wallets[w]
    BY <1>0, <1>2, <1>3 DEF commit
<1>5. new = [bal EXCEPT ![C] = @ + a]
    BY <1>0, <1>4
<1>6. transactions' = transactions /\ deposits' = deposits \cup {DepositOf(r)}
    BY <1>0 DEF commit, TopUps
<1>7. DepositOf(r).by = r /\ DepositOf(r).wallet = C /\ DepositOf(r).amount = a
    BY DEF DepositOf
<1>. QED
    BY <1>0, <1>1, <1>5, <1>6, <1>7 DEF L!TopUp

\* No other step shows in the ledger.
LEMMA OthersStutter ==
    ASSUME [Next]_vars, \A r \in Request : ~CommitStep(r)
    PROVE  UNCHANGED <<wallets, transactions, deposits>>
<1>1. CASE UNCHANGED storeVars
    BY <1>1 DEF storeVars
<1>2. ASSUME NEW r \in Request, SendStep(r)
      PROVE  UNCHANGED <<wallets, transactions, deposits>>
    BY <1>1, <1>2
       DEF SendStep, SendMoney, CheckKey, FindTxn, LoadSender, LoadReceiver,
           LockFirst, ExpiredAccess, LockSecond, InsufficientBalance,
           DebitSender, CreditReceiver, RecordTransaction, RefreshTransaction,
           StoreKey, InvalidateBalances, RollbackSend, LookupExisting,
           CommitStep, get_by_user_id, get_by_id_for_update, update_balance,
           create_transaction, rollback, CloseSession, tableVars
<1>3. ASSUME NEW r \in Request, WalletStep(r)
      PROVE  UNCHANGED <<wallets, transactions, deposits>>
    BY <1>1, <1>3
       DEF WalletStep, TopUp, LoadForTopUp, UpdateForTopUp, InvalidateForTopUp,
           RefreshForTopUp, RollbackTopUp, GetWallet, LoadForRead,
           ServeFromCache, MissCache, FillCache, RollbackRead, CommitStep,
           get_by_user_id, update_balance, rollback, CloseSession, tableVars
<1>4. ASSUME NEW r \in Request, Environment(r)
      PROVE  UNCHANGED <<wallets, transactions, deposits>>
    BY <1>1, <1>4 DEF Environment, DbError, Crash, rollback, CommitStep
<1>. QED
    BY <1>1, <1>2, <1>3, <1>4 DEF Next, Step, Expire, vars

\* The inductive invariant holds: every layer of it, at all times.
THEOREM InvariantHolds == Spec => []IInv
BY TypeCorrect, LocksAlways, StoreAlways, HistAlways, AnswerAlways, PTL
   DEF IInv, LockInv, StoreRest, StoreInv, TypeInv, HistInv, AnswerInv

\* PaymentSystem implements Ledger: with any number of payments, top-ups and
\* reads interleaved, with stale reads, conflicts, lost connections, lost
\* acknowledgements, crashes and an unreliable Redis, the committed balances
\* change only by whole transfers with the funds there, once per idempotency
\* key, and by whole top-ups, once per request (send_money, top_up).
THEOREM ImplementsLedger == Spec => LedgerSpec
<1>1. Init => L!Init
    BY DEF Init, StoreInit, L!Init
<1>2. StoreInv /\ HistInv /\ [Next]_vars => [L!Next]_(L!vars)
  <2>. SUFFICES ASSUME StoreInv, HistInv, [Next]_vars
                PROVE  [L!Next]_(L!vars)
    OBVIOUS
  <2>1. CASE \A r \in Request : ~CommitStep(r)
    BY <2>1, OthersStutter DEF L!vars
  <2>2. ASSUME NEW r \in Request, CommitStep(r)
        PROVE  L!Next
    <3>1. TypeInv
      BY DEF StoreInv
    <3>2. CASE pc[r] = "commit" /\ req[r].kind = "send"
      <4>1. Record(r) \in AskedTxn /\ L!Transfer(Record(r))
        BY <2>2, <3>1, <3>2, CommitCommits, CommitsATransfer
      <4>. DEFINE t == Record(r)
      <4>2. t \in AskedTxn /\ L!Transfer(t)
        BY <4>1
      <4>. HIDE DEF t
      <4>. QED
        BY <4>2 DEF L!Next, L!Transfer
    <3>3. CASE pc[r] = "topup_commit" /\ req[r].kind = "topup"
      <4>1. DepositOf(r) \in AskedDeposit /\ L!TopUp(DepositOf(r))
        BY <2>2, <3>1, <3>3, CommitCommits, CommitsATopUp
      <4>. DEFINE d == DepositOf(r)
      <4>2. d \in AskedDeposit /\ L!TopUp(d)
        BY <4>1
      <4>. HIDE DEF d
      <4>. QED
        BY <4>2 DEF L!Next, L!TopUp
    <3>. QED
      BY <2>2, <3>1, <3>2, <3>3, CommitCommits
  <2>. QED
    BY <2>1, <2>2
<1>. QED
    BY <1>1, <1>2, StoreAlways, HistAlways, PTL
       DEF Spec, LedgerSpec, L!Spec, StoreRest
===============================================================================
