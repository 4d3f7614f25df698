------------------------------- MODULE TypeProofs -------------------------------
(***************************************************************************)
(* Every variable keeps its type and every handler runs past the checks it *)
(* has made only (layer 1 of Invariant).                                   *)
(***************************************************************************)
EXTENDS Invariant, TLAPS

TypeInv == TypeOK /\ ControlOK

-------------------------------------------------------------------------------
(* The operators a handler moves with.                                     *)

\* The fields of a request body, by its kind.
LEMMA PayloadFields ==
    ASSUME NEW p \in Payload
    PROVE  /\ p.kind \in {"send", "topup", "read"}
           /\ p.caller \in Wallet \cup {NoWallet}
           /\ p.kind = "send" =>
                 /\ p.to \in Wallet \cup {NoWallet}
                 /\ p.amount \in Nat \ {0}
                 /\ p.key \in Key
           /\ p.kind = "topup" => p.amount \in Nat \ {0}
<1>1. CASE p \in SendPayload
    BY <1>1 DEF SendPayload
<1>2. CASE p \in TopUpPayload
    BY <1>2 DEF TopUpPayload
<1>3. CASE p \in ReadPayload
    BY <1>3 DEF ReadPayload
<1>. QED
    BY <1>1, <1>2, <1>3, PayloadAssumption

\* Going on, failing and answering keep the types of the request variables.
LEMMA MoveTyping ==
    ASSUME RequestTypeOK, NEW r \in Request, NEW label \in Label,
           NEW exception \in Status, NEW txn \in Txn \cup {NoTxn}
    PROVE  /\ Goto(r, label) => RequestTypeOK'
           /\ Fail(r, exception) => RequestTypeOK'
           /\ Answer(r, exception, txn) => RequestTypeOK'
BY DEF RequestTypeOK, Goto, Fail, Answer, Label

\* They leave the handler where its checks allow when the new place is allowed.
LEMMA MoveControl ==
    ASSUME RequestTypeOK, ControlOK, NEW r \in Request,
           NEW label, NEW exception, NEW txn
    PROVE  /\ Goto(r, label) /\ MayBeAt(r, label, status[r]) => ControlOK'
           /\ Fail(r, exception) /\ MayBeAt(r, "rollback", exception) => ControlOK'
           /\ Answer(r, exception, txn) => ControlOK'
<1>1. CASE Goto(r, label) /\ MayBeAt(r, label, status[r])
    BY <1>1 DEF Goto, ControlOK, MayBeAt, BothWallets, RequestTypeOK
<1>2. CASE Fail(r, exception) /\ MayBeAt(r, "rollback", exception)
    BY <1>2 DEF Fail, ControlOK, MayBeAt, BothWallets, RequestTypeOK
<1>3. CASE Answer(r, exception, txn)
    BY <1>3
       DEF Answer, ControlOK, MayBeAt, BothWallets, RequestTypeOK, SendLabel,
           TopUpLabel, ReadLabel, HasSender, HasBoth
<1>. QED
    BY <1>1, <1>2, <1>3

\* The row a payment records is a transaction.
LEMMA RecordTyping ==
    ASSUME RequestTypeOK, NEW r \in Request, req[r].kind = "send", BothWallets(r)
    PROVE  Record(r) \in Txn
BY PayloadFields DEF RequestTypeOK, BothWallets, Record, Txn

\* What a top-up adds is a deposit.
LEMMA DepositTyping ==
    ASSUME RequestTypeOK, NEW r \in Request, r \in TopUps, req[r].caller \in Wallet
    PROVE  DepositOf(r) \in Deposit
BY PayloadFields DEF RequestTypeOK, TopUps, DepositOf, Deposit

-------------------------------------------------------------------------------
(* The operations of the store and of the cache.                           *)

\* A SELECT, plain or FOR UPDATE.
LEMMA SelectTyping ==
    ASSUME StoreTypeOK, NEW r \in Request, NEW w \in Wallet
    PROVE  /\ get_by_user_id(r, w) => StoreTypeOK'
           /\ get_by_id_for_update(r, w) => StoreTypeOK'
<1>1. Fetch(r, w) => view' \in [Request -> [Wallet -> Row]]
    BY DEF StoreTypeOK, Fetch
<1>. QED
    BY <1>1 DEF StoreTypeOK, get_by_user_id, get_by_id_for_update, tableVars

\* An UPDATE keeps the types of the store, goes on, or fails with a conflict,
\* a CHECK violation of a negative balance, or a numeric overflow.
LEMMA UpdateTyping ==
    ASSUME StoreTypeOK, NEW r \in Request, NEW w \in Wallet, NEW b \in Int,
           NEW next, update_balance(r, w, b, next)
    PROVE  /\ StoreTypeOK'
           /\ \/ Goto(r, next)
              \/ Fail(r, "error")
              \/ Fail(r, "OptimisticLock")
              \/ Fail(r, "IntegrityError") /\ b < 0
<1>1. CASE UpdateOutcome(r, w, b) = "ok"
  <2>. DEFINE row == [balance |-> b, version |-> view[r][w].version + 1]
  <2>1. row \in Row
    BY <1>1, OpeningAssumption DEF UpdateOutcome, StoreTypeOK, Row
  <2>2. /\ latest' = [latest EXCEPT ![w] = row]
        /\ rowLock' = [rowLock EXCEPT ![w] = r]
        /\ view' = [view EXCEPT ![r][w] = row]
        /\ Goto(r, next)
        /\ UNCHANGED <<wallets, transactions, pending, deposits>>
    BY <1>1 DEF update_balance
  <2>. HIDE DEF row
  <2>. QED
    BY <2>1, <2>2 DEF StoreTypeOK
<1>2. CASE UpdateOutcome(r, w, b) # "ok"
  <2>1. /\ Fail(r, UpdateOutcome(r, w, b))
        /\ UNCHANGED storeVars
    BY <1>2 DEF update_balance, storeVars
  <2>2. \/ UpdateOutcome(r, w, b) \in {"error", "OptimisticLock"}
        \/ UpdateOutcome(r, w, b) = "IntegrityError" /\ b < 0
    BY <1>2 DEF UpdateOutcome
  <2>. QED
    BY <2>1, <2>2 DEF StoreTypeOK, storeVars
<1>. QED
    BY <1>1, <1>2

\* COMMIT keeps the types of the store.
LEMMA CommitTyping ==
    ASSUME StoreTypeOK, RequestTypeOK, NEW r \in Request,
           req[r].caller \in Wallet, commit(r)
    PROVE  StoreTypeOK'
BY DepositTyping DEF StoreTypeOK, commit

\* ROLLBACK keeps the types of the store.
LEMMA RollbackTyping ==
    ASSUME StoreTypeOK, NEW r \in Request, rollback(r)
    PROVE  StoreTypeOK'
<1>1. Blank \in Row
    BY OpeningAssumption DEF Blank, Row
<1>. QED
    BY <1>1 DEF StoreTypeOK, rollback

\* Closing a session keeps the types of the store.
LEMMA CloseTyping ==
    ASSUME StoreTypeOK, NEW r \in Request, CloseSession(r)
    PROVE  StoreTypeOK'
<1>1. Blank \in Row
    BY OpeningAssumption DEF Blank, Row
<1>. QED
    BY <1>1 DEF StoreTypeOK, CloseSession, tableVars

\* A step that leaves the store alone keeps its types.
LEMMA UnchangedTyping ==
    ASSUME StoreTypeOK, UNCHANGED storeVars
    PROVE  StoreTypeOK'
BY DEF StoreTypeOK, storeVars

\* The INSERT goes on, or fails on a committed row with the key.
LEMMA CreateTyping ==
    ASSUME StoreTypeOK, NEW r \in Request, NEW txn \in Txn, NEW next,
           create_transaction(r, txn, next)
    PROVE  /\ StoreTypeOK'
           /\ Goto(r, next) \/ Fail(r, "IntegrityError")
BY DEF StoreTypeOK, create_transaction

\* The lookup by key returns a committed transaction with that key, or none.
LEMMA KeyLookup ==
    ASSUME NEW key
    PROVE  LET found == get_by_idempotency_key(key)
           IN  \/ found \in transactions /\ found.key = key
               \/ found = NoTxn /\ \A t \in transactions : t.key # key
BY DEF get_by_idempotency_key

\* Deleting balance keys keeps the type of the cache.
LEMMA DropTyping ==
    ASSUME CacheTypeOK, NEW W, Drop(W)
    PROVE  balance_cache' \in [Wallet -> Row]
<1>1. Blank \in Row
    BY OpeningAssumption DEF Blank, Row
<1>. QED
    BY <1>1 DEF CacheTypeOK, Drop

\* Writing and invalidating a balance keep the types of the cache.
LEMMA CacheTyping ==
    ASSUME CacheTypeOK, NEW w \in Wallet, NEW row \in Row
    PROVE  /\ set_balance(w, row) => CacheTypeOK'
           /\ invalidate_balance(w) => CacheTypeOK'
BY DropTyping DEF CacheTypeOK, set_balance, invalidate_balance

\* The two rows of a payment, in the order they are locked.
LEMMA LockOrder ==
    ASSUME NEW r \in Request, BothWallets(r)
    PROVE  /\ {FirstLocked(r), SecondLocked(r)} = {req[r].caller, req[r].to}
           /\ FirstLocked(r) \in Wallet /\ SecondLocked(r) \in Wallet
           /\ FirstLocked(r) < SecondLocked(r)
<1>1. req[r].caller \in Int /\ req[r].to \in Int /\ req[r].caller # req[r].to
  <2>1. Wallet \subseteq Int
    BY WalletAssumption
  <2>. QED
    BY <2>1 DEF BothWallets
<1>2. CASE req[r].caller < req[r].to
    BY <1>1, <1>2 DEF BothWallets, FirstLocked, SecondLocked
<1>3. CASE req[r].to < req[r].caller
    BY <1>1, <1>3 DEF BothWallets, FirstLocked, SecondLocked
<1>. QED
    BY <1>1, <1>2, <1>3

-------------------------------------------------------------------------------
(* One lemma per module: the actions of PaymentService, of WalletService   *)
(* and of the environment.                                                 *)

\* Every await of send_money keeps the types and the control invariant.
LEMMA SendTyping ==
    ASSUME TypeInv, NEW r \in Request, SendStep(r)
    PROVE  TypeInv'
<1>. USE DEF TypeInv, TypeOK
<1>. DEFINE C == req[r].caller
            R == req[r].to
<1>0. /\ req[r] \in Payload
      /\ MayBeAt(r, pc[r], status[r])
      /\ C \in Wallet \cup {NoWallet}
      /\ req[r].kind = "send" =>
            /\ R \in Wallet \cup {NoWallet}
            /\ req[r].amount \in Nat \ {0}
            /\ req[r].key \in Key
    BY PayloadFields DEF RequestTypeOK, ControlOK
<1>1. CASE SendMoney(r)
  <2>1. RequestTypeOK' /\ ControlOK'
    BY <1>0, <1>1, MoveTyping, MoveControl
       DEF SendMoney, MayBeAt, BothWallets, HasBoth, HasSender, Label,
           SendLabel, TopUpLabel, ReadLabel, Status
  <2>2. StoreTypeOK'
    BY <1>0, <1>1, UnchangedTyping DEF SendMoney
  <2>3. CacheTypeOK'
    BY <1>0, <1>1 DEF SendMoney, CacheTypeOK, cacheVars
  <2>. QED
    BY <2>1, <2>2, <2>3
<1>2. CASE CheckKey(r)
  <2>0. idempotency[req[r].key] \in Txn \cup {NoTxn}
    BY <1>0, <1>2 DEF CheckKey, CacheTypeOK, MayBeAt, SendLabel
  <2>1. RequestTypeOK' /\ ControlOK'
    BY <1>0, <1>2, <2>0, MoveTyping, MoveControl
       DEF CheckKey, MayBeAt, BothWallets, HasBoth, HasSender, Label,
           SendLabel, TopUpLabel, ReadLabel, Status
  <2>2. StoreTypeOK'
    BY <1>0, <1>2, UnchangedTyping DEF CheckKey
  <2>3. CacheTypeOK'
    BY <1>0, <1>2 DEF CheckKey, CacheTypeOK, cacheVars
  <2>. QED
    BY <2>1, <2>2, <2>3
<1>3. CASE FindTxn(r)
  <2>0. get_by_idempotency_key(req[r].key) \in Txn \cup {NoTxn}
    BY KeyLookup DEF StoreTypeOK
  <2>1. RequestTypeOK' /\ ControlOK'
    BY <1>0, <1>3, <2>0, MoveTyping, MoveControl
       DEF FindTxn, MayBeAt, BothWallets, HasBoth, HasSender, Label, SendLabel,
           TopUpLabel, ReadLabel, Status
  <2>2. StoreTypeOK'
    BY <1>0, <1>3, UnchangedTyping DEF FindTxn
  <2>3. CacheTypeOK'
    BY <1>0, <1>3 DEF FindTxn, CacheTypeOK, cacheVars
  <2>. QED
    BY <2>1, <2>2, <2>3
<1>4. CASE LoadSender(r)
  <2>1. RequestTypeOK' /\ ControlOK'
    BY <1>0, <1>4, MoveTyping, MoveControl
       DEF LoadSender, MayBeAt, BothWallets, HasBoth, HasSender, Label,
           SendLabel, TopUpLabel, ReadLabel, Status
  <2>2. StoreTypeOK'
    BY <1>0, <1>4, UnchangedTyping, SelectTyping DEF LoadSender
  <2>3. CacheTypeOK'
    BY <1>0, <1>4 DEF LoadSender, CacheTypeOK, cacheVars
  <2>. QED
    BY <2>1, <2>2, <2>3
<1>5. CASE LoadReceiver(r)
  <2>0. R \in Wallet \cup {NoWallet}
    BY <1>0, <1>5 DEF LoadReceiver, MayBeAt, SendLabel
  <2>1. RequestTypeOK' /\ ControlOK'
    BY <1>0, <1>5, <2>0, MoveTyping, MoveControl
       DEF LoadReceiver, MayBeAt, BothWallets, HasBoth, HasSender, Label,
           SendLabel, TopUpLabel, ReadLabel, Status
  <2>2. StoreTypeOK'
    BY <1>0, <1>5, <2>0, SelectTyping, CloseTyping DEF LoadReceiver
  <2>3. CacheTypeOK'
    BY <1>0, <1>5 DEF LoadReceiver, CacheTypeOK, cacheVars
  <2>. QED
    BY <2>1, <2>2, <2>3
<1>6. CASE LockFirst(r)
  <2>0. BothWallets(r) /\ C \in Wallet /\ R \in Wallet
    BY <1>0, <1>6
       DEF LockFirst, BothWallets, MayBeAt, HasBoth, HasSender, SendLabel
  <2>1. RequestTypeOK' /\ ControlOK'
    BY <1>0, <1>6, MoveTyping, MoveControl
       DEF LockFirst, MayBeAt, BothWallets, HasBoth, HasSender, Label,
           SendLabel, TopUpLabel, ReadLabel, Status
  <2>2. StoreTypeOK'
    BY <1>0, <1>6, <2>0, LockOrder, SelectTyping DEF LockFirst
  <2>3. CacheTypeOK'
    BY <1>0, <1>6 DEF LockFirst, CacheTypeOK, cacheVars
  <2>. QED
    BY <2>1, <2>2, <2>3
<1>7. CASE ExpiredAccess(r)
  <2>1. RequestTypeOK' /\ ControlOK'
    BY <1>0, <1>7, MoveTyping, MoveControl
       DEF ExpiredAccess, MayBeAt, BothWallets, HasBoth, HasSender, Label,
           SendLabel, TopUpLabel, ReadLabel, Status
  <2>2. StoreTypeOK'
    BY <1>0, <1>7, UnchangedTyping DEF ExpiredAccess
  <2>3. CacheTypeOK'
    BY <1>0, <1>7 DEF ExpiredAccess, CacheTypeOK, cacheVars
  <2>. QED
    BY <2>1, <2>2, <2>3
<1>8. CASE LockSecond(r)
  <2>0. BothWallets(r) /\ C \in Wallet /\ R \in Wallet
    BY <1>0, <1>8
       DEF LockSecond, BothWallets, MayBeAt, HasBoth, HasSender, SendLabel
  <2>1. RequestTypeOK' /\ ControlOK'
    BY <1>0, <1>8, MoveTyping, MoveControl
       DEF LockSecond, MayBeAt, BothWallets, HasBoth, HasSender, Label,
           SendLabel, TopUpLabel, ReadLabel, Status
  <2>2. StoreTypeOK'
    BY <1>0, <1>8, <2>0, LockOrder, SelectTyping DEF LockSecond
  <2>3. CacheTypeOK'
    BY <1>0, <1>8 DEF LockSecond, CacheTypeOK, cacheVars
  <2>. QED
    BY <2>1, <2>2, <2>3
<1>9. CASE InsufficientBalance(r)
  <2>1. RequestTypeOK' /\ ControlOK'
    BY <1>0, <1>9, MoveTyping, MoveControl
       DEF InsufficientBalance, MayBeAt, BothWallets, HasBoth, HasSender,
           Label, SendLabel, TopUpLabel, ReadLabel, Status
  <2>2. StoreTypeOK'
    BY <1>0, <1>9, UnchangedTyping DEF InsufficientBalance
  <2>3. CacheTypeOK'
    BY <1>0, <1>9 DEF InsufficientBalance, CacheTypeOK, cacheVars
  <2>. QED
    BY <2>1, <2>2, <2>3
<1>10. CASE DebitSender(r)
  <2>. DEFINE b == view[r][C].balance - req[r].amount
  <2>0. BothWallets(r) /\ C \in Wallet /\ R \in Wallet
    BY <1>0, <1>10
       DEF DebitSender, BothWallets, MayBeAt, HasBoth, HasSender, SendLabel
  <2>1. b \in Int
    BY <1>0, <1>10, <2>0, OpeningAssumption
       DEF DebitSender, StoreTypeOK, Row, MayBeAt, SendLabel
  <2>2. update_balance(r, C, b, "credit") /\ UNCHANGED cacheVars
    BY <1>10 DEF DebitSender
  <2>. HIDE DEF b
  <2>3. /\ StoreTypeOK'
        /\ \/ Goto(r, "credit")
           \/ Fail(r, "error")
           \/ Fail(r, "OptimisticLock")
           \/ Fail(r, "IntegrityError")
    BY <2>0, <2>1, <2>2, UpdateTyping
  <2>4. RequestTypeOK' /\ ControlOK'
    BY <1>0, <1>10, <2>0, <2>3, MoveTyping, MoveControl
       DEF DebitSender, MayBeAt, BothWallets, HasBoth, HasSender, Label,
           SendLabel, TopUpLabel, ReadLabel, Status
  <2>. QED
    BY <2>2, <2>3, <2>4 DEF CacheTypeOK, cacheVars
<1>11. CASE CreditReceiver(r)
  <2>. DEFINE b == view[r][R].balance + req[r].amount
  <2>0. BothWallets(r) /\ C \in Wallet /\ R \in Wallet
    BY <1>0, <1>11
       DEF CreditReceiver, BothWallets, MayBeAt, HasBoth, HasSender, SendLabel
  <2>1. b \in Int
    BY <1>0, <1>11, <2>0, OpeningAssumption
       DEF CreditReceiver, StoreTypeOK, Row, MayBeAt, SendLabel
  <2>2. update_balance(r, R, b, "record") /\ UNCHANGED cacheVars
    BY <1>11 DEF CreditReceiver
  <2>. HIDE DEF b
  <2>3. /\ StoreTypeOK'
        /\ \/ Goto(r, "record")
           \/ Fail(r, "error")
           \/ Fail(r, "OptimisticLock")
           \/ Fail(r, "IntegrityError")
    BY <2>0, <2>1, <2>2, UpdateTyping
  <2>4. RequestTypeOK' /\ ControlOK'
    BY <1>0, <1>11, <2>0, <2>3, MoveTyping, MoveControl
       DEF CreditReceiver, MayBeAt, BothWallets, HasBoth, HasSender, Label,
           SendLabel, TopUpLabel, ReadLabel, Status
  <2>. QED
    BY <2>2, <2>3, <2>4 DEF CacheTypeOK, cacheVars
<1>12. CASE RecordTransaction(r)
  <2>0. BothWallets(r) /\ C \in Wallet /\ R \in Wallet
    BY <1>0, <1>12
       DEF RecordTransaction, BothWallets, MayBeAt, HasBoth, HasSender,
           SendLabel
  <2>1. Record(r) \in Txn
    BY <1>0, <1>12, <2>0, RecordTyping DEF RecordTransaction, MayBeAt, SendLabel
  <2>2. create_transaction(r, Record(r), "commit") /\ UNCHANGED cacheVars
    BY <1>12 DEF RecordTransaction
  <2>3. StoreTypeOK' /\ (Goto(r, "commit") \/ Fail(r, "IntegrityError"))
    BY <2>1, <2>2, CreateTyping
  <2>4. RequestTypeOK' /\ ControlOK'
    BY <1>0, <1>12, <2>0, <2>3, MoveTyping, MoveControl
       DEF RecordTransaction, MayBeAt, BothWallets, HasBoth, HasSender, Label,
           SendLabel, TopUpLabel, ReadLabel, Status
  <2>. QED
    BY <2>2, <2>3, <2>4 DEF CacheTypeOK, cacheVars
<1>13. CASE CommitTransfer(r)
  <2>0. BothWallets(r) /\ C \in Wallet /\ R \in Wallet
    BY <1>0, <1>13
       DEF CommitTransfer, BothWallets, MayBeAt, HasBoth, HasSender, SendLabel
  <2>1. RequestTypeOK' /\ ControlOK'
    BY <1>0, <1>13, MoveTyping, MoveControl
       DEF CommitTransfer, MayBeAt, BothWallets, HasBoth, HasSender, Label,
           SendLabel, TopUpLabel, ReadLabel, Status
  <2>2. StoreTypeOK'
    BY <1>0, <1>13, <2>0, CommitTyping DEF CommitTransfer
  <2>3. CacheTypeOK'
    BY <1>0, <1>13 DEF CommitTransfer, CacheTypeOK, cacheVars
  <2>. QED
    BY <2>1, <2>2, <2>3
<1>14. CASE RefreshTransaction(r)
  <2>1. RequestTypeOK' /\ ControlOK'
    BY <1>0, <1>14, MoveTyping, MoveControl
       DEF RefreshTransaction, MayBeAt, BothWallets, HasBoth, HasSender, Label,
           SendLabel, TopUpLabel, ReadLabel, Status
  <2>2. StoreTypeOK'
    BY <1>0, <1>14, UnchangedTyping DEF RefreshTransaction
  <2>3. CacheTypeOK'
    BY <1>0, <1>14 DEF RefreshTransaction, CacheTypeOK, cacheVars
  <2>. QED
    BY <2>1, <2>2, <2>3
<1>15. CASE StoreKey(r)
  <2>0. Record(r) \in Txn
    BY <1>0, <1>15, RecordTyping
       DEF StoreKey, MayBeAt, HasBoth, HasSender, SendLabel
  <2>4. req[r].key \in Key
    BY <1>0, <1>15 DEF StoreKey, MayBeAt, SendLabel
  <2>1. RequestTypeOK' /\ ControlOK'
    BY <1>0, <1>15, MoveTyping, MoveControl
       DEF StoreKey, MayBeAt, BothWallets, HasBoth, HasSender, Label,
           SendLabel, TopUpLabel, ReadLabel, Status
  <2>2. StoreTypeOK'
    BY <1>0, <1>15, UnchangedTyping DEF StoreKey
  <2>3. CacheTypeOK'
    BY <1>0, <1>15, <2>0, <2>4 DEF StoreKey, CacheTypeOK, store_key
  <2>. QED
    BY <2>1, <2>2, <2>3
<1>16. CASE InvalidateBalances(r)
  <2>0. Record(r) \in Txn
    BY <1>0, <1>16, RecordTyping
       DEF InvalidateBalances, MayBeAt, HasBoth, HasSender, SendLabel
  <2>1. RequestTypeOK' /\ ControlOK'
    BY <1>0, <1>16, <2>0, MoveTyping, MoveControl
       DEF InvalidateBalances, MayBeAt, BothWallets, HasBoth, HasSender, Label,
           SendLabel, TopUpLabel, ReadLabel, Status
  <2>2. StoreTypeOK'
    BY <1>0, <1>16, CloseTyping, UnchangedTyping DEF InvalidateBalances
  <2>3. CacheTypeOK'
    BY <1>16, DropTyping DEF InvalidateBalances, CacheTypeOK, cacheVars
  <2>. QED
    BY <2>1, <2>2, <2>3
<1>17. CASE RollbackSend(r)
  <2>1. RequestTypeOK' /\ ControlOK'
    <3>0. /\ status[r] \in {"InsufficientBalance", "OptimisticLock",
                            "IntegrityError", "error"}
          /\ status[r] # "error" => BothWallets(r) /\ C \in Wallet
      BY <1>0, <1>17 DEF RollbackSend, MayBeAt, BothWallets
    <3>1. CASE status[r] = "IntegrityError"
      BY <1>0, <1>17, <3>0, <3>1, MoveTyping, MoveControl
         DEF RollbackSend, MayBeAt, BothWallets, HasBoth, HasSender, Label,
             SendLabel, TopUpLabel, ReadLabel, Status
    <3>2. CASE status[r] = "OptimisticLock" /\ attempt[r] < MAX_RETRY_ATTEMPTS
      <4>1. /\ pc' = [pc EXCEPT ![r] = "lock_first"]
            /\ attempt' = [attempt EXCEPT ![r] = @ + 1]
            /\ UNCHANGED <<req, status, receipt>>
        BY <1>17, <3>2 DEF RollbackSend
      <4>2. RequestTypeOK'
        BY <4>1 DEF RequestTypeOK, Label, SendLabel
      <4>3. MayBeAt(r, "lock_first", status[r])
        BY <1>0, <1>17, <3>0, <3>2
           DEF RollbackSend, MayBeAt, BothWallets, HasBoth, HasSender, Label,
               SendLabel, TopUpLabel, ReadLabel, Status
      <4>. QED
        BY <4>1, <4>2, <4>3 DEF ControlOK, MayBeAt, BothWallets, RequestTypeOK
    <3>3. CASE Answer(r, status[r], NoTxn)
      BY <3>0, <3>3, MoveTyping, MoveControl DEF Status, Label
    <3>. QED
      BY <1>17, <3>1, <3>2, <3>3 DEF RollbackSend
  <2>2. StoreTypeOK'
    BY <1>17, RollbackTyping DEF RollbackSend
  <2>3. CacheTypeOK'
    BY <1>17 DEF RollbackSend, CacheTypeOK, cacheVars
  <2>. QED
    BY <2>1, <2>2, <2>3
<1>18. CASE LookupExisting(r)
  <2>0. get_by_idempotency_key(req[r].key) \in Txn \cup {NoTxn}
    BY KeyLookup DEF StoreTypeOK
  <2>1. RequestTypeOK' /\ ControlOK'
    BY <1>0, <1>18, <2>0, MoveTyping, MoveControl
       DEF LookupExisting, MayBeAt, BothWallets, HasBoth, HasSender, Label,
           SendLabel, TopUpLabel, ReadLabel, Status
  <2>2. StoreTypeOK'
    BY <1>0, <1>18, UnchangedTyping DEF LookupExisting
  <2>3. CacheTypeOK'
    BY <1>0, <1>18 DEF LookupExisting, CacheTypeOK, cacheVars
  <2>. QED
    BY <2>1, <2>2, <2>3
<1>. QED
    BY <1>1, <1>2, <1>3, <1>4, <1>5, <1>6, <1>7, <1>8, <1>9, <1>10, <1>11,
       <1>12, <1>13, <1>14, <1>15, <1>16, <1>17, <1>18
       DEF SendStep

\* So does every await of top_up and get_wallet.
LEMMA WalletTyping ==
    ASSUME TypeInv, NEW r \in Request, WalletStep(r)
    PROVE  TypeInv'
<1>. USE DEF TypeInv, TypeOK
<1>. DEFINE C == req[r].caller
<1>0. /\ req[r] \in Payload
      /\ MayBeAt(r, pc[r], status[r])
      /\ C \in Wallet \cup {NoWallet}
      /\ req[r].kind = "topup" => req[r].amount \in Nat \ {0}
    BY PayloadFields DEF RequestTypeOK, ControlOK
<1>1. CASE TopUp(r)
  <2>1. RequestTypeOK' /\ ControlOK'
    BY <1>0, <1>1, MoveTyping, MoveControl
       DEF TopUp, MayBeAt, BothWallets, HasBoth, HasSender, Label, SendLabel,
           TopUpLabel, ReadLabel, Status
  <2>2. StoreTypeOK'
    BY <1>0, <1>1, UnchangedTyping DEF TopUp
  <2>3. CacheTypeOK'
    BY <1>0, <1>1 DEF TopUp, CacheTypeOK, cacheVars
  <2>. QED
    BY <2>1, <2>2, <2>3
<1>2. CASE LoadForTopUp(r)
  <2>1. RequestTypeOK' /\ ControlOK'
    BY <1>0, <1>2, MoveTyping, MoveControl
       DEF LoadForTopUp, MayBeAt, BothWallets, HasBoth, HasSender, Label,
           SendLabel, TopUpLabel, ReadLabel, Status
  <2>2. StoreTypeOK'
    BY <1>0, <1>2, UnchangedTyping, SelectTyping DEF LoadForTopUp
  <2>3. CacheTypeOK'
    BY <1>0, <1>2 DEF LoadForTopUp, CacheTypeOK, cacheVars
  <2>. QED
    BY <2>1, <2>2, <2>3
<1>3. CASE UpdateForTopUp(r)
  <2>. DEFINE b == view[r][C].balance + req[r].amount
  <2>0. C \in Wallet
    BY <1>0, <1>3 DEF UpdateForTopUp, MayBeAt, TopUpLabel
  <2>1. b \in Nat
    BY <1>0, <1>3, <2>0, OpeningAssumption
       DEF UpdateForTopUp, StoreTypeOK, Row, MayBeAt, TopUpLabel
  <2>2. update_balance(r, C, b, "topup_commit") /\ UNCHANGED cacheVars
    BY <1>3 DEF UpdateForTopUp
  <2>. HIDE DEF b
  <2>3. /\ StoreTypeOK'
        /\ \/ Goto(r, "topup_commit")
           \/ Fail(r, "error")
           \/ Fail(r, "OptimisticLock")
    BY <2>0, <2>1, <2>2, UpdateTyping
  <2>4. RequestTypeOK' /\ ControlOK'
    BY <1>0, <1>3, <2>0, <2>3, MoveTyping, MoveControl
       DEF UpdateForTopUp, MayBeAt, BothWallets, HasBoth, HasSender, Label,
           SendLabel, TopUpLabel, ReadLabel, Status
  <2>. QED
    BY <2>2, <2>3, <2>4 DEF CacheTypeOK, cacheVars
<1>4. CASE CommitTopUp(r)
  <2>0. C \in Wallet
    BY <1>0, <1>4 DEF CommitTopUp, MayBeAt, TopUpLabel
  <2>1. RequestTypeOK' /\ ControlOK'
    BY <1>0, <1>4, MoveTyping, MoveControl
       DEF CommitTopUp, MayBeAt, BothWallets, HasBoth, HasSender, Label,
           SendLabel, TopUpLabel, ReadLabel, Status
  <2>2. StoreTypeOK'
    BY <1>0, <1>4, <2>0, CommitTyping DEF CommitTopUp
  <2>3. CacheTypeOK'
    BY <1>0, <1>4 DEF CommitTopUp, CacheTypeOK, cacheVars
  <2>. QED
    BY <2>1, <2>2, <2>3
<1>5. CASE InvalidateForTopUp(r)
  <2>0. C \in Wallet
    BY <1>0, <1>5 DEF InvalidateForTopUp, MayBeAt, TopUpLabel
  <2>4. Blank \in Row
    BY OpeningAssumption DEF Blank, Row
  <2>1. RequestTypeOK' /\ ControlOK'
    BY <1>0, <1>5, MoveTyping, MoveControl
       DEF InvalidateForTopUp, MayBeAt, BothWallets, HasBoth, HasSender, Label,
           SendLabel, TopUpLabel, ReadLabel, Status
  <2>2. StoreTypeOK'
    BY <1>0, <1>5, UnchangedTyping DEF InvalidateForTopUp
  <2>3. CacheTypeOK'
    BY <1>0, <1>5, <2>0, <2>4, CacheTyping DEF InvalidateForTopUp
  <2>. QED
    BY <2>1, <2>2, <2>3
<1>6. CASE RefreshForTopUp(r)
  <2>1. RequestTypeOK' /\ ControlOK'
    BY <1>0, <1>6, MoveTyping, MoveControl
       DEF RefreshForTopUp, MayBeAt, BothWallets, HasBoth, HasSender, Label,
           SendLabel, TopUpLabel, ReadLabel, Status
  <2>2. StoreTypeOK'
    BY <1>0, <1>6, CloseTyping DEF RefreshForTopUp
  <2>3. CacheTypeOK'
    BY <1>0, <1>6 DEF RefreshForTopUp, CacheTypeOK, cacheVars
  <2>. QED
    BY <2>1, <2>2, <2>3
<1>7. CASE RollbackTopUp(r)
  <2>1. RequestTypeOK' /\ ControlOK'
    <3>1. CASE status[r] = "OptimisticLock" /\ attempt[r] < MAX_TOPUP_RETRIES
      <4>1. /\ pc' = [pc EXCEPT ![r] = "topup_load"]
            /\ attempt' = [attempt EXCEPT ![r] = @ + 1]
            /\ UNCHANGED <<req, status, receipt>>
        BY <1>7, <3>1 DEF RollbackTopUp
      <4>2. RequestTypeOK'
        BY <4>1 DEF RequestTypeOK, Label, TopUpLabel
      <4>3. MayBeAt(r, "topup_load", status[r])
        BY <1>0, <1>7
           DEF RollbackTopUp, MayBeAt, BothWallets, HasBoth, HasSender, Label,
               SendLabel, TopUpLabel, ReadLabel, Status
      <4>. QED
        BY <4>1, <4>2, <4>3 DEF ControlOK, MayBeAt, BothWallets, RequestTypeOK
    <3>2. CASE Answer(r, status[r], NoTxn)
      <4>1. status[r] \in Status
        BY DEF RequestTypeOK
      <4>. QED
        BY <4>1, <3>2, MoveTyping, MoveControl DEF Label
    <3>. QED
      BY <1>7, <3>1, <3>2 DEF RollbackTopUp
  <2>2. StoreTypeOK'
    BY <1>7, RollbackTyping DEF RollbackTopUp
  <2>3. CacheTypeOK'
    BY <1>7 DEF RollbackTopUp, CacheTypeOK, cacheVars
  <2>. QED
    BY <2>1, <2>2, <2>3
<1>8. CASE GetWallet(r)
  <2>1. RequestTypeOK' /\ ControlOK'
    BY <1>0, <1>8, MoveTyping, MoveControl
       DEF GetWallet, MayBeAt, BothWallets, HasBoth, HasSender, Label,
           SendLabel, TopUpLabel, ReadLabel, Status
  <2>2. StoreTypeOK'
    BY <1>0, <1>8, UnchangedTyping DEF GetWallet
  <2>3. CacheTypeOK'
    BY <1>0, <1>8 DEF GetWallet, CacheTypeOK, cacheVars
  <2>. QED
    BY <2>1, <2>2, <2>3
<1>9. CASE LoadForRead(r)
  <2>1. RequestTypeOK' /\ ControlOK'
    BY <1>0, <1>9, MoveTyping, MoveControl
       DEF LoadForRead, MayBeAt, BothWallets, HasBoth, HasSender, Label,
           SendLabel, TopUpLabel, ReadLabel, Status
  <2>2. StoreTypeOK'
    BY <1>0, <1>9, UnchangedTyping, SelectTyping DEF LoadForRead
  <2>3. CacheTypeOK'
    BY <1>0, <1>9 DEF LoadForRead, CacheTypeOK, cacheVars
  <2>. QED
    BY <2>1, <2>2, <2>3
<1>10. CASE ServeFromCache(r)
  <2>1. RequestTypeOK' /\ ControlOK'
    BY <1>0, <1>10, MoveTyping, MoveControl
       DEF ServeFromCache, MayBeAt, BothWallets, HasBoth, HasSender, Label,
           SendLabel, TopUpLabel, ReadLabel, Status
  <2>2. StoreTypeOK'
    BY <1>0, <1>10, CloseTyping DEF ServeFromCache
  <2>3. CacheTypeOK'
    BY <1>0, <1>10 DEF ServeFromCache, CacheTypeOK, cacheVars
  <2>. QED
    BY <2>1, <2>2, <2>3
<1>11. CASE MissCache(r)
  <2>1. RequestTypeOK' /\ ControlOK'
    BY <1>0, <1>11, MoveTyping, MoveControl
       DEF MissCache, MayBeAt, BothWallets, HasBoth, HasSender, Label,
           SendLabel, TopUpLabel, ReadLabel, Status
  <2>2. StoreTypeOK'
    BY <1>0, <1>11, UnchangedTyping DEF MissCache
  <2>3. CacheTypeOK'
    BY <1>0, <1>11 DEF MissCache, CacheTypeOK, cacheVars
  <2>. QED
    BY <2>1, <2>2, <2>3
<1>12. CASE FillCache(r)
  <2>0. C \in Wallet
    BY <1>0, <1>12 DEF FillCache, MayBeAt, ReadLabel
  <2>4. view[r][C] \in Row
    BY <2>0 DEF StoreTypeOK
  <2>1. RequestTypeOK' /\ ControlOK'
    BY <1>0, <1>12, MoveTyping, MoveControl
       DEF FillCache, MayBeAt, BothWallets, HasBoth, HasSender, Label,
           SendLabel, TopUpLabel, ReadLabel, Status
  <2>2. StoreTypeOK'
    BY <1>0, <1>12, CloseTyping DEF FillCache
  <2>3. CacheTypeOK'
    BY <1>0, <1>12, <2>0, <2>4, CacheTyping DEF FillCache
  <2>. QED
    BY <2>1, <2>2, <2>3
<1>13. CASE RollbackRead(r)
  <2>0. status[r] \in Status
    BY DEF RequestTypeOK
  <2>1. RequestTypeOK' /\ ControlOK'
    BY <1>0, <1>13, <2>0, MoveTyping, MoveControl
       DEF RollbackRead, MayBeAt, BothWallets, HasBoth, HasSender, Label,
           SendLabel, TopUpLabel, ReadLabel, Status
  <2>2. StoreTypeOK'
    BY <1>0, <1>13, RollbackTyping DEF RollbackRead
  <2>3. CacheTypeOK'
    BY <1>0, <1>13 DEF RollbackRead, CacheTypeOK, cacheVars
  <2>. QED
    BY <2>1, <2>2, <2>3
<1>. QED
    BY <1>1, <1>2, <1>3, <1>4, <1>5, <1>6, <1>7, <1>8, <1>9, <1>10, <1>11,
       <1>12, <1>13
       DEF WalletStep

\* So do failing database calls, lost acknowledgements and crashes.
LEMMA EnvironmentTyping ==
    ASSUME TypeInv, NEW r \in Request, Environment(r)
    PROVE  TypeInv'
<1>. USE DEF TypeInv, TypeOK
<1>0. MayBeAt(r, pc[r], status[r])
    BY DEF ControlOK
<1>1. CASE DbError(r)
  <2>1. RequestTypeOK' /\ ControlOK'
    BY <1>0, <1>1, MoveTyping, MoveControl
       DEF DbError, MayBeAt, BothWallets, HasBoth, HasSender, Label, SendLabel,
           TopUpLabel, ReadLabel, Status
  <2>2. StoreTypeOK' /\ CacheTypeOK'
    BY <1>1, UnchangedTyping DEF DbError, CacheTypeOK, cacheVars
  <2>. QED
    BY <2>1, <2>2
<1>2. CASE CommitUnacknowledged(r) \/ CommitTopUpUnacknowledged(r)
  <2>0. req[r].caller \in Wallet
    BY <1>0, <1>2
       DEF CommitUnacknowledged, CommitTopUpUnacknowledged, MayBeAt,
           TopUpLabel, HasSender, SendLabel
  <2>1. RequestTypeOK' /\ ControlOK'
    BY <1>0, <1>2, MoveTyping, MoveControl
       DEF CommitUnacknowledged, CommitTopUpUnacknowledged, MayBeAt,
           BothWallets, HasBoth, HasSender, Label, SendLabel, TopUpLabel,
           ReadLabel, Status
  <2>2. StoreTypeOK'
    BY <1>2, <2>0, CommitTyping
       DEF CommitUnacknowledged, CommitTopUpUnacknowledged
  <2>3. CacheTypeOK'
    BY <1>2
       DEF CommitUnacknowledged, CommitTopUpUnacknowledged, CacheTypeOK,
           cacheVars
  <2>. QED
    BY <2>1, <2>2, <2>3
<1>3. CASE Crash(r)
  <2>1. RequestTypeOK' /\ ControlOK'
    BY <1>0, <1>3, MoveTyping, MoveControl
       DEF Crash, MayBeAt, BothWallets, HasBoth, HasSender, Label, SendLabel,
           TopUpLabel, ReadLabel, Status
  <2>2. StoreTypeOK' /\ CacheTypeOK'
    BY <1>3, RollbackTyping DEF Crash, CacheTypeOK, cacheVars
  <2>. QED
    BY <2>1, <2>2
<1>. QED
    BY <1>1, <1>2, <1>3 DEF Environment

\* So does an entry of Redis whose TTL runs out.
LEMMA ExpireTyping ==
    ASSUME TypeInv, Expire
    PROVE  TypeInv'
<1>1. RequestTypeOK' /\ StoreTypeOK' /\ ControlOK'
    BY UnchangedTyping
       DEF TypeInv, TypeOK, Expire, RequestTypeOK, requestVars, ControlOK,
           MayBeAt, BothWallets
<1>2. CacheTypeOK'
    BY DropTyping
       DEF TypeInv, TypeOK, Expire, ExpireBalance, ExpireKey, CacheTypeOK
<1>. QED
    BY <1>1, <1>2 DEF TypeInv, TypeOK

-------------------------------------------------------------------------------
\* Type correctness of the whole system, whatever the requests, wallets, keys,
\* retry limits and faults: in particular a balance written by update_balance
\* stays within what its column holds, and a handler that computes with two
\* wallets has found both.
THEOREM TypeCorrect == Spec => [](TypeOK /\ ControlOK)
<1>1. Init => TypeInv
  <2>. SUFFICES ASSUME Init
                PROVE  TypeInv
    OBVIOUS
  <2>1. RequestTypeOK /\ ControlOK
    BY
       DEF Init, RequestInit, RequestTypeOK, ControlOK, MayBeAt, BothWallets,
           HasBoth, HasSender, Label, SendLabel, TopUpLabel, ReadLabel, Status
  <2>2. Blank \in Row
    BY OpeningAssumption DEF Blank, Row
  <2>3. StoreTypeOK
    BY <2>2, OpeningAssumption DEF Init, StoreInit, StoreTypeOK
  <2>4. CacheTypeOK
    BY <2>2 DEF Init, CacheInit, CacheTypeOK
  <2>. QED
    BY <2>1, <2>3, <2>4 DEF TypeInv, TypeOK
<1>2. TypeInv /\ [Next]_vars => TypeInv'
  <2>. SUFFICES ASSUME TypeInv, [Next]_vars
                PROVE  TypeInv'
    OBVIOUS
  <2>1. CASE UNCHANGED vars
    BY <2>1, UnchangedTyping
       DEF vars, TypeInv, TypeOK, RequestTypeOK, requestVars, CacheTypeOK,
           cacheVars, ControlOK, MayBeAt, BothWallets
  <2>. QED
    BY <2>1, SendTyping, WalletTyping, EnvironmentTyping, ExpireTyping
       DEF Next, Step
<1>. QED
    BY <1>1, <1>2, PTL DEF Spec, TypeInv
===============================================================================
