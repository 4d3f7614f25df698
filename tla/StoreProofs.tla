------------------------------ MODULE StoreProofs ------------------------------
(***************************************************************************)
(* Who holds which row lock, what the holder has written, and what the     *)
(* sessions and the cache have read (layers 2 to 4 of Invariant).          *)
(***************************************************************************)
EXTENDS TypeProofs

-------------------------------------------------------------------------------
(* What a step of one request leaves alone of the others.                  *)

Moves(r) ==
    /\ UNCHANGED req
    /\ \A p \in Request \ {r} :
          pc'[p] = pc[p] /\ status'[p] = status[p] /\ receipt'[p] = receipt[p]

\* Rows that another request holds, sessions and flushed rows of others.
SameRow(w) ==
    rowLock'[w] = rowLock[w] /\ latest'[w] = latest[w] /\ wallets'[w] = wallets[w]
Touches(r) ==
    /\ \A p \in Request \ {r} : view'[p] = view[p]
    /\ \A w \in Wallet : SameRow(w) \/ {rowLock[w], rowLock'[w]} \subseteq {NoRequest, r}

\* The operators a handler moves with move that handler only.
LEMMA MoveFrame ==
    ASSUME RequestTypeOK, NEW r \in Request
    PROVE  /\ \A label : Goto(r, label) => Moves(r)
           /\ \A exception : Fail(r, exception) => Moves(r)
           /\ \A outcome, txn : Answer(r, outcome, txn) => Moves(r)
BY DEF RequestTypeOK, Goto, Fail, Answer, Moves

\* Every operation of the store touches the session and the locks of its
\* own request only.
LEMMA StoreFrame ==
    ASSUME StoreTypeOK, NEW r \in Request
    PROVE  /\ UNCHANGED storeVars => Touches(r)
           /\ \A w \in Wallet : get_by_user_id(r, w) => Touches(r)
           /\ \A w \in Wallet : get_by_id_for_update(r, w) => Touches(r)
           /\ \A w \in Wallet : \A b, next : update_balance(r, w, b, next) => Touches(r)
           /\ \A txn, next : create_transaction(r, txn, next) => Touches(r)
           /\ commit(r) => Touches(r)
           /\ rollback(r) => Touches(r)
           /\ CloseSession(r) => Touches(r)
<1>. USE DEF StoreTypeOK, Touches, SameRow
<1>1. UNCHANGED storeVars => Touches(r)
    BY DEF storeVars
<1>2. \A w \in Wallet : get_by_user_id(r, w) => Touches(r)
    BY DEF get_by_user_id, Fetch, tableVars
<1>3. \A w \in Wallet : get_by_id_for_update(r, w) => Touches(r)
    BY DEF get_by_id_for_update, Fetch, Free
<1>4. \A w \in Wallet : \A b, next : update_balance(r, w, b, next) => Touches(r)
    BY DEF update_balance, Free
<1>5. \A txn, next : create_transaction(r, txn, next) => Touches(r)
    BY DEF create_transaction
<1>6. commit(r) => Touches(r)
    BY DEF commit
<1>7. rollback(r) => Touches(r)
    BY DEF rollback
<1>8. CloseSession(r) => Touches(r)
    BY DEF CloseSession, tableVars
<1>. QED
    BY <1>1, <1>2, <1>3, <1>4, <1>5, <1>6, <1>7, <1>8

\* However an UPDATE ends, only its own handler moves.
LEMMA UpdateMoves ==
    ASSUME RequestTypeOK, NEW r \in Request, NEW w, NEW b, NEW next,
           update_balance(r, w, b, next)
    PROVE  Moves(r)
<1>1. Goto(r, next) \/ Fail(r, UpdateOutcome(r, w, b))
    BY DEF update_balance
<1>. QED
    BY <1>1, MoveFrame

\* Every step of a request leaves the places, the sessions and the rows of the
\* others alone.
LEMMA StepFrame ==
    ASSUME TypeInv, NEW r \in Request, Step(r) \/ Environment(r)
    PROVE  Moves(r) /\ Touches(r)
<1>. USE MoveFrame, StoreFrame
<1>. DEFINE C == req[r].caller
            R == req[r].to
<1>0. /\ RequestTypeOK /\ StoreTypeOK
      /\ pc[r] \in HasBoth => BothWallets(r) /\ C \in Wallet /\ R \in Wallet
      /\ pc[r] = "topup_update" => C \in Wallet
      /\ C = NoWallet \/ C \in Wallet
      /\ pc[r] = "load_receiver" => R = NoWallet \/ R \in Wallet
    BY PayloadFields
       DEF TypeInv, TypeOK, ControlOK, MayBeAt, BothWallets, TopUpLabel,
           SendLabel, RequestTypeOK
<1>1. CASE SendMoney(r) \/ CheckKey(r) \/ FindTxn(r) \/ ExpiredAccess(r)
        \/ InsufficientBalance(r) \/ RefreshTransaction(r) \/ StoreKey(r)
        \/ LookupExisting(r)
  BY <1>0, <1>1
     DEF SendMoney, CheckKey, FindTxn, ExpiredAccess, InsufficientBalance,
         RefreshTransaction, StoreKey, LookupExisting
<1>2. CASE TopUp(r) \/ InvalidateForTopUp(r) \/ GetWallet(r) \/ MissCache(r)
        \/ DbError(r)
  BY <1>0, <1>2 DEF TopUp, InvalidateForTopUp, GetWallet, MissCache, DbError
<1>3. CASE LoadSender(r) \/ LoadForTopUp(r) \/ LoadForRead(r)
  BY <1>0, <1>3 DEF LoadSender, LoadForTopUp, LoadForRead
<1>4. CASE LoadReceiver(r)
  BY <1>0, <1>4 DEF LoadReceiver, HasBoth, HasSender, SendLabel
<1>5. CASE InvalidateBalances(r) \/ RefreshForTopUp(r) \/ ServeFromCache(r)
        \/ FillCache(r)
  BY <1>0, <1>5
     DEF InvalidateBalances, RefreshForTopUp, ServeFromCache, FillCache
<1>6. CASE LockFirst(r) \/ LockSecond(r)
  BY <1>0, <1>6, LockOrder
     DEF LockFirst, LockSecond, HasBoth, HasSender, SendLabel
<1>7. CASE DebitSender(r) \/ CreditReceiver(r) \/ UpdateForTopUp(r)
  <2>1. Moves(r)
    BY <1>0, <1>7, UpdateMoves
       DEF DebitSender, CreditReceiver, UpdateForTopUp, HasBoth, HasSender,
           SendLabel
  <2>2. Touches(r)
    BY <1>0, <1>7
       DEF DebitSender, CreditReceiver, UpdateForTopUp, HasBoth, HasSender,
           SendLabel
  <2>. QED
    BY <2>1, <2>2
<1>8. CASE RecordTransaction(r)
  BY <1>0, <1>8 DEF RecordTransaction, create_transaction
<1>9. CASE CommitTransfer(r) \/ CommitTopUp(r) \/ CommitUnacknowledged(r)
        \/ CommitTopUpUnacknowledged(r)
  BY <1>0, <1>9
     DEF CommitTransfer, CommitTopUp, CommitUnacknowledged,
         CommitTopUpUnacknowledged
<1>10. CASE RollbackSend(r) \/ RollbackTopUp(r) \/ RollbackRead(r) \/ Crash(r)
  <2>1. Moves(r)
    BY <1>0, <1>10
       DEF RollbackSend, RollbackTopUp, RollbackRead, Crash, Goto, Answer,
           Moves, RequestTypeOK
  <2>2. Touches(r)
    BY <1>0, <1>10 DEF RollbackSend, RollbackTopUp, RollbackRead, Crash
  <2>. QED
    BY <2>1, <2>2
<1>. QED
    BY <1>1, <1>2, <1>3, <1>4, <1>5, <1>6, <1>7, <1>8, <1>9, <1>10
       DEF Step, SendStep, WalletStep, Environment

-------------------------------------------------------------------------------
(* Layer 2: the row locks.                                                 *)

LockInv == LocksAreOwned /\ LocksAreHeld

\* The part of LockInv that is about one request.
LocksOf(r) ==
    /\ \A w \in Wallet : rowLock[w] = r =>
          /\ pc[r] \in Holding
          /\ \/ req[r].kind = "send" /\ w \in {req[r].caller, req[r].to}
             \/ req[r].kind = "topup" /\ w = req[r].caller
    /\ pc[r] = "lock_second" => rowLock[FirstLocked(r)] = r
    /\ pc[r] \in {"debit", "credit", "record", "commit"} =>
          rowLock[req[r].caller] = r /\ rowLock[req[r].to] = r
    /\ pc[r] = "topup_commit" => rowLock[req[r].caller] = r

\* The lock invariant, request by request: LocksOf(r) speaks of the locks r
\* holds and needs.
LEMMA LockInvByRequest ==
    ASSUME StoreTypeOK
    PROVE  LockInv <=> \A r \in Request : LocksOf(r)
BY RequestAssumption
   DEF StoreTypeOK, LockInv, LocksAreOwned, LocksAreHeld, LocksOf

\* The others keep the locks they have.
LEMMA LocksFrame ==
    ASSUME TypeInv, NEW r \in Request, Moves(r), Touches(r),
           NEW p \in Request, p # r, LocksOf(p)
    PROVE  LocksOf(p)'
<1>1. /\ pc'[p] = pc[p] /\ req' = req
      /\ \A w \in Wallet : rowLock'[w] = p <=> rowLock[w] = p
    BY RequestAssumption DEF Moves, Touches, SameRow
<1>2. /\ pc[p] \in HasBoth => BothWallets(p)
      /\ pc[p] = "topup_commit" => req[p].caller \in Wallet
    BY DEF TypeInv, ControlOK, MayBeAt, TopUpLabel
<1>3. pc[p] \in {"lock_second", "debit", "credit", "record", "commit"} =>
          /\ {req[p].caller, req[p].to} \subseteq Wallet
          /\ FirstLocked(p) \in Wallet /\ FirstLocked(p)' = FirstLocked(p)
    BY <1>1, <1>2, LockOrder
       DEF HasBoth, HasSender, SendLabel, BothWallets, FirstLocked
<1>. QED
    BY <1>1, <1>2, <1>3 DEF LocksOf

\* A step of one request keeps the lock invariant of every request.
LEMMA LockStep ==
    ASSUME TypeInv, LockInv, NEW r \in Request, Step(r) \/ Environment(r)
    PROVE  \A p \in Request : LocksOf(p)'
<1>. DEFINE C == req[r].caller
            R == req[r].to
<1>0. /\ rowLock \in [Wallet -> Request \cup {NoRequest}]
      /\ pc \in [Request -> Label]
      /\ MayBeAt(r, pc[r], status[r])
      /\ LocksOf(r)
      /\ UNCHANGED req
      /\ C = NoWallet \/ C \in Wallet
    BY LockInvByRequest, StepFrame, PayloadFields
       DEF TypeInv, TypeOK, StoreTypeOK, RequestTypeOK, ControlOK, Moves
<1>a. \A p \in Request \ {r} : LocksOf(p)'
    BY StepFrame, LocksFrame, LockInvByRequest DEF TypeInv, TypeOK
<1>b. ASSUME pc[r] \in HasBoth
      PROVE  /\ req[r].kind = "send"
             /\ C \in Wallet /\ R \in Wallet /\ C # R
             /\ {FirstLocked(r), SecondLocked(r)} = {C, R}
    BY <1>0, <1>b, LockOrder DEF MayBeAt, BothWallets, HasBoth, HasSender
<1>. SUFFICES LocksOf(r)'
    BY <1>a
\* The steps of a handler that holds nothing, and asks for nothing.
<1>1. CASE UNCHANGED rowLock /\ pc[r] \notin Holding
                /\ pc'[r] \notin Holding \ {"rollback"}
    BY <1>0, <1>1 DEF LocksOf, Holding
\* Failing keeps the locks until the rollback.
<1>2. CASE UNCHANGED rowLock /\ pc'[r] = "rollback"
    BY <1>0, <1>2 DEF LocksOf, Holding
<1>3. CASE (\A w \in Wallet : rowLock'[w] # r) /\ pc'[r] \notin Holding \ {"rollback"}
    BY <1>0, <1>3 DEF LocksOf, Holding
<1>4. CASE SendMoney(r) \/ CheckKey(r) \/ FindTxn(r) \/ LoadSender(r) \/ LoadReceiver(r)
        \/ ExpiredAccess(r) \/ RefreshTransaction(r) \/ StoreKey(r)
        \/ InvalidateBalances(r) \/ LookupExisting(r)
    BY <1>0, <1>1, <1>4
       DEF SendMoney, CheckKey, FindTxn, LoadSender, LoadReceiver,
           ExpiredAccess, RefreshTransaction, StoreKey, InvalidateBalances,
           LookupExisting, Goto, Fail, Answer, Holding, storeVars, tableVars,
           get_by_user_id, CloseSession
<1>5. CASE TopUp(r) \/ LoadForTopUp(r) \/ InvalidateForTopUp(r) \/ RefreshForTopUp(r)
        \/ GetWallet(r) \/ LoadForRead(r) \/ ServeFromCache(r) \/ MissCache(r)
        \/ FillCache(r)
    BY <1>0, <1>1, <1>5
       DEF TopUp, LoadForTopUp, InvalidateForTopUp, RefreshForTopUp, GetWallet,
           LoadForRead, ServeFromCache, MissCache, FillCache, Goto, Fail,
           Answer, Holding, storeVars, tableVars, get_by_user_id, CloseSession
<1>6. CASE InsufficientBalance(r) \/ DbError(r)
    BY <1>0, <1>2, <1>6 DEF InsufficientBalance, DbError, Fail, storeVars
<1>7. CASE LockFirst(r)
    BY <1>0, <1>7, <1>b
       DEF LockFirst, get_by_id_for_update, Goto, LocksOf, Holding,
           FirstLocked, HasBoth, HasSender, SendLabel
<1>8. CASE LockSecond(r)
    BY <1>0, <1>8, <1>b
       DEF LockSecond, get_by_id_for_update, Goto, LocksOf, Holding, HasBoth,
           HasSender, SendLabel
<1>9. CASE DebitSender(r) \/ CreditReceiver(r)
    BY <1>0, <1>2, <1>9, <1>b
       DEF DebitSender, CreditReceiver, update_balance, Goto, Fail, LocksOf,
           Holding, HasBoth, HasSender, SendLabel
<1>10. CASE RecordTransaction(r)
    BY <1>0, <1>2, <1>10
       DEF RecordTransaction, create_transaction, Goto, Fail, LocksOf, Holding
<1>11. CASE UpdateForTopUp(r)
  <2>1. C \in Wallet /\ req[r].kind = "topup"
    BY <1>0, <1>11 DEF UpdateForTopUp, MayBeAt, TopUpLabel
  <2>. QED
    BY <1>0, <1>2, <1>11, <2>1
       DEF UpdateForTopUp, update_balance, Goto, Fail, LocksOf, Holding
<1>12. CASE CommitTransfer(r) \/ CommitTopUp(r) \/ CommitUnacknowledged(r)
        \/ CommitTopUpUnacknowledged(r)
  <2>1. commit(r)
    BY <1>12
       DEF CommitTransfer, CommitTopUp, CommitUnacknowledged,
           CommitTopUpUnacknowledged
  <2>2. \A w \in Wallet : rowLock'[w] # r
    BY <2>1, RequestAssumption DEF commit
  <2>. QED
    BY <1>0, <1>3, <1>12, <2>2
       DEF CommitTransfer, CommitTopUp, CommitUnacknowledged,
           CommitTopUpUnacknowledged, Goto, Fail, Holding
<1>13. CASE RollbackSend(r) \/ RollbackTopUp(r) \/ RollbackRead(r) \/ Crash(r)
  <2>1. rollback(r)
    BY <1>13 DEF RollbackSend, RollbackTopUp, RollbackRead, Crash
  <2>2. \A w \in Wallet : rowLock'[w] # r
    BY <2>1, RequestAssumption DEF rollback
  <2>. QED
    BY <1>0, <1>3, <1>13, <2>2
       DEF RollbackSend, RollbackTopUp, RollbackRead, Crash, Goto, Answer,
           Holding
<1>. QED
    BY <1>4, <1>5, <1>6, <1>7, <1>8, <1>9, <1>10, <1>11, <1>12, <1>13
       DEF Step, SendStep, WalletStep, Environment

\* The locks are those the steps of the handlers call for, at all times.
LEMMA LocksAlways == Spec => []LockInv
<1>1. Init /\ TypeInv => LockInv
    BY DEF Init, RequestInit, StoreInit, LockInv, LocksAreOwned, LocksAreHeld
<1>2. TypeInv /\ TypeInv' /\ LockInv /\ [Next]_vars => LockInv'
  <2>. SUFFICES ASSUME TypeInv, TypeInv', LockInv, [Next]_vars
                PROVE  LockInv'
    OBVIOUS
  <2>1. CASE UNCHANGED vars \/ Expire
    BY <2>1
       DEF vars, requestVars, storeVars, Expire, LockInv, LocksAreOwned,
           LocksAreHeld, Holding, FirstLocked
  <2>2. CASE \E r \in Request : Step(r) \/ Environment(r)
    <3>1. \A p \in Request : LocksOf(p)'
      BY <2>2, LockStep
    <3>2. (LockInv <=> \A p \in Request : LocksOf(p))'
      BY RequestAssumption
         DEF TypeInv, TypeOK, StoreTypeOK, LockInv, LocksAreOwned,
             LocksAreHeld, LocksOf
    <3>. QED
      BY <3>1, <3>2
  <2>. QED
    BY <2>1, <2>2 DEF Next
<1>. QED
    BY <1>1, <1>2, TypeCorrect, PTL DEF Spec, LockInv, TypeInv

\* Every row lock is held by a handler that still has its commit or rollback to
\* do: whatever fails, no answer leaves a wallet locked (send_money's except
\* clauses, session.close in get_db).
THEOREM LocksOwned == Spec => []LocksAreOwned
BY LocksAlways, PTL DEF LockInv

-------------------------------------------------------------------------------
(* Layers 3 and 4: the rows and what was read of them.                     *)

StoreInv == TypeInv /\ LockInv /\ RowsOK /\ ViewsOK

\* A row whose lock r neither holds nor takes stays what it was.
LEMMA RowFrame ==
    ASSUME StoreInv, NEW r \in Request, Moves(r), NEW w \in Wallet,
           SameRow(w), rowLock[w] # r
    PROVE  RowOK(w)'
<1>1. RowOK(w)
    BY DEF StoreInv, RowsOK
<1>2. rowLock[w] = NoRequest \/ rowLock[w] \in Request \ {r}
    BY DEF StoreInv, TypeInv, TypeOK, StoreTypeOK
<1>. QED
    BY <1>1, <1>2 DEF RowOK, SameRow, Moves, Debited, Credited

\* A handler that has not written a row yet, and may, sees it unwritten.
LEMMA RowUnwritten ==
    ASSUME StoreInv, NEW r \in Request, NEW w \in Wallet,
           rowLock[w] \in {NoRequest, r}, pc[r] # "rollback",
           ~Debited(r, w), ~Credited(r, w)
    PROVE  latest[w] = wallets[w]
BY RequestAssumption DEF StoreInv, RowsOK, RowOK

\* An UPDATE that applies was computed from the newest committed row: the
\* version it compares stands for the whole row.
LEMMA UpdateReadsLatest ==
    ASSUME StoreInv, NEW r \in Request, NEW w \in Wallet,
           rowLock[w] \in {NoRequest, r}, latest[w] = wallets[w],
           latest[w].version = view[r][w].version
    PROVE  view[r][w] = wallets[w]
<1>1. view[r][w].version >= 1
    BY DEF StoreInv, RowsOK, RowOK
<1>2. Loaded(r, w)
    BY <1>1 DEF Loaded, Blank
<1>. QED
    BY <1>2 DEF StoreInv, ViewsOK, ViewOK, IsCommitted

\* What an applied UPDATE writes, relative to the committed row.
LEMMA UpdateWrites ==
    ASSUME StoreInv, NEW r \in Request, NEW w \in Wallet, NEW d \in Int, NEW next,
           update_balance(r, w, view[r][w].balance + d, next),
           next # "rollback", pc'[r] = next,
           latest[w] = wallets[w]
    PROVE  /\ rowLock' = [rowLock EXCEPT ![w] = r]
           /\ latest' = [latest EXCEPT ![w] =
                            [balance |-> wallets[w].balance + d,
                             version |-> wallets[w].version + 1]]
           /\ view' = [view EXCEPT ![r][w] = latest'[w]]
           /\ wallets' = wallets
           /\ view[r][w] = wallets[w]
<1>. DEFINE b == view[r][w].balance + d
<1>1. UpdateOutcome(r, w, b) = "ok"
  <2>1. CASE UpdateOutcome(r, w, b) # "ok"
    <3>1. Fail(r, UpdateOutcome(r, w, b))
      BY <2>1 DEF update_balance
    <3>. QED
      BY <3>1 DEF Fail, StoreInv, TypeInv, TypeOK, RequestTypeOK
  <2>. QED
    BY <2>1
<1>2. rowLock[w] \in {NoRequest, r} /\ latest[w].version = view[r][w].version
    BY <1>1 DEF update_balance, UpdateOutcome, Free
<1>3. view[r][w] = wallets[w]
    BY <1>2, UpdateReadsLatest
<1>. QED
    BY <1>1, <1>3 DEF update_balance, StoreInv, TypeInv, TypeOK, StoreTypeOK

\* The newest tuple of a row stays the committed one plus what the holder of
\* its lock has written so far.
LEMMA RowsStep ==
    ASSUME StoreInv, NEW r \in Request, Step(r) \/ Environment(r)
    PROVE  RowsOK'
<1>. DEFINE C == req[r].caller
            R == req[r].to
<1>0. /\ TypeInv
      /\ wallets \in [Wallet -> Row] /\ latest \in [Wallet -> Row]
      /\ rowLock \in [Wallet -> Request \cup {NoRequest}]
      /\ view \in [Request -> [Wallet -> Row]]
      /\ pc \in [Request -> Label]
      /\ MayBeAt(r, pc[r], status[r])
      /\ LocksOf(r)
      /\ Moves(r) /\ Touches(r)
      /\ req[r].kind \in {"send", "topup"} => req[r].amount \in Nat \ {0}
    BY LockInvByRequest, StepFrame, PayloadFields
       DEF StoreInv, TypeInv, TypeOK, StoreTypeOK, RequestTypeOK, ControlOK
<1>a. \A w \in Wallet : RowOK(w)
    BY DEF StoreInv, RowsOK
<1>b. ASSUME pc[r] \in HasBoth
      PROVE  req[r].kind = "send" /\ C \in Wallet /\ R \in Wallet /\ C # R
    BY <1>0, <1>b DEF MayBeAt, BothWallets, HasBoth, HasSender
<1>. SUFFICES ASSUME NEW w \in Wallet, {rowLock[w], rowLock'[w]} \subseteq {NoRequest, r},
                     ~(SameRow(w) /\ rowLock[w] # r)
              PROVE  RowOK(w)'
    BY <1>0, RowFrame DEF Touches, SameRow, RowsOK
\* Nothing in the tables changes: only failing, with locks held, is left.
<1>1. CASE UNCHANGED <<wallets, latest, rowLock>> /\ pc'[r] = "rollback"
    BY <1>a, <1>1 DEF RowOK
<1>2. CASE UNCHANGED <<wallets, latest, rowLock>> /\ pc[r] \notin Holding
    BY <1>0, <1>2 DEF LocksOf, SameRow
<1>3. CASE SendMoney(r) \/ CheckKey(r) \/ FindTxn(r) \/ LoadSender(r) \/ LoadReceiver(r)
        \/ ExpiredAccess(r) \/ RefreshTransaction(r) \/ StoreKey(r)
        \/ InvalidateBalances(r) \/ LookupExisting(r)
    BY <1>2, <1>3
       DEF SendMoney, CheckKey, FindTxn, LoadSender, LoadReceiver,
           ExpiredAccess, RefreshTransaction, StoreKey, InvalidateBalances,
           LookupExisting, Holding, storeVars, tableVars, get_by_user_id,
           CloseSession
<1>4. CASE TopUp(r) \/ LoadForTopUp(r) \/ InvalidateForTopUp(r) \/ RefreshForTopUp(r)
        \/ GetWallet(r) \/ LoadForRead(r) \/ ServeFromCache(r) \/ MissCache(r)
        \/ FillCache(r)
    BY <1>2, <1>4
       DEF TopUp, LoadForTopUp, InvalidateForTopUp, RefreshForTopUp, GetWallet,
           LoadForRead, ServeFromCache, MissCache, FillCache, Holding,
           storeVars, tableVars, get_by_user_id, CloseSession
<1>5. CASE InsufficientBalance(r) \/ DbError(r)
    BY <1>0, <1>1, <1>5 DEF InsufficientBalance, DbError, Fail, storeVars
<1>6. CASE LockFirst(r) \/ LockSecond(r)
  <2>1. /\ UNCHANGED <<wallets, latest>>
        /\ pc'[r] \in {"lock_second", "debit"}
        /\ pc[r] \in {"lock_first", "lock_second"}
    BY <1>0, <1>6 DEF LockFirst, LockSecond, get_by_id_for_update, Goto
  <2>2. latest[w] = wallets[w]
    BY <2>1, RowUnwritten DEF Debited, Credited
  <2>. QED
    BY <1>0, <1>a, <2>1, <2>2 DEF RowOK, Debited, Credited
<1>7. CASE DebitSender(r)
  <2>0. C \in Wallet /\ R \in Wallet /\ C # R /\ req[r].kind = "send"
    BY <1>b, <1>7 DEF DebitSender, HasBoth, HasSender, SendLabel
  <2>1. CASE pc'[r] = "rollback"
    BY <1>0, <1>1, <1>7, <2>1 DEF DebitSender, update_balance, Goto
  <2>2. CASE pc'[r] # "rollback"
    <3>1. pc'[r] = "credit"
      BY <1>0, <1>7, <2>2 DEF DebitSender, update_balance, Goto, Fail
    <3>. DEFINE d == -req[r].amount
    <3>2. d \in Int /\ view[r][C].balance \in Int
      BY <1>0, <2>0, OpeningAssumption DEF Row
    <3>3. update_balance(r, C, view[r][C].balance + d, "credit")
      BY <1>0, <1>7, <2>0, <3>2, OpeningAssumption DEF DebitSender, Row
    <3>4. rowLock[C] \in {NoRequest, r}
      BY <1>0, <1>7, <2>2 DEF DebitSender, update_balance, Fail, Free
    <3>5. latest[C] = wallets[C]
      BY <1>0, <1>7, <2>0, <3>4, RowUnwritten DEF DebitSender, Debited, Credited
    <3>. HIDE DEF d
    <3>6. /\ rowLock' = [rowLock EXCEPT ![C] = r]
          /\ latest' = [latest EXCEPT ![C] =
                           [balance |-> wallets[C].balance + d,
                            version |-> wallets[C].version + 1]]
          /\ wallets' = wallets
      BY <2>0, <3>1, <3>2, <3>3, <3>5, UpdateWrites
    <3>7. UNCHANGED req
      BY <1>0 DEF Moves
    <3>8. CASE w = C
      <4>1. rowLock'[w] = r /\ wallets'[w] = wallets[w]
            /\ latest'[w] = [balance |-> wallets[w].balance + d,
                             version |-> wallets[w].version + 1]
        BY <1>0, <3>6, <3>8
      <4>2. wallets[w].version \in Nat /\ wallets[w].balance \in Int
        BY <1>0, OpeningAssumption DEF Row
      <4>3. wallets[w].balance + d = wallets[w].balance - req[r].amount
        BY <1>0, <2>0, <4>2 DEF d
      <4>4. latest'[w] = [balance |-> wallets'[w].balance - req'[r].amount,
                           version |-> wallets'[w].version + 1]
        BY <3>7, <4>1, <4>3
      <4>5. wallets'[w].version >= 1 /\ latest'[w].version >= 1
        <5>1. wallets[w].version >= 1
          BY <1>a DEF RowOK
        <5>2. latest'[w].version = wallets[w].version + 1
          BY <4>1
        <5>. QED
          BY <4>1, <4>2, <5>1, <5>2
      <4>6. Debited(r, w)' /\ ~Credited(r, w)'
        BY <2>0, <3>1, <3>7, <3>8 DEF Debited, Credited
      <4>. QED
        BY <4>1, <4>4, <4>5, <4>6, RequestAssumption DEF RowOK
    <3>9. CASE w # C
      <4>1. rowLock'[w] = rowLock[w] /\ wallets'[w] = wallets[w] /\ latest'[w] = latest[w]
        BY <3>6, <3>9
      <4>2. pc[r] = "debit"
        BY <1>7 DEF DebitSender
      <4>. QED
        BY <1>a, <2>0, <3>1, <3>7, <3>9, <4>1, <4>2 DEF RowOK, Debited, Credited
    <3>. QED
      BY <3>8, <3>9
  <2>. QED
    BY <2>1, <2>2
<1>8. CASE CreditReceiver(r)
  <2>0. C \in Wallet /\ R \in Wallet /\ C # R /\ req[r].kind = "send"
    BY <1>b, <1>8 DEF CreditReceiver, HasBoth, HasSender, SendLabel
  <2>1. CASE pc'[r] = "rollback"
    BY <1>0, <1>1, <1>8, <2>1 DEF CreditReceiver, update_balance, Goto
  <2>2. CASE pc'[r] # "rollback"
    <3>1. pc'[r] = "record"
      BY <1>0, <1>8, <2>2 DEF CreditReceiver, update_balance, Goto, Fail
    <3>. DEFINE d == req[r].amount
    <3>2. d \in Int /\ view[r][R].balance \in Int
      BY <1>0, <2>0, OpeningAssumption DEF Row
    <3>3. update_balance(r, R, view[r][R].balance + d, "record")
      BY <1>0, <1>8, <2>0, <3>2, OpeningAssumption DEF CreditReceiver, Row
    <3>4. rowLock[R] \in {NoRequest, r}
      BY <1>0, <1>8, <2>2 DEF CreditReceiver, update_balance, Fail, Free
    <3>5. latest[R] = wallets[R]
      BY <1>0, <1>8, <2>0, <3>4, RowUnwritten
         DEF CreditReceiver, Debited, Credited
    <3>. HIDE DEF d
    <3>6. /\ rowLock' = [rowLock EXCEPT ![R] = r]
          /\ latest' = [latest EXCEPT ![R] =
                           [balance |-> wallets[R].balance + d,
                            version |-> wallets[R].version + 1]]
          /\ wallets' = wallets
      BY <2>0, <3>1, <3>2, <3>3, <3>5, UpdateWrites
    <3>7. UNCHANGED req
      BY <1>0 DEF Moves
    <3>8. CASE w = R
      <4>1. rowLock'[w] = r /\ wallets'[w] = wallets[w]
            /\ latest'[w] = [balance |-> wallets[w].balance + d,
                             version |-> wallets[w].version + 1]
        BY <1>0, <3>6, <3>8
      <4>2. wallets[w].version \in Nat /\ wallets[w].balance \in Int
        BY <1>0, OpeningAssumption DEF Row
      <4>3. wallets[w].balance + d = wallets[w].balance + req[r].amount
        BY <1>0, <2>0, <4>2 DEF d
      <4>4. latest'[w] = [balance |-> wallets'[w].balance + req'[r].amount,
                           version |-> wallets'[w].version + 1]
        BY <3>7, <4>1, <4>3
      <4>5. wallets'[w].version >= 1 /\ latest'[w].version >= 1
        <5>1. wallets[w].version >= 1
          BY <1>a DEF RowOK
        <5>2. latest'[w].version = wallets[w].version + 1
          BY <4>1
        <5>. QED
          BY <4>1, <4>2, <5>1, <5>2
      <4>6. Credited(r, w)' /\ ~Debited(r, w)'
        BY <2>0, <3>1, <3>7, <3>8 DEF Debited, Credited
      <4>. QED
        BY <4>1, <4>4, <4>5, <4>6, RequestAssumption DEF RowOK
    <3>9. CASE w # R
      <4>1. rowLock'[w] = rowLock[w] /\ wallets'[w] = wallets[w] /\ latest'[w] = latest[w]
        BY <3>6, <3>9
      <4>2. pc[r] = "credit"
        BY <1>8 DEF CreditReceiver
      <4>. QED
        BY <1>a, <2>0, <3>1, <3>7, <3>9, <4>1, <4>2 DEF RowOK, Debited, Credited
    <3>. QED
      BY <3>8, <3>9
  <2>. QED
    BY <2>1, <2>2
<1>9. CASE UpdateForTopUp(r)
  <2>0. C \in Wallet /\ req[r].kind = "topup"
    BY <1>0, <1>9 DEF UpdateForTopUp, MayBeAt, TopUpLabel
  <2>1. CASE pc'[r] = "rollback"
    BY <1>0, <1>1, <1>9, <2>1 DEF UpdateForTopUp, update_balance, Goto
  <2>2. CASE pc'[r] # "rollback"
    <3>1. pc'[r] = "topup_commit"
      BY <1>0, <1>9, <2>2 DEF UpdateForTopUp, update_balance, Goto, Fail
    <3>. DEFINE d == req[r].amount
    <3>2. d \in Int /\ view[r][C].balance \in Int
      BY <1>0, <2>0, OpeningAssumption DEF Row
    <3>3. update_balance(r, C, view[r][C].balance + d, "topup_commit")
      BY <1>0, <1>9, <2>0, <3>2, OpeningAssumption DEF UpdateForTopUp, Row
    <3>4. rowLock[C] \in {NoRequest, r}
      BY <1>0, <1>9, <2>2 DEF UpdateForTopUp, update_balance, Fail, Free
    <3>5. latest[C] = wallets[C]
      BY <1>0, <1>9, <2>0, <3>4, RowUnwritten
         DEF UpdateForTopUp, Debited, Credited
    <3>. HIDE DEF d
    <3>6. /\ rowLock' = [rowLock EXCEPT ![C] = r]
          /\ latest' = [latest EXCEPT ![C] =
                           [balance |-> wallets[C].balance + d,
                            version |-> wallets[C].version + 1]]
          /\ wallets' = wallets
      BY <2>0, <3>1, <3>2, <3>3, <3>5, UpdateWrites
    <3>7. UNCHANGED req
      BY <1>0 DEF Moves
    <3>8. CASE w = C
      <4>1. rowLock'[w] = r /\ wallets'[w] = wallets[w]
            /\ latest'[w] = [balance |-> wallets[w].balance + d,
                             version |-> wallets[w].version + 1]
        BY <1>0, <3>6, <3>8
      <4>2. wallets[w].version \in Nat /\ wallets[w].balance \in Int
        BY <1>0, OpeningAssumption DEF Row
      <4>3. wallets[w].balance + d = wallets[w].balance + req[r].amount
        BY <1>0, <2>0, <4>2 DEF d
      <4>4. latest'[w] = [balance |-> wallets'[w].balance + req'[r].amount,
                           version |-> wallets'[w].version + 1]
        BY <3>7, <4>1, <4>3
      <4>5. wallets'[w].version >= 1 /\ latest'[w].version >= 1
        <5>1. wallets[w].version >= 1
          BY <1>a DEF RowOK
        <5>2. latest'[w].version = wallets[w].version + 1
          BY <4>1
        <5>. QED
          BY <4>1, <4>2, <5>1, <5>2
      <4>6. Credited(r, w)' /\ ~Debited(r, w)'
        BY <2>0, <3>1, <3>7, <3>8 DEF Debited, Credited
      <4>. QED
        BY <4>1, <4>4, <4>5, <4>6, RequestAssumption DEF RowOK
    <3>9. CASE w # C
      <4>1. rowLock'[w] = rowLock[w] /\ wallets'[w] = wallets[w] /\ latest'[w] = latest[w]
        BY <3>6, <3>9
      <4>2. pc[r] = "topup_update"
        BY <1>9 DEF UpdateForTopUp
      <4>. QED
        BY <1>a, <2>0, <3>1, <3>7, <3>9, <4>1, <4>2 DEF RowOK, Debited, Credited
    <3>. QED
      BY <3>8, <3>9
  <2>. QED
    BY <2>1, <2>2
<1>10. CASE RecordTransaction(r)
    BY <1>0, <1>1, <1>a, <1>10
       DEF RecordTransaction, create_transaction, Goto, Fail, RowOK, Debited,
           Credited, Moves
<1>11. CASE CommitTransfer(r) \/ CommitTopUp(r) \/ CommitUnacknowledged(r)
        \/ CommitTopUpUnacknowledged(r)
  <2>1. commit(r)
    BY <1>11
       DEF CommitTransfer, CommitTopUp, CommitUnacknowledged,
           CommitTopUpUnacknowledged
  <2>. QED
    BY <1>0, <1>a, <2>1, RequestAssumption DEF commit, RowOK
<1>12. CASE RollbackSend(r) \/ RollbackTopUp(r) \/ RollbackRead(r) \/ Crash(r)
  <2>1. rollback(r)
    BY <1>12 DEF RollbackSend, RollbackTopUp, RollbackRead, Crash
  <2>. QED
    BY <1>0, <1>a, <2>1, RequestAssumption DEF rollback, RowOK
<1>. QED
    BY <1>3, <1>4, <1>5, <1>6, <1>7, <1>8, <1>9, <1>10, <1>11, <1>12
       DEF Step, SendStep, WalletStep, Environment

\* Only a commit changes a committed row, and it moves its version on.
Grows(w) == wallets'[w] = wallets[w] \/ wallets'[w].version = wallets[w].version + 1

\* A commit replaces a row by one with a later version, or leaves it.
LEMMA CommitGrows ==
    ASSUME StoreInv, NEW r \in Request, commit(r),
           pc[r] \in {"commit", "topup_commit"}, NEW w \in Wallet
    PROVE  Grows(w)
<1>1. CASE rowLock[w] = r
  <2>1. RowOK(w)
    BY DEF StoreInv, RowsOK
  <2>2. \/ latest[w] = wallets[w]
        \/ latest[w].version = wallets[w].version + 1
    BY <1>1, <2>1, RequestAssumption DEF RowOK
  <2>. QED
    BY <1>1, <2>2 DEF commit, Grows
<1>2. CASE rowLock[w] # r
    BY <1>2 DEF commit, Grows
<1>. QED
    BY <1>1, <1>2

\* Only a commit changes a committed row, of those its request has locked.
LEMMA CommitsWrite ==
    ASSUME NEW r \in Request, Step(r) \/ Environment(r), NEW w \in Wallet,
           wallets'[w] # wallets[w]
    PROVE  /\ rowLock[w] = r /\ commit(r)
           /\ \/ CommitTransfer(r) \/ CommitUnacknowledged(r)
              \/ CommitTopUp(r) \/ CommitTopUpUnacknowledged(r)
<1>1. CASE SendMoney(r) \/ CheckKey(r) \/ FindTxn(r) \/ ExpiredAccess(r)
        \/ InsufficientBalance(r) \/ RefreshTransaction(r) \/ StoreKey(r)
        \/ LookupExisting(r) \/ TopUp(r) \/ InvalidateForTopUp(r)
        \/ GetWallet(r) \/ MissCache(r) \/ DbError(r)
    BY <1>1
       DEF SendMoney, CheckKey, FindTxn, ExpiredAccess, InsufficientBalance,
           RefreshTransaction, StoreKey, LookupExisting, TopUp,
           InvalidateForTopUp, GetWallet, MissCache, DbError, storeVars
<1>2. CASE LoadSender(r) \/ LoadReceiver(r) \/ LoadForTopUp(r) \/ LoadForRead(r)
        \/ InvalidateBalances(r) \/ RefreshForTopUp(r) \/ ServeFromCache(r)
        \/ FillCache(r)
    BY <1>2
       DEF LoadSender, LoadReceiver, LoadForTopUp, LoadForRead,
           InvalidateBalances, RefreshForTopUp, ServeFromCache, FillCache,
           get_by_user_id, CloseSession, tableVars, storeVars
<1>3. CASE LockFirst(r) \/ LockSecond(r) \/ DebitSender(r) \/ CreditReceiver(r)
        \/ RecordTransaction(r) \/ UpdateForTopUp(r)
    BY <1>3
       DEF LockFirst, LockSecond, DebitSender, CreditReceiver,
           RecordTransaction, UpdateForTopUp, get_by_id_for_update,
           update_balance, create_transaction
<1>4. CASE RollbackSend(r) \/ RollbackTopUp(r) \/ RollbackRead(r) \/ Crash(r)
    BY <1>4
       DEF RollbackSend, RollbackTopUp, RollbackRead, Crash, rollback
<1>5. CASE \/ CommitTransfer(r) \/ CommitUnacknowledged(r)
           \/ CommitTopUp(r) \/ CommitTopUpUnacknowledged(r)
    BY <1>5
       DEF CommitTransfer, CommitUnacknowledged, CommitTopUp,
           CommitTopUpUnacknowledged, commit
<1>. QED
    BY <1>1, <1>2, <1>3, <1>4, <1>5 DEF Step, SendStep, WalletStep, Environment

\* No step lowers the version of a committed row or changes it in place.
LEMMA StepGrows ==
    ASSUME StoreInv, NEW r \in Request, Step(r) \/ Environment(r), NEW w \in Wallet
    PROVE  Grows(w)
<1>1. CASE wallets'[w] # wallets[w]
  <2>1. commit(r) /\ pc[r] \in {"commit", "topup_commit"}
    BY <1>1, CommitsWrite
       DEF CommitTransfer, CommitTopUp, CommitUnacknowledged,
           CommitTopUpUnacknowledged
  <2>. QED
    BY <2>1, CommitGrows
<1>. QED
    BY <1>1 DEF Grows

\* A row read in the past stays a row read in the past.
LEMMA CommittedForEver ==
    ASSUME StoreTypeOK, NEW w \in Wallet, NEW row \in Row,
           Grows(w), IsCommitted(row, w)
    PROVE  /\ row.version <= wallets'[w].version
           /\ row.version = wallets'[w].version => row = wallets'[w]
<1>1. wallets[w].version \in Nat /\ row.version \in Nat
    BY DEF StoreTypeOK, Row
<1>2. CASE wallets'[w] = wallets[w]
    BY <1>2 DEF IsCommitted
<1>3. CASE wallets'[w].version = wallets[w].version + 1
    BY <1>1, <1>3 DEF IsCommitted
<1>. QED
    BY <1>2, <1>3 DEF Grows

\* What a session has loaded stays a committed row, now or earlier, or the
\* uncommitted one it wrote itself.
LEMMA ViewsStep ==
    ASSUME StoreInv, TypeInv', NEW r \in Request, Step(r) \/ Environment(r)
    PROVE  ViewsOK'
<1>. DEFINE C == req[r].caller
            R == req[r].to
<1>0. /\ StoreTypeOK /\ StoreTypeOK'
      /\ wallets \in [Wallet -> Row]
      /\ view \in [Request -> [Wallet -> Row]]
      /\ rowLock \in [Wallet -> Request \cup {NoRequest}]
      /\ MayBeAt(r, pc[r], status[r])
      /\ LocksOf(r)
      /\ Touches(r)
      /\ \A p \in Request, w \in Wallet : ViewOK(p, w)
      /\ \A w \in Wallet : Grows(w)
    BY LockInvByRequest, StepFrame, StepGrows
       DEF StoreInv, TypeInv, TypeOK, StoreTypeOK, ControlOK, ViewsOK
<1>. SUFFICES ASSUME NEW p \in Request, NEW w \in Wallet
              PROVE  ViewOK(p, w)'
    BY DEF ViewsOK
\* What stays in a session stays good, as long as the row is not written.
<1>1. ASSUME view'[p][w] = view[p][w], SameRow(w) \/ rowLock[w] # p
      PROVE  ViewOK(p, w)'
  <2>1. CASE ~Loaded(p, w)
    BY <1>1, <2>1 DEF ViewOK, Loaded
  <2>2. CASE IsCommitted(view[p][w], w)
    <3>1. /\ view[p][w].version <= wallets'[w].version
          /\ view[p][w].version = wallets'[w].version => view[p][w] = wallets'[w]
      BY <1>0, <2>2, CommittedForEver
    <3>. QED
      BY <1>1, <3>1 DEF ViewOK, IsCommitted
  <2>3. CASE rowLock[w] = p /\ view[p][w] = latest[w]
    BY <1>1, <2>3 DEF ViewOK, SameRow
  <2>. QED
    BY <1>0, <2>1, <2>2, <2>3 DEF ViewOK
<1>2. CASE p # r
  <2>1. SameRow(w) \/ rowLock[w] # p
    BY <1>0, <1>2, RequestAssumption DEF Touches
  <2>. QED
    BY <1>0, <1>1, <1>2, <2>1 DEF Touches
<1>3. CASE p = r
  <2>. USE <1>3
  \* An expired object, or one read just now.
  <2>1. ASSUME view'[r][w] \in {Blank, wallets'[w]}
        PROVE  ViewOK(r, w)'
    <3>1. wallets'[w].version \in Nat
      BY <1>0 DEF StoreTypeOK, Row
    <3>. QED
      BY <2>1, <3>1 DEF ViewOK, Loaded, IsCommitted
  <2>2. ASSUME NEW v \in Wallet, get_by_user_id(r, v)
        PROVE  ViewOK(r, w)'
    BY <1>0, <1>1, <2>1, <2>2 DEF get_by_user_id, Fetch, tableVars, SameRow
  <2>3. ASSUME NEW v \in Wallet, get_by_id_for_update(r, v)
        PROVE  ViewOK(r, w)'
    <3>1. CASE view'[r][w] = wallets'[w]
      BY <2>1, <3>1
    <3>2. CASE view'[r][w] = view[r][w]
      <4>1. UNCHANGED <<wallets, latest>> /\ (rowLock[w] = r => rowLock'[w] = r)
        BY <1>0, <2>3 DEF get_by_id_for_update
      <4>. QED
        BY <1>0, <1>1, <3>2, <4>1 DEF SameRow
    <3>. QED
      BY <1>0, <2>3, <3>1, <3>2 DEF get_by_id_for_update, Fetch
  <2>4. ASSUME NEW v \in Wallet, NEW b, NEW next, update_balance(r, v, b, next)
        PROVE  ViewOK(r, w)'
    <3>1. CASE UpdateOutcome(r, v, b) = "ok"
      <4>1. CASE w = v
        BY <1>0, <2>4, <3>1, <4>1 DEF update_balance, ViewOK, StoreTypeOK
      <4>2. CASE w # v
        <5>1. view'[r][w] = view[r][w] /\ SameRow(w)
          BY <1>0, <2>4, <3>1, <4>2 DEF update_balance, SameRow, StoreTypeOK
        <5>. QED
          BY <1>1, <5>1
      <4>. QED
        BY <4>1, <4>2
    <3>2. CASE UpdateOutcome(r, v, b) # "ok"
      BY <1>1, <2>4, <3>2 DEF update_balance, SameRow
    <3>. QED
      BY <3>1, <3>2
  <2>5. ASSUME UNCHANGED <<wallets, latest, rowLock, view>>
        PROVE  ViewOK(r, w)'
    BY <1>1, <2>5 DEF SameRow
  <2>6. ASSUME commit(r)
        PROVE  ViewOK(r, w)'
    <3>1. CASE view[r][w] = latest[w] /\ rowLock[w] = r
      BY <1>0, <2>1, <2>6, <3>1 DEF commit
    <3>2. CASE rowLock[w] # r
      BY <1>1, <2>6, <3>2 DEF commit
    <3>3. CASE rowLock[w] = r /\ view[r][w] # latest[w]
      <4>1. /\ view' = view
            /\ Loaded(r, w) => IsCommitted(view[r][w], w)
        BY <1>0, <2>6, <3>3 DEF commit, ViewOK
      <4>2. CASE ~Loaded(r, w)
        BY <4>1, <4>2 DEF ViewOK, Loaded
      <4>3. CASE Loaded(r, w)
        BY <1>0, <4>1, <4>3, CommittedForEver DEF ViewOK, IsCommitted
      <4>. QED
        BY <4>2, <4>3
    <3>. QED
      BY <3>1, <3>2, <3>3
  <2>7. ASSUME rollback(r) \/ CloseSession(r)
        PROVE  ViewOK(r, w)'
    BY <1>0, <2>1, <2>7 DEF rollback, CloseSession
  <2>8. /\ pc[r] \in HasBoth => C \in Wallet /\ R \in Wallet
        /\ pc[r] \in HasBoth => FirstLocked(r) \in Wallet /\ SecondLocked(r) \in Wallet
        /\ pc[r] = "topup_update" => C \in Wallet
        /\ C = NoWallet \/ C \in Wallet
        /\ pc[r] = "load_receiver" => R = NoWallet \/ R \in Wallet
    BY <1>0, PayloadFields, LockOrder
       DEF StoreInv, TypeInv, TypeOK, MayBeAt, BothWallets, TopUpLabel,
           SendLabel, RequestTypeOK
  <2>9. CASE SendMoney(r) \/ CheckKey(r) \/ FindTxn(r) \/ ExpiredAccess(r)
             \/ InsufficientBalance(r) \/ RefreshTransaction(r) \/ StoreKey(r)
             \/ LookupExisting(r) \/ TopUp(r) \/ InvalidateForTopUp(r)
             \/ GetWallet(r) \/ MissCache(r) \/ DbError(r)
    BY <2>5, <2>9
       DEF SendMoney, CheckKey, FindTxn, ExpiredAccess, InsufficientBalance,
           RefreshTransaction, StoreKey, LookupExisting, TopUp,
           InvalidateForTopUp, GetWallet, MissCache, DbError, storeVars
  <2>10. CASE LoadSender(r) \/ LoadReceiver(r) \/ LoadForTopUp(r) \/ LoadForRead(r)
    BY <2>2, <2>5, <2>7, <2>8, <2>10
       DEF LoadSender, LoadReceiver, LoadForTopUp, LoadForRead, storeVars
  <2>11. CASE InvalidateBalances(r) \/ RefreshForTopUp(r) \/ ServeFromCache(r)
             \/ FillCache(r)
    BY <2>5, <2>7, <2>11
       DEF InvalidateBalances, RefreshForTopUp, ServeFromCache, FillCache,
           storeVars
  <2>12. CASE LockFirst(r) \/ LockSecond(r)
    BY <2>3, <2>8, <2>12
       DEF LockFirst, LockSecond, HasBoth, HasSender, SendLabel
  <2>13. CASE DebitSender(r) \/ CreditReceiver(r) \/ UpdateForTopUp(r)
    BY <2>4, <2>8, <2>13
       DEF DebitSender, CreditReceiver, UpdateForTopUp, HasBoth, HasSender,
           SendLabel
  <2>14. CASE RecordTransaction(r)
    BY <2>5, <2>14 DEF RecordTransaction, create_transaction
  <2>15. CASE CommitTransfer(r) \/ CommitTopUp(r) \/ CommitUnacknowledged(r)
             \/ CommitTopUpUnacknowledged(r)
    BY <2>6, <2>15
       DEF CommitTransfer, CommitTopUp, CommitUnacknowledged,
           CommitTopUpUnacknowledged
  <2>16. CASE RollbackSend(r) \/ RollbackTopUp(r) \/ RollbackRead(r) \/ Crash(r)
    BY <2>7, <2>16 DEF RollbackSend, RollbackTopUp, RollbackRead, Crash
  <2>. QED
    BY <2>9, <2>10, <2>11, <2>12, <2>13, <2>14, <2>15, <2>16
       DEF Step, SendStep, WalletStep, Environment
<1>. QED
    BY <1>2, <1>3

-------------------------------------------------------------------------------
(* What the cache holds was committed when it was read.                    *)

StoreRest == StoreInv /\ CacheIsCommitted

\* A handler that holds no lock has only committed rows in its session.
LEMMA ReaderSeesCommitted ==
    ASSUME StoreInv, NEW r \in Request, NEW w \in Wallet,
           pc[r] = "read_fill", Loaded(r, w)
    PROVE  IsCommitted(view[r][w], w)
<1>1. rowLock[w] # r
    BY RequestAssumption DEF StoreInv, LockInv, LocksAreOwned, Holding
<1>. QED
    BY <1>1 DEF StoreInv, ViewsOK, ViewOK

\* Only FillCache puts a balance into the cache: the row its session has read.
LEMMA CacheEntries ==
    ASSUME TypeInv, [Next]_vars, NEW w \in Wallet, CacheHit(w)',
           balance_cache'[w] # balance_cache[w]
    PROVE  \E r \in Request : /\ FillCache(r) /\ w = req[r].caller
                             /\ balance_cache'[w] = view[r][w]
<1>0. /\ balance_cache \in [Wallet -> Row]
      /\ view \in [Request -> [Wallet -> Row]]
    BY DEF TypeInv, TypeOK, StoreTypeOK, CacheTypeOK
<1>1. ASSUME NEW W, Drop(W)
      PROVE  FALSE
    BY <1>0, <1>1 DEF Drop, CacheHit
<1>2. ~Expire /\ ~UNCHANGED cacheVars
    BY <1>1 DEF Expire, ExpireBalance, ExpireKey, cacheVars
<1>3. ASSUME NEW r \in Request, Environment(r)
      PROVE  FALSE
    BY <1>2, <1>3
       DEF Environment, DbError, CommitUnacknowledged,
           CommitTopUpUnacknowledged, Crash
<1>4. ASSUME NEW r \in Request, SendStep(r)
      PROVE  FALSE
    BY <1>1, <1>2, <1>4
       DEF SendStep, SendMoney, CheckKey, FindTxn, LoadSender, LoadReceiver,
           LockFirst, ExpiredAccess, LockSecond, InsufficientBalance,
           DebitSender, CreditReceiver, RecordTransaction, CommitTransfer,
           RefreshTransaction, StoreKey, store_key, InvalidateBalances,
           RollbackSend, LookupExisting, cacheVars
<1>5. ASSUME NEW r \in Request, WalletStep(r)
      PROVE  FillCache(r)
    BY <1>1, <1>2, <1>5
       DEF WalletStep, TopUp, LoadForTopUp, UpdateForTopUp, CommitTopUp,
           InvalidateForTopUp, invalidate_balance, RefreshForTopUp,
           RollbackTopUp, GetWallet, LoadForRead, ServeFromCache, MissCache,
           RollbackRead, cacheVars
<1>6. ASSUME NEW r \in Request, FillCache(r)
      PROVE  w = req[r].caller /\ balance_cache'[w] = view[r][w]
    BY <1>0, <1>6 DEF FillCache, set_balance
<1>. QED
    BY <1>2, <1>3, <1>4, <1>5, <1>6 DEF Next, Step, vars

\* What the cache shows stays a committed row, now or earlier.
LEMMA CacheStep ==
    ASSUME StoreInv, StoreInv', CacheIsCommitted, [Next]_vars
    PROVE  CacheIsCommitted'
<1>0. /\ StoreTypeOK /\ CacheTypeOK
      /\ balance_cache \in [Wallet -> Row]
    BY DEF StoreInv, TypeInv, TypeOK, CacheTypeOK
<1>1. \A w \in Wallet : Grows(w)
  <2>1. CASE UNCHANGED wallets
    BY <2>1 DEF Grows
  <2>. QED
    BY <2>1, StepGrows DEF Next, vars, Expire, storeVars
<1>. SUFFICES ASSUME NEW w \in Wallet, CacheHit(w)'
              PROVE  /\ balance_cache'[w].version <= wallets'[w].version
                     /\ balance_cache'[w].version = wallets'[w].version
                           => balance_cache'[w] = wallets'[w]
    BY DEF CacheIsCommitted
\* An entry that was there before this step.
<1>2. CASE balance_cache'[w] = balance_cache[w]
  <2>1. IsCommitted(balance_cache[w], w)
    BY <1>2 DEF CacheIsCommitted, CacheHit, IsCommitted
  <2>. QED
    BY <1>0, <1>1, <1>2, <2>1, CommittedForEver
\* An entry set by a read of the wallet.
<1>3. ASSUME NEW r \in Request, FillCache(r), w = req[r].caller,
             balance_cache'[w] = view[r][w]
      PROVE  /\ balance_cache'[w].version <= wallets'[w].version
             /\ balance_cache'[w].version = wallets'[w].version
                   => balance_cache'[w] = wallets'[w]
  <2>1. Loaded(r, w)
    BY <1>3 DEF CacheHit, Loaded
  <2>2. IsCommitted(view[r][w], w)
    BY <1>3, <2>1, ReaderSeesCommitted DEF FillCache
  <2>3. view[r][w] \in Row
    BY <1>0, <1>3 DEF StoreTypeOK
  <2>. QED
    BY <1>0, <1>1, <1>3, <2>2, <2>3, CommittedForEver
<1>4. balance_cache'[w] # balance_cache[w] =>
          \E r \in Request : /\ FillCache(r) /\ w = req[r].caller
                            /\ balance_cache'[w] = view[r][w]
    BY CacheEntries DEF StoreInv
<1>. QED
    BY <1>2, <1>3, <1>4

-------------------------------------------------------------------------------
\* Rows, sessions and cache satisfy layers 3 and 4 at all times.
LEMMA StoreAlways == Spec => []StoreRest
<1>1. Init /\ TypeInv => StoreRest
  <2>. SUFFICES ASSUME Init, TypeInv
                PROVE  StoreRest
    OBVIOUS
  <2>1. LockInv
    BY DEF Init, RequestInit, StoreInit, LockInv, LocksAreOwned, LocksAreHeld
  <2>2. RowsOK
    BY OpeningAssumption DEF Init, StoreInit, RowsOK, RowOK
  <2>3. ViewsOK /\ CacheIsCommitted
    BY
       DEF Init, StoreInit, CacheInit, ViewsOK, ViewOK, Loaded,
           CacheIsCommitted, CacheHit
  <2>. QED
    BY <2>1, <2>2, <2>3 DEF StoreRest, StoreInv
<1>2. TypeInv' /\ LockInv' /\ StoreRest /\ [Next]_vars => StoreRest'
  <2>. SUFFICES ASSUME TypeInv', LockInv', StoreInv, CacheIsCommitted, [Next]_vars
                PROVE  StoreRest'
    BY DEF StoreRest
  <2>1. ASSUME UNCHANGED vars \/ Expire
        PROVE  StoreInv'
    <3>1. UNCHANGED <<requestVars, storeVars>>
      BY <2>1 DEF vars, Expire
    <3>2. RowsOK'
      BY <3>1
         DEF StoreInv, requestVars, storeVars, RowsOK, RowOK, Debited, Credited
    <3>3. ViewsOK'
      BY <3>1 DEF StoreInv, storeVars, ViewsOK, ViewOK, Loaded, IsCommitted
    <3>. QED
      BY <3>2, <3>3 DEF StoreInv
  <2>2. ASSUME NEW r \in Request, Step(r) \/ Environment(r)
        PROVE  StoreInv'
    BY <2>2, RowsStep, ViewsStep DEF StoreInv
  <2>3. StoreInv'
    BY <2>1, <2>2 DEF Next, StoreInv
  <2>. QED
    BY <2>3, CacheStep DEF StoreRest
<1>. QED
    BY <1>1, <1>2, TypeCorrect, LocksAlways, PTL DEF Spec, TypeInv, StoreRest

\* Balances of uncommitted updates never reach the cache, and an entry is the
\* committed row of its version (get_wallet fills the cache with the row its
\* session read; readers hold no locks and write nothing).
THEOREM CacheCommitted == Spec => []CacheIsCommitted
BY StoreAlways, PTL DEF StoreRest

-------------------------------------------------------------------------------
(* What makes an entry of the cache stale.                                 *)

\* A row changes by a commit whose handler deletes the entry next, or which it
\* does not learn of.
LEMMA CommitOwes ==
    ASSUME StoreInv, NEW r \in Request, Step(r) \/ Environment(r),
           NEW w \in Wallet, wallets'[w] # wallets[w]
    PROVE  (OwesDeletion(r)' /\ w \in Changes(r)) \/ LosesCommit(r)
<1>0. pc \in [Request -> Label] /\ status \in [Request -> Status]
    BY DEF StoreInv, TypeInv, TypeOK, RequestTypeOK
<1>1. rowLock[w] = r
    BY CommitsWrite
<1>2. w \in Changes(r)
    BY <1>1, RequestAssumption
       DEF StoreInv, LockInv, LocksAreOwned, Changes
<1>3. CASE CommitTransfer(r) \/ CommitTopUp(r)
    BY <1>0, <1>2, <1>3 DEF CommitTransfer, CommitTopUp, Goto, OwesDeletion
<1>4. CASE CommitUnacknowledged(r) \/ CommitTopUpUnacknowledged(r)
    BY <1>0, <1>4
       DEF CommitUnacknowledged, CommitTopUpUnacknowledged, Fail, LosesCommit
<1>. QED
    BY <1>3, <1>4, CommitsWrite

\* A fill that leaves a stale entry has the row of an earlier version.
LEMMA StaleFillIsLate ==
    ASSUME StoreInv, NEW r \in Request, FillCache(r), NEW w \in Wallet,
           w = req[r].caller, balance_cache'[w] = view[r][w], Stale(w)'
    PROVE  FillsLate(w)
<1>0. /\ view[r][w] \in Row /\ wallets[w] \in Row
      /\ pc[r] = "read_fill" /\ UNCHANGED wallets
    BY DEF StoreInv, TypeInv, TypeOK, StoreTypeOK, FillCache, CloseSession, tableVars
<1>1. Loaded(r, w) /\ view[r][w].balance # wallets[w].balance
    BY <1>0 DEF Stale, CacheHit, Loaded
<1>2. view[r][w].version < wallets[w].version
    BY <1>0, <1>1, ReaderSeesCommitted DEF IsCommitted, Row
<1>3. r \in Reads
    BY <1>0 DEF StoreInv, TypeInv, ControlOK, MayBeAt, ReadLabel, Reads
<1>. QED
    BY <1>0, <1>2, <1>3 DEF FillsLate

\* A cached balance becomes stale by a commit whose handler has its deletion to
\* do or lost the acknowledgement, or by a fill that comes late; in no other
\* way, whatever interleaves, fails or dies (send_money, top_up, get_wallet).
THEOREM StalenessExplained == Spec => StalenessIsAccountedFor
<1>1. ASSUME StoreInv, [Next]_vars, NEW w \in Wallet, ~Stale(w), Stale(w)'
      PROVE  \/ \E r \in Request : OwesDeletion(r)' /\ w \in Changes(r)
             \/ \E r \in Request : LosesCommit(r)
             \/ FillsLate(w)
  <2>1. CASE balance_cache'[w] # balance_cache[w]
    <3>1. PICK r \in Request : /\ FillCache(r) /\ w = req[r].caller
                               /\ balance_cache'[w] = view[r][w]
      BY <1>1, <2>1, CacheEntries DEF StoreInv, Stale, CacheHit
    <3>. QED
      BY <1>1, <3>1, StaleFillIsLate
  <2>2. CASE balance_cache'[w] = balance_cache[w]
    <3>1. wallets'[w] # wallets[w]
      BY <1>1, <2>2 DEF Stale, CacheHit
    <3>2. PICK r \in Request : Step(r) \/ Environment(r)
      BY <1>1, <3>1 DEF Next, Expire, storeVars, vars
    <3>. QED
      BY <1>1, <3>1, <3>2, CommitOwes
  <2>. QED
    BY <2>1, <2>2
<1>2. StoreInv /\ [Next]_vars =>
          [\A w \in Wallet : ~Stale(w) /\ Stale(w)' =>
              \/ \E r \in Request : OwesDeletion(r)' /\ w \in Changes(r)
              \/ \E r \in Request : LosesCommit(r)
              \/ FillsLate(w)]_vars
    BY <1>1
<1>. QED
    BY <1>2, StoreAlways, PTL DEF Spec, StalenessIsAccountedFor, StoreRest
===============================================================================
