----------------------------- MODULE DeadlockProofs -----------------------------
(***************************************************************************)
(* Locking the two rows of a payment in the order of their ids leaves no   *)
(* cycle of waiting handlers, whatever their number.  A handler that waits *)
(* and is waited for holds its first row and wants its second, so of those *)
(* in a cycle the one that wants the greatest row waits for a handler that *)
(* wants a still greater one.  So the pool of connections cannot block     *)
(* itself either, whatever its size.  And the loops that retry run out:    *)
(* each step leaves a request fewer awaits in its attempt, or fewer        *)
(* attempts.                                                               *)
(***************************************************************************)
EXTENDS ConnectionPool, LedgerProofs, WellFoundedInduction

\* A nonempty set of naturals has a least element.
LEMMA HasLeast ==
    ASSUME NEW T, T \subseteq Nat, T # {}
    PROVE  \E x \in T : \A y \in T : x <= y
<1>. DEFINE R == OpToRel(<, Nat)
<1>1. IsWellFoundedOn(R, Nat)
    BY NatLessThanWellFounded
<1>2. \A x, y \in Nat : y < x => <<y, x>> \in R
    BY DEF OpToRel
<1>. HIDE DEF R
<1>3. PICK x \in T : \A y \in T : <<y, x>> \notin R
    BY <1>1, WFMin
<1>4. ASSUME NEW y \in T
      PROVE  x <= y
  <2>1. x \in Nat /\ y \in Nat /\ ~(y < x)
    BY <1>2, <1>3
  <2>. QED
    BY <2>1
<1>. QED
    BY <1>4

\* A nonempty set of naturals with a bound has a greatest element.
LEMMA HasGreatest ==
    ASSUME NEW N \in Nat, NEW T, T \subseteq 0..N, T # {}
    PROVE  \E x \in T : \A y \in T : y <= x
<1>. DEFINE U == {N - x : x \in T}
<1>1. \A x \in T : x \in Int /\ N - x \in Nat
    OBVIOUS
<1>2. U \subseteq Nat /\ U # {}
    BY <1>1
<1>3. PICK u \in U : \A v \in U : u <= v
    BY <1>2, HasLeast
<1>4. PICK x \in T : u = N - x
    BY <1>3
<1>5. ASSUME NEW y \in T
      PROVE  y <= x
  <2>1. N - x <= N - y
    BY <1>3, <1>4
  <2>. QED
    BY <1>1, <2>1
<1>. QED
    BY <1>5

-------------------------------------------------------------------------------
DeadlockInv == TypeInv /\ LockInv /\ PendingOK

\* A handler about to commit or roll back waits for nobody, so a wait for a
\* handler that waits is a wait for a row lock, never for the unique index.
LEMMA WaitsForARow ==
    ASSUME DeadlockInv, NEW r \in Request, NEW p \in Request, NEW q \in Request,
           WaitsFor(r, p), WaitsFor(p, q)
    PROVE  \E w \in Wallet : Wants(r, w) /\ rowLock[w] = p
<1>1. pc[p] \notin {"commit", "rollback"}
    BY DEF WaitsFor, Wants
<1>2. ~ \E t \in pending : t.by = p
    BY <1>1 DEF DeadlockInv, PendingOK
<1>. QED
    BY <1>2 DEF WaitsFor

\* In a chain of waiting handlers, one that is waited for holds its first row
\* and wants its second, held by another.
LEMMA MiddleOfChain ==
    ASSUME DeadlockInv, NEW r \in Request, NEW p \in Request,
           NEW q \in Request, NEW s \in Request,
           WaitsFor(r, p), WaitsFor(p, q), WaitsFor(q, s)
    PROVE  /\ pc[p] = "lock_second"
           /\ FirstLocked(p) \in Wallet /\ SecondLocked(p) \in Wallet
           /\ FirstLocked(p) < SecondLocked(p)
           /\ pc[r] = "lock_second" => SecondLocked(r) = FirstLocked(p)
<1>1. PICK w \in Wallet : Wants(r, w) /\ rowLock[w] = p
    BY WaitsForARow
<1>2. PICK v \in Wallet : Wants(p, v) /\ rowLock[v] = q /\ q # p
    BY WaitsForARow DEF WaitsFor
<1>3. /\ pc[p] \in Holding
      /\ \/ req[p].kind = "send" /\ w \in {req[p].caller, req[p].to}
         \/ req[p].kind = "topup" /\ w = req[p].caller
    BY <1>1, RequestAssumption DEF DeadlockInv, LockInv, LocksAreOwned
<1>4. pc[p] \notin {"debit", "credit"}
    BY <1>2 DEF DeadlockInv, LockInv, LocksAreHeld, Wants
<1>5. pc[p] = "lock_second"
    BY <1>2, <1>3, <1>4 DEF Holding, Wants
<1>6. BothWallets(p) /\ req[p].kind = "send"
    BY <1>5 DEF DeadlockInv, TypeInv, ControlOK, MayBeAt, HasBoth, HasSender,
                SendLabel
<1>7. v = SecondLocked(p)
    BY <1>2, <1>5 DEF Wants
<1>8. w = FirstLocked(p)
    BY <1>1, <1>2, <1>3, <1>6, <1>7, LockOrder
<1>9. pc[r] = "lock_second" => w = SecondLocked(r)
    BY <1>1 DEF Wants
<1>. QED
    BY <1>5, <1>6, <1>8, <1>9, LockOrder

\* No set of handlers waits for one another, however many there are: the rows
\* of a payment are locked in the order of their ids (sorted, line 190), a
\* top-up locks one row, and nobody inserts a key before it has both its rows.
THEOREM NoDeadlock == Spec => []NoWaitCycle
<1>1. DeadlockInv => NoWaitCycle
  <2>. SUFFICES ASSUME DeadlockInv, NEW S \in SUBSET Request, S # {},
                       \A r \in S : \E p \in S : WaitsFor(r, p)
                PROVE  FALSE
    BY DEF NoWaitCycle
  <2>. DEFINE Middle == {p \in S : pc[p] = "lock_second"}
              T == {SecondLocked(p) : p \in Middle}
  <2>0. \A r \in S : \E p, q, s \in S :
            WaitsFor(r, p) /\ WaitsFor(p, q) /\ WaitsFor(q, s)
    <3>1. ASSUME NEW r \in S
          PROVE  \E p, q, s \in S :
                    WaitsFor(r, p) /\ WaitsFor(p, q) /\ WaitsFor(q, s)
      <4>1. PICK p \in S : WaitsFor(r, p)
        OBVIOUS
      <4>2. PICK q \in S : WaitsFor(p, q)
        OBVIOUS
      <4>3. PICK s \in S : WaitsFor(q, s)
        OBVIOUS
      <4>. QED
        BY <4>1, <4>2, <4>3
    <3>. QED
      BY <3>1
  <2>1. \A p \in Middle : BothWallets(p)
    BY DEF DeadlockInv, TypeInv, ControlOK, MayBeAt, HasBoth, HasSender, SendLabel
  <2>2. T \subseteq 0..MaxWalletId
    BY <2>1, LockOrder, WalletAssumption
  <2>3. T # {}
    <3>1. PICK r \in S : TRUE
      BY S # {}
    <3>2. PICK p \in S, q \in S, s \in S :
              WaitsFor(r, p) /\ WaitsFor(p, q) /\ WaitsFor(q, s)
      BY <2>0
    <3>3. p \in Middle
      BY <3>2, MiddleOfChain
    <3>. QED
      BY <3>3
  <2>4. PICK x \in T : \A y \in T : y <= x
    <3>. HIDE DEF T
    <3>. QED
      BY <2>2, <2>3, HasGreatest, WalletAssumption
  <2>5. PICK r \in Middle : x = SecondLocked(r)
    BY <2>4
  <2>6. PICK p \in S, q \in S, s \in S :
            WaitsFor(r, p) /\ WaitsFor(p, q) /\ WaitsFor(q, s)
    BY <2>0
  <2>7. /\ pc[p] = "lock_second"
        /\ FirstLocked(p) < SecondLocked(p)
        /\ SecondLocked(r) = FirstLocked(p)
    BY <2>6, MiddleOfChain
  <2>8. SecondLocked(p) \in T
    BY <2>7
  <2>9. SecondLocked(p) <= SecondLocked(r)
    BY <2>4, <2>5, <2>8
  <2>10. FirstLocked(p) \in Int /\ SecondLocked(p) \in Int
    <3>1. FirstLocked(p) \in Wallet /\ SecondLocked(p) \in Wallet
      BY <2>6, MiddleOfChain
    <3>2. Wallet \subseteq Int
      BY WalletAssumption
    <3>. QED
      BY <3>1, <3>2
  <2>. QED
    BY <2>7, <2>9, <2>10
<1>. QED
    BY <1>1, TypeCorrect, LocksAlways, HistAlways, PTL
       DEF DeadlockInv, TypeInv, HistInv

-------------------------------------------------------------------------------
(* The pool of connections.                                                *)

\* The pool only restricts the steps of the system, which is how it is modelled:
\* what is proved of Spec carries over to PooledSpec.
LEMMA PoolRefines == PooledSpec => Spec
<1>1. [PooledNext]_pooledVars => [Next]_vars
    BY DEF PooledNext, PooledStep, PooledEnvironment, Next, pooledVars
<1>. QED
    BY <1>1, PTL DEF PooledSpec, PooledInit, Spec

ConnTyped == conn \subseteq Request

\* Only a statement locks a row or writes a record.
LEMMA WritesAreStatements ==
    ASSUME NEW r \in Request, Step(r) \/ Environment(r),
           Environment(r) \/ ~Queries(r)
    PROVE  /\ \A w \in Wallet : rowLock'[w] = r => rowLock[w] = r
           /\ pending' \subseteq pending
<1>. DEFINE Only == /\ \A w \in Wallet : rowLock'[w] = r => rowLock[w] = r
                    /\ pending' \subseteq pending
<1>1. ASSUME commit(r) \/ rollback(r) \/ UNCHANGED <<rowLock, pending>>
      PROVE  Only
    BY <1>1, RequestAssumption DEF commit, rollback
<1>2. CASE CommitTransfer(r) \/ CommitTopUp(r) \/ CommitUnacknowledged(r)
        \/ CommitTopUpUnacknowledged(r) \/ RollbackSend(r) \/ RollbackTopUp(r)
        \/ RollbackRead(r) \/ Crash(r) \/ DbError(r)
    BY <1>1, <1>2
       DEF CommitTransfer, CommitTopUp, CommitUnacknowledged,
           CommitTopUpUnacknowledged, RollbackSend, RollbackTopUp,
           RollbackRead, Crash, DbError, storeVars
<1>3. CASE SendMoney(r) \/ CheckKey(r) \/ FindTxn(r) \/ LoadSender(r) \/ LoadReceiver(r)
        \/ ExpiredAccess(r) \/ RefreshTransaction(r) \/ StoreKey(r)
        \/ InvalidateBalances(r) \/ LookupExisting(r) \/ InsufficientBalance(r)
    BY <1>1, <1>3
       DEF SendMoney, CheckKey, FindTxn, LoadSender, LoadReceiver,
           ExpiredAccess, RefreshTransaction, StoreKey, InvalidateBalances,
           LookupExisting, InsufficientBalance, storeVars, tableVars,
           get_by_user_id, CloseSession
<1>4. CASE TopUp(r) \/ LoadForTopUp(r) \/ InvalidateForTopUp(r) \/ RefreshForTopUp(r)
        \/ GetWallet(r) \/ LoadForRead(r) \/ ServeFromCache(r) \/ MissCache(r)
        \/ FillCache(r)
    BY <1>1, <1>4
       DEF TopUp, LoadForTopUp, InvalidateForTopUp, RefreshForTopUp, GetWallet,
           LoadForRead, ServeFromCache, MissCache, FillCache,
           storeVars, tableVars, get_by_user_id, CloseSession
<1>5. LockFirst(r) \/ LockSecond(r) \/ DebitSender(r) \/ CreditReceiver(r)
        \/ RecordTransaction(r) \/ UpdateForTopUp(r) => Queries(r)
    BY DEF LockFirst, LockSecond, DebitSender, CreditReceiver,
           RecordTransaction, UpdateForTopUp, Queries, SendDbLabel,
           WalletDbLabel
<1>. QED
    BY <1>2, <1>3, <1>4, <1>5 DEF Step, SendStep, WalletStep, Environment

\* What a request flushes is its own.
LEMMA WritesItsOwn ==
    ASSUME NEW r \in Request, Step(r)
    PROVE  \A t \in pending' \ pending : t.by = r
<1>1. ASSUME RecordTransaction(r)
      PROVE  \A t \in pending' \ pending : t.by = r
    BY <1>1 DEF RecordTransaction, create_transaction, Record
<1>2. ASSUME ~RecordTransaction(r)
      PROVE  pending' \subseteq pending
    BY <1>2
       DEF Step, SendStep, WalletStep, SendMoney, CheckKey, FindTxn,
           LoadSender, LoadReceiver, LockFirst, ExpiredAccess, LockSecond,
           InsufficientBalance, DebitSender, CreditReceiver, CommitTransfer,
           RefreshTransaction, StoreKey, InvalidateBalances, RollbackSend,
           LookupExisting, TopUp, LoadForTopUp, UpdateForTopUp, CommitTopUp,
           InvalidateForTopUp, RefreshForTopUp, RollbackTopUp, GetWallet,
           LoadForRead, ServeFromCache, MissCache, FillCache, RollbackRead,
           storeVars, tableVars, get_by_user_id, get_by_id_for_update,
           update_balance, CloseSession, commit, rollback
<1>. QED
    BY <1>1, <1>2

\* A transaction that ends leaves no lock and no flushed record behind.
LEMMA EndsClean ==
    ASSUME TypeInv, LockInv', PendingOK', NEW r \in Request, EndsTransaction(r),
           Step(r) \/ Environment(r)
    PROVE  /\ \A w \in Wallet : rowLock'[w] # r
           /\ \A t \in pending' : t.by # r
<1>1. CASE pc[r] = "rollback"
  <2>1. rollback(r)
    BY <1>1
       DEF Step, SendStep, WalletStep, Environment, SendDbLabel, WalletDbLabel,
           SendMoney, CheckKey, FindTxn, LoadSender, LoadReceiver, LockFirst,
           ExpiredAccess, LockSecond, InsufficientBalance, DebitSender,
           CreditReceiver, RecordTransaction, CommitTransfer,
           RefreshTransaction, StoreKey, InvalidateBalances, RollbackSend,
           LookupExisting, TopUp, LoadForTopUp, UpdateForTopUp, CommitTopUp,
           InvalidateForTopUp, RefreshForTopUp, RollbackTopUp, GetWallet,
           LoadForRead, ServeFromCache, MissCache, FillCache, RollbackRead,
           DbError, CommitUnacknowledged, CommitTopUpUnacknowledged, Crash
  <2>. QED
    BY <2>1, RequestAssumption DEF rollback
<1>2. CASE pc[r] # "rollback"
  <2>1. pc'[r] \in {"refresh", "topup_invalidate", "done", "crashed"}
    BY <1>2 DEF EndsTransaction
  <2>. QED
    BY <2>1, RequestAssumption DEF LockInv, LocksAreOwned, Holding, PendingOK
<1>. QED
    BY <1>1, <1>2

\* Whoever holds a row, or has written a record, has a connection (get_db).
THEOREM WritersConnected == PooledSpec => []WritersAreConnected
<1>1. PooledInit => WritersAreConnected
    BY DEF PooledInit, Init, StoreInit, WritersAreConnected
<1>2. /\ TypeInv /\ WritersAreConnected
      /\ LockInv' /\ PendingOK'
      /\ [PooledNext]_pooledVars
      => WritersAreConnected'
  <2>. SUFFICES ASSUME TypeInv, WritersAreConnected, LockInv', PendingOK',
                       [PooledNext]_pooledVars
                PROVE  WritersAreConnected'
    OBVIOUS
  <2>1. CASE UNCHANGED pooledVars \/ (Expire /\ UNCHANGED conn)
    BY <2>1 DEF pooledVars, vars, storeVars, Expire, WritersAreConnected
  <2>2. ASSUME NEW r \in Request, PooledStep(r) \/ PooledEnvironment(r)
        PROVE  WritersAreConnected'
    <3>0. /\ Step(r) \/ Environment(r)
          /\ conn \ {r} \subseteq conn'
          /\ ~EndsTransaction(r) => conn \subseteq conn'
          /\ \/ Environment(r) \/ ~Queries(r)
             \/ EndsTransaction(r)
             \/ Step(r) /\ r \in conn'
      BY <2>2 DEF PooledStep, PooledEnvironment
    <3>1. ASSUME NEW w \in Wallet, rowLock'[w] # NoRequest, rowLock'[w] # r
          PROVE  rowLock'[w] \in conn'
      <4>1. rowLock[w] = rowLock'[w]
        BY <3>0, <3>1, StepFrame, RequestAssumption DEF Touches, SameRow
      <4>. QED
        BY <3>0, <3>1, <4>1 DEF WritersAreConnected
    <3>2. CASE EndsTransaction(r)
      <4>1. /\ \A w \in Wallet : rowLock'[w] # r
            /\ \A t \in pending' : t.by # r
        BY <3>0, <3>2, EndsClean
      <4>2. pending' \subseteq pending
        BY <3>0, <4>1, WritesItsOwn, WritesAreStatements
      <4>. QED
        BY <3>0, <3>1, <4>1, <4>2 DEF WritersAreConnected
    <3>3. CASE Environment(r) \/ ~Queries(r)
      <4>1. /\ \A w \in Wallet : rowLock'[w] = r => rowLock[w] = r
            /\ pending' \subseteq pending
        BY <3>0, <3>3, WritesAreStatements
      <4>. QED
        BY <3>0, <3>1, <3>2, <4>1, RequestAssumption DEF WritersAreConnected
    <3>4. CASE ~EndsTransaction(r) /\ Step(r) /\ r \in conn'
      <4>1. \A t \in pending' \ pending : t.by = r
        BY <3>4, WritesItsOwn
      <4>. QED
        BY <3>0, <3>1, <3>4, <4>1 DEF WritersAreConnected
    <3>. QED
      BY <3>0, <3>2, <3>3, <3>4
  <2>. QED
    BY <2>1, <2>2 DEF PooledNext
<1>3. PooledSpec => []TypeInv /\ []LockInv /\ []PendingOK
    BY PoolRefines, TypeCorrect, LocksAlways, HistAlways, PTL DEF TypeInv, HistInv
<1>. QED
    BY <1>1, <1>2, <1>3, PTL DEF PooledSpec

\* The pool never blocks itself, for any number of connections and requests:
\* those who hold one do not all wait, so those who want one get it (get_db,
\* _execute_transfer).
THEOREM PoolNeverBlocks == PooledSpec => []PoolDrains
<1>1. ConnTyped /\ NoWaitCycle /\ WritersAreConnected => PoolDrains
  <2>. SUFFICES ASSUME ConnTyped, NoWaitCycle, WritersAreConnected, conn # {}
                PROVE  \E r \in conn : \A p \in Request : ~WaitsFor(r, p)
    BY DEF PoolDrains
  <2>1. PICK r \in conn : \A p \in conn : ~WaitsFor(r, p)
    BY DEF NoWaitCycle, ConnTyped
  <2>2. \A p \in Request : WaitsFor(r, p) => p \in conn
    BY RequestAssumption DEF WaitsFor, WritersAreConnected
  <2>. QED
    BY <2>1, <2>2
<1>2. PooledSpec => []ConnTyped
  <2>1. PooledInit => ConnTyped
    BY DEF PooledInit, ConnTyped
  <2>2. ConnTyped /\ [PooledNext]_pooledVars => ConnTyped'
    BY DEF ConnTyped, PooledNext, PooledStep, PooledEnvironment, pooledVars
  <2>. QED
    BY <2>1, <2>2, PTL DEF PooledSpec
<1>. QED
    BY <1>1, <1>2, PoolRefines, NoDeadlock, WritersConnected, PTL

-------------------------------------------------------------------------------
(* The retry loops.                                                        *)

AttemptsOK == \A r \in Request : attempt[r] <= Attempts(r)

\* A handler steps towards the end of its attempt, or begins another one that
\* it has left, after the rollback of a conflict.
LEMMA StepGoesOn ==
    ASSUME TypeInv, NEW r \in Request, Step(r) \/ Environment(r)
    PROVE  /\ AheadInAttempt(r) \in Nat /\ AheadInAttempt(r)' \in Nat
           /\ UNCHANGED req
           /\ \A p \in Request \ {r} : pc'[p] = pc[p] /\ attempt'[p] = attempt[p]
           /\ \/ UNCHANGED attempt /\ AheadInAttempt(r)' < AheadInAttempt(r)
              \/ /\ attempt'[r] = attempt[r] + 1
                 /\ attempt[r] < Attempts(r)
                 /\ AheadInAttempt(r)' < AheadInAttempt(r) + Ahead.start
<1>0. /\ pc \in [Request -> Label] /\ status \in [Request -> Status]
      /\ attempt \in [Request -> Nat]
    BY DEF TypeInv, TypeOK, RequestTypeOK
<1>. USE DEF AheadInAttempt, Ahead
<1>1. CASE SendMoney(r) \/ CheckKey(r) \/ FindTxn(r) \/ LoadSender(r)
        \/ LoadReceiver(r) \/ LockFirst(r) \/ ExpiredAccess(r) \/ LockSecond(r)
        \/ InsufficientBalance(r)
    BY <1>0, <1>1
       DEF SendMoney, CheckKey, FindTxn, LoadSender, LoadReceiver, LockFirst,
           ExpiredAccess, LockSecond, InsufficientBalance, Goto, Fail, Answer
<1>2. CASE DebitSender(r) \/ CreditReceiver(r) \/ RecordTransaction(r)
        \/ UpdateForTopUp(r)
    BY <1>0, <1>2
       DEF DebitSender, CreditReceiver, RecordTransaction, UpdateForTopUp,
           update_balance, create_transaction, Goto, Fail
<1>3. CASE CommitTransfer(r) \/ RefreshTransaction(r) \/ StoreKey(r)
        \/ InvalidateBalances(r) \/ LookupExisting(r)
    BY <1>0, <1>3
       DEF CommitTransfer, RefreshTransaction, StoreKey, InvalidateBalances,
           LookupExisting, Goto, Fail, Answer
<1>4. CASE TopUp(r) \/ LoadForTopUp(r) \/ CommitTopUp(r) \/ InvalidateForTopUp(r)
        \/ RefreshForTopUp(r) \/ GetWallet(r) \/ LoadForRead(r)
        \/ ServeFromCache(r) \/ MissCache(r) \/ FillCache(r) \/ RollbackRead(r)
    BY <1>0, <1>4
       DEF TopUp, LoadForTopUp, CommitTopUp, InvalidateForTopUp,
           RefreshForTopUp, GetWallet, LoadForRead, ServeFromCache, MissCache,
           FillCache, RollbackRead, Goto, Answer
<1>5. CASE RollbackSend(r)
    BY <1>0, <1>5 DEF RollbackSend, Goto, Answer, Attempts
<1>6. CASE RollbackTopUp(r)
    BY <1>0, <1>6 DEF RollbackTopUp, Answer, Attempts
<1>7. CASE Environment(r)
    BY <1>0, <1>7
       DEF Environment, DbError, CommitUnacknowledged,
           CommitTopUpUnacknowledged, Crash, InFlight, Goto, Fail, Label,
           SendLabel, TopUpLabel, ReadLabel, SendDbLabel, WalletDbLabel
<1>. QED
    BY <1>1, <1>2, <1>3, <1>4, <1>5, <1>6, <1>7 DEF Step, SendStep, WalletStep

\* A step of r leaves it fewer awaits, and no attempts beyond the last.
LEMMA StepCountsDown ==
    ASSUME TypeInv, AttemptsOK, NEW r \in Request, Step(r) \/ Environment(r)
    PROVE  /\ AttemptsOK'
           /\ 0 <= AwaitsLeft(r)' /\ AwaitsLeft(r)' < AwaitsLeft(r)
<1>0. \A p \in Request : Attempts(p) \in Nat
    BY RetryAssumption, TopUpRetryAssumption DEF Attempts
<1>1. /\ \A p \in Request : attempt[p] \in Nat /\ attempt[p] <= Attempts(p)
      /\ Ahead.start = 17
    BY DEF TypeInv, TypeOK, RequestTypeOK, AttemptsOK, Ahead
<1>2. \A p \in Request : Attempts(p)' = Attempts(p)
    BY StepGoesOn DEF Attempts
<1>3. \A p \in Request : attempt'[p] <= Attempts(p)
    BY <1>0, <1>1, StepGoesOn
<1>. QED
    BY <1>0, <1>1, <1>2, <1>3, StepGoesOn DEF AttemptsOK, AwaitsLeft

\* The retry loops run out, whatever the other handlers, Redis and the database
\* do: a request makes no more awaits than those of the attempts it has, so that
\* it can only wait for ever, and by NoDeadlock and PoolNeverBlocks it does not
\* do so in a circle (send_money, top_up).
THEOREM RetriesEnd == Spec => RetriesRunOut
<1>1. Init => AttemptsOK
  <2>1. \A r \in Request : 1 <= Attempts(r)
    BY RetryAssumption, TopUpRetryAssumption DEF Attempts
  <2>2. Init => \A r \in Request : attempt[r] = 1
    BY DEF Init, RequestInit
  <2>. QED
    BY <2>1, <2>2 DEF AttemptsOK
<1>2. /\ TypeInv /\ AttemptsOK /\ [Next]_vars
      => /\ AttemptsOK'
         /\ \A r \in Request : pc'[r] # pc[r] =>
                0 <= AwaitsLeft(r)' /\ AwaitsLeft(r)' < AwaitsLeft(r)
  <2>. SUFFICES ASSUME TypeInv, AttemptsOK, [Next]_vars
                PROVE  /\ AttemptsOK'
                       /\ \A r \in Request : pc'[r] # pc[r] =>
                              0 <= AwaitsLeft(r)' /\ AwaitsLeft(r)' < AwaitsLeft(r)
    OBVIOUS
  <2>1. CASE UNCHANGED vars \/ Expire
    BY <2>1 DEF vars, Expire, requestVars, AttemptsOK, Attempts
  <2>2. ASSUME NEW r \in Request, Step(r) \/ Environment(r)
        PROVE  /\ AttemptsOK'
               /\ 0 <= AwaitsLeft(r)' /\ AwaitsLeft(r)' < AwaitsLeft(r)
               /\ \A p \in Request \ {r} : pc'[p] = pc[p]
    BY <2>2, StepCountsDown, StepGoesOn
  <2>. QED
    BY <2>1, <2>2 DEF Next
<1>. QED
    BY <1>1, <1>2, TypeCorrect, PTL DEF Spec, TypeInv, RetriesRunOut
===============================================================================
