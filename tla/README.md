# TLA+ development of the payment system

Models of the payment service in `src/payment-system`: its requests at the
granularity of one step per `await`, the database and cache they share, the
failures they meet, what the whole promises, and machine-checked proofs that it
keeps most of those promises. Paths below are relative to
`src/payment-system/app`.

## The system

A FastAPI service of any number of instances in front of one PostgreSQL and one
Redis. A request runs as one coroutine with one SQLAlchemy session; coroutines
interleave at every `await`, instances in any order. There is no background
job: all state that outlives a request is in the database and in Redis.

| Part | State it keeps | Operations | Talks to |
|---|---|---|---|
| Payment service (`services/payment_service.py`) | none of its own: attempt counter, session objects | `send_money`, `_execute_transfer` | both tables under one transaction; idempotency service; Redis directly |
| Wallet service (`services/wallet_service.py`) | none | `get_wallet`, `top_up`, `get_balance_fast` (unused) | wallets; cache manager |
| Tables (`models/`, `repositories/`) | users, wallets (balance, version), transactions (unique key) | select, select for update, versioned update, insert | PostgreSQL, READ COMMITTED |
| Session (`core/database.py`) | identity map of loaded objects, open transaction, row locks | commit, rollback, close | the pool |
| Pool (`core/database.py`) | connections, at most 30 | check out, check in | PostgreSQL |
| Cache manager (`services/cache_manager.py`) | cached balance per wallet, counter per client and path | get, set, delete, INCR and EXPIRE | Redis |
| Idempotency service (`services/idempotency_service.py`) | response per key | `check_key`, `store_key` | Redis |
| Rate limiter (`middleware/rate_limiter.py`) | none: counters are Redis's | `__call__` | cache manager |
| User service (`services/user_service.py`) | none | `register`, `login`, `get_user` | users, wallets |
| History and lookup (`api/v1/payments.py`) | none | `get_transaction_history`, `get_transaction` | transactions, read only |
| Authentication, logging, error handler, config, `main.py` | none that another part reads | | |

What is hard about it, and what must hold:

* **Payments.** Money moves under pessimistic locks *and* a version check, in a
  session whose objects may be older than the lock. Every committed change must
  be a whole transfer with the funds there, at most one per key
  (`LedgerSpec`), refused payments must move nothing (`RefusalMovesNoMoney`),
  answers must be durable (`AnswersAreDurable`), crossing payments must not
  deadlock (`NoWaitCycle`), retries must run out (`RetriesRunOut`), every
  request must end (`EveryRequestEnds`). An answer that leaves it open whether
  money moved must have a failure to blame (`DoubtTakesAFailure`).
* **Duplicates.** Redis, the table and the unique index each catch some of
  them, and each can be late or stale (`DuplicateIsAnswered`).
* **Top-ups** read without a lock and write with compare-and-set
  (`VersionCountsChanges`, `BalancesAreExplained`); beside payments they are all
  that adds money (`MoneyIsConserved`).
* **Cache.** Fills race invalidations; whatever is cached must have been
  committed once (`CacheIsCommitted`), what is shown must be a balance that
  whole changes explain (`ShownBalancesAreExplained`). An entry becomes stale only
  by a commit whose handler still has its deletion to do or does not learn of it,
  or by a fill that comes late (`StalenessIsAccountedFor`); the handler that owes
  a deletion makes it, without waiting for a TTL, unless it dies or Redis fails
  (`CommitsAreShown`).
* **Limiter.** Two commands that are not atomic
  (`LessThanTwiceTheLimit`, `WindowsEnd`, `RefusedOverLimit`); of the calls that
  race one must set the expiry (`OnlyFailuresKeepCounters`).
* **Registration.** Check-then-insert over two tables (`AccountSpec`,
  `UsersHaveWallets`, `AnswersAreTrue`, `RegistrationEnds`).
* **Pool.** A session keeps its connection while it waits for a row and while it
  calls Redis (`WritersAreConnected`, `PoolDrains`, `EveryRequestEnds`).
* **History.** A page is two statements, the pages are requests of their own,
  and payments commit in between, with stamps set before their commit
  (`NothingIsSkipped`, `RepeatsMeanNews`, `TotalIsDelivered`); who was answered
  must find his payment (`AnswersCanBeLookedUp`).
* **Failures.** A database call may fail, a commit's acknowledgement may be
  lost, Redis may fail on any command, an instance may die at any `await`.

## Modules

    Requests ─┬─ WalletStore ──┐
              ├─ CacheManager ─┴─┬─ PaymentService ─┐
              │                  └─ WalletService ──┴─ PaymentSystem
              └─ Bodies

    PaymentSystem ─┬─ Invariant ─ TypeProofs ─ StoreProofs ─ LedgerProofs
      (refines     ├─ Audit ─────────── AuditProofs     ┐
       Ledger)     ├─ ConnectionPool ── DeadlockProofs  ├ also extend LedgerProofs
                   ├─ History ───────── HistoryProofs   ┘
                   └─ Claims
    MCPaymentSystem (Audit, Claims, Invariant), MCConnectionPool, MCHistory, each with Bodies

    RateLimiter ── LimiterProofs
    UserService (refines Accounts) ── UserProofs

* `Requests`: the request bodies, and per request `pc` (the next `await`),
  `status` (the exception or success it ends with), `attempt`, `receipt` (the
  transaction it is answered with). `Fail` is "an exception leaves the try
  block", `Answer` what the client gets.
* `WalletStore`: committed rows, the newest tuple of each row, row locks,
  flushed rows of `transactions`, and `view`, the identity map of each session.
  A `SELECT` does not refresh an object the session already has, also under
  `FOR UPDATE`; an `UPDATE` that applies does; a rollback expires all. An
  `UPDATE` waits for the row's lock unless the committed version already fails
  its `WHERE`; an `INSERT` waits for an uncommitted row with the same key.
* `CacheManager`: Redis as two functions, each entry with its TTL as an action
  that may happen any time, and each command with a failing outcome.
* `PaymentService`, `WalletService`: one action per `await`, with the source
  lines in the comment over it. `PaymentSystem` composes them with the
  environment and states the properties.
* `Ledger`, `Accounts`: what the two halves promise, with no sessions, locks,
  caches or failures. `LedgerSpec` and `AccountSpec` are their specifications
  under the refinement mappings.
* `ConnectionPool` adds to `PaymentSystem` the set of requests whose session has
  a connection: the first statement of a transaction takes one and waits when
  none is left; a commit, a rollback or the end of the session gives it back.
  Everything else is `PaymentSystem`'s own step, conjoined with that.
* `History` runs clients beside `PaymentSystem` that read pages 1, 2, ... of a
  wallet or look one transaction up, statement by statement. Each row gets its
  `created_at` in the step that flushes it, from any clock. `Slice` says which
  sets of rows ORDER BY, OFFSET and LIMIT may return.
* `Audit`: properties over the table contents. `Claims` and the ends of
  `RateLimiter` and `History`: what comments say and the code refutes.
* `UserService` stands by itself: `register` and the payments share the wallets
  table, and a wallet is only inserted there.
* `Bodies`, `MC*`: request bodies, opening rows and symmetry of the runs.

Definitions under a comment that begins with `Variant:` are plausible bugs of
the definition after them (a lock not taken, a rollback forgotten, an expiry
not set). No specification uses them; put in place of the original, each makes
a property of some run fail, which shows that the property depends on that
line of the code.

### Correspondence

| Source | Actions |
|---|---|
| `payment_service.py:72-98` | `CheckKey`, `FindTxn`, `LoadSender`, `LoadReceiver` |
| `:102-112`, `:189-196` | `LockFirst`, `ExpiredAccess`, `LockSecond` |
| `:206-243` | `InsufficientBalance`, `DebitSender`, `CreditReceiver`, `RecordTransaction`, `CommitTransfer`, `RefreshTransaction` |
| `:114-134` | `StoreKey`, `InvalidateBalances` |
| `:136-172` | `RollbackSend`, `LookupExisting`, `CommitUnacknowledged` |
| `wallet_service.py:96-143` | `LoadForTopUp` ... `RollbackTopUp` |
| `wallet_service.py:33-62` | `LoadForRead`, `ServeFromCache`, `MissCache`, `FillCache` |
| `cache_manager.py:208-230` | `Incr`, `Expire`, `FailOpen` |
| `database.py:14-45` | `PooledStep`, `PooledEnvironment`, `EndsTransaction`; `rollback`, `CloseSession` of `WalletStore` |
| `payments.py:55-88`, `transaction_repo.py:36-60` | `AskPage`, `FindWallet`, `CountRows`, `FetchPage` |
| `payments.py:91-121` | `AskTransaction`, `FindWalletForLookup`, `LookUp` |
| `user_service.py:20-61` | `CheckEmail` ... `Refresh`, `Login`, `GetUser` |

## What is checked

| Run | Instance | Shows |
|---|---|---|
| `Racing` | 3 requests, 4 wallets, 2 keys | `LedgerSpec`, `AnswersAreDurable`, `DuplicateIsAnswered`, `NoWaitCycle`, `BalancesAreExplained`, `VersionCountsChanges`, `MoneyIsConserved`, `DoubtTakesAFailure` with everything interleaved |
| `Faults` | 3 requests, 2 wallets, balances up to 3, every fault | `TypeOK`, `RefusalMovesNoMoney`, `LocksAreOwned`, `CacheIsCommitted`, `ShownBalancesAreExplained`, `StalenessIsAccountedFor`, `RetriesRunOut`, the inductive invariant and `LedgerSpec` under failures |
| `Liveness` | 3 requests, 2 attempts each, a pool of 2, crashes | `WritersAreConnected`, `PoolDrains`, `EveryRequestEnds`, `CommitsAreShown` |
| `Windows` | 5 calls, limit 2, windows of 2 ticks, each subset of the faults | `TypeOK`, `LessThanTwiceTheLimit`, `RefusedOverLimit`, `OnlyFailuresKeepCounters`, `WindowsEnd` |
| `History` | 2 payments that cross, 3 wallets, pages of 1, 2 instants, failing statements | `NothingIsSkipped`, `TotalIsDelivered`, `RepeatsMeanNews`, `AnswersCanBeLookedUp` |
| `Register` | 3 requests, 2 emails, 2 passwords, faults | `UsersHaveWallets`, `AnswersAreTrue`, `AccountSpec`, the invariant, `RegistrationEnds` |

Each of the other runs checks one statement of the repository and finds it
refuted:

| Run | Statement | What happens |
|---|---|---|
| `ClaimFreshBalance` | `payment_service.py:206` "Balance check with locked data" | a top-up between the first read and the lock; the payment is refused although the locked row has the funds |
| `ClaimRetry` | `payment_service.py:69` "Retries internally on optimistic lock conflicts" | the second attempt reads an expired object outside an `await` and ends in a 500 |
| `ClaimRedis` | `payment_service.py:16-17` "Redis is down -> System works without cache" | the pipeline after the commit is unguarded: 500 for a payment that took effect |
| `ClaimSelfHeal` | `cache_manager.py:12` "self-heals on the next read" | a fill with the row read earlier, after the invalidation; stale until the TTL |
| `ClaimCounterTTL` | `cache_manager.py:19` "TTL: 1 min" | a crash between INCR and EXPIRE leaves a counter without one |
| `ClaimStatusFilter` | `payments.py:6` "with status filtering" | the parameter is read by nobody; who asks for `FAILED` is shown completed payments |

Three more statements differ from the code in a way the models simply carry:
`idempotency_service.py:13` lets a client reuse a key after its TTL, while
`FindTxn` answers from the table for ever; `cache_manager.py:216` calls the
limiter a sliding window, while the windows are fixed
(`LessThanTwiceTheLimit` is what is left of it); `rate_limiter.py:38` speaks of
a user id set by the auth middleware, while nothing sets one, so `identifier`
is the address.

Two registrations of one email that race end in a 201 and an IntegrityError
that `user_service.py:36` leaves to the global handler, a 500 where a 409 was
meant; `AnswersAreTrue` counts it as a refusal. The property covers `get_user`
too: the account a token names is always found. It leaves out the login that is
refused, since a registration may follow at once.

None of them contradicts the ledger: with the version check as the second
defence, a stale object costs a refusal or a 500, never money.

**Bounds.** Every constant is in the `.cfg`, every set of bodies in the `MC`
module. Two wallets are enough for crossing payments; `Racing` has three
for a ring and a fourth so that two payments with one key share no wallet (only then does the
insert itself wait). Three requests let one be overtaken twice, which is what
exhausts the retries and what lets a stale fill be observed. `MaxBalance`
stands for Numeric(18, 2): in `Faults` it is small enough for a top-up or
transfer to overflow. `MAX_RETRY_ATTEMPTS` and `MAX_TOPUP_RETRIES` have the
code's value 3, except in `Liveness`, where 2 keeps the graph small; the proofs hold for any value. In `RateLimiter` five calls fill two
windows of limit 2, and one more. `PoolSize` 2 stands for the code's 30 as three
requests stand for any number: one more than there are connections. In
`History` two rows on pages of one are three pages, each with a commit that may
come between it and the one before, and two instants let the later commit have
the older stamp.

**Deadlock.** The requests of an instance are finitely many and all get
answered, after which nothing is left to do once the cache is empty: the runs of
`PaymentSystem` and `UserService` therefore do not check TLC's deadlock. That
handlers do not wait for each other is `NoWaitCycle`, and that they end is
`EveryRequestEnds` and `RegistrationEnds`. In `RateLimiter` time always passes.

**Symmetry** is used over requests, in runs without liveness properties only; wallets are ordered by id (the lock order) and keys are tied to
bodies.

**Fairness.** Weak fairness of the steps of every request that has begun: the
event loop resumes a coroutine whose `await` is over, and PostgreSQL grants a
free lock. No client has to send anything, no failure has to happen, and no
handler has priority: when the lock a step needs is taken and released over and
over, weak fairness alone does not give it to that handler, yet the requests
are finitely many and each takes a lock finitely often. The same goes for a
connection of the pool, which goes to any of those who wait (the real pool is
first come, first served). No entry of the cache has to run out: whatever a
commit makes stale has to be cleared by its own handler. In `RateLimiter` a
tick of time passes.

## What is proved

For every choice of the constants the modules assume (any sets of requests and
wallets, any bodies, opening rows, limits, and faults):

| Theorem | Module | Statement |
|---|---|---|
| `TypeCorrect` | `TypeProofs` | types, and each request at a step its body and its passed checks allow |
| `LocksOwned`, `CacheCommitted`, `StalenessExplained` | `StoreProofs` | `[]LocksAreOwned`, `[]CacheIsCommitted`, `StalenessIsAccountedFor` |
| `RefusalsAreTrue`, `AnswersDurable`, `DuplicatesAnswered` | `LedgerProofs` | `[]RefusalMovesNoMoney`, `[]AnswersAreDurable`, `[]DuplicateIsAnswered` |
| `InvariantHolds` | `LedgerProofs` | `[]IInv` |
| `ImplementsLedger` | `LedgerProofs` | `Spec => LedgerSpec` |
| `DoubtNeedsAFailure` | `LedgerProofs` | `[]DoubtTakesAFailure` |
| `VersionsCount`, `BalancesExplained` | `AuditProofs` | `[]VersionCountsChanges`, `[]BalancesAreExplained` |
| `MoneyConserved`, `ShownExplained` | `AuditProofs` | `[]MoneyIsConserved`, `[]ShownBalancesAreExplained` |
| `NoDeadlock`, `RetriesEnd` | `DeadlockProofs` | `[]NoWaitCycle`, `RetriesRunOut` |
| `WritersConnected`, `PoolNeverBlocks` | `DeadlockProofs` | `[]WritersAreConnected`, `[]PoolDrains` |
| `NothingSkipped`, `RepeatsAreNews`, `TotalDelivered`, `AnswersLookedUp` | `HistoryProofs` | `[]NothingIsSkipped`, `RepeatsMeanNews`, `TotalIsDelivered`, `AnswersCanBeLookedUp` |
| `AccountsAreConsistent`, `UsersHaveTheirWallets`, `AnswersStayTrue`, `ImplementsAccounts` | `UserProofs` | `[]IInv` of `UserService` and its parts `UsersHaveWallets`, `AnswersAreTrue`; `Spec => AccountSpec` |
| `LimiterTypeCorrect`, `RefusalsAreDeserved`, `WindowsAreBounded`, `CountersGetTheirExpiry` | `LimiterProofs` | `[]TypeOK`, `[]RefusedOverLimit`, `[]LessThanTwiceTheLimit`, `[]OnlyFailuresKeepCounters` of `RateLimiter` |

The safety properties are not inductive: that a debit takes the right amount
from the right row depends on who holds the lock, on what the session read and
when. `Invariant` adds what is missing in layers, each inductive given the ones
before it, and the proof modules follow them:

1. `TypeOK`, `ControlOK`: which checks a request has passed.
2. `LocksAreOwned`, `LocksAreHeld`: who holds which row at which step.
3. `RowsOK`: the newest tuple of a locked row is the committed one with exactly
   the changes its holder has made so far.
4. `ViewsOK`, `CacheIsCommitted`: a row that was read is the committed one if
   its version is. With 3, a versioned update that applies works on the
   committed balance, however old the object was.
5. `PendingOK`, `HistoryOK`, `KeysAreUnique`: flushed and committed records.
6. `AnswersOK`, `AnswersAreDurable`: what the answers rest on. In particular no
   CHECK constraint can fail after a passed balance check, so that an
   IntegrityError always is a duplicate key.

`ImplementsLedger` then maps a commit to a transfer or a top-up and every other
step to a stutter. `StalenessExplained`: a cached balance is the committed one if its version is
(layer 4), so it can become stale only when the row changes or the entry does.
A step that changes a row is a commit of one of the row's own writers
(`CommitsWrite`), which goes on to its deletion or has lost the acknowledgement
(`CommitOwes`); a fill that differs from the row is one of an older version
(`StaleFillIsLate`).

`AnswersStayTrue` needs that whoever is named in an answer is named for good
(`NamesAreAnswers`): a token can only name a committed user, and users are never
deleted, so `get_user` finds him.

`NoDeadlock` takes the largest row anybody in a wait cycle
waits for: its holder waits for nothing in the cycle. It needs wallet ids to be
bounded integers, which UUIDs are.

`DoubtNeedsAFailure` strengthens its property to the steps before the answer: a
request whose change is committed is on its way to a success (`Undoubted`), and
with Redis and the database answering no step leads off that way.

The sums of `Audit` are counts: money is a set of coins, and a sum the
cardinality of their union, so that the laws of finite sets take the place of
an induction. `BooksInv` joins the three statements about the tables to their
being finite. Its step is the commit: by `RowsOK` the rows that become visible
are the committed ones with just the changes of the record that becomes visible
with them. A row that a reader shows was committed when he read it, and
remains explained because the tables only grow (`ExplainedStays`).

`RetriesEnd` is the part of `EveryRequestEnds` that is a safety property. Of
each request it counts the awaits ahead in its attempt, and as many as an
attempt can have for each attempt it has left: every step of the request makes
that less (`StepCountsDown`), also a rollback that goes back to the start of the
loop, since it uses up an attempt. What is left to liveness is that each wait is
granted.

What is proved of `PaymentSystem` holds with the pool and with readers, since
both only restrict or ignore its steps: that is how they are modelled, and the
lemmas `PoolRefines` and `HistoryRefines` only say it.
`PoolNeverBlocks` uses that: whoever is waited for holds a row or a record, so
he has a connection, and the sessions that have one are a set in which, by
`NoDeadlock`, somebody waits for nobody.

`NothingSkipped` and `RepeatsAreNews` are about counting. `ReaderOK` says that
a row the client has yet to see has at least as many newer rows as the pages
read so far hold, and that, while nothing is added, a row it has seen has
fewer. A payment that commits can only add newer rows; a page of `Slice` ends
just where the count does (`SliceOrders`). Both need the stamps of a wallet's rows to
differ: rows with one stamp have no order in the query, so a page boundary
between them may skip one.

`WindowsAreBounded` follows the call that opened the window: as long as it is
young, the calls that were counted with it are at most the counter, and what
came before it belongs to a window that was full at most once.
`CountersGetTheirExpiry`: whoever counts to one still has the EXPIRE before him,
and others only add to the counter meanwhile.

TLC checks `IInv` in `Faults` and `Register` as well. Only model-checked: the
liveness properties `EveryRequestEnds`, `CommitsAreShown`, `WindowsEnd` and
`RegistrationEnds`. They rest on fairness and `ENABLED`, which are out of the
provers' reach.

## Not modelled

* The id of a request and the log lines (`request_context.py`,
  `logging_config.py`): no part reads what they write. `main.py` wires the
  parts together, its health endpoint reports a ping of Redis and is healthy
  whatever the answer; `init_db.py` is one call before any request.
* `currency`: stored and never compared with the wallets'. Descriptions,
  `updated_at`, JSON bodies, log lines, hashing and the expiry of tokens.
* The 32-bit `version` column.
* `wallet:info` entries (deleted, never set), `get_balance_fast`,
  `delete_key`, the idempotency methods and the pipeline helper of the cache
  manager (never called), and the two limiters no route uses.
* `get_wallet` writes a cached balance into the mapped object; nothing flushes
  that session afterwards, so the write is lost with it.
* A rollback that itself fails: the connection is dropped and the database
  rolls back, which is `Crash` without the server's death.
* A client that goes away: Starlette cancels the coroutine at an `await` at the
  latest when the server stops, which to the tables is `Crash`.
* `payment_service.py:28` says a refused payment is "marked FAILED"; the code
  records none, and the model has committed transactions only.
* The connections of readers of the history and of registrations in the pool:
  readers wait for nobody, and a registration at most for another one that has
  its connection. A
  checkout that times out after 30 seconds is one of the database errors of
  `Faults`; in `Liveness` instances die, and no statement times out.
* Which of the rows with one `created_at` comes first: `Slice` allows any order
  in each query, and the properties of pages leave such wallets out.

## Plan

Done: the request path with its composition, the connection pool, the readers
of the history, the limiter and registration, with their properties and, except
for liveness, proofs. What could be added:

1. Registration composed with payments: a wallet that appears while a payment
   to it is refused with 404.
2. Larger instances of `Faults`: a third wallet, a fourth request.
