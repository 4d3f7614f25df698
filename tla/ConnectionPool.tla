----------------------------- MODULE ConnectionPool -----------------------------
(***************************************************************************)
(* PaymentSystem with the engine's pool of connections                     *)
(* (app/core/database.py): the first statement of a transaction checks one *)
(* out, and the session keeps it, through every wait for a lock and every  *)
(* call of Redis, until it commits, rolls back or is closed.  A checkout   *)
(* that times out is a DbError.                                            *)
(***************************************************************************)
EXTENDS PaymentSystem, FiniteSets

CONSTANT PoolSize  \* pool_size + max_overflow
ASSUME PoolAssumption == PoolSize \in Nat \ {0}

VARIABLE conn  \* the requests whose session has a connection

pooledVars == <<vars, conn>>

\* r's next step is a statement; reading an expired object never becomes one.
Queries(r) ==
    /\ pc[r] \in SendDbLabel \cup WalletDbLabel
    /\ pc[r] = "lock_first" => Loaded(r, req[r].caller) /\ Loaded(r, req[r].to)

\* Variant: the session of a request that ends normally is never closed.
SessionLeaks(r) ==
    \/ pc[r] = "rollback"
    \/ pc'[r] \in {"refresh", "topup_invalidate", "crashed"}

\* Variant: a connection goes back before its transaction is rolled back.
ReturnsUnreset(r) ==
    pc'[r] \in {"refresh", "topup_invalidate", "rollback", "done", "crashed"}

\* The step of r is a commit, a rollback or the end of its session.
EndsTransaction(r) ==
    \/ pc[r] = "rollback"
    \/ pc'[r] \in {"refresh", "topup_invalidate", "done", "crashed"}

PooledStep(r) ==
    /\ Step(r)
    /\ Queries(r) /\ r \notin conn => Cardinality(conn) < PoolSize
    /\ conn' = IF EndsTransaction(r) THEN conn \ {r}
               ELSE IF Queries(r) THEN conn \cup {r}
               ELSE conn

PooledEnvironment(r) ==
    /\ Environment(r)
    /\ conn' = IF EndsTransaction(r) THEN conn \ {r} ELSE conn

PooledInit == Init /\ conn = {}

PooledNext ==
    \/ \E r \in Request : PooledStep(r)
    \/ \E r \in Request : PooledEnvironment(r)
    \/ Expire /\ UNCHANGED conn

PooledSpec == PooledInit /\ [][PooledNext]_pooledVars

\* The event loop resumes every handler whose await is over, and the pool hands
\* a connection that has come back to a handler that waits for one, in no
\* particular order.  No client has to send a request, and no entry of the cache
\* has to expire.
FairPooledSpec ==
    /\ PooledSpec
    /\ \A r \in Request : WF_pooledVars(pc[r] # "start" /\ PooledStep(r))

-------------------------------------------------------------------------------
\* A row is locked, and a record waits for its commit, only in a session that
\* has a connection: none goes back to the pool in the middle of a transaction,
\* whichever way its handler ends (get_db).
WritersAreConnected ==
    /\ \A w \in Wallet : rowLock[w] # NoRequest => rowLock[w] \in conn
    /\ \A t \in pending : t.by \in conn

\* The pool drains by itself: of the sessions that have a connection, one at
\* least waits for no row and no key of another request, so that those who wait
\* for a connection do not wait for one another (_execute_transfer, top_up).
PoolDrains ==
    conn # {} => \E r \in conn : \A p \in Request : ~WaitsFor(r, p)
===============================================================================
