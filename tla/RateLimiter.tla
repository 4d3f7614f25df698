------------------------------ MODULE RateLimiter ------------------------------
(***************************************************************************)
(* The limiter in front of POST /payments/send (payment_rate_limit, the    *)
(* only one a route uses): INCR, then EXPIRE when the counter was 1, as    *)
(* two awaits.  The counter's key names the client's address and the path, *)
(* one path here.  Time passes in ticks, RATE_LIMIT of them to a window.   *)
(***************************************************************************)
EXTENDS Integers, FiniteSets

CONSTANTS
    Call,          \* calls of the endpoint
    Host,          \* client addresses
    max_requests,  \* admitted per window
    RATE_LIMIT,    \* the TTL of a counter
    Faults         \* the kinds of failure that may happen

ASSUME LimitAssumption == max_requests \in Nat \ {0} /\ RATE_LIMIT \in Nat \ {0}
ASSUME LimiterFaultsAssumption == Faults \subseteq {"redis", "crash"}

VARIABLES
    from,   \* from[c]: where call c comes from
    pc,     \* pc[c]: the next await of the limiter, or its verdict
    count,  \* count[h]: the counter of h, 0 when there is no key
    ttl,    \* ttl[h]: ticks the key has left, 0 when it has no expiry
    age,    \* age[c]: ticks since c was counted, up to RATE_LIMIT
    faults  \* the kinds of failure that happen this time

vars == <<from, pc, count, ttl, age, faults>>

Init ==
    /\ from \in [Call -> Host]
    /\ pc = [c \in Call |-> "incr"]
    /\ count = [h \in Host |-> 0]
    /\ ttl = [h \in Host |-> 0]
    /\ age = [c \in Call |-> RATE_LIMIT]
    /\ faults \in SUBSET Faults

\* str(user_id) if user_id else request.client.host, where no middleware and no
\* dependency ever sets request.state.user_id: users behind one address share a
\* counter, whoever they are.
identifier(c) == from[c]

\* Variant: one call too many passes.
VerdictOneMore(current) ==
    IF current <= max_requests + 1 THEN "allowed" ELSE "refused"

\* Variant: the last call of the limit is refused.
VerdictOneLess(current) ==
    IF current < max_requests THEN "allowed" ELSE "refused"

Verdict(current) == IF current <= max_requests THEN "allowed" ELSE "refused"

\* INCR reaches Redis.
Count(c) ==
    /\ count' = [count EXCEPT ![identifier(c)] = @ + 1]
    /\ age' = [age EXCEPT ![c] = 0]

\* 223-224
Incr(c) ==
    /\ pc[c] = "incr"
    /\ Count(c)
    /\ LET current == count[identifier(c)] + 1
       IN  pc' = [pc EXCEPT ![c] =
                     IF current = 1 THEN "expire" ELSE Verdict(current)]
    /\ UNCHANGED <<from, ttl, faults>>

\* Variant: the counter gets no expiry.
SetNoExpiry(c) == UNCHANGED ttl

\* Variant: the TTL is given in a smaller unit than the code's seconds.
SetExpiryInUnits(c) ==
    LET h == identifier(c)
    IN  ttl' = [ttl EXCEPT ![h] = IF count[h] = 0 THEN 0 ELSE 10 * RATE_LIMIT]

\* 225-227; EXPIRE of a key that is gone does nothing.
SetExpiry(c) ==
    LET h == identifier(c)
    IN  ttl' = [ttl EXCEPT ![h] = IF count[h] = 0 THEN 0 ELSE RATE_LIMIT]

Expire(c) ==
    /\ pc[c] = "expire"
    /\ SetExpiry(c)
    /\ pc' = [pc EXCEPT ![c] = Verdict(1)]
    /\ UNCHANGED <<from, count, age, faults>>

\* 228-230: a command that raises lets the call pass, carried out or not.
FailOpen(c) ==
    /\ "redis" \in faults
    /\ \/ pc[c] = "incr" /\ Count(c) /\ UNCHANGED ttl
       \/ pc[c] = "expire" /\ SetExpiry(c) /\ UNCHANGED <<count, age>>
       \/ pc[c] \in {"incr", "expire"} /\ UNCHANGED <<count, ttl, age>>
    /\ pc' = [pc EXCEPT ![c] = "allowed"]
    /\ UNCHANGED <<from, faults>>

\* The server instance dies between the two commands.
Crash(c) ==
    /\ "crash" \in faults
    /\ pc[c] = "expire"
    /\ pc' = [pc EXCEPT ![c] = "crashed"]
    /\ UNCHANGED <<from, count, ttl, age, faults>>

\* Redis comes back empty (docker-compose keeps no volume for it).
RedisRestart ==
    /\ "redis" \in faults
    /\ count' = [h \in Host |-> 0]
    /\ ttl' = [h \in Host |-> 0]
    /\ UNCHANGED <<from, pc, age, faults>>

Tick ==
    /\ ttl' = [h \in Host |-> IF ttl[h] = 0 THEN 0 ELSE ttl[h] - 1]
    /\ count' = [h \in Host |-> IF ttl[h] = 1 THEN 0 ELSE count[h]]
    /\ age' = [c \in Call |-> IF age[c] < RATE_LIMIT THEN age[c] + 1 ELSE age[c]]
    /\ UNCHANGED <<from, pc, faults>>

Next ==
    \/ \E c \in Call : Incr(c) \/ Expire(c) \/ FailOpen(c) \/ Crash(c)
    \/ RedisRestart
    \/ Tick

Spec == Init /\ [][Next]_vars

\* A handler goes on once Redis has answered, and time passes.
FairSpec == Spec /\ WF_vars(Tick) /\ \A c \in Call : WF_vars(Expire(c))

-------------------------------------------------------------------------------
TypeOK ==
    /\ from \in [Call -> Host]
    /\ pc \in [Call -> {"incr", "expire", "allowed", "refused", "crashed"}]
    /\ count \in [Host -> Nat]
    /\ ttl \in [Host -> 0..RATE_LIMIT]
    /\ age \in [Call -> 0..RATE_LIMIT]
    /\ faults \in SUBSET Faults

\* Calls of h let through in the last RATE_LIMIT ticks; one that waits for its
\* EXPIRE will be.
Admitted(h) ==
    {c \in Call : /\ from[c] = h
                  /\ pc[c] \in {"expire", "allowed"}
                  /\ age[c] < RATE_LIMIT}

\* Windows are fixed, so one may fill up just before it ends and the next just
\* after: nearly twice the limit passes in a period as long as a window, but
\* never twice, as the call that opened the first window is too old by then,
\* however late its EXPIRE was, as long as Redis answers (check_rate_limit).
LessThanTwiceTheLimit ==
    "redis" \notin faults =>
        \A h \in Host : Cardinality(Admitted(h)) < 2 * max_requests

\* Nobody is refused before the limit is used up, whatever fails: more than
\* max_requests calls have come from the client's address by then.
Come(h) == {c \in Call : from[c] = h /\ pc[c] # "incr"}
RefusedOverLimit ==
    \A c \in Call : pc[c] = "refused" =>
        Cardinality(Come(from[c])) > max_requests

\* A counter without a TTL is about to get it.
CounterExpires(h) ==
    count[h] > 0 /\ ttl[h] = 0 =>
        \E c \in Call : identifier(c) = h /\ pc[c] = "expire"

\* Only a failure of Redis or of an instance can leave a counter that never
\* expires: of the calls that race one always sends the EXPIRE, and no EXPIRE
\* sent late, nor a window that ends meanwhile, takes it back.
OnlyFailuresKeepCounters == faults = {} => \A h \in Host : CounterExpires(h)

\* A client at its limit gets a new window: its counter goes away again, unless
\* its EXPIRE is lost (check_rate_limit, lines 224-226).
WindowsEnd ==
    \A h \in Host : faults = {} /\ count[h] > 0 ~> count[h] = 0

-------------------------------------------------------------------------------
(* What a comment says of the limiter and the code refutes.                *)

\* cache_manager.py:19, the key of a counter has a TTL of a minute: a counter
\* without one is about to get it.
CountersExpire == \A h \in Host : CounterExpires(h)
===============================================================================
