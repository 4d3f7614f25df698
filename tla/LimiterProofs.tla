------------------------------ MODULE LimiterProofs ------------------------------
(***************************************************************************)
(* The limiter keeps its types, refuses nobody before the limit is used    *)
(* up, leaves no counter without expiry unless something fails, and, while *)
(* Redis answers, lets fewer than twice the limit through in any window.   *)
(***************************************************************************)
EXTENDS RateLimiter, FiniteSetTheorems, TLAPS

\* The counter belongs to the client's address, as no user is ever set.
LEMMA HostIsCounted ==
    ASSUME TypeOK, NEW c \in Call
    PROVE  identifier(c) = from[c] /\ identifier(c) \in Host
BY DEF TypeOK, identifier

\* Every action keeps the types.
LEMMA LimiterTyping == TypeOK /\ [Next]_vars => TypeOK'
<1>. SUFFICES ASSUME TypeOK, [Next]_vars
              PROVE  TypeOK'
    OBVIOUS
<1>. USE LimitAssumption DEF TypeOK
<1>1. ASSUME NEW c \in Call, Incr(c)
      PROVE  TypeOK'
    BY <1>1, HostIsCounted DEF Incr, Count, Verdict
<1>2. ASSUME NEW c \in Call, Expire(c)
      PROVE  TypeOK'
    BY <1>2, HostIsCounted DEF Expire, SetExpiry, Verdict
<1>3. ASSUME NEW c \in Call, FailOpen(c)
      PROVE  TypeOK'
    BY <1>3, HostIsCounted DEF FailOpen, Count, SetExpiry
<1>4. ASSUME NEW c \in Call, Crash(c)
      PROVE  TypeOK'
    BY <1>4 DEF Crash
<1>5. CASE RedisRestart
    BY <1>5 DEF RedisRestart
<1>6. CASE Tick
    BY <1>6 DEF Tick
<1>7. CASE UNCHANGED vars
    BY <1>7 DEF vars
<1>. QED
    BY <1>1, <1>2, <1>3, <1>4, <1>5, <1>6, <1>7 DEF Next

\* The variables keep their types, whatever fails.
THEOREM LimiterTypeCorrect == Spec => []TypeOK
<1>1. Init => TypeOK
    BY LimitAssumption DEF Init, TypeOK
<1>. QED
    BY <1>1, LimiterTyping, PTL DEF Spec

-------------------------------------------------------------------------------
\* A counter counts calls that have come; an expiry or a restart only loses some.
CountsAreCovered ==
    \A h \in Host :
        /\ IsFiniteSet(Come(h))
        /\ count[h] <= Cardinality(Come(h))

LimitInv == TypeOK /\ CountsAreCovered /\ RefusedOverLimit

\* A step at which nobody comes and no counter grows keeps the invariant.
LEMMA NobodyComes ==
    ASSUME TypeOK, TypeOK', CountsAreCovered, RefusedOverLimit,
           \A h \in Host : Come(h)' = Come(h) /\ count'[h] <= count[h],
           \A c \in Call : pc'[c] = "refused" => pc[c] = "refused",
           UNCHANGED from
    PROVE  CountsAreCovered' /\ RefusedOverLimit'
<1>1. \A h \in Host : Cardinality(Come(h)) \in Nat
    BY FS_CardinalityType DEF CountsAreCovered
<1>2. CountsAreCovered'
    BY <1>1 DEF TypeOK, CountsAreCovered
<1>3. RefusedOverLimit'
    BY DEF TypeOK, RefusedOverLimit
<1>. QED
    BY <1>2, <1>3

\* A call comes: its address has one call more, and its counter at most one.
LEMMA SomebodyComes ==
    ASSUME TypeOK, TypeOK', CountsAreCovered, RefusedOverLimit,
           NEW c \in Call, pc[c] = "incr", pc'[c] # "incr",
           \A d \in Call \ {c} : pc'[d] = pc[d],
           count' = count \/ count' = [count EXCEPT ![from[c]] = @ + 1],
           pc'[c] = "refused" => count[from[c]] >= max_requests,
           UNCHANGED from
    PROVE  CountsAreCovered' /\ RefusedOverLimit'
<1>. DEFINE g == from[c]
<1>0. g \in Host
    BY DEF TypeOK
<1>1. \A h \in Host : IsFiniteSet(Come(h)) /\ Cardinality(Come(h)) \in Nat
    BY FS_CardinalityType DEF CountsAreCovered
<1>2. Come(g)' = Come(g) \cup {c} /\ c \notin Come(g)
    BY DEF Come
<1>3. IsFiniteSet(Come(g)') /\ Cardinality(Come(g)') = Cardinality(Come(g)) + 1
    BY <1>0, <1>1, <1>2, FS_AddElement
<1>4. \A h \in Host \ {g} : Come(h)' = Come(h)
    BY DEF Come
<1>5. CountsAreCovered'
    BY <1>0, <1>1, <1>3, <1>4 DEF TypeOK, CountsAreCovered
<1>6. ASSUME NEW d \in Call, pc'[d] = "refused"
      PROVE  Cardinality(Come(from[d])') > max_requests
  <2>1. CASE d = c
    BY <1>0, <1>1, <1>3, <1>6, <2>1, LimitAssumption
       DEF TypeOK, CountsAreCovered
  <2>2. CASE d # c
    <3>1. from[d] \in Host /\ Cardinality(Come(from[d])) > max_requests
      BY <1>6, <2>2 DEF TypeOK, RefusedOverLimit
    <3>. QED
      BY <1>1, <1>3, <1>4, <3>1, LimitAssumption
  <2>. QED
    BY <2>1, <2>2
<1>. QED
    BY <1>5, <1>6 DEF RefusedOverLimit

\* Nobody is refused before max_requests calls have come from his address: a
\* lost window, a failing Redis and crashes only let more through
\* (check_rate_limit).
THEOREM RefusalsAreDeserved == Spec => []RefusedOverLimit
<1>1. Init => LimitInv
  <2>. SUFFICES ASSUME Init
                PROVE  LimitInv
    OBVIOUS
  <2>1. TypeOK
    BY LimitAssumption DEF Init, TypeOK
  <2>2. \A h \in Host : Come(h) = {} /\ count[h] = 0
    BY DEF Init, Come
  <2>3. RefusedOverLimit
    BY DEF Init, RefusedOverLimit
  <2>. QED
    BY <2>1, <2>2, <2>3, FS_EmptySet DEF LimitInv, CountsAreCovered
<1>2. LimitInv /\ [Next]_vars => LimitInv'
  <2>. SUFFICES ASSUME LimitInv, [Next]_vars
                PROVE  CountsAreCovered' /\ RefusedOverLimit'
    BY LimiterTyping DEF LimitInv
  <2>0. TypeOK /\ TypeOK' /\ CountsAreCovered /\ RefusedOverLimit
    BY LimiterTyping DEF LimitInv
  <2>1. ASSUME NEW c \in Call, Incr(c)
        PROVE  CountsAreCovered' /\ RefusedOverLimit'
    <3>1. /\ pc[c] = "incr" /\ UNCHANGED from
          /\ count' = [count EXCEPT ![from[c]] = @ + 1]
          /\ \A d \in Call \ {c} : pc'[d] = pc[d]
      BY <2>0, <2>1, HostIsCounted DEF Incr, Count, TypeOK
    <3>2. /\ pc'[c] # "incr"
          /\ pc'[c] = "refused" => count[from[c]] >= max_requests
      BY <2>0, <2>1, HostIsCounted, LimitAssumption
         DEF Incr, Verdict, TypeOK
    <3>. QED
      BY <2>0, <3>1, <3>2, SomebodyComes
  <2>2. ASSUME NEW c \in Call, Expire(c)
        PROVE  CountsAreCovered' /\ RefusedOverLimit'
    <3>0. Verdict(1) = "allowed"
      BY LimitAssumption DEF Verdict
    <3>1. /\ pc[c] = "expire" /\ UNCHANGED <<from, count>>
          /\ pc' = [pc EXCEPT ![c] = "allowed"]
      BY <2>2, <3>0 DEF Expire
    <3>2. \A h \in Host : Come(h)' = Come(h)
      BY <2>0, <3>1 DEF Come, TypeOK
    <3>. QED
      BY <2>0, <3>1, <3>2, NobodyComes DEF TypeOK
  <2>3. ASSUME NEW c \in Call, FailOpen(c)
        PROVE  CountsAreCovered' /\ RefusedOverLimit'
    <3>0. pc' = [pc EXCEPT ![c] = "allowed"] /\ UNCHANGED from
      BY <2>3 DEF FailOpen
    <3>1. CASE pc[c] = "incr"
      <4>1. count' = count \/ count' = [count EXCEPT ![from[c]] = @ + 1]
        BY <2>0, <2>3, <3>1, HostIsCounted DEF FailOpen, Count
      <4>. QED
        BY <2>0, <3>0, <3>1, <4>1, SomebodyComes DEF TypeOK
    <3>2. CASE pc[c] # "incr"
      <4>1. count' = count
        BY <2>3, <3>2 DEF FailOpen
      <4>2. \A h \in Host : Come(h)' = Come(h)
        BY <2>0, <3>0, <3>2 DEF Come, TypeOK
      <4>. QED
        BY <2>0, <3>0, <4>1, <4>2, NobodyComes DEF TypeOK
    <3>. QED
      BY <3>1, <3>2
  <2>4. ASSUME NEW c \in Call, Crash(c)
        PROVE  CountsAreCovered' /\ RefusedOverLimit'
    <3>1. \A h \in Host : Come(h)' = Come(h)
      BY <2>0, <2>4 DEF Crash, Come, TypeOK
    <3>. QED
      BY <2>0, <2>4, <3>1, NobodyComes DEF Crash, TypeOK
  <2>5. CASE RedisRestart
    <3>1. \A h \in Host : Come(h)' = Come(h) /\ count'[h] <= count[h]
      BY <2>0, <2>5 DEF RedisRestart, Come, TypeOK
    <3>. QED
      BY <2>0, <2>5, <3>1, NobodyComes DEF RedisRestart
  <2>6. CASE Tick
    <3>1. \A h \in Host : Come(h)' = Come(h) /\ count'[h] <= count[h]
      BY <2>0, <2>6 DEF Tick, Come, TypeOK
    <3>. QED
      BY <2>0, <2>6, <3>1, NobodyComes DEF Tick
  <2>7. CASE UNCHANGED vars
    BY <2>0, <2>7 DEF vars, CountsAreCovered, RefusedOverLimit, Come
  <2>. QED
    BY <2>1, <2>2, <2>3, <2>4, <2>5, <2>6, <2>7 DEF Next
<1>. QED
    BY <1>1, <1>2, PTL DEF Spec, LimitInv

-------------------------------------------------------------------------------
\* The calls of h still to be reckoned with are those of the window that is open
\* (Cur) and of the one before it (Prev).  The call that opened the window is as
\* old as any of Cur, so when the key expires it is old enough to be forgotten:
\* of a window that is over at most max_requests - 1 calls are still young.
Within(h, Cur, Prev) ==
    /\ IsFiniteSet(Cur) /\ IsFiniteSet(Prev)
    /\ \A c \in Cur \cup Prev : pc[c] # "incr"
    /\ Admitted(h) \subseteq Cur \cup Prev
    /\ Cardinality(Prev) < max_requests
    /\ Cardinality(Cur) <= max_requests
    /\ Cardinality(Cur) <= count[h]
    /\ count[h] > 0 =>
          \E f \in Cur :
              /\ \A p \in Prev : age[p] >= age[f]
              /\ ttl[h] > 0 => ttl[h] + age[f] >= RATE_LIMIT
    /\ count[h] = 0 => ttl[h] = 0

WindowInv ==
    "redis" \notin faults =>
        \A h \in Host : \E Cur, Prev \in SUBSET Call : Within(h, Cur, Prev)

\* Another address's call, or a step that counts nobody, disturbs no window.
LEMMA WindowStays ==
    ASSUME NEW h \in Host, NEW Cur \in SUBSET Call, NEW Prev \in SUBSET Call,
           Within(h, Cur, Prev),
           \A c \in Call : pc[c] # "incr" => pc'[c] # "incr" /\ age'[c] = age[c],
           Admitted(h)' \subseteq Admitted(h),
           count'[h] = count[h],
           ttl'[h] = ttl[h] \/ ttl'[h] = (IF count[h] = 0 THEN 0 ELSE RATE_LIMIT),
           TypeOK
    PROVE  Within(h, Cur, Prev)'
<1>1. \A c \in Cur \cup Prev : age'[c] = age[c] /\ age[c] \in Nat
    BY DEF Within, TypeOK
<1>. QED
    BY <1>1, LimitAssumption DEF Within, TypeOK

\* A call that comes either opens a window or is one more of the open one.
LEMMA WindowCounts ==
    ASSUME TypeOK, TypeOK', NEW c \in Call, Incr(c),
           NEW Cur \in SUBSET Call, NEW Prev \in SUBSET Call,
           Within(from[c], Cur, Prev)
    PROVE  \E C \in SUBSET Call : Within(from[c], C, Prev)'
<1>. DEFINE h == from[c]
            current == count[h] + 1
<1>0. h \in Host /\ count[h] \in Nat /\ identifier(c) = h
    BY HostIsCounted DEF TypeOK
<1>1. /\ pc[c] = "incr" /\ c \notin Cur \cup Prev
      /\ count'[h] = current /\ UNCHANGED <<from, ttl>>
      /\ pc' = [pc EXCEPT ![c] = IF current = 1 THEN "expire" ELSE Verdict(current)]
      /\ age' = [age EXCEPT ![c] = 0]
    BY <1>0 DEF Incr, Count, Within, TypeOK
<1>2. /\ \A d \in Call \ {c} : pc'[d] = pc[d] /\ age'[d] = age[d]
      /\ pc'[c] # "incr" /\ age'[c] = 0
    BY <1>1, LimitAssumption DEF TypeOK, Verdict
<1>3. Admitted(h)' \subseteq Admitted(h) \cup {c}
    BY <1>1, <1>2 DEF Admitted
<1>4. /\ IsFiniteSet(Cur \cup {c})
      /\ Cardinality(Cur \cup {c}) = Cardinality(Cur) + 1
      /\ Cardinality(Cur) \in Nat /\ Cardinality(Prev) \in Nat
    BY <1>1, FS_AddElement, FS_CardinalityType DEF Within
<1>5. \A d \in Call : age[d] \in Nat
    BY DEF TypeOK
<1>6. CASE current <= max_requests
  <2>1. \E f \in Cur \cup {c} :
            /\ \A p \in Prev : age'[p] >= age'[f]
            /\ ttl'[h] > 0 => ttl'[h] + age'[f] >= RATE_LIMIT
    <3>1. CASE count[h] = 0
      BY <1>0, <1>1, <1>2, <1>5, <3>1 DEF Within
    <3>2. CASE count[h] > 0
      BY <1>0, <1>1, <1>2, <1>5, <3>2 DEF Within
    <3>. QED
      BY <1>0, <3>1, <3>2
  <2>2. Within(h, Cur \cup {c}, Prev)'
    BY <1>0, <1>1, <1>2, <1>3, <1>4, <1>6, <2>1, LimitAssumption DEF Within
  <2>. QED
    BY <1>1, <2>2
<1>7. CASE current > max_requests
  <2>1. pc'[c] = "refused" /\ count[h] > 0
    BY <1>0, <1>1, <1>7, LimitAssumption DEF Verdict, TypeOK
  <2>2. Admitted(h)' \subseteq Admitted(h)
    BY <1>1, <1>2, <2>1 DEF Admitted
  <2>3. \A d \in Cur \cup Prev : pc'[d] = pc[d] /\ age'[d] = age[d]
    BY <1>1, <1>2
  <2>4. Within(h, Cur, Prev)'
    BY <1>0, <1>1, <1>4, <1>5, <2>1, <2>2, <2>3 DEF Within
  <2>. QED
    BY <1>1, <2>4
<1>. QED
    BY <1>0, <1>6, <1>7, LimitAssumption

\* A tick makes everybody older and may end the window.
LEMMA WindowAges ==
    ASSUME TypeOK, TypeOK', Tick, NEW h \in Host,
           NEW Cur \in SUBSET Call, NEW Prev \in SUBSET Call,
           Within(h, Cur, Prev)
    PROVE  \E C, P \in SUBSET Call : Within(h, C, P)'
<1>1. /\ UNCHANGED <<from, pc>>
      /\ ttl'[h] = IF ttl[h] = 0 THEN 0 ELSE ttl[h] - 1
      /\ count'[h] = IF ttl[h] = 1 THEN 0 ELSE count[h]
    BY DEF Tick
<1>2. \A c \in Call :
          /\ age[c] \in 0..RATE_LIMIT
          /\ age'[c] = IF age[c] < RATE_LIMIT THEN age[c] + 1 ELSE age[c]
    BY DEF Tick, TypeOK
<1>3. Admitted(h)' \subseteq Admitted(h)
    BY <1>1, <1>2, LimitAssumption DEF Admitted
<1>4. count[h] \in Nat /\ ttl[h] \in Nat
    BY DEF TypeOK
<1>5. CASE ttl[h] # 1
  <2>1. ASSUME count[h] > 0
        PROVE  \E f \in Cur :
                   /\ \A p \in Prev : age'[p] >= age'[f]
                   /\ ttl'[h] > 0 => ttl'[h] + age'[f] >= RATE_LIMIT
    <3>1. PICK f \in Cur :
              /\ \A p \in Prev : age[p] >= age[f]
              /\ ttl[h] > 0 => ttl[h] + age[f] >= RATE_LIMIT
      BY <2>1 DEF Within
    <3>2. \A p \in Prev : age'[p] >= age'[f]
      BY <1>2, <3>1, LimitAssumption
    <3>3. ttl'[h] > 0 => ttl'[h] + age'[f] >= RATE_LIMIT
      BY <1>1, <1>2, <1>4, <3>1, LimitAssumption
    <3>. QED
      BY <3>2, <3>3
  <2>2. Within(h, Cur, Prev)'
    BY <1>1, <1>3, <1>4, <1>5, <2>1 DEF Within
  <2>. QED
    BY <2>2
<1>6. CASE ttl[h] = 1
  <2>1. PICK f \in Cur :
            /\ \A p \in Prev : age[p] >= age[f]
            /\ ttl[h] + age[f] >= RATE_LIMIT
    BY <1>4, <1>6 DEF Within
  <2>2. age'[f] = RATE_LIMIT /\ \A p \in Prev : age'[p] = RATE_LIMIT
    BY <1>2, <1>6, <2>1, LimitAssumption
  <2>3. Admitted(h)' \subseteq Cur \ {f}
    BY <1>3, <2>2, LimitAssumption DEF Admitted, Within
  <2>4. /\ IsFiniteSet(Cur \ {f})
        /\ Cardinality(Cur \ {f}) = Cardinality(Cur) - 1
        /\ Cardinality(Cur) \in Nat
    BY <2>1, FS_RemoveElement, FS_CardinalityType DEF Within
  <2>5. IsFiniteSet({}) /\ Cardinality({}) = 0
    BY FS_EmptySet
  <2>6. Within(h, {}, Cur \ {f})'
    BY <1>1, <1>6, <2>3, <2>4, <2>5, LimitAssumption DEF Within
  <2>. QED
    BY <2>6
<1>. QED
    BY <1>5, <1>6

\* A period as long as a window sees fewer than twice max_requests calls pass,
\* as long as Redis answers and keeps its counters (check_rate_limit).
THEOREM WindowsAreBounded == Spec => []LessThanTwiceTheLimit
<1>1. Init => TypeOK /\ WindowInv
  <2>. SUFFICES ASSUME Init
                PROVE  TypeOK /\ WindowInv
    OBVIOUS
  <2>1. TypeOK
    BY LimitAssumption DEF Init, TypeOK
  <2>2. IsFiniteSet({}) /\ Cardinality({}) = 0
    BY FS_EmptySet
  <2>3. \A h \in Host : Within(h, {}, {})
    BY <2>2, LimitAssumption DEF Init, Within, Admitted
  <2>. QED
    BY <2>1, <2>3 DEF WindowInv
<1>2. TypeOK /\ WindowInv /\ [Next]_vars => TypeOK' /\ WindowInv'
  <2>. SUFFICES ASSUME TypeOK, WindowInv, [Next]_vars, "redis" \notin faults',
                       NEW h \in Host
                PROVE  \E Cur, Prev \in SUBSET Call : Within(h, Cur, Prev)'
    BY LimiterTyping DEF WindowInv
  <2>0. TypeOK' /\ UNCHANGED <<faults, from>>
    BY LimiterTyping
       DEF Next, Incr, Expire, FailOpen, Crash, RedisRestart, Tick, vars
  <2>1. PICK Cur \in SUBSET Call, Prev \in SUBSET Call : Within(h, Cur, Prev)
    BY <2>0 DEF WindowInv
  <2>2. ASSUME NEW c \in Call, Incr(c), from[c] = h
        PROVE  \E C, P \in SUBSET Call : Within(h, C, P)'
    BY <2>0, <2>1, <2>2, WindowCounts
  <2>3. ASSUME NEW c \in Call, Incr(c), from[c] # h
        PROVE  Within(h, Cur, Prev)'
    <3>1. /\ pc[c] = "incr" /\ count'[h] = count[h] /\ ttl'[h] = ttl[h]
          /\ \A d \in Call \ {c} : pc'[d] = pc[d] /\ age'[d] = age[d]
      BY <2>3, HostIsCounted DEF Incr, Count, TypeOK
    <3>2. Admitted(h)' \subseteq Admitted(h)
      BY <2>0, <2>3, <3>1 DEF Admitted
    <3>. QED
      BY <2>1, <3>1, <3>2, WindowStays
  <2>4. ASSUME NEW c \in Call, Expire(c)
        PROVE  Within(h, Cur, Prev)'
    <3>0. Verdict(1) = "allowed"
      BY LimitAssumption DEF Verdict
    <3>1. /\ pc[c] = "expire" /\ pc' = [pc EXCEPT ![c] = "allowed"]
          /\ UNCHANGED <<count, age>>
          /\ \/ ttl'[h] = ttl[h]
             \/ ttl'[h] = IF count[h] = 0 THEN 0 ELSE RATE_LIMIT
      BY <2>4, <3>0, HostIsCounted DEF Expire, SetExpiry, TypeOK
    <3>2. Admitted(h)' \subseteq Admitted(h)
      BY <2>0, <3>1 DEF Admitted, TypeOK
    <3>. QED
      BY <2>1, <3>1, <3>2, WindowStays DEF TypeOK
  <2>5. ASSUME NEW c \in Call, Crash(c)
        PROVE  Within(h, Cur, Prev)'
    <3>1. /\ pc' = [pc EXCEPT ![c] = "crashed"]
          /\ UNCHANGED <<count, ttl, age>>
      BY <2>5 DEF Crash
    <3>2. Admitted(h)' \subseteq Admitted(h)
      BY <2>0, <3>1 DEF Admitted, TypeOK
    <3>. QED
      BY <2>1, <3>1, <3>2, WindowStays DEF TypeOK
  <2>6. CASE Tick
    BY <2>0, <2>1, <2>6, WindowAges
  <2>7. CASE UNCHANGED vars
    BY <2>1, <2>7, WindowStays DEF vars, Admitted
  <2>. QED
    BY <2>0, <2>1, <2>2, <2>3, <2>4, <2>5, <2>6, <2>7
       DEF Next, FailOpen, RedisRestart
<1>3. TypeOK /\ WindowInv => LessThanTwiceTheLimit
  <2>. SUFFICES ASSUME TypeOK, WindowInv, "redis" \notin faults, NEW h \in Host
                PROVE  Cardinality(Admitted(h)) < 2 * max_requests
    BY DEF LessThanTwiceTheLimit
  <2>1. PICK Cur \in SUBSET Call, Prev \in SUBSET Call : Within(h, Cur, Prev)
    BY DEF WindowInv
  <2>. IsFiniteSet(Cur) /\ IsFiniteSet(Prev)
    BY <2>1 DEF Within
  <2>2. /\ IsFiniteSet(Cur \cup Prev)
        /\ Cardinality(Cur \cup Prev) <= Cardinality(Cur) + Cardinality(Prev)
    <3>1. Cardinality(Cur \cap Prev) \in Nat
      BY FS_Intersection, FS_CardinalityType
    <3>2. /\ IsFiniteSet(Cur \cup Prev)
          /\ Cardinality(Cur \cup Prev)
                = Cardinality(Cur) + Cardinality(Prev) - Cardinality(Cur \cap Prev)
      BY FS_Union
    <3>. QED
      BY <3>1, <3>2, FS_CardinalityType
  <2>3. Cardinality(Admitted(h)) <= Cardinality(Cur \cup Prev)
    BY <2>1, <2>2, FS_Subset DEF Within
  <2>4. /\ Cardinality(Admitted(h)) \in Nat /\ Cardinality(Cur \cup Prev) \in Nat
        /\ Cardinality(Cur) \in Nat /\ Cardinality(Prev) \in Nat
    BY <2>1, <2>2, FS_Subset, FS_CardinalityType DEF Within
  <2>. QED
    BY <2>1, <2>2, <2>3, <2>4, LimitAssumption DEF Within
<1>. QED
    BY <1>1, <1>2, <1>3, PTL DEF Spec

-------------------------------------------------------------------------------
\* A counter without expiry has a call that is about to set it, as long as Redis
\* answers and no instance dies, in any interleaving of INCRs, EXPIREs and time
\* (check_rate_limit, lines 223-226).
THEOREM CountersGetTheirExpiry == Spec => []OnlyFailuresKeepCounters
<1>1. Init => OnlyFailuresKeepCounters
    BY DEF Init, OnlyFailuresKeepCounters, CounterExpires
<1>2. TypeOK /\ OnlyFailuresKeepCounters /\ [Next]_vars => OnlyFailuresKeepCounters'
  <2>. SUFFICES ASSUME TypeOK, OnlyFailuresKeepCounters, [Next]_vars, faults' = {},
                       NEW h \in Host, count'[h] > 0, ttl'[h] = 0
                PROVE  \E c \in Call : identifier(c)' = h /\ pc'[c] = "expire"
    BY DEF OnlyFailuresKeepCounters, CounterExpires
  <2>0. /\ UNCHANGED <<faults, from>> /\ CounterExpires(h)
        /\ count[h] \in Nat /\ ttl[h] \in Nat
        /\ \A c \in Call : identifier(c)' = from[c] /\ from[c] \in Host
    BY HostIsCounted
       DEF Next, Incr, Expire, FailOpen, Crash, RedisRestart, Tick, vars,
           OnlyFailuresKeepCounters, TypeOK, identifier
  <2>1. ASSUME NEW c \in Call, Incr(c)
        PROVE  \E d \in Call : from[d] = h /\ pc'[d] = "expire"
    <3>1. /\ pc[c] = "incr" /\ ttl'[h] = ttl[h]
          /\ \A d \in Call \ {c} : pc'[d] = pc[d]
          /\ from[c] # h => count'[h] = count[h]
          /\ from[c] = h /\ count[h] = 0 => pc'[c] = "expire"
      BY <2>0, <2>1, HostIsCounted DEF Incr, Count, TypeOK
    <3>. QED
      BY <2>0, <3>1, HostIsCounted DEF CounterExpires
  <2>2. ASSUME NEW c \in Call, Expire(c)
        PROVE  \E d \in Call : from[d] = h /\ pc'[d] = "expire"
    <3>1. /\ from[c] # h /\ ttl'[h] = ttl[h] /\ count'[h] = count[h]
          /\ \A d \in Call \ {c} : pc'[d] = pc[d]
      BY <2>0, <2>2, HostIsCounted, LimitAssumption DEF Expire, SetExpiry, TypeOK
    <3>. QED
      BY <2>0, <3>1, HostIsCounted DEF CounterExpires
  <2>3. CASE Tick
    <3>1. count[h] > 0 /\ ttl[h] = 0 /\ UNCHANGED pc
      BY <2>0, <2>3 DEF Tick
    <3>. QED
      BY <2>0, <3>1, HostIsCounted DEF CounterExpires
  <2>4. CASE UNCHANGED vars
    BY <2>0, <2>4, HostIsCounted DEF vars, CounterExpires
  <2>. QED
    BY <2>0, <2>1, <2>2, <2>3, <2>4 DEF Next, FailOpen, Crash, RedisRestart
<1>. QED
    BY <1>1, <1>2, LimiterTypeCorrect, PTL DEF Spec
===============================================================================
