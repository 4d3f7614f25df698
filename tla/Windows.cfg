SPECIFICATION FairSpec
CONSTANTS
    Call = {c1, c2, c3, c4, c5}
    Host = {h1}
    max_requests = 2
    RATE_LIMIT = 2
    Faults = {"redis", "crash"}
INVARIANTS
    TypeOK
    LessThanTwiceTheLimit
    RefusedOverLimit
    OnlyFailuresKeepCounters
PROPERTY WindowsEnd
