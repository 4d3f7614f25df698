SPECIFICATION Spec
CONSTANTS
    Call = {c1, c2, c3}
    Host = {h1}
    max_requests = 2
    RATE_LIMIT = 2
    Faults = {"crash"}
INVARIANT CountersExpire
