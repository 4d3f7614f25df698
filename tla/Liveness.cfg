SPECIFICATION FairPooledSpec
CONSTANTS
    Request = {r1, r2, r3}
    NoRequest = NoRequest
    Wallet = {1, 2}
    MaxWalletId = 2
    NoWallet = NoWallet
    k1 = k1
    k2 = k2
    Key = {k1}
    Payload <- LivePayloads
    MaxBalance = 5
    Opening <- MCOpening
    NoTxn = NoTxn
    Faults = {"crash"}
    PoolSize = 2
    MAX_RETRY_ATTEMPTS = 2
    MAX_TOPUP_RETRIES = 2
INVARIANTS
    WritersAreConnected
    PoolDrains
PROPERTIES
    EveryRequestEnds
    CommitsAreShown
CHECK_DEADLOCK FALSE
