SPECIFICATION Spec
CONSTANTS
    Request = {r1, r2, r3}
    NoRequest = NoRequest
    Wallet = {1, 2}
    MaxWalletId = 2
    NoWallet = NoWallet
    k1 = k1
    k2 = k2
    Key = {k1, k2}
    Payload <- FaultyPayloads
    MaxBalance = 3
    Opening <- MCOpening
    NoTxn = NoTxn
    Faults = {"redis", "db", "crash"}
    MAX_RETRY_ATTEMPTS = 3
    MAX_TOPUP_RETRIES = 3
SYMMETRY Symmetry
INVARIANTS
    TypeOK
    RefusalMovesNoMoney
    LocksAreOwned
    CacheIsCommitted
    ShownBalancesAreExplained
    IInv
PROPERTIES
    LedgerSpec
    RetriesRunOut
    StalenessIsAccountedFor
CHECK_DEADLOCK FALSE
