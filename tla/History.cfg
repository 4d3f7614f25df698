SPECIFICATION HistorySpec
CONSTANTS
    Request = {r1, r2}
    NoRequest = NoRequest
    Wallet = {1, 2, 3}
    MaxWalletId = 3
    NoWallet = NoWallet
    k1 = k1
    k2 = k2
    Key = {k1, k2}
    Payload <- CrossingPayloads
    MaxBalance = 5
    Opening <- MCOpening
    NoTxn = NoTxn
    Faults = {"db"}
    MAX_RETRY_ATTEMPTS = 1
    MAX_TOPUP_RETRIES = 1
    Viewer = {v1}
    Owners = {1, 3, NoWallet}
    StatusFilters = {"any"}
    page_size = 1
    Time = {1, 2}
SYMMETRY Symmetry
INVARIANT NothingIsSkipped
PROPERTIES
    TotalIsDelivered
    RepeatsMeanNews
    AnswersCanBeLookedUp
CHECK_DEADLOCK FALSE
