SPECIFICATION Spec
CONSTANTS
    Request = {r1, r2}
    NoRequest = NoRequest
    Wallet = {1, 2}
    MaxWalletId = 3
    NoWallet = NoWallet
    k1 = k1
    k2 = k2
    Key = {k1, k2}
    Payload <- StalePayloads
    MaxBalance = 5
    Opening <- MCOpening
    NoTxn = NoTxn
    Faults = {"redis"}
    MAX_RETRY_ATTEMPTS = 3
    MAX_TOPUP_RETRIES = 3
INVARIANT RedisIsOptional
CHECK_DEADLOCK FALSE
