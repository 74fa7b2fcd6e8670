\* Two honest clients, and nothing fails.
CONSTANTS
    Params = {p1}
    Nonces = {n1}
    None = None
    FaultKinds = {}
    MaxFaults = 0
    NonceReports = {c1}
    FeeChoices = {f1}
    TxHashes = {h1}
    FundingValues = {"enough"}
    Mutators = {"none"}
    TxAMayFail = FALSE
    Breakables = {}
SPECIFICATION SwapFairSpec
PROPERTIES
    BothTransactionsBroadcast
CHECK_DEADLOCK FALSE
