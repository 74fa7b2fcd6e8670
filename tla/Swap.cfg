\* Two honest clients, a faultless network, and at most one kind of failure.
CONSTANTS
    Params = {p1}
    Nonces = {n1}
    None = None
    FaultKinds = {}
    MaxFaults = 0
    NonceReports = {c1}
    FeeChoices = {f1}
    TxHashes = {h1}
    FundingValues = {"enough"}
    Mutators = {"none"}
    TxAMayFail = TRUE
    Breakables = {"rpc", "socket", "chain"}
SPECIFICATION SwapFairSpec
INVARIANTS
    SwapTypeOK
    FundedBeforeSpent
    TxAAfterTxB
    ExitZeroMeansTemplates
PROPERTIES
    TxBPaysBob
CHECK_DEADLOCK FALSE
