\* Two honest parties, no faults.
CONSTANTS
    Params = {p1}
    Nonces = {n1}
    None = None
    FaultKinds = {}
    MaxFaults = 0
    NonceReports = {c1}
    FeeChoices = {f1}
    TxHashes = {h1}
    FundingValues = {"enough"}
    Mutators = {"none"}
    TxAMayFail = FALSE
SPECIFICATION SessionFairSpec
PROPERTIES
    BothReachPlanned
CHECK_DEADLOCK FALSE
