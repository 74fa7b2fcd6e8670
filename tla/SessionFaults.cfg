\* Two parties that mean well over a network that makes up to two faults of any kind.
CONSTANTS
    Params = {p1}
    Nonces = {n1}
    None = None
    FaultKinds = {"duplicate", "lose", "reorder", "corrupt", "tamper"}
    MaxFaults = 2
    NonceReports = {c1}
    FeeChoices = {f1}
    TxHashes = {h1}
    FundingValues = {"enough"}
    Mutators = {"none"}
    TxAMayFail = FALSE
SPECIFICATION SessionSpec
INVARIANTS
    SInv
    SessionTypeOK
    SortHasNoTies
    TemplateAgreement
    AdaptorAgreement
PROPERTIES
    ResendIgnored
    ImplementsLockstep
CHECK_DEADLOCK FALSE
