\* A faultless network; the parties may differ in funding, nonces and honesty.
CONSTANTS
    Params = {p1}
    Nonces = {n1}
    None = None
    FaultKinds = {}
    MaxFaults = 0
    NonceReports = {c1, c2}
    FeeChoices = {f1}
    TxHashes = {h1}
    FundingValues = {"enough", "short"}
    Mutators = {"none", "tamperTemplateCommit", "tamperAdaptor"}
    TxAMayFail = TRUE
SPECIFICATION SessionFairSpec
INVARIANTS
    MilestoneAgreement
    PhaseLag
    FundingAgreement
    TemplateAgreement
    AdaptorAgreement
    HonestNeverAborts
PROPERTIES
    NoOtherEarlyDrop
    MismatchAborts
    HonestCompletes
CHECK_DEADLOCK FALSE
