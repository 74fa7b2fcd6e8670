\* Up to three network faults, in any order and of any kind.
CONSTANTS
    Params = {p1, p2}
    Nonces = {n1, n2}
    None = None
    FaultKinds = {"duplicate", "lose", "reorder", "corrupt"}
    MaxFaults = 3
SPECIFICATION FairSpec
INVARIANTS
    TypeOK
    LockAgreement
    LockNeedsPeerAck
    LockTranscriptAgreement
    LockIsMutual
    OwnSeqUnique
    OrderlyInv
PROPERTIES
    ImplementsAgreement
    LockIsFinal
    BothSettle
CHECK_DEADLOCK FALSE
