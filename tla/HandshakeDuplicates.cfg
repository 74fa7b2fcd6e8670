\* One message arrives twice.
CONSTANTS
    Params = {p1}
    Nonces = {n1, n2}
    None = None
    FaultKinds = {"duplicate"}
    MaxFaults = 1
SPECIFICATION Spec
INVARIANTS
    DuplicatesDoNotAbort
CHECK_DEADLOCK FALSE
