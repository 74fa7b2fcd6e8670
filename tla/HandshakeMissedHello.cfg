\* One message is lost.
CONSTANTS
    Params = {p1}
    Nonces = {n1, n2}
    None = None
    FaultKinds = {"lose"}
    MaxFaults = 1
SPECIFICATION Spec
INVARIANTS
    AckMakesUpForHello
CHECK_DEADLOCK FALSE
