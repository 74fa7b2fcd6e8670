\* Three clients, one of them perhaps the restart of another, and two rooms.
CONSTANTS
    Clients = {c1, c2, c3}
    Rooms = {x, y}
    None = None
    MaxPayloads = 2
SPECIFICATION RelayFairSpec
INVARIANTS
    RelayTypeOK
    StartsBeforePayload
    UnbrokenPerPeer
PROPERTIES
    GreetingsCross
CHECK_DEADLOCK FALSE
