\* Two answers to requests about two digests, with every hash function there is.
CONSTANTS
    Sids = {s1}
    Digests = {dA, dB}
    Ts = {t1}
    Salts = {k1, k2}
    Bits = {b1}
    MaxPresigns = 2
SPECIFICATION AdaptorSpec
INVARIANTS
    OwnSignatureUnlocks
    OthersStayLocked
CHECK_DEADLOCK FALSE
