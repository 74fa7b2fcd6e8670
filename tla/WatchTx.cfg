\* A few polls, two confirmations, and calls that may take as long as a poll.
CONSTANTS
    Confirmations = 2
    Poll = 2
    Timeout = 5
    MaxLatency = 2
    MaxHeight = 4
    None = None
SPECIFICATION WatchSpec
INVARIANTS
    ResultIsTrue
    TimeoutIsHonest
    EndsInTime
CHECK_DEADLOCK FALSE
