\* Peers may stop; a failure may end the program or stop the loop.
CHECK_DEADLOCK FALSE
SPECIFICATION FairSpec
CONSTANTS
    MaxTrx = 2
    Entries = {0, 1, 2, 3}
    Fds = {0, 1, 2, 3, 4}
    MaxPeers = 4
    MaxMessages = 2
    FailureModes = {{"write"}, {"accept", "register", "write"}}
INVARIANTS
    WalkIsSafe
    NoLeak
    SlotsAgree
    ReadsetIsFresh
PROPERTIES
    TurnedAwayOnlyWhenFull
    Served
