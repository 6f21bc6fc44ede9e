\* The BTS may end itself on a ping; once it is in service nobody has to speak.
CHECK_DEADLOCK FALSE
SPECIFICATION FairSpec
CONSTANTS
    LastTs = 2
    NamedTs = {}
    Requested = {"UNLOCKED"}
    MaxPings = 1
    MaxRestarts = 1
INVARIANTS
    StartupOrder
    TransceiverLast
    EnabledIsUnlocked
    RslLast
    ViewAgrees
PROPERTIES
    StartsOnce
    ImplementsLifeCycle
    ComesUp
