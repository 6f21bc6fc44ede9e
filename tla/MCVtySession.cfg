SPECIFICATION FairSpec
CONSTANTS
    Sessions = {s1, s2}
    Nobody = Nobody
    MaxFail = 4
INVARIANTS
    LockAgrees
    FailuresAgree
PROPERTIES
    ImplementsMutex
    LockComesBack
