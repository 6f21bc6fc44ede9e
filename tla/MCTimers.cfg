\* When the clock has stopped and nothing is asked for, select() sleeps for ever.
CHECK_DEADLOCK FALSE
SPECIFICATION FairSpec
CONSTANTS
    Timers = {1, 2, 3}
    MaxTime = 3
    MaxCalls = 4
    Delays = {0, 1}
    Moments = {0, 1, 3}
INVARIANTS
    FlagsAgree
    OnlyZeroOversleeps
PROPERTIES
    OncePerPass
    ImplementsAlarmClock
    NoneLost
