\* Processes that have ended take no more steps.
CHECK_DEADLOCK FALSE
SPECIFICATION FairSpec
CONSTANTS
    Procs = {1, 2, 3}
    Pid <- MCPid
    None = None
INVARIANTS
    OneDaemon
    FileNamesDaemon
PROPERTIES
    StopEnds
