\* Callbacks may close every connection; nobody has to send.
CHECK_DEADLOCK FALSE
SPECIFICATION CallbacksSpec
CONSTANTS
    Entries = {1, 2, 3, 4}
    Fds = {1, 2, 3, 4}
INVARIANTS
    NobodySkipped
