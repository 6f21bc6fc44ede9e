\* A closed connection takes no more steps.
CHECK_DEADLOCK FALSE
SPECIFICATION FairSpec
CONSTANTS
    Size = 3
    MaxChunks = 2
    MaxFlush = 6
    Room = 4
    Greeting = 1
    MaxBytes = 7
    MaxReads = 1
INVARIANTS
    NothingForgotten
PROPERTIES
    ImplementsByteStream
    AllWritten
