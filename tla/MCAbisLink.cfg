\* A program that has ended, or is lost in a list, takes no more steps.
CHECK_DEADLOCK FALSE
SPECIFICATION FairAbisSpec
CONSTANTS
    Lists <- MCLists
    OmlMessages <- EveryMessage
    MaxMessages = 2
    BufferLength = 9
    MaxRounds = 4
INVARIANTS
    InStep
    NoRequestTwice
PROPERTIES
    AttrsWalked
    BothServed
