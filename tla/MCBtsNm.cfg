\* The program may end itself on a ping; the BSC may stop sending.
CHECK_DEADLOCK FALSE
SPECIFICATION AnySpec
CONSTANTS
    LastTs = 1
    NamedTs = {2}
    Requested = {"UNLOCKED", "OTHER"}
    MaxChanged = 1
CONSTRAINTS
    FewChanged
    AllNamed
PROPERTIES
    OneAckPerRequest
