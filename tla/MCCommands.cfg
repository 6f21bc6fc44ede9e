SPECIFICATION Spec
CONSTANTS
    Letters <- MCLetters
    CmdVec <- MCCmdVec
    Others <- MCOthers
    Digit <- MCDigit
    Do <- MCDo
    MaxWords = 4
INVARIANTS
    DescribedIsAccepted
    NothingIsGuessed
PROPERTIES
    CompletionKeeps
