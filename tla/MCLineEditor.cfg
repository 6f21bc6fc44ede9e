SPECIFICATION EditSpec
CONSTANTS
    Letters = {a, b}
    Space = Space
    NUL = NUL
    NoLine = NoLine
    BufSize = 5
    MaxHist = 3
    MaxEntered = 1
INVARIANTS
    BufIsLine
PROPERTIES
    ImplementsEditedLine
