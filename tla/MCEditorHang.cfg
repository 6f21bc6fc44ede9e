SPECIFICATION FairEditSpec
CONSTANTS
    Letters = {a, b}
    Space = Space
    NUL = NUL
    NoLine = NoLine
    BufSize = 3
    MaxHist = 2
    MaxEntered = 1
PROPERTY
    KillEnds
