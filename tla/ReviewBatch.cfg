SPECIFICATION FairSpec
CONSTANTS
    a1 = a1
    a2 = a2
    b1 = b1
    w1 = w1
    reviewA = reviewA
    reviewB = reviewB
    NoKey = NoKey
    Pieces <- MCPieces
    Keys <- MCKeys
    BatchKey <- MCBatchKey
    Window = 2

INVARIANTS
    NeverTwice
    WaitBounded
    FlushSurvivesExit
PROPERTIES
    KeepsPromise
    AcceptedSettles
