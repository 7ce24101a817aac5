SPECIFICATION FairSpec
CONSTANTS
    MaxLines = 2
    MaxTime = 1
    Window = 1
CHECK_DEADLOCK FALSE
INVARIANTS
    TypeOK
    NothingLeftBehind
PROPERTY
    ShutsDown
