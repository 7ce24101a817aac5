SPECIFICATION FairSpec
CONSTANTS
    Gnbs = {1, 2, 3}
    UEs = {11}
    MaxReports = 3
CHECK_DEADLOCK FALSE
INVARIANTS
    TypeOK
    ServingNodeServes
    NothingLeftBehind
    CrashNeedsOverlap
PROPERTIES
    HandoverCarriedOut
