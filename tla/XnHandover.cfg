SPECIFICATION FairSpec
CONSTANTS
    Gnbs = {1, 2, 3}
    UEs = {11}
    Home <- MCHome
    gnbIF <- MCgnbIF
    MaxHandovers = 3
    MaxPackets = 1
CHECK_DEADLOCK FALSE
INVARIANTS
    TypeOK
    CrashNeedsOverlap
    ServedWithoutLoss
    CoreFollows
    ReportsNeedOverlap
PROPERTIES
    UeReturns
    HandoverCompletes
