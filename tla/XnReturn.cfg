SPECIFICATION Spec
CONSTANTS
    Gnbs = {1, 2}
    UEs = {11}
    Home <- MCHome
    gnbIF <- MCgnbIF
    MaxHandovers = 2
    MaxPackets = 0
CHECK_DEADLOCK FALSE
INVARIANTS
    ReturnIsReported
