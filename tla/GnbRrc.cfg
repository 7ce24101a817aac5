SPECIFICATION FairSpec
CONSTANTS
    Gnbs = {1, 2}
    UEs = {11, 12}
    Association <- MCOneCellAssociation
    TTT = 1
    MaxTime = 1
    MaxEvents = 1
    MaxReports = 1
    MaxRows = 2
CHECK_DEADLOCK FALSE
INVARIANTS
    TypeOK
    ElapsedIsEarned
    LaterRowsUnset
PROPERTIES
    SetupCompletes
