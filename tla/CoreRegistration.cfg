SPECIFICATION FairSpec
CONSTANTS
    Gnbs = {1, 2}
    UEs = {11, 12}
    SelectedCell <- MCSelectedCell
    MaxRegistrations = 3
CHECK_DEADLOCK FALSE
INVARIANTS
    TypeOK
    BearerAgreed
    AmfFindsUe
PROPERTIES
    BearersAdvance
    RegistrationCompletes
