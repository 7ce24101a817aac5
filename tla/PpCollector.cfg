SPECIFICATION Spec
CONSTANTS
    MaxTime = 6
    MaxPingPongs = 5
    Window = 2
CHECK_DEADLOCK FALSE
INVARIANTS
    AlertsOncePerBurst
    OnlyRecentKept
