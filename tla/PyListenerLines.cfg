SPECIFICATION Spec
CONSTANTS
    MaxLines = 2
    MaxTime = 0
    Window = 1
CHECK_DEADLOCK FALSE
INVARIANT
    EventsAreLines
