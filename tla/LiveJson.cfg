SPECIFICATION Spec
CONSTANTS
    Options <- LiveJson
    NoAlert = NoAlert
    MaxFrames = 1
    MaxSignals = 1
    TimeoutMayFail = FALSE
INVARIANTS
    JsonPure
CHECK_DEADLOCK FALSE
