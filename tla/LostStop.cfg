SPECIFICATION Spec
CONSTANTS
    Options <- Live
    NoAlert = NoAlert
    MaxFrames = 1
    MaxSignals = 1
    TimeoutMayFail = FALSE
PROPERTIES
    StopHonoured
CHECK_DEADLOCK FALSE
