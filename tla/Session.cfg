SPECIFICATION Spec
CONSTANTS
    Options <- BothModes
    NoAlert = NoAlert
    MaxFrames = 2
    MaxSignals = 2
    TimeoutMayFail = TRUE
INVARIANTS
    TypeOK
    BooksBalance
    LogsKeepUp
    AlertsHavePackets
    AccountsAgree
    ReplayJsonPure
    EndsForAReason
PROPERTIES
    StopInCapture
    StopAtNextFrame
    NoFrameAfterStop
CHECK_DEADLOCK FALSE
