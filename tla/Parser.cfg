SPECIFICATION ParserSpec
CONSTANTS
    Frames <- Boundaries
INVARIANTS
    ReadsWithinFrame
    ReadsWithinDatagram
    ValidMeansWellFormed
    LengthsFit
CHECK_DEADLOCK FALSE
