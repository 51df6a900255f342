SPECIFICATION RecoverySpec
INVARIANTS RecoveryTypeOK NeverRewinds LostIsPending BlameIsRight
PROPERTY PictureReturns
CONSTANTS
    Width = 6
    RfiMaxRange = 1
    Repeat = 1
    Throttle = 1
    GiveUp = 2
    ReAsk = 1
    MaxGap = 1
    MaxFaults = 2
    InFlight = 2
    Depth = 1
CHECK_DEADLOCK FALSE
