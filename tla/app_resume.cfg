SPECIFICATION AppSpec
INVARIANT StreamsWhereAsked
CONSTANTS
    Origins = {o1, o2}
    None = None
    MaxGates = 2
    MaxClicks = 3
CHECK_DEADLOCK FALSE
