SPECIFICATION Spec
INVARIANTS TypeOK NothingLeftOpen CoversInHand
PROPERTIES MediaComesBack PageCatchesUp
CONSTANTS
    Accelerations = 3
    MaxConfigs = 2
    MaxPlanes = 2
    MaxErrors = 1
    MaxEarly = 3
    Chunk = 2
    Prime = 4
    Slack = 2
    Cap = 12
    HalfSecond = 3
    MaxGen = 4
    MaxChanges = 3
    MaxLost = 2
    PadsInFlight = 2
    Sizes = {small, large}
    MaxResizes = 3
    MaxStarts = 2
    Racks = {o1, o2}
    Titles = {1, 2}
    COVERS_PER_FRAME = 1
    COVERS_DECODING = 2
    MaxLibraries = 2
    Known = {o1, o2}
    TRIES = 2
CHECK_DEADLOCK FALSE
