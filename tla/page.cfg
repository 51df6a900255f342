SPECIFICATION Spec
INVARIANTS
    TypeOK AsAsked InputLetsGo NothingLeaks TvInOrder OnePointer KeptAsGiven
    SweepForgivesNobody
 
CONSTANTS
    Origins = {o1, o2}
    None = None
    MaxGates = 2
    MaxClicks = 2
    Shelves = {o1, o2}
    Nobody = Nobody
    MaxAsked = 1
    Fetches = {c1, c2, c3}
    MAX_IN_FLIGHT = 2
    MaxSessions = 3
    Letters = {a}
    META = {m1, m2}
    Buttons = {left}
    Fingers = {f1, f2}
    Boxes = {o1, o2}
    NoBox = None
    Sleepers = {o1, o2}
    MaxWakes = 2
    STEPS = 2
    SETTLE = 1
    RUN = 1
    QUIET = 1
    MaxSweeps = 3
    MaxLoads = 3
    Profiles = {p1, p2}
    NoProfile = NoProfile
    Tabs = {t1, t2}
    MaxLists = 1
    MaxPlays = 2
    MaxStreams = 2
    MaxFlips = 2
    Routes = {h1, h2}
    MaxMinted = 3
    MaxLogins = 1
    Chars = {a, b}
    MaxText = 3
    MaxEdits = 3
    Names = {n1, n2}
    Values = {1, 2}
    Junk = 0
    MaxBuilds = 3
    Identities = {i1, i2}
    PASSES = 2
    PASS_LIFE = 2
    MaxPasses = 3
    Visitors = {v1, v2, v3}
    Unknown = u
    KEYS = 2
    Each = 2
    All = 3
CHECK_DEADLOCK FALSE
