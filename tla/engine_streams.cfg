SPECIFICATION Spec
INVARIANTS StreamingIsLive
PROPERTIES TrustBeforeDial ErrorStops
CONSTANTS
    Origins = {a}
    WtOrigins = {a}
    BridgeOrigins = {}
    TunnelOrigins = {}
    Seats = {}
    Identities = {i, j}
    Expectations = {i}
    Codecs = {h264, hevc}
    DefaultCodec = h264
    Hasty = FALSE
    HdrDisplay = TRUE
    MaxEpoch = 2
    MaxLoads = 1
    MaxHosts = 2
    None = None
