SPECIFICATION Spec
INVARIANTS TypeOK OneHost NothingClaimed StreamIsOurs FallbackWhileOpening
CONSTANTS
    Origins = {a, b}
    WtOrigins = {a, b}
    BridgeOrigins = {a}
    TunnelOrigins = {b}
    Seats = {}
    Identities = {i}
    Expectations = {}
    Codecs = {h264}
    DefaultCodec = h264
    Hasty = TRUE
    HdrDisplay = FALSE
    MaxEpoch = 2
    MaxLoads = 1
    MaxHosts = 2
    None = None
