SPECIFICATION Spec
INVARIANTS HelloOffersAll
CONSTANTS
    Origins = {a}
    WtOrigins = {a}
    BridgeOrigins = {}
    TunnelOrigins = {}
    Seats = {}
    Identities = {i}
    Expectations = {}
    Codecs = {h264, hevc}
    DefaultCodec = h264
    Hasty = FALSE
    HdrDisplay = FALSE
    MaxEpoch = 2
    MaxLoads = 1
    MaxHosts = 2
    None = None
