SPECIFICATION FairSpec
INVARIANTS OfferLeavesOut
PROPERTIES ConnectSettles StartSettles KnockSettles
CONSTANTS
    Origins = {a}
    WtOrigins = {a}
    BridgeOrigins = {}
    TunnelOrigins = {a}
    Seats = {s}
    Identities = {i}
    Expectations = {}
    Codecs = {h264, hevc}
    DefaultCodec = h264
    Hasty = FALSE
    HdrDisplay = FALSE
    MaxEpoch = 2
    MaxLoads = 1
    MaxHosts = 2
    None = None
