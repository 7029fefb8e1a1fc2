SPECIFICATION FairSpec
CONSTANTS
    Ops = {"connect", "subscribe", "publish0"}
    MaxCalls = 3
    MaxRetries = 1
    IdMax = 4
    KeepAlive = 2
    Inbound = {0, 1}
    MaxInbound = 1
    Flushing = TRUE
    MayDie = TRUE
PROPERTIES
    LiveBrokerKept
    SilenceNoticed
