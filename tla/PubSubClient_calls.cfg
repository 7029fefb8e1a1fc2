SPECIFICATION Spec
CONSTANTS
    Ops = {"connect", "subscribe", "unsubscribe", "publish1", "publish2",
           "disconnect"}
    MaxCalls = 4
    MaxRetries = 1
    IdMax = 3
    KeepAlive = 1
    Inbound = {0, 1, 2}
    MaxInbound = 1
    Flushing = TRUE
    MayDie = FALSE
INVARIANTS
    TrueMeansDone
    NeverTwice
