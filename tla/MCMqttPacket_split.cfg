SPECIFICATION Spec
CONSTANTS
    Messages <- Acks
    MaxSent = 2
    Streamed = {}
    SplitBodies = TRUE
INVARIANTS
    ReadAsSent
