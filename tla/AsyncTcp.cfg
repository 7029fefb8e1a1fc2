SPECIFICATION FairSpec
CONSTANTS
    Clients = {c1, c2}
    Pcbs = {p1, p2}
    None = None
    QueueSize = 32
    MaxConns = 2
    MaxData = 2
INVARIANTS
    PacketsFindTheirClient
    CallbacksHaveClient
    DataInOrder
PROPERTIES
    EveryClientIsDeleted
