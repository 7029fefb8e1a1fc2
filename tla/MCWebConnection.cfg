SPECIFICATION Spec
CONSTANTS
    Boundary <- TheBoundary
    ItemBuffer = 3
    Requests <- TheRequests
    Segments = {1, 2, 4, 7}
    SendBuffer = 12
    Responses <- TheResponses
    ServerError <- TheServerError
    TryAgains = 1
    Acks = {5}
    Reports = 2
INVARIANTS
    HandledAsSent
    ResponseIsWhole
PROPERTIES
    RequestIsAnswered
CHECK_DEADLOCK FALSE
