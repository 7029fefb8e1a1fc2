SPECIFICATION Spec
CONSTANTS
    Sockets = {1, 2}
    Scripts <- TheScripts
    Calls = 2
    Opcodes <- TheOpcodes
    TextLen = 5
    ShortFrame = 3
    SocketRoom = 12
    SocketHead = 3
    MaxQueued = 1
    SocketReports = 1
    Cuts = {1}
    Calm = {1}
INVARIANTS
    BufferIsCounted
    FramesAreTexts
    HandedInOrder
PROPERTIES
    QueueIsServed
CHECK_DEADLOCK FALSE
