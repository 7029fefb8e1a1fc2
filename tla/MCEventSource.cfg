SPECIFICATION Spec
CONSTANTS
    Listeners = {1, 2}
    Events = 2
    EventRoom = 5
    EventSize = 3
    SmallSize = 1
    EventHead = 2
    EventAcks <- TheAcks
    EventReports = 1
INVARIANTS
    EventsInOrder
PROPERTIES
    QueueDrains
CHECK_DEADLOCK FALSE
