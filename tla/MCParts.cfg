SPECIFICATION PartsSpec
CONSTANTS
    Messages <- AllMessages
    MaxSent = 2
    Streamed <- Boundaries
    SplitBodies = FALSE
    Stored <- MCStored
    Routes <- MCRoutes
    Visits <- MCVisits
    Extension <- MCExtension
    Capacity <- MCCapacity
    NodeSize = 16
    ObjectSize = 8
    TextCapacity = 1024
    Constructed <- MCConstructed
    Assigned <- MCAssigned
    Configured <- MCConfigured
    MacLength = 17
    StatusLengths <- MCStatusLengths
    SettingsRoom = 480
    Colours <- MCColours
    Levels = {0, 1, 255}
    Steps = {120}
    StripTypes <- MCStripTypes
    Lengths = {1, 2}
    InitialSize = 20
    HeapSize = 150
    BlockHeader = 12
    NodeBytes = 12
    ContainerBytes = 8
    Keys = {"k", "l"}
    Given <- MCGiven
    MaxOperations = 4
    Rewrites <- MCRewrites
    Handlers <- MCHandlers
    Requests <- MCRequests
    Sizes = {1, 2}
    Dates = {1, 2}
    MaxSteps = 4
    IntWidth = 16
    NameLength = 3
    Values <- MCValues
    Documents <- MCDocuments
    Numbers <- MCNumbers
    Variants <- MCVariants
    Templates <- MCTemplates
    Logins <- MCLogins
    Handshakes <- MCHandshakes
    Calls <- MCCalls
    Settings <- MCSettings
    Wildcards <- MCWildcards
    ExcludeLists <- MCExcludeLists
    Forms <- MCForms
    SSIDs <- MCSSIDs
    Passwords = {"p"}
    MaxPresses = 4
    Names = {"a"}
    Editors = {1, 2}
    UploadPieces = 2
    Room = 3
    MaxLength = 4
    MaxEdits = 3
    Fields = {"a", "b"}
    FieldValues = {1, 2}
    MaxSaves = 5
    Periods = {2, 5, 12}
    MaxLedCalls = 5
    Second = 3
    Wrap = 16
    Pauses = {1, 4, 15, 17}
    SetTimes = {4, 7}
    Adjustments <- MCAdjustments
    SyncIntervals = {0, 2}
    MaxCalls = 5
    Depths = {0, 1, 2}
    Events <- MCEvents
    Times <- MCTimes
    Wheels <- Byte256
    Hues <- AllHues
INVARIANTS
    PacketsAreWhole
    StatusIsComplete
    RequestsAreAnswered
    ConfigIsKept
    ClockKeepsTime
    LedBlinks
    WithinBrightness
    ConversionsHold
    OwnersPass
    SessionIsUnderstood
PROPERTIES
    KeepsReading
CHECK_DEADLOCK FALSE
