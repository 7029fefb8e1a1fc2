SPECIFICATION FairSpec
CONSTANTS
    Interval = 4
    Quiet = 2
    MaxForeign = 3
INVARIANTS
    StatusIsTrue
PROPERTIES
    StatusKeepsComing
    Reconnects
