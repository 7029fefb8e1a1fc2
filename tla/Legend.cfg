SPECIFICATION FairSpec
CONSTANTS
    Creds = {c1, c2}
    NoCred = NoCred
    MaxOutages = 1
INVARIANTS
    FlagMarksCompleteSave
    AckedIsDurable
    RunIsConsistent
    NeverWriteMounted
    PortalExitEnablesRun
PROPERTIES
    SwitchFairSpec
    ButtonOpensPortal
