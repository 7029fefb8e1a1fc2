SPECIFICATION SettingsSpec
CONSTANTS
    Rates = {0, 999, 3600}
    MaxForms = 3
    Second = 1000
INVARIANTS
    AckedIsWhole
    RunsOnSaved
