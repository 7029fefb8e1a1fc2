SPECIFICATION SettingsSpec
CONSTANTS
    Rates = {60, 1000}
    MaxForms = 1
    Second = 1000
INVARIANTS
    PeriodIsInSeconds
