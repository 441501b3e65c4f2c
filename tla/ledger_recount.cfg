SPECIFICATION Spec
CONSTANTS
    Periods = {2, 4, 6}
    CountPeriods = {2, 4}
    FinishPeriods = {}
    Entries <- ThreeDays
    CountValues = {5}
    Imports = {}
    FinishInOrder = TRUE
    MaxRequests = 0
INVARIANTS AppliedCountOpensNextDay
