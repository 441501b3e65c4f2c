SPECIFICATION Spec
CONSTANTS
    Periods = {2, 4, 6}
    CountPeriods = {}
    FinishPeriods = {2, 4, 6}
    Entries <- ThreeDays
    CountValues = {}
    Imports = {}
    FinishInOrder = TRUE
    MaxRequests = 0
INVARIANTS LocksStayInSequence
