SPECIFICATION Spec
CONSTANTS
    Periods = {1, 2, 3, 4}
    CountPeriods = {1}
    FinishPeriods = {}
    Entries <- TwoDaysByShift
    CountValues = {5}
    Imports = {9}
    FinishInOrder = TRUE
    MaxRequests = 1
INVARIANTS ChainFollows AppliedCountOpensNextDay PreviewIsCarry ReportClosesAtTotal AuditIsExplained
PROPERTIES ImportsStay
