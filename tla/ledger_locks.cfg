SPECIFICATION Spec
CONSTANTS
    Periods = {2, 4, 6}
    CountPeriods = {}
    FinishPeriods = {2, 4}
    Entries <- ThreeDays
    CountValues = {}
    Imports = {}
    FinishInOrder = TRUE
    MaxRequests = 2
INVARIANTS TypeOK TransfersConserveStock ChainFollows StockMovesByFlow
PROPERTIES FinishedPagesFrozen
