SPECIFICATION Spec
CONSTANTS
    Workers = {w1}
    Stocks <- SomeStocks
    Periods = {1}
    Dates = {1}
    Scopes <- OneDay
INVARIANTS FrozenReportIsLedger
