SPECIFICATION Spec
CONSTANTS
    Workers = {w1, w2}
    Stocks <- SomeStocks
    Periods = {1}
    Dates = {1}
    Scopes <- OneDay
INVARIANTS FinishedDayHasReport
