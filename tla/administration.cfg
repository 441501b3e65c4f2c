SPECIFICATION FairSpec
CONSTANTS
    Workers = {w1, w2}
    MaxFigure = 2
    Items = {1}
    Requests = {1}
    Asks = {1, 2}
    Scopes <- SomeScopes
INVARIANTS TypeOK ReleaseListIsTrue DecisionIsTrue ClosedMonthIsFinal AsksAreAnswered
PROPERTIES StockAddedOnce ClosedFiguresStay AsksSettle
CHECK_DEADLOCK FALSE
