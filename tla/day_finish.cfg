SPECIFICATION DriveSpec
CONSTANTS
    Workers = {w1}
    Stocks <- SomeStocks
    Periods = {1, 2}
    Dates = {1, 2}
    Scopes <- SomeDays
    Uploads = {u1, u2}
    FileIds = {1, 2, 3}
    MaxUploads = 3
    MaxFaults = 1
INVARIANTS DriveTypeOK FinishedReportIsLedger FinishedDayHasReport OneFileADay DriveHoldsReport
PROPERTIES LocksLiftedByUnlock UploadsEnd
