CONSTANTS
    report = report
    amended = amended
    broken = broken
    Filings = {report, amended, broken}
    Name <- MCName
    Scanned = {amended}
    Unreadable = {broken}
    Pullers = {puller}
    Extractors = {extractor}
    Estimate = 2
    Cost = 3
    Cap = 4
    NoFiling = nofiling
    NoPath = nopath
    MaxFaults = 1
    MaxAborts = 1
SPECIFICATION FairSpec
INVARIANTS
    RowsMatchFiles
    BilledOnce
    

    
CHECK_DEADLOCK FALSE
