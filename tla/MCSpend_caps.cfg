CONSTANTS
    Items = {1, 2, 3}
    Length <- MCLength
    Taggers = {job, cli}
    Limit = 3
    BatchSize = 2
    Fit = 2
    MaxFailures = 2
    MaxAttempts = 2
    Cap = 1
    MaxCrashes = 1
    BriefDays <- MCBriefDays
    Tickers <- MCTickers
    Weeks = {0, 1}
    Writers = {one, two}
    Fillers = {script}
    Budget = 1
    MaxDay = 1
    MaxTexts = 2
    MaxNews = 1
    MaxStops = 1
    MaxFills = 1
    None = None
    one = one
    two = two
SPECIFICATION MCSpec
INVARIANTS
    
    CapsHeld
    

    
SYMMETRY
    Interchangeable
CHECK_DEADLOCK FALSE
