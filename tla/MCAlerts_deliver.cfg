CONSTANTS
    alice = alice
    ann = ann
    bob = bob
    onFiling = onFiling
    onNews = onNews
    onMove = onMove
    filing = filing
    report = report
    news = news
    move = move
    phone = phone
    Rules = {onFiling}
    Users = {alice, ann}
    Devices = {phone}
    Items = {filing, report}
    Members <- MCMembers
    Kind <- MCKind
    Watches <- MCWatches
    Passes = {scheduled}
    Configured = {{"push", "mail"}}
    Nobody = nobody
    NoItem = noitem
    Batch = 1
    MaxFaults = 1
    MaxAborts = 1
SPECIFICATION FairSpec
INVARIANTS
    ReachedOnce
PROPERTIES
    EventsSettle
CHECK_DEADLOCK FALSE
