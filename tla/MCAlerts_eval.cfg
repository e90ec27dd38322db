CONSTANTS
    alice = alice
    ann = ann
    bob = bob
    onFiling = onFiling
    onNews = onNews
    onMove = onMove
    filing = filing
    report = report
    news = news
    move = move
    phone = phone
    Rules = {onNews, onMove}
    Users = {bob}
    Devices = {phone}
    Items = {news, move}
    Members <- MCMembers
    Kind <- MCKind
    Watches <- MCWatches
    Passes = {scheduled, manual}
    Configured = {{}}
    Nobody = nobody
    NoItem = noitem
    Batch = 2
    MaxFaults = 0
    MaxAborts = 0
SPECIFICATION FairSpec
INVARIANTS
    OneEventPerMatch
PROPERTIES
    EveryMatchFires
CHECK_DEADLOCK FALSE
