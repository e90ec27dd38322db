CONSTANTS
    FirstDay = 4
    LastDay = 7
    Holidays = {}
    Window = 2
    Loaders = {l1, l2}
    NoEntry = NoEntry
    Spans <- MCSpans
    NewYear = 7
    NoPrice = NoPrice
    Articles = {"a", "b"}
    Communiques = {"b"}
    Dividends = {1, 2, 3}
    Amount <- MCAmount
    PerPage = 1
    MaxDay = 6
    Equities = {1, 2}
    Sector <- MCSector
    Week = 3
    MaxTime = 10
    Ttl = 2
    Blank = Blank
    Terms <- MCTerms
    Anchors <- MCAnchors
    Todays <- MCTodays
    Deviations = {88, 100, 112, 66}
    Curves <- MCCurves
    Notices <- MCNotices
    Bond = {"b1", "b2", "b3"}
    Nil = Nil
    Statements <- MCStatements
    Markets <- MCMarkets
    MaxPeriods = 3
    None = None
    StockLevels = {1, 2, 4, None}
    IndexLevels = {1, 2, None}
    PeerRows <- MCPeerRows
    MaxDays = 4
    NoteWindow = 3
    MinReturns = 2
    MinCloses = 3
SPECIFICATION MCSpec
INVARIANTS
    BondPageRight
    FiguresReadTrue
PROPERTIES
    PricesReadTrue
    
    IssuersReadTrue
SYMMETRY
    Interchangeable
CHECK_DEADLOCK FALSE
