CONSTANTS
    Papers <- MCPapers
    Extracts <- MCExtracts
    Years = {1, 2}
    NoYear = NoYear
    NoKind = NoKind
    NoRow = NoRow
    Tickers = {"BOAB", "BOABF"}
    NameOf <- MCNameOf
    CountryOf <- MCCountryOf
    Alias <- MCAlias
    Slugs = {"boab", "boa"}
    DisplayOf <- MCDisplayOf
    ManualOf <- MCManualOf
    Documents <- MCDocuments
    Nobody = Nobody
    Operator = "operator"
    Guests = {"guest"}
    ListNames = {"core", "tech"}
    Securities = {"SNTS", "ORAC", "BOAB"}
    FreeLimit = 1
    Desks = {d1, d2}
    MaxLists = 2
    Readers = {"ann"}
    Crawlers = {"bot"}
    Paths = {"/", "/pricing"}
    Retention = 1
    LastVisitDay = 3
    MaxRestarts = 1
    Migrations <- MCMigrations
    Runs = {r1, r2}
    TxRefs = {kodji}
    Foreign = foreign
    Prices = {12, 13}
    NoneYet = NoneYet
    NoTable = NoTable
    Unasked = Unasked
    Refused = Refused
SPECIFICATION MCSpec
INVARIANTS
    
    VisitorsCountedRight
    GatewaysAgree
    ServedWhole
PROPERTIES
    FiguresStand
    FilingsAttributed
SYMMETRY
    Interchangeable
CHECK_DEADLOCK FALSE
