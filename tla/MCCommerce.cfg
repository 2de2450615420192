SPECIFICATION Spec
CONSTANTS
    Builtin <- TestBuiltin
    Slug <- TestSlug
    ListPrice <- TestPrice
    ListScope <- TestListScope
    Written <- TestWritten
    Grain = 2
    MaxEntries = 2
    Submission = {s1, s2, s3}
    Screener = {p, q}
    Brief <- TestBriefs
    DuplicateWindow = 0
    BurstWindow = 0
    BurstLimit = 1
    IntakeTime = 1
    Rates <- TestRates
    MarginFloor = 350
    MinPrice = 5
    Dollar = 5
    MinScope <- TestScope
    Job = {j1, j2}
    Order <- TestOrders
    Seed = 6
    DayBudget = 9
    CashReserve = 2
    DayLength = 1
    ShopTime = 2
    Tips <- TestTips
    Bill <- TestBills
    MaxRequests = 2
    MaxDetours = 2
    DriftSamples = 1
    DriftWindow = 1
    Span = 1
    PromiseSamples = 1
    FloorWait = 1
    StuckWarn = 2
    Lookback = 1
    Draft <- TestDrafts
    Asked <- TestAsked
    Allowed <- TestAllowed
    MaxRounds = 2
    MaxCalls = 3
    Keywords = 3
    Runs = 3
    Cell <- TestCells
    Draw <- TestDraws
    PaperJobs = 2
    PaperSeed = 4
    PaperBudget = 9
    PaperReserve = 3
    PaperMaxTxn = 8
    Reference <- TestScope
    MaxTxn = 7
    VendorCap <- TestCaps
    TxnsPerDay = 4
    StuckCritical = 2
    BurnWarn = 2
    BurnCritical = 1
    Amount = {0, 1, 3}
    Standing <- TestStanding
SYMMETRY Symmetric
INVARIANTS
    FilesHold
    ScreensHold
    ReportsAgree
    MarginHolds
    ResearchHolds
    PaperHolds
CHECK_DEADLOCK FALSE
