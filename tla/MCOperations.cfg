SPECIFICATION Spec
CONSTANTS
    Sweeper = {v1, v2}
    Income = {2, 3}
    Environments <- TestEnvironments
    SweepMin = 2
    DailyCap = 3
    CapWindow = 1
    CustodyTime = 2
    MaxPayments = 2
    MaxFaults = 1
    Pending = {c1}
    Worker = {w1, w2}
    RemindAfter = 1
    MaxReminders = 1
    ExpireAfter = 3
    InvoiceLife <- TestLife
    NoInvoice = NoInvoice
    Lease = 1
    LoopTime = 3
    MaxDeaths = 1
    Guest = {u1, u2}
    Gate = {g1, g2}
    Approver = {a1, a2}
    Knock = {k1, k2}
    Quotas <- TestQuotas
    CodeLife = 0
    TokenLife = 1
    MaxFailures = 1
    FailureWindow = 1
    Configured = {}
    BanTime = 1
    AccessTime = 2
    MaxCodes = 2
    MaxTokens = 2
    MaxSlips = 1
    Person = {ann}
    Ticket = {t1, t2}
    MaxRoundTrips = 1
    CallBudget = 2
    ChatTurns = 2
    MaxNotices = 1
    Ordered = {b1, b2}
    LinkLife = 1
    DeskTime = 2
    MaxDrafts = 2
    MaxSecrets = 2
INVARIANTS
    CustodyHolds
    WorkersHold
    AccessHolds
    ChatHolds
    BriefsHold
PROPERTIES
    JobsAreClosed
CHECK_DEADLOCK FALSE
