\* Concurrent requests of two jobs on two vendors against every cap.
SPECIFICATION Spec
CONSTANTS
    Job = {j1, j2}
    Vendor = {v1, v2}
    Caller = {c1, c2}
    NoRequest = NoRequest
    Amounts = {1, 2}
    Allowlist = {v1, v2}
    MaxTxn = 2
    Cap <- SmallCap
    JobBudget = 3
    MinReserve = 1
    Allowance = 2
    Price = 6
    MaxSales = 1
SYMMETRY Sameness
INVARIANTS
    TypeOK
    WithinEveryLimit
    KeepsTheReserve
    BillsAreCovered
    AllowanceHolds
\* Sales and quoted allowances run out: then nothing is left to do.
CHECK_DEADLOCK FALSE
