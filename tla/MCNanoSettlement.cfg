\* Two jobs: submissions, the sync runner, sweeps, deaths between the files.
SPECIFICATION Spec
CONSTANTS
    big = big
    small = small
    Job = {j1, j2}
    Block = {big, small}
    Handler = {h1, h2}
    None = None
    Amounts = {1, 2}
    Worth <- Values
    MaxInvoices = 2
    MaxFaults = 1
SYMMETRY Sameness
INVARIANTS
    TypeOK
    OneBlockOneSale
    SalesAreProven
    PaidInvoiceIsBooked
PROPERTIES
    JournalIsFinal
