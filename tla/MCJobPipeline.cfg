\* Every interleaving of two handlers, with crashes and retries.
SPECIFICATION Spec
CONSTANTS
    Proc = {p1, p2}
    None = None
    MaxRetries = 1
    RetryCalls = 2
    MaxCrashes = 2
SYMMETRY Handlers
INVARIANTS
    TypeOK
    JobInv
    FulfilmentIsExclusive
    CompletedIsDelivered
    ExpiredIsUnpaid
    ChargesBeforePublication
PROPERTIES
    KeepsThePromise
    ChargesAreNotForgotten
    NoSaleOnAClosedJob
