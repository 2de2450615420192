\* A refund that was sent but not booked, and what a restart makes of it.
SPECIFICATION Spec
CONSTANTS
    Proc = {p1}
    None = None
    MaxRetries = 1
    RetryCalls = 1
    MaxCrashes = 1
INVARIANTS
    NoFreeFulfilment
