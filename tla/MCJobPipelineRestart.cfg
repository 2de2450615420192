\* Progress of one job whose only handler keeps dying and being restarted.
SPECIFICATION FairSpec
CONSTANTS
    Proc = {p1}
    None = None
    MaxRetries = 1
    RetryCalls = 1
    MaxCrashes = 3
PROPERTIES
    PaidJobIsResolved
