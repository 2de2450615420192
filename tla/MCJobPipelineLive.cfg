\* Progress of one job under the fairness of the worker loop.
SPECIFICATION FairSpec
CONSTANTS
    Proc = {p1, p2}
    None = None
    MaxRetries = 1
    RetryCalls = 0
    MaxCrashes = 0
PROPERTIES
    PaidJobIsResolved
