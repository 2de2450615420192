\* A retried decline under the fairness of the worker loop.
SPECIFICATION FundedSpec
CONSTANTS
    Proc = {p1}
    None = None
    MaxRetries = 1
    RetryCalls = 1
    MaxCrashes = 0
PROPERTIES
    QueuedJobIsQuoted
