\* A payment that was acknowledged, under the fairness of the worker loop.
SPECIFICATION FairSpec
CONSTANTS
    j1 = j1
    j2 = j2
    e1 = e1
    e2 = e2
    e3 = e3
    Job = {j1, j2}
    Event = {e1, e2, e3}
    Of <- Events
    Completed = {e1, e2}
    None = None
    MaxFaults = 0
PROPERTIES
    AckedPaymentIsBooked
