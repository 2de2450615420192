\* Deliveries, duplicates, replays, errors, crashes and restarts.
SPECIFICATION FairSpec
CONSTANTS
    j1 = j1
    j2 = j2
    e1 = e1
    e2 = e2
    e3 = e3
    Job = {j1, j2}
    Event = {e1, e2, e3}
    Of <- Events
    Completed = {e1, e2}
    None = None
    MaxFaults = 1
INVARIANTS
    TypeOK
    BookedIsPaid
    AckedIsFinished
PROPERTIES
    SavesKeepPayments
    DeliveredIsProcessed
