\* One job and its interrupted payments, under the fairness of a customer who
\* submits the block again.
SPECIFICATION FairSpec
CONSTANTS
    big = big
    small = small
    Job = {j1}
    Block = {big, small}
    Handler = {h1, h2}
    None = None
    Amounts = {1, 2}
    Worth <- Values
    MaxInvoices = 2
    MaxFaults = 1
PROPERTIES
    InterruptedIsBooked
