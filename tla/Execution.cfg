SPECIFICATION FairSpec
CONSTANTS
    None = None
    c1 = c1
    b1 = b1
    Executions = {e1}
    Batches = {b1, b2}
    NumCommands = 2
    NumAccounts = 2
    Calls = {c1, c2}
    Verifications = {v1}
CONSTRAINT FirstBatch
CHECK_DEADLOCK FALSE
INVARIANT ExecutionsAreConsistent
PROPERTIES
    SendingIsSafe
    DeliverySpec
    EveryRequestEnds
