SPECIFICATION FairSpec
CONSTANTS
    p1 = p1
    p2 = p2
    w1 = w1
    w2 = w2
    w3 = w3
    Proc = {p1, p2}
    Worker = {w1, w2, w3}
    ProcOf <- Workers
    maxConcurrent = 1
    maxRetries = 1
    Default = 2
    Stored <- Rates
    Second = 2
    MaxWait = 2
    Requests = 1
    MaxFaults = 2
INVARIANT TypeOK
INVARIANT SlotsHeld
PROPERTY ActsAsOneBucket
PROPERTY EveryRequestEnds
