SPECIFICATION Spec
CONSTANTS
    k1 = k1
    c1 = c1
    Nowhere = Nowhere
    Key = {k1}
    Collection = {c1}
    Unkeyed = {}
    Legacy = {}
    ServerTags = TRUE
    MaxAttempts = 2
    OperatorActs = "never"
    MaxClock = 3
    MaxFaults = 2
    MaxCutovers = 0
PROPERTY FailedRewriteIsRetried
