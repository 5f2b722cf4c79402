SPECIFICATION Spec
CONSTANTS
    k1 = k1
    k2 = k2
    c1 = c1
    Nowhere = Nowhere
    Key = {k1, k2}
    Collection = {c1}
    Unkeyed = {k2}
    Legacy = {}
    ServerTags = TRUE
    MaxAttempts = 2
    OperatorActs = "any time"
    MaxClock = 3
    MaxFaults = 1
    MaxCutovers = 2
INVARIANT LedgerNeverAhead
PROPERTY LatePassOnlyAdds
