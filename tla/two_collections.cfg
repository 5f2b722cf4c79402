SPECIFICATION Spec
CONSTANTS
    k1 = k1
    c1 = c1
    c2 = c2
    Nowhere = Nowhere
    Key = {k1}
    Collection = {c1, c2}
    Unkeyed = {}
    Legacy = {}
    ServerTags = TRUE
    MaxAttempts = 2
    OperatorActs = "never"
    MaxClock = 4
    MaxFaults = 1
    MaxCutovers = 0
SYMMETRY Symmetry
INVARIANT CursorInv
PROPERTY RemovalNotSkipped
PROPERTY LiveItemNotReported
