SPECIFICATION FairSpec
CONSTANTS
    k1 = k1
    c1 = c1
    Nowhere = Nowhere
    Key = {k1}
    Collection = {c1}
    Unkeyed = {}
    Legacy = {k1}
    ServerTags = TRUE
    MaxAttempts = 2
    OperatorActs = "between passes"
    MaxClock = 4
    MaxFaults = 2
    MaxCutovers = 0
INVARIANT TypeOK
INVARIANT CursorRetiresNothing
INVARIANT CursorRetiresNoEdit
INVARIANT LedgerNeverAhead
PROPERTY OwnerBytesSurvive
PROPERTY LiveItemNotReported
PROPERTY RemovalNotSkipped
PROPERTY AnswerStands
PROPERTY EventuallySettled
PROPERTY EditsLand
