SPECIFICATION Spec
CONSTANTS
    p1 = p1
    p2 = p2
    Caller = {p1}
    Grace = 1
    MaxNow = 3
    MaxCrashes = 2
INVARIANT TypeOK
INVARIANT CompletedIsStopped
INVARIANT WholeGracePeriod
PROPERTY OneAuthority
PROPERTY RecordsAgree
PROPERTY StoppedStaysStopped
