SPECIFICATION Spec
CONSTANTS
    p1 = p1
    p2 = p2
    Caller = {p1}
    Grace = 1
    MaxNow = 2
    MaxCrashes = 1
PROPERTY CopyingGoesOn
