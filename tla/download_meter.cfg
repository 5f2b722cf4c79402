SPECIFICATION FairSpec
CONSTANTS
    w1 = w1
    w2 = w2
    Worker = {w1, w2}
    Configured <- Ceilings
    Provider = 2
    MaxSize = 2
    Day = 2
    Fetches = 4
    MaxFaults = 1
INVARIANT TypeOK
INVARIANT WindowHeld
INVARIANT TwoWindowsHeld
PROPERTY StoppedGoesOn
