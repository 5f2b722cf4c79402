SPECIFICATION FairSpec
CONSTANTS
    o1 = o1
    o2 = o2
    Mapping = {1, 2, 3}
    Org = {o1, o2}
    OrgOf <- Orgs
    Gap <- Gaps
    Later = {2}
    Ladder <- Spacing
    HardLimit = 1
    inFlight = 1
    perOrganisation = 1
    Quiet = 1
    Prompt = TRUE
    Top = 3
    MaxQueue = 2
    MaxChanges = 1
INVARIANT TypeOK
INVARIANT CapHeld
PROPERTY LiveIsNotDead
PROPERTY EveryMigrationRuns
