\* One watch through commits, each of which may bring an earlier digest back.
SPECIFICATION FairSpec
CONSTANTS
    Watches = {w1}
    Channels = {ch1}
    Views <- Digests
    Changes <- AnyChange
    None = None
    MaxWatches = 1
    Shedding = FALSE
    Faults = FALSE
    MaxCommits = 3
PROPERTY NoticesCatchUp
PROPERTY Converges
PROPERTY RevokedEnds
CHECK_DEADLOCK FALSE
