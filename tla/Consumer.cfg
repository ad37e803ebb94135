SPECIFICATION FairSpec
CONSTANTS
    N = 4
    Invalid = {2, 3}
    CommitCap = 2
    DlqCap = 1
    CommitSize = 3
    CommitOutcomes = {TRUE, FALSE}
    MaxRestarts = 1
INVARIANTS CommitFollowsRouting
PROPERTIES EventuallyOffered
CHECK_DEADLOCK FALSE
