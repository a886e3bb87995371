\* Two ids, three waiting connections, two open ones, two signals in the pipe.
CONSTANTS
    Ids = {i1, i2}
    Backlog = 3
    MaxOpen = 2
    PipeSize = 2
SPECIFICATION FairSpec
INVARIANT TypeOK
INVARIANT NoGhosts
PROPERTY TicksGoOn
PROPERTY ServedUnlessLate
CHECK_DEADLOCK FALSE
