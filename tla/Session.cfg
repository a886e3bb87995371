\* One handler at a time, and no descriptor is accepted twice.
CONSTANTS
    Fds = {f1, f2}
    Ids = {i1, i2}
    Handlers = {h1}
    Null = Null
    MaxAccepts = 1
SPECIFICATION FairSpec
INVARIANT TypeOK
INVARIANT AckedRegistered
INVARIANT UniqueIds
PROPERTY ClosedIdFree
PROPERTY ClosedHandlerEnds
PROPERTY ImplementsClientIds
CHECK_DEADLOCK FALSE
