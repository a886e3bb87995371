\* One handler at a time; a descriptor is accepted up to three times.
CONSTANTS
    Fds = {f1, f2}
    Ids = {i1}
    Handlers = {h1}
    Null = Null
    MaxAccepts = 3
SPECIFICATION Spec
INVARIANT UniqueIds
CHECK_DEADLOCK FALSE
