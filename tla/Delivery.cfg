\* Two descriptors, reused, and two clients, each of which can come back.
CONSTANTS
    Fds = {f1, f2}
    Clients = {c1, c2}
    Null = Null
    Anon = Anon
    Connack = Connack
    MaxAccepts = 2
    MaxMsgs = 2
    MaxSubs = 2
SPECIFICATION Spec
INVARIANT TypeOK
INVARIANT WaitsOnlyIfTaken
INVARIANT GotInOrder
PROPERTY ClientsGetTheirOwn
CHECK_DEADLOCK FALSE
