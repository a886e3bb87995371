\* Two threads; four packets in any order: one topic, two clients.
CONSTANTS
    Threads = {t1, t2}
    Clients = {c1, c2}
    Topic = Topic
    Buffer = Buffer
    MaxCalls = 4
SYMMETRY Interchange
SPECIFICATION Spec
INVARIANT TypeOK
INVARIANT ChainsOK
INVARIANT ExactUnlessMixed
PROPERTY EarlierSubscribersReached
CHECK_DEADLOCK FALSE
