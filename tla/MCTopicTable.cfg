\* Two threads, three packets, two names that collide and one that does not.
CONSTANTS
    n1 = n1
    n2 = n2
    n3 = n3
    Threads = {t1, t2}
    Names = {n1, n2, n3}
    Bucket <- MCBucket
    NoName = NoName
    MaxCalls = 3
SPECIFICATION Spec
INVARIANT TypeOK
INVARIANT ChainsOK
INVARIANT OwnTopic
INVARIANT MapUnlessOverlap
PROPERTY WalksEnd
CHECK_DEADLOCK FALSE
