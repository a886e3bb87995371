\* Two connections and a handler; the clock passes the deadline of the first.
CONSTANTS
    Conns = {c1, c2}
    Handlers = {h1}
    Main = Main
    Null = Null
    Free = Free
    KeepAlives = {1}
    MaxTime = 2
SPECIFICATION FairSpec
PROPERTY ExpiredIsShut
CHECK_DEADLOCK FALSE
