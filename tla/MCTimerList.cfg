\* Three slots, so that the list has a head, a middle and a tail, and two
\* handlers, which may meet on a slot.
CONSTANTS
    Conns = {c1, c2, c3}
    Handlers = {h1, h2}
    Main = Main
    Null = Null
    Free = Free
    KeepAlives = {0, 1}
    MaxTime = 1
SPECIFICATION Spec
SYMMETRY Symmetry
CONSTRAINT Unspoiled
CONSTRAINT OneSlow
INVARIANT TypeOK
 
INVARIANT ThreadsOK
INVARIANT CrashOnlyUnlisted
INVARIANT ClosedOffList
 
CHECK_DEADLOCK FALSE
