\* The main thread and two handlers; five lines; an int that ends at 3.
CONSTANTS
    Main = main
    Threads = {main, h1, h2}
    IntMax = 3
    MaxFds = 2
    MaxCalls = 5
SPECIFICATION LogSpec
INVARIANT LinesUnlessOverlap
PROPERTY LogKept
CHECK_DEADLOCK FALSE
