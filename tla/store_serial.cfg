SPECIFICATION Spec
CONSTANTS
    t1 = t1
    t2 = t2
    e1 = e1
    e2 = e2
    r1 = r1
    Threads = {t1}
    Ids = {e1}
    Results = {r1}
    NoResult = NoResult
    Projections <- NoProjections
    NoThread = NoThread
    Durable = TRUE
    DiskFaults = TRUE
    Absent = Absent
    Empty = Empty
    Torn = Torn
    MaxObjects = 4
    MaxHistory = 5
    MaxRestarts = 2
\* The hub stops when every id is used up and nobody calls it.
CHECK_DEADLOCK FALSE
INVARIANTS
    DurableAtRest
    DurableReadable
