SPECIFICATION FairSpec
CONSTANTS
    t1 = t1
    t2 = t2
    e1 = e1
    e2 = e2
    r1 = r1
    Threads = {t1, t2}
    Ids = {e1}
    Results = {r1}
    NoResult = NoResult
    Projections <- RunningReports
    NoThread = NoThread
    Durable = FALSE
    DiskFaults = FALSE
    Absent = Absent
    Empty = Empty
    Torn = Torn
    MaxObjects = 2
    MaxHistory = 4
    MaxRestarts = 0
\* The hub stops when every id is used up and nobody calls it.
CHECK_DEADLOCK FALSE
INVARIANTS
    TypeOK
    LifecycleRespected
    EventSequencesUnique
    TransitionsPublished
PROPERTIES
    ImplementsLifecycle
    CallsReturn
