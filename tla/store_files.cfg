SPECIFICATION Spec
CONSTANTS
    t1 = t1
    t2 = t2
    e1 = e1
    e2 = e2
    r1 = r1
    Threads = {t1, t2}
    Ids = {e1}
    Results = {r1}
    NoResult = NoResult
    Projections <- NoProjections
    NoThread = NoThread
    Durable = TRUE
    DiskFaults = FALSE
    Absent = Absent
    Empty = Empty
    Torn = Torn
    MaxObjects = 2
    MaxHistory = 3
    MaxRestarts = 1
\* The hub stops when every id is used up and nobody calls it.
CHECK_DEADLOCK FALSE
INVARIANTS
    HistoryIsPath
    FileWasStored
    OutcomeRecorded
SYMMETRY ThreadSymmetry
