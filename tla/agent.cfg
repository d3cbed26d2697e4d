SPECIFICATION FairSpec
CONSTANTS
    t1 = t1
    t2 = t2
    r1 = r1
    Threads = {t1, t2}
    Requests = {r1}
    Adapters = {"http", "inprocess"}
    Retries = 1
    NoReply = NoReply
    MaxCalls = 3
\* No caller has to call again.
CHECK_DEADLOCK FALSE
INVARIANTS
    TypeOK
    AcknowledgedHappened
    EventsOnce
    EventsNotLost
PROPERTY CallsEnd
