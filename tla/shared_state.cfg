SPECIFICATION Spec
CONSTANTS
    w1 = w1
    w2 = w2
    hub = hub
    slack = slack
    lease = lease
    click = click
    event = event
    record = record
    Workers = {w1, w2}
    Processes = {hub, slack}
    ProcOf <- OneEach
    Leases = {lease}
    Clicks = {click}
    Events = {event}
    Records = {record}
    Values = {1, 2, 3, 4, 5, 6}
    InUse = 1
    MaxFaults = 2
    Nil = Nil
    Nobody = Nobody
INVARIANTS
    LeaseIntact
    ActedOnce
    LocksMatchCalls
PROPERTIES
    ImplementsKeyValue
