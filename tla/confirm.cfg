SPECIFICATION Spec
CONSTANTS
    w1 = w1
    w2 = w2
    a1 = a1
    a2 = a2
    s1 = s1
    s2 = s2
    k1 = k1
    k2 = k2
    d1 = d1
    Workers = {w1, w2}
    Actors = {a1, a2}
    Sessions = {s1, s2}
    Tokens = {k1, k2}
    DirectIds = {d1}
    NoSession = NoSession
    NoToken = NoToken
    NoEvent = NoEvent
    Nobody = Nobody
    Missing = Missing
    MaxMessages = 4
SYMMETRY Symmetry
\* The system rests when every message is answered.
CHECK_DEADLOCK FALSE
INVARIANTS
    TypeOK
    RunsOnce
    ConfirmedRuns
    ExpiredNeverRuns
