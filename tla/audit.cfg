SPECIFICATION Spec
CONSTANTS
    Retention = 3
    MaxRecords = 8
    MaxFaults = 4
\* The hub rests when every record was submitted.
CHECK_DEADLOCK FALSE
INVARIANT
    AcknowledgedKept
