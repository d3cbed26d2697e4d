SPECIFICATION Spec
CONSTANTS
    hub = hub
    cli = cli
    p1 = p1
    p2 = p2
    p3 = p3
    Operators = {hub, cli}
    Hub = hub
    Pids = {p1, p2, p3}
    NoPid = NoPid
    Settings <- AllSettings
    Others = {"foreign"}
    Retries = 0
    MaxCalls = 2
    MaxOutside = 1
SYMMETRY Symmetry
CHECK_DEADLOCK FALSE
INVARIANTS
    NoForeignTarget
    RunningIsTrue
    StopMeansStopped
    SingleInstance
    NoOrphan
