SPECIFICATION Spec
CONSTANTS
    Services = {s1}
    Ports = {p1}
    Generations = {g1, g2}
    None = None
    MaxRetries = 1
    MaxChanges = 2
    MaxFaults = 1
    MaxCrashes = 1
    MaxStops = 1
SYMMETRY Symmetry
INVARIANTS
    OneWorkerPerPort
    NoOrphanWorker
    FlagsMatchWorker
    OnlyNeededSyncersRun
CHECK_DEADLOCK FALSE
