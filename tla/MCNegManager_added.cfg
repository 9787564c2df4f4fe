SPECIFICATION FairSpec
CONSTANTS
    Services = {s1}
    Ports = {p1}
    Generations = {g1}
    None = None
    MaxRetries = 0
    MaxChanges = 2
    MaxFaults = 0
    MaxCrashes = 0
    MaxStops = 0
PROPERTY
    AddedPortGetsSyncer
