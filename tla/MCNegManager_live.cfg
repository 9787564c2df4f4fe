SPECIFICATION FairSpec
CONSTANTS
    Services = {s1}
    Ports = {p1}
    Generations = {g1}
    None = None
    MaxRetries = 0
    MaxChanges = 1
    MaxFaults = 2
    MaxCrashes = 0
    MaxStops = 0
INVARIANT
PROPERTIES
    PortMapFollowsStores
    UnwantedIsCollected
    NeededNegIsRestored
