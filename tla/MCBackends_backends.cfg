CONSTANTS
    p1 = p1  p2 = p2  z1 = z1  z2 = z2
    Ports = {p1, p2}
    OldPorts = {p1}
    Default = d
    Ingresses <- AnyIngress
    DefaultSvc <- DefaultService
    Services = {"", "a", "b", "c", "default"}
    Zones = {z1, z2}
    StartZones <- OneOrAll
    None = None
    MaxChanges = 2
    MaxFaults = 1
    MaxCrashes = 1
SPECIFICATION FairSpec
INVARIANTS TypeOK SuccessMeansBacked
PROPERTIES DefaultBackendKept WantedIsServed UnwantedIsDeleted
