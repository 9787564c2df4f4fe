SPECIFICATION FairSpec
CONSTANTS
    z1 = z1  z2 = z2  n1 = n1  n2 = n2  e1 = e1  e2 = e2  e3 = e3
    Zones = {z1, z2}
    Nodes = {n1, n2}
    Endpoints = {e1, e2, e3}
    ZoneOf <- MCZoneOf
    NodeOf <- MCNodeOf
    BatchSize = 1
    MaxChanges = 2
    MaxFaults = 1
INVARIANTS OperationsApart SuccessMeansInSync
PROPERTIES MembersSpec EventuallyInSync
