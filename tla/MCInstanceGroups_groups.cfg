CONSTANTS
    n1 = n1  n2 = n2  z1 = z1  z2 = z2
    Nodes = {n1, n2}
    Zones = {z1, z2}
    ZoneOf <- TwoNodes
    Ports = {80}
    StartNodes <- OneOrBoth
    None = None
    MaxChanges = 2
    MaxFaults = 1
    MaxCrashes = 1
\* With no ingress and no event the workers wait.
CHECK_DEADLOCK FALSE
SPECIFICATION FairSpec
INVARIANT UsedGroupsArePooled
PROPERTIES MembersFollowNodes

