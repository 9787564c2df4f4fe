CONSTANTS
    Ings = {"i1", "i2"}
    p1 = p1
    p2 = p2
    Ports = {p1, p2}
    Default = d
    Ingress <- MCIngress
    Initials <- MCInitials
    Situations <- MCSituations
    DeleteAllOnQuit = TRUE
    None = None
    MaxEvents = 2
SPECIFICATION FairSpec
CHECK_DEADLOCK FALSE
INVARIANTS
    ShutdownDeletes
    NoneForgotten
PROPERTIES
    ServedStaysServed
    IngressesServed
    DeletedIsCollected
    FirewallFollows
    SigtermExits
