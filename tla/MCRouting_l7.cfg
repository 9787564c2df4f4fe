CONSTANTS
    c1 = c1
    c2 = c2
    u = u
    i1 = i1
    i2 = i2
    i3 = i3
    Contents <- MCContents
    UserContent = u
    Infos <- LiveInfos
    Rules = {"r1", "r2"}
    DefaultRules = "default"
    EphemeralIPs <- MCEphemeralIPs
    UserIP = "userIP"
    None = None
    MaxChanges = 2
    MaxFaults = 1
    MaxCrashes = 1
    Missing = Missing
    NoHTTP = NoHTTP
    DefaultNodePort = 30000
    Services <- MCServices
    References <- MCReferences
    Hosts = {"h", "other"}
    Paths = {"/a", "/b"}
    Ingresses <- MCIngresses
    Endpoints <- MCEndpoints
    Targets <- MCTargets
SPECIFICATION FairSpec
INVARIANTS
    TypeOK
    SuccessMeansServed
    UrlMapIsBacked
    ServiceEventsReach
    NegPortsOpen
PROPERTIES
    HttpConverges
    HttpsConverges
    AddressesAgree
    DeletedLeavesNothing
