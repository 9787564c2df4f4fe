CONSTANTS
    c1 = c1
    c2 = c2
    u = u
    i1 = i1
    i2 = i2
    i3 = i3
    Contents <- MCContents
    UserContent = u
    Infos <- AnyInfos
    Rules = {"r1", "r2"}
    DefaultRules = "default"
    EphemeralIPs <- MCEphemeralIPs
    UserIP = "userIP"
    None = None
    MaxChanges = 2
    MaxFaults = 0
    MaxCrashes = 0
SPECIFICATION Spec
INVARIANTS
    UserCertKept
SYMMETRY Symmetry
