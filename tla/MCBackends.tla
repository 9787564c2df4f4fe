------------------------------ MODULE MCBackends ------------------------------
EXTENDS Backends, TLC
CONSTANTS p1, p2, z1, z2

ServicePortOf(name, proto, neg) == [svc |-> name, proto |-> proto, neg |-> neg]

\* Port p1 belongs to a service with NEGs, and is then taken over by one with
\* another protocol and without; p2 comes and goes with the latter.
AnyIngress ==
    {p1 :> ServicePortOf("a", "HTTP", TRUE),
     p1 :> ServicePortOf("b", "HTTPS", FALSE),
     p1 :> ServicePortOf("b", "HTTPS", FALSE) @@ p2 :> ServicePortOf("c", "HTTP", FALSE)}

\* Zones are interchangeable: it does not matter which one is there first.
OneOrAll == {{z1}, Zones}

DefaultService == ServicePortOf("default", "HTTP", FALSE)
===============================================================================
