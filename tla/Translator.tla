----------------------------- MODULE Translator -----------------------------
(***************************************************************************)
(* GCETranslator and the listers (pkg/controller/utils.go), as functions   *)
(* of an ingress and of the stores: which backends the url map of an       *)
(* ingress refers to, which ports need a backend and an open firewall, and *)
(* which ingresses an event of a service queues.  Three pieces of code     *)
(* walk over the rules of an ingress on their own and have to agree.       *)
(*   ingress   [class, backend, rules], rules a sequence of [host, paths], *)
(*             paths NoHTTP or a sequence of [path, be]                    *)
(*   be        [svc, by, port]: a service of the ingress's namespace, and  *)
(*             its port, by "port" (number) or by "name"                   *)
(*   services  by name: Missing or [ports, protos, neg], ports a sequence  *)
(*             of [name, port, nodePort, target], target [by, port]        *)
(*   pool      node ports that have a backend                              *)
(***************************************************************************)
EXTENDS Naturals, Sequences

CONSTANTS
    Missing,           \* no backend, service or backend given
    NoHTTP,            \* a rule without an HTTP part
    DefaultNodePort    \* the node port of the default backend

-----------------------------------------------------------------------------
\* getServiceNodePort: the first port that matches.  Application protocols that
\* cannot be parsed are another error than a service or port that is missing.
GetServiceNodePort(services, be) ==
    LET svc == services[be.svc]
        matches == {i \in DOMAIN svc.ports : svc.ports[i][be.by] = be.port}
    IN IF svc = Missing THEN [err |-> "notFound"]
       ELSE IF ~svc.protos THEN [err |-> "protos"]
       ELSE IF matches = {} THEN [err |-> "notFound"]
       ELSE LET p == svc.ports[CHOOSE i \in matches : \A j \in matches : i <= j]
            IN [err |-> "none", port |-> p.nodePort, svc |-> be.svc, target |-> p.target,
                neg |-> svc.neg]

\* toGCEBackend
ToGCEBackend(services, pool, be) ==
    LET sp == GetServiceNodePort(services, be)
    IN IF sp.err = "none" /\ sp.port \notin pool THEN [err |-> "noBackend"] ELSE sp

HTTPRules(ing) == {r \in DOMAIN ing.rules : ing.rules[r].paths # NoHTTP}

\* The backends an ingress names, other than its default.
PathBackends(ing) ==
    UNION {{ing.rules[r].paths[p].be : p \in DOMAIN ing.rules[r].paths} : r \in HTTPRules(ing)}

HostOf(rule) == IF rule.host = "" THEN "*" ELSE rule.host
PathOf(path) == IF path.path = "" THEN "/*" ELSE path.path

\* A loop that puts value[i] into a map at key[i], for the i of good, in order.
Put(map, key, value) ==
    [k \in DOMAIN map \cup {key} |-> IF k = key THEN value ELSE map[k]]

Loop(n, good, key, value) ==
    LET after[i \in 0..n] ==
           IF i = 0 THEN <<>>
           ELSE IF i \notin good THEN after[i - 1]
           ELSE Put(after[i - 1], key[i], value[i])
    IN after

\* The inner loop, over the paths of a rule: a backend without a node port is
\* left out.
PathToBackend(services, pool, paths) ==
    LET be == [p \in DOMAIN paths |-> ToGCEBackend(services, pool, paths[p].be)]
        good == {p \in DOMAIN paths : be[p].err = "none"}
    IN Loop(Len(paths), good, [p \in good |-> PathOf(paths[p])],
            [p \in good |-> be[p].port])[Len(paths)]

\* The outer loop, over the rules.
HostPathBackend(services, pool, ing) ==
    LET good == HTTPRules(ing)
    IN Loop(Len(ing.rules), good, [r \in good |-> HostOf(ing.rules[r])],
            [r \in good |-> PathToBackend(services, pool, ing.rules[r].paths)])[Len(ing.rules)]

\* toURLMap, and the default of UpdateUrlMap.  A service without a node port is
\* left out; any other error of a path ends it, one of the default backend does
\* not.
ToURLMap(services, pool, ing) ==
    LET default == IF ing.backend = Missing THEN [err |-> "notFound"]
                   ELSE ToGCEBackend(services, pool, ing.backend)
    IN IF \E be \in PathBackends(ing) :
             ToGCEBackend(services, pool, be).err \notin {"none", "notFound"}
       THEN [err |-> TRUE]
       ELSE [err |-> FALSE,
             hosts |-> HostPathBackend(services, pool, ing),
             default |-> IF default.err = "none" THEN default.port ELSE DefaultNodePort]

-----------------------------------------------------------------------------
\* A mutant: the default backend is not looked at.
IngressToNodePortsNoDefault(services, ing) ==
    {sp \in {GetServiceNodePort(services, be) : be \in PathBackends(ing)} : sp.err = "none"}

\* ingressToNodePorts, as a set.
IngressToNodePorts(services, ing) ==
    LET named == PathBackends(ing) \cup IF ing.backend = Missing THEN {} ELSE {ing.backend}
    IN {sp \in {GetServiceNodePort(services, be) : be \in named} : sp.err = "none"}

PortsIn(subset) == {subset[i] : i \in DOMAIN subset}

\* A mutant: only the first subset of the endpoints is looked at.
ListEndpointTargetPortsOfFirst(subsets, target) ==
    IF target.by = "port" THEN {target.port}
    ELSE IF subsets = <<>> THEN {}
    ELSE {port.port : port \in {q \in PortsIn(subsets[1]) : q.tcp /\ q.name = target.port}}

\* ListEndpointTargetPorts: subsets is a sequence of sequences of [name, port,
\* tcp], empty if there is no Endpoints object.
ListEndpointTargetPorts(subsets, target) ==
    IF target.by = "port" THEN {target.port}
    ELSE {port.port : port \in {q \in UNION {PortsIn(subsets[i]) : i \in DOMAIN subsets} :
                                  q.tcp /\ q.name = target.port}}

\* gatherFirewallPorts
GatherFirewallPorts(svcPorts, includeDefaultBackend, endpoints) ==
    UNION {IF sp.neg THEN ListEndpointTargetPorts(endpoints[sp.svc], sp.target) ELSE {sp.port} :
              sp \in svcPorts}
       \cup (IF includeDefaultBackend THEN {DefaultNodePort} ELSE {})

\* toZoneNetworkEndpointMap of the NEG syncer: the port of a subset at which its
\* addresses become endpoints, if there is one.
MatchPort(subset, target) ==
    LET matches == {i \in DOMAIN subset : subset[i][target.by] = target.port}
    IN {subset[i].port : i \in {j \in matches : \A k \in matches : j <= k}}

-----------------------------------------------------------------------------
\* A mutant: only the rules are searched.
GetServiceIngressInRules(ings, svc) ==
    {ing \in ings : \E be \in PathBackends(ing) : be.svc = svc}

\* GetServiceIngress
GetServiceIngress(ings, svc) ==
    {ing \in ings : \/ ing.backend # Missing /\ ing.backend.svc = svc
                    \/ \E be \in PathBackends(ing) : be.svc = svc}

\* enqueueIngressForService: multi-cluster ingresses are left out.
EnqueueIngressForService(ings, svc) ==
    {ing \in GetServiceIngress(ings, svc) : ing.class = "gce"}

=============================================================================
