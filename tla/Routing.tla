------------------------------ MODULE Routing ------------------------------
(***************************************************************************)
(* What a sync hands to UpdateUrlMap of the L7 object (the Rules of L7).   *)
(* The ports it asks for, the url map and the events that queue an ingress *)
(* come from three walks over the rules of an ingress (ingressToNodePorts, *)
(* toURLMap, GetServiceIngress), and the firewall opens what the NEG       *)
(* syncer attaches.  Statements about any ingress, any store of services   *)
(* and any endpoints.                                                      *)
(***************************************************************************)
EXTENDS L7, Translator, FiniteSetsExt

CONSTANTS
    Services,      \* what each service of the namespace may be, Missing included
    References,    \* backends that an ingress may name
    Hosts, Paths,  \* hosts and paths of requests
    Ingresses,     \* ingresses, as the translator sees them
    Endpoints,     \* ports of the subsets of an Endpoints object
    Targets        \* target ports

Names == DOMAIN Services
Stores == {s \in [Names -> UNION {Services[n] : n \in Names}] : \A n \in Names : s[n] \in Services[n]}

\* A reference is to some service, missing or not; a request has a host and a path
\* of its own, and "*" and "/*" stand for all of them in the rules.
ASSUME RoutingAssumption ==
    /\ \A be \in References : be.svc \in Names
    /\ {"", "*"} \cap Hosts = {} /\ {"", "/*"} \cap Paths = {}
    /\ Ingresses \subseteq
          [class : {"gce", "multi"}, backend : References \cup {Missing},
           rules : Seq([host : Hosts \cup {"", "*"},
                        paths : Seq([path : Paths \cup {"", "/*"}, be : References])
                                   \cup {NoHTTP}])]
    /\ \A target \in Targets : target.by \in {"port", "name"}

-----------------------------------------------------------------------------
\* Properties, of one input each.

PortsOf(svcPorts) == {sp.port : sp \in svcPorts}

BackendsOf(map) ==
    {map.default} \cup UNION {{map.hosts[h][p] : p \in DOMAIN map.hosts[h]} : h \in DOMAIN map.hosts}

\* Where a request goes: the paths of its host, or else of all hosts, and in them
\* its path, or else all paths.
PathsOf(map, host) ==
    LET h == IF host \in DOMAIN map.hosts THEN host ELSE "*"
    IN IF h \in DOMAIN map.hosts THEN map.hosts[h] ELSE <<>>

Route(map, host, path) ==
    LET paths == PathsOf(map, host)
        p == IF path \in DOMAIN paths THEN path ELSE "/*"
    IN IF p \in DOMAIN paths THEN paths[p] ELSE map.default

\* The paths that the rules give for a host: those of its last rule, or else of
\* the last one without a host.
PathsFor(ingress, host) ==
    LET For(x, y) == {r \in HTTPRules(ingress) : ingress.rules[r].host \in {x, y}}
        rules == IF For(host, host) # {} THEN For(host, host) ELSE For("", "*")
    IN IF rules = {} THEN <<>> ELSE ingress.rules[Max(rules)].paths

\* The places among them with a backend that has a node port, for a path or else
\* for all paths.
Found(services, paths, path) ==
    LET good(x, y) == {p \in DOMAIN paths : /\ paths[p].path \in {x, y}
                                            /\ GetServiceNodePort(services, paths[p].be).err = "none"}
    IN IF good(path, path) # {} THEN good(path, path) ELSE good("", "/*")

\* The backend that the rules give for a request: the last of these.  A set of at
\* most one.
Asked(services, ingress, host, path) ==
    LET paths == PathsFor(ingress, host)
        found == Found(services, paths, path)
    IN IF found = {} THEN {} ELSE {paths[Max(found)].be}

\* What sync does with the ports that it asks for makes the url map possible and
\* right: once these ports have a backend, toURLMap fails only for application
\* protocols that cannot be parsed, it refers to no other backend (garbage
\* collection deletes the others), and a request goes to the backend that the
\* rules give for it, else to the user's default backend if that has a node port,
\* else to the system's.
Backed(services, ingress) ==
    LET ports == PortsOf(IngressToNodePorts(services, ingress))
        map == ToURLMap(services, ports, ingress)
        default == IF ingress.backend = Missing THEN {}
                   ELSE {be \in {ingress.backend} : GetServiceNodePort(services, be).err = "none"}
    IN /\ map.err <=> \E be \in PathBackends(ingress) : GetServiceNodePort(services, be).err = "protos"
       /\ ~map.err =>
             /\ BackendsOf(map) \subseteq ports \cup {DefaultNodePort}
             /\ \A host \in Hosts, path \in Paths :
                   LET asked == Asked(services, ingress, host, path)
                       bes == IF asked # {} THEN asked ELSE default
                   IN Route(map, host, path) =
                         IF bes = {} THEN DefaultNodePort
                         ELSE GetServiceNodePort(services, CHOOSE be \in bes : TRUE).port

\* A new or changed service that changes the url map of an ingress or the ports
\* it needs queues the ingress.  A service that is deleted queues nothing, nor
\* does one that only a multi-cluster ingress refers to.
EventReaches(services, name, new, ingress) ==
    LET after == [services EXCEPT ![name] = new]
    IN \/ ingress.class # "gce"
       \/ ingress \in EnqueueIngressForService({ingress}, name)
       \/ /\ IngressToNodePorts(after, ingress) = IngressToNodePorts(services, ingress)
          /\ \A pool \in {{}, PortsOf(IngressToNodePorts(services, ingress))} :
                ToURLMap(after, pool, ingress) = ToURLMap(services, pool, ingress)

\* The firewall for a service port with a NEG, whose Endpoints have these subsets.
NegFirewall(subsets, target) ==
    GatherFirewallPorts({[port |-> 30000, svc |-> "a", target |-> target, neg |-> TRUE]},
                        TRUE, [s \in {"a"} |-> subsets])

\* The firewall is open for every endpoint that the NEG syncer attaches, for
\* ports by number and by name, if all ports of the service are TCP.
PortsOpen(subsets, target) ==
    (\A i \in DOMAIN subsets : \A j \in DOMAIN subsets[i] : subsets[i][j].tcp)
    => \A i \in DOMAIN subsets :
          MatchPort(subsets[i], target) \subseteq NegFirewall(subsets, target)

-----------------------------------------------------------------------------
\* They do not depend on the state: TLC evaluates them at the start, once.
AtStart == Init /\ ing = None

\* Once the ports that ingressToNodePorts gives have a backend, toURLMap has what
\* it refers to, and sends requests where the rules say.
UrlMapIsBacked ==
    AtStart => \A services \in Stores, ingress \in Ingresses : Backed(services, ingress)

\* A new or changed service that makes a difference to an ingress queues it
\* (enqueueIngressForService).
ServiceEventsReach ==
    AtStart => \A services \in Stores, name \in Names, ingress \in Ingresses :
               \A new \in Services[name] \ {Missing, services[name]} :
                  EventReaches(services, name, new, ingress)

\* gatherFirewallPorts opens every port at which the NEG syncer attaches endpoints.
NegPortsOpen ==
    AtStart => \A subsets \in Endpoints, target \in Targets : PortsOpen(subsets, target)
=============================================================================
