------------------------------- MODULE Backends -------------------------------
(***************************************************************************)
(* Backend services and their health checks (pkg/backends,                 *)
(* pkg/healthchecks), the pool that remembers them and is relisted from    *)
(* the cloud (pkg/storage/pools.go), and the part of a sync                *)
(* (pkg/controller) that creates, links and garbage collects them, for one *)
(* ingress.  The ingress worker and the relisting goroutine run            *)
(* concurrently; calls fail before or after their effect; the process may  *)
(* be restarted.  Of the load balancer, which L7 models, only the backends *)
(* its url map refers to are kept.                                         *)
(***************************************************************************)
EXTENDS Naturals, FiniteSets

CONSTANTS
    Ports,         \* node ports of services
    OldPorts,      \* bound: ports that an earlier release may have left backends for
    Default,       \* the node port of the default backend
    Ingresses,     \* what the ingress may refer to: ports with their services
    DefaultSvc,    \* the service behind Default
    Services,      \* descriptions of services
    Zones,
    StartZones,    \* bound: the sets of zones with ready nodes at the start
    None,
    MaxChanges,    \* bound: changes of the ingress and of the zones
    MaxFaults,     \* bound: calls that fail
    MaxCrashes     \* bound: restarts of the process

Protocols == {"HTTP", "HTTPS"}

\* The description that an early release has given to all services.
Undescribed == ""

\* ServicePort: svc stands for the names in its description, which has some.
ServicePort == [proto : Protocols, neg : BOOLEAN, svc : Services \ {Undescribed}]

AllPorts == Ports \cup {Default}
IGs == {"ig"} \X Zones
NEGs == {"neg"} \X Zones

BackendService == [proto : Protocols, svc : Services, hc : {"new", "legacy"},
                   groups : SUBSET (IGs \cup NEGs), mode : {"RATE", "UTILIZATION"}]
HealthCheck == [proto : Protocols, spec : {"PORT", "USE_SERVING_PORT"}]

ASSUME ServicesAssumption == Undescribed \in Services

ASSUME ConstantsAssumption ==
    /\ Default \notin Ports /\ OldPorts \subseteq Ports
    /\ \A i \in Ingresses : DOMAIN i \subseteq Ports /\ i \in [DOMAIN i -> ServicePort]
    /\ DefaultSvc \in ServicePort /\ ~DefaultSvc.neg
    /\ StartZones \subseteq SUBSET Zones
    /\ None \notin Ingresses \cup Ports \cup {Default} \cup BackendService \cup HealthCheck
    /\ MaxChanges \in Nat /\ MaxFaults \in Nat /\ MaxCrashes \in Nat

VARIABLES
    ing,      \* the ingress: the ports it refers to with their services, or None
    zones,    \* the zones that have ready nodes
    queued,   \* the key of the ingress is in the work queue
    be,       \* backend services in the cloud
    hc,       \* health checks in the cloud
    legacy,   \* ports that have a legacy HTTP health check in the cloud
    umap,     \* ports the url map of the load balancer refers to, or None
    pool,     \* keys of the backend pool
    lb,       \* the load balancer is in the pool of load balancers
    pc, plan, igs, todo, cur,   \* the worker: step, ingress and groups it has read, ports
    failed,   \* the sync has met an error
    changes, faults, crashes

cloudVars == <<be, hc, legacy, umap>>
workerVars == <<plan, igs, todo, cur>>
inputVars == <<ing, zones>>
budgetVars == <<changes, faults, crashes>>
vars == <<inputVars, queued, cloudVars, pool, lb, pc, workerVars, failed, budgetVars>>

\* A backend service as an early release has left it behind.
Old == [proto |-> "HTTP", svc |-> Undescribed, hc |-> "legacy", groups |-> {}, mode |-> "RATE"]

\* The controller may be started in a project where earlier releases have made
\* backends with legacy health checks and balancing mode UTILIZATION.
Init ==
    /\ ing \in Ingresses
    /\ zones \in StartZones
    /\ queued = TRUE
    /\ legacy \in SUBSET OldPorts
    /\ be = [p \in AllPorts |-> IF p \in legacy
                                THEN [Old EXCEPT !.groups = {"ig"} \X zones, !.mode = "UTILIZATION"]
                                ELSE None]
    /\ hc = [p \in AllPorts |-> None]
    /\ umap = None
    /\ pool = {} /\ lb = FALSE
    /\ pc = "idle" /\ plan = None /\ igs = {} /\ todo = {} /\ cur = None
    /\ failed = FALSE
    /\ changes = 0 /\ faults = 0 /\ crashes = 0

-------------------------------------------------------------------------------
(* The environment. *)

\* The ports that are left when services are deleted.
ServicesDeleted(i) ==
    /\ ing # None /\ i # None
    /\ DOMAIN i \subseteq DOMAIN ing /\ \A p \in DOMAIN i : i[p] = ing[p]

\* The handlers of ingress and service events put the key into the queue; there
\* is none for the deletion of a service.
IngressChange ==
    /\ changes < MaxChanges
    /\ \E i \in (Ingresses \cup {None}) \ {ing} :
        /\ ing' = i
        /\ queued' = TRUE \/ (ServicesDeleted(i) /\ UNCHANGED queued)
    /\ changes' = changes + 1
    /\ UNCHANGED <<zones, cloudVars, pool, lb, pc, workerVars, failed, faults, crashes>>

NodesChange ==
    /\ changes < MaxChanges
    /\ \E z \in (SUBSET Zones) \ {zones} : zones' = z
    /\ changes' = changes + 1
    /\ UNCHANGED <<ing, queued, cloudVars, pool, lb, pc, workerVars, failed, faults, crashes>>

\* Both pools are in memory.  The ingress may be deleted while the process is
\* down; afterwards there is an event for an ingress that exists.
Crash ==
    /\ crashes < MaxCrashes
    /\ crashes' = crashes + 1
    /\ \/ UNCHANGED <<ing, changes>>
       \/ changes < MaxChanges /\ ing' = None /\ changes' = changes + 1
    /\ queued' = (ing' # None)
    /\ pool' = {} /\ lb' = FALSE
    /\ pc' = "idle" /\ plan' = None /\ igs' = {} /\ todo' = {} /\ cur' = None
    /\ failed' = FALSE
    /\ UNCHANGED <<zones, cloudVars, faults>>

CallFails == faults < MaxFaults /\ faults' = faults + 1

\* The lock of the pool is held from the listing to the last insertion, and
\* Delete takes it: what was listed before a deletion is in the pool before.
ReplenishPool ==
    /\ pool' = pool \cup {p \in AllPorts : be[p] # None}
    /\ UNCHANGED <<inputVars, queued, cloudVars, lb, pc, workerVars, failed, budgetVars>>

-------------------------------------------------------------------------------
(* Checkpoint: instance groups and backends. *)

\* An ingress that exists is also queued at every resync.
SyncBegin ==
    /\ pc = "idle" /\ (queued \/ ing # None)
    /\ queued' = FALSE
    /\ plan' = ing /\ igs' = {}
    /\ pc' = "groups"
    /\ UNCHANGED <<inputVars, cloudVars, pool, lb, todo, cur, failed, budgetVars>>

PlanPorts == IF plan = None THEN {} ELSE DOMAIN plan
Svc(p) == IF p = Default THEN DefaultSvc ELSE plan[p]

\* The default backend is ensured last, if there is a load balancer at all.
Required == PlanPorts \cup (IF plan = None THEN {} ELSE {Default})

\* Services are looked up again after the checkpoint, and may have changed.
Seen == {plan, IF ing = None THEN plan ELSE ing}
NegPorts(i) == {p \in DOMAIN i : i[p].neg}

\* What follows the checkpoint, whether it has succeeded or not.
CheckpointEnds ==
    \/ plan = None /\ pc' = "lbgc" /\ todo' = {} /\ cur' = None
    \/ plan # None /\ pc' = "link" /\ (\E i \in Seen : todo' = NegPorts(i)) /\ cur' = None

CheckpointFails == CheckpointEnds /\ failed' = TRUE

EnsureInstanceGroups ==
    /\ pc = "groups"
    /\ \/ /\ igs' = {"ig"} \X zones
          /\ todo' = Required
          /\ pc' = IF todo' = {} THEN "lb" ELSE "ensure"
          /\ UNCHANGED <<faults, failed, cur>>
       \/ CallFails /\ CheckpointFails /\ UNCHANGED igs
    /\ UNCHANGED <<inputVars, queued, cloudVars, pool, lb, plan, changes, crashes>>

\* The pool of the default backend is another one, which nothing is read from.
Tracked(p) == pool \cup ({p} \ {Default})

\* needToUpdate: a check for instance groups is read with the v1 API, whose
\* answer has no port specification.
NeedToUpdate(old, sp) ==
    \/ old.proto # sp.proto
    \/ sp.neg /\ old.spec # "USE_SERVING_PORT"

NewCheck(sp) == [proto |-> sp.proto, spec |-> IF sp.neg THEN "USE_SERVING_PORT" ELSE "PORT"]

\* Sync of the health checker.
Synced(old, sp) == IF old = None \/ NeedToUpdate(old, sp) THEN NewCheck(sp) ELSE old

\* ensureHealthCheck.  A failed call has had its effect or not; the port is
\* tracked all the same.
EnsureHealthCheck ==
    /\ pc = "ensure"
    /\ \E p \in todo :
        LET synced == [hc EXCEPT ![p] = Synced(hc[p], Svc(p))]
        IN  /\ p = Default => todo = {Default}
            /\ \/ hc' = synced /\ cur' = p /\ pc' = "backend"
                  /\ UNCHANGED <<faults, failed, todo, pool>>
               \/ CallFails /\ CheckpointFails /\ pool' = Tracked(p)
                  /\ hc' \in {hc, synced}
    /\ UNCHANGED <<inputVars, queued, be, legacy, umap, lb, plan, igs, changes, crashes>>

\* create: the service as it is before any group is linked.
Created(sp) == [proto |-> sp.proto, svc |-> sp.svc, hc |-> "new", groups |-> {}, mode |-> "RATE"]

\* A mutant: the description is not looked at.
UpdatedForProtocol(b, sp) ==
    IF b.proto # sp.proto THEN [b EXCEPT !.proto = sp.proto, !.svc = sp.svc, !.hc = "new"] ELSE b

\* A service of another protocol or description is updated, and its health
\* check with it.  Names of health checks are compared, and all health checks
\* of a port have the same name.
Updated(b, sp) ==
    IF b.proto # sp.proto \/ b.svc # sp.svc
    THEN [b EXCEPT !.proto = sp.proto, !.svc = sp.svc, !.hc = "new"] ELSE b

\* A mutant: groups are linked to a service that has none.
LinkedIfNone(b, groups) == IF b.groups = {} THEN [b EXCEPT !.groups = groups] ELSE b

\* edgeHop: the groups of the instance groups that are linked are kept, and NEGs
\* dropped.  The cloud refuses to mix balancing modes: RATE is tried first.
Linked(b, groups) ==
    LET kept == b.groups \cap IGs
    IN  IF groups \subseteq b.groups THEN b
        ELSE [b EXCEPT !.groups = kept \cup groups,
                       !.mode = IF kept = {} THEN "RATE" ELSE b.mode]

\* ensureBackendService from the lookup of the service on.
EnsureBackendService ==
    /\ pc = "backend"
    /\ LET p == cur
           sp == Svc(p)
           found == IF be[p] = None THEN Created(sp) ELSE be[p]
           updated == Updated(found, sp)
           linked == IF sp.neg THEN updated ELSE Linked(updated, igs)
           old == found.hc = "legacy" /\ updated.hc = "new"
       IN  /\ pool' = Tracked(p)
           /\ \/ /\ be' = [be EXCEPT ![p] = linked]
                 \* That the legacy check cannot be deleted is only logged.
                 /\ \/ legacy' = (IF old THEN legacy \ {p} ELSE legacy) /\ UNCHANGED faults
                    \/ old /\ CallFails /\ UNCHANGED legacy
                 /\ todo' = todo \ {p} /\ cur' = None
                 /\ pc' = IF todo' = {} THEN "lb" ELSE "ensure"
                 /\ UNCHANGED failed
              \/ /\ CallFails /\ CheckpointFails
                 /\ \/ be' \in {be, [be EXCEPT ![p] = found], [be EXCEPT ![p] = updated]}
                       /\ UNCHANGED legacy
                    \/ be' \in {[be EXCEPT ![p] = updated], [be EXCEPT ![p] = linked]}
                       /\ legacy' = IF old THEN legacy \ {p} ELSE legacy
    /\ UNCHANGED <<inputVars, queued, hc, umap, lb, plan, igs, changes, crashes>>

\* Load balancers and firewall.  A new url map refers to the default backend.
SyncLoadBalancers ==
    /\ pc = "lb"
    /\ LET made == IF umap = None THEN {Default} ELSE umap
       IN  \/ plan # None /\ lb' = TRUE /\ umap' = made /\ CheckpointEnds /\ UNCHANGED <<faults, failed>>
           \/ plan = None /\ CheckpointEnds /\ UNCHANGED <<lb, umap, faults, failed>>
           \/ CallFails /\ CheckpointFails
              /\ \/ UNCHANGED <<lb, umap>>
                 \/ plan # None /\ lb' = TRUE /\ umap' \in {umap, made}
    /\ UNCHANGED <<inputVars, queued, be, hc, legacy, pool, plan, igs, changes, crashes>>

-------------------------------------------------------------------------------
(* Links to NEGs, and the url map. *)

SyncFails == failed' = TRUE /\ todo' = {} /\ pc' = "lbgc"

\* Link: the backends of a service with NEGs are the NEGs of all zones, each of
\* which must exist.
Link ==
    /\ pc = "link"
    /\ \E p \in todo :
        LET linked == [be EXCEPT ![p].groups = {"neg"} \X zones, ![p].mode = "RATE"]
        IN  \/ be[p] # None /\ be' = linked /\ todo' = todo \ {p} /\ UNCHANGED <<pc, faults, failed>>
            \/ be[p] = None /\ SyncFails /\ UNCHANGED <<be, faults>>
            \/ CallFails /\ SyncFails /\ (be' = be \/ (be[p] # None /\ be' = linked))
    /\ UNCHANGED <<inputVars, queued, hc, legacy, umap, pool, lb, plan, igs, cur, changes, crashes>>

\* toURLMap looks up the backend of each port, which also puts it on record.
UpdateUrlMap ==
    /\ pc = "link" /\ todo = {}
    /\ pc' = "lbgc"
    /\ \E i \in Seen :
        LET found == {p \in DOMAIN i : be[p] # None}
            refers == {Default} \cup DOMAIN i
            ready == lb /\ umap # None /\ found = DOMAIN i
        IN  \/ ready /\ umap' = refers /\ pool' = pool \cup found /\ UNCHANGED <<faults, failed>>
            \/ ~ready /\ failed' = TRUE /\ UNCHANGED <<umap, faults>>
               /\ (pool' = pool \/ (lb /\ \E s \in SUBSET found : pool' = pool \cup s))
            \/ CallFails /\ ready /\ failed' = TRUE /\ umap' \in {umap, refers}
               /\ pool' = pool \cup found
    /\ UNCHANGED <<inputVars, queued, be, hc, legacy, lb, workerVars, changes, crashes>>

-------------------------------------------------------------------------------
(* Garbage collection, which ends every sync. *)

Refers(p) == umap # None /\ p \in umap

\* A load balancer is found in memory only.  The default backend goes with the
\* last one.
GCLoadBalancers ==
    /\ pc = "lbgc"
    /\ \/ plan # None /\ pc' = "gc" /\ UNCHANGED <<umap, lb, cur, faults, failed>>
       \/ /\ plan = None /\ pc' = "service" /\ cur' = Default
          /\ lb' = FALSE /\ umap' = IF lb THEN None ELSE umap
          /\ UNCHANGED <<faults, failed>>
       \/ /\ plan = None /\ lb /\ CallFails
          /\ pc' = "gc" /\ failed' = TRUE /\ umap' \in {umap, None}
          /\ UNCHANGED <<lb, cur>>
    /\ UNCHANGED <<inputVars, queued, be, hc, legacy, pool, plan, igs, todo, changes, crashes>>

\* A mutant: the ports that are asked for but not in the pool.
UnknownSwapped == (PlanPorts \cup {Default}) \ pool

\* A mutant: no port is ignored.
UnknownNotIgnored == pool \ PlanPorts

\* The ports of the pool that are neither asked for nor ignored.
Unknown == pool \ (PlanPorts \cup {Default})

GCBegin ==
    /\ pc = "gc"
    /\ todo' = Unknown
    /\ pc' = "collect"
    /\ UNCHANGED <<inputVars, queued, cloudVars, pool, lb, plan, igs, cur, failed, budgetVars>>

GCPort ==
    /\ pc = "collect"
    /\ \E p \in todo : cur' = p
    /\ pc' = "service"
    /\ UNCHANGED <<inputVars, queued, cloudVars, pool, lb, plan, igs, todo, failed, budgetVars>>

\* The collection stops at the first error; an error of the default backend
\* does not stop that of the others.
DeleteFails ==
    /\ failed' = TRUE /\ cur' = None
    /\ IF cur = Default THEN pc' = "gc" /\ UNCHANGED todo ELSE pc' = "collect" /\ todo' = {}

\* A mutant: the health check is deleted although the service is in use.
DeleteServiceIgnoresUse ==
    /\ pc = "service"
    /\ be' = IF Refers(cur) THEN be ELSE [be EXCEPT ![cur] = None]
    /\ pc' = "check"
    /\ UNCHANGED <<inputVars, queued, hc, legacy, umap, pool, lb, workerVars, failed, budgetVars>>

\* Delete: the backend service, which the cloud refuses while a url map refers
\* to it.  That there is none is no error.
DeleteService ==
    /\ pc = "service"
    /\ LET gone == [be EXCEPT ![cur] = None]
       IN  \/ ~Refers(cur) /\ be' = gone /\ pc' = "check" /\ UNCHANGED <<todo, cur, faults, failed>>
           \/ Refers(cur) /\ DeleteFails /\ UNCHANGED <<be, faults>>
           \/ ~Refers(cur) /\ CallFails /\ DeleteFails /\ be' \in {be, gone}
    /\ UNCHANGED <<inputVars, queued, hc, legacy, umap, pool, lb, plan, igs, changes, crashes>>

\* Delete: then the health check; the port is forgotten when both are gone.
DeleteCheck ==
    /\ pc = "check"
    /\ LET gone == [hc EXCEPT ![cur] = None]
       IN  \/ /\ hc' = gone /\ cur' = None
              /\ IF cur = Default THEN pc' = "gc" /\ UNCHANGED <<todo, pool>>
                 ELSE pc' = "collect" /\ todo' = todo \ {cur} /\ pool' = pool \ {cur}
              /\ UNCHANGED <<faults, failed>>
           \/ CallFails /\ DeleteFails /\ hc' \in {hc, gone} /\ UNCHANGED pool
    /\ UNCHANGED <<inputVars, queued, be, legacy, umap, lb, plan, igs, changes, crashes>>

\* A sync that has failed is put into the queue again.  What one that has succeeded
\* has read is kept until the next.
SyncEnd ==
    /\ pc = "collect" /\ todo = {}
    /\ pc' = "idle"
    /\ queued' = (queued \/ failed)
    /\ failed' = FALSE
    /\ IF failed THEN plan' = None /\ igs' = {} ELSE UNCHANGED <<plan, igs>>
    /\ UNCHANGED <<inputVars, cloudVars, pool, lb, todo, cur, budgetVars>>

-------------------------------------------------------------------------------

Sync == \/ SyncBegin \/ EnsureInstanceGroups \/ EnsureHealthCheck \/ EnsureBackendService
        \/ SyncLoadBalancers \/ Link \/ UpdateUrlMap
        \/ GCLoadBalancers \/ GCBegin \/ GCPort \/ DeleteService \/ DeleteCheck \/ SyncEnd

Next == IngressChange \/ NodesChange \/ Crash \/ ReplenishPool \/ Sync

Spec == Init /\ [][Next]_vars

\* The worker never blocks, and the pool is relisted every 30 seconds.
FairSpec == Spec /\ WF_vars(Sync) /\ WF_vars(ReplenishPool)

-------------------------------------------------------------------------------

\* The variables have their types, and a backend service never refers to a health
\* check that is gone.
TypeOK ==
    /\ ing \in Ingresses \cup {None} /\ plan \in Ingresses \cup {None}
    /\ zones \subseteq Zones /\ igs \subseteq IGs
    /\ be \in [AllPorts -> BackendService \cup {None}]
    /\ hc \in [AllPorts -> HealthCheck \cup {None}]
    /\ \A p \in AllPorts : be[p] # None => IF be[p].hc = "new" THEN hc[p] # None ELSE p \in legacy
    /\ legacy \subseteq Ports /\ pool \subseteq AllPorts /\ todo \subseteq AllPorts
    /\ umap = None \/ umap \subseteq AllPorts
    /\ cur \in AllPorts \cup {None}
    /\ queued \in BOOLEAN /\ lb \in BOOLEAN /\ failed \in BOOLEAN
    /\ pc \in {"idle", "groups", "ensure", "backend", "lb", "link",
               "lbgc", "gc", "service", "check", "collect"}
    /\ changes \in 0..MaxChanges /\ faults \in 0..MaxFaults /\ crashes \in 0..MaxCrashes

\* The backend of port p is as service port sp asks for.
Serves(p, sp) ==
    /\ be[p] # None /\ hc[p] # None
    /\ be[p].proto = sp.proto /\ be[p].svc = sp.svc /\ be[p].hc = "new"
    /\ hc[p].proto = sp.proto
    /\ sp.neg => be[p].groups \subseteq NEGs /\ hc[p].spec = "USE_SERVING_PORT"

\* When a sync has ended without an error and nothing has changed since it began,
\* every port of the ingress has a backend service and a health check of its
\* protocol, linked to groups of one kind, and the url map refers to exactly these.
SuccessMeansBacked ==
    pc = "idle" /\ ~queued /\ plan # None /\ ing = plan =>
        /\ \A p \in DOMAIN plan :
            /\ Serves(p, plan[p])
            /\ ~plan[p].neg /\ igs # {} => igs \subseteq be[p].groups /\ be[p].groups \subseteq IGs
        /\ umap = DOMAIN plan \cup {Default}

\* While there is an ingress, garbage collection does not touch the default
\* backend, though relisting puts it into the pool.
DefaultBackendKept ==
    [][plan # None /\ be[Default] # None => be'[Default] # None]_vars

\* When the ingress stays as it is, its ports are served from some time on, after
\* any failures and restarts, with the groups of all zones that have nodes.
WantedIsServed ==
    <>[](ing # None =>
            /\ \A p \in DOMAIN ing :
                /\ Serves(p, ing[p])
                /\ ing[p].neg => be[p].groups = {"neg"} \X zones
                /\ ~ing[p].neg => {"ig"} \X zones \subseteq be[p].groups
            /\ umap = DOMAIN ing \cup {Default})

Wanted == IF ing = None THEN {} ELSE DOMAIN ing \cup {Default}

\* What is not asked for goes away.  While an ingress is left, this is so for all
\* backend services, those of an earlier process included; without one it is so for
\* what this process has made.  Health checks go if the process was not restarted.
UnwantedIsDeleted ==
    <>[]\A p \in AllPorts \ Wanted :
            /\ ing # None => be[p] = None
            /\ crashes = 0 => hc[p] = None /\ (be[p] = None \/ be[p].hc = "legacy")
===============================================================================
