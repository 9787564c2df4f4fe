---------------------------- MODULE BackendsProofs ----------------------------
(***************************************************************************)
(* Backend services keep their health checks, the default backend is not   *)
(* collected while there is an ingress, and a sync without an error leaves *)
(* what its ingress asks for: for any ports, zones and faults, whatever an *)
(* earlier release has left behind.                                        *)
(***************************************************************************)
EXTENDS Backends, TLAPS

Steps == {"idle", "groups", "ensure", "backend", "lb", "link",
          "lbgc", "gc", "service", "check", "collect"}

\* The types.
Types ==
    /\ ing \in Ingresses \cup {None} /\ plan \in Ingresses \cup {None}
    /\ zones \subseteq Zones /\ igs \subseteq IGs
    /\ be \in [AllPorts -> BackendService \cup {None}]
    /\ hc \in [AllPorts -> HealthCheck \cup {None}]
    /\ legacy \subseteq Ports /\ pool \subseteq AllPorts /\ todo \subseteq AllPorts
    /\ umap = None \/ umap \subseteq AllPorts
    /\ cur \in AllPorts \cup {None}
    /\ queued \in BOOLEAN /\ lb \in BOOLEAN /\ failed \in BOOLEAN
    /\ pc \in Steps
    /\ changes \in 0..MaxChanges /\ faults \in 0..MaxFaults /\ crashes \in 0..MaxCrashes

\* A backend service has the health check it refers to.
Checked ==
    \A p \in AllPorts : be[p] # None => IF be[p].hc = "new" THEN hc[p] # None ELSE p \in legacy

\* A sync ensures what its ingress requires, the health check before the service,
\* and deletes the service before the health check; the default backend is deleted
\* only without an ingress, and never with the ports of the pool.
WorkerInv ==
    /\ pc \in {"ensure", "backend"} => todo \subseteq Required
    /\ pc = "backend" => cur \in Required /\ hc[cur] # None
    /\ pc = "link" => plan # None
    /\ pc \in {"service", "check"} => cur \in AllPorts
    /\ pc \in {"service", "check"} /\ cur = Default => plan = None
    /\ pc \in {"service", "check"} /\ cur # Default => Default \notin todo
    /\ pc = "collect" => Default \notin todo
    /\ pc = "check" => be[cur] = None

\* A backend service has groups of one kind, and the legacy health check only as long
\* as it was never updated.
Shaped ==
    \A p \in AllPorts : be[p] # None =>
        /\ be[p].groups \subseteq IGs \/ be[p].groups \subseteq NEGs
        /\ be[p].hc = "new" \/ be[p].svc = Undescribed

\* While nothing is queued, the ingress may only have lost ports since the sync has read
\* it: there is no event for the deletion of a service.
Current ==
    ~queued /\ plan # None =>
        ing # None /\ DOMAIN ing \subseteq DOMAIN plan /\ \A p \in DOMAIN ing : ing[p] = plan[p]

\* A sync without an error, of an ingress that is still as it was read.
Undisturbed == plan # None /\ ~queued /\ ing = plan /\ ~failed

\* The health check of a port is as its service asks for.
CheckFits(p, sp) ==
    /\ hc[p] # None
    /\ hc[p].proto = sp.proto
    /\ sp.neg => hc[p].spec = "USE_SERVING_PORT"

\* The backend of a port is as ensureBackendService leaves it.
Ensured(p, sp) ==
    /\ CheckFits(p, sp)
    /\ be[p] # None
    /\ be[p].proto = sp.proto /\ be[p].svc = sp.svc /\ be[p].hc = "new"
    /\ ~sp.neg /\ igs # {} => igs \subseteq be[p].groups /\ be[p].groups \subseteq IGs

LinkedToNEGs(p) == be[p].groups \subseteq NEGs

Collecting == {"lbgc", "gc", "service", "check", "collect", "idle"}

\* How far such a sync has come: what it has ensured stays so, and then what it has
\* linked, and then the url map.
Reached ==
    /\ pc \in {"ensure", "backend"} => \A p \in DOMAIN plan \ todo : Ensured(p, plan[p])
    /\ pc = "backend" => cur \in todo /\ CheckFits(cur, Svc(cur))
    /\ pc \in {"lb", "link"} \cup Collecting => \A p \in DOMAIN plan : Ensured(p, plan[p])
    /\ pc = "link" => /\ todo \subseteq NegPorts(plan)
                      /\ \A p \in NegPorts(plan) \ todo : LinkedToNEGs(p)
    /\ pc \in Collecting => /\ \A p \in NegPorts(plan) : LinkedToNEGs(p)
                            /\ umap = DOMAIN plan \cup {Default}

Progress == Undisturbed => Reached

\* Garbage collection leaves the ports of the ingress alone.
Spares ==
    /\ pc \in {"service", "check"} => cur \notin PlanPorts
    /\ pc \in {"service", "check", "collect"} /\ plan # None => todo \cap PlanPorts = {}
    /\ pc = "idle" => ~failed

IInv == Types /\ Checked /\ WorkerInv

\* The invariant behind what a sync without an error leaves.
BInv == IInv /\ Shaped /\ Current /\ Progress /\ Spares

\* The invariant says what TypeOK does.
LEMMA TypesAre == Types /\ Checked => TypeOK
BY DEF Types, Checked, TypeOK, Steps

-----------------------------------------------------------------------------
\* Facts about the data.

\* The ports an ingress may refer to.
LEMMA IngressType ==
    ASSUME NEW i \in Ingresses
    PROVE  DOMAIN i \subseteq Ports /\ NegPorts(i) \subseteq Ports /\ i # None
             /\ \A p \in DOMAIN i : i[p] \in ServicePort
BY ConstantsAssumption DEF NegPorts

\* Every port that is required is a port, with a service.
LEMMA SvcType ==
    ASSUME Types, NEW p \in Required
    PROVE  p \in AllPorts /\ Svc(p) \in ServicePort
<1>1. CASE plan = None
  BY <1>1 DEF Required, PlanPorts
<1>2. CASE plan # None
  <2>1. plan \in Ingresses
    BY <1>2 DEF Types
  <2>. QED
    BY <1>2, <2>1, IngressType, ConstantsAssumption DEF Required, PlanPorts, Svc, AllPorts
<1>. QED
  BY <1>1, <1>2

\* The required ports are ports.
LEMMA RequiredType == Types => Required \subseteq AllPorts
BY SvcType

\* A failed call is counted, up to the bound.
LEMMA CallFailsType == ASSUME Types, CallFails PROVE faults' \in 0..MaxFaults
BY ConstantsAssumption DEF Types, CallFails

\* What ensureBackendService makes of a service.
LEMMA CreatedType ==
    ASSUME NEW sp \in ServicePort
    PROVE  Created(sp) \in BackendService /\ Created(sp).hc = "new"
BY DEF Created, ServicePort, BackendService

\* An update of a backend service leaves it one.
LEMMA UpdatedType ==
    ASSUME NEW sp \in ServicePort, NEW b \in BackendService
    PROVE  Updated(b, sp) \in BackendService /\ Updated(b, sp).hc \in {b.hc, "new"}
BY Zenon DEF Updated, ServicePort, BackendService

\* Link changes nothing of a backend service but its groups.
LEMMA LinkedType ==
    ASSUME NEW b \in BackendService, NEW groups \in SUBSET IGs
    PROVE  Linked(b, groups) \in BackendService /\ Linked(b, groups).hc = b.hc
<1>. DEFINE kept == b.groups \cap IGs
            mode == IF kept = {} THEN "RATE" ELSE b.mode
<1>1. kept \cup groups \in SUBSET (IGs \cup NEGs) /\ mode \in {"RATE", "UTILIZATION"}
  BY DEF BackendService
<1>2. Linked(b, groups) = IF groups \subseteq b.groups THEN b
                          ELSE [b EXCEPT !.groups = kept \cup groups, !.mode = mode]
  BY DEF Linked
<1>. HIDE DEF kept, mode
<1>. QED
  BY <1>1, <1>2, Zenon DEF BackendService

\* What ensureHealthCheck makes of a health check.
LEMMA SyncedType ==
    ASSUME NEW old \in HealthCheck \cup {None}, NEW sp \in ServicePort
    PROVE  Synced(old, sp) \in HealthCheck
BY DEF Synced, NewCheck, ServicePort, HealthCheck

\* How a checkpoint ends, or fails.
LEMMA CheckpointType ==
    ASSUME Types, CheckpointEnds
    PROVE  /\ todo' \subseteq AllPorts /\ cur' = None
           /\ pc' \in {"lbgc", "link"} /\ (pc' = "link" => plan # None)
<1>1. ASSUME plan # None, NEW i \in Seen PROVE NegPorts(i) \subseteq AllPorts
  <2>1. i \in Ingresses
    BY <1>1 DEF Seen, Types
  <2>. QED
    BY <2>1, IngressType DEF AllPorts
<1>. QED
  BY <1>1 DEF CheckpointEnds

-----------------------------------------------------------------------------
\* The initial states satisfy the invariant.
LEMMA InitInv == Init => IInv
<1>. SUFFICES ASSUME Init PROVE IInv
  OBVIOUS
<1>1. PICK ports \in SUBSET OldPorts : legacy = ports
  BY DEF Init
<1>. DEFINE left == [Old EXCEPT !.groups = {"ig"} \X zones, !.mode = "UTILIZATION"]
<1>2. zones \subseteq Zones /\ {"ig"} \X zones \subseteq IGs
  BY ConstantsAssumption DEF Init, IGs
<1>3. left \in BackendService /\ left.hc = "legacy"
  <2>. DEFINE gs == {"ig"} \X zones
  <2>1. gs \in SUBSET (IGs \cup NEGs)
    BY <1>2
  <2>2. Old \in BackendService /\ Old.hc = "legacy"
    BY ServicesAssumption DEF Old, BackendService, Protocols
  <2>. HIDE DEF gs
  <2>3. [Old EXCEPT !.groups = gs, !.mode = "UTILIZATION"] \in BackendService
          /\ [Old EXCEPT !.groups = gs, !.mode = "UTILIZATION"].hc = "legacy"
    BY <2>1, <2>2, Zenon DEF BackendService
  <2>. QED
    BY <2>3 DEF gs
<1>4. be = [p \in AllPorts |-> IF p \in legacy THEN left ELSE None]
  BY DEF Init
<1>. HIDE DEF left
<1>5. be \in [AllPorts -> BackendService \cup {None}] /\ Checked
  BY <1>3, <1>4 DEF Checked
<1>6. legacy \subseteq Ports
  BY <1>1, ConstantsAssumption
<1>7. /\ ing \in Ingresses /\ plan = None /\ igs = {} /\ umap = None /\ pool = {} /\ lb = FALSE
      /\ pc = "idle" /\ todo = {} /\ cur = None /\ failed = FALSE /\ queued = TRUE
      /\ hc \in [AllPorts -> HealthCheck \cup {None}]
      /\ changes = 0 /\ faults = 0 /\ crashes = 0
  BY DEF Init
<1>8. Types
  <2>1. changes \in 0..MaxChanges /\ faults \in 0..MaxFaults /\ crashes \in 0..MaxCrashes
    BY <1>7, ConstantsAssumption
  <2>. QED
    BY <1>2, <1>5, <1>6, <1>7, <2>1, Zenon DEF Types, Steps
<1>9. WorkerInv
  BY <1>7 DEF WorkerInv
<1>. QED
  BY <1>5, <1>8, <1>9 DEF IInv

\* A step that leaves the cloud's backend services and health checks alone.
LEMMA CheckedKept == ASSUME Checked, UNCHANGED <<be, hc, legacy>> PROVE Checked'
BY DEF Checked

\* The environment, and relisting.
LEMMA EnvironmentInv ==
    ASSUME IInv, IngressChange \/ NodesChange \/ Crash \/ ReplenishPool
    PROVE  IInv'
<1>. USE DEF IInv
<1>1. Checked'
  BY CheckedKept DEF IngressChange, NodesChange, Crash, ReplenishPool, cloudVars
<1>2. CASE IngressChange
  <2>1. Types'
    <3>1. ing' \in Ingresses \cup {None} /\ (queued' = TRUE \/ UNCHANGED queued)
      BY <1>2 DEF IngressChange
    <3>2. changes' \in 0..MaxChanges
      BY <1>2, ConstantsAssumption DEF IngressChange, Types
    <3>3. UNCHANGED <<zones, be, hc, legacy, umap, pool, lb, pc, plan, igs, todo, cur, failed,
                      faults, crashes>>
      BY <1>2 DEF IngressChange, cloudVars, workerVars
    <3>. QED
      BY <3>1, <3>2, <3>3, Zenon DEF Types
  <2>2. WorkerInv'
    BY <1>2 DEF IngressChange, WorkerInv, Required, PlanPorts, cloudVars, workerVars
  <2>. QED
    BY <1>1, <2>1, <2>2
<1>3. CASE NodesChange
  <2>1. Types'
    BY <1>3, ConstantsAssumption DEF NodesChange, Types, cloudVars, workerVars
  <2>2. WorkerInv'
    BY <1>3 DEF NodesChange, WorkerInv, Required, PlanPorts, cloudVars, workerVars
  <2>. QED
    BY <1>1, <2>1, <2>2
<1>4. CASE Crash
  <2>1. Types'
    <3>1. /\ pool' = {} /\ lb' = FALSE /\ pc' = "idle" /\ plan' = None /\ igs' = {} /\ todo' = {}
          /\ cur' = None /\ failed' = FALSE /\ UNCHANGED <<zones, be, hc, legacy, umap, faults>>
      BY <1>4 DEF Crash, cloudVars
    <3>2. /\ ing' \in Ingresses \cup {None} /\ changes' \in 0..MaxChanges
          /\ crashes' \in 0..MaxCrashes
      BY <1>4, ConstantsAssumption DEF Crash, Types
    <3>3. queued' \in BOOLEAN
      BY <1>4, Zenon DEF Crash
    <3>. QED
      BY <3>1, <3>2, <3>3, Zenon DEF Types, Steps
  <2>2. WorkerInv'
    BY <1>4 DEF Crash, WorkerInv
  <2>. QED
    BY <1>1, <2>1, <2>2
<1>5. CASE ReplenishPool
  <2>1. Types'
    BY <1>5 DEF ReplenishPool, Types, inputVars, cloudVars, workerVars, budgetVars
  <2>2. WorkerInv'
    BY <1>5 DEF ReplenishPool, WorkerInv, Required, PlanPorts, cloudVars, workerVars
  <2>. QED
    BY <1>1, <2>1, <2>2
<1>. QED
  BY <1>2, <1>3, <1>4, <1>5

\* The steps of a checkpoint that make no backend.
LEMMA CheckpointInv ==
    ASSUME IInv, SyncBegin \/ EnsureInstanceGroups \/ SyncLoadBalancers
    PROVE  IInv'
<1>. USE DEF IInv
<1>1. Checked'
  BY CheckedKept DEF SyncBegin, EnsureInstanceGroups, SyncLoadBalancers, cloudVars
<1>2. CASE SyncBegin
  <2>1. Types'
    BY <1>2, Zenon DEF SyncBegin, Types, Steps, inputVars, cloudVars, budgetVars
  <2>2. WorkerInv'
    BY <1>2 DEF SyncBegin, WorkerInv
  <2>. QED
    BY <1>1, <2>1, <2>2
<1>3. CASE EnsureInstanceGroups
  <2>1. /\ UNCHANGED <<ing, zones, queued, be, hc, legacy, umap, pool, lb, plan, changes, crashes>>
        /\ pc = "groups"
    BY <1>3 DEF EnsureInstanceGroups, inputVars, cloudVars
  <2>2. {"ig"} \X zones \subseteq IGs
    BY DEF Types, IGs
  <2>3. /\ igs' \subseteq IGs /\ todo' \subseteq AllPorts /\ cur' \in AllPorts \cup {None}
        /\ pc' \in {"lb", "ensure", "lbgc", "link"} /\ (pc' = "ensure" => todo' \subseteq Required)
        /\ pc' = "link" => plan # None
        /\ failed' \in BOOLEAN /\ faults' \in 0..MaxFaults
    <3>1. CASE CallFails /\ CheckpointFails /\ UNCHANGED igs
      BY <3>1, CallFailsType, CheckpointType DEF CheckpointFails, Types
    <3>2. CASE /\ igs' = {"ig"} \X zones /\ todo' = Required
               /\ pc' = IF todo' = {} THEN "lb" ELSE "ensure"
               /\ UNCHANGED <<faults, failed, cur>>
      BY <2>2, <3>2, RequiredType DEF Types
    <3>. QED
      BY <1>3, <3>1, <3>2 DEF EnsureInstanceGroups
  <2>4. Types'
    BY <2>1, <2>3 DEF Types, Steps
  <2>5. WorkerInv'
    BY <2>1, <2>3 DEF WorkerInv, Required, PlanPorts
  <2>. QED
    BY <1>1, <2>4, <2>5
<1>4. CASE SyncLoadBalancers
  <2>1. UNCHANGED <<ing, zones, queued, be, hc, legacy, pool, plan, igs, changes, crashes>>
    BY <1>4 DEF SyncLoadBalancers, inputVars
  <2>2. /\ todo' \subseteq AllPorts /\ cur' \in AllPorts \cup {None}
        /\ pc' \in {"lbgc", "link"} /\ (pc' = "link" => plan # None)
        /\ failed' \in BOOLEAN /\ faults' \in 0..MaxFaults /\ lb' \in BOOLEAN
    BY <1>4, CallFailsType, CheckpointType, Zenon DEF SyncLoadBalancers, CheckpointFails, Types
  <2>3. umap' = None \/ umap' \subseteq AllPorts
    BY <1>4 DEF SyncLoadBalancers, Types, AllPorts
  <2>4. Types'
    BY <2>1, <2>2, <2>3 DEF Types, Steps
  <2>5. WorkerInv'
    BY <2>1, <2>2 DEF WorkerInv
  <2>. QED
    BY <1>1, <2>4, <2>5
<1>. QED
  BY <1>2, <1>3, <1>4

\* ensureHealthCheck.
LEMMA EnsureHealthCheckInv == ASSUME IInv, EnsureHealthCheck PROVE IInv'
<1>. USE DEF IInv
<1>1. /\ UNCHANGED <<ing, zones, queued, be, legacy, umap, lb, plan, igs, changes, crashes>>
      /\ pc = "ensure"
  BY DEF EnsureHealthCheck, inputVars
<1>. DEFINE With(p) == [hc EXCEPT ![p] = Synced(hc[p], Svc(p))]
<1>2. PICK p \in todo :
        \/ hc' = With(p) /\ cur' = p /\ pc' = "backend" /\ UNCHANGED <<faults, failed, todo, pool>>
        \/ CallFails /\ CheckpointFails /\ pool' = Tracked(p) /\ hc' \in {hc, With(p)}
  BY Zenon DEF EnsureHealthCheck
<1>3. p \in Required /\ p \in AllPorts /\ Synced(hc[p], Svc(p)) \in HealthCheck
  <2>1. p \in Required
    BY <1>1 DEF WorkerInv
  <2>2. p \in AllPorts /\ Svc(p) \in ServicePort
    BY <2>1, SvcType
  <2>3. hc[p] \in HealthCheck \cup {None}
    BY <2>2 DEF Types
  <2>. QED
    BY <2>1, <2>2, <2>3, SyncedType
<1>4. /\ With(p) \in [AllPorts -> HealthCheck \cup {None}] /\ With(p)[p] # None
      /\ \A q \in AllPorts : hc[q] # None => With(p)[q] # None
  BY <1>3, ConstantsAssumption DEF Types
<1>. HIDE DEF With
<1>5. /\ hc' \in [AllPorts -> HealthCheck \cup {None}]
      /\ \A q \in AllPorts : hc[q] # None => hc'[q] # None
  BY <1>2, <1>4 DEF Types
<1>6. /\ \/ pc' = "backend" /\ cur' = p /\ todo' = todo
         \/ /\ pc' \in {"lbgc", "link"} /\ (pc' = "link" => plan # None)
            /\ cur' = None /\ todo' \subseteq AllPorts
      /\ failed' \in BOOLEAN /\ faults' \in 0..MaxFaults /\ pool' \subseteq AllPorts
  BY <1>2, <1>3, CallFailsType, CheckpointType, Zenon DEF CheckpointFails, Types, Tracked
<1>7. Types'
  BY <1>1, <1>3, <1>5, <1>6 DEF Types, Steps
<1>8. Checked'
  BY <1>1, <1>5 DEF Checked
<1>9. WorkerInv'
  <2>1. pc' = "backend" => hc'[cur'] # None
    BY <1>2, <1>4, <1>6, CheckpointType DEF CheckpointFails
  <2>2. Required' = Required
    BY <1>1 DEF Required, PlanPorts
  <2>. QED
    BY <1>1, <1>3, <1>6, <2>1, <2>2 DEF WorkerInv
<1>. QED
  BY <1>7, <1>8, <1>9

\* ensureBackendService.
LEMMA EnsureBackendServiceInv ==
    ASSUME IInv, EnsureBackendService
    PROVE  IInv' /\ \A q \in AllPorts : be[q] # None => be'[q] # None
<1>. USE DEF IInv
<1>. DEFINE p == cur
            sp == Svc(p)
            found == IF be[p] = None THEN Created(sp) ELSE be[p]
            updated == Updated(found, sp)
            linked == IF sp.neg THEN updated ELSE Linked(updated, igs)
            old == found.hc = "legacy" /\ updated.hc = "new"
            kept == IF old THEN legacy \ {p} ELSE legacy
<1>1. /\ UNCHANGED <<ing, zones, queued, hc, umap, lb, plan, igs, changes, crashes>>
      /\ pc = "backend" /\ pool' = Tracked(p)
  BY DEF EnsureBackendService, inputVars
<1>2. /\ \/ be' \in {be, [be EXCEPT ![p] = found], [be EXCEPT ![p] = updated],
                     [be EXCEPT ![p] = linked]} /\ legacy' = legacy
         \/ be' \in {[be EXCEPT ![p] = updated], [be EXCEPT ![p] = linked]} /\ legacy' = kept
      /\ \/ /\ todo' = todo \ {p} /\ cur' = None /\ pc' = IF todo' = {} THEN "lb" ELSE "ensure"
            /\ UNCHANGED failed /\ (UNCHANGED faults \/ CallFails)
         \/ CallFails /\ CheckpointFails
  BY Zenon DEF EnsureBackendService
<1>3. p \in Required /\ p \in AllPorts /\ hc[p] # None /\ sp \in ServicePort
  BY <1>1, SvcType DEF WorkerInv
<1>4. /\ found \in BackendService
      /\ found.hc = "new" \/ (found = be[p] /\ be[p] # None)
  BY <1>3, CreatedType DEF Types
<1>5. updated \in BackendService /\ updated.hc \in {found.hc, "new"}
  <2>. HIDE DEF found, sp
  <2>. QED
    BY <1>3, <1>4, UpdatedType
<1>6. linked \in BackendService /\ linked.hc = updated.hc
  <2>1. igs \in SUBSET IGs
    BY DEF Types
  <2>. HIDE DEF updated, sp
  <2>. QED
    BY <1>5, <2>1, LinkedType
<1>. HIDE DEF p, sp, found, updated, linked
<1>7. PICK b \in BackendService \cup {None} :
         /\ be' = [be EXCEPT ![p] = b]
         /\ b = None => be[p] = None
         /\ \/ legacy' = legacy /\ (b # None => b.hc = "new" \/ p \in legacy)
            \/ legacy' = legacy \ {p} /\ b # None /\ b.hc = "new"
  <2>1. found.hc = "new" \/ p \in legacy
    BY <1>3, <1>4 DEF Checked, Types, BackendService
  <2>2. be = [be EXCEPT ![p] = be[p]] /\ be[p] \in BackendService \cup {None}
    BY <1>3 DEF Types
  <2>3. be[p] # None => be[p].hc = "new" \/ p \in legacy
    BY <1>3 DEF Checked
  <2>4. None \notin BackendService
    BY ConstantsAssumption
  <2>5. updated.hc = "new" \/ p \in legacy
    BY <1>5, <2>1
  <2>. QED
    BY <1>2, <1>4, <1>5, <1>6, <2>1, <2>2, <2>3, <2>4, <2>5
<1>8. /\ be' \in [AllPorts -> BackendService \cup {None}]
      /\ legacy' \subseteq Ports
      /\ \A q \in AllPorts : be[q] # None => be'[q] # None
  BY <1>3, <1>7 DEF Types
<1>9. /\ \/ todo' \subseteq todo /\ cur' = None /\ pc' \in {"lb", "ensure"}
         \/ /\ todo' \subseteq AllPorts /\ cur' = None
            /\ pc' \in {"lbgc", "link"} /\ (pc' = "link" => plan # None)
      /\ failed' \in BOOLEAN /\ faults' \in 0..MaxFaults /\ pool' \subseteq AllPorts
  BY <1>1, <1>2, <1>3, CallFailsType, CheckpointType, Zenon DEF CheckpointFails, Types, Tracked
<1>10. Types'
  BY <1>1, <1>8, <1>9 DEF Types, Steps
<1>11. Checked'
  BY <1>1, <1>3, <1>7 DEF Checked, Types
<1>12. WorkerInv'
  <2>1. Required' = Required
    BY <1>1 DEF Required, PlanPorts
  <2>. QED
    BY <1>1, <1>9, <2>1 DEF WorkerInv
<1>. QED
  BY <1>8, <1>10, <1>11, <1>12

\* Link.
LEMMA LinkInv ==
    ASSUME IInv, Link
    PROVE  IInv' /\ \A q \in AllPorts : be[q] # None => be'[q] # None
<1>. USE DEF IInv
<1>. DEFINE LinkedTo(p) == [be EXCEPT ![p].groups = {"neg"} \X zones, ![p].mode = "RATE"]
<1>1. /\ UNCHANGED <<ing, zones, queued, hc, legacy, umap, pool, lb, plan, igs, cur, changes, crashes>>
      /\ pc = "link"
  BY DEF Link, inputVars
<1>2. PICK p \in todo : be' = be \/ (be[p] # None /\ be' = LinkedTo(p))
  BY Zenon DEF Link
<1>3. /\ todo' \subseteq todo /\ pc' \in {"link", "lbgc"}
      /\ failed' \in BOOLEAN /\ faults' \in 0..MaxFaults
  BY <1>1, CallFailsType, Zenon DEF Link, SyncFails, Types
<1>4. /\ be' \in [AllPorts -> BackendService \cup {None}]
      /\ \A q \in AllPorts : be[q] # None <=> be'[q] # None
      /\ \A q \in AllPorts : be[q] # None => be'[q].hc = be[q].hc
  <2>1. CASE be' = be
    BY <2>1 DEF Types
  <2>2. CASE be[p] # None /\ be' = LinkedTo(p)
    <3>. DEFINE b == be[p]
                gs == {"neg"} \X zones
                new == [b EXCEPT !.groups = gs, !.mode = "RATE"]
    <3>1. b \in BackendService /\ gs \in SUBSET (IGs \cup NEGs)
      BY <2>2 DEF Types, NEGs
    <3>2. be' = [be EXCEPT ![p] = new]
      BY <2>2, Zenon DEF Types
    <3>. HIDE DEF b, gs
    <3>3. new \in BackendService /\ new.hc = b.hc
      BY <3>1, Zenon DEF BackendService
    <3>. HIDE DEF new
    <3>4. new # None
      BY <3>3, ConstantsAssumption
    <3>5. be \in [AllPorts -> BackendService \cup {None}] /\ b = be[p] /\ b # None
      BY <2>2 DEF Types, b
    <3>. QED
      BY <3>2, <3>3, <3>4, <3>5, Zenon
  <2>. QED
    BY <1>2, <2>1, <2>2
<1>5. Types'
  BY <1>1, <1>3, <1>4 DEF Types, Steps
<1>6. Checked'
  BY <1>1, <1>4 DEF Checked
<1>7. WorkerInv'
  BY <1>1, <1>3 DEF WorkerInv
<1>. QED
  BY <1>4, <1>5, <1>6, <1>7

\* UpdateUrlMap, and the steps of a collection that delete no backend.
LEMMA CollectInv ==
    ASSUME IInv, UpdateUrlMap \/ GCLoadBalancers \/ GCBegin \/ GCPort \/ SyncEnd
    PROVE  IInv'
<1>. USE DEF IInv
<1>1. Checked'
  BY CheckedKept DEF UpdateUrlMap, GCLoadBalancers, GCBegin, GCPort, SyncEnd, cloudVars
<1>2. CASE UpdateUrlMap
  <2>1. /\ UNCHANGED <<ing, zones, queued, be, hc, legacy, lb, plan, igs, todo, cur, changes, crashes>>
        /\ pc' = "lbgc"
    BY <1>2 DEF UpdateUrlMap, inputVars, workerVars
  <2>2. PICK i \in Seen : LET found == {p \in DOMAIN i : be[p] # None}
                          IN /\ umap' \in {umap, {Default} \cup DOMAIN i}
                             /\ \E t \in SUBSET found : pool' = pool \cup t
                             /\ failed' = TRUE \/ UNCHANGED failed
                             /\ UNCHANGED faults \/ CallFails
    <3>1. PICK i \in Seen :
            LET found == {p \in DOMAIN i : be[p] # None}
                refers == {Default} \cup DOMAIN i
                ready == lb /\ umap # None /\ found = DOMAIN i
            IN  \/ ready /\ umap' = refers /\ pool' = pool \cup found /\ UNCHANGED <<faults, failed>>
                \/ ~ready /\ failed' = TRUE /\ UNCHANGED <<umap, faults>>
                   /\ (pool' = pool \/ (lb /\ \E t \in SUBSET found : pool' = pool \cup t))
                \/ CallFails /\ ready /\ failed' = TRUE /\ umap' \in {umap, refers}
                   /\ pool' = pool \cup found
      BY <1>2, Zenon DEF UpdateUrlMap
    <3>. DEFINE found == {p \in DOMAIN i : be[p] # None}
    <3>2. \/ pool' = pool \cup found
          \/ pool' = pool
          \/ \E t \in SUBSET found : pool' = pool \cup t
      BY <3>1, Zenon
    <3>3. \E t \in SUBSET found : pool' = pool \cup t
      <4>1. {} \in SUBSET found /\ found \in SUBSET found /\ pool = pool \cup {}
        OBVIOUS
      <4>. HIDE DEF found
      <4>. QED
        BY <3>2, <4>1, Zenon
    <3>. QED
      BY <3>1, <3>3
  <2>3. i \in Ingresses
    BY <1>2, <2>2 DEF UpdateUrlMap, WorkerInv, Seen, Types
  <2>4. DOMAIN i \subseteq AllPorts
    BY <2>3, IngressType DEF AllPorts
  <2>5. umap' = None \/ umap' \subseteq AllPorts
    BY <2>2, <2>4 DEF Types, AllPorts
  <2>6. pool' \subseteq AllPorts /\ failed' \in BOOLEAN /\ faults' \in 0..MaxFaults
    BY <2>2, <2>4, CallFailsType, Zenon DEF Types
  <2>7. Types'
    BY <2>1, <2>5, <2>6 DEF Types, Steps
  <2>8. WorkerInv'
    BY <2>1 DEF WorkerInv
  <2>. QED
    BY <1>1, <2>7, <2>8
<1>3. CASE GCLoadBalancers
  <2>1. UNCHANGED <<ing, zones, queued, be, hc, legacy, pool, plan, igs, todo, changes, crashes>>
    BY <1>3 DEF GCLoadBalancers, inputVars
  <2>2. /\ \/ pc' = "gc" /\ cur' = cur
           \/ pc' = "service" /\ cur' = Default /\ plan = None
        /\ lb' \in BOOLEAN /\ (umap' = None \/ umap' = umap)
        /\ failed' \in BOOLEAN /\ faults' \in 0..MaxFaults
    BY <1>3, CallFailsType, Zenon DEF GCLoadBalancers, Types
  <2>3. Types'
    BY <2>1, <2>2 DEF Types, Steps, AllPorts
  <2>4. WorkerInv'
    BY <2>1, <2>2 DEF WorkerInv, AllPorts
  <2>. QED
    BY <1>1, <2>3, <2>4
<1>4. CASE GCBegin
  <2>1. Types'
    BY <1>4 DEF GCBegin, Unknown, Types, Steps, inputVars, cloudVars, budgetVars
  <2>2. WorkerInv'
    BY <1>4 DEF GCBegin, Unknown, WorkerInv
  <2>. QED
    BY <1>1, <2>1, <2>2
<1>5. CASE GCPort
  <2>1. Types'
    BY <1>5 DEF GCPort, Types, Steps, inputVars, cloudVars, budgetVars
  <2>2. WorkerInv'
    BY <1>5 DEF GCPort, WorkerInv, Types
  <2>. QED
    BY <1>1, <2>1, <2>2
<1>6. CASE SyncEnd
  <2>1. /\ UNCHANGED <<ing, zones, be, hc, legacy, umap, pool, lb, todo, cur, changes, faults, crashes>>
        /\ pc' = "idle" /\ failed' = FALSE
        /\ plan' \in {plan, None} /\ igs' \in {igs, {}}
    BY <1>6 DEF SyncEnd, inputVars, cloudVars, budgetVars
  <2>2. queued' \in BOOLEAN
    BY <1>6, Zenon DEF SyncEnd
  <2>3. Types'
    BY <2>1, <2>2, Zenon DEF Types, Steps
  <2>4. WorkerInv'
    BY <2>1 DEF WorkerInv
  <2>. QED
    BY <1>1, <2>3, <2>4
<1>. QED
  BY <1>2, <1>3, <1>4, <1>5, <1>6

\* Delete: the backend service.  The default backend is deleted only without an ingress.
LEMMA DeleteServiceInv ==
    ASSUME IInv, DeleteService
    PROVE  IInv' /\ (plan # None /\ be[Default] # None => be'[Default] # None)
<1>. USE DEF IInv
<1>. DEFINE gone == [be EXCEPT ![cur] = None]
<1>1. /\ UNCHANGED <<ing, zones, queued, hc, legacy, umap, pool, lb, plan, igs, changes, crashes>>
      /\ pc = "service" /\ cur \in AllPorts
  BY DEF DeleteService, WorkerInv, inputVars
<1>2. /\ \/ be' = gone /\ pc' = "check" /\ UNCHANGED <<todo, cur, faults, failed>>
         \/ be' \in {be, gone} /\ DeleteFails /\ (UNCHANGED faults \/ CallFails)
  BY DEF DeleteService
<1>3. /\ gone \in [AllPorts -> BackendService \cup {None}] /\ gone[cur] = None
      /\ \A q \in AllPorts : q # cur => gone[q] = be[q]
  BY <1>1 DEF Types
<1>. HIDE DEF gone
<1>4. /\ \/ pc' = "check" /\ UNCHANGED <<todo, cur>> /\ be' = gone
         \/ cur = Default /\ pc' = "gc" /\ cur' = None /\ UNCHANGED todo
         \/ cur # Default /\ pc' = "collect" /\ cur' = None /\ todo' = {}
      /\ failed' \in BOOLEAN /\ faults' \in 0..MaxFaults
  BY <1>2, CallFailsType, Zenon DEF DeleteFails, Types
<1>5. be' \in {be, gone}
  BY <1>2
<1>6. Types'
  BY <1>1, <1>3, <1>4, <1>5 DEF Types, Steps
<1>7. Checked'
  BY <1>1, <1>3, <1>5 DEF Checked
<1>8. WorkerInv'
  BY <1>1, <1>3, <1>4 DEF WorkerInv
<1>9. plan # None => cur # Default
  BY <1>1 DEF WorkerInv
<1>. QED
  BY <1>3, <1>5, <1>6, <1>7, <1>8, <1>9 DEF AllPorts

\* Delete: the health check, when the service is gone.
LEMMA DeleteCheckInv == ASSUME IInv, DeleteCheck PROVE IInv'
<1>. USE DEF IInv
<1>. DEFINE gone == [hc EXCEPT ![cur] = None]
<1>1. /\ UNCHANGED <<ing, zones, queued, be, legacy, umap, lb, plan, igs, changes, crashes>>
      /\ pc = "check" /\ cur \in AllPorts /\ be[cur] = None
  BY DEF DeleteCheck, WorkerInv, inputVars
<1>2. /\ hc' \in {hc, gone} /\ cur' = None
      /\ pc' \in {"gc", "collect"} /\ (pc' = "collect" => cur # Default)
      /\ todo' \subseteq todo /\ pool' \subseteq pool
      /\ failed' \in BOOLEAN /\ faults' \in 0..MaxFaults
  BY CallFailsType, Zenon DEF DeleteCheck, DeleteFails, Types
<1>3. /\ gone \in [AllPorts -> HealthCheck \cup {None}]
      /\ \A q \in AllPorts : q # cur => gone[q] = hc[q]
  BY <1>1 DEF Types
<1>. HIDE DEF gone
<1>4. Types'
  BY <1>1, <1>2, <1>3 DEF Types, Steps
<1>5. Checked'
  BY <1>1, <1>2, <1>3 DEF Checked
<1>6. WorkerInv'
  BY <1>1, <1>2 DEF WorkerInv
<1>. QED
  BY <1>4, <1>5, <1>6

-----------------------------------------------------------------------------
\* Every step keeps the invariant.
LEMMA NextInv == IInv /\ [Next]_vars => IInv'
<1>. SUFFICES ASSUME IInv, [Next]_vars PROVE IInv'
  OBVIOUS
<1>1. CASE UNCHANGED vars
  <2>. USE <1>1 DEF vars, inputVars, cloudVars, workerVars, budgetVars
  <2>1. Types'
    BY DEF IInv, Types
  <2>2. Checked'
    BY DEF IInv, Checked
  <2>3. WorkerInv'
    BY DEF IInv, WorkerInv, Required, PlanPorts
  <2>. QED
    BY <2>1, <2>2, <2>3 DEF IInv
<1>. QED
  BY <1>1, EnvironmentInv, CheckpointInv, EnsureHealthCheckInv, EnsureBackendServiceInv, LinkInv,
     CollectInv, DeleteServiceInv, DeleteCheckInv DEF Next, Sync

\* The invariant holds in all behaviours.
LEMMA Invariance == Spec => []IInv
BY InitInv, NextInv, PTL DEF Spec

-----------------------------------------------------------------------------
\* What a sync without an error leaves behind.

\* Groups are of one kind or the other.
LEMMA KindsApart == IGs \cap NEGs = {}
BY DEF IGs, NEGs

\* A health check that was synced is as the service asks for.
LEMMA SyncedFits ==
    ASSUME NEW old \in HealthCheck \cup {None}, NEW sp \in ServicePort
    PROVE  /\ Synced(old, sp).proto = sp.proto
           /\ sp.neg => Synced(old, sp).spec = "USE_SERVING_PORT"
BY DEF Synced, NewCheck, NeedToUpdate, ServicePort, HealthCheck

\* The shape of a backend service.
ShapeOK(b) ==
    /\ b.groups \subseteq IGs \/ b.groups \subseteq NEGs
    /\ b.hc = "new" \/ b.svc = Undescribed

\* A new backend service has no groups yet.
LEMMA CreatedShape == ASSUME NEW sp \in ServicePort PROVE ShapeOK(Created(sp))
BY DEF Created, ShapeOK

\* An update makes a backend service that of its port, with the new health check.
LEMMA UpdatedFits ==
    ASSUME NEW sp \in ServicePort, NEW b \in BackendService, ShapeOK(b)
    PROVE  /\ Updated(b, sp).proto = sp.proto /\ Updated(b, sp).svc = sp.svc
           /\ Updated(b, sp).hc = "new"
           /\ ShapeOK(Updated(b, sp))
<1>1. sp.svc # Undescribed
  BY DEF ServicePort
<1>2. CASE b.proto # sp.proto \/ b.svc # sp.svc
  <2>1. Updated(b, sp) = [b EXCEPT !.proto = sp.proto, !.svc = sp.svc, !.hc = "new"]
    BY <1>2 DEF Updated
  <2>. QED
    BY <2>1 DEF BackendService, ShapeOK
<1>3. CASE ~(b.proto # sp.proto \/ b.svc # sp.svc)
  BY <1>1, <1>3 DEF Updated, ShapeOK
<1>. QED
  BY <1>2, <1>3

\* edgeHop links all instance groups, if there are any, and drops NEGs.
LEMMA LinkedFits ==
    ASSUME NEW b \in BackendService, NEW groups \in SUBSET IGs, ShapeOK(b)
    PROVE  /\ Linked(b, groups).proto = b.proto /\ Linked(b, groups).svc = b.svc
           /\ ShapeOK(Linked(b, groups))
           /\ groups # {} => /\ groups \subseteq Linked(b, groups).groups
                             /\ Linked(b, groups).groups \subseteq IGs
<1>. DEFINE kept == b.groups \cap IGs
            mode == IF kept = {} THEN "RATE" ELSE b.mode
<1>1. kept \cup groups \subseteq IGs
  OBVIOUS
<1>2. CASE groups \subseteq b.groups
  <2>1. Linked(b, groups) = b
    BY <1>2 DEF Linked
  <2>2. groups # {} => b.groups \subseteq IGs
    BY <1>2, KindsApart DEF ShapeOK
  <2>. QED
    BY <1>2, <2>1, <2>2
<1>3. CASE ~(groups \subseteq b.groups)
  <2>1. Linked(b, groups) = [b EXCEPT !.groups = kept \cup groups, !.mode = mode]
    BY <1>3 DEF Linked
  <2>2. groups \subseteq kept \cup groups
    OBVIOUS
  <2>. HIDE DEF kept, mode
  <2>. QED
    BY <1>1, <2>1, <2>2 DEF BackendService, ShapeOK
<1>. QED
  BY <1>2, <1>3

\* What a step does not touch stays reached.
LEMMA ReachedKept ==
    ASSUME Reached, UNCHANGED <<plan, igs, be, hc, umap, pc, todo, cur>>
    PROVE  Reached'
BY DEF Reached, Ensured, CheckFits, LinkedToNEGs, NegPorts, Svc

\* The ingress of a sync does not come back without being queued: an undisturbed sync
\* was undisturbed before.
LEMMA UndisturbedBefore ==
    ASSUME IInv, Current, Next, ~SyncBegin, Undisturbed'
    PROVE  Undisturbed /\ UNCHANGED plan
<1>1. CASE IngressChange
  <2>1. UNCHANGED <<plan, failed>> /\ plan # None /\ ing' = plan /\ ing # ing' /\ ~queued'
    BY <1>1, Zenon DEF IngressChange, Undisturbed, workerVars
  <2>2. ServicesDeleted(plan) /\ ~queued
    BY <1>1, <2>1 DEF IngressChange
  <2>3. ing \in Ingresses /\ plan \in Ingresses /\ DOMAIN ing = DOMAIN plan
          /\ \A p \in DOMAIN ing : ing[p] = plan[p]
    BY <2>1, <2>2 DEF Current, ServicesDeleted, IInv, Types
  <2>4. ing = plan
    BY <2>3, ConstantsAssumption
  <2>. QED
    BY <2>1, <2>4
<1>2. CASE Crash
  BY <1>2 DEF Crash, Undisturbed
<1>3. CASE SyncEnd
  BY <1>3, Zenon DEF SyncEnd, Undisturbed, inputVars
<1>4. ASSUME NodesChange \/ ReplenishPool \/ (Sync /\ ~SyncBegin /\ ~SyncEnd)
      PROVE  UNCHANGED <<ing, plan>> /\ (queued => queued')
  <2>1. CASE NodesChange \/ ReplenishPool
    BY <2>1 DEF NodesChange, ReplenishPool, inputVars, workerVars
  <2>2. CASE EnsureInstanceGroups
    BY <2>2 DEF EnsureInstanceGroups, inputVars, workerVars
  <2>3. CASE EnsureHealthCheck
    BY <2>3 DEF EnsureHealthCheck, inputVars, workerVars
  <2>4. CASE EnsureBackendService
    BY <2>4 DEF EnsureBackendService, inputVars, workerVars
  <2>5. CASE SyncLoadBalancers \/ Link \/ UpdateUrlMap
    BY <2>5 DEF SyncLoadBalancers, Link, UpdateUrlMap, inputVars, workerVars
  <2>6. CASE GCLoadBalancers \/ GCBegin \/ GCPort
    BY <2>6 DEF GCLoadBalancers, GCBegin, GCPort, inputVars, workerVars
  <2>7. CASE DeleteService \/ DeleteCheck
    BY <2>7 DEF DeleteService, DeleteCheck, inputVars, workerVars
  <2>. QED
    BY <1>4, <2>1, <2>2, <2>3, <2>4, <2>5, <2>6, <2>7, Zenon DEF Sync
<1>5. ASSUME NodesChange \/ ReplenishPool \/ (Sync /\ ~SyncBegin /\ ~SyncEnd)
      PROVE  failed => failed'
  BY <1>5, Zenon DEF NodesChange, ReplenishPool, Sync, EnsureInstanceGroups, EnsureHealthCheck,
       EnsureBackendService, SyncLoadBalancers, Link, UpdateUrlMap, GCLoadBalancers, GCBegin,
       GCPort, DeleteService, DeleteCheck, CheckpointFails, SyncFails, DeleteFails
<1>6. CASE NodesChange \/ ReplenishPool \/ (Sync /\ ~SyncBegin /\ ~SyncEnd)
  <2>1. ing' = ing /\ plan' = plan /\ (queued => queued') /\ (failed => failed')
    BY <1>4, <1>5, <1>6
  <2>. QED
    BY <2>1 DEF Undisturbed
<1>. QED
  BY <1>1, <1>2, <1>3, <1>6 DEF Next

\* The ingress changes without an event only by losing ports.
LEMMA CurrentInv == ASSUME IInv, Current, [Next]_vars PROVE Current'
<1>1. CASE IngressChange
  BY <1>1 DEF IngressChange, ServicesDeleted, Current, workerVars
<1>2. CASE Crash
  BY <1>2 DEF Crash, Current
<1>3. CASE SyncBegin
  BY <1>3 DEF SyncBegin, Current, inputVars
<1>4. CASE SyncEnd
  BY <1>4, Zenon DEF SyncEnd, Current, inputVars
<1>5. ASSUME ~IngressChange, ~Crash, ~SyncBegin, ~SyncEnd PROVE UNCHANGED <<ing, queued, plan>>
  BY <1>5 DEF Next, NodesChange, ReplenishPool, Sync, EnsureInstanceGroups, EnsureHealthCheck,
       EnsureBackendService, SyncLoadBalancers, Link, UpdateUrlMap, GCLoadBalancers, GCBegin,
       GCPort, DeleteService, DeleteCheck, vars, inputVars, workerVars
<1>. QED
  BY <1>1, <1>2, <1>3, <1>4, <1>5 DEF Current

\* The shape of backend services is kept where one of them is replaced.
LEMMA ShapedKept ==
    ASSUME IInv, Shaped, NEW p \in AllPorts, NEW b,
           be' = [be EXCEPT ![p] = b], b = None \/ ShapeOK(b)
    PROVE  Shaped'
BY DEF IInv, Types, Shaped, ShapeOK

\* Which actions replace a backend service.
LEMMA ShapedInv == ASSUME IInv, Shaped, [Next]_vars PROVE Shaped'
<1>1. CASE EnsureBackendService
  <2>. DEFINE sp == Svc(cur)
              found == IF be[cur] = None THEN Created(sp) ELSE be[cur]
              updated == Updated(found, sp)
              linked == IF sp.neg THEN updated ELSE Linked(updated, igs)
  <2>1. \/ be' \in {be, [be EXCEPT ![cur] = found], [be EXCEPT ![cur] = updated]}
        \/ be' = [be EXCEPT ![cur] = linked]
    BY <1>1, Zenon DEF EnsureBackendService
  <2>2. cur \in AllPorts /\ sp \in ServicePort /\ igs \in SUBSET IGs
    BY <1>1, SvcType DEF EnsureBackendService, IInv, WorkerInv, Types
  <2>3. found \in BackendService /\ ShapeOK(found)
    BY <2>2, CreatedType, CreatedShape DEF IInv, Types, Shaped, ShapeOK
  <2>. HIDE DEF sp, found
  <2>4. updated \in BackendService /\ ShapeOK(updated)
    BY <2>2, <2>3, UpdatedType, UpdatedFits
  <2>. HIDE DEF updated
  <2>5. ShapeOK(linked)
    BY <2>2, <2>4, LinkedFits
  <2>. HIDE DEF linked
  <2>6. CASE be' = be
    BY <2>6 DEF Shaped
  <2>. QED
    BY <2>1, <2>2, <2>3, <2>4, <2>5, <2>6, ShapedKept
<1>2. CASE Link
  <2>. DEFINE LinkedTo(p) == [be EXCEPT ![p].groups = {"neg"} \X zones, ![p].mode = "RATE"]
  <2>1. PICK p \in todo : be' = be \/ (be[p] # None /\ be' = LinkedTo(p))
    BY <1>2, Zenon DEF Link
  <2>2. CASE be' = be
    BY <2>2 DEF Shaped
  <2>3. CASE be[p] # None /\ be' = LinkedTo(p)
    <3>. DEFINE b == be[p]
                gs == {"neg"} \X zones
                new == [b EXCEPT !.groups = gs, !.mode = "RATE"]
    <3>1. p \in AllPorts /\ b \in BackendService /\ gs \subseteq NEGs /\ ShapeOK(b)
      BY <2>3 DEF IInv, Types, NEGs, Shaped, ShapeOK
    <3>2. be' = [be EXCEPT ![p] = new]
      BY <2>3, Zenon DEF IInv, Types
    <3>. HIDE DEF b, gs
    <3>3. ShapeOK(new)
      BY <3>1 DEF ShapeOK, BackendService
    <3>. HIDE DEF new
    <3>. QED
      BY <3>1, <3>2, <3>3, ShapedKept, Zenon
  <2>. QED
    BY <2>1, <2>2, <2>3
<1>3. CASE DeleteService
  <2>1. cur \in AllPorts /\ be' \in {be, [be EXCEPT ![cur] = None]}
    BY <1>3 DEF DeleteService, IInv, WorkerInv
  <2>2. CASE be' = be
    BY <2>2 DEF Shaped
  <2>. QED
    BY <2>1, <2>2, ShapedKept
<1>4. ASSUME ~EnsureBackendService, ~Link, ~DeleteService PROVE UNCHANGED be
  BY <1>4 DEF Next, Sync, IngressChange, NodesChange, Crash, ReplenishPool, SyncBegin,
              EnsureInstanceGroups, EnsureHealthCheck, SyncLoadBalancers, UpdateUrlMap,
              GCLoadBalancers, GCBegin, GCPort, DeleteCheck, SyncEnd, cloudVars, vars
<1>. QED
  BY <1>1, <1>2, <1>3, <1>4 DEF Shaped

\* Garbage collection starts from the ports that the ingress does not have.
LEMMA SparesInv == ASSUME IInv, Spares, [Next]_vars PROVE Spares'
<1>. USE DEF Spares, PlanPorts
<1>1. CASE IngressChange \/ NodesChange \/ ReplenishPool \/ UNCHANGED vars
  BY <1>1 DEF IngressChange, NodesChange, ReplenishPool, vars, workerVars
<1>2. CASE Crash \/ SyncBegin \/ SyncEnd
  BY <1>2 DEF Crash, SyncBegin, SyncEnd
<1>3. CASE EnsureInstanceGroups \/ EnsureHealthCheck \/ EnsureBackendService \/ SyncLoadBalancers
  <2>1. pc' \in {"ensure", "backend", "lb", "link", "lbgc"}
    BY <1>3 DEF EnsureInstanceGroups, EnsureHealthCheck, EnsureBackendService, SyncLoadBalancers,
         CheckpointFails, CheckpointEnds
  <2>. QED
    BY <2>1
<1>4. CASE Link \/ UpdateUrlMap
  BY <1>4, Zenon DEF Link, UpdateUrlMap, SyncFails
<1>5. CASE GCLoadBalancers
  <2>1. pc' = "gc" \/ (pc' = "service" /\ plan' = None)
    BY <1>5 DEF GCLoadBalancers
  <2>. QED
    BY <2>1
<1>6. CASE GCBegin
  BY <1>6 DEF GCBegin, Unknown
<1>7. CASE GCPort
  BY <1>7 DEF GCPort
<1>8. CASE DeleteService
  BY <1>8 DEF DeleteService, DeleteFails
<1>9. CASE DeleteCheck
  BY <1>9 DEF DeleteCheck, DeleteFails
<1>. QED
  BY <1>1, <1>2, <1>3, <1>4, <1>5, <1>6, <1>7, <1>8, <1>9 DEF Next, Sync

\* The facts about the ports of the ingress that a step does not touch.
LEMMA EnsuredKept ==
    ASSUME NEW p, NEW sp, Ensured(p, sp), be'[p] = be[p], hc'[p] = hc[p], UNCHANGED igs
    PROVE  Ensured(p, sp)'
BY DEF Ensured, CheckFits

\* An undisturbed sync has one ingress to look at.
LEMMA OneSeen == ASSUME Undisturbed PROVE Seen = {plan}
BY DEF Undisturbed, Seen

\* The environment.
LEMMA EnvironmentProgress ==
    ASSUME BInv, Undisturbed, Undisturbed',
           IngressChange \/ NodesChange \/ Crash \/ ReplenishPool
    PROVE  Reached'
<1>1. ~Crash
  BY DEF Crash, Undisturbed
<1>2. UNCHANGED <<plan, igs, be, hc, umap, pc, todo, cur>>
  BY <1>1 DEF IngressChange, NodesChange, ReplenishPool, workerVars, cloudVars
<1>. QED
  BY <1>2, ReachedKept DEF BInv, Progress

\* ensureInstanceGroups: every port of the ingress is to be ensured.
LEMMA GroupsProgress == ASSUME BInv, EnsureInstanceGroups, Undisturbed' PROVE Reached'
<1>1. pc = "groups" /\ UNCHANGED plan /\ plan' # None /\ ~failed'
  BY DEF EnsureInstanceGroups, Undisturbed
<1>2. todo' = Required /\ pc' = IF todo' = {} THEN "lb" ELSE "ensure"
  BY <1>1 DEF EnsureInstanceGroups, CheckpointFails
<1>3. Default \in todo' /\ DOMAIN plan \subseteq todo'
  BY <1>1, <1>2 DEF Required, PlanPorts
<1>4. pc' = "ensure" /\ DOMAIN plan' \ todo' = {}
  BY <1>1, <1>2, <1>3
<1>. QED
  BY <1>4 DEF Reached, Collecting

\* ensureHealthCheck: the check of the port is made to fit, the others stay.
LEMMA HealthCheckProgress ==
    ASSUME BInv, EnsureHealthCheck, Undisturbed, Undisturbed' PROVE Reached'
<1>. DEFINE With(p) == [hc EXCEPT ![p] = Synced(hc[p], Svc(p))]
<1>1. /\ pc = "ensure" /\ UNCHANGED <<plan, be, igs>> /\ ~failed' /\ Reached
  BY DEF EnsureHealthCheck, Undisturbed, BInv, Progress
<1>2. PICK p \in todo : hc' = With(p) /\ cur' = p /\ pc' = "backend" /\ todo' = todo
  <2>1. PICK p \in todo :
          \/ hc' = With(p) /\ cur' = p /\ pc' = "backend" /\ UNCHANGED <<faults, failed, todo, pool>>
          \/ CallFails /\ CheckpointFails /\ pool' = Tracked(p) /\ hc' \in {hc, With(p)}
    BY Zenon DEF EnsureHealthCheck
  <2>. QED
    BY <1>1, <2>1 DEF CheckpointFails
<1>3. p \in AllPorts /\ Svc(p) \in ServicePort /\ hc[p] \in HealthCheck \cup {None}
  BY <1>1, SvcType DEF BInv, IInv, WorkerInv, Types
<1>4. /\ hc'[p] = Synced(hc[p], Svc(p))
      /\ \A q \in AllPorts : q # p => hc'[q] = hc[q]
  BY <1>2, <1>3 DEF BInv, IInv, Types
<1>5. CheckFits(p, Svc(p))'
  <2>1. hc'[p] # None
    BY <1>3, <1>4, SyncedType, ConstantsAssumption
  <2>2. Svc(p)' = Svc(p)
    BY <1>1 DEF Svc
  <2>. QED
    BY <1>3, <1>4, <2>1, <2>2, SyncedFits DEF CheckFits
<1>6. ASSUME NEW q \in DOMAIN plan' \ todo' PROVE Ensured(q, plan[q])'
  <2>1. q \in DOMAIN plan \ todo /\ q # p /\ q \in AllPorts /\ Ensured(q, plan[q])
    BY <1>1, <1>2, <1>6, IngressType DEF Reached, BInv, IInv, Types, AllPorts, Undisturbed
  <2>2. hc'[q] = hc[q] /\ be'[q] = be[q] /\ plan'[q] = plan[q]
    BY <1>1, <1>4, <2>1
  <2>. QED
    BY <1>1, <2>1, <2>2, EnsuredKept
<1>. QED
  BY <1>2, <1>5, <1>6 DEF Reached, Collecting

\* ensureBackendService: the port is ensured, the others stay.
LEMMA BackendProgress ==
    ASSUME BInv, EnsureBackendService, Undisturbed, Undisturbed' PROVE Reached'
<1>. DEFINE p == cur
            sp == Svc(p)
            found == IF be[p] = None THEN Created(sp) ELSE be[p]
            updated == Updated(found, sp)
            linked == IF sp.neg THEN updated ELSE Linked(updated, igs)
<1>1. pc = "backend" /\ UNCHANGED <<plan, hc, igs>> /\ ~failed' /\ Reached
  BY DEF EnsureBackendService, Undisturbed, BInv, Progress
<1>2. /\ be' = [be EXCEPT ![p] = linked]
      /\ todo' = todo \ {p} /\ pc' = IF todo' = {} THEN "lb" ELSE "ensure"
  BY <1>1 DEF EnsureBackendService, CheckpointFails
<1>3. p \in Required /\ p \in AllPorts /\ sp \in ServicePort /\ CheckFits(p, sp)
  BY <1>1, SvcType DEF BInv, IInv, WorkerInv, Reached
<1>4. found \in BackendService /\ ShapeOK(found) /\ igs \in SUBSET IGs
  BY <1>3, CreatedType, CreatedShape DEF BInv, IInv, Types, Shaped, ShapeOK
<1>. HIDE DEF sp, found
<1>5. /\ updated \in BackendService /\ ShapeOK(updated)
      /\ updated.proto = sp.proto /\ updated.svc = sp.svc /\ updated.hc = "new"
  BY <1>3, <1>4, UpdatedType, UpdatedFits
<1>. HIDE DEF updated
<1>6. /\ linked \in BackendService
      /\ linked.proto = sp.proto /\ linked.svc = sp.svc /\ linked.hc = "new"
      /\ ~sp.neg /\ igs # {} => igs \subseteq linked.groups /\ linked.groups \subseteq IGs
  BY <1>4, <1>5, LinkedType, LinkedFits
<1>7. linked # None
  BY <1>6, ConstantsAssumption
<1>. HIDE DEF linked
<1>8. be'[p] = linked /\ \A q \in AllPorts : q # p => be'[q] = be[q]
  BY <1>2, <1>3 DEF BInv, IInv, Types
<1>9. ASSUME NEW q \in DOMAIN plan' \ todo' PROVE Ensured(q, plan[q])'
  <2>1. q \in AllPorts /\ plan'[q] = plan[q] /\ hc'[q] = hc[q]
    BY <1>1, <1>9, IngressType DEF BInv, IInv, Types, AllPorts, Undisturbed
  <2>2. CASE q = p
    <3>1. p # Default
      BY <1>1, <1>9, <2>2, IngressType, ConstantsAssumption DEF BInv, IInv, Types, Undisturbed
    <3>2. sp = plan'[q]
      BY <1>1, <2>2, <3>1 DEF sp, Svc
    <3>. QED
      BY <1>1, <1>3, <1>6, <1>7, <1>8, <2>2, <3>2 DEF Ensured, CheckFits
  <2>3. CASE q # p
    <3>1. Ensured(q, plan[q])
      BY <1>1, <1>2, <1>9, <2>3 DEF Reached
    <3>. QED
      BY <1>1, <1>8, <2>1, <2>3, <3>1, EnsuredKept
  <2>. QED
    BY <2>2, <2>3
<1>10. CASE todo' = {}
  BY <1>2, <1>9, <1>10 DEF Reached, Collecting
<1>11. CASE todo' # {}
  BY <1>2, <1>9, <1>11 DEF Reached, Collecting
<1>. QED
  BY <1>10, <1>11

\* Load balancers: the ports with NEGs are to be linked.
LEMMA LoadBalancersProgress ==
    ASSUME BInv, SyncLoadBalancers, Undisturbed, Undisturbed' PROVE Reached'
<1>1. /\ pc = "lb" /\ UNCHANGED <<plan, be, hc, igs>> /\ ~failed' /\ plan # None
      /\ Reached
  BY DEF SyncLoadBalancers, Undisturbed, BInv, Progress
<1>2. CheckpointEnds
  BY <1>1 DEF SyncLoadBalancers, CheckpointFails
<1>3. pc' = "link" /\ todo' = NegPorts(plan)
  BY <1>1, <1>2, OneSeen DEF CheckpointEnds
<1>4. \A q \in DOMAIN plan' : Ensured(q, plan[q])'
  BY <1>1, EnsuredKept DEF Reached
<1>5. NegPorts(plan)' = NegPorts(plan)
  BY <1>1 DEF NegPorts
<1>. QED
  BY <1>3, <1>4, <1>5 DEF Reached, Collecting

\* Link: a port with NEGs loses its instance groups, which it does not need.
LEMMA LinkProgress == ASSUME BInv, Link, Undisturbed, Undisturbed' PROVE Reached'
<1>. DEFINE LinkedTo(p) == [be EXCEPT ![p].groups = {"neg"} \X zones, ![p].mode = "RATE"]
<1>1. /\ pc = "link" /\ UNCHANGED <<plan, hc, igs, umap>> /\ ~failed' /\ Reached /\ plan \in Ingresses
  BY DEF Link, Undisturbed, BInv, Progress, IInv, Types
<1>2. PICK p \in todo : be[p] # None /\ be' = LinkedTo(p) /\ todo' = todo \ {p} /\ pc' = pc
  BY <1>1, Zenon DEF Link, SyncFails
<1>. DEFINE b == be[p]
            gs == {"neg"} \X zones
            new == [b EXCEPT !.groups = gs, !.mode = "RATE"]
<1>3. /\ p \in NegPorts(plan) /\ p \in AllPorts /\ b \in BackendService /\ gs \subseteq NEGs
  BY <1>1, <1>2 DEF BInv, IInv, Types, NEGs, Reached
<1>4. be' = [be EXCEPT ![p] = new]
  BY <1>2, Zenon DEF BInv, IInv, Types
<1>. HIDE DEF b, gs
<1>5. /\ new \in BackendService
      /\ new.proto = b.proto /\ new.svc = b.svc /\ new.hc = b.hc /\ new.groups \subseteq NEGs
  <2>1. gs \in SUBSET (IGs \cup NEGs)
    BY <1>3
  <2>. QED
    BY <1>3, <2>1, Zenon DEF BackendService
<1>. HIDE DEF new
<1>6. new # None
  BY <1>5, ConstantsAssumption
<1>7. be'[p] = new /\ \A q \in AllPorts : q # p => be'[q] = be[q]
  BY <1>3, <1>4 DEF BInv, IInv, Types
<1>8. \A q \in DOMAIN plan : q \in AllPorts
  BY <1>1, IngressType DEF AllPorts
<1>9. ASSUME NEW q \in DOMAIN plan PROVE Ensured(q, plan[q])'
  <2>1. Ensured(q, plan[q]) /\ q \in AllPorts
    BY <1>1, <1>8 DEF Reached
  <2>2. CASE q = p
    BY <1>1, <1>3, <1>5, <1>6, <1>7, <2>1, <2>2 DEF Ensured, CheckFits, NegPorts, b
  <2>3. CASE q # p
    BY <1>1, <1>7, <2>1, <2>3, EnsuredKept
  <2>. QED
    BY <2>2, <2>3
<1>10. ASSUME NEW q \in NegPorts(plan) \ todo' PROVE LinkedToNEGs(q)'
  <2>1. CASE q = p
    BY <1>5, <1>7, <2>1 DEF LinkedToNEGs
  <2>2. CASE q # p
    <3>1. q \in NegPorts(plan) \ todo /\ q \in AllPorts
      BY <1>2, <1>8, <1>10, <2>2 DEF NegPorts
    <3>. QED
      BY <1>1, <1>7, <2>2, <3>1 DEF Reached, LinkedToNEGs
  <2>. QED
    BY <2>1, <2>2
<1>11. NegPorts(plan)' = NegPorts(plan) /\ todo' \subseteq NegPorts(plan)
  BY <1>1, <1>2 DEF NegPorts, Reached
<1>. QED
  BY <1>1, <1>2, <1>9, <1>10, <1>11 DEF Reached, Collecting

\* A step of the collection that leaves the ports of the ingress alone.
LEMMA CollectingKept ==
    ASSUME Reached, pc \in Collecting, pc' \in Collecting, UNCHANGED <<plan, igs, umap>>,
           \A q \in DOMAIN plan : be'[q] = be[q] /\ hc'[q] = hc[q]
    PROVE  Reached'
<1>1. \A q \in DOMAIN plan' : Ensured(q, plan[q])'
  BY EnsuredKept DEF Reached
<1>2. \A q \in NegPorts(plan)' : LinkedToNEGs(q)'
  BY DEF Reached, NegPorts, LinkedToNEGs
<1>. QED
  BY <1>1, <1>2 DEF Reached, Collecting

\* UpdateUrlMap: the url map refers to the ports of the ingress.
LEMMA UrlMapProgress == ASSUME BInv, UpdateUrlMap, Undisturbed, Undisturbed' PROVE Reached'
<1>1. /\ pc = "link" /\ todo = {} /\ pc' = "lbgc" /\ UNCHANGED <<plan, be, hc, igs>>
      /\ ~failed' /\ Reached
  BY DEF UpdateUrlMap, Undisturbed, BInv, Progress, workerVars
<1>2. umap' = {Default} \cup DOMAIN plan
  BY <1>1, OneSeen DEF UpdateUrlMap
<1>3. \A q \in DOMAIN plan' : Ensured(q, plan[q])'
  BY <1>1, EnsuredKept DEF Reached
<1>4. \A q \in NegPorts(plan)' : LinkedToNEGs(q)'
  BY <1>1 DEF Reached, NegPorts, LinkedToNEGs
<1>. QED
  BY <1>1, <1>2, <1>3, <1>4 DEF Reached, Collecting

\* Garbage collection.
LEMMA CollectProgress ==
    ASSUME BInv, Undisturbed, Undisturbed',
           \/ GCLoadBalancers \/ GCBegin \/ GCPort \/ DeleteService \/ DeleteCheck \/ SyncEnd
    PROVE  Reached'
<1>1. Reached /\ plan # None /\ plan' # None
  BY DEF Undisturbed, BInv, Progress
<1>2. pc \in Collecting /\ pc' \in Collecting
  BY DEF GCLoadBalancers, GCBegin, GCPort, DeleteService, DeleteCheck, SyncEnd, DeleteFails,
     Collecting
<1>3. UNCHANGED <<plan, igs, umap>>
  BY <1>1 DEF GCLoadBalancers, GCBegin, GCPort, DeleteService, DeleteCheck, SyncEnd, cloudVars
<1>4. \A q \in DOMAIN plan : q \in AllPorts
  BY <1>1, IngressType DEF BInv, IInv, Types, AllPorts
<1>5. ASSUME NEW q \in DOMAIN plan PROVE be'[q] = be[q] /\ hc'[q] = hc[q]
  <2>1. CASE GCLoadBalancers \/ GCBegin \/ GCPort \/ SyncEnd
    BY <2>1 DEF GCLoadBalancers, GCBegin, GCPort, SyncEnd, cloudVars
  <2>2. CASE DeleteService
    <3>1. cur # q /\ hc' = hc /\ be' \in {be, [be EXCEPT ![cur] = None]}
      BY <1>1, <2>2 DEF DeleteService, BInv, Spares, PlanPorts
    <3>. QED
      BY <1>4, <3>1 DEF BInv, IInv, Types
  <2>3. CASE DeleteCheck
    <3>1. cur # q /\ be' = be /\ hc' \in {hc, [hc EXCEPT ![cur] = None]}
      BY <1>1, <2>3 DEF DeleteCheck, BInv, Spares, PlanPorts
    <3>. QED
      BY <1>4, <3>1 DEF BInv, IInv, Types
  <2>. QED
    BY <2>1, <2>2, <2>3
<1>. QED
  BY <1>1, <1>2, <1>3, <1>5, CollectingKept

\* Every step keeps what a sync has reached.
LEMMA ProgressInv == ASSUME BInv, [Next]_vars PROVE Progress'
<1>1. CASE UNCHANGED vars
  <2>1. UNCHANGED <<plan, igs, be, hc, umap, pc, todo, cur, queued, ing, failed>>
    BY <1>1 DEF vars, inputVars, cloudVars, workerVars
  <2>2. Undisturbed' => Undisturbed
    BY <2>1 DEF Undisturbed
  <2>. QED
    BY <2>1, <2>2, ReachedKept DEF BInv, Progress
<1>2. CASE SyncBegin
  BY <1>2 DEF SyncBegin, Progress, Reached, Collecting
<1>3. CASE Next /\ ~SyncBegin
  <2>. SUFFICES ASSUME Undisturbed' PROVE Reached'
    BY DEF Progress
  <2>1. Undisturbed
    BY <1>3, UndisturbedBefore DEF BInv
  <2>. QED
    BY <1>3, <2>1, EnvironmentProgress, GroupsProgress, HealthCheckProgress, BackendProgress,
       LoadBalancersProgress, LinkProgress, UrlMapProgress, CollectProgress DEF Next, Sync
<1>. QED
  BY <1>1, <1>2, <1>3

\* The stronger invariant holds in all behaviours.
LEMMA BackedInvariance == Spec => []BInv
<1>1. Init => BInv
  <2>. SUFFICES ASSUME Init PROVE BInv
    OBVIOUS
  <2>1. IInv
    BY InitInv
  <2>2. Current /\ Progress /\ Spares
    BY DEF Init, Current, Progress, Undisturbed, Spares
  <2>3. Shaped
    <3>. DEFINE gs == {"ig"} \X zones
                left == [Old EXCEPT !.groups = gs, !.mode = "UTILIZATION"]
    <3>1. gs \subseteq IGs
      BY ConstantsAssumption DEF Init, IGs
    <3>2. be = [p \in AllPorts |-> IF p \in legacy THEN left ELSE None]
      BY DEF Init
    <3>. HIDE DEF gs
    <3>3. left.groups \subseteq IGs /\ left.svc = Undescribed
      BY <3>1 DEF Old
    <3>. HIDE DEF left
    <3>. QED
      BY <3>2, <3>3 DEF Shaped
  <2>. QED
    BY <2>1, <2>2, <2>3 DEF BInv
<1>2. BInv /\ [Next]_vars => BInv'
  BY NextInv, ShapedInv, CurrentInv, SparesInv, ProgressInv DEF BInv
<1>. QED
  BY <1>1, <1>2, PTL DEF Spec

\* The types; and a backend service never refers to a health check that is gone, in
\* whatever order calls fail, also one that an early release has left with a legacy
\* health check.
THEOREM TypeCorrect == Spec => []TypeOK
<1>1. IInv => TypeOK
  BY TypesAre DEF IInv
<1>. QED
  BY <1>1, Invariance, PTL

\* While there is an ingress, no sync, failure, relisting or restart deletes the default
\* backend, although it gets into the pool that Backends.GC collects.
THEOREM DefaultKept == Spec => DefaultBackendKept
<1>1. ASSUME IInv, [Next]_vars
      PROVE  [plan # None /\ be[Default] # None => be'[Default] # None]_vars
  <2>1. CASE UNCHANGED vars
    BY <2>1
  <2>2. CASE EnsureBackendService \/ Link
    BY <1>1, <2>2, EnsureBackendServiceInv, LinkInv DEF AllPorts
  <2>3. CASE DeleteService
    BY <1>1, <2>3, DeleteServiceInv
  <2>4. CASE /\ Next
             /\ ~(EnsureBackendService \/ Link \/ DeleteService)
    <3>1. UNCHANGED be
      BY <2>4 DEF Next, Sync, IngressChange, NodesChange, Crash, ReplenishPool, SyncBegin,
                  EnsureInstanceGroups, EnsureHealthCheck, SyncLoadBalancers, UpdateUrlMap,
                  GCLoadBalancers, GCBegin, GCPort, DeleteCheck, SyncEnd, cloudVars
    <3>. QED
      BY <3>1
  <2>. QED
    BY <1>1, <2>1, <2>2, <2>3, <2>4
<1>. QED
  BY <1>1, Invariance, PTL DEF Spec, DefaultBackendKept

\* When a sync has ended without an error and nothing was queued since it began, every
\* port of the ingress is served as its service asks for and the url map refers to
\* exactly these: for any ingresses, ports and zones, whatever an earlier release or a
\* failed sync has left behind, and although an ingress may lose ports unnoticed.
THEOREM SuccessIsBacked == Spec => []SuccessMeansBacked
<1>1. BInv => SuccessMeansBacked
  <2>. SUFFICES ASSUME BInv, pc = "idle", ~queued, plan # None, ing = plan
                PROVE  /\ \A p \in DOMAIN plan :
                           /\ Serves(p, plan[p])
                           /\ ~plan[p].neg /\ igs # {} =>
                                 igs \subseteq be[p].groups /\ be[p].groups \subseteq IGs
                       /\ umap = DOMAIN plan \cup {Default}
    BY DEF SuccessMeansBacked
  <2>1. Reached
    BY DEF BInv, Spares, Progress, Undisturbed
  <2>2. /\ umap = DOMAIN plan \cup {Default}
        /\ \A p \in DOMAIN plan : Ensured(p, plan[p]) /\ (p \in NegPorts(plan) => LinkedToNEGs(p))
    BY <2>1 DEF Reached, Collecting
  <2>. QED
    BY <2>2 DEF Ensured, CheckFits, LinkedToNEGs, NegPorts, Serves
<1>. QED
  BY <1>1, BackedInvariance, PTL
=============================================================================
