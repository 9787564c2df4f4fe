-------------------------------- MODULE NegSync -------------------------------
(***************************************************************************)
(* sync() of one syncer (pkg/networkendpointgroup/syncer.go): make the     *)
(* NEGs of the zones that have nodes, translate the Endpoints object, list *)
(* what is attached, and attach and detach the difference in concurrent    *)
(* batches.  NegManager shows that no other goroutine works on the same    *)
(* NEG; what interferes are the stores and the deletion of a NEG by GC.    *)
(* An endpoint stands for an address that matches the target port, encoded *)
(* with its node: two endpoints with one IP on two nodes are different.    *)
(***************************************************************************)
EXTENDS Naturals, FiniteSets, FiniteSetsExt

CONSTANTS
    Zones,
    Nodes,
    Endpoints,
    ZoneOf,      \* the zone label of each node
    NodeOf,      \* the node of each endpoint
    BatchSize,   \* MAX_NETWORK_ENDPOINTS_PER_BATCH: 500 in the code
    MaxChanges,  \* bound: changes of the stores and deletions by GC
    MaxFaults    \* bound: calls that fail

ASSUME ConstantsAssumption ==
    /\ ZoneOf \in [Nodes -> Zones]
    /\ NodeOf \in [Endpoints -> Nodes]
    /\ IsFiniteSet(Endpoints)
    /\ BatchSize \in Nat \ {0}
    /\ MaxChanges \in Nat
    /\ MaxFaults \in Nat

Home == [e \in Endpoints |-> ZoneOf[NodeOf[e]]]

VARIABLES
    \* The stores.
    present,   \* the Endpoints object exists
    eps,       \* its addresses
    ready,     \* nodes that are ready
    \* The cloud.
    neg,       \* the NEG in each zone: none, one of another network, ours
    members,   \* the endpoints attached to it
    \* The running sync.
    pc,
    snap,      \* the Endpoints object it looked up
    todo,      \* zones still to visit
    todoEps,   \* endpoints still to translate
    target,    \* targetMap
    listed,    \* the zones of currentMap
    current,   \* currentMap
    adds,      \* endpoints not yet in an attach batch
    removes,   \* endpoints not yet in a detach batch
    batches,   \* operations under way
    failed,    \* an error was collected
    changes, faults

storeVars == <<present, eps, ready>>
cloudVars == <<neg, members>>
mapVars   == <<target, listed, current>>
batchVars == <<adds, removes, batches>>
vars == <<storeVars, cloudVars, pc, snap, todo, todoEps, mapVars, batchVars,
          failed, changes, faults>>

ZoneMap == [Zones -> SUBSET Endpoints]
EmptyMap == [z \in Zones |-> {}]
Batch == [op : {"attach", "detach"}, zone : Zones,
          eps : (SUBSET Endpoints) \ {{}}]

TypeOK ==
    /\ present \in BOOLEAN
    /\ eps \in SUBSET Endpoints
    /\ ready \in SUBSET Nodes
    /\ neg \in [Zones -> {"none", "other", "ours"}]
    /\ members \in ZoneMap
    /\ pc \in {"idle", "zones", "ensure", "target", "list", "batch"}
    /\ snap \in SUBSET Endpoints
    /\ todo \in SUBSET Zones
    /\ todoEps \in SUBSET Endpoints
    /\ target \in ZoneMap
    /\ listed \in SUBSET Zones
    /\ current \in ZoneMap
    /\ adds \in ZoneMap
    /\ removes \in ZoneMap
    /\ batches \in SUBSET Batch
    /\ failed \in BOOLEAN
    /\ changes \in 0..MaxChanges
    /\ faults \in 0..MaxFaults

\* A syncer that has just been started, over whatever the cloud holds.
Init ==
    /\ present \in BOOLEAN
    /\ eps \in SUBSET Endpoints
    /\ ready \in SUBSET Nodes
    /\ neg \in [Zones -> {"none", "other", "ours"}]
    /\ members \in {m \in ZoneMap : \A z \in Zones :
                        /\ \A e \in m[z] : Home[e] = z
                        /\ neg[z] = "none" => m[z] = {}}
    /\ pc = "idle" /\ snap = {} /\ todo = {} /\ todoEps = {}
    /\ target = EmptyMap /\ listed = {} /\ current = EmptyMap
    /\ adds = EmptyMap /\ removes = EmptyMap /\ batches = {}
    /\ failed = FALSE
    /\ changes = 0 /\ faults = 0

-----------------------------------------------------------------------------
\* What happens around the sync.

Change == changes < MaxChanges /\ changes' = changes + 1

EndpointsChange ==
    /\ Change
    /\ present' \in BOOLEAN
    /\ eps' \in SUBSET Endpoints
    /\ UNCHANGED <<ready, cloudVars, pc, snap, todo, todoEps, mapVars,
                   batchVars, failed, faults>>

NodesChange ==
    /\ Change
    /\ ready' \in SUBSET Nodes
    /\ UNCHANGED <<present, eps, cloudVars, pc, snap, todo, todoEps, mapVars,
                   batchVars, failed, faults>>

\* garbageCollectNEG deletes a NEG, in the race its comment describes.
GCDeletes(z) ==
    /\ Change
    /\ neg[z] # "none"
    /\ neg' = [neg EXCEPT ![z] = "none"]
    /\ members' = [members EXCEPT ![z] = {}]
    /\ UNCHANGED <<storeVars, pc, snap, todo, todoEps, mapVars, batchVars,
                   failed, faults>>

-----------------------------------------------------------------------------
\* The sync.

CallFails == faults < MaxFaults /\ faults' = faults + 1

\* ListZones: the zones of the nodes that are ready.
ListZones == {ZoneOf[n] : n \in ready}

\* Without an Endpoints object sync() returns nil at once.
SyncSkip ==
    /\ pc = "idle"
    /\ ~present
    /\ UNCHANGED vars

SyncBegin ==
    /\ pc = "idle"
    /\ present
    /\ pc' = "zones"
    /\ snap' = eps
    /\ failed' = FALSE
    /\ target' = EmptyMap /\ listed' = {} /\ current' = EmptyMap
    /\ UNCHANGED <<storeVars, cloudVars, todo, todoEps, batchVars, changes,
                   faults>>

EnsureBegin ==
    /\ pc = "zones"
    /\ pc' = "ensure"
    /\ todo' = ListZones
    /\ UNCHANGED <<storeVars, cloudVars, snap, todoEps, mapVars, batchVars,
                   failed, changes, faults>>

\* Mutant: the network of an existing NEG is not compared.
EnsureZoneKeepsNetwork(z) ==
    /\ pc = "ensure"
    /\ z \in todo
    /\ todo' = todo \ {z}
    /\ \/ neg[z] # "none" /\ UNCHANGED <<cloudVars, failed, faults>>
       \/ /\ neg[z] = "none"
          /\ neg' = [neg EXCEPT ![z] = "ours"]
          /\ members' = [members EXCEPT ![z] = {}]
          /\ UNCHANGED <<failed, faults>>
       \/ CallFails /\ failed' = TRUE /\ UNCHANGED cloudVars
       \/ /\ neg[z] = "none"
          /\ CallFails
          /\ failed' = TRUE
          /\ \E left \in {"none", "ours"} : neg' = [neg EXCEPT ![z] = left]
          /\ members' = [members EXCEPT ![z] = {}]
    /\ UNCHANGED <<storeVars, pc, snap, todoEps, mapVars, batchVars, changes>>

\* One round of ensureNetworkEndpointGroups: any error of Get is taken for a
\* NEG that does not exist, and its creation then fails when there is one; a
\* NEG of another network is deleted, and created anew whether or not the
\* deletion succeeded.  A call that fails may have had its effect or not.
EnsureZone(z) ==
    /\ pc = "ensure"
    /\ z \in todo
    /\ todo' = todo \ {z}
    /\ \/ neg[z] = "ours" /\ UNCHANGED <<cloudVars, failed, faults>>
       \/ /\ neg[z] # "ours"
          /\ neg' = [neg EXCEPT ![z] = "ours"]
          /\ members' = [members EXCEPT ![z] = {}]
          /\ UNCHANGED <<failed, faults>>
       \/ CallFails /\ failed' = TRUE /\ UNCHANGED cloudVars
       \/ /\ neg[z] # "ours"
          /\ CallFails
          /\ failed' = TRUE
          /\ \E left \in {"none", "ours"} : neg' = [neg EXCEPT ![z] = left]
          /\ members' = [members EXCEPT ![z] = {}]
    /\ UNCHANGED <<storeVars, pc, snap, todoEps, mapVars, batchVars, changes>>

EnsureEnd ==
    /\ pc = "ensure"
    /\ todo = {}
    /\ IF failed THEN pc' = "idle" /\ UNCHANGED todoEps
                 ELSE pc' = "target" /\ todoEps' = snap
    /\ UNCHANGED <<storeVars, cloudVars, snap, todo, mapVars, batchVars,
                   failed, changes, faults>>

SyncFails ==
    /\ pc' = "idle"
    /\ failed' = TRUE
    /\ todo' = {} /\ todoEps' = {}

\* Mutant: an address on a node that is not ready is skipped.
TranslateSkips(e) ==
    /\ pc = "target"
    /\ e \in todoEps
    /\ \/ /\ NodeOf[e] \in ready
          /\ todoEps' = todoEps \ {e}
          /\ target' = [target EXCEPT ![Home[e]] = @ \cup {e}]
          /\ UNCHANGED <<pc, todo, failed>>
       \/ /\ NodeOf[e] \notin ready
          /\ todoEps' = todoEps \ {e}
          /\ UNCHANGED <<pc, todo, failed, target>>
    /\ UNCHANGED <<storeVars, cloudVars, snap, listed, current, batchVars,
                   changes, faults>>

\* One round of toZoneNetworkEndpointMap: a node that is not ready ends it.
Translate(e) ==
    /\ pc = "target"
    /\ e \in todoEps
    /\ \/ /\ NodeOf[e] \in ready
          /\ todoEps' = todoEps \ {e}
          /\ target' = [target EXCEPT ![Home[e]] = @ \cup {e}]
          /\ UNCHANGED <<pc, todo, failed>>
       \/ NodeOf[e] \notin ready /\ SyncFails /\ UNCHANGED target
    /\ UNCHANGED <<storeVars, cloudVars, snap, listed, current, batchVars,
                   changes, faults>>

\* retrieveExistingZoneNetworkEndpointMap asks for the zones again.
ListBegin ==
    /\ pc = "target"
    /\ todoEps = {}
    /\ pc' = "list"
    /\ todo' = ListZones
    /\ listed' = ListZones
    /\ UNCHANGED <<storeVars, cloudVars, snap, todoEps, target, current,
                   batchVars, failed, changes, faults>>

ListZone(z) ==
    /\ pc = "list"
    /\ z \in todo
    /\ \/ /\ neg[z] # "none"
          /\ current' = [current EXCEPT ![z] = members[z]]
          /\ todo' = todo \ {z}
          /\ UNCHANGED <<pc, todoEps, failed, faults>>
       \/ neg[z] = "none" /\ SyncFails /\ UNCHANGED <<current, faults>>
       \/ CallFails /\ SyncFails /\ UNCHANGED current
    /\ UNCHANGED <<storeVars, cloudVars, snap, target, listed, batchVars,
                   changes>>

\* calculateDifference; without a difference sync() returns nil, as the
\* batches would.
Difference ==
    /\ pc = "list"
    /\ todo = {}
    /\ pc' = "batch"
    /\ adds' = [z \in Zones |-> target[z] \ current[z]]
    /\ removes' = [z \in Zones |-> current[z] \ target[z]]
    /\ UNCHANGED <<storeVars, cloudVars, snap, todo, todoEps, mapVars, batches,
                   failed, changes, faults>>

\* toNetworkEndpointBatch: as many as fit, in no particular order.
BatchesOf(set) == kSubset(Min({Cardinality(set), BatchSize}), set)

\* syncNetworkEndpoints: a goroutine for every detach batch ...
SpawnDetach(z) ==
    /\ pc = "batch"
    /\ removes[z] # {}
    /\ \E b \in BatchesOf(removes[z]) :
           /\ removes' = [removes EXCEPT ![z] = @ \ b]
           /\ batches' = batches \cup {[op |-> "detach", zone |-> z, eps |-> b]}
    /\ UNCHANGED <<storeVars, cloudVars, pc, snap, todo, todoEps, mapVars,
                   adds, failed, changes, faults>>

\* ... then one for every attach batch, while the others run.
SpawnAttach(z) ==
    /\ pc = "batch"
    /\ removes = EmptyMap
    /\ adds[z] # {}
    /\ \E b \in BatchesOf(adds[z]) :
           /\ adds' = [adds EXCEPT ![z] = @ \ b]
           /\ batches' = batches \cup {[op |-> "attach", zone |-> z, eps |-> b]}
    /\ UNCHANGED <<storeVars, cloudVars, pc, snap, todo, todoEps, mapVars,
                   removes, failed, changes, faults>>

\* The effect of an operation on the endpoints of its NEG.
Apply(b) ==
    members' = [members EXCEPT ![b.zone] =
                   IF b.op = "attach" THEN @ \cup b.eps ELSE @ \ b.eps]

\* Mutant: the error of an operation is not collected.
BatchEndsErrorLost(b) ==
    /\ b \in batches
    /\ batches' = batches \ {b}
    /\ \/ neg[b.zone] # "none" /\ Apply(b) /\ UNCHANGED <<failed, faults>>
       \/ neg[b.zone] # "none" /\ Apply(b) /\ CallFails /\ UNCHANGED failed
       \/ neg[b.zone] # "none" /\ CallFails /\ UNCHANGED failed /\ UNCHANGED members
       \/ neg[b.zone] = "none" /\ UNCHANGED failed /\ UNCHANGED <<members, faults>>
    /\ UNCHANGED <<storeVars, neg, pc, snap, todo, todoEps, mapVars, adds,
                   removes, changes>>

\* operationInternal: a call that fails may have had its effect or not.
BatchEnds(b) ==
    /\ b \in batches
    /\ batches' = batches \ {b}
    /\ \/ neg[b.zone] # "none" /\ Apply(b) /\ UNCHANGED <<failed, faults>>
       \/ neg[b.zone] # "none" /\ Apply(b) /\ CallFails /\ failed' = TRUE
       \/ neg[b.zone] # "none" /\ CallFails /\ failed' = TRUE /\ UNCHANGED members
       \/ neg[b.zone] = "none" /\ failed' = TRUE /\ UNCHANGED <<members, faults>>
    /\ UNCHANGED <<storeVars, neg, pc, snap, todo, todoEps, mapVars, adds,
                   removes, changes>>

\* Mutant: no wg.Wait.
SyncEndNoWait ==
    /\ pc = "batch"
    /\ adds = EmptyMap /\ removes = EmptyMap
    /\ pc' = "idle"
    /\ UNCHANGED <<storeVars, cloudVars, snap, todo, todoEps, mapVars,
                   batchVars, failed, changes, faults>>

\* wg.Wait: sync() returns when the last operation has ended.
SyncEnd ==
    /\ pc = "batch"
    /\ adds = EmptyMap /\ removes = EmptyMap /\ batches = {}
    /\ pc' = "idle"
    /\ UNCHANGED <<storeVars, cloudVars, snap, todo, todoEps, mapVars,
                   batchVars, failed, changes, faults>>

-----------------------------------------------------------------------------

Environment == EndpointsChange \/ NodesChange \/ \E z \in Zones : GCDeletes(z)

Sync ==
    \/ SyncSkip \/ SyncBegin \/ EnsureBegin \/ EnsureEnd \/ ListBegin
    \/ Difference \/ SyncEnd
    \/ \E z \in Zones :
           EnsureZone(z) \/ ListZone(z) \/ SpawnDetach(z) \/ SpawnAttach(z)
    \/ \E e \in Endpoints : Translate(e)
    \/ \E b \in batches : BatchEnds(b)

Next == Environment \/ Sync

Spec == Init /\ [][Next]_vars

\* The goroutines of a sync run to their end, cloud calls return, and the
\* resync of the Endpoints informer signals the syncer again and again.
FairSpec == Spec /\ WF_vars(Sync)

-----------------------------------------------------------------------------
\* Properties.

\* The part of a set of endpoints that belongs in the NEG of a zone.
In(z, set) == {e \in set : Home[e] = z}

\* The operations that run side by side in syncNetworkEndpoints, with what is
\* still to be handed out, never touch one endpoint twice: no attach races a
\* detach of the same endpoint, in whatever order the goroutines run.  None
\* outlives its sync, and none exceeds the limit of the API.
OperationsApart ==
    /\ pc # "batch" => batches = {}
    /\ \A b, c \in batches : b.zone = c.zone /\ b # c => b.eps \cap c.eps = {}
    /\ \A b \in batches :
           /\ b.eps \cap (adds[b.zone] \cup removes[b.zone]) = {}
           /\ Cardinality(b.eps) \in 1..BatchSize

\* When syncNetworkEndpoints is about to return nil, the NEG of every zone
\* that was listed holds exactly the endpoints of the object sync() looked up
\* that live there, and any other NEG holds at least those, unless it has
\* been deleted meanwhile: whatever nodes came and went on the way, and in
\* whatever order the operations ended.
SuccessMeansInSync ==
    (pc = "batch" /\ adds = EmptyMap /\ removes = EmptyMap /\ batches = {}
        /\ ~failed) =>
    \A z \in Zones : neg[z] # "none" =>
        /\ In(z, snap) \subseteq members[z]
        /\ z \in listed => members[z] = In(z, snap)

\* The syncer keeps the promise of NegMembers, the plan being the endpoints
\* sync() looked up last: no operation of an earlier sync works for an older
\* plan, and a node that becomes unready never gets its endpoints detached.
Members == INSTANCE NegMembers WITH plan <- snap
MembersSpec == Members!Spec

\* The endpoints can be translated: their nodes are all ready.
Translatable == present /\ \A e \in eps : NodeOf[e] \in ready

\* When the stores stop changing and calls stop failing, the zones with ready
\* nodes get NEGs of the right network that hold the endpoints, whatever was
\* there before and whatever failed on the way.
EventuallyInSync ==
    <>[](Translatable => \A z \in ListZones :
             neg[z] = "ours" /\ members[z] = In(z, eps))
=============================================================================
