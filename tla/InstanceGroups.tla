---------------------------- MODULE InstanceGroups ----------------------------
(***************************************************************************)
(* The instance groups of the cluster (pkg/instances): one group in each   *)
(* zone, with the named ports of the ingresses and the nodes as members.   *)
(* Two goroutines change them from node lists they have read earlier: the  *)
(* ingress worker, which also creates and deletes the groups, and the node *)
(* worker (pkg/controller, syncNodes).  The named ports are those of the   *)
(* one ingress; everything else of a sync is left to the other modules.    *)
(***************************************************************************)
EXTENDS Naturals, FiniteSets

CONSTANTS
    Nodes, Zones,
    ZoneOf,        \* the zone label of each node
    StartNodes,    \* bound: the sets of nodes that are ready at the start
    Ports,
    None,
    MaxChanges,    \* bound: changes of nodes and of the ingress
    MaxFaults,     \* bound: calls that fail
    MaxCrashes     \* bound: restarts of the process

ASSUME ConstantsAssumption ==
    /\ ZoneOf \in [Nodes -> Zones]
    /\ StartNodes \subseteq SUBSET Nodes
    /\ \A s \in SUBSET Ports : s # None
    /\ MaxChanges \in Nat /\ MaxFaults \in Nat /\ MaxCrashes \in Nat

Workers == {"ingress", "node"}
NodeStates == {"ready", "cordoned", "unready", "gone"}
InstanceGroup == [ports : SUBSET Ports, members : SUBSET Nodes]

VARIABLES
    node,     \* the nodes in the store of the informer
    ing,      \* the ports the ingress refers to, or None
    queued,   \* for each worker, whether its queue has a key
    group,    \* the instance groups in the cloud
    pooled,   \* the name of the groups is in the pool
    pc,       \* for each worker, its next step
    names,    \* for each worker, the nodes it has read
    removes, adds,   \* for each worker, the difference it has computed
    failed,   \* for each worker, whether its sync has met an error
    plan,     \* the ports the ingress worker has read, or None
    todo,     \* the zones the ingress worker has yet to deal with
    changes, faults, crashes

syncVars == <<names, removes, adds>>
budgetVars == <<changes, faults, crashes>>
vars == <<node, ing, queued, group, pooled, pc, syncVars, failed, plan, todo, budgetVars>>

Init ==
    /\ \E ready \in StartNodes : node = [n \in Nodes |-> IF n \in ready THEN "ready" ELSE "gone"]
    /\ ing \in SUBSET Ports
    /\ queued = [w \in Workers |-> TRUE]
    /\ group = [z \in Zones |-> None]
    /\ pooled = FALSE
    /\ pc = [w \in Workers |-> "idle"]
    /\ names = [w \in Workers |-> {}]
    /\ removes = [w \in Workers |-> {}] /\ adds = [w \in Workers |-> {}]
    /\ failed = [w \in Workers |-> FALSE]
    /\ plan = None /\ todo = {}
    /\ changes = 0 /\ faults = 0 /\ crashes = 0

\* getReadyNodeNames: nodes that are ready and schedulable.
ReadyNodeNames == {n \in Nodes : node[n] = "ready"}

\* The nodes GetZoneForNode and ListZones look at: also those that are cordoned.
KnownNodes == {n \in Nodes : node[n] \in {"ready", "cordoned"}}
ListZones == {ZoneOf[n] : n \in KnownNodes}

-------------------------------------------------------------------------------
(* The environment. *)

\* Nodes that are added or deleted are queued; there is no handler for updates.
NodeChange ==
    /\ changes < MaxChanges
    /\ \E n \in Nodes, s \in NodeStates :
        /\ s # node[n]
        /\ node' = [node EXCEPT ![n] = s]
        /\ queued' = [queued EXCEPT !["node"] = @ \/ "gone" \in {s, node[n]}]
    /\ changes' = changes + 1
    /\ UNCHANGED <<ing, group, pooled, pc, syncVars, failed, plan, todo, faults, crashes>>

IngressChange ==
    /\ changes < MaxChanges
    /\ \E i \in ((SUBSET Ports) \cup {None}) \ {ing} : ing' = i
    /\ queued' = [queued EXCEPT !["ingress"] = TRUE]
    /\ changes' = changes + 1
    /\ UNCHANGED <<node, group, pooled, pc, syncVars, failed, plan, todo, faults, crashes>>

\* The pool is in memory; a new process gets an event for everything there is.
Crash ==
    /\ crashes < MaxCrashes
    /\ crashes' = crashes + 1
    /\ queued' = [w \in Workers |-> IF w = "ingress" THEN ing # None
                                    ELSE \E n \in Nodes : node[n] # "gone"]
    /\ pooled' = FALSE
    /\ pc' = [w \in Workers |-> "idle"]
    /\ names' = [w \in Workers |-> {}]
    /\ removes' = [w \in Workers |-> {}] /\ adds' = [w \in Workers |-> {}]
    /\ failed' = [w \in Workers |-> FALSE]
    /\ plan' = None /\ todo' = {}
    /\ UNCHANGED <<node, ing, group, changes, faults>>

CallFails == faults < MaxFaults /\ faults' = faults + 1

-------------------------------------------------------------------------------
(* The beginning of a sync. *)

Goes(w, to) == pc' = [pc EXCEPT ![w] = to]
Fails(w) == failed' = [failed EXCEPT ![w] = TRUE]

\* An ingress that exists is also queued at every resync.
IngressSyncBegin ==
    /\ pc["ingress"] = "idle"
    /\ queued["ingress"] \/ ing # None
    /\ queued' = [queued EXCEPT !["ingress"] = FALSE]
    /\ plan' = ing
    /\ names' = [names EXCEPT !["ingress"] = ReadyNodeNames]
    /\ Goes("ingress", "zones")
    /\ UNCHANGED <<node, ing, group, pooled, removes, adds, failed, todo, budgetVars>>

\* syncNodes.
NodeSyncBegin ==
    /\ pc["node"] = "idle" /\ queued["node"]
    /\ queued' = [queued EXCEPT !["node"] = FALSE]
    /\ names' = [names EXCEPT !["node"] = ReadyNodeNames]
    /\ Goes("node", "list")
    /\ UNCHANGED <<node, ing, group, pooled, removes, adds, failed, plan, todo, budgetVars>>

-------------------------------------------------------------------------------
(* EnsureInstanceGroupsAndPorts, by the ingress worker. *)

EnsureBegin ==
    /\ pc["ingress"] = "zones"
    /\ todo' = ListZones
    /\ Goes("ingress", "ensure")
    /\ UNCHANGED <<node, ing, queued, group, pooled, syncVars, failed, plan, budgetVars>>

PlanPorts == IF plan = None THEN {} ELSE plan

\* The group as ensureInstanceGroupAndPorts leaves it; one that another
\* controller has made in the meantime is taken as it is.
Ensured(g) ==
    IF g = None THEN [ports |-> PlanPorts, members |-> {}]
    ELSE [g EXCEPT !.ports = @ \cup PlanPorts]

\* Mutant: the name is put into the pool after the loop.
EnsureFailsUnpooled ==
    Fails("ingress") /\ Goes("ingress", "gc") /\ todo' = {} /\ UNCHANGED pooled

EnsureFails ==
    Fails("ingress") /\ Goes("ingress", "gc") /\ todo' = {} /\ pooled' = TRUE

\* Get puts the name into the pool if it finds a group; it is put there in any
\* case when the call ends.
EnsureInstanceGroup ==
    /\ pc["ingress"] = "ensure"
    /\ \E z \in todo :
        LET ensured == [group EXCEPT ![z] = Ensured(@)]
            created == IF group[z] = None THEN [group EXCEPT ![z] = [ports |-> {}, members |-> {}]] ELSE group
        IN  \/ /\ group' = ensured /\ todo' = todo \ {z} /\ pooled' = (pooled \/ group[z] # None)
               /\ UNCHANGED <<pc, failed, faults>>
            \/ CallFails /\ group' \in {group, created, ensured} /\ EnsureFails
    /\ UNCHANGED <<node, ing, queued, syncVars, plan, changes, crashes>>

\* The backends are ensured before the nodes are synced; an error ends the checkpoint.
EnsureEnd ==
    /\ pc["ingress"] = "ensure" /\ todo = {}
    /\ \/ Goes("ingress", "list") /\ pooled' = TRUE /\ UNCHANGED <<failed, todo, faults>>
       \/ CallFails /\ EnsureFails
    /\ UNCHANGED <<node, ing, queued, group, syncVars, plan, changes, crashes>>

-------------------------------------------------------------------------------
(* Sync, by either worker. *)

After(w) == IF w = "ingress" THEN "gc" ELSE "end"

RemoveNodes(gceNodes, kubeNodes) == gceNodes \ kubeNodes

\* Mutant: the difference the other way round.
AddNodesSwapped(gceNodes, kubeNodes) == gceNodes \ kubeNodes

AddNodes(gceNodes, kubeNodes) == kubeNodes \ gceNodes

\* A zone with nodes but without a group ends the sync, without an error.
List(w) ==
    /\ pc[w] = "list"
    /\ LET zones == ListZones
           members == UNION {group[z].members : z \in zones}
           found == \A z \in zones : group[z] # None
       IN  \/ /\ pooled /\ found
              /\ removes' = [removes EXCEPT ![w] = RemoveNodes(members, names[w])]
              /\ adds' = [adds EXCEPT ![w] = AddNodes(members, names[w])]
              /\ Goes(w, "remove")
              /\ UNCHANGED <<failed, faults>>
           \/ ~(pooled /\ found) /\ Goes(w, After(w)) /\ UNCHANGED <<removes, adds, failed, faults>>
           \/ pooled /\ CallFails /\ Fails(w) /\ Goes(w, After(w)) /\ UNCHANGED <<removes, adds>>
    /\ names' = [names EXCEPT ![w] = {}]
    /\ UNCHANGED <<node, ing, queued, group, pooled, plan, todo, changes, crashes>>

\* splitNodesByZone: nodes whose zone is not found are skipped.
Split(ns, z) == {n \in ns \cap KnownNodes : ZoneOf[n] = z}

\* The cloud takes a call for a zone if the group is there and the nodes are
\* (to be removed) or are not yet (to be added) its members.
Accepts(z, ns, member) ==
    group[z] # None /\ \A n \in ns : (n \in group[z].members) = member

\* Removing nodes that are members or adding nodes that are not:
\* one call for each zone that has nodes to be changed; the others are made
\* although one fails.
Call(w, ns, member, next) ==
    LET asked == {z \in Zones : Split(ns, z) # {}}
        taken == {z \in asked : Accepts(z, Split(ns, z), member)}
        Changed(z) == IF member THEN group[z].members \ Split(ns, z) ELSE group[z].members \cup Split(ns, z)
        Effect(zs) == [z \in Zones |->
                         IF z \in zs THEN [group[z] EXCEPT !.members = Changed(z)] ELSE group[z]]
    IN  \/ taken = asked /\ group' = Effect(asked) /\ Goes(w, next) /\ UNCHANGED <<failed, faults>>
        \/ taken # asked /\ group' = Effect(taken) /\ Fails(w) /\ Goes(w, After(w)) /\ UNCHANGED faults
        \/ /\ asked # {} /\ CallFails /\ Fails(w) /\ Goes(w, After(w))
           /\ \E zs \in SUBSET taken : group' = Effect(zs)

Remove(w) ==
    /\ pc[w] = "remove"
    /\ Call(w, removes[w], TRUE, "add")
    /\ removes' = [removes EXCEPT ![w] = {}]
    /\ UNCHANGED <<node, ing, queued, pooled, names, adds, plan, todo, changes, crashes>>

Add(w) ==
    /\ pc[w] = "add"
    /\ Call(w, adds[w], FALSE, After(w))
    /\ adds' = [adds EXCEPT ![w] = {}]
    /\ UNCHANGED <<node, ing, queued, pooled, names, removes, plan, todo, changes, crashes>>

-------------------------------------------------------------------------------
(* The end of a sync. *)

\* GC deletes the groups when there is no ingress.  It is not reached when load
\* balancers or backends cannot be deleted.
GCBegin ==
    /\ pc["ingress"] = "gc"
    /\ \/ plan # None /\ Goes("ingress", "end") /\ UNCHANGED <<todo, failed, faults>>
       \/ plan = None /\ Goes("ingress", "delete") /\ todo' = ListZones /\ UNCHANGED <<failed, faults>>
       \/ CallFails /\ Fails("ingress") /\ Goes("ingress", "end") /\ UNCHANGED todo
    /\ UNCHANGED <<node, ing, queued, group, pooled, syncVars, plan, changes, crashes>>

\* That a group is in use is no error, any other refusal is.
DeleteInstanceGroup ==
    /\ pc["ingress"] = "delete"
    /\ \E z \in todo :
        /\ todo' = todo \ {z}
        /\ \/ group' = [group EXCEPT ![z] = None] /\ UNCHANGED <<failed, faults>>
           \/ CallFails /\ group' \in {group, [group EXCEPT ![z] = None]} /\ Fails("ingress")
           \/ CallFails /\ UNCHANGED <<group, failed>>
    /\ UNCHANGED <<node, ing, queued, pooled, pc, syncVars, plan, changes, crashes>>

DeleteEnd ==
    /\ pc["ingress"] = "delete" /\ todo = {}
    /\ pooled' = FALSE
    /\ Goes("ingress", "end")
    /\ UNCHANGED <<node, ing, queued, group, syncVars, failed, plan, todo, budgetVars>>

\* A sync that has failed is put into the queue again.
SyncEnd(w) ==
    /\ pc[w] = "end"
    /\ queued' = [queued EXCEPT ![w] = @ \/ failed[w]]
    /\ failed' = [failed EXCEPT ![w] = FALSE]
    /\ removes' = [removes EXCEPT ![w] = {}] /\ adds' = [adds EXCEPT ![w] = {}]
    /\ names' = [names EXCEPT ![w] = {}]
    /\ plan' = IF w = "ingress" THEN None ELSE plan
    /\ Goes(w, "idle")
    /\ UNCHANGED <<node, ing, group, pooled, todo, budgetVars>>

-------------------------------------------------------------------------------

SyncPool(w) == List(w) \/ Remove(w) \/ Add(w) \/ SyncEnd(w)

IngressWorker ==
    \/ IngressSyncBegin \/ EnsureBegin \/ EnsureInstanceGroup \/ EnsureEnd
    \/ SyncPool("ingress") \/ GCBegin \/ DeleteInstanceGroup \/ DeleteEnd

NodeWorker == NodeSyncBegin \/ SyncPool("node")

Next == NodeChange \/ IngressChange \/ Crash \/ IngressWorker \/ NodeWorker

Spec == Init /\ [][Next]_vars

\* Neither worker blocks.
FairSpec == Spec /\ WF_vars(IngressWorker) /\ WF_vars(NodeWorker)

-------------------------------------------------------------------------------

\* The variables have their types; the node worker never creates or deletes groups,
\* and a node is a member of the group of its own zone only, also if two workers
\* add and remove nodes at the same time.
TypeOK ==
    /\ node \in [Nodes -> NodeStates]
    /\ ing = None \/ ing \subseteq Ports
    /\ plan = None \/ plan \subseteq Ports
    /\ queued \in [Workers -> BOOLEAN] /\ failed \in [Workers -> BOOLEAN]
    /\ group \in [Zones -> InstanceGroup \cup {None}]
    /\ \A z \in Zones : group[z] # None => \A n \in group[z].members : ZoneOf[n] = z
    /\ pooled \in BOOLEAN
    /\ pc \in [Workers -> {"idle", "zones", "ensure", "list", "remove", "add", "gc", "delete", "end"}]
    /\ pc["node"] \in {"idle", "list", "remove", "add", "end"}
    /\ names \in [Workers -> SUBSET Nodes]
    /\ removes \in [Workers -> SUBSET Nodes] /\ adds \in [Workers -> SUBSET Nodes]
    /\ todo \subseteq Zones
    /\ changes \in 0..MaxChanges /\ faults \in 0..MaxFaults /\ crashes \in 0..MaxCrashes

\* Whatever has failed, a group that the ingress worker has made for an ingress is
\* in the pool when its sync ends, so that the node worker will find it.
UsedGroupsArePooled ==
    pc["ingress"] \in {"gc", "end"} /\ plan # None => pooled

\* While there is an ingress, every node that stays ready ends up in the group of
\* its zone, which has the named ports of the ingress, and a node that stays
\* cordoned leaves its group, although a worker with an older list may have added
\* or removed it again.
MembersFollowNodes ==
    <>[](ing # None =>
            /\ \A n \in ReadyNodeNames :
                  /\ group[ZoneOf[n]] # None
                  /\ n \in group[ZoneOf[n]].members
                  /\ ing \subseteq group[ZoneOf[n]].ports
            /\ \A n \in Nodes : node[n] = "cordoned" /\ group[ZoneOf[n]] # None =>
                  n \notin group[ZoneOf[n]].members)

\* instances.go, Sync: "A node deleted via kubernetes could still exist as a gce
\* vm.  We don't want to route requests to it."
DeletedNodesLeave ==
    <>[](ing # None =>
            \A n \in Nodes : node[n] = "gone" /\ group[ZoneOf[n]] # None =>
                n \notin group[ZoneOf[n]].members)

===============================================================================
