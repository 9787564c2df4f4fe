------------------------- MODULE InstanceGroupsProofs -------------------------
(***************************************************************************)
(* Two workers change the instance groups at the same time: the types,     *)
(* that no node gets into the group of another zone, and that the groups   *)
(* an ingress uses are in the pool, for any nodes, zones and faults.       *)
(***************************************************************************)
EXTENDS InstanceGroups, TLAPS

Steps == {"idle", "zones", "ensure", "list", "remove", "add", "gc", "delete", "end"}
NodeSteps == {"idle", "list", "remove", "add", "end"}

\* The group of a zone, if there is one, has nodes of that zone only.
OwnNodes(g, z) ==
    g \in InstanceGroup \cup {None} /\ (g # None => \A n \in g.members : ZoneOf[n] = z)

\* From the end of EnsureInstanceGroupsAndPorts to the deletion of the groups, their
\* name is in the pool; the groups are deleted only in a sync that has found no
\* ingress.
PoolInv ==
    /\ pc["ingress"] \in {"list", "remove", "add", "gc"} => pooled
    /\ pc["ingress"] = "end" /\ plan # None => pooled
    /\ pc["ingress"] = "delete" => plan = None

IInv == TypeOK /\ PoolInv

-----------------------------------------------------------------------------
\* Steps of a worker stay steps of that worker.
LEMMA GoesType ==
    ASSUME TypeOK, NEW w \in Workers, NEW to \in Steps, w = "node" => to \in NodeSteps,
           Goes(w, to)
    PROVE  pc' \in [Workers -> Steps] /\ pc'["node"] \in NodeSteps
BY DEF TypeOK, Goes, Workers, Steps, NodeSteps

\* A failed call is counted, up to the bound.
LEMMA CallFailsType == ASSUME TypeOK, CallFails PROVE faults' \in 0..MaxFaults
BY ConstantsAssumption DEF TypeOK, CallFails

\* The zones the translator lists are zones.
LEMMA ListZonesType == ListZones \in SUBSET Zones
BY ConstantsAssumption DEF ListZones, KnownNodes

\* The initial states satisfy the invariant.
LEMMA InitInv == Init => IInv
<1>. SUFFICES ASSUME Init PROVE IInv
  OBVIOUS
<1>1. TypeOK
  <2>1. node \in [Nodes -> NodeStates]
    BY DEF Init, NodeStates
  <2>2. (ing = None \/ ing \subseteq Ports) /\ (plan = None \/ plan \subseteq Ports)
    BY DEF Init
  <2>3. queued \in [Workers -> BOOLEAN] /\ failed \in [Workers -> BOOLEAN] /\ pooled \in BOOLEAN
    BY Zenon DEF Init
  <2>4. /\ group \in [Zones -> InstanceGroup \cup {None}]
        /\ \A z \in Zones : group[z] = None
    BY DEF Init
  <2>5. pc \in [Workers -> Steps] /\ pc["node"] \in NodeSteps
    BY DEF Init, Workers, Steps, NodeSteps
  <2>6. names \in [Workers -> SUBSET Nodes] /\ removes \in [Workers -> SUBSET Nodes]
          /\ adds \in [Workers -> SUBSET Nodes] /\ todo \subseteq Zones
    BY DEF Init
  <2>7. changes \in 0..MaxChanges /\ faults \in 0..MaxFaults /\ crashes \in 0..MaxCrashes
    BY ConstantsAssumption DEF Init
  <2>. QED
    BY <2>1, <2>2, <2>3, <2>4, <2>5, <2>6, <2>7 DEF TypeOK, Steps, NodeSteps
<1>2. PoolInv
  BY DEF Init, PoolInv, Workers
<1>. QED
  BY <1>1, <1>2 DEF IInv

\* Changes of nodes and of the ingress, and restarts.
LEMMA EnvironmentInv == ASSUME IInv, NodeChange \/ IngressChange \/ Crash PROVE IInv'
<1>. USE ConstantsAssumption DEF IInv
<1>1. CASE NodeChange
  <2>1. TypeOK'
    BY <1>1 DEF NodeChange, TypeOK, Workers, syncVars
  <2>2. PoolInv'
    BY <1>1 DEF NodeChange, PoolInv
  <2>. QED
    BY <2>1, <2>2
<1>2. CASE IngressChange
  <2>1. TypeOK'
    BY <1>2 DEF IngressChange, TypeOK, Workers, syncVars
  <2>2. PoolInv'
    BY <1>2 DEF IngressChange, PoolInv
  <2>. QED
    BY <2>1, <2>2
<1>3. CASE Crash
  <2>1. TypeOK'
    <3>1. queued' \in [Workers -> BOOLEAN]
      BY <1>3, Zenon DEF Crash
    <3>2. pc' \in [Workers -> Steps] /\ pc'["node"] \in NodeSteps
      BY <1>3 DEF Crash, Workers, Steps, NodeSteps
    <3>3. failed' \in [Workers -> BOOLEAN] /\ pooled' \in BOOLEAN
      BY <1>3, Zenon DEF Crash
    <3>4. names' \in [Workers -> SUBSET Nodes] /\ removes' \in [Workers -> SUBSET Nodes]
            /\ adds' \in [Workers -> SUBSET Nodes] /\ todo' \subseteq Zones /\ plan' = None
      BY <1>3 DEF Crash
    <3>5. crashes' \in 0..MaxCrashes /\ UNCHANGED <<node, ing, group, changes, faults>>
      BY <1>3 DEF Crash, TypeOK
    <3>. QED
      BY <3>1, <3>2, <3>3, <3>4, <3>5 DEF TypeOK, Steps, NodeSteps
  <2>2. PoolInv'
    BY <1>3 DEF Crash, PoolInv, Workers
  <2>. QED
    BY <2>1, <2>2
<1>. QED
  BY <1>1, <1>2, <1>3

\* The beginning of a sync, and its end.
LEMMA SyncBoundsInv ==
    ASSUME IInv, IngressSyncBegin \/ NodeSyncBegin \/ \E w \in Workers : SyncEnd(w)
    PROVE  IInv'
<1>. USE DEF IInv
<1>1. CASE IngressSyncBegin
  <2>1. TypeOK'
    BY <1>1 DEF IngressSyncBegin, Goes, TypeOK, Workers, budgetVars, ReadyNodeNames
  <2>2. PoolInv'
    BY <1>1 DEF IngressSyncBegin, Goes, TypeOK, Workers, PoolInv
  <2>. QED
    BY <2>1, <2>2
<1>2. CASE NodeSyncBegin
  <2>1. TypeOK'
    BY <1>2 DEF NodeSyncBegin, Goes, TypeOK, Workers, budgetVars, ReadyNodeNames
  <2>2. PoolInv'
    BY <1>2 DEF NodeSyncBegin, Goes, TypeOK, Workers, PoolInv
  <2>. QED
    BY <2>1, <2>2
<1>3. ASSUME NEW w \in Workers, SyncEnd(w) PROVE IInv'
  <2>1. TypeOK'
    BY <1>3 DEF SyncEnd, Goes, TypeOK, Workers, budgetVars
  <2>2. PoolInv'
    BY <1>3 DEF SyncEnd, Goes, TypeOK, Workers, PoolInv
  <2>. QED
    BY <2>1, <2>2
<1>. QED
  BY <1>1, <1>2, <1>3

-----------------------------------------------------------------------------
\* The group as ensureInstanceGroupAndPorts leaves it, also half way.
LEMMA EnsuredOwns ==
    ASSUME TypeOK, NEW z \in Zones
    PROVE  OwnNodes(Ensured(group[z]), z) /\ OwnNodes([ports |-> {}, members |-> {}], z)
<1>1. PlanPorts \in SUBSET Ports
  BY DEF PlanPorts, TypeOK
<1>2. OwnNodes([ports |-> PlanPorts, members |-> {}], z)
  BY <1>1 DEF OwnNodes, InstanceGroup
<1>3. OwnNodes([ports |-> {}, members |-> {}], z)
  BY DEF OwnNodes, InstanceGroup
<1>4. ASSUME group[z] # None PROVE OwnNodes([group[z] EXCEPT !.ports = @ \cup PlanPorts], z)
  <2>. DEFINE g == group[z]
  <2>1. g \in InstanceGroup /\ \A n \in g.members : ZoneOf[n] = z
    BY <1>4 DEF TypeOK
  <2>. HIDE DEF g
  <2>. QED
    BY <1>1, <2>1 DEF OwnNodes, InstanceGroup, g
<1>. QED
  BY <1>2, <1>3, <1>4 DEF Ensured

\* Replacing groups by groups with nodes of their zones keeps every node in its zone.
LEMMA GroupType ==
    ASSUME NEW g, g \in [Zones -> InstanceGroup \cup {None}],
           \A z \in Zones : g[z] # None => \A n \in g[z].members : ZoneOf[n] = z,
           NEW y \in Zones, NEW new, OwnNodes(new, y)
    PROVE  /\ [g EXCEPT ![y] = new] \in [Zones -> InstanceGroup \cup {None}]
           /\ \A z \in Zones : [g EXCEPT ![y] = new][z] # None =>
                 \A n \in [g EXCEPT ![y] = new][z].members : ZoneOf[n] = z
BY DEF OwnNodes

\* EnsureInstanceGroupsAndPorts.
LEMMA EnsureInv == ASSUME IInv, EnsureBegin \/ EnsureInstanceGroup \/ EnsureEnd PROVE IInv'
<1>. USE DEF IInv
<1>1. CASE EnsureBegin
  <2>1. TypeOK'
    BY <1>1, ListZonesType DEF EnsureBegin, Goes, TypeOK, Workers, budgetVars, syncVars
  <2>2. PoolInv'
    BY <1>1 DEF EnsureBegin, Goes, TypeOK, Workers, PoolInv
  <2>. QED
    BY <2>1, <2>2
<1>2. CASE EnsureInstanceGroup
  <2>. DEFINE empty == [ports |-> {}, members |-> {}]
  <2>1. PICK z \in todo :
          /\ group' \in {group, [group EXCEPT ![z] = Ensured(group[z])], [group EXCEPT ![z] = empty]}
          /\ \/ /\ todo' = todo \ {z} /\ pooled' \in BOOLEAN /\ UNCHANGED <<pc, failed, faults>>
             \/ CallFails /\ EnsureFails
    BY <1>2, Zenon DEF EnsureInstanceGroup, TypeOK
  <2>2. z \in Zones
    BY DEF TypeOK
  <2>3. /\ group' \in [Zones -> InstanceGroup \cup {None}]
        /\ \A y \in Zones : group'[y] # None => \A n \in group'[y].members : ZoneOf[n] = y
    <3>1. OwnNodes(Ensured(group[z]), z) /\ OwnNodes(empty, z)
      BY <2>2, EnsuredOwns
    <3>. HIDE DEF empty
    <3>. QED
      BY <2>1, <2>2, <3>1, GroupType DEF TypeOK
  <2>4. UNCHANGED <<node, ing, queued, syncVars, plan, changes, crashes>> /\ pc["ingress"] = "ensure"
    BY <1>2 DEF EnsureInstanceGroup
  <2>5. /\ todo' \subseteq Zones /\ pooled' \in BOOLEAN /\ failed' \in [Workers -> BOOLEAN]
        /\ faults' \in 0..MaxFaults
        /\ pc' \in [Workers -> Steps] /\ pc'["node"] \in NodeSteps
        /\ (pc'["ingress"] = "gc" /\ pooled') \/ UNCHANGED pc
    BY <2>1, CallFailsType, Zenon DEF EnsureFails, Fails, Goes, TypeOK, Steps, NodeSteps, Workers
  <2>. QED
    BY <2>3, <2>4, <2>5 DEF TypeOK, PoolInv, syncVars, Steps, NodeSteps
<1>3. CASE EnsureEnd
  <2>1. TypeOK'
    BY <1>3, CallFailsType, Zenon DEF EnsureEnd, EnsureFails, Fails, Goes, TypeOK, Workers, syncVars
  <2>2. PoolInv'
    BY <1>3 DEF EnsureEnd, EnsureFails, Goes, TypeOK, Workers, PoolInv
  <2>. QED
    BY <2>1, <2>2
<1>. QED
  BY <1>1, <1>2, <1>3

-----------------------------------------------------------------------------
\* After a sync of the nodes, a worker goes on with its own next step.
LEMMA AfterStep ==
    ASSUME NEW w \in Workers
    PROVE  After(w) \in Steps /\ (w = "node" => After(w) \in NodeSteps)
             /\ (w = "ingress" => After(w) = "gc")
BY DEF After, Workers, Steps, NodeSteps

\* The list of a group's members, from which the differences are computed.
LEMMA ListInv == ASSUME IInv, NEW w \in Workers, List(w) PROVE IInv'
<1>. USE DEF IInv
<1>. DEFINE members == UNION {group[z].members : z \in ListZones}
<1>1. PICK to \in {"remove", After(w)} : Goes(w, to)
  BY DEF List
<1>2. pc' \in [Workers -> Steps] /\ pc'["node"] \in NodeSteps
  BY <1>1, AfterStep, GoesType DEF Steps, NodeSteps
<1>3. /\ UNCHANGED <<node, ing, queued, group, pooled, plan, todo, changes, crashes>>
      /\ names' \in [Workers -> SUBSET Nodes]
  BY DEF List, TypeOK
<1>4. failed' \in [Workers -> BOOLEAN] /\ faults' \in 0..MaxFaults
  BY CallFailsType, Zenon DEF List, Fails, TypeOK
<1>5. removes' \in [Workers -> SUBSET Nodes] /\ adds' \in [Workers -> SUBSET Nodes]
  <2>1. CASE UNCHANGED <<removes, adds>>
    BY <2>1 DEF TypeOK
  <2>2. CASE /\ \A z \in ListZones : group[z] # None
             /\ removes' = [removes EXCEPT ![w] = RemoveNodes(members, names[w])]
             /\ adds' = [adds EXCEPT ![w] = AddNodes(members, names[w])]
    <3>1. members \in SUBSET Nodes
      <4>1. ASSUME NEW z \in ListZones PROVE group[z].members \in SUBSET Nodes
        BY <2>2, ListZonesType DEF TypeOK, InstanceGroup
      <4>. QED
        BY <4>1
    <3>. HIDE DEF members
    <3>. QED
      BY <2>2, <3>1 DEF TypeOK, RemoveNodes, AddNodes
  <2>. QED
    BY <2>1, <2>2 DEF List
<1>6. TypeOK'
  BY <1>2, <1>3, <1>4, <1>5 DEF TypeOK, Steps, NodeSteps
<1>7. PoolInv'
  BY <1>1, <1>3, AfterStep DEF PoolInv, List, Goes, TypeOK, Workers
<1>. QED
  BY <1>6, <1>7

\* The calls of one worker, whatever the other has done since the list was made,
\* change members of groups that exist, and by nodes of the group's zone only.
LEMMA CallInv ==
    ASSUME IInv, NEW w \in Workers, NEW ns \in SUBSET Nodes, NEW member \in BOOLEAN,
           NEW next \in {"add", After(w)}, Call(w, ns, member, next)
    PROVE  /\ group' \in [Zones -> InstanceGroup \cup {None}]
           /\ \A z \in Zones : group'[z] # None => \A n \in group'[z].members : ZoneOf[n] = z
           /\ failed' \in [Workers -> BOOLEAN] /\ faults' \in 0..MaxFaults
           /\ Goes(w, next) \/ Goes(w, After(w))
<1>. USE DEF IInv
<1>. DEFINE asked == {z \in Zones : Split(ns, z) # {}}
            taken == {z \in asked : Accepts(z, Split(ns, z), member)}
            Changed(z) == IF member THEN group[z].members \ Split(ns, z)
                          ELSE group[z].members \cup Split(ns, z)
            Effect(zs) == [z \in Zones |->
                             IF z \in zs THEN [group[z] EXCEPT !.members = Changed(z)] ELSE group[z]]
<1>1. PICK zs \in SUBSET taken : group' = Effect(zs)
  <2>1. taken \in SUBSET taken
    OBVIOUS
  <2>. QED
    BY <2>1, Zenon DEF Call
<1>2. ASSUME NEW z \in Zones PROVE OwnNodes(group'[z], z)
  <2>1. OwnNodes(group[z], z)
    BY DEF TypeOK, OwnNodes
  <2>2. CASE z \notin zs
    BY <1>1, <2>1, <2>2
  <2>3. CASE z \in zs
    <3>. DEFINE g == group[z]
    <3>1. g \in InstanceGroup /\ \A n \in g.members : ZoneOf[n] = z
      BY <2>1, <2>3 DEF OwnNodes, Accepts
    <3>2. Changed(z) \in SUBSET Nodes /\ \A n \in Changed(z) : ZoneOf[n] = z
      BY <3>1 DEF Split, InstanceGroup
    <3>3. group'[z] = [g EXCEPT !.members = Changed(z)]
      BY <1>1, <2>3
    <3>. HIDE DEF g, Changed
    <3>. QED
      BY <3>1, <3>2, <3>3 DEF OwnNodes, InstanceGroup
  <2>. QED
    BY <2>2, <2>3
<1>3. group' \in [Zones -> InstanceGroup \cup {None}]
  <2>1. group' = [z \in Zones |-> group'[z]]
    BY <1>1
  <2>. QED
    BY <1>2, <2>1 DEF OwnNodes
<1>4. failed' \in [Workers -> BOOLEAN] /\ faults' \in 0..MaxFaults
  BY CallFailsType, Zenon DEF Call, Fails, TypeOK
<1>5. Goes(w, next) \/ Goes(w, After(w))
  BY Zenon DEF Call
<1>. QED
  BY <1>2, <1>3, <1>4, <1>5 DEF OwnNodes

\* Removing and adding nodes.
LEMMA RemoveAddInv == ASSUME IInv, NEW w \in Workers, Remove(w) \/ Add(w) PROVE IInv'
<1>. USE DEF IInv
<1>1. PICK ns \in SUBSET Nodes, member \in BOOLEAN, next \in {"add", After(w)} :
          Call(w, ns, member, next)
  <2>1. removes[w] \in SUBSET Nodes /\ adds[w] \in SUBSET Nodes
    BY DEF TypeOK
  <2>. QED
    BY <2>1, Zenon DEF Remove, Add
<1>2. /\ group' \in [Zones -> InstanceGroup \cup {None}]
      /\ \A z \in Zones : group'[z] # None => \A n \in group'[z].members : ZoneOf[n] = z
      /\ failed' \in [Workers -> BOOLEAN] /\ faults' \in 0..MaxFaults
      /\ Goes(w, next) \/ Goes(w, After(w))
  BY <1>1, CallInv, Zenon
<1>3. PICK to \in {"add", After(w)} : Goes(w, to)
  BY <1>2
<1>4. pc' \in [Workers -> Steps] /\ pc'["node"] \in NodeSteps
  BY <1>3, AfterStep, GoesType DEF Steps, NodeSteps
<1>5. /\ UNCHANGED <<node, ing, queued, pooled, names, plan, todo, changes, crashes>>
      /\ removes' \in [Workers -> SUBSET Nodes] /\ adds' \in [Workers -> SUBSET Nodes]
  BY Zenon DEF Remove, Add, TypeOK
<1>6. TypeOK'
  BY <1>2, <1>4, <1>5 DEF TypeOK, Steps, NodeSteps
<1>7. PoolInv'
  BY <1>3, <1>5, AfterStep, Zenon DEF PoolInv, Remove, Add, Goes, TypeOK, Workers
<1>. QED
  BY <1>6, <1>7

-----------------------------------------------------------------------------
\* The deletion of the groups.
LEMMA GCInv == ASSUME IInv, GCBegin \/ DeleteInstanceGroup \/ DeleteEnd PROVE IInv'
<1>. USE DEF IInv
<1>1. CASE GCBegin
  <2>1. TypeOK'
    BY <1>1, CallFailsType, ListZonesType, Zenon DEF GCBegin, Fails, Goes, TypeOK, Workers, syncVars
  <2>2. PoolInv'
    BY <1>1 DEF GCBegin, Goes, TypeOK, Workers, PoolInv
  <2>. QED
    BY <2>1, <2>2
<1>2. CASE DeleteInstanceGroup
  <2>1. PICK z \in todo :
          /\ todo' = todo \ {z}
          /\ group' \in {group, [group EXCEPT ![z] = None]}
          /\ failed' \in [Workers -> BOOLEAN] /\ faults' \in 0..MaxFaults
    BY <1>2, CallFailsType, Zenon DEF DeleteInstanceGroup, Fails, TypeOK
  <2>2. UNCHANGED <<node, ing, queued, pooled, pc, syncVars, plan, changes, crashes>>
    BY <1>2 DEF DeleteInstanceGroup
  <2>3. /\ group' \in [Zones -> InstanceGroup \cup {None}]
        /\ \A y \in Zones : group'[y] # None => \A n \in group'[y].members : ZoneOf[n] = y
    BY <2>1 DEF TypeOK
  <2>. QED
    BY <2>1, <2>2, <2>3 DEF TypeOK, PoolInv, syncVars
<1>3. CASE DeleteEnd
  <2>1. TypeOK'
    BY <1>3, Zenon DEF DeleteEnd, Goes, TypeOK, Workers, syncVars, budgetVars
  <2>2. PoolInv'
    BY <1>3 DEF DeleteEnd, Goes, TypeOK, Workers, PoolInv
  <2>. QED
    BY <2>1, <2>2
<1>. QED
  BY <1>1, <1>2, <1>3

\* Every step keeps the invariant.
LEMMA NextInv == IInv /\ [Next]_vars => IInv'
<1>. SUFFICES ASSUME IInv, [Next]_vars PROVE IInv'
  OBVIOUS
<1>1. ASSUME NEW w \in Workers, SyncPool(w) PROVE IInv'
  BY <1>1, ListInv, RemoveAddInv, SyncBoundsInv DEF SyncPool
<1>2. CASE UNCHANGED vars
  BY <1>2 DEF IInv, TypeOK, PoolInv, vars, syncVars, budgetVars
<1>3. "ingress" \in Workers /\ "node" \in Workers
  BY DEF Workers
<1>. QED
  BY <1>1, <1>2, <1>3, EnvironmentInv, SyncBoundsInv, EnsureInv, GCInv
     DEF Next, IngressWorker, NodeWorker

\* The invariant holds in all behaviours.
LEMMA Invariance == Spec => []IInv
BY InitInv, NextInv, PTL DEF Spec

\* The types of the pool's state, and that a node is a member of the group of its own
\* zone only, although the ingress worker and the node worker add and remove nodes at
\* the same time from lists they have read before.
THEOREM TypeCorrect == Spec => []TypeOK
BY Invariance, PTL DEF IInv

\* The groups an ingress uses are in the pool when its sync ends, whatever has failed
\* in EnsureInstanceGroupsAndPorts or later.
THEOREM UsedArePooled == Spec => []UsedGroupsArePooled
<1>1. IInv => UsedGroupsArePooled
  BY DEF IInv, PoolInv, UsedGroupsArePooled
<1>. QED
  BY <1>1, Invariance, PTL
=============================================================================
