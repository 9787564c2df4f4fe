---------------------------- MODULE NegSyncProofs -----------------------------
(***************************************************************************)
(* Proofs about NegSync: one sync() at a time keeps the promise of         *)
(* NegMembers, and what it reports as a success is one.                    *)
(***************************************************************************)
EXTENDS NegSync, TLAPS, FiniteSetTheorems

\* An endpoint that an attach (detach) is to be made for, or is under way for.
Attaching(z, e) ==
    \/ e \in adds[z]
    \/ \E b \in batches : b.op = "attach" /\ b.zone = z /\ e \in b.eps

Detaching(z, e) ==
    \/ e \in removes[z]
    \/ \E b \in batches : b.op = "detach" /\ b.zone = z /\ e \in b.eps

\* Operations exist in the last phase only.
Phases ==
    /\ pc # "batch" => batches = {} /\ adds = EmptyMap /\ removes = EmptyMap
    /\ pc \in {"idle", "zones", "ensure"} => todoEps = {}
    /\ pc \in {"zones", "ensure"} => target = EmptyMap
    /\ pc \in {"zones", "ensure", "target"} => current = EmptyMap
    /\ pc = "target" => todoEps \in SUBSET snap
    /\ pc = "list" => todo \in SUBSET listed

\* targetMap holds what has been translated of the object sync() looked up.
TargetInv ==
    pc \in {"target", "list", "batch"} =>
        /\ pc # "target" => todoEps = {}
        /\ \A z \in Zones : target[z] = In(z, snap \ todoEps)

\* currentMap agrees with the NEGs that have been listed and still exist.
CurrentInv ==
    pc = "list" => \A z \in Zones :
        /\ z \notin listed => current[z] = {}
        /\ z \in listed /\ z \notin todo /\ neg[z] # "none" =>
               current[z] = members[z]

\* What remains to be done is what separates the NEGs from the plan.
BatchInv ==
    pc = "batch" => \A z \in Zones, e \in Endpoints :
        /\ Attaching(z, e) => e \in In(z, snap)
        /\ Detaching(z, e) => e \notin In(z, snap)
        /\ ~failed /\ neg[z] # "none" =>
              /\ e \in In(z, snap) => e \in members[z] \/ Attaching(z, e)
              /\ z \in listed /\ e \in members[z] =>
                     e \in In(z, snap) \/ Detaching(z, e)

SyncInv == Phases /\ TargetInv /\ CurrentInv /\ BatchInv /\ OperationsApart

-----------------------------------------------------------------------------
\* toNetworkEndpointBatch makes batches of the set that are neither empty nor
\* larger than the limit.
LEMMA BatchesOfFacts ==
    ASSUME NEW set \in SUBSET Endpoints, set # {}, NEW b \in BatchesOf(set)
    PROVE  /\ b \in SUBSET set
           /\ b # {}
           /\ Cardinality(b) \in 1..BatchSize
<1>1. IsFiniteSet(set) /\ Cardinality(set) \in Nat
  BY FS_Subset, FS_CardinalityType, ConstantsAssumption
<1>2. Cardinality(set) # 0
  BY <1>1, FS_EmptySet
<1>. DEFINE n == Min({Cardinality(set), BatchSize})
<1>3. n \in {Cardinality(set), BatchSize} /\ n <= BatchSize
  <2>1. \E x \in {Cardinality(set), BatchSize} :
            \A y \in {Cardinality(set), BatchSize} : x =< y
    <3>1. CASE Cardinality(set) <= BatchSize
      BY <1>1, <3>1, ConstantsAssumption
    <3>2. CASE ~(Cardinality(set) <= BatchSize)
      BY <1>1, <3>2, ConstantsAssumption
    <3>. QED
      BY <3>1, <3>2
  <2>. QED
    BY <2>1 DEF Min
<1>4. b \in SUBSET set /\ Cardinality(b) = n
  BY DEF BatchesOf, kSubset
<1>5. Cardinality(b) \in 1..BatchSize
  BY <1>1, <1>2, <1>3, <1>4, ConstantsAssumption
<1>. QED
  BY <1>4, <1>5, FS_EmptySet

\* Zones of ready nodes are zones.
LEMMA ListZonesType == ready \in SUBSET Nodes => ListZones \in SUBSET Zones
  BY ConstantsAssumption DEF ListZones

\* An endpoint lives in a zone.
LEMMA HomeType == Home \in [Endpoints -> Zones]
  BY ConstantsAssumption DEF Home

\* Every variable keeps its type.
LEMMA NextType == TypeOK /\ [Next]_vars => TypeOK'
<1> SUFFICES ASSUME TypeOK, [Next]_vars PROVE TypeOK'
  OBVIOUS
<1>. USE DEF TypeOK, ZoneMap, EmptyMap, storeVars, cloudVars, mapVars, batchVars
<1>1. CASE UNCHANGED vars
  BY <1>1 DEF vars
<1>2. CASE EndpointsChange
  BY <1>2, ConstantsAssumption DEF EndpointsChange, Change
<1>3. CASE NodesChange
  BY <1>3, ConstantsAssumption DEF NodesChange, Change
<1>4. ASSUME NEW z \in Zones, GCDeletes(z) PROVE TypeOK'
  BY <1>4, ConstantsAssumption DEF GCDeletes, Change
<1>5. CASE SyncSkip
  BY <1>5 DEF SyncSkip, vars
<1>6. CASE SyncBegin
  BY <1>6, Zenon DEF SyncBegin
<1>7. CASE EnsureBegin
  BY <1>7, ListZonesType DEF EnsureBegin
<1>8. ASSUME NEW z \in Zones, EnsureZone(z) PROVE TypeOK'
  <2>1. failed' \in BOOLEAN
    BY <1>8, Zenon DEF EnsureZone
  <2>2. faults' \in 0..MaxFaults
    BY <1>8, ConstantsAssumption DEF EnsureZone, CallFails
  <2>3. neg' \in [Zones -> {"none", "other", "ours"}] /\ members' \in ZoneMap
    BY <1>8 DEF EnsureZone
  <2>. QED
    BY <1>8, <2>1, <2>2, <2>3 DEF EnsureZone
<1>9. CASE EnsureEnd
  BY <1>9 DEF EnsureEnd
<1>10. ASSUME NEW e \in Endpoints, Translate(e) PROVE TypeOK'
  <2>1. failed' \in BOOLEAN
    BY <1>10, Zenon DEF Translate, SyncFails
  <2>2. target' \in ZoneMap
    BY <1>10, HomeType DEF Translate
  <2>3. pc' \in {"idle", "target"} /\ todo' \in SUBSET Zones
        /\ todoEps' \in SUBSET Endpoints
    BY <1>10 DEF Translate, SyncFails
  <2>. QED
    BY <1>10, <2>1, <2>2, <2>3 DEF Translate
<1>11. CASE ListBegin
  BY <1>11, ListZonesType DEF ListBegin
<1>12. ASSUME NEW z \in Zones, ListZone(z) PROVE TypeOK'
  <2>1. failed' \in BOOLEAN
    BY <1>12, Zenon DEF ListZone, SyncFails
  <2>2. faults' \in 0..MaxFaults
    BY <1>12, ConstantsAssumption DEF ListZone, CallFails
  <2>3. pc' \in {"idle", "list"} /\ todo' \in SUBSET Zones
        /\ todoEps' \in SUBSET Endpoints /\ current' \in ZoneMap
    BY <1>12 DEF ListZone, SyncFails
  <2>. QED
    BY <1>12, <2>1, <2>2, <2>3 DEF ListZone
<1>13. CASE Difference
  BY <1>13 DEF Difference
<1>14. ASSUME NEW z \in Zones, SpawnDetach(z) PROVE TypeOK'
  <2>1. PICK b \in BatchesOf(removes[z]) :
            /\ removes' = [removes EXCEPT ![z] = @ \ b]
            /\ batches' = batches \cup {[op |-> "detach", zone |-> z, eps |-> b]}
    BY <1>14, Zenon DEF SpawnDetach
  <2>2. [op |-> "detach", zone |-> z, eps |-> b] \in Batch
    <3>1. removes[z] \in SUBSET Endpoints /\ removes[z] # {}
      BY <1>14 DEF SpawnDetach
    <3>2. b \in SUBSET Endpoints /\ b # {}
      BY <3>1, BatchesOfFacts
    <3>. QED
      BY <3>2 DEF Batch
  <2>. QED
    BY <1>14, <2>1, <2>2 DEF SpawnDetach
<1>15. ASSUME NEW z \in Zones, SpawnAttach(z) PROVE TypeOK'
  <2>1. PICK b \in BatchesOf(adds[z]) :
            /\ adds' = [adds EXCEPT ![z] = @ \ b]
            /\ batches' = batches \cup {[op |-> "attach", zone |-> z, eps |-> b]}
    BY <1>15, Zenon DEF SpawnAttach
  <2>2. [op |-> "attach", zone |-> z, eps |-> b] \in Batch
    <3>1. adds[z] \in SUBSET Endpoints /\ adds[z] # {}
      BY <1>15 DEF SpawnAttach
    <3>2. b \in SUBSET Endpoints /\ b # {}
      BY <3>1, BatchesOfFacts
    <3>. QED
      BY <3>2 DEF Batch
  <2>. QED
    BY <1>15, <2>1, <2>2 DEF SpawnAttach
<1>16. ASSUME NEW b \in batches, BatchEnds(b) PROVE TypeOK'
  <2>1. b.zone \in Zones /\ b.eps \in SUBSET Endpoints
    BY DEF Batch
  <2>2. members' \in ZoneMap
    BY <1>16, <2>1 DEF BatchEnds, Apply
  <2>. QED
    <3>1. failed' \in BOOLEAN
      BY <1>16, Zenon DEF BatchEnds
    <3>2. faults' \in 0..MaxFaults
      BY <1>16, ConstantsAssumption DEF BatchEnds, CallFails
    <3>. QED
      BY <1>16, <2>2, <3>1, <3>2 DEF BatchEnds
<1>17. CASE SyncEnd
  BY <1>17 DEF SyncEnd
<1>. QED
  BY <1>1, <1>2, <1>3, <1>4, <1>5, <1>6, <1>7, <1>8, <1>9, <1>10, <1>11,
     <1>12, <1>13, <1>14, <1>15, <1>16, <1>17 DEF Next, Environment, Sync

\* The types of the state of a sync, whatever the batch size and the cluster;
\* in particular no empty batch is ever sent.
THEOREM TypeCorrect == Spec => []TypeOK
<1>1. Init => TypeOK
  <2> SUFFICES ASSUME Init PROVE TypeOK
    OBVIOUS
  <2>1. failed \in BOOLEAN
    BY Zenon DEF Init
  <2>. QED
    BY <2>1, ConstantsAssumption DEF Init, TypeOK, ZoneMap, EmptyMap
<1>. QED
  BY <1>1, NextType, PTL DEF Spec

-----------------------------------------------------------------------------
\* Nothing of the sync and of the NEGs changes.
LEMMA SyncInvUnchanged ==
    ASSUME SyncInv,
           UNCHANGED <<neg, members, pc, snap, todo, todoEps, target, listed,
                       current, adds, removes, batches, failed>>
    PROVE  SyncInv'
  BY DEF SyncInv, Phases, TargetInv, CurrentInv, BatchInv, OperationsApart,
     Attaching, Detaching, In, EmptyMap

\* A sync that is in none of the later phases owes nothing but quiet.
LEMMA SyncInvEarly ==
    ASSUME pc' \in {"idle", "zones", "ensure"},
           batches' = {}, adds' = EmptyMap, removes' = EmptyMap, todoEps' = {},
           pc' # "idle" => target' = EmptyMap /\ current' = EmptyMap
    PROVE  SyncInv'
  BY DEF SyncInv, Phases, TargetInv, CurrentInv, BatchInv, OperationsApart,
     EmptyMap

\* GC may delete a NEG in any phase.
LEMMA GCDeletesInv ==
    ASSUME TypeOK, SyncInv, NEW z \in Zones, GCDeletes(z)
    PROVE  SyncInv'
<1>1. /\ neg' = [neg EXCEPT ![z] = "none"]
      /\ members' = [members EXCEPT ![z] = {}]
      /\ neg \in [Zones -> {"none", "other", "ours"}]
      /\ members \in [Zones -> SUBSET Endpoints]
      /\ UNCHANGED <<pc, snap, todo, todoEps, target, listed, current, adds,
                     removes, batches, failed>>
  BY DEF GCDeletes, TypeOK, ZoneMap, mapVars, batchVars
<1>2. Phases' /\ TargetInv' /\ OperationsApart'
  BY <1>1 DEF SyncInv, Phases, TargetInv, OperationsApart, In, EmptyMap
<1>3. CurrentInv'
  BY <1>1 DEF SyncInv, CurrentInv
<1>4. BatchInv'
  BY <1>1 DEF SyncInv, BatchInv, Attaching, Detaching, In
<1>. QED
  BY <1>2, <1>3, <1>4 DEF SyncInv

\* Up to the translation, and where it or the listing fails.
LEMMA EarlyInv ==
    ASSUME TypeOK, SyncInv,
           \/ SyncBegin \/ EnsureBegin \/ EnsureEnd \/ SyncEnd
           \/ \E z \in Zones : EnsureZone(z)
    PROVE  SyncInv'
<1>. USE DEF SyncInv, Phases, mapVars, batchVars
<1>1. CASE SyncBegin
  BY <1>1, SyncInvEarly DEF SyncBegin
<1>2. CASE EnsureBegin
  BY <1>2, SyncInvEarly DEF EnsureBegin
<1>3. ASSUME NEW z \in Zones, EnsureZone(z) PROVE SyncInv'
  BY <1>3, SyncInvEarly DEF EnsureZone
<1>4. CASE EnsureEnd /\ failed
  BY <1>4, SyncInvEarly DEF EnsureEnd
<1>5. CASE EnsureEnd /\ ~failed
  <2>1. /\ pc' = "target" /\ todoEps' = snap
        /\ target' = EmptyMap /\ current' = EmptyMap /\ batches' = {}
        /\ UNCHANGED <<snap, adds, removes>>
        /\ adds = EmptyMap /\ removes = EmptyMap
    BY <1>5 DEF EnsureEnd
  <2>2. TargetInv'
    BY <2>1 DEF TargetInv, In, EmptyMap
  <2>. QED
    BY <2>1, <2>2 DEF CurrentInv, BatchInv, OperationsApart, EmptyMap
<1>6. CASE SyncEnd
  BY <1>6, SyncInvEarly DEF SyncEnd, TargetInv
<1>. QED
  BY <1>1, <1>2, <1>3, <1>4, <1>5, <1>6

\* The translation of an address, and the listing of the zones.
LEMMA TranslateInv ==
    ASSUME TypeOK, SyncInv, (\E e \in Endpoints : Translate(e)) \/ ListBegin
    PROVE  SyncInv'
<1>. USE DEF mapVars, batchVars
<1>1. ASSUME NEW e \in Endpoints, Translate(e), NodeOf[e] \notin ready PROVE SyncInv'
  BY <1>1, SyncInvEarly DEF Translate, SyncFails, SyncInv, Phases
<1>2. ASSUME NEW e \in Endpoints, Translate(e), NodeOf[e] \in ready PROVE SyncInv'
  <2>1. /\ pc = "target" /\ pc' = "target" /\ e \in todoEps
        /\ todoEps' = todoEps \ {e}
        /\ target' = [target EXCEPT ![Home[e]] = @ \cup {e}]
        /\ UNCHANGED <<snap, listed, current, adds, removes, batches>>
    BY <1>2 DEF Translate
  <2>2. TargetInv'
    <3>1. /\ target \in [Zones -> SUBSET Endpoints]
          /\ \A z \in Zones : target[z] = {x \in snap \ todoEps : Home[x] = z}
          /\ Home[e] \in Zones
      BY <2>1, HomeType DEF SyncInv, TargetInv, In, TypeOK, ZoneMap
    <3>2. e \in snap
      BY <1>2, <2>1 DEF SyncInv, Phases
    <3>3. ASSUME NEW z \in Zones
          PROVE  target'[z] = {x \in snap \ (todoEps \ {e}) : Home[x] = z}
      BY <2>1, <3>1, <3>2
    <3>. QED
      BY <2>1, <3>3 DEF TargetInv, In
  <2>. QED
    BY <2>1, <2>2 DEF SyncInv, Phases, CurrentInv, BatchInv, OperationsApart, EmptyMap
<1>3. CASE ListBegin
  <2>1. /\ pc = "target" /\ pc' = "list" /\ todoEps = {}
        /\ todo' = listed'
        /\ UNCHANGED <<snap, todoEps, target, current, adds, removes, batches>>
    BY <1>3 DEF ListBegin
  <2>2. CurrentInv'
    BY <2>1 DEF SyncInv, Phases, CurrentInv, EmptyMap
  <2>. QED
    BY <2>1, <2>2 DEF SyncInv, Phases, TargetInv, BatchInv, OperationsApart, In, EmptyMap
<1>. QED
  BY <1>1, <1>2, <1>3

\* The listing of a NEG, and the difference of the two maps.
LEMMA ListInv ==
    ASSUME TypeOK, SyncInv, (\E z \in Zones : ListZone(z)) \/ Difference
    PROVE  SyncInv'
<1>. USE DEF mapVars, batchVars, cloudVars
<1>1. ASSUME NEW z \in Zones, ListZone(z), pc' = "idle" PROVE SyncInv'
  BY <1>1, SyncInvEarly DEF ListZone, SyncFails, SyncInv, Phases
<1>2. ASSUME NEW z \in Zones, ListZone(z), pc' # "idle" PROVE SyncInv'
  <2>1. /\ pc = "list" /\ pc' = "list" /\ z \in todo
        /\ current' = [current EXCEPT ![z] = members[z]]
        /\ todo' = todo \ {z}
        /\ UNCHANGED <<neg, members, snap, todoEps, target, listed, adds,
                       removes, batches>>
    BY <1>2 DEF ListZone, SyncFails
  <2>2. CurrentInv'
    <3>1. z \in listed
      BY <2>1 DEF SyncInv, Phases
    <3>. QED
      BY <2>1, <3>1 DEF SyncInv, CurrentInv, TypeOK, ZoneMap
  <2>. QED
    BY <2>1, <2>2 DEF SyncInv, Phases, TargetInv, BatchInv, OperationsApart, In, EmptyMap
<1>3. CASE Difference
  <2>1. /\ pc = "list" /\ pc' = "batch" /\ todo = {} /\ todoEps = {}
        /\ adds' = [z \in Zones |-> target[z] \ current[z]]
        /\ removes' = [z \in Zones |-> current[z] \ target[z]]
        /\ batches = {} /\ batches' = {}
        /\ \A z \in Zones : target[z] = In(z, snap)
        /\ UNCHANGED <<neg, members, snap, todoEps, target, listed, current, failed>>
    BY <1>3 DEF Difference, SyncInv, Phases, TargetInv
  <2>2. ASSUME NEW z \in Zones, NEW e \in Endpoints
        PROVE  /\ e \in adds'[z] <=> e \in In(z, snap) /\ e \notin current[z]
               /\ e \in removes'[z] <=> e \in current[z] /\ e \notin In(z, snap)
    BY <2>1
  <2>3. BatchInv'
    BY <2>1, <2>2 DEF SyncInv, CurrentInv, BatchInv, Attaching, Detaching, In
  <2>. QED
    BY <2>1, <2>3 DEF SyncInv, Phases, TargetInv, CurrentInv, OperationsApart, In
<1>. QED
  BY <1>1, <1>2, <1>3

-----------------------------------------------------------------------------
\* A detach batch takes from removes what it will work on, and nothing else.
LEMMA SpawnDetachInv ==
    ASSUME TypeOK, SyncInv, NEW z \in Zones, SpawnDetach(z)
    PROVE  SyncInv'
<1>1. PICK s \in BatchesOf(removes[z]) :
          /\ removes' = [removes EXCEPT ![z] = @ \ s]
          /\ batches' = batches \cup {[op |-> "detach", zone |-> z, eps |-> s]}
  BY Zenon DEF SpawnDetach
<1>. DEFINE new == [op |-> "detach", zone |-> z, eps |-> s]
<1>2. /\ pc = "batch" /\ pc' = "batch"
      /\ UNCHANGED <<neg, members, snap, todo, todoEps, target, listed,
                     current, adds, failed>>
      /\ removes \in [Zones -> SUBSET Endpoints]
  BY DEF SpawnDetach, cloudVars, mapVars, TypeOK, ZoneMap
<1>3. s \in SUBSET removes[z] /\ s # {} /\ Cardinality(s) \in 1..BatchSize
  BY <1>2, BatchesOfFacts DEF SpawnDetach
<1>4. new.op = "detach" /\ new.zone = z /\ new.eps = s
  OBVIOUS
<1>5. batches' = batches \cup {new} /\ new \in batches'
  BY <1>1
<1>6. \A y \in Zones, e \in Endpoints :
          (Attaching(y, e)' <=> Attaching(y, e)) /\ (Detaching(y, e)' <=> Detaching(y, e))
  <2> SUFFICES ASSUME NEW y \in Zones, NEW e \in Endpoints
               PROVE  (Attaching(y, e)' <=> Attaching(y, e))
                      /\ (Detaching(y, e)' <=> Detaching(y, e))
    OBVIOUS
  <2>1. Attaching(y, e)' <=> Attaching(y, e)
    BY <1>1, <1>2, <1>4, <1>5 DEF Attaching
  <2>2. e \in removes'[y] <=> e \in removes[y] /\ ~(y = z /\ e \in s)
    BY <1>1, <1>2
  <2>3. (\E b \in batches' : b.op = "detach" /\ b.zone = y /\ e \in b.eps)
        <=> \/ \E b \in batches : b.op = "detach" /\ b.zone = y /\ e \in b.eps
            \/ y = z /\ e \in s
    BY <1>4, <1>5, Zenon
  <2>. QED
    BY <1>3, <2>1, <2>2, <2>3 DEF Detaching
<1>7. BatchInv'
  BY <1>2, <1>6 DEF SyncInv, BatchInv, In
<1>8. OperationsApart'
  <2>1. \A b \in batches : b.zone = z => b.eps \cap s = {}
    BY <1>3 DEF SyncInv, OperationsApart
  <2>2. s \cap (adds'[z] \cup removes'[z]) = {}
    <3>1. removes[z] \cap adds[z] = {}
      BY <1>2 DEF SyncInv, BatchInv, Attaching, Detaching, TypeOK, ZoneMap
    <3>. QED
      BY <1>1, <1>2, <1>3, <3>1
  <2>3. \A y \in Zones : (adds'[y] \cup removes'[y]) \subseteq (adds[y] \cup removes[y])
    BY <1>1, <1>2
  <2>4. \A b, c \in batches' : b.zone = c.zone /\ b # c => b.eps \cap c.eps = {}
    BY <1>4, <1>5, <2>1 DEF SyncInv, OperationsApart
  <2>5. ASSUME NEW b \in batches'
        PROVE  /\ b.eps \cap (adds'[b.zone] \cup removes'[b.zone]) = {}
               /\ Cardinality(b.eps) \in 1..BatchSize
    <3>1. CASE b = new
      BY <1>3, <1>4, <2>2, <3>1
    <3>2. CASE b \in batches
      BY <2>3, <3>2 DEF SyncInv, OperationsApart, TypeOK, Batch
    <3>. QED
      BY <1>5, <3>1, <3>2
  <2>. QED
    BY <1>2, <2>4, <2>5 DEF OperationsApart
<1>. QED
  BY <1>2, <1>7, <1>8 DEF SyncInv, Phases, TargetInv, CurrentInv, In

\* An attach batch takes from adds what it will work on, and nothing else.
LEMMA SpawnAttachInv ==
    ASSUME TypeOK, SyncInv, NEW z \in Zones, SpawnAttach(z)
    PROVE  SyncInv'
<1>1. PICK s \in BatchesOf(adds[z]) :
          /\ adds' = [adds EXCEPT ![z] = @ \ s]
          /\ batches' = batches \cup {[op |-> "attach", zone |-> z, eps |-> s]}
  BY Zenon DEF SpawnAttach
<1>. DEFINE new == [op |-> "attach", zone |-> z, eps |-> s]
<1>2. /\ pc = "batch" /\ pc' = "batch"
      /\ UNCHANGED <<neg, members, snap, todo, todoEps, target, listed,
                     current, removes, failed>>
      /\ adds \in [Zones -> SUBSET Endpoints]
  BY DEF SpawnAttach, cloudVars, mapVars, TypeOK, ZoneMap
<1>3. s \in SUBSET adds[z] /\ s # {} /\ Cardinality(s) \in 1..BatchSize
  BY <1>2, BatchesOfFacts DEF SpawnAttach
<1>4. new.op = "attach" /\ new.zone = z /\ new.eps = s
  OBVIOUS
<1>5. batches' = batches \cup {new} /\ new \in batches'
  BY <1>1
<1>6. \A y \in Zones, e \in Endpoints :
          (Attaching(y, e)' <=> Attaching(y, e)) /\ (Detaching(y, e)' <=> Detaching(y, e))
  <2> SUFFICES ASSUME NEW y \in Zones, NEW e \in Endpoints
               PROVE  (Attaching(y, e)' <=> Attaching(y, e))
                      /\ (Detaching(y, e)' <=> Detaching(y, e))
    OBVIOUS
  <2>1. Detaching(y, e)' <=> Detaching(y, e)
    BY <1>1, <1>2, <1>4, <1>5 DEF Detaching
  <2>2. e \in adds'[y] <=> e \in adds[y] /\ ~(y = z /\ e \in s)
    BY <1>1, <1>2
  <2>3. (\E b \in batches' : b.op = "attach" /\ b.zone = y /\ e \in b.eps)
        <=> \/ \E b \in batches : b.op = "attach" /\ b.zone = y /\ e \in b.eps
            \/ y = z /\ e \in s
    BY <1>4, <1>5, Zenon
  <2>. QED
    BY <1>3, <2>1, <2>2, <2>3 DEF Attaching
<1>7. BatchInv'
  BY <1>2, <1>6 DEF SyncInv, BatchInv, In
<1>8. OperationsApart'
  <2>1. \A b \in batches : b.zone = z => b.eps \cap s = {}
    BY <1>3 DEF SyncInv, OperationsApart
  <2>2. s \cap (adds'[z] \cup removes'[z]) = {}
    <3>1. adds[z] \cap removes[z] = {}
      BY <1>2 DEF SyncInv, BatchInv, Attaching, Detaching, TypeOK, ZoneMap
    <3>. QED
      BY <1>1, <1>2, <1>3, <3>1
  <2>3. \A y \in Zones : (adds'[y] \cup removes'[y]) \subseteq (adds[y] \cup removes[y])
    BY <1>1, <1>2
  <2>4. \A b, c \in batches' : b.zone = c.zone /\ b # c => b.eps \cap c.eps = {}
    BY <1>4, <1>5, <2>1 DEF SyncInv, OperationsApart
  <2>5. ASSUME NEW b \in batches'
        PROVE  /\ b.eps \cap (adds'[b.zone] \cup removes'[b.zone]) = {}
               /\ Cardinality(b.eps) \in 1..BatchSize
    <3>1. CASE b = new
      BY <1>3, <1>4, <2>2, <3>1
    <3>2. CASE b \in batches
      BY <2>3, <3>2 DEF SyncInv, OperationsApart, TypeOK, Batch
    <3>. QED
      BY <1>5, <3>1, <3>2
  <2>. QED
    BY <1>2, <2>4, <2>5 DEF OperationsApart
<1>. QED
  BY <1>2, <1>7, <1>8 DEF SyncInv, Phases, TargetInv, CurrentInv, In

\* An operation that ends, in whatever way, leaves the others alone; if it
\* succeeds its endpoints are no longer what separates the NEG from the plan.
LEMMA BatchEndsInv ==
    ASSUME TypeOK, SyncInv, NEW b \in batches, BatchEnds(b)
    PROVE  SyncInv'
<1>1. /\ b.op \in {"attach", "detach"} /\ b.zone \in Zones
      /\ b.eps \in SUBSET Endpoints
  BY DEF TypeOK, Batch
<1>2. /\ pc = "batch" /\ pc' = "batch" /\ batches' = batches \ {b}
      /\ UNCHANGED <<neg, snap, todo, todoEps, target, listed, current, adds,
                     removes>>
      /\ members \in [Zones -> SUBSET Endpoints]
  BY DEF SyncInv, Phases, BatchEnds, mapVars, TypeOK, ZoneMap
<1>3. OperationsApart'
  BY <1>2 DEF SyncInv, OperationsApart
<1>4. \A z \in Zones, e \in Endpoints :
          /\ Attaching(z, e)' => Attaching(z, e)
          /\ Detaching(z, e)' => Detaching(z, e)
          /\ Attaching(z, e) /\ ~(b.op = "attach" /\ b.zone = z /\ e \in b.eps)
                => Attaching(z, e)'
          /\ Detaching(z, e) /\ ~(b.op = "detach" /\ b.zone = z /\ e \in b.eps)
                => Detaching(z, e)'
  BY <1>2 DEF Attaching, Detaching
<1>5. BatchInv'
  <2>1. CASE failed'
    BY <1>2, <1>4, <2>1 DEF SyncInv, BatchInv, In
  <2>2. CASE ~failed'
    <3>1. neg[b.zone] # "none" /\ Apply(b) /\ failed' = failed
      BY <2>2, Zenon DEF BatchEnds
    <3>2. CASE b.op = "attach"
      <4>1. members' = [members EXCEPT ![b.zone] = @ \cup b.eps]
        BY <3>1, <3>2 DEF Apply
      <4>2. \A e \in b.eps : e \in In(b.zone, snap)
        BY <1>1, <1>2, <3>2 DEF SyncInv, BatchInv, Attaching
      <4>. QED
        BY <1>1, <1>2, <1>4, <3>1, <3>2, <4>1, <4>2 DEF SyncInv, BatchInv, In
    <3>3. CASE b.op = "detach"
      <4>1. members' = [members EXCEPT ![b.zone] = @ \ b.eps]
        BY <3>1, <3>3 DEF Apply
      <4>2. \A e \in b.eps : e \notin In(b.zone, snap)
        BY <1>1, <1>2, <3>3 DEF SyncInv, BatchInv, Detaching
      <4>. QED
        BY <1>1, <1>2, <1>4, <3>1, <3>3, <4>1, <4>2 DEF SyncInv, BatchInv, In
    <3>. QED
      BY <1>1, <3>2, <3>3
  <2>. QED
    BY <2>1, <2>2
<1>. QED
  BY <1>2, <1>3, <1>5 DEF SyncInv, Phases, TargetInv, CurrentInv, In

\* SyncInv holds in every reachable state of every interleaving.
LEMMA SyncConsistent == Spec => []SyncInv
<1>1. Init => SyncInv
  BY DEF Init, SyncInv, Phases, TargetInv, CurrentInv, BatchInv, OperationsApart
<1>2. TypeOK /\ SyncInv /\ [Next]_vars => SyncInv'
  <2> SUFFICES ASSUME TypeOK, SyncInv, [Next]_vars PROVE SyncInv'
    OBVIOUS
  <2>1. CASE EndpointsChange \/ NodesChange \/ SyncSkip \/ UNCHANGED vars
    BY <2>1, SyncInvUnchanged DEF EndpointsChange, NodesChange, SyncSkip, vars,
       cloudVars, mapVars, batchVars
  <2>. QED
    BY <2>1, GCDeletesInv, EarlyInv, TranslateInv, ListInv, SpawnDetachInv,
       SpawnAttachInv, BatchEndsInv DEF Next, Environment, Sync
<1>. QED
  BY <1>1, <1>2, TypeCorrect, PTL DEF Spec

\* The concurrent operations of syncNetworkEndpoints never overlap, none
\* outlives its sync, and none exceeds the limit of the API, for any number of
\* zones and endpoints and any batch size.
THEOREM OperationsNeverOverlap == Spec => []OperationsApart
<1>. QED
  BY SyncConsistent, PTL DEF SyncInv

\* A sync that ends without an error has brought the NEGs it listed to the
\* endpoints it looked up, whatever happened around it.
THEOREM SuccessIsReal == Spec => []SuccessMeansInSync
<1>1. TypeOK /\ SyncInv => SuccessMeansInSync
  <2> SUFFICES ASSUME TypeOK, SyncInv, pc = "batch", adds = EmptyMap,
                      removes = EmptyMap, batches = {}, ~failed,
                      NEW z \in Zones, neg[z] # "none"
               PROVE  /\ In(z, snap) \subseteq members[z]
                      /\ z \in listed => members[z] = In(z, snap)
    BY DEF SuccessMeansInSync
  <2>1. \A e \in Endpoints : ~Attaching(z, e) /\ ~Detaching(z, e)
    BY DEF Attaching, Detaching, EmptyMap
  <2>2. In(z, snap) \subseteq Endpoints /\ members[z] \subseteq Endpoints
    BY DEF TypeOK, ZoneMap, In
  <2>. QED
    BY <2>1, <2>2 DEF SyncInv, BatchInv
<1>. QED
  BY <1>1, SyncConsistent, TypeCorrect, PTL

\* sync() implements NegMembers: it never attaches or detaches against the
\* plan it looked up, for any interleaving of its operations with the stores
\* and with GC.
THEOREM KeepsThePromise == Spec => MembersSpec
<1>1. Init => Members!Init
  BY DEF Init, Members!Init, ZoneMap
<1>2. TypeOK /\ TypeOK' /\ SyncInv /\ [Next]_vars
          => [Members!Next]_<<snap, members>>
  <2> SUFFICES ASSUME TypeOK, TypeOK', SyncInv, [Next]_vars,
                      ~UNCHANGED <<snap, members>>
               PROVE  Members!Next
    OBVIOUS
  <2>1. ASSUME NEW z \in Zones, GCDeletes(z) \/ EnsureZone(z)
        PROVE  Members!Lose(z)
    BY <2>1 DEF GCDeletes, EnsureZone, cloudVars, Members!Lose
  <2>2. CASE SyncBegin
    BY <2>2 DEF SyncBegin, cloudVars, TypeOK, Members!Plan, Members!Next
  <2>3. ASSUME NEW b \in batches, BatchEnds(b)
        PROVE  Members!Attach(b.zone) \/ Members!Detach(b.zone)
    <3>1. /\ b.op \in {"attach", "detach"} /\ b.zone \in Zones
          /\ b.eps \in SUBSET Endpoints /\ pc = "batch"
      BY DEF TypeOK, Batch, SyncInv, OperationsApart
    <3>2. Apply(b) /\ UNCHANGED snap
      BY <2>3 DEF BatchEnds
    <3>3. CASE b.op = "attach"
      <4>1. b.eps \in SUBSET Members!Local(b.zone)
        BY <3>1, <3>3 DEF SyncInv, BatchInv, Attaching, In, Members!Local
      <4>. QED
        BY <3>2, <3>3, <4>1, Zenon DEF Apply, Members!Attach
    <3>4. CASE b.op = "detach"
      <4>1. b.eps \in SUBSET (Endpoints \ Members!Local(b.zone))
        BY <3>1, <3>4 DEF SyncInv, BatchInv, Detaching, In, Members!Local
      <4>. QED
        BY <3>2, <3>4, <4>1, Zenon DEF Apply, Members!Detach
    <3>. QED
      BY <3>1, <3>3, <3>4
  <2>4. \A b \in batches : b.zone \in Zones
    BY DEF TypeOK, Batch
  <2>5. CASE \/ EndpointsChange \/ NodesChange \/ SyncSkip \/ EnsureBegin
             \/ EnsureEnd \/ ListBegin \/ Difference \/ SyncEnd
             \/ UNCHANGED vars
             \/ \E e \in Endpoints : Translate(e)
             \/ \E z \in Zones : ListZone(z) \/ SpawnDetach(z) \/ SpawnAttach(z)
    BY <2>5 DEF EndpointsChange, NodesChange, SyncSkip, EnsureBegin, EnsureEnd,
       ListBegin, Difference, SyncEnd, vars, Translate, ListZone, SpawnDetach,
       SpawnAttach, cloudVars
  <2>. QED
    BY <2>1, <2>2, <2>3, <2>4, <2>5 DEF Next, Environment, Sync, Members!Next
<1>. QED
  BY <1>1, <1>2, TypeCorrect, SyncConsistent, PTL DEF Spec, MembersSpec, Members!Spec
=============================================================================
