--------------------------- MODULE NegManagerProofs ---------------------------
(***************************************************************************)
(* Proofs about NegManager, for any number of services, ports and faults.  *)
(***************************************************************************)
EXTENDS NegManager, TLAPS

\* A syncer object is a service port with a generation.
LEMMA SyncerParts ==
    /\ \A o \in Syncers : o[1] \in Keys /\ o[2] \in Generations
                          /\ o = <<o[1], o[2]>>
    /\ \A k \in Keys, g \in Generations : <<k, g>> \in Syncers
    /\ \A k \in Keys : k[1] \in Services /\ k[2] \in Ports /\ k = <<k[1], k[2]>>
    /\ \A s \in Services, p \in Ports : <<s, p>> \in Keys
BY DEF Syncers, Keys

\* SyncersOf picks the objects that syncerMap holds for the given keys.
LEMMA SyncersOfMembers ==
    ASSUME TypeOK, NEW keys \in SUBSET Keys
    PROVE  /\ SyncersOf(keys) \subseteq Syncers
           /\ \A o \in Syncers : o \in SyncersOf(keys)
                  <=> o[1] \in keys /\ syncerMap[o[1]] = o[2]
<1>1. \A k \in keys : syncerMap[k] \in Generations \cup {None}
  BY DEF TypeOK
<1>2. ASSUME NEW o \in SyncersOf(keys)
      PROVE  o \in Syncers /\ o[1] \in keys /\ syncerMap[o[1]] = o[2]
  <2>1. PICK k \in keys : syncerMap[k] # None /\ o = <<k, syncerMap[k]>>
    BY <1>2 DEF SyncersOf
  <2>2. syncerMap[k] \in Generations
    BY <1>1, <2>1
  <2>. QED
    BY <2>1, <2>2, SyncerParts
<1>3. ASSUME NEW o \in Syncers, o[1] \in keys, syncerMap[o[1]] = o[2]
      PROVE  o \in SyncersOf(keys)
  <2>1. syncerMap[o[1]] # None /\ o = <<o[1], syncerMap[o[1]]>>
    BY <1>3, SyncerParts, ConstantsAssumption
  <2>. QED
    BY <1>3, <2>1 DEF SyncersOf
<1>. QED
  BY <1>2, <1>3

\* The service ports of one service.
LEMMA NeededKeysType ==
    ASSUME TypeOK, NEW s \in Services
    PROVE  NeededKeys(s) \in SUBSET Keys
BY DEF TypeOK, NeededKeys, Keys

-----------------------------------------------------------------------------
\* Type correctness, one lemma for each group of actions.

\* Changes of the cluster, the stop channel and restarts keep the types.
LEMMA EnvironmentType == TypeOK /\ Environment => TypeOK'
<1> SUFFICES ASSUME TypeOK, Environment PROVE TypeOK'
  OBVIOUS
<1> USE ConstantsAssumption DEF TypeOK, storeVars, eventVars, queueVars,
        mapVars, stateVars, loopVars, gcVars, budgetVars
<1>1. ASSUME NEW s \in Services, ServiceChange(s) PROVE TypeOK'
  BY <1>1 DEF ServiceChange
<1>2. ASSUME NEW s \in Services, IngressChange(s) PROVE TypeOK'
  BY <1>2 DEF IngressChange
<1>3. ASSUME NEW s \in Services, EndpointsChange(s) PROVE TypeOK'
  BY <1>3 DEF EndpointsChange
<1>4. CASE CloseStopCh
  BY <1>4 DEF CloseStopCh
<1>5. CASE Restart
  BY <1>5 DEF Restart, InitialEvents
<1>. QED
  BY <1>1, <1>2, <1>3, <1>4, <1>5 DEF Environment

\* The informers and the delay of the work queue keep the types.
LEMMA EventsType ==
    ASSUME TypeOK, NEW s \in Services,
           Resync(s) \/ Informers(s) \/ DelayOver(s)
    PROVE  TypeOK'
<1> USE ConstantsAssumption DEF TypeOK, storeVars, eventVars, queueVars,
        mapVars, stateVars, loopVars, gcVars, budgetVars
<1>1. CASE Resync(s)
  BY <1>1 DEF Resync, InitialEvents
<1>2. CASE HandleServiceEvent(s)
  BY <1>2 DEF HandleServiceEvent, Add
<1>3. CASE HandleEndpointsEvent(s)
  <2>1. SyncersOf(NeededKeys(s)) \subseteq Syncers
    BY NeededKeysType, SyncersOfMembers
  <2>. QED
    BY <1>3, <2>1 DEF HandleEndpointsEvent
<1>4. CASE DelayOver(s)
  BY <1>4 DEF DelayOver, Add
<1>. QED
  BY <1>1, <1>2, <1>3, <1>4 DEF Informers

\* manager.EnsureSyncers keeps the types of the maps and of the syncers.
LEMMA EnsureSyncersType ==
    ASSUME TypeOK, NEW s \in Services, NEW target \in SUBSET Ports,
           EnsureSyncers(s, target), s = processing,
           UNCHANGED <<storeVars, eventVars, gcVars, negs, phase, budgetVars>>
    PROVE  TypeOK'
<1> DEFINE removes == RemovedKeys(s, target)
           adds    == {s} \X (target \ svcPortMap[s])
           missing == {k \in adds : syncerMap[k] = None}
           toStop  == SyncersOf(removes) \ stopped
           idle    == SyncersOf(adds) \cap stopped
<1>1. removes \in SUBSET Keys /\ adds \in SUBSET Keys
  BY DEF TypeOK, Keys, RemovedKeys
<1>2. SyncersOf(removes) \subseteq Syncers /\ SyncersOf(adds) \subseteq Syncers
  BY <1>1, SyncersOfMembers
<1> HIDE DEF removes, adds
<1>3. PICK fresh \in [missing -> Generations] :
        LET made   == {<<k, fresh[k]>> : k \in missing}
            starts == made \cup Startable(idle)
        IN /\ \A o \in made : pc[o] = "none"
           /\ svcPortMap' = [svcPortMap EXCEPT ![s] = target]
           /\ syncerMap' = [k \in Keys |-> IF k \in missing THEN fresh[k]
                                           ELSE syncerMap[k]]
           /\ stopped' = (stopped \cup toStop) \ starts
           /\ shuttingDown' = (shuttingDown \cup toStop) \ made
           /\ closed' = (closed \cup toStop) \ starts
           /\ signal' = signal \ starts
           /\ retryCount' = [o \in Syncers |-> IF o \in made THEN 0
                                               ELSE retryCount[o]]
           /\ timer' = timer \ starts
           /\ pc' = [o \in Syncers |-> IF o \in starts THEN "sync" ELSE pc[o]]
           /\ HandleErr(s, idle # Startable(idle))
  BY DEF EnsureSyncers, removes, adds
<1>4. toStop \subseteq Syncers
  BY <1>2
<1> HIDE DEF toStop, idle, missing
<1>5. /\ svcPortMap' \in [Services -> SUBSET Ports]
      /\ syncerMap' \in [Keys -> Generations \cup {None}]
      /\ stopped' \in SUBSET Syncers /\ shuttingDown' \in SUBSET Syncers
      /\ closed' \in SUBSET Syncers /\ signal' \in SUBSET Syncers
      /\ timer' \in SUBSET Syncers
  BY <1>3, <1>4 DEF TypeOK
<1>6. retryCount' \in [Syncers -> 0..(MaxRetries + 1)]
  BY <1>3, ConstantsAssumption DEF TypeOK
<1>7. pc' \in [Syncers -> {"none", "sync", "ensure", "endpoints", "select"}]
  BY <1>3 DEF TypeOK
<1>8. /\ requeues' \in [Services -> 0..MaxRetries]
      /\ delayed' \in SUBSET Services /\ dirty' \in SUBSET Services
      /\ processing' = None /\ workerPc' = "idle" /\ workerPorts' = {}
  BY <1>3, ConstantsAssumption DEF TypeOK, HandleErr
<1>. QED
  BY <1>5, <1>6, <1>7, <1>8 DEF TypeOK, storeVars, eventVars, gcVars, budgetVars

\* serviceWorker keeps the types; no key is requeued beyond maxRetries.
LEMMA WorkerType == TypeOK /\ Worker => TypeOK'
<1> SUFFICES ASSUME TypeOK, Worker PROVE TypeOK'
  OBVIOUS
<1> USE DEF storeVars, eventVars, queueVars, mapVars, stateVars, loopVars,
        gcVars, budgetVars
<1>1. ASSUME NEW s \in Services, WorkerGet(s) PROVE TypeOK'
  BY <1>1 DEF WorkerGet, TypeOK
<1>2. CASE WorkerRead
  BY <1>2 DEF WorkerRead, TypeOK
<1>3. CASE WorkerEnsure
  <2>1. processing \in Services /\ workerPorts \in SUBSET Ports
    BY <1>3 DEF WorkerEnsure, TypeOK
  <2>. QED
    BY <1>3, <2>1, EnsureSyncersType DEF WorkerEnsure
<1>4. CASE WorkerStop
  <2>1. processing \in Services
    BY <1>4 DEF WorkerStop, TypeOK
  <2>2. SyncersOf(NeededKeys(processing)) \subseteq Syncers
    BY <2>1, NeededKeysType, SyncersOfMembers
  <2>3. requeues' \in [Services -> 0..MaxRetries]
    BY <1>4, <2>1, ConstantsAssumption DEF WorkerStop, HandleErr, TypeOK
  <2>. QED
    BY <1>4, <2>1, <2>2, <2>3 DEF WorkerStop, HandleErr, Stop, TypeOK
<1>. QED
  BY <1>1, <1>2, <1>3, <1>4 DEF Worker

\* The loop of a syncer keeps the types; its retry count is bounded.
LEMMA SyncerType ==
    ASSUME TypeOK, NEW o \in Syncers, Syncer(o)
    PROVE  TypeOK'
<1> USE DEF storeVars, eventVars, queueVars, mapVars, stateVars, loopVars,
        gcVars, budgetVars
<1>1. ASSUME NEW failed \in BOOLEAN, SyncReturns(o, failed)
      PROVE  /\ pc' \in [Syncers -> {"none", "sync", "ensure", "endpoints",
                                     "select"}]
             /\ retryCount' \in [Syncers -> 0..(MaxRetries + 1)]
             /\ timer' \in SUBSET Syncers
  BY <1>1, ConstantsAssumption DEF SyncReturns, TypeOK
<1>2. CallFails => faults' \in 0..MaxFaults
  BY ConstantsAssumption DEF CallFails, TypeOK
<1>3. CASE SyncBegin(o)
  BY <1>1, <1>3, Zenon DEF SyncBegin, TypeOK
<1>4. CASE SyncEnsure(o)
  <2>1. o[1] \in Keys
    BY SyncerParts
  <2>. QED
    BY <1>1, <1>2, <1>4, <2>1, Zenon DEF SyncEnsure, TypeOK
<1>5. CASE SyncEndpoints(o)
  BY <1>1, <1>2, <1>5, Zenon DEF SyncEndpoints, TypeOK
<1>6. CASE ReceiveSignal(o)
  BY <1>6 DEF ReceiveSignal, TypeOK
<1>7. CASE ReceiveClosed(o)
  BY <1>7 DEF ReceiveClosed, TypeOK
<1>8. CASE RetryFires(o)
  BY <1>8 DEF RetryFires, TypeOK
<1>. QED
  BY <1>3, <1>4, <1>5, <1>6, <1>7, <1>8 DEF Syncer

\* The garbage collection keeps the types.
LEMMA GCType == TypeOK /\ GC => TypeOK'
<1> SUFFICES ASSUME TypeOK, GC PROVE TypeOK'
  OBVIOUS
<1> USE DEF TypeOK, storeVars, eventVars, queueVars, mapVars, stateVars,
        loopVars, gcVars, budgetVars
<1>1. CallFails => faults' \in 0..MaxFaults
  BY ConstantsAssumption DEF CallFails
<1>2. CASE GCStart
  BY <1>2 DEF GCStart
<1>3. CASE GCList
  BY <1>1, <1>3 DEF GCList
<1>4. CASE GCDiff
  BY <1>4 DEF GCDiff
<1>5. CASE GCEnd
  BY <1>5 DEF GCEnd
<1>6. ASSUME NEW k \in Keys, GCSyncer(k) PROVE TypeOK'
  BY <1>6 DEF GCSyncer
<1>7. ASSUME NEW k \in Keys, GCDelete(k) PROVE TypeOK'
  BY <1>1, <1>7 DEF GCDelete
<1>. QED
  BY <1>2, <1>3, <1>4, <1>5, <1>6, <1>7 DEF GC

\* Controller.stop keeps the types.
LEMMA ShutDownType == TypeOK /\ ShutDown => TypeOK'
<1> SUFFICES ASSUME TypeOK, ShutDown PROVE TypeOK'
  OBVIOUS
<1> USE DEF storeVars, eventVars, queueVars, mapVars, stateVars, loopVars,
        gcVars, budgetVars
<1>1. SyncersOf(Keys) \subseteq Syncers
  BY SyncersOfMembers
<1>2. CASE QueueShutDown
  BY <1>2 DEF QueueShutDown, TypeOK
<1>3. CASE ManagerShutDown
  BY <1>1, <1>3 DEF ManagerShutDown, Stop, TypeOK
<1>. QED
  BY <1>2, <1>3 DEF ShutDown

\* Every variable keeps its type: in particular neither retry counter, the
\* work queue's nor the syncer's, ever passes its limit.
THEOREM TypeCorrect == Spec => []TypeOK
<1>1. Init => TypeOK
  BY ConstantsAssumption DEF Init, TypeOK, InitialEvents
<1>2. TypeOK /\ [Next]_vars => TypeOK'
  <2>1. TypeOK /\ UNCHANGED vars => TypeOK'
    BY DEF TypeOK, vars, storeVars, eventVars, queueVars, mapVars, stateVars,
           loopVars, gcVars, budgetVars
  <2>2. TypeOK /\ Next => TypeOK'
    BY EnvironmentType, EventsType, WorkerType, SyncerType, GCType,
       ShutDownType DEF Next
  <2>. QED
    BY <2>1, <2>2
<1>. QED
  BY <1>1, <1>2, PTL DEF Spec

-----------------------------------------------------------------------------
\* The syncers' inductive invariant.  NoOrphanWorker alone is not inductive:
\* that GC may drop an entry depends on what the flags say of the goroutine,
\* and that Stop reaches every syncer it should depends on NoOrphanWorker.
SyncerInv == FlagsMatchWorker /\ NoOrphanWorker /\ OnlyNeededSyncersRun

\* Nothing that SyncerInv speaks of changes.
LEMMA SyncerInvUnchanged ==
    ASSUME SyncerInv, UNCHANGED <<svcPortMap, syncerMap, stopped, shuttingDown,
                                  closed, pc>>
    PROVE  SyncerInv'
BY DEF SyncerInv, FlagsMatchWorker, NoOrphanWorker, OnlyNeededSyncersRun,
       Running, NeededKeys

\* A goroutine that goes from one point of its loop to another.
LEMMA SyncerInvLoop ==
    ASSUME TypeOK, SyncerInv, NEW o \in Syncers, Running(o),
           NEW l \in {"sync", "ensure", "endpoints", "select"},
           pc' = [pc EXCEPT ![o] = l],
           UNCHANGED <<svcPortMap, syncerMap, stopped, shuttingDown, closed>>
    PROVE  SyncerInv'
<1>1. \A u \in Syncers : Running(u)' <=> Running(u)
  BY DEF TypeOK, Running
<1>. QED
  BY <1>1 DEF SyncerInv, FlagsMatchWorker, NoOrphanWorker,
              OnlyNeededSyncersRun, NeededKeys

\* EnsureSyncers starts a goroutine only for a port that has none, and stops
\* those of the ports it removes.
LEMMA EnsureSyncersInv ==
    ASSUME TypeOK, SyncerInv, NEW s \in Services, NEW target \in SUBSET Ports,
           EnsureSyncers(s, target)
    PROVE  SyncerInv'
<1> DEFINE removes == RemovedKeys(s, target)
           adds    == {s} \X (target \ svcPortMap[s])
           missing == {k \in adds : syncerMap[k] = None}
           toStop  == SyncersOf(removes) \ stopped
           idle    == SyncersOf(adds) \cap stopped
<1>1. /\ removes \in SUBSET Keys /\ adds \in SUBSET Keys
      /\ \A k \in Keys : k \in removes
             <=> k[1] = s /\ k[2] \in svcPortMap[s] /\ k[2] \notin target
      /\ \A k \in adds : k[1] = s /\ k[2] \in target
  BY DEF TypeOK, Keys, RemovedKeys
<1> HIDE DEF removes, adds
<1>2. PICK fresh \in [missing -> Generations] :
        LET made   == {<<k, fresh[k]>> : k \in missing}
            starts == made \cup Startable(idle)
        IN /\ \A o \in made : pc[o] = "none"
           /\ svcPortMap' = [svcPortMap EXCEPT ![s] = target]
           /\ syncerMap' = [k \in Keys |-> IF k \in missing THEN fresh[k]
                                           ELSE syncerMap[k]]
           /\ stopped' = (stopped \cup toStop) \ starts
           /\ shuttingDown' = (shuttingDown \cup toStop) \ made
           /\ closed' = (closed \cup toStop) \ starts
           /\ pc' = [o \in Syncers |-> IF o \in starts THEN "sync" ELSE pc[o]]
  BY DEF EnsureSyncers, removes, adds
<1> DEFINE made   == {<<k, fresh[k]>> : k \in missing}
           starts == made \cup Startable(idle)
\* What each of the sets of objects is.
<1>3. \A o \in Syncers : o \in toStop
         <=> o[1] \in removes /\ syncerMap[o[1]] = o[2] /\ o \notin stopped
  BY <1>1, SyncersOfMembers
<1>4. \A o \in Syncers : o \in idle
         <=> o[1] \in adds /\ syncerMap[o[1]] = o[2] /\ o \in stopped
  BY <1>1, SyncersOfMembers
<1>5. \A o \in Syncers : o \in made
         <=> o[1] \in missing /\ fresh[o[1]] = o[2]
  BY <1>1, SyncerParts
<1>6. \A k \in Keys : k \in missing <=> k \in adds /\ syncerMap[k] = None
  OBVIOUS
<1> HIDE DEF toStop, idle, missing
<1>7. \A o \in Syncers : o \in starts
         <=> o \in made \/ (o \in idle /\ o \notin shuttingDown)
  BY DEF Startable
<1>8. /\ \A o \in Syncers : o \in stopped'
             <=> (o \in stopped \/ o \in toStop) /\ o \notin starts
      /\ \A o \in Syncers : o \in shuttingDown'
             <=> (o \in shuttingDown \/ o \in toStop) /\ o \notin made
      /\ \A o \in Syncers : o \in closed'
             <=> (o \in closed \/ o \in toStop) /\ o \notin starts
      /\ \A o \in Syncers : Running(o)' <=> Running(o) \/ o \in starts
      /\ \A k \in Keys : syncerMap'[k] = IF k \in missing THEN fresh[k]
                                         ELSE syncerMap[k]
      /\ \A t \in Services : svcPortMap'[t] = IF t = s THEN target
                                              ELSE svcPortMap[t]
  BY <1>2 DEF Running, TypeOK
<1> HIDE DEF made, starts
\* A port without an entry has no goroutine, so a made object is not running.
<1>9. \A o \in Syncers : Running(o) => syncerMap[o[1]] = o[2]
                                       /\ o[1] \notin missing
  BY <1>6, SyncerParts, ConstantsAssumption DEF SyncerInv, NoOrphanWorker
<1>10. \A o \in Syncers : o \in made => ~Running(o) /\ o \in stopped
                                        /\ o \notin shuttingDown
  BY <1>5, <1>9 DEF SyncerInv, FlagsMatchWorker
<1>11. FlagsMatchWorker'
  <2> SUFFICES ASSUME NEW o \in Syncers
               PROVE  /\ o \notin stopped' => Running(o)' /\ o \notin closed'
                      /\ o \in shuttingDown' <=> Running(o)' /\ o \in stopped'
    BY DEF FlagsMatchWorker
  <2>1. /\ o \notin stopped => Running(o) /\ o \notin closed
        /\ o \in shuttingDown <=> Running(o) /\ o \in stopped
    BY DEF SyncerInv, FlagsMatchWorker
  <2>2. o \in toStop => o \notin stopped /\ o \notin starts
    BY <1>3, <1>4, <1>7, <1>10
  <2>. QED
    BY <1>4, <1>7, <1>8, <1>10, <2>1, <2>2
<1>12. NoOrphanWorker'
  <2> SUFFICES ASSUME NEW o \in Syncers, Running(o)'
               PROVE  syncerMap'[o[1]] = o[2]
    BY DEF NoOrphanWorker
  <2>1. CASE Running(o)
    BY <1>8, <1>9, <2>1, SyncerParts
  <2>2. CASE o \in made
    BY <1>5, <1>8, <2>2, SyncerParts
  <2>3. CASE o \in idle
    <3>1. o[1] \notin missing
      BY <1>4, <1>6, <2>3, SyncerParts, ConstantsAssumption
    <3>. QED
      BY <1>4, <1>8, <2>3, <3>1, SyncerParts
  <2>. QED
    BY <1>7, <1>8, <2>1, <2>2, <2>3
<1>13. OnlyNeededSyncersRun'
  <2> SUFFICES ASSUME NEW o \in Syncers, o \notin stopped'
               PROVE  o[1][2] \in svcPortMap'[o[1][1]]
    <3>1. \A o \in Syncers : o[1] = <<o[1][1], o[1][2]>> /\ o[1][1] \in Services
      BY SyncerParts
    <3>. QED
      BY <3>1 DEF OnlyNeededSyncersRun, NeededKeys
  <2>1. o[1] \in Keys /\ o[1][1] \in Services
    BY SyncerParts
  <2>2. CASE o \in starts
    <3>1. o[1] \in adds
      BY <1>4, <1>5, <1>6, <1>7, <2>1, <2>2
    <3>. QED
      BY <1>1, <1>8, <2>1, <3>1
  <2>3. CASE o \notin starts
    <3>1. o \notin stopped /\ o \notin toStop
      BY <1>8, <2>3
    <3>2. o[1][2] \in svcPortMap[o[1][1]] /\ syncerMap[o[1]] = o[2]
      BY <3>1 DEF SyncerInv, FlagsMatchWorker, NoOrphanWorker,
                  OnlyNeededSyncersRun, NeededKeys
    <3>3. o[1] \notin removes
      BY <1>3, <3>1, <3>2
    <3>. QED
      BY <1>1, <1>8, <2>1, <3>2, <3>3
  <2>. QED
    BY <2>2, <2>3
<1>. QED
  BY <1>11, <1>12, <1>13 DEF SyncerInv

\* Stop on syncers of syncerMap, with svcPortMap left alone or emptied for the
\* service whose syncers are stopped.
LEMMA StopInv ==
    ASSUME TypeOK, SyncerInv, NEW keys \in SUBSET Keys, Stop(SyncersOf(keys)),
           UNCHANGED <<syncerMap, pc>>,
           \A o \in Syncers : o[1] \in NeededKeys(o[1][1]) =>
               o[1] \in keys \/ o[1] \in NeededKeys(o[1][1])'
    PROVE  SyncerInv'
<1>1. \A o \in Syncers : o \in SyncersOf(keys)
         <=> o[1] \in keys /\ syncerMap[o[1]] = o[2]
  BY SyncersOfMembers
<1>2. \A o \in Syncers : Running(o)' <=> Running(o)
  BY DEF Running
<1>3. FlagsMatchWorker'
  BY <1>2 DEF SyncerInv, FlagsMatchWorker, Stop
<1>4. NoOrphanWorker'
  BY <1>2 DEF SyncerInv, NoOrphanWorker
<1>5. OnlyNeededSyncersRun'
  <2> SUFFICES ASSUME NEW o \in Syncers, o \notin stopped'
               PROVE  o[1] \in NeededKeys(o[1][1])'
    BY DEF OnlyNeededSyncersRun
  <2>1. o \notin stopped /\ o \notin SyncersOf(keys)
    BY DEF Stop
  <2>2. o[1] \in NeededKeys(o[1][1]) /\ syncerMap[o[1]] = o[2]
    BY <2>1 DEF SyncerInv, FlagsMatchWorker, NoOrphanWorker,
                OnlyNeededSyncersRun
  <2>. QED
    BY <1>1, <2>1, <2>2
<1>. QED
  BY <1>3, <1>4, <1>5 DEF SyncerInv

\* serviceWorker keeps the flags, the map and the goroutines consistent.
LEMMA WorkerInv == TypeOK /\ SyncerInv /\ Worker => SyncerInv'
<1> SUFFICES ASSUME TypeOK, SyncerInv, Worker PROVE SyncerInv'
  OBVIOUS
<1>1. ASSUME NEW s \in Services, WorkerGet(s) PROVE SyncerInv'
  BY <1>1, SyncerInvUnchanged DEF WorkerGet, mapVars, stateVars, loopVars
<1>2. CASE WorkerRead
  BY <1>2, SyncerInvUnchanged DEF WorkerRead, mapVars, stateVars, loopVars
<1>3. CASE WorkerEnsure
  <2>1. processing \in Services /\ workerPorts \in SUBSET Ports
    BY <1>3 DEF WorkerEnsure, TypeOK
  <2>. QED
    BY <1>3, <2>1, EnsureSyncersInv DEF WorkerEnsure
<1>4. CASE WorkerStop
  <2>1. processing \in Services
    BY <1>4 DEF WorkerStop, TypeOK
  <2>2. \A t \in Services : NeededKeys(t)' = IF t = processing THEN {}
                                             ELSE NeededKeys(t)
    BY <1>4, <2>1 DEF WorkerStop, NeededKeys, TypeOK
  <2>3. \A o \in Syncers : o[1][1] \in Services
    BY SyncerParts
  <2>4. \A o \in Syncers : o[1] \in NeededKeys(o[1][1]) =>
            o[1] \in NeededKeys(processing) \/ o[1] \in NeededKeys(o[1][1])'
    BY <2>2, <2>3
  <2>. QED
    BY <1>4, <2>1, <2>4, NeededKeysType, StopInv DEF WorkerStop, loopVars
<1>. QED
  BY <1>1, <1>2, <1>3, <1>4 DEF Worker

\* So does every step of the loop of a syncer, its exit included.
LEMMA LoopInv ==
    ASSUME TypeOK, SyncerInv, NEW o \in Syncers, Syncer(o)
    PROVE  SyncerInv'
<1> USE DEF mapVars, stateVars
<1>1. CASE ReceiveClosed(o)
  <2>1. o \in closed /\ o \in stopped
    BY <1>1 DEF ReceiveClosed, SyncerInv, FlagsMatchWorker
  <2>2. \A u \in Syncers : Running(u)' <=> Running(u) /\ u # o
    BY <1>1 DEF ReceiveClosed, Running, TypeOK
  <2>. QED
    BY <1>1, <2>1, <2>2 DEF ReceiveClosed, SyncerInv, FlagsMatchWorker,
       NoOrphanWorker, OnlyNeededSyncersRun, NeededKeys
<1>2. ASSUME ~ReceiveClosed(o)
      PROVE  /\ Running(o)
             /\ \E l \in {"sync", "ensure", "endpoints", "select"} :
                    pc' = [pc EXCEPT ![o] = l]
             /\ UNCHANGED <<mapVars, stateVars>>
  BY <1>2 DEF Syncer, SyncBegin, SyncEnsure, SyncEndpoints, ReceiveSignal,
              RetryFires, SyncReturns, Running
<1>. QED
  BY <1>1, <1>2, SyncerInvLoop

\* So does the garbage collection: the second look at shuttingDown, under the
\* lock, is what keeps the entry of a live goroutine.
LEMMA GCInv == TypeOK /\ SyncerInv /\ GC => SyncerInv'
<1> SUFFICES ASSUME TypeOK, SyncerInv, GC PROVE SyncerInv'
  OBVIOUS
<1>1. ASSUME NEW k \in Keys, GCSyncer(k) PROVE SyncerInv'
  <2>1. CASE ~Collectable(k)
    BY <1>1, <2>1, SyncerInvUnchanged DEF GCSyncer, stateVars, loopVars
  <2>2. CASE Collectable(k)
    <3>1. \A o \in Syncers : Running(o) => o # <<k, syncerMap[k]>>
      BY <2>2 DEF Collectable, SyncerInv, FlagsMatchWorker
    <3>2. \A o \in Syncers : Running(o) => o[1] # k
      BY <3>1, SyncerParts DEF SyncerInv, NoOrphanWorker
    <3>3. \A o \in Syncers : Running(o) => syncerMap'[o[1]] = o[2]
      BY <1>1, <3>2, SyncerParts DEF GCSyncer, SyncerInv, NoOrphanWorker, TypeOK
    <3>. QED
      BY <1>1, <3>3 DEF GCSyncer, stateVars, loopVars, SyncerInv, Running,
         FlagsMatchWorker, NoOrphanWorker, OnlyNeededSyncersRun, NeededKeys
  <2>. QED
    BY <2>1, <2>2
<1>2. ASSUME GCStart \/ GCList \/ GCDiff \/ GCEnd \/ \E k \in Keys : GCDelete(k)
      PROVE  UNCHANGED <<mapVars, stateVars, loopVars>>
  BY <1>2 DEF GCStart, GCList, GCDiff, GCEnd, GCDelete
<1>. QED
  BY <1>1, <1>2, SyncerInvUnchanged DEF GC, mapVars, stateVars, loopVars

\* So does manager.ShutDown.
LEMMA ShutDownInv == TypeOK /\ SyncerInv /\ ShutDown => SyncerInv'
<1> SUFFICES ASSUME TypeOK, SyncerInv, ShutDown PROVE SyncerInv'
  OBVIOUS
<1>1. CASE QueueShutDown
  BY <1>1, SyncerInvUnchanged DEF QueueShutDown, mapVars, stateVars, loopVars
<1>2. CASE ManagerShutDown
  BY <1>2, StopInv, SyncerParts DEF ManagerShutDown, mapVars, loopVars
<1>. QED
  BY <1>1, <1>2 DEF ShutDown

\* So do the cluster and a restart, after which there is no goroutine.
LEMMA EnvironmentInv == TypeOK /\ SyncerInv /\ Environment => SyncerInv'
<1> SUFFICES ASSUME TypeOK, SyncerInv, Environment PROVE SyncerInv'
  OBVIOUS
<1>1. CASE Restart
  <2>1. \A o \in Syncers : o \in stopped' /\ o \notin shuttingDown'
                           /\ ~Running(o)'
    BY <1>1 DEF Restart, Running
  <2>. QED
    BY <2>1 DEF SyncerInv, FlagsMatchWorker, NoOrphanWorker,
                OnlyNeededSyncersRun
<1>2. ASSUME ~Restart PROVE UNCHANGED <<mapVars, stateVars, loopVars>>
  BY <1>2 DEF Environment, ServiceChange, IngressChange, EndpointsChange,
              CloseStopCh
<1>. QED
  BY <1>1, <1>2, SyncerInvUnchanged DEF mapVars, stateVars, loopVars

\* So do the informers and the delay of the work queue.
LEMMA EventsInv ==
    ASSUME TypeOK, SyncerInv, NEW s \in Services,
           Resync(s) \/ Informers(s) \/ DelayOver(s)
    PROVE  SyncerInv'
<1>1. UNCHANGED <<mapVars, stateVars, pc>>
  BY DEF Resync, Informers, HandleServiceEvent, HandleEndpointsEvent,
         DelayOver, loopVars
<1>. QED
  BY <1>1, SyncerInvUnchanged DEF mapVars, stateVars

\* SyncerInv holds in every reachable state of every interleaving.
LEMMA SyncersConsistent == Spec => []SyncerInv
<1>1. Init => SyncerInv
  BY DEF Init, SyncerInv, FlagsMatchWorker, NoOrphanWorker,
         OnlyNeededSyncersRun, Running
<1>2. TypeOK /\ SyncerInv /\ [Next]_vars => SyncerInv'
  <2>1. SyncerInv /\ UNCHANGED vars => SyncerInv'
    BY SyncerInvUnchanged DEF vars, mapVars, stateVars, loopVars
  <2>2. TypeOK /\ SyncerInv /\ Next => SyncerInv'
    BY EnvironmentInv, EventsInv, WorkerInv, LoopInv, GCInv, ShutDownInv
       DEF Next
  <2>. QED
    BY <2>1, <2>2
<1>. QED
  BY <1>1, <1>2, TypeCorrect, PTL DEF Spec

\* The flags of every syncer tell the truth about its goroutine and channel,
\* whatever EnsureSyncers, StopSyncer, GC, ShutDown and the goroutines do in
\* whatever order: Sync never sends on a closed channel.
THEOREM FlagsTruthful == Spec => []FlagsMatchWorker
BY SyncersConsistent, PTL DEF SyncerInv

\* GC never drops the entry of a syncer that has a goroutine.
THEOREM WorkersReachable == Spec => []NoOrphanWorker
BY SyncersConsistent, PTL DEF SyncerInv

\* A syncer that was not told to stop is one that svcPortMap asks for.
THEOREM NeededOnly == Spec => []OnlyNeededSyncersRun
BY SyncersConsistent, PTL DEF SyncerInv

\* At most one goroutine works on the NEG of a service port at any time.
THEOREM OneWorker == Spec => []OneWorkerPerPort
<1>1. SyncerInv => OneWorkerPerPort
  <2> SUFFICES ASSUME SyncerInv, NEW k \in Keys, NEW g \in Generations,
                      NEW h \in Generations, Running(<<k, g>>),
                      Running(<<k, h>>)
               PROVE  g = h
    BY DEF OneWorkerPerPort
  <2>1. syncerMap[k] = g /\ syncerMap[k] = h
    BY SyncerParts DEF SyncerInv, NoOrphanWorker
  <2>. QED
    BY <2>1
<1>. QED
  BY <1>1, SyncersConsistent, PTL
=============================================================================
