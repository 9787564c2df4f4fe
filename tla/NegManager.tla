------------------------------ MODULE NegManager ------------------------------
(***************************************************************************)
(* The network endpoint group (NEG) controller: the service work queue and *)
(* its worker, the syncer manager, the goroutine every syncer runs, the    *)
(* periodic garbage collection, shutdown and restart.                      *)
(* Source: pkg/networkendpointgroup/{controller,manager,syncer}.go.        *)
(*                                                                         *)
(* Every critical section of manager.mu is one action.  Inside one, the    *)
(* only thing another goroutine can change is a syncer that leaves its     *)
(* loop (shuttingDown becomes false); each section looks at that flag once *)
(* per syncer, so the exit can be moved before or after the section.       *)
(* What sync() does with the endpoints of a NEG is the subject of NegSync; *)
(* here a NEG either exists or not, and a sync succeeds or fails.          *)
(***************************************************************************)
EXTENDS Naturals, FiniteSets

CONSTANTS
    Services,     \* service keys, "namespace/name"
    Ports,        \* target ports
    Generations,  \* identities of syncer objects made for one service port
    None,         \* no syncer in syncerMap / no item being processed
    MaxRetries,   \* maxRetries: 15 in the code
    MaxChanges,   \* bound: changes of services, ingresses and endpoints
    MaxFaults,    \* bound: cloud calls that fail
    MaxCrashes,   \* bound: restarts of the process
    MaxStops      \* bound: closings of the stop channel

ASSUME ConstantsAssumption ==
    /\ None \notin Services
    /\ None \notin Generations
    /\ MaxRetries \in Nat
    /\ MaxChanges \in Nat
    /\ MaxFaults \in Nat
    /\ MaxCrashes \in Nat
    /\ MaxStops \in Nat

\* A service port: what syncerMap is keyed by, and what names a NEG.
Keys == Services \X Ports

\* A syncer object: the service port it was made for and its identity.
Syncers == Keys \X Generations

VARIABLES
    \* The informers' stores, and events not yet handed to the handlers.
    svc,           \* is the service there, and is it annotated for NEG
    used,          \* target ports of the service that ingresses refer to
    endpoints,     \* services that have an Endpoints object
    svcEvents,     \* services with an undelivered service or ingress event
    epEvents,      \* services with an undelivered Endpoints event
    \* serviceQueue and the goroutine that serves it.
    dirty,         \* keys to process
    processing,    \* the key between Get and Done
    delayed,       \* keys waiting for AddRateLimited's delay
    requeues,      \* NumRequeues
    workerPc,      \* where serviceWorker is
    workerPorts,   \* the target ports it read from the stores
    \* syncerManager.
    svcPortMap,    \* ports that need a NEG; {} stands for no entry as well
    syncerMap,     \* the syncer object of each service port
    \* The syncer objects.
    stopped,
    shuttingDown,
    closed,        \* syncCh is closed
    signal,        \* the one-element buffer of syncCh is full
    retryCount,
    timer,         \* retryCh will fire
    pc,            \* where the goroutine is; "none" when there is none
    \* The goroutine running gc.
    gcPc,
    gcKeys,        \* stopped syncers still to look at
    gcNames,       \* NEGs still to delete
    \* The cloud, the life of the process, and the counters behind the bounds.
    negs,          \* service ports whose NEG exists
    phase,         \* how far the shutdown has come
    changes, faults, crashes, stops

storeVars  == <<svc, used, endpoints>>
eventVars  == <<svcEvents, epEvents>>
queueVars  == <<dirty, processing, delayed, requeues, workerPc, workerPorts>>
mapVars    == <<svcPortMap, syncerMap>>
stateVars  == <<stopped, shuttingDown, closed>>
loopVars   == <<signal, retryCount, timer, pc>>
gcVars     == <<gcPc, gcKeys, gcNames>>
budgetVars == <<changes, faults, crashes, stops>>
vars == <<storeVars, eventVars, queueVars, mapVars, stateVars, loopVars,
          gcVars, negs, phase, budgetVars>>

TypeOK ==
    /\ svc \in [Services -> {"absent", "plain", "neg"}]
    /\ used \in [Services -> SUBSET Ports]
    /\ endpoints \in SUBSET Services
    /\ svcEvents \in SUBSET Services
    /\ epEvents \in SUBSET Services
    /\ dirty \in SUBSET Services
    /\ processing \in Services \cup {None}
    /\ delayed \in SUBSET Services
    /\ requeues \in [Services -> 0..MaxRetries]
    /\ workerPc \in {"idle", "read", "ensure", "stop"}
    /\ workerPc # "idle" => processing \in Services
    /\ workerPorts \in SUBSET Ports
    /\ svcPortMap \in [Services -> SUBSET Ports]
    /\ syncerMap \in [Keys -> Generations \cup {None}]
    /\ stopped \in SUBSET Syncers
    /\ shuttingDown \in SUBSET Syncers
    /\ closed \in SUBSET Syncers
    /\ signal \in SUBSET Syncers
    /\ retryCount \in [Syncers -> 0..(MaxRetries + 1)]
    /\ timer \in SUBSET Syncers
    /\ pc \in [Syncers -> {"none", "sync", "ensure", "endpoints", "select"}]
    /\ gcPc \in {"idle", "syncers", "diff", "delete"}
    /\ gcKeys \in SUBSET Keys
    /\ gcNames \in SUBSET Keys
    /\ negs \in SUBSET Keys
    /\ phase \in {"running", "stopping", "queueShut", "shut"}
    /\ changes \in 0..MaxChanges
    /\ faults \in 0..MaxFaults
    /\ crashes \in 0..MaxCrashes
    /\ stops \in 0..MaxStops

\* The add events of the informers' first list, for services and ingresses.
InitialEvents(svcState, usedPorts) ==
    {s \in Services : svcState[s] # "absent" \/ usedPorts[s] # {}}

\* A first start in any cluster: nothing in memory, no goroutine; NEGs of an
\* earlier process may be there.
Init ==
    /\ svc \in [Services -> {"absent", "plain", "neg"}]
    /\ used \in [Services -> SUBSET Ports]
    /\ endpoints \in SUBSET Services
    /\ svcEvents = InitialEvents(svc, used)
    /\ epEvents = endpoints
    /\ dirty = {} /\ processing = None /\ delayed = {}
    /\ requeues = [s \in Services |-> 0]
    /\ workerPc = "idle" /\ workerPorts = {}
    /\ svcPortMap = [s \in Services |-> {}]
    /\ syncerMap = [k \in Keys |-> None]
    /\ stopped = Syncers /\ shuttingDown = {} /\ closed = {}
    /\ signal = {} /\ timer = {}
    /\ retryCount = [o \in Syncers |-> 0]
    /\ pc = [o \in Syncers |-> "none"]
    /\ gcPc = "idle" /\ gcKeys = {} /\ gcNames = {}
    /\ phase = "running"
    /\ negs \in SUBSET Keys
    /\ changes = 0 /\ faults = 0 /\ crashes = 0 /\ stops = 0

-----------------------------------------------------------------------------
\* The cluster changes.  Informers run until the stop channel is closed.

InformersRun == phase = "running"

\* The service is created, annotated, stripped of its annotation or deleted.
ServiceChange(s) ==
    /\ InformersRun
    /\ changes < MaxChanges
    /\ \E v \in {"absent", "plain", "neg"} \ {svc[s]} :
           svc' = [svc EXCEPT ![s] = v]
    /\ svcEvents' = svcEvents \cup {s}
    /\ changes' = changes + 1
    /\ UNCHANGED <<used, endpoints, epEvents, queueVars, mapVars, stateVars,
                   loopVars, gcVars, negs, phase, faults, crashes, stops>>

\* Ingresses refer to other ports of the service.  gatherIngressServiceKeys
\* returns no key for the tombstone of a deleted ingress: its event is lost.
IngressChange(s) ==
    /\ InformersRun
    /\ changes < MaxChanges
    /\ \E ports \in (SUBSET Ports) \ {used[s]} :
           /\ used' = [used EXCEPT ![s] = ports]
           /\ \/ svcEvents' = svcEvents \cup {s}
              \/ ports \subseteq used[s] /\ UNCHANGED svcEvents
    /\ changes' = changes + 1
    /\ UNCHANGED <<svc, endpoints, epEvents, queueVars, mapVars, stateVars,
                   loopVars, gcVars, negs, phase, faults, crashes, stops>>

\* The Endpoints object appears, disappears or has other addresses.
EndpointsChange(s) ==
    /\ InformersRun
    /\ changes < MaxChanges
    /\ \/ endpoints' = endpoints \cup {s}
       \/ endpoints' = endpoints \ {s}
    /\ epEvents' = epEvents \cup {s}
    /\ changes' = changes + 1
    /\ UNCHANGED <<svc, used, svcEvents, queueVars, mapVars, stateVars,
                   loopVars, gcVars, negs, phase, faults, crashes, stops>>

\* Every resyncPeriod the informers deliver an update for each object.
Resync(s) ==
    /\ InformersRun
    /\ svcEvents' = svcEvents \cup (InitialEvents(svc, used) \cap {s})
    /\ epEvents' = epEvents \cup (endpoints \cap {s})
    /\ UNCHANGED <<storeVars, queueVars, mapVars, stateVars, loopVars, gcVars,
                   negs, phase, budgetVars>>

-----------------------------------------------------------------------------
\* The event handlers.

\* workqueue.Add: ignored once the queue is shut down.
Add(s) == IF phase \in {"running", "stopping"} THEN dirty \cup {s} ELSE dirty

\* enqueueService, from the service and ingress handlers.
HandleServiceEvent(s) ==
    /\ InformersRun
    /\ s \in svcEvents
    /\ svcEvents' = svcEvents \ {s}
    /\ dirty' = Add(s)
    /\ UNCHANGED <<storeVars, epEvents, processing, delayed, requeues,
                   workerPc, workerPorts, mapVars, stateVars, loopVars,
                   gcVars, negs, phase, budgetVars>>

\* The syncer objects that syncerMap holds for the given service ports.
SyncersOf(keys) ==
    {<<k, syncerMap[k]>> : k \in {j \in keys : syncerMap[j] # None}}

\* The service ports of a service that svcPortMap says need a NEG.
NeededKeys(s) == {s} \X svcPortMap[s]

\* Mutant of HandleEndpointsEvent: the test of IsStopped is inverted.
HandleEndpointsEventInverted(s) ==
    /\ InformersRun
    /\ s \in epEvents
    /\ epEvents' = epEvents \ {s}
    /\ signal' = signal \cup (SyncersOf(NeededKeys(s)) \cap stopped)
    /\ UNCHANGED <<storeVars, svcEvents, queueVars, mapVars, stateVars,
                   retryCount, timer, pc, gcVars, negs, phase, budgetVars>>

\* processEndpoint: manager.Sync signals the running syncers of the service;
\* the send does not block, so a second signal is absorbed by the buffer.
HandleEndpointsEvent(s) ==
    /\ InformersRun
    /\ s \in epEvents
    /\ epEvents' = epEvents \ {s}
    /\ signal' = signal \cup (SyncersOf(NeededKeys(s)) \ stopped)
    /\ UNCHANGED <<storeVars, svcEvents, queueVars, mapVars, stateVars,
                   retryCount, timer, pc, gcVars, negs, phase, budgetVars>>

\* AddRateLimited's delay is over.
DelayOver(s) ==
    /\ s \in delayed
    /\ delayed' = delayed \ {s}
    /\ dirty' = Add(s)
    /\ UNCHANGED <<storeVars, eventVars, processing, requeues, workerPc,
                   workerPorts, mapVars, stateVars, loopVars, gcVars, negs,
                   phase, budgetVars>>

-----------------------------------------------------------------------------
\* serviceWorker.

\* Get: also after ShutDown, until the queue is drained.
WorkerGet(s) ==
    /\ workerPc = "idle"
    /\ s \in dirty
    /\ dirty' = dirty \ {s}
    /\ processing' = s
    /\ workerPc' = "read"
    /\ UNCHANGED <<storeVars, eventVars, delayed, requeues, workerPorts,
                   mapVars, stateVars, loopVars, gcVars, negs, phase,
                   budgetVars>>

\* Mutant of WorkerRead: a deleted service is skipped instead of stopped.
WorkerReadSkipsDeleted ==
    /\ workerPc = "read"
    /\ CASE svc[processing] = "neg" ->
              /\ workerPc' = "ensure" /\ workerPorts' = used[processing]
              /\ UNCHANGED processing
         [] svc[processing] = "plain" ->
              workerPc' = "stop" /\ workerPorts' = {} /\ UNCHANGED processing
         [] OTHER ->
              workerPc' = "idle" /\ workerPorts' = {} /\ processing' = None
    /\ UNCHANGED <<storeVars, eventVars, dirty, delayed, requeues, mapVars,
                   stateVars, loopVars, gcVars, negs, phase, budgetVars>>

\* processService reads the stores and decides what to ask of the manager.
WorkerRead ==
    /\ workerPc = "read"
    /\ IF svc[processing] = "neg"
       THEN workerPc' = "ensure" /\ workerPorts' = used[processing]
       ELSE workerPc' = "stop" /\ workerPorts' = {}
    /\ UNCHANGED <<storeVars, eventVars, dirty, processing, delayed, requeues,
                   mapVars, stateVars, loopVars, gcVars, negs, phase,
                   budgetVars>>

\* handleErr and Done, with which every call of processService ends.
HandleErr(s, failed) ==
    /\ IF failed /\ requeues[s] < MaxRetries
       THEN /\ requeues' = [requeues EXCEPT ![s] = @ + 1]
            /\ delayed' = IF phase \in {"running", "stopping"}
                          THEN delayed \cup {s} ELSE delayed
       ELSE /\ requeues' = [requeues EXCEPT ![s] = 0]
            /\ UNCHANGED delayed
    /\ processing' = None
    /\ workerPc' = "idle"
    /\ workerPorts' = {}
    /\ UNCHANGED dirty

\* Mutant of RemovedKeys: computed after svcPortMap has been overwritten.
RemovedKeysTooLate(s, target) == {s} \X (target \ target)

\* The service ports EnsureSyncers takes away from a service.
RemovedKeys(s, target) == {s} \X (svcPortMap[s] \ target)

\* Mutant of Startable: Start does not look at shuttingDown.
StartableAnyway(objs) == objs

\* Start refuses a syncer that is still shutting down.
Startable(objs) == objs \ shuttingDown

\* manager.EnsureSyncers: record the ports, stop the syncers of the removed
\* ones, make missing syncers for the added ones and start those that are
\* stopped.  The error of a Start that refuses is all the caller learns.
EnsureSyncers(s, target) ==
    LET adds    == {s} \X (target \ svcPortMap[s])
        missing == {k \in adds : syncerMap[k] = None}
        toStop  == SyncersOf(RemovedKeys(s, target)) \ stopped
        idle    == SyncersOf(adds) \cap stopped
    IN \E fresh \in [missing -> Generations] :
        LET made   == {<<k, fresh[k]>> : k \in missing}
            starts == made \cup Startable(idle)
        IN /\ \A o \in made : pc[o] = "none"
           /\ svcPortMap' = [svcPortMap EXCEPT ![s] = target]
           /\ syncerMap' = [k \in Keys |-> IF k \in missing THEN fresh[k]
                                           ELSE syncerMap[k]]
           /\ stopped' = (stopped \cup toStop) \ starts
           /\ shuttingDown' = (shuttingDown \cup toStop) \ made
           /\ closed' = (closed \cup toStop) \ starts
           /\ signal' = signal \ starts
           /\ retryCount' = [o \in Syncers |-> IF o \in made THEN 0
                                               ELSE retryCount[o]]
           /\ timer' = timer \ starts
           /\ pc' = [o \in Syncers |-> IF o \in starts THEN "sync" ELSE pc[o]]
           /\ HandleErr(s, idle # Startable(idle))

WorkerEnsure ==
    /\ workerPc = "ensure"
    /\ EnsureSyncers(processing, workerPorts)
    /\ UNCHANGED <<storeVars, eventVars, gcVars, negs, phase, budgetVars>>

\* syncer.Stop on each of the given syncers.
Stop(objs) ==
    /\ stopped' = stopped \cup objs
    /\ shuttingDown' = shuttingDown \cup (objs \ stopped)
    /\ closed' = closed \cup (objs \ stopped)

\* Mutant of WorkerStop: the entry is deleted before the syncers are stopped.
WorkerStopDeletesFirst ==
    /\ workerPc = "stop"
    /\ Stop({})
    /\ svcPortMap' = [svcPortMap EXCEPT ![processing] = {}]
    /\ HandleErr(processing, FALSE)
    /\ UNCHANGED <<storeVars, eventVars, syncerMap, loopVars, gcVars, negs,
                   phase, budgetVars>>

\* manager.StopSyncer: the service is gone or no longer wants NEGs.
WorkerStop ==
    /\ workerPc = "stop"
    /\ Stop(SyncersOf(NeededKeys(processing)))
    /\ svcPortMap' = [svcPortMap EXCEPT ![processing] = {}]
    /\ HandleErr(processing, FALSE)
    /\ UNCHANGED <<storeVars, eventVars, syncerMap, loopVars, gcVars, negs,
                   phase, budgetVars>>

-----------------------------------------------------------------------------
\* The goroutine of a syncer.

CallFails ==
    /\ faults < MaxFaults
    /\ faults' = faults + 1

\* sync() has returned: arm the retry timer or reset the count, then select.
SyncReturns(o, failed) ==
    /\ pc' = [pc EXCEPT ![o] = "select"]
    /\ IF ~failed
       THEN /\ retryCount' = [retryCount EXCEPT ![o] = 0]
            /\ timer' = timer \ {o}
       ELSE IF retryCount[o] > MaxRetries
            THEN timer' = timer \ {o} /\ UNCHANGED retryCount
            ELSE /\ retryCount' = [retryCount EXCEPT ![o] = @ + 1]
                 /\ timer' = timer \cup {o}

\* The check at the top of sync(), and the lookup of the Endpoints object.
SyncBegin(o) ==
    /\ pc[o] = "sync"
    /\ IF o \in stopped \cup shuttingDown \/ o[1][1] \notin endpoints
       THEN SyncReturns(o, FALSE)
       ELSE pc' = [pc EXCEPT ![o] = "ensure"] /\ UNCHANGED <<retryCount, timer>>
    /\ UNCHANGED <<storeVars, eventVars, queueVars, mapVars, stateVars, signal,
                   gcVars, negs, phase, budgetVars>>

\* ensureNetworkEndpointGroups: create the NEG if it is not there.  It may
\* be made in one zone and fail in another.
SyncEnsure(o) ==
    /\ pc[o] = "ensure"
    /\ \/ /\ negs' = negs \cup {o[1]}
          /\ pc' = [pc EXCEPT ![o] = "endpoints"]
          /\ UNCHANGED <<retryCount, timer, faults>>
       \/ CallFails /\ SyncReturns(o, TRUE) /\ negs' \in {negs, negs \cup {o[1]}}
    /\ UNCHANGED <<storeVars, eventVars, queueVars, mapVars, stateVars, signal,
                   gcVars, phase, changes, crashes, stops>>

\* The rest of sync(): listing the endpoints of a NEG deleted in the
\* meantime is an error, like any call that fails.
SyncEndpoints(o) ==
    /\ pc[o] = "endpoints"
    /\ \/ o[1] \in negs /\ SyncReturns(o, FALSE) /\ UNCHANGED faults
       \/ o[1] \notin negs /\ SyncReturns(o, TRUE) /\ UNCHANGED faults
       \/ CallFails /\ SyncReturns(o, TRUE)
    /\ UNCHANGED <<storeVars, eventVars, queueVars, mapVars, stateVars, signal,
                   gcVars, negs, phase, changes, crashes, stops>>

\* select: a buffered signal is received even if the channel is closed.
ReceiveSignal(o) ==
    /\ pc[o] = "select"
    /\ o \in signal
    /\ signal' = signal \ {o}
    /\ timer' = timer \ {o}
    /\ pc' = [pc EXCEPT ![o] = "sync"]
    /\ UNCHANGED <<storeVars, eventVars, queueVars, mapVars, stateVars,
                   retryCount, gcVars, negs, phase, budgetVars>>

\* Mutant of ReceiveClosed: shuttingDown is not reset.
ReceiveClosedKeepsFlag(o) ==
    /\ pc[o] = "select"
    /\ o \in closed /\ o \notin signal
    /\ timer' = timer \ {o}
    /\ pc' = [pc EXCEPT ![o] = "none"]
    /\ UNCHANGED <<storeVars, eventVars, queueVars, mapVars, stateVars, signal,
                   retryCount, gcVars, negs, phase, budgetVars>>

\* select: the channel is closed and drained, the goroutine ends.
ReceiveClosed(o) ==
    /\ pc[o] = "select"
    /\ o \in closed /\ o \notin signal
    /\ shuttingDown' = shuttingDown \ {o}
    /\ timer' = timer \ {o}
    /\ pc' = [pc EXCEPT ![o] = "none"]
    /\ UNCHANGED <<storeVars, eventVars, queueVars, mapVars, stopped, closed,
                   signal, retryCount, gcVars, negs, phase, budgetVars>>

\* select: the retry timer fires.
RetryFires(o) ==
    /\ pc[o] = "select"
    /\ o \in timer
    /\ timer' = timer \ {o}
    /\ pc' = [pc EXCEPT ![o] = "sync"]
    /\ UNCHANGED <<storeVars, eventVars, queueVars, mapVars, stateVars, signal,
                   retryCount, gcVars, negs, phase, budgetVars>>

-----------------------------------------------------------------------------
\* gc, every resyncPeriod and right after the start.

\* getAllStoppedSyncerKeys.
GCStart ==
    /\ gcPc = "idle"
    /\ phase = "running"
    /\ gcPc' = "syncers"
    /\ gcKeys' = {k \in Keys : SyncersOf({k}) \cap stopped # {}}
    /\ UNCHANGED <<storeVars, eventVars, queueVars, mapVars, stateVars,
                   loopVars, gcNames, negs, phase, budgetVars>>

\* Mutants of Collectable: shuttingDown is not looked at, or its negation is lost.
CollectableIfStopped(k) == <<k, syncerMap[k]>> \in stopped
CollectableInShutDown(k) == <<k, syncerMap[k]>> \in stopped \cap shuttingDown

\* The condition under which garbageCollectSyncer deletes the entry.
Collectable(k) == <<k, syncerMap[k]>> \in stopped \ shuttingDown

\* Mutant of GCSyncer: trusts what getAllStoppedSyncerKeys saw.
GCSyncerUnchecked(k) ==
    /\ gcPc = "syncers"
    /\ k \in gcKeys
    /\ gcKeys' = gcKeys \ {k}
    /\ syncerMap' = [syncerMap EXCEPT ![k] = None]
    /\ UNCHANGED <<storeVars, eventVars, queueVars, svcPortMap, stateVars,
                   loopVars, gcPc, gcNames, negs, phase, budgetVars>>

\* garbageCollectSyncer: look again, under the lock.
GCSyncer(k) ==
    /\ gcPc = "syncers"
    /\ k \in gcKeys
    /\ gcKeys' = gcKeys \ {k}
    /\ syncerMap' = IF Collectable(k) THEN [syncerMap EXCEPT ![k] = None]
                    ELSE syncerMap
    /\ UNCHANGED <<storeVars, eventVars, queueVars, svcPortMap, stateVars,
                   loopVars, gcPc, gcNames, negs, phase, budgetVars>>

\* garbageCollectNEG: the aggregated list from the cloud.
GCList ==
    /\ gcPc = "syncers"
    /\ gcKeys = {}
    /\ \/ gcPc' = "diff" /\ gcNames' = negs /\ UNCHANGED faults
       \/ CallFails /\ gcPc' = "idle" /\ UNCHANGED gcNames
    /\ UNCHANGED <<storeVars, eventVars, queueVars, mapVars, stateVars,
                   loopVars, gcKeys, negs, phase, changes, crashes, stops>>

\* ... minus the names svcPortMap asks for, under the lock.
GCDiff ==
    /\ gcPc = "diff"
    /\ gcPc' = "delete"
    /\ gcNames' = gcNames \ UNION {NeededKeys(s) : s \in Services}
    /\ UNCHANGED <<storeVars, eventVars, queueVars, mapVars, stateVars,
                   loopVars, gcKeys, negs, phase, budgetVars>>

\* ensureDeleteNetworkEndpointGroup, without the lock: an error of Get is
\* taken for a NEG that does not exist, one of Delete ends the run.
GCDelete(k) ==
    /\ gcPc = "delete"
    /\ k \in gcNames
    /\ \/ /\ negs' = negs \ {k}
          /\ gcNames' = gcNames \ {k}
          /\ UNCHANGED <<gcPc, faults>>
       \/ CallFails /\ gcNames' = gcNames \ {k} /\ UNCHANGED <<gcPc, negs>>
       \/ CallFails /\ gcPc' = "idle" /\ gcNames' = {}
                    /\ negs' \in {negs, negs \ {k}}
    /\ UNCHANGED <<storeVars, eventVars, queueVars, mapVars, stateVars,
                   loopVars, gcKeys, phase, changes, crashes, stops>>

GCEnd ==
    /\ gcPc = "delete"
    /\ gcNames = {}
    /\ gcPc' = "idle"
    /\ UNCHANGED <<storeVars, eventVars, queueVars, mapVars, stateVars,
                   loopVars, gcKeys, gcNames, negs, phase, budgetVars>>

-----------------------------------------------------------------------------
\* Shutdown and restart.

\* The stop channel is closed (LoadBalancerController.Stop).
CloseStopCh ==
    /\ phase = "running"
    /\ stops < MaxStops
    /\ phase' = "stopping"
    /\ stops' = stops + 1
    /\ UNCHANGED <<storeVars, eventVars, queueVars, mapVars, stateVars,
                   loopVars, gcVars, negs, changes, faults, crashes>>

\* Controller.stop: serviceQueue.ShutDown ...
QueueShutDown ==
    /\ phase = "stopping"
    /\ phase' = "queueShut"
    /\ delayed' = {}
    /\ UNCHANGED <<storeVars, eventVars, dirty, processing, requeues, workerPc,
                   workerPorts, mapVars, stateVars, loopVars, gcVars, negs,
                   budgetVars>>

\* ... then manager.ShutDown stops every syncer of syncerMap.
ManagerShutDown ==
    /\ phase = "queueShut"
    /\ phase' = "shut"
    /\ Stop(SyncersOf(Keys))
    /\ UNCHANGED <<storeVars, eventVars, queueVars, mapVars, loopVars, gcVars,
                   negs, budgetVars>>

\* The process dies, or ends after a shutdown, and is started again; the
\* stores are listed anew before the controller runs.
Restart ==
    /\ crashes < MaxCrashes
    /\ crashes' = crashes + 1
    /\ dirty' = {} /\ processing' = None /\ delayed' = {}
    /\ requeues' = [s \in Services |-> 0]
    /\ workerPc' = "idle" /\ workerPorts' = {}
    /\ svcPortMap' = [s \in Services |-> {}]
    /\ syncerMap' = [k \in Keys |-> None]
    /\ stopped' = Syncers /\ shuttingDown' = {} /\ closed' = {}
    /\ signal' = {} /\ timer' = {}
    /\ retryCount' = [o \in Syncers |-> 0]
    /\ pc' = [o \in Syncers |-> "none"]
    /\ gcPc' = "idle" /\ gcKeys' = {} /\ gcNames' = {}
    /\ phase' = "running"
    /\ svcEvents' = InitialEvents(svc, used)
    /\ epEvents' = endpoints
    /\ UNCHANGED <<storeVars, negs, changes, faults, stops>>

-----------------------------------------------------------------------------
Environment ==
    \/ \E s \in Services : ServiceChange(s) \/ IngressChange(s)
                           \/ EndpointsChange(s)
    \/ CloseStopCh
    \/ Restart

Informers(s) == HandleServiceEvent(s) \/ HandleEndpointsEvent(s)

Worker ==
    \/ \E s \in Services : WorkerGet(s)
    \/ WorkerRead \/ WorkerEnsure \/ WorkerStop

Syncer(o) ==
    \/ SyncBegin(o) \/ SyncEnsure(o) \/ SyncEndpoints(o)
    \/ ReceiveSignal(o) \/ ReceiveClosed(o) \/ RetryFires(o)

GC ==
    \/ GCStart \/ GCList \/ GCDiff \/ GCEnd
    \/ \E k \in Keys : GCSyncer(k) \/ GCDelete(k)

ShutDown == QueueShutDown \/ ManagerShutDown

Next ==
    \/ Environment
    \/ \E s \in Services : Resync(s) \/ Informers(s) \/ DelayOver(s)
    \/ Worker
    \/ \E o \in Syncers : Syncer(o)
    \/ GC
    \/ ShutDown

Spec == Init /\ [][Next]_vars

\* Goroutines that can run do run, timers fire, and the informers resync.
\* Nothing is assumed of the cluster's changes, of faults or of restarts.
Fairness ==
    /\ \A s \in Services :
          /\ WF_vars(Resync(s))
          /\ WF_vars(HandleServiceEvent(s))
          /\ WF_vars(HandleEndpointsEvent(s))
          /\ WF_vars(DelayOver(s))
          /\ WF_vars(WorkerGet(s))
    /\ WF_vars(WorkerRead \/ WorkerEnsure \/ WorkerStop)
    /\ \A o \in Syncers : WF_vars(Syncer(o))
    /\ WF_vars(GC)
    /\ WF_vars(ShutDown)

FairSpec == Spec /\ Fairness

-----------------------------------------------------------------------------
\* Properties.

Running(o) == pc[o] # "none"

\* Two goroutines never work on the NEG of one service port: EnsureSyncers
\* makes or starts a syncer only when no goroutine is left for the port,
\* although GC may have dropped the entry of an earlier one.
OneWorkerPerPort ==
    \A k \in Keys : \A g, h \in Generations :
        Running(<<k, g>>) /\ Running(<<k, h>>) => g = h

\* A goroutine can always be reached through syncerMap, so that Stop, Sync
\* and ShutDown find it: garbageCollectSyncer drops no syncer with one.
NoOrphanWorker ==
    \A o \in Syncers : Running(o) => syncerMap[o[1]] = o[2]

\* The flags tell the truth about the goroutine and its channel: a syncer
\* that is not stopped has a goroutine and an open channel (so Sync does not
\* send on a closed one and Stop does not close it twice), and it is shutting
\* down exactly while a stopped one still has its goroutine.
FlagsMatchWorker ==
    \A o \in Syncers :
        /\ o \notin stopped => Running(o) /\ o \notin closed
        /\ o \in shuttingDown <=> Running(o) /\ o \in stopped

\* A syncer that was not told to stop is one svcPortMap asks for: the
\* "canonical indicator" and the syncers never drift apart in that direction.
OnlyNeededSyncersRun ==
    \A o \in Syncers : o \notin stopped => o[1] \in NeededKeys(o[1][1])

\* What the cluster asks for.
Wanted(k) == svc[k[1]] = "neg" /\ k[2] \in used[k[1]]

Settled(s) == svcPortMap[s] = IF svc[s] = "neg" THEN used[s] ELSE {}

\* svcPortMap follows the stores: whatever was read before a change, dropped
\* as a tombstone or lost in a restart, resync and the queue repair it.
PortMapFollowsStores ==
    [](phase = "running") => \A s \in Services : <>[]Settled(s)

\* A NEG nobody wants any more is deleted for good, and its syncer with it.
UnwantedIsCollected ==
    \A k \in Keys :
        ([](phase = "running") /\ <>[]~Wanted(k))
            => <>[](k \notin negs /\ syncerMap[k] = None)

\* The race described in garbageCollectNEG heals: a wanted NEG whose syncer
\* runs is there in the end, even if GC deleted it after the syncer's sync.
NeededNegIsRestored ==
    \A k \in Keys :
        ([](phase = "running")
         /\ <>[](k[1] \in endpoints /\ SyncersOf({k}) \ stopped # {}))
            => <>[](Wanted(k) => k \in negs)

\* "Ensure a syncer is running for each port that is being added."
AddedPortGetsSyncer ==
    \A k \in Keys :
        ([](phase = "running") /\ <>[]Wanted(k))
            => <>[](SyncersOf({k}) \ stopped # {})
=============================================================================
