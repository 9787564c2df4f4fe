--------------------------- MODULE ControllerProofs ---------------------------
(***************************************************************************)
(* Proofs about Controller, for any ingresses, ports and number of events. *)
(***************************************************************************)
EXTENDS Controller, TLAPS

-----------------------------------------------------------------------------
\* The task queue.

\* Adding a key to a task queue gives one, with the same worker.
LEMMA AddKeeps ==
    ASSUME NEW K, NEW q \in Queues(K), NEW k \in K
    PROVE  /\ Add(q, k) \in Queues(K)
           /\ Add(q, k).worker = q.worker /\ Add(q, k).shut = q.shut
<1>1. CASE q.shut \/ k \in q.dirty
  BY <1>1 DEF Add
<1>2. CASE ~(q.shut \/ k \in q.dirty)
  <2>. DEFINE queue == IF k \in q.processing THEN q.queue ELSE Append(q.queue, k)
              added == [q EXCEPT !.dirty = @ \cup {k}, !.queue = queue]
  <2>1. queue \in Seq(K)
    BY DEF Queues
  <2>. HIDE DEF queue
  <2>2. added \in Queues(K) /\ added.worker = q.worker /\ added.shut = q.shut
    BY <2>1, Zenon DEF Queues
  <2>3. Add(q, k) = added
    BY <1>2, Zenon DEF Add, queue
  <2>. QED
    BY <2>2, <2>3
<1>. QED
  BY <1>1, <1>2

\* So does the end of a delay.
LEMMA ElapsedKeeps ==
    ASSUME NEW K, NEW q \in Queues(K), NEW k \in K
    PROVE  /\ Elapsed(q, k) \in Queues(K)
           /\ Elapsed(q, k).worker = q.worker /\ Elapsed(q, k).shut = q.shut
<1>. DEFINE r == [q EXCEPT !.waiting = @ \ {k}]
<1>1. r \in Queues(K) /\ r.worker = q.worker /\ r.shut = q.shut
  BY DEF Queues
<1>. QED
  BY <1>1, AddKeeps, Zenon DEF Elapsed

\* Get takes a key out of the queue, and the worker is busy.
LEMMA GotKeeps ==
    ASSUME NEW K, NEW q \in Queues(K), CanGet(q)
    PROVE  /\ Head(q.queue) \in K /\ q.worker = "idle"
           /\ Got(q) \in Queues(K)
           /\ Got(q).worker = "busy" /\ Got(q).shut = q.shut
<1>1. q.queue \in Seq(K) /\ q.queue # <<>> /\ q.worker = "idle"
  BY DEF Queues, CanGet
<1>2. Head(q.queue) \in K /\ Tail(q.queue) \in Seq(K)
  BY <1>1
<1>. QED
  BY <1>1, <1>2, Zenon DEF Got, Queues

\* Done ends the work on a key.
LEMMA DoneKeeps ==
    ASSUME NEW K, NEW q \in Queues(K), NEW k \in K
    PROVE  /\ Done(q, k) \in Queues(K)
           /\ Done(q, k).worker = "idle" /\ Done(q, k).shut = q.shut
<1>. DEFINE queue == IF k \in q.dirty THEN Append(q.queue, k) ELSE q.queue
            done == [q EXCEPT !.processing = {}, !.worker = "idle", !.queue = queue]
<1>1. queue \in Seq(K)
  BY DEF Queues
<1>2. Done(q, k) = done
  BY Zenon DEF Done
<1>. HIDE DEF queue
<1>3. done \in Queues(K) /\ done.worker = "idle" /\ done.shut = q.shut
  BY <1>1, Zenon DEF Queues
<1>. QED
  BY <1>2, <1>3

\* The end of a sync, with or without a retry.
LEMMA SyncedKeeps ==
    ASSUME NEW K, NEW q \in Queues(K), NEW k \in K, NEW failed \in BOOLEAN
    PROVE  /\ Synced(q, k, failed) \in Queues(K)
           /\ Synced(q, k, failed).worker = "idle" /\ Synced(q, k, failed).shut = q.shut
<1>. DEFINE r == IF failed THEN AddRateLimited(q, k) ELSE q
<1>1. r \in Queues(K) /\ r.shut = q.shut
  BY DEF AddRateLimited, Queues
<1>2. Synced(q, k, failed) = Done(r, k)
  BY DEF Synced
<1>. HIDE DEF r
<1>. QED
  BY <1>1, <1>2, DoneKeeps

\* The start and the end of a worker, and the mark of a shutdown.
LEMMA WorkerKeeps ==
    ASSUME NEW K, NEW q \in Queues(K)
    PROVE  /\ Started(q) \in Queues(K) /\ Started(q).worker = "idle" /\ Started(q).shut = q.shut
           /\ Quit(q) \in Queues(K) /\ Quit(q).worker = "done" /\ Quit(q).shut = q.shut
           /\ ShutDown(q) \in Queues(K) /\ ShutDown(q).worker = q.worker /\ ShutDown(q).shut
           /\ NewTaskQueue \in Queues(K) /\ NewTaskQueue.worker = "new" /\ ~NewTaskQueue.shut
<1>1. Started(q) \in Queues(K) /\ Started(q).worker = "idle" /\ Started(q).shut = q.shut
  BY DEF Started, Queues
<1>2. Quit(q) \in Queues(K) /\ Quit(q).worker = "done" /\ Quit(q).shut = q.shut
  BY DEF Quit, Queues
<1>3. ShutDown(q) \in Queues(K) /\ ShutDown(q).worker = q.worker /\ ShutDown(q).shut
  BY Zenon DEF ShutDown, Queues
<1>4. NewTaskQueue \in Queues(K) /\ NewTaskQueue.worker = "new" /\ ~NewTaskQueue.shut
  BY DEF NewTaskQueue, Queues
<1>. QED
  BY <1>1, <1>2, <1>3, <1>4

\* A queue that is not shut down forgets no key: it loses one only to the worker.
LEMMA QueueKeeps ==
    ASSUME NEW K, NEW q \in Queues(K), NEW k \in K, ~q.shut
    PROVE  /\ Add(q, k).dirty = q.dirty \cup {k} /\ Add(q, k).waiting = q.waiting
           /\ Elapsed(q, k).dirty = q.dirty \cup {k} /\ Elapsed(q, k).waiting = q.waiting \ {k}
           /\ Got(q).dirty = q.dirty \ {Head(q.queue)} /\ Got(q).waiting = q.waiting
<1>1. ASSUME NEW r \in Queues(K), ~r.shut
      PROVE  Add(r, k).dirty = r.dirty \cup {k} /\ Add(r, k).waiting = r.waiting
  <2>. DEFINE queue == IF k \in r.processing THEN r.queue ELSE Append(r.queue, k)
              added == [r EXCEPT !.dirty = @ \cup {k}, !.queue = queue]
  <2>1. CASE k \in r.dirty
    BY <1>1, <2>1 DEF Add
  <2>2. CASE k \notin r.dirty
    <3>1. Add(r, k) = added
      BY <1>1, <2>2, Zenon DEF Add
    <3>. HIDE DEF queue
    <3>2. added.dirty = r.dirty \cup {k} /\ added.waiting = r.waiting
      BY DEF Queues
    <3>. QED
      BY <3>1, <3>2
  <2>. QED
    BY <2>1, <2>2
<1>2. Elapsed(q, k).dirty = q.dirty \cup {k} /\ Elapsed(q, k).waiting = q.waiting \ {k}
  <2>. DEFINE r == [q EXCEPT !.waiting = @ \ {k}]
  <2>1. r \in Queues(K) /\ ~r.shut /\ r.dirty = q.dirty /\ r.waiting = q.waiting \ {k}
    BY DEF Queues
  <2>2. Elapsed(q, k) = Add(r, k)
    BY DEF Elapsed
  <2>. HIDE DEF r
  <2>. QED
    BY <1>1, <2>1, <2>2
<1>3. Got(q).dirty = q.dirty \ {Head(q.queue)} /\ Got(q).waiting = q.waiting
  BY DEF Got, Queues
<1>. QED
  BY <1>1, <1>2, <1>3

\* What a queue r has after the end of a sync with the queue q and the key k.
TakesBack(q, r, k, failed) ==
    /\ r.dirty = q.dirty /\ q.waiting \subseteq r.waiting
    /\ failed => k \in r.waiting

\* A key that could not be synced is taken back.
LEMMA RetryKeeps ==
    ASSUME NEW K, NEW q \in Queues(K), NEW k \in K, NEW failed \in BOOLEAN, ~q.shut
    PROVE  TakesBack(q, Synced(q, k, failed), k, failed)
<1>1. ASSUME NEW r \in Queues(K) PROVE Done(r, k).dirty = r.dirty /\ Done(r, k).waiting = r.waiting
  <2>. DEFINE queue == IF k \in r.dirty THEN Append(r.queue, k) ELSE r.queue
              done == [r EXCEPT !.processing = {}, !.worker = "idle", !.queue = queue]
  <2>1. Done(r, k) = done
    BY Zenon DEF Done
  <2>. HIDE DEF queue
  <2>2. done.dirty = r.dirty /\ done.waiting = r.waiting
    BY DEF Queues
  <2>. QED
    BY <2>1, <2>2
<1>. DEFINE r == IF failed THEN AddRateLimited(q, k) ELSE q
<1>2. /\ r \in Queues(K) /\ r.dirty = q.dirty
      /\ r.waiting = IF failed THEN q.waiting \cup {k} ELSE q.waiting
  BY DEF AddRateLimited, Queues
<1>3. Synced(q, k, failed) = Done(r, k)
  BY DEF Synced
<1>. HIDE DEF r
<1>. QED
  BY <1>1, <1>2, <1>3 DEF TakesBack

-----------------------------------------------------------------------------
\* The inductive invariant.

\* A sync is in progress only while the worker is busy, and works on a key with
\* a snapshot; a worker that is done was told to be.
WorkerInv ==
    /\ sync.pc # "idle" => ingQueue.worker = "busy" /\ sync.key \in Ings /\ sync.snap \in Specs
    /\ ingQueue.worker = "done" => ingQueue.shut

LbsGone == (\A i \in Ings : um[i] = None) /\ defaultBe = FALSE

\* How far Stop has come tells that the ingress worker is done, and what is
\* gone for good.
StopInv ==
    /\ shutdown => ingQueue.worker = "done"
    /\ \A c \in Stoppers :
          /\ stop[c] \in {"nodeQueue", "lbs", "firewall", "backends", "ok", "error"} =>
                ingQueue.worker = "done"
          /\ stop[c] \in {"firewall", "backends"} => LbsGone
          /\ stop[c] = "backends" => fw = {}
          /\ stop[c] = "ok" /\ DeleteAll(c) /\ ~xpn => LbsGone /\ fw = {}
          /\ stop[c] = "ok" /\ DeleteAll(c) /\ ~xpn /\ listed => backends = {}

\* Once the pool has been filled, it has every backend.
PoolInv == listed => backends \subseteq known

IInv == TypeOK /\ WorkerInv /\ StopInv /\ PoolInv

\* The initial states satisfy the invariant.
LEMMA InitInv == Init => IInv
<1>. SUFFICES ASSUME Init PROVE IInv
  OBVIOUS
<1>. USE ControllerAssumption DEF Init
<1>1. TypeOK
  <2>1. spec \in Specs /\ pending \subseteq Ings
    BY DEF Specs, ListAll
  <2>2. ingQueue \in Queues(Ings) /\ nodeQueue \in Queues({Node})
    BY DEF NewTaskQueue, Queues
  <2>3. sync \in Syncs
    BY DEF Fresh, Syncs
  <2>4. [xpn |-> xpn, broken |-> broken] \in Situations
    <3>1. PICK s \in Situations : xpn = s.xpn /\ broken = s.broken
      OBVIOUS
    <3>2. s \in [xpn : BOOLEAN, broken : SUBSET Ings]
      OBVIOUS
    <3>. QED
      BY <3>1, <3>2
  <2>5. defaultBe \in BOOLEAN /\ groups \in BOOLEAN /\ shutdown \in BOOLEAN
        /\ listed \in BOOLEAN /\ collected \in BOOLEAN /\ left \in BOOLEAN
    BY Zenon
  <2>6. um \in [Ings -> (SUBSET Ports) \cup {None}] /\ lbPool \in [Ings -> {"full", "part", None}]
        /\ stop \in [Stoppers -> {"idle", "lock", "ingQueue", "nodeQueue", "lbs", "firewall",
                              "backends", "ok", "error"}]
    OBVIOUS
  <2>. QED
    BY <2>1, <2>2, <2>3, <2>4, <2>5, <2>6 DEF TypeOK
<1>2. WorkerInv
  BY WorkerKeeps DEF WorkerInv, Fresh, NewTaskQueue
<1>3. StopInv /\ PoolInv
  BY DEF StopInv, PoolInv
<1>. QED
  BY <1>1, <1>2, <1>3 DEF IInv

-----------------------------------------------------------------------------
\* A step that leaves resources, pools, callers of Stop and history alone, and
\* neither wakes a worker that is done nor a sync, keeps the invariant.
LEMMA QuietStep ==
    ASSUME IInv,
           UNCHANGED <<cloudVars, poolVars, stopVars, fixedVars, listed, collected>>,
           spec' \in Specs, pending' \subseteq Ings, left' \in BOOLEAN,
           ingQueue' \in Queues(Ings), nodeQueue' \in Queues({Node}), sync' \in Syncs,
           events' \in 0..MaxEvents,
           WorkerInv', ingQueue.worker = "done" => ingQueue'.worker = "done"
    PROVE  IInv'
<1>. USE DEF IInv, cloudVars, poolVars, stopVars, fixedVars
<1>1. TypeOK'
  BY DEF TypeOK
<1>2. StopInv'
  BY DEF StopInv, LbsGone, DeleteAll
<1>3. PoolInv'
  BY DEF PoolInv
<1>. QED
  BY <1>1, <1>2, <1>3

\* The budget of events bounds their number.
LEMMA HappensType == ASSUME TypeOK, Happens PROVE events' \in 0..MaxEvents
BY ControllerAssumption DEF TypeOK, Happens

\* Changes of ingresses and their notifications.
LEMMA EventsInv ==
    ASSUME IInv, (\E i \in Ings : IngressChange(i) \/ Enqueue(i)) \/ Event \/ Retry
    PROVE  IInv'
<1>. USE DEF IInv
<1>1. ASSUME NEW i \in Ings, IngressChange(i) PROVE IInv'
  <2>1. spec' \in Specs /\ pending' \subseteq Ings /\ left' \in BOOLEAN
    <3>1. PICK new \in (Ingress[i] \cup {None}) \ {spec[i]} :
                 /\ spec' = [spec EXCEPT ![i] = new]
                 /\ pending' = IF Notifies(spec[i], new) THEN pending \cup {i} ELSE pending
                 /\ left' = (left \/ Leaves(spec[i], new))
      BY <1>1, Zenon DEF IngressChange
    <3>2. new \in (UNION {Ingress[j] : j \in Ings}) \cup {None}
      OBVIOUS
    <3>3. spec' \in Specs
      BY <3>1, <3>2 DEF TypeOK, Specs
    <3>4. pending' \subseteq Ings
      BY <3>1 DEF TypeOK
    <3>5. left' \in BOOLEAN
      BY <3>1, Zenon DEF TypeOK
    <3>. QED
      BY <3>3, <3>4, <3>5
  <2>2. UNCHANGED <<ingQueue, nodeQueue, sync, cloudVars, poolVars, stopVars, fixedVars,
                    listed, collected>>
    BY <1>1 DEF IngressChange
  <2>3. events' \in 0..MaxEvents
    BY <1>1, HappensType DEF IngressChange
  <2>. QED
    BY <2>1, <2>2, <2>3, QuietStep DEF TypeOK, WorkerInv
<1>2. ASSUME NEW i \in Ings, Enqueue(i) PROVE IInv'
  <2>1. /\ UNCHANGED <<spec, nodeQueue, sync, cloudVars, poolVars, stopVars, fixedVars,
                       historyVars, events>>
        /\ pending' = pending \ {i} /\ ingQueue' = Add(ingQueue, i)
    BY <1>2 DEF Enqueue
  <2>2. ingQueue' \in Queues(Ings) /\ ingQueue'.worker = ingQueue.worker
        /\ ingQueue'.shut = ingQueue.shut
    BY <2>1, AddKeeps DEF TypeOK
  <2>. QED
    BY <2>1, <2>2, QuietStep DEF TypeOK, WorkerInv, historyVars
<1>3. CASE Event \/ Retry
  <2>1. UNCHANGED <<spec, pending, sync, cloudVars, poolVars, stopVars, fixedVars, historyVars>>
    BY <1>3 DEF Event, Retry
  <2>2. events' \in 0..MaxEvents
    BY <1>3, HappensType DEF Event, Retry, TypeOK
  <2>3. \/ UNCHANGED nodeQueue
        \/ nodeQueue' = Add(nodeQueue, Node) \/ nodeQueue' = Elapsed(nodeQueue, Node)
    BY <1>3 DEF Event, Retry
  <2>4. nodeQueue' \in Queues({Node})
    BY <2>3, AddKeeps, ElapsedKeeps DEF TypeOK
  <2>5. \/ UNCHANGED ingQueue
        \/ \E j \in Ings : ingQueue' = Add(ingQueue, j) \/ ingQueue' = Elapsed(ingQueue, j)
    BY <1>3 DEF Event, Retry, ListAll, TypeOK, Queues
  <2>6. ingQueue' \in Queues(Ings) /\ ingQueue'.worker = ingQueue.worker
        /\ ingQueue'.shut = ingQueue.shut
    <3>1. ingQueue \in Queues(Ings)
      BY DEF TypeOK
    <3>2. ASSUME NEW j \in Ings, ingQueue' = Add(ingQueue, j) \/ ingQueue' = Elapsed(ingQueue, j)
          PROVE  ingQueue' \in Queues(Ings) /\ ingQueue'.worker = ingQueue.worker
                 /\ ingQueue'.shut = ingQueue.shut
      <4>1. CASE ingQueue' = Add(ingQueue, j)
        BY <3>1, <4>1, AddKeeps
      <4>2. CASE ingQueue' = Elapsed(ingQueue, j)
        BY <3>1, <4>2, ElapsedKeeps
      <4>. QED
        BY <3>2, <4>1, <4>2
    <3>3. CASE UNCHANGED ingQueue
      BY <3>1, <3>3
    <3>. QED
      BY <2>5, <3>2, <3>3, Zenon
  <2>. QED
    BY <2>1, <2>2, <2>4, <2>6, QuietStep DEF TypeOK, WorkerInv, historyVars
<1>. QED
  BY <1>1, <1>2, <1>3

\* The relisting of backends: after stopCh is closed it does not count.
LEMMA RelistInv == ASSUME IInv, Relist PROVE IInv'
<1>. USE DEF IInv, Relist, cloudVars, stopVars, fixedVars
<1>1. TypeOK'
  <2>1. listed' \in BOOLEAN
    BY Zenon
  <2>. QED
    BY <2>1 DEF TypeOK
<1>2. WorkerInv'
  BY DEF WorkerInv
<1>3. PoolInv'
  BY DEF PoolInv
<1>4. StopInv'
  <2>1. ASSUME NEW c \in Stoppers, stop[c] = "ok" PROVE ingQueue.shut
    BY <2>1 DEF StopInv, WorkerInv
  <2>2. ASSUME NEW c \in Stoppers, stop[c] = "ok" PROVE listed' = listed
    BY <2>1, <2>2, Zenon DEF StopChClosed, TypeOK
  <2>. QED
    BY <2>2 DEF StopInv, LbsGone, DeleteAll
<1>. QED
  BY <1>1, <1>2, <1>3, <1>4

\* The life of the workers, and the node worker.
LEMMA WorkersInv == ASSUME IInv, WorkerStart \/ WorkerQuit \/ NodeSync PROVE IInv'
<1>. USE DEF IInv
<1>1. CASE WorkerStart \/ WorkerQuit
  <2>1. UNCHANGED <<spec, pending, sync, cloudVars, poolVars, stopVars, fixedVars, historyVars, events>>
    BY <1>1 DEF WorkerStart, WorkerQuit
  <2>2. nodeQueue' \in Queues({Node})
    BY <1>1, WorkerKeeps DEF WorkerStart, WorkerQuit, TypeOK
  <2>3. \/ UNCHANGED ingQueue
        \/ ingQueue.worker = "new" /\ ingQueue' = Started(ingQueue)
        \/ ingQueue.worker = "idle" /\ ingQueue.shut /\ ingQueue' = Quit(ingQueue)
    BY <1>1 DEF WorkerStart, WorkerQuit, CanQuit
  <2>4. /\ ingQueue' \in Queues(Ings)
        /\ ingQueue'.worker = "done" => ingQueue'.shut
        /\ ingQueue.worker \in {"busy", "done"} => ingQueue' = ingQueue
    BY <2>3, WorkerKeeps DEF TypeOK, WorkerInv
  <2>. QED
    BY <2>1, <2>2, <2>4, QuietStep DEF TypeOK, WorkerInv, historyVars
<1>2. CASE NodeSync
  <2>1. UNCHANGED <<spec, pending, ingQueue, sync, cloudVars, poolVars, stopVars, fixedVars, historyVars>>
    BY <1>2 DEF NodeSync
  <2>2. events' \in 0..MaxEvents
    BY <1>2, HappensType, Zenon DEF NodeSync, TypeOK, Fault, NoFault
  <2>3. nodeQueue' \in Queues({Node})
    <3>1. nodeQueue \in Queues({Node}) /\ CanGet(nodeQueue)
      BY <1>2 DEF TypeOK, NodeSync
    <3>2. Got(nodeQueue) \in Queues({Node})
      BY <3>1, GotKeeps
    <3>3. Synced(Got(nodeQueue), Node, FALSE) \in Queues({Node})
      BY <3>2, SyncedKeeps, Zenon
    <3>4. Synced(Got(nodeQueue), Node, TRUE) \in Queues({Node})
      BY <3>2, SyncedKeeps, Zenon
    <3>. QED
      BY <1>2, <3>3, <3>4, Zenon DEF NodeSync
  <2>. QED
    BY <2>1, <2>2, <2>3, QuietStep DEF TypeOK, WorkerInv, historyVars
<1>. QED
  BY <1>1, <1>2

-----------------------------------------------------------------------------
\* The steps of a sync.

\* A sync takes its key and its snapshot, or gives up.
LEMMA SyncBeginInv == ASSUME IInv, SyncBegin PROVE IInv'
<1>. USE DEF IInv
<1>1. UNCHANGED <<spec, pending, nodeQueue, cloudVars, poolVars, stopVars, fixedVars, historyVars>>
  BY DEF SyncBegin
<1>2. events' \in 0..MaxEvents
  BY HappensType, Zenon DEF SyncBegin, TypeOK, Fault, NoFault
<1>. DEFINE key == Head(ingQueue.queue)
<1>3. ingQueue \in Queues(Ings) /\ CanGet(ingQueue)
  BY DEF TypeOK, SyncBegin
<1>4. /\ key \in Ings /\ ingQueue.worker = "idle"
      /\ Got(ingQueue) \in Queues(Ings)
      /\ Got(ingQueue).worker = "busy" /\ Got(ingQueue).shut = ingQueue.shut
  BY <1>3, GotKeeps
<1>5. CASE ingQueue' = Got(ingQueue)
           /\ sync' = [Fresh EXCEPT !.pc = "ensure", !.key = key, !.snap = spec]
  <2>. HIDE DEF key
  <2>1. sync' \in Syncs /\ sync'.key = key /\ sync'.snap = spec
    BY <1>4, <1>5, Zenon DEF Fresh, Syncs, TypeOK
  <2>2. WorkerInv'
    BY <1>4, <1>5, <2>1 DEF WorkerInv, TypeOK
  <2>. QED
    BY <1>1, <1>2, <1>4, <1>5, <2>1, <2>2, QuietStep DEF TypeOK, historyVars
<1>6. CASE ingQueue' = Synced(Got(ingQueue), key, TRUE) /\ UNCHANGED sync
  <2>. HIDE DEF key
  <2>1. ingQueue' \in Queues(Ings) /\ ingQueue'.worker = "idle" /\ ingQueue'.shut = ingQueue.shut
    BY <1>4, <1>6, SyncedKeeps, Zenon
  <2>. QED
    BY <1>1, <1>2, <1>4, <1>6, <2>1, QuietStep, Zenon DEF TypeOK, WorkerInv, historyVars
<1>. QED
  BY <1>5, <1>6, Zenon DEF SyncBegin

\* While a sync is in progress, no caller of Stop has got past the queue of
\* ingresses: what the sync does to the resources needs only types and the pool.
LEMMA SyncInProgress ==
    ASSUME IInv, sync.pc # "idle",
           UNCHANGED <<ingQueue, stopVars, listed>>,
           TypeOK', sync'.key = sync.key, sync'.snap = sync.snap, PoolInv'
    PROVE  IInv'
<1>1. ingQueue.worker = "busy" /\ sync.key \in Ings /\ sync.snap \in Specs
  BY DEF IInv, WorkerInv
<1>2. WorkerInv'
  BY <1>1 DEF WorkerInv
<1>3. StopInv'
  BY <1>1 DEF IInv, StopInv, stopVars
<1>. QED
  BY <1>2, <1>3 DEF IInv

\* What a step of a sync does to the record of the sync.
LEMMA SyncRecord ==
    ASSUME TypeOK, NEW pc, NEW failed \in BOOLEAN, NEW gcFailed \in BOOLEAN,
           pc \in {"idle", "ensure", "lbs", "firewall", "urlmap", "gcLbs", "gcBackends", "gcGroups"},
           \/ sync' = [sync EXCEPT !.pc = pc]
           \/ sync' = [sync EXCEPT !.pc = pc, !.failed = failed]
           \/ sync' = [sync EXCEPT !.pc = pc, !.gcFailed = gcFailed]
    PROVE  sync' \in Syncs /\ sync'.key = sync.key /\ sync'.snap = sync.snap
BY Zenon DEF TypeOK, Syncs

\* What the ingresses of a snapshot ask for are ports.
LEMMA PortsOfIngresses ==
    ASSUME NEW s \in Specs
    PROVE  /\ \A i \in Ings : s[i] # None => s[i].ports \subseteq Ports
           /\ \A ings \in SUBSET ListKeys(s) : ToNodePorts(s, ings) \subseteq Ports
           /\ ListGCEIngresses(s) \subseteq ListAll(s) /\ ListAll(s) \subseteq ListKeys(s)
           /\ ListKeys(s) \subseteq Ings
<1>1. ASSUME NEW i \in Ings, s[i] # None PROVE s[i].ports \subseteq Ports
  <2>1. PICK j \in Ings : s[i] \in Ingress[j]
    BY <1>1 DEF Specs
  <2>2. s[i] \in [class : {"gce", "multi", "other"}, ports : (SUBSET Ports) \ {{}}]
    BY <2>1, ControllerAssumption
  <2>. QED
    BY <2>2
<1>2. ListKeys(s) \subseteq Ings
  BY DEF ListKeys
<1>3. \A ings \in SUBSET ListKeys(s) : ToNodePorts(s, ings) \subseteq Ports
  BY <1>1 DEF ToNodePorts, ListKeys
<1>4. ListGCEIngresses(s) \subseteq ListAll(s) /\ ListAll(s) \subseteq ListKeys(s)
  BY DEF ListGCEIngresses, ListAll, ListKeys
<1>. QED
  BY <1>1, <1>2, <1>3, <1>4

\* Instance groups and backends are made.
LEMMA EnsureBackendsInv == ASSUME IInv, EnsureBackends PROVE IInv'
<1>. USE DEF IInv
<1>. DEFINE ports == ToNodePorts(sync.snap, ListGCEIngresses(sync.snap))
<1>1. sync.pc = "ensure" /\ sync.snap \in Specs
  BY DEF EnsureBackends, WorkerInv
<1>2. ports \subseteq Ports
  BY <1>1, PortsOfIngresses
<1>3. events' \in 0..MaxEvents
  BY HappensType, Zenon DEF EnsureBackends, TypeOK, Fault, NoFault
<1>4. sync' \in Syncs /\ sync'.key = sync.key /\ sync'.snap = sync.snap
  BY SyncRecord, Zenon DEF EnsureBackends, To, CheckpointFails
<1>5. UNCHANGED <<spec, pending, ingQueue, nodeQueue, um, ready, defaultBe, fw, lbPool,
                  stopVars, fixedVars, historyVars>>
  BY DEF EnsureBackends
<1>6. \/ groups' = TRUE /\ known' = known \cup ports /\ backends' = backends \cup ports
      \/ \E tried \in SUBSET ports : \E made \in SUBSET tried :
            /\ groups' \in {groups \/ tried # {}, TRUE}
            /\ known' = known \cup tried /\ backends' = backends \cup made
  BY Zenon DEF EnsureBackends
<1>. HIDE DEF ports
<1>7. groups' \in BOOLEAN
  BY <1>6, Zenon DEF TypeOK
<1>8. known' \subseteq Ports /\ backends' \subseteq Ports /\ (backends \subseteq known => backends' \subseteq known')
  BY <1>2, <1>6, Zenon DEF TypeOK
<1>9. TypeOK'
  BY <1>3, <1>4, <1>5, <1>7, <1>8 DEF TypeOK, stopVars, fixedVars, historyVars
<1>. QED
  BY <1>1, <1>4, <1>5, <1>8, <1>9, SyncInProgress DEF PoolInv, historyVars

\* Load balancers are made: every complete one has a url map.
LEMMA SyncLbsInv == ASSUME IInv, SyncLbs PROVE IInv'
<1>. USE DEF IInv
<1>. DEFINE lbs == ListGCEIngresses(sync.snap)
<1>1. sync.pc = "lbs" /\ sync.snap \in Specs
  BY DEF SyncLbs, WorkerInv
<1>2. lbs \subseteq Ings
  BY DEF ListGCEIngresses
<1>3. events' \in 0..MaxEvents
  BY HappensType, Zenon DEF SyncLbs, TypeOK, Fault, NoFault
<1>4. sync' \in Syncs /\ sync'.key = sync.key /\ sync'.snap = sync.snap
  BY SyncRecord, Zenon DEF SyncLbs, To, CheckpointFails
<1>5. UNCHANGED <<spec, pending, ingQueue, nodeQueue, backends, fw, known, stopVars, fixedVars,
                  historyVars>>
  BY DEF SyncLbs
<1>6. \/ UNCHANGED <<um, ready, lbPool>>
      \/ \E done \in SUBSET lbs, made \in SUBSET lbs, part \in SUBSET lbs :
            done \subseteq made /\ AddedLbs(done, made) /\ PooledLbs(done, part)
  <2>1. ASSUME AddedLbs(lbs, lbs), PooledLbs(lbs, {})
        PROVE  \E done \in SUBSET lbs, made \in SUBSET lbs, part \in SUBSET lbs :
                  done \subseteq made /\ AddedLbs(done, made) /\ PooledLbs(done, part)
    BY <2>1
  <2>2. ASSUME NEW done \in SUBSET (lbs \ broken), NEW i \in lbs \ done,
               NEW made \in {done, done \cup {i}}, AddedLbs(done, made), PooledLbs(done, {i})
        PROVE  \E d \in SUBSET lbs, m \in SUBSET lbs, part \in SUBSET lbs :
                  d \subseteq m /\ AddedLbs(d, m) /\ PooledLbs(d, part)
    <3>1. done \in SUBSET lbs /\ made \in SUBSET lbs /\ {i} \in SUBSET lbs /\ done \subseteq made
      OBVIOUS
    <3>. QED
      BY <2>2, <3>1
  <2>. QED
    BY <2>1, <2>2, Zenon DEF SyncLbs
<1>7. defaultBe' \in BOOLEAN /\ groups' \in BOOLEAN
  <2>1. UNCHANGED <<defaultBe, groups>> \/ (defaultBe' \in {defaultBe, TRUE} /\ groups' = TRUE)
    BY Zenon DEF SyncLbs, AddedLbs
  <2>. QED
    BY <2>1, Zenon DEF TypeOK
<1>. HIDE DEF lbs
<1>8. /\ um' \in [Ings -> (SUBSET Ports) \cup {None}]
      /\ ready' \subseteq {i \in Ings : um'[i] # None}
      /\ lbPool' \in [Ings -> {"full", "part", None}]
  <2>1. CASE UNCHANGED <<um, ready, lbPool>>
    BY <2>1 DEF TypeOK
  <2>2. ASSUME NEW done \in SUBSET lbs, NEW made \in SUBSET lbs, NEW part \in SUBSET lbs,
               done \subseteq made, AddedLbs(done, made), PooledLbs(done, part)
        PROVE  /\ um' \in [Ings -> (SUBSET Ports) \cup {None}]
               /\ ready' \subseteq {i \in Ings : um'[i] # None}
               /\ lbPool' \in [Ings -> {"full", "part", None}]
    <3>1. {} # None
      BY ControllerAssumption
    <3>2. um' \in [Ings -> (SUBSET Ports) \cup {None}]
      BY <2>2 DEF TypeOK, AddedLbs
    <3>3. ASSUME NEW i \in ready' PROVE i \in Ings /\ um'[i] # None
      BY <1>2, <2>2, <3>1, <3>3 DEF TypeOK, AddedLbs
    <3>4. lbPool' \in [Ings -> {"full", "part", None}]
      BY <2>2 DEF TypeOK, PooledLbs
    <3>. QED
      BY <3>2, <3>3, <3>4
  <2>. QED
    BY <1>6, <2>1, <2>2
<1>9. TypeOK'
  BY <1>3, <1>4, <1>5, <1>7, <1>8 DEF TypeOK, stopVars, fixedVars, historyVars
<1>. QED
  BY <1>1, <1>4, <1>5, <1>9, SyncInProgress DEF PoolInv, historyVars

\* The firewall rule, and the url map of the key.
LEMMA RestOfSyncInv == ASSUME IInv, SyncFirewall \/ UpdateUrlMap PROVE IInv'
<1>. USE DEF IInv
<1>1. events' \in 0..MaxEvents
  BY HappensType DEF SyncFirewall, UpdateUrlMap, TypeOK, Fault, NoFault
<1>2. sync.pc # "idle" /\ sync.snap \in Specs /\ sync.key \in Ings
  BY DEF SyncFirewall, UpdateUrlMap, WorkerInv
<1>3. UNCHANGED <<spec, pending, ingQueue, nodeQueue, ready, backends, defaultBe, groups,
                   poolVars, stopVars, fixedVars, historyVars>>
  BY DEF SyncFirewall, UpdateUrlMap
<1>4. sync.failed \in BOOLEAN
  BY DEF TypeOK, Syncs
<1>5. sync' \in Syncs /\ sync'.key = sync.key /\ sync'.snap = sync.snap
  <2>1. CASE SyncFirewall
    BY <2>1, SyncRecord, Zenon DEF SyncFirewall, To, CheckpointFails
  <2>2. CASE UpdateUrlMap
    <3>1. \E failed \in BOOLEAN : sync' = [sync EXCEPT !.pc = "gcLbs", !.failed = failed]
      BY <1>4, <2>2, Zenon DEF UpdateUrlMap
    <3>. QED
      BY <3>1, SyncRecord, Zenon
  <2>. QED
    BY <2>1, <2>2
<1>6. fw' \subseteq Ports \cup {Default}
  <2>1. FirewallPorts(sync.snap) \subseteq Ports \cup {Default}
    BY <1>2, PortsOfIngresses DEF FirewallPorts
  <2>. QED
    BY <2>1 DEF SyncFirewall, UpdateUrlMap, Rule, TypeOK
<1>7. um' \in [Ings -> (SUBSET Ports) \cup {None}] /\ \A i \in Ings : um[i] # None => um'[i] # None
  <2>1. \/ UNCHANGED um
        \/ sync.snap[sync.key] # None /\ um' = [um EXCEPT ![sync.key] = sync.snap[sync.key].ports]
    BY DEF SyncFirewall, UpdateUrlMap
  <2>2. CASE UNCHANGED um
    BY <2>2 DEF TypeOK
  <2>3. CASE sync.snap[sync.key] # None /\ um' = [um EXCEPT ![sync.key] = sync.snap[sync.key].ports]
    <3>1. sync.snap[sync.key].ports \in SUBSET Ports
      BY <1>2, <2>3, PortsOfIngresses
    <3>. QED
      BY <1>2, <2>3, <3>1, ControllerAssumption DEF TypeOK
  <2>. QED
    BY <2>1, <2>2, <2>3
<1>8. TypeOK'
  BY <1>1, <1>3, <1>5, <1>6, <1>7 DEF TypeOK, poolVars, stopVars, fixedVars, historyVars
<1>. QED
  BY <1>2, <1>3, <1>5, <1>8, SyncInProgress DEF PoolInv, poolVars, historyVars

-----------------------------------------------------------------------------
\* Garbage collection, in a sync and in Stop.

\* Only load balancers that are not among the names are deleted, and the
\* default backend only if there are no names; without names and without an
\* error all are gone.
LEMMA GCLbsDeletes ==
    ASSUME TypeOK, NEW names, NEW failed \in BOOLEAN, GCLbs(names, failed)
    PROVE  /\ um' \in [Ings -> (SUBSET Ports) \cup {None}]
           /\ ready' \subseteq {i \in Ings : um'[i] # None}
           /\ lbPool' \in [Ings -> {"full", "part", None}]
           /\ defaultBe' \in BOOLEAN
           /\ events' \in 0..MaxEvents
           /\ \A i \in Ings : um'[i] \in {um[i], None}
           /\ \A i \in Ings \cap names : um'[i] = um[i] /\ (i \in ready => i \in ready')
           /\ defaultBe' \in {defaultBe, FALSE}
           /\ names # {} => defaultBe' = defaultBe
           /\ failed = FALSE /\ names = {} => LbsGone'
<1>. DEFINE dead == {i \in Ings : lbPool[i] # None} \ names
<1>1. events' \in 0..MaxEvents
  BY HappensType, Zenon DEF GCLbs, TypeOK, Fault, NoFault
<1>2. PICK gone \in SUBSET dead : \E lost \in SUBSET gone : DeleteLbs(gone, lost)
  <2>1. dead \in SUBSET dead
    OBVIOUS
  <2>. QED
    BY <2>1, Zenon DEF GCLbs
<1>3. /\ gone \subseteq Ings /\ gone \cap names = {}
      /\ \E lost \in SUBSET gone :
            um' = [i \in Ings |-> IF i \in gone \ lost THEN None ELSE um[i]]
      /\ ready' = ready \ gone
      /\ lbPool' = [i \in Ings |-> IF i \in gone THEN None ELSE lbPool[i]]
  BY <1>2 DEF DeleteLbs
<1>4. /\ um' \in [Ings -> (SUBSET Ports) \cup {None}]
      /\ \A i \in Ings : um'[i] \in {um[i], None} /\ (i \notin gone => um'[i] = um[i])
  BY <1>3 DEF TypeOK
<1>5. /\ ready' \subseteq {i \in Ings : um'[i] # None}
      /\ \A i \in Ings \cap names : um'[i] = um[i] /\ (i \in ready => i \in ready')
  BY <1>3, <1>4 DEF TypeOK
<1>6. lbPool' \in [Ings -> {"full", "part", None}]
  BY <1>3 DEF TypeOK
<1>7. defaultBe' \in {defaultBe, FALSE} /\ (names # {} => defaultBe' = defaultBe)
  BY Zenon DEF GCLbs
<1>8. ASSUME failed = FALSE, names = {} PROVE LbsGone'
  <2>1. (\A i \in Ings : um'[i] = None) /\ defaultBe' = FALSE
    BY <1>8, Zenon DEF GCLbs
  <2>. QED
    BY <2>1 DEF LbsGone
<1>9. defaultBe' \in BOOLEAN
  BY <1>7, Zenon DEF TypeOK
<1>. QED
  BY <1>1, <1>4, <1>5, <1>6, <1>7, <1>8, <1>9, Zenon

\* No backend of the given ports is deleted, what is in the pool and not among
\* them is, and what the pool knows it goes on knowing.
BackendsDeleted(ports, failed) ==
    /\ known' \subseteq known /\ backends' \subseteq backends
    /\ backends \cap ports \subseteq backends'
    /\ backends \subseteq known => backends' \subseteq known'
    /\ failed = FALSE => backends' = backends \ (known \ ports)
    /\ events' \in 0..MaxEvents

\* That is what Backends.GC does.
LEMMA GCBackendsDeletes ==
    ASSUME TypeOK, NEW ports, NEW failed \in BOOLEAN, GCBackends(ports, failed)
    PROVE  BackendsDeleted(ports, failed)
<1>. USE DEF BackendsDeleted
<1>. DEFINE dead == known \ ports
            used == UNION {um[i] : i \in {j \in Ings : um[j] # None}}
<1>1. events' \in 0..MaxEvents
  BY HappensType DEF GCBackends, TypeOK, Fault, NoFault
<1>2. \/ backends' = backends \ dead /\ known' = known \ dead
      \/ /\ failed
         /\ \E gone \in SUBSET dead : \E p \in dead \ gone :
               /\ known' = known \ gone
               /\ backends' \in {backends \ gone, backends \ (gone \cup {p})}
  <2>1. SUBSET (dead \ used) \subseteq SUBSET dead
    OBVIOUS
  <2>. HIDE DEF dead, used
  <2>2. \/ backends' = backends \ dead /\ known' = known \ dead
        \/ /\ failed
           /\ \E gone \in SUBSET (dead \ used) : \E p \in dead \ gone :
                 /\ known' = known \ gone
                 /\ backends' \in {backends \ gone, backends \ (gone \cup {p})}
    BY Zenon DEF GCBackends, dead, used
  <2>. QED
    BY <2>1, <2>2, Zenon
<1>3. CASE backends' = backends \ dead /\ known' = known \ dead
  BY <1>1, <1>3
<1>4. ASSUME NEW gone \in SUBSET dead, NEW p \in dead \ gone, known' = known \ gone,
             backends' \in {backends \ gone, backends \ (gone \cup {p})}
      PROVE  /\ known' \subseteq known /\ backends' \subseteq backends
             /\ backends \cap ports \subseteq backends'
             /\ backends \subseteq known => backends' \subseteq known'
  BY <1>4
<1>5. failed = FALSE => backends' = backends \ dead
  BY <1>2, Zenon
<1>. QED
  BY <1>1, <1>2, <1>3, <1>4, <1>5

\* Garbage collection at the end of a sync.
LEMMA SyncGCInv == ASSUME IInv, SyncGCLbs \/ SyncGCBackends PROVE IInv'
<1>. USE DEF IInv
<1>1. sync.pc # "idle" /\ sync.gcFailed \in BOOLEAN
  BY Zenon DEF SyncGCLbs, SyncGCBackends, TypeOK, Syncs
<1>2. CASE SyncGCLbs
  <2>1. PICK failed \in BOOLEAN :
               /\ GCLbs(ListKeys(sync.snap), failed)
               /\ sync' = [sync EXCEPT !.pc = "gcBackends", !.gcFailed = failed]
    BY <1>2, Zenon DEF SyncGCLbs
  <2>2. UNCHANGED <<spec, pending, ingQueue, nodeQueue, backends, groups, fw, known, stopVars,
                    fixedVars, historyVars>>
    BY <1>2, Zenon DEF SyncGCLbs
  <2>3. sync' \in Syncs /\ sync'.key = sync.key /\ sync'.snap = sync.snap
    BY <2>1, SyncRecord, Zenon
  <2>4. TypeOK'
    <3>1. /\ um' \in [Ings -> (SUBSET Ports) \cup {None}]
          /\ ready' \subseteq {i \in Ings : um'[i] # None}
          /\ lbPool' \in [Ings -> {"full", "part", None}]
          /\ defaultBe' \in BOOLEAN
          /\ events' \in 0..MaxEvents
      BY <2>1, GCLbsDeletes, Zenon
    <3>. QED
      BY <2>2, <2>3, <3>1 DEF TypeOK, stopVars, fixedVars, historyVars
  <2>. QED
    BY <1>1, <2>2, <2>3, <2>4, SyncInProgress DEF PoolInv, historyVars
<1>3. CASE SyncGCBackends
  <2>. DEFINE ports == ToNodePorts(sync.snap, ListAll(sync.snap))
  <2>1. PICK failed \in BOOLEAN :
               /\ GCBackends(ports, failed)
               /\ sync' = [sync EXCEPT !.pc = "gcGroups", !.gcFailed = @ \/ failed]
    BY <1>3, Zenon DEF SyncGCBackends
  <2>2. /\ UNCHANGED <<spec, pending, ingQueue, nodeQueue, um, ready, defaultBe, groups, fw, lbPool,
                       stopVars, fixedVars, listed, left>>
        /\ collected' = listed
    BY <1>3, Zenon DEF SyncGCBackends
  <2>3. sync' \in Syncs /\ sync'.key = sync.key /\ sync'.snap = sync.snap
    <3>1. (sync.gcFailed \/ failed) \in BOOLEAN
      BY Zenon
    <3>. QED
      BY <2>1, <3>1, SyncRecord, Zenon
  <2>. HIDE DEF ports
  <2>4. /\ known' \subseteq known /\ backends' \subseteq backends
        /\ backends \subseteq known => backends' \subseteq known'
        /\ events' \in 0..MaxEvents
    <3>1. BackendsDeleted(ports, failed)
      BY <2>1, GCBackendsDeletes, Zenon
    <3>. QED
      BY <3>1 DEF BackendsDeleted
  <2>5. TypeOK'
    BY <2>2, <2>3, <2>4 DEF TypeOK, stopVars, fixedVars
  <2>. QED
    BY <1>1, <2>2, <2>3, <2>4, <2>5, SyncInProgress DEF PoolInv
<1>. QED
  BY <1>2, <1>3

\* The end of a sync: instance groups, and the worker is idle again.
LEMMA SyncEndInv == ASSUME IInv, SyncEnd PROVE IInv'
<1>. USE DEF IInv
<1>1. /\ sync' = Fresh
      /\ UNCHANGED <<spec, pending, nodeQueue, um, ready, backends, defaultBe, fw, poolVars,
                     stopVars, fixedVars, historyVars>>
  BY DEF SyncEnd
<1>2. ingQueue.worker = "busy" /\ sync.key \in Ings
  BY DEF SyncEnd, WorkerInv
<1>3. events' \in 0..MaxEvents
  BY HappensType, Zenon DEF SyncEnd, TypeOK, Fault, NoFault
<1>4. groups' \in BOOLEAN
  BY Zenon DEF SyncEnd, TypeOK
<1>5. ingQueue' \in Queues(Ings) /\ ingQueue'.worker = "idle"
  <2>1. sync.failed \in BOOLEAN /\ sync.gcFailed \in BOOLEAN
    BY DEF TypeOK, Syncs
  <2>2. (sync.failed \/ sync.gcFailed) \in BOOLEAN
    BY <2>1, Zenon
  <2>3. PICK failed \in BOOLEAN : ingQueue' = Synced(ingQueue, sync.key, failed)
    BY <2>2, Zenon DEF SyncEnd
  <2>4. ingQueue \in Queues(Ings)
    BY DEF TypeOK
  <2>. QED
    BY <1>2, <2>3, <2>4, SyncedKeeps
<1>6. sync' \in Syncs /\ sync'.pc = "idle"
  BY <1>1 DEF Fresh, Syncs
<1>7. TypeOK'
  BY <1>1, <1>3, <1>4, <1>5, <1>6 DEF TypeOK, poolVars, stopVars, fixedVars, historyVars
<1>8. WorkerInv' /\ PoolInv'
  BY <1>1, <1>5, <1>6 DEF WorkerInv, PoolInv, poolVars, historyVars
<1>9. StopInv'
  BY <1>1, <1>2 DEF StopInv, stopVars
<1>. QED
  BY <1>7, <1>8, <1>9

-----------------------------------------------------------------------------
\* Stop.

\* A caller of Stop goes on: what has to be shown is about that caller.
LEMMA StopGoesOn ==
    ASSUME IInv, NEW c \in Stoppers,
           NEW step \in {"lock", "ingQueue", "nodeQueue", "lbs", "firewall", "backends", "ok", "error"},
           stop' = [stop EXCEPT ![c] = step],
           UNCHANGED <<fixedVars, historyVars>>,
           ingQueue.worker = "done" => ingQueue'.worker = "done",
           shutdown' => ingQueue'.worker = "done",
           LbsGone => LbsGone', fw = {} => fw' = {}, backends = {} => backends' = {},
           step \in {"nodeQueue", "lbs", "firewall", "backends", "ok", "error"} =>
              ingQueue'.worker = "done",
           step \in {"firewall", "backends"} => LbsGone',
           step = "backends" => fw' = {},
           step = "ok" /\ DeleteAll(c) /\ ~xpn => LbsGone' /\ fw' = {},
           step = "ok" /\ DeleteAll(c) /\ ~xpn /\ listed => backends' = {}
    PROVE  StopInv' /\ stop' \in [Stoppers -> {"idle", "lock", "ingQueue", "nodeQueue", "lbs",
                                               "firewall", "backends", "ok", "error"}]
<1>1. stop \in [Stoppers -> {"idle", "lock", "ingQueue", "nodeQueue", "lbs", "firewall",
                             "backends", "ok", "error"}]
  BY DEF IInv, TypeOK
<1>2. ASSUME NEW d \in Stoppers
      PROVE  /\ stop'[d] \in {"nodeQueue", "lbs", "firewall", "backends", "ok", "error"} =>
                   ingQueue'.worker = "done"
             /\ stop'[d] \in {"firewall", "backends"} => LbsGone'
             /\ stop'[d] = "backends" => fw' = {}
             /\ stop'[d] = "ok" /\ DeleteAll(d) /\ ~xpn' => LbsGone' /\ fw' = {}
             /\ stop'[d] = "ok" /\ DeleteAll(d) /\ ~xpn' /\ listed' => backends' = {}
  <2>1. CASE d = c
    BY <1>1, <2>1 DEF fixedVars, historyVars
  <2>2. CASE d # c
    BY <1>1, <2>2 DEF IInv, StopInv, fixedVars, historyVars
  <2>. QED
    BY <2>1, <2>2
<1>3. StopInv'
  BY <1>2 DEF StopInv, DeleteAll
<1>. QED
  BY <1>1, <1>3

\* Stop up to the point where the queues are drained.
LEMMA StopQueuesInv ==
    ASSUME IInv, NEW c \in Stoppers, StopCall(c) \/ StopQueues(c)
    PROVE  IInv'
<1>. USE DEF IInv
<1>1. UNCHANGED <<spec, pending, sync, cloudVars, poolVars, fixedVars, historyVars>>
  BY DEF StopCall, StopQueues
<1>2. events' \in 0..MaxEvents
  BY HappensType DEF StopCall, StopQueues, TypeOK
<1>3. (LbsGone => LbsGone') /\ (fw = {} => fw' = {}) /\ (backends = {} => backends' = {})
  BY <1>1 DEF LbsGone, cloudVars
<1>4. shutdown' \in BOOLEAN /\ nodeQueue' \in Queues({Node})
  <2>1. nodeQueue \in Queues({Node}) /\ shutdown \in BOOLEAN
    BY DEF TypeOK
  <2>2. ShutDown(nodeQueue) \in Queues({Node})
    BY <2>1, WorkerKeeps
  <2>3. nodeQueue' = nodeQueue \/ nodeQueue' = ShutDown(nodeQueue)
    BY DEF StopCall, StopQueues, StopIngQueue
  <2>4. shutdown' = shutdown \/ shutdown' = TRUE
    BY Zenon DEF StopCall, StopQueues, StopIngQueue
  <2>. QED
    BY <2>1, <2>2, <2>3, <2>4, Zenon
<1>5. /\ ingQueue' \in Queues(Ings) /\ ingQueue'.worker = ingQueue.worker
      /\ ingQueue.shut => ingQueue'.shut
  <2>1. ingQueue \in Queues(Ings)
    BY DEF TypeOK
  <2>2. ingQueue' = ingQueue \/ ingQueue' = ShutDown(ingQueue)
    BY DEF StopCall, StopQueues, StopIngQueue
  <2>. QED
    BY <2>1, <2>2, WorkerKeeps
<1>6. shutdown' => ingQueue'.worker = "done"
  BY <1>5, Zenon DEF StopCall, StopQueues, StopIngQueue, StopInv, stopVars
<1>7. PICK step \in {"lock", "ingQueue", "nodeQueue", "lbs", "ok"} :
             /\ stop' = [stop EXCEPT ![c] = step]
             /\ step \in {"nodeQueue", "lbs", "ok"} => ingQueue.worker = "done"
             /\ step = "ok" => ~DeleteAll(c)
  <2>1. CASE StopCall(c)
    BY <2>1 DEF StopCall, StopTo
  <2>2. CASE stop[c] = "lock" /\ shutdown /\ Drained(c)
    BY <2>2, Zenon DEF Drained, StopTo, StopInv
  <2>3. CASE StopTo(c, "ingQueue")
    BY <2>3 DEF StopTo
  <2>4. CASE StopIngQueue(c)
    BY <2>4 DEF StopIngQueue, StopTo
  <2>5. CASE stop[c] = "nodeQueue" /\ Drained(c)
    BY <2>5, Zenon DEF Drained, StopTo, StopInv
  <2>. QED
    BY <2>1, <2>2, <2>3, <2>4, <2>5, Zenon DEF StopQueues
<1>8. StopInv' /\ stop' \in [Stoppers -> {"idle", "lock", "ingQueue", "nodeQueue", "lbs",
                                          "firewall", "backends", "ok", "error"}]
  BY <1>1, <1>3, <1>5, <1>6, <1>7, StopGoesOn, Zenon
<1>9. TypeOK'
  BY <1>1, <1>2, <1>4, <1>5, <1>8 DEF TypeOK, cloudVars, poolVars, fixedVars, historyVars
<1>10. WorkerInv' /\ PoolInv'
  BY <1>1, <1>5 DEF WorkerInv, PoolInv, cloudVars, poolVars, historyVars
<1>. QED
  BY <1>8, <1>9, <1>10

\* Stop deletes what there is: load balancers, firewall rule, backends.
LEMMA StopClusterInv ==
    ASSUME IInv, NEW c \in Stoppers, StopCluster(c)
    PROVE  IInv'
<1>. USE DEF IInv
<1>1. UNCHANGED <<spec, pending, ingQueue, nodeQueue, sync, groups, shutdown, fixedVars, historyVars>>
  BY DEF StopCluster
<1>2. stop[c] \in {"lbs", "firewall", "backends"} /\ ingQueue.worker = "done"
      /\ (shutdown' => ingQueue'.worker = "done")
  BY <1>1 DEF StopCluster, StopInv
<1>. DEFINE Goal ==
             /\ StopInv'
             /\ stop' \in [Stoppers -> {"idle", "lock", "ingQueue", "nodeQueue", "lbs",
                                        "firewall", "backends", "ok", "error"}]
             /\ um' \in [Ings -> (SUBSET Ports) \cup {None}]
             /\ ready' \subseteq {i \in Ings : um'[i] # None}
             /\ lbPool' \in [Ings -> {"full", "part", None}]
             /\ defaultBe' \in BOOLEAN /\ fw' \subseteq Ports \cup {Default}
             /\ backends' \subseteq Ports /\ known' \subseteq Ports
             /\ (backends \subseteq known => backends' \subseteq known')
             /\ events' \in 0..MaxEvents
<1>3. ASSUME stop[c] = "lbs", NEW failed \in BOOLEAN, GCLbs({}, failed),
             StopTo(c, IF failed THEN "error" ELSE "firewall"), UNCHANGED <<backends, known, fw>>
      PROVE  Goal
  <2>1. /\ um' \in [Ings -> (SUBSET Ports) \cup {None}]
        /\ ready' \subseteq {i \in Ings : um'[i] # None}
        /\ lbPool' \in [Ings -> {"full", "part", None}]
        /\ defaultBe' \in BOOLEAN
        /\ events' \in 0..MaxEvents
        /\ \A i \in Ings : um'[i] \in {um[i], None}
        /\ defaultBe' \in {defaultBe, FALSE}
        /\ failed = FALSE => LbsGone'
    BY <1>3, GCLbsDeletes, Zenon
  <2>2. LbsGone => LbsGone'
    BY <2>1, Zenon DEF LbsGone
  <2>. DEFINE step == IF failed THEN "error" ELSE "firewall"
  <2>3. step \in {"error", "firewall"} /\ (step = "firewall" => failed = FALSE)
    BY Zenon
  <2>4. stop' = [stop EXCEPT ![c] = step]
    BY <1>3 DEF StopTo
  <2>. HIDE DEF step
  <2>5. StopInv' /\ stop' \in [Stoppers -> {"idle", "lock", "ingQueue", "nodeQueue", "lbs",
                                            "firewall", "backends", "ok", "error"}]
    BY <1>1, <1>2, <1>3, <2>1, <2>2, <2>3, <2>4, StopGoesOn, Zenon
  <2>. QED
    BY <1>3, <2>1, <2>5 DEF TypeOK
<1>4. ASSUME stop[c] = "firewall", NEW step \in {"ok", "backends", "error"},
             stop' = [stop EXCEPT ![c] = step], fw' \in {fw, Rule({})},
             step = "backends" => fw' = {}, step = "ok" => xpn, events' \in 0..MaxEvents,
             UNCHANGED <<um, ready, lbPool, defaultBe, backends, known>>
      PROVE  Goal
  <2>1. fw' \in {fw, {}}
    BY <1>4 DEF Rule
  <2>2. LbsGone /\ LbsGone'
    BY <1>4 DEF StopInv, LbsGone
  <2>3. StopInv' /\ stop' \in [Stoppers -> {"idle", "lock", "ingQueue", "nodeQueue", "lbs",
                                            "firewall", "backends", "ok", "error"}]
    BY <1>1, <1>2, <1>4, <2>1, <2>2, StopGoesOn, Zenon
  <2>. QED
    BY <1>4, <2>1, <2>3 DEF TypeOK
<1>5. ASSUME stop[c] = "backends", NEW failed \in BOOLEAN, GCBackends({}, failed),
             StopTo(c, IF failed THEN "error" ELSE "ok"),
             UNCHANGED <<um, ready, lbPool, defaultBe, fw>>
      PROVE  Goal
  <2>1. /\ known' \subseteq known /\ backends' \subseteq backends
        /\ backends \subseteq known => backends' \subseteq known'
        /\ failed = FALSE => backends' = backends \ (known \ {})
        /\ events' \in 0..MaxEvents
    <3>1. TypeOK
      OBVIOUS
    <3>2. BackendsDeleted({}, failed)
      BY <1>5, <3>1, GCBackendsDeletes, Zenon
    <3>. QED
      BY <3>2 DEF BackendsDeleted
  <2>2. LbsGone /\ LbsGone' /\ fw' = {}
    BY <1>5 DEF StopInv, LbsGone
  <2>. DEFINE step == IF failed THEN "error" ELSE "ok"
  <2>3. step \in {"error", "ok"} /\ (step = "ok" => failed = FALSE)
    BY Zenon
  <2>4. stop' = [stop EXCEPT ![c] = step]
    BY <1>5 DEF StopTo
  <2>. HIDE DEF step
  <2>5. step = "ok" /\ listed => backends' = {}
    BY <2>1, <2>3 DEF PoolInv
  <2>6. StopInv' /\ stop' \in [Stoppers -> {"idle", "lock", "ingQueue", "nodeQueue", "lbs",
                                            "firewall", "backends", "ok", "error"}]
    BY <1>1, <1>2, <2>1, <2>2, <2>3, <2>4, <2>5, StopGoesOn, Zenon
  <2>. QED
    BY <1>5, <2>1, <2>6 DEF TypeOK
<1>6. Goal
  <2>1. CASE stop[c] = "firewall" /\ UNCHANGED <<um, ready, lbPool, defaultBe, backends, known>>
             /\ (\/ NoFault /\ fw' = Rule({}) /\ StopTo(c, IF xpn THEN "ok" ELSE "backends")
                 \/ Fault /\ fw' \in {fw, Rule({})} /\ StopTo(c, "error"))
    <3>1. events' \in 0..MaxEvents
      BY <2>1, HappensType DEF TypeOK, Fault, NoFault
    <3>2. CASE fw' = Rule({}) /\ StopTo(c, IF xpn THEN "ok" ELSE "backends")
      <4>1. CASE xpn
        BY <1>4, <2>1, <3>1, <3>2, <4>1 DEF StopTo
      <4>2. CASE ~xpn
        BY <1>4, <2>1, <3>1, <3>2, <4>2 DEF StopTo, Rule
      <4>. QED
        BY <4>1, <4>2
    <3>3. CASE fw' \in {fw, Rule({})} /\ StopTo(c, "error")
      BY <1>4, <2>1, <3>1, <3>3 DEF StopTo
    <3>. QED
      BY <2>1, <3>2, <3>3
  <2>. HIDE DEF Goal
  <2>. QED
    BY <1>3, <1>5, <2>1, Zenon DEF StopCluster
<1>7. TypeOK'
  BY <1>1, <1>6 DEF TypeOK, fixedVars, historyVars
<1>8. WorkerInv' /\ PoolInv'
  BY <1>1, <1>6 DEF WorkerInv, PoolInv, historyVars
<1>. QED
  BY <1>6, <1>7, <1>8

-----------------------------------------------------------------------------
\* A new process after an exit or a crash.
LEMMA BootInv == ASSUME IInv, Exit \/ Crash PROVE IInv'
<1>. USE DEF IInv
<1>1. Boot
  BY DEF Exit, Crash
<1>2. events' \in 0..MaxEvents
  BY HappensType DEF Exit, Crash, TypeOK, Fault
<1>3. spec' \in Specs /\ left' = left
  BY DEF Exit, Crash, TypeOK, Specs, ListKeys
<1>4. /\ ingQueue' \in Queues(Ings) /\ ingQueue'.worker = "new" /\ nodeQueue' \in Queues({Node})
      /\ sync' \in Syncs /\ sync'.pc = "idle"
  BY <1>1 DEF Boot, NewTaskQueue, Queues, Fresh, Syncs
<1>5. pending' \subseteq Ings
  BY <1>1 DEF Boot, ListAll
<1>6. shutdown' \in BOOLEAN /\ listed' \in BOOLEAN /\ collected' \in BOOLEAN
  BY <1>1, Zenon DEF Boot
<1>7. TypeOK'
  BY <1>1, <1>2, <1>3, <1>4, <1>5, <1>6 DEF Boot, TypeOK, cloudVars, fixedVars
<1>8. WorkerInv' /\ StopInv' /\ PoolInv'
  BY <1>1, <1>4 DEF Boot, WorkerInv, StopInv, PoolInv
<1>. QED
  BY <1>7, <1>8

\* Every step keeps the invariant.
LEMMA NextInv == IInv /\ [Next]_vars => IInv'
<1>. SUFFICES ASSUME IInv, [Next]_vars PROVE IInv'
  OBVIOUS
<1>1. ASSUME NEW i \in Ings, IngressChange(i) \/ Enqueue(i) PROVE IInv'
  BY <1>1, EventsInv
<1>2. CASE Event \/ Retry
  BY <1>2, EventsInv
<1>3. CASE Relist
  BY <1>3, RelistInv
<1>4. CASE WorkerStart \/ WorkerQuit \/ NodeSync
  BY <1>4, WorkersInv
<1>5. CASE SyncStep
  BY <1>5, SyncBeginInv, EnsureBackendsInv, SyncLbsInv, RestOfSyncInv, SyncGCInv, SyncEndInv
     DEF SyncStep
<1>6. ASSUME NEW c \in Stoppers, StopCall(c) \/ StopStep(c) PROVE IInv'
  BY <1>6, StopQueuesInv, StopClusterInv DEF StopStep
<1>7. CASE Exit \/ Crash
  BY <1>7, BootInv
<1>8. CASE UNCHANGED vars
  <2>1. UNCHANGED <<spec, pending, ingQueue, nodeQueue, sync, cloudVars, poolVars, stopVars,
                    fixedVars, historyVars, events>>
    BY <1>8 DEF vars
  <2>. QED
    BY <2>1, QuietStep DEF IInv, TypeOK, WorkerInv, historyVars
<1>. QED
  BY <1>1, <1>2, <1>3, <1>4, <1>5, <1>6, <1>7, <1>8, Zenon DEF Next

\* The invariant holds in every reachable state.
LEMMA Invariance == Spec => []IInv
BY InitInv, NextInv, PTL DEF Spec

-----------------------------------------------------------------------------
\* The variables of the controller, its queues, workers and resources have
\* their types, for any number of ingresses and ports and any failures: in
\* particular a load balancer that is complete has a url map.
THEOREM TypeCorrect == Spec => []TypeOK
<1>1. IInv => TypeOK
  BY DEF IInv
<1>. QED
  BY <1>1, Invariance, PTL

\* When Stop returns without an error after it was asked to delete everything,
\* nothing is left, for any ingresses, ports and interleaving with syncs,
\* failures, relisting and a second caller.
THEOREM StopDeletesAll == Spec => []ShutdownDeletes
<1>1. IInv => ShutdownDeletes
  BY DEF IInv, StopInv, LbsGone, ShutdownDeletes
<1>. QED
  BY <1>1, Invariance, PTL

-----------------------------------------------------------------------------
\* A step of a sync that has read the ingress as it is does not disturb it.
LEMMA SyncServes ==
    ASSUME IInv, NEW i \in Ings, Wanted(i), Served(i), sync.pc # "idle", sync.snap[i] = spec[i],
           EnsureBackends \/ SyncLbs \/ UpdateUrlMap \/ SyncGCLbs \/ SyncGCBackends
    PROVE  Served(i)'
<1>. DEFINE ports == spec[i].ports
<1>1. TypeOK /\ sync.snap \in Specs /\ spec' = spec
  BY Zenon DEF IInv, WorkerInv, EnsureBackends, SyncLbs, UpdateUrlMap, SyncGCLbs, SyncGCBackends
<1>2. i \in ready /\ um[i] = ports /\ ports \subseteq backends /\ defaultBe
  BY DEF Served
<1>3. um[i] # None /\ i \in ListKeys(sync.snap) /\ i \in ListAll(sync.snap)
  BY <1>1, <1>2 DEF TypeOK, Wanted, ListKeys, ListAll
<1>. HIDE DEF ports
<1>4. SUFFICES i \in ready' /\ um'[i] = ports /\ ports \subseteq backends' /\ defaultBe' = TRUE
  BY <1>1 DEF Served, ports
<1>5. defaultBe = TRUE
  BY <1>1, <1>2, Zenon DEF TypeOK
<1>6. CASE EnsureBackends
  <2>1. UNCHANGED <<um, ready, defaultBe>>
    BY <1>6 DEF EnsureBackends
  <2>2. backends \subseteq backends'
    BY <1>6, Zenon DEF EnsureBackends
  <2>. QED
    BY <1>2, <1>5, <2>1, <2>2
<1>7. CASE SyncLbs
  <2>1. /\ backends' = backends
        /\ \/ UNCHANGED <<um, ready>>
           \/ \E done, made : AddedLbs(done, made)
        /\ defaultBe' \in {defaultBe, TRUE}
    BY <1>7, Zenon DEF SyncLbs, AddedLbs
  <2>2. i \in ready' /\ um'[i] = um[i]
    BY <1>2, <1>3, <2>1 DEF AddedLbs
  <2>. QED
    BY <1>2, <1>5, <2>1, <2>2, Zenon
<1>8. CASE UpdateUrlMap
  <2>1. UNCHANGED <<ready, backends, defaultBe>>
    BY <1>8 DEF UpdateUrlMap
  <2>2. \/ UNCHANGED um
        \/ um' = [um EXCEPT ![sync.key] = sync.snap[sync.key].ports]
    BY <1>8 DEF UpdateUrlMap
  <2>3. um'[i] = ports
    <3>1. DOMAIN um = Ings /\ sync.snap[i].ports = ports
      BY <1>1 DEF TypeOK, ports
    <3>2. CASE UNCHANGED um
      BY <1>2, <3>2
    <3>3. CASE um' = [um EXCEPT ![sync.key] = sync.snap[sync.key].ports]
      BY <1>2, <3>1, <3>3
    <3>. QED
      BY <2>2, <3>2, <3>3
  <2>. QED
    BY <1>2, <1>5, <2>1, <2>3
<1>9. CASE SyncGCLbs
  <2>1. backends' = backends /\ \E failed \in BOOLEAN : GCLbs(ListKeys(sync.snap), failed)
    BY <1>9, Zenon DEF SyncGCLbs
  <2>2. PICK failed \in BOOLEAN : GCLbs(ListKeys(sync.snap), failed)
    BY <2>1
  <2>. DEFINE names == ListKeys(sync.snap)
  <2>3. i \in Ings \cap names /\ names # {} /\ GCLbs(names, failed)
    BY <1>3, <2>2
  <2>. HIDE DEF names
  <2>4. um'[i] = um[i] /\ (i \in ready => i \in ready') /\ defaultBe' = defaultBe
    BY <1>1, <2>3, GCLbsDeletes, Zenon
  <2>. QED
    BY <1>2, <1>5, <2>1, <2>4
<1>10. CASE SyncGCBackends
  <2>. DEFINE all == ToNodePorts(sync.snap, ListAll(sync.snap))
  <2>1. UNCHANGED <<um, ready, defaultBe>> /\ \E failed \in BOOLEAN : GCBackends(all, failed)
    BY <1>10, Zenon DEF SyncGCBackends
  <2>2. ports \subseteq all
    BY <1>3 DEF ToNodePorts, ports
  <2>. HIDE DEF all
  <2>3. PICK failed \in BOOLEAN : GCBackends(all, failed)
    BY <2>1
  <2>4. BackendsDeleted(all, failed)
    BY <1>1, <2>3, GCBackendsDeletes, Zenon
  <2>5. backends \cap all \subseteq backends'
    BY <2>4 DEF BackendsDeleted
  <2>. QED
    BY <1>2, <1>5, <2>1, <2>2, <2>5
<1>. QED
  BY <1>6, <1>7, <1>8, <1>9, <1>10, Zenon

\* Neither does any other step, as long as Stop was not called.
LEMMA StepServes ==
    ASSUME IInv, [Next]_vars, NEW i \in Ings, Wanted(i), Served(i), spec'[i] = spec[i],
           ~StopChClosed, sync.pc = "idle" \/ sync.snap[i] = spec[i]
    PROVE  Served(i)'
<1>1. CASE UNCHANGED <<um, ready, backends, defaultBe>>
  BY <1>1 DEF Served
<1>2. CASE EnsureBackends \/ SyncLbs \/ UpdateUrlMap \/ SyncGCLbs \/ SyncGCBackends
  <2>1. sync.pc # "idle"
    BY <1>2, Zenon DEF EnsureBackends, SyncLbs, UpdateUrlMap, SyncGCLbs, SyncGCBackends
  <2>. QED
    BY <1>2, <2>1, SyncServes
<1>3. ASSUME NEW c \in Stoppers, StopCluster(c) PROVE FALSE
  <2>1. stop[c] \in {"lbs", "firewall", "backends"}
    BY <1>3 DEF StopCluster
  <2>. QED
    BY <2>1 DEF IInv, StopInv, WorkerInv, StopChClosed
<1>4. \/ UNCHANGED <<um, ready, backends, defaultBe>>
      \/ EnsureBackends \/ SyncLbs \/ UpdateUrlMap \/ SyncGCLbs \/ SyncGCBackends
      \/ \E c \in Stoppers : StopCluster(c)
  BY Zenon DEF Next, vars, cloudVars, IngressChange, Enqueue, Event, Retry, Relist, WorkerStart,
     WorkerQuit, NodeSync, SyncStep, SyncBegin, SyncFirewall, SyncEnd, StopStep, StopCall,
     StopQueues, Exit, Crash, Boot
<1>. QED
  BY <1>1, <1>2, <1>3, <1>4

\* An ingress that is served and does not change stays served, for any number
\* of other ingresses, whatever happens to them and whatever fails.
THEOREM ServedForGood == Spec => ServedStaysServed
<1>1. IInv /\ [Next]_vars =>
         [\A i \in Ings :
             /\ Wanted(i) /\ Served(i) /\ spec'[i] = spec[i]
             /\ ~StopChClosed
             /\ sync.pc = "idle" \/ sync.snap[i] = spec[i]
             => Served(i)']_vars
  BY StepServes
<1>. QED
  BY <1>1, Invariance, PTL DEF Spec, ServedStaysServed

-----------------------------------------------------------------------------
\* No ingress is forgotten.

\* A sync will begin with the ingress, after what is in progress.
Waits(i) == i \in pending \cup ingQueue.dirty \cup ingQueue.waiting

\* An ingress of which a sync in progress has read an older version waits for
\* the next sync.
FreshInv ==
    sync.pc # "idle" /\ ~StopChClosed =>
       \A i \in Ings : Wanted(i) /\ sync.snap[i] # spec[i] => Waits(i)

\* What a sync without a failure has brought about so far for its key.
ProgressInv ==
    sync.pc # "idle" /\ sync.failed = FALSE /\ sync.key \in ListGCEIngresses(sync.snap) =>
       /\ sync.pc # "ensure" => sync.snap[sync.key].ports \subseteq backends
       /\ sync.pc \notin {"ensure", "lbs"} => sync.key \in ready /\ defaultBe = TRUE
       /\ sync.pc \in {"gcLbs", "gcBackends", "gcGroups"} => um[sync.key] = sync.snap[sync.key].ports

IdleInv == sync.pc = "idle" => sync.key = None

FInv == IInv /\ FreshInv /\ ProgressInv /\ IdleInv /\ NoneForgotten

\* A change of an ingress of this class, and a new process, lead to a
\* notification.
LEMMA ChangeIsNotified ==
    ASSUME IInv, [Next]_vars, NEW i \in Ings, Wanted(i)',
           spec'[i] # spec[i] \/ Exit \/ Crash
    PROVE  Waits(i)'
<1>1. CASE Exit \/ Crash
  <2>1. pending' = ListAll(spec')
    BY <1>1 DEF Exit, Crash, Boot
  <2>. QED
    BY <2>1 DEF Waits, Wanted, ListAll
<1>2. CASE ~(Exit \/ Crash)
  <2>1. \/ UNCHANGED spec
        \/ \E j \in Ings : IngressChange(j)
    BY <1>2, Zenon DEF Next, vars, Enqueue, Event, Retry, Relist, WorkerStart,
       WorkerQuit, NodeSync, SyncStep, SyncBegin, EnsureBackends, SyncLbs, SyncFirewall,
       UpdateUrlMap, SyncGCLbs, SyncGCBackends, SyncEnd, StopStep, StopCall, StopQueues,
       StopCluster
  <2>2. PICK j \in Ings : IngressChange(j)
    BY <1>2, <2>1
  <2>3. PICK new : /\ spec' = [spec EXCEPT ![j] = new]
                   /\ pending' = IF Notifies(spec[j], new) THEN pending \cup {j} ELSE pending
    BY <2>2, Zenon DEF IngressChange
  <2>4. j = i /\ spec'[i] = new
    BY <1>2, <2>3 DEF IInv, TypeOK, Specs
  <2>5. Notifies(spec[j], new)
    BY <2>4 DEF Wanted, Notifies
  <2>. QED
    BY <2>3, <2>4, <2>5 DEF Waits
<1>. QED
  BY <1>1, <1>2

\* An ingress that waits goes on waiting until a sync begins with it.
LEMMA WaitsOn ==
    ASSUME IInv, [Next]_vars, NEW i \in Ings, Waits(i), ~StopChClosed, ~Exit, ~Crash
    PROVE  Waits(i)' \/ (SyncBegin /\ sync'.key = i)
<1>1. ingQueue \in Queues(Ings) /\ ~ingQueue.shut
  BY DEF IInv, TypeOK, StopChClosed
<1>2. ASSUME NEW j \in Ings, IngressChange(j) PROVE Waits(i)'
  <2>1. pending \subseteq pending' /\ ingQueue' = ingQueue
    BY <1>2 DEF IngressChange
  <2>. QED
    BY <2>1 DEF Waits
<1>3. ASSUME NEW j \in Ings, Enqueue(j) PROVE Waits(i)'
  <2>1. pending' = pending \ {j} /\ ingQueue' = Add(ingQueue, j)
    BY <1>3 DEF Enqueue
  <2>2. ingQueue'.dirty = ingQueue.dirty \cup {j} /\ ingQueue'.waiting = ingQueue.waiting
    BY <1>1, <2>1, QueueKeeps
  <2>. QED
    BY <2>1, <2>2 DEF Waits
<1>4. CASE Event \/ Retry
  <2>1. /\ pending' = pending
        /\ \/ UNCHANGED ingQueue
           \/ \E j \in Ings : ingQueue' = Add(ingQueue, j) \/ ingQueue' = Elapsed(ingQueue, j)
    BY <1>1, <1>4 DEF Event, Retry, ListAll, Queues
  <2>2. ASSUME NEW j \in Ings, ingQueue' = Add(ingQueue, j) \/ ingQueue' = Elapsed(ingQueue, j)
        PROVE  /\ ingQueue'.dirty = ingQueue.dirty \cup {j}
               /\ ingQueue'.waiting \in {ingQueue.waiting, ingQueue.waiting \ {j}}
    BY <1>1, <2>2, QueueKeeps
  <2>3. ASSUME NEW j \in Ings, ingQueue' = Add(ingQueue, j) \/ ingQueue' = Elapsed(ingQueue, j)
        PROVE  Waits(i)'
    BY <2>1, <2>2, <2>3 DEF Waits
  <2>. QED
    BY <2>1, <2>3 DEF Waits
<1>5. CASE SyncBegin
  <2>. DEFINE key == Head(ingQueue.queue)
  <2>1. CanGet(ingQueue) /\ pending' = pending
    BY <1>5 DEF SyncBegin
  <2>2. key \in Ings /\ Got(ingQueue) \in Queues(Ings) /\ ~Got(ingQueue).shut
        /\ Got(ingQueue).dirty = ingQueue.dirty \ {key} /\ Got(ingQueue).waiting = ingQueue.waiting
    BY <1>1, <2>1, GotKeeps, QueueKeeps
  <2>3. \/ ingQueue' = Got(ingQueue) /\ sync' = [Fresh EXCEPT !.pc = "ensure", !.key = key, !.snap = spec]
        \/ ingQueue' = Synced(Got(ingQueue), key, TRUE)
    BY <1>5, Zenon DEF SyncBegin
  <2>. HIDE DEF key
  <2>4. CASE ingQueue' = Got(ingQueue) /\ sync' = [Fresh EXCEPT !.pc = "ensure", !.key = key, !.snap = spec]
    <3>1. sync'.key = key
      BY <2>4 DEF Fresh
    <3>. QED
      BY <1>5, <2>1, <2>2, <2>4, <3>1 DEF Waits
  <2>5. CASE ingQueue' = Synced(Got(ingQueue), key, TRUE)
    <3>1. TakesBack(Got(ingQueue), ingQueue', key, TRUE)
      BY <2>2, <2>5, RetryKeeps, Zenon
    <3>. QED
      BY <2>1, <2>2, <3>1 DEF Waits, TakesBack
  <2>. QED
    BY <2>3, <2>4, <2>5, Zenon
<1>6. CASE SyncEnd
  <2>1. pending' = pending /\ sync.key \in Ings
    BY <1>6 DEF SyncEnd, IInv, WorkerInv
  <2>2. PICK failed \in BOOLEAN : ingQueue' = Synced(ingQueue, sync.key, failed)
    <3>1. (sync.failed \/ sync.gcFailed) \in BOOLEAN
      BY Zenon
    <3>. QED
      BY <1>6, <3>1, Zenon DEF SyncEnd
  <2>3. TakesBack(ingQueue, ingQueue', sync.key, failed)
    BY <1>1, <2>1, <2>2, RetryKeeps, Zenon
  <2>. QED
    BY <2>1, <2>3 DEF Waits, TakesBack
<1>7. ASSUME pending' = pending, ingQueue'.dirty = ingQueue.dirty, ingQueue'.waiting = ingQueue.waiting
      PROVE  Waits(i)'
  BY <1>7 DEF Waits
<1>8. CASE WorkerStart \/ WorkerQuit \/ \E c \in Stoppers : StopCall(c) \/ StopQueues(c)
  <2>1. /\ pending' = pending
        /\ \/ UNCHANGED ingQueue
           \/ ingQueue' \in {Started(ingQueue), Quit(ingQueue), ShutDown(ingQueue)}
    BY <1>8 DEF WorkerStart, WorkerQuit, StopCall, StopQueues, StopIngQueue
  <2>2. ingQueue'.dirty = ingQueue.dirty /\ ingQueue'.waiting = ingQueue.waiting
    BY <1>1, <2>1 DEF Started, Quit, ShutDown, Queues
  <2>. QED
    BY <1>7, <2>1, <2>2
<1>9. CASE UNCHANGED <<pending, ingQueue>>
  BY <1>7, <1>9
<1>10. \/ UNCHANGED <<pending, ingQueue>>
       \/ \E j \in Ings : IngressChange(j) \/ Enqueue(j)
       \/ Event \/ Retry \/ WorkerStart \/ WorkerQuit \/ SyncBegin \/ SyncEnd
       \/ \E c \in Stoppers : StopCall(c) \/ StopQueues(c)
  BY Zenon DEF Next, vars, Relist, NodeSync, SyncStep, EnsureBackends, SyncLbs, SyncFirewall,
     UpdateUrlMap, SyncGCLbs, SyncGCBackends, StopStep, StopCluster
<1>. QED
  BY <1>2, <1>3, <1>4, <1>5, <1>6, <1>8, <1>9, <1>10, Zenon

\* Only a new process opens stopCh again.
LEMMA ShutForGood ==
    ASSUME IInv, [Next]_vars, ~Exit, ~Crash, StopChClosed
    PROVE  StopChClosed'
<1>1. ingQueue \in Queues(Ings) /\ ingQueue.shut
  BY DEF IInv, TypeOK, StopChClosed
<1>2. CASE SyncBegin \/ SyncEnd
  <2>1. \/ ingQueue' = Got(ingQueue) /\ CanGet(ingQueue)
        \/ CanGet(ingQueue) /\ ingQueue' = Synced(Got(ingQueue), Head(ingQueue.queue), TRUE)
        \/ SyncEnd /\ \E failed \in BOOLEAN : ingQueue' = Synced(ingQueue, sync.key, failed)
    <3>1. (sync.failed \/ sync.gcFailed) \in BOOLEAN
      BY Zenon
    <3>. QED
      BY <1>2, <3>1, Zenon DEF SyncBegin, SyncEnd
  <2>2. ASSUME CanGet(ingQueue)
        PROVE  /\ Head(ingQueue.queue) \in Ings /\ Got(ingQueue) \in Queues(Ings)
               /\ Got(ingQueue).shut = ingQueue.shut
    BY <1>1, <2>2, GotKeeps, Zenon
  <2>3. CASE ingQueue' = Got(ingQueue) /\ CanGet(ingQueue)
    BY <1>1, <2>2, <2>3, Zenon DEF StopChClosed
  <2>4. CASE CanGet(ingQueue) /\ ingQueue' = Synced(Got(ingQueue), Head(ingQueue.queue), TRUE)
    BY <1>1, <2>2, <2>4, SyncedKeeps, Zenon DEF StopChClosed
  <2>5. ASSUME SyncEnd, NEW failed \in BOOLEAN, ingQueue' = Synced(ingQueue, sync.key, failed)
        PROVE  StopChClosed'
    <3>1. sync.key \in Ings
      BY <2>5 DEF IInv, WorkerInv, SyncEnd
    <3>. QED
      BY <1>1, <2>5, <3>1, SyncedKeeps DEF StopChClosed
  <2>. QED
    BY <2>1, <2>3, <2>4, <2>5, Zenon
<1>3. CASE (\E j \in Ings : Enqueue(j)) \/ Event \/ Retry
  <2>1. \/ UNCHANGED ingQueue
        \/ \E j \in Ings : ingQueue' = Add(ingQueue, j) \/ ingQueue' = Elapsed(ingQueue, j)
    BY <1>1, <1>3 DEF Enqueue, Event, Retry, ListAll, Queues
  <2>2. ASSUME NEW j \in Ings
        PROVE  Add(ingQueue, j).shut = ingQueue.shut /\ Elapsed(ingQueue, j).shut = ingQueue.shut
    BY <1>1, AddKeeps, ElapsedKeeps, Zenon
  <2>. QED
    BY <1>1, <2>1, <2>2, Zenon DEF StopChClosed
<1>4. CASE WorkerStart \/ WorkerQuit \/ \E c \in Stoppers : StopQueues(c)
  <2>1. \/ UNCHANGED ingQueue
        \/ ingQueue' \in {Started(ingQueue), Quit(ingQueue), ShutDown(ingQueue)}
    BY <1>4 DEF WorkerStart, WorkerQuit, StopQueues, StopIngQueue
  <2>. QED
    BY <1>1, <2>1 DEF Started, Quit, ShutDown, Queues, StopChClosed
<1>5. CASE UNCHANGED ingQueue
  BY <1>1, <1>5 DEF StopChClosed
<1>6. \/ UNCHANGED ingQueue
      \/ (\E j \in Ings : Enqueue(j)) \/ Event \/ Retry
      \/ WorkerStart \/ WorkerQuit \/ SyncBegin \/ SyncEnd
      \/ \E c \in Stoppers : StopQueues(c)
  BY Zenon DEF Next, vars, IngressChange, Relist, NodeSync, SyncStep, EnsureBackends, SyncLbs,
     SyncFirewall, UpdateUrlMap, SyncGCLbs, SyncGCBackends, StopStep, StopCall, StopCluster
<1>. QED
  BY <1>2, <1>3, <1>4, <1>5, <1>6, Zenon

\* What a step does to a sync: it begins, goes on with the same key and
\* snapshot, or ends, unless the process does.
LEMMA SyncGoesOn ==
    ASSUME IInv, [Next]_vars, ~Exit, ~Crash
    PROVE  \/ UNCHANGED sync
           \/ SyncBegin /\ sync.pc = "idle" /\ sync' = [Fresh EXCEPT !.pc = "ensure",
                                                    !.key = Head(ingQueue.queue), !.snap = spec]
           \/ SyncEnd /\ sync' = Fresh
           \/ sync.pc # "idle" /\ sync'.pc # "idle" /\ sync'.key = sync.key /\ sync'.snap = sync.snap
<1>1. CASE SyncBegin
  <2>1. ingQueue.worker = "idle"
    BY <1>1 DEF SyncBegin, CanGet
  <2>. QED
    BY <1>1, <2>1, Zenon DEF SyncBegin, IInv, WorkerInv
<1>2. CASE SyncEnd
  BY <1>2, Zenon DEF SyncEnd
<1>3. CASE EnsureBackends \/ SyncLbs \/ SyncFirewall \/ UpdateUrlMap \/ SyncGCLbs \/ SyncGCBackends
  <2>1. sync.pc # "idle"
    BY <1>3, Zenon DEF EnsureBackends, SyncLbs, SyncFirewall, UpdateUrlMap,
       SyncGCLbs, SyncGCBackends
  <2>. DEFINE Goes == sync'.pc # "idle" /\ sync'.key = sync.key /\ sync'.snap = sync.snap
  <2>2. sync \in Syncs
    BY DEF IInv, TypeOK
  <2>3. ASSUME EnsureBackends \/ SyncLbs \/ SyncFirewall PROVE Goes
    BY <2>2, <2>3, Zenon DEF EnsureBackends, SyncLbs, SyncFirewall, To, CheckpointFails, Syncs
  <2>4. ASSUME UpdateUrlMap PROVE Goes
    <3>1. PICK failed : sync' = [sync EXCEPT !.pc = "gcLbs", !.failed = failed]
      BY <2>4, Zenon DEF UpdateUrlMap
    <3>. QED
      BY <2>2, <3>1 DEF Syncs
  <2>5. ASSUME SyncGCLbs \/ SyncGCBackends PROVE Goes
    <3>1. PICK failed : \/ sync' = [sync EXCEPT !.pc = "gcBackends", !.gcFailed = failed]
                        \/ sync' = [sync EXCEPT !.pc = "gcGroups", !.gcFailed = failed]
      BY <2>5, Zenon DEF SyncGCLbs, SyncGCBackends
    <3>. QED
      BY <2>2, <3>1, Zenon DEF Syncs
  <2>. QED
    BY <1>3, <2>1, <2>3, <2>4, <2>5
<1>4. \/ UNCHANGED sync
      \/ SyncBegin \/ SyncEnd
      \/ EnsureBackends \/ SyncLbs \/ SyncFirewall \/ UpdateUrlMap \/ SyncGCLbs \/ SyncGCBackends
  BY Zenon DEF Next, vars, IngressChange, Enqueue, Event, Retry, Relist, WorkerStart, WorkerQuit,
     NodeSync, SyncStep, StopStep, StopCall, StopQueues, StopCluster
<1>. QED
  BY <1>1, <1>2, <1>3, <1>4

\* The checkpoint and the rest of a sync do for the key what ProgressInv says.
LEMMA CheckpointServes ==
    ASSUME IInv, ProgressInv, EnsureBackends \/ SyncLbs \/ SyncFirewall \/ UpdateUrlMap
    PROVE  ProgressInv'
<1>. DEFINE k == sync.key
            ports == sync.snap[k].ports
<1>1. sync \in Syncs /\ sync.snap \in Specs /\ k \in Ings /\ DOMAIN um = Ings
  BY Zenon DEF IInv, TypeOK, WorkerInv, EnsureBackends, SyncLbs, SyncFirewall, UpdateUrlMap
<1>2. SUFFICES ASSUME sync'.failed = FALSE, k \in ListGCEIngresses(sync.snap),
                      sync'.key = k, sync'.snap = sync.snap
               PROVE  /\ sync'.pc # "ensure" => ports \subseteq backends'
                      /\ sync'.pc \notin {"ensure", "lbs"} => k \in ready' /\ defaultBe' = TRUE
                      /\ sync'.pc \in {"gcLbs", "gcBackends", "gcGroups"} => um'[k] = ports
  <2>1. sync'.key = k /\ sync'.snap = sync.snap
    <3>1. CASE EnsureBackends \/ SyncLbs \/ SyncFirewall
      BY <1>1, <3>1, Zenon DEF EnsureBackends, SyncLbs, SyncFirewall, To, CheckpointFails, Syncs
    <3>2. CASE UpdateUrlMap
      <4>1. PICK failed : sync' = [sync EXCEPT !.pc = "gcLbs", !.failed = failed]
        BY <3>2, Zenon DEF UpdateUrlMap
      <4>. QED
        BY <1>1, <4>1 DEF Syncs
    <3>. QED
      BY <3>1, <3>2
  <2>. QED
    BY <2>1, Zenon DEF ProgressInv
<1>3. CASE EnsureBackends
  <2>1. sync' = [sync EXCEPT !.pc = "lbs"]
        /\ backends' = backends \cup ToNodePorts(sync.snap, ListGCEIngresses(sync.snap))
    BY <1>1, <1>2, <1>3, Zenon DEF EnsureBackends, To, CheckpointFails, Syncs
  <2>2. sync'.pc = "lbs"
    BY <1>1, <2>1 DEF Syncs
  <2>3. ports \subseteq backends'
    BY <1>2, <2>1 DEF ToNodePorts
  <2>. QED
    BY <2>2, <2>3
<1>4. CASE SyncLbs
  <2>1. sync.pc = "lbs" /\ backends' = backends
    BY <1>4 DEF SyncLbs
  <2>2. sync' = [sync EXCEPT !.pc = "firewall"] /\ k \in ready' /\ defaultBe' = TRUE
    BY <1>1, <1>2, <1>4, Zenon DEF SyncLbs, To, CheckpointFails, Syncs, AddedLbs
  <2>3. sync'.pc = "firewall" /\ sync.failed = FALSE
    BY <1>1, <1>2, <2>2 DEF Syncs
  <2>4. ports \subseteq backends
    BY <1>2, <2>1, <2>3 DEF ProgressInv
  <2>. QED
    BY <2>1, <2>2, <2>3, <2>4
<1>5. CASE SyncFirewall
  <2>1. sync.pc = "firewall" /\ UNCHANGED <<backends, ready, defaultBe>>
    BY <1>5 DEF SyncFirewall
  <2>2. sync' = [sync EXCEPT !.pc = "urlmap"]
    BY <1>1, <1>2, <1>5, Zenon DEF SyncFirewall, To, CheckpointFails, Syncs
  <2>3. sync'.pc = "urlmap" /\ sync.failed = FALSE
    BY <1>1, <1>2, <2>2 DEF Syncs
  <2>4. ports \subseteq backends /\ k \in ready /\ defaultBe = TRUE
    BY <1>2, <2>1, <2>3 DEF ProgressInv
  <2>. QED
    BY <2>1, <2>3, <2>4
<1>6. CASE UpdateUrlMap
  <2>1. sync.pc = "urlmap" /\ UNCHANGED <<backends, ready, defaultBe>>
    BY <1>6 DEF UpdateUrlMap
  <2>2. sync.snap[k] # None /\ sync.snap[k].class = "gce"
    BY <1>2 DEF ListGCEIngresses
  <2>3. PICK failed : /\ sync' = [sync EXCEPT !.pc = "gcLbs", !.failed = failed]
                      /\ \/ failed = TRUE
                         \/ failed = sync.failed /\ um' = [um EXCEPT ![k] = ports]
    <3>1. sync.snap[k].class # "multi"
      BY <2>2
    <3>. HIDE DEF k
    <3>. QED
      BY <1>6, <2>2, <3>1, Zenon DEF UpdateUrlMap, k
  <2>4. sync'.pc = "gcLbs" /\ failed = FALSE
    BY <1>1, <1>2, <2>3 DEF Syncs
  <2>5. sync.failed = FALSE /\ um' = [um EXCEPT ![k] = ports]
    BY <2>3, <2>4
  <2>6. ports \subseteq backends /\ k \in ready /\ defaultBe = TRUE
    BY <1>2, <2>1, <2>5 DEF ProgressInv
  <2>. QED
    BY <1>1, <2>1, <2>4, <2>5, <2>6
<1>. QED
  BY <1>3, <1>4, <1>5, <1>6, Zenon

\* Garbage collection at the end of a sync leaves its key alone.
LEMMA CollectionServes ==
    ASSUME IInv, ProgressInv, SyncGCLbs \/ SyncGCBackends
    PROVE  ProgressInv'
<1>. DEFINE k == sync.key
            ports == sync.snap[k].ports
            names == ListKeys(sync.snap)
            all == ToNodePorts(sync.snap, ListAll(sync.snap))
<1>1. TypeOK /\ sync \in Syncs /\ sync.snap \in Specs /\ k \in Ings
  BY Zenon DEF IInv, TypeOK, WorkerInv, SyncGCLbs, SyncGCBackends
<1>2. sync.pc \in {"gcLbs", "gcBackends"}
  BY Zenon DEF SyncGCLbs, SyncGCBackends
<1>3. \E failed : \/ sync' = [sync EXCEPT !.pc = "gcBackends", !.gcFailed = failed]
                 \/ sync' = [sync EXCEPT !.pc = "gcGroups", !.gcFailed = failed]
  BY Zenon DEF SyncGCLbs, SyncGCBackends
<1>4. sync'.key = k /\ sync'.snap = sync.snap /\ sync'.failed = sync.failed
  BY <1>1, <1>3, Zenon DEF Syncs
<1>5. SUFFICES ASSUME sync.failed = FALSE, k \in ListGCEIngresses(sync.snap)
               PROVE  ports \subseteq backends' /\ k \in ready' /\ defaultBe' = TRUE /\ um'[k] = ports
  BY <1>4, Zenon DEF ProgressInv
<1>6. ports \subseteq backends /\ k \in ready /\ defaultBe = TRUE /\ um[k] = ports
  BY <1>2, <1>5 DEF ProgressInv
<1>7. k \in Ings \cap names /\ names # {} /\ ports \subseteq all
  BY <1>5 DEF ListGCEIngresses, ListKeys, ListAll, ToNodePorts
<1>8. CASE SyncGCLbs
  <2>1. backends' = backends /\ \E failed \in BOOLEAN : GCLbs(names, failed)
    BY <1>8, Zenon DEF SyncGCLbs
  <2>. HIDE DEF names, k, ports
  <2>2. PICK failed \in BOOLEAN : GCLbs(names, failed)
    BY <2>1
  <2>3. um'[k] = um[k] /\ (k \in ready => k \in ready') /\ defaultBe' = defaultBe
    BY <1>1, <1>7, <2>2, GCLbsDeletes, Zenon
  <2>. QED
    BY <1>6, <2>1, <2>3
<1>9. CASE SyncGCBackends
  <2>1. UNCHANGED <<um, ready, defaultBe>> /\ \E failed \in BOOLEAN : GCBackends(all, failed)
    BY <1>9, Zenon DEF SyncGCBackends
  <2>. HIDE DEF all, k, ports
  <2>2. PICK failed \in BOOLEAN : GCBackends(all, failed)
    BY <2>1
  <2>3. BackendsDeleted(all, failed)
    BY <1>1, <2>2, GCBackendsDeletes, Zenon
  <2>4. backends \cap all \subseteq backends'
    BY <2>3 DEF BackendsDeleted
  <2>. QED
    BY <1>6, <1>7, <2>1, <2>4
<1>. QED
  BY <1>8, <1>9, Zenon

\* Every step keeps what a sync has brought about for its key.
LEMMA NextProgress == ASSUME IInv, ProgressInv, [Next]_vars PROVE ProgressInv'
<1>1. CASE EnsureBackends \/ SyncLbs \/ SyncFirewall \/ UpdateUrlMap
  BY <1>1, CheckpointServes
<1>2. CASE SyncGCLbs \/ SyncGCBackends
  BY <1>2, CollectionServes
<1>3. CASE SyncBegin
  <2>1. \/ sync' = [Fresh EXCEPT !.pc = "ensure", !.key = Head(ingQueue.queue), !.snap = spec]
        \/ UNCHANGED <<sync, um, ready, backends, defaultBe>>
    BY <1>3, Zenon DEF SyncBegin, cloudVars
  <2>2. CASE sync' = [Fresh EXCEPT !.pc = "ensure", !.key = Head(ingQueue.queue), !.snap = spec]
    <3>1. sync'.pc = "ensure"
      BY <2>2 DEF Fresh
    <3>. QED
      BY <3>1 DEF ProgressInv
  <2>3. CASE UNCHANGED <<sync, um, ready, backends, defaultBe>>
    BY <2>3 DEF ProgressInv
  <2>. QED
    BY <2>1, <2>2, <2>3
<1>4. CASE SyncEnd \/ Exit \/ Crash
  <2>1. sync' = Fresh
    BY <1>4, Zenon DEF SyncEnd, Exit, Crash, Boot
  <2>2. sync'.pc = "idle"
    BY <2>1 DEF Fresh
  <2>. QED
    BY <2>2 DEF ProgressInv
<1>5. ASSUME NEW c \in Stoppers, StopCluster(c) PROVE ProgressInv'
  <2>1. stop[c] \in {"lbs", "firewall", "backends"} /\ sync' = sync
    BY <1>5 DEF StopCluster
  <2>2. ingQueue.worker = "done"
    BY <2>1 DEF IInv, StopInv
  <2>3. sync.pc = "idle"
    BY <2>2 DEF IInv, WorkerInv
  <2>. QED
    BY <2>1, <2>3 DEF ProgressInv
<1>6. CASE UNCHANGED <<sync, um, ready, backends, defaultBe>>
  BY <1>6 DEF ProgressInv
<1>7. \/ UNCHANGED <<sync, um, ready, backends, defaultBe>>
      \/ EnsureBackends \/ SyncLbs \/ SyncFirewall \/ UpdateUrlMap \/ SyncGCLbs \/ SyncGCBackends
      \/ SyncBegin \/ SyncEnd \/ Exit \/ Crash \/ \E c \in Stoppers : StopCluster(c)
  BY Zenon DEF Next, vars, cloudVars, IngressChange, Enqueue, Event, Retry, Relist, WorkerStart,
     WorkerQuit, NodeSync, SyncStep, StopStep, StopCall, StopQueues
<1>. QED
  BY <1>1, <1>2, <1>3, <1>4, <1>5, <1>6, <1>7, Zenon

\* A sync that has read an older version of an ingress is followed by another.
LEMMA NextFresh == ASSUME FInv, [Next]_vars PROVE FreshInv' /\ IdleInv'
<1>. USE DEF FInv
<1>1. CASE Exit \/ Crash
  <2>1. sync' = Fresh
    BY <1>1 DEF Exit, Crash, Boot
  <2>. QED
    BY <2>1 DEF Fresh, FreshInv, IdleInv
<1>2. ASSUME ~Exit, ~Crash, NEW i \in Ings, sync'.pc # "idle", ~StopChClosed', Wanted(i)',
             sync'.snap[i] # spec'[i], ~StopChClosed
      PROVE  Waits(i)'
  <2>1. CASE spec'[i] # spec[i]
    BY <1>2, <2>1, ChangeIsNotified
  <2>2. CASE spec'[i] = spec[i]
    <3>1. Wanted(i)
      BY <1>2, <2>2 DEF Wanted
    <3>2. sync.pc # "idle" /\ sync'.snap = sync.snap /\ ~SyncBegin
      <4>1. CASE SyncBegin
        <5>1. ingQueue.worker = "idle"
          BY <4>1 DEF SyncBegin, CanGet
        <5>2. sync.pc = "idle"
          BY <5>1 DEF IInv, WorkerInv
        <5>3. sync' = [Fresh EXCEPT !.pc = "ensure", !.key = Head(ingQueue.queue), !.snap = spec]
          BY <1>2, <4>1, <5>2, Zenon DEF SyncBegin
        <5>4. sync'.snap = spec
          BY <5>3 DEF Fresh
        <5>. QED
          BY <1>2, <2>2, <5>4
      <4>2. CASE ~SyncBegin
        BY <1>2, <4>2, SyncGoesOn DEF Fresh
      <4>. QED
        BY <4>1, <4>2
    <3>3. Waits(i)
      BY <1>2, <2>2, <3>1, <3>2 DEF FreshInv
    <3>. QED
      BY <1>2, <3>2, <3>3, WaitsOn
  <2>. QED
    BY <2>1, <2>2
<1>3. ASSUME ~Exit, ~Crash, StopChClosed PROVE StopChClosed'
  BY <1>3, ShutForGood
<1>4. ASSUME ~Exit, ~Crash PROVE IdleInv'
  <2>1. CASE sync'.pc # "idle" \/ UNCHANGED sync
    BY <2>1 DEF IdleInv
  <2>2. CASE sync' = Fresh
    BY <2>2 DEF IdleInv, Fresh
  <2>3. CASE sync' = [Fresh EXCEPT !.pc = "ensure", !.key = Head(ingQueue.queue), !.snap = spec]
    <3>1. sync'.pc = "ensure"
      BY <2>3 DEF Fresh
    <3>. QED
      BY <2>1, <3>1
  <2>. QED
    BY <1>4, <2>1, <2>2, <2>3, SyncGoesOn
<1>5. ASSUME ~Exit, ~Crash PROVE FreshInv'
  BY <1>2, <1>3, <1>5 DEF FreshInv
<1>. QED
  BY <1>1, <1>4, <1>5

\* At the end of a sync its key is served, or waits for another one.
LEMMA EndServes ==
    ASSUME FInv, SyncEnd, ~StopChClosed, NEW k \in Ings, k = sync.key, Wanted(k)
    PROVE  Served(k)' \/ Waits(k)'
<1>1. /\ sync.pc = "gcGroups"
      /\ UNCHANGED <<spec, pending, um, ready, backends, defaultBe>>
  BY DEF SyncEnd
<1>2. ingQueue \in Queues(Ings) /\ ~ingQueue.shut /\ sync.failed \in BOOLEAN
  BY <1>1 DEF FInv, IInv, WorkerInv, TypeOK, Syncs, StopChClosed
<1>3. PICK failed \in BOOLEAN : /\ ingQueue' = Synced(ingQueue, k, failed)
                                /\ failed = TRUE \/ sync.failed = FALSE
  <2>1. (sync.failed \/ sync.gcFailed) \in BOOLEAN
    BY Zenon
  <2>. QED
    BY <1>2, <2>1, Zenon DEF SyncEnd
<1>4. TakesBack(ingQueue, ingQueue', k, failed)
  <2>1. TakesBack(ingQueue, Synced(ingQueue, k, failed), k, failed)
    BY <1>2, RetryKeeps
  <2>. QED
    BY <1>3, <2>1, Zenon
<1>5. CASE failed = TRUE
  BY <1>4, <1>5 DEF TakesBack, Waits
<1>6. CASE sync.snap[k] # spec[k]
  <2>1. Waits(k)
    BY <1>1, <1>2, <1>6 DEF FInv, FreshInv
  <2>. QED
    BY <1>1, <1>4, <2>1 DEF TakesBack, Waits
<1>7. CASE sync.failed = FALSE /\ sync.snap[k] = spec[k]
  <2>1. k \in ListGCEIngresses(sync.snap)
    BY <1>2, <1>7 DEF Wanted, ListGCEIngresses
  <2>2. /\ sync.snap[k].ports \subseteq backends /\ k \in ready
        /\ defaultBe = TRUE /\ um[k] = sync.snap[k].ports
    BY <1>1, <1>7, <2>1 DEF FInv, ProgressInv
  <2>. QED
    BY <1>1, <1>7, <2>2 DEF Served
<1>. QED
  BY <1>3, <1>5, <1>6, <1>7, Zenon

\* No step forgets an ingress.
LEMMA NextForgetsNone == ASSUME FInv, [Next]_vars PROVE NoneForgotten'
<1>. SUFFICES ASSUME NEW i \in Ings, Wanted(i)', ~StopChClosed'
              PROVE  Served(i)' \/ Watched(i)'
  BY DEF NoneForgotten
<1>. USE DEF FInv
<1>1. Waits(i)' => Watched(i)'
  BY DEF Waits, Watched
<1>2. CASE Exit \/ Crash \/ spec'[i] # spec[i]
  BY <1>1, <1>2, ChangeIsNotified
<1>3. CASE ~Exit /\ ~Crash /\ spec'[i] = spec[i]
  <2>1. Wanted(i) /\ ~StopChClosed
    BY <1>3, ShutForGood DEF Wanted
  <2>2. CASE Waits(i)
    <3>1. Waits(i)' \/ sync'.key = i
      BY <1>3, <2>1, <2>2, WaitsOn
    <3>. QED
      BY <1>1, <3>1 DEF Watched
  <2>3. CASE i = sync.key
    <3>1. CASE SyncEnd
      BY <1>1, <2>1, <2>3, <3>1, EndServes
    <3>2. CASE ~SyncEnd
      <4>1. sync.pc # "idle"
        BY <2>3, ControllerAssumption DEF IdleInv
      <4>2. sync'.key = i
        BY <1>3, <2>3, <3>2, <4>1, SyncGoesOn
      <4>. QED
        BY <4>2 DEF Watched
    <3>. QED
      BY <3>1, <3>2
  <2>4. CASE Served(i) /\ ~Waits(i)
    <3>1. sync.pc = "idle" \/ sync.snap[i] = spec[i]
      BY <2>1, <2>4 DEF FreshInv
    <3>. QED
      BY <1>3, <2>1, <2>4, <3>1, StepServes
  <2>. QED
    BY <2>1, <2>2, <2>3, <2>4 DEF NoneForgotten, Watched, Waits
<1>. QED
  BY <1>2, <1>3

\* As long as the process is not told to stop, an ingress of this class that is
\* not served as its latest version says is on its way to a sync, for any number
\* of ingresses, changes and failures: the queue that is empty says that all is
\* served.
THEOREM NeverForgotten == Spec => []NoneForgotten
<1>1. Init => FInv
  <2>. SUFFICES ASSUME Init PROVE FInv
    OBVIOUS
  <2>1. IInv
    BY InitInv
  <2>2. sync.pc = "idle" /\ sync.key = None
    BY DEF Init, Fresh
  <2>3. NoneForgotten
    BY DEF Init, NoneForgotten, Watched, Wanted, ListAll
  <2>. QED
    BY <2>1, <2>2, <2>3 DEF FInv, FreshInv, ProgressInv, IdleInv
<1>2. FInv /\ [Next]_vars => FInv'
  BY NextInv, NextFresh, NextProgress, NextForgetsNone DEF FInv
<1>3. FInv => NoneForgotten
  BY DEF FInv
<1>. QED
  BY <1>1, <1>2, <1>3, PTL DEF Spec
=============================================================================
