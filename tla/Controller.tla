----------------------------- MODULE Controller -----------------------------
(***************************************************************************)
(* The load balancer controller with several ingresses                     *)
(* (pkg/controller/controller.go, cluster_manager.go): events, the two     *)
(* task queues and their workers, the phases of a sync over all load       *)
(* balancers, the firewall rule (pkg/firewalls), garbage collection in the *)
(* pools, and Stop, which the HTTP handler and the SIGTERM handler of      *)
(* cmd/glbc/main.go call.  The objects behind a phase are detailed in L7,  *)
(* Backends and InstanceGroups; here a load balancer is the set of         *)
(* backends its url map refers to, and a phase is one step that may fail   *)
(* half way.                                                               *)
(***************************************************************************)
EXTENDS Naturals, FiniteSets, TaskQueue

CONSTANTS
    Ings,         \* ingresses
    Ports,        \* node ports of services
    Default,      \* the node port of the default backend
    Ingress,      \* bound: what each ingress may say: its class and ports
    Initials,     \* bound: the ingresses at the first start
    Situations,   \* bound: whose the firewall is, and the ingresses whose load
                  \* balancer cannot be made
    DeleteAllOnQuit,   \* the flag --delete-all-on-quit
    None,
    MaxEvents     \* bound: changes of ingresses, node events and resyncs, failed
                  \* calls, crashes and calls of Stop, together

ASSUME ControllerAssumption ==
    /\ Default \notin Ports
    /\ Ingress \in [Ings -> SUBSET [class : {"gce", "multi", "other"},
                                    ports : (SUBSET Ports) \ {{}}]]
    /\ Initials \subseteq [Ings -> (UNION {Ingress[i] : i \in Ings}) \cup {None}]
    /\ Situations \subseteq [xpn : BOOLEAN, broken : SUBSET Ings]
    /\ DeleteAllOnQuit \in BOOLEAN
    /\ None \notin Ings \cup Ports /\ \A P \in SUBSET Ports : P # None
    /\ MaxEvents \in Nat

VARIABLES
    spec,       \* the informer's store: class and ports of every ingress, or None
    pending,    \* notifications that the handlers have not seen yet
    ingQueue, nodeQueue,
    sync,       \* the ingress worker: step, key, snapshot of the store, errors
    um,         \* the cloud: backends in the url map of an ingress, None if it has none
    ready,      \* ingresses whose load balancer is complete in the cloud
    backends, defaultBe, groups, fw,   \* shared resources in the cloud
    lbPool,     \* load balancers in memory: "full", "part" (only a part of what
                \* is in the cloud is on record) or None
    known,      \* the pool of backends
    stop,       \* callers of Stop: where they are
    shutdown,   \* lbc.shutdown
    xpn, broken,   \* the firewall belongs to another project; the broken ingresses
    listed, collected, left,   \* history, see the properties
    events      \* how many events there were

cloudVars == <<um, ready, backends, defaultBe, groups, fw>>
poolVars == <<lbPool, known>>
stopVars == <<stop, shutdown>>
fixedVars == <<xpn, broken>>
historyVars == <<listed, collected, left>>
vars == <<spec, pending, ingQueue, nodeQueue, sync, cloudVars, poolVars, stopVars,
          fixedVars, historyVars, events>>

Node == "node"
Stoppers == {"http", "sigterm"}
Specs == [Ings -> (UNION {Ingress[i] : i \in Ings}) \cup {None}]

Queues(K) == [queue : Seq(K), dirty : SUBSET K, processing : SUBSET K, waiting : SUBSET K,
              shut : BOOLEAN, worker : {"new", "idle", "busy", "done"}]

Syncs == [pc : {"idle", "ensure", "lbs", "firewall", "urlmap", "gcLbs", "gcBackends", "gcGroups"},
          key : Ings \cup {None}, snap : Specs \cup {None},
          failed : BOOLEAN, gcFailed : BOOLEAN]

TypeOK ==
    /\ spec \in Specs
    /\ pending \subseteq Ings
    /\ ingQueue \in Queues(Ings) /\ nodeQueue \in Queues({Node})
    /\ sync \in Syncs
    /\ um \in [Ings -> (SUBSET Ports) \cup {None}]
    /\ ready \subseteq {i \in Ings : um[i] # None}
    /\ backends \subseteq Ports /\ fw \subseteq Ports \cup {Default}
    /\ defaultBe \in BOOLEAN /\ groups \in BOOLEAN
    /\ lbPool \in [Ings -> {"full", "part", None}] /\ known \subseteq Ports
    /\ stop \in [Stoppers -> {"idle", "lock", "ingQueue", "nodeQueue", "lbs", "firewall",
                              "backends", "ok", "error"}]
    /\ shutdown \in BOOLEAN /\ [xpn |-> xpn, broken |-> broken] \in Situations
    /\ listed \in BOOLEAN /\ collected \in BOOLEAN /\ left \in BOOLEAN
    /\ events \in 0..MaxEvents

-----------------------------------------------------------------------------
\* The listers and the translator, of a snapshot of the store.

ListGCEIngresses(s) == {i \in Ings : s[i] # None /\ s[i].class = "gce"}
ListAll(s) == {i \in Ings : s[i] # None /\ s[i].class \in {"gce", "multi"}}
ListKeys(s) == {i \in Ings : s[i] # None}

ToNodePorts(s, ings) == UNION {s[i].ports : i \in ings}

\* gatherFirewallPorts
FirewallPorts(s) ==
    LET gce == ListGCEIngresses(s)
    IN ToNodePorts(s, gce) \cup (IF gce = {} THEN {} ELSE {Default})

Fresh == [pc |-> "idle", key |-> None, snap |-> None, failed |-> FALSE, gcFailed |-> FALSE]

Init ==
    /\ spec \in Initials /\ pending = ListAll(spec)
    /\ ingQueue = NewTaskQueue /\ nodeQueue = NewTaskQueue /\ sync = Fresh
    /\ um = [i \in Ings |-> None] /\ ready = {}
    /\ backends = {} /\ defaultBe = FALSE /\ groups = FALSE /\ fw = {}
    /\ lbPool = [i \in Ings |-> None] /\ known = {}
    /\ stop = [c \in Stoppers |-> "idle"] /\ shutdown = FALSE
    /\ \E s \in Situations : xpn = s.xpn /\ broken = s.broken
    /\ listed = TRUE /\ collected = FALSE /\ left = FALSE
    /\ events = 0

Happens == events < MaxEvents /\ events' = events + 1
Fault == Happens
NoFault == UNCHANGED events

-----------------------------------------------------------------------------
\* Events.

\* AddFunc, UpdateFunc and DeleteFunc ignore an ingress of another class; the
\* update goes by the new class.
Notifies(old, new) ==
    LET ing == IF new = None THEN old ELSE new IN ing.class \in {"gce", "multi"}

\* An ingress leaves the controller without a notification.
Leaves(old, new) == old # None /\ old.class # "other" /\ new # None /\ new.class = "other"

IngressChange(i) ==
    /\ Happens
    /\ \E new \in (Ingress[i] \cup {None}) \ {spec[i]} :
          /\ spec' = [spec EXCEPT ![i] = new]
          /\ pending' = IF Notifies(spec[i], new) THEN pending \cup {i} ELSE pending
          /\ left' = (left \/ Leaves(spec[i], new))
    /\ UNCHANGED <<ingQueue, nodeQueue, sync, cloudVars, poolVars, stopVars, fixedVars,
                   listed, collected>>

\* The handler of a change runs.
Enqueue(i) ==
    /\ i \in pending
    /\ pending' = pending \ {i}
    /\ ingQueue' = Add(ingQueue, i)
    /\ UNCHANGED <<spec, nodeQueue, sync, cloudVars, poolVars, stopVars, fixedVars,
                   historyVars, events>>

\* A node event, or the resync of an ingress that did not change.
Event ==
    /\ Happens
    /\ \/ nodeQueue' = Add(nodeQueue, Node) /\ UNCHANGED ingQueue
       \/ \E i \in ListAll(spec) : ingQueue' = Add(ingQueue, i) /\ UNCHANGED nodeQueue
    /\ UNCHANGED <<spec, pending, sync, cloudVars, poolVars, stopVars, fixedVars,
                   historyVars>>

Retry ==
    /\ \/ \E i \in ingQueue.waiting : ingQueue' = Elapsed(ingQueue, i) /\ UNCHANGED nodeQueue
       \/ /\ Node \in nodeQueue.waiting
          /\ nodeQueue' = Elapsed(nodeQueue, Node) /\ UNCHANGED ingQueue
    /\ UNCHANGED <<spec, pending, sync, cloudVars, poolVars, stopVars, fixedVars,
                   historyVars, events>>

\* stopCh is closed by the first Stop, which then shuts the first queue down.
StopChClosed == ingQueue.shut

\* ReplenishPool of the pool of backends.
Relist ==
    /\ listed' = (listed \/ ~StopChClosed)
    /\ known' = known \cup backends
    /\ UNCHANGED <<spec, pending, ingQueue, nodeQueue, sync, cloudVars, lbPool, stopVars,
                   fixedVars, collected, left, events>>

-----------------------------------------------------------------------------
\* The workers.

WorkerStart ==
    /\ ~StopChClosed
    /\ \/ ingQueue.worker = "new" /\ ingQueue' = Started(ingQueue) /\ UNCHANGED nodeQueue
       \/ nodeQueue.worker = "new" /\ nodeQueue' = Started(nodeQueue) /\ UNCHANGED ingQueue
    /\ UNCHANGED <<spec, pending, sync, cloudVars, poolVars, stopVars, fixedVars, historyVars,
                   events>>

WorkerQuit ==
    /\ \/ CanQuit(ingQueue) /\ ingQueue' = Quit(ingQueue) /\ UNCHANGED nodeQueue
       \/ CanQuit(nodeQueue) /\ nodeQueue' = Quit(nodeQueue) /\ UNCHANGED ingQueue
    /\ UNCHANGED <<spec, pending, sync, cloudVars, poolVars, stopVars, fixedVars, historyVars,
                   events>>

\* syncNodes; InstanceGroups has its details.
NodeSync ==
    /\ CanGet(nodeQueue)
    /\ \/ nodeQueue' = Synced(Got(nodeQueue), Node, FALSE) /\ NoFault
       \/ nodeQueue' = Synced(Got(nodeQueue), Node, TRUE) /\ Fault
    /\ UNCHANGED <<spec, pending, ingQueue, sync, cloudVars, poolVars, stopVars, fixedVars,
                   historyVars>>

\* sync: what it reads of the store, it reads at the beginning.  It returns an
\* error, and collects nothing, if the stores are not synced or cannot be read.
SyncBegin ==
    /\ CanGet(ingQueue)
    /\ LET key == Head(ingQueue.queue)
       IN \/ /\ NoFault /\ ingQueue' = Got(ingQueue)
             /\ sync' = [Fresh EXCEPT !.pc = "ensure", !.key = key, !.snap = spec]
          \/ /\ Fault /\ ingQueue' = Synced(Got(ingQueue), key, TRUE)
             /\ UNCHANGED sync
    /\ UNCHANGED <<spec, pending, nodeQueue, cloudVars, poolVars, stopVars, fixedVars,
                   historyVars>>

To(step) == sync' = [sync EXCEPT !.pc = step]

\* Checkpoint returns an error: the rest of it is skipped.
CheckpointFails == sync' = [sync EXCEPT !.pc = "urlmap", !.failed = TRUE]

\* Checkpoint: instance groups, backends of the ingresses of this cluster in
\* any order, nodes.  A port is tracked even if its backend could not be made.
EnsureBackends ==
    /\ sync.pc = "ensure"
    /\ LET ports == ToNodePorts(sync.snap, ListGCEIngresses(sync.snap))
       IN \/ /\ NoFault /\ To("lbs")
             /\ groups' = TRUE
             /\ known' = known \cup ports /\ backends' = backends \cup ports
          \/ /\ Fault /\ CheckpointFails
             /\ \E tried \in SUBSET ports : \E made \in SUBSET tried :
                   /\ groups' \in {groups \/ tried # {}, TRUE}
                   /\ known' = known \cup tried /\ backends' = backends \cup made
    /\ UNCHANGED <<spec, pending, ingQueue, nodeQueue, um, ready, defaultBe, fw, lbPool,
                   stopVars, fixedVars, historyVars>>

\* Add for these load balancers: some are done, of another one something is made.
AddedLbs(done, made) ==
    /\ um' = [i \in Ings |-> IF i \in made /\ um[i] = None THEN {} ELSE um[i]]
    /\ ready' = ready \cup done
    /\ defaultBe' = TRUE /\ groups' = TRUE

PooledLbs(done, part) ==
    lbPool' = [i \in Ings |-> IF i \in done THEN "full"
                              ELSE IF i \in part /\ lbPool[i] = None THEN "part"
                              ELSE lbPool[i]]

\* L7s.Sync: the default backend, then Add for each load balancer in the order
\* of the store, which is random, up to the first that fails.  That one is in
\* the pool, too, with what was made of it.
SyncLbs ==
    /\ sync.pc = "lbs"
    /\ LET lbs == ListGCEIngresses(sync.snap)
       IN \/ /\ lbs = {} /\ NoFault /\ To("firewall")
             /\ UNCHANGED <<um, ready, defaultBe, groups, lbPool>>
          \/ /\ lbs # {} /\ lbs \cap broken = {} /\ NoFault /\ To("firewall")
             /\ AddedLbs(lbs, lbs) /\ PooledLbs(lbs, {})
          \/ \E done \in SUBSET (lbs \ broken) : \E i \in lbs \ done :
                /\ IF i \in broken THEN NoFault ELSE Fault
                /\ CheckpointFails
                /\ PooledLbs(done, {i})
                /\ \E made \in {done, done \cup {i}} : AddedLbs(done, made)
          \/ /\ lbs # {} /\ Fault /\ CheckpointFails
             /\ defaultBe' \in {defaultBe, TRUE} /\ groups' = TRUE
             /\ UNCHANGED <<um, ready, lbPool>>
    /\ UNCHANGED <<spec, pending, ingQueue, nodeQueue, backends, fw, known, stopVars, fixedVars,
                   historyVars>>

\* createFirewall, updateFirewall and deleteFirewall: the rule of another
\* project cannot be changed.
Rule(ports) == IF xpn THEN fw ELSE ports

\* A mutant: every error of the firewall becomes an event.
SyncFirewallNoError ==
    /\ sync.pc = "firewall"
    /\ To("urlmap")
    /\ \/ NoFault /\ fw' = Rule(FirewallPorts(sync.snap))
       \/ Fault /\ fw' = fw
    /\ UNCHANGED <<spec, pending, ingQueue, nodeQueue, um, ready, backends, defaultBe, groups,
                   poolVars, stopVars, fixedVars, historyVars>>

\* FirewallRules.Sync.  If the rule is not this project's, the error becomes an
\* event and the sync goes on.
SyncFirewall ==
    /\ sync.pc = "firewall"
    /\ \/ /\ NoFault /\ To("urlmap")
          /\ fw' = Rule(FirewallPorts(sync.snap))
       \/ /\ Fault /\ CheckpointFails
          /\ fw' \in {fw, Rule(FirewallPorts(sync.snap))}
    /\ UNCHANGED <<spec, pending, ingQueue, nodeQueue, um, ready, backends, defaultBe, groups,
                   poolVars, stopVars, fixedVars, historyVars>>

\* The rest of sync for the key itself: the url map and the status.  An ingress
\* of another class is treated like one of this class.  For a multi-cluster
\* ingress an error of the checkpoint is forgotten.
UpdateUrlMap ==
    /\ sync.pc = "urlmap"
    /\ LET i == sync.key
           ing == sync.snap[i]
           Failed(b) == sync' = [sync EXCEPT !.pc = "gcLbs", !.failed = b]
           Updated == um' = [um EXCEPT ![i] = ing.ports]
       IN IF ing = None
          THEN NoFault /\ Failed(sync.failed) /\ UNCHANGED um
          ELSE IF ing.class = "multi"
          THEN /\ UNCHANGED um
               /\ \/ NoFault /\ Failed(FALSE)
                  \/ Fault /\ Failed(TRUE)
          ELSE \/ /\ lbPool[i] = None \/ um[i] = None \/ ~(ing.ports \subseteq backends)
                  /\ NoFault /\ Failed(TRUE) /\ UNCHANGED um
               \/ /\ lbPool[i] = "part"
                  /\ NoFault /\ Failed(TRUE) /\ UNCHANGED um
               \/ /\ lbPool[i] # None /\ um[i] # None /\ ing.ports \subseteq backends
                  /\ \/ NoFault /\ Failed(sync.failed) /\ Updated
                     \/ Fault /\ Failed(TRUE) /\ (UNCHANGED um \/ Updated)
    /\ UNCHANGED <<spec, pending, ingQueue, nodeQueue, ready, backends, defaultBe, groups, fw,
                   poolVars, stopVars, fixedVars, historyVars>>

-----------------------------------------------------------------------------
\* Garbage collection, in a sync and in Stop.

\* Load balancers of these ingresses are deleted; of those that are only partly
\* on record, some stay in the cloud.
DeleteLbs(gone, lost) ==
    /\ lost \subseteq {i \in gone : lbPool[i] = "part"}
    /\ um' = [i \in Ings |-> IF i \in gone \ lost THEN None ELSE um[i]]
    /\ ready' = ready \ gone
    /\ lbPool' = [i \in Ings |-> IF i \in gone THEN None ELSE lbPool[i]]

\* L7s.GC: what is not among the names, in any order, up to the first failure;
\* then, without names, the default backend, unless a url map in the cloud
\* still refers to it.
GCLbs(names, failed) ==
    LET dead == {i \in Ings : lbPool[i] # None} \ names
    IN \/ /\ NoFault
          /\ \E lost \in SUBSET dead : DeleteLbs(dead, lost)
          /\ IF names # {} THEN ~failed /\ UNCHANGED defaultBe
             ELSE IF \E i \in Ings : um'[i] # None THEN failed /\ UNCHANGED defaultBe
             ELSE ~failed /\ defaultBe' = FALSE
       \/ /\ Fault /\ failed
          /\ \E gone \in SUBSET dead : \E lost \in SUBSET gone :
                /\ gone # dead
                /\ DeleteLbs(gone, lost)
          /\ UNCHANGED defaultBe
       \/ /\ Fault /\ failed /\ names = {}
          /\ \E lost \in SUBSET dead : DeleteLbs(dead, lost)
          /\ defaultBe' \in IF \E i \in Ings : um'[i] # None THEN {defaultBe} ELSE {defaultBe, FALSE}

\* A mutant: a backend leaves the pool before the call that deletes it.
GCBackendsForgets(ports, failed) ==
    LET dead == known \ ports
        used == UNION {um[i] : i \in {j \in Ings : um[j] # None}}
    IN \/ /\ NoFault /\ ~failed
          /\ dead \cap used = {}
          /\ backends' = backends \ dead /\ known' = known \ dead
       \/ /\ failed
          /\ \E gone \in SUBSET (dead \ used) : \E p \in dead \ gone :
                /\ known' = known \ (gone \cup {p})
                /\ backends' = backends \ gone
                /\ IF p \in used THEN NoFault ELSE Fault

\* Backends.GC: what is in the pool and not among the ports, in any order, up
\* to the first that is in use or fails.
GCBackends(ports, failed) ==
    LET dead == known \ ports
        used == UNION {um[i] : i \in {j \in Ings : um[j] # None}}
    IN \/ /\ NoFault /\ ~failed
          /\ dead \cap used = {}
          /\ backends' = backends \ dead /\ known' = known \ dead
       \/ /\ failed
          /\ \E gone \in SUBSET (dead \ used) : \E p \in dead \ gone :
                /\ known' = known \ gone
                /\ \/ p \in used /\ NoFault /\ backends' = backends \ gone
                   \/ p \notin used /\ Fault /\ backends' \in {backends \ gone, backends \ (gone \cup {p})}

\* A mutant: the names are not known yet if the sync has returned early.
SyncGCLbsNoNames ==
    /\ sync.pc = "gcLbs"
    /\ \E failed \in BOOLEAN :
          /\ GCLbs(IF sync.failed THEN {} ELSE ListKeys(sync.snap), failed)
          /\ sync' = [sync EXCEPT !.pc = "gcBackends", !.gcFailed = failed]
    /\ UNCHANGED <<spec, pending, ingQueue, nodeQueue, backends, groups, fw, known, stopVars,
                   fixedVars, historyVars>>

SyncGCLbs ==
    /\ sync.pc = "gcLbs"
    /\ \E failed \in BOOLEAN :
          /\ GCLbs(ListKeys(sync.snap), failed)
          /\ sync' = [sync EXCEPT !.pc = "gcBackends", !.gcFailed = failed]
    /\ UNCHANGED <<spec, pending, ingQueue, nodeQueue, backends, groups, fw, known, stopVars,
                   fixedVars, historyVars>>

\* Backends are collected even if a load balancer could not be.
SyncGCBackends ==
    /\ sync.pc = "gcBackends"
    /\ \E failed \in BOOLEAN :
          /\ GCBackends(ToNodePorts(sync.snap, ListAll(sync.snap)), failed)
          /\ sync' = [sync EXCEPT !.pc = "gcGroups", !.gcFailed = @ \/ failed]
    /\ collected' = listed
    /\ UNCHANGED <<spec, pending, ingQueue, nodeQueue, um, ready, defaultBe, groups, fw, lbPool,
                   stopVars, fixedVars, listed, left>>

\* The instance groups, if there is no ingress and no error; that they are in
\* use is no error.  Then the worker is done with the key.
SyncEnd ==
    /\ sync.pc = "gcGroups"
    /\ LET last == ListKeys(sync.snap) = {} /\ ~sync.gcFailed
           End(failed) == ingQueue' = Synced(ingQueue, sync.key, failed)
       IN \/ /\ NoFault /\ End(sync.failed \/ sync.gcFailed)
             /\ groups' = (groups /\ ~(last /\ backends = {} /\ ~defaultBe))
          \/ last /\ Fault /\ End(TRUE) /\ UNCHANGED groups
    /\ sync' = Fresh
    /\ UNCHANGED <<spec, pending, nodeQueue, um, ready, backends, defaultBe, fw, poolVars,
                   stopVars, fixedVars, historyVars>>

-----------------------------------------------------------------------------
\* Stop, called by the handler of /delete-all-and-quit and by that of SIGTERM.

DeleteAll(c) == c = "http" \/ DeleteAllOnQuit

\* A mutant: the lock is not released.
LockNotReleased == \E c \in Stoppers : stop[c] \notin {"idle", "lock"}

Locked == \E c \in Stoppers :
             stop[c] \in {"ingQueue", "nodeQueue", "lbs", "firewall", "backends"}

StopTo(c, step) == stop' = [stop EXCEPT ![c] = step]

\* The queues are shut down: the resources are deleted if that is asked for.
Drained(c) == StopTo(c, IF DeleteAll(c) THEN "lbs" ELSE "ok")

StopCall(c) ==
    /\ Happens
    /\ stop[c] = "idle" /\ StopTo(c, "lock")
    /\ UNCHANGED <<spec, pending, ingQueue, nodeQueue, sync, cloudVars, poolVars, shutdown,
                   fixedVars, historyVars>>

\* A mutant: the worker of the ingress queue is not waited for.
StopIngQueueAtOnce(c) ==
    /\ stop[c] = "ingQueue"
    /\ nodeQueue' = ShutDown(nodeQueue) /\ StopTo(c, "nodeQueue")
    /\ UNCHANGED <<ingQueue, shutdown>>

\* shutdown of a queue waits until its worker has drained it.
StopIngQueue(c) ==
    /\ stop[c] = "ingQueue" /\ ingQueue.worker = "done"
    /\ nodeQueue' = ShutDown(nodeQueue) /\ StopTo(c, "nodeQueue")
    /\ UNCHANGED <<ingQueue, shutdown>>

\* Only the first caller closes stopCh and shuts the queues down.
StopQueues(c) ==
    /\ \/ /\ stop[c] = "lock" /\ ~Locked
          /\ IF shutdown THEN Drained(c) /\ UNCHANGED ingQueue
             ELSE ingQueue' = ShutDown(ingQueue) /\ StopTo(c, "ingQueue")
          /\ UNCHANGED <<nodeQueue, shutdown>>
       \/ StopIngQueue(c)
       \/ /\ stop[c] = "nodeQueue" /\ nodeQueue.worker = "done"
          /\ shutdown' = TRUE /\ Drained(c)
          /\ UNCHANGED <<ingQueue, nodeQueue>>
    /\ UNCHANGED <<spec, pending, sync, cloudVars, poolVars, fixedVars, historyVars, events>>

\* ClusterManager.shutdown: load balancers, firewall rule, backends, up to the
\* first failure.  A firewall rule of another project ends it, too, but counts
\* as success.
StopCluster(c) ==
    /\ \/ /\ stop[c] = "lbs"
          /\ \E failed \in BOOLEAN :
                /\ GCLbs({}, failed)
                /\ StopTo(c, IF failed THEN "error" ELSE "firewall")
          /\ UNCHANGED <<backends, known, fw>>
       \/ /\ stop[c] = "firewall"
          /\ \/ NoFault /\ fw' = Rule({}) /\ StopTo(c, IF xpn THEN "ok" ELSE "backends")
             \/ Fault /\ fw' \in {fw, Rule({})} /\ StopTo(c, "error")
          /\ UNCHANGED <<um, ready, lbPool, defaultBe, backends, known>>
       \/ /\ stop[c] = "backends"
          /\ \E failed \in BOOLEAN :
                /\ GCBackends({}, failed)
                /\ StopTo(c, IF failed THEN "error" ELSE "ok")
          /\ UNCHANGED <<um, ready, lbPool, defaultBe, fw>>
    /\ UNCHANGED <<spec, pending, ingQueue, nodeQueue, sync, groups, shutdown, fixedVars,
                   historyVars>>

\* A new process: the queues and both pools are empty, the informers notify of
\* what they list.
Boot ==
    /\ pending' = ListAll(spec')
    /\ ingQueue' = NewTaskQueue /\ nodeQueue' = NewTaskQueue /\ sync' = Fresh
    /\ lbPool' = [i \in Ings |-> None] /\ known' = {}
    /\ stop' = [c \in Stoppers |-> "idle"] /\ shutdown' = FALSE
    /\ listed' = FALSE /\ collected' = FALSE
    /\ UNCHANGED <<cloudVars, fixedVars>>

\* handleSigterm exits after Stop, with or without an error.
Exit ==
    /\ stop["sigterm"] \in {"ok", "error"}
    /\ UNCHANGED <<spec, left, events>>
    /\ Boot

\* The process dies; an ingress may be deleted before the next one lists.
Crash ==
    /\ Fault
    /\ \/ UNCHANGED spec
       \/ \E i \in ListKeys(spec) : spec' = [spec EXCEPT ![i] = None]
    /\ UNCHANGED left /\ Boot

-----------------------------------------------------------------------------
SyncStep == SyncBegin \/ EnsureBackends \/ SyncLbs \/ SyncFirewall \/ UpdateUrlMap
               \/ SyncGCLbs \/ SyncGCBackends \/ SyncEnd

StopStep(c) == StopQueues(c) \/ StopCluster(c)

Next ==
    \/ \E i \in Ings : IngressChange(i) \/ Enqueue(i)
    \/ Event \/ Retry \/ Relist
    \/ WorkerStart \/ WorkerQuit \/ NodeSync \/ SyncStep
    \/ \E c \in Stoppers : StopCall(c) \/ StopStep(c)
    \/ Exit \/ Crash

Spec == Init /\ [][Next]_vars

\* Notifications are delivered, delays end and goroutines run.  The resync of
\* the informers is not relied on.  The order of load balancers in L7s.Sync,
\* and that of backends in GC, is random at each sync, so that an order in
\* which those that cannot fail come first is met in the end.
FairSpec ==
    /\ Spec
    /\ \A i \in Ings : /\ WF_vars(i \in pending /\ Enqueue(i))
                       /\ WF_vars(i \in ingQueue.waiting /\ Retry /\ i \notin ingQueue'.waiting)
    /\ WF_vars(Node \in nodeQueue.waiting /\ Retry /\ Node \notin nodeQueue'.waiting)
    /\ WF_vars(Relist)
    /\ WF_vars(WorkerStart) /\ WF_vars(WorkerQuit) /\ WF_vars(NodeSync) /\ WF_vars(SyncStep)
    /\ SF_vars(SyncLbs /\ \A i \in ListGCEIngresses(sync.snap) \ broken : lbPool'[i] = "full")
    /\ SF_vars(SyncGCBackends /\ \A p \in known' : p \in ToNodePorts(sync.snap, ListAll(sync.snap))
                                                  \/ \E i \in Ings : um[i] # None /\ p \in um[i])
    /\ \A c \in Stoppers : WF_vars(StopStep(c))
    /\ WF_vars(Exit)

-----------------------------------------------------------------------------
\* Properties.

Wanted(i) == spec[i] # None /\ spec[i].class = "gce"

Served(i) ==
    /\ i \in ready /\ um[i] = spec[i].ports
    /\ spec[i].ports \subseteq backends /\ defaultBe

\* A load balancer that some url map in the cloud belongs to is not in the pool
\* of the process: nobody deletes it, nor what it uses.
Leaked == \E i \in Ings : um[i] # None /\ lbPool[i] = None

\* An ingress that is served and does not change stays served: not the sync or
\* the failure of another ingress, not garbage collection nor a restart
\* disturbs it, unless a sync is in progress that has read an older ingress,
\* or Stop was called.
ServedStaysServed ==
    [][\A i \in Ings :
          /\ Wanted(i) /\ Served(i) /\ spec'[i] = spec[i]
          /\ ~StopChClosed
          /\ sync.pc = "idle" \/ sync.snap[i] = spec[i]
          => Served(i)']_vars

\* Somebody is going to look at the ingress: a notification of it is on its way,
\* its key is queued or waits for its delay, or the worker has it.
Watched(i) == i \in pending \cup ingQueue.dirty \cup ingQueue.waiting \cup {sync.key}

\* No change, failure or stale snapshot is forgotten: as long as the process
\* is not told to stop, an ingress of this class that is not served as its
\* latest version says is on its way to a sync.
NoneForgotten == \A i \in Ings : Wanted(i) /\ ~StopChClosed => Served(i) \/ Watched(i)

\* When Stop returns without an error after it was asked to delete everything,
\* no load balancer, firewall rule or backend is left, whatever was in progress
\* or had failed before.  The exceptions are a firewall rule of another
\* project, and backends of an earlier process that were not listed yet.
ShutdownDeletes ==
    \A c \in Stoppers :
        stop[c] = "ok" /\ DeleteAll(c) /\ ~xpn /\ listed =>
            /\ \A i \in Ings : um[i] = None
            /\ backends = {} /\ ~defaultBe /\ fw = {}

\* Every ingress of this class is served in the end, also if the load balancer
\* of another one cannot be made.
IngressesServed ==
    \A i \in Ings : <>[](Wanted(i) /\ i \notin broken /\ ~StopChClosed => Served(i))

\* When the last ingress is gone, everything is deleted in the end, unless a
\* load balancer is not on record, an ingress has changed its class (there is
\* no event, and its key is not missing from the store), or the process has
\* not collected since it has listed the backends (no key was queued since).
DeletedIsCollected ==
    <>[](/\ ListKeys(spec) = {} /\ ~StopChClosed
         /\ collected /\ ~Leaked /\ ~left
         => backends = {} /\ ~defaultBe /\ ~groups /\ \A i \in Ings : um[i] = None)

\* The firewall rule opens the ports of the ingresses and of the default
\* backend in the end.  It does not as long as some load balancer cannot be
\* made, because the rule comes after all load balancers; and an error in the
\* sync of a multi-cluster ingress is not retried.
FirewallFollows ==
    <>[](/\ ~StopChClosed /\ collected /\ ~xpn /\ ~left
         /\ ListGCEIngresses(spec) \cap broken = {}
         /\ ListAll(spec) = ListGCEIngresses(spec)
         => fw = FirewallPorts(spec))

\* A worker whose goroutine had not run when stopCh was closed never runs.
NeverStarted == StopChClosed /\ "new" \in {ingQueue.worker, nodeQueue.worker}

\* SIGTERM ends the process, unless it comes before both workers have started:
\* then Stop waits for a worker that never runs, and holds its lock.
SigtermExits ==
    stop["sigterm"] # "idle" ~> (stop["sigterm"] = "idle" \/ NeverStarted)
=============================================================================
