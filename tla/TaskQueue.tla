------------------------------ MODULE TaskQueue ------------------------------
(***************************************************************************)
(* taskQueue (pkg/controller/utils.go): a rate limited work queue of the   *)
(* client library and the one worker that serves it, as a value and        *)
(* operators on it.                                                        *)
(*   queue, dirty, processing  keys that wait, are to be done, are in work *)
(*   waiting                   keys added with a delay                     *)
(*   shut                      ShutDown was called                         *)
(*   worker                    "new" until its goroutine runs, then "idle" *)
(*                             or "busy", and "done" once workerDone is    *)
(*                             closed                                      *)
(***************************************************************************)
EXTENDS Sequences

NewTaskQueue == [queue |-> <<>>, dirty |-> {}, processing |-> {}, waiting |-> {},
                 shut |-> FALSE, worker |-> "new"]

\* A mutant: a key that is in work is not added.
AddUnlessInWork(q, k) ==
    IF q.shut \/ k \in q.dirty \cup q.processing THEN q
    ELSE [q EXCEPT !.dirty = @ \cup {k}, !.queue = Append(@, k)]

\* Add: a key that is in work is queued again by Done.
Add(q, k) ==
    IF q.shut \/ k \in q.dirty THEN q
    ELSE [q EXCEPT !.dirty = @ \cup {k},
                   !.queue = IF k \in q.processing THEN @ ELSE Append(@, k)]

AddRateLimited(q, k) == IF q.shut THEN q ELSE [q EXCEPT !.waiting = @ \cup {k}]

\* The delay of a key is over.
Elapsed(q, k) == Add([q EXCEPT !.waiting = @ \ {k}], k)

\* run: wait.Until looks at stopCh before it calls the worker.
Started(q) == [q EXCEPT !.worker = "idle"]

\* worker: Get, with a key.
CanGet(q) == q.worker = "idle" /\ q.queue # <<>>
Got(q) ==
    LET k == Head(q.queue)
    IN [q EXCEPT !.queue = Tail(@), !.dirty = @ \ {k}, !.processing = {k}, !.worker = "busy"]

\* worker: Get returns quit only when the queue is drained.
CanQuit(q) == q.worker = "idle" /\ q.shut /\ q.queue = <<>>
Quit(q) == [q EXCEPT !.worker = "done"]

\* A mutant: Done before the key is queued again, and no look at dirty.
DoneForgets(q, k) == [q EXCEPT !.processing = {}, !.worker = "idle", !.dirty = @ \ {k}]

Done(q, k) ==
    [q EXCEPT !.processing = {}, !.worker = "idle",
              !.queue = IF k \in q.dirty THEN Append(@, k) ELSE @]

\* worker: the end of a sync.
Synced(q, k, failed) == Done(IF failed THEN AddRateLimited(q, k) ELSE q, k)

ShutDown(q) == [q EXCEPT !.shut = TRUE]
=============================================================================
