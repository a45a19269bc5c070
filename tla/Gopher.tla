------------------------------- MODULE Gopher -------------------------------
(***************************************************************************)
(* The model agent's Gopher (pkg/modelagent): a dispatcher and two pools   *)
(* of workers that download and delete the models of one node.  Scout      *)
(* turns changes of the model resources into tasks; the dispatcher numbers *)
(* them and puts them in a priority queue; workers admit them through the  *)
(* task tracker, change the node's files and publish the model's status.   *)
(* Work that has to wait goes back to the dispatcher through a timer.      *)
(*                                                                         *)
(* A task object is created once and then shared by pointer.  tasks[s] is  *)
(* the object with sequence number s, so Len(tasks) is the tracker's       *)
(* nextSequence.                                                           *)
(***************************************************************************)
EXTENDS GopherTaskTracker, GopherTaskQueue, FiniteSets

CONSTANTS
  Models,            \* the UIDs of the model resources
  Paths,             \* destination directories
  PathOf,            \* PathOf[m] is the directory of model m
  Created,           \* Created[m] orders the models by age, then key
  Reserved,          \* models labelled reserve-model-artifact
  Dispatcher, NormalWorkers, HighWorkers,
  Inputs,            \* the tasks Scout can send, without their bookkeeping
  MaxInputs,         \* Scout sends no more once this many tasks exist
  StartupReady,      \* models recorded Ready when the agent started
  SnapshotChildren,  \* models recorded as shared children at that time
  RoutingFaults,     \* whether the node ConfigMap may be unreadable
  IOFaults,          \* whether a status write, a file lock or an erasure may fail
  EnvSteps           \* the changes of a model resource that are explored

ASSUME GopherAssumption ==
  /\ Procs = {Dispatcher} \cup NormalWorkers \cup HighWorkers
  /\ Dispatcher \notin NormalWorkers \cup HighWorkers
  /\ PathOf \in [Models -> Paths]
  /\ Created \in [Models -> Nat]
  /\ \A m, n \in Models : Created[m] = Created[n] => m = n
  /\ Reserved \subseteq Models
  /\ Inputs \subseteq [type : {"Download", "DownloadOverride", "Delete"},
                       kind : {"object", "hub", "plain"},
                       shared : BOOLEAN, confirmed : BOOLEAN]
  /\ MaxInputs \in Nat
  /\ StartupReady \subseteq Models
  /\ SnapshotChildren \subseteq Models
  /\ RoutingFaults \in BOOLEAN
  /\ IOFaults \in BOOLEAN

VARIABLES
  tasks,      \* every task object created so far
  models,     \* the tracker's record of each model
  queue,
  timers,     \* tasks that a pending time.AfterFunc will send again
  pc,
  cur,        \* the task a worker processes, 0 if none
  enq,        \* the task a goroutine is enqueueing, 0 if none
  attempt,    \* the sort of attempt a worker holds
  cancelled,  \* whether the context of the worker's attempt is cancelled
  nested,     \* the download that runs its cleanup inline, 0 if none
  keep,       \* keepDeleteBarrier
  known,      \* artifactRouting.known
  children,   \* artifactRouting.children
  cr,         \* what the listers say of the model resource
  pathLock,   \* the attempt that holds the file lock of a directory
  files,      \* what is in a directory
  status,     \* the node label and ConfigMap status of a model
  publisher   \* history: the coordinated task that last wrote the status

routingVars == <<known, children>>
nodeVars    == <<pathLock, files>>
statusVars  == <<status, publisher>>
enqVars     == <<queue, enq>>
workVars    == <<cur, attempt, cancelled, nested, keep>>
vars == <<tasks, models, timers, pc, workVars, enqVars, routingVars, cr,
          nodeVars, statusVars>>

Workers == NormalWorkers \cup HighWorkers

Task ==
  [ type : {"Download", "DownloadOverride", "Delete"},
    kind : {"object", "hub", "plain"}, model : Models,
    shared : BOOLEAN, confirmed : BOOLEAN,
    normalOnly : BOOLEAN, replay : BOOLEAN, waited : BOOLEAN ]

NewTask(in, m) ==
  [ type |-> in.type, kind |-> in.kind, model |-> m, shared |-> in.shared,
    confirmed |-> in.confirmed,
    normalOnly |-> FALSE, replay |-> FALSE, waited |-> FALSE ]

\* The Delete that a download creates when it finds its model deleting.
CleanupTask(t) ==
  [t EXCEPT !.type = "Delete", !.shared = FALSE, !.confirmed = FALSE,
            !.normalOnly = FALSE, !.replay = FALSE, !.waited = FALSE]

TaskOf(p)  == tasks[cur[p]]
ModelOf(p) == TaskOf(p).model
PathAt(p)  == PathOf[ModelOf(p)]

Init ==
  /\ tasks = <<>>
  /\ models = [m \in Models |-> NewModelState]
  /\ queue = NewQueue
  /\ timers = {}
  /\ pc = [p \in Procs |-> "idle"]
  /\ cur = [p \in Procs |-> 0]
  /\ enq = [p \in Procs |-> 0]
  /\ attempt = [p \in Procs |-> "none"]
  /\ cancelled = [p \in Procs |-> FALSE]
  /\ nested = [p \in Procs |-> 0]
  /\ keep = [p \in Procs |-> FALSE]
  /\ known \in IF RoutingFaults THEN BOOLEAN ELSE {TRUE}
  /\ children = IF known THEN SnapshotChildren ELSE {}
  /\ cr = [m \in Models |-> "live"]
  /\ pathLock = [d \in Paths |-> None]
  /\ files = [d \in Paths |->
                IF \E m \in StartupReady : PathOf[m] = d
                THEN "complete" ELSE "absent"]
  /\ status = [m \in Models |->
                 IF m \in StartupReady THEN "Ready" ELSE "none"]
  /\ publisher = [m \in Models |-> 0]
-----------------------------------------------------------------------------
(***************************************************************************)
(* Routing, cancellation and waiting, shared by the actions below.         *)
(***************************************************************************)
\* routeArtifactTaskLocked: shared ownership is sticky per model.
routeArtifactTask(t, kids) == [t EXCEPT !.shared = @ \/ t.model \in kids]

RouteChildren(t, kids) == IF t.shared THEN kids \cup {t.model} ELSE kids

Cancel(ps) == cancelled' = [p \in Procs |-> cancelled[p] \/ p \in ps]

\* requeueArtifactWait: the first wait starts the clock; a later one may find
\* the budget exhausted, and then the task is not sent again.
RequeueWithinBudget(s) ==
  /\ timers' = timers \cup {s}
  /\ tasks' = [tasks EXCEPT ![s].waited = TRUE]

BudgetExhausted(s) == tasks[s].waited

\* requeueTaskOnWait resets the clock first, so its wait never expires.
requeueTaskOnWait(s) == RequeueWithinBudget(s)

\* The return of processTask: a nested cleanup returns into its download.
Return(p) ==
  /\ pc' = [pc EXCEPT ![p] = IF nested[p] # 0 THEN "unlock" ELSE "idle"]
  /\ cur' = [cur EXCEPT ![p] = nested[p]]
  /\ attempt' = [attempt EXCEPT
                   ![p] = IF nested[p] # 0 THEN "legacyDownload" ELSE "none"]
  /\ nested' = [nested EXCEPT ![p] = 0]
  /\ keep' = [keep EXCEPT ![p] = FALSE]

Goto(p, label) == pc' = [pc EXCEPT ![p] = label]

\* safeNodeLabelReconciliation, under configMapMutex.
Publish(p, value) ==
  /\ status' = [status EXCEPT ![ModelOf(p)] = value]
  /\ publisher' = [publisher EXCEPT
       ![ModelOf(p)] = IF attempt[p] \in {"download", "delete"}
                       THEN cur[p] ELSE @]
-----------------------------------------------------------------------------
(***************************************************************************)
(* enqueueTask, run by the dispatcher, and by a worker that demotes its    *)
(* download or hands over the cleanup of a deleting model.  The routing    *)
(* mutex, the tracker's mutex (three times) and the queue's mutex are      *)
(* taken one after the other, so the steps interleave with other callers.  *)
(***************************************************************************)
\* Mutant: ensureSequence returns a number that it has not handed out.
EnqueueNewSkips(p, t) ==
  LET r == routeArtifactTask(t, children)
  IN  /\ tasks' = Append(tasks, r)
      /\ children' = RouteChildren(r, children)
      /\ enq' = [enq EXCEPT ![p] = Len(tasks) + 2]
      /\ Goto(p, "reserve")

\* The first half of enqueueTask for a task object that has no number yet.
EnqueueNew(p, t) ==
  LET r == routeArtifactTask(t, children)
  IN  /\ tasks' = Append(tasks, r)
      /\ children' = RouteChildren(r, children)
      /\ enq' = [enq EXCEPT ![p] = Len(tasks) + 1]
      /\ Goto(p, "reserve")

\* The first half of enqueueTask for a task object that is sent again.
EnqueueAgain(p, s, t) ==
  LET r == routeArtifactTask(t, children)
  IN  /\ tasks' = [tasks EXCEPT ![s] = r]
      /\ children' = RouteChildren(r, children)
      /\ enq' = [enq EXCEPT ![p] = s]
      /\ Goto(p, "reserve")

\* dispatchTasks receives a task that Scout sent, whatever became of the resource
\* since its event.
DispatchInput(m, in) ==
  /\ pc[Dispatcher] = "idle"
  /\ Len(tasks) < MaxInputs
  /\ EnqueueNew(Dispatcher, NewTask(in, m))
  /\ UNCHANGED <<models, queue, timers, workVars, known, cr, nodeVars,
                 statusVars>>

\* dispatchTasks receives a task that a timer sent again.
DispatchRequeued(s) ==
  /\ pc[Dispatcher] = "idle"
  /\ s \in timers
  /\ timers' = timers \ {s}
  /\ EnqueueAgain(Dispatcher, s, tasks[s])
  /\ UNCHANGED <<models, queue, workVars, known, cr, nodeVars, statusVars>>

\* What a goroutine does once enqueueTask has returned.
AfterEnqueue(p) ==
  /\ enq' = [enq EXCEPT ![p] = 0]
  /\ Goto(p, IF p = Dispatcher THEN "idle" ELSE "unlock")

\* classifyStartupRevalidation: a model that was Ready at startup and whose
\* directory is still there is validated again at low priority.
classifyStartupRevalidation(t) ==
  IF /\ t.type = "Download"
     /\ t.kind = "object"
     /\ t.model \in StartupReady
     /\ files[PathOf[t.model]] # "absent"
  THEN [t EXCEPT !.normalOnly = TRUE, !.replay = TRUE]
  ELSE t

EnqueueDownload(p) ==
  /\ pc[p] = "reserve"
  /\ tasks[enq[p]].type # "Delete"
  /\ tasks' = [tasks EXCEPT ![enq[p]] = classifyStartupRevalidation(@)]
  /\ Goto(p, "push")
  /\ UNCHANGED <<models, timers, workVars, enqVars, routingVars, cr,
                 nodeVars, statusVars>>

EnqueueLegacyDelete(p) ==
  /\ pc[p] = "reserve"
  /\ tasks[enq[p]].type = "Delete"
  /\ ~ usesArtifactTaskCoordinator(tasks[enq[p]])
  /\ Cancel(CancelledLegacy(models[tasks[enq[p]].model]))
  /\ Goto(p, "push")
  /\ UNCHANGED <<tasks, models, timers, cur, attempt, nested, keep, enqVars,
                 routingVars, cr, nodeVars, statusVars>>

\* The model whose barrier the task that p enqueues is about.
CoordinatedDelete(p) ==
  /\ tasks[enq[p]].type = "Delete"
  /\ usesArtifactTaskCoordinator(tasks[enq[p]])

EnqueueDeleteStale(p) ==
  /\ pc[p] = "reserve"
  /\ CoordinatedDelete(p)
  /\ DeleteStale(models[tasks[enq[p]].model], enq[p])
  /\ AfterEnqueue(p)
  /\ UNCHANGED <<tasks, models, queue, timers, workVars, routingVars, cr,
                 nodeVars, statusVars>>

\* beginDelete reserves the barrier before the delete is in the queue.  It
\* cancels the older work just after it has released the tracker's mutex: what
\* that work still does in between, it could have done before the reservation.
EnqueueDeleteReserve(p) ==
  /\ pc[p] = "reserve"
  /\ CoordinatedDelete(p)
  /\ LET m  == tasks[enq[p]].model
         st == models[m]
     IN  /\ ~ DeleteStale(st, enq[p])
         /\ IF DeleteReserves(st, enq[p])
            THEN /\ models' = [models EXCEPT ![m] = beginDelete(@, enq[p], p)]
                 /\ Cancel(CancelledByDelete(st))
            ELSE UNCHANGED <<models, cancelled>>
  /\ Goto(p, "reserved")
  /\ UNCHANGED <<tasks, timers, cur, attempt, nested, keep, enqVars,
                 routingVars, cr, nodeVars, statusVars>>

EnqueueDeleteReserved(p) ==
  /\ pc[p] = "reserved"
  /\ LET m == tasks[enq[p]].model
     IN  models' = [models EXCEPT ![m] = finishDelete(@, enq[p], p, TRUE)]
  /\ Goto(p, "push")
  /\ UNCHANGED <<tasks, timers, workVars, enqVars, routingVars, cr,
                 nodeVars, statusVars>>

EnqueuePush(p) ==
  /\ pc[p] = "push"
  /\ queue' = enqueue(queue, tasks, enq[p])
  /\ AfterEnqueue(p)
  /\ UNCHANGED <<tasks, models, timers, workVars, routingVars, cr, nodeVars,
                 statusVars>>

EnqueueStep(p) ==
  \/ EnqueueDownload(p)
  \/ EnqueueLegacyDelete(p)
  \/ EnqueueDeleteStale(p)
  \/ EnqueueDeleteReserve(p)
  \/ EnqueueDeleteReserved(p)
  \/ EnqueuePush(p)
-----------------------------------------------------------------------------
(***************************************************************************)
(* Workers: taking a task, and beginTask.                                  *)
(***************************************************************************)
Take(p, s) ==
  /\ cur' = [cur EXCEPT ![p] = s]
  /\ Goto(p, "begin")
  /\ UNCHANGED <<tasks, models, timers, enq, attempt, cancelled, nested,
                 keep, routingVars, cr, nodeVars, statusVars>>

PopNormal(p, s) ==
  /\ p \in NormalWorkers
  /\ pc[p] = "idle"
  /\ normalTasks(queue) # <<>>
  /\ s = Head(normalTasks(queue))
  /\ queue' = popNormal(queue)
  /\ Take(p, s)

PopHighPriority(p, s) ==
  /\ p \in HighWorkers
  /\ pc[p] = "idle"
  /\ queue.high # <<>>
  /\ s = Head(queue.high)
  /\ queue' = popHighPriority(queue)
  /\ Take(p, s)

\* A worker takes task s from the queue.
Taken(s) == \E p \in Workers : PopNormal(p, s) \/ PopHighPriority(p, s)

\* loadArtifactRouting fails: the task waits, within its budget, before the
\* tracker has admitted anything.
BeginUnrouted(p) ==
  /\ pc[p] = "begin"
  /\ RoutingFaults /\ ~ known
  /\ \/ RequeueWithinBudget(cur[p])
     \/ BudgetExhausted(cur[p]) /\ UNCHANGED <<tasks, timers>>
  /\ Return(p)
  /\ UNCHANGED <<models, cancelled, enqVars, routingVars, cr, nodeVars,
                 statusVars>>

\* The children that beginTask routes by: it loads the snapshot if it must.
LoadedChildren == IF known THEN children ELSE children \cup SnapshotChildren

RoutedTask(p) == routeArtifactTask(TaskOf(p), LoadedChildren)

\* The routing mutex is held from here through admission.
Route(p) ==
  /\ known' = TRUE
  /\ children' = RouteChildren(RoutedTask(p), LoadedChildren)
  /\ tasks' = [tasks EXCEPT ![cur[p]] = RoutedTask(p)]

BeginReplaced(p) ==
  /\ pc[p] = "begin"
  /\ cr[ModelOf(p)] = "replaced"
  /\ Route(p)
  /\ Return(p)
  /\ UNCHANGED <<models, timers, cancelled, enqVars, cr, nodeVars,
                 statusVars>>

Admitting(p, coordinated) ==
  /\ pc[p] = "begin"
  /\ cr[ModelOf(p)] # "replaced"
  /\ usesArtifactTaskCoordinator(RoutedTask(p)) = coordinated

Deleting(p, coordinated) ==
  Admitting(p, coordinated) /\ TaskOf(p).type = "Delete"

Downloading(p, coordinated) ==
  Admitting(p, coordinated) /\ TaskOf(p).type # "Delete"

Begins(p, sort) ==
  /\ attempt' = [attempt EXCEPT ![p] = sort]
  /\ Goto(p, "admitted")
  /\ UNCHANGED <<timers, cur, nested, keep, enqVars, cr, nodeVars,
                 statusVars>>

BeginLegacyDelete(p) ==
  /\ Deleting(p, FALSE)
  /\ Route(p)
  /\ Cancel(CancelledLegacy(models[ModelOf(p)]))
  /\ models' = [models EXCEPT
                  ![ModelOf(p)] = beginLegacyTask(@, p, "Delete")]
  /\ Begins(p, "legacyDelete")

BeginLegacyDownload(p) ==
  /\ Downloading(p, FALSE)
  /\ Route(p)
  /\ cancelled' = [cancelled EXCEPT ![p] = FALSE]
  /\ models' = [models EXCEPT
                  ![ModelOf(p)] = beginLegacyTask(@, p, "Download")]
  /\ Begins(p, "legacyDownload")

BeginDeleteProceed(p) ==
  /\ Deleting(p, TRUE)
  /\ DeleteProceeds(models[ModelOf(p)], cur[p])
  /\ Route(p)
  /\ models' = [models EXCEPT ![ModelOf(p)] = beginDelete(@, cur[p], p)]
  /\ Begins(p, "delete")
  /\ UNCHANGED cancelled

BeginDeleteStale(p) ==
  /\ Deleting(p, TRUE)
  /\ DeleteStale(models[ModelOf(p)], cur[p])
  /\ Route(p)
  /\ Return(p)
  /\ UNCHANGED <<models, timers, cancelled, enqVars, cr, nodeVars,
                 statusVars>>

\* The delete has to wait: for work it has just cancelled (then it owns an
\* attempt until BeginDeleteWaits ends it) or for another owner of the barrier.
BeginDeleteWait(p) ==
  /\ Deleting(p, TRUE)
  /\ LET st == models[ModelOf(p)]
     IN  /\ ~ DeleteStale(st, cur[p])
         /\ ~ DeleteProceeds(st, cur[p])
         /\ IF DeleteReserves(st, cur[p])
            THEN /\ models' = [models EXCEPT
                                 ![ModelOf(p)] = beginDelete(@, cur[p], p)]
                 /\ Cancel(CancelledByDelete(st))
            ELSE UNCHANGED <<models, cancelled>>
  /\ Route(p)
  /\ Goto(p, "deleteWait")
  /\ UNCHANGED <<timers, cur, attempt, nested, keep, enqVars, cr, nodeVars,
                 statusVars>>

\* Mutant: a delete that has to wait keeps its barrier without a retry.
BeginDeleteWaitsUnscheduled(p) ==
  /\ pc[p] = "deleteWait"
  /\ models' = [models EXCEPT
                  ![ModelOf(p)] = finishDelete(@, cur[p], p, TRUE)]
  /\ Return(p)
  /\ UNCHANGED <<tasks, timers, cancelled, enqVars, routingVars, cr, nodeVars,
                 statusVars>>

BeginDeleteWaits(p) ==
  /\ pc[p] = "deleteWait"
  /\ requeueTaskOnWait(cur[p])
  /\ models' = [models EXCEPT
                  ![ModelOf(p)] = finishDelete(@, cur[p], p, TRUE)]
  /\ Return(p)
  /\ UNCHANGED <<cancelled, enqVars, routingVars, cr, nodeVars, statusVars>>

BeginDownloadProceed(p) ==
  /\ Downloading(p, TRUE)
  /\ DownloadProceeds(models[ModelOf(p)], cur[p])
  /\ Route(p)
  /\ models' = [models EXCEPT ![ModelOf(p)] = beginDownload(@, cur[p], p)]
  /\ cancelled' = [cancelled EXCEPT ![p] = FALSE]
  /\ Begins(p, "download")

BeginDownloadStale(p) ==
  /\ Downloading(p, TRUE)
  /\ DownloadStale(models[ModelOf(p)], cur[p])
  /\ Route(p)
  /\ Return(p)
  /\ UNCHANGED <<models, timers, cancelled, enqVars, cr, nodeVars,
                 statusVars>>

BeginDownloadWait(p) ==
  /\ Downloading(p, TRUE)
  /\ DownloadWait(models[ModelOf(p)], cur[p])
  /\ known' = TRUE
  /\ children' = RouteChildren(RoutedTask(p), LoadedChildren)
  /\ tasks' = [tasks EXCEPT ![cur[p]] = [RoutedTask(p) EXCEPT !.waited = TRUE]]
  /\ timers' = timers \cup {cur[p]}
  /\ Return(p)
  /\ UNCHANGED <<models, cancelled, enqVars, cr, nodeVars, statusVars>>

BeginTask(p) ==
  \/ BeginUnrouted(p)
  \/ BeginReplaced(p)
  \/ BeginLegacyDelete(p)    \/ BeginLegacyDownload(p)
  \/ BeginDeleteProceed(p)   \/ BeginDeleteStale(p)
  \/ BeginDeleteWait(p)      \/ BeginDeleteWaits(p)
  \/ BeginDownloadProceed(p) \/ BeginDownloadStale(p)
  \/ BeginDownloadWait(p)
-----------------------------------------------------------------------------
(***************************************************************************)
(* processTask after admission: the steps of a download.                   *)
(***************************************************************************)
\* shouldSkipStaleDownloadTask, when it asks for the cleanup of a deleting
\* model.  A coordinated download hands the cleanup to the queue; a legacy one
\* processes it itself before it returns.
CleanupDeletingModel(p) ==
  LET t == CleanupTask(TaskOf(p))
  IN  IF usesArtifactTaskCoordinator(TaskOf(p))
      THEN /\ EnqueueNew(p, t)
           /\ UNCHANGED <<cur, attempt, nested, keep>>
      ELSE /\ tasks' = Append(tasks, t)
           /\ cur' = [cur EXCEPT ![p] = Len(tasks) + 1]
           /\ nested' = [nested EXCEPT ![p] = cur[p]]
           /\ Goto(p, "begin")
           /\ UNCHANGED <<attempt, keep, children, enq>>

StaleDownload(p, label, next) ==
  /\ pc[p] = label
  /\ TaskOf(p).type # "Delete"
  /\ \/ /\ cr[ModelOf(p)] = "deleting"
        /\ CleanupDeletingModel(p)
     \/ /\ cr[ModelOf(p)] \in {"gone", "replaced"}
        /\ Goto(p, "unlock")
        /\ UNCHANGED <<tasks, cur, attempt, nested, keep, children, enq>>
     \/ /\ cr[ModelOf(p)] = "live"
        /\ Goto(p, next)
        /\ UNCHANGED <<tasks, cur, attempt, nested, keep, children, enq>>
  /\ UNCHANGED <<models, timers, cancelled, queue, known, cr, nodeVars,
                 statusVars>>

CheckBeforeDownload(p) == StaleDownload(p, "admitted", "lock")

CheckAfterDownload(p) == StaleDownload(p, "recheck", "publish")

AdmittedDelete(p) ==
  /\ pc[p] = "admitted"
  /\ TaskOf(p).type = "Delete"
  /\ Goto(p, "lock")
  /\ UNCHANGED <<tasks, models, timers, workVars, enqVars, routingVars, cr,
                 nodeVars, statusVars>>

\* Mutant: tryLockDirectModelPath does not see the lock of another attempt.
FreeForAll(p) == TRUE

FreeFor(p) == pathLock[PathAt(p)] \in {None, p}

\* Where the work of the task starts.
FirstStep(p) == IF TaskOf(p).type = "Delete" THEN "remove" ELSE "updating"

\* tryLockDirectModelPath succeeds, or the task does not need the lock yet.
LockPath(p) ==
  /\ pc[p] = "lock"
  /\ IF isDirectFileTask(TaskOf(p))
     THEN /\ FreeFor(p)
          /\ pathLock' = [pathLock EXCEPT ![PathAt(p)] = p]
          /\ Goto(p, IF cr[ModelOf(p)] = "replaced" THEN "unlock"
                     ELSE FirstStep(p))
     ELSE Goto(p, FirstStep(p)) /\ UNCHANGED pathLock
  /\ UNCHANGED <<tasks, models, timers, workVars, enqVars, routingVars, cr,
                 files, statusVars>>

\* Another attempt holds the directory: the task waits, and a delete keeps its
\* barrier while it does.
PathBusy(p, labels) ==
  /\ pc[p] \in labels
  /\ ~ FreeFor(p)
  /\ requeueTaskOnWait(cur[p])
  /\ keep' = [keep EXCEPT ![p] = (TaskOf(p).type = "Delete")]
  /\ Goto(p, "unlock")
  /\ UNCHANGED <<models, cur, attempt, cancelled, nested, enqVars,
                 routingVars, cr, nodeVars, statusVars>>

LockPathBusy(p) ==
  PathBusy(p, {"lock"}) /\ isDirectFileTask(TaskOf(p))

\* tryLockDirectModelPath returns an error, which ends the attempt.
LockFails(p) ==
  /\ IOFaults
  /\ \/ pc[p] = "lock" /\ isDirectFileTask(TaskOf(p))
     \/ pc[p] \in {"direct", "erase"}
  /\ Goto(p, "unlock")
  /\ UNCHANGED <<tasks, models, timers, workVars, enqVars, routingVars, cr,
                 nodeVars, statusVars>>

\* A status write is skipped when the context is cancelled, which is checked
\* after configMapMutex is held; it may also fail.
WriteStatus(p, value) ==
  \/ ~ cancelled[p] /\ Publish(p, value)
  \/ (cancelled[p] \/ IOFaults) /\ UNCHANGED statusVars

MarkUpdating(p) ==
  /\ pc[p] = "updating"
  /\ WriteStatus(p, "Updating")
  /\ Goto(p, IF cancelled[p] THEN "unlock" ELSE "source")
  /\ UNCHANGED <<tasks, models, timers, workVars, enqVars, routingVars, cr,
                 nodeVars>>

markModelOnNodeFailed(p) ==
  /\ pc[p] = "failed"
  /\ WriteStatus(p, "Failed")
  /\ Goto(p, "unlock")
  /\ UNCHANGED <<tasks, models, timers, workVars, enqVars, routingVars, cr,
                 nodeVars>>

\* finishDownloadStatus.  A shared child whose Ready write fails is retried.
finishDownloadStatus(p) ==
  /\ pc[p] = "publish"
  /\ \/ /\ ~ cancelled[p]
        /\ Publish(p, "Ready")
        /\ UNCHANGED <<tasks, timers>>
     \/ /\ cancelled[p]
        /\ UNCHANGED <<tasks, timers, statusVars>>
     \/ /\ IOFaults /\ ~ cancelled[p]
        /\ \/ TaskOf(p).shared /\ RequeueWithinBudget(cur[p])
           \/ /\ TaskOf(p).shared => BudgetExhausted(cur[p])
              /\ UNCHANGED <<tasks, timers>>
        /\ UNCHANGED statusVars
  /\ Goto(p, "unlock")
  /\ UNCHANGED <<models, workVars, enqVars, routingVars, cr, nodeVars>>
-----------------------------------------------------------------------------
(***************************************************************************)
(* The source of a download.  Bytes, validation and the shared-artifact    *)
(* handler are abstracted to their outcomes.                               *)
(***************************************************************************)
\* Local, PVC and Vendor models: nothing is transferred.
SourcePlain(p) ==
  /\ pc[p] = "source"
  /\ TaskOf(p).kind = "plain"
  /\ \E next \in IF cancelled[p] THEN {"recheck", "unlock"}
                 ELSE {"recheck", "failed", "unlock"} : Goto(p, next)
  /\ UNCHANGED <<tasks, models, timers, workVars, enqVars, routingVars, cr,
                 nodeVars, statusVars>>

SharedSource(p) ==
  /\ pc[p] = "source"
  /\ TaskOf(p).kind # "plain"
  /\ TaskOf(p).shared

\* The handler attached the child, failed, or left the model to the direct path.
SourceShared(p) ==
  /\ SharedSource(p)
  /\ \/ /\ FreeFor(p)
        /\ files' = [files EXCEPT ![PathAt(p)] = "complete"]
        /\ Goto(p, IF cancelled[p] THEN "unlock" ELSE "recheck")
     \/ Goto(p, "failed") /\ UNCHANGED files
     \/ Goto(p, "direct") /\ UNCHANGED files
  /\ UNCHANGED <<tasks, models, timers, workVars, enqVars, routingVars, cr,
                 pathLock, statusVars>>

\* requeueHfArtifactTask.
SourceSharedRetry(p) ==
  /\ SharedSource(p)
  /\ \/ RequeueWithinBudget(cur[p]) /\ Goto(p, "unlock")
     \/ /\ BudgetExhausted(cur[p])
        /\ Goto(p, "failed")
        /\ UNCHANGED <<tasks, timers>>
  /\ UNCHANGED <<models, workVars, enqVars, routingVars, cr, nodeVars,
                 statusVars>>

\* demoteToNormalPriority: the task goes back to the queue while this attempt
\* still holds the model.
Demote(p) ==
  /\ p \in HighWorkers
  /\ EnqueueAgain(p, cur[p], [TaskOf(p) EXCEPT !.normalOnly = TRUE])
  /\ UNCHANGED <<models, timers, workVars, queue, known, cr, files,
                 statusVars>>

SourceSharedDemote(p) ==
  /\ SharedSource(p)
  /\ Demote(p)
  /\ UNCHANGED pathLock

SourceDirect(p) ==
  /\ pc[p] = "source"
  /\ isDirectFileTask(TaskOf(p))
  /\ Goto(p, "direct")
  /\ UNCHANGED <<tasks, models, timers, workVars, enqVars, routingVars, cr,
                 nodeVars, statusVars>>

\* findObjectStorageModelWithSamePathAndStatus.
SamePathModels(p, value) ==
  {m \in Models \ {ModelOf(p)} : /\ PathOf[m] = PathAt(p)
                                 /\ cr[m] \in {"live", "replaced"}
                                 /\ status[m] = value}

CanReuse(p) ==
  /\ TaskOf(p).kind = "object" /\ TaskOf(p).type = "Download"
  /\ files[PathAt(p)] # "absent"
  /\ SamePathModels(p, "Ready") # {}

\* shouldWaitForSamePathCandidate orders the models, so waits form no cycle.
MustWait(p) ==
  /\ TaskOf(p).kind = "object" /\ TaskOf(p).type = "Download"
  /\ ~ CanReuse(p)
  /\ \E m \in SamePathModels(p, "Updating") : Created[m] < Created[ModelOf(p)]

HoldPath(p) ==
  /\ pc[p] = "direct"
  /\ FreeFor(p)
  /\ pathLock' = [pathLock EXCEPT ![PathAt(p)] = p]

DirectBusy(p) == PathBusy(p, {"direct"})

DirectReuse(p) ==
  /\ HoldPath(p)
  /\ CanReuse(p)
  /\ Goto(p, IF cancelled[p] THEN "unlock" ELSE "recheck")
  /\ UNCHANGED <<tasks, models, timers, workVars, enqVars, routingVars, cr,
                 files, statusVars>>

DirectWait(p) ==
  /\ HoldPath(p)
  /\ MustWait(p)
  /\ RequeueWithinBudget(cur[p])
  /\ Goto(p, "unlock")
  /\ UNCHANGED <<models, workVars, enqVars, routingVars, cr, files,
                 statusVars>>

\* Whether a high-priority worker leaves the transfer to a normal worker.
Defers(p) ==
  p \in HighWorkers /\ (TaskOf(p).kind = "hub" \/ TaskOf(p).type = "Download")

MayTransfer(p) ==
  /\ HoldPath(p)
  /\ ~ CanReuse(p)
  /\ MustWait(p) => BudgetExhausted(cur[p])

DirectDemote(p) == MayTransfer(p) /\ Defers(p) /\ Demote(p)

\* A complete copy is validated, and rewritten only where it is wrong.
DirectStart(p) ==
  /\ MayTransfer(p)
  /\ ~ Defers(p)
  /\ \E f \in {"partial", files[PathAt(p)]} \ {"absent"} :
       files' = [files EXCEPT ![PathAt(p)] = f]
  /\ Goto(p, "write")
  /\ UNCHANGED <<tasks, models, timers, workVars, enqVars, routingVars, cr,
                 statusVars>>

DirectFinish(p) ==
  /\ pc[p] = "write"
  /\ \/ /\ files' = [files EXCEPT ![PathAt(p)] = "complete"]
        /\ Goto(p, IF cancelled[p] THEN "unlock" ELSE "recheck")
     \/ /\ Goto(p, IF cancelled[p] THEN "unlock" ELSE "failed")
        /\ UNCHANGED files
  /\ UNCHANGED <<tasks, models, timers, workVars, enqVars, routingVars, cr,
                 pathLock, statusVars>>

DownloadStep(p) ==
  \/ CheckBeforeDownload(p) \/ CheckAfterDownload(p)
  \/ LockPath(p)            \/ LockPathBusy(p)
  \/ LockFails(p)
  \/ MarkUpdating(p)        \/ markModelOnNodeFailed(p)
  \/ finishDownloadStatus(p)
  \/ SourcePlain(p)         \/ SourceShared(p)
  \/ SourceSharedRetry(p)   \/ SourceSharedDemote(p)
  \/ SourceDirect(p)        \/ DirectBusy(p)
  \/ DirectReuse(p)         \/ DirectWait(p)
  \/ DirectDemote(p)        \/ DirectStart(p)
  \/ DirectFinish(p)
-----------------------------------------------------------------------------
(***************************************************************************)
(* The steps of a delete, and the end of every attempt.                    *)
(***************************************************************************)
\* Mutant: the scan for other references leaves out a deleting model.
ReferencedIfLive(m) ==
  \E n \in Models \ {m} : PathOf[n] = PathOf[m] /\ cr[n] \in {"live", "replaced"}

\* isPathReferencedByOtherModels: a deleting model still counts.
Referenced(m) ==
  \E n \in Models \ {m} : PathOf[n] = PathOf[m] /\ cr[n] # "gone"

\* isSkippingArtifactDeletion, without the legacy children of hub models.
SkipsFiles(m) == Referenced(m) \/ m \in Reserved

\* hfArtifactHasOtherPathUsers: a deleting model counts only if it is reserved.
HasOtherPathUsers(m) ==
  \E n \in Models \ {m} :
    /\ PathOf[n] = PathOf[m]
    /\ cr[n] \in {"live", "replaced"} \/ (cr[n] = "deleting" /\ n \in Reserved)

isModelRemovalConfirmed(p) ==
  TaskOf(p).confirmed \/ cr[ModelOf(p)] = "deleting"

RemoveOrdinary(p) ==
  /\ pc[p] = "remove"
  /\ ~ TaskOf(p).shared
  /\ Goto(p, IF TaskOf(p).kind = "plain" THEN "unpublish" ELSE "erase")
  /\ UNCHANGED <<tasks, models, timers, workVars, enqVars, routingVars, cr,
                 nodeVars, statusVars>>

\* processSharedHfArtifactDelete: the child was released, its owner changed
\* or an error ended the delete, or no shared record names the model.  The record
\* of a deleting model may still protect the directory.
RemoveShared(p) ==
  /\ pc[p] = "remove"
  /\ TaskOf(p).shared
  /\ \/ /\ cr[ModelOf(p)] # "replaced"
        /\ FreeFor(p)
        /\ \E kept \in BOOLEAN :
             /\ ModelOf(p) \in Reserved \/ HasOtherPathUsers(ModelOf(p)) => kept
             /\ kept => SkipsFiles(ModelOf(p))
             /\ files' = [files EXCEPT ![PathAt(p)] = IF kept THEN @ ELSE "absent"]
        /\ Goto(p, "unpublish")
     \/ /\ cr[ModelOf(p)] # "replaced"
        /\ Goto(p, IF TaskOf(p).kind = "plain" THEN "unpublish" ELSE "erase")
        /\ UNCHANGED files
     \/ Goto(p, "unlock") /\ UNCHANGED files
  /\ UNCHANGED <<tasks, models, timers, workVars, enqVars, routingVars, cr,
                 pathLock, statusVars>>

\* The shared delete waits for the parent's owner, and keeps its barrier as
\* long as it is sent again.
RemoveSharedRetry(p) ==
  /\ pc[p] = "remove"
  /\ TaskOf(p).shared
  /\ RequeueWithinBudget(cur[p])
  /\ keep' = [keep EXCEPT ![p] = TRUE]
  /\ Goto(p, "unlock")
  /\ UNCHANGED <<models, cur, attempt, cancelled, nested, enqVars,
                 routingVars, cr, nodeVars, statusVars>>

EraseBusy(p) == PathBusy(p, {"erase"})

\* The direct path: keep the files if they are still wanted, else remove them.
Erase(p) ==
  /\ pc[p] = "erase"
  /\ FreeFor(p)
  /\ pathLock' = [pathLock EXCEPT ![PathAt(p)] = p]
  /\ IF cr[ModelOf(p)] = "replaced"
     THEN Goto(p, "unlock") /\ UNCHANGED files
     ELSE /\ Goto(p, "unpublish")
          /\ files' = [files EXCEPT ![PathAt(p)] =
               IF \/ TaskOf(p).kind = "hub" /\ ~ isModelRemovalConfirmed(p)
                  \/ SkipsFiles(ModelOf(p))
               THEN @ ELSE "absent"]
  /\ UNCHANGED <<tasks, models, timers, workVars, enqVars, routingVars, cr,
                 statusVars>>

\* A hub model that other directories link to keeps its files.
EraseLinked(p) ==
  /\ pc[p] = "erase"
  /\ TaskOf(p).kind = "hub"
  /\ FreeFor(p)
  /\ cr[ModelOf(p)] # "replaced"
  /\ pathLock' = [pathLock EXCEPT ![PathAt(p)] = p]
  /\ Goto(p, "unpublish")
  /\ UNCHANGED <<tasks, models, timers, workVars, enqVars, routingVars, cr,
                 files, statusVars>>

\* The files of a hub model are gone, but the directory they were linked to is
\* in other hands: the delete waits, and starts again with nothing to erase.
EraseParentBusy(p) ==
  /\ pc[p] = "erase"
  /\ TaskOf(p).kind = "hub" /\ isModelRemovalConfirmed(p)
  /\ FreeFor(p)
  /\ cr[ModelOf(p)] # "replaced"
  /\ pathLock' = [pathLock EXCEPT ![PathAt(p)] = p]
  /\ files' = [files EXCEPT ![PathAt(p)] =
                 IF SkipsFiles(ModelOf(p)) THEN @ ELSE "absent"]
  /\ requeueTaskOnWait(cur[p])
  /\ keep' = [keep EXCEPT ![p] = TRUE]
  /\ Goto(p, "unlock")
  /\ UNCHANGED <<models, cur, attempt, cancelled, nested, enqVars,
                 routingVars, cr, statusVars>>

\* deleteModel fails part way.
EraseFails(p) ==
  /\ pc[p] = "erase"
  /\ IOFaults
  /\ FreeFor(p)
  /\ cr[ModelOf(p)] # "replaced"
  /\ TaskOf(p).kind = "hub" => isModelRemovalConfirmed(p)
  /\ ~ SkipsFiles(ModelOf(p))
  /\ pathLock' = [pathLock EXCEPT ![PathAt(p)] = p]
  /\ files' = [files EXCEPT ![PathAt(p)] = IF @ = "absent" THEN @ ELSE "partial"]
  /\ Goto(p, "unlock")
  /\ UNCHANGED <<tasks, models, timers, workVars, enqVars, routingVars, cr,
                 statusVars>>

\* The last step of a delete; its context is never cancelled.
Unpublish(p) ==
  /\ pc[p] = "unpublish"
  /\ Publish(p, "none") \/ (IOFaults /\ UNCHANGED statusVars)
  /\ Goto(p, "unlock")
  /\ UNCHANGED <<tasks, models, timers, workVars, enqVars, routingVars, cr,
                 nodeVars>>

DeleteStep(p) ==
  \/ AdmittedDelete(p) \/ RemoveOrdinary(p)    \/ RemoveShared(p)
  \/ EraseBusy(p)      \/ RemoveSharedRetry(p) \/ Erase(p)
  \/ EraseLinked(p)    \/ EraseParentBusy(p)   \/ EraseFails(p)
  \/ Unpublish(p)

\* Mutant: a task that is sent again keeps its file lock.
ReleaseFileLocksUnlessSent(p) ==
  /\ pc[p] = "unlock"
  /\ pathLock' = [d \in Paths |-> IF pathLock[d] = p /\ cur[p] \notin timers
                                  THEN None ELSE pathLock[d]]
  /\ Goto(p, "finish")
  /\ UNCHANGED <<tasks, models, timers, workVars, enqVars, routingVars, cr,
                 files, statusVars>>

\* The deferred calls of processTask: the file locks go first, then the slot.
ReleaseFileLocks(p) ==
  /\ pc[p] = "unlock"
  /\ pathLock' = [d \in Paths |-> IF pathLock[d] = p THEN None
                                  ELSE pathLock[d]]
  /\ Goto(p, "finish")
  /\ UNCHANGED <<tasks, models, timers, workVars, enqVars, routingVars, cr,
                 files, statusVars>>

Finish(p) ==
  /\ pc[p] = "finish"
  /\ models' = [models EXCEPT ![ModelOf(p)] =
       CASE attempt[p] = "download" -> finishDownload(@, p)
         [] attempt[p] = "delete" -> finishDelete(@, cur[p], p, keep[p])
         [] attempt[p] = "legacyDownload" -> finishLegacyTask(@, p, "Download")
         [] attempt[p] = "legacyDelete" -> finishLegacyTask(@, p, "Delete")]
  /\ Return(p)
  /\ UNCHANGED <<tasks, timers, cancelled, enqVars, routingVars, cr,
                 nodeVars, statusVars>>

WorkerStep(p) ==
  \/ BeginTask(p) \/ DownloadStep(p) \/ DeleteStep(p)
  \/ ReleaseFileLocks(p) \/ Finish(p)
-----------------------------------------------------------------------------
(***************************************************************************)
(* The environment, and shutdown.                                          *)
(***************************************************************************)
\* A model resource gets a deletion timestamp, disappears, and its name is
\* taken by a new resource with another UID.
ResourceDeleting(m) ==
  /\ "delete" \in EnvSteps
  /\ cr[m] = "live"
  /\ cr' = [cr EXCEPT ![m] = "deleting"]

ResourceGone(m) ==
  /\ "vanish" \in EnvSteps
  /\ cr[m] = "deleting"
  /\ cr' = [cr EXCEPT ![m] = "gone"]

ResourceReplaced(m) ==
  /\ "replace" \in EnvSteps
  /\ cr[m] = "gone"
  /\ cr' = [cr EXCEPT ![m] = "replaced"]

ResourceChange(m) ==
  /\ ResourceDeleting(m) \/ ResourceGone(m) \/ ResourceReplaced(m)
  /\ UNCHANGED <<tasks, models, timers, pc, workVars, enqVars, routingVars,
                 nodeVars, statusVars>>

\* Run receives the stop signal and closes the queue.
Stop ==
  /\ "stop" \in EnvSteps
  /\ ~ queue.closed
  /\ queue' = [queue EXCEPT !.closed = TRUE]
  /\ UNCHANGED <<tasks, models, timers, pc, workVars, enq, routingVars, cr,
                 nodeVars, statusVars>>

\* A closed queue is drained before its workers exit.
Exit(p) ==
  /\ pc[p] = "idle"
  /\ queue.closed
  /\ p \in NormalWorkers => normalTasks(queue) = <<>>
  /\ p \in HighWorkers => queue.high = <<>>
  /\ Goto(p, "exited")
  /\ UNCHANGED <<tasks, models, timers, workVars, enqVars, routingVars, cr,
                 nodeVars, statusVars>>

Next ==
  \/ \E m \in Models, in \in Inputs : DispatchInput(m, in)
  \/ \E s \in timers : DispatchRequeued(s)
  \/ \E p \in Procs : EnqueueStep(p)
  \/ \E s \in DOMAIN tasks : Taken(s)
  \/ \E p \in Workers : WorkerStep(p)
  \/ \E m \in Models : ResourceChange(m)
  \/ Stop
  \/ \E p \in Procs : Exit(p)

Spec == Init /\ [][Next]_vars

\* An input makes at most one cleanup of its own.
MaxTasks == 2 * MaxInputs

(***************************************************************************)
(* Goroutines are scheduled fairly.  A timer fires, and the dispatcher     *)
(* receives from its channel in the order of the sends.  A task that has   *)
(* to wait is away for samePathWaitDelay, which leaves the workers the     *)
(* time to take what it was queued in front of.  A wait with a budget ends *)
(* (requeueArtifactWait), and so does the use of a parent directory that a *)
(* delete finds in other hands.                                            *)
(***************************************************************************)
WaitEnds(p) ==
  \/ SourceShared(p) \/ RemoveShared(p) \/ Erase(p)
  \/ DirectStart(p)  \/ DirectDemote(p)

Fairness ==
  /\ \A p \in Procs : WF_vars(EnqueueStep(p)) /\ WF_vars(Exit(p))
  /\ \A p \in Workers : WF_vars(WorkerStep(p)) /\ SF_vars(WaitEnds(p))
  /\ \A s \in 1 .. MaxTasks : SF_vars(DispatchRequeued(s)) /\ SF_vars(Taken(s))

FairSpec == Spec /\ Fairness
-----------------------------------------------------------------------------
(***************************************************************************)
(* Properties.                                                             *)
(***************************************************************************)
Labels ==
  { "idle", "reserve", "reserved", "push", "begin", "deleteWait", "admitted",
    "lock", "updating", "source", "direct", "write", "recheck", "publish",
    "failed", "remove", "erase", "unpublish", "unlock", "finish", "exited" }

\* Every variable but the queue has its type, and what a goroutine or a timer
\* holds is a task object that exists: ensureSequence hands out 1..Len(tasks).
TypeOK ==
  /\ tasks \in Seq(Task)
  /\ models \in [Models -> ModelState]
  /\ timers \subseteq DOMAIN tasks
  /\ pc \in [Procs -> Labels]
  /\ cur \in [Procs -> {0} \cup DOMAIN tasks]
  /\ enq \in [Procs -> {0} \cup DOMAIN tasks]
  /\ nested \in [Procs -> {0} \cup DOMAIN tasks]
  /\ attempt \in [Procs -> {"none", "download", "delete",
                            "legacyDownload", "legacyDelete"}]
  /\ cancelled \in [Procs -> BOOLEAN]
  /\ keep \in [Procs -> BOOLEAN]
  /\ known \in BOOLEAN
  /\ children \subseteq Models
  /\ cr \in [Models -> {"live", "deleting", "gone", "replaced"}]
  /\ pathLock \in [Paths -> Procs \cup {None}]
  /\ files \in [Paths -> {"absent", "partial", "complete"}]
  /\ status \in [Models -> {"none", "Updating", "Ready", "Failed"}]
  /\ publisher \in [Models -> Nat]

\* Two workers never run file-changing attempts of one model at the same time,
\* whatever mix of downloads, deletes, retries and demotions they took from
\* the queue (gopher_task_tracker.go: "serializes task attempts for each model
\* UID").
ExclusiveAttempts ==
  \A p, q \in Workers :
    /\ attempt[p] \in {"download", "delete"}
    /\ attempt[q] \in {"download", "delete"}
    /\ ModelOf(p) = ModelOf(q)
    => p = q

\* While one attempt rewrites a directory no other attempt, not even one of a
\* different model that shares the directory, changes its files.
DirectoryHasOneWriter ==
  [][\A d \in Paths : files'[d] # files[d] =>
       \A q \in Workers : pc[q] = "write" /\ PathAt(q) = d => pc'[q] # "write"
    ]_vars

\* The published status follows the order in which work was asked for: a
\* coordinated task never overwrites the status of a later one, and nothing a
\* finished delete fenced off publishes again.
StatusFollowsIntent ==
  [][\A m \in Models : publisher'[m] # publisher[m] =>
       /\ publisher'[m] > publisher[m]
       /\ publisher'[m] > models[m].finishedDeleteSequence ]_vars

Carried(s) ==
  \/ s \in Queued(queue) \cup timers
  \/ \E p \in Procs : \/ enq[p] = s
                      \/ cur[p] = s /\ pc[p] \in {"begin", "deleteWait"}
                      \/ cur[p] = s /\ attempt[p] # "none"

\* A delete barrier always has a task that will lift it: while the agent runs,
\* the delete that reserved the barrier is queued, waiting on a timer or in the
\* hands of a goroutine, so the model's later downloads do not wait for ever.
BarrierCarried ==
  \A m \in Models :
    models[m].deleteSequence # 0 /\ ~ queue.closed /\ cr[m] # "replaced"
      => Carried(models[m].deleteSequence)

\* A request to download a live model is never lost: unless a delete was asked
\* for later, the download, or a later one, is still carried or was admitted.
DownloadNotLost ==
  \A s \in DOMAIN tasks :
    LET m == tasks[s].model
    IN  /\ tasks[s].type # "Delete"
        /\ usesArtifactTaskCoordinator(tasks[s])
        /\ cr[m] = "live"
        /\ ~ queue.closed
        /\ ~ Carried(s)
        => \/ models[m].newestDownloadSequence >= s
           \/ \E d \in DOMAIN tasks : /\ d > s
                                      /\ tasks[d].model = m
                                      /\ tasks[d].type = "Delete"

\* Nothing waits for ever.  Whatever a task waits for (older work it cancelled,
\* the directory, another model of the directory, a shared parent), it is
\* eventually done, found stale or given up, so with a bounded number of inputs
\* the agent becomes idle; and after the stop signal every worker drains its
\* queue, ends its attempt and exits (runWorker, runHighPriorityWorker).
EveryTaskSettles ==
  []<> IF queue.closed THEN \A p \in Workers : pc[p] = "exited"
       ELSE \A s \in DOMAIN tasks : ~ Carried(s)

\* Work for a model resource whose name another resource has taken leaves the
\* status that is published under that name alone (gopher.go: "Old work must not
\* update the new CR's deterministic node label").
ReplacedStatusKept ==
  [][\A m \in Models : cr[m] = "replaced" => status'[m] = status[m]]_vars

\* A task of another model at the directory of m goes through shared artifacts.
SharedAt(m) ==
  \E s \in DOMAIN tasks :
    tasks[s].shared /\ tasks[s].model # m /\ PathOf[tasks[s].model] = PathOf[m]

\* No delete of another model may empty the directory of m.
Protected(m) ==
  cr[m] = "live" \/ (cr[m] = "deleting" /\ (m \in Reserved \/ ~ SharedAt(m)))

\* A model whose files the agent manages and whose status is Ready has its
\* directory, also when another model that shares the directory was deleted.  A
\* model that is being deleted itself still counts (isPathReferencedByOtherModels),
\* but not for a delete through shared artifacts (hfArtifactHasOtherPathUsers).
ReadyHasFiles ==
  \A m \in Models :
    /\ status[m] = "Ready"
    /\ Protected(m)
    /\ models[m].deleteSequence = 0
    => files[PathOf[m]] # "absent"
=============================================================================
