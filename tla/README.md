# A TLA+ development for OME

OME serves large models on Kubernetes. This directory specifies parts of it in
TLA+, checks the specifications on small instances with TLC, and proves the
most important properties for all instances with TLAPS. Three parts of the model
agent, the process on every node that downloads and deletes model files and
publishes what the node has, are treated:

- the *Gopher*, its concurrent scheduling of downloads and deletes;
- *shared Hugging Face artifacts*, directories that several models use, with
  records that must survive crashes;
- the *ConfigMap cache*, which restores records that somebody else deleted.

The rest of the system is surveyed below with a plan.

- [Survey](#survey) of the system, its state, operations and hard behaviours
- [Plan](#plan)
- [The Gopher model](#the-gopher-model)
- [The shared artifact model](#the-shared-artifact-model)
- [The ConfigMap cache model](#the-configmap-cache-model)
- [Model checking](#model-checking): runs, bounds, fairness, three disagreements
- [Proofs](#proofs): what is proved, from which assumptions, along which argument
- [What is not modelled](#what-is-not-modelled)

`PROJECT.json` is the index: the components, the runs, the source lines of each
definition, a mutant for each property, the hazards and the theorems.

## Survey

Paths are relative to `src/`; `v1beta1` is `pkg/controller/v1beta1`.

| Part | State | Operations | What is hard about it | What correctness means |
|---|---|---|---|---|
| **Model agent: Gopher** (`pkg/modelagent/gopher*.go`, `direct_file_operation.go`) | task queue, per-model tracker records, timers, file locks, directories, node status | enqueue, admit, download, demote, wait, delete, publish, stop | two worker pools, a dispatcher and timers share task objects; cancellation; waits that requeue; models that share a directory | attempts of a model exclude each other; status follows the order of requests; no request and no barrier is lost; every wait ends |
| **Model agent: shared Hugging Face artifacts** (`hf_artifact_*.go`, `gopher_hf_*.go`) | parent entry with status, lock ID, children; ready marker; pending-download and pending-deletion receipts | acquire, download, attach a child, repair, detach, delete the last child, recover at start-up | process crash between the ConfigMap write and the file operation; owner fenced by a lock ID; releases that must be retried | a parent with children is never deleted; Ready means complete files; after a restart every entry can be taken again |
| **Model agent: node ConfigMap and labels** (`configmap_reconciler.go`, `hf_artifact_recovery.go`, `node_label_reconciler.go`) | ConfigMap, in-memory cache, invalidated UIDs | status, metadata and progress updates, delete, periodic restore | conflicts and retries; somebody deletes the ConfigMap; a name is reused | restore never brings back a deleted model; an old UID never overwrites a new one |
| **Model agent: Scout** (`scout.go`) | informer caches, pending deletions | add, update and delete handlers, node changes | events for a resource and its node in any order | every wanted model gets a task, every deleted one a delete |
| **OME-native workload engine** (`v1beta1/workload`, `ops`, `escalation`, `holds`, `evidence`, `revision`) | replica and gang records in status, pods | plan one step, create, update, restart, migrate, scale, drain | level-triggered planning over a stale cache; a step partly executed; retry budgets | no more disruption than the budget; no orphaned pods; a step is not repeated |
| **InferenceReplica, InferenceService controllers** (`v1beta1/inferencereplica`, `inferenceservice`) | spec, status, owned objects | reconcile, project, clean up | hand-over between deployment modes | old objects go only when new ones serve |
| **Rollout coordination, canary, run records** (`reconcilers/omenative/*`, `pkg/rollout`) | step index, weights, pause and abort marks | advance, hold, promote, abort, roll back | two components that must keep a ratio; a new spec in the middle of a rollout | ratio bounds hold at every step; an aborted canary gets no traffic |
| **Placement, routing, endpoints** (`v1beta1/placement`, `pkg/placement`) | plan, floors, TrafficMap generations | place, split, move, publish | several clusters, unreachable ones, stale generations | capacity is not promised twice; traffic goes only to ready backends |
| **AcceleratorQuota manager** (`v1beta1/acceleratorquota`, `pkg/quota`) | quota tree, capacity high-water mark, Kueue objects | validate, distribute shares, project | rounding, shrinking capacity, partial writes | children never exceed the parent; shares add up |
| **Alfred** (`pkg/alfred`) | snapshot, proposals, guards | observe, propose, arbitrate, dispatch | acts on a snapshot that is stale at dispatch | one action per unit; guards hold at dispatch |
| **gangpack scheduler plugin** (`scheduler/pkg/plugins/gangpack`) | reservations | filter, score, reserve, collect | cycles of several gangs interleave | a gang is placed whole or not at all |
| **Slice provisioning** (`v1beta1/sliceprovision`) | slice requests | provision, place, release | partial failure | no slice leaks |
| **BaseModel, benchmark, runtime revision, workload cluster controllers** | status, jobs, remote clients | reconcile | little concurrency of their own | aggregates agree with the nodes |
| **Selectors, rendering, validation, webhooks, configuration, autoscaling, ingress, CLI, ome-agent, vault, download back ends** | mostly none | pure functions or sequential I/O | boundary cases | functional correctness |

## Plan

Most important first; each step adds a model that can be checked and then
proved about.

1. **Gopher** (done): `GopherTaskTracker`, `GopherTaskQueue`, `Gopher`, with
   theorems for every safety property that its runs check.
2. **HfArtifact** (done): `HfArtifactRepository` and `HfArtifact`, shown to
   implement `SharedArtifact`, with theorems for every safety property.
3. **ConfigMapCache** (done): cache, invalidated UIDs and restore, with theorems
   for two of its four safety properties and its types.
4. **Composition**: the results of `HfArtifact` in place of the outcomes that
   `SourceShared` and `RemoveShared` of `Gopher` choose.
5. **ModelLifecycle**: an abstract specification of one model (asked for, worked
   on by one attempt, published in order) that Gopher implements.
6. **Coordination and Canary**: step machines with ratio bounds.
7. **Quota shares and tree**: operators checked against reference definitions.
8. **Workload plan/execute with a stale cache**, **drain**, **GangPack**,
   **Alfred arbitration**, **TrafficMap generations**, as far as room allows.

## The Gopher model

Scout sends tasks through a channel. The *dispatcher* (`dispatchTasks`) numbers
a task and queues it (`enqueueTask`). *Normal* and *high-priority workers*
(`runWorker`, `runHighPriorityWorker`) pop tasks and run `processTask`: admit
through the tracker (`beginTask`), lock the directory, download or delete,
publish the status, release the lock, finish the attempt. A task that has to
wait is put on a timer, which sends it through the channel again.

| Module | Models |
|---|---|
| `GopherTaskTracker` | `gopher_task_tracker.go`. One record per model UID; every operation is a critical section, written as a function from the old record to the new one. |
| `GopherTaskQueue` | `gopher_task_queue.go` and the task predicates of `direct_file_operation.go`. Three lists of task numbers. |
| `Gopher` | `gopher.go`, `gopher_artifact_routing.go`, and the entry points of `gopher_hf_artifact.go`. |
| `MCGopher` | instances for TLC |
| `GopherProofs`, `GopherDirectoryProofs`, `GopherDeliveryProofs` | theorems |

**State.** `tasks[s]` is the task object with sequence number `s`; holders share
it by pointer, so a change of it (shared routing, priority, start of a wait) is
seen by all of them. `models` is the tracker, `queue` the lists, `timers` the
pending `time.AfterFunc`s. Each goroutine has a place `pc`, the task `cur` it
processes, the task `enq` it is enqueueing, its `attempt`, whether the attempt's
context is `cancelled`, the download it interrupted for an inline cleanup
(`nested`), and `keepDeleteBarrier` (`keep`). `known` and `children` are the
routing snapshot. `cr` is what the listers say of a model resource. `pathLock`
and `files` are the node's directories, `status` the published status.
`publisher` is history: the task that last wrote the status under the
coordinator.

**Steps.** A step is what runs between two points at which another goroutine can
interfere: a critical section, a file-system effect, a status write.

| Code | Actions |
|---|---|
| `dispatchTasks` receives | `DispatchInput`, `DispatchRequeued` |
| `enqueueTask` | the first half in `EnqueueNew`/`EnqueueAgain`, then `EnqueueDownload`, `EnqueueLegacyDelete`, or `EnqueueDeleteStale`, `EnqueueDeleteReserve`, `EnqueueDeleteReserved`, and `EnqueuePush`. The routing, tracker and queue mutexes are taken one after the other, so these interleave. |
| `popNormal`, `popHighPriority` | `PopNormal`, `PopHighPriority` |
| `beginTask` | `Begin...`: unreadable routing, replaced resource, stale, wait, proceed, for coordinated and legacy tasks. `requeueTaskOnWait` of a delete comes before the release of its attempt, so `BeginDeleteWait` and `BeginDeleteWaits` are two steps. |
| `shouldSkipStaleDownloadTask` | `CheckBeforeDownload`, `CheckAfterDownload`. A deleting model is cleaned up: by a new queued delete, or, for a legacy task, inline. |
| `tryLockDirectModelPath` | `LockPath`, `LockPathBusy`, `LockFails`, and again at `direct` and `erase` |
| status writes | `MarkUpdating`, `markModelOnNodeFailed`, `finishDownloadStatus`, `Unpublish` |
| the download itself | `SourcePlain`, `SourceShared...`, `SourceDirect`, then `DirectReuse`, `DirectWait`, `DirectDemote`, `DirectStart`, `DirectFinish`, `DirectBusy` |
| the delete itself | `RemoveOrdinary`, `RemoveShared`, `RemoveSharedRetry`, `Erase...` |
| deferred calls | `ReleaseFileLocks`, then `Finish` |
| stop signal | `Stop`, `Exit` |

**Data.** Storage is of three kinds: `object` (OCI object storage), `hub`
(Hugging Face) and `plain` (Local, PVC, Vendor, no files of the agent's). A
ModelPack download takes the steps of an `object` override: it never waits for
another candidate of its directory, and always transfers. A directory is absent, partial or complete. Time is not modelled: the
first wait of a task starts its clock, and any later one may find the budget
exhausted. Bytes, checksums, validation and the inside of the shared-artifact
handler are their outcomes. `Created` stands for the order by creation time and
then key that `shouldWaitForSamePathCandidate` uses.

**Two rules for a directory in use.** A direct delete keeps the files as long as
another resource names the directory, also one that is being deleted
(`Referenced`). The delete of a shared child ignores deleting resources that are
not reserved (`HasOtherPathUsers`), unless a stored reference still protects the
path, which `RemoveShared` leaves open. `ReadyHasFiles` therefore speaks of models
that are `Protected`: live ones, and deleting ones that are reserved or have no
shared neighbour.

**Environment.** Scout's handlers run behind the listers, so `DispatchInput`
delivers a task whatever became of its resource meanwhile. `ResourceChange` makes a resource deleting, gone, and replaced
by one of the same name with another UID. `RoutingFaults` lets the node ConfigMap
be unreadable, `IOFaults` lets a status write, a lock or an erasure fail.

## The shared artifact model

With shared storage several models of a node use one directory, the *parent*.
The path of a model is a symbolic link to it, and the node's ConfigMap has a
record of the parent (status, owner, children) and of each model (status,
reference to the parent, announced download, receipt of an unfinished deletion).

| Module | Models |
|---|---|
| `HfArtifactRepository` | the records and each compare-and-swap of them, as functions from the stored records to the new ones (`hf_artifact_repository*.go`, `hf_artifact_data.go`, `hf_artifact_pending*.go`) |
| `HfArtifact` | the handlers, as steps of workers of one or more agent processes (`hf_artifact_*.go`, `gopher_hf_*.go`) |
| `SharedArtifact` | what the handlers promise, in five actions |
| `MCHfArtifact` | instances for TLC |
| `HfArtifactProofs`, `HfArtifactReadyProofs`, `HfArtifactReferenceProofs`, `HfArtifactPromiseProofs` | theorems |

**State.** Durable: `parent` and `entry` (the records), `label` (the node's
labels), `dir` with its ready `marker`, `links`, and `flock`, the file lock of
the parent. Per process: `mem`, what it must repeat or knows it has done. Per
worker: its `home` process, its place `pc`, its task `op`, and the lock ID `own`
under which it owns the parent. `cr` is what becomes of each resource. The
directory is absent, partial, complete, or rotten: complete once, and damaged by
the disk since. Properties about complete files admit the last, which only a
validation finds.

**Ownership.** To change the files a worker takes the file lock and then, by
compare-and-swap, writes an unused lock ID into the parent. A process that
crashes leaves that ID behind; recovery finds the parent without a live owner
and, from the marker and the receipts, makes it `Ready` or free to be taken. The
marker contains the lock ID of the owner that completed the files.

**Steps.** A step of a worker makes at most one durable change, so a crash, or an
operation of another process, can fall between any two. A write to the ConfigMap
may fail, may succeed and lose its answer, and may meet a conflict.

| Code | Actions |
|---|---|
| a task begins, its model is marked Updating | `Start` |
| what has to be repeated or withdrawn before the task | `CleanupIntent`, `Cleanup` |
| recovery after a crash | `recover`, `recoverParent` |
| the file lock, abandoned deletions, admission, `tryAcquireLock` | `Enter`, `Settle`, `Admit`, `AcquireInitial`, `AcquireRepair` |
| download | `ResetBegins/Ends`, `FetchBegins/Ends`, `MarkBegins/Ends`, `MarkParentReady` |
| repair of damaged files | `Validate`, `FailChildren`, `FailLabels`, `RemoveMarker` |
| attach a model | `AttachLink`, `AttachReference` |
| detach, and delete with the last model | `DetachReference`, `Claim`, `Unlink`, `RemoveBegins/Ends`, `Forget`, `Unclaim`, `FinishReceipt`, `Final` |
| a removal without records | `DeleteOrdinary` |
| status and label | `PublishLabel`, `PublishStatus`, `markModelOnNodeFailed` |
| everything else in the world | `ResourceChange`, `Crash`, `LoseConfigMap`, `Rot` |

`Begins` and `Ends` split what is not atomic on disk: between them the directory
is torn, and a crash leaves it so.

**Faults** (`Faults`, at most `MaxFaults` of them): an agent crashes and starts
again, the ConfigMap is lost, a call fails or loses its answer, a file operation
fails, the download source fails, a file is damaged, a task is cancelled, a wait
budget runs out, another resource turns out to use the path of a model. The last
one preserves the path in a delete and ends a departure from shared storage with
an error (`Cleanup`); no run has departures together with foreign users, only the
proofs cover that case. A task that fails for good marks its model Failed, but for
a delete (`GivesUp`). The rollback of an attachment whose UID was fenced meanwhile
is not here: a model has one UID in this module, and at most one attempt per
process.

**The promise.** `SharedArtifact` has only the content of the directory, whether
it is offered, and who uses it. Files change only while it is not offered; it is
offered only when it is whole; models begin to use it only while it is offered;
it is removed only when nobody uses it. `Promise` in `HfArtifact` instantiates it
with `offered <- parent.status = "Ready"` and `users <- links`, and `KeepsPromise`
says that every behaviour of the handlers is one of the promise.

## The ConfigMap cache model

`ConfigMapReconciler` keeps a copy of what it wrote. When the ConfigMap, or a key
of it, disappears, the copy brings the records back. It must not bring back what
the agent itself removed, nor give a resource the record of an earlier one of the
same name, nor call files Ready that nobody has validated since.

`ConfigMapCache` extends `HfArtifactRepository`. `exists`, `parent` and `entry`
are the stored records, `cache` and `parentCache` the copy, `evicted` and
`invalidated` what must not be restored. `call` is a status, metadata or delete
call between its two critical sections: the write happens under
`configMapMutationMutex`, the update of the cache afterwards. `uid`, `oldest`,
`lastUID` and `deleting` say which resources of a name exist. `author`, `owed` and
`restored` are history: who wrote an entry, which shared part the agent still has
to settle, and whether records of the artifact came from the cache and have not
been validated.

| Code | Actions |
|---|---|
| status, metadata, progress and delete calls | `GopherStep` |
| periodic reconciliation, and the reads and retries that restore | `CacheStep` |
| the repository's compare-and-swaps, each with restoration before it | `RepositoryStep` |
| records are lost, answers are lost, the agent restarts, names are reused | `Environment` |

`restoreCachedConfigMapEntries` is the operator `Restore`, with the parent and
its children as one group and single entries otherwise.

## Model checking

| Run | Instance | Shows |
|---|---|---|
| `gopher_files` | one model, object and hub downloads, overrides and deletes, three inputs, the resource may be deleted | types; `ExclusiveAttempts`; `BarrierCarried`; `DownloadNotLost`; `StatusFollowsIntent` |
| `gopher_same_path` | two models of one directory, one Ready at start-up, the other recorded as a shared child, two inputs | `ReadyHasFiles`, `DirectoryHasOneWriter` |
| `gopher_kinds` | one model whose storage changes between plain, hub and shared; its resource is deleted, vanishes and is replaced | `ExclusiveAttempts`, `BarrierCarried`, `StatusFollowsIntent` where legacy and coordinated work meet and cleanups nest |
| `gopher_faults` | the same with unreadable routing and failing I/O | `ExclusiveAttempts`, `StatusFollowsIntent` |
| `gopher_stop` | two downloads, their cleanups, stop at any moment, fairness | `EveryTaskSettles`: the queue is drained, all workers exit |
| `gopher_waits` | two models of one directory, fairness | `EveryTaskSettles`: waits for a lock or for each other end |
| `gopher_unrouted` | one model, unreadable routing | a violation of `BarrierCarried`, see below |
| `gopher_replaced` | one model, a reused name | a violation of `ReplacedStatusKept`, see below |
| `hf_safe` | two models, two workers, in two processes without faults or in one process with any one fault of any kind, after which one task runs at a time | types; `WriterOwnsParent`, `ReadyIsComplete`, `ReferencesMatch`, `ReadyLabelIsServed`, `RemovedOnlyUnused`; the refinement `KeepsPromise` |
| `hf_live` | two models, one worker, models that are deleted or leave shared storage, one fault, fairness | `DeletesFinish`, `NothingIsLeft`, `DownloadsSettle`, and `ReferencesMatch`, `RemovedOnlyUnused` where models leave shared storage |
| `hf_shared` | the same with two faults: a failing removal and a foreign user of the path | a violation of `ReadyIsComplete`, see below |
| `cache` | two models, or one whose name is used again; one loss, lost answer or restart | types; `NoResurrection`, `OwnershipKept`, `RestoredNotReady`, `ReconciliationHeals` |

**Properties of the Gopher.** `ExclusiveAttempts`: at most one coordinated attempt of a model.
`StatusFollowsIntent`: a coordinated task never overwrites the status of a later
one and nothing behind a finished delete publishes. `BarrierCarried`: the task
that will lift a barrier is somewhere. `DownloadNotLost`: a download leaves the
system only admitted, behind a later admitted one, or behind a later delete.
`DirectoryHasOneWriter` and `ReadyHasFiles` are about models that share a
directory. `EveryTaskSettles` says that nothing waits for ever.

**Properties of shared artifacts.** `WriterOwnsParent`: whoever changes the files
has the file lock and is still the recorded owner. `ReadyIsComplete`: a parent
that is Ready, or that recovery would make Ready, has all its files.
`ReferencesMatch`: both directions of a reference agree, with each other and with
the links. `ReadyLabelIsServed`: a label Ready leads to complete files.
`RemovedOnlyUnused`: files go only when nobody uses or announces them.
`DeletesFinish`, `NothingIsLeft`, `DownloadsSettle`: tasks come to an end, and
the last delete leaves nothing behind. The first two hold while no wait budget
runs out: `requeueHfArtifactTask` then returns an error and does not queue the
delete again, so `hf_live` has no such fault.

**Properties of the cache.** `NoResurrection`: what the agent removed stays
removed. `OwnershipKept`: no write replaces an entry that still owes something by
one that does not say so. `RestoredNotReady`: what was restored is not called
Ready before it was validated. `ReconciliationHeals`: the next reconciliation
brings back what may be brought back, and a model that then refers to the artifact
and that the cached parent lists is a child of the stored parent; it is stated as
an invariant on what reconciling now would give, which is stronger than that this
happens eventually. The restriction to the cached parent's children is needed. If
the parent's record is lost and a task of another model creates it again, the new
record has no children and replaces the cached one: reconciling does not make the
reference of the first model two-sided again.

**Bounds of the Gopher runs.** `MaxInputs` (two or three) bounds what Scout sends; each download can
add one cleanup, so there are up to six task objects. Three inputs of one model
give every order of an older request, a delete and a newer request, with one of
them retried; two inputs of two models give a conflict on the directory in either
direction. One worker per pool and the dispatcher give three goroutines: a
high-priority and a normal worker can hold two tasks of one model, which is what
exclusion and order are about, while more workers of a pool run the same code.
The theorems below do not have these bounds.
`CHECK_DEADLOCK` is off since an agent with no more input rests.

**Bounds of the artifact and cache runs.** Two models are a last user and another
one. Two workers meet in one process or across two; three would only repeat such
a meeting, since everything beyond admission happens under one file lock. Lock
IDs are taken from four or five, which is more than ever coexist (`LocksSuffice`
of `MCHfArtifact` holds, so there is always an unused one). `MaxFaults` is given
by the number of processes: with two processes the interleavings alone exhaust
what TLC can do, with one process one fault falls between any two steps. After the
fault of `hf_safe` one task runs at a time (`AloneAfterFault`): a crash interrupts
two tasks, another fault is followed to the end where it meets a task that runs
alone. Without this bound the run passes as well, with twice as many states. `hf_live` has
`Repeats` off, so a task is repeated only when the code repeats it. The theorems
have none of these bounds. The cache runs with one fault because two can defeat
`ReconciliationHeals`: the parent's record, and then an entry of the parent that
was created in its place.

**Fairness** (`FairSpec`). Goroutines are scheduled, so a step that stays enabled
is taken (`WF` on `EnqueueStep`, `WorkerStep`, `Exit`). A timer fires and the
channel keeps the order of sends, so a task on a timer reaches the dispatcher
(`SF` on `DispatchRequeued`). A queued task is taken (`SF` on `Taken`): deletes
go to the front of a list, but a delete that has to wait is away for
`samePathWaitDelay`, in which workers take what is behind it. A wait with a
budget ends, and other users of a directory finish (`SF` on `WaitEnds`). That no
transfer hangs is assumed.

In `hf_live` a worker does not stop in the middle of a task (`WF` on `Step`), and
a task that is queued is started (`SF` on `Start`), which is what
`EveryTaskSettles` gives. There is one worker because two that try the file lock
of a parent and requeue can miss each other for ever in the model; the code
relies on its retry delays there, and the model has no time.

**Three disagreements between words and code.**

- `gopher_unrouted`: `enqueueTask` reserves the barrier of a delete before
  queueing it. When the routing snapshot cannot be read for longer than the wait
  budget, `beginTask` drops the delete (`gopher_artifact_routing.go:127`) without
  `finishDelete`. The barrier stays, and since `beginDelete` never
  takes over the barrier of another number, every later task of that UID waits
  until the agent restarts. The comment on `finishDelete`
  (`gopher_task_tracker.go:200`) says that an exhausted wait budget releases it.
- `gopher_replaced`: whether the name was reused is checked at admission and
  after the directory lock, not at the status writes (`gopher.go:285`), so
  admitted work can write under a name that was reused meanwhile. The comment at
  `gopher.go:1052` says that old work must not.
- `hf_shared`: the removal of the directory (`hf_artifact_delete.go:152`) can stop
  half way with the ready marker still there. If the resumed deletion then finds
  the path of its model used by somebody, it gives the parent back as Ready. The
  documentation (`shared-hf-artifacts.md:158`) says that the marker stands for a
  completed, validated download. Without a foreign user of the path this cannot
  happen, which is the theorem `ReadyIsCompleteHolds`.

## Proofs

No theorem bounds the number of models, workers, processes, tasks, lock IDs, UIDs
or faults. The constants satisfy `GopherAssumption`, `NoneAssumption` and the
assumptions of the other modules (goroutines are distinct, `None` is none of
them, functions have their domains, models have an order). Where a theorem needs
more, it says so in its statement:

| Theorem | Establishes | Only for |
|---|---|---|
| `TypeCorrect` | `TypeOK` of `Gopher` | |
| `AttemptsExclude` | `ExclusiveAttempts` | |
| `StatusInOrder` | `StatusFollowsIntent` | |
| `OneWriterHolds` | `DirectoryHasOneWriter` | |
| `ReadyHasFilesHolds` | `ReadyHasFiles` | object storage, no I/O faults |
| `BarrierCarriedHolds` | `BarrierCarried` | readable routing |
| `DownloadNotLostHolds` | `DownloadNotLost` | readable routing, models with files |
| `WriterOwnsParentHolds` | `WriterOwnsParent` | |
| `RemovedOnlyUnusedHolds` | `RemovedOnlyUnused` | |
| `TypeOKHolds` (`HfArtifactProofs`) | `TypeOK` of `HfArtifact` | |
| `ReferencesMatchHolds` | `ReferencesMatch` | |
| `ReadyIsCompleteHolds` | `ReadyIsComplete` | no foreign user of a path |
| `KeepsPromiseHolds` | `HfArtifact` implements `SharedArtifact` | no foreign user of a path |
| `ReadyLabelIsServedHolds` | `ReadyLabelIsServed` | the same, one process |
| `NoResurrectionHolds` | `NoResurrection` | |
| `TypeOKHolds` (`ConfigMapCacheProofs`) | `TypeOK` of `ConfigMapCache` | |
| `OwnershipKeptHolds` | `OwnershipKept` | |
| `RestoredNotReadyHolds` | `RestoredNotReady` | no name of a model is used again, no delete looks while a record is lost |

Most restrictions exclude what is false otherwise. With unreadable routing
barriers are lost (`gopher_unrouted`), and with a foreign user of a path a Ready
parent can be incomplete (`hf_shared`). A legacy delete, of a model without files,
prunes the queued tasks of its model without regard to their order. A status
write that fails leaves Ready over erased files, and the files of hub models are
erased under rules whose outcome `Gopher` only chooses (`EraseLinked`). With two processes, tasks of one model may run side by side, and
the argument for `ReadyLabelIsServed` does not apply; `hf_safe` checks that case
without faults.

### Gopher

**Types** (`GopherProofs`). `TypeOK` is not inductive: an action that reads
`tasks[cur[p]]` needs to know that `cur[p]` is a task. `TypeInv` adds that a
goroutine beyond the idle places has a task, that one in `enqueueTask` has a task
to enqueue, and that a worker past admission has an attempt. There is one lemma
per helper that several actions use and one step per action.

**Exclusion and order** (`GopherProofs`). Nothing in `ExclusiveAttempts` relates
workers to the tracker; `Ownership` does. A worker with a download attempt *is*
the `download` of its model's record and its task is the newest admitted one; a
worker with a delete attempt *is* the `deleteAttempt`, its task is the barrier,
and the record has no download. Two attempts of a model would be the same entry
of one record. `Order` adds that a barrier is later than everything its model
admitted or finished, and that the last publisher is not later than what the
record has admitted, finished or put in charge. So whoever publishes is the
owner, and an owner's number exceeds what was published before. `OrderInv` is
the conjunction of the three. The steps rest on two lemmas: task objects keep
model, type and kind and stay shared once they are (`Stable`), and a step of one
goroutine keeps the slots of the others.

**Directories** (`GopherDirectoryProofs`). `Held` says that a worker at the place
where files are rewritten has the path lock. Only the holder of a path lock takes
a step that changes its files, which gives the action property. For
`ReadyHasFiles` the invariant `FilesInv` adds what happens between a removal and
the withdrawal of the status: a worker that has erased the files of a directory
is a delete on its way to `Unpublish`, and a download about to publish has its
files as long as its model is protected. A delete erases only a directory that
protects no other model; since a resource goes only from live to deleting to gone
and a task stays shared, who is protected now was so before. `Gentle` is the lemma's summary of a step: which files it may empty and
which status it may set to Ready.

**Delivery** (`GopherDeliveryProofs`). `BarrierCarried` and `DownloadNotLost` say
where a task can be; a task is handed on many times. `Underway(s)` is the waiting
side: in a list, on a timer, being enqueued, or popped and not yet admitted.
`Delivery` types the queue's lists and says when a goroutine has a task to
enqueue and when a worker keeps a barrier. `Leaves(s)` lists the few steps in
which a task stops being underway, and a lemma shows that there are no others.
`Fences` says that a barrier, and the fence of a finished delete, is the number of
a coordinated delete of that very model. `Borne` then says that every barrier is
underway or in the hands of a worker that will lift or keep it, and `NotLost` that
every download still wanted is underway, behind an admitted one, or behind a later
delete. The lemmas on the queue state what pushing, popping and pruning keep in a
list (`removeSupersededTasks` is defined by the rank of the surviving elements,
not by recursion, for that reason).

### Shared artifacts

**Who may change the files** (`HfArtifactProofs`). `Exclusive` is the inductive
form of `WriterOwnsParent`: a worker between taking and leaving the file lock has
it, at the places that change files its lock ID is the parent's, and elsewhere it
has no ID. A step of another worker changes the parent only if the file lock is
free or its own (`Apart`); a release that is repeated later is fenced by its ID.
`Removal` adds what a worker that removes the directory has seen under the lock:
no link, no reference, no intent. None can appear before it is done, since
admission, too, needs the lock. This gives `RemovedOnlyUnused` as an action
property. `Typed` is the inductive form of `TypeOK`; it needs that a busy worker
has a model, that a lock is released to a status that a later repetition may
write, and that only entries that exist are referenced.

**Ready means complete** (`HfArtifactReadyProofs`). `Whole` follows lock IDs: the
marker names the owner that completed the files. A new owner takes an unused ID,
so the marker of an earlier one never vouches for it; it completes the files
before it writes its own marker; the ID of a deletion is never in a marker. The
delicate case is a deletion that stopped half way and is resumed: its receipt says
that the parent was Ready, which is not true any more. The parent may only be
given back if somebody needs it, and as long as the deletion has the lock nobody
can have come to need it (`Spared`). A foreign user is what breaks this.

**References** (`HfArtifactReferenceProofs`). `Matched` says of a worker, by its
place, what it relies on: a model without a receipt when it is admitted, the link
when the reference is added, no reference when the link is removed. The file lock
keeps the others from changing that meanwhile, and `Tame` is what they may do
without it.

**The promise** (`HfArtifactPromiseProofs`). A step changes the directory, the
links, or neither. Only an owner changes the directory, so the parent is not
Ready then (`Exclusive`), and only a removal that saw no users empties it
(`Removal`). A link is made to a parent that is Ready, and a status becomes Ready
only over complete files (`Whole`). So each step is a step of `SharedArtifact`, or
a stutter. For `ReadyLabelIsServed` the invariant `Served` joins `Whole`, `Removal`
and `Matched` with `Labelled`: nobody links to a directory that is reset, a repair
has taken Ready from all labels before it touches the marker and the files, and
whoever sets a label to Ready has the lock of a parent with complete files. It
needs that the tasks of a model run one at a time, as they do in one process.

### ConfigMap cache

`NoResurrection` is not inductive: an entry comes back from the cache, and the
cache is filled by a call that began earlier. `Traced` adds that a cached model,
and one whose write is about to be cached, has an entry that some task wrote and
nobody removed, and that a deletion evicts its model before it removes the entry.
`OwnershipKept` needs `Tidy`: all variables have their types, only present records
have a shared part, and an entry that is owed and was lost is in the cache, with
its shared part, and may be restored from there. The lemmas on `Restore` say that
it adds nothing that the cache does not hold and drops nothing that is owed.

`RestoredNotReady` speaks of the stored records and needs what the cache knows.
`Sober` says that every entry with a reference is vouched for: nobody is deleting
its model, and as long as the agent has a parent to restore, the cache has the
model's record to restore with it (`Vouched`). So when the parent is lost and comes
back as Failed, the same restoration finds every child that refers to it and fails
it, too. `Orderly` is the part of `Sober` that concerns the cache of one model, so
that a step has to be examined only for the model that it changes.

Names that are used again have to be excluded. With one reused name and two faults
TLC finds this: the answer to a write is lost, so the cached owner is the old
resource while its replacement has attached; the refused deletion of the old
resource evicts the model; then a sibling's record is lost, and the parent comes
back as Failed while the evicted model stays Ready until it is reconciled. One
fault, as in the run `cache`, is not enough for that.

`DeletesMiss` has to be excluded for a similar reason. A delete task looks for the
records of its model first, and comes to `DeleteModelFromConfigMap` without having
released a reference if it looked while the entry was lost (`missed`). It evicts
the model from the cache, and the write then refuses to remove the restored entry.
TLC finds that when another record is lost after that, the parent comes back as
Failed while the evicted model stays Ready. The run `cache` has `DeletesMiss`,
within its one fault.

### Only model-checked

- `EveryTaskSettles`, `DeletesFinish`, `NothingIsLeft`, `DownloadsSettle`:
  liveness under fairness is outside the prover.
- `ReconciliationHeals`: it holds for the one fault of the run, but not for every
  number of faults. If the parent's record is lost, a task that asks for the lock
  may create a new one, without children; an entry that is lost after that belongs
  to no parent, and nothing brings it back. An invariant for exactly one fault
  would follow the run's states, not the code.
- `RestoredNotReady` for names that are used again, and for deletes that look while
  a record is lost, within the one fault of the run.
- What `SourceShared` and `RemoveShared` of `Gopher` choose is not proved to be
  what `HfArtifact` does.

## What is not modelled

- Inside the Gopher: transfer and validation of bytes, shape filters, metrics,
  parsing of configurations, the legacy child links of hub models (the outcome is
  chosen in `EraseLinked` and `EraseParentBusy`), verification limits, and a
  ModelPack task of a model that was routed to shared artifacts before, which runs
  without the directory lock (`isDirectFileTask`).
- Restart of the agent in `Gopher`: tasks live in memory, and a restarted agent
  gets them again from Scout. What a crash leaves on disk and in the ConfigMap is
  in `HfArtifact` and `ConfigMapCache`.
- In the shared artifact: identities, revisions and paths are checked by the code
  and are one of each here; bytes and checksums are left out; a model that moves
  from one artifact to another, or leaves shared storage for another path, is not
  modelled.
- In the cache: what the entries say beyond status and shared part (progress,
  configuration) is one value; conflicts of the compare-and-swap are retried by
  the code until it succeeds and appear as interleavings.
- A failed status write after an erasure leaves `Ready` without files; two
  models of a directory that are deleted directly and together both keep the
  files; an
  override that fails half way leaves a partial directory under the Ready status
  of another model. The model reaches these; they are listed as hazards without
  a property, because nothing in the repository promises otherwise.
- The parts that `PROJECT.json` lists as `not_modelled`, each with its reason.
