---------------------- MODULE GopherDirectoryProofs ----------------------
(***************************************************************************)
(* The directories.  While a worker writes or removes the files of a       *)
(* directory nobody else does, and a model of object storage that is Ready *)
(* has its files.                                                          *)
(***************************************************************************)
EXTENDS GopherProofs
-----------------------------------------------------------------------------
(***************************************************************************)
(* What every step keeps: the task objects, and the other goroutines.      *)
(***************************************************************************)
\* At admission a task object stays what it is.
LEMMA BeginStable ==
  ASSUME TypeInv, Ownership, NEW p \in Workers, BeginTask(p)
  PROVE  Stable
<1>0. pc[p] \in {"begin", "deleteWait"}
  BY Zenon
  DEF BeginTask, BeginUnrouted, BeginReplaced, BeginLegacyDelete,
      BeginLegacyDownload, BeginDeleteProceed, BeginDeleteStale,
      BeginDeleteWait, BeginDeleteWaits, BeginDownloadProceed,
      BeginDownloadStale, BeginDownloadWait, Deleting, Downloading, Admitting
<1>1. /\ p \in Procs /\ cur[p] # 0 /\ cur[p] \in DOMAIN tasks
      /\ TaskOf(p) \in Task
  BY <1>0, BeginnerHasTask, Zenon
<1>2. CASE BeginDownloadWait(p)
  <2> DEFINE t == [RoutedTask(p) EXCEPT !.waited = TRUE]
  <2>1. RoutedTask(p) \in Task /\ Like(RoutedTask(p), tasks[cur[p]])
    BY Zenon, <1>1, RoutingTyped, RoutingLike DEF RoutedTask, TaskOf
  <2>2. t \in Task /\ Like(t, tasks[cur[p]])
    BY Zenon, <2>1 DEF Task, Like
  <2>3. tasks' = [tasks EXCEPT ![cur[p]] = t]
    BY <1>2, Zenon DEF BeginDownloadWait
  <2> QED BY Zenon, <1>1, <2>2, <2>3, UpdateStable
<1>3. CASE ~ BeginDownloadWait(p)
  <2>1. Route(p) \/ RequeueWithinBudget(cur[p]) \/ UNCHANGED tasks
    BY Zenon, <1>3
    DEF BeginTask, BeginUnrouted, BeginReplaced, BeginLegacyDelete,
        BeginLegacyDownload, BeginDeleteProceed, BeginDeleteStale,
        BeginDeleteWait, BeginDeleteWaits, BeginDownloadProceed,
        BeginDownloadStale, requeueTaskOnWait
  <2> QED BY Zenon, <1>1, <2>1, RouteStable, RequeueStable
<1> QED BY <1>2, <1>3, Zenon

\* A worker with an attempt changes a task object only to wait, or to hand a
\* download or a cleanup to the queue.
LEMMA WorkStable ==
  ASSUME TypeInv, Ownership, NEW p \in Workers,
         DownloadStep(p) \/ DeleteStep(p) \/ ReleaseFileLocks(p) \/ Finish(p)
  PROVE  Stable
<1>0. pc[p] \notin Unadmitted
  BY Zenon
  DEF DownloadStep, CheckBeforeDownload, CheckAfterDownload, StaleDownload,
      LockPath, LockPathBusy, LockFails, MarkUpdating, markModelOnNodeFailed,
      finishDownloadStatus, SourcePlain, SharedSource, SourceShared,
      SourceSharedRetry, SourceSharedDemote, SourceDirect, HoldPath, PathBusy,
      DirectBusy, DirectReuse, DirectWait, MayTransfer, DirectDemote,
      DirectStart, DirectFinish, DeleteStep, AdmittedDelete, RemoveOrdinary,
      RemoveShared, EraseBusy, RemoveSharedRetry, Erase, EraseLinked,
      EraseParentBusy, EraseFails, Unpublish, ReleaseFileLocks, Finish,
      Unadmitted
<1>1. /\ p \in Procs /\ cur[p] # 0 /\ cur[p] \in DOMAIN tasks
      /\ TaskOf(p) \in Task
  BY <1>0, WorkerHasTask, Zenon
<1>2. CleanupTask(TaskOf(p)) \in Task
  BY Zenon, <1>1 DEF CleanupTask, Task
<1>3. CASE CleanupDeletingModel(p)
  BY Zenon, <1>1, <1>2, <1>3, EnqueueStable, AppendStable
  DEF CleanupDeletingModel
<1>4. CASE Demote(p)
  <2> DEFINE t == [TaskOf(p) EXCEPT !.normalOnly = TRUE]
  <2>1. t \in Task /\ Like(t, tasks[cur[p]])
    BY Zenon, <1>1 DEF Task, Like, TaskOf
  <2>2. EnqueueAgain(p, cur[p], t)
    BY <1>4, Zenon DEF Demote
  <2> QED BY <1>1, <2>1, <2>2, EnqueueStable, Zenon
<1>5. CASE ~ CleanupDeletingModel(p) /\ ~ Demote(p)
  <2>1. CASE DownloadStep(p)
    BY Zenon, <1>1, <1>5, <2>1, RequeueStable
    DEF DownloadStep, CheckBeforeDownload, CheckAfterDownload, StaleDownload,
        LockPath, LockPathBusy, LockFails, MarkUpdating,
        markModelOnNodeFailed, finishDownloadStatus, SourcePlain,
        SourceShared, SourceSharedRetry, SourceSharedDemote, SourceDirect,
        PathBusy, DirectBusy, DirectReuse, DirectWait, DirectDemote,
        DirectStart, DirectFinish, requeueTaskOnWait
  <2>2. CASE DeleteStep(p)
    BY Zenon, <1>1, <2>2, RequeueStable
    DEF DeleteStep, AdmittedDelete, RemoveOrdinary, RemoveShared, EraseBusy,
        PathBusy, RemoveSharedRetry, Erase, EraseLinked, EraseParentBusy,
        EraseFails, Unpublish, requeueTaskOnWait
  <2>3. CASE ReleaseFileLocks(p) \/ Finish(p)
    BY Zenon, <1>1, <2>3, RequeueStable DEF ReleaseFileLocks, Finish
  <2> QED BY <2>1, <2>2, <2>3, Zenon
<1> QED BY <1>3, <1>4, <1>5, Zenon

\* Every step keeps what is stable about the task objects.
LEMMA NextStable ==
  ASSUME OrderInv, [Next]_vars
  PROVE  Stable
<1> USE DEF OrderInv
<1>1. ASSUME UNCHANGED tasks PROVE Stable
  BY <1>1, Zenon DEF Stable, Like
<1>2. ASSUME NEW p \in Procs, EnqueueStep(p)
      PROVE  Stable
  <2>1. CASE EnqueueDownload(p)
    <3> DEFINE s == enq[p]
               t == tasks[s]
    <3>1. s \in DOMAIN tasks /\ t \in Task
      BY Zenon, <2>1, EnqueuerHasTask DEF EnqueueDownload, EnqueueLabels
    <3>2. classifyStartupRevalidation(t) \in Task
          /\ Like(classifyStartupRevalidation(t), t)
      <4> HIDE DEF t
      <4> QED BY <3>1, ZenonT(30) DEF classifyStartupRevalidation, Task, Like
    <3>3. tasks' = [tasks EXCEPT ![s] = classifyStartupRevalidation(t)]
      BY <2>1, Zenon DEF EnqueueDownload
    <3> QED BY Zenon, <3>1, <3>2, <3>3, UpdateStable
  <2>2. CASE ~ EnqueueDownload(p)
    BY Zenon, <1>1, <1>2, <2>2
    DEF EnqueueStep, EnqueueLegacyDelete, EnqueueDeleteStale,
        EnqueueDeleteReserve, EnqueueDeleteReserved, EnqueuePush
  <2> QED BY <2>1, <2>2, Zenon
<1>3. ASSUME NEW s, Taken(s) PROVE Stable
  BY Zenon, <1>1, <1>3 DEF Taken, PopNormal, PopHighPriority, Take
<1>4. ASSUME NEW p \in Workers, WorkerStep(p) PROVE Stable
  BY <1>4, BeginStable, WorkStable, Zenon DEF WorkerStep
<1>5. Dispatcher \in Procs
  BY GopherAssumption, Zenon
<1>6. ASSUME NEW m \in Models, NEW in \in Inputs, DispatchInput(m, in)
      PROVE  Stable
  <2>1. NewTask(in, m) \in Task /\ EnqueueNew(Dispatcher, NewTask(in, m))
    BY Zenon, <1>6, GopherAssumption DEF DispatchInput, NewTask, Task
  <2> QED BY <1>5, <2>1, EnqueueStable, Zenon
<1>7. ASSUME NEW s \in timers, DispatchRequeued(s)
      PROVE  Stable
  <2>1. s \in DOMAIN tasks /\ tasks[s] \in Task /\ Like(tasks[s], tasks[s])
    BY Zenon, NamedTask DEF TypeInv, TypeOK, Like
  <2> QED BY Zenon, <1>5, <1>7, <2>1, EnqueueStable DEF DispatchRequeued
<1>8. ASSUME \/ \E m \in Models : ResourceChange(m)
             \/ Stop
             \/ \E p \in Procs : Exit(p)
             \/ UNCHANGED vars
      PROVE  Stable
  BY <1>1, <1>8, Zenon DEF ResourceChange, Stop, Exit, vars
<1> QED BY <1>2, <1>3, <1>4, <1>6, <1>7, <1>8, Zenon DEF Next
-----------------------------------------------------------------------------
(***************************************************************************)
(* Directories.  A worker changes the lock of a directory only if it is    *)
(* free or its own, and the files of a directory only under the lock; it   *)
(* takes the lock as it starts to write.                                   *)
(***************************************************************************)
\* A step of p changes this variable only at p.
Own(f, g, p) == g = f \/ \E x : g = [f EXCEPT ![p] = x]

\* What the goroutines other than p see of themselves.
Alone(p) ==
  /\ Own(pc, pc', p) /\ Own(cur, cur', p) /\ Own(enq, enq', p)
  /\ Own(attempt, attempt', p) /\ Own(keep, keep', p)

LEMMA AloneKeeps ==
  ASSUME TypeInv, NEW p, Alone(p)
  PROVE  \A q \in Procs \ {p} :
           /\ pc'[q] = pc[q] /\ cur'[q] = cur[q] /\ enq'[q] = enq[q]
           /\ attempt'[q] = attempt[q] /\ keep'[q] = keep[q]
<1>1. \A q \in Procs \ {p} : pc'[q] = pc[q]
  BY Zenon DEF Alone, Own, TypeInv, TypeOK
<1>2. \A q \in Procs \ {p} : cur'[q] = cur[q] /\ enq'[q] = enq[q]
  BY Zenon DEF Alone, Own, TypeInv, TypeOK
<1>3. \A q \in Procs \ {p} : attempt'[q] = attempt[q] /\ keep'[q] = keep[q]
  BY ZenonT(30) DEF Alone, Own, TypeInv, TypeOK
<1> QED BY <1>1, <1>2, <1>3, Zenon

\* A worker moves only itself.
LEMMA WorkerAlone ==
  ASSUME NEW p \in Workers, WorkerStep(p)
  PROVE  Alone(p)
<1> USE DEF workVars, enqVars, Goto, Return, Alone, Own
<1>1. CASE BeginTask(p)
  BY Zenon, <1>1
  DEF BeginTask, BeginUnrouted, BeginReplaced, BeginLegacyDelete,
      BeginLegacyDownload, BeginDeleteProceed, BeginDeleteStale,
      BeginDeleteWait, BeginDeleteWaits, BeginDownloadProceed,
      BeginDownloadStale, BeginDownloadWait, Begins
<1>2. CASE DownloadStep(p)
  BY Zenon, <1>2
  DEF DownloadStep, CheckBeforeDownload, CheckAfterDownload, StaleDownload,
      CleanupDeletingModel, EnqueueNew, LockPath, LockPathBusy, LockFails,
      MarkUpdating, markModelOnNodeFailed, finishDownloadStatus,
      SourcePlain, SourceShared, SourceSharedRetry, SourceSharedDemote,
      SourceDirect, PathBusy, DirectBusy, DirectReuse, DirectWait,
      DirectDemote, Demote, EnqueueAgain, DirectStart, DirectFinish
<1>3. CASE DeleteStep(p) \/ ReleaseFileLocks(p) \/ Finish(p)
  BY Zenon, <1>3
  DEF DeleteStep, AdmittedDelete, RemoveOrdinary, RemoveShared, EraseBusy,
      PathBusy, RemoveSharedRetry, Erase, EraseLinked, EraseParentBusy,
      EraseFails, Unpublish, ReleaseFileLocks, Finish
<1> QED BY <1>1, <1>2, <1>3, Zenon DEF WorkerStep

\* What a step of p does to the directories.
InLock(p) ==
  /\ \A d \in Paths : pathLock'[d] # pathLock[d] => pathLock[d] \in {None, p}
  /\ \A d \in Paths : files'[d] # files[d] =>
       d = PathAt(p) /\ (pathLock[d] \in {None, p} \/ pc[p] = "write")
  /\ pc'[p] = "write" =>
       /\ pc[p] \notin Unadmitted \cup {"write"}
       /\ pathLock'[PathAt(p)] = p
       /\ UNCHANGED cur

\* Only p's lock and only p's files.
LEMMA InLockBy ==
  ASSUME TypeInv, NEW p \in Workers, pc[p] \notin Unadmitted,
         \/ UNCHANGED pathLock
         \/ FreeFor(p) /\ \E x : pathLock' = [pathLock EXCEPT ![PathAt(p)] = x]
         \/ pathLock' = [d \in Paths |-> IF pathLock[d] = p THEN None
                                         ELSE pathLock[d]],
         \/ UNCHANGED files
         \/ /\ FreeFor(p) \/ pc[p] = "write"
            /\ \E x : files' = [files EXCEPT ![PathAt(p)] = x],
         pc'[p] = "write" =>
           pc[p] # "write" /\ pathLock'[PathAt(p)] = p /\ UNCHANGED cur
  PROVE  InLock(p)
<1>1. PathAt(p) \in Paths
  BY WorkerHasTask, Zenon
<1>2. \A d \in Paths : pathLock'[d] # pathLock[d] => pathLock[d] \in {None, p}
  BY <1>1, ZenonT(30) DEF FreeFor, TypeInv, TypeOK
<1>3. \A d \in Paths : files'[d] # files[d] =>
        d = PathAt(p) /\ (pathLock[d] \in {None, p} \/ pc[p] = "write")
  BY <1>1, Zenon DEF FreeFor, TypeInv, TypeOK
<1> QED BY <1>2, <1>3, Zenon DEF InLock

\* A step that keeps the directories, and does not start to write.
LEMMA InLockQuietly ==
  ASSUME UNCHANGED nodeVars, NEW p, pc'[p] # "write"
  PROVE  InLock(p)
  BY Zenon DEF InLock, nodeVars

\* Where a worker goes that moves.
LEMMA GoesTo ==
  ASSUME TypeInv, NEW p \in Workers, NEW l, Goto(p, l)
  PROVE  pc'[p] = l
<1>1. p \in Procs
  BY GopherAssumption, Zenon DEF Workers
<1> QED BY <1>1, Zenon DEF Goto, TypeInv, TypeOK

\* A download works in the lock of its directory.
LEMMA DownloadInLock ==
  ASSUME TypeInv, NEW p \in Workers, DownloadStep(p)
  PROVE  InLock(p)
<1> USE DEF nodeVars
<1>1. CASE \/ CheckBeforeDownload(p) \/ CheckAfterDownload(p)
           \/ LockPathBusy(p) \/ LockFails(p) \/ DirectBusy(p)
  <2>1. \E l \in {"reserve", "begin", "unlock", "lock", "publish"} : Goto(p, l)
    BY Zenon, <1>1
    DEF CheckBeforeDownload, CheckAfterDownload, StaleDownload,
        CleanupDeletingModel, EnqueueNew, LockPathBusy, LockFails, PathBusy,
        DirectBusy
  <2>2. UNCHANGED nodeVars
    BY Zenon, <1>1
    DEF CheckBeforeDownload, CheckAfterDownload, StaleDownload,
        LockPathBusy, LockFails, PathBusy, DirectBusy
  <2> QED BY <2>1, <2>2, GoesTo, InLockQuietly, Zenon
<1>2. CASE \/ MarkUpdating(p) \/ markModelOnNodeFailed(p)
           \/ finishDownloadStatus(p) \/ SourcePlain(p)
           \/ SourceSharedRetry(p) \/ SourceSharedDemote(p) \/ SourceDirect(p)
  <2>1. \E l \in {"unlock", "source", "recheck", "failed", "reserve", "direct"} :
          Goto(p, l)
    BY Zenon, <1>2
    DEF MarkUpdating, markModelOnNodeFailed, finishDownloadStatus, SourcePlain,
        SourceSharedRetry, SourceSharedDemote, Demote, EnqueueAgain,
        SourceDirect
  <2>2. UNCHANGED nodeVars
    BY Zenon, <1>2
    DEF MarkUpdating, markModelOnNodeFailed, finishDownloadStatus, SourcePlain,
        SourceSharedRetry, SourceSharedDemote, Demote, SourceDirect
  <2> QED BY <2>1, <2>2, GoesTo, InLockQuietly, Zenon
<1>3. CASE \/ LockPath(p) \/ SourceShared(p) \/ DirectReuse(p)
           \/ DirectWait(p) \/ DirectDemote(p) \/ DirectFinish(p)
  <2>1. pc[p] \notin Unadmitted
    BY Zenon, <1>3
    DEF LockPath, SourceShared, SharedSource, DirectReuse, DirectWait,
        HoldPath, DirectDemote, MayTransfer, DirectFinish, Unadmitted
  <2>2. \E l \in Labels \ {"write"} : Goto(p, l)
    <3>1. \E l \in {"unlock", "remove", "updating", "recheck", "failed",
                    "direct", "reserve"} : Goto(p, l)
      BY Zenon, <1>3
      DEF LockPath, FirstStep, SourceShared, DirectReuse, DirectWait,
          DirectDemote, Demote, EnqueueAgain, DirectFinish
    <3> QED BY <3>1, Zenon DEF Labels
  <2>3. \/ UNCHANGED pathLock
        \/ FreeFor(p) /\ \E x : pathLock' = [pathLock EXCEPT ![PathAt(p)] = x]
    BY Zenon, <1>3
    DEF LockPath, SourceShared, DirectReuse, DirectWait, DirectDemote,
        MayTransfer, HoldPath, DirectFinish
  <2>4. \/ UNCHANGED files
        \/ /\ FreeFor(p) \/ pc[p] = "write"
           /\ \E x : files' = [files EXCEPT ![PathAt(p)] = x]
    BY Zenon, <1>3
    DEF LockPath, SourceShared, DirectReuse, DirectWait, DirectDemote, Demote,
        DirectFinish
  <2>5. pc'[p] # "write"
    BY <2>2, GoesTo, Zenon
  <2> QED BY <2>1, <2>3, <2>4, <2>5, InLockBy, Zenon
<1>4. CASE DirectStart(p)
  <2>1. /\ pc[p] = "direct" /\ FreeFor(p) /\ UNCHANGED cur
        /\ pathLock' = [pathLock EXCEPT ![PathAt(p)] = p]
        /\ \E x : files' = [files EXCEPT ![PathAt(p)] = x]
    BY Zenon, <1>4 DEF DirectStart, MayTransfer, HoldPath, workVars
  <2>2. pc[p] \notin Unadmitted /\ pc[p] # "write"
    BY <2>1, Zenon DEF Unadmitted
  <2>3. pathLock'[PathAt(p)] = p
    BY <2>1, <2>2, WorkerHasTask, Zenon DEF TypeInv, TypeOK
  <2> QED BY <2>1, <2>2, <2>3, InLockBy, Zenon
<1> QED BY <1>1, <1>2, <1>3, <1>4, Zenon DEF DownloadStep

\* So does a delete, and the end of an attempt lets the lock go.
LEMMA DeleteInLock ==
  ASSUME TypeInv, NEW p \in Workers, DeleteStep(p) \/ ReleaseFileLocks(p)
  PROVE  InLock(p)
<1>1. pc[p] \notin Unadmitted
  BY Zenon
  DEF DeleteStep, AdmittedDelete, RemoveOrdinary, RemoveShared, EraseBusy,
      PathBusy, RemoveSharedRetry, Erase, EraseLinked, EraseParentBusy,
      EraseFails, Unpublish, ReleaseFileLocks, Unadmitted
<1>2. \E l \in {"lock", "erase", "unpublish", "unlock", "finish"} : Goto(p, l)
  BY Zenon
  DEF DeleteStep, AdmittedDelete, RemoveOrdinary, RemoveShared, EraseBusy,
      PathBusy, RemoveSharedRetry, Erase, EraseLinked, EraseParentBusy,
      EraseFails, Unpublish, ReleaseFileLocks
<1>3. \/ UNCHANGED pathLock
      \/ FreeFor(p) /\ \E x : pathLock' = [pathLock EXCEPT ![PathAt(p)] = x]
      \/ pathLock' = [d \in Paths |-> IF pathLock[d] = p THEN None
                                      ELSE pathLock[d]]
  BY Zenon
  DEF DeleteStep, AdmittedDelete, RemoveOrdinary, RemoveShared, EraseBusy,
      PathBusy, RemoveSharedRetry, Erase, EraseLinked, EraseParentBusy,
      EraseFails, Unpublish, ReleaseFileLocks, nodeVars
<1>4. \/ UNCHANGED files
      \/ FreeFor(p) /\ \E x : files' = [files EXCEPT ![PathAt(p)] = x]
  BY Zenon
  DEF DeleteStep, AdmittedDelete, RemoveOrdinary, RemoveShared, EraseBusy,
      PathBusy, RemoveSharedRetry, Erase, EraseLinked, EraseParentBusy,
      EraseFails, Unpublish, ReleaseFileLocks, nodeVars
<1>5. pc'[p] # "write"
  BY <1>2, GoesTo, Zenon
<1> QED BY <1>1, <1>3, <1>4, <1>5, InLockBy, Zenon

\* Admission and the end of a task leave the directories alone.
LEMMA AdmissionInLock ==
  ASSUME TypeInv, NEW p \in Workers, BeginTask(p) \/ Finish(p)
  PROVE  InLock(p)
<1>1. UNCHANGED nodeVars
  BY Zenon
  DEF BeginTask, BeginUnrouted, BeginReplaced, BeginLegacyDelete,
      BeginLegacyDownload, BeginDeleteProceed, BeginDeleteStale,
      BeginDeleteWait, BeginDeleteWaits, BeginDownloadProceed,
      BeginDownloadStale, BeginDownloadWait, Begins, Finish
<1>2. Return(p) \/ \E l \in {"admitted", "deleteWait"} : Goto(p, l)
  BY Zenon
  DEF BeginTask, BeginUnrouted, BeginReplaced, BeginLegacyDelete,
      BeginLegacyDownload, BeginDeleteProceed, BeginDeleteStale,
      BeginDeleteWait, BeginDeleteWaits, BeginDownloadProceed,
      BeginDownloadStale, BeginDownloadWait, Begins, Finish
<1>3. pc'[p] # "write"
  BY <1>2, GoesTo, ReturnFacts, Zenon DEF DownloadLabels
<1> QED BY <1>1, <1>3, InLockQuietly, Zenon

\* A worker that rewrites a directory holds its lock.
Held == \A q \in Workers : pc[q] = "write" => pathLock[PathAt(q)] = q

\* What DirectoryHasOneWriter says of one step.
OneWriter ==
  \A d \in Paths : files'[d] # files[d] =>
    \A q \in Workers : pc[q] = "write" /\ PathAt(q) = d => pc'[q] # "write"

\* Every step keeps the lock of a writer, and only the writer writes.
LEMMA HeldStep == OrderInv /\ Held /\ [Next]_vars => Held' /\ OneWriter
<1> SUFFICES ASSUME OrderInv, Held, [Next]_vars PROVE Held' /\ OneWriter
  BY Zenon
<1> USE DEF OrderInv
<1>1. Stable
  BY NextStable, Zenon
<1>2. ASSUME NEW q \in Workers, pc[q] = "write"
      PROVE  /\ q # None /\ q \in Procs /\ pathLock[PathAt(q)] = q
             /\ PathAt(q) \in Paths /\ cur[q] \in DOMAIN tasks
  BY <1>2, WorkerHasTask, NoneAssumption, Zenon DEF Held, Unadmitted
<1>3. ASSUME NEW q \in Workers, cur[q] \in DOMAIN tasks, cur'[q] = cur[q]
      PROVE  PathAt(q)' = PathAt(q)
  BY <1>1, <1>3, Zenon DEF PathAt, ModelOf, TaskOf, Stable, Like
<1>4. ASSUME NEW p \in Workers, WorkerStep(p)
      PROVE  Held' /\ OneWriter
  <2>1. InLock(p)
    BY <1>4, DownloadInLock, DeleteInLock, AdmissionInLock, Zenon DEF WorkerStep
  <2>2. \A q \in Workers \ {p} : pc'[q] = pc[q] /\ cur'[q] = cur[q]
    BY <1>4, WorkerAlone, AloneKeeps, GopherAssumption, Zenon DEF Workers
  <2>3. ASSUME NEW q \in Workers, pc'[q] = "write"
        PROVE  pathLock'[PathAt(q)'] = q
    <3>1. CASE q = p
      <4>1. pathLock'[PathAt(p)] = p /\ UNCHANGED cur /\ pc[p] \notin Unadmitted
        BY <2>1, <2>3, <3>1, Zenon DEF InLock
      <4>2. cur[p] \in DOMAIN tasks
        BY <4>1, WorkerHasTask, Zenon
      <4> QED BY <1>3, <3>1, <4>1, <4>2, Zenon
    <3>2. CASE q # p
      <4>1. pc[q] = "write" /\ cur'[q] = cur[q]
        BY <2>2, <2>3, <3>2, Zenon
      <4>2. /\ pathLock[PathAt(q)] = q /\ q # None /\ PathAt(q) \in Paths
            /\ cur[q] \in DOMAIN tasks
        BY <1>2, <4>1, Zenon
      <4>3. pathLock'[PathAt(q)] = q
        BY <2>1, <3>2, <4>2, Zenon DEF InLock
      <4> QED BY <1>3, <4>1, <4>2, <4>3, Zenon
    <3> QED BY <3>1, <3>2, Zenon
  <2>4. OneWriter
    <3> SUFFICES ASSUME NEW q \in Workers, pc[q] = "write", pc'[q] = "write",
                        PathAt(q) \in Paths,
                        files'[PathAt(q)] # files[PathAt(q)]
                 PROVE  FALSE
      BY <1>2, Zenon DEF OneWriter
    <3>1. q # p
      BY <2>1, Zenon DEF InLock
    <3>2. pathLock[PathAt(q)] = q /\ q # None
      BY <1>2, Zenon
    <3>3. pc[p] = "write" /\ PathAt(p) = PathAt(q)
      BY <2>1, <3>1, <3>2, Zenon DEF InLock
    <3> QED BY <1>2, <3>1, <3>2, <3>3, Zenon
  <2> QED BY <2>3, <2>4, Zenon DEF Held
<1>5. ASSUME UNCHANGED nodeVars,
             \A q \in Workers : pc'[q] = "write" => pc[q] = "write" /\ cur'[q] = cur[q]
      PROVE  Held' /\ OneWriter
  <2>1. OneWriter
    BY <1>5, Zenon DEF OneWriter, nodeVars
  <2>2. ASSUME NEW q \in Workers, pc'[q] = "write"
        PROVE  pathLock'[PathAt(q)'] = q
    BY <1>2, <1>3, <1>5, <2>2, Zenon DEF nodeVars
  <2> QED BY <2>1, <2>2, Zenon DEF Held
<1>6. ASSUME NEW p \in Procs, NEW l \in {"idle", "exited", "unlock", "reserve", "reserved",
                                         "push"},
             Goto(p, l), UNCHANGED <<nodeVars, cur>>
      PROVE  Held' /\ OneWriter
  <2>1. \A q \in Workers : pc'[q] = "write" => pc[q] = "write"
    BY <1>6, GopherAssumption, Zenon DEF Goto, TypeInv, TypeOK, Workers
  <2> QED BY <1>5, <1>6, <2>1, Zenon
<1>7. ASSUME NEW p \in Procs, EnqueueStep(p)
      PROVE  Held' /\ OneWriter
  <2>1. UNCHANGED <<nodeVars, cur>>
    BY Zenon, <1>7
    DEF EnqueueStep, EnqueueDownload, EnqueueLegacyDelete, EnqueueDeleteStale,
        EnqueueDeleteReserve, EnqueueDeleteReserved, EnqueuePush, workVars
  <2>2. \E l \in {"idle", "exited", "unlock", "reserve", "reserved", "push"} :
          Goto(p, l)
    BY Zenon, <1>7
    DEF EnqueueStep, EnqueueDownload, EnqueueLegacyDelete, EnqueueDeleteStale,
        EnqueueDeleteReserve, EnqueueDeleteReserved, EnqueuePush, AfterEnqueue
  <2> QED BY <1>6, <2>1, <2>2, Zenon
<1>8. ASSUME NEW s, Taken(s)
      PROVE  Held' /\ OneWriter
  <2>1. PICK p \in Workers : Take(p, s)
    BY <1>8, Zenon DEF Taken, PopNormal, PopHighPriority
  <2>2. \A q \in Workers : pc'[q] = "write" => pc[q] = "write" /\ cur'[q] = cur[q]
    BY <2>1, GopherAssumption, Zenon DEF Take, Goto, TypeInv, TypeOK, Workers
  <2> QED BY <1>5, <2>1, <2>2, Zenon DEF Take
<1>9. CASE \/ \E m \in Models, in \in Inputs : DispatchInput(m, in)
           \/ \E s \in timers : DispatchRequeued(s)
           \/ \E p \in Procs : Exit(p)
  <2>1. UNCHANGED <<nodeVars, cur>>
    BY Zenon, <1>9 DEF DispatchInput, DispatchRequeued, Exit, workVars
  <2>2. \E p \in Procs, l \in {"reserve", "exited"} : Goto(p, l)
    BY Zenon, <1>9, GopherAssumption
    DEF DispatchInput, DispatchRequeued, EnqueueNew, EnqueueAgain, Exit
  <2> QED BY <1>6, <2>1, <2>2, Zenon
<1>10. CASE (\E m \in Models : ResourceChange(m)) \/ Stop \/ UNCHANGED vars
  <2>1. UNCHANGED <<nodeVars, cur, pc>>
    BY Zenon, <1>10 DEF ResourceChange, Stop, vars, workVars
  <2> QED BY <1>5, <2>1, Zenon
<1> QED BY <1>4, <1>7, <1>8, <1>9, <1>10, Zenon DEF Next

\* Every behaviour of Gopher keeps DirectoryHasOneWriter: nothing changes the
\* files of a directory that another attempt is rewriting.
THEOREM OneWriterHolds == Spec => DirectoryHasOneWriter
<1>1. Init => OrderInv /\ Held
  BY InitOrdered, GopherAssumption, Zenon DEF Init, Held, Workers
<1>2. OrderInv /\ Held /\ [Next]_vars => (OrderInv /\ Held)' /\ OneWriter
  BY OrderStep, HeldStep, Zenon
<1> QED BY <1>1, <1>2, PTL DEF Spec, DirectoryHasOneWriter, OneWriter
-----------------------------------------------------------------------------
(***************************************************************************)
(* Ready models have files, for models of object storage and a node that   *)
(* does not fail.  Only a delete of its own model, or of one that is the   *)
(* last to use the directory, empties a directory, and it withdraws the    *)
(* status next.                                                            *)
(***************************************************************************)
Kinds(K) == \A s \in DOMAIN tasks : tasks[s].kind \in K

\* Task objects are made for an input and for the cleanup of a deleting model.
LEMMA TasksGrow ==
  ASSUME OrderInv, [Next]_vars
  PROVE  \/ DOMAIN tasks' = DOMAIN tasks
         \/ \E m \in Models, in \in Inputs : DispatchInput(m, in)
         \/ \E p \in Workers : cur[p] \in DOMAIN tasks /\ CleanupDeletingModel(p)
<1> USE DEF OrderInv
<1>1. ASSUME NEW s, \/ RequeueWithinBudget(s)
                    \/ \E x : tasks' = [tasks EXCEPT ![s] = x]
                    \/ UNCHANGED tasks
      PROVE  DOMAIN tasks' = DOMAIN tasks
  BY <1>1, Zenon DEF RequeueWithinBudget
<1>2. ASSUME NEW p \in Workers, NEW label, NEW next, StaleDownload(p, label, next),
             label \notin Unadmitted
      PROVE  \/ DOMAIN tasks' = DOMAIN tasks
             \/ cur[p] \in DOMAIN tasks /\ CleanupDeletingModel(p)
  BY <1>1, <1>2, WorkerHasTask, Zenon DEF StaleDownload
<1>3. ASSUME NEW p \in Workers, DownloadStep(p)
      PROVE  \/ DOMAIN tasks' = DOMAIN tasks
             \/ cur[p] \in DOMAIN tasks /\ CleanupDeletingModel(p)
  <2>1. CASE CheckBeforeDownload(p) \/ CheckAfterDownload(p)
    BY <1>2, <2>1, Zenon DEF CheckBeforeDownload, CheckAfterDownload, Unadmitted
  <2>2. CASE ~ (CheckBeforeDownload(p) \/ CheckAfterDownload(p))
    BY Zenon, <1>1, <1>3, <2>2
    DEF DownloadStep, LockPath, LockPathBusy, LockFails, MarkUpdating,
        markModelOnNodeFailed, finishDownloadStatus, SourcePlain,
        SourceShared, SourceSharedRetry, SourceSharedDemote, SourceDirect,
        PathBusy, DirectBusy, DirectReuse, DirectWait, DirectDemote, Demote,
        EnqueueAgain, DirectStart, DirectFinish, requeueTaskOnWait
  <2> QED BY <2>1, <2>2, Zenon
<1>4. ASSUME NEW p \in Workers, WorkerStep(p), ~ DownloadStep(p)
      PROVE  DOMAIN tasks' = DOMAIN tasks
  <2>1. CASE BeginTask(p)
    BY Zenon, <1>1, <2>1
    DEF BeginTask, BeginUnrouted, BeginReplaced, BeginLegacyDelete,
        BeginLegacyDownload, BeginDeleteProceed, BeginDeleteStale,
        BeginDeleteWait, BeginDeleteWaits, BeginDownloadProceed,
        BeginDownloadStale, BeginDownloadWait, Route, requeueTaskOnWait
  <2>2. CASE DeleteStep(p)
    BY Zenon, <1>1, <2>2
    DEF DeleteStep, AdmittedDelete, RemoveOrdinary, RemoveShared, EraseBusy,
        PathBusy, RemoveSharedRetry, Erase, EraseLinked, EraseParentBusy,
        EraseFails, Unpublish, requeueTaskOnWait
  <2>3. CASE ReleaseFileLocks(p) \/ Finish(p)
    BY <1>1, <2>3, Zenon DEF ReleaseFileLocks, Finish
  <2> QED BY <1>4, <2>1, <2>2, <2>3, Zenon DEF WorkerStep
<1>5. ASSUME NEW p \in Procs, EnqueueStep(p)
      PROVE  DOMAIN tasks' = DOMAIN tasks
  BY Zenon, <1>1, <1>5
  DEF EnqueueStep, EnqueueDownload, EnqueueLegacyDelete, EnqueueDeleteStale,
      EnqueueDeleteReserve, EnqueueDeleteReserved, EnqueuePush
<1>6. CASE \/ \E s \in timers : DispatchRequeued(s)
           \/ \E s \in DOMAIN tasks : Taken(s)
  BY Zenon, <1>1, <1>6
  DEF DispatchRequeued, EnqueueAgain, Taken, PopNormal, PopHighPriority, Take
<1>7. CASE \/ \E m \in Models : ResourceChange(m)
           \/ Stop
           \/ \E p \in Procs : Exit(p)
           \/ UNCHANGED vars
  BY <1>1, <1>7, Zenon DEF ResourceChange, Stop, Exit, vars
<1> QED BY Zenon, <1>3, <1>4, <1>5, <1>6, <1>7 DEF Next

\* Every task object has the kind of some input.
LEMMA KindsStep ==
  ASSUME OrderInv, [Next]_vars, NEW K, \A in \in Inputs : in.kind \in K, Kinds(K)
  PROVE  Kinds(K)'
<1> USE DEF OrderInv
<1>1. Stable /\ tasks \in Seq(Task)
  BY NextStable, Zenon DEF TypeInv, TypeOK
<1>2. CASE DOMAIN tasks' = DOMAIN tasks
  BY <1>1, <1>2, Zenon DEF Stable, Like, Kinds
<1>3. ASSUME NEW t, t.kind \in K, tasks' = Append(tasks, t) PROVE Kinds(K)'
  <2>1. \A s \in DOMAIN tasks' : s \in DOMAIN tasks \/ tasks'[s] = t
    BY <1>1, <1>3
  <2> QED BY <1>1, <1>3, <2>1, Zenon DEF Stable, Like, Kinds
<1>4. ASSUME NEW p, NEW t \in Task, t.kind \in K, EnqueueNew(p, t)
      PROVE  Kinds(K)'
  <2>1. routeArtifactTask(t, children).kind = t.kind
    BY RoutingLike, Zenon DEF Like
  <2> QED BY <1>3, <1>4, <2>1, Zenon DEF EnqueueNew
<1>5. ASSUME NEW m \in Models, NEW in \in Inputs, DispatchInput(m, in)
      PROVE  Kinds(K)'
  <2>1. NewTask(in, m) \in Task /\ EnqueueNew(Dispatcher, NewTask(in, m))
    BY Zenon, <1>5, GopherAssumption DEF DispatchInput, NewTask, Task
  <2>2. NewTask(in, m).kind \in K
    BY Zenon DEF NewTask
  <2> QED BY <1>4, <2>1, <2>2, Zenon
<1>6. ASSUME NEW p \in Workers, cur[p] \in DOMAIN tasks, CleanupDeletingModel(p)
      PROVE  Kinds(K)'
  <2>1. TaskOf(p) \in Task
    BY <1>1, <1>6 DEF TaskOf
  <2>2. CleanupTask(TaskOf(p)) \in Task
    BY Zenon, <2>1 DEF CleanupTask, Task
  <2>3. CleanupTask(TaskOf(p)).kind \in K
    BY <1>6, <2>1, Zenon DEF CleanupTask, Task, Kinds, TaskOf
  <2> QED BY Zenon, <1>3, <1>4, <1>6, <2>2, <2>3 DEF CleanupDeletingModel
<1> QED BY Zenon, <1>2, <1>5, <1>6, TasksGrow

\* Inputs of object storage only.
ObjectStorage == \A in \in Inputs : in.kind \in {"object"}

\* The delete that empties the directory of m is about to withdraw its status.
Removing(m) ==
  \E p \in Workers : attempt[p] = "delete" /\ pc[p] = "unpublish" /\ ModelOf(p) = m

\* What a worker may rely on: the files of a download that is done are there
\* while its model is protected.
Manages(p) ==
  /\ attempt[p] \in {"none", "download", "delete"} /\ nested[p] = 0
  /\ pc[p] \in {"remove", "erase", "unpublish"} => TaskOf(p).type = "Delete"
  /\ pc[p] \in {"recheck", "publish"} =>
       \A m \in Models : m = ModelOf(p) /\ Protected(m) => files[PathOf[m]] # "absent"

ReadyKept ==
  \A m \in Models :
    status[m] = "Ready" /\ Protected(m) /\ ~ Removing(m)
      => files[PathOf[m]] # "absent"

FilesInv == Kinds({"object"}) /\ (\A p \in Workers : Manages(p)) /\ ReadyKept

\* A resource changes in one direction.
Ageing ==
  \A m \in Models :
    /\ cr'[m] = "live" => cr[m] = "live"
    /\ cr'[m] = "deleting" => cr[m] \in {"live", "deleting"}

\* So a model that is protected was so before.
LEMMA ProtectedBefore ==
  ASSUME Stable, Ageing, NEW m \in Models, Protected(m)'
  PROVE  Protected(m)
<1>1. SharedAt(m) => SharedAt(m)'
  BY Zenon DEF Stable, Like, SharedAt
<1>2. \/ cr'[m] = "live"
      \/ cr'[m] = "deleting" /\ (m \in Reserved \/ ~ SharedAt(m)')
  BY Zenon DEF Protected
<1> QED BY <1>1, <1>2, Zenon DEF Ageing, Protected

\* A step of p empties directory d, which protects no other model.
Erases(p, d) ==
  /\ d = PathAt(p)
  /\ \A m \in Models \ {ModelOf(p)} : PathOf[m] = d => ~ Protected(m)
  /\ pc[p] \in {"remove", "erase"} /\ pc'[p] = "unpublish"
  /\ UNCHANGED <<cur, attempt>>

\* What a step of p does to files and statuses.
Gentle(p) ==
  /\ UNCHANGED cr
  /\ \A d \in Paths : files'[d] = "absent" => files[d] = "absent" \/ Erases(p, d)
  /\ \A m \in Models : status'[m] = "Ready" =>
       status[m] = "Ready" \/ (pc[p] = "publish" /\ m = ModelOf(p))
  /\ pc[p] = "unpublish" => status'[ModelOf(p)] # "Ready"
  /\ pc'[p] \in {"recheck", "publish"} =>
       /\ UNCHANGED cur /\ pc[p] \notin Unadmitted
       /\ pc[p] = "recheck" \/ files'[PathAt(p)] # "absent"
  /\ pc'[p] \in {"remove", "erase", "unpublish"} =>
       UNCHANGED cur /\ pc[p] \notin Unadmitted /\ TaskOf(p).type = "Delete"
  /\ attempt'[p] \in {"none", "download", "delete"}
  /\ Own(nested, nested', p) /\ nested'[p] = 0

\* Such a step keeps the files of what is Ready.
LEMMA GentleStep ==
  ASSUME OrderInv, FilesInv, OrderInv', Kinds({"object"})', Stable,
         NEW p \in Workers, Gentle(p), Alone(p)
  PROVE  FilesInv'
<1> USE DEF OrderInv
<1>0. \A m \in Models : Protected(m)' => Protected(m)
  BY ProtectedBefore, Zenon DEF Gentle, Ageing
<1>1. \A q \in Workers \ {p} :
        /\ pc'[q] = pc[q] /\ cur'[q] = cur[q]
        /\ attempt'[q] = attempt[q] /\ nested'[q] = nested[q]
  <2>1. \A q \in Workers \ {p} : q \in Procs \ {p}
    BY GopherAssumption, Zenon DEF Workers
  <2>2. \A q \in Workers \ {p} : nested'[q] = nested[q]
    <3>1. DOMAIN nested = Procs /\ Own(nested, nested', p)
      BY Zenon DEF Gentle, TypeInv, TypeOK
    <3> QED BY <2>1, <3>1, Zenon DEF Own
  <2> QED BY <2>1, <2>2, AloneKeeps, Zenon
<1>2. ASSUME NEW q \in Workers, cur[q] \in DOMAIN tasks, cur'[q] = cur[q]
      PROVE  /\ ModelOf(q)' = ModelOf(q) /\ PathAt(q)' = PathAt(q)
             /\ TaskOf(q).type' = TaskOf(q).type
  BY <1>2, Zenon DEF PathAt, ModelOf, TaskOf, Stable, Like
<1>3. ASSUME NEW q \in Workers, pc[q] \notin Unadmitted
      PROVE  /\ cur[q] \in DOMAIN tasks /\ ModelOf(q) \in Models
             /\ PathAt(q) \in Paths /\ PathAt(q) = PathOf[ModelOf(q)]
             /\ attempt[q] \in {"download", "delete"}
  BY <1>3, WorkerHasTask, ZenonT(30) DEF FilesInv, Manages, PathAt
<1>4. ASSUME NEW d \in Paths, Erases(p, d)
      PROVE  /\ attempt[p] = "delete" /\ d = PathOf[ModelOf(p)]
             /\ \A m \in Models \ {ModelOf(p)} : PathOf[m] = d => ~ Protected(m)
             /\ \A m \in Models : m = ModelOf(p) => Removing(m)'
  <2>1. pc[p] \notin Unadmitted /\ TaskOf(p).type = "Delete"
    BY <1>4, ZenonT(30) DEF Erases, Unadmitted, FilesInv, Manages
  <2>2. attempt[p] = "delete"
    BY <1>3, <2>1, ZenonT(30) DEF Ownership, Slot
  <2>3. d = PathOf[ModelOf(p)]
    BY <1>3, <1>4, <2>1, ZenonT(30) DEF Erases
  <2>4. \A m \in Models \ {ModelOf(p)} : PathOf[m] = d => ~ Protected(m)
    BY <1>4, Zenon DEF Erases
  <2>5. \A m \in Models : m = ModelOf(p) => Removing(m)'
    BY <1>2, <1>3, <1>4, <2>1, <2>2, Zenon DEF Erases, Removing
  <2> QED BY <2>2, <2>3, <2>4, <2>5, Zenon
<1>5. ASSUME NEW q \in Workers PROVE Manages(q)'
  <2>1. attempt'[q] \in {"none", "download", "delete"} /\ nested'[q] = 0
    BY <1>1, Zenon DEF Gentle, FilesInv, Manages
  <2>2. ASSUME pc'[q] \in {"remove", "erase", "unpublish"}
        PROVE  TaskOf(q).type' = "Delete"
    <3>1. /\ pc[q] \notin Unadmitted /\ cur'[q] = cur[q]
          /\ TaskOf(q).type = "Delete"
      BY <1>1, <2>2, Zenon DEF Gentle, FilesInv, Manages, Unadmitted
    <3> QED BY <1>2, <1>3, <3>1, Zenon
  <2>3. ASSUME pc'[q] \in {"recheck", "publish"}, NEW m \in Models,
               m = ModelOf(q)', Protected(m)'
        PROVE  files'[PathOf[m]] # "absent"
    <3>1. pc[q] \notin Unadmitted /\ cur'[q] = cur[q]
      BY <1>1, <2>3, Zenon DEF Gentle, Unadmitted
    <3>2. /\ ModelOf(q)' = ModelOf(q) /\ PathAt(q)' = PathAt(q)
          /\ PathAt(q) \in Paths /\ ModelOf(q) \in Models
          /\ PathAt(q) = PathOf[m] /\ m = ModelOf(q) /\ Protected(m)
      BY <1>0, <1>2, <1>3, <2>3, <3>1, Zenon
    <3>3. CASE q = p /\ pc[p] # "recheck"
      BY <2>3, <3>2, <3>3, ZenonT(30) DEF Gentle
    <3>4. CASE q # p \/ pc[p] = "recheck"
      <4>1. pc[q] \in {"recheck", "publish"} /\ files[PathAt(q)] # "absent"
        BY <1>1, <2>3, <3>2, <3>4, ZenonT(30) DEF FilesInv, Manages
      <4>2. ~ Erases(p, PathAt(q))
        <5> SUFFICES ASSUME Erases(p, PathAt(q)) PROVE FALSE
          BY Zenon
        <5>1. q # p
          BY <4>1, Zenon DEF Erases
        <5>2. ModelOf(q) = ModelOf(p)
          BY <1>4, <2>3, <3>2, Zenon
        <5>3. attempt[p] = "delete" /\ attempt[q] \in {"download", "delete"}
          BY <1>3, <1>4, <3>1, <3>2, Zenon
        <5> QED BY <5>1, <5>2, <5>3, OwnersExclude, Zenon DEF ExclusiveAttempts
      <4> QED BY <3>2, <4>1, <4>2, Zenon DEF Gentle
    <3> QED BY <3>3, <3>4, Zenon
  <2> QED BY <2>1, <2>2, <2>3, Zenon DEF Manages, Gentle
<1>6. ASSUME NEW m \in Models, status'[m] = "Ready", Protected(m),
             ~ Removing(m)', files'[PathOf[m]] = "absent"
      PROVE  FALSE
  <2>1. PathOf[m] \in Paths
    BY GopherAssumption, Zenon
  <2>2. ~ Erases(p, PathOf[m])
    <3> SUFFICES ASSUME Erases(p, PathOf[m]) PROVE FALSE
      BY Zenon
    <3>1. m = ModelOf(p)
      BY <1>4, <1>6, <2>1, Zenon
    <3> QED BY <1>4, <1>6, <2>1, <3>1, Zenon
  <2>3. files[PathOf[m]] = "absent"
    BY <1>6, <2>1, <2>2, Zenon DEF Gentle
  <2>4. status[m] = "Ready"
    <3>1. pc[p] # "publish" \/ m # ModelOf(p)
      BY <1>3, <1>6, <2>3 DEF FilesInv, Manages, Unadmitted
    <3> QED BY <1>6, <3>1, Zenon DEF Gentle
  <2>5. Removing(m)
    BY <1>6, <2>3, <2>4, Zenon DEF FilesInv, ReadyKept
  <2>6. PICK q \in Workers : attempt[q] = "delete" /\ pc[q] = "unpublish" /\ ModelOf(q) = m
    BY <2>5, Zenon DEF Removing
  <2>7. q # p
    BY <1>6, <2>6, Zenon DEF Gentle
  <2>8. Removing(m)'
    BY <1>1, <1>2, <1>3, <2>6, <2>7, ZenonT(30) DEF Removing, Unadmitted
  <2> QED BY <1>6, <2>8, Zenon
<1> QED BY <1>0, <1>5, <1>6, Zenon DEF FilesInv, ReadyKept

\* Writing a status writes that of the worker's model.
LEMMA StatusFacts ==
  ASSUME TypeInv, NEW p \in Workers, pc[p] \notin Unadmitted, NEW v, Publish(p, v)
  PROVE  \A m \in Models : status'[m] = IF m = ModelOf(p) THEN v ELSE status[m]
  BY WorkerHasTask, Zenon DEF Publish, TypeInv, TypeOK

\* The steps of a download are gentle.
LEMMA DownloadGentle ==
  ASSUME OrderInv, FilesInv, ~ IOFaults, NEW p \in Workers, DownloadStep(p)
  PROVE  Gentle(p)
<1> USE DEF OrderInv, nodeVars
<1>0. pc[p] \notin Unadmitted \cup {"unpublish"}
  <2>1. ~ LockFails(p)
    BY Zenon DEF LockFails
  <2> QED
    BY Zenon, <2>1
    DEF DownloadStep, CheckBeforeDownload, CheckAfterDownload, StaleDownload,
        LockPath, LockPathBusy, MarkUpdating, markModelOnNodeFailed,
        finishDownloadStatus, SourcePlain, SharedSource, SourceShared,
        SourceSharedRetry, SourceSharedDemote, SourceDirect, HoldPath,
        PathBusy, DirectBusy, DirectReuse, DirectWait, MayTransfer,
        DirectDemote, DirectStart, DirectFinish, Unadmitted
<1>1. /\ cur[p] \in DOMAIN tasks /\ ModelOf(p) \in Models /\ PathAt(p) \in Paths
      /\ p \in Procs /\ TaskOf(p) \in Task
  BY <1>0, WorkerHasTask, Zenon
<1>2. /\ TaskOf(p).kind = "object" /\ usesArtifactTaskCoordinator(TaskOf(p))
      /\ Manages(p)
  BY <1>1, Zenon DEF FilesInv, Kinds, TaskOf, usesArtifactTaskCoordinator, isDirectFileTask, Task
<1>3. UNCHANGED <<cr, cur, attempt, nested>>
  BY Zenon, <1>2
  DEF DownloadStep, CheckBeforeDownload, CheckAfterDownload, StaleDownload,
      CleanupDeletingModel, LockPath, LockPathBusy, LockFails, MarkUpdating,
      markModelOnNodeFailed, finishDownloadStatus, SourcePlain, SourceShared,
      SourceSharedRetry, SourceSharedDemote, SourceDirect, PathBusy,
      DirectBusy, DirectReuse, DirectWait, DirectDemote, Demote, DirectStart,
      DirectFinish, workVars
<1>4. \A d \in Paths : files'[d] = "absent" => files[d] = "absent"
  <2>1. \/ UNCHANGED files
        \/ files' = [files EXCEPT ![PathAt(p)] = "complete"]
        \/ \E f \in {"partial", files[PathAt(p)]} \ {"absent"} :
             files' = [files EXCEPT ![PathAt(p)] = f]
    BY Zenon
    DEF DownloadStep, CheckBeforeDownload, CheckAfterDownload, StaleDownload,
        LockPath, LockPathBusy, LockFails, MarkUpdating,
        markModelOnNodeFailed, finishDownloadStatus, SourcePlain,
        SourceShared, SourceSharedRetry, SourceSharedDemote, SourceDirect,
        PathBusy, DirectBusy, DirectReuse, DirectWait, DirectDemote, Demote,
        DirectStart, DirectFinish
  <2> QED BY <1>1, <2>1, ZenonT(30) DEF TypeInv, TypeOK
<1>5. \A m \in Models : status'[m] = "Ready" =>
        status[m] = "Ready" \/ (pc[p] = "publish" /\ m = ModelOf(p))
  <2>1. \/ UNCHANGED statusVars
        \/ Publish(p, "Updating") \/ Publish(p, "Failed")
        \/ pc[p] = "publish" /\ Publish(p, "Ready")
    BY Zenon
    DEF DownloadStep, CheckBeforeDownload, CheckAfterDownload, StaleDownload,
        LockPath, LockPathBusy, LockFails, MarkUpdating, WriteStatus,
        markModelOnNodeFailed, finishDownloadStatus, SourcePlain,
        SourceShared, SourceSharedRetry, SourceSharedDemote, SourceDirect,
        PathBusy, DirectBusy, DirectReuse, DirectWait, DirectDemote, Demote,
        DirectStart, DirectFinish
  <2>2. CASE UNCHANGED status
    BY <2>2, Zenon
  <2>3. ASSUME NEW v \in {"Updating", "Failed", "Ready"}, Publish(p, v),
               v = "Ready" => pc[p] = "publish"
        PROVE  \A m \in Models : status'[m] = "Ready" =>
                 status[m] = "Ready" \/ (pc[p] = "publish" /\ m = ModelOf(p))
    BY <1>0, <2>3, StatusFacts, Zenon
  <2> QED BY <2>1, <2>2, <2>3, Zenon DEF statusVars
<1>6. /\ pc'[p] \in {"recheck", "publish"} =>
           pc[p] = "recheck" \/ files'[PathAt(p)] # "absent"
      /\ pc'[p] \in {"remove", "erase", "unpublish"} => TaskOf(p).type = "Delete"
  <2>1. CASE \/ CheckBeforeDownload(p)
             \/ LockPathBusy(p) \/ DirectBusy(p) \/ MarkUpdating(p)
             \/ markModelOnNodeFailed(p) \/ finishDownloadStatus(p)
    <3>1. \E l \in {"reserve", "unlock", "lock", "source"} : Goto(p, l)
      BY Zenon, <1>2, <2>1
      DEF CheckBeforeDownload, StaleDownload, CleanupDeletingModel, EnqueueNew,
          LockPathBusy, PathBusy, DirectBusy, MarkUpdating,
          markModelOnNodeFailed, finishDownloadStatus
    <3> QED BY <3>1, GoesTo, Zenon
  <2>2. CASE \/ SourceSharedRetry(p) \/ SourceSharedDemote(p)
             \/ SourceDirect(p) \/ DirectWait(p) \/ DirectDemote(p)
             \/ DirectStart(p)
    <3>1. \E l \in {"reserve", "unlock", "failed", "direct", "write"} : Goto(p, l)
      BY Zenon, <2>2
      DEF SourceSharedRetry, SourceSharedDemote, Demote, EnqueueAgain,
          SourceDirect, DirectWait, DirectDemote, DirectStart
    <3> QED BY <3>1, GoesTo, Zenon
  <2>3. CASE CheckAfterDownload(p)
    <3>1. pc[p] = "recheck" /\ \E l \in {"reserve", "unlock", "publish"} : Goto(p, l)
      BY Zenon, <1>2, <2>3
      DEF CheckAfterDownload, StaleDownload, CleanupDeletingModel, EnqueueNew
    <3> QED BY <3>1, GoesTo, Zenon
  <2>4. CASE LockPath(p)
    <3>1. \E l \in {"unlock", FirstStep(p)} : Goto(p, l)
      BY Zenon, <2>4 DEF LockPath
    <3> QED BY <3>1, GoesTo, Zenon DEF FirstStep
  <2>5. CASE SourceShared(p) \/ DirectFinish(p)
    <3>1. \/ files' = [files EXCEPT ![PathAt(p)] = "complete"]
             /\ \E l \in {"unlock", "recheck"} : Goto(p, l)
          \/ \E l \in {"unlock", "failed", "direct"} : Goto(p, l)
      BY Zenon, <2>5 DEF SourceShared, DirectFinish
    <3> QED BY <1>1, <3>1, GoesTo, Zenon DEF TypeInv, TypeOK
  <2>6. CASE DirectReuse(p)
    <3>1. /\ files[PathAt(p)] # "absent" /\ UNCHANGED files
          /\ \E l \in {"unlock", "recheck"} : Goto(p, l)
      BY Zenon, <2>6 DEF DirectReuse, CanReuse
    <3> QED BY <3>1, GoesTo, Zenon
  <2>7. ~ LockFails(p) /\ ~ SourcePlain(p)
    BY <1>2, Zenon DEF LockFails, SourcePlain
  <2> QED BY <2>1, <2>2, <2>3, <2>4, <2>5, <2>6, <2>7, ZenonT(30) DEF DownloadStep
<1> QED BY <1>0, <1>2, <1>3, <1>4, <1>5, <1>6, Zenon DEF Gentle, Own, Manages

\* So are those of a delete, which empties a directory only as its last user.
LEMMA DeleteGentle ==
  ASSUME OrderInv, FilesInv, ~ IOFaults, NEW p \in Workers, DeleteStep(p)
  PROVE  Gentle(p)
<1> USE DEF OrderInv, nodeVars
<1>0. pc[p] \notin Unadmitted \cup {"publish", "recheck"}
  BY Zenon
  DEF DeleteStep, AdmittedDelete, RemoveOrdinary, RemoveShared, EraseBusy,
      PathBusy, RemoveSharedRetry, Erase, EraseLinked, EraseParentBusy,
      EraseFails, Unpublish, Unadmitted
<1>1. /\ cur[p] \in DOMAIN tasks /\ ModelOf(p) \in Models /\ PathAt(p) \in Paths
      /\ p \in Procs /\ TaskOf(p) \in Task
  BY <1>0, WorkerHasTask, Zenon
<1>2. TaskOf(p).kind = "object" /\ Manages(p)
  BY <1>1, Zenon DEF FilesInv, Kinds, TaskOf
<1>3. UNCHANGED <<cr, cur, attempt, nested>>
  BY Zenon
  DEF DeleteStep, AdmittedDelete, RemoveOrdinary, RemoveShared, EraseBusy,
      PathBusy, RemoveSharedRetry, Erase, EraseLinked, EraseParentBusy,
      EraseFails, Unpublish, workVars
<1>4. \A d \in Paths : files'[d] = "absent" => files[d] = "absent" \/ Erases(p, d)
  <2> DEFINE last == \A m \in Models \ {ModelOf(p)} :
                       PathOf[m] = PathAt(p) => ~ Protected(m)
  <2>0. files = [files EXCEPT ![PathAt(p)] = files[PathAt(p)]]
    BY <1>1, Zenon DEF TypeInv, TypeOK
  <2>1. \/ UNCHANGED files
        \/ /\ pc[p] \in {"remove", "erase"} /\ Goto(p, "unpublish")
           /\ files' = [files EXCEPT ![PathAt(p)] = "absent"] /\ last
    <3>1. CASE AdmittedDelete(p) \/ RemoveOrdinary(p) \/ EraseBusy(p)
               \/ RemoveSharedRetry(p) \/ EraseLinked(p) \/ Unpublish(p)
      BY Zenon, <3>1
      DEF AdmittedDelete, RemoveOrdinary, EraseBusy, PathBusy,
          RemoveSharedRetry, EraseLinked, Unpublish
    <3>2. CASE RemoveShared(p)
      <4>1. \/ UNCHANGED files
            \/ /\ pc[p] = "remove" /\ Goto(p, "unpublish") /\ TaskOf(p).shared
               /\ files' = [files EXCEPT ![PathAt(p)] = "absent"]
               /\ ~ HasOtherPathUsers(ModelOf(p))
        BY <2>0, <3>2, ZenonT(30) DEF RemoveShared
      <4>2. ASSUME TaskOf(p).shared, ~ HasOtherPathUsers(ModelOf(p)),
                   NEW m \in Models \ {ModelOf(p)}, PathOf[m] = PathAt(p)
            PROVE  ~ Protected(m)
        <5>1. SharedAt(m)
          BY <1>1, <4>2, Zenon DEF SharedAt, TaskOf, ModelOf, PathAt
        <5>2. cr[m] # "live" /\ ~ (cr[m] = "deleting" /\ m \in Reserved)
          BY <4>2, Zenon DEF HasOtherPathUsers, PathAt
        <5> QED BY <5>1, <5>2, Zenon DEF Protected
      <4> QED BY <4>1, <4>2, Zenon
    <3>3. CASE Erase(p)
      <4>1. \/ UNCHANGED files
            \/ /\ pc[p] = "erase" /\ Goto(p, "unpublish")
               /\ files' = [files EXCEPT ![PathAt(p)] = "absent"]
               /\ ~ SkipsFiles(ModelOf(p))
        BY <2>0, <3>3, ZenonT(30) DEF Erase
      <4>2. ~ SkipsFiles(ModelOf(p)) => last
        BY Zenon DEF SkipsFiles, Referenced, PathAt, Protected
      <4> QED BY <4>1, <4>2, Zenon
    <3>4. ~ EraseParentBusy(p) /\ ~ EraseFails(p)
      BY <1>2, Zenon DEF EraseParentBusy, EraseFails
    <3> QED BY <3>1, <3>2, <3>3, <3>4, Zenon DEF DeleteStep
  <2>2. CASE UNCHANGED files
    BY <2>2, Zenon
  <2>3. CASE ~ UNCHANGED files
    <3>1. pc[p] \in {"remove", "erase"} /\ pc'[p] = "unpublish"
      BY <2>1, <2>3, GoesTo, Zenon
    <3>2. last
      BY <2>1, <2>3, Zenon
    <3>3. \A d \in Paths \ {PathAt(p)} : files'[d] = files[d]
      BY <1>1, <2>1, Zenon DEF TypeInv, TypeOK
    <3> QED BY <1>3, <3>1, <3>2, <3>3, Zenon DEF Erases
  <2> QED BY <2>2, <2>3, Zenon
<1>5. /\ \A m \in Models : status'[m] = "Ready" => status[m] = "Ready"
      /\ pc[p] = "unpublish" => status'[ModelOf(p)] # "Ready"
  <2>1. CASE Unpublish(p)
    <3>1. Publish(p, "none")
      BY <2>1, Zenon DEF Unpublish
    <3>2. \A m \in Models : status'[m] = IF m = ModelOf(p) THEN "none" ELSE status[m]
      BY <1>0, <3>1, StatusFacts, Zenon
    <3> QED BY <1>1, <3>2, Zenon
  <2>2. CASE ~ Unpublish(p)
    <3>1. pc[p] # "unpublish" /\ UNCHANGED status
      BY Zenon, <2>2
      DEF DeleteStep, AdmittedDelete, RemoveOrdinary, RemoveShared, EraseBusy,
          PathBusy, RemoveSharedRetry, Erase, EraseLinked, EraseParentBusy,
          EraseFails, statusVars
    <3> QED BY <3>1, Zenon
  <2> QED BY <2>1, <2>2, Zenon
<1>6. /\ pc'[p] \notin {"recheck", "publish"}
      /\ pc'[p] \in {"remove", "erase", "unpublish"} => TaskOf(p).type = "Delete"
  <2>1. CASE AdmittedDelete(p) \/ Unpublish(p)
    BY <2>1, GoesTo, Zenon DEF AdmittedDelete, Unpublish
  <2>2. CASE ~ (AdmittedDelete(p) \/ Unpublish(p))
    <3>1. pc[p] \in {"remove", "erase"}
          /\ \E l \in {"erase", "unpublish", "unlock"} : Goto(p, l)
      BY Zenon, <2>2
      DEF DeleteStep, RemoveOrdinary, RemoveShared, EraseBusy, PathBusy,
          RemoveSharedRetry, Erase, EraseLinked, EraseParentBusy, EraseFails
    <3> QED BY <1>2, <3>1, GoesTo, Zenon DEF Manages
  <2> QED BY <2>1, <2>2, Zenon
<1>7. /\ attempt'[p] \in {"none", "download", "delete"}
      /\ Own(nested, nested', p) /\ nested'[p] = 0
  BY <1>2, <1>3, Zenon DEF Own, Manages
<1>8. pc[p] \notin Unadmitted /\ UNCHANGED <<cr, cur>>
  BY <1>0, <1>3, Zenon
<1> QED BY Zenon, <1>4, <1>5, <1>6, <1>7, <1>8 DEF Gentle

\* Admission and the end of an attempt do not touch files or statuses.
LEMMA AdmissionGentle ==
  ASSUME OrderInv, FilesInv, NEW p \in Workers,
         BeginTask(p) \/ ReleaseFileLocks(p) \/ Finish(p)
  PROVE  Gentle(p)
<1> USE DEF OrderInv
<1>0. pc[p] \in {"begin", "deleteWait", "unlock", "finish"}
  BY Zenon
  DEF BeginTask, BeginUnrouted, BeginReplaced, BeginLegacyDelete,
      BeginLegacyDownload, BeginDeleteProceed, BeginDeleteStale,
      BeginDeleteWait, BeginDeleteWaits, BeginDownloadProceed,
      BeginDownloadStale, BeginDownloadWait, Deleting, Downloading, Admitting,
      ReleaseFileLocks, Finish
<1>1. p \in Procs /\ Manages(p)
  BY GopherAssumption, Zenon DEF Workers, FilesInv
<1>2. ASSUME pc[p] = "begin"
      PROVE  usesArtifactTaskCoordinator(RoutedTask(p))
  <2>1. cur[p] \in DOMAIN tasks /\ TaskOf(p) \in Task
    BY <1>2, BeginnerHasTask, Zenon
  <2>2. TaskOf(p).kind = "object"
    BY <2>1, Zenon DEF FilesInv, Kinds, TaskOf
  <2>3. RoutedTask(p) \in Task /\ RoutedTask(p).kind = "object"
    BY <2>1, <2>2, RoutingTyped, RoutingLike, Zenon DEF RoutedTask, Like
  <2> QED BY <2>3, Zenon DEF usesArtifactTaskCoordinator, isDirectFileTask, Task
<1>3. ~ BeginLegacyDelete(p) /\ ~ BeginLegacyDownload(p)
  BY <1>2, Zenon
  DEF BeginLegacyDelete, BeginLegacyDownload, Deleting, Downloading, Admitting
<1>4. UNCHANGED <<cr, files, status>>
  BY Zenon, <1>3
  DEF BeginTask, BeginUnrouted, BeginReplaced, BeginDeleteProceed,
      BeginDeleteStale, BeginDeleteWait, BeginDeleteWaits,
      BeginDownloadProceed, BeginDownloadStale, BeginDownloadWait, Begins,
      ReleaseFileLocks, Finish, nodeVars, statusVars
<1>5. \/ Return(p)
      \/ /\ \E l \in {"admitted", "deleteWait", "finish"} : Goto(p, l)
         /\ UNCHANGED nested
         /\ \/ UNCHANGED attempt
            \/ \E a \in {"download", "delete"} :
                 attempt' = [attempt EXCEPT ![p] = a]
  BY Zenon, <1>3
  DEF BeginTask, BeginUnrouted, BeginReplaced, BeginDeleteProceed,
      BeginDeleteStale, BeginDeleteWait, BeginDeleteWaits,
      BeginDownloadProceed, BeginDownloadStale, BeginDownloadWait, Begins,
      ReleaseFileLocks, Finish, workVars
<1>6. pc'[p] \in {"idle", "unlock", "admitted", "deleteWait", "finish"}
  BY <1>1, <1>5, GoesTo, Zenon DEF Return, TypeInv, TypeOK
<1>7. /\ attempt'[p] \in {"none", "download", "delete"}
      /\ Own(nested, nested', p) /\ nested'[p] = 0
  <2>1. CASE Return(p)
    BY <1>1, <2>1, Zenon DEF Return, Own, Manages, TypeInv, TypeOK
  <2>2. CASE ~ Return(p)
    BY <1>1, <1>5, <2>2, Zenon DEF Own, Manages, TypeInv, TypeOK
  <2> QED BY <2>1, <2>2, Zenon
<1>8. pc[p] # "unpublish" /\ pc'[p] \notin {"recheck", "publish"}
      /\ pc'[p] \notin {"remove", "erase", "unpublish"}
  BY <1>0, <1>6, Zenon
<1> QED BY Zenon, <1>4, <1>7, <1>8 DEF Gentle

\* Every step keeps the files of what is Ready.
LEMMA FilesStep ==
  ASSUME ObjectStorage, ~ IOFaults, OrderInv, FilesInv, [Next]_vars
  PROVE  FilesInv'
<1> USE DEF OrderInv
<1>1. Stable /\ OrderInv' /\ Kinds({"object"})'
  BY NextStable, OrderStep, KindsStep, Zenon DEF ObjectStorage, FilesInv
<1>2. ASSUME NEW p \in Workers, WorkerStep(p) PROVE FilesInv'
  <2>1. Gentle(p)
    BY <1>2, DownloadGentle, DeleteGentle, AdmissionGentle, Zenon DEF WorkerStep
  <2> QED BY <1>1, <1>2, <2>1, GentleStep, WorkerAlone, Zenon
<1>3. ASSUME UNCHANGED <<files, status, attempt, nested>>,
             Ageing,
             \A q \in Workers :
               \/ pc'[q] = pc[q] /\ cur'[q] = cur[q]
               \/ /\ pc[q] # "unpublish"
                  /\ pc'[q] \notin {"remove", "erase", "unpublish", "recheck",
                                    "publish"}
      PROVE  FilesInv'
  <2>0. \A m \in Models : Protected(m)' => Protected(m)
    BY <1>1, <1>3, ProtectedBefore, Zenon
  <2>1. ASSUME NEW q \in Workers, pc[q] \notin Unadmitted, cur'[q] = cur[q]
        PROVE  /\ ModelOf(q)' = ModelOf(q) /\ PathAt(q)' = PathAt(q)
               /\ TaskOf(q).type' = TaskOf(q).type /\ ModelOf(q) \in Models
    BY <1>1, <2>1, WorkerHasTask, ZenonT(30) DEF PathAt, ModelOf, TaskOf, Stable, Like
  <2>2. ASSUME NEW q \in Workers PROVE Manages(q)'
    <3>1. CASE pc'[q] = pc[q] /\ cur'[q] = cur[q] /\ pc[q] \notin Unadmitted
      BY <1>3, <2>0, <2>1, <3>1, Zenon DEF FilesInv, Manages
    <3>2. CASE pc'[q] \notin {"remove", "erase", "unpublish", "recheck", "publish"}
      BY <1>3, <3>2, ZenonT(30) DEF FilesInv, Manages
    <3> QED BY <1>3, <3>1, <3>2, Zenon DEF Unadmitted
  <2>3. ASSUME NEW m \in Models, Removing(m) PROVE Removing(m)'
    <3>1. PICK q \in Workers :
            attempt[q] = "delete" /\ pc[q] = "unpublish" /\ ModelOf(q) = m
      BY <2>3, Zenon DEF Removing
    <3>2. pc'[q] = pc[q] /\ cur'[q] = cur[q] /\ attempt'[q] = attempt[q]
      BY <1>3, <3>1, Zenon
    <3> QED BY <2>1, <3>1, <3>2, Zenon DEF Removing, Unadmitted
  <2>4. ReadyKept'
    BY <1>3, <2>0, <2>3, ZenonT(30) DEF FilesInv, ReadyKept
  <2> QED BY <1>1, <2>2, <2>4, Zenon DEF FilesInv
<1>4. ASSUME NEW p \in Procs, pc[p] \in EnqueueLabels \cup {"idle"},
             NEW l \in EnqueueLabels \cup {"idle", "exited", "unlock"}, Goto(p, l),
             UNCHANGED <<files, status, attempt, nested, cr, cur>>
      PROVE  FilesInv'
  <2>1. \A q \in Workers :
               \/ pc'[q] = pc[q]
               \/ /\ pc[q] # "unpublish"
                  /\ pc'[q] \notin {"remove", "erase", "unpublish", "recheck",
                                    "publish"}
    BY <1>4, GopherAssumption, Zenon DEF Goto, TypeInv, TypeOK, Workers, EnqueueLabels
  <2> QED BY <1>3, <1>4, <2>1, Zenon DEF Ageing
<1>5. ASSUME NEW p \in Procs, EnqueueStep(p) PROVE FilesInv'
  <2>1. UNCHANGED <<files, status, attempt, nested, cr, cur>>
    BY Zenon, <1>5
    DEF EnqueueStep, EnqueueDownload, EnqueueLegacyDelete, EnqueueDeleteStale,
        EnqueueDeleteReserve, EnqueueDeleteReserved, EnqueuePush, workVars,
        nodeVars, statusVars
  <2>2. /\ pc[p] \in EnqueueLabels
        /\ \E l \in EnqueueLabels \cup {"idle", "exited", "unlock"} : Goto(p, l)
    BY Zenon, <1>5
    DEF EnqueueStep, EnqueueDownload, EnqueueLegacyDelete, EnqueueDeleteStale,
        EnqueueDeleteReserve, EnqueueDeleteReserved, EnqueuePush,
        AfterEnqueue, EnqueueLabels
  <2> QED BY <1>4, <2>1, <2>2, Zenon
<1>6. ASSUME NEW s, Taken(s) PROVE FilesInv'
  <2>1. PICK p \in Workers : Take(p, s) /\ pc[p] = "idle"
    BY <1>6, Zenon DEF Taken, PopNormal, PopHighPriority
  <2>2. \A q \in Workers :
          \/ pc'[q] = pc[q] /\ cur'[q] = cur[q]
          \/ pc[q] # "unpublish" /\ pc'[q] = "begin"
    BY <2>1, GopherAssumption, Zenon DEF Take, Goto, TypeInv, TypeOK, Workers
  <2>3. UNCHANGED <<files, status, attempt, nested, cr>>
    BY <2>1, Zenon DEF Take, nodeVars, statusVars
  <2> QED BY <1>3, <2>2, <2>3, Zenon DEF Ageing
<1>7. CASE \/ \E m \in Models, in \in Inputs : DispatchInput(m, in)
           \/ \E s \in timers : DispatchRequeued(s)
           \/ \E p \in Procs : Exit(p)
  <2>1. UNCHANGED <<files, status, attempt, nested, cr, cur>>
    BY Zenon, <1>7
    DEF DispatchInput, DispatchRequeued, Exit, workVars, nodeVars, statusVars
  <2>2. \E p \in Procs, l \in EnqueueLabels \cup {"exited"} :
          pc[p] = "idle" /\ Goto(p, l)
    BY Zenon, <1>7, GopherAssumption
    DEF DispatchInput, DispatchRequeued, EnqueueNew, EnqueueAgain, Exit,
        EnqueueLabels
  <2> QED BY <1>4, <2>1, <2>2, Zenon
<1>8. CASE (\E m \in Models : ResourceChange(m)) \/ Stop \/ UNCHANGED vars
  <2>1. UNCHANGED <<files, status, attempt, nested, cur, pc>>
    BY Zenon, <1>8 DEF ResourceChange, Stop, vars, workVars, nodeVars, statusVars
  <2>2. UNCHANGED cr \/ \E m \in Models : ResourceChange(m)
    BY Zenon, <1>8 DEF Stop, vars
  <2>3. Ageing
    BY <2>2, ZenonT(30)
    DEF Ageing, ResourceChange, ResourceDeleting, ResourceGone, ResourceReplaced,
        TypeInv, TypeOK
  <2> QED BY <1>3, <2>1, <2>3, Zenon
<1> QED BY <1>2, <1>5, <1>6, <1>7, <1>8, Zenon DEF Next

\* Without I/O faults, Gopher keeps ReadyHasFiles for models of object storage:
\* whatever shares a directory, deletes, waits or is cancelled, a Ready model
\* that nobody deletes has its files.
THEOREM ReadyHasFilesHolds ==
  ASSUME ObjectStorage, ~ IOFaults
  PROVE  Spec => []ReadyHasFiles
<1>1. Init => OrderInv /\ FilesInv
  <2> SUFFICES ASSUME Init PROVE FilesInv
    BY InitOrdered, Zenon
  <2>1. Kinds({"object"})
    BY DEF Init, Kinds
  <2>2. \A p \in Workers : Manages(p)
    BY GopherAssumption, Zenon DEF Init, Manages, Workers
  <2>3. ReadyKept
    BY GopherAssumption, Zenon DEF Init, ReadyKept
  <2> QED BY <2>1, <2>2, <2>3, Zenon DEF FilesInv
<1>2. OrderInv /\ FilesInv /\ [Next]_vars => (OrderInv /\ FilesInv)'
  BY OrderStep, FilesStep, Zenon
<1>3. OrderInv /\ FilesInv => ReadyHasFiles
  <2> SUFFICES ASSUME OrderInv, FilesInv, NEW m \in Models, Removing(m),
                      models[m].deleteSequence = 0
               PROVE  FALSE
    BY Zenon DEF ReadyHasFiles, FilesInv, ReadyKept
  <2>1. PICK p \in Workers : attempt[p] = "delete" /\ pc[p] = "unpublish" /\ ModelOf(p) = m
    BY Zenon DEF Removing
  <2>2. cur[p] # 0 /\ models[m].deleteSequence = cur[p]
    BY <2>1, WorkerHasTask, Zenon DEF OrderInv, Ownership, Slot, Unadmitted
  <2> QED BY <2>2, Zenon
<1> QED BY <1>1, <1>2, <1>3, PTL DEF Spec
=============================================================================
