---------------------------- MODULE GopherProofs ----------------------------
(***************************************************************************)
(* Proofs about Gopher, for any number of models, directories, workers and *)
(* tasks.                                                                  *)
(***************************************************************************)
EXTENDS Gopher, TLAPS

(***************************************************************************)
(* The tracker's operations keep a model record a model record.            *)
(***************************************************************************)

\* beginDownload and finishDownload keep the type of a tracker record.
LEMMA DownloadOperationsTyped ==
  ASSUME NEW st \in ModelState, NEW s \in Nat, NEW p \in Procs
  PROVE  /\ beginDownload(st, s, p) \in ModelState
         /\ finishDownload(st, p) \in ModelState
  BY Zenon DEF ModelState, beginDownload, finishDownload

\* beginDelete and finishDelete keep the type of a tracker record.
LEMMA DeleteOperationsTyped ==
  ASSUME NEW st \in ModelState, NEW s \in Nat, NEW p \in Procs,
         NEW keepBarrier \in BOOLEAN
  PROVE  /\ beginDelete(st, s, p) \in ModelState
         /\ finishDelete(st, s, p, keepBarrier) \in ModelState
  BY Zenon DEF ModelState, beginDelete, finishDelete

\* beginLegacyTask and finishLegacyTask keep the type of a tracker record.
LEMMA LegacyOperationsTyped ==
  ASSUME NEW st \in ModelState, NEW p \in Procs,
         NEW type \in {"Download", "Delete"}
  PROVE  /\ beginLegacyTask(st, p, type) \in ModelState
         /\ finishLegacyTask(st, p, type) \in ModelState
<1>1. <<p, type>> \in LegacyAttempts
  BY Zenon DEF LegacyAttempts
<1>2. st.legacyAttempts \cup {<<p, type>>} \in SUBSET LegacyAttempts
  BY <1>1, Zenon DEF ModelState
<1>3. st.legacyAttempts \ {<<p, type>>} \in SUBSET LegacyAttempts
  BY Zenon DEF ModelState
<1>4. beginLegacyTask(st, p, type) \in ModelState
  BY Zenon, <1>2 DEF ModelState, beginLegacyTask
<1>5. finishLegacyTask(st, p, type) \in ModelState
  BY Zenon, <1>3 DEF ModelState, finishLegacyTask
<1> QED BY <1>4, <1>5, Zenon

\* Replacing a task object keeps the list of tasks and its numbering.
LEMMA UpdateTask ==
  ASSUME NEW ts \in Seq(Task), NEW s \in DOMAIN ts, NEW t \in Task
  PROVE  /\ [ts EXCEPT ![s] = t] \in Seq(Task)
         /\ DOMAIN [ts EXCEPT ![s] = t] = DOMAIN ts
  OBVIOUS

\* A new task object gets the next number and leaves the others alone.
LEMMA AppendTask ==
  ASSUME NEW ts \in Seq(Task), NEW t \in Task
  PROVE  /\ Append(ts, t) \in Seq(Task)
         /\ DOMAIN Append(ts, t) = DOMAIN ts \cup {Len(ts) + 1}
         /\ \A s \in DOMAIN ts : Append(ts, t)[s] = ts[s]
         /\ Append(ts, t)[Len(ts) + 1] = t
  OBVIOUS
-----------------------------------------------------------------------------
(***************************************************************************)
(* Type correctness.  TypeOK is not inductive by itself: that a worker has *)
(* a task to work on and, past admission, an attempt, and a goroutine in   *)
(* enqueueTask a task to enqueue, follows from where it is.                *)
(***************************************************************************)
EnqueueLabels == {"reserve", "reserved", "push"}

Unadmitted == {"idle", "exited", "begin", "deleteWait"}

HoldsTask(p) ==
  /\ pc[p] \notin {"idle", "exited"} => cur[p] # 0
  /\ pc[p] \notin Unadmitted => attempt[p] # "none"

Shape ==
  /\ \A p \in Procs : pc[p] \in EnqueueLabels => enq[p] # 0
  /\ \A p \in Workers : HoldsTask(p)
  /\ pc[Dispatcher] \in EnqueueLabels \cup {"idle", "exited"}

TypeInv == TypeOK /\ Shape

\* Routing changes nothing but the shared flag of a task.
LEMMA RoutingTyped ==
  ASSUME NEW t \in Task, NEW kids
  PROVE  /\ routeArtifactTask(t, kids) \in Task
         /\ routeArtifactTask(t, kids).type = t.type
         /\ routeArtifactTask(t, kids).model = t.model
         /\ kids \subseteq Models => RouteChildren(t, kids) \subseteq Models
<1>1. routeArtifactTask(t, kids) \in Task
  BY Zenon DEF Task, routeArtifactTask
<1>2. /\ routeArtifactTask(t, kids).type = t.type
      /\ routeArtifactTask(t, kids).model = t.model
  BY Zenon DEF Task, routeArtifactTask
<1>3. kids \subseteq Models => RouteChildren(t, kids) \subseteq Models
  BY Zenon DEF Task, RouteChildren
<1> QED BY <1>1, <1>2, <1>3, Zenon

\* The initial state satisfies the strengthened type invariant.
LEMMA InitTyped == Init => TypeInv
<1> SUFFICES ASSUME Init PROVE TypeInv
  BY Zenon
<1> USE GopherAssumption DEF Init
<1>1. models \in [Models -> ModelState]
  BY Zenon DEF ModelState, NewModelState
<1>2. tasks \in Seq(Task) /\ DOMAIN tasks = {}
  OBVIOUS
<1>3. cur \in [Procs -> {0} \cup DOMAIN tasks]
  BY <1>2, Zenon
<1>4. enq \in [Procs -> {0} \cup DOMAIN tasks]
  BY <1>2, Zenon
<1>5. nested \in [Procs -> {0} \cup DOMAIN tasks]
  BY <1>2, Zenon
<1>6. pc \in [Procs -> Labels] /\ timers \subseteq DOMAIN tasks
  BY Zenon DEF Labels
<1>7. /\ attempt \in [Procs -> {"none", "download", "delete",
                                "legacyDownload", "legacyDelete"}]
      /\ cancelled \in [Procs -> BOOLEAN]
      /\ keep \in [Procs -> BOOLEAN]
      /\ known \in BOOLEAN
      /\ children \subseteq Models
  BY Zenon
<1>8. /\ cr \in [Models -> {"live", "deleting", "gone", "replaced"}]
      /\ pathLock \in [Paths -> Procs \cup {None}]
      /\ files \in [Paths -> {"absent", "partial", "complete"}]
      /\ status \in [Models -> {"none", "Updating", "Ready", "Failed"}]
      /\ publisher \in [Models -> Nat]
  BY Zenon
<1>9. TypeOK
  BY <1>1, <1>2, <1>3, <1>4, <1>5, <1>6, <1>7, <1>8, Zenon DEF TypeOK
<1>10. Shape
  BY Zenon DEF Shape, EnqueueLabels, Unadmitted, HoldsTask, Workers
<1> QED BY <1>9, <1>10, Zenon DEF TypeInv

LEMMA TaskAt ==
  ASSUME NEW ts \in Seq(Task), NEW s \in DOMAIN ts
  PROVE  ts[s] \in Task
  OBVIOUS

\* A number in use names a task object.
LEMMA NamedTask ==
  ASSUME tasks \in Seq(Task), NEW s \in DOMAIN tasks
  PROVE  /\ tasks[s] \in Task
         /\ tasks[s].model \in Models
         /\ tasks[s].type \in {"Download", "DownloadOverride", "Delete"}
         /\ s \in Nat /\ s # 0
<1>1. tasks[s] \in Task /\ s \in Nat /\ s # 0
  OBVIOUS
<1> QED BY <1>1, Zenon DEF Task

\* Cancelling the contexts of other goroutines keeps the flags Boolean.
LEMMA CancelTyped ==
  ASSUME NEW ps, Cancel(ps), cancelled \in [Procs -> BOOLEAN]
  PROVE  cancelled' \in [Procs -> BOOLEAN]
  BY Zenon DEF Cancel

\* Every step of enqueueTask preserves the strengthened type invariant.
LEMMA EnqueueTyped ==
  ASSUME TypeInv, NEW p \in Procs, EnqueueStep(p)
  PROVE  TypeInv'
<1> USE GopherAssumption
    DEF workVars, enqVars, routingVars, nodeVars, statusVars, Goto, Labels,
        EnqueueLabels, Unadmitted, HoldsTask, Workers, AfterEnqueue
<1> DEFINE s == enq[p]
<1>a. pc[p] \in EnqueueLabels
  BY Zenon DEF EnqueueStep, EnqueueDownload,
         EnqueueLegacyDelete, EnqueueDeleteStale, EnqueueDeleteReserve,
         EnqueueDeleteReserved, EnqueuePush
<1>b. s \in DOMAIN tasks /\ (p \in Workers => cur[p] # 0 /\ attempt[p] # "none")
  BY Zenon, <1>a DEF TypeInv, TypeOK, Shape
<1>c. /\ tasks[s] \in Task
      /\ tasks[s].model \in Models
      /\ s \in Nat
  BY <1>b, NamedTask, Zenon DEF TypeInv, TypeOK
<1>0. /\ s \in DOMAIN tasks
      /\ p \in Workers => cur[p] # 0 /\ attempt[p] # "none"
      /\ tasks[s] \in Task
      /\ tasks[s].model \in Models
      /\ s \in Nat
  BY <1>b, <1>c, Zenon
<1>1. CASE EnqueueDownload(p)
  <2>1. classifyStartupRevalidation(tasks[s]) \in Task
    BY <1>0, ZenonT(30) DEF classifyStartupRevalidation, Task
  <2>2. tasks' \in Seq(Task) /\ DOMAIN tasks' = DOMAIN tasks
    BY <1>0, <1>1, <2>1, UpdateTask, Zenon DEF EnqueueDownload, TypeInv, TypeOK
  <2>3. TypeOK'
    BY <1>1, <2>2, Zenon DEF TypeInv, TypeOK, EnqueueDownload
  <2>4. Shape'
    BY <1>0, <1>1, ZenonT(30) DEF TypeInv, TypeOK, Shape, EnqueueDownload
  <2> QED BY <2>3, <2>4, Zenon DEF TypeInv
<1>2. CASE EnqueueLegacyDelete(p)
  <2>1. cancelled' \in [Procs -> BOOLEAN]
    BY <1>2, CancelTyped, Zenon DEF EnqueueLegacyDelete, TypeInv, TypeOK
  <2> QED
    BY <1>0, <1>2, <2>1, ZenonT(30) DEF TypeInv, TypeOK, Shape, EnqueueLegacyDelete
<1>3. CASE EnqueueDeleteStale(p)
  BY <1>0, <1>3, ZenonT(30) DEF TypeInv, TypeOK, Shape, EnqueueDeleteStale
<1>4. CASE EnqueueDeleteReserve(p)
  <2> DEFINE m == tasks[s].model
  <2>1. models' \in [Models -> ModelState] /\ cancelled' \in [Procs -> BOOLEAN]
    <3>1. CASE DeleteReserves(models[m], s)
      <4>1. /\ models' = [models EXCEPT ![m] = beginDelete(models[m], s, p)]
            /\ Cancel(CancelledByDelete(models[m]))
        BY <1>4, <3>1, Zenon DEF EnqueueDeleteReserve
      <4>2. /\ models \in [Models -> ModelState] /\ models[m] \in ModelState
            /\ cancelled \in [Procs -> BOOLEAN]
        BY <1>0, Zenon DEF TypeInv, TypeOK
      <4>3. beginDelete(models[m], s, p) \in ModelState
        BY <1>0, <4>2, DeleteOperationsTyped, Zenon
      <4>4. models' \in [Models -> ModelState]
        BY <4>1, <4>2, <4>3, ZenonT(30)
      <4>5. cancelled' \in [Procs -> BOOLEAN]
        BY <4>1, <4>2, CancelTyped, Zenon
      <4> QED BY <4>4, <4>5, Zenon
    <3>2. CASE ~ DeleteReserves(models[m], s)
      BY <1>4, <3>2, Zenon DEF EnqueueDeleteReserve, TypeInv, TypeOK
    <3> QED BY <3>1, <3>2, Zenon
  <2>2. TypeOK'
    BY <1>4, <2>1, Zenon DEF TypeInv, TypeOK, EnqueueDeleteReserve
  <2>3. Shape'
    BY <1>0, <1>4, ZenonT(30) DEF TypeInv, TypeOK, Shape, EnqueueDeleteReserve
  <2> QED BY <2>2, <2>3, Zenon DEF TypeInv
<1>5. CASE EnqueueDeleteReserved(p)
  <2> DEFINE m == tasks[s].model
  <2>0. models[m] \in ModelState
    BY <1>0, Zenon DEF TypeInv, TypeOK
  <2>1. finishDelete(models[m], s, p, TRUE) \in ModelState
    BY <1>0, <2>0, DeleteOperationsTyped, Zenon
  <2>2. models' \in [Models -> ModelState]
    BY Zenon, <1>0, <1>5, <2>1 DEF EnqueueDeleteReserved, TypeInv, TypeOK
  <2>3. TypeOK'
    BY <1>5, <2>2, Zenon DEF TypeInv, TypeOK, EnqueueDeleteReserved
  <2>4. Shape'
    BY <1>0, <1>5, ZenonT(30) DEF TypeInv, TypeOK, Shape, EnqueueDeleteReserved
  <2> QED BY <2>3, <2>4, Zenon DEF TypeInv
<1>6. CASE EnqueuePush(p)
  BY <1>0, <1>6, ZenonT(30) DEF TypeInv, TypeOK, Shape, EnqueuePush
<1> QED
  BY <1>1, <1>2, <1>3, <1>4, <1>5, <1>6, Zenon DEF EnqueueStep

\* Sending a task to the dispatcher again keeps the list of tasks.
LEMMA RequeueTyped ==
  ASSUME TypeOK, NEW s \in DOMAIN tasks, RequeueWithinBudget(s)
  PROVE  /\ tasks' \in Seq(Task)
         /\ DOMAIN tasks' = DOMAIN tasks
         /\ timers' \subseteq DOMAIN tasks
<1>0. tasks[s] \in Task
  BY NamedTask, Zenon DEF TypeOK
<1>1. [tasks[s] EXCEPT !.waited = TRUE] \in Task
  BY Zenon, <1>0 DEF Task
<1>2. tasks' = [tasks EXCEPT ![s] = [tasks[s] EXCEPT !.waited = TRUE]]
  BY Zenon DEF RequeueWithinBudget
<1> QED
  BY <1>1, <1>2, UpdateTask DEF RequeueWithinBudget, TypeOK

\* Routing a task at admission keeps the list of tasks and the routing state.
LEMMA RouteTyped ==
  ASSUME TypeOK, NEW p \in Procs, cur[p] # 0
  PROVE  /\ RoutedTask(p) \in Task
         /\ RouteChildren(RoutedTask(p), LoadedChildren) \subseteq Models
         /\ Route(p) => /\ tasks' \in Seq(Task)
                        /\ DOMAIN tasks' = DOMAIN tasks
                        /\ known' \in BOOLEAN
                        /\ children' \subseteq Models
<1>1. cur[p] \in DOMAIN tasks /\ TaskOf(p) \in Task
  BY NamedTask, Zenon DEF TypeOK, TaskOf
<1>2. LoadedChildren \subseteq Models
  BY GopherAssumption, Zenon DEF TypeOK, LoadedChildren
<1>3. RoutedTask(p) \in Task
  BY <1>1, RoutingTyped, Zenon DEF RoutedTask
<1>4. RouteChildren(RoutedTask(p), LoadedChildren) \subseteq Models
  BY <1>2, <1>3, RoutingTyped, Zenon
<1>5. ASSUME Route(p)
      PROVE  tasks' \in Seq(Task) /\ DOMAIN tasks' = DOMAIN tasks
  BY <1>1, <1>3, <1>5, UpdateTask, Zenon DEF TypeOK, Route
<1>6. ASSUME Route(p)
      PROVE  known' \in BOOLEAN /\ children' \subseteq Models
  BY <1>4, <1>6, Zenon DEF Route
<1> QED
  BY <1>3, <1>4, <1>5, <1>6, Zenon

\* The return of processTask keeps the worker's own variables well typed.
LEMMA ReturnTyped ==
  ASSUME TypeInv, NEW p \in Workers, Return(p), UNCHANGED enqVars,
         DOMAIN tasks' = DOMAIN tasks
  PROVE  /\ pc' \in [Procs -> Labels]
         /\ cur' \in [Procs -> {0} \cup DOMAIN tasks']
         /\ enq' \in [Procs -> {0} \cup DOMAIN tasks']
         /\ nested' \in [Procs -> {0} \cup DOMAIN tasks']
         /\ attempt' \in [Procs -> {"none", "download", "delete",
                                    "legacyDownload", "legacyDelete"}]
         /\ keep' \in [Procs -> BOOLEAN]
         /\ Shape'
<1> USE GopherAssumption DEF TypeInv, TypeOK, Return, Workers, enqVars
<1>1. /\ pc' \in [Procs -> Labels]
      /\ cur' \in [Procs -> {0} \cup DOMAIN tasks']
      /\ enq' \in [Procs -> {0} \cup DOMAIN tasks']
      /\ nested' \in [Procs -> {0} \cup DOMAIN tasks']
  BY Zenon DEF Labels
<1>2. /\ attempt' \in [Procs -> {"none", "download", "delete",
                                 "legacyDownload", "legacyDelete"}]
      /\ keep' \in [Procs -> BOOLEAN]
  BY Zenon
<1>3. Shape'
  BY Zenon DEF Shape, Unadmitted, HoldsTask, EnqueueLabels
<1> QED BY <1>1, <1>2, <1>3, Zenon

\* A step in which worker p moves between two labels at which it has a task,
\* and changes nothing but the node, the status and its keep flag.
WorksOn(p) ==
  /\ UNCHANGED <<cur, attempt, nested, models, cancelled, enqVars,
                 routingVars, cr>>
  /\ \E l \in Labels \ (EnqueueLabels \cup {"idle", "exited"}) : Goto(p, l)

\* Such a step preserves the type invariant if what it writes has its type.
LEMMA WorksOnTyped ==
  ASSUME TypeInv, NEW p \in Workers, WorksOn(p),
         cur[p] # 0, attempt[p] # "none",
         tasks' \in Seq(Task), DOMAIN tasks' = DOMAIN tasks,
         timers' \subseteq DOMAIN tasks,
         keep' \in [Procs -> BOOLEAN],
         pathLock' \in [Paths -> Procs \cup {None}],
         files' \in [Paths -> {"absent", "partial", "complete"}],
         status' \in [Models -> {"none", "Updating", "Ready", "Failed"}],
         publisher' \in [Models -> Nat]
  PROVE  TypeInv'
<1> USE GopherAssumption
    DEF TypeInv, TypeOK, WorksOn, enqVars, routingVars, Goto, Workers
<1>1. TypeOK'
  OBVIOUS
<1>2. Shape'
  BY DEF Shape, Unadmitted, HoldsTask, EnqueueLabels
<1> QED BY <1>1, <1>2, Zenon

\* Taking a task from the queue preserves the type invariant.
LEMMA PopTyped ==
  ASSUME TypeInv, NEW p \in Workers, NEW s \in DOMAIN tasks,
         PopNormal(p, s) \/ PopHighPriority(p, s)
  PROVE  TypeInv'
<1> USE GopherAssumption
    DEF TypeInv, TypeOK, Take, Goto, Workers, routingVars, nodeVars, statusVars
<1>1. Take(p, s)
  BY Zenon DEF PopNormal, PopHighPriority
<1>2. s # 0
  BY NamedTask, Zenon
<1>3. TypeOK'
  BY <1>1, Zenon DEF Labels
<1>4. Shape'
  BY <1>1, <1>2, Zenon DEF Shape, Unadmitted, HoldsTask, EnqueueLabels
<1> QED BY <1>3, <1>4, Zenon

\* Admission preserves the type invariant, whichever way it ends.
LEMMA BeginTyped ==
  ASSUME TypeInv, NEW p \in Workers, BeginTask(p)
  PROVE  TypeInv'
<1> USE GopherAssumption
    DEF Workers, workVars, enqVars, routingVars, nodeVars, statusVars
<1>0. /\ p \in Procs /\ pc[p] \in {"begin", "deleteWait"}
      /\ cur[p] # 0 /\ TypeOK
  <2>1. pc[p] \in {"begin", "deleteWait"}
    BY Zenon DEF BeginTask, BeginUnrouted, BeginReplaced, BeginLegacyDelete,
           BeginLegacyDownload, BeginDeleteProceed, BeginDeleteStale,
           BeginDeleteWait, BeginDeleteWaits, BeginDownloadProceed,
           BeginDownloadStale, BeginDownloadWait, Deleting, Downloading,
           Admitting
  <2> QED BY <2>1, Zenon DEF TypeInv, Shape, Unadmitted, HoldsTask
<1>1. /\ cur[p] \in DOMAIN tasks /\ cur[p] \in Nat
      /\ ModelOf(p) \in Models /\ models[ModelOf(p)] \in ModelState
  BY <1>0, NamedTask, ZenonT(30) DEF TypeOK, ModelOf, TaskOf
<1>2. CASE BeginUnrouted(p)
  <2>1. /\ tasks' \in Seq(Task) /\ DOMAIN tasks' = DOMAIN tasks
        /\ timers' \subseteq DOMAIN tasks
    BY <1>0, <1>1, <1>2, RequeueTyped, Zenon DEF BeginUnrouted, TypeOK
  <2> QED
    BY <1>0, <1>2, <2>1, ReturnTyped, Zenon DEF TypeInv, TypeOK, BeginUnrouted
<1>3. CASE BeginReplaced(p)
  BY Zenon, <1>0, <1>3, RouteTyped, ReturnTyped
  DEF TypeInv, TypeOK, BeginReplaced
<1>4. CASE BeginDeleteStale(p)
  BY Zenon, <1>0, <1>4, RouteTyped, ReturnTyped
  DEF TypeInv, TypeOK, BeginDeleteStale
<1>5. CASE BeginDownloadStale(p)
  BY Zenon, <1>0, <1>5, RouteTyped, ReturnTyped
  DEF TypeInv, TypeOK, BeginDownloadStale
<1>6. ASSUME NEW sort \in {"download", "delete", "legacyDownload",
                           "legacyDelete"},
             Begins(p, sort), Route(p),
             models' \in [Models -> ModelState],
             cancelled' \in [Procs -> BOOLEAN]
      PROVE  TypeInv'
  <2>1. /\ tasks' \in Seq(Task) /\ DOMAIN tasks' = DOMAIN tasks
        /\ known' \in BOOLEAN /\ children' \subseteq Models
    BY <1>0, <1>6, RouteTyped, Zenon
  <2>2. TypeOK'
    BY <1>0, <1>6, <2>1, Zenon DEF TypeOK, Begins, Goto, Labels
  <2>3. Shape'
    BY <1>0, <1>6, <2>1, Zenon
    DEF TypeInv, TypeOK, Shape, Unadmitted, HoldsTask, EnqueueLabels,
        Begins, Goto
  <2> QED BY <2>2, <2>3, Zenon DEF TypeInv
<1>7. CASE BeginLegacyDelete(p)
  <2>1. models' \in [Models -> ModelState]
    BY <1>0, <1>1, <1>7, LegacyOperationsTyped, Zenon DEF TypeOK, BeginLegacyDelete
  <2>2. cancelled' \in [Procs -> BOOLEAN]
    BY <1>0, <1>7, CancelTyped, Zenon DEF TypeOK, BeginLegacyDelete
  <2> QED BY <1>6, <1>7, <2>1, <2>2, Zenon DEF BeginLegacyDelete
<1>8. CASE BeginLegacyDownload(p)
  <2>1. models' \in [Models -> ModelState]
    BY <1>0, <1>1, <1>8, LegacyOperationsTyped, Zenon DEF TypeOK, BeginLegacyDownload
  <2>2. cancelled' \in [Procs -> BOOLEAN]
    BY <1>0, <1>8, Zenon DEF TypeOK, BeginLegacyDownload
  <2> QED BY <1>6, <1>8, <2>1, <2>2, Zenon DEF BeginLegacyDownload
<1>9. CASE BeginDeleteProceed(p)
  <2>1. beginDelete(models[ModelOf(p)], cur[p], p) \in ModelState
    BY <1>0, <1>1, DeleteOperationsTyped, Zenon
  <2>2. /\ models' \in [Models -> ModelState]
        /\ cancelled' \in [Procs -> BOOLEAN]
    BY <1>0, <1>1, <1>9, <2>1, Zenon DEF TypeOK, BeginDeleteProceed
  <2> QED BY <1>6, <1>9, <2>2, Zenon DEF BeginDeleteProceed
<1>10. CASE BeginDownloadProceed(p)
  <2>1. beginDownload(models[ModelOf(p)], cur[p], p) \in ModelState
    BY <1>0, <1>1, DownloadOperationsTyped, Zenon
  <2>2. /\ models' \in [Models -> ModelState]
        /\ cancelled' \in [Procs -> BOOLEAN]
    BY <1>0, <1>1, <1>10, <2>1, Zenon DEF TypeOK, BeginDownloadProceed
  <2> QED BY <1>6, <1>10, <2>2, Zenon DEF BeginDownloadProceed
<1>11. CASE BeginDeleteWait(p)
  <2> DEFINE m == ModelOf(p)
  <2>1. models' \in [Models -> ModelState] /\ cancelled' \in [Procs -> BOOLEAN]
    <3>1. CASE DeleteReserves(models[m], cur[p])
      <4>1. /\ models' = [models EXCEPT ![m] =
                            beginDelete(models[m], cur[p], p)]
            /\ Cancel(CancelledByDelete(models[m]))
        BY <1>11, <3>1, Zenon DEF BeginDeleteWait
      <4>2. beginDelete(models[m], cur[p], p) \in ModelState
        BY <1>0, <1>1, DeleteOperationsTyped, Zenon
      <4> QED
        BY <1>0, <1>1, <4>1, <4>2, CancelTyped, Zenon DEF TypeOK
    <3>2. CASE ~ DeleteReserves(models[m], cur[p])
      BY <1>0, <1>11, <3>2, Zenon DEF BeginDeleteWait, TypeOK
    <3> QED BY <3>1, <3>2, Zenon
  <2>2. /\ tasks' \in Seq(Task) /\ DOMAIN tasks' = DOMAIN tasks
        /\ known' \in BOOLEAN /\ children' \subseteq Models
    BY <1>0, <1>11, RouteTyped, ZenonT(30) DEF BeginDeleteWait
  <2>3. TypeOK'
    BY <1>0, <1>11, <2>1, <2>2, Zenon DEF TypeOK, BeginDeleteWait, Goto, Labels
  <2>4. Shape'
    BY Zenon, <1>0, <1>11, <2>2
    DEF TypeInv, TypeOK, Shape, Unadmitted, HoldsTask, EnqueueLabels,
        BeginDeleteWait, Goto
  <2> QED BY <2>3, <2>4, Zenon DEF TypeInv
<1>12. CASE BeginDeleteWaits(p)
  <2>1. /\ tasks' \in Seq(Task) /\ DOMAIN tasks' = DOMAIN tasks
        /\ timers' \subseteq DOMAIN tasks
    BY Zenon, <1>0, <1>1, <1>12, RequeueTyped
    DEF BeginDeleteWaits, requeueTaskOnWait
  <2>2. finishDelete(models[ModelOf(p)], cur[p], p, TRUE) \in ModelState
    BY Zenon, <1>0, <1>1, DeleteOperationsTyped
  <2>3. models' \in [Models -> ModelState]
    BY Zenon, <1>0, <1>1, <1>12, <2>2 DEF TypeOK, BeginDeleteWaits
  <2> QED
    BY Zenon, <1>0, <1>12, <2>1, <2>3, ReturnTyped
    DEF TypeInv, TypeOK, BeginDeleteWaits
<1>13. CASE BeginDownloadWait(p)
  <2>1. [RoutedTask(p) EXCEPT !.waited = TRUE] \in Task
    <3>1. RoutedTask(p) \in Task
      BY <1>0, RouteTyped, Zenon
    <3> QED BY Zenon, <3>1 DEF Task
  <2>2. tasks' \in Seq(Task) /\ DOMAIN tasks' = DOMAIN tasks
    BY <1>0, <1>1, <1>13, <2>1, UpdateTask, Zenon DEF TypeOK, BeginDownloadWait
  <2>3. known' \in BOOLEAN /\ children' \subseteq Models
    BY <1>0, <1>13, RouteTyped, Zenon DEF BeginDownloadWait
  <2> QED
    BY <1>0, <1>1, <1>13, <2>2, <2>3, ReturnTyped, Zenon
    DEF TypeInv, TypeOK, BeginDownloadWait
<1> QED
  BY <1>2, <1>3, <1>4, <1>5, <1>7, <1>8, <1>9, <1>10, <1>11, <1>12, <1>13, Zenon
  DEF BeginTask

\* A new number is a number that the dispatcher or a worker may now hold.
LEMMA EnqueueNewTyped ==
  ASSUME TypeInv, NEW p \in Procs, NEW t \in Task, EnqueueNew(p, t),
         pc[p] \notin {"exited"},
         p \in Workers => cur[p] # 0 /\ attempt[p] # "none",
         UNCHANGED <<models, timers, workVars, queue, known, cr, nodeVars,
                     statusVars>>
  PROVE  TypeInv'
<1> USE GopherAssumption
    DEF workVars, enqVars, routingVars, nodeVars, statusVars, Workers
<1> DEFINE r == routeArtifactTask(t, children)
<1>1. r \in Task /\ RouteChildren(r, children) \subseteq Models
  BY Zenon, RoutingTyped DEF TypeInv, TypeOK
<1>2. /\ tasks' \in Seq(Task)
      /\ DOMAIN tasks' = DOMAIN tasks \cup {Len(tasks) + 1}
      /\ Len(tasks) + 1 # 0
  <2>1. tasks \in Seq(Task) /\ tasks' = Append(tasks, r)
    BY Zenon DEF TypeInv, TypeOK, EnqueueNew
  <2>2. Len(tasks) + 1 # 0
    BY <2>1
  <2> QED BY <1>1, <2>1, <2>2, AppendTask, Zenon
<1>3. children' \subseteq Models
  BY Zenon, <1>1 DEF EnqueueNew
<1>4. TypeOK'
  BY <1>2, <1>3, ZenonT(30) DEF TypeInv, TypeOK, EnqueueNew, Goto, Labels
<1>5. Shape'
  BY <1>2, ZenonT(30) DEF TypeInv, TypeOK, Shape, Unadmitted, HoldsTask, EnqueueLabels,
              EnqueueNew, Goto
<1> QED BY <1>4, <1>5, Zenon DEF TypeInv

\* Enqueueing a task object again preserves the type invariant.
LEMMA EnqueueAgainTyped ==
  ASSUME TypeInv, NEW p \in Procs, NEW s \in DOMAIN tasks, NEW t \in Task,
         EnqueueAgain(p, s, t),
         p \in Workers => cur[p] # 0 /\ attempt[p] # "none",
         timers' \subseteq DOMAIN tasks,
         pathLock' \in [Paths -> Procs \cup {None}],
         UNCHANGED <<models, workVars, queue, known, cr, files, statusVars>>
  PROVE  TypeInv'
<1> USE GopherAssumption
    DEF workVars, enqVars, routingVars, nodeVars, statusVars, Workers
<1> DEFINE r == routeArtifactTask(t, children)
<1>1. r \in Task /\ RouteChildren(r, children) \subseteq Models
  BY Zenon, RoutingTyped DEF TypeInv, TypeOK
<1>2. tasks' \in Seq(Task) /\ DOMAIN tasks' = DOMAIN tasks /\ s # 0
  BY <1>1, UpdateTask, NamedTask, Zenon DEF TypeInv, TypeOK, EnqueueAgain
<1>3. children' \subseteq Models
  BY <1>1, Zenon DEF EnqueueAgain
<1>4. TypeOK'
  BY <1>2, <1>3, Zenon DEF TypeInv, TypeOK, EnqueueAgain, Goto, Labels
<1>5. Shape'
  BY <1>2, ZenonT(30)
  DEF TypeInv, TypeOK, Shape, Unadmitted, HoldsTask, EnqueueLabels,
      EnqueueAgain, Goto
<1> QED BY Zenon, <1>4, <1>5 DEF TypeInv

\* A worker past admission has a task, a model and a directory.
LEMMA WorkerHasTask ==
  ASSUME TypeInv, NEW p \in Workers, pc[p] \notin Unadmitted
  PROVE  /\ p \in Procs
         /\ cur[p] # 0 /\ cur[p] \in DOMAIN tasks /\ cur[p] \in Nat
         /\ attempt[p] # "none"
         /\ TaskOf(p) \in Task
         /\ ModelOf(p) \in Models
         /\ PathAt(p) \in Paths
<1>1. /\ p \in Procs /\ cur[p] # 0 /\ cur[p] \in DOMAIN tasks
      /\ attempt[p] # "none"
  BY GopherAssumption, Zenon DEF TypeInv, TypeOK, Shape, Unadmitted, HoldsTask, Workers
<1>2. TaskOf(p) \in Task /\ ModelOf(p) \in Models /\ cur[p] \in Nat
  BY <1>1, NamedTask, Zenon DEF TypeInv, TypeOK, TaskOf, ModelOf
<1> QED BY <1>1, <1>2, GopherAssumption, Zenon DEF PathAt

\* Writing a status keeps the status and its publisher well typed.
LEMMA PublishTyped ==
  ASSUME TypeInv, NEW p \in Workers, pc[p] \notin Unadmitted,
         NEW value \in {"none", "Updating", "Ready", "Failed"},
         Publish(p, value) \/ UNCHANGED statusVars
  PROVE  /\ status' \in [Models -> {"none", "Updating", "Ready", "Failed"}]
         /\ publisher' \in [Models -> Nat]
<1>1. ModelOf(p) \in Models /\ cur[p] \in Nat
  BY WorkerHasTask, Zenon
<1>2. /\ status \in [Models -> {"none", "Updating", "Ready", "Failed"}]
      /\ publisher \in [Models -> Nat]
  BY Zenon DEF TypeInv, TypeOK
<1>3. CASE Publish(p, value)
  BY <1>1, <1>2, <1>3, Zenon DEF Publish
<1>4. CASE UNCHANGED statusVars
  BY <1>2, <1>4, Zenon DEF statusVars
<1> QED BY <1>3, <1>4, Zenon

\* The two checks for a stale download preserve the type invariant: they go on,
\* give up, hand the cleanup to the queue, or run it inline.
LEMMA StaleDownloadTyped ==
  ASSUME TypeInv, NEW p \in Workers, NEW label, NEW next,
         label \notin Unadmitted, next \in {"lock", "publish"},
         StaleDownload(p, label, next)
  PROVE  TypeInv'
<1> USE GopherAssumption
    DEF workVars, enqVars, routingVars, nodeVars, statusVars, Unadmitted
<1>0. pc[p] \notin Unadmitted
  BY Zenon DEF StaleDownload
<1>1. /\ p \in Procs /\ cur[p] # 0 /\ cur[p] \in DOMAIN tasks
      /\ attempt[p] # "none"
      /\ TaskOf(p) \in Task
  BY <1>0, WorkerHasTask, Zenon
<1>2. CleanupTask(TaskOf(p)) \in Task
  BY Zenon, <1>1 DEF CleanupTask, Task
<1>3. CASE /\ cr[ModelOf(p)] = "deleting"
           /\ usesArtifactTaskCoordinator(TaskOf(p))
  <2>1. EnqueueNew(p, CleanupTask(TaskOf(p))) /\ UNCHANGED workVars
    BY <1>3, Zenon DEF StaleDownload, CleanupDeletingModel
  <2> QED
    BY <1>0, <1>1, <1>2, <2>1, EnqueueNewTyped, Zenon DEF StaleDownload
<1>4. CASE /\ cr[ModelOf(p)] = "deleting"
           /\ ~ usesArtifactTaskCoordinator(TaskOf(p))
  <2>1. /\ tasks' = Append(tasks, CleanupTask(TaskOf(p)))
        /\ cur' = [cur EXCEPT ![p] = Len(tasks) + 1]
        /\ nested' = [nested EXCEPT ![p] = cur[p]]
        /\ Goto(p, "begin")
        /\ UNCHANGED <<attempt, keep, children, enq, models, timers,
                       cancelled, queue, known, cr, pathLock, files, status,
                       publisher>>
    BY <1>4, Zenon DEF StaleDownload, CleanupDeletingModel
  <2>a. tasks \in Seq(Task) /\ tasks' = Append(tasks, CleanupTask(TaskOf(p)))
    BY <2>1, Zenon DEF TypeInv, TypeOK
  <2>2. /\ tasks' \in Seq(Task)
        /\ DOMAIN tasks' = DOMAIN tasks \cup {Len(tasks) + 1}
        /\ Len(tasks) + 1 # 0
    BY <1>2, <2>a, AppendTask
  <2>3. TypeOK'
    BY <1>1, <2>1, <2>2, ZenonT(30) DEF TypeInv, TypeOK, Goto, Labels
  <2>4. Shape'
    BY <1>1, <2>1, <2>2, Zenon
    DEF TypeInv, TypeOK, Shape, Unadmitted, HoldsTask, EnqueueLabels,
        Goto, Workers
  <2> QED BY <2>3, <2>4, Zenon DEF TypeInv
<1>5. CASE cr[ModelOf(p)] # "deleting"
  <2>1. WorksOn(p) /\ UNCHANGED <<tasks, timers, keep, pathLock, files,
                                  status, publisher>>
    BY <1>5, Zenon DEF StaleDownload, WorksOn, Labels, EnqueueLabels
  <2> QED
    BY Zenon, <1>1, <2>1, WorksOnTyped DEF TypeInv, TypeOK
<1> QED BY <1>3, <1>4, <1>5, Zenon

\* Finding the directory in other hands preserves the type invariant.
LEMMA PathBusyTyped ==
  ASSUME TypeInv, NEW p \in Workers, NEW labels,
         labels \cap Unadmitted = {}, PathBusy(p, labels)
  PROVE  TypeInv'
<1>0. pc[p] \notin Unadmitted
  BY Zenon DEF PathBusy, Unadmitted
<1>1. /\ p \in Procs /\ cur[p] # 0 /\ cur[p] \in DOMAIN tasks
      /\ attempt[p] # "none"
  BY Zenon, <1>0, WorkerHasTask
<1>2. /\ tasks' \in Seq(Task) /\ DOMAIN tasks' = DOMAIN tasks
      /\ timers' \subseteq DOMAIN tasks
  BY Zenon, <1>1, RequeueTyped DEF PathBusy, requeueTaskOnWait, TypeInv
<1>3. keep' \in [Procs -> BOOLEAN]
  BY <1>1, Zenon DEF PathBusy, TypeInv, TypeOK
<1>4. WorksOn(p) /\ UNCHANGED <<pathLock, files, status, publisher>>
  BY Zenon DEF PathBusy, WorksOn, Labels, EnqueueLabels, nodeVars, statusVars,
         enqVars, routingVars
<1> QED
  BY Zenon, <1>1, <1>2, <1>3, <1>4, WorksOnTyped DEF TypeInv, TypeOK

\* Handing a download to a normal worker preserves the type invariant.
LEMMA DemoteTyped ==
  ASSUME TypeInv, NEW p \in Workers, pc[p] \notin Unadmitted,
         Demote(p), pathLock' \in [Paths -> Procs \cup {None}]
  PROVE  TypeInv'
<1>1. /\ p \in Procs /\ cur[p] # 0 /\ cur[p] \in DOMAIN tasks
      /\ attempt[p] # "none"
      /\ TaskOf(p) \in Task
  BY WorkerHasTask, Zenon
<1>2. [TaskOf(p) EXCEPT !.normalOnly = TRUE] \in Task
  BY Zenon, <1>1 DEF Task
<1>3. timers' \subseteq DOMAIN tasks
  BY Zenon DEF Demote, TypeInv, TypeOK
<1> QED
  BY <1>1, <1>2, <1>3, EnqueueAgainTyped, Zenon DEF Demote

\* Every step of a download preserves the type invariant.
LEMMA DownloadTyped ==
  ASSUME TypeInv, NEW p \in Workers, DownloadStep(p)
  PROVE  TypeInv'
<1> USE GopherAssumption
    DEF workVars, enqVars, routingVars, nodeVars, statusVars, Unadmitted
<1>a. pc[p] \notin Unadmitted
  BY Zenon
  DEF DownloadStep, CheckBeforeDownload, CheckAfterDownload, StaleDownload,
         LockPath, LockPathBusy, PathBusy, LockFails, MarkUpdating,
         markModelOnNodeFailed,
         finishDownloadStatus, SourcePlain, SharedSource, SourceShared,
         SourceSharedRetry, SourceSharedDemote, SourceDirect, DirectBusy,
         HoldPath, DirectReuse, DirectWait, MayTransfer, DirectDemote,
         DirectStart, DirectFinish
<1>b. /\ p \in Procs /\ cur[p] # 0 /\ cur[p] \in DOMAIN tasks
      /\ attempt[p] # "none"
      /\ PathAt(p) \in Paths
  BY Zenon, <1>a, WorkerHasTask
<1>c. HoldPath(p) => pathLock' \in [Paths -> Procs \cup {None}]
  BY <1>b, ZenonT(30) DEF HoldPath, TypeInv, TypeOK
<1>1. CASE CheckBeforeDownload(p)
  BY <1>1, StaleDownloadTyped, Zenon DEF CheckBeforeDownload
<1>2. CASE CheckAfterDownload(p)
  BY <1>2, StaleDownloadTyped, Zenon DEF CheckAfterDownload
<1>3. CASE LockPath(p)
  <2>1. WorksOn(p) /\ UNCHANGED <<tasks, timers, keep, files, status,
                                  publisher>>
    BY <1>3, Zenon DEF LockPath, FirstStep, WorksOn, Labels, EnqueueLabels
  <2>2. pathLock' \in [Paths -> Procs \cup {None}]
    BY Zenon, <1>b, <1>3 DEF LockPath, TypeInv, TypeOK
  <2> QED BY Zenon, <1>b, <2>1, <2>2, WorksOnTyped DEF TypeInv, TypeOK
<1>4. CASE LockPathBusy(p) \/ DirectBusy(p)
  BY <1>4, PathBusyTyped, Zenon DEF LockPathBusy, DirectBusy
<1>5. CASE MarkUpdating(p) \/ markModelOnNodeFailed(p)
  <2>1. WorksOn(p) /\ UNCHANGED <<tasks, timers, keep, pathLock, files>>
    BY Zenon, <1>5
    DEF MarkUpdating, markModelOnNodeFailed, WorksOn, Labels, EnqueueLabels
  <2>2. \/ Publish(p, "Updating") \/ UNCHANGED statusVars
        \/ Publish(p, "Failed")
    BY <1>5, Zenon DEF MarkUpdating, markModelOnNodeFailed, WriteStatus
  <2>3. /\ status' \in [Models -> {"none", "Updating", "Ready", "Failed"}]
        /\ publisher' \in [Models -> Nat]
    BY <1>a, <2>2, PublishTyped, Zenon
  <2> QED BY Zenon, <1>b, <2>1, <2>3, WorksOnTyped DEF TypeInv, TypeOK
<1>6. CASE finishDownloadStatus(p)
  <2>1. WorksOn(p) /\ UNCHANGED <<keep, pathLock, files>>
    BY <1>6, Zenon DEF finishDownloadStatus, WorksOn, Labels, EnqueueLabels
  <2>2. Publish(p, "Ready") \/ UNCHANGED statusVars
    BY <1>6, Zenon DEF finishDownloadStatus
  <2>3. /\ status' \in [Models -> {"none", "Updating", "Ready", "Failed"}]
        /\ publisher' \in [Models -> Nat]
    BY <1>a, <2>2, PublishTyped, Zenon
  <2>4. RequeueWithinBudget(cur[p]) \/ UNCHANGED <<tasks, timers>>
    BY <1>6, Zenon DEF finishDownloadStatus
  <2>5. /\ tasks' \in Seq(Task) /\ DOMAIN tasks' = DOMAIN tasks
        /\ timers' \subseteq DOMAIN tasks
    BY <1>b, <2>4, RequeueTyped, Zenon DEF TypeInv, TypeOK
  <2> QED BY Zenon, <1>b, <2>1, <2>3, <2>5, WorksOnTyped DEF TypeInv, TypeOK
<1>7. CASE SourcePlain(p) \/ SourceDirect(p) \/ LockFails(p)
  <2>1. WorksOn(p) /\ UNCHANGED <<tasks, timers, keep, pathLock, files,
                                  status, publisher>>
    BY Zenon, <1>7 DEF SourcePlain, SourceDirect, LockFails, WorksOn, Labels,
                EnqueueLabels
  <2> QED BY Zenon, <1>b, <2>1, WorksOnTyped DEF TypeInv, TypeOK
<1>8. CASE SourceShared(p) \/ DirectFinish(p)
  <2>1. WorksOn(p) /\ UNCHANGED <<tasks, timers, keep, pathLock, status,
                                  publisher>>
    BY Zenon, <1>8
    DEF SourceShared, DirectFinish, WorksOn, Labels, EnqueueLabels
  <2>2. files' \in [Paths -> {"absent", "partial", "complete"}]
    BY <1>b, <1>8, Zenon DEF SourceShared, DirectFinish, TypeInv, TypeOK
  <2> QED BY Zenon, <1>b, <2>1, <2>2, WorksOnTyped DEF TypeInv, TypeOK
<1>9. CASE SourceSharedRetry(p)
  <2>1. WorksOn(p) /\ UNCHANGED <<keep, pathLock, files, status, publisher>>
    BY <1>9, Zenon DEF SourceSharedRetry, WorksOn, Labels, EnqueueLabels
  <2>2. RequeueWithinBudget(cur[p]) \/ UNCHANGED <<tasks, timers>>
    BY <1>9, Zenon DEF SourceSharedRetry
  <2>3. /\ tasks' \in Seq(Task) /\ DOMAIN tasks' = DOMAIN tasks
        /\ timers' \subseteq DOMAIN tasks
    BY <1>b, <2>2, RequeueTyped, Zenon DEF TypeInv, TypeOK
  <2> QED BY Zenon, <1>b, <2>1, <2>3, WorksOnTyped DEF TypeInv, TypeOK
<1>10. CASE SourceSharedDemote(p)
  BY <1>a, <1>10, DemoteTyped, Zenon DEF SourceSharedDemote, TypeInv, TypeOK
<1>11. CASE DirectDemote(p)
  BY Zenon, <1>a, <1>c, <1>11, DemoteTyped DEF DirectDemote, MayTransfer
<1>12. CASE DirectReuse(p)
  <2>1. /\ WorksOn(p) /\ HoldPath(p)
        /\ UNCHANGED <<tasks, timers, keep, files, status, publisher>>
    BY <1>12, Zenon DEF DirectReuse, WorksOn, Labels, EnqueueLabels
  <2> QED BY Zenon, <1>b, <1>c, <2>1, WorksOnTyped DEF TypeInv, TypeOK
<1>13. CASE DirectWait(p)
  <2>1. /\ WorksOn(p) /\ HoldPath(p) /\ RequeueWithinBudget(cur[p])
        /\ UNCHANGED <<keep, files, status, publisher>>
    BY <1>13, Zenon DEF DirectWait, WorksOn, Labels, EnqueueLabels
  <2>2. /\ tasks' \in Seq(Task) /\ DOMAIN tasks' = DOMAIN tasks
        /\ timers' \subseteq DOMAIN tasks
    BY Zenon, <1>b, <2>1, RequeueTyped DEF TypeInv
  <2> QED BY Zenon, <1>b, <1>c, <2>1, <2>2, WorksOnTyped DEF TypeInv, TypeOK
<1>14. CASE DirectStart(p)
  <2>1. /\ WorksOn(p) /\ HoldPath(p)
        /\ UNCHANGED <<tasks, timers, keep, status, publisher>>
    BY <1>14, Zenon DEF DirectStart, MayTransfer, WorksOn, Labels, EnqueueLabels
  <2>2. files' \in [Paths -> {"absent", "partial", "complete"}]
    <3>1. PICK f \in {"partial", files[PathAt(p)]} :
            files' = [files EXCEPT ![PathAt(p)] = f]
      BY <1>14, ZenonT(30) DEF DirectStart
    <3> QED BY <1>b, <3>1, Zenon DEF TypeInv, TypeOK
  <2> QED BY Zenon, <1>b, <1>c, <2>1, <2>2, WorksOnTyped DEF TypeInv, TypeOK
<1> QED
  BY <1>1, <1>2, <1>3, <1>4, <1>5, <1>6, <1>7, <1>8, <1>9, <1>10, <1>11,
     <1>12, <1>13, <1>14, Zenon DEF DownloadStep

\* Every step of a delete preserves the type invariant.
LEMMA DeleteTyped ==
  ASSUME TypeInv, NEW p \in Workers, DeleteStep(p)
  PROVE  TypeInv'
<1> USE GopherAssumption
    DEF workVars, enqVars, routingVars, nodeVars, statusVars, Unadmitted
<1>a. pc[p] \notin Unadmitted
  BY Zenon
  DEF DeleteStep, AdmittedDelete, RemoveOrdinary, RemoveShared, EraseBusy,
         PathBusy, RemoveSharedRetry, Erase, EraseLinked, EraseParentBusy,
         EraseFails, Unpublish
<1>b. /\ p \in Procs /\ cur[p] # 0 /\ cur[p] \in DOMAIN tasks
      /\ attempt[p] # "none"
      /\ PathAt(p) \in Paths
  BY Zenon, <1>a, WorkerHasTask
<1>1. CASE AdmittedDelete(p) \/ RemoveOrdinary(p)
  <2>1. WorksOn(p) /\ UNCHANGED <<tasks, timers, keep, pathLock, files,
                                  status, publisher>>
    BY <1>1, Zenon DEF AdmittedDelete, RemoveOrdinary, WorksOn, Labels, EnqueueLabels
  <2> QED BY Zenon, <1>b, <2>1, WorksOnTyped DEF TypeInv, TypeOK
<1>2. CASE RemoveShared(p)
  <2>1. WorksOn(p) /\ UNCHANGED <<tasks, timers, keep, pathLock, status,
                                  publisher>>
    BY <1>2, Zenon DEF RemoveShared, WorksOn, Labels, EnqueueLabels
  <2>2. files' \in [Paths -> {"absent", "partial", "complete"}]
    <3>1. PICK x : /\ x \in {files[PathAt(p)], "absent"}
                   /\ UNCHANGED files \/ files' = [files EXCEPT ![PathAt(p)] = x]
      BY <1>2, Zenon DEF RemoveShared
    <3>2. files \in [Paths -> {"absent", "partial", "complete"}]
      BY Zenon DEF TypeInv, TypeOK
    <3> QED BY <1>b, <3>1, <3>2, Zenon
  <2> QED BY Zenon, <1>b, <2>1, <2>2, WorksOnTyped DEF TypeInv, TypeOK
<1>3. CASE EraseBusy(p)
  BY <1>3, PathBusyTyped, Zenon DEF EraseBusy
<1>4. CASE RemoveSharedRetry(p)
  <2>1. /\ WorksOn(p) /\ RequeueWithinBudget(cur[p])
        /\ UNCHANGED <<pathLock, files, status, publisher>>
    BY Zenon, <1>4 DEF RemoveSharedRetry, WorksOn, Labels, EnqueueLabels
  <2>2. /\ tasks' \in Seq(Task) /\ DOMAIN tasks' = DOMAIN tasks
        /\ timers' \subseteq DOMAIN tasks
    BY <1>b, <2>1, RequeueTyped, Zenon DEF TypeInv
  <2>3. keep' \in [Procs -> BOOLEAN]
    BY <1>b, <1>4, Zenon DEF RemoveSharedRetry, TypeInv, TypeOK
  <2> QED BY Zenon, <1>b, <2>1, <2>2, <2>3, WorksOnTyped DEF TypeInv, TypeOK
<1>5. CASE Erase(p) \/ EraseLinked(p) \/ EraseFails(p)
  <2>1. WorksOn(p) /\ UNCHANGED <<tasks, timers, keep, status, publisher>>
    BY <1>5, Zenon DEF Erase, EraseLinked, EraseFails, WorksOn, Labels, EnqueueLabels
  <2>2. files' \in [Paths -> {"absent", "partial", "complete"}]
    <3>1. \/ UNCHANGED files
          \/ \E f \in {"absent", "partial", files[PathAt(p)]} :
               files' = [files EXCEPT ![PathAt(p)] = f]
      <4>1. CASE Erase(p)
        BY <4>1, Zenon DEF Erase
      <4>2. CASE EraseLinked(p)
        BY <4>2, Zenon DEF EraseLinked
      <4>3. CASE EraseFails(p)
        BY <4>3, Zenon DEF EraseFails
      <4> QED BY <1>5, <4>1, <4>2, <4>3, Zenon
    <3> QED BY <1>b, <3>1, ZenonT(30) DEF TypeInv, TypeOK
  <2>3. pathLock' \in [Paths -> Procs \cup {None}]
    <3>1. pathLock' = [pathLock EXCEPT ![PathAt(p)] = p]
      BY <1>5, Zenon DEF Erase, EraseLinked, EraseFails
    <3> QED BY <1>b, <3>1, Zenon DEF TypeInv, TypeOK
  <2> QED BY Zenon, <1>b, <2>1, <2>2, <2>3, WorksOnTyped DEF TypeInv, TypeOK
<1>7. CASE EraseParentBusy(p)
  <2>1. /\ WorksOn(p) /\ RequeueWithinBudget(cur[p])
        /\ UNCHANGED <<status, publisher>>
    BY <1>7, Zenon DEF EraseParentBusy, requeueTaskOnWait, WorksOn, Labels,
                EnqueueLabels
  <2>2. /\ tasks' \in Seq(Task) /\ DOMAIN tasks' = DOMAIN tasks
        /\ timers' \subseteq DOMAIN tasks
    BY Zenon, <1>b, <2>1, RequeueTyped DEF TypeInv
  <2>3. files' \in [Paths -> {"absent", "partial", "complete"}]
    BY <1>b, <1>7, Zenon DEF EraseParentBusy, TypeInv, TypeOK
  <2>4. /\ pathLock' \in [Paths -> Procs \cup {None}]
        /\ keep' \in [Procs -> BOOLEAN]
    BY <1>b, <1>7, Zenon DEF EraseParentBusy, TypeInv, TypeOK
  <2> QED BY Zenon, <1>b, <2>1, <2>2, <2>3, <2>4, WorksOnTyped DEF TypeInv, TypeOK
<1>6. CASE Unpublish(p)
  <2>1. WorksOn(p) /\ UNCHANGED <<tasks, timers, keep, pathLock, files>>
    BY <1>6, Zenon DEF Unpublish, WorksOn, Labels, EnqueueLabels
  <2>2. /\ status' \in [Models -> {"none", "Updating", "Ready", "Failed"}]
        /\ publisher' \in [Models -> Nat]
    BY <1>a, <1>6, PublishTyped, Zenon DEF Unpublish
  <2> QED BY Zenon, <1>b, <2>1, <2>2, WorksOnTyped DEF TypeInv, TypeOK
<1> QED
  BY <1>1, <1>2, <1>3, <1>4, <1>5, <1>6, <1>7, Zenon DEF DeleteStep

\* The deferred calls at the end of processTask preserve the type invariant.
LEMMA FinishTyped ==
  ASSUME TypeInv, NEW p \in Workers, ReleaseFileLocks(p) \/ Finish(p)
  PROVE  TypeInv'
<1> USE GopherAssumption
    DEF workVars, enqVars, routingVars, nodeVars, statusVars, Unadmitted
<1>a. pc[p] \notin Unadmitted
  BY Zenon DEF ReleaseFileLocks, Finish
<1>b. /\ p \in Procs /\ cur[p] # 0 /\ attempt[p] # "none" /\ cur[p] \in Nat
      /\ ModelOf(p) \in Models
  BY <1>a, WorkerHasTask, Zenon
<1>1. CASE ReleaseFileLocks(p)
  <2>1. WorksOn(p) /\ UNCHANGED <<tasks, timers, keep, files, status,
                                  publisher>>
    BY Zenon, <1>1 DEF ReleaseFileLocks, WorksOn, Labels, EnqueueLabels
  <2>2. pathLock' \in [Paths -> Procs \cup {None}]
    BY <1>1, Zenon DEF ReleaseFileLocks, TypeInv, TypeOK
  <2> QED BY Zenon, <1>b, <2>1, <2>2, WorksOnTyped DEF TypeInv, TypeOK
<1>2. CASE Finish(p)
  <2> DEFINE m == ModelOf(p)
  <2>1. models[m] \in ModelState /\ keep[p] \in BOOLEAN
    BY <1>b, Zenon DEF TypeInv, TypeOK
  <2>2. /\ finishDownload(models[m], p) \in ModelState
        /\ finishDelete(models[m], cur[p], p, keep[p]) \in ModelState
        /\ finishLegacyTask(models[m], p, "Download") \in ModelState
        /\ finishLegacyTask(models[m], p, "Delete") \in ModelState
    BY Zenon, <1>b, <2>1, DownloadOperationsTyped, DeleteOperationsTyped,
       LegacyOperationsTyped
  <2>3. attempt[p] \in {"download", "delete", "legacyDownload", "legacyDelete"}
    BY <1>b, ZenonT(30) DEF TypeInv, TypeOK
  <2>4. models' \in [Models -> ModelState]
    BY <1>b, <1>2, <2>2, <2>3, Zenon DEF Finish, TypeInv, TypeOK
  <2> QED
    BY Zenon, <1>2, <2>4, ReturnTyped DEF Finish, TypeInv, TypeOK
<1> QED BY <1>1, <1>2, Zenon

\* What the dispatcher, the resources and shutdown do preserves the type
\* invariant.
LEMMA EnvironmentTyped ==
  ASSUME TypeInv,
         \/ \E m \in Models, in \in Inputs : DispatchInput(m, in)
         \/ \E s \in timers : DispatchRequeued(s)
         \/ \E m \in Models : ResourceChange(m)
         \/ Stop
         \/ \E p \in Procs : Exit(p)
  PROVE  TypeInv'
<1> USE GopherAssumption
    DEF workVars, enqVars, routingVars, nodeVars, statusVars, Unadmitted
<1>1. ASSUME NEW m \in Models, NEW in \in Inputs, DispatchInput(m, in)
      PROVE  TypeInv'
  <2>1. NewTask(in, m) \in Task
    BY Zenon DEF NewTask, Task
  <2> QED
    BY Zenon, <1>1, <2>1, EnqueueNewTyped DEF DispatchInput, Workers
<1>2. ASSUME NEW s \in timers, DispatchRequeued(s)
      PROVE  TypeInv'
  <2>1. s \in DOMAIN tasks /\ tasks[s] \in Task
    BY Zenon, NamedTask DEF TypeInv, TypeOK
  <2>2. timers' \subseteq DOMAIN tasks
    BY <1>2, Zenon DEF DispatchRequeued, TypeInv, TypeOK
  <2> QED
    BY Zenon, <1>2, <2>1, <2>2, EnqueueAgainTyped
    DEF DispatchRequeued, Workers, TypeInv, TypeOK
<1>3. ASSUME NEW m \in Models, ResourceChange(m)
      PROVE  TypeInv'
  <2>1. cr' \in [Models -> {"live", "deleting", "gone", "replaced"}]
    <3>1. PICK x \in {"deleting", "gone", "replaced"} : cr' = [cr EXCEPT ![m] = x]
      BY <1>3, Zenon
      DEF ResourceChange, ResourceDeleting, ResourceGone, ResourceReplaced
    <3>2. cr \in [Models -> {"live", "deleting", "gone", "replaced"}]
      BY Zenon DEF TypeInv, TypeOK
    <3> QED BY <3>1, <3>2, Zenon
  <2>2. TypeOK'
    BY <1>3, <2>1, Zenon DEF ResourceChange, TypeInv, TypeOK
  <2>3. Shape'
    BY Zenon, <1>3 DEF ResourceChange, TypeInv, Shape, Unadmitted, HoldsTask
  <2> QED BY <2>2, <2>3, Zenon DEF TypeInv
<1>4. CASE Stop
  BY <1>4, Zenon DEF Stop, TypeInv, TypeOK, Shape, Unadmitted, HoldsTask
<1>5. ASSUME NEW p \in Procs, Exit(p)
      PROVE  TypeInv'
  <2>1. TypeOK'
    BY Zenon, <1>5 DEF Exit, Goto, TypeInv, TypeOK, Labels
  <2>2. /\ \A q \in Procs : pc'[q] = IF q = p THEN "exited" ELSE pc[q]
        /\ UNCHANGED <<cur, enq, attempt>>
    BY <1>5, ZenonT(30) DEF Exit, Goto, TypeInv, TypeOK
  <2>3. Shape'
    BY <2>2, Zenon DEF TypeInv, Shape, Unadmitted, HoldsTask, EnqueueLabels, Workers
  <2> QED BY <2>1, <2>3, Zenon DEF TypeInv
<1> QED BY <1>1, <1>2, <1>3, <1>4, <1>5, Zenon

\* Every step keeps the strengthened type invariant.
LEMMA TypeStep == TypeInv /\ [Next]_vars => TypeInv'
<1> SUFFICES ASSUME TypeInv, [Next]_vars PROVE TypeInv'
  BY Zenon
<1>1. CASE Next
  BY <1>1, EnqueueTyped, PopTyped, BeginTyped, DownloadTyped, DeleteTyped,
     FinishTyped, EnvironmentTyped, Zenon DEF Next, Taken, WorkerStep
<1>2. CASE UNCHANGED vars
  BY Zenon, <1>2
  DEF vars, workVars, enqVars, routingVars, nodeVars, statusVars,
              TypeInv, TypeOK, Shape, Unadmitted, HoldsTask
<1> QED BY <1>1, <1>2, Zenon

\* Every variable of the agent keeps its type in every behaviour, for any
\* number of models, directories, workers and tasks.
THEOREM TypeCorrect == Spec => []TypeOK
<1>1. TypeInv => TypeOK
  BY Zenon DEF TypeInv
<1> QED BY <1>1, InitTyped, TypeStep, PTL DEF Spec
-----------------------------------------------------------------------------
(***************************************************************************)
(* Exclusion and order.  What makes two attempts of a model exclude each   *)
(* other is that an attempt is the tracker's record of it: a worker that   *)
(* downloads is the model's download, and one that deletes owns a barrier  *)
(* that no download is behind.  The records order the work by its numbers. *)
(***************************************************************************)
DownloadLabels ==
  {"updating", "source", "direct", "write", "recheck", "publish", "failed"}

\* A worker and the tracker agree on the worker's attempt, and a worker in the
\* middle of a download, or in enqueueTask, works on a download.
Slot(p) ==
  LET st == models[ModelOf(p)]
  IN  /\ attempt[p] = "download" =>
           /\ TaskOf(p).type # "Delete"
           /\ st.download = p
           /\ st.newestDownloadSequence = cur[p]
           /\ cur[p] > st.finishedDeleteSequence
      /\ attempt[p] = "delete" =>
           /\ TaskOf(p).type = "Delete"
           /\ st.deleteAttempt = p
           /\ st.deleteSequence = cur[p]
           /\ st.download = None
      /\ attempt[p] \in {"download", "delete"} =>
           /\ pc[p] \notin Unadmitted
           /\ usesArtifactTaskCoordinator(TaskOf(p))
      /\ pc[p] \in DownloadLabels \cup EnqueueLabels =>
           TaskOf(p).type # "Delete"

\* A barrier is later than everything its model admitted, and the status was
\* last written, by task w, as admitted work or as the owner of the barrier.
Ordered(st, w) ==
  /\ st.deleteSequence # 0 =>
       /\ st.deleteSequence > st.newestDownloadSequence
       /\ st.deleteSequence > st.finishedDeleteSequence
  /\ \/ w <= st.newestDownloadSequence
     \/ w <= st.finishedDeleteSequence
     \/ st.download = None /\ w = st.deleteSequence

Ownership == \A p \in Workers : Slot(p)

Order == \A m \in Models : Ordered(models[m], publisher[m])

OrderInv == TypeInv /\ Ownership /\ Order
-----------------------------------------------------------------------------
(***************************************************************************)
(* A task object keeps its type, its model and its kind, and stays shared  *)
(* once it is.                                                             *)
(***************************************************************************)
Like(u, t) ==
  /\ u.type = t.type
  /\ u.model = t.model
  /\ u.kind = t.kind
  /\ t.shared => u.shared

Stable ==
  /\ DOMAIN tasks \subseteq DOMAIN tasks'
  /\ \A s \in DOMAIN tasks : Like(tasks'[s], tasks[s])

\* Routing keeps what is stable about a task.
LEMMA RoutingLike ==
  ASSUME NEW t \in Task, NEW kids
  PROVE  Like(routeArtifactTask(t, kids), t)
  BY Zenon DEF Task, Like, routeArtifactTask

\* A task that the coordinator admitted stays one that it admits.
LEMMA CoordinatedLike ==
  ASSUME NEW t \in Task, NEW u \in Task, Like(u, t),
         usesArtifactTaskCoordinator(t)
  PROVE  usesArtifactTaskCoordinator(u)
  BY Zenon DEF Task, Like, usesArtifactTaskCoordinator, isDirectFileTask

\* Replacing a task object by one like it is stable.
LEMMA UpdateStable ==
  ASSUME TypeInv, NEW s \in DOMAIN tasks, NEW t \in Task, Like(t, tasks[s]),
         tasks' = [tasks EXCEPT ![s] = t]
  PROVE  Stable
  BY UpdateTask, Zenon DEF TypeInv, TypeOK, Stable, Like

\* A new task object leaves the others alone.
LEMMA AppendStable ==
  ASSUME TypeInv, NEW t \in Task, tasks' = Append(tasks, t)
  PROVE  Stable
<1>1. tasks \in Seq(Task)
  BY Zenon DEF TypeInv, TypeOK
<1>2. /\ DOMAIN tasks \subseteq DOMAIN tasks'
      /\ \A s \in DOMAIN tasks : tasks'[s] = tasks[s]
  BY <1>1, AppendTask, Zenon
<1> QED BY <1>2, Zenon DEF Stable, Like

\* Starting a wait is stable.
LEMMA RequeueStable ==
  ASSUME TypeInv, NEW s \in DOMAIN tasks,
         RequeueWithinBudget(s) \/ UNCHANGED tasks
  PROVE  Stable
<1>1. CASE RequeueWithinBudget(s)
  <2>1. tasks[s] \in Task
    BY NamedTask, Zenon DEF TypeInv, TypeOK
  <2> DEFINE t == [tasks[s] EXCEPT !.waited = TRUE]
  <2>2. t \in Task /\ Like(t, tasks[s])
    BY Zenon, <2>1 DEF Task, Like
  <2>3. tasks' = [tasks EXCEPT ![s] = t]
    BY <1>1, Zenon DEF RequeueWithinBudget
  <2> QED BY Zenon, <2>2, <2>3, UpdateStable
<1>2. CASE UNCHANGED tasks
  BY <1>2, Zenon DEF Stable, Like
<1> QED BY <1>1, <1>2, Zenon

\* Routing a task that a worker has taken is stable.
LEMMA RouteStable ==
  ASSUME TypeInv, NEW p \in Procs, cur[p] # 0, Route(p)
  PROVE  Stable
<1>1. cur[p] \in DOMAIN tasks /\ TaskOf(p) \in Task
  BY NamedTask, Zenon DEF TypeInv, TypeOK, TaskOf
<1>2. RoutedTask(p) \in Task /\ Like(RoutedTask(p), tasks[cur[p]])
  BY <1>1, RoutingTyped, RoutingLike, Zenon DEF RoutedTask, TaskOf
<1>3. tasks' = [tasks EXCEPT ![cur[p]] = RoutedTask(p)]
  BY Zenon DEF Route
<1> QED BY Zenon, <1>1, <1>2, <1>3, UpdateStable

\* The first half of enqueueTask is stable.
LEMMA EnqueueStable ==
  ASSUME TypeInv, NEW p \in Procs, NEW t \in Task,
         \/ EnqueueNew(p, t)
         \/ \E s \in DOMAIN tasks : EnqueueAgain(p, s, t) /\ Like(t, tasks[s])
  PROVE  Stable
<1> DEFINE r == routeArtifactTask(t, children)
<1>1. r \in Task /\ Like(r, t)
  BY RoutingTyped, RoutingLike, Zenon
<1>2. CASE EnqueueNew(p, t)
  BY <1>1, <1>2, AppendStable, Zenon DEF EnqueueNew
<1>3. ASSUME NEW s \in DOMAIN tasks, EnqueueAgain(p, s, t), Like(t, tasks[s])
      PROVE  Stable
  <2>1. Like(r, tasks[s])
    BY <1>1, <1>3, Zenon DEF Like
  <2>2. tasks' = [tasks EXCEPT ![s] = r]
    BY <1>3, Zenon DEF EnqueueAgain
  <2> QED BY Zenon, <1>1, <2>1, <2>2, UpdateStable
<1> QED BY <1>2, <1>3, Zenon
-----------------------------------------------------------------------------
(***************************************************************************)
(* How the slots of workers survive a step.                                *)
(***************************************************************************)
Busy(q) == attempt[q] \in {"download", "delete"}

\* A worker with an attempt of a file model has a task, and its model has a
\* tracker record.
LEMMA BusyHasTask ==
  ASSUME TypeInv, NEW q \in Workers, Slot(q), Busy(q)
  PROVE  /\ pc[q] \notin Unadmitted /\ q \in Procs /\ q # None
         /\ cur[q] # 0 /\ cur[q] \in DOMAIN tasks /\ cur[q] \in Nat
         /\ ModelOf(q) \in Models
         /\ models[ModelOf(q)] \in ModelState
<1>1. pc[q] \notin Unadmitted
  BY Zenon DEF Slot, Busy
<1>2. /\ q \in Procs /\ cur[q] # 0 /\ cur[q] \in DOMAIN tasks /\ cur[q] \in Nat
      /\ ModelOf(q) \in Models
  BY <1>1, WorkerHasTask, Zenon
<1> QED BY <1>1, <1>2, NoneAssumption, Zenon DEF TypeInv, TypeOK

\* The part of a tracker record that a worker's slot depends on is kept.
Keeps(q, st, x) ==
  /\ attempt[q] = "download" =>
       /\ x.download = st.download
       /\ x.newestDownloadSequence = st.newestDownloadSequence
       /\ x.finishedDeleteSequence = st.finishedDeleteSequence
  /\ attempt[q] = "delete" =>
       /\ x.deleteAttempt = st.deleteAttempt
       /\ x.deleteSequence = st.deleteSequence
       /\ x.download = st.download

\* A worker that keeps its task, its attempt and the record of its model, and
\* does not leave its place with them, keeps its slot.
LEMMA SlotKept ==
  ASSUME TypeInv, Stable, tasks' \in Seq(Task), NEW q \in Workers, Slot(q),
         cur'[q] = cur[q], attempt'[q] = attempt[q],
         pc'[q] \in Unadmitted => ~ Busy(q),
         pc'[q] \in DownloadLabels \cup EnqueueLabels =>
           cur[q] # 0 /\ TaskOf(q).type # "Delete",
         Busy(q) => Keeps(q, models[ModelOf(q)], models'[ModelOf(q)])
  PROVE  Slot(q)'
<1>1. cur[q] # 0 => /\ cur[q] \in DOMAIN tasks
                    /\ cur[q] \in DOMAIN tasks'
                    /\ Like(TaskOf(q)', TaskOf(q))
  <2>1. q \in Procs
    BY GopherAssumption, Zenon DEF Workers
  <2>2. cur[q] # 0 => cur[q] \in DOMAIN tasks
    BY <2>1, ZenonT(30) DEF TypeInv, TypeOK
  <2> QED BY <2>2, ZenonT(30) DEF Stable, TaskOf
<1>2. Busy(q) => cur[q] # 0
  BY BusyHasTask, ZenonT(30)
<1>3. attempt'[q] = "download" =>
        /\ TaskOf(q)'.type # "Delete"
        /\ models'[ModelOf(q)'].download = q
        /\ models'[ModelOf(q)'].newestDownloadSequence = cur'[q]
        /\ cur'[q] > models'[ModelOf(q)'].finishedDeleteSequence
  BY <1>1, <1>2, ZenonT(30) DEF Slot, Busy, Keeps, Like, ModelOf
<1>4. attempt'[q] = "delete" =>
        /\ TaskOf(q)'.type = "Delete"
        /\ models'[ModelOf(q)'].deleteAttempt = q
        /\ models'[ModelOf(q)'].deleteSequence = cur'[q]
        /\ models'[ModelOf(q)'].download = None
  BY <1>1, <1>2, ZenonT(30) DEF Slot, Busy, Keeps, Like, ModelOf
<1>5. attempt'[q] \in {"download", "delete"} => pc'[q] \notin Unadmitted
  BY Zenon DEF Busy
<1>6. attempt'[q] \in {"download", "delete"} =>
        usesArtifactTaskCoordinator(TaskOf(q)')
  <2> SUFFICES ASSUME Busy(q) PROVE usesArtifactTaskCoordinator(TaskOf(q)')
    BY ZenonT(30) DEF Busy
  <2>1. TaskOf(q) \in Task /\ tasks'[cur[q]] \in Task
    BY Zenon, <1>1, <1>2, TaskAt DEF TypeInv, TypeOK, TaskOf
  <2>2. TaskOf(q)' \in Task
    BY <2>1, ZenonT(30) DEF TaskOf
  <2>3. usesArtifactTaskCoordinator(TaskOf(q))
    BY Zenon DEF Slot, Busy
  <2>4. Like(TaskOf(q)', TaskOf(q))
    BY <1>1, <1>2, Zenon
  <2> QED BY Zenon, <2>1, <2>2, <2>3, <2>4, CoordinatedLike
<1>7. pc'[q] \in DownloadLabels \cup EnqueueLabels =>
        TaskOf(q)'.type # "Delete"
  BY <1>1, ZenonT(30) DEF Like
<1>8. usesArtifactTaskCoordinator(TaskOf(q))' =
        usesArtifactTaskCoordinator(TaskOf(q)')
  BY Zenon DEF usesArtifactTaskCoordinator, isDirectFileTask
<1> QED BY <1>3, <1>4, <1>5, <1>6, <1>7, <1>8, ZenonT(30) DEF Slot

\* The workers other than p keep their slots when p changes one record and
\* leaves in it what they depend on.
LEMMA OthersKeep ==
  ASSUME TypeInv, Ownership, Stable, tasks' \in Seq(Task),
         NEW p, NEW m \in Models, NEW x,
         models' = [models EXCEPT ![m] = x],
         \A q \in Workers \ {p} : /\ pc'[q] = pc[q]
                                  /\ cur'[q] = cur[q]
                                  /\ attempt'[q] = attempt[q],
         \A q \in Workers \ {p} :
           Busy(q) /\ Slot(q) /\ ModelOf(q) = m => Keeps(q, models[m], x)
  PROVE  \A q \in Workers \ {p} : Slot(q)'
<1> SUFFICES ASSUME NEW q \in Workers \ {p} PROVE Slot(q)'
  BY Zenon
<1>1. Slot(q)
  BY Zenon DEF Ownership
<1>2. pc[q] \notin {"idle", "exited"} => cur[q] # 0
  BY ZenonT(30) DEF TypeInv, Shape, HoldsTask
<1>3. Busy(q) => Keeps(q, models[ModelOf(q)], models'[ModelOf(q)])
  <2> SUFFICES ASSUME Busy(q)
               PROVE  Keeps(q, models[ModelOf(q)], models'[ModelOf(q)])
    BY Zenon
  <2>1. ModelOf(q) \in Models
    BY <1>1, BusyHasTask, Zenon
  <2>2. CASE ModelOf(q) = m
    BY <1>1, <2>2, ZenonT(30) DEF TypeInv, TypeOK
  <2>3. CASE ModelOf(q) # m
    <3>1. models'[ModelOf(q)] = models[ModelOf(q)]
      BY <2>1, <2>3, ZenonT(30) DEF TypeInv, TypeOK
    <3> QED BY <3>1, Zenon DEF Keeps
  <2> QED BY <2>2, <2>3, Zenon
<1>4. pc'[q] \in Unadmitted => ~ Busy(q)
  BY <1>1, ZenonT(30) DEF Slot, Busy
<1>5. pc'[q] \in DownloadLabels \cup EnqueueLabels =>
        cur[q] # 0 /\ TaskOf(q).type # "Delete"
  BY <1>1, <1>2, Zenon DEF Slot, DownloadLabels, EnqueueLabels
<1> QED BY <1>1, <1>3, <1>4, <1>5, SlotKept, ZenonT(30)

\* A step of p that keeps its task and its attempt, and goes where it may be
\* with them, keeps the ownership of every attempt.
LEMMA MovesOn ==
  ASSUME TypeInv, Ownership, Stable, tasks' \in Seq(Task),
         NEW p \in Procs, NEW l, Goto(p, l), UNCHANGED <<cur, attempt>>,
         NEW m \in Models, NEW x, models' = [models EXCEPT ![m] = x],
         \A q \in Workers :
           Busy(q) /\ Slot(q) /\ ModelOf(q) = m => Keeps(q, models[m], x),
         p \in Workers =>
           /\ cur[p] # 0
           /\ l \notin Unadmitted
           /\ l \in DownloadLabels \cup EnqueueLabels =>
                TaskOf(p).type # "Delete"
  PROVE  Ownership'
<1>1. \A q \in Workers \ {p} : pc'[q] = pc[q]
  BY GopherAssumption, Zenon DEF Goto, TypeInv, TypeOK, Workers
<1>2. \A q \in Workers \ {p} : Slot(q)'
  BY Zenon, <1>1, OthersKeep
<1>3. ASSUME p \in Workers PROVE Slot(p)'
  <2>1. Slot(p) /\ pc'[p] = l
    BY <1>3, Zenon DEF Ownership, Goto, TypeInv, TypeOK
  <2>2. Busy(p) => Keeps(p, models[ModelOf(p)], models'[ModelOf(p)])
    <3>1. CASE ModelOf(p) = m
      BY <1>3, <2>1, <3>1, Zenon DEF TypeInv, TypeOK
    <3>2. CASE ModelOf(p) # m
      <4>1. Busy(p) => ModelOf(p) \in Models
        BY <1>3, <2>1, BusyHasTask, ZenonT(30)
      <4>2. Busy(p) => models'[ModelOf(p)] = models[ModelOf(p)]
        BY <3>2, <4>1, Zenon DEF TypeInv, TypeOK
      <4> QED BY <4>2, ZenonT(30) DEF Keeps
    <3> QED BY <3>1, <3>2, Zenon
  <2> QED BY <1>3, <2>1, <2>2, SlotKept, ZenonT(30)
<1> QED BY <1>2, <1>3, Zenon DEF Ownership

\* The same, when no tracker record changes.
LEMMA QuietStep ==
  ASSUME TypeInv, Ownership, Stable, tasks' \in Seq(Task),
         NEW p \in Procs, NEW l, Goto(p, l), UNCHANGED <<models, cur, attempt>>,
         p \in Workers =>
           /\ cur[p] # 0
           /\ l \notin Unadmitted
           /\ l \in DownloadLabels \cup EnqueueLabels =>
                TaskOf(p).type # "Delete"
  PROVE  Ownership'
<1> SUFFICES ASSUME NEW q \in Workers PROVE Slot(q)'
  BY Zenon DEF Ownership
<1>0. q \in Procs
  BY GopherAssumption, Zenon DEF Workers
<1>1. Slot(q)
  BY Zenon DEF Ownership
<1>2. pc[q] \notin {"idle", "exited"} => cur[q] # 0
  BY Zenon DEF TypeInv, Shape, HoldsTask
<1>3. pc'[q] = IF q = p THEN l ELSE pc[q]
  BY <1>0, Zenon DEF Goto, TypeInv, TypeOK
<1>4. Keeps(q, models[ModelOf(q)], models'[ModelOf(q)])
  BY ZenonT(30) DEF Keeps
<1>5. pc'[q] \in Unadmitted => ~ Busy(q)
  BY <1>1, <1>3, ZenonT(30) DEF Slot, Busy
<1>6. pc'[q] \in DownloadLabels \cup EnqueueLabels =>
        cur[q] # 0 /\ TaskOf(q).type # "Delete"
  BY <1>1, <1>2, <1>3, ZenonT(30) DEF Slot, DownloadLabels, EnqueueLabels
<1> QED BY <1>1, <1>4, <1>5, <1>6, SlotKept, Zenon

\* A step after which p has no attempt of a file model keeps the ownership of
\* the attempts of the other workers.
LEMMA LetsGo ==
  ASSUME TypeInv, Ownership, Stable, tasks' \in Seq(Task), NEW p \in Workers,
         NEW m \in Models, NEW x, models' = [models EXCEPT ![m] = x],
         \A q \in Workers \ {p} : /\ pc'[q] = pc[q]
                                  /\ cur'[q] = cur[q]
                                  /\ attempt'[q] = attempt[q],
         \A q \in Workers \ {p} :
           Busy(q) /\ Slot(q) /\ ModelOf(q) = m => Keeps(q, models[m], x),
         attempt'[p] \notin {"download", "delete"},
         pc'[p] \notin DownloadLabels \cup EnqueueLabels
  PROVE  Ownership'
<1>1. \A q \in Workers \ {p} : Slot(q)'
  BY Zenon, OthersKeep
<1>2. Slot(p)'
  BY ZenonT(30) DEF Slot
<1> QED BY <1>1, <1>2, Zenon DEF Ownership

\* The same, when no tracker record changes.
LEMMA LetsGoQuietly ==
  ASSUME TypeInv, Ownership, Stable, tasks' \in Seq(Task), NEW p \in Workers,
         UNCHANGED models,
         \A q \in Workers \ {p} : /\ pc'[q] = pc[q]
                                  /\ cur'[q] = cur[q]
                                  /\ attempt'[q] = attempt[q],
         attempt'[p] \notin {"download", "delete"},
         pc'[p] \notin DownloadLabels \cup EnqueueLabels
  PROVE  Ownership'
<1>1. ASSUME NEW q \in Workers \ {p} PROVE Slot(q)'
  <2>1. Slot(q)
    BY Zenon DEF Ownership
  <2>2. pc[q] \notin {"idle", "exited"} => cur[q] # 0
    BY Zenon DEF TypeInv, Shape, HoldsTask
  <2>3. Keeps(q, models[ModelOf(q)], models'[ModelOf(q)])
    BY Zenon DEF Keeps
  <2>4. pc'[q] \in Unadmitted => ~ Busy(q)
    BY <2>1, ZenonT(30) DEF Slot, Busy
  <2>5. pc'[q] \in DownloadLabels \cup EnqueueLabels =>
          cur[q] # 0 /\ TaskOf(q).type # "Delete"
    BY <2>1, <2>2, ZenonT(30) DEF Slot, DownloadLabels, EnqueueLabels
  <2> QED BY <2>1, <2>3, <2>4, <2>5, SlotKept, ZenonT(30)
<1>2. Slot(p)'
  BY Zenon DEF Slot
<1> QED BY <1>1, <1>2, ZenonT(30) DEF Ownership
-----------------------------------------------------------------------------
(***************************************************************************)
(* What the tracker's operations do to the order, and to what the slot of  *)
(* another worker depends on.                                              *)
(***************************************************************************)
\* A download that may proceed is the newest work of its model.
LEMMA BeginDownloadOrdered ==
  ASSUME NEW st \in ModelState, NEW w \in Nat, NEW s \in Nat, NEW p \in Procs,
         Ordered(st, w), DownloadProceeds(st, s)
  PROVE  Ordered(beginDownload(st, s, p), w)
  BY DEF ModelState, Ordered, beginDownload, DownloadProceeds, DownloadWait,
         DownloadStale

\* A delete that reserves the barrier is later than what its model admitted.
LEMMA BeginDeleteOrdered ==
  ASSUME NEW st \in ModelState, NEW w \in Nat, NEW s \in Nat, NEW p \in Procs,
         Ordered(st, w), DeleteReserves(st, s)
  PROVE  Ordered(beginDelete(st, s, p), w)
  BY DEF ModelState, Ordered, beginDelete, DeleteReserves, DeleteStale

\* The end of an attempt keeps the order; the end of a delete that lifts its
\* barrier makes the fence that replaces it.
LEMMA FinishOrdered ==
  ASSUME NEW st \in ModelState, NEW w \in Nat, NEW s \in Nat, NEW p \in Procs,
         Ordered(st, w)
  PROVE  /\ Ordered(finishDownload(st, p), w)
         /\ Ordered(finishDelete(st, s, p, TRUE), w)
         /\ s # 0 /\ s = st.deleteSequence =>
              Ordered(finishDelete(st, s, p, FALSE), w)
<1>1. Ordered(finishDownload(st, p), w)
  BY Zenon DEF ModelState, Ordered, finishDownload
<1>2. Ordered(finishDelete(st, s, p, TRUE), w)
  BY Zenon DEF ModelState, Ordered, finishDelete
<1>3. s # 0 /\ s = st.deleteSequence =>
        Ordered(finishDelete(st, s, p, FALSE), w)
  BY DEF ModelState, Ordered, finishDelete
<1> QED BY Zenon, <1>1, <1>2, <1>3

\* Legacy tasks do not take part in the order.
LEMMA LegacyOrdered ==
  ASSUME NEW st \in ModelState, NEW w, NEW p, NEW type, Ordered(st, w)
  PROVE  /\ Ordered(beginLegacyTask(st, p, type), w)
         /\ Ordered(finishLegacyTask(st, p, type), w)
         /\ \A q : Keeps(q, st, beginLegacyTask(st, p, type))
         /\ \A q : Keeps(q, st, finishLegacyTask(st, p, type))
<1>1. Ordered(beginLegacyTask(st, p, type), w)
  BY Zenon DEF ModelState, Ordered, beginLegacyTask
<1>2. Ordered(finishLegacyTask(st, p, type), w)
  BY Zenon DEF ModelState, Ordered, finishLegacyTask
<1>3. \A q : Keeps(q, st, beginLegacyTask(st, p, type))
  BY Zenon DEF ModelState, Keeps, beginLegacyTask
<1>4. \A q : Keeps(q, st, finishLegacyTask(st, p, type))
  BY Zenon DEF ModelState, Keeps, finishLegacyTask
<1> QED BY <1>1, <1>2, <1>3, <1>4, Zenon

\* A barrier cannot be reserved while its owner works on the delete.
LEMMA ReserveKeeps ==
  ASSUME TypeInv, NEW q \in Workers, Slot(q), Busy(q), NEW s, NEW p,
         DeleteReserves(models[ModelOf(q)], s)
  PROVE  Keeps(q, models[ModelOf(q)], beginDelete(models[ModelOf(q)], s, p))
<1> DEFINE st == models[ModelOf(q)]
<1>1. cur[q] # 0 /\ st \in ModelState /\ q # None
  BY BusyHasTask, Zenon
<1>2. attempt[q] # "delete"
  BY <1>1, Zenon DEF Slot, DeleteReserves
<1> HIDE DEF st
<1> QED BY <1>1, <1>2, Zenon DEF Keeps, ModelState, beginDelete, st

\* Only the owner of a delete attempt ends it.
LEMMA FinishDeleteKeeps ==
  ASSUME TypeInv, NEW q \in Workers, Slot(q), Busy(q), NEW s, NEW p,
         attempt[q] = "delete" => q # p
  PROVE  Keeps(q, models[ModelOf(q)],
               finishDelete(models[ModelOf(q)], s, p, TRUE))
<1> DEFINE st == models[ModelOf(q)]
<1>1. st \in ModelState
  BY BusyHasTask, Zenon
<1>2. attempt[q] = "delete" => st.deleteAttempt # p
  BY Zenon DEF Slot
<1> HIDE DEF st
<1> QED BY <1>1, <1>2, Zenon DEF Keeps, ModelState, finishDelete, st

\* The order survives a change of one record that keeps it.
LEMMA OrderKept ==
  ASSUME TypeInv, Order, NEW m \in Models, NEW x,
         models' = [models EXCEPT ![m] = x], UNCHANGED publisher,
         Ordered(x, publisher[m])
  PROVE  Order'
<1> SUFFICES ASSUME NEW n \in Models PROVE Ordered(models'[n], publisher[n])
  BY Zenon DEF Order, Ordered
<1>1. CASE n = m
  BY <1>1, Zenon DEF TypeInv, TypeOK
<1>2. CASE n # m
  <2>1. models'[n] = models[n]
    BY <1>2, Zenon DEF TypeInv, TypeOK
  <2> QED BY <2>1, Zenon DEF Order
<1> QED BY <1>1, <1>2, Zenon
-----------------------------------------------------------------------------
(***************************************************************************)
(* One lemma per group of actions.                                         *)
(***************************************************************************)
\* A goroutine in enqueueTask has a task to enqueue; if it is a worker, it is
\* in the middle of a download.
LEMMA EnqueuerHasTask ==
  ASSUME TypeInv, Ownership, NEW p \in Procs, pc[p] \in EnqueueLabels
  PROVE  /\ enq[p] \in DOMAIN tasks /\ enq[p] \in Nat /\ enq[p] # 0
         /\ tasks[enq[p]] \in Task
         /\ tasks[enq[p]].model \in Models
         /\ models[tasks[enq[p]].model] \in ModelState
         /\ p \in Workers => cur[p] # 0 /\ TaskOf(p).type # "Delete"
<1>1. enq[p] \in DOMAIN tasks
  BY Zenon DEF TypeInv, TypeOK, Shape
<1>2. /\ enq[p] \in Nat /\ enq[p] # 0
      /\ tasks[enq[p]] \in Task
      /\ tasks[enq[p]].model \in Models
  BY <1>1, NamedTask, Zenon DEF TypeInv, TypeOK
<1>3. p \in Workers => cur[p] # 0
  BY Zenon DEF TypeInv, Shape, HoldsTask, EnqueueLabels
<1>4. p \in Workers => TaskOf(p).type # "Delete"
  BY Zenon DEF Ownership, Slot
<1> QED BY <1>1, <1>2, <1>3, <1>4, Zenon DEF TypeInv, TypeOK

\* enqueueTask keeps ownership and order, whatever the other goroutines do
\* between its critical sections.
LEMMA EnqueueOrdered ==
  ASSUME OrderInv, tasks' \in Seq(Task), NEW p \in Procs, EnqueueStep(p)
  PROVE  Ownership' /\ Order'
<1> USE DEF OrderInv, workVars, enqVars, routingVars, nodeVars, statusVars
<1>0. pc[p] \in EnqueueLabels
  BY Zenon
  DEF EnqueueStep, EnqueueDownload, EnqueueLegacyDelete, EnqueueDeleteStale,
         EnqueueDeleteReserve, EnqueueDeleteReserved, EnqueuePush, EnqueueLabels
<1> DEFINE s == enq[p]
           m == tasks[s].model
           st == models[m]
<1>1. /\ s \in DOMAIN tasks /\ s \in Nat /\ s # 0
      /\ tasks[s] \in Task /\ m \in Models /\ st \in ModelState
      /\ p \in Workers => cur[p] # 0 /\ TaskOf(p).type # "Delete"
  BY <1>0, EnqueuerHasTask, Zenon
<1>2. p = Dispatcher => p \notin Workers
  BY GopherAssumption, Zenon DEF Workers
<1>3. UNCHANGED tasks => Stable
  BY Zenon DEF Stable, Like
<1>4. UNCHANGED <<models, publisher>> => Order'
  BY Zenon DEF Order, Ordered
<1>5. CASE EnqueueDownload(p)
  <2>1. /\ classifyStartupRevalidation(tasks[s]) \in Task
        /\ Like(classifyStartupRevalidation(tasks[s]), tasks[s])
    <3> DEFINE t == tasks[s]
    <3>1. t \in Task
      BY <1>1, Zenon
    <3> HIDE DEF t
    <3> QED BY <3>1, ZenonT(30) DEF classifyStartupRevalidation, Task, Like, t
  <2>2. tasks' = [tasks EXCEPT ![s] = classifyStartupRevalidation(tasks[s])]
    BY <1>5, Zenon DEF EnqueueDownload
  <2>3. Stable
    BY Zenon, <1>1, <2>1, <2>2, UpdateStable
  <2>4. Goto(p, "push") /\ UNCHANGED <<models, cur, attempt, publisher>>
    BY Zenon, <1>5 DEF EnqueueDownload
  <2>5. "push" \notin Unadmitted
    BY Zenon DEF Unadmitted
  <2> QED BY <1>1, <1>4, <2>3, <2>4, <2>5, QuietStep, Zenon
<1>6. CASE EnqueueLegacyDelete(p)
  <2>1. Goto(p, "push") /\ UNCHANGED <<tasks, models, cur, attempt, publisher>>
    BY Zenon, <1>6 DEF EnqueueLegacyDelete
  <2>2. "push" \notin Unadmitted
    BY Zenon DEF Unadmitted
  <2> QED BY <1>1, <1>3, <1>4, <2>1, <2>2, QuietStep, Zenon
<1>7. CASE EnqueueDeleteStale(p) \/ EnqueuePush(p)
  <2> DEFINE l == IF p = Dispatcher THEN "idle" ELSE "unlock"
  <2>1. Goto(p, l) /\ UNCHANGED <<tasks, models, cur, attempt, publisher>>
    BY <1>7, Zenon DEF EnqueueDeleteStale, EnqueuePush, AfterEnqueue
  <2>2. p \in Workers => l = "unlock"
    BY <1>2, Zenon
  <2>3. "unlock" \notin Unadmitted \cup DownloadLabels \cup EnqueueLabels
    BY Zenon DEF Unadmitted, DownloadLabels, EnqueueLabels
  <2> HIDE DEF l
  <2> QED BY <1>1, <1>3, <1>4, <2>1, <2>2, <2>3, QuietStep, Zenon
<1>8. CASE EnqueueDeleteReserve(p)
  <2>1. Goto(p, "reserved") /\ UNCHANGED <<tasks, cur, attempt, publisher>>
    BY <1>8, Zenon DEF EnqueueDeleteReserve
  <2>2. "reserved" \notin Unadmitted
    BY Zenon DEF Unadmitted
  <2>3. CASE DeleteReserves(st, s)
    <3> DEFINE x == beginDelete(st, s, p)
    <3>1. models' = [models EXCEPT ![m] = x]
      BY <1>8, <2>3, ZenonT(30) DEF EnqueueDeleteReserve
    <3>2. \A q \in Workers :
            Busy(q) /\ Slot(q) /\ ModelOf(q) = m => Keeps(q, models[m], x)
      BY <2>3, ReserveKeeps, ZenonT(30)
    <3>3. Ordered(x, publisher[m])
      BY <1>1, <2>3, BeginDeleteOrdered, Zenon DEF Order, TypeInv, TypeOK
    <3> HIDE DEF x
    <3>4. Ownership'
      BY Zenon, <1>1, <1>3, <2>1, <2>2, <3>1, <3>2, MovesOn
    <3>5. Order'
      BY Zenon, <1>1, <2>1, <3>1, <3>3, OrderKept
    <3> QED BY <3>4, <3>5, Zenon
  <2>4. CASE ~ DeleteReserves(st, s)
    <3>1. UNCHANGED models
      BY <1>8, <2>4, Zenon DEF EnqueueDeleteReserve
    <3> QED BY <1>1, <1>3, <1>4, <2>1, <2>2, <3>1, QuietStep, Zenon
  <2> QED BY <2>3, <2>4, Zenon
<1>9. CASE EnqueueDeleteReserved(p)
  <2> DEFINE x == finishDelete(st, s, p, TRUE)
  <2>1. /\ Goto(p, "push") /\ UNCHANGED <<tasks, cur, attempt, publisher>>
        /\ models' = [models EXCEPT ![m] = x]
    BY Zenon, <1>9 DEF EnqueueDeleteReserved
  <2>2. "push" \notin Unadmitted
    BY Zenon DEF Unadmitted
  <2>3. p \in Workers => attempt[p] # "delete"
    BY <1>1, Zenon DEF Ownership, Slot
  <2>4. \A q \in Workers :
          Busy(q) /\ Slot(q) /\ ModelOf(q) = m => Keeps(q, models[m], x)
    BY Zenon, <2>3, FinishDeleteKeeps
  <2>5. Ordered(x, publisher[m])
    BY Zenon, <1>1, FinishOrdered DEF Order, TypeInv, TypeOK
  <2> HIDE DEF x
  <2>6. Ownership'
    BY Zenon, <1>1, <1>3, <2>1, <2>2, <2>4, MovesOn
  <2>7. Order'
    BY Zenon, <1>1, <2>1, <2>5, OrderKept
  <2> QED BY <2>6, <2>7, Zenon
<1> QED BY <1>5, <1>6, <1>7, <1>8, <1>9, Zenon DEF EnqueueStep

\* Taking a task from the queue keeps ownership and order.
LEMMA PopOrdered ==
  ASSUME OrderInv, tasks' \in Seq(Task), NEW p \in Workers, NEW s,
         PopNormal(p, s) \/ PopHighPriority(p, s)
  PROVE  Ownership' /\ Order'
<1> USE DEF OrderInv, statusVars
<1>0. p \in Procs
  BY GopherAssumption, Zenon DEF Workers
<1>1. /\ pc[p] = "idle" /\ Goto(p, "begin")
      /\ cur' = [cur EXCEPT ![p] = s]
      /\ UNCHANGED <<tasks, models, attempt, publisher>>
  BY Zenon DEF PopNormal, PopHighPriority, Take
<1>2. Stable
  BY <1>1, Zenon DEF Stable, Like
<1>3. \A q \in Workers \ {p} : pc'[q] = pc[q] /\ cur'[q] = cur[q]
  BY <1>1, GopherAssumption, Zenon DEF Goto, TypeInv, TypeOK, Workers
<1>4. attempt[p] \notin {"download", "delete"}
  BY <1>1, Zenon DEF Ownership, Slot, Unadmitted
<1>5. pc'[p] \notin DownloadLabels \cup EnqueueLabels
  BY <1>0, <1>1, Zenon DEF Goto, TypeInv, TypeOK, DownloadLabels, EnqueueLabels
<1>6. Ownership'
  BY Zenon, <1>1, <1>2, <1>3, <1>4, <1>5, LetsGoQuietly
<1>7. Order'
  BY <1>1, ZenonT(30) DEF Order, Ordered
<1> QED BY <1>6, <1>7, Zenon

\* What Return does to the slots: p has no attempt of a file model any more.
LEMMA ReturnFacts ==
  ASSUME TypeInv, NEW p \in Workers, Return(p)
  PROVE  /\ \A q \in Workers \ {p} : /\ pc'[q] = pc[q]
                                     /\ cur'[q] = cur[q]
                                     /\ attempt'[q] = attempt[q]
         /\ attempt'[p] \notin {"download", "delete"}
         /\ pc'[p] \notin DownloadLabels \cup EnqueueLabels
  BY GopherAssumption, Zenon DEF Return, TypeInv, TypeOK, Workers, DownloadLabels,
                          EnqueueLabels

\* A worker in beginTask has a task and no attempt of a file model.
LEMMA BeginnerHasTask ==
  ASSUME TypeInv, Ownership, NEW p \in Workers,
         pc[p] \in {"begin", "deleteWait"}
  PROVE  /\ p \in Procs /\ ~ Busy(p)
         /\ cur[p] # 0 /\ cur[p] \in DOMAIN tasks /\ cur[p] \in Nat
         /\ TaskOf(p) \in Task /\ ModelOf(p) \in Models
         /\ models[ModelOf(p)] \in ModelState
         /\ publisher[ModelOf(p)] \in Nat
<1>1. p \in Procs /\ cur[p] # 0
  BY GopherAssumption, Zenon DEF TypeInv, Shape, HoldsTask, Workers
<1>2. cur[p] \in DOMAIN tasks
  BY <1>1, Zenon DEF TypeInv, TypeOK
<1>3. cur[p] \in Nat /\ TaskOf(p) \in Task /\ ModelOf(p) \in Models
  BY <1>2, NamedTask, Zenon DEF TypeInv, TypeOK, ModelOf, TaskOf
<1>4. ~ Busy(p)
  BY Zenon DEF Ownership, Slot, Busy, Unadmitted
<1> QED BY <1>1, <1>2, <1>3, <1>4, Zenon DEF TypeInv, TypeOK

\* The ways in which beginTask ends without an attempt.
LEMMA NotAdmittedOrdered ==
  ASSUME OrderInv, tasks' \in Seq(Task), NEW p \in Workers,
         \/ BeginUnrouted(p)    \/ BeginReplaced(p)
         \/ BeginDeleteStale(p) \/ BeginDownloadStale(p)
         \/ BeginDeleteWaits(p) \/ BeginDownloadWait(p)
  PROVE  Ownership' /\ Order'
<1> USE DEF OrderInv, statusVars
<1>0. pc[p] \in {"begin", "deleteWait"} /\ Return(p) /\ UNCHANGED publisher
  BY Zenon
  DEF BeginUnrouted, BeginReplaced, BeginDeleteStale, BeginDownloadStale,
         BeginDeleteWaits, BeginDownloadWait, Deleting, Downloading, Admitting
<1>1. /\ p \in Procs /\ cur[p] # 0 /\ cur[p] \in DOMAIN tasks /\ cur[p] \in Nat
      /\ TaskOf(p) \in Task /\ ModelOf(p) \in Models
      /\ models[ModelOf(p)] \in ModelState /\ publisher[ModelOf(p)] \in Nat
  BY <1>0, BeginnerHasTask, Zenon
<1>2. Stable
  <2>1. CASE BeginUnrouted(p) \/ BeginDeleteWaits(p)
    BY Zenon, <1>1, <2>1, RequeueStable
    DEF BeginUnrouted, BeginDeleteWaits, requeueTaskOnWait
  <2>2. CASE BeginReplaced(p) \/ BeginDeleteStale(p) \/ BeginDownloadStale(p)
    BY Zenon, <1>1, <2>2, RouteStable
    DEF BeginReplaced, BeginDeleteStale, BeginDownloadStale
  <2>3. CASE BeginDownloadWait(p)
    <3> DEFINE t == [RoutedTask(p) EXCEPT !.waited = TRUE]
    <3>1. RoutedTask(p) \in Task /\ Like(RoutedTask(p), tasks[cur[p]])
      BY Zenon, <1>1, RoutingTyped, RoutingLike DEF RoutedTask, TaskOf
    <3>2. t \in Task /\ Like(t, tasks[cur[p]])
      BY Zenon, <3>1 DEF Task, Like
    <3>3. tasks' = [tasks EXCEPT ![cur[p]] = t]
      BY <2>3, Zenon DEF BeginDownloadWait
    <3> QED BY Zenon, <1>1, <3>2, <3>3, UpdateStable
  <2> QED BY <2>1, <2>2, <2>3, Zenon
<1>3. CASE BeginDeleteWaits(p)
  <2> DEFINE m == ModelOf(p)
             x == finishDelete(models[m], cur[p], p, TRUE)
  <2>1. models' = [models EXCEPT ![m] = x]
    BY Zenon, <1>3 DEF BeginDeleteWaits
  <2>2. \A q \in Workers \ {p} :
          Busy(q) /\ Slot(q) /\ ModelOf(q) = m => Keeps(q, models[m], x)
    BY Zenon, FinishDeleteKeeps
  <2>3. Ordered(x, publisher[m])
    BY Zenon, <1>1, FinishOrdered DEF Order
  <2>4. m \in Models
    BY <1>1, Zenon
  <2> HIDE DEF m, x
  <2>5. Ownership'
    BY Zenon, <1>0, <1>2, <2>1, <2>2, <2>4, LetsGo, ReturnFacts
  <2>6. Order'
    BY Zenon, <1>0, <2>1, <2>3, <2>4, OrderKept
  <2> QED BY <2>5, <2>6, Zenon
<1>4. CASE ~ BeginDeleteWaits(p)
  <2>1. UNCHANGED models
    BY Zenon, <1>4 DEF BeginUnrouted, BeginReplaced, BeginDeleteStale,
                BeginDownloadStale, BeginDownloadWait
  <2>2. Ownership'
    BY <1>0, <1>2, <2>1, LetsGoQuietly, ReturnFacts, ZenonT(30)
  <2>3. Order'
    BY <1>0, <2>1, ZenonT(30) DEF Order, Ordered
  <2> QED BY <2>2, <2>3, Zenon
<1> QED BY <1>3, <1>4, Zenon

\* What Begins does to the slots.
LEMMA BeginsFacts ==
  ASSUME TypeInv, NEW p \in Workers, NEW sort, Begins(p, sort)
  PROVE  /\ \A q \in Workers \ {p} : /\ pc'[q] = pc[q]
                                     /\ cur'[q] = cur[q]
                                     /\ attempt'[q] = attempt[q]
         /\ attempt'[p] = sort /\ cur'[p] = cur[p]
         /\ pc'[p] \notin DownloadLabels \cup EnqueueLabels \cup Unadmitted
         /\ UNCHANGED publisher
  BY GopherAssumption, Zenon DEF Begins, Goto, TypeInv, TypeOK, Workers, Unadmitted,
                          DownloadLabels, EnqueueLabels, statusVars

\* The admission of a legacy task, and the reservation of a delete that waits.
LEMMA LegacyAdmittedOrdered ==
  ASSUME OrderInv, tasks' \in Seq(Task), NEW p \in Workers,
         \/ BeginLegacyDelete(p) \/ BeginLegacyDownload(p) \/ BeginDeleteWait(p)
  PROVE  Ownership' /\ Order'
<1> USE DEF OrderInv, statusVars
<1> DEFINE m == ModelOf(p)
           st == models[m]
<1>0. pc[p] = "begin" /\ Route(p)
  BY Zenon
  DEF BeginLegacyDelete, BeginLegacyDownload, BeginDeleteWait, Deleting,
         Downloading, Admitting
<1>1. /\ p \in Procs /\ ~ Busy(p) /\ cur[p] # 0 /\ cur[p] \in Nat
      /\ m \in Models /\ st \in ModelState /\ publisher[m] \in Nat
  BY <1>0, BeginnerHasTask, ZenonT(30)
<1>2. Stable
  BY <1>0, <1>1, RouteStable, ZenonT(30)
<1>3. Ordered(st, publisher[m])
  BY <1>1, Zenon DEF Order
<1>4. ASSUME NEW type \in {"Download", "Delete"}, NEW sort,
             sort \in {"legacyDownload", "legacyDelete"}, Begins(p, sort),
             models' = [models EXCEPT ![m] = beginLegacyTask(st, p, type)]
      PROVE  Ownership' /\ Order'
  <2> DEFINE x == beginLegacyTask(st, p, type)
  <2>1. Ordered(x, publisher[m]) /\ \A q : Keeps(q, st, x)
    BY Zenon, <1>1, <1>3, LegacyOrdered
  <2>2. models' = [models EXCEPT ![m] = x] /\ models[m] = st
    BY <1>4, Zenon
  <2> HIDE DEF x, st, m
  <2>3. Ownership'
    BY <1>1, <1>2, <1>4, <2>1, <2>2, LetsGo, BeginsFacts, ZenonT(30)
  <2>4. Order'
    <3>1. UNCHANGED publisher
      BY <1>4, BeginsFacts, Zenon
    <3> QED BY <1>1, <2>1, <2>2, <3>1, OrderKept, ZenonT(30)
  <2> QED BY <2>3, <2>4, Zenon
<1>5. CASE BeginLegacyDelete(p)
  BY <1>4, <1>5, Zenon DEF BeginLegacyDelete
<1>6. CASE BeginLegacyDownload(p)
  BY <1>4, <1>6, Zenon DEF BeginLegacyDownload
<1>7. CASE BeginDeleteWait(p)
  <2>1. /\ \A q \in Workers \ {p} : /\ pc'[q] = pc[q]
                                    /\ cur'[q] = cur[q]
                                    /\ attempt'[q] = attempt[q]
        /\ attempt'[p] \notin {"download", "delete"}
        /\ pc'[p] \notin DownloadLabels \cup EnqueueLabels
        /\ UNCHANGED publisher
    BY <1>1, <1>7, GopherAssumption, Zenon
    DEF BeginDeleteWait, Goto, TypeInv, TypeOK, Workers, Busy,
        DownloadLabels, EnqueueLabels
  <2>2. CASE DeleteReserves(st, cur[p])
    <3> DEFINE x == beginDelete(st, cur[p], p)
    <3>1. models' = [models EXCEPT ![m] = x]
      BY <1>7, <2>2, Zenon DEF BeginDeleteWait
    <3>2. \A q \in Workers \ {p} :
            Busy(q) /\ Slot(q) /\ ModelOf(q) = m => Keeps(q, models[m], x)
      BY <2>2, ReserveKeeps, Zenon
    <3>3. Ordered(x, publisher[m])
      BY <1>1, <1>3, <2>2, BeginDeleteOrdered, Zenon
    <3> HIDE DEF x, m
    <3>4. Ownership'
      BY Zenon, <1>1, <1>2, <2>1, <3>1, <3>2, LetsGo
    <3>5. Order'
      BY Zenon, <1>1, <2>1, <3>1, <3>3, OrderKept
    <3> QED BY <3>4, <3>5, Zenon
  <2>3. CASE ~ DeleteReserves(st, cur[p])
    <3>1. UNCHANGED models
      BY <1>7, <2>3, Zenon DEF BeginDeleteWait
    <3>2. Ownership'
      BY <1>2, <2>1, <3>1, LetsGoQuietly, ZenonT(30)
    <3>3. Order'
      BY <2>1, <3>1, Zenon DEF Order, Ordered
    <3> QED BY <3>2, <3>3, Zenon
  <2> QED BY <2>2, <2>3, Zenon
<1> QED BY <1>5, <1>6, <1>7, Zenon

\* The admission of a download or a delete of a file model: nobody else has an
\* attempt that depends on what it changes.
LEMMA AdmittedOrdered ==
  ASSUME OrderInv, tasks' \in Seq(Task), NEW p \in Workers,
         BeginDeleteProceed(p) \/ BeginDownloadProceed(p)
  PROVE  Ownership' /\ Order'
<1> USE DEF OrderInv
<1> DEFINE m == ModelOf(p)
           st == models[m]
<1>0. /\ pc[p] = "begin" /\ Route(p)
      /\ usesArtifactTaskCoordinator(RoutedTask(p))
  BY Zenon DEF BeginDeleteProceed, BeginDownloadProceed, Deleting, Downloading,
         Admitting
<1>1. /\ p \in Procs /\ cur[p] # 0 /\ cur[p] \in Nat /\ cur[p] \in DOMAIN tasks
      /\ m \in Models /\ st \in ModelState /\ publisher[m] \in Nat
  BY Zenon, <1>0, BeginnerHasTask
<1>2. Stable
  BY Zenon, <1>0, <1>1, RouteStable
<1>3. Ordered(st, publisher[m])
  BY <1>1, ZenonT(30) DEF Order
<1>4. ASSUME cur'[p] = cur[p]
      PROVE  /\ TaskOf(p)'.type = TaskOf(p).type /\ ModelOf(p)' = m
             /\ usesArtifactTaskCoordinator(TaskOf(p))'
  <2>1. Like(TaskOf(p)', TaskOf(p))
    BY <1>1, <1>2, <1>4, Zenon DEF Stable, TaskOf
  <2>2. TaskOf(p)' = RoutedTask(p)
    BY <1>0, <1>1, <1>4, Zenon DEF Route, TaskOf, TypeInv, TypeOK
  <2>3. usesArtifactTaskCoordinator(TaskOf(p)')
    BY <1>0, <2>2, Zenon
  <2> QED
    BY <2>1, <2>3, ZenonT(30)
    DEF Like, ModelOf, usesArtifactTaskCoordinator, isDirectFileTask
<1>5. CASE BeginDeleteProceed(p)
  <2> DEFINE x == beginDelete(st, cur[p], p)
  <2>1. /\ models' = [models EXCEPT ![m] = x] /\ Begins(p, "delete")
        /\ DeleteReserves(st, cur[p]) /\ st.download = None
        /\ TaskOf(p).type = "Delete"
    BY <1>5, Zenon DEF BeginDeleteProceed, DeleteProceeds, Deleting
  <2>2. \A q \in Workers \ {p} :
          Busy(q) /\ Slot(q) /\ ModelOf(q) = m => Keeps(q, models[m], x)
    BY <2>1, ReserveKeeps, Zenon
  <2>3. Ordered(x, publisher[m])
    BY Zenon, <1>1, <1>3, <2>1, BeginDeleteOrdered
  <2>4. /\ x.deleteAttempt = p /\ x.deleteSequence = cur[p]
        /\ x.download = None
    BY <1>1, <2>1, Zenon DEF beginDelete, ModelState
  <2>5. models'[m] = x
    BY <1>1, <2>1, Zenon DEF TypeInv, TypeOK
  <2> HIDE DEF x, st
  <2>a. /\ attempt'[p] = "delete" /\ cur'[p] = cur[p]
        /\ pc'[p] \notin DownloadLabels \cup EnqueueLabels \cup Unadmitted
    BY <2>1, BeginsFacts, ZenonT(30)
  <2>b. /\ TaskOf(p)'.type = "Delete" /\ ModelOf(p)' = m
        /\ usesArtifactTaskCoordinator(TaskOf(p))'
    BY <1>4, <2>1, <2>a, ZenonT(30)
  <2> HIDE DEF m
  <2>6. Slot(p)'
    BY <2>4, <2>5, <2>a, <2>b, Zenon DEF Slot
  <2>7. Ownership'
    <3>1. \A q \in Workers \ {p} : /\ pc'[q] = pc[q]
                                   /\ cur'[q] = cur[q]
                                   /\ attempt'[q] = attempt[q]
      BY Zenon, <2>1, BeginsFacts
    <3>2. \A q \in Workers \ {p} : Slot(q)'
      BY Zenon, <1>1, <1>2, <2>1, <2>2, <3>1, OthersKeep
    <3> QED BY <2>6, <3>2, Zenon DEF Ownership
  <2>8. Order'
    BY Zenon, <1>1, <2>1, <2>3, OrderKept, BeginsFacts
  <2> QED BY <2>7, <2>8, Zenon
<1>6. CASE BeginDownloadProceed(p)
  <2> DEFINE x == beginDownload(st, cur[p], p)
  <2>1. /\ models' = [models EXCEPT ![m] = x] /\ Begins(p, "download")
        /\ DownloadProceeds(st, cur[p]) /\ TaskOf(p).type # "Delete"
    BY <1>6, Zenon DEF BeginDownloadProceed, Downloading
  <2>2. st.download = None /\ st.deleteSequence = 0
    BY <2>1, Zenon DEF DownloadProceeds, DownloadWait
  <2>3. \A q \in Workers \ {p} :
          Busy(q) /\ Slot(q) /\ ModelOf(q) = m => Keeps(q, models[m], x)
    BY Zenon, <2>2, BusyHasTask DEF Slot, Busy
  <2>4. Ordered(x, publisher[m])
    BY Zenon, <1>1, <1>3, <2>1, BeginDownloadOrdered
  <2>5. /\ x.download = p /\ x.newestDownloadSequence = cur[p]
        /\ cur[p] > x.finishedDeleteSequence
    BY <1>1, <2>1
    DEF beginDownload, ModelState, DownloadProceeds, DownloadStale
  <2>6. models'[m] = x
    BY <1>1, <2>1, Zenon DEF TypeInv, TypeOK
  <2> HIDE DEF x, st
  <2>a. /\ attempt'[p] = "download" /\ cur'[p] = cur[p]
        /\ pc'[p] \notin DownloadLabels \cup EnqueueLabels \cup Unadmitted
    BY <2>1, BeginsFacts, Zenon
  <2>b. /\ TaskOf(p)'.type # "Delete" /\ ModelOf(p)' = m
        /\ usesArtifactTaskCoordinator(TaskOf(p))'
    BY <1>4, <2>1, <2>a, ZenonT(30)
  <2> HIDE DEF m
  <2>7. Slot(p)'
    BY <2>5, <2>6, <2>a, <2>b, ZenonT(30) DEF Slot
  <2>8. Ownership'
    <3>1. \A q \in Workers \ {p} : /\ pc'[q] = pc[q]
                                   /\ cur'[q] = cur[q]
                                   /\ attempt'[q] = attempt[q]
      BY <2>1, BeginsFacts, Zenon
    <3>2. \A q \in Workers \ {p} : Slot(q)'
      BY Zenon, <1>1, <1>2, <2>1, <2>3, <3>1, OthersKeep
    <3> QED BY <2>7, <3>2, Zenon DEF Ownership
  <2>9. Order'
    BY Zenon, <1>1, <2>1, <2>4, OrderKept, BeginsFacts
  <2> QED BY <2>8, <2>9, Zenon
<1> QED BY <1>5, <1>6, Zenon

\* What StatusFollowsIntent says of one step.
PublishesInOrder ==
  \A m \in Models : publisher'[m] # publisher[m] =>
    /\ publisher'[m] > publisher[m]
    /\ publisher'[m] > models[m].finishedDeleteSequence

\* The owner of a record may publish after whoever published last.
LEMMA OwnerPublishes ==
  ASSUME NEW st \in ModelState, NEW w \in Nat, NEW c \in Nat, Ordered(st, w),
         \/ /\ st.download # None /\ st.newestDownloadSequence = c
            /\ c > st.finishedDeleteSequence
         \/ st.download = None /\ st.deleteSequence = c /\ c # 0
  PROVE  Ordered(st, c) /\ (c # w => c > w) /\ c > st.finishedDeleteSequence
<1>1. /\ st.newestDownloadSequence \in Nat /\ st.finishedDeleteSequence \in Nat
      /\ st.deleteSequence \in Nat
  BY Zenon DEF ModelState
<1> QED BY <1>1 DEF Ordered

\* A worker that publishes is the last to have been admitted for its model.
LEMMA PublishOrdered ==
  ASSUME OrderInv, NEW p \in Workers, pc[p] \notin Unadmitted,
         (\E v : Publish(p, v)) \/ UNCHANGED statusVars, UNCHANGED models
  PROVE  Order' /\ PublishesInOrder
<1> USE DEF OrderInv
<1> DEFINE m == ModelOf(p)
           st == models[m]
<1>1. CASE UNCHANGED publisher
  BY <1>1, Zenon DEF Order, Ordered, PublishesInOrder
<1>2. CASE \E v : Publish(p, v) /\ Busy(p)
  <2>1. publisher' = [publisher EXCEPT ![m] = cur[p]]
    BY <1>2, ZenonT(30) DEF Publish, Busy
  <2>2. /\ m \in Models /\ st \in ModelState /\ cur[p] \in Nat
        /\ publisher \in [Models -> Nat] /\ p # None /\ Slot(p)
    BY <1>2, BusyHasTask, Zenon DEF TypeInv, TypeOK, Ownership
  <2>3. Ordered(st, publisher[m])
    BY Zenon, <2>2 DEF Order
  <2>4. /\ Ordered(st, cur[p])
        /\ cur[p] # publisher[m] => cur[p] > publisher[m]
        /\ cur[p] > st.finishedDeleteSequence
    <3>1. CASE attempt[p] = "download"
      <4>1. /\ st.download = p /\ st.newestDownloadSequence = cur[p]
            /\ cur[p] > st.finishedDeleteSequence
        BY Zenon, <2>2, <3>1 DEF Slot
      <4> HIDE DEF st, m
      <4> QED BY <2>2, <2>3, <4>1, OwnerPublishes, Zenon
    <3>2. CASE attempt[p] = "delete"
      <4>1. /\ st.download = None /\ st.deleteSequence = cur[p] /\ cur[p] # 0
        BY Zenon, <1>2, <2>2, <3>2, BusyHasTask DEF Slot
      <4> HIDE DEF st, m
      <4> QED BY <2>2, <2>3, <4>1, OwnerPublishes, Zenon
    <3> QED BY <1>2, <3>1, <3>2, ZenonT(30) DEF Busy
  <2>5. \A n \in Models : publisher'[n] = IF n = m THEN cur[p] ELSE publisher[n]
    BY <2>1, <2>2, Zenon
  <2> HIDE DEF m
  <2>6. Order'
    BY <2>2, <2>4, <2>5, Zenon DEF Order, Ordered
  <2>7. PublishesInOrder
    BY Zenon, <2>2, <2>4, <2>5 DEF PublishesInOrder
  <2> QED BY <2>6, <2>7, Zenon
<1>3. CASE (\E v : Publish(p, v)) /\ ~ Busy(p)
  <2>1. publisher' = [publisher EXCEPT ![m] = publisher[m]]
    BY <1>3, Zenon DEF Publish, Busy
  <2>2. publisher' = publisher
    BY <2>1, WorkerHasTask, Zenon DEF TypeInv, TypeOK
  <2> QED BY <1>1, <2>2, Zenon
<1> QED BY <1>1, <1>2, <1>3, Zenon DEF statusVars

\* A worker that goes on with its task: no tracker record changes, and the
\* label it reaches suits the type of its task.
GoesOn(p) ==
  /\ UNCHANGED <<models, cur, attempt>>
  /\ \E l : /\ Goto(p, l)
            /\ l \notin Unadmitted
            /\ l \in DownloadLabels \cup EnqueueLabels =>
                 TaskOf(p).type # "Delete"

\* Such a step keeps the ownership of every attempt.
LEMMA GoesOnOwned ==
  ASSUME OrderInv, tasks' \in Seq(Task), Stable, NEW p \in Workers,
         pc[p] \notin Unadmitted, GoesOn(p)
  PROVE  Ownership'
<1>1. p \in Procs /\ cur[p] # 0
  BY WorkerHasTask, Zenon DEF OrderInv
<1>2. PICK l : /\ Goto(p, l)
               /\ l \notin Unadmitted
               /\ l \in DownloadLabels \cup EnqueueLabels =>
                    TaskOf(p).type # "Delete"
  BY Zenon DEF GoesOn
<1> QED BY <1>1, <1>2, QuietStep, Zenon DEF OrderInv, GoesOn

\* The steps of a delete after admission keep ownership and order.
LEMMA DeleteOrdered ==
  ASSUME OrderInv, tasks' \in Seq(Task), NEW p \in Workers, DeleteStep(p)
  PROVE  Ownership' /\ Order' /\ PublishesInOrder
<1> USE DEF workVars, enqVars, routingVars, nodeVars, statusVars
<1>1. pc[p] \notin Unadmitted
  BY Zenon
  DEF DeleteStep, AdmittedDelete, RemoveOrdinary, RemoveShared, EraseBusy,
         PathBusy, RemoveSharedRetry, Erase, EraseLinked, EraseParentBusy,
         EraseFails, Unpublish, Unadmitted
<1>2. cur[p] \in DOMAIN tasks
  BY <1>1, WorkerHasTask, Zenon DEF OrderInv
<1>3. RequeueWithinBudget(cur[p]) \/ UNCHANGED tasks
  BY Zenon
  DEF DeleteStep, AdmittedDelete, RemoveOrdinary, RemoveShared, EraseBusy,
         PathBusy, RemoveSharedRetry, Erase, EraseLinked, EraseParentBusy,
         EraseFails, Unpublish, requeueTaskOnWait
<1>4. Stable
  BY Zenon, <1>2, <1>3, RequeueStable DEF OrderInv
<1>5. /\ UNCHANGED <<models, cur, attempt>>
      /\ \E l \in {"lock", "unpublish", "erase", "unlock"} : Goto(p, l)
  <2>1. CASE AdmittedDelete(p) \/ RemoveOrdinary(p) \/ RemoveShared(p)
    BY <2>1, Zenon DEF AdmittedDelete, RemoveOrdinary, RemoveShared
  <2>2. CASE EraseBusy(p) \/ RemoveSharedRetry(p) \/ EraseParentBusy(p)
    BY <2>2, Zenon DEF EraseBusy, PathBusy, RemoveSharedRetry, EraseParentBusy
  <2>3. CASE Erase(p) \/ EraseLinked(p) \/ EraseFails(p) \/ Unpublish(p)
    BY <2>3, Zenon DEF Erase, EraseLinked, EraseFails, Unpublish
  <2> QED BY <2>1, <2>2, <2>3, Zenon DEF DeleteStep
<1>6. GoesOn(p)
  BY <1>5, Zenon DEF GoesOn, Unadmitted, DownloadLabels, EnqueueLabels
<1>7. (\E v : Publish(p, v)) \/ UNCHANGED statusVars
  BY Zenon
  DEF DeleteStep, AdmittedDelete, RemoveOrdinary, RemoveShared, EraseBusy,
         PathBusy, RemoveSharedRetry, Erase, EraseLinked, EraseParentBusy,
         EraseFails, Unpublish
<1> QED BY <1>1, <1>4, <1>5, <1>6, <1>7, GoesOnOwned, PublishOrdered, Zenon

\* A download that finds its model stale hands the cleanup to the queue, or,
\* if it has no attempt of a file model, runs it itself.
LEMMA StaleDownloadOrdered ==
  ASSUME OrderInv, tasks' \in Seq(Task), NEW p \in Workers,
         CheckBeforeDownload(p) \/ CheckAfterDownload(p)
  PROVE  Ownership' /\ Order' /\ UNCHANGED publisher
<1> USE DEF OrderInv, statusVars
<1>0. PICK label \in {"admitted", "recheck"}, next \in {"lock", "publish"} :
        StaleDownload(p, label, next)
  BY Zenon DEF CheckBeforeDownload, CheckAfterDownload
<1>1. /\ pc[p] \notin Unadmitted /\ TaskOf(p).type # "Delete"
      /\ UNCHANGED <<models, publisher>>
  BY <1>0, Zenon DEF StaleDownload, Unadmitted
<1>2. /\ p \in Procs /\ cur[p] # 0 /\ cur[p] \in DOMAIN tasks
      /\ TaskOf(p) \in Task
  BY <1>1, WorkerHasTask, Zenon
<1>3. CleanupTask(TaskOf(p)) \in Task
  BY Zenon, <1>2 DEF CleanupTask, Task
<1>4. Order'
  BY Zenon, <1>1 DEF Order, Ordered
<1>5. CASE CleanupDeletingModel(p) /\ usesArtifactTaskCoordinator(TaskOf(p))
  <2>1. EnqueueNew(p, CleanupTask(TaskOf(p))) /\ UNCHANGED <<cur, attempt>>
    BY <1>5, Zenon DEF CleanupDeletingModel
  <2>2. Stable
    BY <1>2, <1>3, <2>1, EnqueueStable, Zenon
  <2>3. GoesOn(p)
    BY <1>1, <2>1, Zenon DEF GoesOn, EnqueueNew, Unadmitted
  <2> QED BY <1>1, <1>4, <2>2, <2>3, GoesOnOwned, Zenon
<1>6. CASE CleanupDeletingModel(p) /\ ~ usesArtifactTaskCoordinator(TaskOf(p))
  <2>1. /\ tasks' = Append(tasks, CleanupTask(TaskOf(p)))
        /\ cur' = [cur EXCEPT ![p] = Len(tasks) + 1]
        /\ Goto(p, "begin") /\ UNCHANGED attempt
    BY <1>6, Zenon DEF CleanupDeletingModel
  <2>2. Stable
    BY <1>3, <2>1, AppendStable, Zenon
  <2>3. attempt[p] \notin {"download", "delete"}
    BY Zenon, <1>6 DEF Ownership, Slot
  <2>4. \A q \in Workers \ {p} : /\ pc'[q] = pc[q]
                                 /\ cur'[q] = cur[q]
                                 /\ attempt'[q] = attempt[q]
    BY <2>1, GopherAssumption, Zenon DEF Goto, TypeInv, TypeOK, Workers
  <2>5. pc'[p] \notin DownloadLabels \cup EnqueueLabels
    BY <1>2, <2>1, Zenon DEF Goto, TypeInv, TypeOK, DownloadLabels, EnqueueLabels
  <2> QED BY <1>1, <1>4, <2>1, <2>2, <2>3, <2>4, <2>5, LetsGoQuietly, Zenon
<1>7. CASE ~ CleanupDeletingModel(p)
  <2>1. /\ UNCHANGED <<tasks, cur, attempt>>
        /\ \E l \in {"unlock", "lock", "publish"} : Goto(p, l)
    BY <1>0, <1>7, Zenon DEF StaleDownload
  <2>2. Stable
    BY <2>1, Zenon DEF Stable, Like
  <2>3. GoesOn(p)
    BY <1>1, <2>1, Zenon DEF GoesOn, Unadmitted, DownloadLabels, EnqueueLabels
  <2> QED BY <1>1, <1>4, <2>2, <2>3, GoesOnOwned, Zenon
<1> QED BY <1>5, <1>6, <1>7, Zenon

\* Handing a download to the normal workers keeps ownership.
LEMMA DemoteOrdered ==
  ASSUME OrderInv, tasks' \in Seq(Task), NEW p \in Workers,
         pc[p] \notin Unadmitted, TaskOf(p).type # "Delete", Demote(p)
  PROVE  Ownership' /\ UNCHANGED <<models, publisher>>
<1> DEFINE t == [TaskOf(p) EXCEPT !.normalOnly = TRUE]
<1>1. /\ p \in Procs /\ cur[p] # 0 /\ cur[p] \in DOMAIN tasks
      /\ TaskOf(p) \in Task
  BY Zenon, WorkerHasTask DEF OrderInv
<1>2. t \in Task /\ Like(t, tasks[cur[p]])
  BY Zenon, <1>1 DEF Task, Like, TaskOf
<1>3. EnqueueAgain(p, cur[p], t)
  BY Zenon DEF Demote
<1>4. Stable
  BY <1>1, <1>2, <1>3, EnqueueStable, Zenon DEF OrderInv
<1>5. UNCHANGED <<models, cur, attempt, publisher>>
  BY Zenon DEF Demote, workVars, statusVars
<1>6. GoesOn(p)
  BY <1>3, <1>5, Zenon DEF GoesOn, EnqueueAgain, Unadmitted
<1> QED BY <1>4, <1>5, <1>6, GoesOnOwned, Zenon

\* The steps of a download after admission keep ownership and order.
LEMMA DownloadOrdered ==
  ASSUME OrderInv, tasks' \in Seq(Task), NEW p \in Workers, DownloadStep(p)
  PROVE  Ownership' /\ Order' /\ PublishesInOrder
<1> USE DEF workVars, enqVars, routingVars, nodeVars, statusVars
<1>a. UNCHANGED publisher => PublishesInOrder
  BY Zenon DEF PublishesInOrder
<1>1. CASE CheckBeforeDownload(p) \/ CheckAfterDownload(p)
  BY <1>1, <1>a, StaleDownloadOrdered, Zenon
<1>2. CASE SourceSharedDemote(p) \/ DirectDemote(p)
  <2>1. pc[p] \in {"source", "direct"} /\ Demote(p)
    BY Zenon, <1>2
    DEF SourceSharedDemote, SharedSource, DirectDemote, MayTransfer,
                HoldPath
  <2>2. pc[p] \notin Unadmitted /\ TaskOf(p).type # "Delete"
    BY <2>1, Zenon DEF OrderInv, Ownership, Slot, DownloadLabels, Unadmitted
  <2>3. Ownership' /\ UNCHANGED <<models, publisher>>
    BY <2>1, <2>2, DemoteOrdered, Zenon
  <2>4. Order'
    BY <2>3, Zenon DEF OrderInv, Order, Ordered
  <2> QED BY <1>a, <2>3, <2>4, Zenon
<1>3. CASE \/ LockPath(p)         \/ LockPathBusy(p)  \/ LockFails(p)
           \/ MarkUpdating(p)     \/ markModelOnNodeFailed(p)
           \/ finishDownloadStatus(p)
           \/ SourcePlain(p)      \/ SourceShared(p)  \/ SourceSharedRetry(p)
           \/ SourceDirect(p)     \/ DirectBusy(p)    \/ DirectReuse(p)
           \/ DirectWait(p)       \/ DirectStart(p)   \/ DirectFinish(p)
  <2> DEFINE T == TaskOf(p).type # "Delete"
  <2>1. /\ pc[p] \in DownloadLabels \cup {"lock", "erase"}
        /\ pc[p] \in DownloadLabels => T
    <3>1. pc[p] \in DownloadLabels => T
      BY Zenon DEF OrderInv, Ownership, Slot
    <3> QED
      BY Zenon, <1>3, <3>1
      DEF LockPath, LockPathBusy, LockFails, PathBusy, MarkUpdating,
          markModelOnNodeFailed, finishDownloadStatus, SourcePlain,
          SharedSource, SourceShared, SourceSharedRetry, SourceDirect,
          DirectBusy, HoldPath, DirectReuse, DirectWait, MayTransfer,
          DirectStart, DirectFinish, DownloadLabels
  <2>2. pc[p] \notin Unadmitted
    BY <2>1, Zenon DEF Unadmitted, DownloadLabels
  <2>3. cur[p] \in DOMAIN tasks
    BY <2>2, WorkerHasTask, Zenon DEF OrderInv
  <2>4. RequeueWithinBudget(cur[p]) \/ UNCHANGED tasks
    BY Zenon, <1>3
    DEF LockPath, LockPathBusy, LockFails, PathBusy, MarkUpdating,
        markModelOnNodeFailed, finishDownloadStatus, SourcePlain,
        SourceShared, SourceSharedRetry, SourceDirect, DirectBusy,
        DirectReuse, DirectWait, DirectStart, DirectFinish, requeueTaskOnWait
  <2>5. Stable
    BY <2>3, <2>4, RequeueStable, Zenon DEF OrderInv
  <2>6. UNCHANGED <<models, cur, attempt>>
    BY Zenon, <1>3
    DEF LockPath, LockPathBusy, LockFails, PathBusy, MarkUpdating,
        markModelOnNodeFailed, finishDownloadStatus, SourcePlain,
        SourceShared, SourceSharedRetry, SourceDirect, DirectBusy,
        DirectReuse, DirectWait, DirectStart, DirectFinish
  <2>7. (\E v : Publish(p, v)) \/ UNCHANGED statusVars
    BY Zenon, <1>3
    DEF LockPath, LockPathBusy, LockFails, PathBusy, MarkUpdating,
        markModelOnNodeFailed, finishDownloadStatus, SourcePlain,
        SourceShared, SourceSharedRetry, SourceDirect, DirectBusy,
        DirectReuse, DirectWait, DirectStart, DirectFinish, WriteStatus
  <2>8. \E l : /\ Goto(p, l)
               /\ l \in DownloadLabels \cup {"unlock", "remove"}
               /\ l \in DownloadLabels => T
    <3>1. CASE LockPath(p)
      <4>1. \/ Goto(p, "unlock")
            \/ TaskOf(p).type = "Delete" /\ Goto(p, "remove")
            \/ T /\ Goto(p, "updating")
        BY <3>1, Zenon DEF LockPath, FirstStep
      <4> HIDE DEF T
      <4> QED BY <4>1 DEF DownloadLabels
    <3>2. CASE LockPathBusy(p) \/ LockFails(p) \/ DirectBusy(p)
      <4>1. Goto(p, "unlock")
        BY <3>2, Zenon DEF LockPathBusy, LockFails, DirectBusy, PathBusy
      <4> HIDE DEF T
      <4> QED BY <4>1 DEF DownloadLabels
    <3>3. CASE ~ (LockPath(p) \/ LockPathBusy(p) \/ LockFails(p) \/ DirectBusy(p))
      <4>1. T
        BY Zenon, <1>3, <2>1, <3>3
        DEF MarkUpdating, markModelOnNodeFailed, finishDownloadStatus,
            SourcePlain, SharedSource, SourceShared, SourceSharedRetry,
            SourceDirect, HoldPath, DirectReuse, DirectWait, MayTransfer,
            DirectStart, DirectFinish, DownloadLabels
      <4> HIDE DEF T
      <4> QED
        BY Zenon, <1>3, <3>3, <4>1
        DEF MarkUpdating, markModelOnNodeFailed, finishDownloadStatus,
            SourcePlain, SourceShared, SourceSharedRetry, SourceDirect,
            DirectReuse, DirectWait, DirectStart, DirectFinish, DownloadLabels
    <3> QED BY <3>1, <3>2, <3>3, Zenon
  <2>9. GoesOn(p)
    BY <2>6, <2>8, Zenon DEF GoesOn, Unadmitted, DownloadLabels, EnqueueLabels
  <2> QED BY <2>2, <2>5, <2>6, <2>7, <2>9, GoesOnOwned, PublishOrdered, Zenon
<1> QED BY <1>1, <1>2, <1>3, Zenon DEF DownloadStep

\* The end of an attempt keeps ownership and order: another worker that has an
\* attempt of the same model would contradict the tracker's record.
LEMMA AttemptEndOrdered ==
  ASSUME OrderInv, tasks' \in Seq(Task), NEW p \in Workers,
         ReleaseFileLocks(p) \/ Finish(p)
  PROVE  Ownership' /\ Order' /\ UNCHANGED publisher
<1> USE DEF OrderInv, workVars, statusVars
<1>0. UNCHANGED <<tasks, publisher>> /\ pc[p] \in {"unlock", "finish"}
  BY Zenon DEF ReleaseFileLocks, Finish
<1>1. pc[p] \notin Unadmitted
  BY <1>0, Zenon DEF Unadmitted
<1>2. Stable
  BY <1>0, Zenon DEF Stable, Like
<1>3. CASE ReleaseFileLocks(p)
  <2>0. Goto(p, "finish") /\ UNCHANGED <<models, cur, attempt>>
    BY <1>3, Zenon DEF ReleaseFileLocks
  <2>1. GoesOn(p)
    BY <2>0 DEF GoesOn, Unadmitted, DownloadLabels, EnqueueLabels
  <2>2. Order'
    BY <1>0, <1>3, Zenon DEF ReleaseFileLocks, Order, Ordered
  <2> QED BY <1>0, <1>1, <1>2, <2>1, <2>2, GoesOnOwned, Zenon
<1>4. CASE Finish(p)
  <2> DEFINE m == ModelOf(p)
             st == models[m]
             w == publisher[m]
             Ends(x) == /\ models' = [models EXCEPT ![m] = x]
                        /\ Ordered(x, w)
                        /\ \A q \in Workers \ {p} :
                             /\ Busy(q)
                             /\ Slot(q)
                             /\ ModelOf(q) = m
                             => Keeps(q, st, x)
  <2>1. /\ p \in Procs /\ p # None /\ cur[p] # 0 /\ cur[p] \in Nat
        /\ m \in Models /\ st \in ModelState /\ w \in Nat
        /\ attempt[p] # "none" /\ keep[p] \in BOOLEAN
    BY <1>1, WorkerHasTask, NoneAssumption, Zenon
    DEF TypeInv, TypeOK, Shape, HoldsTask
  <2>2. Ordered(st, w) /\ Slot(p)
    BY Zenon, <2>1 DEF Order, Ownership
  <2>3. \E x : Ends(x)
    <3>1. CASE attempt[p] = "download"
      <4>1. models' = [models EXCEPT ![m] = finishDownload(st, p)]
        BY <1>4, <3>1, Zenon DEF Finish
      <4>2. Ordered(finishDownload(st, p), w)
        BY Zenon, <2>1, <2>2, FinishOrdered
      <4>3. ASSUME NEW q \in Workers \ {p}, Busy(q), Slot(q), ModelOf(q) = m
            PROVE  FALSE
        <5>1. st.download = p
          BY Zenon, <2>2, <3>1 DEF Slot
        <5> QED BY Zenon, <2>1, <4>3, <5>1 DEF Slot, Busy
      <4> QED BY Zenon, <4>1, <4>2, <4>3
    <3>2. CASE attempt[p] = "delete"
      <4>1. models' = [models EXCEPT ![m] = finishDelete(st, cur[p], p, keep[p])]
        BY <1>4, <3>2, Zenon DEF Finish
      <4>2. st.deleteSequence = cur[p] /\ st.deleteAttempt = p /\ st.download = None
        BY Zenon, <2>2, <3>2 DEF Slot
      <4>3. Ordered(finishDelete(st, cur[p], p, keep[p]), w)
        <5> HIDE DEF st, w
        <5>1. /\ Ordered(finishDelete(st, cur[p], p, TRUE), w)
              /\ Ordered(finishDelete(st, cur[p], p, FALSE), w)
          BY Zenon, <2>1, <2>2, <4>2, FinishOrdered
        <5>2. CASE keep[p] = TRUE
          BY Zenon, <5>1, <5>2
        <5>3. CASE keep[p] = FALSE
          BY Zenon, <5>1, <5>3
        <5> QED BY Zenon, <2>1, <5>2, <5>3
      <4>4. ASSUME NEW q \in Workers \ {p}, Busy(q), Slot(q), ModelOf(q) = m
            PROVE  FALSE
        <5>1. q \in Procs /\ q # None
          BY Zenon, <4>4, BusyHasTask
        <5> QED BY Zenon, <4>2, <4>4, <5>1 DEF Slot, Busy
      <4> QED BY Zenon, <4>1, <4>3, <4>4
    <3>3. ASSUME NEW type \in {"Download", "Delete"},
                 models' = [models EXCEPT ![m] = finishLegacyTask(st, p, type)]
          PROVE  \E x : Ends(x)
      BY Zenon, <2>1, <2>2, <3>3, LegacyOrdered
    <3>4. CASE attempt[p] \in {"legacyDownload", "legacyDelete"}
      BY Zenon, <1>4, <3>3, <3>4 DEF Finish
    <3> QED BY <2>1, <3>1, <3>2, <3>4, Zenon DEF TypeInv, TypeOK
  <2>4. PICK x : Ends(x)
    BY Zenon, <2>3
  <2>5. Return(p)
    BY <1>4, Zenon DEF Finish
  <2>6. m \in Models
    BY <2>1, Zenon
  <2> HIDE DEF m
  <2>7. Ownership'
    BY Zenon, <1>2, <2>4, <2>5, <2>6, LetsGo, ReturnFacts
  <2>8. Order'
    BY Zenon, <1>0, <2>4, <2>6, OrderKept
  <2> QED BY <1>0, <2>7, <2>8, Zenon
<1> QED BY <1>3, <1>4, Zenon

\* What the dispatcher, the resources and shutdown do keeps ownership and
\* order.
LEMMA EnvironmentOrdered ==
  ASSUME OrderInv, tasks' \in Seq(Task),
         \/ \E m \in Models, in \in Inputs : DispatchInput(m, in)
         \/ \E s \in timers : DispatchRequeued(s)
         \/ \E m \in Models : ResourceChange(m)
         \/ Stop
         \/ \E p \in Procs : Exit(p)
         \/ UNCHANGED vars
  PROVE  Ownership' /\ Order' /\ UNCHANGED publisher
<1> USE DEF OrderInv, workVars, enqVars, routingVars, nodeVars, statusVars
<1>0. UNCHANGED <<models, publisher, attempt, cur>>
  BY Zenon DEF DispatchInput, DispatchRequeued, ResourceChange, Stop, Exit, vars
<1>1. Order'
  BY Zenon, <1>0 DEF Order, Ordered
<1>2. Dispatcher \in Procs /\ Dispatcher \notin Workers
  BY GopherAssumption, Zenon DEF Workers
<1>3. ASSUME NEW m \in Models, NEW in \in Inputs, DispatchInput(m, in)
      PROVE  Ownership'
  <2>1. NewTask(in, m) \in Task /\ EnqueueNew(Dispatcher, NewTask(in, m))
    BY Zenon, <1>3, GopherAssumption DEF DispatchInput, NewTask, Task
  <2>2. Stable
    BY <1>2, <2>1, EnqueueStable, Zenon
  <2>3. Goto(Dispatcher, "reserve")
    BY <2>1, Zenon DEF EnqueueNew
  <2> QED BY <1>0, <1>2, <2>2, <2>3, QuietStep, Zenon
<1>4. ASSUME NEW s \in timers, DispatchRequeued(s)
      PROVE  Ownership'
  <2>1. s \in DOMAIN tasks /\ tasks[s] \in Task /\ Like(tasks[s], tasks[s])
    BY Zenon, NamedTask DEF TypeInv, TypeOK, Like
  <2>2. EnqueueAgain(Dispatcher, s, tasks[s])
    BY <1>4, Zenon DEF DispatchRequeued
  <2>3. Stable
    BY <1>2, <2>1, <2>2, EnqueueStable, Zenon
  <2>4. Goto(Dispatcher, "reserve")
    BY <2>2, Zenon DEF EnqueueAgain
  <2> QED BY <1>0, <1>2, <2>3, <2>4, QuietStep, Zenon
<1>5. ASSUME UNCHANGED <<tasks, pc>>
      PROVE  Ownership'
  BY Zenon, <1>0, <1>5 DEF Ownership, Slot, TaskOf, ModelOf,
                    usesArtifactTaskCoordinator, isDirectFileTask
<1>6. ASSUME NEW p \in Procs, Exit(p)
      PROVE  Ownership'
  <2>1. Stable /\ Goto(p, "exited") /\ pc[p] = "idle"
    BY Zenon, <1>6 DEF Exit, Stable, Like
  <2>2. CASE p \notin Workers
    BY Zenon, <1>0, <2>1, <2>2, QuietStep
  <2>3. CASE p \in Workers
    <3>1. attempt[p] \notin {"download", "delete"}
      BY Zenon, <2>1, <2>3 DEF Ownership, Slot, Unadmitted
    <3>2. pc'[p] \notin DownloadLabels \cup EnqueueLabels
      BY <2>1, Zenon DEF Goto, TypeInv, TypeOK, DownloadLabels, EnqueueLabels
    <3>3. \A q \in Workers \ {p} : pc'[q] = pc[q]
      BY <2>1, GopherAssumption, Zenon DEF Goto, TypeInv, TypeOK, Workers
    <3> QED BY Zenon, <1>0, <2>1, <2>3, <3>1, <3>2, <3>3, LetsGoQuietly
  <2> QED BY <2>2, <2>3, Zenon
<1>7. ASSUME (\E m \in Models : ResourceChange(m)) \/ Stop \/ UNCHANGED vars
      PROVE  Ownership'
  BY <1>5, <1>7, Zenon DEF ResourceChange, Stop, vars
<1> QED BY <1>0, <1>1, <1>3, <1>4, <1>6, <1>7, Zenon
-----------------------------------------------------------------------------
(***************************************************************************)
(* The invariant, and what follows from it.                                *)
(***************************************************************************)
\* At the start no worker has an attempt and no barrier is reserved.
LEMMA InitOrdered == Init => OrderInv
<1> SUFFICES ASSUME Init PROVE OrderInv
  BY Zenon
<1>1. TypeInv
  BY InitTyped, Zenon
<1>2. Ownership
  BY Zenon, GopherAssumption
  DEF Init, Ownership, Slot, Workers, DownloadLabels,
                          EnqueueLabels
<1>3. Order
  BY Zenon DEF Init, Order, Ordered, NewModelState
<1> QED BY <1>1, <1>2, <1>3, Zenon DEF OrderInv

\* Every step keeps ownership and order, and publishes in order.
LEMMA OrderStep == OrderInv /\ [Next]_vars => OrderInv' /\ PublishesInOrder
<1> SUFFICES ASSUME OrderInv, [Next]_vars PROVE OrderInv' /\ PublishesInOrder
  BY Zenon
<1>1. TypeInv' /\ tasks' \in Seq(Task)
  BY Zenon, TypeStep DEF OrderInv, TypeInv, TypeOK
<1>2. UNCHANGED publisher => PublishesInOrder
  BY Zenon DEF PublishesInOrder
<1>3. ASSUME NEW p \in Procs, EnqueueStep(p)
      PROVE  Ownership' /\ Order' /\ UNCHANGED publisher
  BY Zenon, <1>1, <1>3, EnqueueOrdered
  DEF EnqueueStep, EnqueueDownload, EnqueueLegacyDelete, EnqueueDeleteStale,
      EnqueueDeleteReserve, EnqueueDeleteReserved, EnqueuePush, statusVars
<1>4. ASSUME NEW s \in DOMAIN tasks, Taken(s)
      PROVE  Ownership' /\ Order' /\ UNCHANGED publisher
  BY Zenon, <1>1, <1>4, PopOrdered
  DEF Taken, PopNormal, PopHighPriority, Take, statusVars
<1>5. ASSUME NEW p \in Workers, BeginTask(p)
      PROVE  Ownership' /\ Order' /\ UNCHANGED publisher
  <2>1. Ownership' /\ Order'
    BY <1>1, <1>5, NotAdmittedOrdered, LegacyAdmittedOrdered, AdmittedOrdered, Zenon
    DEF BeginTask
  <2>2. UNCHANGED publisher
    BY Zenon, <1>5
    DEF BeginTask, BeginUnrouted, BeginReplaced, BeginLegacyDelete,
                BeginLegacyDownload, BeginDeleteProceed, BeginDeleteStale,
                BeginDeleteWait, BeginDeleteWaits, BeginDownloadProceed,
                BeginDownloadStale, BeginDownloadWait, Begins, statusVars
  <2> QED BY <2>1, <2>2, Zenon
<1>6. ASSUME NEW p \in Workers, WorkerStep(p)
      PROVE  Ownership' /\ Order' /\ PublishesInOrder
  BY <1>1, <1>2, <1>5, <1>6, DownloadOrdered, DeleteOrdered, AttemptEndOrdered, Zenon
  DEF WorkerStep
<1>7. Ownership' /\ Order' /\ PublishesInOrder
  BY <1>1, <1>2, <1>3, <1>4, <1>6, EnvironmentOrdered, Zenon DEF Next
<1> QED BY <1>1, <1>7, Zenon DEF OrderInv

\* Two attempts of one model contradict the tracker's record of the model.
LEMMA OwnersExclude == OrderInv => ExclusiveAttempts
<1> SUFFICES ASSUME OrderInv, NEW p \in Workers, NEW q \in Workers,
                    Busy(p), Busy(q), ModelOf(p) = ModelOf(q)
             PROVE  p = q
  BY Zenon DEF ExclusiveAttempts, Busy
<1>1. Slot(p) /\ Slot(q) /\ p # None /\ q # None
  BY Zenon, BusyHasTask DEF OrderInv, Ownership
<1> QED BY Zenon, <1>1 DEF Slot, Busy

\* Two workers never run file-changing attempts of one model at the same time,
\* however many workers, models and tasks there are: the mutual exclusion that
\* beginDownload, beginDelete and their finish calls implement.
THEOREM AttemptsExclude == Spec => []ExclusiveAttempts
  BY InitOrdered, OrderStep, OwnersExclude, PTL DEF Spec

\* Coordinated work publishes its status in the order in which it was asked
\* for, and never below the fence of a finished delete.
THEOREM StatusInOrder == Spec => StatusFollowsIntent
<1>1. OrderInv /\ [Next]_vars =>
        [\A m \in Models : publisher'[m] # publisher[m] =>
           /\ publisher'[m] > publisher[m]
           /\ publisher'[m] > models[m].finishedDeleteSequence]_vars
  BY OrderStep, Zenon DEF PublishesInOrder
<1> QED BY <1>1, InitOrdered, OrderStep, PTL DEF Spec, StatusFollowsIntent
=============================================================================
