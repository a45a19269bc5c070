----------------------- MODULE GopherDeliveryProofs -----------------------
(***************************************************************************)
(* Delivery.  What the tracker waits for is somewhere: in the queue, on a  *)
(* timer, or in the hands of a goroutine that will pass it on.  So a       *)
(* delete barrier is lifted and a download is admitted, unless something   *)
(* later made them void.                                                   *)
(***************************************************************************)
EXTENDS GopherDirectoryProofs

(***************************************************************************)
(* The queue.                                                              *)
(***************************************************************************)
In(list) == {list[i] : i \in DOMAIN list}

\* What is added to a list is in it, with everything that was there.
LEMMA AppendKeeps ==
  ASSUME NEW list \in Seq(Nat), NEW s \in Nat, NEW long, long = Append(list, s)
  PROVE  /\ long \in Seq(Nat) /\ s \in In(long)
         /\ \A x \in In(list) : x \in In(long)
<1>1. /\ long \in Seq(Nat) /\ Len(list) + 1 \in DOMAIN long
      /\ long[Len(list) + 1] = s
      /\ \A i \in DOMAIN list : i \in DOMAIN long /\ long[i] = list[i]
  OBVIOUS
<1>2. s \in In(long)
  BY Zenon, <1>1 DEF In
<1>3. \A x \in In(list) : x \in In(long)
  BY Zenon, <1>1 DEF In
<1> QED BY <1>1, <1>2, <1>3, Zenon

LEMMA PrependKeeps ==
  ASSUME NEW list \in Seq(Nat), NEW s \in Nat, NEW long, long = <<s>> \o list
  PROVE  /\ long \in Seq(Nat) /\ s \in In(long)
         /\ \A x \in In(list) : x \in In(long)
<1>1. /\ long \in Seq(Nat) /\ 1 \in DOMAIN long
      /\ long[1] = s
      /\ \A i \in DOMAIN list : i + 1 \in DOMAIN long /\ long[i + 1] = list[i]
  BY SMTT(30)
<1>2. s \in In(long)
  BY Zenon, <1>1 DEF In
<1>3. \A x \in In(list) : x \in In(long)
  BY Zenon, <1>1 DEF In
<1> QED BY <1>1, <1>2, <1>3, Zenon

\* Only the head of a list is not in its tail.
LEMMA TailKeeps ==
  ASSUME NEW list \in Seq(Nat), list # <<>>, NEW rest, rest = Tail(list)
  PROVE  /\ rest \in Seq(Nat)
         /\ \A x \in In(list) : x \in In(rest) \/ x = Head(list)
<1>1. rest \in Seq(Nat)
  OBVIOUS
<1>2. ASSUME NEW i \in DOMAIN list
      PROVE  list[i] = Head(list) \/ \E j \in DOMAIN rest : list[i] = rest[j]
  <2>1. CASE i = 1
    BY <2>1
  <2>2. CASE i # 1
    <3>1. i - 1 \in DOMAIN rest /\ list[i] = rest[i - 1]
      BY <2>2
    <3> QED BY Zenon, <3>1
  <2> QED BY <2>1, <2>2, Zenon
<1>3. \A x \in In(list) : x \in In(rest) \/ x = Head(list)
  BY ZenonT(30), <1>2 DEF In
<1> QED BY <1>1, <1>3, Zenon

Queue ==
  [ high : Seq(Nat), normalDownload : Seq(Nat), normalRevalidation : Seq(Nat),
    closed : BOOLEAN ]

LEMMA QueueParts ==
  ASSUME NEW q \in Queue
  PROVE  /\ q.high \in Seq(Nat) /\ q.normalDownload \in Seq(Nat)
         /\ q.normalRevalidation \in Seq(Nat) /\ q.closed \in BOOLEAN
         /\ Queued(q) = In(q.high) \cup In(q.normalDownload) \cup In(q.normalRevalidation)
         /\ q = [high |-> q.high, normalDownload |-> q.normalDownload,
                 normalRevalidation |-> q.normalRevalidation, closed |-> q.closed]
BY Zenon DEF Queue, Queued, In

LEMMA QueueOf ==
  ASSUME NEW a \in Seq(Nat), NEW b \in Seq(Nat), NEW c \in Seq(Nat),
         NEW closed \in BOOLEAN, NEW r,
         r = [high |-> a, normalDownload |-> b, normalRevalidation |-> c,
              closed |-> closed]
  PROVE  r \in Queue /\ r.closed = closed /\ Queued(r) = In(a) \cup In(b) \cup In(c)
BY Zenon DEF Queue, Queued, In

\* A delete takes the tasks that it supersedes out of a list and nothing else.
\* That is a fact about finite sets, which is shown at the end of the module.
Prunes ==
  \A ts, d : \A list \in Seq(Nat) :
    LET r == removeSupersededTasks(list, ts, d)
    IN  /\ r \in Seq(Nat)
        /\ \A i \in DOMAIN list :
             Superseded(ts, list[i], d) \/ \E n \in DOMAIN r : r[n] = list[i]

\* A delete takes only what it supersedes out of the queue, and puts itself in;
\* any other task is added to what is there.
LEMMA EnqueueKeeps ==
  ASSUME Prunes, NEW q \in Queue, NEW ts, NEW s \in Nat, NEW r, r = enqueue(q, ts, s)
  PROVE  /\ r \in Queue /\ r.closed = q.closed
         /\ q.closed \/ s \in Queued(r)
         /\ \A x \in Queued(q) :
              x \in Queued(r) \/ (ts[s].type = "Delete" /\ Superseded(ts, x, s))
<1>1. PICK h, n, v, cl :
        /\ h \in Seq(Nat) /\ n \in Seq(Nat) /\ v \in Seq(Nat) /\ cl \in BOOLEAN
        /\ Queued(q) = In(h) \cup In(n) \cup In(v)
        /\ q = [high |-> h, normalDownload |-> n, normalRevalidation |-> v,
                closed |-> cl]
  BY Zenon, QueueParts
<1>2. q.closed = cl
  BY <1>1, Zenon
<1>3. CASE cl
  BY <1>2, <1>3, Zenon DEF enqueue
<1>4. CASE ~ cl /\ ts[s].type = "Delete"
  <2>1. PICK a, b, c :
          /\ a = removeSupersededTasks(h, ts, s)
          /\ b = removeSupersededTasks(n, ts, s)
          /\ c = removeSupersededTasks(v, ts, s)
    BY Zenon
  <2>2. PICK long : long = <<s>> \o a
    BY Zenon
  <2>3. r = [high |-> long, normalDownload |-> b, normalRevalidation |-> c,
             closed |-> cl]
    BY <1>1, <1>4, <2>1, <2>2, Zenon DEF enqueue
  <2>4. a \in Seq(Nat) /\ b \in Seq(Nat) /\ c \in Seq(Nat)
    BY Zenon, <1>1, <2>1 DEF Prunes
  <2>5. ASSUME NEW l \in Seq(Nat), NEW k, k = removeSupersededTasks(l, ts, s)
        PROVE  \A x \in In(l) : x \in In(k) \/ Superseded(ts, x, s)
    <3>1. \A i \in DOMAIN l :
            Superseded(ts, l[i], s) \/ \E j \in DOMAIN k : k[j] = l[i]
      BY <2>5 DEF Prunes
    <3> QED BY Zenon, <3>1 DEF In
  <2>6. /\ \A x \in In(h) : x \in In(a) \/ Superseded(ts, x, s)
        /\ \A x \in In(n) : x \in In(b) \/ Superseded(ts, x, s)
        /\ \A x \in In(v) : x \in In(c) \/ Superseded(ts, x, s)
    BY Zenon, <1>1, <2>1, <2>5
  <2>7. /\ long \in Seq(Nat) /\ s \in In(long)
        /\ \A x \in In(a) : x \in In(long)
    BY Zenon, <2>2, <2>4, PrependKeeps
  <2>8. /\ r \in Queue /\ r.closed = cl
        /\ Queued(r) = In(long) \cup In(b) \cup In(c)
    BY <1>1, <2>3, <2>4, <2>7, QueueOf
  <2> QED BY Zenon, <1>1, <1>2, <1>4, <2>6, <2>7, <2>8
<1>5. CASE ~ cl /\ ts[s].type # "Delete" /\ shouldUseHighPriorityQueue(ts[s])
  <2>1. PICK long : long = Append(h, s)
    BY Zenon
  <2>2. r = [high |-> long, normalDownload |-> n, normalRevalidation |-> v,
             closed |-> cl]
    BY <1>1, <1>5, <2>1, Zenon DEF enqueue
  <2>3. long \in Seq(Nat) /\ s \in In(long) /\ \A x \in In(h) : x \in In(long)
    BY Zenon, <1>1, <2>1, AppendKeeps
  <2>4. /\ r \in Queue /\ r.closed = cl
        /\ Queued(r) = In(long) \cup In(n) \cup In(v)
    BY <1>1, <2>2, <2>3, QueueOf
  <2> QED BY Zenon, <1>1, <1>2, <2>3, <2>4
<1>6. CASE /\ ~ cl /\ ts[s].type # "Delete" /\ ts[s].replay
           /\ ~ shouldUseHighPriorityQueue(ts[s])
  <2>1. PICK long : long = Append(v, s)
    BY Zenon
  <2>2. r = [high |-> h, normalDownload |-> n, normalRevalidation |-> long,
             closed |-> cl]
    BY <1>1, <1>6, <2>1, Zenon DEF enqueue
  <2>3. long \in Seq(Nat) /\ s \in In(long) /\ \A x \in In(v) : x \in In(long)
    BY Zenon, <1>1, <2>1, AppendKeeps
  <2>4. /\ r \in Queue /\ r.closed = cl
        /\ Queued(r) = In(h) \cup In(n) \cup In(long)
    BY <1>1, <2>2, <2>3, QueueOf
  <2> QED BY Zenon, <1>1, <1>2, <2>3, <2>4
<1>7. CASE /\ ~ cl /\ ts[s].type # "Delete" /\ ~ ts[s].replay
           /\ ~ shouldUseHighPriorityQueue(ts[s])
  <2>1. PICK long : long = Append(n, s)
    BY Zenon
  <2>2. r = [high |-> h, normalDownload |-> long, normalRevalidation |-> v,
             closed |-> cl]
    BY <1>1, <1>7, <2>1, Zenon DEF enqueue
  <2>3. long \in Seq(Nat) /\ s \in In(long) /\ \A x \in In(n) : x \in In(long)
    BY Zenon, <1>1, <2>1, AppendKeeps
  <2>4. /\ r \in Queue /\ r.closed = cl
        /\ Queued(r) = In(h) \cup In(long) \cup In(v)
    BY <1>1, <2>2, <2>3, QueueOf
  <2> QED BY Zenon, <1>1, <1>2, <2>3, <2>4
<1> QED BY Zenon, <1>1, <1>3, <1>4, <1>5, <1>6, <1>7

\* A worker that pops takes the head of one list, and nothing else.
LEMMA PopKeeps ==
  ASSUME NEW q \in Queue, NEW r, NEW s,
         \/ /\ normalTasks(q) # <<>> /\ s = Head(normalTasks(q))
            /\ r = popNormal(q)
         \/ /\ q.high # <<>> /\ s = Head(q.high)
            /\ r = popHighPriority(q)
  PROVE  /\ r \in Queue /\ r.closed = q.closed
         /\ \A x \in Queued(q) : x \in Queued(r) \/ x = s
<1>1. PICK h, n, v, cl :
        /\ h \in Seq(Nat) /\ n \in Seq(Nat) /\ v \in Seq(Nat) /\ cl \in BOOLEAN
        /\ Queued(q) = In(h) \cup In(n) \cup In(v)
        /\ q = [high |-> h, normalDownload |-> n, normalRevalidation |-> v,
                closed |-> cl]
  BY Zenon, QueueParts
<1>2. q.closed = cl /\ q.high = h /\ q.normalDownload = n /\ q.normalRevalidation = v
  BY <1>1, Zenon
<1>3. CASE q.high # <<>> /\ s = Head(q.high) /\ r = popHighPriority(q)
  <2>1. PICK rest : rest = Tail(h)
    BY Zenon
  <2>2. r = [high |-> rest, normalDownload |-> n, normalRevalidation |-> v,
             closed |-> cl]
    BY <1>1, <1>3, <2>1, Zenon DEF popHighPriority
  <2>3. rest \in Seq(Nat) /\ \A x \in In(h) : x \in In(rest) \/ x = s
    BY Zenon, <1>1, <1>2, <1>3, <2>1, TailKeeps
  <2>4. /\ r \in Queue /\ r.closed = cl
        /\ Queued(r) = In(rest) \cup In(n) \cup In(v)
    BY <1>1, <2>2, <2>3, QueueOf
  <2> QED BY Zenon, <1>1, <1>2, <2>3, <2>4
<1>4. CASE normalTasks(q) # <<>> /\ s = Head(normalTasks(q)) /\ r = popNormal(q)
  <2>1. n \o v # <<>> /\ s = Head(n \o v)
    BY Zenon, <1>2, <1>4 DEF normalTasks
  <2>2. CASE n # <<>>
    <3>1. PICK rest : rest = Tail(n)
      BY Zenon
    <3>2. r = [high |-> h, normalDownload |-> rest, normalRevalidation |-> v,
               closed |-> cl]
      BY <1>1, <1>4, <2>2, <3>1, Zenon DEF popNormal
    <3>3. s = Head(n)
      BY <1>1, <2>1, <2>2
    <3>4. rest \in Seq(Nat) /\ \A x \in In(n) : x \in In(rest) \/ x = s
      BY Zenon, <1>1, <2>2, <3>1, <3>3, TailKeeps
    <3>5. /\ r \in Queue /\ r.closed = cl
          /\ Queued(r) = In(h) \cup In(rest) \cup In(v)
      BY <1>1, <3>2, <3>4, QueueOf
    <3> QED BY Zenon, <1>1, <1>2, <3>4, <3>5
  <2>3. CASE n = <<>>
    <3>1. PICK rest : rest = Tail(v)
      BY Zenon
    <3>2. r = [high |-> h, normalDownload |-> n, normalRevalidation |-> rest,
               closed |-> cl]
      BY <1>1, <1>4, <2>3, <3>1, Zenon DEF popNormal
    <3>3. v # <<>> /\ s = Head(v)
      BY <1>1, <2>1, <2>3
    <3>4. rest \in Seq(Nat) /\ \A x \in In(v) : x \in In(rest) \/ x = s
      BY Zenon, <1>1, <3>1, <3>3, TailKeeps
    <3>5. /\ r \in Queue /\ r.closed = cl
          /\ Queued(r) = In(h) \cup In(n) \cup In(rest)
      BY <1>1, <3>2, <3>4, QueueOf
    <3> QED BY Zenon, <1>1, <1>2, <3>4, <3>5
  <2> QED BY <2>2, <2>3, Zenon
<1> QED BY Zenon, <1>3, <1>4
-----------------------------------------------------------------------------
(***************************************************************************)
(* Where a task is before it is admitted.                                  *)
(***************************************************************************)
\* A goroutine has a task to enqueue only in enqueueTask, and a worker keeps a
\* barrier only at the end of its attempt.
Delivery ==
  /\ queue \in Queue
  /\ \A p \in Procs : pc[p] \notin EnqueueLabels => enq[p] = 0
  /\ \A p \in Workers : keep[p] => pc[p] \in {"unlock", "finish"}

\* The task waits to be admitted.
Underway(s) ==
  \/ s \in Queued(queue) \cup timers
  \/ \E p \in Procs : enq[p] = s
  \/ \E p \in Workers : cur[p] = s /\ pc[p] = "begin"

\* Where a task stops waiting for its admission: the stop signal, enqueueTask
\* that finds it stale, a delete that supersedes it, and beginTask.
Leaves(s) ==
  \/ queue.closed
  \/ \E p \in Procs : EnqueueDeleteStale(p) /\ enq[p] = s
  \/ \E p \in Procs : /\ EnqueuePush(p)
                      /\ tasks[enq[p]].type = "Delete"
                      /\ Superseded(tasks, s, enq[p])
  \/ \E p \in Workers : BeginTask(p) /\ cur[p] = s /\ pc[p] = "begin"

\* A worker takes nothing from the queue and stops no timer, and it starts to
\* enqueue only what it has in hand.
LEMMA WorkerDelivers ==
  ASSUME TypeInv, NEW p \in Workers, WorkerStep(p)
  PROVE  /\ UNCHANGED queue /\ timers \subseteq timers'
         /\ pc[p] \notin EnqueueLabels
         /\ pc[p] = "begin" => BeginTask(p)
         /\ (UNCHANGED enq /\ pc'[p] \notin EnqueueLabels) \/ pc'[p] = "reserve"
<1>1. CASE BeginTask(p)
  <2>1. /\ UNCHANGED enqVars /\ timers \subseteq timers'
        /\ pc[p] \in {"begin", "deleteWait"}
    BY Zenon, <1>1
    DEF BeginTask, BeginUnrouted, BeginReplaced, BeginLegacyDelete,
        BeginLegacyDownload, BeginDeleteProceed, BeginDeleteStale,
        BeginDeleteWait, BeginDeleteWaits, BeginDownloadProceed,
        BeginDownloadStale, BeginDownloadWait, Begins, RequeueWithinBudget,
        requeueTaskOnWait, Deleting, Downloading, Admitting
  <2>2. Return(p) \/ \E l \in {"admitted", "deleteWait"} : Goto(p, l)
    BY Zenon, <1>1
    DEF BeginTask, BeginUnrouted, BeginReplaced, BeginLegacyDelete,
        BeginLegacyDownload, BeginDeleteProceed, BeginDeleteStale,
        BeginDeleteWait, BeginDeleteWaits, BeginDownloadProceed,
        BeginDownloadStale, BeginDownloadWait, Begins
  <2>3. pc'[p] \notin EnqueueLabels
    BY <2>2, GoesTo, ReturnFacts, Zenon DEF EnqueueLabels
  <2> QED BY <1>1, <2>1, <2>3, Zenon DEF enqVars, EnqueueLabels
<1>2. CASE DownloadStep(p)
  <2>1. UNCHANGED queue /\ timers \subseteq timers' /\ pc[p] \notin EnqueueLabels
        /\ pc[p] # "begin"
    BY Zenon, <1>2
    DEF DownloadStep, CheckBeforeDownload, CheckAfterDownload, StaleDownload,
        LockPath, LockPathBusy, LockFails, MarkUpdating, markModelOnNodeFailed,
        finishDownloadStatus, SourcePlain, SharedSource, SourceShared,
        SourceSharedRetry, SourceSharedDemote, SourceDirect, HoldPath, PathBusy,
        DirectBusy, DirectReuse, DirectWait, MayTransfer, DirectDemote, Demote,
        DirectStart, DirectFinish, RequeueWithinBudget, requeueTaskOnWait,
        EnqueueLabels, enqVars
  <2>2. Goto(p, "reserve") \/ (UNCHANGED enq /\
          \E l \in {"begin", "unlock", "lock", "publish", "source", "recheck",
                    "failed", "direct", "write", "remove", "updating"} : Goto(p, l))
    BY Zenon, <1>2
    DEF DownloadStep, CheckBeforeDownload, CheckAfterDownload, StaleDownload,
        CleanupDeletingModel, EnqueueNew, LockPath, FirstStep, LockPathBusy,
        LockFails, MarkUpdating, markModelOnNodeFailed, finishDownloadStatus,
        SourcePlain, SourceShared, SourceSharedRetry, SourceSharedDemote,
        SourceDirect, PathBusy, DirectBusy, DirectReuse, DirectWait,
        DirectDemote, Demote, EnqueueAgain, DirectStart, DirectFinish, enqVars
  <2>3. (UNCHANGED enq /\ pc'[p] \notin EnqueueLabels) \/ pc'[p] = "reserve"
    BY <2>2, GoesTo, Zenon DEF EnqueueLabels
  <2> QED BY <2>1, <2>3, Zenon
<1>3. CASE DeleteStep(p) \/ ReleaseFileLocks(p)
  <2>1. /\ UNCHANGED enqVars /\ timers \subseteq timers'
        /\ pc[p] \notin EnqueueLabels /\ pc[p] # "begin"
    BY Zenon, <1>3
    DEF DeleteStep, AdmittedDelete, RemoveOrdinary, RemoveShared, EraseBusy,
        PathBusy, RemoveSharedRetry, Erase, EraseLinked, EraseParentBusy,
        EraseFails, Unpublish, ReleaseFileLocks, RequeueWithinBudget,
        requeueTaskOnWait, EnqueueLabels
  <2>2. \E l \in {"lock", "erase", "unpublish", "unlock", "finish"} : Goto(p, l)
    BY Zenon, <1>3
    DEF DeleteStep, AdmittedDelete, RemoveOrdinary, RemoveShared, EraseBusy,
        PathBusy, RemoveSharedRetry, Erase, EraseLinked, EraseParentBusy,
        EraseFails, Unpublish, ReleaseFileLocks
  <2>3. pc'[p] \notin EnqueueLabels
    BY <2>2, GoesTo, Zenon DEF EnqueueLabels
  <2> QED BY <2>1, <2>3, Zenon DEF enqVars
<1>4. CASE Finish(p)
  <2>1. UNCHANGED <<enqVars, timers>> /\ pc[p] = "finish" /\ Return(p)
    BY Zenon, <1>4 DEF Finish
  <2>2. pc'[p] \notin EnqueueLabels
    BY <2>1, ReturnFacts, Zenon
  <2> QED BY <2>1, <2>2, Zenon DEF enqVars, EnqueueLabels
<1> QED BY <1>1, <1>2, <1>3, <1>4, Zenon DEF WorkerStep

\* A worker decides to keep its barrier as it goes to the end of its attempt.
LEMMA WorkerKeeps ==
  ASSUME TypeInv, NEW p \in Workers, WorkerStep(p),
         keep[p] => pc[p] \in {"unlock", "finish"}
  PROVE  keep'[p] => pc'[p] \in {"unlock", "finish"}
<1>1. CASE Return(p)
  BY <1>1, GopherAssumption, Zenon DEF Return, TypeInv, TypeOK, Workers
<1>2. CASE Goto(p, "unlock") \/ Goto(p, "finish")
  BY <1>2, GoesTo, Zenon
<1>3. CASE UNCHANGED keep /\ pc[p] \notin {"unlock", "finish"}
  BY <1>3, Zenon
<1>4. CASE BeginTask(p)
  <2>1. Return(p) \/ (UNCHANGED keep /\ pc[p] = "begin")
    BY Zenon, <1>4
    DEF BeginTask, BeginUnrouted, BeginReplaced, BeginLegacyDelete,
        BeginLegacyDownload, BeginDeleteProceed, BeginDeleteStale,
        BeginDeleteWait, BeginDeleteWaits, BeginDownloadProceed,
        BeginDownloadStale, BeginDownloadWait, Begins, Deleting, Downloading,
        Admitting
  <2> QED BY <1>1, <1>3, <2>1, Zenon
<1>5. CASE DownloadStep(p)
  <2>1. Goto(p, "unlock") \/ (UNCHANGED keep /\ pc[p] \notin {"unlock", "finish"})
    BY Zenon, <1>5
    DEF DownloadStep, CheckBeforeDownload, CheckAfterDownload, StaleDownload,
        CleanupDeletingModel, LockPath, LockPathBusy, LockFails, MarkUpdating,
        markModelOnNodeFailed, finishDownloadStatus, SourcePlain, SharedSource,
        SourceShared, SourceSharedRetry, SourceSharedDemote, SourceDirect,
        HoldPath, PathBusy, DirectBusy, DirectReuse, DirectWait, MayTransfer,
        DirectDemote, Demote, DirectStart, DirectFinish, workVars
  <2> QED BY <1>2, <1>3, <2>1, Zenon
<1>6. CASE DeleteStep(p) \/ ReleaseFileLocks(p)
  <2>1. \/ Goto(p, "unlock") \/ Goto(p, "finish")
        \/ UNCHANGED keep /\ pc[p] \notin {"unlock", "finish"}
    BY Zenon, <1>6
    DEF DeleteStep, AdmittedDelete, RemoveOrdinary, RemoveShared, EraseBusy,
        PathBusy, RemoveSharedRetry, Erase, EraseLinked, EraseParentBusy,
        EraseFails, Unpublish, ReleaseFileLocks, workVars
  <2> QED BY <1>2, <1>3, <2>1, Zenon
<1> QED BY <1>1, <1>4, <1>5, <1>6, Zenon DEF WorkerStep, Finish

\* enqueueTask changes the queue only when it pushes, and forgets its task only
\* when it returns.
LEMMA EnqueueAlone ==
  ASSUME NEW p \in Procs, EnqueueStep(p)
  PROVE  /\ Alone(p) /\ UNCHANGED <<timers, cur, keep, attempt>>
         /\ pc[p] \in EnqueueLabels
         /\ \/ UNCHANGED enqVars /\ \E l \in {"push", "reserved"} : Goto(p, l)
            \/ /\ EnqueueDeleteStale(p) \/ EnqueuePush(p)
               /\ AfterEnqueue(p)
         /\ UNCHANGED queue \/ EnqueuePush(p)
<1>1. /\ UNCHANGED <<timers, cur, keep, attempt>>
      /\ pc[p] \in EnqueueLabels
      /\ \/ UNCHANGED enqVars /\ \E l \in {"push", "reserved"} : Goto(p, l)
         \/ /\ EnqueueDeleteStale(p) \/ EnqueuePush(p)
            /\ AfterEnqueue(p)
  BY Zenon
  DEF EnqueueStep, EnqueueDownload, EnqueueLegacyDelete, EnqueueDeleteStale,
      EnqueueDeleteReserve, EnqueueDeleteReserved, EnqueuePush, EnqueueLabels,
      workVars
<1>2. UNCHANGED queue \/ EnqueuePush(p)
  BY Zenon, <1>1 DEF EnqueueDeleteStale, enqVars
<1>3. Alone(p)
  BY Zenon, <1>1 DEF Alone, Own, Goto, AfterEnqueue, enqVars
<1> QED BY <1>1, <1>2, <1>3, Zenon

\* The dispatcher starts to enqueue only when it is idle.
LEMMA DispatchAlone ==
  ASSUME \/ \E m \in Models, in \in Inputs : DispatchInput(m, in)
         \/ \E s \in timers : DispatchRequeued(s)
  PROVE  /\ Dispatcher \in Procs /\ Alone(Dispatcher)
         /\ UNCHANGED <<queue, cur, keep, attempt>>
         /\ pc[Dispatcher] = "idle" /\ Goto(Dispatcher, "reserve")
         /\ \/ UNCHANGED timers
            \/ \E s \in timers : /\ timers' = timers \ {s}
                                 /\ enq' = [enq EXCEPT ![Dispatcher] = s]
<1>1. Dispatcher \in Procs
  BY GopherAssumption, Zenon
<1>2. /\ UNCHANGED <<queue, cur, keep, attempt>>
      /\ pc[Dispatcher] = "idle" /\ Goto(Dispatcher, "reserve")
      /\ \E s : enq' = [enq EXCEPT ![Dispatcher] = s]
      /\ \/ UNCHANGED timers
         \/ \E s \in timers : /\ timers' = timers \ {s}
                              /\ enq' = [enq EXCEPT ![Dispatcher] = s]
  BY Zenon DEF DispatchInput, DispatchRequeued, EnqueueNew, EnqueueAgain, workVars
<1>3. Alone(Dispatcher)
  BY Zenon, <1>2 DEF Alone, Own, Goto
<1> QED BY Zenon, <1>1, <1>2, <1>3

\* A worker that takes a task from the queue goes to beginTask with it.
LEMMA TakenAlone ==
  ASSUME queue \in Queue, NEW s, Taken(s)
  PROVE  \E p \in Workers :
           /\ Alone(p) /\ UNCHANGED <<enq, timers, keep, attempt>>
           /\ pc[p] = "idle" /\ Goto(p, "begin")
           /\ cur' = [cur EXCEPT ![p] = s]
           /\ queue' \in Queue /\ queue'.closed = queue.closed
           /\ \A x \in Queued(queue) : x \in Queued(queue') \/ x = s
<1>1. PICK p \in Workers :
        /\ pc[p] = "idle" /\ Take(p, s)
        /\ \/ /\ normalTasks(queue) # <<>> /\ s = Head(normalTasks(queue))
              /\ queue' = popNormal(queue)
           \/ /\ queue.high # <<>> /\ s = Head(queue.high)
              /\ queue' = popHighPriority(queue)
  BY Zenon DEF Taken, PopNormal, PopHighPriority
<1>2. /\ queue' \in Queue /\ queue'.closed = queue.closed
      /\ \A x \in Queued(queue) : x \in Queued(queue') \/ x = s
  BY Zenon, <1>1, PopKeeps
<1>3. /\ UNCHANGED <<enq, timers, keep, attempt>> /\ Goto(p, "begin")
      /\ cur' = [cur EXCEPT ![p] = s]
  BY Zenon, <1>1 DEF Take
<1>4. Alone(p)
  BY Zenon, <1>3 DEF Alone, Own, Goto
<1> QED BY Zenon, <1>1, <1>2, <1>3, <1>4

\* What enqueueTask does to the queue.
LEMMA PushKeeps ==
  ASSUME Prunes, OrderInv, queue \in Queue, NEW p \in Procs, EnqueuePush(p)
  PROVE  /\ enq[p] \in DOMAIN tasks
         /\ queue' \in Queue /\ queue'.closed = queue.closed
         /\ queue.closed \/ enq[p] \in Queued(queue')
         /\ \A x \in Queued(queue) :
              \/ x \in Queued(queue')
              \/ tasks[enq[p]].type = "Delete" /\ Superseded(tasks, x, enq[p])
<1>1. enq[p] \in DOMAIN tasks /\ enq[p] \in Nat
  BY Zenon, EnqueuerHasTask DEF OrderInv, EnqueuePush, EnqueueLabels
<1>2. queue' = enqueue(queue, tasks, enq[p])
  BY Zenon DEF EnqueuePush
<1> QED BY <1>1, <1>2, EnqueueKeeps

\* The environment and an exit leave every task where it is.
LEMMA EnvironmentDelivers ==
  ASSUME queue \in Queue,
         \/ \E m \in Models : ResourceChange(m)
         \/ Stop
         \/ \E p \in Procs : Exit(p)
         \/ UNCHANGED vars
  PROVE  /\ queue' \in Queue /\ (queue.closed => queue'.closed)
         /\ Queued(queue') = Queued(queue)
         /\ UNCHANGED <<timers, enq, cur, keep, attempt, tasks, models>>
         /\ \/ UNCHANGED pc
            \/ \E p \in Procs : pc[p] = "idle" /\ Goto(p, "exited")
<1>1. /\ UNCHANGED <<timers, enq, cur, keep, attempt, tasks, models>>
      /\ \/ UNCHANGED pc
         \/ \E p \in Procs : pc[p] = "idle" /\ Goto(p, "exited")
  BY Zenon DEF ResourceChange, Stop, Exit, vars, workVars, enqVars
<1>2. CASE UNCHANGED queue
  BY <1>1, <1>2, Zenon
<1>3. CASE Stop
  <2>1. queue' = [queue EXCEPT !.closed = TRUE]
    BY <1>3, Zenon DEF Stop
  <2>2. /\ queue' \in Queue /\ queue'.closed
        /\ queue'.high = queue.high
        /\ queue'.normalDownload = queue.normalDownload
        /\ queue'.normalRevalidation = queue.normalRevalidation
    BY <2>1, Zenon DEF Queue
  <2>3. Queued(queue') = Queued(queue)
    BY Zenon, <2>2 DEF Queued
  <2> QED BY <1>1, <2>2, <2>3, Zenon
<1> QED BY <1>2, <1>3, Zenon DEF ResourceChange, Exit, vars, enqVars

\* Every step of a goroutine p keeps Delivery if it does so for p.
LEMMA DeliversAlone ==
  ASSUME TypeInv, Delivery, NEW p \in Procs, Alone(p),
         queue' \in Queue,
         pc'[p] \notin EnqueueLabels => enq'[p] = 0,
         p \in Workers => (keep'[p] => pc'[p] \in {"unlock", "finish"})
  PROVE  Delivery'
<1>1. \A q \in Procs \ {p} :
        pc'[q] = pc[q] /\ enq'[q] = enq[q] /\ keep'[q] = keep[q]
  BY AloneKeeps, Zenon
<1>2. Workers \subseteq Procs
  BY GopherAssumption, Zenon DEF Workers
<1>3. \A q \in Procs : pc'[q] \notin EnqueueLabels => enq'[q] = 0
  BY Zenon, <1>1 DEF Delivery
<1>4. \A q \in Workers : keep'[q] => pc'[q] \in {"unlock", "finish"}
  BY Zenon, <1>1, <1>2 DEF Delivery
<1> QED BY <1>3, <1>4, Zenon DEF Delivery

\* Where a goroutine goes that moves.
LEMMA ProcGoesTo ==
  ASSUME TypeInv, NEW p \in Procs, NEW l, Goto(p, l)
  PROVE  pc'[p] = l
BY Zenon DEF Goto, TypeInv, TypeOK

LEMMA DeliveryStep ==
  ASSUME Prunes, OrderInv, Delivery, [Next]_vars
  PROVE  Delivery' /\ (queue.closed => queue'.closed)
<1> USE DEF OrderInv
<1>0. queue \in Queue /\ Workers \subseteq Procs
  BY GopherAssumption, Zenon DEF Delivery, Workers
<1>1. ASSUME NEW p \in Workers, WorkerStep(p)
      PROVE  Delivery' /\ (queue.closed => queue'.closed)
  <2>1. /\ UNCHANGED queue /\ pc[p] \notin EnqueueLabels
        /\ (UNCHANGED enq /\ pc'[p] \notin EnqueueLabels) \/ pc'[p] = "reserve"
    BY <1>1, WorkerDelivers, Zenon
  <2>2. pc'[p] \notin EnqueueLabels => enq'[p] = 0
    BY Zenon, <1>0, <2>1 DEF Delivery, EnqueueLabels
  <2>3. keep'[p] => pc'[p] \in {"unlock", "finish"}
    BY Zenon, <1>1, WorkerKeeps DEF Delivery
  <2>4. Alone(p)
    BY <1>1, WorkerAlone, Zenon
  <2> QED BY <1>0, <2>1, <2>2, <2>3, <2>4, DeliversAlone, Zenon
<1>2. ASSUME NEW p \in Procs, EnqueueStep(p)
      PROVE  Delivery' /\ (queue.closed => queue'.closed)
  <2>1. /\ Alone(p) /\ UNCHANGED keep /\ pc[p] \in EnqueueLabels
        /\ (\E l \in {"push", "reserved"} : Goto(p, l)) \/ AfterEnqueue(p)
        /\ UNCHANGED queue \/ EnqueuePush(p)
    BY Zenon, <1>2, EnqueueAlone
  <2>2. queue' \in Queue /\ queue'.closed = queue.closed
    BY <1>0, <2>1, PushKeeps, Zenon
  <2>3. pc'[p] \notin EnqueueLabels => enq'[p] = 0
    <3>1. CASE AfterEnqueue(p)
      BY <3>1, Zenon DEF AfterEnqueue, TypeInv, TypeOK
    <3>2. CASE \E l \in {"push", "reserved"} : Goto(p, l)
      BY <3>2, ProcGoesTo, Zenon DEF EnqueueLabels
    <3> QED BY <2>1, <3>1, <3>2, Zenon
  <2>4. p \in Workers => ~ keep'[p]
    BY Zenon, <2>1 DEF Delivery, EnqueueLabels
  <2> QED BY <2>1, <2>2, <2>3, <2>4, DeliversAlone, Zenon
<1>3. ASSUME NEW s, Taken(s)
      PROVE  Delivery' /\ (queue.closed => queue'.closed)
  <2>1. PICK p \in Workers :
          /\ Alone(p) /\ UNCHANGED <<enq, keep>>
          /\ pc[p] = "idle" /\ Goto(p, "begin")
          /\ queue' \in Queue /\ queue'.closed = queue.closed
    BY Zenon, <1>0, <1>3, TakenAlone
  <2>2. p \in Procs /\ enq'[p] = 0 /\ ~ keep'[p]
    BY Zenon, <1>0, <2>1 DEF Delivery, EnqueueLabels
  <2> QED BY <2>1, <2>2, DeliversAlone, Zenon
<1>4. CASE \/ \E m \in Models, in \in Inputs : DispatchInput(m, in)
           \/ \E s \in timers : DispatchRequeued(s)
  <2>1. /\ Dispatcher \in Procs /\ Alone(Dispatcher) /\ UNCHANGED queue
        /\ Goto(Dispatcher, "reserve")
    BY Zenon, <1>4, DispatchAlone
  <2>2. pc'[Dispatcher] \in EnqueueLabels
    BY <2>1, ProcGoesTo, Zenon DEF EnqueueLabels
  <2>3. Dispatcher \notin Workers
    BY GopherAssumption, Zenon DEF Workers
  <2> QED BY <1>0, <2>1, <2>2, <2>3, DeliversAlone, Zenon
<1>5. CASE \/ \E m \in Models : ResourceChange(m)
           \/ Stop
           \/ \E p \in Procs : Exit(p)
           \/ UNCHANGED vars
  <2>1. /\ queue' \in Queue /\ (queue.closed => queue'.closed)
        /\ UNCHANGED <<enq, keep>>
        /\ \/ UNCHANGED pc
           \/ \E p \in Procs : pc[p] = "idle" /\ Goto(p, "exited")
    BY Zenon, <1>0, <1>5, EnvironmentDelivers
  <2>2. CASE UNCHANGED pc
    BY <2>1, <2>2, Zenon DEF Delivery
  <2>3. ASSUME NEW p \in Procs, pc[p] = "idle", Goto(p, "exited")
        PROVE  Delivery'
    <3>1. \A q \in Procs : pc'[q] = pc[q] \/ (pc[q] = "idle" /\ pc'[q] = "exited")
      BY <2>3, Zenon DEF Goto, TypeInv, TypeOK
    <3> QED BY Zenon, <1>0, <2>1, <3>1 DEF Delivery, EnqueueLabels
  <2> QED BY <2>1, <2>2, <2>3, Zenon
<1> QED BY Zenon, <1>1, <1>2, <1>3, <1>4, <1>5 DEF Next

\* A step of p that takes nothing from the queue and stops no timer keeps every
\* task underway but the one that p has in hand.
LEMMA UnderwayAlone ==
  ASSUME TypeInv, NEW s, NEW p \in Procs, Alone(p), Underway(s),
         s \in Queued(queue) => s \in Queued(queue'),
         timers \subseteq timers',
         enq[p] # s, p \in Workers => ~ (cur[p] = s /\ pc[p] = "begin")
  PROVE  Underway(s)'
<1>1. \A q \in Procs \ {p} :
        pc'[q] = pc[q] /\ cur'[q] = cur[q] /\ enq'[q] = enq[q]
  BY AloneKeeps, Zenon
<1>2. Workers \subseteq Procs
  BY GopherAssumption, Zenon DEF Workers
<1>3. CASE s \in Queued(queue) \cup timers
  BY Zenon, <1>3 DEF Underway
<1>4. CASE \E q \in Procs : enq[q] = s
  BY Zenon, <1>1, <1>4 DEF Underway
<1>5. CASE \E q \in Workers : cur[q] = s /\ pc[q] = "begin"
  BY Zenon, <1>1, <1>2, <1>5 DEF Underway
<1> QED BY Zenon, <1>3, <1>4, <1>5 DEF Underway

\* A task that waits to be admitted goes on waiting, until it leaves.
LEMMA UnderwayKept ==
  ASSUME Prunes, OrderInv, Delivery, [Next]_vars, NEW s \in DOMAIN tasks,
         Underway(s), ~ Leaves(s)
  PROVE  Underway(s)'
<1> USE DEF OrderInv
<1>0. /\ queue \in Queue /\ Workers \subseteq Procs /\ ~ queue.closed
      /\ s # 0
  BY GopherAssumption, NamedTask, Zenon DEF Delivery, Workers, Leaves, TypeInv, TypeOK
<1>1. ASSUME NEW p \in Workers, WorkerStep(p)
      PROVE  Underway(s)'
  <2>1. /\ UNCHANGED queue /\ timers \subseteq timers' /\ pc[p] \notin EnqueueLabels
        /\ pc[p] = "begin" => BeginTask(p)
    BY <1>1, WorkerDelivers, Zenon
  <2>2. p \in Procs /\ enq[p] # s
    BY Zenon, <1>0, <2>1 DEF Delivery
  <2>3. ~ (cur[p] = s /\ pc[p] = "begin")
    BY Zenon, <2>1 DEF Leaves
  <2>4. Alone(p)
    BY <1>1, WorkerAlone, Zenon
  <2> QED BY Zenon, <2>1, <2>2, <2>3, <2>4, UnderwayAlone
<1>2. ASSUME NEW p \in Procs, EnqueueStep(p)
      PROVE  Underway(s)'
  <2>1. /\ Alone(p) /\ UNCHANGED timers /\ pc[p] \in EnqueueLabels
        /\ UNCHANGED enqVars \/ EnqueueDeleteStale(p) \/ EnqueuePush(p)
        /\ UNCHANGED queue \/ EnqueuePush(p)
    BY Zenon, <1>2, EnqueueAlone
  <2>2. s \in Queued(queue) => s \in Queued(queue')
    BY Zenon, <1>0, <2>1, PushKeeps DEF Leaves
  <2>3. pc[p] # "begin"
    BY <2>1, Zenon DEF EnqueueLabels
  <2>4. CASE enq[p] # s
    BY Zenon, <2>1, <2>2, <2>3, <2>4, UnderwayAlone
  <2>5. CASE enq[p] = s /\ UNCHANGED enqVars
    BY <2>5, Zenon DEF Underway, enqVars
  <2>6. CASE enq[p] = s /\ EnqueuePush(p)
    <3>1. s \in Queued(queue')
      BY Zenon, <1>0, <2>6, PushKeeps
    <3> QED BY <3>1, Zenon DEF Underway
  <2>7. CASE enq[p] = s /\ EnqueueDeleteStale(p)
    BY Zenon, <2>7 DEF Leaves
  <2> QED BY <2>1, <2>4, <2>5, <2>6, <2>7, Zenon
<1>3. ASSUME NEW x, Taken(x)
      PROVE  Underway(s)'
  <2>1. PICK p \in Workers :
          /\ Alone(p) /\ UNCHANGED timers
          /\ pc[p] = "idle" /\ Goto(p, "begin")
          /\ cur' = [cur EXCEPT ![p] = x]
          /\ \A y \in Queued(queue) : y \in Queued(queue') \/ y = x
    BY Zenon, <1>0, <1>3, TakenAlone
  <2>2. p \in Procs /\ enq[p] = 0
    BY Zenon, <1>0, <2>1 DEF Delivery, EnqueueLabels
  <2>3. pc'[p] = "begin" /\ cur'[p] = x
    BY <2>1, <2>2, ProcGoesTo, Zenon DEF TypeInv, TypeOK
  <2>4. CASE s = x
    BY Zenon, <2>3, <2>4 DEF Underway
  <2>5. CASE s # x
    BY <1>0, <2>1, <2>2, <2>5, UnderwayAlone, Zenon
  <2> QED BY <2>4, <2>5, Zenon
<1>4. CASE \/ \E m \in Models, in \in Inputs : DispatchInput(m, in)
           \/ \E x \in timers : DispatchRequeued(x)
  <2>1. /\ Dispatcher \in Procs /\ Alone(Dispatcher) /\ UNCHANGED queue
        /\ pc[Dispatcher] = "idle"
        /\ \/ UNCHANGED timers
           \/ \E x \in timers : /\ timers' = timers \ {x}
                                /\ enq' = [enq EXCEPT ![Dispatcher] = x]
    BY Zenon, <1>4, DispatchAlone
  <2>2. enq[Dispatcher] = 0 /\ Dispatcher \notin Workers
    BY <2>1, GopherAssumption, Zenon DEF Delivery, EnqueueLabels, Workers
  <2>3. CASE UNCHANGED timers
    BY Zenon, <1>0, <2>1, <2>2, <2>3, UnderwayAlone
  <2>4. ASSUME NEW x \in timers, timers' = timers \ {x},
               enq' = [enq EXCEPT ![Dispatcher] = x]
        PROVE  Underway(s)'
    <3>1. enq'[Dispatcher] = x /\ \A q \in Procs \ {Dispatcher} : enq'[q] = enq[q]
      BY <2>1, <2>4, Zenon DEF TypeInv, TypeOK
    <3>2. CASE s = x
      BY <2>1, <3>1, <3>2, Zenon DEF Underway
    <3>3. CASE s \in timers /\ s # x
      BY <2>4, <3>3, Zenon DEF Underway
    <3>4. CASE s \in Queued(queue)
      BY <2>1, <3>4, Zenon DEF Underway
    <3>5. CASE \E q \in Procs : enq[q] = s
      BY Zenon, <1>0, <2>2, <3>1, <3>5 DEF Underway
    <3>6. CASE \E q \in Workers : cur[q] = s /\ pc[q] = "begin"
      <4>1. \A q \in Procs \ {Dispatcher} : pc'[q] = pc[q] /\ cur'[q] = cur[q]
        BY <2>1, AloneKeeps, Zenon
      <4> QED BY Zenon, <1>0, <2>2, <3>6, <4>1 DEF Underway
    <3> QED BY Zenon, <3>2, <3>3, <3>4, <3>5, <3>6 DEF Underway
  <2> QED BY <2>1, <2>3, <2>4, Zenon
<1>5. CASE \/ \E m \in Models : ResourceChange(m)
           \/ Stop
           \/ \E p \in Procs : Exit(p)
           \/ UNCHANGED vars
  <2>1. /\ Queued(queue') = Queued(queue) /\ UNCHANGED <<timers, enq, cur>>
        /\ \/ UNCHANGED pc
           \/ \E p \in Procs : pc[p] = "idle" /\ Goto(p, "exited")
    BY Zenon, <1>0, <1>5, EnvironmentDelivers
  <2>2. \A q \in Procs : pc[q] = "begin" => pc'[q] = "begin"
    BY <2>1, Zenon DEF Goto, TypeInv, TypeOK
  <2> QED BY Zenon, <1>0, <2>1, <2>2 DEF Underway
<1> QED BY Zenon, <1>1, <1>2, <1>3, <1>4, <1>5 DEF Next

\* A worker has a delete in hand that will lift its barrier or be sent again.
HoldsDelete(p, s) ==
  cur[p] = s /\ (pc[p] = "deleteWait" \/ (attempt[p] = "delete" /\ ~ keep[p]))

\* The end of an attempt that lifts the barrier.
Lifting(p) == Finish(p) /\ attempt[p] = "delete" /\ ~ keep[p]

\* A worker that has a delete in hand keeps it, sends it again, or lifts the
\* barrier.
LEMMA WorkerHolds ==
  ASSUME OrderInv, NEW p \in Workers, WorkerStep(p), NEW s, HoldsDelete(p, s)
  PROVE  HoldsDelete(p, s)' \/ s \in timers' \/ Lifting(p)
<1> USE DEF OrderInv
<1>0. /\ p \in Procs
      /\ attempt[p] = "delete" => pc[p] \notin Unadmitted /\ TaskOf(p).type = "Delete"
  BY Zenon, GopherAssumption DEF Ownership, Slot, Workers
<1>1. CASE BeginTask(p)
  <2>1. pc[p] = "begin" \/ BeginDeleteWaits(p)
    BY Zenon, <1>1
    DEF BeginTask, BeginUnrouted, BeginReplaced, BeginLegacyDelete,
        BeginLegacyDownload, BeginDeleteProceed, BeginDeleteStale,
        BeginDeleteWait, BeginDownloadProceed, BeginDownloadStale,
        BeginDownloadWait, Deleting, Downloading, Admitting
  <2>2. pc[p] # "begin"
    BY <1>0, Zenon DEF HoldsDelete, Unadmitted
  <2> QED BY Zenon, <2>1, <2>2
      DEF BeginDeleteWaits, requeueTaskOnWait, RequeueWithinBudget, HoldsDelete
<1>2. ASSUME ~ BeginTask(p), pc[p] # "deleteWait"
      PROVE  attempt[p] = "delete" /\ ~ keep[p] /\ cur[p] = s
  BY <1>2, Zenon DEF HoldsDelete
<1>3. ASSUME UNCHANGED <<cur, attempt, keep>>, pc[p] # "deleteWait"
      PROVE  HoldsDelete(p, s)'
  BY Zenon, <1>3 DEF HoldsDelete
<1>4. CASE DownloadStep(p)
  <2>1. pc[p] # "deleteWait"
    BY Zenon, <1>4
    DEF DownloadStep, CheckBeforeDownload, CheckAfterDownload, StaleDownload,
        LockPath, LockPathBusy, LockFails, MarkUpdating, markModelOnNodeFailed,
        finishDownloadStatus, SourcePlain, SharedSource, SourceShared,
        SourceSharedRetry, SourceSharedDemote, SourceDirect, HoldPath, PathBusy,
        DirectBusy, DirectReuse, DirectWait, MayTransfer, DirectDemote,
        DirectStart, DirectFinish
  <2>2. attempt[p] = "delete" /\ cur[p] = s
    BY Zenon, <2>1 DEF HoldsDelete
  <2>3. ~ CheckBeforeDownload(p) /\ ~ CheckAfterDownload(p)
    BY Zenon, <1>0, <2>2
    DEF CheckBeforeDownload, CheckAfterDownload, StaleDownload
  <2>4. cur[p] \in timers' \/ UNCHANGED <<cur, attempt, keep>>
    BY Zenon, <1>4, <2>3
    DEF DownloadStep, LockPath, LockPathBusy, LockFails, MarkUpdating,
        markModelOnNodeFailed, finishDownloadStatus, SourcePlain, SourceShared,
        SourceSharedRetry, SourceSharedDemote, SourceDirect, PathBusy,
        DirectBusy, DirectReuse, DirectWait, DirectDemote, Demote, DirectStart,
        DirectFinish, requeueTaskOnWait, RequeueWithinBudget, workVars
  <2> QED BY Zenon, <1>3, <2>1, <2>2, <2>4
<1>5. CASE DeleteStep(p) \/ ReleaseFileLocks(p)
  <2>1. pc[p] # "deleteWait"
    BY Zenon, <1>5
    DEF DeleteStep, AdmittedDelete, RemoveOrdinary, RemoveShared, EraseBusy,
        PathBusy, RemoveSharedRetry, Erase, EraseLinked, EraseParentBusy,
        EraseFails, Unpublish, ReleaseFileLocks
  <2>2. cur[p] \in timers' \/ UNCHANGED <<cur, attempt, keep>>
    BY Zenon, <1>5
    DEF DeleteStep, AdmittedDelete, RemoveOrdinary, RemoveShared, EraseBusy,
        PathBusy, RemoveSharedRetry, Erase, EraseLinked, EraseParentBusy,
        EraseFails, Unpublish, ReleaseFileLocks, requeueTaskOnWait,
        RequeueWithinBudget, workVars
  <2>3. cur[p] = s
    BY Zenon DEF HoldsDelete
  <2> QED BY Zenon, <1>3, <2>1, <2>2, <2>3
<1>6. CASE Finish(p)
  <2>1. pc[p] = "finish"
    BY Zenon, <1>6 DEF Finish
  <2> QED BY Zenon, <1>6, <2>1 DEF HoldsDelete, Lifting
<1> QED BY Zenon, <1>1, <1>4, <1>5, <1>6 DEF WorkerStep

\* So does every step.
LEMMA HoldsKept ==
  ASSUME OrderInv, Delivery, [Next]_vars, NEW q \in Workers, NEW s,
         HoldsDelete(q, s)
  PROVE  HoldsDelete(q, s)' \/ s \in timers' \/ Lifting(q)
<1> USE DEF OrderInv
<1>0. /\ queue \in Queue /\ Workers \subseteq Procs
      /\ q \in Procs /\ pc[q] # "idle"
      /\ pc[q] \in EnqueueLabels => pc[q] # "deleteWait"
  <2>1. attempt[q] = "delete" => pc[q] \notin Unadmitted
    BY Zenon DEF Ownership, Slot
  <2>2. queue \in Queue /\ Workers \subseteq Procs
    BY GopherAssumption, Zenon DEF Delivery, Workers
  <2> QED BY <2>1, <2>2, Zenon DEF HoldsDelete, Unadmitted, EnqueueLabels
<1>1. ASSUME NEW p \in Procs, p # q, Alone(p)
      PROVE  HoldsDelete(q, s)'
  <2>1. /\ pc'[q] = pc[q] /\ cur'[q] = cur[q] /\ attempt'[q] = attempt[q]
        /\ keep'[q] = keep[q]
    BY <1>0, <1>1, AloneKeeps
  <2> QED BY Zenon, <2>1 DEF HoldsDelete
<1>2. ASSUME NEW p \in Workers, WorkerStep(p)
      PROVE  HoldsDelete(q, s)' \/ s \in timers' \/ Lifting(q)
  <2>1. CASE p = q
    BY <1>2, <2>1, WorkerHolds, Zenon
  <2>2. CASE p # q
    BY <1>0, <1>1, <1>2, <2>2, WorkerAlone, Zenon
  <2> QED BY <2>1, <2>2, Zenon
<1>3. ASSUME NEW p \in Procs, EnqueueStep(p)
      PROVE  HoldsDelete(q, s)'
  <2>1. /\ Alone(p) /\ UNCHANGED <<cur, keep, attempt>> /\ pc[p] \in EnqueueLabels
    BY Zenon, <1>3, EnqueueAlone
  <2>2. CASE p # q
    BY <1>1, <2>1, <2>2, Zenon
  <2>3. CASE p = q
    BY Zenon, <1>0, <2>1, <2>3 DEF HoldsDelete
  <2> QED BY <2>2, <2>3, Zenon
<1>4. ASSUME NEW x, Taken(x)
      PROVE  HoldsDelete(q, s)'
  <2>1. PICK p \in Workers : Alone(p) /\ pc[p] = "idle"
    BY Zenon, <1>0, <1>4, TakenAlone
  <2> QED BY <1>0, <1>1, <2>1, Zenon
<1>5. CASE \/ \E m \in Models, in \in Inputs : DispatchInput(m, in)
           \/ \E x \in timers : DispatchRequeued(x)
  <2>1. Dispatcher \in Procs /\ Alone(Dispatcher) /\ pc[Dispatcher] = "idle"
    BY Zenon, <1>5, DispatchAlone
  <2> QED BY <1>0, <1>1, <2>1, Zenon
<1>6. CASE \/ \E m \in Models : ResourceChange(m)
           \/ Stop
           \/ \E p \in Procs : Exit(p)
           \/ UNCHANGED vars
  <2>1. /\ UNCHANGED <<cur, keep, attempt>>
        /\ \/ UNCHANGED pc
           \/ \E p \in Procs : pc[p] = "idle" /\ Goto(p, "exited")
    BY Zenon, <1>0, <1>6, EnvironmentDelivers
  <2>2. pc'[q] = pc[q]
    BY <1>0, <2>1, Zenon DEF Goto, TypeInv, TypeOK
  <2> QED BY Zenon, <2>1, <2>2 DEF HoldsDelete
<1> QED BY Zenon, <1>2, <1>3, <1>4, <1>5, <1>6 DEF Next
-----------------------------------------------------------------------------
(***************************************************************************)
(* What a step does to the sequence numbers of a tracker record.           *)
(***************************************************************************)
Quiet(st, u) ==
  /\ u.deleteSequence = st.deleteSequence
  /\ u.finishedDeleteSequence = st.finishedDeleteSequence
  /\ u.newestDownloadSequence = st.newestDownloadSequence

Reserves(st, u, s) ==
  /\ st.deleteSequence \in {0, s} /\ u.deleteSequence = s
  /\ u.finishedDeleteSequence = st.finishedDeleteSequence
  /\ u.newestDownloadSequence = st.newestDownloadSequence

Lifts(u, st, s) ==
  /\ u.deleteSequence = 0 /\ u.finishedDeleteSequence = s
  /\ u.newestDownloadSequence = st.newestDownloadSequence

Admits(st, u, s) ==
  /\ u.deleteSequence = st.deleteSequence
  /\ u.finishedDeleteSequence = st.finishedDeleteSequence
  /\ s >= st.newestDownloadSequence /\ u.newestDownloadSequence = s

\* The tracker's operations, on the numbers of a record.
LEMMA OperationNumbers ==
  ASSUME NEW st \in ModelState, NEW s \in Nat, NEW p, NEW type
  PROVE  /\ DeleteReserves(st, s) => Reserves(st, beginDelete(st, s, p), s)
         /\ ~ DownloadStale(st, s) => Admits(st, beginDownload(st, s, p), s)
         /\ Quiet(st, finishDelete(st, s, p, TRUE))
         /\ Quiet(st, finishDownload(st, p))
         /\ Quiet(st, beginLegacyTask(st, p, type))
         /\ Quiet(st, finishLegacyTask(st, p, type))
         /\ st.deleteAttempt = p => Lifts(finishDelete(st, s, p, FALSE), st, s)
<1>1. DeleteReserves(st, s) => Reserves(st, beginDelete(st, s, p), s)
  BY Zenon DEF ModelState, DeleteReserves, Reserves, beginDelete
<1>2. ~ DownloadStale(st, s) => Admits(st, beginDownload(st, s, p), s)
  <2>1. /\ beginDownload(st, s, p).deleteSequence = st.deleteSequence
        /\ beginDownload(st, s, p).finishedDeleteSequence = st.finishedDeleteSequence
        /\ beginDownload(st, s, p).newestDownloadSequence = s
    BY Zenon DEF ModelState, beginDownload
  <2>2. st.newestDownloadSequence \in Nat
    BY Zenon DEF ModelState
  <2> QED BY <2>1, <2>2 DEF Admits, DownloadStale
<1>3. Quiet(st, finishDelete(st, s, p, TRUE))
  BY Zenon DEF ModelState, Quiet, finishDelete
<1>4. Quiet(st, finishDownload(st, p))
  BY Zenon DEF ModelState, Quiet, finishDownload
<1>5. Quiet(st, beginLegacyTask(st, p, type)) /\ Quiet(st, finishLegacyTask(st, p, type))
  BY Zenon DEF ModelState, Quiet, beginLegacyTask, finishLegacyTask
<1>6. st.deleteAttempt = p => Lifts(finishDelete(st, s, p, FALSE), st, s)
  BY Zenon DEF ModelState, Lifts, finishDelete
<1> QED BY Zenon, <1>1, <1>2, <1>3, <1>4, <1>5, <1>6

\* The ways in which a step changes the numbers of model m.
Reserving(m) ==
  \/ \E p \in Procs : /\ EnqueueDeleteReserve(p) /\ tasks[enq[p]].model = m
                      /\ Reserves(models[m], models'[m], enq[p])
  \/ \E p \in Workers : /\ BeginDeleteProceed(p) \/ BeginDeleteWait(p)
                        /\ ModelOf(p) = m
                        /\ Reserves(models[m], models'[m], cur[p])

LiftedBy(p, m) ==
  Lifting(p) /\ ModelOf(p) = m /\ Lifts(models'[m], models[m], cur[p])

Admitted(m) ==
  \E p \in Workers : /\ BeginDownloadProceed(p) /\ ModelOf(p) = m
                     /\ Admits(models[m], models'[m], cur[p])

NumbersStep(m) ==
  \/ Quiet(models[m], models'[m])
  \/ Reserving(m)
  \/ \E p \in Workers : LiftedBy(p, m)
  \/ Admitted(m)

\* The end of a delete that does not keep its barrier lifts it.
LEMMA LiftingLifts ==
  ASSUME OrderInv, NEW p \in Workers, Lifting(p)
  PROVE  LiftedBy(p, ModelOf(p))
<1> USE DEF OrderInv
<1> DEFINE m == ModelOf(p)
<1>1. Slot(p) /\ Busy(p) /\ attempt[p] = "delete" /\ Finish(p) /\ ~ keep[p]
  BY Zenon DEF Lifting, Ownership, Busy
<1>2. m \in Models /\ models[m] \in ModelState /\ cur[p] \in Nat /\ p \in Procs
  BY <1>1, BusyHasTask, Zenon
<1>3. models[m].deleteAttempt = p
  BY Zenon, <1>1 DEF Slot
<1>4. keep[p] = FALSE
  BY <1>1, <1>2, Zenon DEF TypeInv, TypeOK
<1>5. models' = [models EXCEPT ![m] = finishDelete(@, cur[p], p, FALSE)]
  BY <1>1, <1>4, ZenonT(30) DEF Finish
<1>6. models'[m] = finishDelete(models[m], cur[p], p, FALSE)
  BY <1>2, <1>5, Zenon DEF TypeInv, TypeOK
<1>7. Lifts(models'[m], models[m], cur[p])
  BY Zenon, <1>2, <1>3, <1>6, OperationNumbers
<1> QED BY Zenon, <1>7 DEF LiftedBy

\* A record that is replaced changes only the numbers of its model.
LEMMA NumbersElsewhere ==
  ASSUME TypeInv, NEW k \in Models, NEW u, models' = [models EXCEPT ![k] = u]
  PROVE  /\ models'[k] = u
         /\ \A m \in Models : m # k => Quiet(models[m], models'[m])
  BY Zenon DEF TypeInv, TypeOK, Quiet

LEMMA EnqueueNumbers ==
  ASSUME OrderInv, NEW p \in Procs, EnqueueStep(p), NEW m \in Models
  PROVE  Quiet(models[m], models'[m]) \/ Reserving(m)
<1> USE DEF OrderInv
<1>0. pc[p] \in EnqueueLabels
  BY EnqueueAlone, Zenon
<1> DEFINE k == tasks[enq[p]].model
<1>1. k \in Models /\ models[k] \in ModelState /\ enq[p] \in Nat
  BY <1>0, EnqueuerHasTask, Zenon
<1>2. CASE UNCHANGED models
  BY <1>2, Zenon DEF Quiet
<1>3. CASE EnqueueDeleteReserve(p) /\ DeleteReserves(models[k], enq[p])
  <2>1. models' = [models EXCEPT ![k] = beginDelete(models[k], enq[p], p)]
    BY Zenon, <1>3 DEF EnqueueDeleteReserve
  <2>2. Reserves(models[k], beginDelete(models[k], enq[p], p), enq[p])
    BY Zenon, <1>1, <1>3, OperationNumbers
  <2>3. models'[k] = beginDelete(models[k], enq[p], p)
    BY Zenon, <1>1, <2>1, NumbersElsewhere
  <2>4. CASE m = k
    BY Zenon, <1>3, <2>2, <2>3, <2>4 DEF Reserving
  <2>5. CASE m # k
    BY Zenon, <1>1, <2>1, <2>5, NumbersElsewhere
  <2> QED BY <2>4, <2>5, Zenon
<1>4. CASE EnqueueDeleteReserved(p)
  <2>1. models' = [models EXCEPT ![k] = finishDelete(models[k], enq[p], p, TRUE)]
    BY Zenon, <1>4 DEF EnqueueDeleteReserved
  <2>2. Quiet(models[k], finishDelete(models[k], enq[p], p, TRUE))
    BY Zenon, <1>1, OperationNumbers
  <2> QED BY Zenon, <1>1, <2>1, <2>2, NumbersElsewhere
<1> QED BY Zenon, <1>2, <1>3, <1>4
    DEF EnqueueStep, EnqueueDownload, EnqueueLegacyDelete, EnqueueDeleteStale,
        EnqueueDeleteReserve, EnqueuePush

LEMMA BeginNumbers ==
  ASSUME OrderInv, NEW p \in Workers, BeginTask(p), NEW m \in Models
  PROVE  NumbersStep(m)
<1> USE DEF OrderInv
<1>0. pc[p] \in {"begin", "deleteWait"}
  BY Zenon
  DEF BeginTask, BeginUnrouted, BeginReplaced, BeginLegacyDelete,
      BeginLegacyDownload, BeginDeleteProceed, BeginDeleteStale,
      BeginDeleteWait, BeginDeleteWaits, BeginDownloadProceed,
      BeginDownloadStale, BeginDownloadWait, Deleting, Downloading, Admitting
<1> DEFINE k == ModelOf(p)
<1>1. k \in Models /\ models[k] \in ModelState /\ cur[p] \in Nat
  BY <1>0, BeginnerHasTask, Zenon
<1>2. CASE UNCHANGED models
  BY <1>2, Zenon DEF Quiet, NumbersStep
<1>3. CASE BeginLegacyDelete(p) \/ BeginLegacyDownload(p) \/ BeginDeleteWaits(p)
  <2>1. PICK u : /\ models' = [models EXCEPT ![k] = u]
                 /\ \/ \E type : u = beginLegacyTask(models[k], p, type)
                    \/ u = finishDelete(models[k], cur[p], p, TRUE)
    BY Zenon, <1>3 DEF BeginLegacyDelete, BeginLegacyDownload, BeginDeleteWaits
  <2>2. Quiet(models[k], u)
    BY Zenon, <1>1, <2>1, OperationNumbers
  <2> QED BY Zenon, <1>1, <2>1, <2>2, NumbersElsewhere DEF NumbersStep
<1>4. CASE /\ BeginDeleteProceed(p) \/ BeginDeleteWait(p)
           /\ DeleteReserves(models[k], cur[p])
  <2>1. models' = [models EXCEPT ![k] = beginDelete(models[k], cur[p], p)]
    BY Zenon, <1>4 DEF BeginDeleteProceed, BeginDeleteWait
  <2>2. Reserves(models[k], beginDelete(models[k], cur[p], p), cur[p])
    BY Zenon, <1>1, <1>4, OperationNumbers
  <2> QED BY Zenon, <1>1, <1>4, <2>1, <2>2, NumbersElsewhere
      DEF NumbersStep, Reserving
<1>5. CASE BeginDownloadProceed(p)
  <2>1. models' = [models EXCEPT ![k] = beginDownload(models[k], cur[p], p)]
    BY Zenon, <1>5 DEF BeginDownloadProceed
  <2>2. Admits(models[k], beginDownload(models[k], cur[p], p), cur[p])
    BY Zenon, <1>1, <1>5, OperationNumbers
    DEF BeginDownloadProceed, DownloadProceeds
  <2> QED BY Zenon, <1>1, <1>5, <2>1, <2>2, NumbersElsewhere
      DEF NumbersStep, Admitted
<1>6. BeginDeleteProceed(p) => DeleteReserves(models[k], cur[p])
  BY Zenon DEF BeginDeleteProceed, DeleteProceeds
<1>7. CASE BeginDeleteWait(p) /\ ~ DeleteReserves(models[k], cur[p])
  BY Zenon, <1>2, <1>7 DEF BeginDeleteWait
<1> QED BY Zenon, <1>2, <1>3, <1>4, <1>5, <1>6, <1>7
    DEF BeginTask, BeginUnrouted, BeginReplaced, BeginDeleteStale,
        BeginDownloadStale, BeginDownloadWait

LEMMA FinishNumbers ==
  ASSUME OrderInv, NEW p \in Workers, Finish(p), NEW m \in Models
  PROVE  NumbersStep(m)
<1> USE DEF OrderInv
<1> DEFINE k == ModelOf(p)
<1>0. pc[p] = "finish"
  BY Zenon DEF Finish
<1>1. /\ k \in Models /\ cur[p] \in Nat /\ p \in Procs
      /\ attempt[p] # "none"
  BY <1>0, WorkerHasTask, Zenon DEF Unadmitted
<1>2. models[k] \in ModelState
  BY <1>1, Zenon DEF TypeInv, TypeOK
<1>3. CASE Lifting(p)
  <2>1. LiftedBy(p, k)
    BY <1>3, LiftingLifts, Zenon
  <2>2. \E u : models' = [models EXCEPT ![k] = u]
    BY Zenon DEF Finish
  <2>3. m # k => Quiet(models[m], models'[m])
    BY Zenon, <1>1, <2>2, NumbersElsewhere
  <2> QED BY Zenon, <2>1, <2>3 DEF NumbersStep
<1>4. CASE ~ Lifting(p)
  <2>1. attempt[p] \in {"download", "delete", "legacyDownload", "legacyDelete"}
    BY <1>1, Zenon DEF TypeInv, TypeOK
  <2>2. attempt[p] = "delete" => keep[p] = TRUE
    BY <1>1, <1>4, Zenon DEF Lifting, TypeInv, TypeOK
  <2>3. PICK u : /\ models' = [models EXCEPT ![k] = u]
                 /\ \/ u = finishDownload(models[k], p)
                    \/ u = finishDelete(models[k], cur[p], p, TRUE)
                    \/ \E type : u = finishLegacyTask(models[k], p, type)
    BY Zenon, <2>1, <2>2 DEF Finish
  <2>4. Quiet(models[k], u)
    BY Zenon, <1>1, <1>2, <2>3, OperationNumbers
  <2> QED BY Zenon, <1>1, <2>3, <2>4, NumbersElsewhere DEF NumbersStep
<1> QED BY <1>3, <1>4, Zenon

\* Every step changes the numbers of a record in one of these ways.
LEMMA NextNumbers ==
  ASSUME OrderInv, [Next]_vars, NEW m \in Models
  PROVE  NumbersStep(m)
<1>1. CASE UNCHANGED models
  BY <1>1, Zenon DEF Quiet, NumbersStep
<1>2. ASSUME NEW p \in Procs, EnqueueStep(p)
      PROVE  NumbersStep(m)
  BY Zenon, <1>2, EnqueueNumbers DEF NumbersStep
<1>3. ASSUME NEW p \in Workers, WorkerStep(p)
      PROVE  NumbersStep(m)
  <2>1. CASE BeginTask(p) \/ Finish(p)
    BY Zenon, <2>1, BeginNumbers, FinishNumbers
  <2>2. CASE DownloadStep(p)
    BY Zenon, <1>1, <2>2
    DEF DownloadStep, CheckBeforeDownload, CheckAfterDownload, StaleDownload,
        LockPath, LockPathBusy, LockFails, MarkUpdating, markModelOnNodeFailed,
        finishDownloadStatus, SourcePlain, SourceShared, SourceSharedRetry,
        SourceSharedDemote, SourceDirect, PathBusy, DirectBusy, DirectReuse,
        DirectWait, DirectDemote, Demote, DirectStart, DirectFinish
  <2>3. CASE DeleteStep(p) \/ ReleaseFileLocks(p)
    BY Zenon, <1>1, <2>3
    DEF DeleteStep, AdmittedDelete, RemoveOrdinary, RemoveShared, EraseBusy,
        PathBusy, RemoveSharedRetry, Erase, EraseLinked, EraseParentBusy,
        EraseFails, Unpublish, ReleaseFileLocks
  <2> QED BY <1>3, <2>1, <2>2, <2>3, Zenon DEF WorkerStep
<1>4. ASSUME NEW s, Taken(s)
      PROVE  NumbersStep(m)
  BY Zenon, <1>1, <1>4 DEF Taken, PopNormal, PopHighPriority, Take
<1>5. CASE \/ \E n \in Models, in \in Inputs : DispatchInput(n, in)
           \/ \E s \in timers : DispatchRequeued(s)
           \/ \E n \in Models : ResourceChange(n)
           \/ Stop
           \/ \E p \in Procs : Exit(p)
           \/ UNCHANGED vars
  BY Zenon, <1>1, <1>5
  DEF DispatchInput, DispatchRequeued, ResourceChange, Stop, Exit, vars
<1> QED BY Zenon, <1>2, <1>3, <1>4, <1>5 DEF Next
-----------------------------------------------------------------------------
(***************************************************************************)
(* The barrier of a model has a delete that will lift it.                  *)
(***************************************************************************)
\* x, if any, is the number of a coordinated delete of model m.
IsFence(ts, m, x) ==
  x # 0 => /\ x \in DOMAIN ts
           /\ ts[x].type = "Delete" /\ ts[x].model = m
           /\ usesArtifactTaskCoordinator(ts[x])

Fences ==
  \A m \in Models : /\ IsFence(tasks, m, models[m].deleteSequence)
                    /\ IsFence(tasks, m, models[m].finishedDeleteSequence)

LEMMA FenceKept ==
  ASSUME OrderInv, [Next]_vars, NEW m, NEW x, IsFence(tasks, m, x)
  PROVE  IsFence(tasks', m, x)
<1>1. Stable /\ TypeInv'
  BY NextStable, TypeStep, Zenon DEF OrderInv
<1>2. CASE x # 0
  <2>1. x \in DOMAIN tasks /\ x \in DOMAIN tasks' /\ Like(tasks'[x], tasks[x])
    BY Zenon, <1>1, <1>2 DEF IsFence, Stable
  <2>2. tasks[x] \in Task /\ tasks'[x] \in Task
    BY Zenon, <1>1, <2>1, TaskAt DEF OrderInv, TypeInv, TypeOK
  <2>3. usesArtifactTaskCoordinator(tasks'[x])
    <3>1. usesArtifactTaskCoordinator(tasks[x])
      BY Zenon, <1>2 DEF IsFence
    <3> QED BY Zenon, <2>1, <2>2, <3>1, CoordinatedLike
  <2> QED BY Zenon, <1>2, <2>1, <2>3 DEF IsFence, Like
<1> QED BY <1>2, Zenon DEF IsFence

\* A worker that begins a coordinated delete has it in hand.
LEMMA BeginDeleteHolds ==
  ASSUME OrderInv, Delivery, NEW p \in Workers,
         BeginDeleteProceed(p) \/ BeginDeleteWait(p)
  PROVE  /\ HoldsDelete(p, cur[p])' /\ cur'[p] = cur[p]
         /\ IsFence(tasks', ModelOf(p), cur[p])
<1> USE DEF OrderInv
<1>1. pc[p] = "begin" /\ TaskOf(p).type = "Delete"
      /\ usesArtifactTaskCoordinator(RoutedTask(p)) /\ Route(p)
      /\ cur' = cur /\ keep' = keep
  BY Zenon DEF BeginDeleteProceed, BeginDeleteWait, Deleting, Admitting, Begins
<1>2. p \in Procs /\ cur[p] \in DOMAIN tasks /\ TaskOf(p) \in Task
  BY <1>1, BeginnerHasTask, Zenon
<1>3. ~ keep[p]
  BY <1>1, Zenon DEF Delivery
<1>4. ASSUME BeginDeleteProceed(p) PROVE HoldsDelete(p, cur[p])'
  <2>1. attempt'[p] = "delete"
    BY <1>2, <1>4, Zenon DEF BeginDeleteProceed, Begins, TypeInv, TypeOK
  <2> QED BY Zenon, <1>1, <1>3, <2>1 DEF HoldsDelete
<1>5. ASSUME BeginDeleteWait(p) PROVE HoldsDelete(p, cur[p])'
  <2>1. pc'[p] = "deleteWait"
    BY <1>2, <1>5, Zenon DEF BeginDeleteWait, Goto, TypeInv, TypeOK
  <2> QED BY Zenon, <1>1, <2>1 DEF HoldsDelete
<1>6. /\ RoutedTask(p).type = "Delete"
      /\ RoutedTask(p).model = ModelOf(p)
  BY Zenon, <1>1, <1>2, RoutingTyped DEF RoutedTask, ModelOf
<1>7. cur[p] \in DOMAIN tasks' /\ tasks'[cur[p]] = RoutedTask(p)
  BY <1>1, <1>2, Zenon DEF Route, TypeInv, TypeOK
<1>8. HoldsDelete(p, cur[p])'
  BY <1>4, <1>5, Zenon
<1> QED BY Zenon, <1>1, <1>6, <1>7, <1>8 DEF IsFence

LEMMA FencesStep ==
  ASSUME OrderInv, Delivery, Fences, [Next]_vars
  PROVE  Fences'
<1> USE DEF OrderInv
<1> SUFFICES ASSUME NEW m \in Models
             PROVE  /\ IsFence(tasks', m, models'[m].deleteSequence)
                    /\ IsFence(tasks', m, models'[m].finishedDeleteSequence)
  BY Zenon DEF Fences
<1>1. /\ IsFence(tasks', m, models[m].deleteSequence)
      /\ IsFence(tasks', m, models[m].finishedDeleteSequence)
  BY Zenon, FenceKept DEF Fences
<1>2. IsFence(tasks', m, 0)
  BY Zenon DEF IsFence
<1>3. CASE Quiet(models[m], models'[m]) \/ Admitted(m)
  BY Zenon, <1>1, <1>3 DEF Quiet, Admitted, Admits
<1>4. CASE Reserving(m)
  <2>1. CASE \E p \in Procs : /\ EnqueueDeleteReserve(p) /\ tasks[enq[p]].model = m
                              /\ Reserves(models[m], models'[m], enq[p])
    <3>1. PICK p \in Procs : /\ EnqueueDeleteReserve(p) /\ tasks[enq[p]].model = m
                             /\ Reserves(models[m], models'[m], enq[p])
      BY Zenon, <2>1
    <3>2. pc[p] \in EnqueueLabels
      BY <3>1, Zenon DEF EnqueueDeleteReserve, EnqueueLabels
    <3>3. enq[p] \in DOMAIN tasks
      BY <3>2, EnqueuerHasTask, Zenon
    <3>4. IsFence(tasks, m, enq[p])
      BY Zenon, <3>1, <3>3 DEF IsFence, EnqueueDeleteReserve, CoordinatedDelete
    <3>5. IsFence(tasks', m, enq[p])
      BY Zenon, <3>4, FenceKept
    <3> QED BY Zenon, <1>1, <3>1, <3>5 DEF Reserves
  <2>2. CASE \E p \in Workers : /\ BeginDeleteProceed(p) \/ BeginDeleteWait(p)
                                /\ ModelOf(p) = m
                                /\ Reserves(models[m], models'[m], cur[p])
    BY Zenon, <1>1, <2>2, BeginDeleteHolds DEF Reserves
  <2> QED BY <1>4, <2>1, <2>2, Zenon DEF Reserving
<1>5. ASSUME NEW p \in Workers, LiftedBy(p, m)
      PROVE  /\ IsFence(tasks', m, models'[m].deleteSequence)
             /\ IsFence(tasks', m, models'[m].finishedDeleteSequence)
  <2>1. models[m].deleteSequence = cur[p]
    BY Zenon, <1>5 DEF LiftedBy, Lifting, Ownership, Slot
  <2> QED BY Zenon, <1>1, <1>2, <1>5, <2>1 DEF LiftedBy, Lifts
<1> QED BY Zenon, <1>3, <1>4, <1>5, NextNumbers DEF NumbersStep

\* Names are replaced for good, and a model is live from the start.
LEMMA ResourceStep ==
  ASSUME TypeInv, [Next]_vars, NEW m \in Models
  PROVE  /\ cr[m] = "replaced" => cr'[m] = "replaced"
         /\ cr'[m] = "live" => cr[m] = "live"
<1>1. CASE UNCHANGED cr
  BY <1>1, Zenon
<1>2. ASSUME NEW n \in Models, ResourceChange(n)
      PROVE  /\ cr[m] = "replaced" => cr'[m] = "replaced"
             /\ cr'[m] = "live" => cr[m] = "live"
  BY <1>2, ZenonT(30)
  DEF ResourceChange, ResourceDeleting, ResourceGone, ResourceReplaced,
      TypeInv, TypeOK
<1>3. ASSUME NEW p \in Procs, EnqueueStep(p)
      PROVE  UNCHANGED cr
  BY Zenon, <1>3
  DEF EnqueueStep, EnqueueDownload, EnqueueLegacyDelete, EnqueueDeleteStale,
      EnqueueDeleteReserve, EnqueueDeleteReserved, EnqueuePush
<1>4. ASSUME NEW p \in Workers, WorkerStep(p)
      PROVE  UNCHANGED cr
  <2>1. CASE BeginTask(p) \/ Finish(p)
    BY Zenon, <2>1
    DEF BeginTask, BeginUnrouted, BeginReplaced, BeginLegacyDelete,
        BeginLegacyDownload, BeginDeleteProceed, BeginDeleteStale,
        BeginDeleteWait, BeginDeleteWaits, BeginDownloadProceed,
        BeginDownloadStale, BeginDownloadWait, Begins, Finish
  <2>2. CASE DownloadStep(p)
    BY Zenon, <2>2
    DEF DownloadStep, CheckBeforeDownload, CheckAfterDownload, StaleDownload,
        LockPath, LockPathBusy, LockFails, MarkUpdating, markModelOnNodeFailed,
        finishDownloadStatus, SourcePlain, SourceShared, SourceSharedRetry,
        SourceSharedDemote, SourceDirect, PathBusy, DirectBusy, DirectReuse,
        DirectWait, DirectDemote, Demote, DirectStart, DirectFinish
  <2>3. CASE DeleteStep(p) \/ ReleaseFileLocks(p)
    BY Zenon, <2>3
    DEF DeleteStep, AdmittedDelete, RemoveOrdinary, RemoveShared, EraseBusy,
        PathBusy, RemoveSharedRetry, Erase, EraseLinked, EraseParentBusy,
        EraseFails, Unpublish, ReleaseFileLocks
  <2> QED BY <1>4, <2>1, <2>2, <2>3, Zenon DEF WorkerStep
<1>5. ASSUME NEW s, Taken(s)
      PROVE  UNCHANGED cr
  BY Zenon, <1>5 DEF Taken, PopNormal, PopHighPriority, Take
<1>6. CASE \/ \E n \in Models, in \in Inputs : DispatchInput(n, in)
           \/ \E s \in timers : DispatchRequeued(s)
           \/ Stop
           \/ \E p \in Procs : Exit(p)
           \/ UNCHANGED vars
  BY Zenon, <1>1, <1>6 DEF DispatchInput, DispatchRequeued, Stop, Exit, vars
<1> QED BY Zenon, <1>1, <1>2, <1>3, <1>4, <1>5, <1>6 DEF Next

\* The delete that holds the barrier is not stale, and what makes a download stale.
LEMMA BarrierNotStale ==
  ASSUME NEW st \in ModelState, NEW w, Ordered(st, w), st.deleteSequence # 0
  PROVE  ~ DeleteStale(st, st.deleteSequence)
BY DEF Ordered, DeleteStale, ModelState

LEMMA WhyStale ==
  ASSUME NEW st \in ModelState, NEW s \in Nat, DownloadStale(st, s)
  PROVE  \/ s <= st.deleteSequence
         \/ s <= st.finishedDeleteSequence
         \/ st.newestDownloadSequence >= s
BY DEF DownloadStale, ModelState

\* Without routing faults, the delete that holds the barrier is not dropped
\* when its worker begins it.
LEMMA BarrierBegins ==
  ASSUME ~ RoutingFaults, OrderInv, Delivery, NEW p \in Workers, BeginTask(p),
         pc[p] = "begin", cr[ModelOf(p)] # "replaced",
         models[ModelOf(p)].deleteSequence = cur[p],
         IsFence(tasks, ModelOf(p), cur[p])
  PROVE  HoldsDelete(p, cur[p])' /\ cur'[p] = cur[p]
<1> USE DEF OrderInv
<1>1. /\ p \in Procs /\ cur[p] # 0 /\ cur[p] \in DOMAIN tasks /\ cur[p] \in Nat
      /\ TaskOf(p) \in Task /\ ModelOf(p) \in Models
      /\ models[ModelOf(p)] \in ModelState
  BY BeginnerHasTask, Zenon
<1>2. TaskOf(p).type = "Delete" /\ usesArtifactTaskCoordinator(TaskOf(p))
  BY Zenon, <1>1 DEF IsFence, TaskOf
<1>3. usesArtifactTaskCoordinator(RoutedTask(p))
  BY Zenon, <1>1, <1>2, RoutingTyped, RoutingLike, CoordinatedLike DEF RoutedTask
<1>4. ~ DeleteStale(models[ModelOf(p)], cur[p])
  <2>1. Ordered(models[ModelOf(p)], publisher[ModelOf(p)])
    BY Zenon, <1>1 DEF Order
  <2> QED BY <1>1, <2>1, BarrierNotStale, Zenon
<1>5. BeginDeleteProceed(p) \/ BeginDeleteWait(p)
  BY Zenon, <1>2, <1>3, <1>4
  DEF BeginTask, BeginUnrouted, BeginReplaced, BeginLegacyDelete,
      BeginLegacyDownload, BeginDeleteStale, BeginDeleteWaits,
      BeginDownloadProceed, BeginDownloadStale, BeginDownloadWait, Deleting,
      Downloading, Admitting
<1> QED BY <1>5, BeginDeleteHolds, Zenon

Bears(s) == Underway(s) \/ \E p \in Workers : HoldsDelete(p, s)

Borne ==
  \A m \in Models :
    models[m].deleteSequence # 0 /\ ~ queue.closed /\ cr[m] # "replaced"
      => Bears(models[m].deleteSequence)

\* A barrier that no step reserves or lifts keeps its bearer.
LEMMA BearerKept ==
  ASSUME Prunes, ~ RoutingFaults, OrderInv, Delivery, Fences, [Next]_vars,
         NEW m \in Models, NEW s, s # 0,
         models[m].deleteSequence = s, models'[m].deleteSequence = s,
         cr[m] # "replaced", ~ queue.closed, Bears(s)
  PROVE  Bears(s)'
<1> USE DEF OrderInv
<1>1. /\ s \in DOMAIN tasks /\ tasks[s].type = "Delete" /\ tasks[s].model = m
      /\ IsFence(tasks, m, s)
  BY ZenonT(30) DEF Fences, IsFence
<1>2. CASE Underway(s) /\ ~ Leaves(s)
  BY Zenon, <1>1, <1>2, UnderwayKept DEF Bears
<1>3. ASSUME NEW p \in Procs, EnqueueDeleteStale(p), enq[p] = s
      PROVE  FALSE
  <2>1. DeleteStale(models[m], s)
    BY Zenon, <1>1, <1>3 DEF EnqueueDeleteStale
  <2>2. Ordered(models[m], publisher[m]) /\ models[m] \in ModelState
    BY Zenon DEF Order, TypeInv, TypeOK
  <2> QED BY <2>1, <2>2, BarrierNotStale, Zenon
<1>4. ASSUME NEW p \in Workers, BeginTask(p), cur[p] = s, pc[p] = "begin"
      PROVE  Bears(s)'
  <2>1. ModelOf(p) = m
    BY Zenon, <1>1, <1>4 DEF ModelOf, TaskOf
  <2>2. HoldsDelete(p, cur[p])' /\ cur'[p] = cur[p]
    BY Zenon, <1>1, <1>4, <2>1, BarrierBegins
  <2>3. HoldsDelete(p, s)'
    BY Zenon, <1>4, <2>2 DEF HoldsDelete
  <2> QED BY Zenon, <2>3 DEF Bears
<1>5. CASE Leaves(s)
  BY Zenon, <1>1, <1>3, <1>4, <1>5 DEF Leaves, Superseded
<1>6. ASSUME NEW q \in Workers, HoldsDelete(q, s)
      PROVE  Bears(s)'
  <2>1. ~ Lifting(q)
    <3> SUFFICES ASSUME Lifting(q) PROVE FALSE
      BY Zenon
    <3>1. ModelOf(q) = m
      BY Zenon, <1>1, <1>6 DEF HoldsDelete, ModelOf, TaskOf
    <3>2. LiftedBy(q, m)
      BY Zenon, <3>1, LiftingLifts
    <3> QED BY Zenon, <3>2 DEF LiftedBy, Lifts
  <2>2. HoldsDelete(q, s)' \/ s \in timers'
    BY Zenon, <1>6, <2>1, HoldsKept
  <2> QED BY Zenon, <2>2 DEF Bears, Underway
<1> QED BY Zenon, <1>2, <1>5, <1>6 DEF Bears

LEMMA BorneStep ==
  ASSUME Prunes, ~ RoutingFaults, OrderInv, Delivery, Fences, Borne, [Next]_vars
  PROVE  Borne'
<1> USE DEF OrderInv
<1> SUFFICES ASSUME NEW m \in Models, NEW s, s = models'[m].deleteSequence,
                    s # 0, ~ queue'.closed, cr'[m] # "replaced"
             PROVE  Bears(s)'
  BY Zenon DEF Borne
<1>1. ~ queue.closed /\ cr[m] # "replaced"
  BY Zenon, DeliveryStep, ResourceStep
<1>2. CASE models[m].deleteSequence = s
  BY Zenon, <1>1, <1>2, BearerKept DEF Borne
<1>3. CASE Reserving(m)
  <2>1. ASSUME NEW p \in Procs, EnqueueDeleteReserve(p),
               Reserves(models[m], models'[m], enq[p])
        PROVE  Bears(s)'
    <3>1. enq'[p] = s
      BY Zenon, <2>1 DEF EnqueueDeleteReserve, Reserves, enqVars
    <3> QED BY Zenon, <3>1 DEF Bears, Underway
  <2>2. ASSUME NEW p \in Workers, BeginDeleteProceed(p) \/ BeginDeleteWait(p),
               Reserves(models[m], models'[m], cur[p])
        PROVE  Bears(s)'
    <3>1. HoldsDelete(p, cur[p])' /\ cur'[p] = s
      BY Zenon, <2>2, BeginDeleteHolds DEF Reserves
    <3>2. HoldsDelete(p, s)'
      BY Zenon, <3>1 DEF HoldsDelete
    <3> QED BY Zenon, <3>2 DEF Bears
  <2> QED BY Zenon, <1>3, <2>1, <2>2 DEF Reserving
<1> QED BY Zenon, <1>2, <1>3, NextNumbers
    DEF NumbersStep, Quiet, LiftedBy, Lifts, Admitted, Admits

\* What bears a barrier carries it.
LEMMA BearerCarries ==
  ASSUME NEW s, Bears(s)
  PROVE  Carried(s)
<1>1. Workers \subseteq Procs
  BY GopherAssumption, Zenon DEF Workers
<1> QED BY Zenon, <1>1 DEF Bears, Underway, HoldsDelete, Carried
-----------------------------------------------------------------------------
(***************************************************************************)
(* A request to download is not lost.                                      *)
(***************************************************************************)
\* Every input is a model whose files the agent writes.
FileModels == \A in \in Inputs : in.kind \in {"object", "hub"}

AllFiles == Kinds({"object", "hub"})

Wanted(s) ==
  /\ tasks[s].type # "Delete"
  /\ cr[tasks[s].model] = "live"
  /\ ~ queue.closed

Later(s) ==
  \E d \in DOMAIN tasks : /\ d > s
                          /\ tasks[d].model = tasks[s].model
                          /\ tasks[d].type = "Delete"

Heeded(s) ==
  \/ Underway(s)
  \/ models[tasks[s].model].newestDownloadSequence >= s
  \/ Later(s)

NotLost == \A s \in DOMAIN tasks : Wanted(s) => Heeded(s)

\* Tasks of file models go through the coordinator.
LEMMA FilesCoordinated ==
  ASSUME NEW t \in Task, t.kind \in {"object", "hub"}
  PROVE  usesArtifactTaskCoordinator(t)
BY Zenon DEF Task, usesArtifactTaskCoordinator, isDirectFileTask

\* A new task object is being enqueued, or it is the cleanup of a worker.
LEMMA NewTaskEnqueued ==
  ASSUME OrderInv, [Next]_vars, NEW s \in DOMAIN tasks', s \notin DOMAIN tasks
  PROVE  (\E p \in Procs : enq'[p] = s) \/ tasks'[s].type = "Delete"
<1> USE DEF OrderInv
<1>1. tasks \in Seq(Task)
  BY Zenon DEF TypeInv, TypeOK
<1>2. ASSUME NEW t, tasks' = Append(tasks, t)
      PROVE  s = Len(tasks) + 1 /\ tasks'[s] = t
  BY <1>1, <1>2
<1>3. ASSUME NEW p \in Procs, NEW t, EnqueueNew(p, t)
      PROVE  \E q \in Procs : enq'[q] = s
  <2>1. s = Len(tasks) + 1
    BY Zenon, <1>2, <1>3 DEF EnqueueNew
  <2>2. enq'[p] = Len(tasks) + 1
    BY <1>3, Zenon DEF EnqueueNew, TypeInv, TypeOK
  <2> QED BY Zenon, <2>1, <2>2
<1>4. ASSUME NEW m \in Models, NEW in \in Inputs, DispatchInput(m, in)
      PROVE  \E p \in Procs : enq'[p] = s
  <2>1. Dispatcher \in Procs
    BY GopherAssumption, Zenon
  <2> QED BY Zenon, <1>3, <1>4, <2>1 DEF DispatchInput
<1>5. ASSUME NEW p \in Workers, cur[p] \in DOMAIN tasks, CleanupDeletingModel(p)
      PROVE  (\E q \in Procs : enq'[q] = s) \/ tasks'[s].type = "Delete"
  <2>1. p \in Procs /\ TaskOf(p) \in Task
    <3>1. p \in Procs
      BY GopherAssumption, Zenon DEF Workers
    <3>2. tasks[cur[p]] \in Task
      BY <1>1, <1>5
    <3> QED BY <3>1, <3>2, Zenon DEF TaskOf
  <2>2. CleanupTask(TaskOf(p)).type = "Delete"
    BY Zenon, <2>1 DEF CleanupTask, Task
  <2> QED BY Zenon, <1>2, <1>3, <1>5, <2>1, <2>2 DEF CleanupDeletingModel
<1> QED BY Zenon, <1>4, <1>5, TasksGrow

\* The newest download of a model never gets older.
LEMMA NewestGrows ==
  ASSUME OrderInv, [Next]_vars, NEW m \in Models
  PROVE  /\ models[m].newestDownloadSequence \in Nat
         /\ models'[m].newestDownloadSequence \in Nat
         /\ models'[m].newestDownloadSequence >= models[m].newestDownloadSequence
<1>1. models[m] \in ModelState /\ models'[m] \in ModelState
  <2>1. models \in [Models -> ModelState] /\ models' \in [Models -> ModelState]
    BY TypeStep, Zenon DEF OrderInv, TypeInv, TypeOK
  <2> QED BY <2>1, Zenon
<1>2. \/ models'[m].newestDownloadSequence = models[m].newestDownloadSequence
      \/ Admitted(m)
  BY Zenon, NextNumbers DEF NumbersStep, Quiet, Reserving, Reserves, LiftedBy, Lifts
<1>3. Admitted(m) =>
        models'[m].newestDownloadSequence >= models[m].newestDownloadSequence
  BY Zenon DEF Admitted, Admits
<1>4. models[m].newestDownloadSequence \in Nat /\ models'[m].newestDownloadSequence \in Nat
  BY <1>1, Zenon DEF ModelState
<1> QED BY <1>2, <1>3, <1>4

\* A fence at or above a download is a later delete.
LEMMA FencedLater ==
  ASSUME tasks \in Seq(Task), NEW s \in DOMAIN tasks, tasks[s].type # "Delete",
         NEW x \in Nat, s <= x, IsFence(tasks, tasks[s].model, x)
  PROVE  Later(s)
<1>1. s \in Nat /\ s # 0
  OBVIOUS
<1>2. x # 0
  BY <1>1
<1>3. x \in DOMAIN tasks /\ tasks[x].type = "Delete" /\ tasks[x].model = tasks[s].model
  BY Zenon, <1>2 DEF IsFence
<1>4. x > s
  BY <1>1, <1>3
<1> QED BY Zenon, <1>3, <1>4 DEF Later

\* A download of a live file model is admitted, waits on, or gives way to what
\* was asked for later.
LEMMA DownloadBegins ==
  ASSUME ~ RoutingFaults, OrderInv, Fences, AllFiles, NEW p \in Workers, NEW s,
         s = cur[p], BeginTask(p), pc[p] = "begin", TaskOf(p).type # "Delete",
         cr[ModelOf(p)] = "live"
  PROVE  \/ s \in timers'
         \/ models'[ModelOf(p)].newestDownloadSequence = s
         \/ models[ModelOf(p)].newestDownloadSequence >= s
         \/ Later(s)
<1> USE DEF OrderInv
<1> DEFINE m == ModelOf(p)
<1>1. /\ p \in Procs /\ s \in DOMAIN tasks /\ s \in Nat
      /\ TaskOf(p) \in Task /\ m \in Models /\ models[m] \in ModelState
      /\ TaskOf(p) = tasks[s] /\ m = tasks[s].model
  BY BeginnerHasTask, Zenon DEF TaskOf, ModelOf
<1>2. TaskOf(p).kind \in {"object", "hub"}
  BY Zenon, <1>1 DEF AllFiles, Kinds
<1>3. usesArtifactTaskCoordinator(RoutedTask(p))
  <2>1. usesArtifactTaskCoordinator(TaskOf(p))
    BY Zenon, <1>1, <1>2, FilesCoordinated
  <2> QED BY Zenon, <1>1, <2>1, RoutingTyped, RoutingLike, CoordinatedLike
      DEF RoutedTask
<1>4. BeginDownloadProceed(p) \/ BeginDownloadStale(p) \/ BeginDownloadWait(p)
  BY Zenon, <1>3
  DEF BeginTask, BeginUnrouted, BeginReplaced, BeginLegacyDelete,
      BeginLegacyDownload, BeginDeleteProceed, BeginDeleteStale,
      BeginDeleteWait, BeginDeleteWaits, Deleting, Downloading, Admitting
<1>5. CASE BeginDownloadProceed(p)
  <2>1. models'[m] = beginDownload(models[m], s, p)
    BY <1>1, <1>5, Zenon DEF BeginDownloadProceed, TypeInv, TypeOK
  <2>2. models'[m].newestDownloadSequence = s
    BY Zenon, <1>1, <2>1 DEF beginDownload, ModelState
  <2> QED BY <2>2, ZenonT(30)
<1>6. CASE BeginDownloadStale(p)
  <2>1. DownloadStale(models[m], s)
    BY Zenon, <1>6 DEF BeginDownloadStale
  <2>2. /\ models[m].deleteSequence \in Nat
        /\ models[m].finishedDeleteSequence \in Nat
        /\ models[m].newestDownloadSequence \in Nat
    BY <1>1, Zenon DEF ModelState
  <2>3. /\ IsFence(tasks, m, models[m].deleteSequence)
        /\ IsFence(tasks, m, models[m].finishedDeleteSequence)
    BY Zenon, <1>1 DEF Fences
  <2>4. \/ s <= models[m].deleteSequence
        \/ s <= models[m].finishedDeleteSequence
        \/ models[m].newestDownloadSequence >= s
    BY <1>1, <2>1, WhyStale, Zenon
  <2>5. tasks \in Seq(Task) /\ tasks[s].type # "Delete"
    BY <1>1, Zenon DEF TypeInv, TypeOK
  <2> QED BY Zenon, <1>1, <2>2, <2>3, <2>4, <2>5, FencedLater
<1>7. CASE BeginDownloadWait(p)
  BY <1>7, Zenon DEF BeginDownloadWait
<1> QED BY <1>4, <1>5, <1>6, <1>7, ZenonT(30)

\* A delete that supersedes a task of a file model was asked for after it.
LEMMA SupersededLater ==
  ASSUME OrderInv, AllFiles, NEW s \in DOMAIN tasks, NEW p \in Procs,
         EnqueuePush(p), tasks[enq[p]].type = "Delete",
         Superseded(tasks, s, enq[p])
  PROVE  Later(s)
<1> USE DEF OrderInv
<1> DEFINE d == enq[p]
<1>1. d \in DOMAIN tasks /\ d \in Nat /\ tasks[d] \in Task
  BY EnqueuerHasTask, Zenon DEF EnqueuePush, EnqueueLabels
<1>2. usesArtifactTaskCoordinator(tasks[d])
  BY Zenon, <1>1, FilesCoordinated DEF AllFiles, Kinds
<1>3. /\ tasks[s].model = tasks[d].model /\ tasks[s].type # "Delete"
      /\ ~ (s > d)
  BY Zenon, <1>2 DEF Superseded
<1>4. s \in Nat
  <2>1. tasks \in Seq(Task)
    BY Zenon DEF TypeInv, TypeOK
  <2> QED BY <2>1
<1>5. d > s
  BY <1>1, <1>3, <1>4
<1> QED BY Zenon, <1>1, <1>3, <1>5 DEF Later

LEMMA LaterKept ==
  ASSUME Stable, NEW s \in DOMAIN tasks, Later(s)
  PROVE  Later(s)'
BY Zenon DEF Stable, Like, Later

LEMMA HeedKept ==
  ASSUME Prunes, ~ RoutingFaults, OrderInv, Delivery, Fences, AllFiles,
         [Next]_vars, NEW s \in DOMAIN tasks, Wanted(s), Heeded(s)
  PROVE  Heeded(s)'
<1> USE DEF OrderInv
<1> DEFINE m == tasks[s].model
<1>1. Stable /\ s \in Nat /\ m \in Models
  BY NextStable, NamedTask, Zenon DEF TypeInv, TypeOK
<1>2. tasks'[s].model = m
  BY <1>1, Zenon DEF Stable, Like
<1>3. ASSUME models'[m].newestDownloadSequence >= s
      PROVE  Heeded(s)'
  BY Zenon, <1>2, <1>3 DEF Heeded
<1>4. CASE Later(s)
  BY Zenon, <1>1, <1>4, LaterKept DEF Heeded
<1>5. CASE models[m].newestDownloadSequence >= s
  <2>1. models'[m].newestDownloadSequence >= s
    <3>1. /\ models[m].newestDownloadSequence \in Nat
          /\ models'[m].newestDownloadSequence \in Nat
          /\ models'[m].newestDownloadSequence >= models[m].newestDownloadSequence
      BY <1>1, NewestGrows, Zenon
    <3> QED BY <1>1, <1>5, <3>1
  <2> QED BY <1>3, <2>1, Zenon
<1>6. CASE Underway(s) /\ ~ Leaves(s)
  BY Zenon, <1>6, UnderwayKept DEF Heeded
<1>7. ASSUME NEW p \in Workers, BeginTask(p), cur[p] = s, pc[p] = "begin"
      PROVE  Heeded(s)'
  <2>1. TaskOf(p).type # "Delete" /\ ModelOf(p) = m /\ cr[m] = "live"
    BY Zenon, <1>7 DEF Wanted, TaskOf, ModelOf
  <2>2. \/ s \in timers'
        \/ models'[m].newestDownloadSequence = s
        \/ models[m].newestDownloadSequence >= s
        \/ Later(s)
    BY Zenon, <1>7, <2>1, DownloadBegins
  <2>3. s \in timers' => Heeded(s)'
    BY Zenon DEF Heeded, Underway
  <2>4. models'[m].newestDownloadSequence = s => Heeded(s)'
    BY <1>1, <1>3
  <2> QED BY <1>4, <1>5, <2>2, <2>3, <2>4, Zenon
<1>8. CASE Leaves(s)
  <2>1. ASSUME NEW p \in Procs, EnqueueDeleteStale(p), enq[p] = s
        PROVE  FALSE
    BY Zenon, <2>1 DEF EnqueueDeleteStale, CoordinatedDelete, Wanted
  <2> QED BY Zenon, <1>4, <1>7, <1>8, <2>1, SupersededLater DEF Leaves, Wanted
<1> QED BY Zenon, <1>4, <1>5, <1>6, <1>8 DEF Heeded

LEMMA NotLostStep ==
  ASSUME Prunes, ~ RoutingFaults, OrderInv, Delivery, Fences, AllFiles, NotLost,
         [Next]_vars
  PROVE  NotLost'
<1> USE DEF OrderInv
<1> SUFFICES ASSUME NEW s \in DOMAIN tasks', Wanted(s)'
             PROVE  Heeded(s)'
  BY Zenon DEF NotLost
<1>1. CASE s \notin DOMAIN tasks
  BY Zenon, <1>1, NewTaskEnqueued DEF Wanted, Heeded, Underway
<1>2. CASE s \in DOMAIN tasks
  <2>1. /\ tasks'[s].type = tasks[s].type
        /\ tasks'[s].model = tasks[s].model /\ tasks[s].model \in Models
    BY <1>2, NextStable, NamedTask, Zenon DEF Stable, Like, TypeInv, TypeOK
  <2>2. Wanted(s)
    BY Zenon, <2>1, DeliveryStep, ResourceStep DEF Wanted
  <2> QED BY Zenon, <1>2, <2>2, HeedKept DEF NotLost
<1> QED BY <1>1, <1>2, Zenon
-----------------------------------------------------------------------------
(***************************************************************************)
(* A list is pruned by the ranks of what it keeps.  The Cardinality that   *)
(* the library's theorems speak of is the one that the queue uses: both    *)
(* have the same definition.                                               *)
(***************************************************************************)
USE DEF Cardinality

LOCAL INSTANCE FiniteSetTheorems

\* The places of the tasks that a delete keeps, among the tasks it keeps.
Ranks(K) == [i \in K |-> Cardinality({j \in K : j <= i})]

\* Every place from the first to the last is taken, by one task.
LEMMA RanksAreDense ==
  ASSUME NEW K \in SUBSET Nat, IsFiniteSet(K)
  PROVE  /\ Cardinality(K) \in Nat
         /\ Ranks(K) \in [K -> 1 .. Cardinality(K)]
         /\ \A i, k \in K : Ranks(K)[i] = Ranks(K)[k] => i = k
         /\ \A n \in 1 .. Cardinality(K) : \E i \in K : Ranks(K)[i] = n
<1> DEFINE N == Cardinality(K)
           below(i) == {j \in K : j <= i}
           R == Ranks(K)
<1>1. N \in Nat
  BY FS_CardinalityType, Zenon
<1>2. ASSUME NEW i \in K
      PROVE  IsFiniteSet(below(i)) /\ Cardinality(below(i)) \in 1 .. N
  <2>1. IsFiniteSet(below(i)) /\ Cardinality(below(i)) <= N
    BY FS_Subset, Zenon
  <2>2. Cardinality(below(i)) \in Nat
    BY <2>1, FS_CardinalityType, Zenon
  <2>3. i \in below(i)
    OBVIOUS
  <2>4. Cardinality(below(i)) # 0
    BY <2>1, <2>3, FS_EmptySet, Zenon
  <2> QED BY <1>1, <2>1, <2>2, <2>4
<1>3. R \in [K -> 1 .. N]
  BY <1>2, Zenon DEF Ranks
<1>4. ASSUME NEW i \in K, NEW k \in K, i < k
      PROVE  R[i] # R[k]
  <2>0. i \in Nat /\ k \in Nat /\ \A j \in K : j \in Nat
    BY Zenon
  <2>1. \A j \in K : j <= i => j <= k
    BY <1>4, <2>0
  <2>2. k \in below(k) /\ k \notin below(i)
    BY <1>4
  <2>3. IsFiniteSet(below(k)) /\ below(k) # below(i)
    BY <1>2, <2>2, Zenon
  <2> HIDE DEF below
  <2>4. Cardinality(below(k)) # Cardinality(below(i))
    <3>1. below(i) \in SUBSET below(k)
      BY <2>1, Zenon DEF below
    <3> QED BY <2>3, <3>1, FS_Subset, Zenon
  <2> USE DEF below
  <2> QED BY <2>4, Zenon DEF Ranks
<1>5. \A i, k \in K : R[i] = R[k] => i = k
  BY <1>4
<1>6. R \in Injection(K, 1 .. N)
  BY <1>3, <1>5, Zenon DEF Injection, IsInjective
<1>7. IsFiniteSet(1 .. N) /\ Cardinality(1 .. N) = N
  BY <1>1, FS_Interval
<1>8. R \in Surjection(K, 1 .. N)
  BY <1>6, <1>7, FS_Injection, Zenon
<1>9. \A n \in 1 .. N : \E i \in K : R[i] = n
  BY <1>8, Zenon DEF Surjection
<1> QED BY <1>1, <1>3, <1>5, <1>9, Zenon

\* So a list that is pruned has what the delete does not supersede.
LEMMA PruneKeeps ==
  ASSUME NEW list \in Seq(Nat), NEW ts, NEW d,
         NEW r, r = removeSupersededTasks(list, ts, d)
  PROVE  /\ r \in Seq(Nat)
         /\ \A i \in DOMAIN list :
              Superseded(ts, list[i], d) \/ \E n \in DOMAIN r : r[n] = list[i]
         /\ \A n \in DOMAIN r :
              \E i \in DOMAIN list : r[n] = list[i] /\ ~ Superseded(ts, list[i], d)
<1> DEFINE K == {i \in DOMAIN list : ~ Superseded(ts, list[i], d)}
           at(n) == CHOOSE i \in K : Ranks(K)[i] = n
<1>1. K \in SUBSET Nat /\ IsFiniteSet(K)
  <2>1. DOMAIN list = 1 .. Len(list) /\ Len(list) \in Nat
    OBVIOUS
  <2>2. IsFiniteSet(1 .. Len(list))
    BY <2>1, FS_Interval
  <2> QED BY <2>1, <2>2, FS_Subset
<1> HIDE DEF K
<1>2. r = [n \in 1 .. Cardinality(K) |-> list[at(n)]]
  BY Zenon DEF removeSupersededTasks, K, Ranks, Cardinality
<1>3. ASSUME NEW n \in 1 .. Cardinality(K)
      PROVE  at(n) \in K /\ Ranks(K)[at(n)] = n
  BY <1>1, RanksAreDense, Zenon
<1>4. K \subseteq DOMAIN list /\ \A i \in K : ~ Superseded(ts, list[i], d)
  BY Zenon DEF K
<1>5. Cardinality(K) \in Nat
  BY <1>1, RanksAreDense, Zenon
<1>6. r \in Seq(Nat) /\ DOMAIN r = 1 .. Cardinality(K)
  BY <1>2, <1>3, <1>4, <1>5
<1>7. ASSUME NEW i \in DOMAIN list, ~ Superseded(ts, list[i], d)
      PROVE  \E n \in DOMAIN r : r[n] = list[i]
  <2>1. i \in K
    BY <1>7, Zenon DEF K
  <2>2. Ranks(K)[i] \in DOMAIN r
    BY <1>1, <1>6, <2>1, RanksAreDense, ZenonT(30)
  <2>3. at(Ranks(K)[i]) = i
    BY <1>1, <1>3, <1>6, <2>1, <2>2, RanksAreDense
  <2> QED BY <1>2, <1>6, <2>2, <2>3, ZenonT(30)
<1>8. ASSUME NEW n \in DOMAIN r
      PROVE  \E i \in DOMAIN list : r[n] = list[i] /\ ~ Superseded(ts, list[i], d)
  BY <1>2, <1>3, <1>4, <1>6, Zenon
<1> QED BY <1>6, <1>7, <1>8, Zenon

LEMMA DeletesPrune == Prunes
<1>1. ASSUME NEW ts, NEW d, NEW list \in Seq(Nat)
      PROVE  LET r == removeSupersededTasks(list, ts, d)
             IN  /\ r \in Seq(Nat)
                 /\ \A i \in DOMAIN list :
                      \/ Superseded(ts, list[i], d)
                      \/ \E n \in DOMAIN r : r[n] = list[i]
  <2>1. PICK r : r = removeSupersededTasks(list, ts, d)
    BY Zenon
  <2>2. r \in Seq(Nat)
    BY <2>1, PruneKeeps, Zenon
  <2>3. \A i \in DOMAIN list :
          Superseded(ts, list[i], d) \/ \E n \in DOMAIN r : r[n] = list[i]
    BY <2>1, PruneKeeps
  <2> QED BY Zenon, <2>1, <2>2, <2>3
<1> QED BY Zenon, <1>1 DEF Prunes

LEMMA InitDelivers ==
  Init => Delivery /\ Fences /\ Borne /\ AllFiles /\ NotLost
<1> SUFFICES ASSUME Init
             PROVE  Delivery /\ Fences /\ Borne /\ AllFiles /\ NotLost
  BY Zenon
<1>1. /\ tasks = <<>> /\ queue = NewQueue
      /\ \A m \in Models : /\ models[m].deleteSequence = 0
                           /\ models[m].finishedDeleteSequence = 0
      /\ \A p \in Procs : enq[p] = 0 /\ keep[p] = FALSE
  BY Zenon DEF Init, NewModelState
<1>2. Workers \subseteq Procs
  BY GopherAssumption, Zenon DEF Workers
<1>3. Delivery
  <2>1. NewQueue \in Queue
    BY DEF Queue, NewQueue
  <2> QED BY <1>1, <1>2, <2>1, Zenon DEF Delivery
<1>4. Fences /\ Borne
  BY Zenon, <1>1 DEF Fences, IsFence, Borne
<1>5. AllFiles /\ NotLost
  BY <1>1 DEF AllFiles, Kinds, NotLost
<1> QED BY <1>3, <1>4, <1>5, Zenon

\* A delete barrier always has a task that will lift it.  While the ConfigMap
\* is unreadable (RoutingFaults) beginTask may use up the wait budget of a delete
\* and drop it with its barrier in place, as the run gopher_unrouted shows.
THEOREM BarrierCarriedHolds ==
  ASSUME ~ RoutingFaults
  PROVE  Spec => []BarrierCarried
<1>1. Init => OrderInv /\ Delivery /\ Fences /\ Borne
  BY Zenon, InitOrdered, InitDelivers
<1>2. OrderInv /\ Delivery /\ Fences /\ Borne /\ [Next]_vars
        => (OrderInv /\ Delivery /\ Fences /\ Borne)'
  BY OrderStep, DeletesPrune, DeliveryStep, FencesStep, BorneStep, Zenon
<1>3. Borne => BarrierCarried
  BY Zenon, BearerCarries DEF Borne, BarrierCarried
<1> QED BY <1>1, <1>2, <1>3, PTL DEF Spec

\* No request to download a live model is lost, if the agent writes the files
\* of every model.  A legacy delete (of a plain model) would prune the model's
\* queued tasks without regard to the order of the requests.
THEOREM DownloadNotLostHolds ==
  ASSUME ~ RoutingFaults, FileModels
  PROVE  Spec => []DownloadNotLost
<1>1. Init => OrderInv /\ Delivery /\ Fences /\ AllFiles /\ NotLost
  BY Zenon, InitOrdered, InitDelivers
<1>2. OrderInv /\ Delivery /\ Fences /\ AllFiles /\ NotLost /\ [Next]_vars
        => (OrderInv /\ Delivery /\ Fences /\ AllFiles /\ NotLost)'
  <2> SUFFICES ASSUME OrderInv, Delivery, Fences, AllFiles, NotLost, [Next]_vars
               PROVE  (OrderInv /\ Delivery /\ Fences /\ AllFiles /\ NotLost)'
    BY Zenon
  <2>1. AllFiles'
    BY KindsStep, Zenon DEF AllFiles, FileModels
  <2> QED BY <2>1, OrderStep, DeletesPrune, DeliveryStep, FencesStep, NotLostStep, Zenon
<1>3. NotLost => DownloadNotLost
  <2>1. \A s : Underway(s) => Carried(s)
    BY Zenon, BearerCarries DEF Bears
  <2> QED BY Zenon, <2>1 DEF NotLost, Wanted, Heeded, Later, DownloadNotLost
<1> QED BY <1>1, <1>2, <1>3, PTL DEF Spec
=============================================================================
