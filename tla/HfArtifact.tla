----------------------------- MODULE HfArtifact -----------------------------
(***************************************************************************)
(* Shared Hugging Face artifacts (pkg/modelagent/hf_artifact_*.go).        *)
(* Several models of a node use one directory of files, the parent; each   *)
(* model's own path is a symbolic link to it.  Workers of one or more      *)
(* agent processes download, validate, repair, attach to and delete the    *)
(* parent.  The state survives them in three places: records in the node   *)
(* ConfigMap (module HfArtifactRepository), the directory with its ready   *)
(* marker and the links, and the node's labels.                            *)
(*                                                                         *)
(* A step of a worker makes at most one durable change, so a crash, or an  *)
(* operation of another process, can fall between any two.                 *)
(***************************************************************************)
EXTENDS HfArtifactRepository, Naturals

CONSTANTS
  Workers, Agents,   \* normal-priority workers, and the processes they run in
  Kinds,             \* the tasks that are explored
  Faults,            \* the faults and intrusions that may happen, and
  MaxFaults,         \* how many of them, by the number of processes
  Torn,              \* a marker that was opened for writing and not written
  Repeats            \* whether a model's task may come again at any time

ASSUME HfArtifactAssumption ==
  /\ None \notin Workers
  /\ Torn \notin Locks /\ Torn # None
  /\ Kinds \subseteq {"Download", "DownloadOverride", "Delete", "Detach"}
  /\ Faults \subseteq { "crash", "loss", "api", "io", "source", "rot", "cancel", "budget",
                        "shared" }
  /\ MaxFaults \in [1 .. Cardinality(Agents) -> Nat]
  /\ Repeats \in BOOLEAN

VARIABLES
  parent, entry,   \* the records in the ConfigMap
  label,           \* the node label of each model
  dir,             \* what is in the parent directory
  marker,          \* the lock ID in its ready marker, None if there is none
  links,           \* the models whose path is a link to it
  flock,           \* the worker that holds the parent's file lock
  home,            \* the process of each worker
  mem,             \* what a process remembers of the artifact
  pc, op, own,     \* a worker's place, task and lock ID
  cr,              \* the model resources
  faults           \* the faults so far

files == <<dir, marker, links>>
local == <<flock, mem, pc, op, own>>
vars  == <<parent, entry, label, files, local, home, cr, faults>>

Good == {"complete", "rotten"}

\* The models that wait for a worker; startup.recovered, .pending and .deferred;
\* pendingLockReleases; and the models whose entries this process was about to
\* delete.  A new process asks for every model (Scout).
NewMemory ==
  [ todo |-> Models, recovered |-> FALSE, pending |-> "none", deferred |-> FALSE,
    release |-> None, releaseTo |-> "Updating", fenced |-> {} ]

Idle ==
  [ kind |-> "none", model |-> None, aim |-> "none", once |-> FALSE,
    checked |-> FALSE, keep |-> FALSE, to |-> "Failed" ]

Init ==
  /\ parent = NoParent
  /\ entry = [m \in Models |-> NoEntry]
  /\ label = [m \in Models |-> "none"]
  /\ dir = "absent" /\ marker = None /\ links = {}
  /\ flock = None
  /\ home \in [Workers -> Agents]
  /\ mem = [a \in Agents |-> NewMemory]
  /\ pc = [w \in Workers |-> "idle"]
  /\ op = [w \in Workers |-> Idle]
  /\ own = [w \in Workers |-> None]
  /\ cr = [m \in Models |-> "live"]
  /\ faults = 0
-----------------------------------------------------------------------------
M(w)   == op[w].model
Mem(w) == mem[home[w]]

MarkerExists  == marker # None
MarkerMatches == parent.lock # None /\ marker = parent.lock

\* Lock IDs are UUIDs, and are only compared: which of the unused ones is taken
\* makes no difference.
UsedLocks ==
  {parent.lock, parent.last, marker}
    \cup {entry[m].receipt.lock : m \in Models}
    \cup {own[w] : w \in Workers} \cup {mem[a].release : a \in Agents}

FreshLocks ==
  IF Locks \subseteq UsedLocks THEN {}
  ELSE {CHOOSE l \in Locks : l \notin UsedLocks}

Downloads(w) == op[w].kind \in {"Download", "DownloadOverride"}

MayFail(f) ==
  f \in Faults /\ faults < MaxFaults[Cardinality({home[w] : w \in Workers})]

Fault(f) == MayFail(f) /\ faults' = faults + 1

\* hasOtherPathUsers, isReservingModelArtifact: a look at the path of a model finds
\* whether other resources name it, or a label reserves it.
PathUsed(used) ==
  \/ used = FALSE /\ UNCHANGED faults
  \/ used = TRUE /\ Fault("shared")

\* requeueHfArtifactTask queues the task again, or gives up when the wait budget is
\* used up (which is not counted as a fault).
Requeued(end) == {"queue"} \cup (IF MayFail("budget") THEN {end} ELSE {})

\* Only a download marks its model Failed when it gives up.
GivesUp(w) == IF op[w].kind = "Delete" THEN "idle" ELSE "failed"

\* Where a worker continues after the handler has returned.
After(w, result) ==
  CASE result = "done" /\ op[w].kind = "Delete" -> {"final"}
    [] result = "done" /\ op[w].kind # "Delete" /\ op[w].aim = "resume" -> {"cleanup"}
    [] result = "done" /\ Downloads(w) /\ op[w].aim # "resume" ->
         IF op[w].once => op[w].checked THEN {"publish"} ELSE Requeued("failed")
    [] result = "retry" -> Requeued(GivesUp(w))
    [] result = "error" -> IF op[w].once THEN Requeued("failed") ELSE {GivesUp(w)}
    [] result = "publish" -> Requeued("idle")
    [] OTHER -> {"idle"}

Goto(w, l) == pc' = [pc EXCEPT ![w] = l]

Go(w, l) == Goto(w, l) /\ UNCHANGED <<flock, mem, op, own>>

\* validateOnce: only a validation in this process ends the startup check.
EndMemory(w, result) ==
  IF op[w].once
  THEN [mem EXCEPT ![home[w]].pending =
          IF result = "done" /\ op[w].checked THEN "none" ELSE "idle"]
  ELSE mem

\* The handler returns: the file lock is released.
Leave(w, result, memory) ==
  \E l \in After(w, result) :
    LET over == l \in {"idle", "queue"}
    IN  /\ Goto(w, IF over THEN "idle" ELSE l)
        /\ op' = [op EXCEPT ![w] =
                    IF over THEN Idle
                    ELSE [Idle EXCEPT !.kind = op[w].kind, !.model = M(w)]]
        /\ own' = [own EXCEPT ![w] = None]
        /\ flock' = IF flock = w THEN None ELSE flock
        /\ mem' = IF l = "queue"
                  THEN [memory EXCEPT ![home[w]].todo = @ \cup {M(w)}] ELSE memory

End(w, result) == Leave(w, result, EndMemory(w, result))

\* pendingLockReleases: it returns with a lock that is still to be released.
EndOwing(w, result, l, status) ==
  Leave(w, result, [EndMemory(w, result) EXCEPT ![home[w]].release = l,
                                                  ![home[w]].releaseTo = status])

\* A compare-and-swap of the ConfigMap, retried on conflicts.  An error leaves
\* open whether it was stored.
Write(p, e, ok, failed) ==
  \/ parent' = p /\ entry' = e /\ ok /\ UNCHANGED faults
  \/ /\ Fault("api")
     /\ \/ parent' = p /\ entry' = e
        \/ UNCHANGED <<parent, entry>>
     /\ failed

\* The write needs no change, or is refused.
NoWrite(next) == next /\ UNCHANGED <<parent, entry, faults>>

SetStatus(l, status, ok, failed) ==
  IF OwnedBy(parent, l)
  THEN Write(setParentStatus(parent, status),
             setChildStatuses(parent, entry, status), ok, failed)
  ELSE NoWrite(IF ReleasedBy(parent, l, status) THEN ok ELSE failed)
-----------------------------------------------------------------------------
(***************************************************************************)
(* A task starts.  The Gopher runs one attempt of a model at a time in a   *)
(* process (module Gopher); another process may run one as well.           *)
(***************************************************************************)
Asked(k, m) ==
  /\ k \in Kinds
  /\ cr[m] = CASE k = "Delete" -> "deleting" [] k = "Detach" -> "direct"
               [] OTHER -> "live"

\* lockHfChildStatus: an attached child's status is not written while another
\* operation has the parent, nor Ready, nor anything over a repair's statuses,
\* while the parent is not Ready.
MayPublish(m, status) ==
  entry[m].ref =>
    /\ flock = None
    /\ status = "Ready" \/ parent.saved # NothingSaved =>
         parent.status = "Ready" /\ MarkerExists

WithStatus(m, status) == [entry EXCEPT ![m].status = status]

\* safeNodeLabelReconciliation: the label first, then the entry.  An error is
\* logged.
Publish(m, status) ==
  LET labelled == [label EXCEPT ![m] = status]
      stored   == WithStatus(m, status)
  IN  \/ /\ MayPublish(m, status)
         /\ label' = labelled /\ entry' = stored
         /\ UNCHANGED faults
      \/ /\ ~ MayPublish(m, status)
         /\ UNCHANGED <<label, entry, faults>>
      \/ /\ MayPublish(m, status)
         /\ Fault("api")
         /\ \/ UNCHANGED <<label, entry>>
            \/ label' = labelled /\ entry' \in {entry, stored}

\* Anything but a delete marks the model Updating.  A delete that had come to its
\* last step in this process repeats only that.
Start(w, k, m) ==
  /\ pc[w] = "idle"
  /\ Asked(k, m)
  /\ m \in Mem(w).todo
  /\ \A v \in Workers : home[v] = home[w] => M(v) # m
  /\ mem' = IF Repeats THEN mem ELSE [mem EXCEPT ![home[w]].todo = @ \ {m}]
  /\ op' = [op EXCEPT ![w] = [Idle EXCEPT !.kind = k, !.model = m]]
  /\ Goto(w, IF k = "Delete" /\ m \in Mem(w).fenced THEN "final" ELSE "cleanup")
  /\ IF k = "Delete" THEN UNCHANGED <<label, entry, faults>> ELSE Publish(m, "Updating")
  /\ UNCHANGED <<parent, files, flock, own, home, cr>>

markModelOnNodeFailed(w) ==
  /\ pc[w] = "failed"
  /\ Publish(M(w), "Failed")
  /\ End(w, "over")
  /\ UNCHANGED <<parent, files, home, cr>>

\* reconcileHfArtifactCleanup: a delete, or a model that leaves shared storage,
\* turns the intent to download into a deletion receipt.
CleanupIntent(w) ==
  /\ pc[w] = "cleanup"
  /\ entry[M(w)].intent /\ ~ Downloads(w)
  /\ IF flock = None
     THEN Write(parent, beginPendingDownloadDeletion(entry, M(w)),
                Go(w, "cleanup"), End(w, "retry"))
     ELSE NoWrite(End(w, "retry"))
  /\ UNCHANGED <<label, files, home, cr>>

\* Mutant: receipts are not resumed.
AimByReference(w) ==
  IF Downloads(w) THEN "download"
  ELSE IF entry[M(w)].ref THEN "release" ELSE "none"

\* What the ConfigMap says of the model decides what is done: a receipt is
\* resumed (resumeHfArtifactChildDeletion), a reference is released.
Aim(w) ==
  IF entry[M(w)].receipt.held THEN "resume"
  ELSE IF Downloads(w) THEN "download"
  ELSE IF entry[M(w)].ref THEN "release" ELSE "none"

\* A path that others use is preserved by a delete, and cannot be replaced by a
\* download that leaves shared storage.
Cleanup(w) ==
  /\ pc[w] = "cleanup"
  /\ ~ (entry[M(w)].intent /\ ~ Downloads(w))
  /\ IF Aim(w) # "none"
     THEN \E used \in {FALSE, op[w].kind = "Delete" \/ Aim(w) = "release"} :
            /\ PathUsed(used)
            /\ IF used /\ op[w].kind # "Delete" THEN End(w, "error")
               ELSE /\ op' = [op EXCEPT ![w].aim = Aim(w), ![w].keep = used]
                    /\ Goto(w, IF Mem(w).recovered THEN "reparent" ELSE "recover")
                    /\ UNCHANGED <<flock, mem, own>>
     ELSE /\ IF op[w].kind = "Delete" THEN Go(w, "legacy") ELSE End(w, "over")
          /\ UNCHANGED faults
  /\ UNCHANGED <<parent, entry, label, files, home, cr>>

\* The lock of a model's own path goes with the parent's, but for a status.
ChildLocked(m) == flock # None /\ M(flock) = m /\ pc[flock] # "status"

\* No record names the model: the ordinary delete takes the lock of the
\* model's own path and removes the link.
DeleteOrdinary(w) ==
  /\ pc[w] = "legacy"
  /\ IF ChildLocked(M(w)) THEN End(w, "retry") /\ UNCHANGED <<links, faults>>
     ELSE \E used \in BOOLEAN :
            /\ PathUsed(used)
            /\ links' = IF used THEN links ELSE links \ {M(w)}
            /\ Go(w, "final")
  /\ UNCHANGED <<parent, entry, label, dir, marker, home, cr>>
-----------------------------------------------------------------------------
(***************************************************************************)
(* hfArtifactStartup: what an earlier process left is settled before this  *)
(* process may use the parent.  The file lock, which the system releases   *)
(* when its holder dies, tells a live owner from a dead one.               *)
(***************************************************************************)
Remember(w, memory) == mem' = [mem EXCEPT ![home[w]] = memory]

Abandoned == parent.status = "Updating" /\ parent.lock # None

\* Labels of children that repair had failed; resources on their way out are
\* passed over.  An error leaves some of the labels (those of ms) changed.
Relabel(statuses, ms) ==
  [m \in Models |-> IF /\ m \in ms
                       /\ Restorable(parent, entry, m)
                       /\ cr[m] # "deleting"
                    THEN statuses[m] ELSE label[m]]

Relabelled(statuses) == label' = Relabel(statuses, Models)

RelabelFails(statuses) ==
  /\ Fault("api")
  /\ \E ms \in SUBSET Models : label' = Relabel(statuses, ms)

\* Mutant: any marker will do, also one of an earlier owner.
SettleByAnyMarker(ok, failed) ==
  IF MarkerExists
  THEN Relabelled(parent.saved) /\ SetStatus(parent.lock, "Ready", ok, failed)
  ELSE /\ UNCHANGED label
       /\ IF parent.lock \in ReceiptLocks(entry) THEN NoWrite(ok)
          ELSE SetStatus(parent.lock, "Updating", ok, failed)

\* The owner's marker shows that it had finished; a deletion keeps its lock; other
\* work is interrupted (recoverInterruptedParent).
SettleAbandoned(ok, failed) ==
  IF MarkerMatches
  THEN \/ Relabelled(parent.saved) /\ SetStatus(parent.lock, "Ready", ok, failed)
       \/ RelabelFails(parent.saved) /\ failed /\ UNCHANGED <<parent, entry>>
  ELSE /\ UNCHANGED label
       /\ IF parent.lock \in ReceiptLocks(entry) THEN NoWrite(ok)
          ELSE SetStatus(parent.lock, "Updating", ok, failed)

recover(w) ==
  /\ pc[w] = "recover"
  /\ LET known(pending, deferred) ==
           /\ Remember(w, [Mem(w) EXCEPT !.recovered = TRUE, !.pending = pending,
                                         !.deferred = deferred])
           /\ Goto(w, "reparent")
           /\ UNCHANGED <<flock, op, own>>
     IN  IF Mem(w).recovered
         THEN NoWrite(Go(w, "reparent")) /\ UNCHANGED label
         ELSE IF ~ Abandoned
         THEN /\ NoWrite(known(IF parent.status = "Ready" THEN "idle" ELSE "none", FALSE))
              /\ UNCHANGED label
         ELSE IF flock # None THEN NoWrite(known("idle", TRUE)) /\ UNCHANGED label
         ELSE SettleAbandoned(known(IF MarkerMatches THEN "idle" ELSE "none", FALSE),
                              End(w, "retry"))
  /\ UNCHANGED <<files, home, cr>>

\* recoverParent and recoverParentAtPath: the same for work that began after this
\* process's scan.
recoverParent(w) ==
  /\ pc[w] = "reparent"
  /\ LET settled ==
           /\ Remember(w, [Mem(w) EXCEPT !.deferred = FALSE])
           /\ Goto(w, IF op[w].aim = "download" THEN "route" ELSE "enter")
           /\ UNCHANGED <<flock, op, own>>
         waits ==
           Leave(w, "retry", [mem EXCEPT ![home[w]].deferred = TRUE])
     IN  IF ~ Abandoned /\ (Mem(w).deferred => op[w].aim = "resume" \/ flock = None)
         THEN NoWrite(settled) /\ UNCHANGED label
         ELSE IF flock # None THEN NoWrite(waits) /\ UNCHANGED label
         ELSE SettleAbandoned(settled, waits)
  /\ UNCHANGED <<files, home, cr>>
-----------------------------------------------------------------------------
(***************************************************************************)
(* Downloads.                                                              *)
(***************************************************************************)
\* runHfArtifactDownload chooses by an unlocked look at the parent.
NeedsRepair(w) ==
  \/ op[w].kind = "DownloadOverride"
  \/ ~ Found(parent) /\ (dir # "absent" \/ M(w) \in links)
  \/ /\ Found(parent) /\ ~ blocksNewOperation(parent)
     /\ parent.status # "Ready" \/ ~ MarkerExists

Route(w) ==
  /\ pc[w] = "route"
  /\ IF Mem(w).pending # "none" /\ op[w].kind = "Download"
     THEN IF Mem(w).pending = "busy" THEN End(w, "retry")
          ELSE /\ Remember(w, [Mem(w) EXCEPT !.pending = "busy"])
               /\ op' = [op EXCEPT ![w].once = TRUE, ![w].aim = "override"]
               /\ Goto(w, "enter")
               /\ UNCHANGED <<flock, own>>
     ELSE /\ op' = [op EXCEPT ![w].aim = IF NeedsRepair(w) THEN "override"
                                         ELSE "plain"]
          /\ Goto(w, "enter")
          /\ UNCHANGED <<flock, mem, own>>
  /\ UNCHANGED <<parent, entry, label, files, home, cr, faults>>

\* releaseHfArtifactChild leaves the link of a path that others use alone, and
\* looks at the reference only.
Preserves(w) == op[w].aim = "release" /\ op[w].keep

\* What a handler does first under the file lock: an unfinished deletion goes on,
\* references are removed, and downloads are admitted.
Dispatch(w) ==
  IF entry[M(w)].receipt.held /\ ~ Preserves(w) THEN "claim"
  ELSE IF op[w].aim \in {"resume", "release"} THEN "detach" ELSE "admit"

\* Mutant: the file lock is not respected.
EnterAnyway(w) ==
  /\ pc[w] = "enter"
  /\ flock' = w
  /\ Goto(w, IF Mem(w).release # None THEN "settle" ELSE Dispatch(w))
  /\ UNCHANGED <<parent, entry, label, files, mem, op, own, home, cr, faults>>

\* tryArtifactOperation.
Enter(w) ==
  /\ pc[w] = "enter"
  /\ IF flock # None THEN End(w, "retry")
     ELSE /\ flock' = w
          /\ Goto(w, IF Mem(w).release # None THEN "settle" ELSE Dispatch(w))
          /\ UNCHANGED <<mem, op, own>>
  /\ UNCHANGED <<parent, entry, label, files, home, cr, faults>>

\* retryPendingLockRelease: a lock that this process could not release, or that
\* it may have taken without knowing.
Settle(w) ==
  /\ pc[w] = "settle"
  /\ LET settled ==
           /\ Remember(w, [Mem(w) EXCEPT !.release = None])
           /\ Goto(w, Dispatch(w))
           /\ UNCHANGED <<flock, op, own>>
     IN  IF OwnedBy(parent, Mem(w).release)
         THEN SetStatus(Mem(w).release, Mem(w).releaseTo,
                        settled, End(w, "retry"))
         ELSE NoWrite(settled)
  /\ UNCHANGED <<label, files, home, cr>>

\* Ordinary downloads reuse a Ready parent, and either kind one whose owner had
\* finished (reuseParent); other parents are downloaded or validated first.
Reuses(w) == blocksNewOperation(parent) \/ (op[w].aim = "plain" /\ parent.status = "Ready")

\* markParentReady touches labels only if a repair had failed some.
Finish(w) == IF parent.saved = NothingSaved THEN "ready" ELSE "relabel"

\* Mutant: a parent whose owner had finished is used before it is Ready.
AdmitUnpublished(w) ==
  /\ pc[w] = "admit"
  /\ IF \/ entry[M(w)].status = "absent"
        \/ blocksNewOperation(parent) /\ ~ MarkerMatches
     THEN NoWrite(End(w, "retry"))
     ELSE Write(parent, rememberDownload(entry, M(w)),
                /\ Goto(w, IF Reuses(w) THEN "attach" ELSE "acquire")
                /\ UNCHANGED <<flock, mem, op, own>>,
                End(w, "retry"))
  /\ UNCHANGED <<label, files, home, cr>>

\* The checks before any file is touched.  A parent that another operation owns
\* is left alone.
Admit(w) ==
  /\ pc[w] = "admit"
  /\ IF \/ entry[M(w)].status = "absent"
        \/ blocksNewOperation(parent) /\ ~ MarkerMatches
     THEN NoWrite(End(w, "retry"))
     ELSE Write(parent, rememberDownload(entry, M(w)),
                /\ Goto(w, IF ~ Reuses(w) THEN "acquire"
                           ELSE IF parent.status = "Ready" THEN "attach" ELSE Finish(w))
                /\ own' = [own EXCEPT ![w] = IF Reuses(w) THEN parent.lock ELSE None]
                /\ UNCHANGED <<flock, mem, op>>,
                End(w, "retry"))
  /\ UNCHANGED <<label, files, home, cr>>

\* TryAcquireLock and TryAcquireLockForRepair.  A lost answer is remembered as
\* a lock to release.
TakeLock(w, next) ==
  \E l \in FreshLocks :
    Write(tryAcquireLock(parent, l), entry,
          /\ own' = [own EXCEPT ![w] = l]
          /\ Goto(w, next)
          /\ UNCHANGED <<flock, mem, op>>,
          EndOwing(w, "retry", l, "Updating"))

\* validateParentForInitialDownload fails.
InUse == parent.children # {} \/ links # {}

AcquireInitial(w) ==
  /\ pc[w] = "acquire"
  /\ op[w].aim = "plain"
  /\ IF (Found(parent) /\ MarkerExists) \/ InUse
     THEN NoWrite(End(w, "retry"))
     ELSE TakeLock(w, "reset")
  /\ UNCHANGED <<label, files, home, cr>>

AcquireRepair(w) ==
  /\ pc[w] = "acquire"
  /\ op[w].aim = "override"
  /\ TakeLock(w, "validate")
  /\ UNCHANGED <<label, files, home, cr>>

\* os.RemoveAll works in no particular order and may stop half way.
RemoveSome ==
  /\ dir' = IF dir = "absent" THEN "absent" ELSE "partial"
  /\ marker' \in {marker, None}
  /\ UNCHANGED links

\* ResetParentDirectory.
ResetBegins(w) ==
  /\ pc[w] = "reset"
  /\ RemoveSome
  /\ Go(w, "resetting")
  /\ UNCHANGED <<parent, entry, label, home, cr, faults>>

\* finishParentWithError, with the status that it publishes.
Abort(w, status) ==
  /\ op' = [op EXCEPT ![w].to = status]
  /\ Goto(w, "abort")
  /\ UNCHANGED <<flock, mem, own>>

ResetEnds(w) ==
  /\ pc[w] = "resetting"
  /\ \/ dir' = "partial" /\ marker' = None /\ Go(w, "fetching") /\ UNCHANGED faults
     \/ Fault("io") /\ UNCHANGED <<dir, marker>> /\ Abort(w, "Failed")
  /\ UNCHANGED <<parent, entry, label, links, home, cr>>

\* The transfer fails, or a newer task of the model cancels it.
Interrupted(w) ==
  \/ Fault("source") /\ Abort(w, "Failed")
  \/ M(w) \in Mem(w).todo /\ Fault("cancel") /\ Abort(w, "Updating")

FetchEnds(w) ==
  /\ pc[w] = "fetching"
  /\ \/ dir' = "complete" /\ Go(w, "mark") /\ UNCHANGED faults
     \/ Interrupted(w) /\ UNCHANGED dir
  /\ UNCHANGED <<parent, entry, label, marker, links, home, cr>>

\* WriteParentReadyMarker: the file is truncated, then written.
MarkBegins(w) ==
  /\ pc[w] = "mark"
  /\ \/ marker' = Torn /\ Go(w, "marking") /\ UNCHANGED faults
     \/ Fault("io") /\ UNCHANGED marker /\ Abort(w, "Failed")
  /\ UNCHANGED <<parent, entry, label, dir, links, home, cr>>

MarkEnds(w) ==
  /\ pc[w] = "marking"
  /\ marker' = own[w]
  /\ Go(w, Finish(w))
  /\ UNCHANGED <<parent, entry, label, dir, links, home, cr, faults>>

\* markParentReady: the labels that repair had failed, then the records.  On an
\* error the marker stays, and a retry finishes the update.
MarkParentReadyLabels(w) ==
  /\ pc[w] = "relabel"
  /\ \/ Relabelled(parent.saved) /\ Go(w, "ready") /\ UNCHANGED faults
     \/ RelabelFails(parent.saved) /\ End(w, "retry")
  /\ UNCHANGED <<parent, entry, files, home, cr>>

MarkParentReady(w) ==
  /\ pc[w] = "ready"
  /\ SetStatus(own[w], "Ready",
               /\ own' = [own EXCEPT ![w] = None]
               /\ Goto(w, IF op[w].aim \in {"resume", "release"} THEN "detach" ELSE "attach")
               /\ UNCHANGED <<flock, mem, op>>,
               End(w, "retry"))
  /\ UNCHANGED <<label, files, home, cr>>

\* attachChildToReadyParent: the link, then both references.
AttachLink(w) ==
  /\ pc[w] = "attach"
  /\ IF MarkerExists
     THEN \/ links' = links \cup {M(w)} /\ Go(w, "addref") /\ UNCHANGED faults
          \/ Fault("io") /\ End(w, "error") /\ UNCHANGED links
     ELSE End(w, "retry") /\ UNCHANGED <<links, faults>>
  /\ UNCHANGED <<parent, entry, label, dir, marker, home, cr>>

AttachReference(w) ==
  /\ pc[w] = "addref"
  /\ IF CanAddReference(parent, entry, M(w))
     THEN Write(addToParent(parent, M(w)), addToModel(entry, M(w)),
                End(w, "done"), End(w, "retry"))
     ELSE NoWrite(End(w, "retry"))
  /\ UNCHANGED <<label, files, home, cr>>
-----------------------------------------------------------------------------
(***************************************************************************)
(* handleDownloadOverride: validation and repair under the lock.           *)
(***************************************************************************)
Validate(w) ==
  /\ pc[w] = "validate"
  /\ \/ /\ UNCHANGED <<flock, mem, own, faults>>
        /\ IF entry[M(w)].status = "absent"
           THEN /\ op' = [op EXCEPT ![w].checked = TRUE, ![w].to = "Failed"]
                /\ Goto(w, "abort")
           ELSE /\ op' = [op EXCEPT ![w].checked = TRUE]
                /\ Goto(w, IF dir = "complete" THEN "mark" ELSE "failkids")
     \/ Interrupted(w)
  /\ UNCHANGED <<parent, entry, label, files, home, cr>>

\* Mutant: the children of a damaged parent keep their statuses.
FailChildrenSkipped(w) ==
  /\ pc[w] = "failkids"
  /\ Go(w, "unmark")
  /\ UNCHANGED <<parent, entry, label, files, home, cr, faults>>

\* Damage was proved: the children fail before a file is replaced.
FailChildren(w) ==
  /\ pc[w] = "failkids"
  /\ Write(saveChildStatuses(parent, entry), failChildren(parent, entry),
           Go(w, "faillabels"), Abort(w, "Failed"))
  /\ UNCHANGED <<label, files, home, cr>>

AllFailed == [m \in Models |-> "Failed"]

\* Links without a record belong to users whose status cannot be failed.
FailLabels(w) ==
  /\ pc[w] = "faillabels"
  /\ \/ /\ Relabelled(AllFailed)
        /\ UNCHANGED faults
        /\ IF links \subseteq parent.children THEN Go(w, "unmark")
           ELSE Abort(w, "Failed")
     \/ RelabelFails(AllFailed) /\ Abort(w, "Failed")
  /\ UNCHANGED <<parent, entry, files, home, cr>>

RemoveMarker(w) ==
  /\ pc[w] = "unmark"
  /\ \/ marker' = None /\ Go(w, "fetch") /\ UNCHANGED faults
     \/ Fault("io") /\ UNCHANGED marker /\ Abort(w, "Failed")
  /\ UNCHANGED <<parent, entry, label, dir, links, home, cr>>

\* The download replaces what is wrong.
FetchBegins(w) ==
  /\ pc[w] = "fetch"
  /\ dir' = "partial"
  /\ Go(w, "fetching")
  /\ UNCHANGED <<parent, entry, label, marker, links, home, cr, faults>>

\* finishParentWithError and releaseParentLock.
Release(w) ==
  /\ pc[w] = "abort"
  /\ LET result == IF op[w].to = "Updating" THEN "cancelled"
                   ELSE IF entry[M(w)].status = "absent" THEN "retry" ELSE "error"
     IN  SetStatus(own[w], op[w].to, End(w, result),
                   EndOwing(w, "retry", own[w], op[w].to))
  /\ UNCHANGED <<label, files, home, cr>>

\* shouldSkipStaleDownloadTask: a model that is being deleted is cleaned up.
DeleteInstead(w) ==
  /\ pc[w] = "publish"
  /\ cr[M(w)] = "deleting"
  /\ op' = [op EXCEPT ![w].kind = "Delete"]
  /\ Goto(w, "cleanup")
  /\ UNCHANGED <<parent, entry, label, files, flock, mem, own, home, cr, faults>>

\* Mutant: a Ready that could not be published is forgotten.
AgainNever(w) == "over"

\* An attached model is queued until its Ready is published.
Again(w) == IF M(w) \in links THEN "publish" ELSE "over"

\* finishDownloadStatus: the label, then the entry, both under the parent's file
\* lock if the model is attached.
PublishLabel(w) ==
  /\ pc[w] = "publish"
  /\ cr[M(w)] # "deleting"
  /\ \/ /\ MayPublish(M(w), "Ready")
        /\ label' = [label EXCEPT ![M(w)] = "Ready"]
        /\ flock' = IF entry[M(w)].ref THEN w ELSE flock
        /\ Goto(w, "status")
        /\ UNCHANGED <<mem, op, own, faults>>
     \/ /\ ~ MayPublish(M(w), "Ready")
        /\ End(w, Again(w))
        /\ UNCHANGED <<label, faults>>
     \/ Fault("api") /\ End(w, Again(w)) /\ UNCHANGED label
  /\ UNCHANGED <<parent, entry, files, home, cr>>

\* updateModelStatusInConfigMap looks at the parent once more.
PublishStatus(w) ==
  /\ pc[w] = "status"
  /\ IF entry[M(w)].ref /\ parent.status # "Ready"
     THEN NoWrite(End(w, Again(w)))
     ELSE Write(parent, WithStatus(M(w), "Ready"), End(w, "over"), End(w, Again(w)))
  /\ UNCHANGED <<label, files, home, cr>>

DownloadStep(w) ==
  \/ markModelOnNodeFailed(w)
  \/ Route(w)          \/ Admit(w)
  \/ AcquireInitial(w) \/ AcquireRepair(w)
  \/ ResetBegins(w)    \/ ResetEnds(w)
  \/ FetchBegins(w)    \/ FetchEnds(w)
  \/ MarkBegins(w)     \/ MarkEnds(w)
  \/ MarkParentReadyLabels(w) \/ MarkParentReady(w)
  \/ AttachLink(w)     \/ AttachReference(w)
  \/ Validate(w)       \/ FailChildren(w)  \/ FailLabels(w)
  \/ RemoveMarker(w)   \/ Release(w)
  \/ DeleteInstead(w)  \/ PublishLabel(w) \/ PublishStatus(w)
-----------------------------------------------------------------------------
(***************************************************************************)
(* handleDelete and resumePendingDeletion.                                 *)
(***************************************************************************)
\* Without a reference only a link is left to remove
\* (removeUnreferencedChildSymlink), unless a record contradicts that: a parent
\* with an owner, or that lists the model, or a receipt (releaseHfArtifactChild).
Contradicted(w) ==
  LET receipt == entry[M(w)].receipt
  IN  IF Preserves(w)
      THEN receipt.held /\ (receipt.lock # None \/ Found(parent))
      ELSE blocksNewOperation(parent) \/ M(w) \in parent.children

DetachUnreferenced(w) ==
  /\ pc[w] = "detach"
  /\ ~ entry[M(w)].ref
  /\ entry[M(w)].receipt.held => Preserves(w)
  /\ IF Contradicted(w)
     THEN End(w, "retry") /\ UNCHANGED <<links, faults>>
     ELSE \/ /\ links' = IF Preserves(w) THEN links ELSE links \ {M(w)}
             /\ End(w, "done") /\ UNCHANGED faults
          \/ ~ Preserves(w) /\ Fault("io") /\ End(w, "error") /\ UNCHANGED links
  /\ UNCHANGED <<parent, entry, label, dir, marker, home, cr>>

\* A finished owner is helped to publish, any other is waited for.
DetachBlocked(w) ==
  /\ pc[w] = "detach"
  /\ entry[M(w)].ref
  /\ blocksNewOperation(parent)
  /\ IF MarkerMatches
     THEN /\ own' = [own EXCEPT ![w] = parent.lock]
          /\ Goto(w, Finish(w))
          /\ UNCHANGED <<flock, mem, op>>
     ELSE End(w, "retry")
  /\ UNCHANGED <<parent, entry, label, files, home, cr, faults>>

\* The worker owns the parent under l, which had status before, from now on.
Own(w, l, before, next) ==
  /\ own' = [own EXCEPT ![w] = l]
  /\ op' = [op EXCEPT ![w].to = before]
  /\ Goto(w, next)
  /\ UNCHANGED <<flock, mem>>

\* The reference goes first, and leaves a receipt.
DetachReference(w) ==
  /\ pc[w] = "detach"
  /\ entry[M(w)].ref
  /\ ~ blocksNewOperation(parent)
  /\ \E l \in FreshLocks :
       Write(removeFromParent(parent, M(w), l),
             removeFromModel(parent, entry, M(w), l),
             IF ~ Preserves(w) THEN Go(w, "claim")
             ELSE IF LastReference(parent, M(w))
             THEN Own(w, l, parent.status, "unclaim") ELSE Go(w, "receipt"),
             End(w, "retry"))
  /\ UNCHANGED <<label, files, home, cr>>

\* deletionParent: the receipt's own lock, or a new one if nobody uses the
\* parent any more.  Other owners are waited for.
Claim(w) ==
  /\ pc[w] = "claim"
  /\ LET receipt == entry[M(w)].receipt
     IN  IF ~ receipt.held \/ M(w) \in parent.children
         THEN NoWrite(End(w, "retry"))
         ELSE IF Claimable(parent)
         THEN \E l \in FreshLocks :
                Write(tryAcquireLock(parent, l), claimDeletion(parent, entry, M(w), l),
                      Own(w, l, parent.status, "unlink"), End(w, "retry"))
         ELSE IF ~ blocksNewOperation(parent) THEN NoWrite(Go(w, "unlink"))
         ELSE IF receipt.lock # None /\ receipt.lock = parent.lock
         THEN NoWrite(IF parent.children # {} THEN Go(w, "unlink")
                      ELSE Own(w, receipt.lock, receipt.before, "unlink"))
         ELSE NoWrite(End(w, "retry"))
  /\ UNCHANGED <<label, files, home, cr>>

\* Mutant: the files go although others link to them or wait for them.
NeededByNone(ms) == FALSE

\* deleteLockedParent: links (ms) and intents to download keep the files.
Needed(ms) == ms # {} \/ \E m \in Models : entry[m].intent

\* The link of the model goes, unless its path has other users
\* (hasOtherPathUsers); the parent goes with its last user.
Unlink(w) ==
  /\ pc[w] = "unlink"
  /\ \/ \E used \in BOOLEAN :
          LET kept == used \/ op[w].keep
          IN  /\ PathUsed(used)
              /\ links' = IF kept THEN links ELSE links \ {M(w)}
              /\ Go(w, IF own[w] = None THEN "receipt"
                       ELSE IF kept \/ Needed(links') THEN "unclaim" ELSE "remove")
     \/ Fault("io") /\ End(w, "retry") /\ UNCHANGED links
  /\ UNCHANGED <<parent, entry, label, dir, marker, home, cr>>

RemoveBegins(w) ==
  /\ pc[w] = "remove"
  /\ RemoveSome
  /\ Go(w, "removing")
  /\ UNCHANGED <<parent, entry, label, home, cr, faults>>

RemoveEnds(w) ==
  /\ pc[w] = "removing"
  /\ \/ dir' = "absent" /\ marker' = None /\ Go(w, "forget") /\ UNCHANGED faults
     \/ Fault("io") /\ End(w, "retry") /\ UNCHANGED <<dir, marker>>
  /\ UNCHANGED <<parent, entry, label, links, home, cr>>

\* The worker gives up what it owned and goes on.
Disown(w, next) ==
  /\ own' = [own EXCEPT ![w] = None]
  /\ Goto(w, next)
  /\ UNCHANGED <<flock, mem, op>>

\* DeleteIfUnreferenced.
Forget(w) ==
  /\ pc[w] = "forget"
  /\ IF CanDelete(parent, own[w])
     THEN Write(NoParent, entry, Disown(w, "receipt"), End(w, "retry"))
     ELSE NoWrite(End(w, "retry"))
  /\ UNCHANGED <<label, files, home, cr>>

\* releaseParentDeletionLock: the marker decides whether the files are whole.
StatusAfterDeletion(w) ==
  IF op[w].to = "Ready" /\ MarkerExists THEN "Ready"
  ELSE IF op[w].to = "Updating" THEN "Updating" ELSE "Failed"

\* An error ends the delete of a preserved path for good.
Unclaim(w) ==
  /\ pc[w] = "unclaim"
  /\ LET result == IF Preserves(w) THEN "over" ELSE "retry"
     IN  SetStatus(own[w], StatusAfterDeletion(w), Disown(w, "receipt"),
                   IF StatusAfterDeletion(w) = "Ready" THEN End(w, result)
                   ELSE EndOwing(w, result, own[w], StatusAfterDeletion(w)))
  /\ UNCHANGED <<label, files, home, cr>>

\* A delete keeps the receipt for its last step; others are done with it.  A
\* download that was to resume a deletion starts over.
FinishReceipt(w) ==
  /\ pc[w] = "receipt"
  /\ LET result == IF op[w].aim \in {"resume", "release"} THEN "done" ELSE "retry"
     IN  IF op[w].kind = "Delete" THEN NoWrite(End(w, result))
         ELSE IF entry[M(w)].status = "absent" THEN NoWrite(End(w, "retry"))
         ELSE Write(parent, finishPendingDeletion(entry, M(w)),
                    End(w, result), End(w, "retry"))
  /\ UNCHANGED <<label, files, home, cr>>

\* DeleteModelFromConfigMap, after the label.  It fences the model off first, and
\* refuses an entry that has been attached or claimed again.
Final(w) ==
  /\ pc[w] = "final"
  /\ LET unlabelled == [label EXCEPT ![M(w)] = "none"]
         ended == Leave(w, "over", [mem EXCEPT ![home[w]].fenced = @ \cup {M(w)}])
     IN  \/ /\ label' = unlabelled
            /\ IF entry[M(w)].ref \/ entry[M(w)].intent THEN NoWrite(ended)
               ELSE Write(parent, [entry EXCEPT ![M(w)] = NoEntry], ended, ended)
         \/ /\ Fault("api")
            /\ label' \in {label, unlabelled}
            /\ End(w, "over")
            /\ UNCHANGED <<parent, entry>>
  /\ UNCHANGED <<files, home, cr>>

DeleteStep(w) ==
  \/ DetachUnreferenced(w) \/ DetachBlocked(w) \/ DetachReference(w)
  \/ Claim(w)              \/ Unlink(w)
  \/ RemoveBegins(w)       \/ RemoveEnds(w)
  \/ Forget(w)             \/ Unclaim(w)
  \/ FinishReceipt(w)      \/ Final(w)

Step(w) ==
  \/ CleanupIntent(w) \/ Cleanup(w) \/ DeleteOrdinary(w)
  \/ recover(w) \/ recoverParent(w)
  \/ Enter(w)   \/ Settle(w)
  \/ DownloadStep(w) \/ DeleteStep(w)
-----------------------------------------------------------------------------
(***************************************************************************)
(* The environment.                                                        *)
(***************************************************************************)
\* Scout queues a model in every process when its resource is deleted, stops asking
\* for shared storage, or is updated.
Queue(m) == mem' = [a \in Agents |-> [mem[a] EXCEPT !.todo = @ \cup {m}]]

ResourceChange(m) ==
  /\ \/ cr[m] # "deleting" /\ cr' = [cr EXCEPT ![m] = "deleting"]
     \/ "Detach" \in Kinds /\ cr[m] = "live" /\ cr' = [cr EXCEPT ![m] = "direct"]
     \/ "DownloadOverride" \in Kinds /\ cr[m] = "live" /\ UNCHANGED cr
  /\ Queue(m)
  /\ UNCHANGED <<parent, entry, label, files, flock, pc, op, own, home, faults>>

\* Processes die, with their memory and their file locks, and start again.
Die(as) ==
  LET ws == {w \in Workers : home[w] \in as}
  IN  /\ pc' = [w \in Workers |-> IF w \in ws THEN "idle" ELSE pc[w]]
      /\ op' = [w \in Workers |-> IF w \in ws THEN Idle ELSE op[w]]
      /\ own' = [w \in Workers |-> IF w \in ws THEN None ELSE own[w]]
      /\ mem' = [a \in Agents |-> IF a \in as THEN NewMemory ELSE mem[a]]
      /\ flock' = IF flock \in ws THEN None ELSE flock
      /\ UNCHANGED <<label, files, home, cr>>

Crash(a) ==
  /\ Fault("crash")
  /\ Die({a})
  /\ UNCHANGED <<parent, entry>>

\* The ConfigMap is lost while no process runs that remembers it.
LoseConfigMap ==
  /\ Fault("loss")
  /\ Die(Agents)
  /\ parent' = NoParent
  /\ entry' = [m \in Models |-> NoEntry]

\* The disk damages a file.
Rot ==
  /\ Fault("rot")
  /\ dir = "complete"
  /\ dir' = "rotten"
  /\ UNCHANGED <<parent, entry, label, marker, links, local, home, cr>>

Next ==
  \/ \E w \in Workers, k \in Kinds, m \in Models : Start(w, k, m)
  \/ \E w \in Workers : Step(w)
  \/ \E m \in Models : ResourceChange(m)
  \/ \E a \in Agents : Crash(a)
  \/ LoseConfigMap
  \/ Rot

Spec == Init /\ [][Next]_vars
-----------------------------------------------------------------------------
(***************************************************************************)
(* Fairness.  A worker does not stop in the middle of a task, and a queued *)
(* task is started: requeued tasks come back (EveryTaskSettles of module   *)
(* Gopher).                                                                *)
(***************************************************************************)
Fairness ==
  /\ \A w \in Workers : WF_vars(Step(w))
  /\ \A k \in Kinds, m \in Models : SF_vars(\E w \in Workers : Start(w, k, m))

FairSpec == Spec /\ Fairness
-----------------------------------------------------------------------------
Places ==
  { "idle", "cleanup", "legacy", "recover", "reparent", "route", "enter",
    "settle", "admit", "acquire", "reset", "resetting", "fetching", "mark",
    "marking", "relabel", "ready", "attach", "addref", "validate", "failkids",
    "faillabels", "unmark", "fetch", "abort", "publish", "status", "failed",
    "detach", "claim", "unlink", "remove", "removing", "forget", "unclaim",
    "receipt", "final" }

Memory ==
  [ todo : SUBSET Models, recovered : BOOLEAN, pending : {"none", "idle", "busy"},
    deferred : BOOLEAN, release : MaybeLock,
    releaseTo : {"Updating", "Failed"}, fenced : SUBSET Models ]

Operation ==
  [ kind : {"none", "Download", "DownloadOverride", "Delete", "Detach"},
    model : Models \cup {None},
    aim : {"none", "resume", "release", "download", "plain", "override"},
    once : BOOLEAN, checked : BOOLEAN, keep : BOOLEAN, to : ParentStatus ]

\* The values of the variables.
TypeOK ==
  /\ parent \in Parent
  /\ entry \in [Models -> Entry]
  /\ label \in [Models -> ModelStatus \cup {"none"}]
  /\ dir \in {"absent", "partial"} \cup Good
  /\ marker \in MaybeLock \cup {Torn}
  /\ links \subseteq Models
  /\ flock \in Workers \cup {None}
  /\ home \in [Workers -> Agents]
  /\ mem \in [Agents -> Memory]
  /\ pc \in [Workers -> Places]
  /\ op \in [Workers -> Operation]
  /\ own \in [Workers -> MaybeLock]
  /\ cr \in [Models -> {"live", "direct", "deleting"}]
  /\ faults \in Nat

\* Places where a worker changes the parent's files or the records of its lock.
Writing ==
  { "reset", "resetting", "fetching", "mark", "marking", "validate", "failkids",
    "faillabels", "unmark", "fetch", "abort", "remove", "removing", "forget",
    "unclaim" }

\* Whoever changes the files of the parent is the only one: it has the file lock,
\* and the ConfigMap still names it as the owner, whatever other processes
\* recovered, released or lost in the meantime.
WriterOwnsParent ==
  \A w \in Workers :
    pc[w] \in Writing => flock = w /\ OwnedBy(parent, own[w])

\* A parent that is Ready, or that recovery would make Ready because of its
\* marker, has all its files: .ome-hf-artifact-ready "marks a completed, validated
\* download".
ReadyIsComplete ==
  parent.status = "Ready" \/ MarkerMatches => dir \in Good /\ MarkerExists

\* Both directions of a reference are stored or neither is, a referenced model
\* has its link (until the ordinary delete of another process, which saw no record,
\* takes it from a resource that is going), and a model has at most one of
\* reference, intent and receipt.
ReferencesMatch ==
  \A m \in Models :
    /\ m \in parent.children <=> entry[m].ref
    /\ entry[m].ref /\ cr[m] # "deleting" => m \in links
    /\ ~ (entry[m].intent /\ (entry[m].ref \/ entry[m].receipt.held))
    /\ ~ (entry[m].ref /\ entry[m].receipt.held)

\* A model whose node label says Ready can be served: its path leads to complete
\* files, also while a sibling is repaired or deleted.
ReadyLabelIsServed ==
  \A m \in Models :
    label[m] = "Ready" /\ cr[m] = "live" /\ m \in links => dir \in Good

\* "Deleting one consumer never deletes files another consumer still uses": the
\* directory is removed only when nobody links to it, references it or has
\* announced a download into it.
RemovedOnlyUnused ==
  [][dir # "absent" /\ dir' = "absent" =>
       /\ links = {} /\ parent.children = {}
       /\ \A m \in Models : ~ entry[m].intent]_vars

\* A resource that is deleted, or leaves shared storage, loses its link, its
\* reference and its intent (handleDelete, resumePendingDeletion), as long as no
\* wait budget runs out (requeueHfArtifactTask).
DeletesFinish ==
  \A m \in Models :
    cr[m] # "live" ~>
      m \notin links /\ ~ entry[m].ref /\ ~ entry[m].intent

\* When all the resources are deleted, and no wait budget runs out, the directory
\* and the parent's record go (deleteLockedParent, DeleteIfUnreferenced).
NothingIsLeft ==
  (\A m \in Models : cr[m] = "deleting") ~> (dir = "absent" /\ ~ Found(parent))

\* A model that stays is not left Updating: it becomes Ready, or Failed
\* (finishDownloadStatus, requeueHfArtifactTask, markModelOnNodeFailed).
DownloadsSettle ==
  \A m \in Models : []<>(cr[m] # "live" \/ label[m] \in {"Ready", "Failed"})
-----------------------------------------------------------------------------
\* What the users of the artifact see of all this.
Content == IF dir \in Good THEN "whole" ELSE IF dir = "absent" THEN "none" ELSE "partial"

Promise ==
  INSTANCE SharedArtifact
  WITH content <- Content, offered <- parent.status = "Ready", users <- links

\* Downloads, repairs, recoveries and deletions implement the promise of shared storage:
\* files change only while the parent is not Ready, it becomes Ready only when it is
\* complete, links are made only to a Ready parent, and the directory goes when no link
\* is left.
KeepsPromise == Promise!Spec
=============================================================================
