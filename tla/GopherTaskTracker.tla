------------------------- MODULE GopherTaskTracker -------------------------
(***************************************************************************)
(* The model agent's task tracker (pkg/modelagent/gopher_task_tracker.go). *)
(* It keeps one record per model UID; each operation below is one critical *)
(* section of the tracker's mutex, written as the new value of that        *)
(* record.  A record that the tracker has not created yet, or has dropped  *)
(* in finishLegacyTask, is the zero record.                                *)
(*                                                                         *)
(* An attempt is a pointer in the code.  A goroutine begins an attempt and *)
(* finishes it before it begins another one of the same sort, so an        *)
(* attempt is named by the goroutine that owns it (and, for the non-file   *)
(* "legacy" tasks, which can nest, by the type of the task as well).       *)
(***************************************************************************)
EXTENDS Naturals

CONSTANTS
  Procs,    \* the goroutines that run tracker operations
  None      \* the nil pointer

ASSUME NoneAssumption == None \notin Procs

LegacyAttempts == Procs \X {"Download", "Delete"}

ModelState ==
  [ download               : Procs \cup {None},
    legacyAttempts         : SUBSET LegacyAttempts,
    latestLegacyDownload   : Procs \cup {None},
    newestDownloadSequence : Nat,
    finishedDeleteSequence : Nat,
    deleteSequence         : Nat,
    deleteAttempt          : Procs \cup {None} ]

NewModelState ==
  [ download               |-> None,
    legacyAttempts         |-> {},
    latestLegacyDownload   |-> None,
    newestDownloadSequence |-> 0,
    finishedDeleteSequence |-> 0,
    deleteSequence         |-> 0,
    deleteAttempt          |-> None ]

(***************************************************************************)
(* Downloads.                                                              *)
(***************************************************************************)
DownloadStale(st, s) ==
  \/ s <= st.finishedDeleteSequence
  \/ s < st.newestDownloadSequence
  \/ st.deleteSequence # 0 /\ s <= st.deleteSequence

\* Mutant: an active download does not hold up the next one.
DownloadWaitForDeletes(st, s) ==
  ~ DownloadStale(st, s) /\ (st.deleteSequence # 0 \/ st.legacyAttempts # {})

DownloadWait(st, s) ==
  /\ ~ DownloadStale(st, s)
  /\ \/ st.deleteSequence # 0
     \/ st.download # None
     \/ st.legacyAttempts # {}

DownloadProceeds(st, s) == ~ DownloadStale(st, s) /\ ~ DownloadWait(st, s)

beginDownload(st, s, p) ==
  [st EXCEPT !.download = p, !.newestDownloadSequence = s]

\* Mutant: a finished download keeps its slot.
finishDownloadKeepsSlot(st, p) == st

finishDownload(st, p) ==
  IF st.download = p THEN [st EXCEPT !.download = None] ELSE st

(***************************************************************************)
(* Deletes.  A delete that is neither stale nor blocked by another owner   *)
(* of the barrier reserves it, and gets an attempt, even when it then has  *)
(* to wait for the work it cancels.                                        *)
(***************************************************************************)
DeleteStale(st, s) ==
  \/ s <= st.newestDownloadSequence
  \/ s <= st.finishedDeleteSequence
  \/ st.deleteSequence # 0 /\ s < st.deleteSequence

DeleteReserves(st, s) ==
  /\ ~ DeleteStale(st, s)
  /\ \/ st.deleteSequence = 0
     \/ st.deleteSequence = s /\ st.deleteAttempt = None

DeleteProceeds(st, s) ==
  /\ DeleteReserves(st, s)
  /\ st.download = None
  /\ st.legacyAttempts = {}

beginDelete(st, s, p) ==
  [st EXCEPT !.deleteSequence = s, !.deleteAttempt = p]

\* The goroutine whose context beginDelete cancels once it has the barrier.
CancelledByDelete(st) ==
  IF st.download # None THEN {st.download}
  ELSE {st.latestLegacyDownload} \ {None}

\* Mutant: a finished delete lifts its barrier and leaves no fence.
finishDeleteUnfenced(st, s, p, keepBarrier) ==
  IF st.deleteAttempt # p THEN st
  ELSE IF keepBarrier THEN [st EXCEPT !.deleteAttempt = None]
  ELSE [st EXCEPT !.deleteAttempt = None, !.deleteSequence = 0]

finishDelete(st, s, p, keepBarrier) ==
  IF st.deleteAttempt # p THEN st
  ELSE IF keepBarrier THEN [st EXCEPT !.deleteAttempt = None]
  ELSE [st EXCEPT !.deleteAttempt = None,
                  !.finishedDeleteSequence = s,
                  !.deleteSequence = 0]

(***************************************************************************)
(* Legacy (non-file) tasks are not serialised; only the latest download    *)
(* can be cancelled.                                                       *)
(***************************************************************************)
beginLegacyTask(st, p, type) ==
  [st EXCEPT !.legacyAttempts = @ \cup {<<p, type>>},
             !.latestLegacyDownload = IF type = "Download" THEN p ELSE @]

finishLegacyTask(st, p, type) ==
  [st EXCEPT !.legacyAttempts = @ \ {<<p, type>>},
             !.latestLegacyDownload =
                IF type = "Download" /\ @ = p THEN None ELSE @]

\* cancelLegacyDownload: the goroutine whose context it cancels, if any.
CancelledLegacy(st) == {st.latestLegacyDownload} \ {None}
=============================================================================
