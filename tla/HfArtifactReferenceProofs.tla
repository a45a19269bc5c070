---------------------- MODULE HfArtifactReferenceProofs ----------------------
(***************************************************************************)
(* The records of a shared artifact agree with each other and with the     *)
(* links, for any models, workers, processes, locks and faults.            *)
(*                                                                         *)
(* Each change of the references is one compare-and-swap; what it takes to *)
(* keep them matched with the links is that a worker has, at each place, a *)
(* task of the right kind (Tasks) and what it relies on (Relies): a model  *)
(* without a receipt when it is admitted, the link when the reference is   *)
(* added, no reference when the link is removed.  The file lock keeps the  *)
(* others from changing that meanwhile.                                    *)
(***************************************************************************)
EXTENDS HfArtifactProofs

\* What a task is, at each place of its worker: only a model whose resource is
\* deleted is deleted, a reference is released by no download, and only what
\* resumes or releases detaches.
Fitting(o, l) ==
  /\ DOMAIN o = OpFields
  /\ IF l = "idle" THEN o = Idle ELSE o.model \in Models
  /\ o.kind = "Delete" => cr[o.model] = "deleting"
  /\ o.aim = "release" => o.kind \notin {"Download", "DownloadOverride"}
  /\ l = "legacy" => o.kind = "Delete"
  /\ l = "detach" => o.aim \in {"resume", "release"}

Task(w) == Fitting(op[w], pc[w])

Tasks == Shape /\ \A w \in Workers : Task(w)

\* A step of w leaves the other workers alone, and w with its model or without a task.
TaskStep(w) == Alone(w) /\ Task(w)' /\ (pc'[w] = "idle" \/ op'[w].model = M(w))

\* A handler that returns ends the task, or keeps its kind and its model.
LEMMA LeaveFits ==
  ASSUME Tasks, NEW w \in Workers, pc[w] # "idle", UNCHANGED cr, NEW result, NEW memory,
         Leave(w, result, memory)
  PROVE  TaskStep(w)
<1>1. Left(w) /\ Shape /\ Task(w)
  BY LeaveIsOut, Zenon DEF Tasks
<1>2. PICK l \in After(w, result) :
        /\ pc' = [pc EXCEPT ![w] = IF l \in {"idle", "queue"} THEN "idle" ELSE l]
        /\ op' = [op EXCEPT ![w] = IF l \in {"idle", "queue"} THEN Idle
                                   ELSE [Idle EXCEPT !.kind = op[w].kind, !.model = M(w)]]
  BY Zenon DEF Leave, Goto
<1>3. After(w, result) \subseteq Out \cup {"queue"}
  BY Zenon DEF After, Requeued, GivesUp, Out
<1>4. Alone(w)
  BY <1>1, <1>2, Zenon DEF Alone, Left, Shape
<1>5. CASE l \in {"idle", "queue"}
  <2>1. pc'[w] = "idle" /\ op'[w] = Idle
    BY <1>1, <1>2, <1>5, Zenon DEF Shape
  <2>2. Fitting(Idle, "idle")'
    BY Zenon DEF Fitting, Idle, OpFields
  <2> QED BY <1>4, <2>1, <2>2, Zenon DEF TaskStep, Task
<1>6. CASE l \notin {"idle", "queue"}
  <2>1. PICK o : o = [Idle EXCEPT !.kind = op[w].kind, !.model = M(w)]
    BY Zenon
  <2>2. DOMAIN o = OpFields /\ o.kind = op[w].kind /\ o.model = M(w) /\ o.aim = "none"
    BY <2>1, Zenon DEF Idle, OpFields
  <2>3. l \notin {"idle", "legacy", "detach"}
    BY <1>3, <1>6, Zenon DEF Out
  <2>4. Fitting(o, l)'
    BY <1>1, <2>2, <2>3, Zenon DEF Fitting, Task, M
  <2>5. pc'[w] = l /\ op'[w] = o
    BY <1>1, <1>2, <1>6, <2>1, Zenon DEF Shape
  <2> QED BY <1>4, <2>2, <2>4, <2>5, Zenon DEF TaskStep, Task
<1> QED BY <1>5, <1>6, Zenon

\* w goes to l with the task o.
Moves(w, l, o) ==
  /\ Goto(w, l) /\ (UNCHANGED own \/ \E x : own' = [own EXCEPT ![w] = x])
  /\ (UNCHANGED op /\ op[w] = o) \/ op' = [op EXCEPT ![w] = o]

\* It is enough that the task fits the place.
LEMMA MovesFit ==
  ASSUME Tasks, NEW w \in Workers, UNCHANGED cr, NEW l, NEW o, Moves(w, l, o),
         Fitting(o, l), o.model = M(w)
  PROVE  TaskStep(w)
<1>1. Alone(w) /\ op'[w] = o /\ pc'[w] = l
  BY Zenon DEF Moves, Goto, Alone, Tasks, Shape
<1>2. Fitting(o, l)'
  BY Zenon DEF Fitting
<1> QED BY <1>1, <1>2, Zenon DEF TaskStep, Task

\* The task stays as it is, at a place that asks for nothing.
LEMMA StaysFit ==
  ASSUME Tasks, NEW w \in Workers, pc[w] # "idle", UNCHANGED <<cr, op>>, NEW l,
         l \notin {"idle", "legacy", "detach"}, Goto(w, l),
         UNCHANGED own \/ (\E x : own' = [own EXCEPT ![w] = x])
  PROVE  TaskStep(w)
<1>1. Fitting(op[w], l)
  BY Zenon DEF Tasks, Task, Fitting
<1>2. Moves(w, l, op[w])
  BY Zenon DEF Moves
<1> QED BY <1>1, <1>2, MovesFit, Zenon DEF M

\* The status that a task is to publish changes, and nothing else of it.
LEMMA ToFits ==
  ASSUME Tasks, NEW w \in Workers, pc[w] # "idle", UNCHANGED cr, NEW l, NEW status,
         l \notin {"idle", "legacy", "detach"}, Goto(w, l),
         UNCHANGED own \/ (\E x : own' = [own EXCEPT ![w] = x]),
         op' = [op EXCEPT ![w].to = status]
  PROVE  TaskStep(w)
<1>1. PICK o : o = [op[w] EXCEPT !.to = status]
  BY Zenon
<1>2. Fitting(op[w], pc[w])
  BY Zenon DEF Tasks, Task
<1>3. DOMAIN o = OpFields /\ o.kind = op[w].kind /\ o.model = M(w) /\ o.aim = op[w].aim
  BY <1>1, <1>2, Zenon DEF Fitting, OpFields, M
<1>4. Fitting(o, l)
  BY <1>2, <1>3, Zenon DEF Fitting, M
<1>5. Moves(w, l, o)
  BY <1>1, Zenon DEF Moves
<1> QED BY <1>3, <1>4, <1>5, MovesFit, Zenon

\* The ways in which most steps end.
Ends(w) ==
  \/ \E result : End(w, result)
  \/ \E result, memory : Leave(w, result, memory)
  \/ \E result, l, status : EndOwing(w, result, l, status)
  \/ \E l : l \notin {"idle", "legacy", "detach"} /\ (Go(w, l) \/ Disown(w, l))
  \/ \E status : Abort(w, status)
  \/ \E l, x, before : l \notin {"idle", "legacy", "detach"} /\ Own(w, x, before, l)
  \/ /\ \E l : l \notin {"idle", "legacy", "detach"} /\ Goto(w, l)
     /\ UNCHANGED op
     /\ UNCHANGED own \/ (\E x : own' = [own EXCEPT ![w] = x])

\* Each of them keeps the task.
LEMMA EndsFit ==
  ASSUME Tasks, NEW w \in Workers, pc[w] # "idle", UNCHANGED cr, Ends(w)
  PROVE  TaskStep(w)
<1>1. ASSUME \E result, memory : Leave(w, result, memory)
      PROVE  TaskStep(w)
  BY <1>1, LeaveFits, Zenon
<1>2. CASE (\E result : End(w, result)) \/ \E result, l, status : EndOwing(w, result, l, status)
  BY <1>1, <1>2, EndIsLeave, Zenon
<1>3. CASE \E l : l \notin {"idle", "legacy", "detach"} /\ (Go(w, l) \/ Disown(w, l))
  BY <1>3, StaysFit, Zenon DEF Go, Disown
<1>4. CASE \E status : Abort(w, status)
  BY <1>4, ToFits, Zenon DEF Abort
<1>5. CASE \E l, x, before : l \notin {"idle", "legacy", "detach"} /\ Own(w, x, before, l)
  BY <1>5, ToFits, Zenon DEF Own
<1>6. CASE /\ \E l : l \notin {"idle", "legacy", "detach"} /\ Goto(w, l)
           /\ UNCHANGED op
           /\ UNCHANGED own \/ (\E x : own' = [own EXCEPT ![w] = x])
  BY <1>6, StaysFit, Zenon
<1> QED BY <1>1, <1>2, <1>3, <1>4, <1>5, <1>6, Zenon DEF Ends

\* Steps that change no more of a task than the status that it is to publish.
LEMMA MostStepsKeepTask ==
  ASSUME Tasks, NEW w \in Workers,
         \/ CleanupIntent(w) \/ DeleteOrdinary(w) \/ recover(w) \/ recoverParent(w)
         \/ markModelOnNodeFailed(w) \/ Admit(w) \/ AcquireInitial(w) \/ AcquireRepair(w)
         \/ ResetBegins(w) \/ ResetEnds(w) \/ FetchBegins(w) \/ FetchEnds(w)
         \/ MarkBegins(w) \/ MarkEnds(w) \/ MarkParentReadyLabels(w)
         \/ AttachLink(w) \/ AttachReference(w) \/ FailChildren(w) \/ FailLabels(w)
         \/ RemoveMarker(w) \/ Release(w) \/ PublishLabel(w) \/ PublishStatus(w)
         \/ DetachUnreferenced(w) \/ DetachBlocked(w) \/ DetachReference(w)
         \/ Claim(w) \/ Unlink(w) \/ RemoveBegins(w) \/ RemoveEnds(w)
         \/ Forget(w) \/ Unclaim(w) \/ FinishReceipt(w) \/ Final(w)
  PROVE  TaskStep(w)
<1>1. pc[w] # "idle" /\ UNCHANGED cr
  BY Zenon DEF CleanupIntent, DeleteOrdinary, recover, recoverParent, markModelOnNodeFailed, Admit,
         AcquireInitial, AcquireRepair, ResetBegins, ResetEnds, FetchBegins, FetchEnds, MarkBegins,
         MarkEnds, MarkParentReadyLabels, AttachLink, AttachReference, FailChildren, FailLabels,
         RemoveMarker, Release, PublishLabel, PublishStatus, DetachUnreferenced, DetachBlocked,
         DetachReference, Claim, Unlink, RemoveBegins, RemoveEnds, Forget, Unclaim, FinishReceipt,
         Final
<1>2. CASE CleanupIntent(w) \/ DeleteOrdinary(w) \/ markModelOnNodeFailed(w) \/ PublishStatus(w)
           \/ PublishLabel(w) \/ Final(w)
  <2>1. Ends(w)
    BY <1>2, ZenonT(60) DEF Ends, CleanupIntent, DeleteOrdinary, markModelOnNodeFailed,
       PublishStatus, PublishLabel,
                Final, Write, NoWrite
  <2> QED BY <1>1, <2>1, EndsFit, Zenon
<1>3. CASE recover(w) \/ recoverParent(w)
  <2>1. Ends(w)
    BY <1>3, ZenonT(60) DEF Ends, recover, recoverParent, SettleAbandoned, SetStatus, Write,
       NoWrite, Go
  <2> QED BY <1>1, <2>1, EndsFit, Zenon
<1>4. CASE Admit(w) \/ AcquireInitial(w) \/ AcquireRepair(w)
  <2>1. Ends(w)
    BY <1>4, ZenonT(60) DEF Ends, Admit, AcquireInitial, AcquireRepair, TakeLock, Write, NoWrite,
       Finish
  <2> QED BY <1>1, <2>1, EndsFit, Zenon
<1>5. CASE ResetBegins(w) \/ ResetEnds(w) \/ FetchBegins(w) \/ FetchEnds(w) \/ MarkBegins(w)
           \/ MarkEnds(w) \/ RemoveMarker(w)
  <2>1. Ends(w)
    BY <1>5, ZenonT(60) DEF Ends, ResetBegins, ResetEnds, FetchBegins, FetchEnds, MarkBegins,
       MarkEnds, RemoveMarker,
                Interrupted, Finish
  <2> QED BY <1>1, <2>1, EndsFit, Zenon
<1>6. CASE MarkParentReadyLabels(w) \/ AttachLink(w) \/ AttachReference(w) \/ FailChildren(w)
           \/ FailLabels(w)
  <2>1. Ends(w)
    BY <1>6, ZenonT(60) DEF Ends, MarkParentReadyLabels, AttachLink, AttachReference,
       FailChildren, FailLabels,
                Write, NoWrite
  <2> QED BY <1>1, <2>1, EndsFit, Zenon
<1>7. CASE Release(w) \/ Forget(w) \/ Unclaim(w) \/ FinishReceipt(w)
  <2>1. Ends(w)
    BY <1>7, ZenonT(60) DEF Ends, Release, Forget, Unclaim, FinishReceipt, SetStatus, Write, NoWrite
  <2> QED BY <1>1, <2>1, EndsFit, Zenon
<1>8. CASE DetachUnreferenced(w) \/ DetachBlocked(w) \/ DetachReference(w)
  <2>1. Ends(w)
    BY <1>8, ZenonT(60) DEF Ends, DetachUnreferenced, DetachBlocked, DetachReference, Write, Finish
  <2> QED BY <1>1, <2>1, EndsFit, Zenon
<1>9. CASE Claim(w) \/ Unlink(w) \/ RemoveBegins(w) \/ RemoveEnds(w)
  <2>1. Ends(w)
    BY <1>9, ZenonT(60) DEF Ends, Claim, Unlink, RemoveBegins, RemoveEnds, Write, NoWrite
  <2> QED BY <1>1, <2>1, EndsFit, Zenon
<1> QED BY <1>2, <1>3, <1>4, <1>5, <1>6, <1>7, <1>8, <1>9, Zenon

\* The checks in Validate change what is to be published, and note that they ran.
LEMMA ValidateKeepsTask ==
  ASSUME Tasks, NEW w \in Workers, Validate(w)
  PROVE  TaskStep(w)
<1>1. pc[w] # "idle" /\ UNCHANGED cr /\ Fitting(op[w], pc[w])
  BY Zenon DEF Validate, Tasks, Task
<1>2. CASE Interrupted(w)
  <2>1. Ends(w)
    BY <1>2, Zenon DEF Ends, Interrupted
  <2> QED BY <1>1, <2>1, EndsFit, Zenon
<1>3. CASE ~ Interrupted(w)
  <2>1. PICK o, l : /\ l \in {"abort", "mark", "failkids"} /\ Goto(w, l) /\ UNCHANGED own
                    /\ op' = [op EXCEPT ![w] = o]
                    /\ \/ o = [op[w] EXCEPT !.checked = TRUE, !.to = "Failed"]
                       \/ o = [op[w] EXCEPT !.checked = TRUE]
    BY <1>3, ZenonT(30) DEF Validate
  <2>2. DOMAIN o = OpFields /\ o.kind = op[w].kind /\ o.model = M(w) /\ o.aim = op[w].aim
    BY <1>1, <2>1, Zenon DEF Fitting, OpFields, M
  <2>3. Fitting(o, l)
    BY <1>1, <2>1, <2>2, Zenon DEF Fitting, M
  <2>4. Moves(w, l, o)
    BY <2>1, Zenon DEF Moves
  <2> QED BY <1>1, <2>2, <2>3, <2>4, MovesFit, Zenon
<1> QED BY <1>2, <1>3, Zenon

\* What the ConfigMap says of the model decides what is done.
LEMMA CleanupKeepsTask ==
  ASSUME Tasks, NEW w \in Workers, Cleanup(w)
  PROVE  TaskStep(w)
<1>1. pc[w] = "cleanup" /\ UNCHANGED cr /\ Fitting(op[w], pc[w])
  BY Zenon DEF Cleanup, Tasks, Task
<1>2. CASE Aim(w) # "none" /\ ~ Ends(w)
  <2>0. PICK used : /\ op' = [op EXCEPT ![w].aim = Aim(w), ![w].keep = used]
                    /\ Goto(w, IF Mem(w).recovered THEN "reparent" ELSE "recover")
                    /\ UNCHANGED own
    BY <1>2, Zenon DEF Cleanup, Ends
  <2>1. PICK o, l : /\ l \in {"reparent", "recover"} /\ Goto(w, l)
                    /\ op' = [op EXCEPT ![w] = o]
                    /\ o = [op[w] EXCEPT !.aim = Aim(w), !.keep = used]
    BY <2>0, Zenon
  <2>2. DOMAIN o = OpFields /\ o.kind = op[w].kind /\ o.model = M(w) /\ o.aim = Aim(w)
    BY <1>1, <2>1, Zenon DEF Fitting, OpFields, M
  <2>3. Aim(w) = "release" => ~ Downloads(w)
    BY Zenon DEF Aim
  <2>4. Fitting(o, l)
    BY <1>1, <2>1, <2>2, <2>3, Zenon DEF Fitting, M, Downloads
  <2>5. Moves(w, l, o)
    BY <2>0, <2>1, Zenon DEF Moves
  <2> QED BY <1>1, <2>2, <2>4, <2>5, MovesFit, Zenon
<1>3. CASE Aim(w) = "none" /\ op[w].kind = "Delete"
  <2>1. Go(w, "legacy")
    BY <1>3, Zenon DEF Cleanup
  <2>2. Fitting(op[w], "legacy")
    BY <1>1, <1>3, Zenon DEF Fitting
  <2>3. Moves(w, "legacy", op[w])
    BY <2>1, Zenon DEF Go, Moves
  <2> QED BY <1>1, <2>2, <2>3, MovesFit, Zenon DEF M
<1>4. CASE Ends(w)
  BY <1>1, <1>4, EndsFit, Zenon
<1>5. Aim(w) = "none" /\ op[w].kind # "Delete" => Ends(w)
  BY Zenon DEF Cleanup, Ends
<1> QED BY <1>2, <1>3, <1>4, <1>5, Zenon

\* runHfArtifactDownload chooses how to download.
LEMMA RouteKeepsTask ==
  ASSUME Tasks, NEW w \in Workers, Route(w)
  PROVE  TaskStep(w)
<1>1. pc[w] = "route" /\ UNCHANGED cr /\ Fitting(op[w], pc[w])
  BY Zenon DEF Route, Tasks, Task
<1>2. \/ End(w, "retry")
      \/ /\ Goto(w, "enter") /\ UNCHANGED own
         /\ \/ op' = [op EXCEPT ![w].once = TRUE, ![w].aim = "override"]
            \/ op' = [op EXCEPT ![w].aim = "override"]
            \/ op' = [op EXCEPT ![w].aim = "plain"]
  BY Zenon DEF Route
<1>3. CASE End(w, "retry")
  BY <1>1, <1>3, EndsFit, Zenon DEF Ends
<1>4. CASE /\ Goto(w, "enter") /\ UNCHANGED own
           /\ \/ op' = [op EXCEPT ![w].once = TRUE, ![w].aim = "override"]
              \/ op' = [op EXCEPT ![w].aim = "override"]
              \/ op' = [op EXCEPT ![w].aim = "plain"]
  <2>1. PICK o : /\ op' = [op EXCEPT ![w] = o]
                 /\ \/ o = [op[w] EXCEPT !.once = TRUE, !.aim = "override"]
                    \/ o = [op[w] EXCEPT !.aim = "override"]
                    \/ o = [op[w] EXCEPT !.aim = "plain"]
    BY <1>4, ZenonT(30)
  <2>2. /\ DOMAIN o = OpFields /\ o.kind = op[w].kind /\ o.model = M(w)
        /\ o.aim \in {"override", "plain"}
    BY <1>1, <2>1, Zenon DEF Fitting, OpFields, M
  <2>3. Fitting(o, "enter")
    BY <1>1, <2>2, Zenon DEF Fitting, M
  <2>4. Moves(w, "enter", o)
    BY <1>4, <2>1, Zenon DEF Moves
  <2> QED BY <1>1, <2>2, <2>3, <2>4, MovesFit, Zenon
<1> QED BY <1>2, <1>3, <1>4, Zenon

\* A task that detaches resumes a deletion or releases a reference.
LEMMA DispatchFits ==
  ASSUME Tasks, NEW w \in Workers, pc[w] # "idle", UNCHANGED <<cr, op, own>>, Goto(w, Dispatch(w))
  PROVE  TaskStep(w)
<1>1. Fitting(op[w], pc[w])
  BY Zenon DEF Tasks, Task
<1>2. /\ Dispatch(w) \in {"claim", "detach", "admit"}
      /\ Dispatch(w) = "detach" => op[w].aim \in {"resume", "release"}
  BY Zenon DEF Dispatch
<1>3. PICK l : l = Dispatch(w)
  BY Zenon
<1>4. Fitting(op[w], l)
  BY <1>1, <1>2, <1>3, Zenon DEF Fitting
<1>5. Moves(w, l, op[w])
  BY <1>3, Zenon DEF Moves
<1> QED BY <1>4, <1>5, MovesFit, Zenon DEF M

\* tryArtifactOperation and retryPendingLockRelease.
LEMMA EnterAndSettleKeepTask ==
  ASSUME Tasks, NEW w \in Workers, Enter(w) \/ Settle(w)
  PROVE  TaskStep(w)
<1>1. pc[w] # "idle" /\ UNCHANGED cr
  BY Zenon DEF Enter, Settle
<1>2. \/ \E result : End(w, result)
      \/ UNCHANGED <<op, own>> /\ (Goto(w, "settle") \/ Goto(w, Dispatch(w)))
  BY Zenon DEF Enter, Settle, SetStatus, Write, NoWrite
<1>3. CASE (\E result : End(w, result)) \/ (UNCHANGED <<op, own>> /\ Goto(w, "settle"))
  BY <1>1, <1>3, EndsFit, Zenon DEF Ends
<1>4. CASE UNCHANGED <<op, own>> /\ Goto(w, Dispatch(w))
  BY <1>1, <1>4, DispatchFits, Zenon
<1> QED BY <1>2, <1>3, <1>4, Zenon

\* markParentReady goes on to attach, or to detach.
LEMMA MarkParentReadyKeepsTask ==
  ASSUME Tasks, NEW w \in Workers, MarkParentReady(w)
  PROVE  TaskStep(w)
<1>1. pc[w] = "ready" /\ UNCHANGED cr /\ Fitting(op[w], pc[w])
  BY Zenon DEF MarkParentReady, Tasks, Task
<1>2. \/ \E result : End(w, result)
      \/ /\ own' = [own EXCEPT ![w] = None] /\ UNCHANGED op
         /\ \/ Goto(w, "detach") /\ op[w].aim \in {"resume", "release"}
            \/ Goto(w, "attach")
  BY Zenon DEF MarkParentReady, SetStatus, Write, NoWrite
<1>3. CASE (\E result : End(w, result))
           \/ (own' = [own EXCEPT ![w] = None] /\ UNCHANGED op /\ Goto(w, "attach"))
  <2>1. Ends(w)
    BY <1>3, Zenon DEF Ends
  <2> QED BY <1>1, <2>1, EndsFit, Zenon
<1>4. CASE /\ own' = [own EXCEPT ![w] = None] /\ UNCHANGED op
           /\ Goto(w, "detach") /\ op[w].aim \in {"resume", "release"}
  <2>1. Fitting(op[w], "detach")
    BY <1>1, <1>4, Zenon DEF Fitting
  <2>2. Moves(w, "detach", op[w])
    BY <1>4, Zenon DEF Moves
  <2> QED BY <1>1, <2>1, <2>2, MovesFit, Zenon DEF M
<1> QED BY <1>2, <1>3, <1>4, Zenon

\* shouldSkipStaleDownloadTask makes a delete of a download.
LEMMA DeleteInsteadKeepsTask ==
  ASSUME Tasks, NEW w \in Workers, DeleteInstead(w)
  PROVE  TaskStep(w)
<1>1. pc[w] = "publish" /\ UNCHANGED cr /\ Fitting(op[w], pc[w]) /\ cr[M(w)] = "deleting"
  BY Zenon DEF DeleteInstead, Tasks, Task
<1>2. PICK o : o = [op[w] EXCEPT !.kind = "Delete"]
  BY Zenon
<1>3. DOMAIN o = OpFields /\ o.kind = "Delete" /\ o.model = M(w) /\ o.aim = op[w].aim
  BY <1>1, <1>2, Zenon DEF Fitting, OpFields, M
<1>4. Fitting(o, "cleanup")
  BY <1>1, <1>3, Zenon DEF Fitting, M
<1>5. Moves(w, "cleanup", o)
  BY <1>2, Zenon DEF DeleteInstead, Moves
<1> QED BY <1>1, <1>3, <1>4, <1>5, MovesFit, Zenon

\* Every step of a worker.
LEMMA StepKeepsTask ==
  ASSUME Tasks, NEW w \in Workers, Step(w)
  PROVE  TaskStep(w)
BY MostStepsKeepTask, ValidateKeepsTask, CleanupKeepsTask, RouteKeepsTask, EnterAndSettleKeepTask,
   MarkParentReadyKeepsTask, DeleteInsteadKeepsTask, Zenon
DEF Step, DownloadStep, DeleteStep

\* w returns before it is done, or goes to a place in S.
Lands(w, S) ==
  \/ \E result, memory : result # "done" /\ Leave(w, result, memory)
  \/ \E l \in S : Goto(w, l)

\* Who returns before it is done does not publish.
LEMMA LandsIn ==
  ASSUME Shape, NEW w \in Workers, NEW S, Lands(w, S)
  PROVE  pc'[w] \in S \cup (Out \ {"publish"})
<1>1. CASE \E l \in S : Goto(w, l)
  BY <1>1, Zenon DEF Goto, Shape
<1>2. ASSUME NEW result, NEW memory, result # "done", Leave(w, result, memory)
      PROVE  pc'[w] \in Out \ {"publish"}
  <2>1. PICK l \in After(w, result) :
          pc' = [pc EXCEPT ![w] = IF l \in {"idle", "queue"} THEN "idle" ELSE l]
    BY <1>2, ZenonT(30) DEF Leave, Goto
  <2>2. After(w, result) \subseteq {"queue", "failed", "idle"}
    BY <1>2, Zenon DEF After, Requeued, GivesUp
  <2> QED BY <2>1, <2>2, Zenon DEF Out, Shape
<1> QED BY <1>1, <1>2, Zenon DEF Lands

\* Where the steps of a worker lead.
LEMMA Targets ==
  ASSUME NEW w
  PROVE  /\ CleanupIntent(w) => Lands(w, {"cleanup"})
         /\ Cleanup(w) => Lands(w, {"reparent", "recover", "legacy"})
         /\ DeleteOrdinary(w) => Lands(w, {"final"})
         /\ recover(w) => Lands(w, {"reparent"})
         /\ recoverParent(w) => Lands(w, {"route", "enter"})
         /\ Route(w) => Lands(w, {"enter"})
         /\ Enter(w) => Lands(w, {"settle", "claim", "detach", "admit"})
         /\ Settle(w) => Lands(w, {"claim", "detach", "admit"})
         /\ markModelOnNodeFailed(w) => Lands(w, {})
         /\ Admit(w) => Lands(w, {"acquire", "attach", "ready", "relabel"})
         /\ AcquireInitial(w) => Lands(w, {"reset"})
         /\ AcquireRepair(w) => Lands(w, {"validate"})
         /\ ResetBegins(w) => Lands(w, {"resetting"})
         /\ ResetEnds(w) => Lands(w, {"fetching", "abort"})
         /\ FetchBegins(w) => Lands(w, {"fetching"})
         /\ FetchEnds(w) => Lands(w, {"mark", "abort"})
         /\ MarkBegins(w) => Lands(w, {"marking", "abort"})
         /\ MarkEnds(w) => Lands(w, {"ready", "relabel"})
         /\ MarkParentReadyLabels(w) => Lands(w, {"ready"})
         /\ MarkParentReady(w) => Lands(w, {"detach", "attach"})
         /\ AttachLink(w) => Lands(w, {"addref"})
         /\ Validate(w) => Lands(w, {"abort", "mark", "failkids"})
         /\ FailChildren(w) => Lands(w, {"faillabels", "abort"})
         /\ FailLabels(w) => Lands(w, {"unmark", "abort"})
         /\ RemoveMarker(w) => Lands(w, {"fetch", "abort"})
         /\ Release(w) => Lands(w, {})
         /\ DeleteInstead(w) => Lands(w, {"cleanup"})
         /\ PublishLabel(w) => Lands(w, {"status"})
         /\ PublishStatus(w) => Lands(w, {})
         /\ DetachBlocked(w) => Lands(w, {"ready", "relabel"})
         /\ DetachReference(w) => Lands(w, {"claim", "unclaim", "receipt"})
         /\ Claim(w) => Lands(w, {"unlink"})
         /\ Unlink(w) => Lands(w, {"receipt", "unclaim", "remove"})
         /\ RemoveBegins(w) => Lands(w, {"removing"})
         /\ RemoveEnds(w) => Lands(w, {"forget"})
         /\ Forget(w) => Lands(w, {"receipt"})
         /\ Unclaim(w) => Lands(w, {"receipt"})
         /\ Final(w) => Lands(w, {})
<1>1. CleanupIntent(w) => Lands(w, {"cleanup"})
  BY ZenonT(60) DEF CleanupIntent, Lands, End, EndOwing, Write, NoWrite, Go
<1>2. Cleanup(w) => Lands(w, {"reparent", "recover", "legacy"})
  BY ZenonT(60) DEF Cleanup, Lands, End, EndOwing, Go
<1>3. DeleteOrdinary(w) => Lands(w, {"final"})
  BY ZenonT(60) DEF DeleteOrdinary, Lands, End, EndOwing, Go
<1>4. recover(w) => Lands(w, {"reparent"})
  BY ZenonT(60) DEF recover, Lands, End, EndOwing, SettleAbandoned, SetStatus, Write, NoWrite, Go
<1>5. recoverParent(w) => Lands(w, {"route", "enter"})
  BY ZenonT(60) DEF recoverParent, Lands, End, EndOwing, SettleAbandoned, SetStatus, Write, NoWrite
<1>6. Route(w) => Lands(w, {"enter"})
  BY ZenonT(60) DEF Route, Lands, End, EndOwing
<1>7. Enter(w) => Lands(w, {"settle", "claim", "detach", "admit"})
  BY ZenonT(60) DEF Enter, Lands, End, EndOwing, Dispatch
<1>8. Settle(w) => Lands(w, {"claim", "detach", "admit"})
  BY ZenonT(60) DEF Settle, Lands, End, EndOwing, Dispatch, SetStatus, Write, NoWrite
<1>9. markModelOnNodeFailed(w) => Lands(w, {})
  BY ZenonT(60) DEF markModelOnNodeFailed, Lands, End, EndOwing
<1>10. Admit(w) => Lands(w, {"acquire", "attach", "ready", "relabel"})
  BY ZenonT(60) DEF Admit, Lands, End, EndOwing, Write, NoWrite, Finish
<1>11. AcquireInitial(w) => Lands(w, {"reset"})
  BY ZenonT(60) DEF AcquireInitial, Lands, End, EndOwing, TakeLock, Write, NoWrite
<1>12. AcquireRepair(w) => Lands(w, {"validate"})
  BY ZenonT(60) DEF AcquireRepair, Lands, End, EndOwing, TakeLock, Write, NoWrite
<1>13. ResetBegins(w) => Lands(w, {"resetting"})
  BY ZenonT(60) DEF ResetBegins, Lands, End, EndOwing, Go
<1>14. ResetEnds(w) => Lands(w, {"fetching", "abort"})
  BY ZenonT(60) DEF ResetEnds, Lands, End, EndOwing, Go, Abort
<1>15. FetchBegins(w) => Lands(w, {"fetching"})
  BY ZenonT(60) DEF FetchBegins, Lands, End, EndOwing, Go
<1>16. FetchEnds(w) => Lands(w, {"mark", "abort"})
  BY ZenonT(60) DEF FetchEnds, Lands, End, EndOwing, Go, Abort, Interrupted
<1>17. MarkBegins(w) => Lands(w, {"marking", "abort"})
  BY ZenonT(60) DEF MarkBegins, Lands, End, EndOwing, Go, Abort
<1>18. MarkEnds(w) => Lands(w, {"ready", "relabel"})
  BY ZenonT(60) DEF MarkEnds, Lands, End, EndOwing, Go, Finish
<1>19. MarkParentReadyLabels(w) => Lands(w, {"ready"})
  BY ZenonT(60) DEF MarkParentReadyLabels, Lands, End, EndOwing, Go
<1>20. MarkParentReady(w) => Lands(w, {"detach", "attach"})
  BY ZenonT(60) DEF MarkParentReady, Lands, End, EndOwing, SetStatus, Write, NoWrite
<1>21. AttachLink(w) => Lands(w, {"addref"})
  BY ZenonT(60) DEF AttachLink, Lands, End, EndOwing, Go
<1>22. Validate(w) => Lands(w, {"abort", "mark", "failkids"})
  BY ZenonT(60) DEF Validate, Lands, End, EndOwing, Interrupted, Abort
<1>23. FailChildren(w) => Lands(w, {"faillabels", "abort"})
  BY ZenonT(60) DEF FailChildren, Lands, End, EndOwing, Write, Go, Abort
<1>24. FailLabels(w) => Lands(w, {"unmark", "abort"})
  BY ZenonT(60) DEF FailLabels, Lands, End, EndOwing, Go, Abort
<1>25. RemoveMarker(w) => Lands(w, {"fetch", "abort"})
  BY ZenonT(60) DEF RemoveMarker, Lands, End, EndOwing, Go, Abort
<1>26. Release(w) => Lands(w, {})
  BY ZenonT(60) DEF Release, Lands, End, EndOwing, SetStatus, Write, NoWrite
<1>27. DeleteInstead(w) => Lands(w, {"cleanup"})
  BY ZenonT(60) DEF DeleteInstead, Lands, End, EndOwing
<1>28. PublishLabel(w) => Lands(w, {"status"})
  BY ZenonT(60) DEF PublishLabel, Lands, End, EndOwing, Again
<1>29. PublishStatus(w) => Lands(w, {})
  BY ZenonT(60) DEF PublishStatus, Lands, End, EndOwing, Again, Write, NoWrite
<1>30. DetachBlocked(w) => Lands(w, {"ready", "relabel"})
  BY ZenonT(60) DEF DetachBlocked, Lands, End, EndOwing, Finish
<1>31. DetachReference(w) => Lands(w, {"claim", "unclaim", "receipt"})
  BY ZenonT(60) DEF DetachReference, Lands, End, EndOwing, Write, Go, Own
<1>32. Claim(w) => Lands(w, {"unlink"})
  BY ZenonT(60) DEF Claim, Lands, End, EndOwing, Write, NoWrite, Go, Own
<1>33. Unlink(w) => Lands(w, {"receipt", "unclaim", "remove"})
  BY ZenonT(60) DEF Unlink, Lands, End, EndOwing, Go
<1>34. RemoveBegins(w) => Lands(w, {"removing"})
  BY ZenonT(60) DEF RemoveBegins, Lands, End, EndOwing, Go
<1>35. RemoveEnds(w) => Lands(w, {"forget"})
  BY ZenonT(60) DEF RemoveEnds, Lands, End, EndOwing, Go
<1>36. Forget(w) => Lands(w, {"receipt"})
  BY ZenonT(60) DEF Forget, Lands, End, EndOwing, Write, NoWrite, Disown
<1>37. Unclaim(w) => Lands(w, {"receipt"})
  BY ZenonT(60) DEF Unclaim, Lands, End, EndOwing, SetStatus, Write, NoWrite, Disown
<1>38. Final(w) => Lands(w, {})
  BY ZenonT(60) DEF Final, Lands, End, EndOwing, Write, NoWrite
<1> QED BY <1>1, <1>2, <1>3, <1>4, <1>5, <1>6, <1>7, <1>8, <1>9, <1>10, <1>11, <1>12, <1>13,
        <1>14, <1>15, <1>16, <1>17, <1>18, <1>19, <1>20, <1>21, <1>22, <1>23, <1>24, <1>25,
        <1>26, <1>27, <1>28, <1>29, <1>30, <1>31, <1>32, <1>33, <1>34, <1>35, <1>36, <1>37,
        <1>38, Zenon

\* What a worker relies on, by its place.
Relies(w) ==
  /\ pc[w] = "admit" => ~ entry[M(w)].receipt.held
  /\ pc[w] = "addref" => M(w) \in links
  /\ pc[w] = "unlink" => ~ entry[M(w)].ref

\* The inductive invariant behind ReferencesMatch.
Matched ==
  /\ Exclusive /\ EntryShape /\ Tasks /\ DOMAIN cr = Models
  /\ ReferencesMatch
  /\ \A w \in Workers : Relies(w)

\* What a step without the file lock may do to the others: no receipt or reference is
\* new, and a link that is being made stays (ChildLocked).
Tame ==
  /\ \A m \in Models : /\ entry'[m].receipt.held => entry[m].receipt.held
                       /\ entry'[m].ref => entry[m].ref
  /\ \A v \in Workers : flock = v /\ pc[v] = "addref" /\ M(v) \in links => M(v) \in links'

\* It is enough to look at w.
LEMMA MatchedStep ==
  ASSUME Matched, Exclusive', EntryShape', NEW w \in Workers, Alone(w), Task(w)', UNCHANGED cr,
         flock \in {None, w} \/ Tame, Relies(w)', ReferencesMatch'
  PROVE  Matched'
<1>1. ASSUME NEW v \in Workers \ {w}
      PROVE  Task(v)' /\ Relies(v)'
  <2>1. pc'[v] = pc[v] /\ op'[v] = op[v] /\ Task(v) /\ Relies(v)
    BY Zenon DEF Alone, Matched, Tasks
  <2>2. Task(v)'
    BY <2>1, Zenon DEF Task, Fitting
  <2>3. CASE pc[v] \in {"admit", "addref", "unlink"}
    <3>1. flock = v /\ v # None
      BY <2>3, HfArtifactAssumption, Zenon DEF Matched, Exclusive, Owns, Inside
    <3>2. Tame
      BY <1>1, <3>1, Zenon
    <3>3. M(v) \in Models /\ M(v)' = M(v)
      BY <2>1, <2>3, Zenon DEF Task, Fitting, M
    <3> QED BY <2>1, <2>2, <3>1, <3>2, <3>3, Zenon DEF Relies, Tame
  <2>4. CASE pc[v] \notin {"admit", "addref", "unlink"}
    BY <2>1, <2>2, <2>4, Zenon DEF Relies
  <2> QED BY <2>3, <2>4, Zenon
<1>2. Tasks'
  BY <1>1, Zenon DEF Tasks, Exclusive
<1> QED BY <1>1, <1>2, Zenon DEF Matched

\* The shared parts of the entries, the references of the parent and the links stay.
Steady ==
  /\ EntryShape'
  /\ \A m \in Models : /\ entry'[m].ref = entry[m].ref
                       /\ entry'[m].intent = entry[m].intent
                       /\ entry'[m].receipt = entry[m].receipt
  /\ parent'.children = parent.children
  /\ links' = links

\* Most steps change no more than statuses.
LEMMA SteadyIsMatched ==
  ASSUME Matched, Exclusive', NEW w \in Workers, TaskStep(w), UNCHANGED cr, Steady, Relies(w)'
  PROVE  Matched'
<1>1. ReferencesMatch'
  BY Zenon DEF Steady, Matched, ReferencesMatch
<1>2. Tame
  BY Zenon DEF Steady, Tame
<1> QED BY <1>1, <1>2, MatchedStep, Zenon DEF Steady, TaskStep

\* The changes of the records that touch statuses only.
LEMMA StatusIsSteady ==
  ASSUME EntryShape, DOMAIN parent = Fields, UNCHANGED links,
         \/ UNCHANGED entry
         \/ \E m, status : entry' = WithStatus(m, status)
         \/ \E status : entry' = setChildStatuses(parent, entry, status)
         \/ entry' = failChildren(parent, entry),
         \/ UNCHANGED parent
         \/ \E l : parent' = tryAcquireLock(parent, l)
         \/ \E status : parent' = setParentStatus(parent, status)
         \/ parent' = saveChildStatuses(parent, entry)
  PROVE  Steady
<1>1. parent'.children = parent.children
  BY Zenon DEF tryAcquireLock, setParentStatus, saveChildStatuses, Fields
<1>2. CASE UNCHANGED entry
  BY <1>1, <1>2, Zenon DEF Steady, EntryShape
<1>3. CASE \E m, status : entry' = WithStatus(m, status)
  BY <1>1, <1>3 DEF Steady, EntryShape, WithStatus
<1>4. CASE \E status : entry' = setChildStatuses(parent, entry, status)
  BY <1>1, <1>4, ZenonT(30) DEF Steady, EntryShape, setChildStatuses
<1>5. CASE entry' = failChildren(parent, entry)
  BY <1>1, <1>5, Zenon DEF Steady, EntryShape, failChildren
<1> QED BY <1>2, <1>3, <1>4, <1>5, Zenon

\* Steps that leave the records and the links as they are.
Looks(w) ==
  \/ Cleanup(w) \/ Route(w) \/ Enter(w) \/ DeleteInstead(w) \/ PublishLabel(w)
  \/ ResetBegins(w) \/ ResetEnds(w) \/ FetchBegins(w) \/ FetchEnds(w) \/ MarkBegins(w)
  \/ MarkEnds(w) \/ MarkParentReadyLabels(w) \/ Validate(w) \/ FailLabels(w)
  \/ RemoveMarker(w) \/ DetachBlocked(w) \/ RemoveBegins(w) \/ RemoveEnds(w)

\* Steps that change statuses or the owner of the parent.
SetsStatus(w) ==
  \/ markModelOnNodeFailed(w) \/ recover(w) \/ recoverParent(w) \/ Settle(w)
  \/ AcquireInitial(w) \/ AcquireRepair(w) \/ MarkParentReady(w) \/ FailChildren(w)
  \/ Release(w) \/ PublishStatus(w) \/ Unclaim(w)

\* Both are steady.
LEMMA MostStepsAreSteady ==
  ASSUME Matched, NEW w \in Workers, Looks(w) \/ SetsStatus(w)
  PROVE  Steady /\ UNCHANGED cr
<1>1. EntryShape /\ DOMAIN parent = Fields
  BY Zenon DEF Matched, Exclusive, Shape
<1>2. CASE Looks(w)
  <2>1. UNCHANGED <<parent, entry, links, cr>>
    BY <1>2, Zenon DEF Looks, Cleanup, Route, Enter, DeleteInstead, PublishLabel, ResetBegins,
       ResetEnds,
                FetchBegins, FetchEnds, MarkBegins, MarkEnds, MarkParentReadyLabels, Validate,
                FailLabels, RemoveMarker, DetachBlocked, RemoveBegins, RemoveEnds, RemoveSome, files
  <2> QED BY <1>1, <2>1, StatusIsSteady, Zenon
<1>3. CASE SetsStatus(w)
  <2>1. UNCHANGED <<links, cr>>
    BY <1>3, Zenon DEF SetsStatus, markModelOnNodeFailed, recover, recoverParent, Settle,
       AcquireInitial,
                AcquireRepair, MarkParentReady, FailChildren, Release, PublishStatus, Unclaim, files
  <2>2. CASE markModelOnNodeFailed(w) \/ PublishStatus(w)
    <3>1. UNCHANGED parent /\ (UNCHANGED entry \/ \E m, status : entry' = WithStatus(m, status))
      BY <2>2, Zenon DEF markModelOnNodeFailed, PublishStatus, Publish, Write, NoWrite
    <3> QED BY <1>1, <2>1, <3>1, StatusIsSteady, Zenon
  <2>3. CASE recover(w) \/ recoverParent(w) \/ Settle(w)
    <3>1. \/ UNCHANGED <<parent, entry>>
          \/ \E status : /\ parent' = setParentStatus(parent, status)
                         /\ entry' = setChildStatuses(parent, entry, status)
      BY <2>3, ZenonT(60) DEF recover, recoverParent, Settle, SettleAbandoned, SetStatus, Write,
         NoWrite
    <3> QED BY <1>1, <2>1, <3>1, StatusIsSteady, Zenon
  <2>4. CASE MarkParentReady(w) \/ Release(w) \/ Unclaim(w)
    <3>1. \/ UNCHANGED <<parent, entry>>
          \/ \E status : /\ parent' = setParentStatus(parent, status)
                         /\ entry' = setChildStatuses(parent, entry, status)
      BY <2>4, ZenonT(60) DEF MarkParentReady, Release, Unclaim, SetStatus, Write, NoWrite
    <3> QED BY <1>1, <2>1, <3>1, StatusIsSteady, Zenon
  <2>5. CASE AcquireInitial(w) \/ AcquireRepair(w) \/ FailChildren(w)
    <3>1. \/ UNCHANGED <<parent, entry>>
          \/ UNCHANGED entry /\ \E l : parent' = tryAcquireLock(parent, l)
          \/ /\ parent' = saveChildStatuses(parent, entry)
             /\ entry' = failChildren(parent, entry)
      BY <2>5, ZenonT(60) DEF AcquireInitial, AcquireRepair, FailChildren, TakeLock, Write, NoWrite
    <3> QED BY <1>1, <2>1, <3>1, StatusIsSteady, Zenon
  <2> QED BY <1>3, <2>2, <2>3, <2>4, <2>5, Zenon DEF SetsStatus
<1> QED BY <1>2, <1>3, Zenon

\* None of them goes where it would have to rely on a record, but for the admission of
\* downloads, which looks at the receipt.
LEMMA MostStepsRely ==
  ASSUME Matched, NEW w \in Workers, Looks(w) \/ SetsStatus(w)
  PROVE  Relies(w)'
<1>1. Shape /\ Steady /\ Task(w)
  BY MostStepsAreSteady, Zenon DEF Matched, Exclusive, Tasks
<1> DEFINE Free == Places \ {"admit", "addref", "unlink"}
<1>2. Out \subseteq Free
  BY DEF Out, Places
<1>3. CASE (Looks(w) \/ SetsStatus(w)) /\ ~ Enter(w) /\ ~ Settle(w)
  <2>1. \E S \in SUBSET Free : Lands(w, S)
    <3>1. {"reparent", "recover", "legacy", "route", "enter", "cleanup", "status", "resetting",
           "fetching", "mark", "abort", "marking", "ready", "relabel", "failkids", "unmark",
           "fetch", "removing", "forget", "reset", "validate", "detach", "attach", "faillabels",
           "receipt"} \subseteq Free
      BY DEF Places
    <3> HIDE DEF Free
    <3>2. \E S \in SUBSET {"reparent", "recover", "legacy", "route", "enter", "cleanup", "status",
           "resetting", "fetching", "mark", "abort", "marking", "ready", "relabel", "failkids",
           "unmark", "fetch", "removing", "forget", "reset", "validate", "detach", "attach",
           "faillabels", "receipt"} : Lands(w, S)
      <4>1. CASE Cleanup(w) \/ Route(w) \/ DeleteInstead(w) \/ PublishLabel(w)
        BY <4>1, Targets, SMTT(30)
      <4>2. CASE ResetBegins(w) \/ ResetEnds(w) \/ FetchBegins(w) \/ FetchEnds(w)
        BY <4>2, Targets, SMTT(30)
      <4>3. CASE MarkBegins(w) \/ MarkEnds(w) \/ MarkParentReadyLabels(w) \/ Validate(w)
        BY <4>3, Targets, SMTT(30)
      <4>4. CASE FailLabels(w) \/ RemoveMarker(w) \/ DetachBlocked(w) \/ RemoveBegins(w)
        BY <4>4, Targets, SMTT(30)
      <4>5. CASE RemoveEnds(w) \/ markModelOnNodeFailed(w) \/ recover(w) \/ recoverParent(w)
        BY <4>5, Targets, ZenonT(30)
      <4>6. CASE AcquireInitial(w) \/ AcquireRepair(w) \/ MarkParentReady(w) \/ FailChildren(w)
        BY <4>6, Targets, SMTT(30)
      <4>7. CASE Release(w) \/ PublishStatus(w) \/ Unclaim(w)
        BY <4>7, Targets, Zenon
      <4> QED
        BY <1>3, <4>1, <4>2, <4>3, <4>4, <4>5, <4>6, <4>7, Zenon
        DEF Looks, SetsStatus
    <3> QED BY <3>1, <3>2, ZenonT(30)
  <2>2. pc'[w] \in Free
    BY <1>1, <1>2, <2>1, LandsIn, Zenon
  <2> QED BY <2>2, Zenon DEF Relies
<1>4. CASE Enter(w) \/ Settle(w)
  <2>1. \/ \E result : End(w, result)
        \/ UNCHANGED op /\ (Goto(w, "settle") \/ Goto(w, Dispatch(w)))
    BY <1>4, Zenon DEF Enter, Settle, SetStatus, Write, NoWrite
  <2>2. CASE \E result : End(w, result)
    <3>1. pc'[w] \in Out
      BY <1>1, <2>2, EndIsLeave, LeaveIsOut, Zenon DEF Left, Shape
    <3> QED BY <1>2, <3>1, Zenon DEF Relies
  <2>3. CASE UNCHANGED op /\ (Goto(w, "settle") \/ Goto(w, Dispatch(w)))
    <3>1. pc'[w] \in {"settle", "claim", "detach", "admit"} /\ M(w)' = M(w)
      BY <1>1, <2>3, Zenon DEF Goto, Dispatch, Shape, M
    <3>2. pc'[w] = "admit" => ~ entry[M(w)].receipt.held
      BY <1>1, <2>3, Zenon DEF Goto, Dispatch, Preserves, Shape
    <3>3. M(w) \in Models
      BY <1>1, <1>4, Zenon DEF Task, Fitting, M, Enter, Settle
    <3> QED BY <1>1, <3>1, <3>2, <3>3, Zenon DEF Relies, Steady
  <2> QED BY <2>1, <2>2, <2>3, Zenon
<1> QED BY <1>3, <1>4, Zenon

\* What a step knows of its worker.
LEMMA AtWork ==
  ASSUME Matched, NEW w \in Workers, pc[w] # "idle"
  PROVE  /\ M(w) \in Models /\ Shape /\ EntryShape /\ Relies(w) /\ Task(w)
         /\ pc[w] \in Inside => flock = w
BY Zenon DEF Matched, Exclusive, Tasks, Task, Fitting, M, Owns

\* The records and the link of m.
Agree(m) ==
  /\ m \in parent.children <=> entry[m].ref
  /\ entry[m].ref /\ cr[m] # "deleting" => m \in links
  /\ ~ (entry[m].intent /\ (entry[m].ref \/ entry[m].receipt.held))
  /\ ~ (entry[m].ref /\ entry[m].receipt.held)

\* Those of the other models stay as they are.
OnlyOf(m) ==
  /\ EntryShape'
  /\ \A n \in Models \ {m} : /\ entry'[n] = entry[n]
                             /\ n \in parent'.children <=> n \in parent.children
                             /\ n \in links' <=> n \in links

\* Then it is enough to look at those of the worker's model.
LEMMA OnlyOfIsMatched ==
  ASSUME Matched, Exclusive', NEW w \in Workers, TaskStep(w), UNCHANGED cr, NEW m \in Models,
         OnlyOf(m), Agree(m)', flock \in {None, w} \/ Tame, Relies(w)'
  PROVE  Matched'
<1>1. ReferencesMatch'
  BY Zenon DEF OnlyOf, Agree, Matched, ReferencesMatch
<1> QED BY <1>1, MatchedStep, Zenon DEF OnlyOf, TaskStep

\* The places where a worker relies on nothing.
Free == Places \ {"admit", "addref", "unlink"}

LEMMA FreeIsEnough ==
  ASSUME Matched, NEW w \in Workers, NEW S \in SUBSET Free, Lands(w, S)
  PROVE  Relies(w)'
<1>1. Out \subseteq Free /\ Shape
  BY DEF Out, Free, Places, Matched, Exclusive
<1>2. pc'[w] \in Free
  BY <1>1, LandsIn, Zenon
<1> QED BY <1>2, Zenon DEF Relies, Free

\* reconcileHfArtifactCleanup: an intent, which has no reference, becomes a receipt.
LEMMA CleanupIntentIsMatched ==
  ASSUME Matched, Exclusive', NEW w \in Workers, TaskStep(w), CleanupIntent(w)
  PROVE  Matched'
<1>1. M(w) \in Models /\ EntryShape
  BY AtWork, Zenon DEF CleanupIntent
<1>2. Relies(w)'
  <2>1. Lands(w, {"cleanup"})
    BY Targets, Zenon
  <2>2. {"cleanup"} \in SUBSET Free
    BY ZenonT(30) DEF Free, Places
  <2> QED BY <2>1, <2>2, FreeIsEnough, Zenon
<1>3. UNCHANGED <<parent, links, cr>> /\ entry[M(w)].intent
  BY Zenon DEF CleanupIntent, files, Write, NoWrite
<1>4. UNCHANGED entry \/ (flock = None /\ entry' = beginPendingDownloadDeletion(entry, M(w)))
  BY Zenon DEF CleanupIntent, Write, NoWrite
<1>5. CASE UNCHANGED entry
  <2>1. Steady
    BY <1>1, <1>3, <1>5, Zenon DEF Steady, EntryShape
  <2> QED BY <1>2, <1>3, <2>1, SteadyIsMatched, Zenon
<1>6. CASE flock = None /\ entry' = beginPendingDownloadDeletion(entry, M(w))
  <2>1. PICK m \in Models : m = M(w)
    BY <1>1, Zenon
  <2>2. OnlyOf(m) /\ ~ entry'[m].intent /\ entry'[m].ref = entry[m].ref
    BY <1>1, <1>3, <1>6, <2>1, Zenon DEF OnlyOf, EntryShape, beginPendingDownloadDeletion
  <2>3. Agree(m)'
    BY <1>3, <2>1, <2>2, Zenon DEF Agree, Matched, ReferencesMatch
  <2> QED BY <1>2, <1>3, <1>6, <2>2, <2>3, OnlyOfIsMatched, Zenon
<1> QED BY <1>4, <1>5, <1>6, Zenon

\* The ordinary delete takes the link of a resource that is going, and of no download
\* that is making it.
LEMMA DeleteOrdinaryIsMatched ==
  ASSUME Matched, Exclusive', NEW w \in Workers, TaskStep(w), DeleteOrdinary(w)
  PROVE  Matched'
<1>1. M(w) \in Models /\ EntryShape /\ Task(w) /\ pc[w] = "legacy"
  BY AtWork, Zenon DEF DeleteOrdinary
<1>2. Relies(w)'
  <2>1. Lands(w, {"final"})
    BY Targets, Zenon
  <2>2. {"final"} \in SUBSET Free
    BY ZenonT(30) DEF Free, Places
  <2> QED BY <2>1, <2>2, FreeIsEnough, Zenon
<1>3. UNCHANGED <<parent, entry, cr>>
  BY Zenon DEF DeleteOrdinary
<1>4. UNCHANGED links \/ (~ ChildLocked(M(w)) /\ links' = links \ {M(w)})
  BY Zenon DEF DeleteOrdinary
<1>5. cr[M(w)] = "deleting"
  BY <1>1, Zenon DEF Task, Fitting, M
<1>6. Tame
  <2>1. ASSUME NEW v \in Workers, flock = v, pc[v] = "addref", M(v) \in links
        PROVE  M(v) \in links'
    <3>1. flock # None
      BY <2>1, HfArtifactAssumption, Zenon
    <3> QED BY <1>4, <2>1, <3>1, Zenon DEF ChildLocked
  <2> QED BY <1>3, <2>1, Zenon DEF Tame
<1>7. PICK m \in Models : m = M(w)
  BY <1>1, Zenon
<1>8. OnlyOf(m)
  BY <1>1, <1>3, <1>4, <1>7, Zenon DEF OnlyOf, EntryShape
<1>9. Agree(m)'
  BY <1>3, <1>5, <1>7, Zenon DEF Agree, Matched, ReferencesMatch
<1> QED BY <1>2, <1>3, <1>6, <1>8, <1>9, OnlyOfIsMatched, Zenon

\* DeleteModelFromConfigMap refuses entries that are referenced or claimed.
LEMMA FinalIsMatched ==
  ASSUME Matched, Exclusive', NEW w \in Workers, TaskStep(w), Final(w)
  PROVE  Matched'
<1>1. M(w) \in Models /\ EntryShape
  BY AtWork, Zenon DEF Final
<1>2. Relies(w)'
  <2>1. Lands(w, {})
    BY Targets, Zenon
  <2>2. {} \in SUBSET Free
    BY Zenon DEF Free, Places
  <2> QED BY <2>1, <2>2, FreeIsEnough, Zenon
<1>3. UNCHANGED <<parent, links, cr>>
  BY Zenon DEF Final, files, Write, NoWrite
<1>4. \/ UNCHANGED entry
      \/ ~ entry[M(w)].ref /\ entry' = [entry EXCEPT ![M(w)] = NoEntry]
  BY Zenon DEF Final, Write, NoWrite
<1>5. PICK m \in Models : m = M(w)
  BY <1>1, Zenon
<1>6. /\ OnlyOf(m) /\ (entry'[m].ref <=> entry[m].ref)
      /\ entry'[m].intent => entry[m].intent
      /\ entry'[m].receipt.held => entry[m].receipt.held
  <2>1. CASE UNCHANGED entry
    BY <1>1, <1>3, <1>5, <2>1, Zenon DEF OnlyOf, EntryShape
  <2>2. CASE ~ entry[M(w)].ref /\ entry' = [entry EXCEPT ![M(w)] = NoEntry]
    <3>1. entry'[m] = NoEntry /\ \A n \in Models \ {m} : entry'[n] = entry[n]
      BY <1>1, <1>5, <2>2, Zenon DEF EntryShape
    <3>2. NoEntry.ref = FALSE /\ NoEntry.intent = FALSE /\ NoEntry.receipt.held = FALSE
      BY Zenon DEF NoEntry, NoReceipt
    <3>3. EntryShape'
      BY <1>1, <2>2, EntriesKeepShape, ZenonT(30)
    <3> QED BY <1>3, <1>5, <2>2, <3>1, <3>2, <3>3, Zenon DEF OnlyOf
  <2> QED BY <1>4, <2>1, <2>2, Zenon
<1>7. Agree(m)'
  BY <1>3, <1>6, Zenon DEF Agree, Matched, ReferencesMatch
<1>8. Tame
  BY <1>3, <1>6, Zenon DEF Tame, OnlyOf
<1> QED BY <1>2, <1>3, <1>6, <1>7, <1>8, OnlyOfIsMatched, Zenon

\* rememberDownload: downloads are admitted without a receipt.
LEMMA AdmitIsMatched ==
  ASSUME Matched, Exclusive', NEW w \in Workers, TaskStep(w), Admit(w)
  PROVE  Matched'
<1>1. M(w) \in Models /\ EntryShape /\ Relies(w) /\ pc[w] = "admit" /\ flock = w
  BY AtWork, Zenon DEF Admit, Inside
<1>2. Relies(w)'
  <2>1. Lands(w, {"acquire", "attach", "ready", "relabel"})
    BY Targets, Zenon
  <2>2. {"acquire", "attach", "ready", "relabel"} \in SUBSET Free
    BY ZenonT(30) DEF Free, Places
  <2> QED BY <2>1, <2>2, FreeIsEnough, Zenon
<1>3. UNCHANGED <<parent, links, cr>>
  BY Zenon DEF Admit, files, Write, NoWrite
<1>4. UNCHANGED entry \/ entry' = rememberDownload(entry, M(w))
  BY Zenon DEF Admit, Write, NoWrite
<1>5. PICK m \in Models : m = M(w)
  BY <1>1, Zenon
<1>6. CASE UNCHANGED entry
  BY <1>1, <1>2, <1>3, <1>6, SteadyIsMatched, Zenon DEF Steady, EntryShape
<1>7. CASE entry' = rememberDownload(entry, M(w))
  <2>1. /\ OnlyOf(m) /\ entry'[m].ref = entry[m].ref /\ entry'[m].intent = ~ entry[m].ref
        /\ entry'[m].receipt = entry[m].receipt
    BY <1>1, <1>3, <1>5, <1>7, Zenon DEF OnlyOf, EntryShape, rememberDownload
  <2>2. ~ entry[m].receipt.held
    BY <1>1, <1>5, Zenon DEF Relies
  <2>3. Agree(m)'
    BY <1>3, <2>1, <2>2, ZenonT(30) DEF Agree, Matched, ReferencesMatch
  <2> QED BY <1>1, <1>2, <1>3, <2>1, <2>3, OnlyOfIsMatched, Zenon
<1> QED BY <1>4, <1>6, <1>7, Zenon

\* attachChildToReadyParent makes the link first.
LEMMA AttachLinkIsMatched ==
  ASSUME Matched, Exclusive', NEW w \in Workers, TaskStep(w), AttachLink(w)
  PROVE  Matched'
<1>1. M(w) \in Models /\ EntryShape /\ Shape /\ pc[w] = "attach" /\ flock = w
  BY AtWork, Zenon DEF AttachLink, Inside
<1>2. UNCHANGED <<parent, entry, cr>>
  BY Zenon DEF AttachLink
<1>3. \/ (End(w, "retry") \/ End(w, "error")) /\ UNCHANGED links
      \/ Go(w, "addref") /\ links' = links \cup {M(w)}
  BY Zenon DEF AttachLink
<1>4. PICK m \in Models : m = M(w)
  BY <1>1, Zenon
<1>5. OnlyOf(m)
  BY <1>1, <1>2, <1>3, <1>4, Zenon DEF OnlyOf, EntryShape
<1>6. Agree(m)'
  BY <1>2, <1>3, Zenon DEF Agree, Matched, ReferencesMatch
<1>7. Relies(w)'
  <2>1. CASE End(w, "retry") \/ End(w, "error")
    <3>1. Lands(w, {})
      BY <2>1, Zenon DEF Lands, End
    <3> QED BY <3>1, FreeIsEnough, Zenon
  <2>2. CASE Go(w, "addref") /\ links' = links \cup {M(w)}
    BY <1>1, <2>2, Zenon DEF Go, Goto, Shape, Relies, M
  <2> QED BY <1>3, <2>1, <2>2, Zenon
<1> QED BY <1>1, <1>2, <1>5, <1>6, <1>7, OnlyOfIsMatched, Zenon

\* AddModelReference adds both sides of a reference whose link was made.
LEMMA AttachReferenceIsMatched ==
  ASSUME Matched, Exclusive', NEW w \in Workers, TaskStep(w), AttachReference(w)
  PROVE  Matched'
<1>1. /\ M(w) \in Models /\ EntryShape /\ Shape /\ Relies(w) /\ pc[w] = "addref" /\ flock = w
  BY AtWork, Zenon DEF AttachReference, Inside
<1>2. UNCHANGED <<links, cr>> /\ \E result : End(w, result)
  BY Zenon DEF AttachReference, files, Write, NoWrite
<1>3. Relies(w)'
  <2>1. pc'[w] \in Out
    BY <1>1, <1>2, EndIsLeave, LeaveIsOut, Zenon DEF Left, Shape
  <2> QED BY <2>1, Zenon DEF Relies, Out
<1>4. \/ UNCHANGED <<parent, entry>>
      \/ /\ CanAddReference(parent, entry, M(w))
         /\ parent' = addToParent(parent, M(w)) /\ entry' = addToModel(entry, M(w))
  BY Zenon DEF AttachReference, Write, NoWrite
<1>5. PICK m \in Models : m = M(w)
  BY <1>1, Zenon
<1>6. CASE UNCHANGED <<parent, entry>>
  BY <1>1, <1>2, <1>3, <1>6, SteadyIsMatched, Zenon DEF Steady, EntryShape
<1>7. CASE /\ CanAddReference(parent, entry, M(w))
           /\ parent' = addToParent(parent, M(w)) /\ entry' = addToModel(entry, M(w))
  <2>1. parent'.children = parent.children \cup {m}
    BY <1>1, <1>5, <1>7, Zenon DEF addToParent, Shape, Fields
  <2>2. /\ \A n \in Models \ {m} : entry'[n] = entry[n]
        /\ entry'[m].ref = TRUE /\ entry'[m].intent = FALSE
        /\ entry'[m].receipt = entry[m].receipt
    BY <1>1, <1>5, <1>7, Zenon DEF EntryShape, addToModel
  <2>3. EntryShape'
    BY <1>1, <1>7, InsideEntriesKeepShape, Zenon
  <2>4. OnlyOf(m)
    BY <1>2, <2>1, <2>2, <2>3, Zenon DEF OnlyOf
  <2>5. ~ entry[m].receipt.held /\ m \in links
    BY <1>1, <1>5, <1>7, Zenon DEF CanAddReference, Relies
  <2>6. Agree(m)'
    BY <1>2, <2>1, <2>2, <2>5, Zenon DEF Agree
  <2> QED BY <1>1, <1>2, <1>3, <2>4, <2>6, OnlyOfIsMatched, Zenon
<1> QED BY <1>4, <1>6, <1>7, Zenon

\* removeUnreferencedChildSymlink.
LEMMA DetachUnreferencedIsMatched ==
  ASSUME Matched, Exclusive', NEW w \in Workers, TaskStep(w), DetachUnreferenced(w)
  PROVE  Matched'
<1>1. M(w) \in Models /\ EntryShape /\ Shape /\ pc[w] = "detach" /\ flock = w
  BY AtWork, Zenon DEF DetachUnreferenced, Inside
<1>2. UNCHANGED <<parent, entry, cr>> /\ ~ entry[M(w)].ref
  BY Zenon DEF DetachUnreferenced
<1>3. (UNCHANGED links \/ links' = links \ {M(w)}) /\ \E result : End(w, result)
  BY Zenon DEF DetachUnreferenced
<1>4. Relies(w)'
  <2>1. pc'[w] \in Out
    BY <1>1, <1>3, EndIsLeave, LeaveIsOut, ZenonT(30) DEF Left, Shape
  <2> QED BY <2>1, Zenon DEF Relies, Out
<1>5. PICK m \in Models : m = M(w)
  BY <1>1, Zenon
<1>6. OnlyOf(m)
  BY <1>1, <1>2, <1>3, <1>5, Zenon DEF OnlyOf, EntryShape
<1>7. Agree(m)'
  BY <1>2, <1>5, Zenon DEF Agree, Matched, ReferencesMatch
<1> QED BY <1>1, <1>2, <1>4, <1>6, <1>7, OnlyOfIsMatched, Zenon

\* removeModelReference takes both sides of the reference and leaves a receipt.
LEMMA DetachReferenceIsMatched ==
  ASSUME Matched, Exclusive', NEW w \in Workers, TaskStep(w), DetachReference(w)
  PROVE  Matched'
<1>1. M(w) \in Models /\ EntryShape /\ Shape /\ pc[w] = "detach" /\ flock = w
  BY AtWork, Zenon DEF DetachReference, Inside
<1>2. UNCHANGED <<links, cr>> /\ entry[M(w)].ref
  BY Zenon DEF DetachReference, files
<1>3. Relies(w)'
  <2>1. Lands(w, {"claim", "unclaim", "receipt"})
    BY Targets, Zenon
  <2>2. {"claim", "unclaim", "receipt"} \in SUBSET Free
    BY ZenonT(30) DEF Free, Places
  <2> QED BY <2>1, <2>2, FreeIsEnough, Zenon
<1>4. \/ UNCHANGED <<parent, entry>>
      \/ \E l : /\ parent' = removeFromParent(parent, M(w), l)
                /\ entry' = removeFromModel(parent, entry, M(w), l)
  BY Zenon DEF DetachReference, Write
<1>5. PICK m \in Models : m = M(w)
  BY <1>1, Zenon
<1>6. CASE UNCHANGED <<parent, entry>>
  BY <1>1, <1>2, <1>3, <1>6, SteadyIsMatched, Zenon DEF Steady, EntryShape
<1>7. ASSUME NEW l, parent' = removeFromParent(parent, M(w), l),
             entry' = removeFromModel(parent, entry, M(w), l)
      PROVE  Matched'
  <2>1. parent'.children = parent.children \ {m}
    BY <1>1, <1>5, <1>7, Zenon DEF removeFromParent, tryAcquireLock, Shape, Fields
  <2>2. /\ \A n \in Models \ {m} : entry'[n] = entry[n]
        /\ entry'[m].ref = FALSE /\ entry'[m].intent = entry[m].intent
    BY <1>1, <1>5, <1>7, Zenon DEF EntryShape, removeFromModel
  <2>3. EntryShape'
    BY <1>1, <1>7, InsideEntriesKeepShape, Zenon
  <2>4. OnlyOf(m)
    BY <1>2, <2>1, <2>2, <2>3, Zenon DEF OnlyOf
  <2>5. ~ entry[m].intent
    BY <1>2, <1>5, Zenon DEF Matched, ReferencesMatch
  <2>6. Agree(m)'
    BY <2>1, <2>2, <2>5, Zenon DEF Agree
  <2> QED BY <1>1, <1>2, <1>3, <2>4, <2>6, OnlyOfIsMatched, Zenon
<1> QED BY <1>4, <1>6, <1>7, Zenon

\* deletionParent goes on with a receipt, which has no reference beside it.
LEMMA ClaimIsMatched ==
  ASSUME Matched, Exclusive', NEW w \in Workers, TaskStep(w), Claim(w)
  PROVE  Matched'
<1>1. M(w) \in Models /\ EntryShape /\ Shape /\ pc[w] = "claim" /\ flock = w
  BY AtWork, ZenonT(30) DEF Claim, Inside
<1>2. UNCHANGED <<links, cr>>
  BY Zenon DEF Claim, files
<1>3. \/ UNCHANGED <<parent, entry>>
      \/ \E l : /\ parent' = tryAcquireLock(parent, l)
                /\ entry' = claimDeletion(parent, entry, M(w), l)
  BY Zenon DEF Claim, Write, NoWrite
<1>4. \/ End(w, "retry")
      \/ entry[M(w)].receipt.held /\ Goto(w, "unlink") /\ op'[w].model = M(w)
  <2>1. CASE ~ entry[M(w)].receipt.held
    BY <2>1, Zenon DEF Claim, NoWrite
  <2>2. CASE entry[M(w)].receipt.held
    <3>1. End(w, "retry") \/ Goto(w, "unlink")
      BY <2>2, ZenonT(30) DEF Claim, Write, NoWrite, Go, Own
    <3>2. Goto(w, "unlink") => pc'[w] # "idle"
      BY <1>1, Zenon DEF Goto, Shape
    <3> QED BY <2>2, <3>1, <3>2, Zenon DEF TaskStep
  <2> QED BY <2>1, <2>2, Zenon
<1>5. PICK m \in Models : m = M(w)
  BY <1>1, Zenon
<1>6. /\ OnlyOf(m) /\ parent'.children = parent.children
      /\ entry'[m].ref = entry[m].ref /\ entry'[m].intent = entry[m].intent
      /\ UNCHANGED entry \/ \E l : entry' = claimDeletion(parent, entry, M(w), l)
  <2>1. CASE UNCHANGED <<parent, entry>>
    BY <1>1, <1>2, <2>1, Zenon DEF OnlyOf, EntryShape
  <2>2. ASSUME NEW l, parent' = tryAcquireLock(parent, l),
               entry' = claimDeletion(parent, entry, M(w), l)
        PROVE  /\ OnlyOf(m) /\ parent'.children = parent.children
               /\ entry'[m].ref = entry[m].ref /\ entry'[m].intent = entry[m].intent
    <3>1. EntryShape'
      BY <1>1, <2>2, InsideEntriesKeepShape, Zenon
    <3>2. parent'.children = parent.children
      BY <1>1, <2>2, Zenon DEF tryAcquireLock, Shape, Fields
    <3>3. /\ \A n \in Models \ {m} : entry'[n] = entry[n]
          /\ entry'[m].ref = entry[m].ref /\ entry'[m].intent = entry[m].intent
      BY <1>1, <1>5, <2>2, Zenon DEF EntryShape, claimDeletion
    <3> QED BY <1>2, <3>1, <3>2, <3>3, Zenon DEF OnlyOf
  <2> QED BY <1>3, <2>1, <2>2, Zenon
<1>7. CASE End(w, "retry")
  <2>1. Lands(w, {})
    BY <1>7, Zenon DEF Lands, End
  <2>2. Relies(w)'
    BY <2>1, FreeIsEnough, Zenon
  <2>3. CASE UNCHANGED entry
    BY <1>2, <1>6, <2>2, <2>3, SteadyIsMatched, ZenonT(30) DEF Steady, OnlyOf
  <2>4. CASE ~ entry[m].intent /\ ~ entry[m].ref
    <3>1. Agree(m)'
      BY <1>2, <1>6, <2>4, Zenon DEF Agree, Matched, ReferencesMatch
    <3> QED BY <1>1, <1>2, <1>6, <2>2, <3>1, OnlyOfIsMatched, Zenon
  <2>5. UNCHANGED entry \/ entry[m].receipt.held
    BY <1>5, Zenon DEF Claim, NoWrite
  <2> QED BY <2>3, <2>4, <2>5, ZenonT(30) DEF Matched, ReferencesMatch
<1>8. CASE entry[M(w)].receipt.held /\ Goto(w, "unlink") /\ op'[w].model = M(w)
  <2>1. ~ entry[m].intent /\ ~ entry[m].ref
    BY <1>5, <1>8, Zenon DEF Matched, ReferencesMatch
  <2>2. pc'[w] = "unlink" /\ M(w)' = m
    BY <1>1, <1>5, <1>8, Zenon DEF Goto, Shape, M
  <2>3. Relies(w)'
    BY <1>6, <2>1, <2>2, Zenon DEF Relies
  <2>4. Agree(m)'
    BY <1>2, <1>6, <2>1, Zenon DEF Agree, Matched, ReferencesMatch
  <2> QED BY <1>1, <1>2, <1>6, <2>3, <2>4, OnlyOfIsMatched, Zenon
<1> QED BY <1>4, <1>7, <1>8, Zenon

\* The link goes after the reference.
LEMMA UnlinkIsMatched ==
  ASSUME Matched, Exclusive', NEW w \in Workers, TaskStep(w), Unlink(w)
  PROVE  Matched'
<1>1. M(w) \in Models /\ EntryShape /\ Relies(w) /\ pc[w] = "unlink" /\ flock = w
  BY AtWork, Zenon DEF Unlink, Inside
<1>2. UNCHANGED <<parent, entry, cr>>
  BY Zenon DEF Unlink
<1>3. UNCHANGED links \/ links' = links \ {M(w)}
  BY Zenon DEF Unlink
<1>4. Relies(w)'
  <2>1. Lands(w, {"receipt", "unclaim", "remove"})
    BY Targets, Zenon
  <2>2. {"receipt", "unclaim", "remove"} \in SUBSET Free
    BY ZenonT(30) DEF Free, Places
  <2> QED BY <2>1, <2>2, FreeIsEnough, Zenon
<1>5. PICK m \in Models : m = M(w)
  BY <1>1, Zenon
<1>6. OnlyOf(m)
  BY <1>1, <1>2, <1>3, <1>5, Zenon DEF OnlyOf, EntryShape
<1>7. ~ entry[m].ref
  BY <1>1, <1>5, Zenon DEF Relies
<1>8. Agree(m)'
  BY <1>2, <1>7, Zenon DEF Agree, Matched, ReferencesMatch
<1> QED BY <1>1, <1>2, <1>4, <1>6, <1>8, OnlyOfIsMatched, Zenon

\* DeleteIfUnreferenced.
LEMMA ForgetIsMatched ==
  ASSUME Matched, Exclusive', NEW w \in Workers, TaskStep(w), Forget(w)
  PROVE  Matched'
<1>1. M(w) \in Models /\ EntryShape
  BY AtWork, Zenon DEF Forget
<1>2. UNCHANGED <<entry, links, cr>>
  BY Zenon DEF Forget, files, Write, NoWrite
<1>3. UNCHANGED parent \/ (CanDelete(parent, own[w]) /\ parent' = NoParent)
  BY Zenon DEF Forget, Write, NoWrite
<1>4. Relies(w)'
  <2>1. Lands(w, {"receipt"})
    BY Targets, Zenon
  <2>2. {"receipt"} \in SUBSET Free
    BY ZenonT(30) DEF Free, Places
  <2> QED BY <2>1, <2>2, FreeIsEnough, Zenon
<1>5. parent'.children = parent.children
  BY <1>3 DEF CanDelete, NoParent
<1>6. Steady
  BY <1>1, <1>2, <1>5, ZenonT(30) DEF Steady, EntryShape
<1> QED BY <1>2, <1>4, <1>6, SteadyIsMatched, Zenon

\* finishPendingDeletion.
LEMMA FinishReceiptIsMatched ==
  ASSUME Matched, Exclusive', NEW w \in Workers, TaskStep(w), FinishReceipt(w)
  PROVE  Matched'
<1>1. M(w) \in Models /\ EntryShape /\ Shape /\ pc[w] = "receipt" /\ flock = w
  BY AtWork, Zenon DEF FinishReceipt, Inside
<1>2. UNCHANGED <<parent, links, cr>> /\ \E result : End(w, result)
  BY Zenon DEF FinishReceipt, files, Write, NoWrite
<1>3. Relies(w)'
  <2>1. pc'[w] \in Out
    BY <1>1, <1>2, EndIsLeave, LeaveIsOut, Zenon DEF Left, Shape
  <2> QED BY <2>1, Zenon DEF Relies, Out
<1>4. UNCHANGED entry \/ entry' = finishPendingDeletion(entry, M(w))
  BY Zenon DEF FinishReceipt, Write, NoWrite
<1>5. PICK m \in Models : m = M(w)
  BY <1>1, Zenon
<1>6. CASE UNCHANGED entry
  BY <1>1, <1>2, <1>3, <1>6, SteadyIsMatched, Zenon DEF Steady, EntryShape
<1>7. CASE entry' = finishPendingDeletion(entry, M(w))
  <2>1. /\ \A n \in Models \ {m} : entry'[n] = entry[n]
        /\ entry'[m].ref = entry[m].ref /\ entry'[m].intent = entry[m].intent
        /\ entry'[m].receipt = NoReceipt
    BY <1>1, <1>5, <1>7, Zenon DEF EntryShape, finishPendingDeletion
  <2>2. EntryShape'
    BY <1>1, <1>7, EntriesKeepShape, Zenon
  <2>3. OnlyOf(m)
    BY <1>2, <2>1, <2>2, Zenon DEF OnlyOf
  <2>4. ~ NoReceipt.held
    BY Zenon DEF NoReceipt
  <2>5. Agree(m)'
    BY <1>2, <2>1, <2>4, Zenon DEF Agree, Matched, ReferencesMatch
  <2> QED BY <1>1, <1>2, <1>3, <2>3, <2>5, OnlyOfIsMatched, Zenon
<1> QED BY <1>4, <1>6, <1>7, Zenon

\* A task starts: it knows nothing yet, and writes no more than a status.
LEMMA StartIsMatched ==
  ASSUME Matched, Exclusive', NEW w \in Workers, NEW k \in Kinds, NEW m \in Models, Start(w, k, m)
  PROVE  Matched'
<1>1. Shape /\ EntryShape /\ DOMAIN parent = Fields
  BY Zenon DEF Matched, Exclusive, Shape
<1>2. /\ UNCHANGED <<parent, links, flock, own, cr>>
      /\ op' = [op EXCEPT ![w] = [Idle EXCEPT !.kind = k, !.model = m]]
      /\ Asked(k, m)
  BY Zenon DEF Start, files
<1>3. UNCHANGED entry \/ \E status : entry' = WithStatus(m, status)
  BY Zenon DEF Start, Publish
<1>4. pc' = [pc EXCEPT ![w] = pc'[w]] /\ pc'[w] \in {"cleanup", "final"}
  BY <1>1, Zenon DEF Start, Goto, Shape
<1>5. Alone(w)
  BY <1>1, <1>2, <1>4, Zenon DEF Alone, Shape
<1>6. PICK o : o = [Idle EXCEPT !.kind = k, !.model = m]
  BY Zenon
<1>7. DOMAIN o = OpFields /\ o.kind = k /\ o.model = m /\ o.aim = "none"
  BY <1>6, Zenon DEF Idle, OpFields
<1>8. op'[w] = o
  BY <1>1, <1>2, <1>6, Zenon DEF Shape
<1>9. k = "Delete" => cr[m] = "deleting"
  BY <1>2, Zenon DEF Asked
<1>10. Task(w)' /\ Relies(w)'
  BY <1>2, <1>4, <1>7, <1>8, <1>9, Zenon DEF Task, Fitting, Relies
<1>11. Steady
  BY <1>1, <1>2, <1>3, StatusIsSteady, Zenon
<1>12. ReferencesMatch' /\ Tame /\ EntryShape'
  BY <1>2, <1>11, Zenon DEF Steady, Matched, ReferencesMatch, Tame
<1> QED BY <1>2, <1>5, <1>10, <1>12, MatchedStep, Zenon

\* Resources only go, processes die, and the ConfigMap is lost with all that it says.
LEMMA EnvironmentIsMatched ==
  ASSUME Matched, Exclusive', EntryShape',
         \/ \E m \in Models : ResourceChange(m)
         \/ \E a \in Agents : Crash(a)
         \/ LoseConfigMap \/ Rot \/ UNCHANGED vars
  PROVE  Matched'
<1>1. CASE Rot \/ UNCHANGED vars
  <2>1. UNCHANGED <<parent, entry, links, pc, op, cr>>
    BY <1>1, Zenon DEF Rot, vars, files, local
  <2> QED BY <2>1, Zenon DEF Matched, Exclusive, Tasks, Task, Fitting, ReferencesMatch, Relies, M
<1>2. ASSUME NEW m \in Models, ResourceChange(m)
      PROVE  Matched'
  <2>1. UNCHANGED <<parent, entry, links, pc, op>>
    BY <1>2, Zenon DEF ResourceChange, files
  <2>2. /\ DOMAIN cr' = Models
        /\ \A n \in Models : cr[n] = "deleting" => cr'[n] = "deleting"
    BY <1>2, Zenon DEF ResourceChange, Matched
  <2>3. \A w \in Workers : Task(w)' /\ Relies(w)'
    <3> SUFFICES ASSUME NEW w \in Workers
                 PROVE  Task(w)' /\ Relies(w)'
      BY Zenon
    <3>1. Task(w) /\ Relies(w)
      BY Zenon DEF Matched, Tasks
    <3>2. op[w].kind = "Delete" => op[w].model \in Models
      <4>1. CASE pc[w] = "idle"
        <5>1. op[w] = Idle
          BY <3>1, <4>1, Zenon DEF Task, Fitting
        <5> QED BY <5>1, IdleFields, Zenon
      <4>2. CASE pc[w] # "idle"
        BY <3>1, <4>2, Zenon DEF Task, Fitting
      <4> QED BY <4>1, <4>2, Zenon
    <3> QED BY <2>1, <2>2, <3>1, <3>2, ZenonT(30) DEF Task, Fitting, Relies, M
  <2>4. ReferencesMatch'
    BY <2>1, <2>2, ZenonT(30) DEF Matched, ReferencesMatch
  <2> QED BY <2>2, <2>3, <2>4, ZenonT(30) DEF Matched, Tasks, Exclusive
<1>3. ASSUME NEW as, Die(as)
      PROVE  /\ UNCHANGED <<links, cr>>
             /\ \A w \in Workers : Task(w)'
             /\ \A w \in Workers : \/ pc'[w] = "idle" /\ home[w] \in as
                                   \/ pc'[w] = pc[w] /\ op'[w] = op[w] /\ home[w] \notin as
  <2>1. UNCHANGED <<links, cr>>
    BY <1>3, Zenon DEF Die, files
  <2>2. ASSUME NEW w \in Workers
        PROVE  /\ Task(w)'
               /\ \/ pc'[w] = "idle" /\ home[w] \in as
                  \/ pc'[w] = pc[w] /\ op'[w] = op[w] /\ home[w] \notin as
    <3>1. CASE home[w] \in as
      <4>1. pc'[w] = "idle" /\ op'[w] = Idle
        BY <1>3, <3>1, Zenon DEF Die
      <4>2. Task(w)'
        BY <4>1, IdleFields, Zenon DEF Task, Fitting
      <4> QED BY <3>1, <4>1, <4>2, ZenonT(30)
    <3>2. CASE home[w] \notin as
      <4>1. pc'[w] = pc[w] /\ op'[w] = op[w]
        BY <1>3, <3>2, Zenon DEF Die
      <4>2. Task(w)'
        BY <2>1, <4>1, Zenon DEF Task, Fitting, Matched, Tasks
      <4> QED BY <3>2, <4>1, <4>2, ZenonT(30)
    <3> QED BY <3>1, <3>2, ZenonT(30)
  <2> QED BY <2>1, <2>2, ZenonT(30)
<1>4. ASSUME NEW a \in Agents, Crash(a)
      PROVE  Matched'
  <2>1. Die({a}) /\ UNCHANGED <<parent, entry>>
    BY <1>4, Zenon DEF Crash
  <2>2. ReferencesMatch'
    BY <1>3, <2>1, ZenonT(30) DEF Matched, ReferencesMatch
  <2>3. ASSUME NEW w \in Workers PROVE Relies(w)'
    <3>1. CASE pc'[w] = "idle"
      BY <3>1, Zenon DEF Relies
    <3>2. CASE pc'[w] = pc[w] /\ op'[w] = op[w]
      <4>1. Relies(w) /\ UNCHANGED <<entry, links>>
        BY <1>3, <2>1, Zenon DEF Matched
      <4> QED BY <3>2, <4>1, ZenonT(30) DEF Relies, M
    <3> QED BY <1>3, <2>1, <3>1, <3>2, ZenonT(30)
  <2> QED BY <1>3, <2>1, <2>2, <2>3, ZenonT(30) DEF Matched, Tasks, Exclusive
<1>5. CASE LoseConfigMap
  <2>1. Die(Agents) /\ parent' = NoParent /\ entry' = [m \in Models |-> NoEntry]
    BY <1>5, Zenon DEF LoseConfigMap
  <2>2. \A w \in Workers : Task(w)' /\ pc'[w] = "idle"
    BY <1>3, <2>1, ZenonT(30) DEF Matched, Exclusive, Shape
  <2>3. ReferencesMatch'
    BY <2>1, Zenon DEF ReferencesMatch, NoParent, NoEntry, NoReceipt
  <2>4. \A w \in Workers : Relies(w)'
    BY <2>2, Zenon DEF Relies
  <2> QED BY <1>3, <2>1, <2>2, <2>3, <2>4, ZenonT(30) DEF Matched, Tasks, Exclusive
<1> QED BY <1>1, <1>2, <1>4, <1>5, Zenon

\* Every step, and every fault, keeps the records matched.
LEMMA MatchedNext ==
  ASSUME Matched, Removal, [Next]_vars
  PROVE  Matched'
<1>1. Exclusive' /\ EntryShape'
  BY RemovalStep, Zenon DEF Removal
<1>2. ASSUME NEW w \in Workers, Step(w)
      PROVE  Matched'
  <2>1. TaskStep(w)
    BY <1>2, StepKeepsTask, Zenon DEF Matched
  <2>2. CASE Looks(w) \/ SetsStatus(w)
    BY <1>1, <2>1, <2>2, MostStepsAreSteady, MostStepsRely, SteadyIsMatched, Zenon
  <2>3. \/ Looks(w) \/ SetsStatus(w)
        \/ CleanupIntent(w) \/ DeleteOrdinary(w) \/ Final(w) \/ Admit(w) \/ AttachLink(w)
        \/ AttachReference(w) \/ DetachUnreferenced(w) \/ DetachReference(w) \/ Claim(w)
        \/ Unlink(w) \/ Forget(w) \/ FinishReceipt(w)
    BY <1>2, Zenon DEF Step, DownloadStep, DeleteStep, Looks, SetsStatus
  <2> QED BY <1>1, <2>1, <2>2, <2>3, CleanupIntentIsMatched, DeleteOrdinaryIsMatched,
             FinalIsMatched, AdmitIsMatched, AttachLinkIsMatched, AttachReferenceIsMatched,
             DetachUnreferencedIsMatched, DetachReferenceIsMatched, ClaimIsMatched,
             UnlinkIsMatched, ForgetIsMatched, FinishReceiptIsMatched, Zenon
<1> QED BY <1>1, <1>2, StartIsMatched, EnvironmentIsMatched, Zenon DEF Next

\* Nothing has been stored yet.
LEMMA MatchedAtFirst ==
  ASSUME Init
  PROVE  Matched
<1>1. Exclusive /\ EntryShape
  BY RemovalAtFirst, Zenon DEF Removal
<1>2. \A w \in Workers : Task(w) /\ Relies(w)
  BY ZenonT(30) DEF Init, Task, Fitting, Relies, Idle, OpFields
<1>3. ReferencesMatch
  BY Zenon DEF Init, ReferencesMatch, NoParent, NoEntry, NoReceipt
<1>4. DOMAIN cr = Models
  BY Zenon DEF Init
<1> QED BY <1>1, <1>2, <1>3, <1>4, Zenon DEF Matched, Tasks, Exclusive

\* Both directions of a reference are stored or neither is, a referenced model has its
\* link, and no model has two of reference, intent and receipt, whatever the workers of
\* any number of processes do, and whatever crashes, is lost or fails in between.
THEOREM ReferencesMatchHolds == Spec => []ReferencesMatch
<1>1. Init => Removal /\ Matched
  BY RemovalAtFirst, MatchedAtFirst, Zenon
<1>2. Removal /\ Matched /\ [Next]_vars => Removal' /\ Matched'
  BY RemovalStep, MatchedNext, Zenon
<1>3. Matched => ReferencesMatch
  BY Zenon DEF Matched
<1> QED BY <1>1, <1>2, <1>3, PTL DEF Spec
=============================================================================
