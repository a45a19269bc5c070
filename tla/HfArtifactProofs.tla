-------------------------- MODULE HfArtifactProofs --------------------------
(***************************************************************************)
(* Whoever changes the files of a shared artifact is its only owner, for   *)
(* any models, workers, processes, locks and faults; the files are removed *)
(* only when nobody uses them; and the variables keep their types.         *)
(***************************************************************************)
EXTENDS HfArtifact, TLAPS

\* The places of a worker that has the parent's file lock, those where it may
\* still have a lock ID, and those where a handler has returned.
Inside ==
  Writing \cup { "settle", "admit", "acquire", "relabel", "ready", "attach", "addref",
                 "detach", "claim", "unlink", "receipt" }

Holding == Writing \cup { "relabel", "ready", "attach", "addref", "unlink" }

Out == { "idle", "final", "cleanup", "publish", "failed" }

\* The workers' variables are functions, and the parent is a record.
Fields == { "status", "lock", "last", "children", "saved" }

Shape ==
  /\ DOMAIN parent = Fields
  /\ DOMAIN pc = Workers /\ DOMAIN op = Workers /\ DOMAIN own = Workers
  /\ home \in [Workers -> Agents]

\* The fields of a task.
OpFields == { "kind", "model", "aim", "once", "checked", "keep", "to" }

\* A step of w leaves the other workers where they are.
Alone(w) ==
  /\ DOMAIN op' = Workers
  /\ \A v \in Workers \ {w} : pc'[v] = pc[v] /\ own'[v] = own[v] /\ op'[v] = op[v]

Owns(w) ==
  /\ pc[w] \in Inside => flock = w
  /\ pc[w] \in Writing => OwnedBy(parent, own[w])
  /\ pc[w] = "unlink" => own[w] = None \/ OwnedBy(parent, own[w])
  /\ pc[w] \notin Holding => own[w] = None

\* The inductive invariant behind WriterOwnsParent.
Exclusive == Shape /\ \A w \in Workers : Owns(w)

\* A worker without a task has a record of a task's fields, that names no task.
LEMMA IdleFields ==
  DOMAIN Idle = OpFields /\ ~ Idle.keep /\ Idle.kind = "none" /\ Idle.aim = "none"
BY Zenon DEF Idle, OpFields

\* What a step of w may do to the others: it changes the parent, and takes the
\* file lock, only if nobody else has it.
Apart(w) ==
  /\ \A v \in Workers \ {w} : pc'[v] = pc[v] /\ own'[v] = own[v]
  /\ flock' # flock => flock \in {None, w}
  /\ parent' # parent => flock \in {None, w}

\* If a step of w keeps apart, it is enough to look at w.
LEMMA OthersKeepOwning ==
  ASSUME Exclusive, NEW w \in Workers, Apart(w), Shape', Owns(w)'
  PROVE  Exclusive'
<1>1. ASSUME NEW v \in Workers \ {w}
      PROVE  Owns(v)'
  <2>1. Owns(v) /\ pc'[v] = pc[v] /\ own'[v] = own[v]
    BY <1>1, Zenon DEF Exclusive, Apart
  <2>2. CASE pc[v] \in Inside
    <3>1. flock = v /\ v # None
      BY <2>1, <2>2, HfArtifactAssumption, Zenon DEF Owns
    <3>2. flock' = flock /\ parent' = parent
      BY <1>1, <3>1, Zenon DEF Apart
    <3> QED BY <2>1, <3>2, Zenon DEF Owns, OwnedBy
  <2>3. CASE pc[v] \notin Inside
    BY <2>1, <2>3, Zenon DEF Owns, Inside
  <2> QED BY <2>2, <2>3, Zenon
<1> QED BY <1>1, Zenon DEF Exclusive

Left(w) ==
  /\ \E l \in Out : pc' = [pc EXCEPT ![w] = l]
  /\ own' = [own EXCEPT ![w] = None]
  /\ flock' = IF flock = w THEN None ELSE flock
  /\ DOMAIN op' = DOMAIN op

\* A handler that returns releases the file lock and forgets its lock ID.
LEMMA LeaveIsOut ==
  ASSUME NEW w \in Workers, NEW result, NEW memory, Leave(w, result, memory)
  PROVE  Left(w)
<1>1. PICK l \in After(w, result) :
        /\ pc' = [pc EXCEPT ![w] = IF l \in {"idle", "queue"} THEN "idle" ELSE l]
        /\ own' = [own EXCEPT ![w] = None]
        /\ flock' = IF flock = w THEN None ELSE flock
        /\ DOMAIN op' = DOMAIN op
  BY Zenon DEF Leave, Goto
<1>2. After(w, result) \subseteq Out \cup {"queue"}
  BY Zenon DEF After, Requeued, GivesUp, Out
<1>3. (IF l \in {"idle", "queue"} THEN "idle" ELSE l) \in Out
  BY <1>2, Zenon DEF Out
<1> QED BY <1>1, <1>3, Zenon DEF Left

\* To leave is safe, if the parent only changed under the file lock.
LEMMA LeftIsOwning ==
  ASSUME Exclusive, NEW w \in Workers, Left(w), UNCHANGED home, DOMAIN parent' = Fields,
         parent' # parent => flock \in {None, w}
  PROVE  Exclusive'
<1>1. PICK l \in Out : pc' = [pc EXCEPT ![w] = l]
  BY Zenon DEF Left
<1>2. Shape'
  BY <1>1, Zenon DEF Exclusive, Shape, Left
<1>3. pc'[w] \in Out /\ own'[w] = None
  BY <1>1, Zenon DEF Exclusive, Shape, Left
<1>4. Out \cap Inside = {} /\ Out \cap Holding = {} /\ Writing \subseteq Inside /\ "unlink" \in Inside
  BY Zenon DEF Out, Inside, Holding, Writing
<1>5. Owns(w)'
  BY <1>3, <1>4, Zenon DEF Owns
<1>6. Apart(w)
  BY <1>1, Zenon DEF Apart, Left, Exclusive, Shape
<1> QED BY <1>2, <1>5, <1>6, OthersKeepOwning, Zenon

\* w goes to place l with lock ID x, and the file lock stays where it is.
Hop(w, l, x) ==
  /\ DOMAIN pc' = Workers /\ DOMAIN op' = Workers /\ DOMAIN own' = Workers
  /\ pc'[w] = l /\ own'[w] = x
  /\ \A v \in Workers \ {w} : pc'[v] = pc[v] /\ own'[v] = own[v]
  /\ flock' = flock

\* Go keeps the lock ID.
LEMMA GoHops ==
  ASSUME Shape, NEW w \in Workers, NEW l, Go(w, l)
  PROVE  Hop(w, l, own[w])
BY Zenon DEF Go, Goto, Hop, Shape

\* finishParentWithError keeps the lock ID until the lock is released.
LEMMA AbortHops ==
  ASSUME Shape, NEW w \in Workers, NEW status, Abort(w, status)
  PROVE  Hop(w, "abort", own[w])
BY Zenon DEF Abort, Goto, Hop, Shape

\* A deletion goes on under the lock ID that it owns.
LEMMA OwnHops ==
  ASSUME Shape, NEW w \in Workers, NEW l, NEW before, NEW next, Own(w, l, before, next)
  PROVE  Hop(w, next, l)
BY Zenon DEF Own, Goto, Hop, Shape

\* After the lock is released or the parent deleted, the lock ID is forgotten.
LEMMA DisownHops ==
  ASSUME Shape, NEW w \in Workers, NEW next, Disown(w, next)
  PROVE  Hop(w, next, None)
BY Zenon DEF Disown, Goto, Hop, Shape

\* A hop under the file lock.
LEMMA HopInside ==
  ASSUME Exclusive, NEW w \in Workers, pc[w] \in Inside, NEW l \in Inside, NEW x, Hop(w, l, x),
         UNCHANGED home, DOMAIN parent' = Fields,
         l \in Writing => OwnedBy(parent', x),
         l = "unlink" => x = None \/ OwnedBy(parent', x),
         l \notin Holding => x = None
  PROVE  Exclusive'
<1>1. flock = w
  BY Zenon DEF Exclusive, Owns
<1>2. Shape'
  BY Zenon DEF Exclusive, Shape, Hop
<1>3. Apart(w)
  BY <1>1, Zenon DEF Apart, Hop
<1>4. Owns(w)'
  BY <1>1, Zenon DEF Owns, Hop
<1> QED BY <1>2, <1>3, <1>4, OthersKeepOwning, Zenon

\* A hop of a worker without the file lock.
LEMMA HopOutside ==
  ASSUME Exclusive, NEW w \in Workers, pc[w] \notin Inside, NEW l, l \notin Inside,
         Hop(w, l, own[w]), UNCHANGED home, DOMAIN parent' = Fields,
         parent' # parent => flock = None
  PROVE  Exclusive'
<1>1. Shape'
  BY Zenon DEF Exclusive, Shape, Hop
<1>2. Apart(w)
  BY Zenon DEF Apart, Hop
<1>3. Writing \subseteq Inside /\ Holding \subseteq Inside /\ "unlink" \in Inside
  BY Zenon DEF Inside, Holding
<1>4. own[w] = None
  BY <1>3, Zenon DEF Exclusive, Owns
<1>5. Owns(w)'
  BY <1>3, <1>4, Zenon DEF Owns, Hop
<1> QED BY <1>1, <1>2, <1>5, OthersKeepOwning, Zenon

\* The changes of the parent keep it a record.
LEMMA ParentFields ==
  ASSUME DOMAIN parent = Fields
  PROVE  /\ \A l : DOMAIN tryAcquireLock(parent, l) = Fields
         /\ \A status : DOMAIN setParentStatus(parent, status) = Fields
         /\ \A e : DOMAIN saveChildStatuses(parent, e) = Fields
         /\ \A m : DOMAIN addToParent(parent, m) = Fields
         /\ \A m, l : DOMAIN removeFromParent(parent, m, l) = Fields
         /\ DOMAIN NoParent = Fields
<1>1. /\ \A l : DOMAIN tryAcquireLock(parent, l) = Fields
      /\ \A status : DOMAIN setParentStatus(parent, status) = Fields
      /\ \A e : DOMAIN saveChildStatuses(parent, e) = Fields
      /\ \A m : DOMAIN addToParent(parent, m) = Fields
  BY Zenon DEF tryAcquireLock, setParentStatus, saveChildStatuses, addToParent
<1>2. \A m, l : DOMAIN removeFromParent(parent, m, l) = Fields
  BY Zenon DEF removeFromParent, tryAcquireLock
<1>3. DOMAIN NoParent = Fields
  BY Zenon DEF NoParent, Fields
<1> QED BY <1>1, <1>2, <1>3, Zenon

\* Whoever acquires a lock owns the parent.
LEMMA AcquiredIsOwned ==
  ASSUME DOMAIN parent = Fields, NEW l \in FreshLocks
  PROVE  OwnedBy(tryAcquireLock(parent, l), l)
<1>1. l \in Locks
  BY Zenon DEF FreshLocks
<1>2. l # None
  BY <1>1, RepositoryAssumption, Zenon
<1> QED BY <1>2, Zenon DEF OwnedBy, tryAcquireLock, Fields

\* A writer that goes on writing, or has written the marker.
LEMMA WriterGoesOn ==
  ASSUME Exclusive, NEW w \in Workers, pc[w] \in Writing, UNCHANGED <<parent, home>>,
         NEW l \in Writing \cup {"relabel", "ready"}, Hop(w, l, own[w])
  PROVE  Exclusive'
<1>1. OwnedBy(parent', own[w]) /\ DOMAIN parent' = Fields
  BY Zenon DEF Exclusive, Owns, Shape
<1>2. pc[w] \in Inside /\ l \in Inside /\ l \in Holding /\ l # "unlink"
  BY Zenon DEF Inside, Holding, Writing
<1> QED BY <1>1, <1>2, HopInside, Zenon

\* A handler returns, and the parent is as before.
LEMMA LeaveIsSafe ==
  ASSUME Exclusive, NEW w \in Workers, NEW result, NEW memory, Leave(w, result, memory),
         UNCHANGED <<parent, home>>
  PROVE  Exclusive'
<1>1. DOMAIN parent' = Fields
  BY Zenon DEF Exclusive, Shape
<1> QED BY <1>1, LeaveIsOut, LeftIsOwning, Zenon

\* A handler returns under the file lock after a change of the parent.
LEMMA LeaveInside ==
  ASSUME Exclusive, NEW w \in Workers, pc[w] \in Inside, NEW result, NEW memory,
         Leave(w, result, memory), UNCHANGED home, DOMAIN parent' = Fields
  PROVE  Exclusive'
<1>1. flock = w
  BY Zenon DEF Exclusive, Owns
<1> QED BY <1>1, LeaveIsOut, LeftIsOwning, Zenon

\* The steps of a download that change files and labels.
LEMMA WritersStayOwners ==
  ASSUME Exclusive, NEW w \in Workers,
         \/ ResetBegins(w) \/ ResetEnds(w) \/ FetchBegins(w) \/ FetchEnds(w)
         \/ MarkBegins(w) \/ MarkEnds(w) \/ Validate(w) \/ FailLabels(w)
         \/ RemoveMarker(w) \/ RemoveBegins(w)
  PROVE  Exclusive'
<1>1. pc[w] \in Writing /\ UNCHANGED <<parent, home>>
  BY Zenon DEF ResetBegins, ResetEnds, FetchBegins, FetchEnds, MarkBegins, MarkEnds, Validate,
         FailLabels, RemoveMarker, RemoveBegins, Writing
<1>2. Shape
  BY Zenon DEF Exclusive
<1>3. (\E status : Abort(w, status)) => Exclusive'
  BY <1>1, <1>2, AbortHops, WriterGoesOn, Zenon DEF Writing
<1>4. (\E l \in Writing \cup {"relabel", "ready"} : Go(w, l)) => Exclusive'
  BY <1>1, <1>2, GoHops, WriterGoesOn, Zenon
<1>5. CASE Validate(w) /\ ~ Interrupted(w)
  <2>1. \E l \in Writing : Hop(w, l, own[w])
    BY <1>2, <1>5, Zenon DEF Validate, Goto, Hop, Shape, Writing
  <2> QED BY <1>1, <2>1, WriterGoesOn, Zenon
<1>6. Interrupted(w) => \E status : Abort(w, status)
  BY Zenon DEF Interrupted
<1>7. (\E status : Abort(w, status)) \/ (\E l \in Writing \cup {"relabel", "ready"} : Go(w, l))
      \/ Validate(w)
  BY <1>6, Zenon DEF ResetBegins, ResetEnds, FetchBegins, FetchEnds, MarkBegins, MarkEnds, Finish,
         FailLabels, RemoveMarker, RemoveBegins, Writing
<1> QED BY <1>3, <1>4, <1>5, <1>6, <1>7, Zenon

\* Every return of a handler releases the file lock.
LEMMA EndIsLeave ==
  ASSUME NEW w
  PROVE  /\ \A result : End(w, result) => \E memory : Leave(w, result, memory)
         /\ \A result, l, status : EndOwing(w, result, l, status) => \E memory : Leave(w, result, memory)
BY Zenon DEF End, EndOwing

\* The steps that only look, or touch the link and the labels.
LEMMA ReadersAreSafe ==
  ASSUME Exclusive, NEW w \in Workers,
         \/ markModelOnNodeFailed(w) \/ DetachUnreferenced(w)
         \/ MarkParentReadyLabels(w) \/ AttachLink(w) \/ RemoveEnds(w)
  PROVE  Exclusive'
<1>1. UNCHANGED <<parent, home>> /\ DOMAIN parent' = Fields
  BY Zenon DEF markModelOnNodeFailed, DetachUnreferenced, MarkParentReadyLabels, AttachLink, RemoveEnds,
         Exclusive, Shape
<1>2. (\E result : End(w, result)) => Exclusive'
  BY <1>1, EndIsLeave, LeaveIsSafe, Zenon
<1>3. \/ \E result : End(w, result)
      \/ pc[w] = "relabel" /\ Go(w, "ready")
      \/ pc[w] = "attach" /\ Go(w, "addref")
      \/ pc[w] = "removing" /\ Go(w, "forget")
  BY Zenon DEF markModelOnNodeFailed, DetachUnreferenced, MarkParentReadyLabels, AttachLink, RemoveEnds
<1>4. ASSUME NEW l \in {"ready", "addref"}, pc[w] \in Inside, Go(w, l)
      PROVE  Exclusive'
  <2>1. Hop(w, l, own[w])
    BY <1>4, GoHops, Zenon DEF Exclusive
  <2>2. l \in Inside /\ l \notin Writing /\ l # "unlink" /\ l \in Holding
    BY Zenon DEF Inside, Writing, Holding
  <2> QED BY <1>1, <1>4, <2>1, <2>2, HopInside, Zenon
<1>5. CASE pc[w] = "removing" /\ Go(w, "forget")
  BY <1>1, <1>5, GoHops, WriterGoesOn, Zenon DEF Exclusive, Writing
<1>6. "relabel" \in Inside /\ "attach" \in Inside
  BY Zenon DEF Inside
<1> QED BY <1>2, <1>3, <1>4, <1>5, <1>6, Zenon

\* A worker without the file lock looks or touches its own entry.
LEMMA OutsidersAreSafe ==
  ASSUME Exclusive, NEW w \in Workers,
         \/ CleanupIntent(w) \/ Cleanup(w) \/ DeleteOrdinary(w) \/ Route(w)
         \/ DeleteInstead(w) \/ Final(w) \/ (\E k \in Kinds, m \in Models : Start(w, k, m))
  PROVE  Exclusive'
<1>1. UNCHANGED home /\ DOMAIN parent' = Fields /\ parent' = parent
  BY Zenon DEF CleanupIntent, Cleanup, DeleteOrdinary, Route, DeleteInstead, Final, Start, Write,
         NoWrite, Exclusive, Shape
<1>2. (\E result : End(w, result)) \/ (\E result, memory : Leave(w, result, memory)) => Exclusive'
  BY <1>1, EndIsLeave, LeaveIsSafe, Zenon
<1>3. ASSUME pc[w] \notin Inside, \E l : l \notin Inside /\ Hop(w, l, own[w])
      PROVE  Exclusive'
  BY <1>1, <1>3, HopOutside, Zenon
<1>4. Shape
  BY Zenon DEF Exclusive
<1>5. CASE CleanupIntent(w)
  <2>1. pc[w] = "cleanup" /\ (Go(w, "cleanup") \/ \E result : End(w, result))
    BY <1>5, Zenon DEF CleanupIntent, Write, NoWrite
  <2>2. "cleanup" \notin Inside
    BY Zenon DEF Inside, Writing
  <2> QED BY <1>2, <1>3, <1>4, <2>1, <2>2, GoHops, Zenon
<1>6. CASE Cleanup(w)
  <2>1. \/ Hop(w, "reparent", own[w]) \/ Hop(w, "recover", own[w])
        \/ Go(w, "legacy") \/ \E result : End(w, result)
    BY <1>4, <1>6, Zenon DEF Cleanup, Hop, Goto, Shape
  <2>2. pc[w] = "cleanup"
    BY <1>6, Zenon DEF Cleanup
  <2>3. {"cleanup", "reparent", "recover", "legacy"} \cap Inside = {}
    BY Zenon DEF Inside, Writing
  <2> QED BY <1>2, <1>3, <1>4, <2>1, <2>2, <2>3, GoHops, Zenon
<1>7. CASE DeleteOrdinary(w)
  <2>1. pc[w] = "legacy" /\ (Go(w, "final") \/ \E result : End(w, result))
    BY <1>7, Zenon DEF DeleteOrdinary
  <2>2. {"legacy", "final"} \cap Inside = {}
    BY Zenon DEF Inside, Writing
  <2> QED BY <1>2, <1>3, <1>4, <2>1, <2>2, GoHops, Zenon
<1>8. CASE Route(w)
  <2>1. pc[w] = "route" /\ (Hop(w, "enter", own[w]) \/ \E result : End(w, result))
    BY <1>4, <1>8, Zenon DEF Route, Hop, Goto, Shape
  <2>2. {"route", "enter"} \cap Inside = {}
    BY Zenon DEF Inside, Writing
  <2> QED BY <1>2, <1>3, <2>1, <2>2, Zenon
<1>9. CASE DeleteInstead(w)
  <2>1. pc[w] = "publish" /\ Hop(w, "cleanup", own[w])
    BY <1>4, <1>9, Zenon DEF DeleteInstead, Hop, Goto, Shape
  <2>2. {"publish", "cleanup"} \cap Inside = {}
    BY Zenon DEF Inside, Writing
  <2> QED BY <1>3, <2>1, <2>2, Zenon
<1>10. CASE Final(w)
  BY <1>2, <1>10, Zenon DEF Final, Write, NoWrite
<1>11. CASE \E k \in Kinds, m \in Models : Start(w, k, m)
  <2>1. pc[w] = "idle" /\ (Hop(w, "final", own[w]) \/ Hop(w, "cleanup", own[w]))
    BY <1>4, <1>11, Zenon DEF Start, Hop, Goto, Shape
  <2>2. {"idle", "final", "cleanup"} \cap Inside = {}
    BY Zenon DEF Inside, Writing
  <2> QED BY <1>3, <2>1, <2>2, Zenon
<1> QED BY <1>5, <1>6, <1>7, <1>8, <1>9, <1>10, <1>11, Zenon

\* Recovery changes the parent only while nobody has the file lock.
LEMMA RecoveryIsSafe ==
  ASSUME Exclusive, NEW w \in Workers, recover(w) \/ recoverParent(w)
  PROVE  Exclusive'
<1>1. UNCHANGED home /\ Shape
  BY Zenon DEF recover, recoverParent, Exclusive
<1>2. DOMAIN parent' = Fields /\ (parent' # parent => flock = None)
  BY <1>1, ParentFields, Zenon DEF recover, recoverParent, SettleAbandoned, SetStatus, Write, NoWrite, Shape
<1>3. (\E result, memory : Leave(w, result, memory)) => Exclusive'
  BY <1>1, <1>2, LeaveIsOut, LeftIsOwning, Zenon
<1>4. pc[w] \in {"recover", "reparent"}
      /\ \/ \E l \in {"reparent", "route", "enter"} : Hop(w, l, own[w])
         \/ \E result, memory : Leave(w, result, memory)
  <2>1. CASE recover(w)
    BY <1>1, <2>1, EndIsLeave, GoHops, ZenonT(30) DEF recover, SettleAbandoned, SetStatus, Write,
       NoWrite,
       Hop, Goto, Shape
  <2>2. CASE recoverParent(w)
    BY <1>1, <2>2, Zenon DEF recoverParent, SettleAbandoned, SetStatus, Write, NoWrite,
       Hop, Goto, Shape
  <2> QED BY <2>1, <2>2, Zenon
<1>5. {"recover", "reparent", "route", "enter"} \cap Inside = {}
  BY Zenon DEF Inside, Writing
<1> QED BY <1>1, <1>2, <1>3, <1>4, <1>5, HopOutside, Zenon

\* tryArtifactOperation enters only if the file lock is free.
LEMMA EnterIsSafe ==
  ASSUME Exclusive, NEW w \in Workers, Enter(w)
  PROVE  Exclusive'
<1>1. UNCHANGED <<parent, home>> /\ Shape /\ pc[w] = "enter"
  BY Zenon DEF Enter, Exclusive
<1>2. CASE \E result : End(w, result)
  BY <1>1, <1>2, EndIsLeave, LeaveIsSafe, Zenon
<1>3. CASE /\ flock = None /\ flock' = w
           /\ Goto(w, IF Mem(w).release # None THEN "settle" ELSE Dispatch(w))
           /\ UNCHANGED <<mem, op, own>>
  <2>1. own[w] = None
    BY <1>1, Zenon DEF Exclusive, Owns, Holding, Writing
  <2>2. PICK l \in {"settle", "claim", "detach", "admit"} : pc' = [pc EXCEPT ![w] = l]
    BY <1>3, ZenonT(30) DEF Goto, Dispatch
  <2>3. Shape'
    BY <1>1, <1>3, <2>2, Zenon DEF Shape
  <2>4. Apart(w)
    BY <1>1, <1>3, <2>2, Zenon DEF Apart, Shape
  <2>5. l \notin Writing /\ l # "unlink"
    BY Zenon DEF Writing
  <2>6. Owns(w)'
    BY <1>1, <1>3, <2>1, <2>2, <2>5, Zenon DEF Owns, Shape
  <2> QED BY <2>3, <2>4, <2>6, OthersKeepOwning, Zenon
<1> QED BY <1>2, <1>3, Zenon DEF Enter

\* lockHfChildStatus takes the file lock only if it is free.
LEMMA PublishingIsSafe ==
  ASSUME Exclusive, NEW w \in Workers, PublishLabel(w) \/ PublishStatus(w)
  PROVE  Exclusive'
<1>1. UNCHANGED <<parent, home>> /\ Shape
  BY Zenon DEF PublishLabel, PublishStatus, Write, NoWrite, Exclusive
<1>2. CASE \E result : End(w, result)
  BY <1>1, <1>2, EndIsLeave, LeaveIsSafe, Zenon
<1>3. CASE /\ pc[w] = "publish"
           /\ MayPublish(M(w), "Ready")
           /\ flock' = IF entry[M(w)].ref THEN w ELSE flock
           /\ Goto(w, "status")
           /\ UNCHANGED <<mem, op, own, faults>>
  <2>1. "publish" \notin Holding /\ "status" \notin Inside /\ Writing \subseteq Inside
        /\ "unlink" \in Inside
    BY Zenon DEF Holding, Inside, Writing
  <2>2. own[w] = None
    BY <1>3, <2>1, Zenon DEF Exclusive, Owns
  <2>3. flock' # flock => flock = None
    BY <1>3, Zenon DEF MayPublish
  <2>4. Shape'
    BY <1>1, <1>3, Zenon DEF Shape, Goto
  <2>5. Apart(w)
    BY <1>1, <1>3, <2>3, Zenon DEF Apart, Goto, Shape
  <2>6. Owns(w)'
    BY <1>1, <1>3, <2>1, <2>2, Zenon DEF Owns, Shape, Goto
  <2> QED BY <2>4, <2>5, <2>6, OthersKeepOwning, Zenon
<1> QED BY <1>2, <1>3, Zenon DEF PublishLabel, PublishStatus, Write, NoWrite

\* The steps under the file lock that write the records: they end in a place
\* that needs no lock ID, or own the parent.
LEMMA KeepersAreSafe ==
  ASSUME Exclusive, NEW w \in Workers,
         \/ Settle(w) \/ Admit(w) \/ AttachReference(w) \/ MarkParentReady(w)
         \/ Release(w) \/ DetachBlocked(w) \/ Forget(w) \/ Unclaim(w) \/ FinishReceipt(w)
  PROVE  Exclusive'
<1>1. UNCHANGED home /\ Shape /\ pc[w] \in Inside
  BY Zenon DEF Settle, Admit, AttachReference, MarkParentReady, Release, DetachBlocked, Forget,
     Unclaim,
         FinishReceipt, Exclusive, Inside, Writing
<1>2. DOMAIN parent' = Fields
  BY <1>1, ParentFields, Zenon DEF Settle, Admit, AttachReference, MarkParentReady, Release,
     DetachBlocked,
         Forget, Unclaim, FinishReceipt, SetStatus, Write, NoWrite, Shape
<1>3. (\E result, memory : Leave(w, result, memory)) => Exclusive'
  BY <1>1, <1>2, LeaveInside, Zenon
<1>4. ASSUME NEW l \in {"claim", "detach", "admit", "acquire", "receipt", "attach"},
             Hop(w, l, None)
      PROVE  Exclusive'
  <2>1. l \in Inside /\ l \notin Writing /\ l # "unlink"
    BY Zenon DEF Inside, Writing
  <2> QED BY <1>1, <1>2, <1>4, <2>1, HopInside, Zenon
<1>5. ASSUME NEW l \in {"relabel", "ready", "attach"}, NEW x, Hop(w, l, x)
      PROVE  Exclusive'
  <2>1. l \in Inside /\ l \notin Writing /\ l # "unlink" /\ l \in Holding
    BY Zenon DEF Inside, Writing, Holding
  <2> QED BY <1>1, <1>2, <1>5, <2>1, HopInside, Zenon
<1>6. CASE Settle(w)
  <2>1. own[w] = None
    BY <1>6, Zenon DEF Settle, Exclusive, Owns, Holding, Writing
  <2>2. \/ \E result : End(w, result)
        \/ Goto(w, Dispatch(w)) /\ UNCHANGED <<flock, op, own>>
    BY <1>6, Zenon DEF Settle, SetStatus, Write, NoWrite
  <2>3. Dispatch(w) \in {"claim", "detach", "admit"}
    BY Zenon DEF Dispatch
  <2> QED BY <1>1, <1>3, <1>4, <2>1, <2>2, <2>3, EndIsLeave, Zenon DEF Hop, Goto, Shape
<1>7. CASE Admit(w)
  <2>1. \/ \E result : End(w, result)
        \/ Hop(w, "acquire", None)
        \/ \E l \in {"relabel", "ready", "attach"} : \E x : Hop(w, l, x)
    BY <1>1, <1>7, Zenon DEF Admit, Write, NoWrite, Hop, Goto, Shape, Finish
  <2> QED BY <1>3, <1>4, <1>5, <2>1, EndIsLeave, Zenon
<1>8. CASE MarkParentReady(w)
  <2>1. \/ \E result : End(w, result)
        \/ Hop(w, "detach", None) \/ Hop(w, "attach", None)
    BY <1>1, <1>8, Zenon DEF MarkParentReady, SetStatus, Write, NoWrite, Hop, Goto, Shape
  <2> QED BY <1>3, <1>4, <2>1, EndIsLeave, Zenon
<1>9. CASE DetachBlocked(w)
  <2>1. \/ \E result : End(w, result)
        \/ \E l \in {"relabel", "ready"} : \E x : Hop(w, l, x)
    BY <1>1, <1>9, Zenon DEF DetachBlocked, Hop, Goto, Shape, Finish
  <2> QED BY <1>3, <1>5, <2>1, EndIsLeave, Zenon
<1>10. CASE Forget(w) \/ Unclaim(w)
  <2>1. \/ \E result, memory : Leave(w, result, memory)
        \/ Disown(w, "receipt")
    BY <1>10, EndIsLeave, Zenon DEF Forget, Unclaim, SetStatus, Write, NoWrite
  <2> QED BY <1>1, <1>3, <1>4, <2>1, DisownHops, Zenon
<1>11. CASE AttachReference(w) \/ Release(w) \/ FinishReceipt(w)
  <2>1. \E result, memory : Leave(w, result, memory)
    BY <1>11, EndIsLeave, ZenonT(30) DEF AttachReference, Release, FinishReceipt, SetStatus,
       Write, NoWrite
  <2> QED BY <1>3, <2>1, Zenon
<1> QED BY <1>6, <1>7, <1>8, <1>9, <1>10, <1>11, Zenon

\* FailChildren keeps the lock that it needs.
LEMMA FailChildrenIsSafe ==
  ASSUME Exclusive, NEW w \in Workers, FailChildren(w)
  PROVE  Exclusive'
<1>1. UNCHANGED home /\ Shape /\ pc[w] = "failkids" /\ OwnedBy(parent, own[w])
  BY Zenon DEF FailChildren, Exclusive, Owns, Writing
<1>2. parent' = parent \/ parent' = saveChildStatuses(parent, entry)
  BY Zenon DEF FailChildren, Write
<1>3. DOMAIN parent' = Fields /\ OwnedBy(parent', own[w])
  BY <1>1, <1>2, Zenon DEF OwnedBy, saveChildStatuses, Fields, Shape
<1>4. Hop(w, "faillabels", own[w]) \/ Hop(w, "abort", own[w])
  BY <1>1, GoHops, AbortHops, Zenon DEF FailChildren, Write
<1>5. /\ {"failkids", "faillabels", "abort"} \subseteq Inside
      /\ {"faillabels", "abort"} \subseteq Holding
  BY Zenon DEF Inside, Holding, Writing
<1> QED BY <1>1, <1>3, <1>4, <1>5, HopInside, ZenonT(30)

\* The steps that acquire a lock own the parent from then on, or give up and
\* remember what they may have acquired.
LEMMA AcquirersOwn ==
  ASSUME Exclusive, NEW w \in Workers,
         AcquireInitial(w) \/ AcquireRepair(w)
  PROVE  Exclusive'
<1>1. UNCHANGED home /\ Shape /\ pc[w] = "acquire"
  BY Zenon DEF AcquireInitial, AcquireRepair, Exclusive
<1>2. DOMAIN parent' = Fields
  BY <1>1, ParentFields, ZenonT(30) DEF AcquireInitial, AcquireRepair, TakeLock, Write, NoWrite, Shape
<1>3. \/ \E result, memory : Leave(w, result, memory)
      \/ \E l \in FreshLocks, next \in {"reset", "validate"} :
           parent' = tryAcquireLock(parent, l) /\ Hop(w, next, l)
  BY <1>1, EndIsLeave, Zenon DEF AcquireInitial, AcquireRepair, TakeLock, Write, NoWrite, Hop,
     Goto, Shape
<1>4. {"acquire", "reset", "validate"} \subseteq Inside /\ {"reset", "validate"} \subseteq Holding
      /\ {"reset", "validate"} \subseteq Writing
  BY Zenon DEF Inside, Holding, Writing
<1>5. CASE \E result, memory : Leave(w, result, memory)
  BY <1>1, <1>2, <1>4, <1>5, LeaveInside, Zenon
<1>6. ASSUME NEW l \in FreshLocks, NEW next \in {"reset", "validate"},
             parent' = tryAcquireLock(parent, l), Hop(w, next, l)
      PROVE  Exclusive'
  <2>1. OwnedBy(parent', l)
    BY <1>1, <1>6, AcquiredIsOwned, Zenon DEF Shape
  <2> QED BY <1>1, <1>2, <1>4, <1>6, <2>1, HopInside, Zenon
<1> QED BY <1>3, <1>5, <1>6, Zenon

\* The lock that comes with the last reference, and the deletion's lock.
LEMMA RemovedIsOwned ==
  ASSUME DOMAIN parent = Fields, NEW l \in FreshLocks, NEW m, LastReference(parent, m)
  PROVE  OwnedBy(removeFromParent(parent, m, l), l)
<1>1. l \in Locks
  BY Zenon DEF FreshLocks
<1>2. l # None
  BY <1>1, RepositoryAssumption, Zenon
<1> QED BY <1>2, Zenon DEF OwnedBy, removeFromParent, tryAcquireLock, Fields

\* removeModelReference: the last reference takes the deletion lock, which nobody had.
LEMMA DetachReferenceIsSafe ==
  ASSUME Exclusive, NEW w \in Workers, DetachReference(w)
  PROVE  Exclusive'
<1>1. UNCHANGED home /\ Shape /\ pc[w] = "detach"
  BY Zenon DEF DetachReference, Exclusive
<1>2. own[w] = None
  BY <1>1, Zenon DEF Exclusive, Owns, Holding, Writing
<1>3. DOMAIN parent' = Fields
  BY <1>1, ParentFields, ZenonT(30) DEF DetachReference, Write, Shape
<1>4. PICK l \in FreshLocks :
        \/ \E result : End(w, result)
        \/ Go(w, "claim") \/ Go(w, "receipt")
        \/ /\ LastReference(parent, M(w)) /\ Own(w, l, parent.status, "unclaim")
           /\ parent' = removeFromParent(parent, M(w), l)
  BY Zenon DEF DetachReference, Write
<1>5. /\ {"detach", "claim", "receipt", "unclaim"} \subseteq Inside
      /\ {"claim", "receipt"} \cap Writing = {} /\ "unclaim" \in Holding /\ "unclaim" \in Writing
  BY Zenon DEF Inside, Holding, Writing
<1>6. CASE \E result : End(w, result)
  BY <1>1, <1>3, <1>5, <1>6, EndIsLeave, LeaveInside, Zenon
<1>7. CASE Go(w, "claim") \/ Go(w, "receipt")
  BY <1>1, <1>2, <1>3, <1>5, <1>7, GoHops, HopInside, Zenon
<1>8. CASE /\ LastReference(parent, M(w)) /\ Own(w, l, parent.status, "unclaim")
           /\ parent' = removeFromParent(parent, M(w), l)
  <2>1. OwnedBy(parent', l)
    BY <1>1, <1>8, RemovedIsOwned, Zenon DEF Shape
  <2>2. Hop(w, "unclaim", l)
    BY <1>1, <1>8, OwnHops, Zenon
  <2> QED BY <1>1, <1>3, <1>5, <2>1, <2>2, HopInside, Zenon
<1> QED BY <1>4, <1>6, <1>7, <1>8, Zenon

\* deletionParent: a new lock, or the one that the receipt carries.
LEMMA ClaimIsSafe ==
  ASSUME Exclusive, NEW w \in Workers, Claim(w)
  PROVE  Exclusive'
<1>1. UNCHANGED home /\ Shape /\ pc[w] = "claim"
  BY Zenon DEF Claim, Exclusive
<1>2. own[w] = None
  BY <1>1, Zenon DEF Exclusive, Owns, Holding, Writing
<1>3. DOMAIN parent' = Fields
  BY <1>1, ParentFields, ZenonT(30) DEF Claim, Write, NoWrite, Shape
<1>4. \/ \E result : End(w, result)
      \/ Go(w, "unlink")
      \/ \E l, before : Own(w, l, before, "unlink") /\ OwnedBy(parent', l)
  <2> DEFINE receipt == entry[M(w)].receipt
  <2>1. CASE \E l \in FreshLocks :
               \/ \E result : End(w, result)
               \/ /\ parent' = tryAcquireLock(parent, l)
                  /\ Own(w, l, parent.status, "unlink")
    BY <1>1, <2>1, AcquiredIsOwned, Zenon DEF Shape
  <2>2. CASE /\ parent' = parent /\ blocksNewOperation(parent)
             /\ receipt.lock # None /\ receipt.lock = parent.lock
             /\ Own(w, receipt.lock, receipt.before, "unlink")
    BY <2>2, Zenon DEF OwnedBy, blocksNewOperation
  <2>3. CASE (\E result : End(w, result)) \/ Go(w, "unlink")
    BY <2>3, Zenon
  <2> QED BY <2>1, <2>2, <2>3, Zenon DEF Claim, Write, NoWrite
<1>5. {"claim", "unlink"} \subseteq Inside /\ "unlink" \in Holding /\ "unlink" \notin Writing
  BY Zenon DEF Inside, Holding, Writing
<1>6. CASE \E result : End(w, result)
  BY <1>1, <1>3, <1>5, <1>6, EndIsLeave, LeaveInside, Zenon
<1>7. CASE Go(w, "unlink")
  BY <1>1, <1>2, <1>3, <1>5, <1>7, GoHops, HopInside, Zenon
<1>8. ASSUME NEW l, NEW before, Own(w, l, before, "unlink"), OwnedBy(parent', l)
      PROVE  Exclusive'
  BY <1>1, <1>3, <1>5, <1>8, OwnHops, HopInside, Zenon
<1> QED BY <1>4, <1>6, <1>7, <1>8, Zenon

\* Removing the link keeps what the deletion owns.
LEMMA UnlinkIsSafe ==
  ASSUME Exclusive, NEW w \in Workers, Unlink(w)
  PROVE  Exclusive'
<1>1. UNCHANGED <<parent, home>> /\ Shape /\ pc[w] = "unlink" /\ DOMAIN parent' = Fields
  BY Zenon DEF Unlink, Exclusive, Shape
<1>2. \/ \E result : End(w, result)
      \/ own[w] = None /\ Go(w, "receipt")
      \/ own[w] # None /\ \E l \in {"unclaim", "remove"} : Go(w, l)
  BY Zenon DEF Unlink
<1>3. /\ {"unlink", "receipt", "unclaim", "remove"} \subseteq Inside /\ "receipt" \notin Writing
      /\ {"unclaim", "remove"} \subseteq Holding
  BY Zenon DEF Inside, Holding, Writing
<1>4. own[w] # None => OwnedBy(parent', own[w])
  BY <1>1, Zenon DEF Exclusive, Owns
<1>5. CASE \E result : End(w, result)
  BY <1>1, <1>5, EndIsLeave, LeaveIsSafe, Zenon
<1>6. CASE own[w] = None /\ Go(w, "receipt")
  BY <1>1, <1>3, <1>6, GoHops, HopInside, Zenon
<1>7. ASSUME NEW l \in {"unclaim", "remove"}, own[w] # None, Go(w, l)
      PROVE  Exclusive'
  BY <1>1, <1>3, <1>4, <1>7, GoHops, HopInside, Zenon
<1> QED BY <1>2, <1>5, <1>6, <1>7, Zenon

\* Processes that die leave neither workers nor file locks behind.
LEMMA DeathIsSafe ==
  ASSUME Exclusive, NEW as, Die(as), DOMAIN parent' = Fields,
         parent' # parent => as = Agents
  PROVE  Exclusive'
<1> DEFINE ws == {w \in Workers : home[w] \in as}
<1>1. /\ pc' = [w \in Workers |-> IF w \in ws THEN "idle" ELSE pc[w]]
      /\ op' = [w \in Workers |-> IF w \in ws THEN Idle ELSE op[w]]
      /\ own' = [w \in Workers |-> IF w \in ws THEN None ELSE own[w]]
      /\ flock' = IF flock \in ws THEN None ELSE flock
      /\ home' = home
  BY Zenon DEF Die
<1>2. parent' # parent => ws = Workers
  BY Zenon DEF Exclusive, Shape
<1> HIDE DEF ws
<1>3. Shape'
  BY <1>1, Zenon DEF Exclusive, Shape
<1>4. "idle" \notin Inside /\ "idle" \notin Writing
  BY Zenon DEF Inside, Writing
<1>5. ASSUME NEW w \in Workers
      PROVE  Owns(w)'
  <2>1. CASE w \in ws
    BY <1>1, <1>4, <2>1, Zenon DEF Owns
  <2>2. CASE w \notin ws
    <3>1. pc'[w] = pc[w] /\ own'[w] = own[w] /\ parent' = parent
      BY <1>1, <1>2, <2>2, Zenon
    <3>2. flock = w => flock' = w
      BY <1>1, <2>2, Zenon
    <3> QED BY <3>1, <3>2, Zenon DEF Exclusive, Owns, OwnedBy
  <2> QED BY <2>1, <2>2, Zenon
<1> QED BY <1>3, <1>5, Zenon DEF Exclusive

\* Crashes, the loss of the ConfigMap, damage and changes of resources.
LEMMA EnvironmentIsSafe ==
  ASSUME Exclusive,
         \/ \E m \in Models : ResourceChange(m)
         \/ \E a \in Agents : Crash(a)
         \/ LoseConfigMap \/ Rot \/ UNCHANGED vars
  PROVE  Exclusive'
<1>1. CASE (\E m \in Models : ResourceChange(m)) \/ Rot \/ UNCHANGED vars
  <2>1. UNCHANGED <<parent, pc, op, own, home, flock>>
    BY <1>1, Zenon DEF ResourceChange, Rot, vars, local
  <2> QED BY <2>1, Zenon DEF Exclusive, Shape, Owns, OwnedBy
<1>2. CASE \E a \in Agents : Crash(a)
  BY <1>2, DeathIsSafe, ZenonT(30) DEF Crash, Exclusive, Shape
<1>3. CASE LoseConfigMap
  BY <1>3, DeathIsSafe, ParentFields, Zenon DEF LoseConfigMap, Exclusive, Shape
<1> QED BY <1>1, <1>2, <1>3, Zenon

\* Every step, and every fault, keeps Exclusive.
LEMMA ExclusiveStep ==
  ASSUME Exclusive, [Next]_vars
  PROVE  Exclusive'
<1>1. ASSUME NEW w \in Workers, Step(w)
      PROVE  Exclusive'
  BY <1>1, WritersStayOwners, ReadersAreSafe, OutsidersAreSafe, RecoveryIsSafe, EnterIsSafe,
     PublishingIsSafe, KeepersAreSafe, FailChildrenIsSafe, AcquirersOwn, DetachReferenceIsSafe,
     ClaimIsSafe, UnlinkIsSafe, Zenon
  DEF Step, DownloadStep, DeleteStep
<1>2. ASSUME NEW w \in Workers, NEW k \in Kinds, NEW m \in Models, Start(w, k, m)
      PROVE  Exclusive'
  BY <1>2, OutsidersAreSafe, Zenon
<1> QED BY <1>1, <1>2, EnvironmentIsSafe, Zenon DEF Next

\* Exclusive is an invariant.
LEMMA ExclusiveAlways == Spec => []Exclusive
<1>1. Init => Exclusive
  BY Zenon DEF Init, Exclusive, Shape, Owns, Inside, Holding, Writing, NoParent, Fields
<1> QED BY <1>1, ExclusiveStep, PTL DEF Spec

\* A worker that changes the parent's files has its file lock and is the owner
\* that the ConfigMap names, whatever crashed, was lost or was recovered.
THEOREM WriterOwnsParentHolds == Spec => []WriterOwnsParent
<1>1. Exclusive => WriterOwnsParent
  BY Zenon DEF Exclusive, Owns, WriterOwnsParent, Inside
<1> QED BY <1>1, ExclusiveAlways, PTL
-----------------------------------------------------------------------------
(***************************************************************************)
(* Removal.  deleteLockedParent looks for users before it removes the      *)
(* directory.  What it saw is still true when the files are gone: new      *)
(* links, intents and references are only made under the file lock, which  *)
(* it has.                                                                 *)
(***************************************************************************)
EntryShape ==
  /\ DOMAIN entry = Models
  /\ \A m \in Models : DOMAIN entry[m] = { "status", "ref", "intent", "receipt" }

\* The places between the look at the users and the end of the removal.
Removing == { "remove", "removing", "forget" }

Safe == Places \ (Removing \cup {"unlink"})

Unused(w) ==
  /\ pc[w] \in Removing =>
       links = {} /\ parent.children = {} /\ \A m \in Models : ~ entry[m].intent
  /\ pc[w] = "unlink" /\ own[w] # None => parent.children = {}

\* The inductive invariant behind RemovedOnlyUnused.
Removal == Exclusive /\ EntryShape /\ \A w \in Workers : Unused(w)

\* w goes to a place in S, the others stay where they are.
Near(w, S) ==
  /\ pc'[w] \in S
  /\ \A v \in Workers \ {w} : pc'[v] = pc[v] /\ own'[v] = own[v]

\* Nobody begins to use the files.
Quiet ==
  /\ parent'.children = parent.children
  /\ links' \subseteq links
  /\ \A m \in Models : entry'[m].intent => entry[m].intent

\* It is enough to look at w, if it has the file lock or is quiet.
LEMMA OthersStayUnused ==
  ASSUME Removal, Exclusive', EntryShape', NEW w \in Workers, NEW S, Near(w, S), Unused(w)',
         flock = w \/ Quiet
  PROVE  Removal'
<1>1. ASSUME NEW v \in Workers \ {w}
      PROVE  Unused(v)'
  <2>1. Unused(v) /\ pc'[v] = pc[v] /\ own'[v] = own[v]
    BY Zenon DEF Removal, Near
  <2>2. CASE pc[v] \in Removing \cup {"unlink"}
    <3>1. flock = v
      BY <2>2, Zenon DEF Removal, Exclusive, Owns, Inside, Writing, Removing
    <3>2. Quiet
      BY <1>1, <3>1, Zenon
    <3> QED BY <2>1, <3>2, ZenonT(30) DEF Unused, Quiet
  <2>3. CASE pc[v] \notin Removing \cup {"unlink"}
    BY <2>1, <2>3, Zenon DEF Unused
  <2> QED BY <2>2, <2>3, Zenon
<1> QED BY <1>1, Zenon DEF Removal

\* A worker in a safe place relies on nothing.
LEMMA SafeIsUnused ==
  ASSUME Removal, Exclusive', EntryShape', NEW w \in Workers, Near(w, Safe), flock = w \/ Quiet
  PROVE  Removal'
<1>1. Unused(w)'
  BY Zenon DEF Near, Safe, Unused
<1> QED BY <1>1, OthersStayUnused, Zenon

\* The ways in which a step ends.
LEMMA EndsAreNear ==
  ASSUME Shape, NEW w \in Workers
  PROVE  /\ \A result, memory : Leave(w, result, memory) => Near(w, Safe)
         /\ \A result : End(w, result) => Near(w, Safe)
         /\ \A result, l, status : EndOwing(w, result, l, status) => Near(w, Safe)
         /\ \A l \in Safe : Go(w, l) => Near(w, Safe)
         /\ \A status : Abort(w, status) => Near(w, Safe)
         /\ \A next \in Safe : Disown(w, next) => Near(w, Safe)
<1>1. ASSUME Left(w)
      PROVE  Near(w, Safe)
  <2>1. Out \subseteq Safe
    BY ZenonT(30) DEF Out, Safe, Places, Removing
  <2> QED BY <1>1, <2>1, Zenon DEF Left, Near, Shape
<1>2. \A result, memory : Leave(w, result, memory) => Near(w, Safe)
  BY <1>1, LeaveIsOut, Zenon
<1>3. \A l \in Safe : Go(w, l) => Near(w, Safe)
  BY Zenon DEF Go, Goto, Near, Shape
<1>4. \A status : Abort(w, status) => Near(w, Safe)
  <2>1. "abort" \in Safe
    BY Zenon DEF Safe, Places, Removing
  <2> QED BY <2>1, Zenon DEF Abort, Goto, Near, Shape
<1>5. \A next \in Safe : Disown(w, next) => Near(w, Safe)
  BY Zenon DEF Disown, Goto, Near, Shape
<1> QED BY <1>2, <1>3, <1>4, <1>5, EndIsLeave, Zenon

\* The changes of entries: only rememberDownload adds an intent.
LEMMA EntriesKeepShape ==
  ASSUME EntryShape,
         \/ UNCHANGED entry
         \/ \E m, status : entry' = WithStatus(m, status)
         \/ \E m : entry' = beginPendingDownloadDeletion(entry, m)
         \/ \E status : entry' = setChildStatuses(parent, entry, status)
         \/ \E m : entry' = finishPendingDeletion(entry, m)
         \/ \E m : entry' = [entry EXCEPT ![m] = NoEntry]
         \/ entry' = [m \in Models |-> NoEntry]
  PROVE  EntryShape' /\ \A m \in Models : entry'[m].intent => entry[m].intent
<1>1. CASE UNCHANGED entry
  BY <1>1, Zenon DEF EntryShape
<1>2. CASE \E m, status : entry' = WithStatus(m, status)
  BY <1>2, Zenon DEF EntryShape, WithStatus
<1>3. CASE \E m : entry' = beginPendingDownloadDeletion(entry, m)
  BY <1>3, Zenon DEF EntryShape, beginPendingDownloadDeletion
<1>4. CASE \E status : entry' = setChildStatuses(parent, entry, status)
  BY <1>4, Zenon DEF EntryShape, setChildStatuses
<1>5. CASE \E m : entry' = finishPendingDeletion(entry, m)
  BY <1>5, Zenon DEF EntryShape, finishPendingDeletion
<1>6. CASE \E m : entry' = [entry EXCEPT ![m] = NoEntry]
  BY <1>6 DEF EntryShape, NoEntry
<1>7. CASE entry' = [m \in Models |-> NoEntry]
  BY <1>7, Zenon DEF EntryShape, NoEntry
<1> QED BY <1>1, <1>2, <1>3, <1>4, <1>5, <1>6, <1>7, Zenon

\* The changes that are made under the file lock only.
LEMMA InsideEntriesKeepShape ==
  ASSUME EntryShape,
         \/ entry' = failChildren(parent, entry)
         \/ \E m : entry' = rememberDownload(entry, m)
         \/ \E m : entry' = addToModel(entry, m)
         \/ \E m, l : entry' = removeFromModel(parent, entry, m, l)
         \/ \E m, l : entry' = claimDeletion(parent, entry, m, l)
  PROVE  EntryShape'
BY ZenonT(30) DEF EntryShape, failChildren, rememberDownload, addToModel, removeFromModel,
   claimDeletion

\* The steps of a worker without the file lock.
LEMMA OutsidersAreQuiet ==
  ASSUME Removal, Exclusive', NEW w \in Workers,
         \/ CleanupIntent(w) \/ Cleanup(w) \/ DeleteOrdinary(w) \/ Route(w) \/ Enter(w)
         \/ DeleteInstead(w) \/ Final(w) \/ (\E k \in Kinds, m \in Models : Start(w, k, m))
         \/ markModelOnNodeFailed(w) \/ PublishLabel(w) \/ PublishStatus(w)
         \/ recover(w) \/ recoverParent(w)
  PROVE  Removal'
<1>1. Shape /\ EntryShape
  BY Zenon DEF Removal, Exclusive
<1>2. links' \subseteq links
  BY Zenon DEF CleanupIntent, Cleanup, DeleteOrdinary, Route, Enter, DeleteInstead, Final, Start,
         markModelOnNodeFailed, PublishLabel, PublishStatus, recover, recoverParent, files
<1>3. UNCHANGED parent \/ \E status : parent' = setParentStatus(parent, status)
  BY ZenonT(30) DEF CleanupIntent, Cleanup, DeleteOrdinary, Route, Enter, DeleteInstead, Final, Start,
         markModelOnNodeFailed, PublishLabel, PublishStatus, recover, recoverParent,
         SettleAbandoned, SetStatus, Write, NoWrite
<1>4. parent'.children = parent.children
  BY <1>1, <1>3, ZenonT(30) DEF setParentStatus, Shape, Fields
<1>5. \/ UNCHANGED entry
      \/ \E m, status : entry' = WithStatus(m, status)
      \/ \E m : entry' = beginPendingDownloadDeletion(entry, m)
      \/ \E status : entry' = setChildStatuses(parent, entry, status)
      \/ \E m : entry' = [entry EXCEPT ![m] = NoEntry]
  BY ZenonT(30) DEF CleanupIntent, Cleanup, DeleteOrdinary, Route, Enter, DeleteInstead, Final, Start,
         markModelOnNodeFailed, PublishLabel, PublishStatus, Publish, recover, recoverParent,
         SettleAbandoned, SetStatus, Write, NoWrite
<1>6. Quiet /\ EntryShape'
  BY <1>1, <1>2, <1>4, <1>5, EntriesKeepShape, Zenon DEF Quiet
<1>7. Near(w, Safe)
  <2>1. /\ (\E result : End(w, result)) => Near(w, Safe)
        /\ (\E result, memory : Leave(w, result, memory)) => Near(w, Safe)
        /\ (\E l \in Safe : Go(w, l)) => Near(w, Safe)
    BY <1>1, EndsAreNear, Zenon
  <2>2. /\ {"cleanup", "legacy", "final", "reparent", "recover", "enter", "route", "status",
            "settle", "claim", "detach", "admit"} \subseteq Safe
    BY DEF Safe, Places, Removing
  <2>3. (UNCHANGED own /\ \E l \in Safe : Goto(w, l)) => Near(w, Safe)
    BY <1>1, ZenonT(30) DEF Near, Goto, Shape
  <2>4. CASE CleanupIntent(w) \/ DeleteOrdinary(w)
    <3>1. (\E result : End(w, result)) \/ Go(w, "cleanup") \/ Go(w, "final")
      BY <2>4, Zenon DEF CleanupIntent, DeleteOrdinary, Write, NoWrite
    <3> QED BY <2>1, <2>2, <3>1, ZenonT(30)
  <2>5. CASE Cleanup(w) \/ Route(w)
    <3>1. \/ \E result : End(w, result)
          \/ UNCHANGED own /\ \E l \in {"reparent", "recover", "enter", "legacy"} : Goto(w, l)
      BY <2>5, Zenon DEF Cleanup, Route, Go
    <3> QED BY <2>1, <2>2, <2>3, <3>1, Zenon
  <2>6. CASE Enter(w)
    <3>1. \/ \E result : End(w, result)
          \/ UNCHANGED own /\ \E l \in {"settle", "claim", "detach", "admit"} : Goto(w, l)
      BY <2>6, Zenon DEF Enter, Dispatch
    <3> QED BY <2>1, <2>2, <2>3, <3>1, Zenon
  <2>7. CASE DeleteInstead(w) \/ \E k \in Kinds, m \in Models : Start(w, k, m)
    <3>1. UNCHANGED own /\ \E l \in {"cleanup", "final"} : Goto(w, l)
      BY <2>7, Zenon DEF DeleteInstead, Start
    <3> QED BY <2>2, <2>3, <3>1, Zenon
  <2>8. CASE Final(w) \/ markModelOnNodeFailed(w) \/ PublishStatus(w)
    <3>1. (\E result : End(w, result)) \/ (\E result, memory : Leave(w, result, memory))
      BY <2>8, Zenon DEF Final, markModelOnNodeFailed, PublishStatus, Write, NoWrite
    <3> QED BY <2>1, <3>1, Zenon
  <2>9. CASE PublishLabel(w)
    <3>1. (\E result : End(w, result)) \/ (UNCHANGED own /\ Goto(w, "status"))
      BY <2>9, Zenon DEF PublishLabel
    <3> QED BY <2>1, <2>2, <2>3, <3>1, Zenon
  <2>10. CASE recover(w)
    <3>1. (\E result : End(w, result)) \/ (UNCHANGED own /\ Goto(w, "reparent"))
      BY <2>10, Zenon DEF recover, SettleAbandoned, SetStatus, Write, NoWrite, Go
    <3> QED BY <2>1, <2>2, <2>3, <3>1, Zenon
  <2>11. CASE recoverParent(w)
    <3>1. \/ \E result, memory : Leave(w, result, memory)
          \/ UNCHANGED own /\ \E l \in {"route", "enter"} : Goto(w, l)
      BY <2>11, Zenon DEF recoverParent, SettleAbandoned, SetStatus, Write, NoWrite
    <3> QED BY <2>1, <2>2, <2>3, <3>1, Zenon
  <2> QED BY <2>4, <2>5, <2>6, <2>7, <2>8, <2>9, <2>10, <2>11, Zenon
<1> QED BY <1>6, <1>7, SafeIsUnused, Zenon

\* The steps under the file lock that are not about to remove the files.
LEMMA InsidersAreSafe ==
  ASSUME Removal, Exclusive', NEW w \in Workers,
         \/ Settle(w) \/ Admit(w) \/ AcquireInitial(w) \/ AcquireRepair(w) \/ MarkParentReadyLabels(w)
         \/ MarkParentReady(w) \/ AttachLink(w) \/ AttachReference(w) \/ FailChildren(w)
         \/ Release(w) \/ DetachUnreferenced(w) \/ DetachBlocked(w) \/ DetachReference(w)
         \/ Forget(w) \/ Unclaim(w) \/ FinishReceipt(w)
  PROVE  Removal'
<1>1. Shape /\ EntryShape
  BY Zenon DEF Removal, Exclusive
<1>2. flock = w
  <2>1. pc[w] \in Inside
    BY Zenon DEF Settle, Admit, AcquireInitial, AcquireRepair, MarkParentReadyLabels, MarkParentReady,
           AttachLink, AttachReference, FailChildren, Release, DetachUnreferenced, DetachBlocked,
           DetachReference, Forget, Unclaim, FinishReceipt, Inside, Writing
  <2> QED BY <2>1, Zenon DEF Removal, Exclusive, Owns
<1>3. EntryShape'
  <2>1. \/ UNCHANGED entry
        \/ \E status : entry' = setChildStatuses(parent, entry, status)
        \/ \E m : entry' = finishPendingDeletion(entry, m)
        \/ entry' = failChildren(parent, entry)
        \/ \E m : entry' = rememberDownload(entry, m)
        \/ \E m : entry' = addToModel(entry, m)
        \/ \E m, l : entry' = removeFromModel(parent, entry, m, l)
    BY Zenon DEF Settle, Admit, AcquireInitial, AcquireRepair, MarkParentReadyLabels, MarkParentReady,
           AttachLink, AttachReference, FailChildren, Release, DetachUnreferenced, DetachBlocked,
           DetachReference, Forget, Unclaim, FinishReceipt, TakeLock, SetStatus, Write, NoWrite
  <2> QED BY <1>1, <2>1, EntriesKeepShape, InsideEntriesKeepShape, Zenon
<1>4. /\ (\E result : End(w, result)) => Near(w, Safe)
      /\ (\E result, l, status : EndOwing(w, result, l, status)) => Near(w, Safe)
      /\ (\E l \in Safe : Go(w, l)) => Near(w, Safe)
      /\ (\E status : Abort(w, status)) => Near(w, Safe)
      /\ (\E next \in Safe : Disown(w, next)) => Near(w, Safe)
  BY <1>1, EndsAreNear, Zenon
<1>5. {"admit", "claim", "detach", "acquire", "attach", "addref", "relabel", "ready", "reset",
       "validate", "faillabels", "receipt", "unclaim"} \subseteq Safe
  BY DEF Safe, Places, Removing
<1>6. ((\E x : own' = [own EXCEPT ![w] = x]) /\ \E l \in Safe : Goto(w, l)) => Near(w, Safe)
  BY <1>1, Zenon DEF Near, Goto, Shape
<1>7. (UNCHANGED own /\ \E l \in Safe : Goto(w, l)) => Near(w, Safe)
  BY <1>1, Zenon DEF Near, Goto, Shape
<1>8. Near(w, Safe)
  <2>1. CASE Settle(w)
    <3>1. \/ \E result : End(w, result)
          \/ UNCHANGED own /\ \E l \in {"claim", "detach", "admit"} : Goto(w, l)
      BY <2>1, Zenon DEF Settle, SetStatus, Write, NoWrite, Dispatch
    <3> QED BY <1>4, <1>5, <1>7, <3>1, Zenon
  <2>2. CASE Admit(w) \/ DetachBlocked(w) \/ MarkParentReady(w)
    <3>1. \/ \E result : End(w, result)
          \/ /\ \E x : own' = [own EXCEPT ![w] = x]
             /\ \E l \in {"acquire", "attach", "detach", "relabel", "ready"} : Goto(w, l)
      BY <2>2, Zenon DEF Admit, DetachBlocked, MarkParentReady, SetStatus, Write, NoWrite, Finish
    <3> QED BY <1>4, <1>5, <1>6, <3>1, Zenon
  <2>3. CASE AcquireInitial(w) \/ AcquireRepair(w)
    <3>1. \/ \E result : End(w, result)
          \/ \E result, l, status : EndOwing(w, result, l, status)
          \/ /\ \E x : own' = [own EXCEPT ![w] = x]
             /\ \E l \in {"reset", "validate"} : Goto(w, l)
      BY <2>3, ZenonT(30) DEF AcquireInitial, AcquireRepair, TakeLock, Write, NoWrite
    <3> QED BY <1>4, <1>5, <1>6, <3>1, Zenon
  <2>4. CASE MarkParentReadyLabels(w) \/ AttachLink(w) \/ FailChildren(w)
    <3>1. \/ \E result : End(w, result)
          \/ \E status : Abort(w, status)
          \/ \E l \in {"ready", "addref", "faillabels"} : Go(w, l)
      BY <2>4, Zenon DEF MarkParentReadyLabels, AttachLink, FailChildren, Write
    <3> QED BY <1>4, <1>5, <3>1, ZenonT(30)
  <2>5. CASE AttachReference(w) \/ Release(w) \/ DetachUnreferenced(w) \/ FinishReceipt(w)
    <3>1. (\E result : End(w, result)) \/ \E result, l, status : EndOwing(w, result, l, status)
      BY <2>5, Zenon DEF AttachReference, Release, DetachUnreferenced, FinishReceipt, SetStatus,
         Write, NoWrite
    <3> QED BY <1>4, <3>1, Zenon
  <2>6. CASE Forget(w) \/ Unclaim(w)
    <3>1. \/ \E result : End(w, result)
          \/ \E result, l, status : EndOwing(w, result, l, status)
          \/ Disown(w, "receipt")
      BY <2>6, ZenonT(30) DEF Forget, Unclaim, SetStatus, Write, NoWrite
    <3> QED BY <1>4, <1>5, <3>1, Zenon
  <2>7. CASE DetachReference(w)
    <3>1. \/ \E result : End(w, result)
          \/ Go(w, "claim") \/ Go(w, "receipt")
          \/ (\E x : own' = [own EXCEPT ![w] = x]) /\ Goto(w, "unclaim")
      BY <2>7, Zenon DEF DetachReference, Write, Own
    <3> QED BY <1>4, <1>5, <1>6, <3>1, Zenon
  <2> QED BY <2>1, <2>2, <2>3, <2>4, <2>5, <2>6, <2>7, Zenon
<1> QED BY <1>2, <1>3, <1>8, SafeIsUnused, Zenon

\* The steps that fill the directory.
LEMMA FillersAreSafe ==
  ASSUME Removal, Exclusive', NEW w \in Workers,
         \/ ResetBegins(w) \/ ResetEnds(w) \/ FetchBegins(w) \/ FetchEnds(w) \/ MarkBegins(w)
         \/ MarkEnds(w) \/ Validate(w) \/ FailLabels(w) \/ RemoveMarker(w)
  PROVE  Removal'
<1>1. Shape /\ EntryShape
  BY Zenon DEF Removal, Exclusive
<1>2. pc[w] \in Writing /\ UNCHANGED entry
  BY Zenon DEF ResetBegins, ResetEnds, FetchBegins, FetchEnds, MarkBegins, MarkEnds, Validate, FailLabels,
         RemoveMarker, Writing
<1>3. flock = w /\ EntryShape'
  BY <1>1, <1>2, Zenon DEF Removal, Exclusive, Owns, Inside, EntryShape
<1>4. {"resetting", "fetching", "mark", "marking", "relabel", "ready", "unmark", "fetch", "abort",
       "failkids"} \subseteq Safe
  BY DEF Safe, Places, Removing
<1>5. Interrupted(w) => \E status : Abort(w, status)
  BY Zenon DEF Interrupted
<1>6. \/ \E status : Abort(w, status)
      \/ \E l \in Safe : Go(w, l)
      \/ UNCHANGED own /\ \E l \in Safe : Goto(w, l)
  BY <1>4, <1>5, Zenon DEF ResetBegins, ResetEnds, FetchBegins, FetchEnds, MarkBegins, MarkEnds, Validate,
         FailLabels, RemoveMarker, Finish
<1>7. (UNCHANGED own /\ \E l \in Safe : Goto(w, l)) => Near(w, Safe)
  BY <1>1, Zenon DEF Near, Goto, Shape
<1> QED BY <1>1, <1>3, <1>6, <1>7, EndsAreNear, SafeIsUnused, Zenon

\* deletionParent claims the parent only without children, deleteLockedParent
\* removes it only without links and intents.
LEMMA ClaimIsUnused ==
  ASSUME Removal, Exclusive', NEW w \in Workers, Claim(w)
  PROVE  Removal'
<1>1. Shape /\ EntryShape /\ pc[w] = "claim"
  BY ZenonT(30) DEF Removal, Exclusive, Claim
<1>2. flock = w /\ own[w] = None
  BY <1>1, Zenon DEF Removal, Exclusive, Owns, Inside, Holding, Writing
<1>3. EntryShape'
  <2>1. UNCHANGED entry \/ \E m, l : entry' = claimDeletion(parent, entry, m, l)
    BY ZenonT(30) DEF Claim, Write, NoWrite
  <2> QED BY <1>1, <2>1, EntriesKeepShape, InsideEntriesKeepShape, Zenon
<1>4. \/ \E result : End(w, result)
      \/ Go(w, "unlink")
      \/ /\ \E l, before : Own(w, l, before, "unlink")
         /\ parent.children = {} /\ (UNCHANGED parent \/ \E l : parent' = tryAcquireLock(parent, l))
  BY ZenonT(30) DEF Claim, Claimable, Write, NoWrite
<1>5. CASE \E result : End(w, result)
  BY <1>1, <1>2, <1>3, <1>5, EndsAreNear, SafeIsUnused, Zenon
<1>6. CASE Go(w, "unlink")
  <2>1. Near(w, {"unlink"}) /\ own'[w] = None
    BY <1>1, <1>2, <1>6, Zenon DEF Go, Goto, Near, Shape
  <2>2. Unused(w)'
    BY <2>1, Zenon DEF Unused, Near, Removing
  <2> QED BY <1>2, <1>3, <2>1, <2>2, OthersStayUnused, Zenon
<1>7. CASE /\ \E l, before : Own(w, l, before, "unlink")
           /\ parent.children = {} /\ (UNCHANGED parent \/ \E l : parent' = tryAcquireLock(parent, l))
  <2>1. Near(w, {"unlink"})
    BY <1>1, <1>7, Zenon DEF Own, Goto, Near, Shape
  <2>2. parent'.children = {}
    BY <1>1, <1>7, Zenon DEF tryAcquireLock, Shape, Fields
  <2>3. Unused(w)'
    BY <2>1, <2>2, Zenon DEF Unused, Near, Removing
  <2> QED BY <1>2, <1>3, <2>1, <2>3, OthersStayUnused, Zenon
<1> QED BY <1>4, <1>5, <1>6, <1>7, Zenon

\* deleteLockedParent: the look at links and intents, and the removal.
LEMMA RemovalGoesOn ==
  ASSUME Removal, Exclusive', NEW w \in Workers, Unlink(w) \/ RemoveBegins(w) \/ RemoveEnds(w)
  PROVE  Removal'
<1>1. Shape /\ EntryShape /\ Unused(w) /\ UNCHANGED <<parent, entry>> /\ pc[w] \in Inside
  BY Zenon DEF Removal, Exclusive, Unlink, RemoveBegins, RemoveEnds, Inside, Writing
<1>2. flock = w /\ EntryShape'
  BY <1>1, Zenon DEF Removal, Exclusive, Owns, EntryShape
<1>3. CASE \E result : End(w, result)
  BY <1>1, <1>2, <1>3, EndsAreNear, SafeIsUnused, Zenon
<1>4. CASE \E l \in {"receipt", "unclaim"} : Go(w, l)
  <2>1. {"receipt", "unclaim"} \subseteq Safe
    BY Zenon DEF Safe, Places, Removing
  <2> QED BY <1>1, <1>2, <1>4, <2>1, EndsAreNear, SafeIsUnused, Zenon
<1>5. ASSUME NEW l \in Removing, Go(w, l),
             links' = {}, parent.children = {}, \A m \in Models : ~ entry[m].intent
      PROVE  Removal'
  <2>1. Near(w, Removing)
    BY <1>1, <1>5, ZenonT(30) DEF Go, Goto, Near, Shape
  <2>2. Unused(w)'
    BY <1>1, <1>5, <2>1, Zenon DEF Unused, Near, Removing
  <2> QED BY <1>2, <2>1, <2>2, OthersStayUnused, Zenon
<1>6. CASE Unlink(w)
  <2>1. \/ \E result : End(w, result)
        \/ \E l \in {"receipt", "unclaim"} : Go(w, l)
        \/ own[w] # None /\ ~ Needed(links') /\ Go(w, "remove")
    BY <1>6, ZenonT(30) DEF Unlink
  <2>2. CASE own[w] # None /\ ~ Needed(links') /\ Go(w, "remove")
    <3>1. links' = {} /\ \A m \in Models : ~ entry[m].intent
      BY <2>2, Zenon DEF Needed
    <3>2. parent.children = {}
      BY <1>1, <1>6, <2>2, Zenon DEF Unlink, Unused
    <3> QED BY <1>5, <2>2, <3>1, <3>2, Zenon DEF Removing
  <2> QED BY <1>3, <1>4, <2>1, <2>2, Zenon
<1>7. CASE RemoveBegins(w) \/ RemoveEnds(w)
  <2>1. pc[w] \in Removing /\ UNCHANGED links
        /\ ((\E result : End(w, result)) \/ \E l \in Removing : Go(w, l))
    BY <1>7, Zenon DEF RemoveBegins, RemoveEnds, RemoveSome, Removing
  <2>2. links = {} /\ parent.children = {} /\ \A m \in Models : ~ entry[m].intent
    BY <1>1, <2>1, Zenon DEF Unused
  <2> QED BY <1>3, <1>5, <2>1, <2>2, Zenon
<1> QED BY <1>6, <1>7, Zenon

\* Processes die and resources change: nobody begins to use the files.
LEMMA EnvironmentIsQuiet ==
  ASSUME Removal, Exclusive',
         \/ \E m \in Models : ResourceChange(m)
         \/ \E a \in Agents : Crash(a)
         \/ LoseConfigMap \/ Rot \/ UNCHANGED vars
  PROVE  Removal'
<1>1. CASE (\E m \in Models : ResourceChange(m)) \/ Rot \/ UNCHANGED vars
  <2>1. UNCHANGED <<parent, entry, links, pc, own>>
    BY <1>1, Zenon DEF ResourceChange, Rot, vars, files, local
  <2> QED BY <2>1, Zenon DEF Removal, EntryShape, Unused
<1>2. ASSUME NEW a \in Agents, Crash(a)
      PROVE  Removal'
  <2>1. /\ UNCHANGED <<parent, entry, links>>
        /\ \A w \in Workers : pc'[w] = "idle" \/ (pc'[w] = pc[w] /\ own'[w] = own[w])
    BY <1>2, ZenonT(30) DEF Crash, Die, files
  <2>2. \A w \in Workers : Unused(w)'
    BY <2>1, Zenon DEF Removal, Unused, Removing
  <2> QED BY <2>1, <2>2, ZenonT(30) DEF Removal, EntryShape
<1>3. CASE LoseConfigMap
  <2>1. entry' = [m \in Models |-> NoEntry] /\ \A w \in Workers : pc'[w] = "idle"
    BY <1>3, Zenon DEF LoseConfigMap, Die, Removal, Exclusive, Shape
  <2>2. EntryShape'
    BY <2>1, EntriesKeepShape, Zenon DEF Removal
  <2> QED BY <2>1, <2>2, ZenonT(30) DEF Removal, Unused, Removing
<1> QED BY <1>1, <1>2, <1>3, Zenon

\* Every step, and every fault, keeps Removal.
LEMMA RemovalStep ==
  ASSUME Removal, [Next]_vars
  PROVE  Removal'
<1>1. Exclusive'
  BY ExclusiveStep, Zenon DEF Removal
<1>2. ASSUME NEW w \in Workers, Step(w)
      PROVE  Removal'
  BY <1>1, <1>2, OutsidersAreQuiet, InsidersAreSafe, FillersAreSafe, ClaimIsUnused,
     RemovalGoesOn, Zenon
  DEF Step, DownloadStep, DeleteStep
<1>3. ASSUME NEW w \in Workers, NEW k \in Kinds, NEW m \in Models, Start(w, k, m)
      PROVE  Removal'
  BY <1>1, <1>3, OutsidersAreQuiet, Zenon
<1> QED BY <1>1, <1>2, <1>3, EnvironmentIsQuiet, Zenon DEF Next

\* Only the end of a removal takes the directory away.
LEMMA OnlyRemovalEmpties ==
  ASSUME [Next]_vars, dir # "absent", dir' = "absent"
  PROVE  \E w \in Workers : pc[w] = "removing"
<1>1. ASSUME NEW w \in Workers, Step(w), ~ RemoveEnds(w)
      PROVE  FALSE
  <2>1. CASE \/ markModelOnNodeFailed(w) \/ Route(w) \/ Admit(w) \/ AcquireInitial(w) \/ AcquireRepair(w)
             \/ MarkBegins(w) \/ MarkEnds(w) \/ MarkParentReadyLabels(w) \/ MarkParentReady(w)
             \/ AttachLink(w) \/ AttachReference(w) \/ Validate(w) \/ FailChildren(w) \/ FailLabels(w)
             \/ RemoveMarker(w) \/ Release(w) \/ DeleteInstead(w) \/ PublishLabel(w) \/ PublishStatus(w)
    BY <2>1, Zenon DEF markModelOnNodeFailed, Route, Admit, AcquireInitial, AcquireRepair,
       MarkBegins, MarkEnds,
       MarkParentReadyLabels, MarkParentReady, AttachLink, AttachReference, Validate, FailChildren,
       FailLabels, RemoveMarker, Release, DeleteInstead, PublishLabel, PublishStatus, files
  <2>2. CASE ResetBegins(w) \/ ResetEnds(w) \/ FetchBegins(w) \/ FetchEnds(w) \/ RemoveBegins(w)
    BY <2>2, Zenon DEF ResetBegins, ResetEnds, FetchBegins, FetchEnds, RemoveBegins, RemoveSome
  <2>3. CASE \/ DetachUnreferenced(w) \/ DetachBlocked(w) \/ DetachReference(w) \/ Claim(w) \/ Unlink(w)
             \/ Forget(w) \/ Unclaim(w) \/ FinishReceipt(w) \/ Final(w)
             \/ CleanupIntent(w) \/ Cleanup(w) \/ DeleteOrdinary(w) \/ recover(w) \/ recoverParent(w)
             \/ Enter(w) \/ Settle(w)
    BY <2>3, ZenonT(30) DEF DetachUnreferenced, DetachBlocked, DetachReference, Claim, Unlink,
       Forget, Unclaim,
       FinishReceipt, Final, CleanupIntent, Cleanup, DeleteOrdinary, recover, recoverParent, Enter,
       Settle, files
  <2> QED BY <1>1, <2>1, <2>2, <2>3, Zenon DEF Step, DownloadStep, DeleteStep
<1>2. CASE \/ \E w \in Workers, k \in Kinds, m \in Models : Start(w, k, m)
           \/ \E m \in Models : ResourceChange(m)
           \/ \E a \in Agents : Crash(a)
           \/ LoseConfigMap \/ Rot \/ UNCHANGED vars
  BY <1>2, Zenon DEF Start, ResourceChange, Crash, LoseConfigMap, Die, Rot, vars, files
<1>3. CASE \E w \in Workers : Step(w)
  <2>1. PICK w \in Workers : RemoveEnds(w)
    BY <1>1, <1>3, Zenon
  <2> QED BY <2>1, Zenon DEF RemoveEnds
<1> QED BY <1>2, <1>3, Zenon DEF Next

\* No process has begun.
LEMMA RemovalAtFirst ==
  ASSUME Init
  PROVE  Removal
<1>1. Exclusive
  BY Zenon DEF Init, Exclusive, Shape, Owns, Inside, Holding, Writing, NoParent, Fields
<1>2. EntryShape /\ \A w \in Workers : Unused(w)
  BY Zenon DEF Init, EntryShape, NoEntry, Unused, Removing
<1> QED BY <1>1, <1>2, Zenon DEF Removal

\* The directory is removed only when nobody links to it, references it or has announced
\* a download into it, whatever crashed, was lost or was resumed in between: "Deleting
\* one consumer never deletes files another consumer still uses".
THEOREM RemovedOnlyUnusedHolds == Spec => RemovedOnlyUnused
<1>1. Init => Removal
  BY RemovalAtFirst, Zenon
<1>2. Removal /\ [Next]_vars => Removal'
  BY RemovalStep, Zenon
<1>3. Removal /\ [Next]_vars =>
        [dir # "absent" /\ dir' = "absent" =>
           /\ links = {} /\ parent.children = {}
           /\ \A m \in Models : ~ entry[m].intent]_vars
  <2> SUFFICES ASSUME Removal, [Next]_vars, dir # "absent", dir' = "absent"
               PROVE  links = {} /\ parent.children = {} /\ \A m \in Models : ~ entry[m].intent
    BY Zenon
  <2>1. PICK w \in Workers : pc[w] = "removing"
    BY OnlyRemovalEmpties, Zenon
  <2> QED BY <2>1, Zenon DEF Removal, Unused, Removing
<1> QED BY <1>1, <1>2, <1>3, PTL DEF Spec, RemovedOnlyUnused
-----------------------------------------------------------------------------
(***************************************************************************)
(* Types.  TypeOK is not inductive: a worker that has a task has its       *)
(* model, a lock is released to a status that a later retry may repeat,    *)
(* and only entries that exist are referenced.                             *)
(***************************************************************************)
Entries == {e \in [Models -> Entry] : \A m \in Models : e[m].ref => e[m].status # "absent"}

RecordTypes == parent \in Parent /\ entry \in Entries

Given == {"Updating", "Failed"}

WorkerTypes ==
  /\ flock \in Workers \cup {None}
  /\ mem \in [Agents -> Memory]
  /\ pc \in [Workers -> Places]
  /\ op \in [Workers -> Operation]
  /\ own \in [Workers -> MaybeLock]
  /\ \A w \in Workers : /\ pc[w] # "idle" => M(w) \in Models
                        /\ pc[w] = "abort" => op[w].to \in Given

OtherTypes ==
  /\ label \in [Models -> ModelStatus \cup {"none"}]
  /\ dir \in {"absent", "partial"} \cup Good
  /\ marker \in MaybeLock \cup {Torn}
  /\ links \subseteq Models
  /\ home \in [Workers -> Agents]
  /\ cr \in [Models -> {"live", "direct", "deleting"}]
  /\ faults \in Nat

Typed == RecordTypes /\ WorkerTypes /\ OtherTypes

\* The changes of the parent's record.
LEMMA ParentChanges ==
  ASSUME NEW p \in Parent, NEW e \in Entries, NEW l \in MaybeLock, NEW m \in Models
  PROVE  /\ tryAcquireLock(p, l) \in Parent
         /\ \A status \in ParentStatus : setParentStatus(p, status) \in Parent
         /\ saveChildStatuses(p, e) \in Parent
         /\ addToParent(p, m) \in Parent
         /\ removeFromParent(p, m, l) \in Parent
         /\ NoParent \in Parent
<1>1. NothingSaved \in [Models -> ModelStatus \cup {"none"}] /\ None \in MaybeLock
  BY Zenon DEF NothingSaved, MaybeLock
<1>2. NoParent \in Parent
  BY <1>1, Zenon DEF NoParent, Parent, ParentStatus
<1>3. \A q \in Parent : tryAcquireLock(q, l) \in Parent
  BY <1>1, Zenon DEF tryAcquireLock, Parent, ParentStatus
<1>4. \A status \in ParentStatus : setParentStatus(p, status) \in Parent
  BY <1>1, Zenon DEF setParentStatus, Parent
<1>5. saveChildStatuses(p, e) \in Parent
  <2>1. [n \in Models |-> IF n \in p.children /\ e[n].ref
                              /\ (p.saved[n] = "none" \/ e[n].status # "Failed")
                          THEN e[n].status ELSE p.saved[n]] \in [Models -> ModelStatus \cup {"none"}]
    BY Zenon DEF Entries, Entry, Parent
  <2> QED BY <2>1, Zenon DEF saveChildStatuses, Parent
<1>6. addToParent(p, m) \in Parent
  BY Zenon DEF addToParent, Parent
<1>7. removeFromParent(p, m, l) \in Parent
  <2>1. [p EXCEPT !.children = @ \ {m}, !.saved[m] = "none"] \in Parent
    BY Zenon DEF Parent
  <2> QED BY <1>3, <2>1, Zenon DEF removeFromParent
<1> QED BY <1>2, <1>3, <1>4, <1>5, <1>6, <1>7, Zenon

\* The changes of the models' records.
LEMMA EntryChanges ==
  ASSUME NEW p \in Parent, NEW e \in Entries, NEW m \in Models, NEW l \in MaybeLock
  PROVE  /\ \A status : setChildStatuses(p, e, status) \in Entries
         /\ failChildren(p, e) \in Entries
         /\ rememberDownload(e, m) \in Entries
         /\ beginPendingDownloadDeletion(e, m) \in Entries
         /\ e[m].status # "absent" => addToModel(e, m) \in Entries
         /\ removeFromModel(p, e, m, l) \in Entries
         /\ claimDeletion(p, e, m, l) \in Entries
         /\ finishPendingDeletion(e, m) \in Entries
         /\ [e EXCEPT ![m] = NoEntry] \in Entries
         /\ [n \in Models |-> NoEntry] \in Entries
<1>1. ASSUME NEW x \in Entry, x.ref => x.status # "absent"
      PROVE  [e EXCEPT ![m] = x] \in Entries
  BY <1>1, Zenon DEF Entries
<1>2. NoReceipt \in Receipt /\ NoEntry \in Entry /\ ~ NoEntry.ref
  BY Zenon DEF NoReceipt, NoEntry, Entry, Receipt, MaybeLock, ParentStatus
<1>3. e[m] \in Entry /\ (e[m].ref => e[m].status # "absent")
  BY Zenon DEF Entries
<1>4. \A status : setChildStatuses(p, e, status) \in Entries
  BY DEF setChildStatuses, Restorable, Entries, Entry, Parent, ModelStatus
<1>5. failChildren(p, e) \in Entries
  BY Zenon DEF failChildren, Entries, Entry, ModelStatus
<1>6. rememberDownload(e, m) \in Entries
  BY <1>1, <1>3, Zenon DEF rememberDownload, Entries, Entry
<1>7. beginPendingDownloadDeletion(e, m) \in Entries
  BY <1>2, <1>3, Zenon DEF beginPendingDownloadDeletion, Entries, Entry, Receipt
<1>8. e[m].status # "absent" => addToModel(e, m) \in Entries
  BY <1>3, Zenon DEF addToModel, Entries, Entry
<1>9. removeFromModel(p, e, m, l) \in Entries
  <2>1. [ held |-> TRUE, before |-> p.status,
          lock |-> IF LastReference(p, m) THEN l ELSE p.lock ] \in Receipt
    BY Zenon DEF Receipt, Parent
  <2> QED BY <1>3, <2>1, Zenon DEF removeFromModel, Entries, Entry
<1>10. claimDeletion(p, e, m, l) \in Entries
  <2>1. [ held |-> TRUE, lock |-> l, before |-> p.status ] \in Receipt
    BY Zenon DEF Receipt, Parent
  <2> QED BY <1>3, <2>1, Zenon DEF claimDeletion, Entries, Entry
<1>11. finishPendingDeletion(e, m) \in Entries
  BY <1>2, <1>3, Zenon DEF finishPendingDeletion, Entries, Entry
<1>12. [e EXCEPT ![m] = NoEntry] \in Entries
  BY <1>1, <1>2, Zenon
<1>13. [n \in Models |-> NoEntry] \in Entries
  BY <1>2, Zenon DEF Entries
<1> QED BY <1>4, <1>5, <1>6, <1>7, <1>8, <1>9, <1>10, <1>11, <1>12, <1>13, Zenon

\* w goes to place l, with a task, a lock ID and a memory of the right types.
MoveTo(w, l) ==
  /\ Goto(w, l)
  /\ \E o \in Operation :
       /\ op' = [op EXCEPT ![w] = o]
       /\ o.model \in Models
       /\ l = "abort" => o.to \in Given
  /\ \E x \in MaybeLock : own' = [own EXCEPT ![w] = x]
  /\ flock' \in Workers \cup {None}
  /\ mem' \in [Agents -> Memory]

LEMMA MoveToTypes ==
  ASSUME WorkerTypes, NEW w \in Workers, NEW l \in Places, MoveTo(w, l)
  PROVE  WorkerTypes'
<1>1. PICK o \in Operation : /\ op' = [op EXCEPT ![w] = o]
                             /\ o.model \in Models
                             /\ l = "abort" => o.to \in Given
  BY Zenon DEF MoveTo
<1>2. PICK x \in MaybeLock : own' = [own EXCEPT ![w] = x]
  BY ZenonT(30) DEF MoveTo
<1>3. pc' \in [Workers -> Places] /\ op' \in [Workers -> Operation] /\ own' \in [Workers -> MaybeLock]
  BY <1>1, <1>2, Zenon DEF WorkerTypes, MoveTo, Goto
<1>4. ASSUME NEW v \in Workers
      PROVE  /\ pc'[v] # "idle" => M(v)' \in Models
             /\ pc'[v] = "abort" => op'[v].to \in Given
  BY <1>1, Zenon DEF WorkerTypes, MoveTo, Goto, M
<1> QED BY <1>3, <1>4, Zenon DEF WorkerTypes, MoveTo

\* A step that only goes on, perhaps with another lock ID.
LEMMA GoTypes ==
  ASSUME WorkerTypes, NEW w \in Workers, pc[w] # "idle", NEW l \in Places \ {"abort"}, Goto(w, l),
         UNCHANGED op, UNCHANGED own \/ \E x \in MaybeLock : own' = [own EXCEPT ![w] = x],
         flock' \in Workers \cup {None}, mem' \in [Agents -> Memory]
  PROVE  WorkerTypes'
<1>1. op[w] \in Operation /\ op[w].model \in Models /\ op' = [op EXCEPT ![w] = op[w]]
  BY Zenon DEF WorkerTypes, M
<1>2. \E x \in MaybeLock : own' = [own EXCEPT ![w] = x]
  BY Zenon DEF WorkerTypes
<1> QED BY <1>1, <1>2, MoveToTypes, Zenon DEF MoveTo

\* finishParentWithError, and a deletion that owns the parent.
LEMMA AbortTypes ==
  ASSUME WorkerTypes, NEW w \in Workers, pc[w] # "idle", NEW status \in Given, Abort(w, status)
  PROVE  WorkerTypes'
<1>1. PICK o : o = [op[w] EXCEPT !.to = status]
  BY Zenon
<1>2. o \in Operation /\ o.model \in Models /\ o.to = status
  BY <1>1, ZenonT(30) DEF WorkerTypes, Operation, Given, ParentStatus, M
<1>3. op' = [op EXCEPT ![w] = o] /\ own' = [own EXCEPT ![w] = own[w]] /\ own[w] \in MaybeLock
  BY <1>1, Zenon DEF Abort, WorkerTypes
<1>4. MoveTo(w, "abort")
  BY <1>2, <1>3, Zenon DEF Abort, MoveTo, WorkerTypes
<1> QED BY <1>4, MoveToTypes, Zenon DEF Places

LEMMA OwnTypes ==
  ASSUME WorkerTypes, NEW w \in Workers, pc[w] # "idle", NEW x \in MaybeLock,
         NEW before \in ParentStatus, NEW l \in Places \ {"abort"}, Own(w, x, before, l)
  PROVE  WorkerTypes'
<1>1. PICK o : o = [op[w] EXCEPT !.to = before]
  BY Zenon
<1>2. o \in Operation /\ o.model \in Models
  BY <1>1, Zenon DEF WorkerTypes, Operation, M
<1>3. op' = [op EXCEPT ![w] = o]
  BY <1>1, Zenon DEF Own
<1>4. MoveTo(w, l)
  BY <1>2, <1>3, Zenon DEF Own, MoveTo, WorkerTypes
<1> QED BY <1>4, MoveToTypes, Zenon

\* A handler that returns.
LEMMA LeaveTypes ==
  ASSUME WorkerTypes, home \in [Workers -> Agents], NEW w \in Workers, pc[w] # "idle", NEW result,
         NEW memory \in [Agents -> Memory], Leave(w, result, memory)
  PROVE  WorkerTypes'
<1> DEFINE over(l) == l \in {"idle", "queue"}
<1>1. PICK l \in After(w, result) :
        /\ Goto(w, IF over(l) THEN "idle" ELSE l)
        /\ op' = [op EXCEPT ![w] = IF over(l) THEN Idle
                                   ELSE [Idle EXCEPT !.kind = op[w].kind, !.model = M(w)]]
        /\ own' = [own EXCEPT ![w] = None]
        /\ flock' = IF flock = w THEN None ELSE flock
        /\ mem' = IF l = "queue" THEN [memory EXCEPT ![home[w]].todo = @ \cup {M(w)}] ELSE memory
  BY Zenon DEF Leave
<1>2. After(w, result) \subseteq {"final", "cleanup", "publish", "failed", "idle", "queue"}
  BY Zenon DEF After, Requeued, GivesUp
<1>3. M(w) \in Models /\ op[w] \in Operation
  BY Zenon DEF WorkerTypes
<1>4. mem' \in [Agents -> Memory]
  <2>1. home[w] \in Agents /\ memory[home[w]] \in Memory
    BY Zenon
  <2>2. [memory EXCEPT ![home[w]].todo = @ \cup {M(w)}] \in [Agents -> Memory]
    BY <1>3, <2>1, Zenon DEF Memory
  <2> QED BY <1>1, <2>2, Zenon
<1>5. flock' \in Workers \cup {None} /\ None \in MaybeLock
  BY <1>1, Zenon DEF WorkerTypes, MaybeLock
<1>6. PICK o : o = IF over(l) THEN Idle ELSE [Idle EXCEPT !.kind = op[w].kind, !.model = M(w)]
  BY Zenon
<1>7. o \in Operation /\ (~ over(l) => o.model \in Models)
  BY <1>3, <1>6, ZenonT(30) DEF Idle, Operation, ParentStatus
<1>8. own' \in [Workers -> MaybeLock] /\ op' \in [Workers -> Operation]
  BY <1>1, <1>5, <1>6, <1>7, Zenon DEF WorkerTypes
<1>9. pc' \in [Workers -> Places]
  BY <1>1, <1>2, Zenon DEF WorkerTypes, Goto, Places
<1>10. ASSUME NEW v \in Workers
       PROVE  /\ pc'[v] # "idle" => M(v)' \in Models
              /\ pc'[v] = "abort" => op'[v].to \in Given
  <2>1. CASE v = w
    <3>1. op'[w] = o /\ pc'[w] = IF over(l) THEN "idle" ELSE l
      BY <1>1, <1>6, Zenon DEF WorkerTypes, Goto
    <3> QED BY <1>2, <1>7, <2>1, <3>1, Zenon DEF M
  <2>2. CASE v # w
    BY <1>1, <2>2, Zenon DEF WorkerTypes, Goto, M
  <2> QED BY <2>1, <2>2, Zenon
<1> QED BY <1>4, <1>5, <1>8, <1>9, <1>10, Zenon DEF WorkerTypes

LEMMA EndTypes ==
  ASSUME WorkerTypes, home \in [Workers -> Agents], NEW w \in Workers, pc[w] # "idle"
  PROVE  /\ \A result : End(w, result) => WorkerTypes'
         /\ \A result, x, status : x \in MaybeLock /\ status \in Given
                                     /\ EndOwing(w, result, x, status) => WorkerTypes'
<1>1. mem \in [Agents -> Memory] /\ home[w] \in Agents
  BY Zenon DEF WorkerTypes
<1>2. \A result : EndMemory(w, result) \in [Agents -> Memory]
  BY <1>1 DEF EndMemory, Memory
<1>3. ASSUME NEW result, NEW x \in MaybeLock, NEW status \in Given
      PROVE  [EndMemory(w, result) EXCEPT ![home[w]].release = x,
                                          ![home[w]].releaseTo = status] \in [Agents -> Memory]
  <2>1. PICK memory \in [Agents -> Memory] : memory = EndMemory(w, result)
    BY <1>2, Zenon
  <2>2. \A known \in Memory : [known EXCEPT !.release = x, !.releaseTo = status] \in Memory
    BY <1>3, Zenon DEF Memory, Given
  <2>3. [memory EXCEPT ![home[w]] = [memory[home[w]] EXCEPT !.release = x, !.releaseTo = status]]
          \in [Agents -> Memory]
    BY <1>1, <2>2, Zenon
  <2>4. [memory EXCEPT ![home[w]].release = x, ![home[w]].releaseTo = status]
          = [memory EXCEPT ![home[w]] = [memory[home[w]] EXCEPT !.release = x, !.releaseTo = status]]
    BY <1>1, ZenonT(30)
  <2> QED BY <2>1, <2>3, <2>4, Zenon
<1> QED BY <1>2, <1>3, LeaveTypes, Zenon DEF End, EndOwing

\* A worker at a step has a model.
LEMMA Busy ==
  ASSUME WorkerTypes, NEW w \in Workers, Step(w)
  PROVE  pc[w] # "idle" /\ M(w) \in Models
<1>1. pc[w] # "idle"
  BY Zenon
  DEF Step, DownloadStep, DeleteStep, CleanupIntent, Cleanup, DeleteOrdinary, recover, recoverParent,
      Enter, Settle, markModelOnNodeFailed, Route, Admit, AcquireInitial, AcquireRepair, ResetBegins,
      ResetEnds, FetchBegins, FetchEnds, MarkBegins, MarkEnds, MarkParentReadyLabels,
      MarkParentReady, AttachLink, AttachReference, Validate, FailChildren, FailLabels, RemoveMarker,
      Release, DeleteInstead, PublishLabel, PublishStatus, DetachUnreferenced, DetachBlocked,
      DetachReference, Claim, Unlink, RemoveBegins, RemoveEnds, Forget, Unclaim, FinishReceipt, Final
<1> QED BY <1>1, Zenon DEF WorkerTypes

\* What a worker knows of locks and statuses.
LEMMA Known ==
  ASSUME Typed, NEW w \in Workers
  PROVE  /\ own[w] \in MaybeLock /\ None \in MaybeLock /\ FreshLocks \subseteq MaybeLock
         /\ parent.lock \in MaybeLock /\ parent.status \in ParentStatus
         /\ op[w].to \in ParentStatus
         /\ StatusAfterDeletion(w) \in ParentStatus
         /\ StatusAfterDeletion(w) # "Ready" => StatusAfterDeletion(w) \in Given
         /\ home[w] \in Agents /\ Mem(w) \in Memory
         /\ Mem(w).release \in MaybeLock /\ Mem(w).releaseTo \in Given
<1>1. own[w] \in MaybeLock /\ op[w] \in Operation /\ home[w] \in Agents
  BY Zenon DEF Typed, WorkerTypes, OtherTypes
<1>2. None \in MaybeLock /\ FreshLocks \subseteq MaybeLock
  BY Zenon DEF MaybeLock, FreshLocks
<1>3. parent.lock \in MaybeLock /\ parent.status \in ParentStatus /\ op[w].to \in ParentStatus
  BY <1>1, Zenon DEF Typed, RecordTypes, Parent, Operation
<1>4. /\ StatusAfterDeletion(w) \in ParentStatus
      /\ StatusAfterDeletion(w) # "Ready" => StatusAfterDeletion(w) \in Given
  BY Zenon DEF StatusAfterDeletion, ParentStatus, Given
<1>5. Mem(w) \in Memory
  BY <1>1, Zenon DEF Typed, WorkerTypes, Mem
<1>6. Mem(w).release \in MaybeLock /\ Mem(w).releaseTo \in Given
  BY <1>5, Zenon DEF Memory, Given
<1> QED BY <1>1, <1>2, <1>3, <1>4, <1>5, <1>6, Zenon

\* The records after a compare-and-swap.
Stores(p, e) == parent' \in {parent, p} /\ entry' \in {entry, e}

LEMMA StoresTypes ==
  ASSUME RecordTypes, NEW p \in Parent, NEW e \in Entries, Stores(p, e)
  PROVE  RecordTypes'
BY Zenon DEF RecordTypes, Stores

\* setStatus stores a status of the parent.
StoresStatus == \E status \in ParentStatus : Stores(setParentStatus(parent, status),
                                                  setChildStatuses(parent, entry, status))

LEMMA StoresStatusTypes ==
  ASSUME RecordTypes, StoresStatus, Models # {}
  PROVE  RecordTypes'
<1>1. PICK m : m \in Models
  BY Zenon
<1>2. PICK status \in ParentStatus : Stores(setParentStatus(parent, status),
                                            setChildStatuses(parent, entry, status))
  BY Zenon DEF StoresStatus
<1>3. parent \in Parent /\ entry \in Entries /\ None \in MaybeLock
  BY Zenon DEF RecordTypes, MaybeLock
<1> QED BY <1>1, <1>2, <1>3, ParentChanges, EntryChanges, StoresTypes, Zenon

\* The records after each step of a worker.
LEMMA StepRecords ==
  ASSUME Typed, NEW w \in Workers, Step(w)
  PROVE  RecordTypes'
<1>1. /\ RecordTypes /\ parent \in Parent /\ entry \in Entries /\ M(w) \in Models
      /\ None \in MaybeLock /\ FreshLocks \subseteq MaybeLock
  BY Busy, Known, Zenon DEF Typed, RecordTypes
<1>2. CASE UNCHANGED <<parent, entry>>
  BY <1>1, <1>2, Zenon DEF RecordTypes
<1>3. CASE \/ recover(w) \/ recoverParent(w) \/ Settle(w) \/ MarkParentReady(w) \/ Release(w)
           \/ Unclaim(w)
  <2>1. /\ "Ready" \in ParentStatus /\ "Updating" \in ParentStatus /\ Mem(w).releaseTo \in ParentStatus
        /\ op[w].to \in ParentStatus /\ StatusAfterDeletion(w) \in ParentStatus
    BY Known, Zenon DEF ParentStatus, Given
  <2>2. UNCHANGED <<parent, entry>> \/ StoresStatus
    BY <1>3, <2>1, ZenonT(60) DEF recover, recoverParent, Settle, MarkParentReady, Release, Unclaim,
       SettleAbandoned, SetStatus, Write, NoWrite, StoresStatus, Stores
  <2> QED BY <1>1, <1>2, <2>2, StoresStatusTypes, Zenon
<1>4. CASE \/ AcquireInitial(w) \/ AcquireRepair(w) \/ Forget(w) \/ FailChildren(w)
           \/ DetachReference(w) \/ Claim(w)
  <2>1. \/ UNCHANGED <<parent, entry>>
        \/ \E l \in FreshLocks : Stores(tryAcquireLock(parent, l), entry)
        \/ Stores(NoParent, entry)
        \/ Stores(saveChildStatuses(parent, entry), failChildren(parent, entry))
        \/ \E l \in FreshLocks : Stores(removeFromParent(parent, M(w), l),
                                        removeFromModel(parent, entry, M(w), l))
        \/ \E l \in FreshLocks : Stores(tryAcquireLock(parent, l), claimDeletion(parent, entry, M(w), l))
    BY <1>4, ZenonT(60) DEF AcquireInitial, AcquireRepair, Forget, FailChildren, DetachReference, Claim,
       TakeLock, Write, NoWrite, Stores
  <2> QED BY <1>1, <1>2, <2>1, ParentChanges, EntryChanges, StoresTypes, Zenon
<1>5. CASE \/ CleanupIntent(w) \/ Admit(w) \/ AttachReference(w) \/ FinishReceipt(w) \/ Final(w)
  <2>1. \/ UNCHANGED <<parent, entry>>
        \/ Stores(parent, beginPendingDownloadDeletion(entry, M(w)))
        \/ Stores(parent, rememberDownload(entry, M(w)))
        \/ /\ entry[M(w)].status # "absent"
           /\ Stores(addToParent(parent, M(w)), addToModel(entry, M(w)))
        \/ Stores(parent, finishPendingDeletion(entry, M(w)))
        \/ Stores(parent, [entry EXCEPT ![M(w)] = NoEntry])
    BY <1>5, ZenonT(60) DEF CleanupIntent, Admit, AttachReference, FinishReceipt, Final,
       CanAddReference, Write, NoWrite, Stores
  <2> QED BY <1>1, <1>2, <2>1, ParentChanges, EntryChanges, StoresTypes, Zenon
<1>6. CASE markModelOnNodeFailed(w) \/ PublishStatus(w)
  <2>1. \E status \in ModelStatus : Stores(parent, WithStatus(M(w), status))
    BY <1>6, ZenonT(60) DEF markModelOnNodeFailed, PublishStatus, Publish, Write, NoWrite, Stores,
       ModelStatus
  <2>2. \A status \in ModelStatus : WithStatus(M(w), status) \in Entries
    BY <1>1, Zenon DEF WithStatus, Entries, Entry, ModelStatus
  <2> QED BY <1>1, <2>1, <2>2, StoresTypes, Zenon
<1>7. \/ UNCHANGED <<parent, entry>>
      \/ recover(w) \/ recoverParent(w) \/ Settle(w) \/ MarkParentReady(w) \/ Release(w) \/ Unclaim(w)
      \/ AcquireInitial(w) \/ AcquireRepair(w) \/ Forget(w) \/ FailChildren(w)
      \/ DetachReference(w) \/ Claim(w)
      \/ CleanupIntent(w) \/ Admit(w) \/ AttachReference(w) \/ FinishReceipt(w) \/ Final(w)
      \/ markModelOnNodeFailed(w) \/ PublishStatus(w)
  BY Zenon
  DEF Step, DownloadStep, DeleteStep, Cleanup, DeleteOrdinary, Enter, Route, ResetBegins, ResetEnds,
      FetchBegins, FetchEnds, MarkBegins, MarkEnds, MarkParentReadyLabels, AttachLink, Validate,
      FailLabels, RemoveMarker, DeleteInstead, PublishLabel, DetachUnreferenced, DetachBlocked, Unlink,
      RemoveBegins, RemoveEnds
<1> QED BY <1>2, <1>3, <1>4, <1>5, <1>6, <1>7, Zenon

\* Where a worker may go on.
Onward == Places \ {"abort"}

\* w goes on with its task, and perhaps takes the file lock.
Goes(w) ==
  /\ \E l \in Onward : Goto(w, l)
  /\ UNCHANGED op
  /\ UNCHANGED own \/ \E x \in MaybeLock : own' = [own EXCEPT ![w] = x]
  /\ flock' \in {flock, w}
  /\ UNCHANGED mem \/ \E memory \in Memory : Remember(w, memory)

\* What a step of w does to the workers.
Proceeds(w) ==
  \/ Goes(w)
  \/ \E result : End(w, result)
  \/ \E result : \E x \in MaybeLock, status \in Given : EndOwing(w, result, x, status)
  \/ \E result : \E memory \in [Agents -> Memory] : Leave(w, result, memory)
  \/ \E status \in Given : Abort(w, status)
  \/ \E x \in MaybeLock, before \in ParentStatus, l \in Onward : Own(w, x, before, l)
  \/ \E l \in Places : MoveTo(w, l)

LEMMA ProceedsTypes ==
  ASSUME Typed, NEW w \in Workers, pc[w] # "idle", Proceeds(w)
  PROVE  WorkerTypes'
<1>1. WorkerTypes /\ home \in [Workers -> Agents] /\ home[w] \in Agents
  BY Zenon DEF Typed, OtherTypes
<1>2. CASE Goes(w)
  <2>1. flock' \in Workers \cup {None}
    BY <1>1, <1>2, Zenon DEF Goes, WorkerTypes
  <2>2. mem' \in [Agents -> Memory]
    BY <1>1, <1>2, Zenon DEF Goes, WorkerTypes, Remember
  <2> QED BY <1>1, <1>2, <2>1, <2>2, GoTypes, Zenon DEF Goes, Onward
<1>3. CASE \/ \E result : End(w, result)
           \/ \E result : \E x \in MaybeLock, status \in Given : EndOwing(w, result, x, status)
  BY <1>1, <1>3, EndTypes, Zenon
<1>4. CASE \E result : \E memory \in [Agents -> Memory] : Leave(w, result, memory)
  BY <1>1, <1>4, LeaveTypes, Zenon
<1>5. CASE \/ \E status \in Given : Abort(w, status)
           \/ \E x \in MaybeLock, before \in ParentStatus, l \in Onward : Own(w, x, before, l)
  BY <1>1, <1>5, AbortTypes, OwnTypes, Zenon DEF Onward
<1>6. CASE \E l \in Places : MoveTo(w, l)
  BY <1>1, <1>6, MoveToTypes, Zenon
<1> QED BY <1>2, <1>3, <1>4, <1>5, <1>6, Zenon DEF Proceeds

\* A step that goes on or returns.
LEMMA PlainStepsProceed ==
  ASSUME Typed, NEW w \in Workers,
         \/ CleanupIntent(w) \/ DeleteOrdinary(w) \/ markModelOnNodeFailed(w) \/ ResetBegins(w)
         \/ FetchBegins(w) \/ MarkEnds(w) \/ MarkParentReadyLabels(w) \/ MarkParentReady(w)
         \/ AttachLink(w) \/ AttachReference(w) \/ PublishLabel(w) \/ PublishStatus(w)
         \/ DetachUnreferenced(w) \/ DetachBlocked(w) \/ Unlink(w) \/ RemoveBegins(w)
         \/ RemoveEnds(w) \/ Forget(w) \/ FinishReceipt(w) \/ Enter(w)
  PROVE  Proceeds(w)
<1>1. /\ parent.lock \in MaybeLock /\ None \in MaybeLock
  BY Known, ZenonT(30)
<1>2. /\ {"cleanup", "legacy", "final", "resetting", "fetching", "relabel", "ready", "attach", "addref",
          "detach", "status", "receipt", "unclaim", "remove", "removing", "forget", "settle", "claim",
          "admit"} \subseteq Onward
      /\ Finish(w) \in Onward /\ Dispatch(w) \in Onward
  <2>1. {"cleanup", "legacy", "final", "resetting", "fetching", "relabel", "ready", "attach", "addref",
         "detach"} \subseteq Onward
    BY DEF Onward, Places
  <2>2. {"status", "receipt", "unclaim", "remove", "removing", "forget", "settle", "claim",
         "admit"} \subseteq Onward
    BY DEF Onward, Places
  <2>3. Finish(w) \in {"relabel", "ready"} /\ Dispatch(w) \in {"detach", "claim", "admit", "attach"}
    BY Zenon DEF Finish, Dispatch
  <2> QED BY <2>1, <2>2, <2>3, Zenon
<1>3. (\E l \in Onward : Go(w, l)) \/ (\E result : End(w, result)) => Proceeds(w)
  BY Zenon DEF Proceeds, Goes, Go
<1>4. CASE \/ CleanupIntent(w) \/ DeleteOrdinary(w) \/ markModelOnNodeFailed(w) \/ ResetBegins(w)
           \/ FetchBegins(w) \/ MarkEnds(w) \/ MarkParentReadyLabels(w) \/ AttachLink(w)
           \/ AttachReference(w) \/ PublishStatus(w) \/ DetachUnreferenced(w) \/ Unlink(w)
           \/ RemoveBegins(w) \/ RemoveEnds(w) \/ FinishReceipt(w)
  <2>1. (\E l \in Onward : Go(w, l)) \/ (\E result : End(w, result))
    BY <1>2, <1>4, Zenon
    DEF CleanupIntent, DeleteOrdinary, markModelOnNodeFailed, ResetBegins, FetchBegins,
       MarkEnds, MarkParentReadyLabels, AttachLink, AttachReference, PublishStatus,
       DetachUnreferenced, Unlink, RemoveBegins, RemoveEnds, FinishReceipt, Write, NoWrite
  <2> QED BY <1>3, <2>1, Zenon
<1>5. CASE MarkParentReady(w) \/ PublishLabel(w) \/ DetachBlocked(w) \/ Forget(w) \/ Enter(w)
  <2>1. Goes(w) \/ \E result : End(w, result)
    BY <1>1, <1>2, <1>5, Zenon
    DEF MarkParentReady, PublishLabel, DetachBlocked, Forget, Enter, Disown, Goes,
       SetStatus, Write, NoWrite
  <2> QED BY <2>1, Zenon DEF Proceeds
<1> QED BY <1>4, <1>5, Zenon

\* The steps of a download that may be cut short.
LEMMA AbortableStepsProceed ==
  ASSUME Typed, NEW w \in Workers,
         \/ ResetEnds(w) \/ FetchEnds(w) \/ MarkBegins(w) \/ FailChildren(w) \/ FailLabels(w)
         \/ RemoveMarker(w)
  PROVE  Proceeds(w)
<1>1. {"fetching", "mark", "marking", "faillabels", "unmark", "fetch"} \subseteq Onward
  BY ZenonT(30) DEF Onward, Places
<1>2. (\E l \in Onward : Go(w, l)) \/ \E status \in Given : Abort(w, status)
  BY <1>1, Zenon
  DEF ResetEnds, FetchEnds, MarkBegins, FailChildren, FailLabels, RemoveMarker, Interrupted,
     Write, Given
<1> QED BY <1>2, Zenon DEF Proceeds, Goes, Go

\* Locks are taken, and released.
LEMMA LockStepsProceed ==
  ASSUME Typed, NEW w \in Workers, pc[w] # "idle",
         \/ Admit(w) \/ AcquireInitial(w) \/ AcquireRepair(w) \/ Release(w) \/ Unclaim(w)
         \/ DetachReference(w) \/ Claim(w)
  PROVE  Proceeds(w)
<1>1. /\ parent.lock \in MaybeLock /\ None \in MaybeLock /\ own[w] \in MaybeLock
      /\ FreshLocks \subseteq MaybeLock /\ parent.status \in ParentStatus
      /\ StatusAfterDeletion(w) # "Ready" => StatusAfterDeletion(w) \in Given
  BY Known, Zenon
<1>2. /\ {"acquire", "attach", "reset", "validate", "receipt", "claim", "unlink", "unclaim"}
           \subseteq Onward
      /\ Finish(w) \in Onward /\ "Updating" \in Given
  BY DEF Onward, Places, Finish, Given
<1>3. M(w) \in Models
  BY Zenon DEF Typed, WorkerTypes
<1>4. entry[M(w)].receipt.lock \in MaybeLock /\ entry[M(w)].receipt.before \in ParentStatus
  BY <1>3, Zenon DEF Typed, RecordTypes, Entries, Entry, Receipt
<1>5. CASE Admit(w)
  <2>1. Goes(w) \/ \E result : End(w, result)
    BY <1>1, <1>2, <1>5, ZenonT(30) DEF Admit, Goes, Write, NoWrite
  <2> QED BY <2>1, Zenon DEF Proceeds
<1>6. CASE AcquireInitial(w) \/ AcquireRepair(w)
  <2>1. \/ Goes(w) \/ \E result : End(w, result)
        \/ \E l \in FreshLocks : EndOwing(w, "retry", l, "Updating")
    BY <1>1, <1>2, <1>6, ZenonT(30) DEF AcquireInitial, AcquireRepair, TakeLock, Goes, Write, NoWrite
  <2> QED BY <1>1, <1>2, <2>1, ZenonT(30) DEF Proceeds
<1>7. CASE Release(w)
  <2>1. op[w].to \in Given
    BY <1>7, ZenonT(30) DEF Release, Typed, WorkerTypes
  <2>2. (\E result : End(w, result)) \/ EndOwing(w, "retry", own[w], op[w].to)
    BY <1>7, ZenonT(30) DEF Release, SetStatus, Write, NoWrite
  <2> QED BY <1>1, <2>1, <2>2, ZenonT(30) DEF Proceeds
<1>8. CASE Unclaim(w)
  <2>1. \/ Goes(w) \/ \E result : End(w, result)
        \/ /\ StatusAfterDeletion(w) # "Ready"
           /\ \E result : EndOwing(w, result, own[w], StatusAfterDeletion(w))
    BY <1>1, <1>2, <1>8, ZenonT(30) DEF Unclaim, Disown, Goes, SetStatus, Write, NoWrite
  <2> QED BY <1>1, <2>1, ZenonT(30) DEF Proceeds
<1>9. CASE DetachReference(w)
  <2>1. \/ Goes(w) \/ \E result : End(w, result)
        \/ \E l \in FreshLocks : Own(w, l, parent.status, "unclaim")
    BY <1>2, <1>9, Zenon DEF DetachReference, Go, Goes, Write
  <2> QED BY <1>1, <1>2, <2>1, ZenonT(30) DEF Proceeds
<1>10. CASE Claim(w)
  <2>1. \/ Goes(w) \/ \E result : End(w, result)
        \/ \E l \in FreshLocks : Own(w, l, parent.status, "unlink")
        \/ Own(w, entry[M(w)].receipt.lock, entry[M(w)].receipt.before, "unlink")
    BY <1>2, <1>10, Zenon DEF Claim, Go, Goes, Write, NoWrite
  <2> QED BY <1>1, <1>2, <1>4, <2>1, ZenonT(30) DEF Proceeds
<1> QED BY <1>5, <1>6, <1>7, <1>8, <1>9, <1>10, Zenon

\* What the worker learns about its task.
Tasked(w) == {o \in Operation : o.model = M(w)}

LEMMA TaskChanges ==
  ASSUME NEW w, op[w] \in Operation,
         NEW aim \in {"resume", "release", "download", "plain", "override"}, NEW keep \in BOOLEAN
  PROVE  /\ [op[w] EXCEPT !.aim = aim] \in Tasked(w)
         /\ [op[w] EXCEPT !.once = TRUE, !.aim = aim] \in Tasked(w)
         /\ [op[w] EXCEPT !.aim = aim, !.keep = keep] \in Tasked(w)
         /\ [op[w] EXCEPT !.checked = TRUE] \in Tasked(w)
         /\ [op[w] EXCEPT !.checked = TRUE, !.to = "Failed"] \in Tasked(w)
         /\ [op[w] EXCEPT !.checked = TRUE, !.to = "Failed"].to \in Given
         /\ [op[w] EXCEPT !.kind = "Delete"] \in Tasked(w)
<1>1. [op[w] EXCEPT !.aim = aim] \in Tasked(w)
  BY Zenon DEF Tasked, M, Operation
<1>2. [op[w] EXCEPT !.once = TRUE, !.aim = aim] \in Tasked(w)
  BY Zenon DEF Tasked, M, Operation
<1>3. [op[w] EXCEPT !.aim = aim, !.keep = keep] \in Tasked(w)
  BY Zenon DEF Tasked, M, Operation
<1>4. [op[w] EXCEPT !.checked = TRUE] \in Tasked(w)
  BY Zenon DEF Tasked, M, Operation
<1>5. /\ [op[w] EXCEPT !.checked = TRUE, !.to = "Failed"] \in Tasked(w)
      /\ [op[w] EXCEPT !.checked = TRUE, !.to = "Failed"].to \in Given
  BY ZenonT(30) DEF Tasked, M, Operation, Given, ParentStatus
<1>6. [op[w] EXCEPT !.kind = "Delete"] \in Tasked(w)
  BY Zenon DEF Tasked, M, Operation
<1> QED BY <1>1, <1>2, <1>3, <1>4, <1>5, <1>6, Zenon

\* A worker whose task changes goes on with the model that it has.
LEMMA Retasked ==
  ASSUME Typed, NEW w \in Workers, pc[w] # "idle", NEW l \in Places, NEW o \in Tasked(w), Goto(w, l),
         op' = [op EXCEPT ![w] = o], l = "abort" => o.to \in Given,
         UNCHANGED <<own, flock>>, UNCHANGED mem \/ \E memory \in Memory : Remember(w, memory)
  PROVE  Proceeds(w)
<1>1. own' = [own EXCEPT ![w] = own[w]] /\ own[w] \in MaybeLock /\ M(w) \in Models
  BY Zenon DEF Typed, WorkerTypes
<1>2. mem' \in [Agents -> Memory] /\ flock' \in Workers \cup {None}
  BY DEF Typed, WorkerTypes, OtherTypes, Remember
<1>3. MoveTo(w, l)
  BY <1>1, <1>2, Zenon DEF MoveTo, Tasked
<1> QED BY <1>3, Zenon DEF Proceeds

LEMMA TaskStepsProceed ==
  ASSUME Typed, NEW w \in Workers, pc[w] # "idle",
         Cleanup(w) \/ Route(w) \/ Validate(w) \/ DeleteInstead(w)
  PROVE  Proceeds(w)
<1>1. op[w] \in Operation /\ Mem(w) \in Memory
  BY Known, Zenon DEF Typed, WorkerTypes
<1>2. /\ {"reparent", "recover", "legacy", "enter", "mark", "failkids", "cleanup"} \subseteq Onward
      /\ Onward \subseteq Places /\ "abort" \in Places
  BY DEF Onward, Places
<1>4. CASE Cleanup(w)
  <2>1. CASE Aim(w) = "none"
    BY <1>2, <1>4, <2>1, Zenon DEF Cleanup, Proceeds, Goes, Go
  <2>2. CASE End(w, "error")
    BY <2>2, Zenon DEF Proceeds
  <2>3. CASE Aim(w) # "none" /\ ~ End(w, "error")
    <3>1. PICK used \in BOOLEAN, l \in {"reparent", "recover"} :
            /\ op' = [op EXCEPT ![w].aim = Aim(w), ![w].keep = used]
            /\ Goto(w, l) /\ UNCHANGED <<flock, mem, own>>
      BY <1>4, <2>3, Zenon DEF Cleanup
    <3>2. PICK o : o = [op[w] EXCEPT !.aim = Aim(w), !.keep = used]
      BY Zenon
    <3>3. Aim(w) \in {"resume", "release", "download"}
      BY <2>3, Zenon DEF Aim
    <3>4. o \in Tasked(w)
      BY <1>1, <3>2, <3>3, TaskChanges, Zenon
    <3>5. op' = [op EXCEPT ![w] = o]
      BY <3>1, <3>2, Zenon
    <3>6. l \in Places /\ l # "abort"
      BY <1>2, Zenon
    <3> QED BY <3>1, <3>4, <3>5, <3>6, Retasked, Zenon
  <2> QED BY <2>1, <2>2, <2>3, Zenon
<1>5. CASE Route(w)
  <2>1. CASE \E result : End(w, result)
    BY <2>1, Zenon DEF Proceeds
  <2>2. CASE ~ \E result : End(w, result)
    <3>1. PICK aim \in {"plain", "override"} :
            /\ \/ op' = [op EXCEPT ![w].once = TRUE, ![w].aim = aim]
               \/ op' = [op EXCEPT ![w].aim = aim]
            /\ Goto(w, "enter") /\ UNCHANGED <<flock, own>>
            /\ UNCHANGED mem \/ Remember(w, [Mem(w) EXCEPT !.pending = "busy"])
      BY <1>5, <2>2, Zenon DEF Route
    <3>2. PICK o : /\ op' = [op EXCEPT ![w] = o]
                   /\ \/ o = [op[w] EXCEPT !.once = TRUE, !.aim = aim]
                      \/ o = [op[w] EXCEPT !.aim = aim]
      BY <3>1, ZenonT(30)
    <3>3. o \in Tasked(w)
      <4>1. TRUE \in BOOLEAN /\ aim \in {"resume", "release", "download", "plain", "override"}
        BY Zenon
      <4>2. /\ [op[w] EXCEPT !.once = TRUE, !.aim = aim] \in Tasked(w)
            /\ [op[w] EXCEPT !.aim = aim] \in Tasked(w)
        BY <1>1, <4>1, TaskChanges, Zenon
      <4> QED BY <3>2, <4>2, Zenon
    <3>4. [Mem(w) EXCEPT !.pending = "busy"] \in Memory
      BY <1>1, Zenon DEF Memory
    <3>5. "enter" \in Places /\ "enter" # "abort"
      BY <1>2, Zenon
    <3> QED BY <3>1, <3>2, <3>3, <3>4, <3>5, Retasked, Zenon
  <2> QED BY <2>1, <2>2, Zenon
<1>6. CASE Validate(w)
  <2>1. CASE Interrupted(w)
    BY <2>1, Zenon DEF Interrupted, Proceeds, Given
  <2>2. CASE ~ Interrupted(w)
    <3>1. /\ UNCHANGED <<flock, mem, own>>
          /\ \/ /\ op' = [op EXCEPT ![w].checked = TRUE, ![w].to = "Failed"]
                /\ Goto(w, "abort")
             \/ /\ op' = [op EXCEPT ![w].checked = TRUE]
                /\ Goto(w, "mark") \/ Goto(w, "failkids")
      BY <1>6, <2>2, Zenon DEF Validate
    <3>2. PICK o, l :
            /\ op' = [op EXCEPT ![w] = o] /\ Goto(w, l)
            /\ \/ o = [op[w] EXCEPT !.checked = TRUE, !.to = "Failed"] /\ l = "abort"
               \/ o = [op[w] EXCEPT !.checked = TRUE] /\ l \in {"mark", "failkids"}
      BY <3>1, ZenonT(30)
    <3>3. o \in Tasked(w) /\ (l = "abort" => o.to \in Given) /\ l \in Places
      BY <1>1, <1>2, <3>2, TaskChanges, ZenonT(30)
    <3> QED BY <3>1, <3>2, <3>3, Retasked, Zenon
  <2> QED BY <2>1, <2>2, Zenon
<1>7. CASE DeleteInstead(w)
  <2>1. PICK o : o = [op[w] EXCEPT !.kind = "Delete"]
    BY Zenon
  <2>2. o \in Tasked(w)
    BY <1>1, <2>1, TaskChanges, Zenon
  <2>3. op' = [op EXCEPT ![w] = o] /\ Goto(w, "cleanup") /\ UNCHANGED <<own, flock, mem>>
    BY <1>7, <2>1, Zenon DEF DeleteInstead
  <2>4. "cleanup" \in Places /\ "cleanup" # "abort"
    BY <1>2, Zenon
  <2> QED BY <2>2, <2>3, <2>4, Retasked, Zenon
<1> QED BY <1>4, <1>5, <1>6, <1>7, Zenon

\* The steps that change what a process remembers.
LEMMA MemoryStepsProceed ==
  ASSUME Typed, NEW w \in Workers, pc[w] # "idle",
         recover(w) \/ recoverParent(w) \/ Settle(w) \/ Final(w)
  PROVE  Proceeds(w)
<1>1. /\ Mem(w) \in Memory /\ None \in MaybeLock /\ home[w] \in Agents
      /\ mem \in [Agents -> Memory] /\ M(w) \in Models
  BY Known, ZenonT(30) DEF Typed, WorkerTypes
<1>2. /\ {"reparent", "route", "enter"} \subseteq Onward /\ Dispatch(w) \in Onward
  BY ZenonT(30) DEF Onward, Places, Dispatch
<1>3. /\ \A pending \in {"none", "idle"}, deferred \in BOOLEAN :
           [Mem(w) EXCEPT !.recovered = TRUE, !.pending = pending, !.deferred = deferred] \in Memory
      /\ [Mem(w) EXCEPT !.deferred = FALSE] \in Memory
      /\ [Mem(w) EXCEPT !.release = None] \in Memory
  BY <1>1, Zenon DEF Memory
<1>4. CASE recover(w)
  <2>1. \/ \E result : End(w, result)
        \/ Go(w, "reparent")
        \/ /\ \E pending \in {"none", "idle"}, deferred \in BOOLEAN :
                Remember(w, [Mem(w) EXCEPT !.recovered = TRUE, !.pending = pending,
                                           !.deferred = deferred])
           /\ Goto(w, "reparent") /\ UNCHANGED <<flock, op, own>>
    BY <1>4, ZenonT(30) DEF recover, SettleAbandoned, SetStatus, Write, NoWrite
  <2>2. Goes(w) \/ \E result : End(w, result)
    BY <1>2, <1>3, <2>1, Zenon DEF Goes, Go
  <2> QED BY <2>2, Zenon DEF Proceeds
<1>5. CASE recoverParent(w)
  <2>1. \/ Leave(w, "retry", [mem EXCEPT ![home[w]].deferred = TRUE])
        \/ /\ Remember(w, [Mem(w) EXCEPT !.deferred = FALSE])
           /\ Goto(w, "route") \/ Goto(w, "enter")
           /\ UNCHANGED <<flock, op, own>>
    BY <1>5, Zenon DEF recoverParent, SettleAbandoned, SetStatus, Write, NoWrite
  <2>2. [mem EXCEPT ![home[w]].deferred = TRUE] \in [Agents -> Memory]
    <3>1. \A known \in Memory : [known EXCEPT !.deferred = TRUE] \in Memory
      BY Zenon DEF Memory
    <3>2. mem[home[w]] \in Memory
      BY <1>1, Zenon
    <3>3. [mem EXCEPT ![home[w]] = [mem[home[w]] EXCEPT !.deferred = TRUE]] \in [Agents -> Memory]
      BY <1>1, <3>1, <3>2, Zenon
    <3> QED BY <3>3, Zenon
  <2>3. Goes(w) \/ Leave(w, "retry", [mem EXCEPT ![home[w]].deferred = TRUE])
    BY <1>2, <1>3, <2>1, Zenon DEF Goes
  <2> QED BY <2>2, <2>3, Zenon DEF Proceeds
<1>6. CASE Settle(w)
  <2>1. \/ \E result : End(w, result)
        \/ /\ Remember(w, [Mem(w) EXCEPT !.release = None])
           /\ Goto(w, Dispatch(w)) /\ UNCHANGED <<flock, op, own>>
    BY <1>6, Zenon DEF Settle, SetStatus, Write, NoWrite
  <2>2. Goes(w) \/ \E result : End(w, result)
    BY <1>2, <1>3, <2>1, Zenon DEF Goes
  <2> QED BY <2>2, Zenon DEF Proceeds
<1>7. CASE Final(w)
  <2>1. \/ \E result : End(w, result)
        \/ Leave(w, "over", [mem EXCEPT ![home[w]].fenced = @ \cup {M(w)}])
    BY <1>7, ZenonT(30) DEF Final, Write, NoWrite
  <2>2. [mem EXCEPT ![home[w]].fenced = @ \cup {M(w)}] \in [Agents -> Memory]
    <3>1. \A known \in Memory : [known EXCEPT !.fenced = @ \cup {M(w)}] \in Memory
      BY <1>1, Zenon DEF Memory
    <3>2. mem[home[w]] \in Memory
      BY <1>1, Zenon
    <3>3. [mem EXCEPT ![home[w]] = [mem[home[w]] EXCEPT !.fenced = @ \cup {M(w)}]] \in [Agents -> Memory]
      BY <1>1, <3>1, <3>2, Zenon
    <3> QED BY <3>3, Zenon
  <2> QED BY <2>1, <2>2, Zenon DEF Proceeds
<1> QED BY <1>4, <1>5, <1>6, <1>7, Zenon

\* Every step of a worker.
LEMMA StepWorkers ==
  ASSUME Typed, NEW w \in Workers, Step(w)
  PROVE  WorkerTypes'
<1>1. pc[w] # "idle"
  BY Busy, Zenon DEF Typed
<1>2. Proceeds(w)
  BY <1>1, PlainStepsProceed, AbortableStepsProceed, LockStepsProceed, TaskStepsProceed,
     MemoryStepsProceed, Zenon DEF Step, DownloadStep, DeleteStep
<1> QED BY <1>1, <1>2, ProceedsTypes, Zenon

\* The files, labels, links and resources after each step of a worker.
LEMMA StepOthers ==
  ASSUME Typed, NEW w \in Workers, Step(w)
  PROVE  OtherTypes'
<1>1. M(w) \in Models /\ own[w] \in MaybeLock /\ None \in MaybeLock
  BY Busy, Known, Zenon DEF Typed
<1>2. UNCHANGED <<home, cr>>
  BY Zenon
  DEF Step, DownloadStep, DeleteStep, CleanupIntent, Cleanup, DeleteOrdinary, recover, recoverParent,
      Enter, Settle, markModelOnNodeFailed, Route, Admit, AcquireInitial, AcquireRepair, ResetBegins,
      ResetEnds, FetchBegins, FetchEnds, MarkBegins, MarkEnds, MarkParentReadyLabels,
      MarkParentReady, AttachLink, AttachReference, Validate, FailChildren, FailLabels, RemoveMarker,
      Release, DeleteInstead, PublishLabel, PublishStatus, DetachUnreferenced, DetachBlocked,
      DetachReference, Claim, Unlink, RemoveBegins, RemoveEnds, Forget, Unclaim, FinishReceipt, Final
<1>3. dir' \in {"absent", "partial"} \cup Good /\ marker' \in MaybeLock \cup {Torn}
  <2>1. /\ dir' \in {dir, "absent", "partial", "complete"}
        /\ marker' \in {marker, None, Torn, own[w]}
    BY ZenonT(60)
    DEF Step, DownloadStep, DeleteStep, CleanupIntent, Cleanup, DeleteOrdinary, recover,
        recoverParent, Enter, Settle, markModelOnNodeFailed, Route, Admit, AcquireInitial,
        AcquireRepair, ResetBegins, ResetEnds, FetchBegins, FetchEnds, MarkBegins, MarkEnds,
        MarkParentReadyLabels, MarkParentReady, AttachLink, AttachReference, Validate, FailChildren,
        FailLabels, RemoveMarker, Release, DeleteInstead, PublishLabel, PublishStatus,
        DetachUnreferenced, DetachBlocked, DetachReference, Claim, Unlink, RemoveBegins, RemoveEnds,
        Forget, Unclaim, FinishReceipt, Final, RemoveSome, files
  <2> QED BY <1>1, <2>1, Zenon DEF Typed, OtherTypes, Good
<1>4. links' \subseteq Models
  <2>1. links' \in {links, links \cup {M(w)}, links \ {M(w)}}
    BY ZenonT(60)
    DEF Step, DownloadStep, DeleteStep, CleanupIntent, Cleanup, DeleteOrdinary, recover,
        recoverParent, Enter, Settle, markModelOnNodeFailed, Route, Admit, AcquireInitial,
        AcquireRepair, ResetBegins, ResetEnds, FetchBegins, FetchEnds, MarkBegins, MarkEnds,
        MarkParentReadyLabels, MarkParentReady, AttachLink, AttachReference, Validate, FailChildren,
        FailLabels, RemoveMarker, Release, DeleteInstead, PublishLabel, PublishStatus,
        DetachUnreferenced, DetachBlocked, DetachReference, Claim, Unlink, RemoveBegins, RemoveEnds,
        Forget, Unclaim, FinishReceipt, Final, RemoveSome, files
  <2> QED BY <1>1, <2>1, Zenon DEF Typed, OtherTypes
<1>5. label' \in [Models -> ModelStatus \cup {"none"}]
  <2>1. \/ UNCHANGED label
        \/ \E ms : label' = Relabel(parent.saved, ms)
        \/ \E ms : label' = Relabel(AllFailed, ms)
        \/ \E status \in ModelStatus \cup {"none"} : label' = [label EXCEPT ![M(w)] = status]
    <3>1. {"Ready", "Failed", "none"} \subseteq ModelStatus \cup {"none"}
      BY Zenon DEF ModelStatus
    <3>2. CASE recover(w) \/ recoverParent(w) \/ MarkParentReadyLabels(w) \/ FailLabels(w)
      BY <3>2, ZenonT(60) DEF recover, recoverParent, MarkParentReadyLabels, FailLabels,
         SettleAbandoned, Relabelled, RelabelFails
    <3>3. CASE markModelOnNodeFailed(w) \/ PublishLabel(w) \/ Final(w)
      BY <3>1, <3>3, Zenon DEF markModelOnNodeFailed, PublishLabel, Final, Publish
    <3>4. \/ UNCHANGED label
          \/ recover(w) \/ recoverParent(w) \/ MarkParentReadyLabels(w) \/ FailLabels(w)
          \/ markModelOnNodeFailed(w) \/ PublishLabel(w) \/ Final(w)
      BY Zenon
      DEF Step, DownloadStep, DeleteStep, CleanupIntent, Cleanup, DeleteOrdinary, Enter, Settle, Route,
          Admit, AcquireInitial, AcquireRepair, ResetBegins, ResetEnds, FetchBegins, FetchEnds,
          MarkBegins, MarkEnds, MarkParentReady, AttachLink, AttachReference, Validate, FailChildren,
          RemoveMarker, Release, DeleteInstead, PublishStatus, DetachUnreferenced, DetachBlocked,
          DetachReference, Claim, Unlink, RemoveBegins, RemoveEnds, Forget, Unclaim, FinishReceipt
    <3> QED BY <3>2, <3>3, <3>4, Zenon
  <2>2. /\ parent.saved \in [Models -> ModelStatus \cup {"none"}]
        /\ AllFailed \in [Models -> ModelStatus \cup {"none"}]
        /\ label \in [Models -> ModelStatus \cup {"none"}]
    BY Zenon DEF Typed, RecordTypes, OtherTypes, Parent, AllFailed, ModelStatus
  <2>3. \A statuses \in [Models -> ModelStatus \cup {"none"}] : \A ms :
          Relabel(statuses, ms) \in [Models -> ModelStatus \cup {"none"}]
    BY <2>2, Zenon DEF Relabel
  <2>4. \A status \in ModelStatus \cup {"none"} :
          [label EXCEPT ![M(w)] = status] \in [Models -> ModelStatus \cup {"none"}]
    BY <2>2, Zenon
  <2>5. CASE \/ UNCHANGED label
             \/ \E status \in ModelStatus \cup {"none"} : label' = [label EXCEPT ![M(w)] = status]
    BY <2>2, <2>4, <2>5, Zenon
  <2>6. CASE \/ \E ms : label' = Relabel(parent.saved, ms)
             \/ \E ms : label' = Relabel(AllFailed, ms)
    BY <2>2, <2>3, <2>6
  <2> QED BY <2>1, <2>5, <2>6, Zenon
<1>6. faults' \in Nat
  <2>1. faults' \in {faults, faults + 1}
    BY ZenonT(120)
    DEF Step, DownloadStep, DeleteStep, CleanupIntent, Cleanup, DeleteOrdinary, recover,
        recoverParent, Enter, Settle, markModelOnNodeFailed, Route, Admit, AcquireInitial,
        AcquireRepair, ResetBegins, ResetEnds, FetchBegins, FetchEnds, MarkBegins, MarkEnds,
        MarkParentReadyLabels, MarkParentReady, AttachLink, AttachReference, Validate, FailChildren,
        FailLabels, RemoveMarker, Release, DeleteInstead, PublishLabel, PublishStatus,
        DetachUnreferenced, DetachBlocked, DetachReference, Claim, Unlink, RemoveBegins, RemoveEnds,
        Forget, Unclaim, FinishReceipt, Final, Publish, PathUsed, Fault, Interrupted, RelabelFails,
        Write, NoWrite, SetStatus, SettleAbandoned, TakeLock
  <2> QED BY <2>1 DEF Typed, OtherTypes
<1> QED BY <1>2, <1>3, <1>4, <1>5, <1>6, Zenon DEF Typed, OtherTypes

\* A task starts.
LEMMA StartTypes ==
  ASSUME Typed, NEW w \in Workers, NEW k \in Kinds, NEW m \in Models, Start(w, k, m)
  PROVE  Typed'
<1>1. /\ parent \in Parent /\ entry \in Entries /\ home[w] \in Agents
      /\ mem \in [Agents -> Memory] /\ own[w] \in MaybeLock
      /\ own = [own EXCEPT ![w] = own[w]]
  BY Known, Zenon DEF Typed, RecordTypes, WorkerTypes
<1>2. /\ label' \in {label, [label EXCEPT ![m] = "Updating"]}
      /\ entry' \in {entry, WithStatus(m, "Updating")}
      /\ faults' \in {faults, faults + 1}
  BY ZenonT(30) DEF Start, Publish, Fault
<1>3. RecordTypes'
  <2>1. WithStatus(m, "Updating") \in Entries
    BY <1>1, Zenon DEF WithStatus, Entries, Entry, ModelStatus
  <2> QED BY <1>1, <1>2, <2>1, Zenon DEF Start, RecordTypes
<1>4. OtherTypes'
  BY <1>2 DEF Start, Typed, OtherTypes, files, ModelStatus
<1>5. PICK o : o = [Idle EXCEPT !.kind = k, !.model = m]
  BY Zenon
<1>6. o \in Operation /\ o.model = m
  BY <1>5, HfArtifactAssumption, Zenon DEF Idle, Operation, ParentStatus
<1>7. mem' \in [Agents -> Memory]
  <2>1. \A known \in Memory : [known EXCEPT !.todo = @ \ {m}] \in Memory
    BY Zenon DEF Memory
  <2>2. [mem EXCEPT ![home[w]] = [mem[home[w]] EXCEPT !.todo = @ \ {m}]] \in [Agents -> Memory]
    BY <1>1, <2>1, Zenon
  <2>3. [mem EXCEPT ![home[w]].todo = @ \ {m}] \in [Agents -> Memory]
    BY <2>2, Zenon
  <2> QED BY <1>1, <2>3, Zenon DEF Start
<1>8. PICK l \in {"final", "cleanup"} : Goto(w, l)
  BY Zenon DEF Start
<1>9. l \in Places /\ l # "abort"
  BY Zenon DEF Places
<1>10. MoveTo(w, l)
  BY <1>1, <1>5, <1>6, <1>7, <1>8, <1>9, Zenon DEF MoveTo, Start, Typed, WorkerTypes
<1>11. WorkerTypes'
  BY <1>9, <1>10, MoveToTypes, Zenon DEF Typed
<1> QED BY <1>3, <1>4, <1>11, Zenon DEF Typed

\* Processes die, and resources and files change.
LEMMA EnvironmentTypes ==
  ASSUME Typed,
         \/ \E m \in Models : ResourceChange(m)
         \/ \E a \in Agents : Crash(a)
         \/ LoseConfigMap \/ Rot
  PROVE  Typed'
<1>1. NewMemory \in Memory /\ Idle \in Operation /\ None \in MaybeLock /\ "idle" \in Places
  BY Zenon DEF NewMemory, Memory, Idle, Operation, ParentStatus, MaybeLock, Places
<1>2. ASSUME NEW as, Die(as)
      PROVE  WorkerTypes'
  <2>1. /\ mem' \in [Agents -> Memory] /\ pc' \in [Workers -> Places]
        /\ op' \in [Workers -> Operation] /\ own' \in [Workers -> MaybeLock]
        /\ flock' \in Workers \cup {None}
    BY <1>1, <1>2, ZenonT(30) DEF Die, Typed, WorkerTypes
  <2>2. \A v \in Workers : pc'[v] # "idle" => pc'[v] = pc[v] /\ op'[v] = op[v]
    BY <1>2, ZenonT(30) DEF Die
  <2> QED BY <2>1, <2>2, Zenon DEF Typed, WorkerTypes, M
<1>3. CASE \E m \in Models : ResourceChange(m)
  <2>1. PICK m \in Models : ResourceChange(m)
    BY <1>3, Zenon
  <2>2. mem' \in [Agents -> Memory]
    <3>1. \A known \in Memory : [known EXCEPT !.todo = @ \cup {m}] \in Memory
      BY Zenon DEF Memory
    <3> QED BY <2>1, <3>1, Zenon DEF ResourceChange, Queue, Typed, WorkerTypes
  <2>3. cr' \in [Models -> {"live", "direct", "deleting"}]
    BY <2>1, Zenon DEF ResourceChange, Typed, OtherTypes
  <2> QED BY <2>1, <2>2, <2>3, Zenon
          DEF ResourceChange, Typed, RecordTypes, WorkerTypes, OtherTypes, files, M
<1>4. CASE \E a \in Agents : Crash(a)
  <2>1. WorkerTypes'
    BY <1>2, <1>4, Zenon DEF Crash
  <2>2. UNCHANGED <<parent, entry, label, files, home, cr>> /\ faults' = faults + 1
    BY <1>4, ZenonT(30) DEF Crash, Die, Fault
  <2> QED BY <2>1, <2>2 DEF Typed, RecordTypes, OtherTypes, files
<1>5. CASE LoseConfigMap
  <2>1. WorkerTypes'
    BY <1>2, <1>5, Zenon DEF LoseConfigMap
  <2>2. UNCHANGED <<label, files, home, cr>> /\ faults' = faults + 1
    BY <1>5, ZenonT(30) DEF LoseConfigMap, Die, Fault
  <2>3. NoParent \in Parent
    BY <1>1, Zenon DEF NoParent, Parent, ParentStatus, NothingSaved
  <2>4. NoReceipt \in Receipt
    BY <1>1, Zenon DEF NoReceipt, Receipt, ParentStatus
  <2>5. NoEntry \in Entry /\ ~ NoEntry.ref
    BY <2>4, Zenon DEF NoEntry, Entry
  <2>6. [m \in Models |-> NoEntry] \in Entries
    BY <2>5, Zenon DEF Entries
  <2> QED BY <1>5, <2>1, <2>2, <2>3, <2>6 DEF LoseConfigMap, Typed, RecordTypes, OtherTypes, files
<1>6. CASE Rot
  <2>1. RecordTypes' /\ WorkerTypes'
    BY <1>6, Zenon DEF Rot, Typed, RecordTypes, WorkerTypes, local, M
  <2>2. dir' \in {"absent", "partial"} \cup Good
    BY <1>6, Zenon DEF Rot, Good
  <2>3. faults' \in Nat
    <3>1. faults \in Nat /\ faults' = faults + 1
      BY <1>6, Zenon DEF Rot, Fault, Typed, OtherTypes
    <3> QED BY <3>1
  <2>4. UNCHANGED <<label, marker, links, home, cr>>
    BY <1>6, Zenon DEF Rot
  <2>5. OtherTypes'
    BY <2>2, <2>3, <2>4, Zenon DEF Typed, OtherTypes
  <2> QED BY <2>1, <2>5, Zenon DEF Typed
<1> QED BY <1>3, <1>4, <1>5, <1>6, Zenon

\* The variables of a node with any models, workers, processes, locks and faults keep
\* their types: no task, record or memory of HfArtifactRepository and its callers takes a
\* value outside of them.
THEOREM TypeOKHolds == Spec => []TypeOK
<1>1. Init => Typed
  <2> SUFFICES ASSUME Init PROVE Typed
    BY Zenon
  <2>1. NoParent \in Parent /\ None \in MaybeLock
    BY Zenon DEF NoParent, Parent, ParentStatus, NothingSaved, MaybeLock
  <2>2. NoReceipt \in Receipt
    BY Zenon DEF NoReceipt, Receipt, ParentStatus, MaybeLock
  <2>3. NoEntry \in Entry /\ ~ NoEntry.ref
    BY <2>2, Zenon DEF NoEntry, Entry
  <2>4. [m \in Models |-> NoEntry] \in Entries
    BY <2>3, Zenon DEF Entries
  <2>5. NewMemory \in Memory /\ Idle \in Operation /\ "idle" \in Places
    BY <2>1, Zenon DEF NewMemory, Memory, Idle, Operation, ParentStatus, Places
  <2>6. RecordTypes
    BY <2>1, <2>4, Zenon DEF Init, RecordTypes
  <2>7. WorkerTypes
    BY <2>1, <2>5, Zenon DEF Init, WorkerTypes
  <2>8. OtherTypes
    BY <2>1, Zenon DEF Init, OtherTypes
  <2> QED BY <2>6, <2>7, <2>8, Zenon DEF Typed
<1>2. Typed /\ [Next]_vars => Typed'
  <2> SUFFICES ASSUME Typed, [Next]_vars PROVE Typed'
    BY Zenon
  <2>1. ASSUME NEW w \in Workers, Step(w)
        PROVE  Typed'
    BY <2>1, StepRecords, StepWorkers, StepOthers, Zenon DEF Typed
  <2>2. CASE UNCHANGED vars
    BY <2>2, Zenon DEF vars, files, local, Typed, RecordTypes, WorkerTypes, OtherTypes, M
  <2> QED BY <2>1, <2>2, StartTypes, EnvironmentTypes, Zenon DEF Next
<1>3. Typed => TypeOK
  BY Zenon DEF Typed, RecordTypes, WorkerTypes, OtherTypes, Entries, TypeOK
<1> QED BY <1>1, <1>2, <1>3, PTL DEF Spec
=============================================================================
