----------------------- MODULE HfArtifactReadyProofs ------------------------
(***************************************************************************)
(* A parent that is Ready, or that recovery would make Ready, has all its  *)
(* files, for any models, workers, processes, locks and faults, as long as *)
(* no other resource uses the path of a model.                             *)
(*                                                                         *)
(* The argument rests on who may change the files (Exclusive) and on lock  *)
(* IDs: the marker names the owner that completed the files.  A new owner  *)
(* takes an unused ID, so the marker of an earlier one never vouches for   *)
(* it; it completes the files before it writes its own; and the lock of a  *)
(* deletion is never in a marker.  The delicate case is a deletion that    *)
(* stopped half way and is resumed: its receipt says that the parent was   *)
(* Ready, which is not true any more.  The parent may only be given back   *)
(* if somebody needs it, and as long as the deletion has the lock nobody   *)
(* can have come to need it.                                               *)
(***************************************************************************)
EXTENDS HfArtifactProofs

\* The records, tasks and memories have their fields; without other users of a
\* path no task is told to keep its link.
EntryFields == { "status", "ref", "intent", "receipt" }

MemFields ==
  { "todo", "recovered", "pending", "deferred", "release", "releaseTo", "fenced" }

FitEntry ==
  /\ DOMAIN entry = Models
  /\ \A m \in Models : DOMAIN entry[m] = EntryFields /\ entry[m].receipt.lock \in MaybeLock

FitOp(w) ==
  /\ DOMAIN op[w] = OpFields /\ ~ op[w].keep
  /\ pc[w] # "idle" => op[w].model \in Models

FitMem ==
  /\ DOMAIN mem = Agents
  /\ \A a \in Agents : DOMAIN mem[a] = MemFields /\ mem[a].releaseTo # "Ready"

\* Nobody links to the files or has announced to use them.
NoUsers == links = {} /\ \A m \in Models : ~ entry[m].intent

Spared == dir \in Good \/ NoUsers

\* What the stored state says, whoever is working on it.
Records ==
  /\ ReadyIsComplete
  /\ parent.lock # None => parent.status = "Updating"
  /\ \A m \in Models : entry[m].receipt.lock # None => marker # entry[m].receipt.lock
  /\ \A m \in Models :
       OwnedBy(parent, entry[m].receipt.lock) /\ entry[m].receipt.before = "Ready" => Spared

Filling ==
  { "reset", "resetting", "fetching", "mark", "marking", "validate", "failkids",
    "faillabels", "unmark", "fetch", "abort" }

Emptying == { "remove", "removing", "forget" }

\* What a worker may rely on, by its place.
Place(w) ==
  /\ pc[w] \in {"relabel", "ready"} => marker = own[w]
  /\ pc[w] \in Filling =>
       marker # own[w] /\ \A m \in Models : entry[m].receipt.lock # own[w]
  /\ pc[w] \in {"mark", "marking"} => dir \in Good
  /\ pc[w] = "abort" => op[w].to # "Ready"
  /\ pc[w] \in {"attach", "addref"} => parent.status = "Ready"
  /\ pc[w] \in Emptying \cup {"unlink", "unclaim"} /\ own[w] # None => marker # own[w]
  /\ pc[w] \in Emptying => NoUsers
  /\ pc[w] = "unlink" /\ own[w] # None /\ op[w].to = "Ready" => Spared
  /\ pc[w] = "unclaim" /\ op[w].to = "Ready" => dir \in Good

\* The inductive invariant behind ReadyIsComplete.
Whole ==
  /\ Exclusive
  /\ FitEntry /\ FitMem /\ parent.lock \in MaybeLock
  /\ Records
  /\ \A w \in Workers : FitOp(w) /\ Place(w)

\* The changes of entries that happen at any time: receipts lose their lock,
\* intents go.
EntryCalm ==
  /\ DOMAIN entry' = Models
  /\ \A m \in Models :
       /\ DOMAIN entry'[m] = EntryFields
       /\ entry'[m].receipt = entry[m].receipt \/ entry'[m].receipt.lock = None
       /\ entry'[m].intent => entry[m].intent

Calm ==
  /\ EntryCalm
  /\ parent' = parent /\ dir' = dir /\ marker' = marker /\ links' \subseteq links

\* A calm change disturbs nothing that a worker relies on.
LEMMA CalmKeepsPlace ==
  ASSUME Whole, NEW v \in Workers, Calm, pc'[v] = pc[v], own'[v] = own[v], op'[v] = op[v]
  PROVE  Place(v)'
<1>1. Place(v)
  BY Zenon DEF Whole
<1>2. pc[v] \in Filling => own[v] # None
  BY Zenon DEF Whole, Exclusive, Owns, OwnedBy, Filling, Writing
<1>3. NoUsers => NoUsers'
  BY Zenon DEF NoUsers, Calm, EntryCalm
<1>4. Spared => Spared'
  BY <1>3, Zenon DEF Spared, Calm
<1>5. pc[v] \in Filling =>
        marker' # own'[v] /\ \A m \in Models : entry'[m].receipt.lock # own'[v]
  BY <1>1, <1>2, Zenon DEF Place, Calm, EntryCalm
<1> QED BY <1>1, <1>3, <1>4, <1>5, Zenon DEF Place, Calm

\* A step of w that is calm, or under the file lock, disturbs no other worker.
LEMMA OthersKeepPlace ==
  ASSUME Whole, NEW w \in Workers, Alone(w), Calm \/ flock \in {None, w}
  PROVE  \A v \in Workers \ {w} : FitOp(v)' /\ Place(v)'
<1> SUFFICES ASSUME NEW v \in Workers \ {w}
             PROVE  FitOp(v)' /\ Place(v)'
  BY Zenon
<1>1. pc'[v] = pc[v] /\ own'[v] = own[v] /\ op'[v] = op[v]
  BY Zenon DEF Alone
<1>2. FitOp(v)'
  BY <1>1, Zenon DEF FitOp, Whole
<1>3. CASE pc[v] \notin Inside
  BY <1>1, <1>2, <1>3, Zenon DEF Place, Inside, Writing, Filling, Emptying
<1>4. CASE pc[v] \in Inside
  <2>1. flock = v /\ v # None
    BY <1>4, HfArtifactAssumption, Zenon DEF Whole, Exclusive, Owns
  <2>2. Calm
    BY <2>1, Zenon
  <2> QED BY <1>1, <1>2, <2>2, CalmKeepsPlace, Zenon
<1> QED BY <1>2, <1>3, <1>4, Zenon

\* It is enough to look at w and at the stored state.
LEMMA WholeStep ==
  ASSUME Whole, Exclusive', NEW w \in Workers, Alone(w), Calm \/ flock \in {None, w},
         FitEntry', FitMem', (parent.lock \in MaybeLock)', Records', FitOp(w)', Place(w)'
  PROVE  Whole'
<1>1. \A v \in Workers : FitOp(v)' /\ Place(v)'
  BY OthersKeepPlace, Zenon
<1> QED BY <1>1, Zenon DEF Whole

\* What happens to the parent while its files stay as they are: it keeps its
\* owner, is released, or is acquired with an unused lock ID.
ParentStep ==
  \/ parent'.status = parent.status /\ parent'.lock = parent.lock
  \/ parent'.lock = None /\ (parent'.status = "Ready" => dir \in Good /\ marker # None)
  \/ parent'.status = "Updating" /\ parent'.lock \in FreshLocks

\* A new lock ID is in no marker and in no receipt.
LEMMA Fresh ==
  ASSUME NEW l \in FreshLocks
  PROVE  /\ l \in Locks /\ l # None /\ l # marker
         /\ \A m \in Models : l # entry[m].receipt.lock
<1>1. l \in Locks /\ l \notin UsedLocks
  BY Zenon DEF FreshLocks
<1> QED BY <1>1, RepositoryAssumption, Zenon DEF UsedLocks

\* Such a change keeps the records right.
LEMMA RecordsKept ==
  ASSUME Whole, EntryCalm, ParentStep, dir' = dir, marker' = marker, links' \subseteq links
  PROVE  Records' /\ FitEntry' /\ (parent.lock \in MaybeLock)'
<1>1. FitEntry'
  BY Zenon DEF EntryCalm, FitEntry, Whole, MaybeLock
<1>2. NoUsers => NoUsers'
  BY Zenon DEF NoUsers, EntryCalm
<1>3. Spared => Spared'
  BY <1>2, Zenon DEF Spared
<1>4. \A m \in Models : entry'[m].receipt.lock # None =>
        entry'[m].receipt = entry[m].receipt /\ marker' # entry'[m].receipt.lock
  BY Zenon DEF EntryCalm, Whole, Records
<1>5. CASE parent'.status = parent.status /\ parent'.lock = parent.lock
  <2>1. ReadyIsComplete'
    BY <1>5, Zenon DEF ReadyIsComplete, Whole, Records, MarkerMatches, MarkerExists
  <2>2. \A m \in Models :
          OwnedBy(parent', entry'[m].receipt.lock) /\ entry'[m].receipt.before = "Ready" => Spared'
    BY <1>3, <1>4, <1>5, Zenon DEF OwnedBy, Whole, Records
  <2>3. parent'.lock # None => parent'.status = "Updating"
    BY <1>5, Zenon DEF Whole, Records
  <2> QED BY <1>1, <1>4, <1>5, <2>1, <2>2, <2>3, Zenon DEF Records, Whole
<1>6. CASE parent'.lock = None /\ (parent'.status = "Ready" => dir \in Good /\ marker # None)
  BY <1>1, <1>4, <1>6, Zenon DEF Records, ReadyIsComplete, MarkerMatches, MarkerExists, OwnedBy, MaybeLock
<1>7. CASE parent'.status = "Updating" /\ parent'.lock \in FreshLocks
  <2>1. /\ parent'.lock \in Locks /\ parent'.lock # marker
        /\ \A m \in Models : parent'.lock # entry[m].receipt.lock
    BY <1>7, Fresh, Zenon
  <2>2. \A m \in Models : ~ OwnedBy(parent', entry'[m].receipt.lock)
    BY <1>4, <2>1, Zenon DEF OwnedBy
  <2>3. ReadyIsComplete'
    BY <1>7, <2>1, Zenon DEF ReadyIsComplete, MarkerMatches
  <2> QED BY <1>1, <1>4, <1>7, <2>1, <2>2, <2>3, Zenon DEF Records, MaybeLock
<1> QED BY <1>5, <1>6, <1>7, Zenon DEF ParentStep

\* How a step of w ends: the handler returns, or w is at l with lock ID x, and
\* its task has the status t to publish.
Returned(w) == Alone(w) /\ FitMem' /\ FitOp(w)' /\ pc'[w] \in Out

Moved(w, l, x, t) ==
  /\ Alone(w) /\ FitMem' /\ FitOp(w)'
  /\ pc'[w] = l /\ own'[w] = x /\ op'[w].to = t

Fits(memory) ==
  /\ DOMAIN memory = Agents
  /\ \A a \in Agents : DOMAIN memory[a] = MemFields /\ memory[a].releaseTo # "Ready"

\* Leave, End and EndOwing return; the lock that is owed is not for Ready.
LEMMA LeaveReturns ==
  ASSUME Whole, NEW w \in Workers, pc[w] # "idle", NEW result, NEW memory, Fits(memory),
         Leave(w, result, memory)
  PROVE  Returned(w)
<1>1. Left(w) /\ Shape /\ M(w) \in Models
  BY LeaveIsOut, Zenon DEF Whole, Exclusive, FitOp, M
<1>2. PICK l \in After(w, result) :
        LET over == l \in {"idle", "queue"}
        IN  /\ Goto(w, IF over THEN "idle" ELSE l)
            /\ op' = [op EXCEPT ![w] = IF over THEN Idle
                                       ELSE [Idle EXCEPT !.kind = op[w].kind, !.model = M(w)]]
            /\ mem' = IF l = "queue"
                      THEN [memory EXCEPT ![home[w]].todo = @ \cup {M(w)}] ELSE memory
  BY Zenon DEF Leave
<1>3. FitMem'
  <2>1. CASE l # "queue"
    BY <1>2, <2>1, Zenon DEF FitMem, Fits
  <2>2. CASE l = "queue"
    <3>1. mem' = [memory EXCEPT ![home[w]].todo = @ \cup {M(w)}]
      BY <1>2, <2>2, Zenon
    <3> QED BY <3>1, Zenon DEF FitMem, Fits, MemFields
  <2> QED BY <2>1, <2>2, Zenon
<1>4. FitOp(w)'
  <2> DEFINE o == [Idle EXCEPT !.kind = op[w].kind, !.model = M(w)]
  <2>1. DOMAIN o = OpFields /\ ~ o.keep /\ o.model = M(w)
    BY Zenon DEF Idle, OpFields
  <2>2. DOMAIN Idle = OpFields /\ ~ Idle.keep
    BY Zenon DEF Idle, OpFields
  <2>3. op'[w] = Idle \/ op'[w] = o
    BY <1>1, <1>2, Zenon DEF Shape
  <2>4. pc'[w] # "idle" => op'[w] = o
    BY <1>1, <1>2, Zenon DEF Shape, Goto
  <2> HIDE DEF o
  <2> QED BY <1>1, <2>1, <2>2, <2>3, <2>4, Zenon DEF FitOp
<1>5. Alone(w) /\ pc'[w] \in Out
  BY <1>1, <1>2, Zenon DEF Alone, Left, Shape
<1> QED BY <1>3, <1>4, <1>5, Zenon DEF Returned

\* validateOnce changes only what is pending.
LEMMA EndMemoryFits ==
  ASSUME Whole, NEW w \in Workers, NEW result
  PROVE  Fits(EndMemory(w, result)) /\ home[w] \in Agents
<1>1. home[w] \in Agents
  BY Zenon DEF Whole, Exclusive, Shape
<1> QED BY <1>1, Zenon DEF Whole, FitMem, Fits, EndMemory, MemFields

\* End returns.
LEMMA EndReturns ==
  ASSUME Whole, NEW w \in Workers, pc[w] # "idle", NEW result, End(w, result)
  PROVE  Returned(w)
BY EndMemoryFits, LeaveReturns, Zenon DEF End

\* EndOwing returns, and remembers a status that is not Ready.
LEMMA EndOwingReturns ==
  ASSUME Whole, NEW w \in Workers, pc[w] # "idle", NEW result, NEW l, NEW status,
         status # "Ready", EndOwing(w, result, l, status)
  PROVE  Returned(w)
<1> DEFINE memory == [EndMemory(w, result) EXCEPT ![home[w]].release = l,
                                                  ![home[w]].releaseTo = status]
<1>1. Fits(memory)
  BY EndMemoryFits, ZenonT(30) DEF Fits, MemFields
<1>2. Leave(w, result, memory)
  BY Zenon DEF EndOwing
<1> HIDE DEF memory
<1> QED BY <1>1, <1>2, LeaveReturns, Zenon

\* Go moves, and keeps lock ID and status.
LEMMA GoMoves ==
  ASSUME Whole, NEW w \in Workers, pc[w] # "idle", NEW l, Go(w, l)
  PROVE  Moved(w, l, own[w], op[w].to)
BY Zenon DEF Go, Goto, Moved, Alone, Whole, Exclusive, Shape, FitMem, FitOp

\* Abort moves, and sets the status.
LEMMA AbortMoves ==
  ASSUME Whole, NEW w \in Workers, pc[w] # "idle", NEW status, Abort(w, status)
  PROVE  Moved(w, "abort", own[w], status)
BY Zenon DEF Abort, Goto, Moved, Alone, Whole, Exclusive, Shape, FitMem, FitOp, OpFields

\* Own moves, and sets lock ID and status.
LEMMA OwnMoves ==
  ASSUME Whole, NEW w \in Workers, pc[w] # "idle", NEW l, NEW before, NEW next,
         Own(w, l, before, next)
  PROVE  Moved(w, next, l, before)
BY Zenon DEF Own, Goto, Moved, Alone, Whole, Exclusive, Shape, FitMem, FitOp, OpFields

\* Disown moves, and drops the lock ID.
LEMMA DisownMoves ==
  ASSUME Whole, NEW w \in Workers, pc[w] # "idle", NEW next, Disown(w, next)
  PROVE  Moved(w, next, None, op[w].to)
BY Zenon DEF Disown, Goto, Moved, Alone, Whole, Exclusive, Shape, FitMem, FitOp

\* A step to a place about which nothing is claimed.
Plain == { "idle", "cleanup", "legacy", "recover", "reparent", "route", "enter", "settle",
           "admit", "acquire", "publish", "status", "failed", "detach", "claim", "receipt",
           "final" }

Settled(w) == Alone(w) /\ FitMem' /\ FitOp(w)' /\ pc'[w] \in Plain

\* A worker that returned relies on nothing.
LEMMA ReturnedIsSettled ==
  ASSUME NEW w, Returned(w)
  PROVE  Settled(w)
BY Zenon DEF Returned, Settled, Out, Plain

\* A worker that moved to such a place relies on nothing.
LEMMA MovedIsSettled ==
  ASSUME NEW w, NEW l \in Plain, NEW x, NEW t, Moved(w, l, x, t)
  PROVE  Settled(w)
BY Zenon DEF Moved, Settled

\* Such a step is safe if the stored state is.
LEMMA SettledIsWhole ==
  ASSUME Whole, Exclusive', NEW w \in Workers, Settled(w), EntryCalm, ParentStep,
         dir' = dir, marker' = marker, links' \subseteq links,
         parent' = parent \/ flock \in {None, w}
  PROVE  Whole'
<1>1. Place(w)'
  BY Zenon DEF Settled, Place, Plain, Filling, Emptying
<1>2. Records' /\ FitEntry' /\ (parent.lock \in MaybeLock)'
  BY RecordsKept, Zenon
<1>3. Calm \/ flock \in {None, w}
  BY Zenon DEF Calm
<1> QED BY <1>1, <1>2, <1>3, WholeStep, Zenon DEF Settled

\* The changes of entries that are calm.
LEMMA CalmEntries ==
  ASSUME FitEntry,
         \/ UNCHANGED entry
         \/ \E m, status : entry' = WithStatus(m, status)
         \/ \E m : entry' = beginPendingDownloadDeletion(entry, m)
         \/ \E status : entry' = setChildStatuses(parent, entry, status)
         \/ entry' = failChildren(parent, entry)
         \/ \E m : entry' = addToModel(entry, m)
         \/ \E m : entry' = finishPendingDeletion(entry, m)
         \/ \E m : entry' = [entry EXCEPT ![m] = NoEntry]
  PROVE  EntryCalm
<1>1. CASE UNCHANGED entry
  BY <1>1, Zenon DEF EntryCalm, FitEntry
<1>2. CASE \E m, status : entry' = WithStatus(m, status)
  BY <1>2, SMTT(30) DEF EntryCalm, FitEntry, WithStatus, EntryFields
<1>3. CASE \E m : entry' = beginPendingDownloadDeletion(entry, m)
  <2>1. PICK m : entry' = beginPendingDownloadDeletion(entry, m)
    BY <1>3, Zenon
  <2>2. DOMAIN entry' = Models /\ \A n \in Models : DOMAIN entry'[n] = EntryFields
    BY <2>1, Zenon DEF FitEntry, beginPendingDownloadDeletion, EntryFields
  <2>3. \A n \in Models : /\ n # m => entry'[n] = entry[n]
                          /\ n = m => ~ entry'[n].intent /\ entry'[n].receipt.lock = None
    BY <2>1, Zenon DEF FitEntry, beginPendingDownloadDeletion, EntryFields, NoReceipt
  <2> QED BY <2>2, <2>3, Zenon DEF EntryCalm
<1>4. CASE \E status : entry' = setChildStatuses(parent, entry, status)
  BY <1>4, ZenonT(30) DEF EntryCalm, FitEntry, setChildStatuses, EntryFields
<1>5. CASE entry' = failChildren(parent, entry)
  BY <1>5 DEF EntryCalm, FitEntry, failChildren, EntryFields
<1>6. CASE \E m : entry' = addToModel(entry, m)
  <2>1. PICK m : entry' = addToModel(entry, m)
    BY <1>6, Zenon
  <2>2. DOMAIN entry' = Models /\ \A n \in Models : DOMAIN entry'[n] = EntryFields
    BY <2>1, Zenon DEF FitEntry, addToModel, EntryFields
  <2>3. \A n \in Models : /\ entry'[n].receipt = entry[n].receipt
                          /\ (entry'[n].intent => entry[n].intent)
    BY <2>1, Zenon DEF FitEntry, addToModel, EntryFields
  <2> QED BY <2>2, <2>3, Zenon DEF EntryCalm
<1>7. CASE \E m : entry' = finishPendingDeletion(entry, m)
  BY <1>7 DEF EntryCalm, FitEntry, finishPendingDeletion, EntryFields, NoReceipt
<1>8. CASE \E m : entry' = [entry EXCEPT ![m] = NoEntry]
  BY <1>8 DEF EntryCalm, FitEntry, EntryFields, NoEntry, NoReceipt
<1> QED BY <1>1, <1>2, <1>3, <1>4, <1>5, <1>6, <1>7, <1>8, Zenon

\* Steps that leave the parent and its files alone.
LEMMA BystandersAreWhole ==
  ASSUME Whole, Exclusive', NEW w \in Workers, Settled(w), FitEntry => EntryCalm,
         UNCHANGED <<parent, dir, marker>>, links' \subseteq links
  PROVE  Whole'
<1>1. ParentStep
  BY Zenon DEF ParentStep
<1> QED BY <1>1, SettledIsWhole, Zenon DEF Whole

\* No other resource uses the path of a model.
NoOtherUsers == "shared" \notin Faults

\* Without other users no look at a path finds one.
LEMMA PathsAreUnused ==
  ASSUME NoOtherUsers, NEW used, PathUsed(used)
  PROVE  used = FALSE
BY Zenon DEF NoOtherUsers, PathUsed, Fault, MayFail

\* Starting and ending tasks, publishing statuses, and looking.
LEMMA OutsidersAreWhole ==
  ASSUME NoOtherUsers, Whole, Exclusive', NEW w \in Workers,
         \/ CleanupIntent(w) \/ Cleanup(w) \/ DeleteOrdinary(w) \/ Route(w) \/ Enter(w)
         \/ DeleteInstead(w) \/ Final(w) \/ (\E k \in Kinds, m \in Models : Start(w, k, m))
         \/ markModelOnNodeFailed(w) \/ PublishLabel(w) \/ PublishStatus(w)
         \/ DetachUnreferenced(w) \/ FinishReceipt(w)
  PROVE  Whole'
<1>1. UNCHANGED <<parent, dir, marker>> /\ links' \subseteq links
  BY ZenonT(30) DEF CleanupIntent, Cleanup, DeleteOrdinary, Route, Enter, DeleteInstead, Final, Start,
         markModelOnNodeFailed, PublishLabel, PublishStatus, DetachUnreferenced, FinishReceipt,
         Write, NoWrite, files
<1>2. \/ UNCHANGED entry
      \/ \E m, status : entry' = WithStatus(m, status)
      \/ \E m : entry' = beginPendingDownloadDeletion(entry, m)
      \/ \E m : entry' = finishPendingDeletion(entry, m)
      \/ \E m : entry' = [entry EXCEPT ![m] = NoEntry]
  BY ZenonT(30) DEF CleanupIntent, Cleanup, DeleteOrdinary, Route, Enter, DeleteInstead, Final,
     Start, Publish,
         markModelOnNodeFailed, PublishLabel, PublishStatus, DetachUnreferenced, FinishReceipt,
         Write, NoWrite
<1>3. FitEntry => EntryCalm
  BY <1>2, CalmEntries, Zenon
<1>4. Settled(w) => Whole'
  BY <1>1, <1>3, BystandersAreWhole, Zenon
<1>5. Shape /\ FitMem /\ FitOp(w) /\ home[w] \in Agents
  BY Zenon DEF Whole, Exclusive, Shape
<1>6. ASSUME pc[w] # "idle", \E result : End(w, result)
      PROVE  Settled(w)
  BY <1>6, EndReturns, ReturnedIsSettled, Zenon
<1>7. ASSUME pc[w] # "idle", \E l \in Plain : Go(w, l)
      PROVE  Settled(w)
  BY <1>7, GoMoves, MovedIsSettled, Zenon
<1>8. CASE CleanupIntent(w) \/ DeleteOrdinary(w)
  <2>1. pc[w] # "idle" /\ ((\E result : End(w, result)) \/ \E l \in Plain : Go(w, l))
    BY <1>8, Zenon DEF CleanupIntent, DeleteOrdinary, Write, NoWrite, Plain
  <2> QED BY <1>4, <1>6, <1>7, <2>1, Zenon
<1>9. CASE Cleanup(w)
  <2>1. pc[w] # "idle"
    BY <1>9, Zenon DEF Cleanup
  <2>2. CASE Aim(w) # "none" /\ ~ End(w, "error")
    <3>1. PICK used : /\ PathUsed(used)
                      /\ op' = [op EXCEPT ![w].aim = Aim(w), ![w].keep = used]
                      /\ Goto(w, IF Mem(w).recovered THEN "reparent" ELSE "recover")
                      /\ UNCHANGED <<flock, mem, own>>
      BY <1>9, <2>2, Zenon DEF Cleanup
    <3>2. used = FALSE
      BY <3>1, PathsAreUnused, Zenon
    <3>3. FitOp(w)'
      BY <1>5, <2>1, <3>1, <3>2, Zenon DEF FitOp, Shape, OpFields
    <3>4. Alone(w) /\ FitMem' /\ pc'[w] \in Plain
      BY <1>5, <3>1, Zenon DEF Alone, Shape, FitMem, Goto, Plain
    <3> QED BY <1>4, <3>3, <3>4, Zenon DEF Settled
  <2>3. CASE (\E result : End(w, result)) \/ Go(w, "legacy")
    BY <1>4, <1>6, <1>7, <2>1, <2>3, Zenon DEF Plain
  <2> QED BY <1>9, <2>2, <2>3, Zenon DEF Cleanup
<1>10. CASE Route(w)
  <2>1. pc[w] # "idle"
    BY <1>10, Zenon DEF Route
  <2>2. CASE \E result : End(w, result)
    BY <1>4, <1>6, <2>1, <2>2, Zenon
  <2>3. CASE /\ Remember(w, [Mem(w) EXCEPT !.pending = "busy"])
             /\ op' = [op EXCEPT ![w].once = TRUE, ![w].aim = "override"]
             /\ Goto(w, "enter") /\ UNCHANGED <<flock, own>>
    <3>1. FitMem'
      BY <1>5, <2>3, Zenon DEF FitMem, Remember, Mem, MemFields
    <3>2. FitOp(w)' /\ Alone(w) /\ pc'[w] \in Plain
      BY <1>5, <2>1, <2>3, Zenon DEF FitOp, Shape, OpFields, Alone, Goto, Plain
    <3> QED BY <1>4, <3>1, <3>2, Zenon DEF Settled
  <2>4. CASE /\ op' = [op EXCEPT ![w].aim = IF NeedsRepair(w) THEN "override" ELSE "plain"]
             /\ Goto(w, "enter") /\ UNCHANGED <<flock, mem, own>>
    BY <1>4, <1>5, <2>1, <2>4, Zenon DEF FitMem, FitOp, Shape, OpFields, Alone, Goto, Plain, Settled
  <2> QED BY <1>10, <2>2, <2>3, <2>4, Zenon DEF Route
<1>11. CASE Enter(w)
  <2>1. pc[w] # "idle"
    BY <1>11, Zenon DEF Enter
  <2>2. CASE Goto(w, IF Mem(w).release # None THEN "settle" ELSE Dispatch(w))
             /\ UNCHANGED <<mem, op, own>>
    BY <1>4, <1>5, <2>1, <2>2, Zenon DEF FitMem, FitOp, Shape, Alone, Goto, Dispatch, Plain, Settled
  <2> QED BY <1>4, <1>6, <1>11, <2>1, <2>2, Zenon DEF Enter
<1>12. CASE DeleteInstead(w)
  BY <1>4, <1>5, <1>12, Zenon DEF DeleteInstead, FitMem, FitOp, Shape, OpFields, Alone, Goto, Plain, Settled
<1>13. CASE Final(w)
  <2> DEFINE memory == [mem EXCEPT ![home[w]].fenced = @ \cup {M(w)}]
  <2>1. pc[w] # "idle" /\ (Leave(w, "over", memory) \/ End(w, "over"))
    BY <1>13, Zenon DEF Final, Write, NoWrite
  <2>2. Fits(memory)
    BY <1>5, Zenon DEF FitMem, Fits, MemFields
  <2> HIDE DEF memory
  <2> QED BY <1>4, <1>6, <2>1, <2>2, LeaveReturns, ReturnedIsSettled, Zenon
<1>14. ASSUME NEW k \in Kinds, NEW m \in Models, Start(w, k, m)
       PROVE  Whole'
  <2>1. FitMem'
    BY <1>5, <1>14, ZenonT(30) DEF Start, FitMem, MemFields
  <2>2. FitOp(w)'
    BY <1>5, <1>14, ZenonT(30) DEF Start, FitOp, Shape, Idle, OpFields
  <2>3. Alone(w) /\ pc'[w] \in Plain
    BY <1>5, <1>14, Zenon DEF Start, Alone, Shape, Goto, Plain
  <2> QED BY <1>4, <2>1, <2>2, <2>3, Zenon DEF Settled
<1>15. CASE markModelOnNodeFailed(w) \/ DetachUnreferenced(w) \/ FinishReceipt(w) \/ PublishStatus(w)
  <2>1. pc[w] # "idle" /\ \E result : End(w, result)
    BY <1>15, ZenonT(30) DEF markModelOnNodeFailed, DetachUnreferenced, FinishReceipt,
       PublishStatus, Write, NoWrite
  <2> QED BY <1>4, <1>6, <2>1, Zenon
<1>16. CASE PublishLabel(w)
  <2>1. pc[w] # "idle"
    BY <1>16, ZenonT(30) DEF PublishLabel
  <2>2. CASE Goto(w, "status") /\ UNCHANGED <<mem, op, own>>
    BY <1>4, <1>5, <2>1, <2>2, Zenon DEF FitMem, FitOp, Shape, Alone, Goto, Plain, Settled
  <2> QED BY <1>4, <1>6, <1>16, <2>1, <2>2, ZenonT(30) DEF PublishLabel
<1> QED BY <1>8, <1>9, <1>10, <1>11, <1>12, <1>13, <1>14, <1>15, <1>16, Zenon

\* setStatus: Ready needs complete files.
StatusSet(l, status) ==
  \/ UNCHANGED <<parent, entry>>
  \/ /\ OwnedBy(parent, l)
     /\ parent' = setParentStatus(parent, status)
     /\ entry' = setChildStatuses(parent, entry, status)

\* setStatus is a step of the parent as above, with calm entries.
LEMMA StatusIsSet ==
  ASSUME Whole, NEW l, NEW status, StatusSet(l, status),
         OwnedBy(parent, l) /\ status = "Ready" => dir \in Good /\ marker # None
  PROVE  EntryCalm /\ ParentStep
<1>1. EntryCalm
  <2>1. UNCHANGED entry \/ \E st : entry' = setChildStatuses(parent, entry, st)
    BY Zenon DEF StatusSet
  <2> QED BY <2>1, CalmEntries, Zenon DEF Whole
<1>2. ParentStep
  <2>1. CASE UNCHANGED <<parent, entry>>
    BY <2>1, Zenon DEF ParentStep
  <2>2. CASE OwnedBy(parent, l) /\ parent' = setParentStatus(parent, status)
    <3>1. DOMAIN parent = Fields
      BY Zenon DEF Whole, Exclusive, Shape
    <3>2. parent'.lock = None /\ parent'.status = status
      BY <2>2, <3>1, Zenon DEF setParentStatus, Fields
    <3> QED BY <2>2, <3>2, Zenon DEF ParentStep
  <2> QED BY <2>1, <2>2, Zenon DEF StatusSet
<1> QED BY <1>1, <1>2, Zenon

\* The marker of its owner shows that a parent is complete.
LEMMA MarkedIsComplete ==
  ASSUME Whole, NEW l, OwnedBy(parent, l), marker = l
  PROVE  dir \in Good /\ marker # None
BY Zenon DEF Whole, Records, ReadyIsComplete, MarkerMatches, MarkerExists, OwnedBy

\* Recovery makes a parent Ready only because of its owner's marker.
LEMMA RecoveryIsWhole ==
  ASSUME Whole, Exclusive', NEW w \in Workers, recover(w) \/ recoverParent(w)
  PROVE  Whole'
<1>1. Shape /\ FitMem /\ FitOp(w) /\ home[w] \in Agents
  BY Zenon DEF Whole, Exclusive, Shape
<1>2. UNCHANGED <<dir, marker, links>>
  BY Zenon DEF recover, recoverParent, files
<1>3. \/ UNCHANGED <<parent, entry>>
      \/ flock = None /\ MarkerMatches /\ StatusSet(parent.lock, "Ready")
      \/ flock = None /\ StatusSet(parent.lock, "Updating")
  BY Zenon DEF recover, recoverParent, SettleAbandoned, SetStatus, Write, NoWrite, StatusSet
<1>4. EntryCalm /\ ParentStep /\ (parent' = parent \/ flock \in {None, w})
  <2>1. CASE UNCHANGED <<parent, entry>>
    BY <2>1, CalmEntries, Zenon DEF Whole, ParentStep
  <2>2. CASE flock = None /\ MarkerMatches /\ StatusSet(parent.lock, "Ready")
    BY <2>2, StatusIsSet, MarkedIsComplete, Zenon DEF MarkerMatches
  <2>3. CASE flock = None /\ StatusSet(parent.lock, "Updating")
    BY <2>3, StatusIsSet, Zenon
  <2> QED BY <1>3, <2>1, <2>2, <2>3, Zenon
<1>5. Settled(w)
  <2>1. pc[w] # "idle"
    BY ZenonT(30) DEF recover, recoverParent
  <2>2. ASSUME NEW memory, DOMAIN memory = MemFields, memory.releaseTo # "Ready",
               Remember(w, memory), \E l \in Plain : Goto(w, l), UNCHANGED <<flock, op, own>>
        PROVE  Settled(w)
    <3>1. FitMem'
      BY <1>1, <2>2, Zenon DEF FitMem, Remember
    <3> QED BY <1>1, <2>1, <2>2, <3>1, Zenon DEF FitOp, Shape, Alone, Goto, Settled
  <2>3. CASE recover(w)
    <3>1. \/ Go(w, "reparent") \/ \E result : End(w, result)
          \/ /\ \E pending, deferred :
                  Remember(w, [Mem(w) EXCEPT !.recovered = TRUE, !.pending = pending,
                                             !.deferred = deferred])
             /\ Goto(w, "reparent") /\ UNCHANGED <<flock, op, own>>
      BY <2>3, Zenon DEF recover, SettleAbandoned, SetStatus, Write, NoWrite
    <3>2. ASSUME NEW pending, NEW deferred
          PROVE  LET memory == [Mem(w) EXCEPT !.recovered = TRUE, !.pending = pending,
                                              !.deferred = deferred]
                 IN  DOMAIN memory = MemFields /\ memory.releaseTo # "Ready"
      BY <1>1, Zenon DEF FitMem, Mem, MemFields
    <3>3. "reparent" \in Plain
      BY Zenon DEF Plain
    <3> QED BY <2>1, <2>2, <3>1, <3>2, <3>3, GoMoves, MovedIsSettled, EndReturns,
               ReturnedIsSettled, ZenonT(30)
  <2>4. CASE recoverParent(w)
    <3> DEFINE memory == [Mem(w) EXCEPT !.deferred = FALSE]
               waiting == [mem EXCEPT ![home[w]].deferred = TRUE]
    <3>1. \/ Leave(w, "retry", waiting)
          \/ /\ Remember(w, memory)
             /\ Goto(w, IF op[w].aim = "download" THEN "route" ELSE "enter")
             /\ UNCHANGED <<flock, op, own>>
      BY <2>4, Zenon DEF recoverParent, SettleAbandoned, SetStatus, Write, NoWrite
    <3>2. DOMAIN memory = MemFields /\ memory.releaseTo # "Ready"
      BY <1>1, Zenon DEF FitMem, Mem, MemFields
    <3>3. Fits(waiting)
      BY <1>1, Zenon DEF FitMem, Fits, MemFields
    <3>4. "route" \in Plain /\ "enter" \in Plain
      BY Zenon DEF Plain
    <3> HIDE DEF memory, waiting
    <3> QED BY <2>1, <2>2, <3>1, <3>2, <3>3, <3>4, LeaveReturns, ReturnedIsSettled, ZenonT(30)
  <2> QED BY <2>3, <2>4, Zenon
<1> QED BY <1>2, <1>4, <1>5, SettledIsWhole, Zenon

\* Under the file lock: a lock is released, a reference is added, the parent
\* is forgotten.
LEMMA KeepersAreWhole ==
  ASSUME Whole, Exclusive', NEW w \in Workers,
         Settle(w) \/ AttachReference(w) \/ Release(w) \/ Forget(w) \/ Unclaim(w)
  PROVE  Whole'
<1>1. Shape /\ FitMem /\ FitOp(w) /\ Place(w) /\ home[w] \in Agents
  BY Zenon DEF Whole, Exclusive, Shape
<1>2. pc[w] \in {"settle", "addref", "abort", "forget", "unclaim"} /\ UNCHANGED <<dir, marker, links>>
  BY Zenon DEF Settle, AttachReference, Release, Forget, Unclaim, files
<1>3. pc[w] # "idle" /\ flock = w
  BY <1>2, Zenon DEF Whole, Exclusive, Owns, Inside, Writing
<1>4. EntryCalm /\ ParentStep /\ Settled(w) => Whole'
  BY <1>2, <1>3, SettledIsWhole, Zenon
<1>5. (\E result : End(w, result)) => Settled(w)
  BY <1>3, EndReturns, ReturnedIsSettled, Zenon
<1>6. Disown(w, "receipt") => Settled(w)
  BY <1>3, DisownMoves, MovedIsSettled, Zenon DEF Plain
<1>7. CASE Settle(w)
  <2>1. StatusSet(Mem(w).release, Mem(w).releaseTo) /\ Mem(w).releaseTo # "Ready"
    BY <1>1, <1>7, Zenon DEF Settle, SetStatus, Write, NoWrite, StatusSet, FitMem, Mem
  <2>2. EntryCalm /\ ParentStep
    BY <2>1, StatusIsSet, Zenon
  <2>3. CASE \E result : End(w, result)
    BY <1>4, <1>5, <2>2, <2>3, Zenon
  <2>4. CASE /\ Remember(w, [Mem(w) EXCEPT !.release = None])
             /\ Goto(w, Dispatch(w))
             /\ UNCHANGED <<flock, op, own>>
    <3>1. FitMem'
      BY <1>1, <2>4, Zenon DEF FitMem, Remember, Mem, MemFields
    <3>2. Settled(w)
      BY <1>1, <1>3, <2>4, <3>1, Zenon DEF FitOp, Shape, Alone, Goto, Dispatch, Plain, Settled
    <3> QED BY <1>4, <2>2, <3>2, Zenon
  <2> QED BY <1>7, <2>3, <2>4, Zenon DEF Settle, SetStatus, Write, NoWrite
<1>8. CASE AttachReference(w)
  <2>1. \E result : End(w, result)
    BY <1>8, Zenon DEF AttachReference, Write, NoWrite
  <2>2. UNCHANGED entry \/ \E m : entry' = addToModel(entry, m)
    BY <1>8, Zenon DEF AttachReference, Write, NoWrite
  <2>3. UNCHANGED parent \/ parent' = addToParent(parent, M(w))
    BY <1>8, Zenon DEF AttachReference, Write, NoWrite
  <2>4. ParentStep
    BY <1>1, <2>3, Zenon DEF ParentStep, addToParent, Shape, Fields
  <2>5. EntryCalm
    BY <2>2, CalmEntries, Zenon DEF Whole
  <2> QED BY <1>4, <1>5, <2>1, <2>4, <2>5, Zenon
<1>9. CASE Release(w)
  <2>1. StatusSet(own[w], op[w].to) /\ op[w].to # "Ready"
    BY <1>1, <1>9, Zenon DEF Release, SetStatus, Write, NoWrite, StatusSet, Place
  <2>2. EntryCalm /\ ParentStep
    BY <2>1, StatusIsSet, Zenon
  <2>3. \/ \E result : End(w, result)
        \/ EndOwing(w, "retry", own[w], op[w].to)
    BY <1>9, Zenon DEF Release, SetStatus, Write, NoWrite
  <2> QED BY <1>3, <1>4, <1>5, <2>1, <2>2, <2>3, EndOwingReturns, ReturnedIsSettled, ZenonT(30)
<1>10. CASE Forget(w)
  <2>1. UNCHANGED entry /\ (UNCHANGED parent \/ parent' = NoParent)
    BY <1>10, Zenon DEF Forget, Write, NoWrite
  <2>2. EntryCalm /\ ParentStep
    BY <2>1, CalmEntries, SMTT(30) DEF Whole, ParentStep, NoParent
  <2>3. (\E result : End(w, result)) \/ Disown(w, "receipt")
    BY <1>10, ZenonT(30) DEF Forget, Write, NoWrite
  <2> QED BY <1>4, <1>5, <1>6, <2>2, <2>3, Zenon
<1>11. CASE Unclaim(w)
  <2> DEFINE status == StatusAfterDeletion(w)
  <2>1. StatusSet(own[w], status)
    BY <1>11, ZenonT(30) DEF Unclaim, SetStatus, Write, NoWrite, StatusSet
  <2>2. status = "Ready" => dir \in Good /\ marker # None
    BY <1>1, <1>11, ZenonT(30) DEF Unclaim, StatusAfterDeletion, Place, MarkerExists
  <2>3. \/ \E result : End(w, result)
        \/ \E result : EndOwing(w, result, own[w], status) /\ status # "Ready"
        \/ Disown(w, "receipt")
    BY <1>11, Zenon DEF Unclaim, SetStatus, Write, NoWrite
  <2> HIDE DEF status
  <2>4. EntryCalm /\ ParentStep
    BY <2>1, <2>2, StatusIsSet, Zenon
  <2> QED BY <1>3, <1>4, <1>5, <1>6, <2>3, <2>4, EndOwingReturns, ReturnedIsSettled, Zenon
<1> QED BY <1>7, <1>8, <1>9, <1>10, <1>11, Zenon

\* markParentReady: the worker's own marker is there, so the files are.
LEMMA MarkParentReadyIsWhole ==
  ASSUME Whole, Exclusive', NEW w \in Workers, MarkParentReady(w)
  PROVE  Whole'
<1>1. Shape /\ Place(w)
  BY Zenon DEF Whole, Exclusive
<1>2. pc[w] = "ready" /\ UNCHANGED <<dir, marker, links>>
  BY Zenon DEF MarkParentReady, files
<1>3. flock = w /\ marker = own[w]
  BY <1>1, <1>2, ZenonT(30) DEF Whole, Exclusive, Owns, Inside, Place
<1>4. StatusSet(own[w], "Ready")
  BY Zenon DEF MarkParentReady, SetStatus, Write, NoWrite, StatusSet
<1>5. EntryCalm /\ ParentStep
  BY <1>3, <1>4, StatusIsSet, MarkedIsComplete, Zenon
<1>6. CASE \E result : End(w, result)
  BY <1>2, <1>3, <1>5, <1>6, EndReturns, ReturnedIsSettled, SettledIsWhole, ZenonT(30)
<1>7. CASE /\ own' = [own EXCEPT ![w] = None]
           /\ Goto(w, IF op[w].aim \in {"resume", "release"} THEN "detach" ELSE "attach")
           /\ UNCHANGED <<flock, mem, op>>
           /\ parent'.status = "Ready"
  <2>1. PICK l \in {"detach", "attach"} : Moved(w, l, None, op[w].to)
    BY <1>2, <1>7, ZenonT(30) DEF Moved, Alone, Whole, Exclusive, Shape, FitMem, FitOp, Goto
  <2>2. Place(w)'
    BY <1>7, <2>1, Zenon DEF Place, Moved, Filling, Emptying
  <2>3. Records' /\ FitEntry' /\ (parent.lock \in MaybeLock)'
    BY <1>2, <1>5, RecordsKept, Zenon
  <2> QED BY <1>3, <2>1, <2>2, <2>3, WholeStep, Zenon DEF Moved
<1>8. setParentStatus(parent, "Ready").status = "Ready"
  BY <1>1, Zenon DEF setParentStatus, Shape, Fields
<1> QED BY <1>6, <1>7, <1>8, Zenon DEF MarkParentReady, SetStatus, Write, NoWrite, ReleasedBy

\* A new owner: its lock ID is not in the marker and in no receipt.
LEMMA AcquirersAreWhole ==
  ASSUME Whole, Exclusive', NEW w \in Workers, AcquireInitial(w) \/ AcquireRepair(w)
  PROVE  Whole'
<1>1. pc[w] = "acquire" /\ UNCHANGED <<dir, marker, links>>
  BY Zenon DEF AcquireInitial, AcquireRepair, files
<1>2. flock = w /\ pc[w] # "idle"
  BY <1>1, Zenon DEF Whole, Exclusive, Owns, Inside
<1>3. UNCHANGED entry /\ EntryCalm
  <2>1. UNCHANGED entry
    BY ZenonT(30) DEF AcquireInitial, AcquireRepair, TakeLock, Write, NoWrite
  <2> QED BY <2>1, CalmEntries, Zenon DEF Whole
<1>4. CASE UNCHANGED parent /\ \E result : End(w, result)
  BY <1>1, <1>2, <1>3, <1>4, EndReturns, ReturnedIsSettled, SettledIsWhole, Zenon DEF ParentStep
<1>5. ASSUME NEW next \in {"reset", "validate"}, TakeLock(w, next)
      PROVE  Whole'
  <2>1. PICK l \in FreshLocks :
          Write(tryAcquireLock(parent, l), entry,
                /\ own' = [own EXCEPT ![w] = l]
                /\ Goto(w, next)
                /\ UNCHANGED <<flock, mem, op>>,
                EndOwing(w, "retry", l, "Updating"))
    BY <1>5, Zenon DEF TakeLock
  <2>2. ParentStep
    BY <2>1, ZenonT(30) DEF Write, ParentStep, tryAcquireLock, Whole, Exclusive, Shape, Fields
  <2>3. CASE EndOwing(w, "retry", l, "Updating")
    BY <1>1, <1>2, <1>3, <2>2, <2>3, EndOwingReturns, ReturnedIsSettled, SettledIsWhole, Zenon
  <2>4. CASE /\ own' = [own EXCEPT ![w] = l]
             /\ Goto(w, next)
             /\ UNCHANGED <<flock, mem, op>>
    <3>1. Moved(w, next, l, op[w].to)
      BY <1>2, <2>4, Zenon DEF Moved, Alone, Whole, Exclusive, Shape, FitMem, FitOp, Goto
    <3>2. marker' # l /\ \A m \in Models : entry'[m].receipt.lock # l
      BY <1>1, <1>3, Fresh, Zenon
    <3>3. Place(w)'
      BY <1>5, <3>1, <3>2, Zenon DEF Place, Moved, Filling, Emptying
    <3>4. Records' /\ FitEntry' /\ (parent.lock \in MaybeLock)'
      BY <1>1, <1>3, <2>2, RecordsKept, Zenon
    <3> QED BY <1>2, <3>1, <3>3, <3>4, WholeStep, Zenon DEF Moved
  <2> QED BY <2>1, <2>3, <2>4, Zenon DEF Write
<1> QED BY <1>4, <1>5, Zenon DEF AcquireInitial, AcquireRepair, NoWrite

\* While its owner fills the directory, nothing vouches for the files.
LEMMA FillerGoesOn ==
  ASSUME Whole, Exclusive', NEW w \in Workers, pc[w] \in Filling, EntryCalm,
         parent'.status = parent.status, parent'.lock = parent.lock,
         marker' \in {marker, None, Torn},
         NEW l \in Filling, NEW t, Moved(w, l, own[w], t),
         l = "abort" => t # "Ready",
         l \in {"mark", "marking"} => dir' \in Good
  PROVE  Whole'
<1>1. flock = w /\ OwnedBy(parent, own[w]) /\ own[w] \in Locks
  BY ZenonT(30) DEF Whole, Exclusive, Owns, OwnedBy, Inside, Writing, Filling, MaybeLock
<1>2. marker # own[w] /\ \A m \in Models : entry[m].receipt.lock # own[w]
  BY ZenonT(30) DEF Whole, Place
<1>3. marker' # own[w]
  BY <1>1, <1>2, HfArtifactAssumption, RepositoryAssumption, ZenonT(30)
<1>4. FitEntry'
  BY Zenon DEF EntryCalm, FitEntry, Whole, MaybeLock
<1>5. \A m \in Models : entry'[m].receipt.lock # own[w]
  BY <1>1, <1>2, RepositoryAssumption, Zenon DEF EntryCalm
<1>6. \A m \in Models : entry'[m].receipt.lock # None => marker' # entry'[m].receipt.lock
  <2> SUFFICES ASSUME NEW m \in Models, entry'[m].receipt.lock # None
               PROVE  marker' # entry'[m].receipt.lock
    BY Zenon
  <2>1. entry'[m].receipt.lock = entry[m].receipt.lock /\ entry'[m].receipt.lock \in Locks
    BY DEF EntryCalm, Whole, FitEntry, MaybeLock
  <2>2. marker # entry'[m].receipt.lock
    BY <2>1, ZenonT(30) DEF Whole, Records
  <2> QED BY <2>1, <2>2, HfArtifactAssumption, Zenon
<1>7. Records' /\ (parent.lock \in MaybeLock)'
  BY <1>1, <1>3, <1>5, <1>6, Zenon DEF Records, ReadyIsComplete, MarkerMatches, OwnedBy, Whole
<1>8. Place(w)'
  BY <1>3, <1>5, Zenon DEF Place, Moved, Filling, Emptying
<1> QED BY <1>1, <1>4, <1>7, <1>8, WholeStep, Zenon DEF Moved

\* The steps of a download and of a repair, up to the marker.
LEMMA FillersAreWhole ==
  ASSUME Whole, Exclusive', NEW w \in Workers,
         \/ ResetBegins(w) \/ ResetEnds(w) \/ FetchBegins(w) \/ FetchEnds(w) \/ MarkBegins(w)
         \/ Validate(w) \/ FailChildren(w) \/ FailLabels(w) \/ RemoveMarker(w)
  PROVE  Whole'
<1>1. pc[w] \in Filling /\ pc[w] # "idle"
  BY Zenon DEF ResetBegins, ResetEnds, FetchBegins, FetchEnds, MarkBegins, Validate, FailChildren,
         FailLabels, RemoveMarker, Filling
<1>2. EntryCalm
  <2>1. UNCHANGED entry \/ entry' = failChildren(parent, entry)
    BY Zenon DEF ResetBegins, ResetEnds, FetchBegins, FetchEnds, MarkBegins, Validate, FailChildren,
           FailLabels, RemoveMarker, Write
  <2> QED BY <2>1, CalmEntries, Zenon DEF Whole
<1>3. parent'.status = parent.status /\ parent'.lock = parent.lock
  <2>1. UNCHANGED parent \/ parent' = saveChildStatuses(parent, entry)
    BY Zenon DEF ResetBegins, ResetEnds, FetchBegins, FetchEnds, MarkBegins, Validate, FailChildren,
           FailLabels, RemoveMarker, Write
  <2> QED BY <2>1, Zenon DEF saveChildStatuses, Whole, Exclusive, Shape, Fields
<1>4. marker' \in {marker, None, Torn}
  BY Zenon DEF ResetBegins, ResetEnds, FetchBegins, FetchEnds, MarkBegins, Validate, FailChildren,
         FailLabels, RemoveMarker, RemoveSome, files
<1>5. ASSUME NEW l \in Filling, Go(w, l), l # "abort", l \in {"mark", "marking"} => dir' \in Good
      PROVE  Whole'
  <2>1. Moved(w, l, own[w], op[w].to)
    BY <1>1, <1>5, GoMoves, Zenon
  <2> QED BY <1>1, <1>2, <1>3, <1>4, <1>5, <2>1, FillerGoesOn, ZenonT(30)
<1>6. ASSUME NEW status, status # "Ready", Abort(w, status)
      PROVE  Whole'
  <2>1. Moved(w, "abort", own[w], status) /\ "abort" \in Filling
    BY <1>1, <1>6, AbortMoves, Zenon DEF Filling
  <2> QED BY <1>1, <1>2, <1>3, <1>4, <1>6, <2>1, FillerGoesOn, ZenonT(30)
<1>7. CASE Validate(w)
  <2>1. CASE Interrupted(w)
    BY <1>6, <2>1, Zenon DEF Interrupted
  <2>2. CASE /\ op' = [op EXCEPT ![w].checked = TRUE, ![w].to = "Failed"]
             /\ Goto(w, "abort") /\ UNCHANGED <<flock, mem, own>>
    <3>1. Moved(w, "abort", own[w], "Failed") /\ "abort" \in Filling
      BY <1>1, <2>2, ZenonT(30)
         DEF Moved, Alone, Whole, Exclusive, Shape, FitMem, FitOp, OpFields, Goto, Filling
    <3> QED BY <1>1, <1>2, <1>3, <1>4, <3>1, FillerGoesOn, ZenonT(30)
  <2>3. CASE /\ op' = [op EXCEPT ![w].checked = TRUE]
             /\ Goto(w, IF dir = "complete" THEN "mark" ELSE "failkids")
             /\ UNCHANGED <<flock, mem, own>>
    <3>1. Moved(w, IF dir = "complete" THEN "mark" ELSE "failkids", own[w], op[w].to)
      BY <1>1, <2>3, Zenon DEF Moved, Alone, Whole, Exclusive, Shape, FitMem, FitOp, OpFields, Goto
    <3>2. UNCHANGED dir
      BY <1>7, Zenon DEF Validate, files
    <3>3. PICK l \in {"mark", "failkids"} :
            Moved(w, l, own[w], op[w].to) /\ (l = "mark" => dir' \in Good)
      BY <3>1, <3>2, Zenon DEF Good
    <3> QED BY <1>1, <1>2, <1>3, <1>4, <3>3, FillerGoesOn, Zenon DEF Filling
  <2> QED BY <1>7, <2>1, <2>2, <2>3, Zenon DEF Validate
<1>8. CASE ResetBegins(w) \/ ResetEnds(w) \/ FetchBegins(w) \/ FailChildren(w) \/ RemoveMarker(w)
           \/ FailLabels(w)
  <2>1. \/ \E l \in {"resetting", "fetching", "faillabels", "fetch", "unmark"} : Go(w, l)
        \/ Abort(w, "Failed")
    BY <1>8, Zenon DEF ResetBegins, ResetEnds, FetchBegins, FailChildren, RemoveMarker,
       FailLabels, Write
  <2> QED BY <1>5, <1>6, <2>1, Zenon DEF Filling
<1>9. CASE FetchEnds(w) \/ MarkBegins(w)
  <2>1. pc[w] = "mark" => dir \in Good
    BY Zenon DEF Whole, Place
  <2>2. \/ dir' \in Good /\ \E l \in {"mark", "marking"} : Go(w, l)
        \/ \E status \in {"Failed", "Updating"} : Abort(w, status)
    BY <1>9, <2>1, Zenon DEF FetchEnds, MarkBegins, Interrupted, Good
  <2> QED BY <1>5, <1>6, <2>2, Zenon DEF Filling
<1> QED BY <1>7, <1>8, <1>9, Zenon

\* The files are complete when the marker is written.
LEMMA MarkersAreWhole ==
  ASSUME Whole, Exclusive', NEW w \in Workers, MarkEnds(w) \/ MarkParentReadyLabels(w)
  PROVE  Whole'
<1>1. Place(w) /\ pc[w] \in {"marking", "relabel"} /\ UNCHANGED <<parent, entry, dir, links>>
  BY ZenonT(30) DEF MarkEnds, MarkParentReadyLabels, Whole, files
<1>2. flock = w /\ pc[w] # "idle"
  BY <1>1, Zenon DEF Whole, Exclusive, Owns, Inside, Writing
<1>3. CASE marker' = marker /\ \E result : End(w, result)
  <2>1. EntryCalm /\ ParentStep
    BY <1>1, CalmEntries, Zenon DEF Whole, ParentStep
  <2> QED BY <1>1, <1>2, <1>3, <2>1, EndReturns, ReturnedIsSettled, SettledIsWhole, Zenon
<1>4. ASSUME NEW l \in {"relabel", "ready"}, Go(w, l), Records', marker' = own[w]
      PROVE  Whole'
  <2>1. Moved(w, l, own[w], op[w].to)
    BY <1>2, <1>4, GoMoves, Zenon
  <2>2. Place(w)'
    BY <1>4, <2>1, Zenon DEF Place, Moved, Filling, Emptying
  <2>3. FitEntry' /\ (parent.lock \in MaybeLock)'
    BY <1>1, Zenon DEF Whole, FitEntry
  <2> QED BY <1>2, <1>4, <2>1, <2>2, <2>3, WholeStep, ZenonT(30) DEF Moved
<1>5. CASE MarkEnds(w)
  <2>1. marker' = own[w] /\ dir \in Good /\ OwnedBy(parent, own[w])
    BY <1>1, <1>5, ZenonT(30) DEF MarkEnds, Place, Whole, Exclusive, Owns, Writing
  <2>2. \A m \in Models : entry[m].receipt.lock # own[w]
    BY <1>1, <1>5, ZenonT(30) DEF MarkEnds, Place, Filling
  <2>3. Records'
    BY <1>1, <2>1, <2>2, Zenon DEF Records, ReadyIsComplete, MarkerMatches, MarkerExists, OwnedBy
  <2> QED BY <1>4, <1>5, <2>1, <2>3, Zenon DEF MarkEnds, Finish
<1>6. CASE MarkParentReadyLabels(w)
  <2>1. marker' = marker
    BY <1>6, Zenon DEF MarkParentReadyLabels, files
  <2>2. Records'
    BY <1>1, <2>1, ZenonT(30) DEF Whole, Records, ReadyIsComplete, MarkerMatches, MarkerExists,
       Spared, NoUsers
  <2>3. marker' = own[w]
    BY <1>1, <1>6, <2>1, Zenon DEF MarkParentReadyLabels, Place
  <2> QED BY <1>3, <1>4, <1>6, <2>1, <2>2, <2>3, Zenon DEF MarkParentReadyLabels
<1> QED BY <1>5, <1>6, Zenon

\* The directory is removed when nobody uses it.
LEMMA EmptiersAreWhole ==
  ASSUME Whole, Exclusive', NEW w \in Workers, RemoveBegins(w) \/ RemoveEnds(w)
  PROVE  Whole'
<1>1. pc[w] \in {"remove", "removing"} /\ UNCHANGED <<parent, entry, links>>
  BY Zenon DEF RemoveBegins, RemoveEnds, RemoveSome
<1>2. flock = w /\ pc[w] # "idle" /\ OwnedBy(parent, own[w])
  BY <1>1, Zenon DEF Whole, Exclusive, Owns, Inside, Writing
<1>3. marker # own[w] /\ own[w] # None /\ NoUsers /\ Place(w)
  BY <1>1, <1>2, ZenonT(30) DEF Whole, Place, Emptying, OwnedBy
<1>4. CASE UNCHANGED <<dir, marker>> /\ \E result : End(w, result)
  <2>1. EntryCalm /\ ParentStep
    BY <1>1, CalmEntries, Zenon DEF Whole, ParentStep
  <2> QED BY <1>1, <1>2, <1>4, <2>1, EndReturns, ReturnedIsSettled, SettledIsWhole, Zenon
<1>5. ASSUME NEW l \in {"removing", "forget"}, Go(w, l), marker' \in {marker, None}
      PROVE  Whole'
  <2>1. Moved(w, l, own[w], op[w].to)
    BY <1>2, <1>5, GoMoves, Zenon
  <2>2. NoUsers' /\ Spared' /\ marker' # own[w]
    BY <1>1, <1>3, <1>5, ZenonT(30) DEF NoUsers, Spared
  <2>3. Place(w)'
    BY <2>1, <2>2, ZenonT(30) DEF Place, Moved, Filling, Emptying
  <2>4. \A m \in Models : entry'[m].receipt.lock # None => marker' # entry'[m].receipt.lock
    BY <1>1, <1>5, ZenonT(30) DEF Whole, Records
  <2>5. Records'
    BY <1>1, <1>2, <2>2, <2>4, Zenon DEF Records, ReadyIsComplete, MarkerMatches, OwnedBy
  <2>6. FitEntry' /\ (parent.lock \in MaybeLock)'
    BY <1>1, ZenonT(30) DEF Whole, FitEntry
  <2> QED BY <1>2, <2>1, <2>3, <2>5, <2>6, WholeStep, ZenonT(30) DEF Moved
<1> QED BY <1>4, <1>5, Zenon DEF RemoveBegins, RemoveEnds, RemoveSome

\* A step under the file lock that has looked after the records.
LEMMA InsiderIsWhole ==
  ASSUME Whole, Exclusive', NEW w \in Workers, flock = w, FitEntry',
         (parent.lock \in MaybeLock)', Records',
         \/ Settled(w)
         \/ Place(w)' /\ \E l, x, t : Moved(w, l, x, t)
  PROVE  Whole'
<1>1. Settled(w) => Place(w)'
  BY Zenon DEF Settled, Place, Plain, Filling, Emptying
<1> QED BY <1>1, WholeStep, Zenon DEF Settled, Moved

\* A parent that blocks nobody has no owner.
LEMMA UnblockedIsFree ==
  ASSUME Whole, ~ blocksNewOperation(parent)
  PROVE  parent.lock = None
BY Zenon DEF Whole, Records, blocksNewOperation, interrupted

\* A download announces itself only if no deletion has the lock.
LEMMA AdmitIsWhole ==
  ASSUME Whole, Exclusive', NEW w \in Workers, Admit(w)
  PROVE  Whole'
<1>1. pc[w] = "admit" /\ UNCHANGED <<parent, dir, marker, links>>
  BY Zenon DEF Admit, Write, NoWrite, files
<1>2. flock = w /\ pc[w] # "idle" /\ FitOp(w) /\ M(w) \in Models
  BY <1>1, Zenon DEF Whole, Exclusive, Owns, Inside, FitOp, M
<1>3. CASE UNCHANGED entry /\ \E result : End(w, result)
  <2>1. EntryCalm /\ ParentStep
    BY <1>1, <1>3, CalmEntries, Zenon DEF Whole, ParentStep
  <2> QED BY <1>1, <1>2, <1>3, <2>1, EndReturns, ReturnedIsSettled, SettledIsWhole, Zenon
<1>4. CASE ~ (blocksNewOperation(parent) /\ ~ MarkerMatches)
           /\ (UNCHANGED entry \/ entry' = rememberDownload(entry, M(w)))
  <2>1. DOMAIN entry' = Models /\ \A m \in Models :
          DOMAIN entry'[m] = EntryFields /\ entry'[m].receipt = entry[m].receipt
    BY <1>2, <1>4, SMTT(30) DEF Whole, FitEntry, rememberDownload, EntryFields
  <2>2. FitEntry' /\ (parent.lock \in MaybeLock)'
    BY <1>1, <2>1, ZenonT(30) DEF Whole, FitEntry
  <2>3. \A m \in Models : ~ OwnedBy(parent, entry[m].receipt.lock)
    BY <1>4, Zenon DEF OwnedBy, blocksNewOperation, interrupted, MarkerMatches, Whole, Records
  <2>4. Records'
    BY <1>1, <2>1, <2>3, Zenon DEF Whole, Records, ReadyIsComplete, MarkerMatches, MarkerExists
  <2>5. CASE \E result : End(w, result)
    BY <1>2, <2>2, <2>4, <2>5, EndReturns, ReturnedIsSettled, InsiderIsWhole, Zenon
  <2>6. CASE /\ Goto(w, IF ~ Reuses(w) THEN "acquire"
                        ELSE IF parent.status = "Ready" THEN "attach" ELSE Finish(w))
             /\ own' = [own EXCEPT ![w] = IF Reuses(w) THEN parent.lock ELSE None]
             /\ UNCHANGED <<flock, mem, op>>
    <3>1. PICK l, x :
            /\ Moved(w, l, x, op[w].to)
            /\ \/ l = "acquire"
               \/ l = "attach" /\ parent.status = "Ready"
               \/ l \in {"relabel", "ready"} /\ x = parent.lock /\ Reuses(w)
                  /\ parent.status # "Ready"
      BY <1>2, <2>6, ZenonT(30) DEF Moved, Alone, Whole, Exclusive, Shape, FitMem, FitOp, Goto, Finish
    <3>2. l \in {"relabel", "ready"} => marker = x
      BY <1>4, <3>1, ZenonT(30) DEF Reuses, MarkerMatches
    <3>3. Place(w)'
      BY <1>1, <3>1, <3>2, ZenonT(30) DEF Place, Moved, Filling, Emptying
    <3> QED BY <1>2, <2>2, <2>4, <3>1, <3>3, InsiderIsWhole, Zenon
  <2> QED BY <1>3, <1>4, <2>5, <2>6, Zenon DEF Admit, Write, NoWrite
<1> QED BY <1>3, <1>4, ZenonT(30) DEF Admit, Write, NoWrite

\* A link to a Ready parent, and the help for an owner that had finished.
LEMMA AttachAndHelpAreWhole ==
  ASSUME Whole, Exclusive', NEW w \in Workers, AttachLink(w) \/ DetachBlocked(w)
  PROVE  Whole'
<1>1. pc[w] \in {"attach", "detach"} /\ UNCHANGED <<parent, entry, dir, marker>>
  BY ZenonT(30) DEF AttachLink, DetachBlocked, files
<1>2. flock = w /\ pc[w] # "idle" /\ Place(w)
  BY <1>1, Zenon DEF Whole, Exclusive, Owns, Inside
<1>3. FitEntry' /\ (parent.lock \in MaybeLock)'
  BY <1>1, Zenon DEF Whole, FitEntry
<1>4. CASE AttachLink(w)
  <2>1. parent.status = "Ready"
    BY <1>2, <1>4, ZenonT(30) DEF AttachLink, Place
  <2>2. Records'
    BY <1>1, <2>1, ZenonT(30) DEF Whole, Records, ReadyIsComplete, MarkerMatches, MarkerExists, OwnedBy
  <2>3. CASE Go(w, "addref")
    <3>1. Moved(w, "addref", own[w], op[w].to)
      BY <1>2, <2>3, GoMoves, ZenonT(30)
    <3>2. Place(w)'
      BY <1>1, <2>1, <3>1, Zenon DEF Place, Moved, Filling, Emptying
    <3> QED BY <1>2, <1>3, <2>2, <3>1, <3>2, InsiderIsWhole, ZenonT(30)
  <2>4. CASE End(w, "retry") \/ End(w, "error")
    BY <1>2, <1>3, <2>2, <2>4, EndReturns, ReturnedIsSettled, InsiderIsWhole, Zenon
  <2> QED BY <1>4, <2>3, <2>4, Zenon DEF AttachLink
<1>5. CASE DetachBlocked(w)
  <2>1. UNCHANGED links
    BY <1>5, Zenon DEF DetachBlocked, files
  <2>2. Records'
    BY <1>1, <2>1, Zenon DEF Whole, Records, ReadyIsComplete, MarkerMatches, MarkerExists,
       Spared, NoUsers
  <2>3. CASE /\ MarkerMatches /\ own' = [own EXCEPT ![w] = parent.lock]
             /\ Goto(w, Finish(w)) /\ UNCHANGED <<flock, mem, op>>
    <3>1. PICK l \in {"relabel", "ready"} : Moved(w, l, parent.lock, op[w].to)
      BY <1>2, <2>3, ZenonT(30) DEF Moved, Alone, Whole, Exclusive, Shape, FitMem, FitOp, Goto, Finish
    <3>2. Place(w)'
      BY <1>1, <2>3, <3>1, ZenonT(30) DEF Place, Moved, Filling, Emptying, MarkerMatches
    <3> QED BY <1>2, <1>3, <2>2, <3>1, <3>2, InsiderIsWhole, Zenon
  <2>4. CASE End(w, "retry")
    BY <1>2, <1>3, <2>2, <2>4, EndReturns, ReturnedIsSettled, InsiderIsWhole, Zenon
  <2> QED BY <1>5, <2>3, <2>4, Zenon DEF DetachBlocked
<1> QED BY <1>4, <1>5, Zenon

\* A deletion begins with a lock ID that is not in the marker; its receipt says
\* that the parent was Ready only if the files are complete.
LEMMA ReceiptIsTrue ==
  ASSUME Whole, parent.lock = None, NEW m \in Models, NEW l \in FreshLocks,
         NEW x \in {l, None},
         dir' = dir, marker' = marker, links' = links,
         DOMAIN entry' = Models,
         \A n \in Models : DOMAIN entry'[n] = EntryFields,
         \A n \in Models \ {m} : entry'[n].receipt = entry[n].receipt,
         entry'[m].receipt.lock = x, entry'[m].receipt.before = parent.status,
         IF x = l THEN parent'.status = "Updating" /\ parent'.lock = l
         ELSE parent'.status = parent.status /\ parent'.lock = parent.lock
  PROVE  Records' /\ FitEntry' /\ (parent.lock \in MaybeLock)'
<1>1. /\ l \in Locks /\ l # None /\ l # marker
      /\ \A n \in Models : l # entry[n].receipt.lock
  BY Fresh, ZenonT(30)
<1>2. FitEntry' /\ (parent.lock \in MaybeLock)'
  BY <1>1, ZenonT(30) DEF Whole, FitEntry, MaybeLock
<1>3. ReadyIsComplete' /\ (parent'.lock # None => parent'.status = "Updating")
  BY <1>1, ZenonT(30) DEF Whole, Records, ReadyIsComplete, MarkerMatches, MarkerExists
<1>4. \A n \in Models : entry'[n].receipt.lock # None => marker' # entry'[n].receipt.lock
  BY <1>1, ZenonT(30) DEF Whole, Records
<1>5. ASSUME NEW n \in Models, OwnedBy(parent', entry'[n].receipt.lock),
             entry'[n].receipt.before = "Ready"
      PROVE  Spared'
  <2>1. parent'.lock = l /\ entry'[n].receipt.lock = l
    BY <1>5, Zenon DEF OwnedBy
  <2>2. n = m
    BY <1>1, <2>1, Zenon
  <2>3. dir \in Good
    BY <1>5, <2>2, Zenon DEF Whole, Records, ReadyIsComplete
  <2> QED BY <2>3, Zenon DEF Spared
<1> QED BY <1>2, <1>3, <1>4, <1>5, ZenonT(30) DEF Records

\* removeModelReference.
LEMMA DetachReferenceIsWhole ==
  ASSUME Whole, Exclusive', NEW w \in Workers, DetachReference(w)
  PROVE  Whole'
<1>1. pc[w] = "detach" /\ UNCHANGED <<dir, marker, links>> /\ parent.lock = None
  BY UnblockedIsFree, Zenon DEF DetachReference, files
<1>2. flock = w /\ pc[w] # "idle" /\ FitOp(w) /\ M(w) \in Models
  BY <1>1, Zenon DEF Whole, Exclusive, Owns, Inside, FitOp, M
<1>3. PICK l \in FreshLocks :
        Write(removeFromParent(parent, M(w), l), removeFromModel(parent, entry, M(w), l),
              IF ~ Preserves(w) THEN Go(w, "claim")
              ELSE IF LastReference(parent, M(w))
              THEN Own(w, l, parent.status, "unclaim") ELSE Go(w, "receipt"),
              End(w, "retry"))
  BY Zenon DEF DetachReference
<1>4. Settled(w)
  <2>1. ~ Preserves(w)
    BY <1>2, Zenon DEF Preserves, FitOp
  <2>2. Go(w, "claim") \/ End(w, "retry")
    BY <1>3, <2>1, Zenon DEF Write
  <2>3. "claim" \in Plain
    BY Zenon DEF Plain
  <2> QED BY <1>2, <2>2, <2>3, GoMoves, MovedIsSettled, EndReturns, ReturnedIsSettled, ZenonT(30)
<1>5. CASE UNCHANGED <<parent, entry>>
  <2>1. EntryCalm /\ ParentStep
    BY <1>5, CalmEntries, Zenon DEF Whole, ParentStep
  <2> QED BY <1>1, <1>2, <1>4, <2>1, SettledIsWhole, ZenonT(30)
<1>6. CASE /\ parent' = removeFromParent(parent, M(w), l)
           /\ entry' = removeFromModel(parent, entry, M(w), l)
  <2> DEFINE x == IF LastReference(parent, M(w)) THEN l ELSE None
  <2>1. DOMAIN entry' = Models /\ \A n \in Models : DOMAIN entry'[n] = EntryFields
    BY <1>2, <1>6, Zenon DEF removeFromModel, Whole, FitEntry, EntryFields
  <2>2. \A n \in Models \ {M(w)} : entry'[n].receipt = entry[n].receipt
    BY <1>6, Zenon DEF removeFromModel, Whole, FitEntry
  <2>3. entry'[M(w)].receipt.lock = x /\ entry'[M(w)].receipt.before = parent.status
    BY <1>1, <1>2, <1>6, Zenon DEF removeFromModel, Whole, FitEntry, EntryFields
  <2>4. DOMAIN parent = Fields /\ l # None
    BY Fresh, Zenon DEF Whole, Exclusive, Shape
  <2>5. IF x = l THEN parent'.status = "Updating" /\ parent'.lock = l
        ELSE parent'.status = parent.status /\ parent'.lock = parent.lock
    BY <1>6, <2>4, Zenon DEF removeFromParent, tryAcquireLock, Fields
  <2>6. x \in {l, None}
    BY Zenon
  <2> HIDE DEF x
  <2>7. Records' /\ FitEntry' /\ (parent.lock \in MaybeLock)'
    BY <1>1, <1>2, <2>1, <2>2, <2>3, <2>5, <2>6, ReceiptIsTrue, ZenonT(30)
  <2> QED BY <1>2, <1>4, <2>7, InsiderIsWhole, Zenon
<1> QED BY <1>3, <1>5, <1>6, Zenon DEF Write

\* deletionParent: a new lock, or the one of the receipt.
LEMMA ClaimIsWhole ==
  ASSUME Whole, Exclusive', NEW w \in Workers, Claim(w)
  PROVE  Whole'
<1> DEFINE receipt == entry[M(w)].receipt
<1>1. pc[w] = "claim" /\ UNCHANGED <<dir, marker, links>>
  BY ZenonT(30) DEF Claim, files
<1>2. flock = w /\ pc[w] # "idle" /\ FitOp(w) /\ M(w) \in Models /\ own[w] = None
  BY <1>1, ZenonT(30) DEF Whole, Exclusive, Owns, Inside, Holding, Writing, FitOp, M
<1>3. CASE UNCHANGED <<parent, entry>>
           /\ \/ End(w, "retry")
              \/ Go(w, "unlink")
              \/ /\ blocksNewOperation(parent) /\ receipt.lock # None /\ receipt.lock = parent.lock
                 /\ Own(w, receipt.lock, receipt.before, "unlink")
  <2>1. EntryCalm /\ ParentStep
    BY <1>3, CalmEntries, Zenon DEF Whole, ParentStep
  <2>2. Records' /\ FitEntry' /\ (parent.lock \in MaybeLock)'
    BY <1>1, <2>1, RecordsKept, Zenon
  <2>3. CASE End(w, "retry")
    BY <1>2, <2>2, <2>3, EndReturns, ReturnedIsSettled, InsiderIsWhole, Zenon
  <2>4. CASE Go(w, "unlink")
    <3>1. Moved(w, "unlink", None, op[w].to)
      BY <1>2, <2>4, GoMoves, ZenonT(30)
    <3>2. Place(w)'
      BY <3>1, Zenon DEF Place, Moved, Filling, Emptying
    <3> QED BY <1>2, <2>2, <3>1, <3>2, InsiderIsWhole, ZenonT(30)
  <2>5. CASE /\ blocksNewOperation(parent) /\ receipt.lock # None /\ receipt.lock = parent.lock
             /\ Own(w, receipt.lock, receipt.before, "unlink")
    <3>1. Moved(w, "unlink", receipt.lock, receipt.before)
      BY <1>2, <2>5, OwnMoves, ZenonT(30)
    <3>2. OwnedBy(parent, receipt.lock) /\ marker # receipt.lock
      BY <1>2, <2>5, ZenonT(30) DEF OwnedBy, blocksNewOperation, Whole, Records
    <3>3. receipt.before = "Ready" => Spared'
      BY <1>1, <1>2, <1>3, <3>2, ZenonT(30) DEF Whole, Records, Spared, NoUsers
    <3>4. Place(w)'
      BY <1>1, <3>1, <3>2, <3>3, Zenon DEF Place, Moved, Filling, Emptying
    <3> QED BY <1>2, <2>2, <3>1, <3>4, InsiderIsWhole, ZenonT(30)
  <2> QED BY <1>3, <2>3, <2>4, <2>5, ZenonT(30)
<1>4. ASSUME Claimable(parent), NEW l \in FreshLocks,
             Write(tryAcquireLock(parent, l), claimDeletion(parent, entry, M(w), l),
                   Own(w, l, parent.status, "unlink"), End(w, "retry"))
      PROVE  Whole'
  <2>1. CASE UNCHANGED <<parent, entry>> /\ End(w, "retry")
    BY <1>3, <2>1, Zenon
  <2>2. CASE /\ parent' = tryAcquireLock(parent, l)
             /\ entry' = claimDeletion(parent, entry, M(w), l)
    <3>1. parent.lock = None
      BY <1>4, UnblockedIsFree, Zenon DEF Claimable
    <3>2. DOMAIN entry' = Models /\ \A n \in Models : DOMAIN entry'[n] = EntryFields
      BY <1>2, <2>2, Zenon DEF claimDeletion, Whole, FitEntry, EntryFields
    <3>3. \A n \in Models \ {M(w)} : entry'[n].receipt = entry[n].receipt
      BY <2>2, Zenon DEF claimDeletion, Whole, FitEntry
    <3>4. entry'[M(w)].receipt.lock = l /\ entry'[M(w)].receipt.before = parent.status
      BY <1>2, <2>2, Zenon DEF claimDeletion, Whole, FitEntry, EntryFields
    <3>5. parent'.status = "Updating" /\ parent'.lock = l
      BY <2>2, Zenon DEF tryAcquireLock, Whole, Exclusive, Shape, Fields
    <3>6. Records' /\ FitEntry' /\ (parent.lock \in MaybeLock)'
      BY <1>1, <1>2, <3>1, <3>2, <3>3, <3>4, <3>5, ReceiptIsTrue, Zenon
    <3>7. CASE End(w, "retry")
      BY <1>2, <3>6, <3>7, EndReturns, ReturnedIsSettled, InsiderIsWhole, ZenonT(30)
    <3>8. CASE Own(w, l, parent.status, "unlink")
      <4>1. Moved(w, "unlink", l, parent.status)
        BY <1>2, <3>8, OwnMoves, Zenon
      <4>2. parent.status = "Ready" => Spared'
        BY <1>1, Zenon DEF Whole, Records, ReadyIsComplete, Spared
      <4>3. marker' # l
        BY <1>1, Fresh, Zenon
      <4>4. Place(w)'
        BY <4>1, <4>2, <4>3, ZenonT(30) DEF Place, Moved, Filling, Emptying
      <4> QED BY <1>2, <3>6, <4>1, <4>4, InsiderIsWhole, ZenonT(30)
    <3> QED BY <1>4, <3>7, <3>8, Zenon DEF Write
  <2> QED BY <1>4, <2>1, <2>2, Zenon DEF Write
<1>5. \/ /\ UNCHANGED <<parent, entry>>
         /\ \/ End(w, "retry")
            \/ Go(w, "unlink")
            \/ /\ blocksNewOperation(parent) /\ receipt.lock # None /\ receipt.lock = parent.lock
               /\ Own(w, receipt.lock, receipt.before, "unlink")
      \/ /\ Claimable(parent)
         /\ \E l \in FreshLocks :
              Write(tryAcquireLock(parent, l), claimDeletion(parent, entry, M(w), l),
                    Own(w, l, parent.status, "unlink"), End(w, "retry"))
  BY ZenonT(30) DEF Claim, NoWrite
<1> QED BY <1>3, <1>4, <1>5, ZenonT(30)

\* A parent is given back only if somebody needs it, which nobody can have come
\* to do since the deletion took the lock, unless the files are complete.
LEMMA UnlinkIsWhole ==
  ASSUME NoOtherUsers, Whole, Exclusive', NEW w \in Workers, Unlink(w)
  PROVE  Whole'
<1>1. pc[w] = "unlink" /\ UNCHANGED <<parent, entry, dir, marker>>
  BY Zenon DEF Unlink
<1>2. flock = w /\ pc[w] # "idle" /\ ~ op[w].keep /\ Place(w)
  BY <1>1, Zenon DEF Whole, Exclusive, Owns, Inside, FitOp
<1>3. EntryCalm /\ ParentStep
  BY <1>1, CalmEntries, Zenon DEF Whole, ParentStep
<1>4. CASE End(w, "retry") /\ UNCHANGED links
  BY <1>1, <1>2, <1>3, <1>4, EndReturns, ReturnedIsSettled, SettledIsWhole, ZenonT(30)
<1>5. CASE \E used \in BOOLEAN :
             LET kept == used \/ op[w].keep
             IN  /\ PathUsed(used)
                 /\ links' = IF kept THEN links ELSE links \ {M(w)}
                 /\ Go(w, IF own[w] = None THEN "receipt"
                          ELSE IF kept \/ Needed(links') THEN "unclaim" ELSE "remove")
  <2>1. /\ links' = links \ {M(w)}
        /\ Go(w, IF own[w] = None THEN "receipt"
                 ELSE IF Needed(links') THEN "unclaim" ELSE "remove")
    BY <1>2, <1>5, PathsAreUnused, ZenonT(30)
  <2>2. Records' /\ FitEntry' /\ (parent.lock \in MaybeLock)'
    BY <1>1, <1>3, <2>1, RecordsKept, Zenon
  <2>3. CASE own[w] = None /\ Go(w, "receipt")
    <3>1. Settled(w)
      BY <1>2, <2>3, GoMoves, MovedIsSettled, ZenonT(30) DEF Plain
    <3> QED BY <1>2, <2>2, <3>1, InsiderIsWhole, ZenonT(30)
  <2>4. CASE own[w] # None /\ Needed(links') /\ Go(w, "unclaim")
    <3>1. Moved(w, "unclaim", own[w], op[w].to)
      BY <1>2, <2>4, GoMoves, Zenon
    <3>2. ~ NoUsers
      BY <2>1, <2>4, Zenon DEF Needed, NoUsers
    <3>3. marker # own[w] /\ (op[w].to = "Ready" => dir \in Good)
      BY <1>1, <1>2, <2>4, <3>2, Zenon DEF Place, Spared
    <3>4. Place(w)'
      BY <1>1, <3>1, <3>3, ZenonT(30) DEF Place, Moved, Filling, Emptying
    <3> QED BY <1>2, <2>2, <3>1, <3>4, InsiderIsWhole, ZenonT(30)
  <2>5. CASE own[w] # None /\ ~ Needed(links') /\ Go(w, "remove")
    <3>1. Moved(w, "remove", own[w], op[w].to)
      BY <1>2, <2>5, GoMoves, ZenonT(30)
    <3>2. NoUsers'
      BY <1>1, <2>5, ZenonT(30) DEF Needed, NoUsers
    <3>3. marker # own[w]
      BY <1>1, <1>2, <2>5, Zenon DEF Place
    <3>4. Place(w)'
      BY <1>1, <3>1, <3>2, <3>3, Zenon DEF Place, Moved, Filling, Emptying
    <3> QED BY <1>2, <2>2, <3>1, <3>4, InsiderIsWhole, ZenonT(30)
  <2> QED BY <2>1, <2>3, <2>4, <2>5, Zenon
<1> QED BY <1>4, <1>5, Zenon DEF Unlink

\* Processes die: what they had begun stays as it is.
LEMMA DeathIsWhole ==
  ASSUME Whole, Exclusive', NEW as, Die(as), EntryCalm,
         parent' = parent \/ (parent' = NoParent /\ as = Agents)
  PROVE  Whole'
<1>1. UNCHANGED <<dir, marker, links>> /\ home \in [Workers -> Agents]
  BY Zenon DEF Die, files, Whole, Exclusive, Shape
<1>2. ParentStep
  <2>1. NoParent.lock = None /\ NoParent.status # "Ready"
    BY Zenon DEF NoParent
  <2> QED BY <2>1, Zenon DEF ParentStep
<1>3. Records' /\ FitEntry' /\ (parent.lock \in MaybeLock)'
  BY <1>1, <1>2, RecordsKept, Zenon
<1>4. FitMem'
  BY Zenon DEF Die, Whole, FitMem, NewMemory, MemFields
<1>5. ASSUME NEW v \in Workers
      PROVE  FitOp(v)' /\ Place(v)'
  <2>1. CASE home[v] \in as
    <3>1. pc'[v] = "idle" /\ op'[v] = Idle
      BY <2>1, Zenon DEF Die
    <3>2. FitOp(v)'
      BY <3>1, IdleFields, Zenon DEF FitOp
    <3>3. Place(v)'
      BY <3>1, ZenonT(30) DEF Place, Filling, Emptying
    <3> QED BY <3>2, <3>3, Zenon
  <2>2. CASE home[v] \notin as
    <3>1. pc'[v] = pc[v] /\ op'[v] = op[v] /\ own'[v] = own[v]
      BY <2>2, Zenon DEF Die
    <3>2. Calm
      BY <1>1, <2>2, Zenon DEF Calm
    <3> QED BY <3>1, <3>2, CalmKeepsPlace, ZenonT(30) DEF Whole, FitOp
  <2> QED BY <2>1, <2>2, ZenonT(30)
<1> QED BY <1>3, <1>4, <1>5, Zenon DEF Whole

\* Crashes, the loss of the ConfigMap, damage and changes of resources.
LEMMA EnvironmentIsWhole ==
  ASSUME Whole, Exclusive',
         \/ \E m \in Models : ResourceChange(m)
         \/ \E a \in Agents : Crash(a)
         \/ LoseConfigMap \/ Rot \/ UNCHANGED vars
  PROVE  Whole'
<1>1. ASSUME NEW m \in Models, ResourceChange(m)
      PROVE  Whole'
  <2>1. UNCHANGED <<parent, entry, dir, marker, links, pc, op, own>>
    BY <1>1, Zenon DEF ResourceChange, files
  <2>2. FitMem'
    BY <1>1, Zenon DEF ResourceChange, Queue, Whole, FitMem, MemFields
  <2>3. FitEntry' /\ Records' /\ \A w \in Workers : FitOp(w)' /\ Place(w)'
    BY <2>1, ZenonT(30) DEF Whole, FitEntry, FitOp, Place, Records, ReadyIsComplete,
       MarkerMatches, MarkerExists,
                Spared, NoUsers
  <2> QED BY <2>1, <2>2, <2>3, Zenon DEF Whole
<1>2. ASSUME NEW a \in Agents, Crash(a)
      PROVE  Whole'
  <2>1. EntryCalm
    BY <1>2, CalmEntries, Zenon DEF Crash, Whole
  <2> QED BY <1>2, <2>1, DeathIsWhole, Zenon DEF Crash
<1>3. CASE LoseConfigMap
  <2>1. EntryCalm
    BY <1>3, Zenon DEF LoseConfigMap, EntryCalm, EntryFields, NoEntry, NoReceipt
  <2> QED BY <1>3, <2>1, DeathIsWhole, Zenon DEF LoseConfigMap
<1>4. CASE Rot
  <2>1. UNCHANGED <<parent, entry, marker, links, pc, op, own, mem>> /\ dir' \in Good
    BY <1>4, Zenon DEF Rot, local, Good
  <2>2. FitMem' /\ FitEntry' /\ Records' /\ \A w \in Workers : FitOp(w)' /\ Place(w)'
    BY <2>1, ZenonT(30) DEF Whole, FitMem, FitEntry, FitOp, Place, Records, ReadyIsComplete,
       MarkerMatches,
                MarkerExists, Spared, NoUsers
  <2> QED BY <2>1, <2>2, Zenon DEF Whole
<1>5. CASE UNCHANGED vars
  <2>1. UNCHANGED <<parent, entry, dir, marker, links, pc, op, own, mem>>
    BY <1>5, Zenon DEF vars, files, local
  <2>2. FitMem' /\ FitEntry' /\ Records' /\ \A w \in Workers : FitOp(w)' /\ Place(w)'
    BY <2>1, ZenonT(30) DEF Whole, FitMem, FitEntry, FitOp, Place, Records, ReadyIsComplete,
       MarkerMatches,
                MarkerExists, Spared, NoUsers
  <2> QED BY <2>1, <2>2, Zenon DEF Whole
<1> QED BY <1>1, <1>2, <1>3, <1>4, <1>5, Zenon

\* One step, action by action.
LEMMA WholeNext ==
  ASSUME NoOtherUsers, Whole, [Next]_vars
  PROVE  Whole'
<1>1. Exclusive'
  BY ExclusiveStep, Zenon DEF Whole
<1>2. ASSUME NEW w \in Workers, Step(w) \/ \E k \in Kinds, m \in Models : Start(w, k, m)
      PROVE  Whole'
  <2>1. CASE \/ CleanupIntent(w) \/ Cleanup(w) \/ DeleteOrdinary(w) \/ Route(w) \/ Enter(w)
             \/ DeleteInstead(w) \/ Final(w) \/ (\E k \in Kinds, m \in Models : Start(w, k, m))
             \/ markModelOnNodeFailed(w) \/ PublishLabel(w) \/ PublishStatus(w)
             \/ DetachUnreferenced(w) \/ FinishReceipt(w)
    BY <1>1, <2>1, OutsidersAreWhole, Zenon
  <2>2. CASE recover(w) \/ recoverParent(w)
    BY <1>1, <2>2, RecoveryIsWhole, Zenon
  <2>3. CASE Settle(w) \/ AttachReference(w) \/ Release(w) \/ Forget(w) \/ Unclaim(w)
    BY <1>1, <2>3, KeepersAreWhole, Zenon
  <2>4. CASE MarkParentReady(w)
    BY <1>1, <2>4, MarkParentReadyIsWhole, Zenon
  <2>5. CASE AcquireInitial(w) \/ AcquireRepair(w)
    BY <1>1, <2>5, AcquirersAreWhole, Zenon
  <2>6. CASE \/ ResetBegins(w) \/ ResetEnds(w) \/ FetchBegins(w) \/ FetchEnds(w) \/ MarkBegins(w)
             \/ Validate(w) \/ FailChildren(w) \/ FailLabels(w) \/ RemoveMarker(w)
    BY <1>1, <2>6, FillersAreWhole, Zenon
  <2>7. CASE MarkEnds(w) \/ MarkParentReadyLabels(w)
    BY <1>1, <2>7, MarkersAreWhole, Zenon
  <2>8. CASE RemoveBegins(w) \/ RemoveEnds(w)
    BY <1>1, <2>8, EmptiersAreWhole, Zenon
  <2>9. CASE Admit(w)
    BY <1>1, <2>9, AdmitIsWhole, Zenon
  <2>10. CASE AttachLink(w) \/ DetachBlocked(w)
    BY <1>1, <2>10, AttachAndHelpAreWhole, Zenon
  <2>11. CASE DetachReference(w)
    BY <1>1, <2>11, DetachReferenceIsWhole, Zenon
  <2>12. CASE Claim(w)
    BY <1>1, <2>12, ClaimIsWhole, Zenon
  <2>13. CASE Unlink(w)
    BY <1>1, <2>13, UnlinkIsWhole, Zenon
  <2> QED BY <1>2, <2>1, <2>2, <2>3, <2>4, <2>5, <2>6, <2>7, <2>8, <2>9, <2>10, <2>11, <2>12,
             <2>13, ZenonT(30)
             DEF Step, DownloadStep, DeleteStep
<1>3. CASE \/ \E m \in Models : ResourceChange(m)
           \/ \E a \in Agents : Crash(a)
           \/ LoseConfigMap \/ Rot \/ UNCHANGED vars
  BY <1>1, <1>3, EnvironmentIsWhole, Zenon
<1> QED BY <1>2, <1>3, Zenon DEF Next

\* Nothing has been stored yet.
LEMMA WholeAtFirst ==
  ASSUME Init
  PROVE  Whole
<1>1. Exclusive
  BY ZenonT(30) DEF Init, Exclusive, Shape, Owns, NoParent, Fields, Inside, Writing, Holding
<1>2. FitEntry /\ parent.lock \in MaybeLock
  BY ZenonT(30) DEF Init, FitEntry, NoEntry, NoReceipt, EntryFields, NoParent, MaybeLock
<1>3. FitMem
  BY ZenonT(30) DEF Init, FitMem, NewMemory, MemFields
<1>4. Records
  BY ZenonT(30) DEF Init, Records, ReadyIsComplete, MarkerMatches, NoParent, OwnedBy
<1>5. \A w \in Workers : FitOp(w) /\ Place(w)
  BY Zenon DEF Init, FitOp, Idle, OpFields, Place, Filling, Emptying
<1> QED BY <1>1, <1>2, <1>3, <1>4, <1>5, Zenon DEF Whole

\* A parent that is Ready, or that recovery would make Ready because of its marker, has
\* all its files, whatever downloads, repairs, deletions, crashes, lost answers and lost
\* ConfigMaps came together, if no other resource uses the path of a model.
THEOREM ReadyIsCompleteHolds ==
  ASSUME NoOtherUsers
  PROVE  Spec => []ReadyIsComplete
<1>1. Init => Whole
  BY WholeAtFirst, Zenon
<1>2. Whole /\ [Next]_vars => Whole'
  BY WholeNext, Zenon
<1>3. Whole => ReadyIsComplete
  BY Zenon DEF Whole, Records
<1> QED BY <1>1, <1>2, <1>3, PTL DEF Spec
=============================================================================
