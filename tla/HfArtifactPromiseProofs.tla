---------------------- MODULE HfArtifactPromiseProofs -----------------------
(***************************************************************************)
(* HfArtifact implements SharedArtifact, for any models, workers,          *)
(* processes, locks and faults, as long as no other resource uses the path *)
(* of a model.                                                             *)
(*                                                                         *)
(* A step changes the directory, the links, or neither.  Only an owner     *)
(* changes the directory, so the parent is not Ready then (Exclusive), and *)
(* only a removal that saw no users empties it (Removal).  A link is made  *)
(* to a parent that is Ready (Whole).  In all other steps only the status  *)
(* can change, and it becomes Ready only over complete files (Whole).      *)
(*                                                                         *)
(* In a node with one agent process this reaches the consumers: a model    *)
(* whose label says Ready has complete files (Served).                     *)
(***************************************************************************)
EXTENDS HfArtifactReadyProofs, HfArtifactReferenceProofs

\* What the steps do to the directory and to the links.
DirChanges(w) ==
  \/ ResetBegins(w) \/ ResetEnds(w) \/ FetchBegins(w) \/ FetchEnds(w)
  \/ RemoveBegins(w) \/ RemoveEnds(w)

LinksChange(w) ==
  AttachLink(w) \/ DetachUnreferenced(w) \/ Unlink(w) \/ DeleteOrdinary(w)

\* All other steps of a worker leave both alone.
LEMMA OnlyStatusChanges ==
  ASSUME NEW w \in Workers, Step(w), ~ DirChanges(w), ~ LinksChange(w)
  PROVE  UNCHANGED <<dir, links>>
<1>1. CASE \/ markModelOnNodeFailed(w) \/ Route(w) \/ Admit(w) \/ AcquireInitial(w) \/ AcquireRepair(w)
           \/ MarkBegins(w) \/ MarkEnds(w) \/ MarkParentReadyLabels(w) \/ MarkParentReady(w)
           \/ AttachReference(w) \/ Validate(w) \/ FailChildren(w) \/ FailLabels(w)
           \/ RemoveMarker(w) \/ Release(w) \/ DeleteInstead(w) \/ PublishLabel(w) \/ PublishStatus(w)
  BY <1>1, ZenonT(30) DEF markModelOnNodeFailed, Route, Admit, AcquireInitial, AcquireRepair,
     MarkBegins, MarkEnds,
     MarkParentReadyLabels, MarkParentReady, AttachReference, Validate, FailChildren,
     FailLabels, RemoveMarker, Release, DeleteInstead, PublishLabel, PublishStatus, files
<1>2. CASE \/ DetachBlocked(w) \/ DetachReference(w) \/ Claim(w)
           \/ Forget(w) \/ Unclaim(w) \/ FinishReceipt(w) \/ Final(w)
           \/ CleanupIntent(w) \/ Cleanup(w) \/ recover(w) \/ recoverParent(w)
           \/ Enter(w) \/ Settle(w)
  BY <1>2, Zenon DEF DetachBlocked, DetachReference, Claim, Forget, Unclaim,
     FinishReceipt, Final, CleanupIntent, Cleanup, recover, recoverParent, Enter, Settle, files
<1> QED BY <1>1, <1>2, Zenon DEF Step, DownloadStep, DeleteStep, DirChanges, LinksChange

\* A step that touches neither is Offer, Withdraw or nothing.
LEMMA StatusKeepsPromise ==
  ASSUME Whole', UNCHANGED <<Content, links>>
  PROVE  [Promise!Next]_<<Content, parent.status = "Ready", links>>
<1>1. CASE (parent.status = "Ready")' = (parent.status = "Ready")
  BY <1>1, Zenon
<1>2. CASE parent.status = "Ready" /\ parent'.status # "Ready"
  <2>1. Promise!Withdraw
    BY <1>2, Zenon DEF Promise!Withdraw
  <2> QED BY <2>1, Zenon DEF Promise!Next
<1>3. CASE parent.status # "Ready" /\ parent'.status = "Ready"
  <2>1. Content' = "whole"
    BY <1>3, Zenon DEF Whole, Records, ReadyIsComplete, Content
  <2>2. Promise!Offer
    BY <1>3, <2>1, Zenon DEF Promise!Offer
  <2> QED BY <2>2, Zenon DEF Promise!Next
<1> QED BY <1>1, <1>2, <1>3, Zenon

\* A step that changes the directory is Work.
LEMMA DirKeepsPromise ==
  ASSUME Whole, Removal, NEW w \in Workers, DirChanges(w)
  PROVE  [Promise!Next]_<<Content, parent.status = "Ready", links>>
<1>1. pc[w] \in Writing /\ UNCHANGED <<parent, links>>
  BY Zenon DEF DirChanges, ResetBegins, ResetEnds, FetchBegins, FetchEnds, RemoveBegins, RemoveEnds,
         RemoveSome, Writing
<1>2. parent.status # "Ready"
  BY <1>1, Zenon DEF Whole, Exclusive, Owns, OwnedBy
<1>3. Content' \in {"none", "partial", "whole"}
  BY Zenon DEF Content
<1>4. Content' = "none" => links = {} \/ dir = "absent"
  <2> SUFFICES ASSUME Content' = "none", dir # "absent"
               PROVE  links = {}
    BY Zenon
  <2>1. dir' = "absent"
    BY Zenon DEF Content
  <2>2. pc[w] = "removing"
    BY <2>1, Zenon DEF DirChanges, ResetBegins, ResetEnds, FetchBegins, FetchEnds, RemoveBegins, RemoveEnds,
                RemoveSome
  <2> QED BY <2>2, Zenon DEF Removal, Unused, Removing
<1>5. CASE Content' = Content
  BY <1>1, <1>5, Zenon
<1>6. CASE Content' # Content
  <2>1. Content' = "none" => links = {}
    BY <1>4, <1>6, Zenon DEF Content, Good
  <2>2. Promise!Work
    BY <1>1, <1>2, <1>3, <2>1, Zenon DEF Promise!Work
  <2> QED BY <2>2, Zenon DEF Promise!Next
<1> QED BY <1>5, <1>6, Zenon

\* A link is made to a parent that is Ready.
LEMMA LinksKeepPromise ==
  ASSUME Whole, NEW w \in Workers, LinksChange(w)
  PROVE  [Promise!Next]_<<Content, parent.status = "Ready", links>>
<1>1. UNCHANGED <<parent, dir>> /\ pc[w] # "idle"
  BY Zenon DEF LinksChange, AttachLink, DetachUnreferenced, Unlink, DeleteOrdinary
<1>2. M(w) \in Models /\ Content' = Content
  BY <1>1, Zenon DEF Whole, FitOp, M, Content
<1>3. \/ UNCHANGED links
      \/ links' = links \ {M(w)}
      \/ links' = links \cup {M(w)} /\ pc[w] = "attach"
  BY Zenon DEF LinksChange, AttachLink, DetachUnreferenced, Unlink, DeleteOrdinary
<1>4. CASE UNCHANGED links
  BY <1>1, <1>2, <1>4, Zenon
<1>5. CASE links' = links \ {M(w)}
  <2>1. Promise!Stop(M(w))
    BY <1>1, <1>2, <1>5, Zenon DEF Promise!Stop
  <2> QED BY <1>2, <2>1, Zenon DEF Promise!Next
<1>6. CASE links' = links \cup {M(w)} /\ pc[w] = "attach"
  <2>1. parent.status = "Ready"
    BY <1>6, Zenon DEF Whole, Place
  <2>2. Promise!Begin(M(w))
    BY <1>1, <1>2, <1>6, <2>1, Zenon DEF Promise!Begin
  <2> QED BY <1>2, <2>2, Zenon DEF Promise!Next
<1> QED BY <1>3, <1>4, <1>5, <1>6, Zenon

\* Every step of HfArtifact is a step of SharedArtifact, or stutters.
LEMMA PromiseStep ==
  ASSUME Whole, Whole', Removal, [Next]_vars
  PROVE  [Promise!Next]_<<Content, parent.status = "Ready", links>>
<1>1. ASSUME NEW w \in Workers, Step(w)
      PROVE  [Promise!Next]_<<Content, parent.status = "Ready", links>>
  <2>1. CASE DirChanges(w)
    BY <2>1, DirKeepsPromise, Zenon
  <2>2. CASE LinksChange(w)
    BY <2>2, LinksKeepPromise, Zenon
  <2>3. CASE ~ DirChanges(w) /\ ~ LinksChange(w)
    <3>1. UNCHANGED <<dir, links>>
      BY <1>1, <2>3, OnlyStatusChanges, Zenon
    <3>2. UNCHANGED <<Content, links>>
      BY <3>1, Zenon DEF Content
    <3> QED BY <3>2, StatusKeepsPromise, Zenon
  <2> QED BY <2>1, <2>2, <2>3, Zenon
<1>2. CASE \/ \E w \in Workers, k \in Kinds, m \in Models : Start(w, k, m)
           \/ \E m \in Models : ResourceChange(m)
           \/ \E a \in Agents : Crash(a)
           \/ LoseConfigMap \/ Rot \/ UNCHANGED vars
  <2>1. links' = links /\ (dir' = dir \/ (dir \in Good /\ dir' \in Good))
    BY <1>2, Zenon DEF Start, ResourceChange, Crash, LoseConfigMap, Die, Rot, vars, files, Good
  <2>2. UNCHANGED <<Content, links>>
    BY <2>1, Zenon DEF Content
  <2> QED BY <2>2, StatusKeepsPromise, Zenon
<1> QED BY <1>1, <1>2, Zenon DEF Next

\* Shared storage keeps what it promises to its users: files change only while the parent
\* is not Ready, it becomes Ready only when it is complete, links are made only to a Ready
\* parent, and the directory goes when no link is left.
THEOREM KeepsPromiseHolds ==
  ASSUME NoOtherUsers
  PROVE  Spec => KeepsPromise
<1>1. Init => Whole /\ Removal
  BY WholeAtFirst, RemovalAtFirst, Zenon
<1>2. Whole /\ Removal /\ [Next]_vars => Whole' /\ Removal'
  BY WholeNext, RemovalStep, Zenon
<1>3. Init => Promise!Init
  BY DEF Init, Promise!Init, NoParent, Content, Good
<1>4. Whole /\ Whole' /\ Removal /\ [Next]_vars =>
        [Promise!Next]_<<Content, parent.status = "Ready", links>>
  BY PromiseStep, Zenon
<1> QED BY <1>1, <1>2, <1>3, <1>4, PTL DEF Spec, KeepsPromise, Promise!Spec
-----------------------------------------------------------------------------
\* The agent of the node is one process.
OneProcess == \E a : Agents = {a}

\* No model that is in use is labelled Ready.
NoneReady == \A m \in Models : m \in links /\ cr[m] = "live" => label[m] # "Ready"

\* What holds at each place of a download.
Guarded(w) ==
  /\ pc[w] = "publish" => entry[M(w)].ref
  /\ pc[w] = "status" => flock = w
  /\ pc[w] \in {"reset", "resetting"} => links = {}
  /\ pc[w] = "faillabels" =>
       \A m \in Models : m \in parent.children => Restorable(parent, entry, m)
  /\ pc[w] \in {"unmark", "fetch"} => NoneReady
  /\ pc[w] \in {"relabel", "ready"} => dir \in Good

\* A model's tasks run one at a time.
Distinct ==
  \A v, w \in Workers : v # w /\ pc[v] # "idle" /\ pc[w] # "idle" => M(v) # M(w)

Labelled ==
  /\ DOMAIN label = Models
  /\ \A m \in Models : entry[m].status # "none"
  /\ Distinct
  /\ \A w \in Workers : Guarded(w)
  /\ ReadyLabelIsServed

\* The inductive invariant behind ReadyLabelIsServed.
Served == Whole /\ Removal /\ Matched /\ Labelled

\* What a step of w does to the entries.
Rewrites(w) ==
  \/ UNCHANGED entry
  \/ \E m, status : status # "none" /\ entry' = WithStatus(m, status)
  \/ \E status : entry' = setChildStatuses(parent, entry, status)
  \/ entry' = failChildren(parent, entry)
  \/ entry' = beginPendingDownloadDeletion(entry, M(w))
  \/ entry' = rememberDownload(entry, M(w))
  \/ entry' = addToModel(entry, M(w))
  \/ entry' = finishPendingDeletion(entry, M(w))
  \/ ~ entry[M(w)].ref /\ entry' = [entry EXCEPT ![M(w)] = NoEntry]
  \/ \E l : entry' = removeFromModel(parent, entry, M(w), l)
  \/ \E l : entry' = claimDeletion(parent, entry, M(w), l)

LEMMA StepRewrites ==
  ASSUME NEW w \in Workers, Step(w)
  PROVE  Rewrites(w)
<1>1. CASE Looks(w)
  BY <1>1, Zenon DEF Rewrites, Looks, Cleanup, Route, Enter, DeleteInstead, PublishLabel,
     ResetBegins, ResetEnds, FetchBegins, FetchEnds, MarkBegins, MarkEnds, MarkParentReadyLabels,
     Validate, FailLabels, RemoveMarker, DetachBlocked, RemoveBegins, RemoveEnds
<1>2. CASE markModelOnNodeFailed(w) \/ PublishStatus(w)
  BY <1>2, Zenon DEF Rewrites, markModelOnNodeFailed, PublishStatus, Publish, Write, NoWrite
<1>3. CASE recover(w) \/ recoverParent(w) \/ Settle(w)
  BY <1>3, ZenonT(30) DEF Rewrites, recover, recoverParent, Settle, SettleAbandoned, SetStatus,
     Write, NoWrite
<1>4. CASE MarkParentReady(w) \/ Release(w) \/ Unclaim(w)
  BY <1>4, ZenonT(30) DEF Rewrites, MarkParentReady, Release, Unclaim, SetStatus, Write, NoWrite
<1>5. CASE AcquireInitial(w) \/ AcquireRepair(w) \/ FailChildren(w) \/ Forget(w)
  BY <1>5, ZenonT(30) DEF Rewrites, AcquireInitial, AcquireRepair, FailChildren, Forget, TakeLock,
     Write, NoWrite
<1>6. CASE \/ CleanupIntent(w) \/ DeleteOrdinary(w) \/ Final(w) \/ Admit(w) \/ AttachLink(w)
           \/ AttachReference(w)
  BY <1>6, ZenonT(30) DEF Rewrites, CleanupIntent, DeleteOrdinary, Final, Admit, AttachLink,
     AttachReference, Write, NoWrite
<1>7. CASE DetachUnreferenced(w) \/ DetachReference(w) \/ Claim(w) \/ Unlink(w) \/ FinishReceipt(w)
  BY <1>7, ZenonT(30) DEF Rewrites, DetachUnreferenced, DetachReference, Claim, Unlink,
     FinishReceipt, Write, NoWrite
<1> QED BY <1>1, <1>2, <1>3, <1>4, <1>5, <1>6, <1>7, Zenon DEF Step, DownloadStep, DeleteStep, Looks

\* Every entry keeps a status, and other models their references.
LEMMA RewritesKeep ==
  ASSUME EntryShape, EntryShape', NEW w \in Workers, Rewrites(w),
         \A m \in Models : entry[m].status # "none"
  PROVE  /\ \A m \in Models : entry'[m].status # "none"
         /\ \A m \in Models \ {M(w)} : entry[m].ref => entry'[m].ref
<1>1. CASE \/ UNCHANGED entry
           \/ \E m, status : status # "none" /\ entry' = WithStatus(m, status)
  BY <1>1 DEF EntryShape, WithStatus
<1>2. CASE \E status : entry' = setChildStatuses(parent, entry, status)
  BY <1>2, ZenonT(30) DEF EntryShape, setChildStatuses, Restorable
<1>3. CASE entry' = failChildren(parent, entry)
  BY <1>3, Zenon DEF EntryShape, failChildren
<1>4. CASE entry' = beginPendingDownloadDeletion(entry, M(w)) \/ entry' = rememberDownload(entry, M(w))
  BY <1>4 DEF EntryShape, beginPendingDownloadDeletion, rememberDownload
<1>5. CASE entry' = addToModel(entry, M(w)) \/ entry' = finishPendingDeletion(entry, M(w))
  BY <1>5 DEF EntryShape, addToModel, finishPendingDeletion
<1>6. CASE entry' = [entry EXCEPT ![M(w)] = NoEntry]
  BY <1>6, Zenon DEF EntryShape, NoEntry
<1>7. CASE \/ \E l : entry' = removeFromModel(parent, entry, M(w), l)
           \/ \E l : entry' = claimDeletion(parent, entry, M(w), l)
  BY <1>7 DEF EntryShape, removeFromModel, claimDeletion
<1> QED BY <1>1, <1>2, <1>3, <1>4, <1>5, <1>6, <1>7, Zenon DEF Rewrites

\* Each step keeps the models of the workers apart.
LEMMA StepKeepsDistinct ==
  ASSUME Shape, Distinct, NEW w \in Workers, pc[w] # "idle", TaskStep(w)
  PROVE  Distinct'
<1> SUFFICES ASSUME NEW u \in Workers, NEW v \in Workers, u # v, pc'[u] # "idle", pc'[v] # "idle"
             PROVE  op'[u].model # op'[v].model
  BY Zenon DEF Distinct, M
<1>1. \A x \in Workers : pc'[x] # "idle" => pc[x] # "idle" /\ op'[x].model = op[x].model
  BY Zenon DEF TaskStep, Alone, M
<1> QED BY <1>1, Zenon DEF Distinct, M

\* No label turns Ready, no link is made, and the files are at least as good.
Dims ==
  /\ \A m \in Models : label'[m] = "Ready" => label[m] = "Ready"
  /\ links' \subseteq links
  /\ dir' = dir \/ dir' \in Good

\* What is enough for ReadyLabelIsServed.
LEMMA ServedBy ==
  ASSUME ReadyLabelIsServed, UNCHANGED cr,
         Dims \/ dir' \in Good \/ links' = {} \/ NoneReady'
  PROVE  ReadyLabelIsServed'
BY Zenon DEF ReadyLabelIsServed, Dims, NoneReady

\* Steps that leave the labels alone, but for those that replace or remove files.
Silent(w) ==
  \/ CleanupIntent(w) \/ Cleanup(w) \/ DeleteOrdinary(w) \/ Route(w) \/ Enter(w) \/ Settle(w)
  \/ Admit(w) \/ AcquireInitial(w) \/ AcquireRepair(w) \/ FetchEnds(w) \/ MarkBegins(w)
  \/ MarkEnds(w) \/ MarkParentReady(w) \/ AttachReference(w) \/ Validate(w) \/ FailChildren(w)
  \/ RemoveMarker(w) \/ Release(w) \/ DeleteInstead(w) \/ PublishStatus(w)
  \/ DetachUnreferenced(w) \/ DetachBlocked(w) \/ DetachReference(w) \/ Claim(w) \/ Unlink(w)
  \/ Forget(w) \/ Unclaim(w) \/ FinishReceipt(w)

LEMMA SilentDims ==
  ASSUME NEW w \in Workers, Silent(w)
  PROVE  Dims /\ UNCHANGED <<label, cr>>
<1>1. UNCHANGED <<label, cr>>
  BY Zenon DEF Silent, CleanupIntent, Cleanup, DeleteOrdinary, Route, Enter, Settle, Admit,
     AcquireInitial, AcquireRepair, FetchEnds, MarkBegins, MarkEnds, MarkParentReady,
     AttachReference, Validate, FailChildren, RemoveMarker, Release, DeleteInstead, PublishStatus,
     DetachUnreferenced, DetachBlocked, DetachReference, Claim, Unlink, Forget, Unclaim,
     FinishReceipt
<1>2. dir' = dir \/ dir' = "complete"
  BY Zenon DEF Silent, CleanupIntent, Cleanup, DeleteOrdinary, Route, Enter, Settle, Admit,
     AcquireInitial, AcquireRepair, FetchEnds, MarkBegins, MarkEnds, MarkParentReady,
     AttachReference, Validate, FailChildren, RemoveMarker, Release, DeleteInstead, PublishStatus,
     DetachUnreferenced, DetachBlocked, DetachReference, Claim, Unlink, Forget, Unclaim,
     FinishReceipt, files
<1>3. links' = links \/ links' = links \ {M(w)}
  BY Zenon DEF Silent, CleanupIntent, Cleanup, DeleteOrdinary, Route, Enter, Settle, Admit,
     AcquireInitial, AcquireRepair, FetchEnds, MarkBegins, MarkEnds, MarkParentReady,
     AttachReference, Validate, FailChildren, RemoveMarker, Release, DeleteInstead, PublishStatus,
     DetachUnreferenced, DetachBlocked, DetachReference, Claim, Unlink, Forget, Unclaim,
     FinishReceipt, files
<1> QED BY <1>1, <1>2, <1>3, Zenon DEF Dims, Good

\* Steps that take Ready labels away.
LEMMA FailingDims ==
  ASSUME DOMAIN label = Models, NEW w \in Workers,
         \/ markModelOnNodeFailed(w) \/ Final(w) \/ FailLabels(w)
         \/ \E k \in Kinds, m \in Models : Start(w, k, m)
  PROVE  Dims /\ DOMAIN label' = Models /\ UNCHANGED cr
<1>1. UNCHANGED <<dir, links, cr>>
  BY Zenon DEF markModelOnNodeFailed, Final, FailLabels, Start, files
<1>2. \/ UNCHANGED label
      \/ \E m, status : status # "Ready" /\ label' = [label EXCEPT ![m] = status]
      \/ \E ms \in SUBSET Models : label' = Relabel(AllFailed, ms)
  <2>1. CASE markModelOnNodeFailed(w)
    BY <2>1, Zenon DEF markModelOnNodeFailed, Publish
  <2>2. CASE Final(w)
    BY <2>2, Zenon DEF Final
  <2>3. CASE FailLabels(w)
    <3>1. Models \in SUBSET Models
      BY Zenon
    <3> QED BY <2>3, <3>1, Zenon DEF FailLabels, Relabelled, RelabelFails
  <2>4. CASE \E k \in Kinds, m \in Models : Start(w, k, m)
    BY <2>4, ZenonT(30) DEF Start, Publish
  <2> QED BY <2>1, <2>2, <2>3, <2>4, ZenonT(30)
<1>3. CASE UNCHANGED label \/ \E m, status : status # "Ready" /\ label' = [label EXCEPT ![m] = status]
  BY <1>1, <1>3, Zenon DEF Dims
<1>4. CASE \E ms \in SUBSET Models : label' = Relabel(AllFailed, ms)
  BY <1>1, <1>4, ZenonT(30) DEF Dims, Relabel, AllFailed
<1> QED BY <1>2, <1>3, <1>4, Zenon

\* A Ready parent has all its files.
LEMMA ReadyIsGood ==
  ASSUME Whole, parent.status = "Ready" \/ MarkerMatches
  PROVE  dir \in Good
BY Zenon DEF Whole, Records, ReadyIsComplete

\* Steps that give Ready labels, make links, or replace or remove files.
LEMMA LoudIsServed ==
  ASSUME Served, NEW w \in Workers,
         \/ PublishLabel(w) \/ recover(w) \/ recoverParent(w) \/ MarkParentReadyLabels(w)
         \/ ResetBegins(w) \/ ResetEnds(w) \/ FetchBegins(w) \/ RemoveBegins(w) \/ RemoveEnds(w)
         \/ AttachLink(w)
  PROVE  /\ DOMAIN label' = Models /\ UNCHANGED cr
         /\ Dims \/ dir' \in Good \/ links' = {} \/ NoneReady'
<1>1. DOMAIN label = Models /\ Guarded(w) /\ Place(w) /\ Unused(w)
  BY Zenon DEF Served, Labelled, Whole, Removal
<1>2. CASE PublishLabel(w)
  <2>1. UNCHANGED <<dir, links, cr>> /\ entry[M(w)].ref
    BY <1>1, <1>2, Zenon DEF PublishLabel, files, Guarded
  <2>2. UNCHANGED label \/ (MayPublish(M(w), "Ready") /\ label' = [label EXCEPT ![M(w)] = "Ready"])
    BY <1>2, Zenon DEF PublishLabel
  <2>3. MayPublish(M(w), "Ready") => parent.status = "Ready"
    BY <2>1, Zenon DEF MayPublish
  <2>4. CASE UNCHANGED label
    BY <1>1, <2>1, <2>4, Zenon DEF Dims
  <2>5. CASE MayPublish(M(w), "Ready") /\ label' = [label EXCEPT ![M(w)] = "Ready"]
    BY <1>1, <2>1, <2>3, <2>5, ReadyIsGood, Zenon DEF Served
  <2> QED BY <2>2, <2>4, <2>5, Zenon
<1>3. CASE recover(w) \/ recoverParent(w)
  <2>1. UNCHANGED <<dir, links, cr>>
    BY <1>3, Zenon DEF recover, recoverParent, files
  <2>2. \/ UNCHANGED label
        \/ MarkerMatches /\ (Relabelled(parent.saved) \/ RelabelFails(parent.saved))
    BY <1>3, Zenon DEF recover, recoverParent, SettleAbandoned
  <2>3. CASE UNCHANGED label
    BY <1>1, <2>1, <2>3, Zenon DEF Dims
  <2>4. CASE MarkerMatches /\ (Relabelled(parent.saved) \/ RelabelFails(parent.saved))
    <3>1. DOMAIN label' = Models
      BY <2>4, Zenon DEF Relabelled, RelabelFails, Relabel
    <3> QED BY <2>1, <2>4, <3>1, ReadyIsGood, Zenon DEF Served
  <2> QED BY <2>2, <2>3, <2>4, Zenon
<1>4. CASE MarkParentReadyLabels(w)
  <2>1. UNCHANGED <<dir, cr>> /\ dir \in Good
    BY <1>1, <1>4, ZenonT(30) DEF MarkParentReadyLabels, files, Guarded
  <2>2. Relabelled(parent.saved) \/ RelabelFails(parent.saved)
    BY <1>4, Zenon DEF MarkParentReadyLabels
  <2>3. DOMAIN label' = Models
    BY <2>2, ZenonT(30) DEF Relabelled, RelabelFails, Relabel
  <2> QED BY <2>1, <2>3, Zenon
<1>5. CASE ResetBegins(w) \/ ResetEnds(w) \/ RemoveBegins(w) \/ RemoveEnds(w)
  <2>1. UNCHANGED <<links, label, cr>> /\ pc[w] \in {"reset", "resetting", "remove", "removing"}
    BY <1>5, Zenon DEF ResetBegins, ResetEnds, RemoveBegins, RemoveEnds, RemoveSome
  <2> QED BY <1>1, <2>1, ZenonT(30) DEF Guarded, Unused, Removing
<1>6. CASE FetchBegins(w)
  <2>1. UNCHANGED <<links, label, cr>> /\ NoneReady
    BY <1>1, <1>6, ZenonT(30) DEF FetchBegins, Guarded
  <2> QED BY <1>1, <2>1, Zenon DEF NoneReady
<1>7. CASE AttachLink(w)
  <2>1. UNCHANGED <<dir, label, cr>> /\ pc[w] = "attach"
    BY <1>7, Zenon DEF AttachLink
  <2> QED BY <1>1, <2>1, ReadyIsGood, ZenonT(30) DEF Place, Served
<1> QED BY <1>2, <1>3, <1>4, <1>5, <1>6, <1>7, Zenon

\* So every step of a worker keeps ReadyLabelIsServed.
LEMMA StepIsServed ==
  ASSUME Served, NEW w \in Workers, Step(w)
  PROVE  DOMAIN label' = Models /\ ReadyLabelIsServed'
<1>1. DOMAIN label = Models /\ ReadyLabelIsServed
  BY Zenon DEF Served, Labelled
<1>2. DOMAIN label' = Models /\ UNCHANGED cr /\ (Dims \/ dir' \in Good \/ links' = {} \/ NoneReady')
  BY <1>1, SilentDims, FailingDims, LoudIsServed, Zenon DEF Step, DownloadStep, DeleteStep, Silent
<1> QED BY <1>1, <1>2, ServedBy, ZenonT(30)

\* What a step may do to somebody else who has the file lock.
Mild ==
  /\ UNCHANGED <<parent, dir, flock>> /\ links' \subseteq links
  /\ \A m \in Models : label'[m] = "Ready" => label[m] = "Ready"
  /\ \A m \in Models : entry[m].ref => entry'[m].ref /\ entry'[m].status = entry[m].status

\* The steps of a worker that has no file lock are mild while another has it.
LEMMA BystandersAreMild ==
  ASSUME Served, NEW w \in Workers, flock # None, flock # w,
         Step(w) \/ \E k \in Kinds, m \in Models : Start(w, k, m)
  PROVE  Mild
<1>1. /\ EntryShape /\ DOMAIN label = Models /\ Guarded(w)
      /\ pc[w] \notin Inside
  BY Zenon DEF Served, Labelled, Removal, Exclusive, Owns
<1>2. \/ CleanupIntent(w) \/ Cleanup(w) \/ DeleteOrdinary(w) \/ recover(w) \/ recoverParent(w)
      \/ Route(w) \/ Enter(w) \/ markModelOnNodeFailed(w) \/ DeleteInstead(w) \/ PublishLabel(w)
      \/ Final(w) \/ \E k \in Kinds, m \in Models : Start(w, k, m)
  <2>1. ~ PublishStatus(w)
    BY <1>1, ZenonT(30) DEF PublishStatus, Guarded
  <2>2. /\ ~ Settle(w) /\ ~ Admit(w) /\ ~ AcquireInitial(w) /\ ~ AcquireRepair(w)
        /\ ~ ResetBegins(w) /\ ~ ResetEnds(w) /\ ~ FetchBegins(w) /\ ~ FetchEnds(w)
        /\ ~ MarkBegins(w) /\ ~ MarkEnds(w) /\ ~ MarkParentReadyLabels(w) /\ ~ MarkParentReady(w)
        /\ ~ AttachLink(w) /\ ~ AttachReference(w) /\ ~ Validate(w) /\ ~ FailChildren(w)
        /\ ~ FailLabels(w) /\ ~ RemoveMarker(w) /\ ~ Release(w)
    BY <1>1, Zenon DEF Settle, Admit, AcquireInitial, AcquireRepair, ResetBegins, ResetEnds,
       FetchBegins,
       FetchEnds, MarkBegins, MarkEnds, MarkParentReadyLabels, MarkParentReady, AttachLink,
       AttachReference, Validate, FailChildren, FailLabels, RemoveMarker, Release, Inside, Writing
  <2>3. /\ ~ DetachUnreferenced(w) /\ ~ DetachBlocked(w) /\ ~ DetachReference(w) /\ ~ Claim(w)
        /\ ~ Unlink(w) /\ ~ RemoveBegins(w) /\ ~ RemoveEnds(w) /\ ~ Forget(w) /\ ~ Unclaim(w)
        /\ ~ FinishReceipt(w)
    BY <1>1, Zenon DEF DetachUnreferenced, DetachBlocked, DetachReference, Claim, Unlink,
       RemoveBegins,
       RemoveEnds, Forget, Unclaim, FinishReceipt, Inside, Writing
  <2> QED BY <2>1, <2>2, <2>3, Zenon DEF Step, DownloadStep, DeleteStep
<1>3. UNCHANGED flock
  <2>1. (\E result, memory : Leave(w, result, memory)) \/ UNCHANGED flock
    <3>1. CASE CleanupIntent(w) \/ Cleanup(w) \/ DeleteOrdinary(w) \/ Route(w) \/ Enter(w)
      BY <3>1, ZenonT(30) DEF CleanupIntent, Cleanup, DeleteOrdinary, Route, Enter, Write, NoWrite,
         End, Go
    <3>2. CASE recover(w) \/ recoverParent(w)
      BY <3>2, ZenonT(30) DEF recover, recoverParent, NoWrite, End, Go
    <3>3. CASE markModelOnNodeFailed(w) \/ DeleteInstead(w) \/ Final(w)
      BY <3>3, ZenonT(30) DEF markModelOnNodeFailed, DeleteInstead, Final, Write, NoWrite, End
    <3>4. CASE PublishLabel(w)
      <4>1. entry[M(w)].ref
        BY <1>1, <3>4, ZenonT(30) DEF PublishLabel, Guarded
      <4> QED BY <3>4, <4>1, Zenon DEF PublishLabel, MayPublish, End
    <3>5. CASE \E k \in Kinds, m \in Models : Start(w, k, m)
      BY <3>5, ZenonT(30) DEF Start
    <3> QED BY <1>2, <3>1, <3>2, <3>3, <3>4, <3>5, Zenon
  <2> QED BY <2>1, Zenon DEF Leave
<1>4. UNCHANGED <<parent, dir>>
  <2>1. CASE recover(w) \/ recoverParent(w) \/ CleanupIntent(w)
    BY <2>1, Zenon DEF recover, recoverParent, CleanupIntent, NoWrite, files
  <2>2. CASE \/ Cleanup(w) \/ DeleteOrdinary(w) \/ Route(w) \/ Enter(w) \/ DeleteInstead(w)
             \/ markModelOnNodeFailed(w) \/ PublishLabel(w) \/ Final(w)
             \/ \E k \in Kinds, m \in Models : Start(w, k, m)
    BY <2>2, Zenon DEF Cleanup, DeleteOrdinary, Route, Enter, DeleteInstead, PublishLabel, Final,
       markModelOnNodeFailed, Start, Write, NoWrite, files
  <2> QED BY <1>2, <2>1, <2>2, Zenon
<1>5. links' \subseteq links /\ \A m \in Models : label'[m] = "Ready" => label[m] = "Ready"
  <2>1. CASE PublishLabel(w)
    <3>1. entry[M(w)].ref
      BY <1>1, <2>1, Zenon DEF PublishLabel, Guarded
    <3>2. UNCHANGED <<label, links>>
      BY <2>1, <3>1, Zenon DEF PublishLabel, MayPublish, files
    <3> QED BY <3>2, Zenon
  <2>2. CASE recover(w) \/ recoverParent(w)
    <3>1. UNCHANGED <<label, links>>
      BY <2>2, Zenon DEF recover, recoverParent, files
    <3> QED BY <3>1, Zenon
  <2>3. CASE \/ markModelOnNodeFailed(w) \/ Final(w) \/ \E k \in Kinds, m \in Models : Start(w, k, m)
    BY <1>1, <2>3, FailingDims, ZenonT(30) DEF Dims
  <2>4. CASE Silent(w)
    BY <2>4, SilentDims, Zenon DEF Dims
  <2> QED BY <1>2, <2>1, <2>2, <2>3, <2>4, Zenon DEF Silent
<1>6. \/ UNCHANGED entry
      \/ \E m, status : ~ entry[m].ref /\ entry' = WithStatus(m, status)
      \/ ~ entry[M(w)].ref /\ entry' = [entry EXCEPT ![M(w)] = NoEntry]
  <2>1. CASE recover(w) \/ recoverParent(w) \/ CleanupIntent(w)
    BY <2>1, Zenon DEF recover, recoverParent, CleanupIntent, NoWrite
  <2>2. CASE markModelOnNodeFailed(w) \/ \E k \in Kinds, m \in Models : Start(w, k, m)
    BY <2>2, ZenonT(30) DEF markModelOnNodeFailed, Start, Publish, MayPublish
  <2>3. CASE Final(w)
    BY <2>3, Zenon DEF Final, Write, NoWrite
  <2>4. CASE \/ Cleanup(w) \/ DeleteOrdinary(w) \/ Route(w) \/ Enter(w) \/ DeleteInstead(w)
             \/ PublishLabel(w)
    BY <2>4, Zenon DEF Cleanup, DeleteOrdinary, Route, Enter, DeleteInstead, PublishLabel
  <2> QED BY <1>2, <2>1, <2>2, <2>3, <2>4, Zenon
<1>7. \A m \in Models : entry[m].ref => entry'[m].ref /\ entry'[m].status = entry[m].status
  <2>1. CASE \E m, status : ~ entry[m].ref /\ entry' = WithStatus(m, status)
    BY <1>1, <2>1, Zenon DEF EntryShape, WithStatus
  <2>2. CASE ~ entry[M(w)].ref /\ entry' = [entry EXCEPT ![M(w)] = NoEntry]
    BY <1>1, <2>2, Zenon DEF EntryShape
  <2> QED BY <1>6, <2>1, <2>2, Zenon
<1> QED BY <1>3, <1>4, <1>5, <1>7, ZenonT(30) DEF Mild

\* So is what the other workers have, whether they hold the file lock or wait for it.
LEMMA OthersStayGuarded ==
  ASSUME Served, NEW w \in Workers, Alone(w), UNCHANGED cr, flock \in {None, w} \/ Mild,
         \A v \in Workers \ {w} : pc[v] = "publish" => entry'[M(v)].ref
  PROVE  \A v \in Workers \ {w} : Guarded(v)'
<1> SUFFICES ASSUME NEW v \in Workers \ {w}
             PROVE  Guarded(v)'
  BY Zenon
<1>1. pc'[v] = pc[v] /\ op'[v] = op[v] /\ Guarded(v) /\ (pc[v] \in Inside => flock = v)
  BY Zenon DEF Alone, Served, Labelled, Removal, Exclusive, Owns
<1>2. CASE pc[v] = "publish"
  BY <1>1, <1>2, ZenonT(30) DEF Guarded, M
<1>3. CASE pc[v] \in Inside \cup {"status"}
  <2>1. Mild /\ flock = v
    BY <1>1, <1>3, HfArtifactAssumption, Zenon DEF Guarded
  <2>2. pc[v] = "faillabels" =>
          \A m \in Models : m \in parent'.children => Restorable(parent', entry', m)
    BY <1>1, <2>1, ZenonT(30) DEF Mild, Guarded, Restorable
  <2>3. NoneReady => NoneReady'
    BY <2>1, Zenon DEF NoneReady, Mild
  <2>4. pc[v] \in {"reset", "resetting"} => links' = {}
    BY <1>1, <2>1, ZenonT(30) DEF Guarded, Mild
  <2>5. flock' = v /\ dir' = dir /\ pc[v] # "publish"
    BY <1>3, <2>1, Zenon DEF Mild, Inside, Writing
  <2> QED BY <1>1, <2>2, <2>3, <2>4, <2>5, ZenonT(30) DEF Guarded
<1>4. CASE pc[v] \notin Inside \cup {"status", "publish"}
  BY <1>1, <1>4, ZenonT(30) DEF Guarded, Inside, Writing
<1> QED BY <1>2, <1>3, <1>4, Zenon

\* The places where nothing is guarded.
Loose ==
  Places \ { "publish", "status", "reset", "resetting", "faillabels", "unmark", "fetch",
             "relabel", "ready" }

LEMMA LooseIsEnough ==
  ASSUME Shape, NEW w \in Workers, NEW S \in SUBSET Loose, Lands(w, S)
  PROVE  Guarded(w)'
<1>1. Out \ {"publish"} \subseteq Loose
  BY ZenonT(30) DEF Out, Loose, Places
<1>2. pc'[w] \in Loose
  BY <1>1, LandsIn, Zenon
<1> QED BY <1>2, ZenonT(30) DEF Guarded, Loose

\* Most steps lead there.
LEMMA MostStepsAreLoose ==
  ASSUME Shape, NEW w \in Workers,
         \/ CleanupIntent(w) \/ Cleanup(w) \/ DeleteOrdinary(w) \/ recover(w) \/ recoverParent(w)
         \/ Route(w) \/ Enter(w) \/ Settle(w) \/ markModelOnNodeFailed(w) \/ AcquireRepair(w)
         \/ ResetEnds(w) \/ FetchBegins(w) \/ FetchEnds(w) \/ MarkBegins(w) \/ MarkParentReady(w)
         \/ AttachLink(w) \/ Validate(w) \/ Release(w) \/ DeleteInstead(w) \/ PublishStatus(w)
         \/ DetachReference(w) \/ Claim(w) \/ Unlink(w) \/ RemoveBegins(w) \/ RemoveEnds(w)
         \/ Forget(w) \/ Unclaim(w) \/ Final(w)
  PROVE  Guarded(w)'
<1> DEFINE All == { "cleanup", "reparent", "recover", "legacy", "final", "route", "enter",
                    "settle", "claim", "detach", "admit", "validate", "fetching", "abort",
                    "mark", "marking", "attach", "addref", "failkids", "unclaim", "receipt",
                    "unlink", "remove", "removing", "forget" }
<1>1. All \subseteq Loose
  BY DEF Loose, Places
<1>2. \E S \in SUBSET All : Lands(w, S)
  <2>1. CASE CleanupIntent(w) \/ Cleanup(w) \/ DeleteOrdinary(w) \/ recover(w)
    BY <2>1, Targets, ZenonT(30)
  <2>2. CASE recoverParent(w) \/ Route(w) \/ Enter(w) \/ Settle(w)
    BY <2>2, Targets, ZenonT(30)
  <2>3. CASE markModelOnNodeFailed(w) \/ AcquireRepair(w) \/ ResetEnds(w) \/ FetchBegins(w)
    BY <2>3, Targets, ZenonT(30)
  <2>4. CASE FetchEnds(w) \/ MarkBegins(w) \/ MarkParentReady(w) \/ AttachLink(w)
    BY <2>4, Targets, ZenonT(30)
  <2>5. CASE Validate(w) \/ Release(w) \/ DeleteInstead(w) \/ PublishStatus(w)
    BY <2>5, Targets, ZenonT(30)
  <2>6. CASE DetachReference(w) \/ Claim(w) \/ Unlink(w) \/ RemoveBegins(w)
    BY <2>6, Targets, ZenonT(30)
  <2>7. CASE RemoveEnds(w) \/ Forget(w) \/ Unclaim(w) \/ Final(w)
    BY <2>7, Targets, ZenonT(30)
  <2> QED BY <2>1, <2>2, <2>3, <2>4, <2>5, <2>6, <2>7, Zenon
<1> HIDE DEF All
<1> QED BY <1>1, <1>2, LooseIsEnough, Zenon

\* Those that end a download or a deletion publish only what is referenced.
LEMMA EndingsAreGuarded ==
  ASSUME Matched, NEW w \in Workers, AttachReference(w) \/ DetachUnreferenced(w) \/ FinishReceipt(w)
  PROVE  Guarded(w)'
<1>1. M(w) \in Models /\ Shape /\ EntryShape /\ Task(w) /\ pc[w] # "idle"
  BY AtWork, ZenonT(30) DEF AttachReference, DetachUnreferenced, FinishReceipt
<1>2. ASSUME NEW result, End(w, result)
      PROVE  /\ pc'[w] \in Out
             /\ pc'[w] = "publish" => /\ result = "done" /\ Downloads(w) /\ op[w].aim # "resume"
                                      /\ op'[w].model = M(w)
  <2>1. PICK l \in After(w, result) :
          /\ pc' = [pc EXCEPT ![w] = IF l \in {"idle", "queue"} THEN "idle" ELSE l]
          /\ op' = [op EXCEPT ![w] = IF l \in {"idle", "queue"} THEN Idle
                                     ELSE [Idle EXCEPT !.kind = op[w].kind, !.model = M(w)]]
    BY <1>2, Zenon DEF End, Leave, Goto
  <2>2. After(w, result) \subseteq Out \cup {"queue"}
    BY Zenon DEF After, Requeued, GivesUp, Out
  <2>3. l = "publish" => result = "done" /\ Downloads(w) /\ op[w].aim # "resume"
    BY <2>1, Zenon DEF After, Requeued, GivesUp
  <2>4. pc'[w] = IF l \in {"idle", "queue"} THEN "idle" ELSE l
    BY <1>1, <2>1, Zenon DEF Shape
  <2>5. l = "publish" => op'[w].model = M(w)
    BY <1>1, <2>1, Zenon DEF Shape, Idle
  <2> QED BY <2>2, <2>3, <2>4, <2>5, Zenon DEF Out
<1>3. ASSUME pc'[w] \in Out, pc'[w] = "publish" => entry'[M(w)].ref /\ op'[w].model = M(w)
      PROVE  Guarded(w)'
  BY <1>3, Zenon DEF Guarded, Out, M
<1>4. CASE DetachUnreferenced(w) \/ FinishReceipt(w)
  <2>1. \/ End(w, "retry") \/ End(w, "error")
        \/ (End(w, "done") /\ op[w].aim \in {"resume", "release"})
    <3>1. CASE DetachUnreferenced(w)
      <4>1. op[w].aim \in {"resume", "release"}
        BY <1>1, <3>1, Zenon DEF DetachUnreferenced, Task, Fitting
      <4> QED BY <3>1, <4>1, Zenon DEF DetachUnreferenced
    <3>2. CASE FinishReceipt(w) /\ op[w].aim \in {"resume", "release"}
      BY <3>2, Zenon DEF FinishReceipt, Write, NoWrite
    <3>3. CASE FinishReceipt(w) /\ ~ op[w].aim \in {"resume", "release"}
      BY <3>3, Zenon DEF FinishReceipt, Write, NoWrite
    <3> QED BY <1>4, <3>1, <3>2, <3>3, Zenon
  <2>2. PICK result \in {"retry", "error", "done"} :
          End(w, result) /\ (result = "done" => op[w].aim \in {"resume", "release"})
    BY <2>1, Zenon
  <2>3. pc'[w] # "publish"
    BY <1>1, <1>2, <2>2, ZenonT(30) DEF Task, Fitting, Downloads
  <2> QED BY <1>2, <1>3, <2>2, <2>3, ZenonT(30)
<1>5. CASE AttachReference(w)
  <2>1. \/ End(w, "done") /\ entry' = addToModel(entry, M(w))
        \/ End(w, "retry")
    BY <1>5, Zenon DEF AttachReference, Write, NoWrite
  <2>2. entry' = addToModel(entry, M(w)) => entry'[M(w)].ref
    BY <1>1, Zenon DEF addToModel, EntryShape
  <2> QED BY <1>2, <1>3, <2>1, <2>2, ZenonT(30)
<1> QED BY <1>4, <1>5, Zenon

\* The places with a guard are entered only when it holds.
LEMMA FinishersAreGuarded ==
  ASSUME Served, NEW w \in Workers,
         \/ Admit(w) \/ DetachBlocked(w) \/ MarkEnds(w) \/ MarkParentReadyLabels(w)
  PROVE  Guarded(w)'
<1>1. Shape /\ Guarded(w) /\ Place(w) /\ UNCHANGED dir
  BY Zenon DEF Served, Labelled, Whole, Exclusive, Admit, DetachBlocked, MarkEnds,
     MarkParentReadyLabels, files
<1>2. Lands(w, {"acquire", "attach"}) \/ (Lands(w, {"ready", "relabel"}) /\ dir \in Good)
  <2>1. CASE Admit(w)
    <3>1. MarkerMatches \/ Lands(w, {"acquire", "attach"})
      BY <2>1, ZenonT(60) DEF Admit, Lands, Reuses, End, Write, NoWrite
    <3>2. Lands(w, {"acquire", "attach", "ready", "relabel"})
      BY <2>1, Targets, Zenon
    <3>3. Lands(w, {"acquire", "attach"}) \/ Lands(w, {"ready", "relabel"})
      BY <3>2, Zenon DEF Lands
    <3> QED BY <3>1, <3>3, ReadyIsGood, Zenon DEF Served
  <2>2. CASE DetachBlocked(w)
    <3>1. MarkerMatches \/ Lands(w, {"acquire", "attach"})
      BY <2>2, Zenon DEF DetachBlocked, Lands, End
    <3>2. Lands(w, {"ready", "relabel"})
      BY <2>2, Targets, ZenonT(30)
    <3> QED BY <3>1, <3>2, ReadyIsGood, Zenon DEF Served
  <2>3. CASE MarkEnds(w)
    <3>1. Lands(w, {"ready", "relabel"}) /\ pc[w] = "marking"
      BY <2>3, Targets, ZenonT(30) DEF MarkEnds
    <3> QED BY <1>1, <3>1, ZenonT(30) DEF Place
  <2>4. CASE MarkParentReadyLabels(w)
    <3>1. Lands(w, {"ready"}) /\ pc[w] = "relabel"
      BY <2>4, Targets, Zenon DEF MarkParentReadyLabels
    <3>2. Lands(w, {"ready", "relabel"})
      BY <3>1, Zenon DEF Lands
    <3> QED BY <1>1, <3>1, <3>2, ZenonT(30) DEF Guarded
  <2> QED BY <2>1, <2>2, <2>3, <2>4, Zenon
<1>3. CASE Lands(w, {"acquire", "attach"})
  <2>1. {"acquire", "attach"} \subseteq Loose
    BY ZenonT(30) DEF Loose, Places
  <2> QED BY <1>1, <1>3, <2>1, LooseIsEnough, Zenon
<1>4. CASE Lands(w, {"ready", "relabel"}) /\ dir \in Good
  <2>1. pc'[w] \in {"ready", "relabel"} \cup (Out \ {"publish"})
    BY <1>1, <1>4, LandsIn, Zenon
  <2> QED BY <1>1, <1>4, <2>1, ZenonT(30) DEF Guarded, Out
<1> QED BY <1>2, <1>3, <1>4, Zenon

LEMMA FetchersAreGuarded ==
  ASSUME Served, NEW w \in Workers,
         \/ AcquireInitial(w) \/ ResetBegins(w) \/ RemoveMarker(w) \/ PublishLabel(w)
  PROVE  Guarded(w)'
<1>1. Shape /\ Guarded(w)
  BY Zenon DEF Served, Labelled, Whole, Exclusive
<1>2. CASE AcquireInitial(w)
  <2>1. Lands(w, {"reset"}) /\ UNCHANGED links
    BY <1>2, Targets, Zenon DEF AcquireInitial, files
  <2>2. links = {} \/ Lands(w, {})
    BY <1>2, Zenon DEF AcquireInitial, Lands, End, InUse, NoWrite
  <2>3. CASE Lands(w, {})
    BY <1>1, <2>3, LooseIsEnough, Zenon
  <2>4. CASE links = {}
    <3>1. pc'[w] \in {"reset"} \cup (Out \ {"publish"})
      BY <1>1, <2>1, LandsIn, Zenon
    <3> QED BY <2>1, <2>4, <3>1, ZenonT(30) DEF Guarded, Out
  <2> QED BY <2>2, <2>3, <2>4, Zenon
<1>3. CASE ResetBegins(w)
  <2>1. pc[w] = "reset" /\ UNCHANGED links /\ Lands(w, {"resetting"})
    BY <1>3, Targets, ZenonT(30) DEF ResetBegins, RemoveSome
  <2>2. pc'[w] \in {"resetting"} \cup (Out \ {"publish"})
    BY <1>1, <2>1, LandsIn, Zenon
  <2> QED BY <1>1, <2>1, <2>2, ZenonT(30) DEF Guarded, Out
<1>4. CASE RemoveMarker(w)
  <2>1. pc[w] = "unmark" /\ UNCHANGED <<links, label, cr>> /\ Lands(w, {"fetch", "abort"})
    BY <1>4, Targets, ZenonT(30) DEF RemoveMarker
  <2>2. pc'[w] \in {"fetch", "abort"} \cup (Out \ {"publish"})
    BY <1>1, <2>1, LandsIn, Zenon
  <2>3. NoneReady'
    BY <1>1, <2>1, Zenon DEF Guarded, NoneReady
  <2> QED BY <2>2, <2>3, ZenonT(30) DEF Guarded, Out
<1>5. CASE PublishLabel(w)
  <2>1. entry[M(w)].ref /\ Lands(w, {"status"})
    BY <1>1, <1>5, Targets, ZenonT(30) DEF PublishLabel, Guarded
  <2>2. flock' = w \/ Lands(w, {})
    <3>1. Again(w) # "done"
      BY Zenon DEF Again
    <3> QED BY <1>5, <2>1, <3>1, Zenon DEF PublishLabel, Lands, End
  <2>3. CASE Lands(w, {})
    BY <1>1, <2>3, LooseIsEnough, Zenon
  <2>4. CASE flock' = w
    <3>1. pc'[w] \in {"status"} \cup (Out \ {"publish"})
      BY <1>1, <2>1, LandsIn, Zenon
    <3> QED BY <2>4, <3>1, ZenonT(30) DEF Guarded, Out
  <2> QED BY <2>2, <2>3, <2>4, Zenon
<1> QED BY <1>2, <1>3, <1>4, <1>5, Zenon

\* A repair has the statuses of all the children before it fails their labels, and no
\* Ready label of a linked model is left when it has.
LEMMA RepairIsGuarded ==
  ASSUME Served, NEW w \in Workers, FailChildren(w) \/ FailLabels(w)
  PROVE  Guarded(w)'
<1>1. /\ Shape /\ EntryShape /\ Guarded(w) /\ DOMAIN parent = Fields
      /\ DOMAIN label = Models /\ ReferencesMatch /\ \A m \in Models : entry[m].status # "none"
  BY Zenon DEF Served, Labelled, Whole, Matched, Exclusive, Shape
<1>2. CASE Lands(w, {"abort"})
  <2>1. {"abort"} \subseteq Loose
    BY ZenonT(30) DEF Loose, Places
  <2> QED BY <1>1, <1>2, <2>1, LooseIsEnough, Zenon
<1>3. CASE FailChildren(w) /\ ~ Lands(w, {"abort"})
  <2>1. pc'[w] \in {"faillabels", "abort"} \cup (Out \ {"publish"})
    BY <1>1, <1>3, LandsIn, Targets, ZenonT(30)
  <2>2. parent' = saveChildStatuses(parent, entry) /\ entry' = failChildren(parent, entry)
    BY <1>3, Zenon DEF FailChildren, Write, Lands, Abort
  <2>3. ASSUME NEW m \in Models, m \in parent'.children
        PROVE  Restorable(parent', entry', m)
    <3>1. m \in parent.children /\ entry[m].ref
      BY <1>1, <2>2, <2>3, Zenon DEF saveChildStatuses, Fields, ReferencesMatch
    <3>2. parent'.saved[m] # "none"
      BY <1>1, <2>2, <3>1, Zenon DEF saveChildStatuses, Fields
    <3>3. entry'[m].status = "Failed" /\ entry'[m].ref
      BY <1>1, <2>2, <3>1, Zenon DEF failChildren, EntryShape, EntryFields
    <3> QED BY <2>3, <3>2, <3>3, Zenon DEF Restorable
  <2> QED BY <2>1, <2>3, Zenon DEF Guarded, Out
<1>4. CASE FailLabels(w) /\ ~ Lands(w, {"abort"})
  <2>1. pc'[w] \in {"unmark", "abort"} \cup (Out \ {"publish"})
    BY <1>1, <1>4, LandsIn, Targets, ZenonT(30)
  <2>2. Relabelled(AllFailed) /\ links \subseteq parent.children
    BY <1>4, Zenon DEF FailLabels, Lands, Abort
  <2>3. UNCHANGED <<links, cr>> /\ pc[w] = "faillabels"
    BY <1>4, Zenon DEF FailLabels, files
  <2>4. ASSUME NEW m \in Models, m \in links', cr'[m] = "live"
        PROVE  label'[m] # "Ready"
    <3>1. Restorable(parent, entry, m) /\ cr[m] # "deleting"
      BY <1>1, <2>2, <2>3, <2>4, Zenon DEF Guarded
    <3>2. label'[m] = AllFailed[m]
      BY <2>2, <3>1, Zenon DEF Relabelled, Relabel
    <3> QED BY <3>2, Zenon DEF AllFailed
  <2>5. NoneReady'
    BY <2>4, Zenon DEF NoneReady
  <2> QED BY <2>1, <2>5, ZenonT(30) DEF Guarded, Out
<1> QED BY <1>2, <1>3, <1>4, Zenon

\* Only workers with a task take steps, and they leave the resources alone.
LEMMA StepIsAwake ==
  ASSUME NEW w \in Workers, Step(w)
  PROVE  pc[w] # "idle" /\ UNCHANGED cr
<1>1. CASE \/ CleanupIntent(w) \/ Cleanup(w) \/ DeleteOrdinary(w) \/ recover(w) \/ recoverParent(w)
           \/ Enter(w) \/ Settle(w) \/ Final(w)
  BY <1>1, ZenonT(30) DEF CleanupIntent, Cleanup, DeleteOrdinary, recover, recoverParent, Enter,
     Settle, Final
<1>2. CASE DownloadStep(w)
  <2>1. CASE \/ markModelOnNodeFailed(w) \/ Route(w) \/ Admit(w) \/ AcquireInitial(w)
             \/ AcquireRepair(w) \/ ResetBegins(w) \/ ResetEnds(w) \/ FetchBegins(w)
             \/ FetchEnds(w) \/ MarkBegins(w) \/ MarkEnds(w) \/ MarkParentReadyLabels(w)
    BY <2>1, Zenon DEF markModelOnNodeFailed, Route, Admit, AcquireInitial, AcquireRepair,
       ResetBegins,
       ResetEnds, FetchBegins, FetchEnds, MarkBegins, MarkEnds, MarkParentReadyLabels
  <2>2. CASE \/ MarkParentReady(w) \/ AttachLink(w) \/ AttachReference(w) \/ Validate(w)
             \/ FailChildren(w) \/ FailLabels(w) \/ RemoveMarker(w) \/ Release(w)
             \/ DeleteInstead(w) \/ PublishLabel(w) \/ PublishStatus(w)
    BY <2>2, ZenonT(30) DEF MarkParentReady, AttachLink, AttachReference, Validate, FailChildren,
       FailLabels,
       RemoveMarker, Release, DeleteInstead, PublishLabel, PublishStatus
  <2> QED BY <1>2, <2>1, <2>2, Zenon DEF DownloadStep
<1>3. CASE DeleteStep(w)
  BY <1>3, ZenonT(30) DEF DeleteStep, DetachUnreferenced, DetachBlocked, DetachReference, Claim, Unlink,
     RemoveBegins, RemoveEnds, Forget, Unclaim, FinishReceipt, Final
<1> QED BY <1>1, <1>2, <1>3, Zenon DEF Step

\* Every step of a worker keeps what it and the others rely on.
LEMMA StepIsLabelled ==
  ASSUME Served, EntryShape', NEW w \in Workers, Step(w)
  PROVE  Labelled'
<1>1. /\ Shape /\ EntryShape /\ Tasks /\ Distinct /\ Matched
      /\ \A m \in Models : entry[m].status # "none"
      /\ \A v \in Workers : Guarded(v) /\ Task(v)
  BY Zenon DEF Served, Labelled, Whole, Matched, Exclusive, Tasks
<1>2. TaskStep(w) /\ pc[w] # "idle"
  BY <1>1, StepKeepsTask, StepIsAwake, Zenon
<1>3. /\ \A m \in Models : entry'[m].status # "none"
      /\ \A m \in Models \ {M(w)} : entry[m].ref => entry'[m].ref
  BY <1>1, StepRewrites, RewritesKeep, ZenonT(30)
<1>4. DOMAIN label' = Models /\ ReadyLabelIsServed' /\ Distinct' /\ UNCHANGED cr
  BY <1>1, <1>2, StepIsServed, StepKeepsDistinct, StepIsAwake, Zenon
<1>5. \A v \in Workers \ {w} : Guarded(v)'
  <2>1. flock \in {None, w} \/ Mild
    BY BystandersAreMild, Zenon
  <2>2. ASSUME NEW v \in Workers \ {w}, pc[v] = "publish"
        PROVE  entry'[M(v)].ref
    <3>1. M(v) \in Models /\ M(v) # M(w) /\ entry[M(v)].ref
      BY <1>1, <1>2, <2>2, Zenon DEF Distinct, Task, Fitting, Guarded, M
    <3> QED BY <1>3, <3>1, Zenon
  <2> QED BY <1>2, <1>4, <2>1, <2>2, OthersStayGuarded, Zenon DEF TaskStep
<1>6. Guarded(w)'
  <2>1. \/ CleanupIntent(w) \/ Cleanup(w) \/ DeleteOrdinary(w) \/ recover(w) \/ recoverParent(w)
        \/ Route(w) \/ Enter(w) \/ Settle(w) \/ markModelOnNodeFailed(w) \/ AcquireRepair(w)
        \/ ResetEnds(w) \/ FetchBegins(w) \/ FetchEnds(w) \/ MarkBegins(w) \/ MarkParentReady(w)
        \/ AttachLink(w) \/ Validate(w) \/ Release(w) \/ DeleteInstead(w) \/ PublishStatus(w)
        \/ DetachReference(w) \/ Claim(w) \/ Unlink(w) \/ RemoveBegins(w) \/ RemoveEnds(w)
        \/ Forget(w) \/ Unclaim(w) \/ Final(w)
        \/ AttachReference(w) \/ DetachUnreferenced(w) \/ FinishReceipt(w)
        \/ Admit(w) \/ DetachBlocked(w) \/ MarkEnds(w) \/ MarkParentReadyLabels(w)
        \/ AcquireInitial(w) \/ ResetBegins(w) \/ RemoveMarker(w) \/ PublishLabel(w)
        \/ FailChildren(w) \/ FailLabels(w)
    BY Zenon DEF Step, DownloadStep, DeleteStep
  <2> QED BY <1>1, <2>1, MostStepsAreLoose, EndingsAreGuarded, FinishersAreGuarded,
             FetchersAreGuarded, RepairIsGuarded, Zenon
<1> QED BY <1>3, <1>4, <1>5, <1>6, Zenon DEF Labelled

\* A task starts for a model that no worker of the process is busy with.
LEMMA StartIsLabelled ==
  ASSUME Served, OneProcess, NEW w \in Workers, NEW k \in Kinds, NEW m \in Models, Start(w, k, m)
  PROVE  Labelled'
<1>1. /\ Shape /\ EntryShape /\ Distinct /\ DOMAIN label = Models /\ ReadyLabelIsServed
      /\ \A n \in Models : entry[n].status # "none"
      /\ \A v \in Workers : Guarded(v) /\ Task(v)
  BY Zenon DEF Served, Labelled, Whole, Matched, Exclusive, Tasks
<1>2. /\ UNCHANGED <<parent, links, flock, own, cr>>
      /\ op' = [op EXCEPT ![w] = [Idle EXCEPT !.kind = k, !.model = m]]
      /\ \A v \in Workers : home[v] = home[w] => M(v) # m
  BY Zenon DEF Start, files
<1>3. UNCHANGED entry \/ entry' = WithStatus(m, "Updating")
  BY Zenon DEF Start, Publish
<1>4. pc' = [pc EXCEPT ![w] = pc'[w]] /\ pc'[w] \in {"cleanup", "final"}
  BY <1>1, Zenon DEF Start, Goto, Shape
<1>5. Alone(w) /\ op'[w].model = m
  BY <1>1, <1>2, <1>4, Zenon DEF Alone, Shape, Idle
<1>6. \A n \in Models : entry'[n].status # "none" /\ (entry[n].ref => entry'[n].ref)
  BY <1>1, <1>3 DEF WithStatus, EntryShape, EntryFields
<1>7. DOMAIN label' = Models /\ ReadyLabelIsServed'
  BY <1>1, FailingDims, ServedBy, ZenonT(30)
<1>8. Distinct'
  <2>1. \A v \in Workers \ {w} : M(v) # m
    BY <1>1, <1>2, Zenon DEF OneProcess, Shape
  <2> QED BY <1>1, <1>5, <2>1 DEF Distinct, Alone, M
<1>9. \A v \in Workers \ {w} : Guarded(v)'
  <2>1. flock \in {None, w} \/ Mild
    BY BystandersAreMild, Zenon
  <2>2. \A v \in Workers \ {w} : pc[v] = "publish" => entry'[M(v)].ref
    BY <1>1, <1>6, ZenonT(30) DEF Guarded, Task, Fitting, M
  <2> QED BY <1>2, <1>5, <2>1, <2>2, OthersStayGuarded, Zenon
<1>10. Guarded(w)'
  BY <1>4, Zenon DEF Guarded
<1> QED BY <1>6, <1>7, <1>8, <1>9, <1>10, ZenonT(30) DEF Labelled

\* When the only process dies its workers lose their tasks; resources only go, and a
\* damaged file is found out by the next validation.
LEMMA EnvironmentIsLabelled ==
  ASSUME Served, OneProcess,
         \/ \E m \in Models : ResourceChange(m)
         \/ \E a \in Agents : Crash(a)
         \/ LoseConfigMap \/ Rot \/ UNCHANGED vars
  PROVE  Labelled'
<1>1. /\ Labelled /\ DOMAIN label = Models /\ DOMAIN cr = Models
      /\ home \in [Workers -> Agents]
  BY ZenonT(30) DEF Served, Labelled, Matched, Exclusive, Shape
<1>2. CASE Rot \/ UNCHANGED vars
  <2>1. /\ UNCHANGED <<parent, entry, label, links, flock, pc, op, cr>>
        /\ dir \in Good => dir' \in Good
    BY <1>2, Zenon DEF Rot, vars, files, local, Good
  <2> QED BY <1>1, <2>1, ZenonT(30) DEF Labelled, Distinct, Guarded, ReadyLabelIsServed, NoneReady, M
<1>3. ASSUME NEW m \in Models, ResourceChange(m)
      PROVE  Labelled'
  <2>1. UNCHANGED <<parent, entry, label, dir, links, flock, pc, op>>
    BY <1>3, Zenon DEF ResourceChange, files
  <2>2. \A n \in Models : cr'[n] = "live" => cr[n] = "live"
    BY <1>1, <1>3, Zenon DEF ResourceChange
  <2>3. ReadyLabelIsServed' /\ (NoneReady => NoneReady')
    BY <1>1, <2>1, <2>2, Zenon DEF Labelled, ReadyLabelIsServed, NoneReady
  <2> QED BY <1>1, <2>1, <2>3, ZenonT(30) DEF Labelled, Distinct, Guarded, M
<1>4. ASSUME Die(Agents), \A m \in Models : entry'[m].status # "none"
      PROVE  Labelled'
  <2>1. UNCHANGED <<label, dir, links, cr>> /\ \A w \in Workers : pc'[w] = "idle"
    BY <1>1, <1>4, ZenonT(30) DEF Die, files
  <2>2. ReadyLabelIsServed' /\ Distinct' /\ \A w \in Workers : Guarded(w)'
    BY <1>1, <2>1, ZenonT(30) DEF Labelled, ReadyLabelIsServed, Distinct, Guarded
  <2> QED BY <1>1, <1>4, <2>1, <2>2, ZenonT(30) DEF Labelled
<1>5. ASSUME NEW a \in Agents, Crash(a)
      PROVE  Labelled'
  <2>1. Agents = {a}
    BY Zenon DEF OneProcess
  <2>2. Die(Agents) /\ UNCHANGED entry
    BY <1>5, <2>1, Zenon DEF Crash
  <2> QED BY <1>1, <1>4, <2>2, Zenon DEF Labelled
<1>6. CASE LoseConfigMap
  <2>1. Die(Agents) /\ entry' = [m \in Models |-> NoEntry]
    BY <1>6, Zenon DEF LoseConfigMap
  <2> QED BY <1>4, <2>1, Zenon DEF NoEntry
<1> QED BY <1>2, <1>3, <1>5, <1>6, Zenon

LEMMA ServedNext ==
  ASSUME NoOtherUsers, OneProcess, Served, [Next]_vars
  PROVE  Served'
<1>1. Whole' /\ Removal' /\ Matched'
  BY WholeNext, RemovalStep, MatchedNext, Zenon DEF Served
<1>2. Labelled'
  BY <1>1, StepIsLabelled, StartIsLabelled, EnvironmentIsLabelled, Zenon DEF Next, Matched
<1> QED BY <1>1, <1>2, Zenon DEF Served

LEMMA ServedAtFirst ==
  ASSUME Init
  PROVE  Served
<1>1. Whole /\ Removal /\ Matched
  BY WholeAtFirst, RemovalAtFirst, MatchedAtFirst, Zenon
<1>2. Labelled
  BY Zenon DEF Init, Labelled, NoEntry, Distinct, Guarded, ReadyLabelIsServed
<1> QED BY <1>1, <1>2, Zenon DEF Served

\* A model that the node's labels call Ready has a path that leads to complete files, for
\* any number of workers and models, whatever crashes, is lost or fails in between, where
\* one process serves the node and nobody else uses the paths.
THEOREM ReadyLabelIsServedHolds ==
  ASSUME NoOtherUsers, OneProcess
  PROVE  Spec => []ReadyLabelIsServed
<1>1. Init => Served
  BY ServedAtFirst, Zenon
<1>2. Served /\ [Next]_vars => Served'
  BY ServedNext, Zenon
<1>3. Served => ReadyLabelIsServed
  BY Zenon DEF Served, Labelled
<1> QED BY <1>1, <1>2, <1>3, PTL DEF Spec
=============================================================================
