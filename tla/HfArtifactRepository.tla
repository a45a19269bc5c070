------------------------ MODULE HfArtifactRepository ------------------------
(***************************************************************************)
(* The records that the model agent keeps in the node's ConfigMap for one  *)
(* shared Hugging Face artifact (the parent) and for the models that use   *)
(* it (its children), and the changes that HfArtifactRepository makes to   *)
(* them.  Every change is one compare-and-swap of the ConfigMap, so it is  *)
(* given here as a function from the stored records to the new ones.       *)
(*                                                                         *)
(* There is one parent identity with one directory, and a model has one    *)
(* path and one UID: the checks of identities, paths and UIDs hold.        *)
(***************************************************************************)
EXTENDS FiniteSets

CONSTANTS
  Models,   \* the models that ask for the artifact
  Locks,    \* lock IDs
  None      \* no lock, no worker

ASSUME RepositoryAssumption == None \notin Locks

MaybeLock    == Locks \cup {None}
ModelStatus  == {"Updating", "Ready", "Failed"}
ParentStatus == {"absent", "Updating", "Ready", "Failed"}

\* HfArtifactEntry; "absent" stands for a missing key.
Parent ==
  [ status : ParentStatus, lock : MaybeLock, last : MaybeLock,
    children : SUBSET Models, saved : [Models -> ModelStatus \cup {"none"}] ]

NothingSaved == [m \in Models |-> "none"]

NoParent ==
  [ status |-> "absent", lock |-> None, last |-> None, children |-> {},
    saved |-> NothingSaved ]

\* HfArtifactPendingDeletion: the deletion lock that the receipt carries, and
\* the status of the parent when the deletion began.
Receipt == [ held : BOOLEAN, lock : MaybeLock, before : ParentStatus ]

NoReceipt == [ held |-> FALSE, lock |-> None, before |-> "absent" ]

\* The shared part of a ModelEntry.
Entry ==
  [ status : ModelStatus \cup {"absent"}, ref : BOOLEAN, intent : BOOLEAN,
    receipt : Receipt ]

NoEntry ==
  [ status |-> "absent", ref |-> FALSE, intent |-> FALSE,
    receipt |-> NoReceipt ]

Found(p) == p.status # "absent"

\* Mutant: interrupted work is taken for work in progress.
interruptedNever(p) == FALSE

interrupted(p) == p.status = "Updating" /\ p.lock = None /\ p.last # None

blocksNewOperation(p) == p.status = "Updating" /\ ~ interrupted(p)

ReceiptLocks(e) == {e[m].receipt.lock : m \in {n \in Models : e[n].receipt.held}}
-----------------------------------------------------------------------------
\* tryAcquireLock, when it acquires: the owner of l may change the files.
tryAcquireLock(p, l) ==
  [p EXCEPT !.status = "Updating", !.lock = l, !.last = None]

\* setStatus: l owns the parent, or a lost response hid that it was released.
OwnedBy(p, l) == l # None /\ p.status = "Updating" /\ p.lock = l

ReleasedBy(p, l, status) ==
  l # None /\ p.status = status /\ p.lock = None /\ p.last = l

\* hfArtifactChildStatusesToRestore: only what repair itself replaced.
Restorable(p, e, m) ==
  /\ p.saved[m] # "none"
  /\ m \in p.children /\ e[m].ref
  /\ e[m].status = "Failed"

setParentStatus(p, status) ==
  [p EXCEPT !.status = status,
            !.lock = None,
            !.last = p.lock,
            !.saved = IF status = "Ready" THEN NothingSaved ELSE @]

\* Mutant: statuses are restored that nobody saved.
setAllChildStatuses(p, e, status) ==
  [m \in Models |-> IF status = "Ready" /\ m \in p.children
                    THEN [e[m] EXCEPT !.status = p.saved[m]] ELSE e[m]]

setChildStatuses(p, e, status) ==
  [m \in Models |-> IF status = "Ready" /\ Restorable(p, e, m)
                    THEN [e[m] EXCEPT !.status = p.saved[m]] ELSE e[m]]

\* MarkChildrenFailedForRepair: the statuses before the first repair are kept.
saveChildStatuses(p, e) ==
  [p EXCEPT !.saved = [m \in Models |->
     IF m \in p.children /\ e[m].ref
        /\ (p.saved[m] = "none" \/ e[m].status # "Failed")
     THEN e[m].status ELSE p.saved[m]]]

failChildren(p, e) ==
  [m \in Models |-> IF m \in p.children /\ e[m].ref
                    THEN [e[m] EXCEPT !.status = "Failed"] ELSE e[m]]

\* rememberDownload and beginPendingDownloadDeletion.
rememberDownload(e, m) == [e EXCEPT ![m].intent = ~ e[m].ref]

beginPendingDownloadDeletion(e, m) ==
  [e EXCEPT ![m].intent = FALSE, ![m].receipt = [NoReceipt EXCEPT !.held = TRUE]]

\* AddModelReference.
CanAddReference(p, e, m) ==
  p.status = "Ready" /\ e[m].status # "absent" /\ ~ e[m].receipt.held

addToParent(p, m) == [p EXCEPT !.children = @ \cup {m}]

\* Mutant: the intent outlives the download.
addToModelOnly(e, m) == [e EXCEPT ![m].ref = TRUE]

addToModel(e, m) == [e EXCEPT ![m].ref = TRUE, ![m].intent = FALSE]

\* removeModelReference: the last reference takes the deletion lock l with it.
LastReference(p, m) == p.children = {m}

removeFromParent(p, m, l) ==
  LET q == [p EXCEPT !.children = @ \ {m}, !.saved[m] = "none"]
  IN  IF LastReference(p, m) THEN tryAcquireLock(q, l) ELSE q

removeFromModel(p, e, m, l) ==
  [e EXCEPT ![m].ref = FALSE,
            ![m].receipt =
              [ held |-> TRUE, before |-> p.status,
                lock |-> IF LastReference(p, m) THEN l ELSE p.lock ]]

\* deletionParent, when it claims a parent that has become unreferenced.
Claimable(p) ==
  Found(p) /\ ~ blocksNewOperation(p) /\ p.children = {}

claimDeletion(p, e, m, l) ==
  [e EXCEPT ![m].receipt = [ held |-> TRUE, lock |-> l, before |-> p.status ]]

finishPendingDeletion(e, m) == [e EXCEPT ![m].receipt = NoReceipt]

\* DeleteIfUnreferenced.
CanDelete(p, l) == OwnedBy(p, l) /\ p.children = {}
=============================================================================
