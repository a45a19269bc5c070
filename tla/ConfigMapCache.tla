--------------------------- MODULE ConfigMapCache ---------------------------
(***************************************************************************)
(* The node's ConfigMap of model entries and the cache that one model      *)
(* agent keeps of it (ConfigMapReconciler), so that records which somebody *)
(* deletes come back and records which the agent deleted do not.           *)
(*                                                                         *)
(* Every change of the ConfigMap runs under configMapMutationMutex as one  *)
(* compare-and-swap with retries, and is one action here.  Gopher's        *)
(* status, metadata, progress and delete calls exclude each other by its   *)
(* configMapMutex, but a status or metadata call updates the cache in a    *)
(* second step, after the mutation mutex is released (CacheOrdinary).  The *)
(* periodic reconciliation, the shared artifact's repository and the loss  *)
(* of records come in between.                                             *)
(*                                                                         *)
(* Records are those of HfArtifactRepository, and a model's record carries *)
(* the UID that its download intent or deletion receipt names (and, as a   *)
(* ghost, the UID that attached it).                                       *)
(***************************************************************************)
EXTENDS HfArtifactRepository, Naturals

CONSTANTS
  Published,    \* the statuses that tasks publish
  LastUIDs,     \* for each name, the UID with which it stays in use, 0 if unused
  Leaving,      \* the models that delete tasks remove from the node
  Reporting,    \* the models whose tasks report metadata and progress
  DeletesMiss,  \* whether a delete task may look for a record while it is lost
  MaxFaults     \* how often records are lost, a call fails or the agent restarts

ASSUME CacheAssumption ==
  /\ Published \subseteq ModelStatus
  /\ Reporting \subseteq Models /\ Leaving \subseteq Models /\ DeletesMiss \in BOOLEAN
  /\ LastUIDs \subseteq [Models -> Nat] /\ MaxFaults \in Nat

VARIABLES
  exists,       \* the ConfigMap exists
  parent,       \* its record of the shared artifact
  entry,        \* its records of the models
  cache,        \* modelCache
  parentCache,  \* hfArtifactCache
  evicted,      \* evictedModels
  invalidated,  \* invalidatedModelUIDs
  call,         \* the call of Gopher that is between two of its steps
  claiming,     \* the receipt between its claim and the adoption of its UID
  lastUID,      \* the member of LastUIDs that this behaviour follows
  uid,          \* the UID of the resource that has the name
  oldest,       \* the oldest UID that this process may still work for
  deleting,     \* that resource has a deletion timestamp
  missed,       \* the models whose record a delete task may have found missing
  author,       \* ghost: the UID that wrote the entry, 0 after its removal
  owed,         \* ghost: the entry has a shared part that nobody has settled
  restored,     \* ghost: the parent was restored and not validated since
  faults

stored   == <<exists, parent, entry>>
memory   == <<cache, parentCache, evicted, invalidated>>
resource == <<lastUID, uid, oldest, deleting, missed>>
ghost    == <<author, owed, restored>>
vars     == <<stored, memory, call, claiming, resource, ghost, faults>>

NoUID == 0

\* A model's record; a cached model that never had a status is "blank".
Record ==
  [ status : ModelStatus \cup {"absent", "blank"}, ref : BOOLEAN, intent : BOOLEAN,
    receipt : Receipt, uid : Nat ]

NoRecord ==
  [ status |-> "absent", ref |-> FALSE, intent |-> FALSE,
    receipt |-> NoReceipt, uid |-> NoUID ]

ParentRecord ==
  [ status : ParentStatus, lock : MaybeLock, last : MaybeLock, children : SUBSET Models,
    saved : [Models -> ModelStatus \cup {"none", "blank"}] ]

Present(r) == r.status # "absent"

Shared(r) == r.ref \/ r.intent \/ r.receipt.held

\* CacheEntry; a record in json stands for ModelEntryJSON.
NotCached == [ held |-> FALSE, uid |-> NoUID, status |-> "blank", json |-> NoRecord ]

\* "cache" is a committed status or metadata write that cacheOrdinaryModel
\* follows, "delete" a deletion whose model is evicted and not yet removed.
Call == [ step : {"none", "cache", "delete"}, model : Models \cup {None}, uid : Nat,
          status : ModelStatus \cup {"blank"} ]

NoCall == [ step |-> "none", model |-> None, uid |-> NoUID, status |-> "blank" ]

NoClaim == [ model |-> None, uid |-> NoUID ]

Init ==
  /\ exists = FALSE
  /\ parent = NoParent /\ parentCache = NoParent
  /\ entry = [m \in Models |-> NoRecord]
  /\ cache = [m \in Models |-> NotCached]
  /\ evicted = {} /\ invalidated = [m \in Models |-> {}]
  /\ call = NoCall /\ claiming = NoClaim
  /\ lastUID \in LastUIDs
  /\ uid = [m \in Models |-> IF lastUID[m] = 0 THEN NoUID ELSE 1] /\ oldest = uid
  /\ deleting = [m \in Models |-> FALSE] /\ missed = {}
  /\ author = [m \in Models |-> NoUID] /\ owed = [m \in Models |-> FALSE]
  /\ restored = FALSE
  /\ faults = 0
-----------------------------------------------------------------------------
isModelUIDInvalidated(m, u) ==
  IF u = NoUID THEN invalidated[m] # {} ELSE u \in invalidated[m]

OwnedByAnother(m, u) ==
  cache[m].held /\ cache[m].uid # NoUID /\ u # NoUID /\ cache[m].uid # u

isModelMutationBlocked(m, u) == isModelUIDInvalidated(m, u) \/ OwnedByAnother(m, u)

HasJSON(m) == Present(cache[m].json)

\* cachedConfigMapEntries: the cached models that may be restored.
Trusted(ordinary) ==
  {m \in Models : /\ cache[m].held
                  /\ ~ isModelMutationBlocked(m, cache[m].uid)
                  /\ ordinary \/ HasJSON(m)}

\* Mutant: a shared entry is restored like an ordinary one.
CachedStatus(m) == [NoRecord EXCEPT !.status = cache[m].status]

CachedRecord(m) ==
  IF HasJSON(m) THEN cache[m].json ELSE [NoRecord EXCEPT !.status = cache[m].status]

\* restoreHfArtifactParent: base is the record that the restoration starts
\* from, Back the children whose records come back or lose their status.
Base(p) == IF Found(p) THEN p ELSE parentCache

Child(e, m) == IF Present(e[m]) THEN e[m] ELSE CachedRecord(m)

\* Mutant: only a missing parent is restored.
ParentIsMissing(p, e, scope, trusted) == Found(parentCache) /\ ~ Found(p)

ParentNeedsRecovery(p, e, scope, trusted) ==
  /\ Found(parentCache)
  /\ ~ (Found(p) /\ blocksNewOperation(p))
  /\ \/ ~ Found(p)
     \/ \E m \in p.children \cap parentCache.children \cap scope \cap trusted :
          ~ Present(e[m]) /\ CachedRecord(m).ref

Back(p, e, trusted) ==
  {m \in Base(p).children \cap trusted :
     Child(e, m).ref /\ (Present(e[m]) \/ m \in parentCache.children)}

RestoredParent(p, e, trusted) ==
  LET b    == Base(p)
      back == Back(p, e, trusted)
      kids == IF Found(p) THEN b.children ELSE back
  IN  [ status   |-> IF b.status = "Updating" THEN "Updating" ELSE "Failed",
        lock     |-> IF b.status = "Updating" THEN b.lock ELSE None,
        last     |-> IF b.status = "Updating" THEN b.last ELSE None,
        children |-> kids,
        saved    |-> [m \in Models |->
           IF m \in back /\ (b.saved[m] = "none" \/ Child(e, m).status # "Failed")
           THEN Child(e, m).status
           ELSE IF m \in kids THEN b.saved[m] ELSE "none"] ]

RestoredChildren(p, e, trusted) ==
  [m \in Models |-> IF m \in Back(p, e, trusted)
                    THEN [Child(e, m) EXCEPT !.status = "Failed"] ELSE e[m]]

\* restoreCachedConfigMapEntries, for the models of scope.
RestoresParent(p, e, scope, trusted) ==
  /\ ParentNeedsRecovery(p, e, scope, trusted)
  /\ scope = Models \/ \E m \in scope \cap trusted : CachedRecord(m).ref

Restore(p, e, scope, ordinary) ==
  LET trusted == Trusted(ordinary)
      group   == RestoresParent(p, e, scope, trusted)
      e1      == IF group THEN RestoredChildren(p, e, trusted) ELSE e
  IN  [ parent |-> IF group THEN RestoredParent(p, e, trusted) ELSE p,
        entry  |-> [m \in Models |->
                      IF m \in scope \cap trusted /\ ~ Present(e1[m]) /\ ~ CachedRecord(m).ref
                      THEN CachedRecord(m) ELSE e1[m]] ]

\* The records that a mutation on behalf of the models of scope (one model,
\* or none) starts from: mutateConfigMapWithModelUIDLocked.
Unlost == IF exists THEN [parent |-> parent, entry |-> entry]
                    ELSE Restore(parent, entry, Models, FALSE)

Latest(scope) ==
  LET r    == Unlost
      lost == {m \in scope : ~ Present(r.entry[m])}
  IN  IF lost = {} THEN r ELSE Restore(r.parent, r.entry, lost, FALSE)

\* The restoration of one model that misses its parent is an error.
Irreconcilable(r, m) ==
  ~ Present(r.entry[m]) /\ m \in Trusted(FALSE) /\ CachedRecord(m).ref
-----------------------------------------------------------------------------
\* evictCachedModelLocked also takes the models of gone from the cached parent.
WithoutChildren(p, gone) ==
  [p EXCEPT !.children = @ \ gone,
            !.saved = [m \in Models |-> IF m \in gone THEN "none" ELSE @[m]]]

\* cacheCommittedConfigMapEntries: what the commit of r, by UID u of the
\* models of scope, leaves in the cache; changed are the entries it wrote.
Removed(r) == {m \in Models : Present(entry[m]) /\ ~ Present(r.entry[m])}

Ordinary(r, m) == ~ Shared(r.entry[m]) /\ ~ HasJSON(m)

Seeds(scope, changed, m) ==
  /\ scope = {} /\ m \in changed
  /\ ~ cache[m].held /\ m \notin evicted /\ invalidated[m] = {}

Owns(r, scope, u, m) ==
  m \in scope /\ ~ Ordinary(r, m) /\ ~ isModelMutationBlocked(m, u)

EvictedAfter(r, scope, u) ==
  (evicted \cup Removed(r))
    \ {m \in Models : Present(r.entry[m]) /\ Owns(r, scope, u, m)}

cacheCommittedModelEntry(r, scope, u, changed, gone, m) ==
  LET owner == IF Owns(r, scope, u, m) THEN u ELSE cache[m].uid
  IN  IF Ordinary(r, m)
      THEN IF Seeds(scope, changed, m)
           THEN [NotCached EXCEPT !.held = TRUE, !.status = r.entry[m].status]
           ELSE cache[m]
      ELSE IF m \in gone \/ isModelUIDInvalidated(m, owner)
           THEN cache[m]
           ELSE [ held |-> TRUE, uid |-> owner, status |-> r.entry[m].status,
                  json |-> r.entry[m] ]

\* Mutant: records that are missing are cached too.
CacheEverything(r, scope, u, changed) ==
  /\ evicted' = EvictedAfter(r, scope, u)
  /\ cache' = [m \in Models |->
       cacheCommittedModelEntry(r, scope, u, changed, evicted', m)]
  /\ UNCHANGED invalidated

CacheModels(r, scope, u, changed) ==
  /\ evicted' = EvictedAfter(r, scope, u)
  /\ cache' = [m \in Models |->
       IF Present(r.entry[m])
       THEN cacheCommittedModelEntry(r, scope, u, changed, evicted', m)
       ELSE IF m \in Removed(r) THEN NotCached ELSE cache[m]]
  /\ UNCHANGED invalidated

CacheCommitted(r, scope, u, changed) ==
  /\ CacheModels(r, scope, u, changed)
  /\ parentCache' =
       IF Found(r.parent) THEN WithoutChildren(r.parent, evicted')
       ELSE IF Found(parent) THEN NoParent
       ELSE WithoutChildren(parentCache, Removed(r))

\* One compare-and-swap to the records r.  It succeeds, or it is stored and
\* its answer is lost; a call that stores nothing changes nothing.
Store(r) ==
  /\ parent' = r.parent /\ entry' = r.entry
  /\ exists' = (exists \/ r # [parent |-> parent, entry |-> entry])

Fault == faults < MaxFaults /\ faults' = faults + 1

Commit(r, scope, u) ==
  /\ Store(r)
  /\ CacheCommitted(r, scope, u, {m \in Models : r.entry[m] # entry[m]})
  /\ UNCHANGED faults

LoseAnswer(r) == Fault /\ Store(r) /\ UNCHANGED memory

\* The mutation mutex is free: no deletion is under way.
Unlocked == call.step # "delete"

\* A restoration leaves the parent unvalidated, until its owner reports Ready.
NoteRestored(r) == restored' = (restored \/ r.parent # parent)
-----------------------------------------------------------------------------
\* Gopher's calls.  A task may work for a resource that has been replaced.
UIDs(m) == oldest[m]..uid[m] \ {NoUID}

\* validateHfArtifactChildMutation.
KeepsShared(r, m) ==
  LET known == cache[m].json
  IN  /\ m \in r.parent.children => r.entry[m].ref
      /\ known.ref => r.entry[m].ref
      /\ known.intent => r.entry[m].intent
      /\ known.receipt.held => r.entry[m].receipt.held

\* mutateModelEntryWithRetry: the write of a stale task is skipped, with no error,
\* and its caller goes on.
Write(m, u, r, next, then) ==
  /\ call.step = "none"
  /\ ~ Irreconcilable(r, m)
  /\ NoteRestored(r)
  /\ IF isModelMutationBlocked(m, u)
     THEN Commit(r, {m}, u) /\ call' = then /\ UNCHANGED author
     ELSE /\ KeepsShared(r, m)
          /\ author' = [author EXCEPT ![m] = u]
          /\ \/ Commit(next, {m}, u) /\ call' = then
             \/ LoseAnswer(next) /\ UNCHANGED call
  /\ UNCHANGED <<claiming, resource, owed>>

Then(m, u, status) == [ step |-> "cache", model |-> m, uid |-> u, status |-> status ]

\* Mutant: a late completion is published whatever became of the parent.
ReadyNeverBlocked(r, m, status) == FALSE

\* updateModelStatusInConfigMap.  A shared model is not Ready before its parent.
ReadyBlocked(r, m, status) ==
  status = "Ready" /\ r.entry[m].ref /\ r.parent.status # "Ready"

ReconcileModelStatus(m, u, status) ==
  LET r == Latest({m})
  IN  /\ ~ ReadyBlocked(r, m, status)
      /\ Write(m, u, r, [r EXCEPT !.entry[m].status = status], Then(m, u, status))

StatusNotReady(m, u) ==
  LET r == Latest({m})
  IN  /\ call.step = "none" /\ ~ Irreconcilable(r, m)
      /\ ~ isModelMutationBlocked(m, u) /\ KeepsShared(r, m)
      /\ ReadyBlocked(r, m, "Ready")
      /\ Commit(r, {m}, u) /\ NoteRestored(r)
      /\ UNCHANGED <<call, claiming, resource, author, owed>>

\* updateModelMetadataInConfigMap and updateModelProgressInConfigMap: the
\* status of an entry that is missing is assumed.
Assumed(r, m, status) ==
  IF Present(r.entry[m]) THEN r ELSE [r EXCEPT !.entry[m].status = status]

\* A task has published Updating before, and goes on if that failed.
ReportsNow(m) == m \in Reporting /\ (cache[m].held \/ faults > 0)

ReconcileModelMetadata(m, u) ==
  LET r == Latest({m}) IN Write(m, u, r, Assumed(r, m, "Ready"), Then(m, u, "blank"))

ReconcileModelProgress(m, u) ==
  LET r == Latest({m}) IN Write(m, u, r, Assumed(r, m, "Updating"), NoCall)

\* cacheOrdinaryModel.
CacheOrdinary ==
  LET m == call.model
  IN  /\ call.step = "cache"
      /\ IF isModelMutationBlocked(m, call.uid) \/ HasJSON(m)
         THEN UNCHANGED <<cache, evicted>>
         ELSE /\ cache' = [cache EXCEPT ![m] =
                   [ held |-> TRUE, uid |-> call.uid, json |-> NoRecord,
                     status |-> IF call.status = "blank" THEN @.status ELSE call.status ]]
              /\ evicted' = evicted \ {m}
      /\ call' = NoCall
      /\ UNCHANGED <<stored, parentCache, invalidated, claiming, resource, ghost, faults>>

\* DeleteModelFromConfigMap.  A deleting resource never writes again; a model
\* that left the node by its selector may come back under the same UID.  The
\* task has released its own share of the artifact before it gets here
\* (processSharedHfArtifactDelete), but not what a replacement recorded since, nor
\* a share whose record was missing then and has been restored since.
Superseded(m, u) ==
  OwnedByAnother(m, u) /\ (u \in invalidated[m] \/ Shared(cache[m].json))

\* Mutant: the model stays cached until the removal is confirmed.
DeleteWithoutEviction(m, u, terminal) ==
  /\ call.step = "none"
  /\ ~ Superseded(m, u)
  /\ terminal => deleting[m] \/ u < uid[m]
  /\ entry[m].ref \/ entry[m].intent => entry[m].uid # u \/ m \in missed
  /\ call' = [ step |-> "delete", model |-> m, uid |-> u, status |-> "blank" ]
  /\ UNCHANGED <<stored, memory, claiming, resource, ghost, faults>>

DeleteModel(m, u, terminal) ==
  /\ call.step = "none"
  /\ ~ Superseded(m, u)
  /\ terminal => deleting[m] \/ u < uid[m]
  /\ entry[m].ref \/ entry[m].intent => entry[m].uid # u \/ m \in missed
  /\ cache' = [cache EXCEPT ![m] = NotCached]
  /\ evicted' = evicted \cup {m}
  /\ parentCache' = WithoutChildren(parentCache, {m})
  /\ invalidated' = [invalidated EXCEPT ![m] = IF terminal THEN @ \cup {u} ELSE @]
  /\ call' = [ step |-> "delete", model |-> m, uid |-> u, status |-> "blank" ]
  /\ owed' = [owed EXCEPT ![m] = @ /\ Present(entry[m])]
  /\ UNCHANGED <<stored, claiming, resource, author, restored, faults>>

OwnershipChanged(r, m, u) ==
  LET e == r.entry[m] IN e.ref \/ e.intent \/ (e.receipt.held /\ e.uid # u)

DeleteEnds == call' = NoCall /\ UNCHANGED <<claiming, resource>>

DeleteRefused ==
  /\ call.step = "delete"
  /\ OwnershipChanged(Latest({call.model}), call.model, call.uid)
  /\ DeleteEnds /\ UNCHANGED <<stored, memory, ghost, faults>>

DeleteFails ==
  /\ call.step = "delete"
  /\ Fault
  /\ DeleteEnds /\ UNCHANGED <<stored, memory, ghost>>

DeleteCommits ==
  LET m == call.model
      r == Latest({m})
      n == [r EXCEPT !.entry[m] = NoRecord]
  IN  /\ call.step = "delete"
      /\ ~ OwnershipChanged(r, m, call.uid)
      /\ Commit(n, {m}, call.uid) \/ LoseAnswer(n)
      /\ author' = [author EXCEPT ![m] = NoUID]
      /\ owed' = [owed EXCEPT ![m] = FALSE]
      /\ NoteRestored(r)
      /\ DeleteEnds

\* recreateConfigMap, which StartReconciliation calls periodically, and the
\* smaller restoration of getConfigMapForHfArtifactCleanup.
Observe(r) ==
  /\ Unlocked
  /\ Commit(r, {}, NoUID) \/ LoseAnswer(r)
  /\ NoteRestored(r)
  /\ UNCHANGED <<call, claiming, resource, author, owed>>

reconcileConfigMaps ==
  LET r == Unlost IN Observe(Restore(r.parent, r.entry, Models, TRUE))

getConfigMapForHfArtifactCleanup == ~ exists /\ Observe(Unlost)

\* getConfigMapForRecovery, and updateConfigMapWithRetry: the latter changes the
\* children paths of an entry, which no other part of this model reads.
getConfigMapForRecovery ==
  /\ Unlocked /\ exists
  /\ CacheCommitted([parent |-> parent, entry |-> entry], {}, NoUID, {})
  /\ UNCHANGED <<stored, call, claiming, resource, ghost, faults>>

updateConfigMapWithRetry(m) ==
  /\ Unlocked /\ exists /\ Present(entry[m])
  /\ CacheCommitted([parent |-> parent, entry |-> entry], {}, NoUID, {m})
  /\ UNCHANGED <<stored, call, claiming, resource, ghost, faults>>
-----------------------------------------------------------------------------
\* The changes that HfArtifactRepository makes: p and e are the new records.
\* The task of a resource makes its calls one after the other.
Idle(m, u) == ~ (call.model = m /\ call.uid = u)

Change(scope, u, p, e) ==
  /\ Unlocked
  /\ \/ Commit([parent |-> p, entry |-> e], scope, u)
     \/ LoseAnswer([parent |-> p, entry |-> e])
  /\ UNCHANGED <<call, resource, author>>

RememberDownload(m, u) ==
  LET r == Latest({m})
  IN  /\ Idle(m, u)
      /\ ~ Irreconcilable(r, m) /\ ~ isModelMutationBlocked(m, u)
      /\ Present(r.entry[m]) /\ ~ r.entry[m].receipt.held /\ ~ r.entry[m].ref
      /\ r.entry[m].intent => r.entry[m].uid = u
      /\ Change({m}, u, r.parent, [rememberDownload(r.entry, m) EXCEPT ![m].uid = u])
      /\ owed' = [owed EXCEPT ![m] = TRUE]
      /\ NoteRestored(r) /\ UNCHANGED claiming

\* A download has recorded its intent before it attaches.
AddModelReference(m, u) ==
  LET r == Unlost
  IN  /\ Idle(m, u) /\ Shared(cache[m].json)
      /\ ~ isModelMutationBlocked(m, u)
      /\ CanAddReference(r.parent, r.entry, m)
      /\ r.entry[m].intent => r.entry[m].uid = u
      /\ Change({}, NoUID, addToParent(r.parent, m),
                [addToModel(r.entry, m) EXCEPT ![m].uid = u])
      /\ owed' = [owed EXCEPT ![m] = TRUE]
      /\ NoteRestored(r) /\ UNCHANGED claiming

\* Nothing here reads the status of the parent before the deletion.
RemoveModelReference(m, u, l) ==
  LET r == Unlost
  IN  /\ Idle(m, u) /\ ~ isModelMutationBlocked(m, u)
      /\ Found(r.parent) /\ ~ blocksNewOperation(r.parent)
      /\ m \in r.parent.children /\ r.entry[m].ref /\ ~ r.entry[m].receipt.held
      /\ Change({}, NoUID, removeFromParent(r.parent, m, l),
                [removeFromModel(r.parent, r.entry, m, l) EXCEPT
                   ![m].uid = u, ![m].receipt.before = "absent"])
      /\ NoteRestored(r) /\ UNCHANGED <<owed, claiming>>

\* beginPendingDownloadDeletion: the receipt keeps the UID of the intent.
BeginPendingDownloadDeletion(m, u) ==
  LET r == Unlost
  IN  /\ Idle(m, u) /\ r.entry[m].intent
      /\ \/ u = r.entry[m].uid /\ ~ isModelMutationBlocked(m, u)
         \/ u = uid[m] /\ u \notin invalidated[m]
      /\ Change({}, NoUID, r.parent, beginPendingDownloadDeletion(r.entry, m))
      /\ NoteRestored(r) /\ UNCHANGED <<owed, claiming>>

\* claimPendingDeletion and adoptPendingDeletionUID: the resource that has the
\* name now takes the receipt over, then the cached entry.
ClaimPendingDeletion(m) ==
  LET r == Unlost
  IN  /\ claiming = NoClaim /\ Idle(m, uid[m])
      /\ uid[m] \notin invalidated[m]
      /\ r.entry[m].receipt.held /\ ~ r.entry[m].ref
      /\ blocksNewOperation(r.parent) => r.parent.lock = r.entry[m].receipt.lock
      /\ Change({}, NoUID, r.parent, [r.entry EXCEPT ![m].uid = uid[m]])
      /\ claiming' = IF faults' = faults THEN [ model |-> m, uid |-> uid[m] ] ELSE NoClaim
      /\ NoteRestored(r) /\ UNCHANGED owed

AdoptPendingDeletionUID ==
  LET m == claiming.model
      u == claiming.uid
  IN  /\ claiming # NoClaim /\ Unlocked
      /\ IF /\ entry[m].receipt.held /\ entry[m].uid = u /\ ~ entry[m].ref
            /\ u = uid[m] /\ u \notin invalidated[m]
         THEN /\ invalidated' = [invalidated EXCEPT ![m] =
                    IF OwnedByAnother(m, u) THEN @ \cup {cache[m].uid} ELSE @]
              /\ cache' = [cache EXCEPT ![m] =
                    [ held |-> TRUE, uid |-> u, status |-> entry[m].status,
                      json |-> entry[m] ]]
              /\ evicted' = evicted \ {m}
         ELSE UNCHANGED <<invalidated, cache, evicted>>
      /\ claiming' = NoClaim
      /\ UNCHANGED <<stored, parentCache, call, resource, ghost, faults>>

\* deletionParent: the receipt claims a parent that has become unreferenced.  If the
\* parent is gone (and its directory too), then the answer to its deletion was lost,
\* and the cache forgets what this receipt had locked.
DeletionParent(m, l) ==
  LET r == Unlost
  IN  /\ Idle(m, r.entry[m].uid) /\ r.entry[m].receipt.held /\ ~ r.entry[m].ref
      /\ ~ isModelMutationBlocked(m, r.entry[m].uid)
      /\ Claimable(r.parent)
      /\ Change({}, NoUID, tryAcquireLock(r.parent, l),
                [claimDeletion(r.parent, r.entry, m, l) EXCEPT
                   ![m].receipt.before = "absent"])
      /\ NoteRestored(r) /\ UNCHANGED <<owed, claiming>>

DeletedParent(m) ==
  /\ Unlocked /\ Idle(m, entry[m].uid)
  /\ exists /\ entry[m].receipt.held /\ ~ entry[m].ref
  /\ ~ isModelMutationBlocked(m, entry[m].uid)
  /\ ~ Found(parent) /\ Found(parentCache) /\ parentCache.children = {}
  /\ entry[m].receipt.lock # None /\ parentCache.lock = entry[m].receipt.lock
  /\ parentCache' = NoParent
  /\ CacheModels([parent |-> parent, entry |-> entry], {}, NoUID, {})
  /\ UNCHANGED <<stored, call, claiming, resource, ghost, faults>>

FinishPendingDeletion(m) ==
  LET r == Unlost
  IN  /\ Idle(m, r.entry[m].uid) /\ r.entry[m].receipt.held /\ ~ r.entry[m].ref
      /\ ~ isModelMutationBlocked(m, r.entry[m].uid)
      /\ Change({}, NoUID, r.parent,
                [finishPendingDeletion(r.entry, m) EXCEPT ![m].uid = NoUID])
      /\ owed' = [owed EXCEPT ![m] = FALSE]
      /\ NoteRestored(r) /\ UNCHANGED claiming

\* TryAcquireLock, MarkReady, MarkFailed, MarkInterrupted,
\* MarkChildrenFailedForRepair and DeleteIfUnreferenced.
ChangeParent(p, e, unvalidated) ==
  /\ Change({}, NoUID, p, e)
  /\ restored' = unvalidated
  /\ UNCHANGED <<owed, claiming>>

TryAcquireLock(l) ==
  LET r == Unlost
  IN  /\ ~ blocksNewOperation(r.parent)
      /\ ChangeParent(tryAcquireLock(r.parent, l), r.entry,
                      restored \/ r.parent # parent)

SetStatus(status) ==
  LET r == Unlost
  IN  /\ OwnedBy(r.parent, r.parent.lock)
      /\ ChangeParent(setParentStatus(r.parent, status),
                      setChildStatuses(r.parent, r.entry, status),
                      status # "Ready" /\ (restored \/ r.parent # parent))

MarkChildrenFailedForRepair ==
  LET r == Unlost
  IN  /\ OwnedBy(r.parent, r.parent.lock)
      /\ ChangeParent(saveChildStatuses(r.parent, r.entry),
                      failChildren(r.parent, r.entry),
                      restored \/ r.parent # parent)

DeleteIfUnreferenced ==
  LET r == Unlost
  IN  /\ CanDelete(r.parent, r.parent.lock)
      /\ ChangeParent(NoParent, r.entry, FALSE)

RepositoryStep ==
  \/ \E m \in Models : \E u \in UIDs(m) :
       \/ RememberDownload(m, u) \/ AddModelReference(m, u)
       \/ m \in Leaving /\ BeginPendingDownloadDeletion(m, u)
       \/ m \in Leaving /\ \E l \in Locks : RemoveModelReference(m, u, l)
  \/ \E m \in Models : ClaimPendingDeletion(m) \/ FinishPendingDeletion(m)
  \/ \E m \in Models : DeletedParent(m) \/ \E l \in Locks : DeletionParent(m, l)
  \/ AdoptPendingDeletionUID
  \/ \E l \in Locks : TryAcquireLock(l)
  \/ \E status \in {"Ready", "Failed", "Updating"} : SetStatus(status)
  \/ MarkChildrenFailedForRepair
  \/ DeleteIfUnreferenced
-----------------------------------------------------------------------------
\* Somebody deletes the ConfigMap, or one of its records.  What the cache of
\* this process does not know is lost for good.
Known(m) == m \in Trusted(FALSE) /\ Shared(cache[m].json)

LoseRecords(gone) ==
  /\ Fault
  /\ entry' = [m \in Models |-> IF m \in gone THEN NoRecord ELSE entry[m]]
  /\ owed' = [m \in Models |-> owed[m] /\ (m \in gone => Known(m))]
  /\ UNCHANGED <<memory, call, claiming, lastUID, uid, oldest, deleting, author, restored>>

\* A task that finds no ConfigMap restores it (getConfigMapForHfArtifactCleanup).
LoseConfigMap ==
  /\ exists /\ exists' = FALSE /\ parent' = NoParent
  /\ LoseRecords(Models) /\ UNCHANGED missed

LoseEntry(m) ==
  /\ Present(entry[m]) /\ LoseRecords({m})
  /\ missed' = IF DeletesMiss THEN missed \cup {m} ELSE missed
  /\ UNCHANGED <<exists, parent>>

LoseParent ==
  /\ Found(parent) /\ parent' = NoParent /\ LoseRecords({})
  /\ UNCHANGED <<exists, missed>>

\* A finalizer keeps the name until no ConfigMap has an entry for it.
ResourceDeleting(m) ==
  /\ ~ deleting[m] /\ uid[m] < lastUID[m]
  /\ deleting' = [deleting EXCEPT ![m] = TRUE]
  /\ UNCHANGED <<stored, memory, call, claiming, lastUID, uid, oldest, missed, ghost, faults>>

ResourceReplaced(m) ==
  /\ deleting[m] /\ ~ Present(entry[m])
  /\ uid' = [uid EXCEPT ![m] = @ + 1]
  /\ deleting' = [deleting EXCEPT ![m] = FALSE]
  /\ UNCHANGED <<stored, memory, call, claiming, lastUID, oldest, missed, ghost, faults>>

Restart ==
  /\ Fault
  /\ cache' = [m \in Models |-> NotCached]
  /\ parentCache' = NoParent
  /\ evicted' = {} /\ invalidated' = [m \in Models |-> {}]
  /\ call' = NoCall /\ claiming' = NoClaim
  /\ oldest' = uid /\ missed' = {}
  /\ owed' = [m \in Models |-> owed[m] /\ Present(entry[m])]
  /\ UNCHANGED <<stored, lastUID, uid, deleting, author, restored>>

GopherStep ==
  \/ \E m \in Models : \E u \in UIDs(m) :
       \/ \E status \in Published : ReconcileModelStatus(m, u, status)
       \/ StatusNotReady(m, u)
       \/ ReportsNow(m) /\ (ReconcileModelMetadata(m, u) \/ ReconcileModelProgress(m, u))
       \/ m \in Leaving /\ \E terminal \in BOOLEAN : DeleteModel(m, u, terminal)
  \/ CacheOrdinary
  \/ DeleteRefused \/ DeleteFails \/ DeleteCommits

CacheStep ==
  \/ reconcileConfigMaps \/ getConfigMapForHfArtifactCleanup \/ getConfigMapForRecovery
  \/ \E m \in Models : updateConfigMapWithRetry(m)

Environment ==
  \/ LoseConfigMap \/ LoseParent \/ Restart
  \/ \E m \in Models : LoseEntry(m) \/ ResourceDeleting(m) \/ ResourceReplaced(m)

Next == GopherStep \/ CacheStep \/ RepositoryStep \/ Environment

Spec == Init /\ [][Next]_vars
-----------------------------------------------------------------------------
\* The values of the variables.
TypeOK ==
  /\ exists \in BOOLEAN
  /\ {parent, parentCache} \subseteq ParentRecord
  /\ entry \in [Models -> Record]
  /\ cache \in [Models -> [ held : BOOLEAN, uid : Nat, json : Record,
                            status : ModelStatus \cup {"blank"} ]]
  /\ evicted \subseteq Models /\ invalidated \in [Models -> SUBSET Nat]
  /\ call \in Call /\ claiming \in [ model : Models \cup {None}, uid : Nat ]
  /\ lastUID \in LastUIDs
  /\ \A m \in Models : uid[m] \in 0..lastUID[m] /\ oldest[m] \in 0..uid[m]
  /\ deleting \in [Models -> BOOLEAN] /\ missed \subseteq Models /\ author \in [Models -> Nat]
  /\ owed \in [Models -> BOOLEAN] /\ restored \in BOOLEAN
  /\ faults \in 0..MaxFaults

\* An entry that the agent removed does not come back, from the cache or through
\* the cached parent, before a task writes a new one (DeleteModelFromConfigMap,
\* evictCachedModelLocked, recreateConfigMap).
NoResurrection == \A m \in Models : Present(entry[m]) => author[m] # NoUID

\* A status, metadata or progress write never replaces an entry by one without
\* the shared part that the agent knows of (validateHfArtifactChildMutation):
\* the reference, intent or receipt is there until it is settled.
OwnershipKept == \A m \in Models : owed[m] /\ Present(entry[m]) => Shared(entry[m])

\* Once records of a shared artifact were restored from the cache, neither it
\* nor a model that it serves is Ready before the artifact was validated
\* (restoreHfArtifactParent, updateModelStatusInConfigMap).
RestoredNotReady ==
  restored => /\ parent.status # "Ready"
              /\ \A m \in parent.children : entry[m].ref => entry[m].status # "Ready"

\* Unless the parent has an owner, whose work it must not disturb, the next
\* reconciliation brings back every record that the cache may restore, and never
\* one half of a reference alone: a model that then refers to the artifact and
\* that the cached parent lists is a child of the parent
\* (recreateConfigMap, cacheCommittedConfigMapEntries, restoreHfArtifactParent).
ReconciliationHeals ==
  LET r      == Unlost
      healed == Restore(r.parent, r.entry, Models, TRUE)
  IN  \/ blocksNewOperation(parent)
      \/ \A m \in Trusted(TRUE) :
           /\ Present(healed.entry[m])
           /\ healed.entry[m].ref /\ m \in parentCache.children => m \in healed.parent.children
=============================================================================
