------------------------ MODULE ConfigMapCacheProofs ------------------------
(***************************************************************************)
(* The agent's cache never brings back an entry that the agent removed,    *)
(* for any models, UIDs, locks and number of faults.                       *)
(*                                                                         *)
(* NoResurrection is not inductive: an entry can come back from the cache, *)
(* and the cache is filled by a call that began earlier.  Traced adds that *)
(* a cached model has an entry that some task wrote and nobody removed,    *)
(* that so has a model whose write is about to be cached, unless the UID   *)
(* of the write is invalid, and that a deletion has evicted its model      *)
(* before it removes the entry.                                            *)
(*                                                                         *)
(* Tidy gives the types and OwnershipKept.  The last part is about         *)
(* RestoredNotReady, with the inductive invariant Sober: the cache can     *)
(* restore every model that refers to a parent it would restore.           *)
(***************************************************************************)
EXTENDS ConfigMapCache, TLAPS

\* The records and the cache are functions on the models.
Shape ==
  /\ DOMAIN entry = Models /\ DOMAIN cache = Models /\ DOMAIN author = Models
  /\ DOMAIN invalidated = Models

Written(m) == author[m] # NoUID

\* The write of m that is about to be cached was stored, or it was skipped and
\* will not be cached either.
Cacheable(m, u) == Written(m) \/ (u # NoUID /\ u \in invalidated[m])

Traced ==
  /\ Shape
  /\ \A m \in Models : entry[m] # NoRecord \/ cache[m].held => Written(m)
  /\ call.step = "cache" => call.model \in Models /\ Cacheable(call.model, call.uid)
  /\ call.step = "delete" => call.model \in Models /\ ~ cache[call.model].held

\* What an attempt to change the ConfigMap may start from: every record in r is
\* stored or cached.
Sound(r) ==
  /\ r = [parent |-> r.parent, entry |-> r.entry]
  /\ DOMAIN r.entry = Models
  /\ \A m \in Models : r.entry[m] # NoRecord => entry[m] # NoRecord \/ cache[m].held

\* A restoration adds nothing that the cache does not hold
\* (restoreCachedConfigMapEntries).
LEMMA RestoreIsSound ==
  ASSUME NEW p, NEW e, NEW scope, NEW ordinary, Shape, DOMAIN e = Models,
         \A m \in Models : e[m] # NoRecord => entry[m] # NoRecord \/ cache[m].held
  PROVE  Sound(Restore(p, e, scope, ordinary))
<1> DEFINE trusted == Trusted(ordinary)
           group   == RestoresParent(p, e, scope, trusted)
           e1      == IF group THEN RestoredChildren(p, e, trusted) ELSE e
           e2      == [m \in Models |->
                        IF m \in scope \cap trusted /\ ~ Present(e1[m]) /\ ~ CachedRecord(m).ref
                        THEN CachedRecord(m) ELSE e1[m]]
           p2      == IF group THEN RestoredParent(p, e, trusted) ELSE p
<1>1. Restore(p, e, scope, ordinary) = [parent |-> p2, entry |-> e2]
  BY Zenon DEF Restore
<1>2. \A m \in trusted : m \in Models /\ cache[m].held
  BY Zenon DEF Trusted
<1>3. \A m \in Models : e1[m] # e[m] => m \in trusted
  <2>1. \A m \in Models : RestoredChildren(p, e, trusted)[m] # e[m] => m \in Back(p, e, trusted)
    BY Zenon DEF RestoredChildren
  <2>2. Back(p, e, trusted) \subseteq trusted
    BY Zenon DEF Back
  <2> QED BY <2>1, <2>2, Zenon
<1>4. \A m \in Models : e2[m] # e1[m] => m \in trusted
  BY Zenon
<1>5. \A m \in Models : e2[m] # NoRecord => entry[m] # NoRecord \/ cache[m].held
  <2> HIDE DEF e1, e2, trusted
  <2> QED BY <1>2, <1>3, <1>4, Zenon
<1>6. DOMAIN e2 = Models
  BY Zenon
<1> HIDE DEF e2, p2
<1> QED BY <1>1, <1>5, <1>6 DEF Sound

\* Both ways to read the records before a change are restorations
\* (mutateConfigMapWithModelUIDLocked).
LEMMA UnlostIsSound ==
  ASSUME Shape
  PROVE  Sound(Unlost)
<1>1. CASE exists
  BY <1>1, Zenon DEF Unlost, Sound, Shape
<1>2. CASE ~ exists
  <2>1. Sound(Restore(parent, entry, Models, FALSE))
    BY RestoreIsSound, Zenon DEF Shape
  <2> QED BY <1>2, <2>1, Zenon DEF Unlost
<1> QED BY <1>1, <1>2, Zenon

\* What a write starts from: the stored records with what the cache restores.
LEMMA LatestIsSound ==
  ASSUME Shape, NEW scope
  PROVE  Sound(Latest(scope))
<1> DEFINE lost == {m \in scope : ~ Present(Unlost.entry[m])}
<1>1. Sound(Unlost)
  BY UnlostIsSound, Zenon
<1>2. Sound(Restore(Unlost.parent, Unlost.entry, lost, FALSE))
  <2> DEFINE p == Unlost.parent
             e == Unlost.entry
  <2>1. DOMAIN e = Models
    BY <1>1, Zenon DEF Sound
  <2>2. \A m \in Models : e[m] # NoRecord => entry[m] # NoRecord \/ cache[m].held
    BY <1>1, Zenon DEF Sound
  <2> HIDE DEF lost, p, e
  <2>3. Sound(Restore(p, e, lost, FALSE))
    BY <2>1, <2>2, RestoreIsSound, Zenon
  <2> QED BY <2>3, Zenon DEF p, e
<1>3. Latest(scope) = Unlost \/ Latest(scope) = Restore(Unlost.parent, Unlost.entry, lost, FALSE)
  BY Zenon DEF Latest
<1> QED BY <1>1, <1>2, <1>3, Zenon

\* A commit caches only records that it stored (cacheCommittedConfigMapEntries).
LEMMA CommitCachesStored ==
  ASSUME NEW r, NEW scope, NEW u, NEW changed, CacheModels(r, scope, u, changed)
  PROVE  /\ DOMAIN cache' = Models /\ invalidated' = invalidated
         /\ \A m \in Models : cache'[m].held => cache[m].held \/ r.entry[m] # NoRecord
<1> DEFINE c(m) == IF Present(r.entry[m])
                   THEN cacheCommittedModelEntry(r, scope, u, changed, evicted', m)
                   ELSE IF m \in Removed(r) THEN NotCached ELSE cache[m]
<1>1. cache' = [m \in Models |-> c(m)]
  BY Zenon DEF CacheModels
<1>2. ASSUME NEW m \in Models, ~ Present(r.entry[m]), c(m).held
      PROVE  cache[m].held
  BY <1>2, Zenon DEF NotCached
<1>3. ASSUME NEW m \in Models, Present(r.entry[m])
      PROVE  r.entry[m] # NoRecord
  BY <1>3 DEF Present, NoRecord
<1>4. invalidated' = invalidated
  BY Zenon DEF CacheModels
<1> HIDE DEF c
<1> QED BY <1>1, <1>2, <1>3, <1>4, Zenon

\* The part of Traced that a compare-and-swap to n could break.
LEMMA CommitIsTraced ==
  ASSUME Shape, NEW n, NEW scope, NEW u, Commit(n, scope, u) \/ LoseAnswer(n),
         DOMAIN n.entry = Models, DOMAIN author' = Models,
         \A m \in Models : n.entry[m] # NoRecord \/ cache[m].held => Written(m)'
  PROVE  /\ Shape' /\ invalidated' = invalidated
         /\ \A m \in Models : entry'[m] # NoRecord \/ cache'[m].held => Written(m)'
<1>1. entry' = n.entry
  BY Zenon DEF Commit, LoseAnswer, Store
<1>2. /\ DOMAIN cache' = Models /\ invalidated' = invalidated
      /\ \A m \in Models : cache'[m].held => cache[m].held \/ n.entry[m] # NoRecord
  <2>1. CASE Commit(n, scope, u)
    BY <2>1, CommitCachesStored, Zenon DEF Commit, CacheCommitted
  <2>2. CASE LoseAnswer(n)
    BY <2>2, Zenon DEF LoseAnswer, memory, Shape
  <2> QED BY <2>1, <2>2, Zenon
<1> QED BY <1>1, <1>2, Zenon DEF Shape

\* A change by the repository keeps Traced if it invents no record.
LEMMA ChangeIsTraced ==
  ASSUME Traced, NEW p, NEW e, NEW scope, NEW u, Change(scope, u, p, e),
         DOMAIN e = Models, \A m \in Models : e[m] # NoRecord => Written(m)
  PROVE  Traced'
<1> DEFINE n == [parent |-> p, entry |-> e]
<1>1. Commit(n, scope, u) \/ LoseAnswer(n)
  BY Zenon DEF Change
<1>2. author' = author /\ call' = call /\ call.step # "delete"
  BY Zenon DEF Change, Unlocked
<1>3. n.entry = e
  BY Zenon
<1>4. \A m \in Models : n.entry[m] # NoRecord \/ cache[m].held => Written(m)'
  BY <1>2, <1>3, Zenon DEF Traced, Written
<1> HIDE DEF n
<1>5. /\ Shape' /\ invalidated' = invalidated
      /\ \A m \in Models : entry'[m] # NoRecord \/ cache'[m].held => Written(m)'
  BY <1>1, <1>2, <1>3, <1>4, CommitIsTraced, Zenon DEF Traced, Shape
<1> QED BY <1>2, <1>5, Zenon DEF Traced, Written, Cacheable

\* A sound record has an author.
LEMMA SoundIsWritten ==
  ASSUME Traced, NEW r, Sound(r)
  PROVE  \A m \in Models : r.entry[m] # NoRecord => Written(m)
BY Zenon DEF Traced, Sound

\* A change of the entry of m that keeps the others.
LEMMA ChangeOfOne ==
  ASSUME Traced, NEW r, Sound(r), NEW m \in Models, r.entry[m] # NoRecord,
         NEW p, NEW e, NEW scope, NEW u, Change(scope, u, p, e),
         DOMAIN e = Models, \A k \in Models \ {m} : e[k] = r.entry[k]
  PROVE  Traced'
<1>1. \A k \in Models : e[k] # NoRecord => Written(k)
  BY SoundIsWritten, Zenon
<1> QED BY <1>1, ChangeIsTraced, Zenon

\* A shared record is a record.
LEMMA SharedIsRecord ==
  ASSUME NEW e, e.status # "absent" \/ e.ref \/ e.intent \/ e.receipt.held
  PROVE  e # NoRecord
BY DEF NoRecord, NoReceipt

\* rememberDownload.
LEMMA RememberDownloadTraced ==
  ASSUME Traced, NEW m \in Models, NEW u, RememberDownload(m, u)
  PROVE  Traced'
<1> DEFINE r == Latest({m})
           e == [rememberDownload(r.entry, m) EXCEPT ![m].uid = u]
<1>1. Sound(r)
  BY LatestIsSound, Zenon DEF Traced
<1>2. Change({m}, u, r.parent, e) /\ Present(r.entry[m])
  BY Zenon DEF RememberDownload
<1> HIDE DEF r
<1>3. DOMAIN e = Models /\ \A k \in Models \ {m} : e[k] = r.entry[k]
  BY <1>1, Zenon DEF Sound, rememberDownload
<1>4. r.entry[m] # NoRecord
  BY <1>2, SharedIsRecord, Zenon DEF Present
<1> HIDE DEF e
<1> QED BY <1>1, <1>2, <1>3, <1>4, ChangeOfOne

\* AddModelReference.
LEMMA AddModelReferenceTraced ==
  ASSUME Traced, NEW m \in Models, NEW u, AddModelReference(m, u)
  PROVE  Traced'
<1> DEFINE r == Unlost
           e == [addToModel(r.entry, m) EXCEPT ![m].uid = u]
<1>1. Sound(r)
  BY UnlostIsSound, Zenon DEF Traced
<1>2. Change({}, NoUID, addToParent(r.parent, m), e) /\ CanAddReference(r.parent, r.entry, m)
  BY Zenon DEF AddModelReference
<1> HIDE DEF r
<1>3. DOMAIN e = Models /\ \A k \in Models \ {m} : e[k] = r.entry[k]
  BY <1>1, Zenon DEF Sound, addToModel
<1>4. r.entry[m] # NoRecord
  BY <1>2, SharedIsRecord, Zenon DEF CanAddReference
<1> HIDE DEF e
<1> QED BY <1>1, <1>2, <1>3, <1>4, ChangeOfOne

\* removeModelReference.
LEMMA RemoveModelReferenceTraced ==
  ASSUME Traced, NEW m \in Models, NEW u, NEW l, RemoveModelReference(m, u, l)
  PROVE  Traced'
<1> DEFINE r == Unlost
           e == [removeFromModel(r.parent, r.entry, m, l) EXCEPT
                   ![m].uid = u, ![m].receipt.before = "absent"]
<1>1. Sound(r)
  BY UnlostIsSound, Zenon DEF Traced
<1>2. Change({}, NoUID, removeFromParent(r.parent, m, l), e) /\ r.entry[m].ref
  BY Zenon DEF RemoveModelReference
<1> HIDE DEF r
<1>3. DOMAIN e = Models /\ \A k \in Models \ {m} : e[k] = r.entry[k]
  BY <1>1, Zenon DEF Sound, removeFromModel
<1>4. r.entry[m] # NoRecord
  BY <1>2, SharedIsRecord, Zenon
<1> HIDE DEF e
<1> QED BY <1>1, <1>2, <1>3, <1>4, ChangeOfOne

\* beginPendingDownloadDeletion.
LEMMA BeginPendingDownloadDeletionTraced ==
  ASSUME Traced, NEW m \in Models, NEW u, BeginPendingDownloadDeletion(m, u)
  PROVE  Traced'
<1> DEFINE r == Unlost
           e == beginPendingDownloadDeletion(r.entry, m)
<1>1. Sound(r)
  BY UnlostIsSound, Zenon DEF Traced
<1>2. Change({}, NoUID, r.parent, e) /\ r.entry[m].intent
  BY Zenon DEF BeginPendingDownloadDeletion
<1> HIDE DEF r
<1>3. DOMAIN e = Models /\ \A k \in Models \ {m} : e[k] = r.entry[k]
  BY <1>1, Zenon DEF Sound, beginPendingDownloadDeletion
<1>4. r.entry[m] # NoRecord
  BY <1>2, SharedIsRecord, Zenon
<1> HIDE DEF e
<1> QED BY <1>1, <1>2, <1>3, <1>4, ChangeOfOne

\* claimPendingDeletion.
LEMMA ClaimPendingDeletionTraced ==
  ASSUME Traced, NEW m \in Models, ClaimPendingDeletion(m)
  PROVE  Traced'
<1> DEFINE r == Unlost
           e == [r.entry EXCEPT ![m].uid = uid[m]]
<1>1. Sound(r)
  BY UnlostIsSound, Zenon DEF Traced
<1>2. Change({}, NoUID, r.parent, e) /\ r.entry[m].receipt.held
  BY Zenon DEF ClaimPendingDeletion
<1> HIDE DEF r
<1>3. DOMAIN e = Models /\ \A k \in Models \ {m} : e[k] = r.entry[k]
  BY <1>1, Zenon DEF Sound
<1>4. r.entry[m] # NoRecord
  BY <1>2, SharedIsRecord, Zenon
<1> HIDE DEF e
<1> QED BY <1>1, <1>2, <1>3, <1>4, ChangeOfOne

\* finishPendingDeletion.
LEMMA FinishPendingDeletionTraced ==
  ASSUME Traced, NEW m \in Models, FinishPendingDeletion(m)
  PROVE  Traced'
<1> DEFINE r == Unlost
           e == [finishPendingDeletion(r.entry, m) EXCEPT ![m].uid = NoUID]
<1>1. Sound(r)
  BY UnlostIsSound, Zenon DEF Traced
<1>2. Change({}, NoUID, r.parent, e) /\ r.entry[m].receipt.held
  BY Zenon DEF FinishPendingDeletion
<1> HIDE DEF r
<1>3. DOMAIN e = Models /\ \A k \in Models \ {m} : e[k] = r.entry[k]
  BY <1>1, Zenon DEF Sound, finishPendingDeletion
<1>4. r.entry[m] # NoRecord
  BY <1>2, SharedIsRecord, Zenon
<1> HIDE DEF e
<1> QED BY <1>1, <1>2, <1>3, <1>4, ChangeOfOne

\* deletionParent, when it claims the parent.
LEMMA DeletionParentTraced ==
  ASSUME Traced, NEW m \in Models, NEW l, DeletionParent(m, l)
  PROVE  Traced'
<1> DEFINE r == Unlost
           e == [claimDeletion(r.parent, r.entry, m, l) EXCEPT
                   ![m].receipt.before = "absent"]
<1>1. Sound(r)
  BY UnlostIsSound, Zenon DEF Traced
<1>2. Change({}, NoUID, tryAcquireLock(r.parent, l), e) /\ r.entry[m].receipt.held
  BY Zenon DEF DeletionParent
<1> HIDE DEF r
<1>3. DOMAIN e = Models /\ \A k \in Models \ {m} : e[k] = r.entry[k]
  BY <1>1, Zenon DEF Sound, claimDeletion
<1>4. r.entry[m] # NoRecord
  BY <1>2, SharedIsRecord, Zenon
<1> HIDE DEF e
<1> QED BY <1>1, <1>2, <1>3, <1>4, ChangeOfOne

\* deletionParent, when the parent is gone, caches what is stored.
LEMMA DeletedParentTraced ==
  ASSUME Traced, NEW m \in Models, DeletedParent(m)
  PROVE  Traced'
<1> DEFINE r == [parent |-> parent, entry |-> entry]
<1>1. /\ entry' = entry /\ author' = author /\ call' = call /\ call.step # "delete"
  BY Zenon DEF DeletedParent, stored, ghost, Unlocked
<1>2. CacheModels(r, {}, NoUID, {}) /\ r.entry = entry
  BY Zenon DEF DeletedParent
<1> HIDE DEF r
<1>3. /\ DOMAIN cache' = Models /\ invalidated' = invalidated
      /\ \A k \in Models : cache'[k].held => cache[k].held \/ entry[k] # NoRecord
  BY <1>2, CommitCachesStored, Zenon
<1> QED BY <1>1, <1>3, Zenon DEF Traced, Shape, Written, Cacheable

\* adoptPendingDeletionUID caches the receipt that it finds stored.
LEMMA AdoptPendingDeletionUIDTraced ==
  ASSUME Traced, AdoptPendingDeletionUID
  PROVE  Traced'
<1> DEFINE m == claiming.model
<1>1. /\ entry' = entry /\ author' = author /\ call' = call /\ call.step # "delete"
  BY Zenon DEF AdoptPendingDeletionUID, stored, ghost, Unlocked
<1>2. DOMAIN invalidated' = Models /\ \A k \in Models : invalidated[k] \subseteq invalidated'[k]
  <2>1. \/ invalidated' = invalidated
        \/ \E s : invalidated' = [invalidated EXCEPT ![m] = IF s THEN @ \cup {cache[m].uid} ELSE @]
    BY Zenon DEF AdoptPendingDeletionUID
  <2> QED BY <2>1, Zenon DEF Traced, Shape
<1>3. call.step = "cache" => Cacheable(call.model, call.uid)'
  BY <1>1, <1>2, Zenon DEF Traced, Cacheable, Written
<1>4. CASE cache' = cache
  BY <1>1, <1>2, <1>3, <1>4, Zenon DEF Traced, Shape, Written
<1>5. CASE /\ entry[m].receipt.held
           /\ cache' = [cache EXCEPT ![m] =
                          [ held |-> TRUE, uid |-> claiming.uid, status |-> entry[m].status,
                            json |-> entry[m] ]]
  <2>1. entry[m] # NoRecord
    BY <1>5, SharedIsRecord, Zenon
  <2>2. \A k \in Models : cache'[k].held => cache[k].held \/ k = m
    BY <1>5, Zenon DEF Traced, Shape
  <2> QED BY <1>1, <1>2, <1>3, <1>5, <2>1, <2>2, Zenon DEF Traced, Shape, Written
<1> QED BY <1>4, <1>5, Zenon DEF AdoptPendingDeletionUID

\* The changes of the parent write no entry that was not there: repair and
\* the restoration of statuses touch attached models only.
LEMMA ParentChangeTraced ==
  ASSUME Traced, (\E l \in Locks : TryAcquireLock(l))
                 \/ (\E status \in {"Ready", "Failed", "Updating"} : SetStatus(status))
                 \/ MarkChildrenFailedForRepair \/ DeleteIfUnreferenced
  PROVE  Traced'
<1> DEFINE r == Unlost
<1>1. Sound(r)
  BY UnlostIsSound, Zenon DEF Traced
<1>2. \A m \in Models : r.entry[m] # NoRecord => Written(m)
  BY <1>1, SoundIsWritten, Zenon
<1>3. PICK p, e : /\ Change({}, NoUID, p, e)
                  /\ \/ e = r.entry \/ e = failChildren(r.parent, r.entry)
                     \/ \E status : e = setChildStatuses(r.parent, r.entry, status)
  BY Zenon DEF TryAcquireLock, SetStatus, MarkChildrenFailedForRepair, DeleteIfUnreferenced,
               ChangeParent
<1> HIDE DEF r
<1>4. DOMAIN e = Models /\ \A m \in Models : e[m] # NoRecord => Written(m)
  <2>1. CASE e = r.entry
    BY <1>1, <1>2, <2>1, Zenon DEF Sound
  <2>2. CASE e = failChildren(r.parent, r.entry)
    <3>1. \A m \in Models : e[m] # r.entry[m] => r.entry[m].ref
      BY <2>2, Zenon DEF failChildren
    <3> QED BY <1>2, <2>2, <3>1, SharedIsRecord, Zenon DEF failChildren
  <2>3. ASSUME NEW status, e = setChildStatuses(r.parent, r.entry, status)
        PROVE  DOMAIN e = Models /\ \A m \in Models : e[m] # NoRecord => Written(m)
    <3>1. \A m \in Models : e[m] # r.entry[m] => r.entry[m].ref
      BY <2>3, Zenon DEF setChildStatuses, Restorable
    <3> QED BY <1>2, <2>3, <3>1, SharedIsRecord, Zenon DEF setChildStatuses
  <2> QED BY <1>3, <2>1, <2>2, <2>3, Zenon
<1> QED BY <1>3, <1>4, ChangeIsTraced, Zenon

\* Every change of HfArtifactRepository.
LEMMA RepositoryStepTraced ==
  ASSUME Traced, RepositoryStep
  PROVE  Traced'
BY RememberDownloadTraced, AddModelReferenceTraced, RemoveModelReferenceTraced,
   BeginPendingDownloadDeletionTraced, ClaimPendingDeletionTraced,
   FinishPendingDeletionTraced, DeletionParentTraced, DeletedParentTraced,
   AdoptPendingDeletionUIDTraced, ParentChangeTraced, Zenon
DEF RepositoryStep

\* A status, metadata or progress write makes its UID the author
\* (mutateModelEntryWithRetry).
LEMMA WriteTraced ==
  ASSUME Traced, NEW m \in Models, NEW u, u # NoUID, NEW r, Sound(r), NEW n, NEW then,
         DOMAIN n.entry = Models, \A k \in Models \ {m} : n.entry[k] = r.entry[k],
         then = NoCall \/ \E status : then = Then(m, u, status),
         Write(m, u, r, n, then)
  PROVE  Traced'
<1>1. call.step = "none"
  BY Zenon DEF Write
<1>2. \A k \in Models : r.entry[k] # NoRecord \/ cache[k].held => Written(k)
  BY SoundIsWritten, Zenon DEF Traced
<1>3. CASE Commit(r, {m}, u) /\ call' = then /\ UNCHANGED author /\ isModelMutationBlocked(m, u)
  <2>1. DOMAIN r.entry = Models /\ DOMAIN author' = Models
    BY <1>3, Zenon DEF Sound, Traced, Shape
  <2>2. \A k \in Models : r.entry[k] # NoRecord \/ cache[k].held => Written(k)'
    BY <1>2, <1>3, Zenon DEF Written
  <2>3. /\ Shape' /\ invalidated' = invalidated
        /\ \A k \in Models : entry'[k] # NoRecord \/ cache'[k].held => Written(k)'
    BY <1>3, <2>1, <2>2, CommitIsTraced, Zenon DEF Traced
  <2>4. Cacheable(m, u)'
    <3>1. Cacheable(m, u)
      <4>1. CASE isModelUIDInvalidated(m, u)
        BY <4>1, Zenon DEF Cacheable, isModelUIDInvalidated
      <4>2. CASE OwnedByAnother(m, u)
        BY <1>2, <4>2, Zenon DEF Cacheable, OwnedByAnother
      <4> QED BY <1>3, <4>1, <4>2, Zenon DEF isModelMutationBlocked
    <3> QED BY <1>3, <2>3, <3>1, Zenon DEF Cacheable, Written
  <2>5. call'.step = "none" \/ (call'.step = "cache" /\ call'.model = m /\ call'.uid = u)
    BY <1>3 DEF NoCall, Then
  <2> QED BY <2>3, <2>4, <2>5, Zenon DEF Traced, Written, Cacheable
<1>4. CASE /\ author' = [author EXCEPT ![m] = u]
           /\ \/ Commit(n, {m}, u) /\ call' = then
              \/ LoseAnswer(n) /\ UNCHANGED call
  <2>1. DOMAIN author' = Models /\ Written(m)' /\ \A k \in Models : Written(k) => Written(k)'
    BY <1>4, Zenon DEF Traced, Shape, Written
  <2>2. \A k \in Models : n.entry[k] # NoRecord \/ cache[k].held => Written(k)'
    BY <1>2, <2>1, Zenon
  <2>3. Commit(n, {m}, u) \/ LoseAnswer(n)
    BY <1>4, Zenon
  <2>4. /\ Shape'
        /\ \A k \in Models : entry'[k] # NoRecord \/ cache'[k].held => Written(k)'
    BY <2>1, <2>2, <2>3, CommitIsTraced, Zenon DEF Traced
  <2>5. call'.step = "none" \/ (call'.step = "cache" /\ call'.model = m)
    BY <1>1, <1>4 DEF NoCall, Then
  <2>6. (call.step = "cache" => call.model \in Models /\ Cacheable(call.model, call.uid))'
    BY <2>1, <2>5, Zenon DEF Cacheable, Written
  <2> QED BY <2>4, <2>5, <2>6, Zenon DEF Traced
<1> QED BY <1>3, <1>4, Zenon DEF Write

\* updateModelStatusInConfigMap.
LEMMA ReconcileModelStatusTraced ==
  ASSUME Traced, NEW m \in Models, NEW u, u # NoUID, NEW status,
         ReconcileModelStatus(m, u, status)
  PROVE  Traced'
<1> DEFINE r == Latest({m})
           n == [r EXCEPT !.entry[m].status = status]
<1>1. Sound(r)
  BY LatestIsSound, Zenon DEF Traced
<1>2. Write(m, u, r, n, Then(m, u, status))
  BY Zenon DEF ReconcileModelStatus
<1> HIDE DEF r
<1>3. DOMAIN n.entry = Models /\ \A k \in Models \ {m} : n.entry[k] = r.entry[k]
  BY <1>1, Zenon DEF Sound
<1> HIDE DEF n
<1> QED BY <1>1, <1>2, <1>3, WriteTraced

\* Metadata and progress reports.
LEMMA ReportTraced ==
  ASSUME Traced, NEW m \in Models, NEW u, u # NoUID,
         ReconcileModelMetadata(m, u) \/ ReconcileModelProgress(m, u)
  PROVE  Traced'
<1> DEFINE r == Latest({m})
<1>1. Sound(r)
  BY LatestIsSound, Zenon DEF Traced
<1>2. PICK status, then : /\ then = NoCall \/ \E s : then = Then(m, u, s)
                          /\ Write(m, u, r, Assumed(r, m, status), then)
  BY Zenon DEF ReconcileModelMetadata, ReconcileModelProgress
<1> DEFINE n == Assumed(r, m, status)
<1> HIDE DEF r
<1>3. DOMAIN n.entry = Models /\ \A k \in Models \ {m} : n.entry[k] = r.entry[k]
  BY <1>1, Zenon DEF Sound, Assumed
<1> HIDE DEF n
<1>4. Write(m, u, r, n, then)
  BY <1>2, Zenon DEF n
<1> QED BY <1>1, <1>2, <1>3, <1>4, WriteTraced, Zenon

\* A change that keeps the authors, outside a deletion: reconciliation and
\* the refusal of a status.
LEMMA ObservationTraced ==
  ASSUME Traced, NEW r, Sound(r), NEW scope, NEW u,
         Commit(r, scope, u) \/ LoseAnswer(r), UNCHANGED <<call, author>>,
         call.step # "delete"
  PROVE  Traced'
<1>1. DOMAIN r.entry = Models /\ DOMAIN author' = Models
  BY Zenon DEF Sound, Traced, Shape
<1>2. \A k \in Models : r.entry[k] # NoRecord \/ cache[k].held => Written(k)'
  BY SoundIsWritten, Zenon DEF Written, Traced
<1>3. /\ Shape' /\ invalidated' = invalidated
      /\ \A k \in Models : entry'[k] # NoRecord \/ cache'[k].held => Written(k)'
  BY <1>1, <1>2, CommitIsTraced, Zenon DEF Traced
<1> QED BY <1>3, Zenon DEF Traced, Written, Cacheable

\* cacheOrdinaryModel.
LEMMA CacheOrdinaryTraced ==
  ASSUME Traced, CacheOrdinary
  PROVE  Traced'
<1>1. /\ entry' = entry /\ author' = author /\ call'.step = "none"
  BY Zenon DEF CacheOrdinary, stored, ghost, NoCall
<1>2. /\ DOMAIN cache' = Models /\ invalidated' = invalidated
      /\ \A k \in Models : cache'[k].held =>
           cache[k].held \/ (k = call.model /\ ~ isModelMutationBlocked(k, call.uid))
  <2>1. invalidated' = invalidated
    BY Zenon DEF CacheOrdinary
  <2>2. CASE cache' = cache
    BY <2>1, <2>2, Zenon DEF Traced, Shape
  <2>3. ASSUME NEW x, cache' = [cache EXCEPT ![call.model] = x],
               ~ isModelMutationBlocked(call.model, call.uid)
        PROVE  /\ DOMAIN cache' = Models
               /\ \A k \in Models : cache'[k].held =>
                    cache[k].held \/ (k = call.model /\ ~ isModelMutationBlocked(k, call.uid))
    BY <2>3, Zenon DEF Traced, Shape
  <2> QED BY <2>1, <2>2, <2>3, Zenon DEF CacheOrdinary
<1>3. ~ isModelMutationBlocked(call.model, call.uid) => Written(call.model)
  BY Zenon DEF Traced, CacheOrdinary, Cacheable, isModelMutationBlocked, isModelUIDInvalidated
<1> QED BY <1>1, <1>2, <1>3, Zenon DEF Traced, Shape, Written

\* The model is evicted when the deletion begins, and nothing may cache it
\* before the deletion ends (DeleteModelFromConfigMap).
LEMMA DeleteModelTraced ==
  ASSUME Traced, NEW m \in Models, NEW u, NEW terminal, DeleteModel(m, u, terminal)
  PROVE  Traced'
<1>1. entry' = entry /\ author' = author /\ call'.step = "delete" /\ call'.model = m
  BY Zenon DEF DeleteModel, stored
<1>2. cache' = [cache EXCEPT ![m] = NotCached]
  BY Zenon DEF DeleteModel
<1>3. DOMAIN cache' = Models /\ DOMAIN invalidated' = Models /\ ~ cache'[m].held
      /\ \A k \in Models : cache'[k].held => cache[k].held
  <2>1. PICK x : invalidated' = [invalidated EXCEPT ![m] = x]
    BY Zenon DEF DeleteModel
  <2> QED BY <1>2, <2>1, Zenon DEF Traced, Shape, NotCached
<1> QED BY <1>1, <1>3, Zenon DEF Traced, Shape, Written

\* DeleteModelFromConfigMap, when it removes the entry.
LEMMA DeleteCommitsTraced ==
  ASSUME Traced, DeleteCommits
  PROVE  Traced'
<1> DEFINE m == call.model
           r == Latest({m})
           n == [r EXCEPT !.entry[m] = NoRecord]
<1>1. Sound(r)
  BY LatestIsSound, Zenon DEF Traced
<1>2. /\ Commit(n, {m}, call.uid) \/ LoseAnswer(n)
      /\ author' = [author EXCEPT ![m] = NoUID]
      /\ call'.step = "none"
  BY Zenon DEF DeleteCommits, DeleteEnds, NoCall
<1>3. m \in Models /\ ~ cache[m].held
  BY Zenon DEF Traced, DeleteCommits
<1> HIDE DEF m, r
<1>4. /\ DOMAIN n.entry = Models /\ n.entry[m] = NoRecord
      /\ \A k \in Models \ {m} : n.entry[k] = r.entry[k]
  BY <1>1, <1>3, Zenon DEF Sound
<1>5. DOMAIN author' = Models /\ \A k \in Models \ {m} : Written(k) => Written(k)'
  BY <1>2, <1>3, Zenon DEF Traced, Shape, Written
<1> HIDE DEF n
<1>6. \A k \in Models : n.entry[k] # NoRecord \/ cache[k].held => Written(k)'
  BY <1>1, <1>3, <1>4, <1>5, SoundIsWritten, Zenon DEF Traced
<1>7. /\ Shape'
      /\ \A k \in Models : entry'[k] # NoRecord \/ cache'[k].held => Written(k)'
  BY <1>2, <1>4, <1>5, <1>6, CommitIsTraced, Zenon DEF Traced
<1> QED BY <1>2, <1>7, Zenon DEF Traced

\* Every step of a task.
LEMMA GopherStepTraced ==
  ASSUME Traced, GopherStep
  PROVE  Traced'
<1>1. ASSUME NEW m \in Models, NEW u \in UIDs(m),
             \/ \E status \in Published : ReconcileModelStatus(m, u, status)
             \/ StatusNotReady(m, u)
             \/ ReconcileModelMetadata(m, u) \/ ReconcileModelProgress(m, u)
             \/ \E terminal \in BOOLEAN : DeleteModel(m, u, terminal)
      PROVE  Traced'
  <2>1. u # NoUID
    BY Zenon DEF UIDs
  <2>2. CASE StatusNotReady(m, u)
    <3> DEFINE r == Latest({m})
    <3>1. Sound(r)
      BY LatestIsSound, Zenon DEF Traced
    <3>2. Commit(r, {m}, u) /\ UNCHANGED <<call, author>> /\ call.step # "delete"
      BY <2>2, Zenon DEF StatusNotReady
    <3> HIDE DEF r
    <3> QED BY <3>1, <3>2, ObservationTraced, Zenon
  <2> QED BY <1>1, <2>1, <2>2, ReconcileModelStatusTraced, ReportTraced, DeleteModelTraced, Zenon
<1>2. CASE DeleteRefused \/ DeleteFails
  <2>1. UNCHANGED <<entry, cache, invalidated, author>> /\ call'.step = "none"
    BY <1>2 DEF DeleteRefused, DeleteFails, DeleteEnds, NoCall, stored, memory, ghost
  <2> QED BY <2>1, Zenon DEF Traced, Shape, Written
<1> QED BY <1>1, <1>2, CacheOrdinaryTraced, DeleteCommitsTraced, Zenon DEF GopherStep

\* Every step of the cache and of its readers.
LEMMA CacheStepTraced ==
  ASSUME Traced, CacheStep
  PROVE  Traced'
<1>1. ASSUME NEW r, Sound(r), Observe(r)
      PROVE  Traced'
  BY <1>1, ObservationTraced, Zenon DEF Observe, Unlocked
<1>2. CASE reconcileConfigMaps
  <2> DEFINE r == Unlost
             n == Restore(r.parent, r.entry, Models, TRUE)
  <2>1. Sound(r)
    BY UnlostIsSound, Zenon DEF Traced
  <2>2. Observe(n)
    BY <1>2, Zenon DEF reconcileConfigMaps
  <2>3. Sound(n)
    <3> DEFINE p == r.parent
               e == r.entry
    <3>1. /\ DOMAIN e = Models
          /\ \A m \in Models : e[m] # NoRecord => entry[m] # NoRecord \/ cache[m].held
      BY <2>1, Zenon DEF Sound
    <3> HIDE DEF p, e
    <3>2. Sound(Restore(p, e, Models, TRUE))
      BY <3>1, RestoreIsSound, Zenon DEF Traced
    <3> QED BY <3>2, Zenon DEF p, e
  <2> HIDE DEF n
  <2> QED BY <1>1, <2>2, <2>3, Zenon
<1>3. CASE getConfigMapForHfArtifactCleanup
  BY <1>1, <1>3, UnlostIsSound, Zenon DEF getConfigMapForHfArtifactCleanup, Traced
<1>4. ASSUME NEW changed, Unlocked,
             CacheCommitted([parent |-> parent, entry |-> entry], {}, NoUID, changed),
             UNCHANGED <<stored, call, ghost>>
      PROVE  Traced'
  <2> DEFINE n == [parent |-> parent, entry |-> entry]
  <2>1. n.entry = entry
    BY Zenon
  <2> HIDE DEF n
  <2>2. CacheCommitted(n, {}, NoUID, changed)
    BY <1>4, Zenon DEF n
  <2>3. /\ DOMAIN cache' = Models /\ invalidated' = invalidated
        /\ \A m \in Models : cache'[m].held => cache[m].held \/ entry[m] # NoRecord
    BY <2>1, <2>2, CommitCachesStored, Zenon DEF CacheCommitted
  <2>4. UNCHANGED <<entry, author, call>> /\ call.step # "delete"
    BY <1>4, Zenon DEF stored, ghost, Unlocked
  <2> QED BY <2>3, <2>4, Zenon DEF Traced, Shape, Written, Cacheable
<1>5. CASE getConfigMapForRecovery
  BY <1>4, <1>5, Zenon DEF getConfigMapForRecovery
<1>6. CASE \E m \in Models : updateConfigMapWithRetry(m)
  BY <1>4, <1>6, Zenon DEF updateConfigMapWithRetry
<1> QED BY <1>2, <1>3, <1>5, <1>6, Zenon DEF CacheStep

\* Losses, restarts and changes of resources.
LEMMA EnvironmentTraced ==
  ASSUME Traced, Environment
  PROVE  Traced'
<1>1. ASSUME NEW gone, LoseRecords(gone)
      PROVE  Traced'
  <2>1. entry' = [m \in Models |-> IF m \in gone THEN NoRecord ELSE entry[m]]
    BY <1>1, Zenon DEF LoseRecords
  <2>2. UNCHANGED <<cache, invalidated, call, author>>
    BY <1>1, Zenon DEF LoseRecords, memory
  <2> QED BY <2>1, <2>2, Zenon DEF Traced, Shape, Written, Cacheable
<1>2. CASE Restart
  <2>1. UNCHANGED <<entry, author>> /\ call'.step = "none"
    BY <1>2, Zenon DEF Restart, stored, NoCall
  <2>2. DOMAIN cache' = Models /\ DOMAIN invalidated' = Models /\ \A m \in Models : ~ cache'[m].held
    BY <1>2, Zenon DEF Restart, NotCached
  <2> QED BY <2>1, <2>2, Zenon DEF Traced, Shape, Written
<1>3. ASSUME NEW m \in Models, ResourceDeleting(m) \/ ResourceReplaced(m)
      PROVE  Traced'
  <2>1. UNCHANGED <<entry, cache, invalidated, call, author>>
    BY <1>3, Zenon DEF ResourceDeleting, ResourceReplaced, stored, memory, ghost
  <2> QED BY <2>1, Zenon DEF Traced, Shape, Written, Cacheable
<1> QED BY <1>1, <1>2, <1>3, Zenon DEF Environment, LoseConfigMap, LoseParent, LoseEntry

\* Whatever is lost, restored and restarted, and however calls interleave, an
\* entry that the agent removed (DeleteModelFromConfigMap) is not there again
\* before a task of some resource writes it.
THEOREM NoResurrectionHolds == Spec => []NoResurrection
<1>1. Init => Traced
  BY DEF Init, Traced, Shape, NoCall, NotCached
<1>2. Traced /\ [Next]_vars => Traced'
  <2> SUFFICES ASSUME Traced, [Next]_vars PROVE Traced'
    BY Zenon
  <2>1. CASE UNCHANGED vars
    BY <2>1, Zenon DEF vars, stored, memory, ghost, Traced, Shape, Written, Cacheable
  <2> QED BY <2>1, GopherStepTraced, CacheStepTraced, RepositoryStepTraced, EnvironmentTraced, Zenon
          DEF Next
<1>3. Traced => NoResurrection
  BY DEF Traced, NoResurrection, Present, NoRecord, Written
<1> QED BY <1>1, <1>2, <1>3, PTL DEF Spec
-----------------------------------------------------------------------------
(***************************************************************************)
(* What the agent owes stays recorded: an entry has its reference, intent  *)
(* or receipt until somebody settled it, for any models, UIDs, locks and   *)
(* number of faults.                                                       *)
(*                                                                         *)
(* OwnershipKept is not inductive: an entry may be lost, and it is the     *)
(* cache that brings its shared part back.  Tidy adds that a lost entry    *)
(* that is owed is in the cache, with its shared part, and may be restored *)
(* from there.                                                             *)
(***************************************************************************)
CacheEntry ==
  [ held : BOOLEAN, uid : Nat, json : Record, status : ModelStatus \cup {"blank"} ]

\* Only present records have a shared part.
Whole(e) == Shared(e) => Present(e)

Records ==
  /\ exists \in BOOLEAN /\ parent \in ParentRecord /\ entry \in [Models -> Record]
  /\ \A m \in Models : Whole(entry[m])

Memories ==
  /\ cache \in [Models -> CacheEntry] /\ parentCache \in ParentRecord
  /\ \A m \in Models : Whole(cache[m].json)
  /\ evicted \subseteq Models /\ invalidated \in [Models -> SUBSET Nat]

Calls ==
  /\ call \in Call /\ (call.step # "none" => call.model \in Models)
  /\ claiming \in [ model : Models \cup {None}, uid : Nat ]
  /\ claiming # NoClaim => claiming.model \in Models

Resources ==
  /\ lastUID \in LastUIDs /\ uid \in [Models -> Nat] /\ oldest \in [Models -> Nat]
  /\ deleting \in [Models -> BOOLEAN]
  /\ missed \subseteq Models /\ (~ DeletesMiss => missed = {})
  /\ \A m \in Models : /\ uid[m] <= lastUID[m] /\ oldest[m] <= uid[m]
                       /\ deleting[m] => uid[m] < lastUID[m]

Ghosts ==
  author \in [Models -> Nat] /\ owed \in [Models -> BOOLEAN] /\ restored \in BOOLEAN

Owing ==
  \A m \in Models : owed[m] => IF Present(entry[m]) THEN Shared(entry[m]) ELSE Known(m)

\* The inductive invariant behind TypeOK and OwnershipKept.
Tidy == Records /\ Memories /\ Calls /\ Resources /\ Ghosts /\ faults \in 0..MaxFaults /\ Owing

\* Records that are proper, and that owe nothing which is neither in them nor cached.
Proper(r) ==
  /\ r = [parent |-> r.parent, entry |-> r.entry]
  /\ r.parent \in ParentRecord /\ r.entry \in [Models -> Record]
  /\ \A m \in Models : Whole(r.entry[m])

Kept(r, m) ==
  IF Present(r.entry[m]) THEN Shared(r.entry[m]) ELSE ~ Present(entry[m]) /\ Known(m)

Faithful(r) == Proper(r) /\ \A m \in Models : owed[m] => Kept(r, m)

\* What the cache has of a model is a record.
LEMMA CachedRecordIsRecord ==
  ASSUME Memories, NEW m \in Models
  PROVE  CachedRecord(m) \in Record /\ Present(CachedRecord(m))
<1>1. cache[m] \in CacheEntry
  BY Zenon DEF Memories
<1>2. CASE HasJSON(m)
  BY <1>1, <1>2, Zenon DEF CachedRecord, HasJSON, CacheEntry
<1>3. CASE ~ HasJSON(m)
  <2>1. NoRecord \in Record
    BY Zenon DEF NoRecord, Record, NoReceipt, Receipt, NoUID, MaybeLock, ParentStatus
  <2>2. CachedRecord(m) = [NoRecord EXCEPT !.status = cache[m].status]
    BY <1>3, Zenon DEF CachedRecord
  <2>3. cache[m].status \in ModelStatus \cup {"blank"}
    BY <1>1, Zenon DEF CacheEntry
  <2>4. CachedRecord(m) \in Record
    BY <2>1, <2>2, <2>3, Zenon DEF Record
  <2>5. CachedRecord(m).status = cache[m].status
    BY <2>1, <2>2, Zenon DEF Record
  <2> QED BY <2>3, <2>4, <2>5, Zenon DEF Present, ModelStatus
<1> QED BY <1>2, <1>3, Zenon

\* A present record, with another status.
LEMMA StatusIsRecord ==
  ASSUME NEW e \in Record, NEW status \in ModelStatus \cup {"blank"}
  PROVE  /\ [e EXCEPT !.status = status] \in Record
         /\ Present([e EXCEPT !.status = status])
         /\ Shared([e EXCEPT !.status = status]) <=> Shared(e)
BY Zenon DEF Record, Present, Shared, ModelStatus

\* A restoration of the group is proper.
LEMMA GroupIsProper ==
  ASSUME Memories, NEW p \in ParentRecord, NEW e \in [Models -> Record], NEW trusted \in SUBSET Models
  PROVE  /\ RestoredParent(p, e, trusted) \in ParentRecord
         /\ RestoredChildren(p, e, trusted) \in [Models -> Record]
         /\ \A m \in Models : RestoredChildren(p, e, trusted)[m] # e[m] =>
              Present(RestoredChildren(p, e, trusted)[m]) /\ RestoredChildren(p, e, trusted)[m].ref
<1> DEFINE b    == Base(p)
           back == Back(p, e, trusted)
           kids == IF Found(p) THEN b.children ELSE back
           saved == [m \in Models |->
             IF m \in back /\ (b.saved[m] = "none" \/ Child(e, m).status # "Failed")
             THEN Child(e, m).status
             ELSE IF m \in kids THEN b.saved[m] ELSE "none"]
<1>1. b \in ParentRecord
  BY Zenon DEF Base, Memories
<1>2. back \in SUBSET Models /\ \A m \in back : Child(e, m).ref
  BY Zenon DEF Back
<1>3. \A m \in Models : Child(e, m) \in Record /\ Present(Child(e, m))
  BY CachedRecordIsRecord, Zenon DEF Child
<1>4. kids \in SUBSET Models
  BY <1>1, <1>2, Zenon DEF ParentRecord
<1>5. RestoredParent(p, e, trusted) =
        [ status   |-> IF b.status = "Updating" THEN "Updating" ELSE "Failed",
          lock     |-> IF b.status = "Updating" THEN b.lock ELSE None,
          last     |-> IF b.status = "Updating" THEN b.last ELSE None,
          children |-> kids, saved |-> saved ]
  BY Zenon DEF RestoredParent
<1>6. saved \in [Models -> ModelStatus \cup {"none", "blank"}]
  <2> HIDE DEF b, back, kids
  <2>1. \A m \in Models : Child(e, m).status \in ModelStatus \cup {"blank"}
    BY <1>3, Zenon DEF Record, Present
  <2>2. \A m \in Models : b.saved[m] \in ModelStatus \cup {"none", "blank"}
    BY <1>1, Zenon DEF ParentRecord
  <2> QED BY <2>1, <2>2, Zenon
<1>7. RestoredChildren(p, e, trusted) =
        [m \in Models |-> IF m \in back THEN [Child(e, m) EXCEPT !.status = "Failed"] ELSE e[m]]
  BY Zenon DEF RestoredChildren
<1> HIDE DEF b, back, kids, saved
<1>8. RestoredParent(p, e, trusted) \in ParentRecord
  BY <1>1, <1>4, <1>5, <1>6 DEF ParentRecord, ParentStatus, MaybeLock
<1>9. ASSUME NEW m \in back
      PROVE  /\ [Child(e, m) EXCEPT !.status = "Failed"] \in Record
             /\ Present([Child(e, m) EXCEPT !.status = "Failed"])
             /\ [Child(e, m) EXCEPT !.status = "Failed"].ref
  <2>1. Child(e, m) \in Record /\ Child(e, m).ref
    BY <1>2, <1>3, Zenon
  <2>2. [Child(e, m) EXCEPT !.status = "Failed"].ref
    BY <2>1, Zenon DEF Record
  <2> QED BY <2>1, <2>2, StatusIsRecord, Zenon DEF ModelStatus
<1> QED BY <1>7, <1>8, <1>9, ZenonT(30)

\* A restoration keeps what is owed (restoreCachedConfigMapEntries).
LEMMA RestoreIsFaithful ==
  ASSUME Tidy, NEW p, NEW e, Faithful([parent |-> p, entry |-> e]), NEW scope, NEW ordinary
  PROVE  Faithful(Restore(p, e, scope, ordinary))
<1> DEFINE trusted == Trusted(ordinary)
           group   == RestoresParent(p, e, scope, trusted)
           e1      == IF group THEN RestoredChildren(p, e, trusted) ELSE e
           back(m) == m \in scope \cap trusted /\ ~ Present(e1[m]) /\ ~ CachedRecord(m).ref
           e2      == [m \in Models |-> IF back(m) THEN CachedRecord(m) ELSE e1[m]]
           p2      == IF group THEN RestoredParent(p, e, trusted) ELSE p
<1>1. Restore(p, e, scope, ordinary) = [parent |-> p2, entry |-> e2]
  BY Zenon DEF Restore
<1>2. p \in ParentRecord /\ e \in [Models -> Record] /\ \A m \in Models : Whole(e[m])
  BY Zenon DEF Faithful, Proper
<1>3. \A m \in Models : owed[m] =>
        IF Present(e[m]) THEN Shared(e[m]) ELSE ~ Present(entry[m]) /\ Known(m)
  BY Zenon DEF Faithful, Kept
<1>4. trusted \in SUBSET Models /\ Memories
  BY Zenon DEF Trusted, Tidy
<1>5. p2 \in ParentRecord
  BY <1>2, <1>4, GroupIsProper, Zenon
<1>6. /\ e1 \in [Models -> Record]
      /\ \A m \in Models : e1[m] # e[m] => Present(e1[m]) /\ e1[m].ref
  BY <1>2, <1>4, GroupIsProper, Zenon
<1> HIDE DEF trusted, group, e1, p2
<1>7. ASSUME NEW m \in Models
      PROVE  /\ e2[m] \in Record /\ Whole(e2[m])
             /\ owed[m] => IF Present(e2[m]) THEN Shared(e2[m])
                           ELSE ~ Present(entry[m]) /\ Known(m)
  <2>1. CASE ~ back(m)
    <3>1. e2[m] = e1[m]
      BY <2>1, Zenon
    <3>2. CASE e1[m] = e[m]
      BY <1>2, <1>3, <3>1, <3>2, Zenon
    <3>3. CASE e1[m] # e[m]
      BY <1>6, <3>1, <3>3, Zenon DEF Whole, Shared
    <3> QED BY <3>2, <3>3, Zenon
  <2>2. CASE back(m)
    <3>1. e2[m] = CachedRecord(m) /\ e2[m] \in Record /\ Present(e2[m])
      BY <1>4, <2>2, CachedRecordIsRecord, Zenon
    <3>2. owed[m] => Known(m)
      BY <1>3, <1>6, <2>2, Zenon
    <3>3. Known(m) => Shared(e2[m])
      BY <3>1, Zenon DEF Known, Trusted, CachedRecord
    <3> QED BY <3>1, <3>2, <3>3, Zenon DEF Whole
  <2> QED BY <2>1, <2>2, ZenonT(30)
<1>8. e2 \in [Models -> Record]
  BY <1>7, Zenon
<1> HIDE DEF e2
<1> QED BY <1>1, <1>5, <1>7, <1>8 DEF Faithful, Proper, Kept

LEMMA UnlostIsFaithful ==
  ASSUME Tidy
  PROVE  Faithful(Unlost)
<1>1. Faithful([parent |-> parent, entry |-> entry])
  BY Zenon DEF Tidy, Records, Owing, Faithful, Proper, Kept
<1>2. Faithful(Restore(parent, entry, Models, FALSE))
  BY <1>1, RestoreIsFaithful, Zenon
<1> QED BY <1>1, <1>2, Zenon DEF Unlost

LEMMA RestoreAgainIsFaithful ==
  ASSUME Tidy, NEW scope, NEW ordinary
  PROVE  Faithful(Restore(Unlost.parent, Unlost.entry, scope, ordinary))
<1> DEFINE p == Unlost.parent
           e == Unlost.entry
<1>1. Faithful(Unlost)
  BY UnlostIsFaithful, Zenon
<1>2. Unlost = [parent |-> p, entry |-> e]
  BY <1>1, Zenon DEF Faithful, Proper
<1>3. Faithful([parent |-> p, entry |-> e])
  BY <1>1, <1>2, Zenon
<1> HIDE DEF p, e
<1>4. Faithful(Restore(p, e, scope, ordinary))
  BY <1>3, RestoreIsFaithful, Zenon
<1> QED BY <1>4, Zenon DEF p, e

LEMMA LatestIsFaithful ==
  ASSUME Tidy, NEW scope
  PROVE  Faithful(Latest(scope))
<1> DEFINE lost == {m \in scope : ~ Present(Unlost.entry[m])}
<1>1. Faithful(Restore(Unlost.parent, Unlost.entry, lost, FALSE)) /\ Faithful(Unlost)
  BY RestoreAgainIsFaithful, UnlostIsFaithful, Zenon
<1>2. Latest(scope) = Unlost \/ Latest(scope) = Restore(Unlost.parent, Unlost.entry, lost, FALSE)
  BY Zenon DEF Latest
<1> QED BY <1>1, <1>2, Zenon

\* What a commit leaves in the cache (cacheCommittedConfigMapEntries).
LEMMA CommitIsCached ==
  ASSUME Memories, Records, NEW r, Proper(r), NEW scope \in SUBSET Models, NEW u \in Nat, NEW changed,
         CacheModels(r, scope, u, changed)
  PROVE  /\ cache' \in [Models -> CacheEntry] /\ \A m \in Models : Whole(cache'[m].json)
         /\ evicted' \subseteq Models /\ invalidated' = invalidated
         /\ \A m \in Models : ~ Present(r.entry[m]) /\ ~ Present(entry[m]) => cache'[m] = cache[m]
<1> DEFINE kept(m) == cacheCommittedModelEntry(r, scope, u, changed, evicted', m)
           c(m) == IF Present(r.entry[m]) THEN kept(m)
                   ELSE IF m \in Removed(r) THEN NotCached ELSE cache[m]
<1>1. cache' = [m \in Models |-> c(m)]
  BY Zenon DEF CacheModels
<1>2. evicted' \subseteq Models /\ invalidated' = invalidated
  BY Zenon DEF CacheModels, EvictedAfter, Removed, Memories
<1>3. NotCached \in CacheEntry /\ Whole(NotCached.json) /\ NoRecord \in Record
  BY Zenon DEF NotCached, CacheEntry, NoRecord, Record, NoReceipt, Receipt, NoUID, MaybeLock,
     ParentStatus, ModelStatus, Whole, Shared
<1>4. \A m \in Models : cache[m] \in CacheEntry /\ Whole(cache[m].json)
  BY Zenon DEF Memories
<1>5. ASSUME NEW m \in Models, Present(r.entry[m])
      PROVE  kept(m) \in CacheEntry /\ Whole(kept(m).json)
  <2>1. r.entry[m] \in Record /\ Whole(r.entry[m])
    BY Zenon DEF Proper
  <2>2. r.entry[m].status \in ModelStatus \cup {"blank"}
    BY <1>5, <2>1, Zenon DEF Record, Present
  <2>3. PICK owner \in Nat :
          \/ kept(m) = cache[m]
          \/ kept(m) = [NotCached EXCEPT !.held = TRUE, !.status = r.entry[m].status]
          \/ kept(m) = [ held |-> TRUE, uid |-> owner, status |-> r.entry[m].status,
                         json |-> r.entry[m] ]
    <3>1. cache[m].uid \in Nat
      BY <1>4, Zenon DEF CacheEntry
    <3> QED BY <3>1, Zenon DEF cacheCommittedModelEntry
  <2> HIDE DEF kept
  <2>4. CASE kept(m) = cache[m]
    BY <1>4, <2>4, Zenon
  <2>5. CASE kept(m) = [NotCached EXCEPT !.held = TRUE, !.status = r.entry[m].status]
    BY <1>3, <2>2, <2>5, Zenon DEF CacheEntry
  <2>6. CASE kept(m) = [ held |-> TRUE, uid |-> owner, status |-> r.entry[m].status,
                         json |-> r.entry[m] ]
    <3>1. kept(m) \in CacheEntry
      BY <2>1, <2>2, <2>6 DEF CacheEntry
    <3>2. kept(m).json = r.entry[m]
      BY <2>6
    <3> QED BY <2>1, <3>1, <3>2, Zenon
  <2> QED BY <2>3, <2>4, <2>5, <2>6, Zenon
<1> HIDE DEF kept
<1>6. \A m \in Models : c(m) \in CacheEntry /\ Whole(c(m).json)
  BY <1>3, <1>4, <1>5, Zenon
<1>7. \A m \in Models : ~ Present(r.entry[m]) /\ ~ Present(entry[m]) => c(m) = cache[m]
  BY Zenon DEF Removed
<1> HIDE DEF c
<1> QED BY <1>1, <1>2, <1>6, <1>7, Zenon

\* It has the children's statuses of a parent that is stored, or of the one it had.
LEMMA WithoutChildrenIsParent ==
  ASSUME NEW p \in ParentRecord, NEW gone
  PROVE  WithoutChildren(p, gone) \in ParentRecord
<1>1. p.saved \in [Models -> ModelStatus \cup {"none", "blank"}] /\ p.children \subseteq Models
  BY Zenon DEF ParentRecord
<1>2. [m \in Models |-> IF m \in gone THEN "none" ELSE p.saved[m]]
        \in [Models -> ModelStatus \cup {"none", "blank"}]
  BY <1>1, Zenon
<1> QED BY <1>1, <1>2, Zenon DEF WithoutChildren, ParentRecord

LEMMA NoParentIsParent == NoParent \in ParentRecord
BY Zenon DEF NoParent, NothingSaved, ParentRecord, ParentStatus, MaybeLock

LEMMA CacheCommittedIsTidy ==
  ASSUME Memories, Records, NEW r, Proper(r), NEW scope \in SUBSET Models, NEW u \in Nat, NEW changed,
         CacheCommitted(r, scope, u, changed)
  PROVE  Memories'
<1>1. CacheModels(r, scope, u, changed)
  BY Zenon DEF CacheCommitted
<1>2. parentCache' \in ParentRecord
  <2>1. r.parent \in ParentRecord /\ parentCache \in ParentRecord
    BY Zenon DEF Proper, Memories
  <2> QED BY <2>1, WithoutChildrenIsParent, NoParentIsParent, Zenon DEF CacheCommitted
<1> QED BY <1>1, <1>2, CommitIsCached, Zenon DEF Memories

\* A cached model may still be restored when neither it nor what is invalid changes.
LEMMA StaysKnown ==
  ASSUME NEW m \in Models, Known(m), cache'[m] = cache[m], invalidated'[m] = invalidated[m]
  PROVE  Known(m)'
BY Zenon DEF Known, Trusted, isModelMutationBlocked, isModelUIDInvalidated, OwnedByAnother, HasJSON

\* A compare-and-swap to n: what is owed afterwards was kept in n.
LEMMA CommitIsTidy ==
  ASSUME Tidy, NEW n, Proper(n), NEW scope \in SUBSET Models, NEW u \in Nat,
         Commit(n, scope, u) \/ LoseAnswer(n),
         \A m \in Models : owed'[m] => Kept(n, m)
  PROVE  Records' /\ Memories' /\ Owing' /\ faults' \in 0..MaxFaults
<1>1. parent' = n.parent /\ entry' = n.entry /\ exists' \in BOOLEAN
  <2>1. Store(n)
    BY Zenon DEF Commit, LoseAnswer
  <2> QED BY <2>1, Zenon DEF Store
<1>2. Records'
  BY <1>1, Zenon DEF Proper, Records
<1>3. faults' \in 0..MaxFaults
  BY CacheAssumption DEF Commit, LoseAnswer, Fault, Tidy
<1>4. Memories' /\ invalidated' = invalidated
      /\ \A m \in Models : ~ Present(n.entry[m]) /\ ~ Present(entry[m]) => cache'[m] = cache[m]
  <2>1. CASE Commit(n, scope, u)
    <3>1. PICK changed : CacheCommitted(n, scope, u, changed)
      BY <2>1, Zenon DEF Commit
    <3>2. CacheModels(n, scope, u, changed)
      BY <3>1, Zenon DEF CacheCommitted
    <3> QED BY <3>1, <3>2, CommitIsCached, CacheCommittedIsTidy, Zenon DEF Tidy
  <2>2. CASE LoseAnswer(n)
    BY <2>2, Zenon DEF LoseAnswer, memory, Memories, Tidy
  <2> QED BY <2>1, <2>2, Zenon
<1>5. Owing'
  <2> SUFFICES ASSUME NEW m \in Models, owed'[m], ~ Present(n.entry[m])
               PROVE  Known(m)'
    BY <1>1, Zenon DEF Owing, Kept
  <2>1. ~ Present(entry[m]) /\ Known(m)
    BY Zenon DEF Kept
  <2> QED BY <1>4, <2>1, StaysKnown, Zenon
<1> QED BY <1>2, <1>3, <1>4, <1>5, Zenon

LEMMA RestoredIsBoolean ==
  ASSUME NEW r, NoteRestored(r)
  PROVE  restored' \in BOOLEAN
BY Zenon DEF NoteRestored

\* A change by the repository of the entry of m: it is present and shared, or settled.
LEMMA ChangeIsTidy ==
  ASSUME Tidy, NEW r, Faithful(r), NEW m \in Models, NEW p \in ParentRecord,
         NEW x \in Record, Present(x), Shared(x) \/ ~ owed'[m],
         NEW e, e = [r.entry EXCEPT ![m] = x],
         NEW scope \in SUBSET Models, NEW u \in Nat, Change(scope, u, p, e),
         UNCHANGED owed \/ \E b \in BOOLEAN : owed' = [owed EXCEPT ![m] = b],
         NoteRestored(r),
         claiming' \in [ model : Models \cup {None}, uid : Nat ],
         claiming' # NoClaim => claiming'.model \in Models
  PROVE  Tidy'
<1> DEFINE n == [parent |-> p, entry |-> e]
<1>1. Commit(n, scope, u) \/ LoseAnswer(n)
  BY Zenon DEF Change
<1>2. UNCHANGED <<call, resource, author>>
  BY Zenon DEF Change
<1>3. r.entry \in [Models -> Record] /\ \A k \in Models : Whole(r.entry[k])
  BY Zenon DEF Faithful, Proper
<1>4. e \in [Models -> Record] /\ e[m] = x /\ \A k \in Models \ {m} : e[k] = r.entry[k]
  BY <1>3, Zenon
<1>5. \A k \in Models : Whole(e[k])
  BY <1>3, <1>4, Zenon DEF Whole
<1>6. Proper(n)
  BY <1>4, <1>5, Zenon DEF Proper
<1>7. owed' \in [Models -> BOOLEAN] /\ \A k \in Models \ {m} : owed'[k] = owed[k]
  BY Zenon DEF Tidy, Ghosts
<1>8. \A k \in Models : owed'[k] => Kept(n, k)
  BY <1>4, <1>7, ZenonT(30) DEF Faithful, Kept
<1> HIDE DEF n
<1>9. Records' /\ Memories' /\ Owing' /\ faults' \in 0..MaxFaults
  BY <1>1, <1>6, <1>8, CommitIsTidy, ZenonT(30)
<1>10. Calls' /\ Resources'
  BY <1>2, ZenonT(30) DEF Tidy, Calls, Resources, resource
<1>11. Ghosts'
  BY <1>2, <1>7, RestoredIsBoolean, Zenon DEF Tidy, Ghosts
<1> QED BY <1>9, <1>10, <1>11, Zenon DEF Tidy

\* Two updates of the record of m are one.
LEMMA ExceptTwice ==
  ASSUME NEW f \in [Models -> Record], NEW m \in Models, NEW x
  PROVE  /\ [f EXCEPT ![m] = x][m] = x
         /\ \A y : [[f EXCEPT ![m] = x] EXCEPT ![m] = y] = [f EXCEPT ![m] = y]
BY Zenon

LEMMA UIDIsRecord ==
  ASSUME NEW x \in Record, NEW u \in Nat
  PROVE  /\ [x EXCEPT !.uid = u] \in Record
         /\ Present([x EXCEPT !.uid = u]) <=> Present(x)
         /\ Shared([x EXCEPT !.uid = u]) <=> Shared(x)
BY Zenon DEF Record, Present, Shared

\* A receipt, and a record with it.
LEMMA ReceiptIsRecord ==
  ASSUME NEW x \in Record, NEW ref \in BOOLEAN, NEW intent \in BOOLEAN, NEW receipt \in Receipt, NEW y,
         y = [x EXCEPT !.ref = ref, !.intent = intent, !.receipt = receipt]
  PROVE  /\ y \in Record /\ (Present(y) <=> Present(x))
         /\ Shared(y) <=> ref \/ intent \/ receipt.held
BY Zenon DEF Record, Present, Shared

\* rememberDownload.
LEMMA RememberDownloadTidy ==
  ASSUME Tidy, NEW m \in Models, NEW u \in Nat, RememberDownload(m, u)
  PROVE  Tidy'
<1> DEFINE r == Latest({m})
           e == [rememberDownload(r.entry, m) EXCEPT ![m].uid = u]
<1>1. Faithful(r)
  BY LatestIsFaithful, Zenon
<1>2. /\ Change({m}, u, r.parent, e) /\ Present(r.entry[m]) /\ ~ r.entry[m].ref
      /\ owed' = [owed EXCEPT ![m] = TRUE] /\ NoteRestored(r) /\ UNCHANGED claiming
  BY Zenon DEF RememberDownload
<1> HIDE DEF r
<1>3. r.parent \in ParentRecord /\ r.entry \in [Models -> Record]
  BY <1>1, Zenon DEF Faithful, Proper
<1>4. PICK x : x = [r.entry[m] EXCEPT !.intent = ~ r.entry[m].ref]
  BY Zenon
<1>5. PICK y : y = [x EXCEPT !.uid = u]
  BY Zenon
<1>6. x \in Record /\ Present(x) /\ Shared(x)
  <2>1. x \in Record /\ x.intent /\ x.status = r.entry[m].status
    BY <1>2, <1>3, <1>4, Zenon DEF Record
  <2> QED BY <1>2, <2>1, Zenon DEF Present, Shared
<1>7. y \in Record /\ Present(y) /\ Shared(y)
  BY <1>5, <1>6, UIDIsRecord, Zenon
<1>8. e = [r.entry EXCEPT ![m] = y]
  BY <1>3, <1>4, <1>5, ExceptTwice, ZenonT(30) DEF rememberDownload
<1> HIDE DEF e
<1>9. /\ claiming' \in [ model : Models \cup {None}, uid : Nat ]
      /\ claiming' # NoClaim => claiming'.model \in Models
  BY <1>2, Zenon DEF Tidy, Calls
<1> QED BY <1>1, <1>2, <1>3, <1>7, <1>8, <1>9, ChangeIsTidy, Zenon

\* AddModelReference.
LEMMA AddModelReferenceTidy ==
  ASSUME Tidy, NEW m \in Models, NEW u \in Nat, AddModelReference(m, u)
  PROVE  Tidy'
<1> DEFINE r == Unlost
           p == addToParent(r.parent, m)
           e == [addToModel(r.entry, m) EXCEPT ![m].uid = u]
<1>1. Faithful(r)
  BY UnlostIsFaithful, Zenon
<1>2. /\ Change({}, NoUID, p, e) /\ CanAddReference(r.parent, r.entry, m)
      /\ owed' = [owed EXCEPT ![m] = TRUE] /\ NoteRestored(r) /\ UNCHANGED claiming
  BY Zenon DEF AddModelReference
<1> HIDE DEF r
<1>3. r.parent \in ParentRecord /\ r.entry \in [Models -> Record]
  BY <1>1, Zenon DEF Faithful, Proper
<1>4. PICK x : x = [r.entry[m] EXCEPT !.ref = TRUE, !.intent = FALSE]
  BY Zenon
<1>5. PICK y : y = [x EXCEPT !.uid = u]
  BY Zenon
<1>6. x \in Record /\ Present(x) /\ Shared(x)
  <2>1. x \in Record /\ x.ref /\ x.status = r.entry[m].status
    BY <1>3, <1>4, Zenon DEF Record
  <2> QED BY <1>2, <2>1, Zenon DEF Present, Shared, CanAddReference
<1>7. y \in Record /\ Present(y) /\ Shared(y)
  BY <1>5, <1>6, UIDIsRecord, Zenon
<1>8. e = [r.entry EXCEPT ![m] = y]
  <2>1. addToModel(r.entry, m) = [r.entry EXCEPT ![m] = x]
    BY <1>3, <1>4, ExceptTwice, Zenon DEF addToModel
  <2> QED BY <1>3, <1>5, <2>1, ExceptTwice, Zenon
<1>9. p \in ParentRecord /\ NoUID \in Nat /\ {} \in SUBSET Models
  BY <1>3, Zenon DEF addToParent, ParentRecord, NoUID
<1> HIDE DEF e, p
<1>10. /\ claiming' \in [ model : Models \cup {None}, uid : Nat ]
       /\ claiming' # NoClaim => claiming'.model \in Models
  BY <1>2, Zenon DEF Tidy, Calls
<1> QED BY <1>1, <1>2, <1>7, <1>8, <1>9, <1>10, ChangeIsTidy, Zenon

\* The last reference takes the lock with it.
LEMMA LockedIsParent ==
  ASSUME NEW p \in ParentRecord, NEW l \in Locks
  PROVE  tryAcquireLock(p, l) \in ParentRecord
BY Zenon DEF tryAcquireLock, ParentRecord, ParentStatus, MaybeLock

LEMMA RemovedIsParent ==
  ASSUME NEW p \in ParentRecord, NEW m \in Models, NEW l \in Locks
  PROVE  removeFromParent(p, m, l) \in ParentRecord
<1>1. [p EXCEPT !.children = @ \ {m}, !.saved[m] = "none"] \in ParentRecord
  BY Zenon DEF ParentRecord
<1> QED BY <1>1, LockedIsParent, Zenon DEF removeFromParent

\* removeModelReference.
LEMMA RemoveModelReferenceTidy ==
  ASSUME Tidy, NEW m \in Models, NEW u \in Nat, NEW l \in Locks, RemoveModelReference(m, u, l)
  PROVE  Tidy'
<1> DEFINE r == Unlost
           p == removeFromParent(r.parent, m, l)
           e == [removeFromModel(r.parent, r.entry, m, l) EXCEPT
                   ![m].uid = u, ![m].receipt.before = "absent"]
<1>1. Faithful(r)
  BY UnlostIsFaithful, Zenon
<1>2. /\ Change({}, NoUID, p, e) /\ r.entry[m].ref
      /\ NoteRestored(r) /\ UNCHANGED <<owed, claiming>>
  BY Zenon DEF RemoveModelReference
<1> HIDE DEF r
<1>3. r.parent \in ParentRecord /\ r.entry \in [Models -> Record] /\ Whole(r.entry[m])
  BY <1>1, Zenon DEF Faithful, Proper
<1>4. PICK lock \in MaybeLock :
        removeFromModel(r.parent, r.entry, m, l) =
          [r.entry EXCEPT ![m].ref = FALSE,
             ![m].receipt = [held |-> TRUE, before |-> r.parent.status, lock |-> lock]]
  <2>1. l \in MaybeLock /\ r.parent.lock \in MaybeLock
    BY <1>3, Zenon DEF MaybeLock, ParentRecord
  <2> QED BY <2>1, Zenon DEF removeFromModel
<1>5. PICK x : x = [r.entry[m] EXCEPT !.ref = FALSE,
                      !.receipt = [held |-> TRUE, before |-> r.parent.status, lock |-> lock]]
  BY Zenon
<1>6. PICK y, z : z = [x EXCEPT !.uid = u] /\ y = [z EXCEPT !.receipt.before = "absent"]
  BY Zenon
<1>7. x \in Record /\ x.status = r.entry[m].status /\ x.receipt.held
  <2>1. [held |-> TRUE, before |-> r.parent.status, lock |-> lock] \in Receipt
    BY <1>3, <1>4, Zenon DEF Receipt, ParentRecord
  <2> QED BY <1>3, <1>5, <2>1, Zenon DEF Record
<1>8. y \in Record /\ y.status = r.entry[m].status /\ y.receipt.held
  BY <1>6, <1>7, Zenon DEF Record, Receipt, ParentStatus
<1>9. Present(y) /\ Shared(y)
  BY <1>2, <1>3, <1>8, Zenon DEF Present, Shared, Whole
<1>10. e = [r.entry EXCEPT ![m] = y]
  <2>1. removeFromModel(r.parent, r.entry, m, l) = [r.entry EXCEPT ![m] = x]
    BY <1>3, <1>4, <1>5, ExceptTwice, Zenon
  <2>2. PICK f : f = [r.entry EXCEPT ![m] = x]
    BY Zenon
  <2>3. f[m] = x /\ \A v : [f EXCEPT ![m] = v] = [r.entry EXCEPT ![m] = v]
    BY <1>3, <2>2, ExceptTwice, Zenon
  <2>4. PICK g : g = [r.entry EXCEPT ![m] = z]
    BY Zenon
  <2>5. g[m] = z /\ \A v : [g EXCEPT ![m] = v] = [r.entry EXCEPT ![m] = v]
    BY <1>3, <2>4, ExceptTwice, Zenon
  <2>6. [f EXCEPT ![m].uid = u] = g
    BY <1>6, <2>3, <2>4, Zenon
  <2>7. [g EXCEPT ![m].receipt.before = "absent"] = [r.entry EXCEPT ![m] = y]
    BY <1>6, <2>5, Zenon
  <2>8. e = [[f EXCEPT ![m].uid = u] EXCEPT ![m].receipt.before = "absent"]
    BY <2>1, <2>2, Zenon
  <2> QED BY <2>6, <2>7, <2>8, Zenon
<1>11. p \in ParentRecord /\ NoUID \in Nat /\ {} \in SUBSET Models
  BY <1>3, RemovedIsParent, Zenon DEF NoUID
<1> HIDE DEF e, p
<1>12. /\ claiming' \in [ model : Models \cup {None}, uid : Nat ]
       /\ claiming' # NoClaim => claiming'.model \in Models
  BY <1>2, Zenon DEF Tidy, Calls
<1> QED BY <1>1, <1>2, <1>8, <1>9, <1>10, <1>11, <1>12, ChangeIsTidy, Zenon

\* beginPendingDownloadDeletion.
LEMMA BeginPendingDownloadDeletionTidy ==
  ASSUME Tidy, NEW m \in Models, NEW u, BeginPendingDownloadDeletion(m, u)
  PROVE  Tidy'
<1> DEFINE r == Unlost
           e == beginPendingDownloadDeletion(r.entry, m)
<1>1. Faithful(r)
  BY UnlostIsFaithful, Zenon
<1>2. /\ Change({}, NoUID, r.parent, e) /\ r.entry[m].intent
      /\ NoteRestored(r) /\ UNCHANGED <<owed, claiming>>
  BY Zenon DEF BeginPendingDownloadDeletion
<1> HIDE DEF r
<1>3. r.parent \in ParentRecord /\ r.entry \in [Models -> Record] /\ Whole(r.entry[m])
  BY <1>1, Zenon DEF Faithful, Proper
<1>4. PICK x : x = [r.entry[m] EXCEPT !.intent = FALSE, !.receipt = [NoReceipt EXCEPT !.held = TRUE]]
  BY Zenon
<1>5. x \in Record /\ x.status = r.entry[m].status /\ x.receipt.held
  <2>1. [NoReceipt EXCEPT !.held = TRUE] \in Receipt /\ [NoReceipt EXCEPT !.held = TRUE].held
    BY Zenon DEF NoReceipt, Receipt, MaybeLock, ParentStatus
  <2> QED BY <1>3, <1>4, <2>1, ZenonT(30) DEF Record
<1>6. Present(x) /\ Shared(x)
  BY <1>2, <1>3, <1>5, Zenon DEF Present, Shared, Whole
<1>7. e = [r.entry EXCEPT ![m] = x] /\ NoUID \in Nat /\ {} \in SUBSET Models
  BY <1>3, <1>4, ExceptTwice, Zenon DEF beginPendingDownloadDeletion, NoUID
<1> HIDE DEF e
<1>8. /\ claiming' \in [ model : Models \cup {None}, uid : Nat ]
      /\ claiming' # NoClaim => claiming'.model \in Models
  BY <1>2, Zenon DEF Tidy, Calls
<1> QED BY <1>1, <1>2, <1>3, <1>5, <1>6, <1>7, <1>8, ChangeIsTidy, Zenon

\* claimPendingDeletion.
LEMMA ClaimPendingDeletionTidy ==
  ASSUME Tidy, NEW m \in Models, ClaimPendingDeletion(m)
  PROVE  Tidy'
<1> DEFINE r == Unlost
           e == [r.entry EXCEPT ![m].uid = uid[m]]
<1>1. Faithful(r)
  BY UnlostIsFaithful, Zenon
<1>2. /\ Change({}, NoUID, r.parent, e) /\ r.entry[m].receipt.held
      /\ NoteRestored(r) /\ UNCHANGED owed
      /\ claiming' = NoClaim \/ claiming' = [ model |-> m, uid |-> uid[m] ]
  BY Zenon DEF ClaimPendingDeletion
<1> HIDE DEF r
<1>3. /\ r.parent \in ParentRecord /\ r.entry \in [Models -> Record] /\ Whole(r.entry[m])
      /\ uid[m] \in Nat
  BY <1>1, Zenon DEF Faithful, Proper, Tidy, Resources
<1>4. PICK x : x = [r.entry[m] EXCEPT !.uid = uid[m]]
  BY Zenon
<1>5. x \in Record /\ Present(x) /\ Shared(x)
  BY <1>2, <1>3, <1>4, UIDIsRecord, Zenon DEF Whole, Shared
<1>6. e = [r.entry EXCEPT ![m] = x] /\ NoUID \in Nat /\ {} \in SUBSET Models
  BY <1>4, Zenon DEF NoUID
<1> HIDE DEF e
<1>7. /\ claiming' \in [ model : Models \cup {None}, uid : Nat ]
      /\ claiming' # NoClaim => claiming'.model \in Models
  <2>1. CASE claiming' = NoClaim
    BY <2>1, Zenon DEF NoClaim, NoUID
  <2>2. CASE claiming' = [ model |-> m, uid |-> uid[m] ]
    BY <1>3, <2>2, Zenon
  <2> QED BY <1>2, <2>1, <2>2, Zenon
<1> QED BY <1>1, <1>2, <1>3, <1>5, <1>6, <1>7, ChangeIsTidy, Zenon

\* finishPendingDeletion.
LEMMA FinishPendingDeletionTidy ==
  ASSUME Tidy, NEW m \in Models, FinishPendingDeletion(m)
  PROVE  Tidy'
<1> DEFINE r == Unlost
           e == [finishPendingDeletion(r.entry, m) EXCEPT ![m].uid = NoUID]
<1>1. Faithful(r)
  BY UnlostIsFaithful, Zenon
<1>2. /\ Change({}, NoUID, r.parent, e) /\ r.entry[m].receipt.held
      /\ owed' = [owed EXCEPT ![m] = FALSE] /\ NoteRestored(r) /\ UNCHANGED claiming
  BY Zenon DEF FinishPendingDeletion
<1> HIDE DEF r
<1>3. r.parent \in ParentRecord /\ r.entry \in [Models -> Record] /\ Whole(r.entry[m])
  BY <1>1, Zenon DEF Faithful, Proper
<1>4. PICK x : x = [r.entry[m] EXCEPT !.receipt = NoReceipt]
  BY Zenon
<1>5. PICK y : y = [x EXCEPT !.uid = NoUID]
  BY Zenon
<1>6. y \in Record /\ Present(y) /\ NoUID \in Nat /\ {} \in SUBSET Models
  <2>1. NoReceipt \in Receipt /\ NoUID \in Nat
    BY Zenon DEF NoReceipt, Receipt, MaybeLock, ParentStatus, NoUID
  <2>2. x \in Record /\ x.status = r.entry[m].status
    BY <1>3, <1>4, <2>1, Zenon DEF Record
  <2>3. Present(x)
    BY <1>2, <1>3, <2>2, Zenon DEF Present, Whole, Shared
  <2> QED BY <1>5, <2>1, <2>2, <2>3, UIDIsRecord, Zenon
<1>7. e = [r.entry EXCEPT ![m] = y]
  <2>1. finishPendingDeletion(r.entry, m) = [r.entry EXCEPT ![m] = x]
    BY <1>4, Zenon DEF finishPendingDeletion
  <2> QED BY <1>3, <1>5, <2>1, ExceptTwice, Zenon
<1>8. ~ owed'[m]
  BY <1>2, Zenon DEF Tidy, Ghosts
<1> HIDE DEF e
<1>9. /\ claiming' \in [ model : Models \cup {None}, uid : Nat ]
      /\ claiming' # NoClaim => claiming'.model \in Models
  BY <1>2, Zenon DEF Tidy, Calls
<1> QED BY <1>1, <1>2, <1>3, <1>6, <1>7, <1>8, <1>9, ChangeIsTidy, Zenon

\* deletionParent, when it claims the parent.
LEMMA DeletionParentTidy ==
  ASSUME Tidy, NEW m \in Models, NEW l \in Locks, DeletionParent(m, l)
  PROVE  Tidy'
<1> DEFINE r == Unlost
           p == tryAcquireLock(r.parent, l)
           e == [claimDeletion(r.parent, r.entry, m, l) EXCEPT ![m].receipt.before = "absent"]
<1>1. Faithful(r)
  BY UnlostIsFaithful, Zenon
<1>2. /\ Change({}, NoUID, p, e) /\ r.entry[m].receipt.held
      /\ NoteRestored(r) /\ UNCHANGED <<owed, claiming>>
  BY Zenon DEF DeletionParent
<1> HIDE DEF r
<1>3. r.parent \in ParentRecord /\ r.entry \in [Models -> Record] /\ Whole(r.entry[m])
  BY <1>1, Zenon DEF Faithful, Proper
<1>4. PICK x : x = [r.entry[m] EXCEPT !.receipt =
                      [ held |-> TRUE, lock |-> l, before |-> r.parent.status ]]
  BY Zenon
<1>5. PICK y : y = [x EXCEPT !.receipt.before = "absent"]
  BY Zenon
<1>6. x \in Record /\ x.status = r.entry[m].status /\ x.receipt.held
  <2>1. [ held |-> TRUE, lock |-> l, before |-> r.parent.status ] \in Receipt
    BY <1>3, Zenon DEF Receipt, ParentRecord, MaybeLock
  <2> QED BY <1>3, <1>4, <2>1, Zenon DEF Record
<1>7. y \in Record /\ y.status = r.entry[m].status /\ y.receipt.held
  BY <1>5, <1>6, Zenon DEF Record, Receipt, ParentStatus
<1>8. Present(y) /\ Shared(y)
  BY <1>2, <1>3, <1>7, Zenon DEF Present, Shared, Whole
<1>9. e = [r.entry EXCEPT ![m] = y]
  <2>1. claimDeletion(r.parent, r.entry, m, l) = [r.entry EXCEPT ![m] = x]
    BY <1>4, Zenon DEF claimDeletion
  <2> QED BY <1>3, <1>5, <2>1, ExceptTwice, ZenonT(30)
<1>10. p \in ParentRecord /\ NoUID \in Nat /\ {} \in SUBSET Models
  BY <1>3, LockedIsParent, Zenon DEF NoUID
<1> HIDE DEF e, p
<1>11. /\ claiming' \in [ model : Models \cup {None}, uid : Nat ]
       /\ claiming' # NoClaim => claiming'.model \in Models
  BY <1>2, Zenon DEF Tidy, Calls
<1> QED BY <1>1, <1>2, <1>7, <1>8, <1>9, <1>10, <1>11, ChangeIsTidy, Zenon

\* What is stored is cached (getConfigMapForRecovery, updateConfigMapWithRetry), or its
\* models are (deletionParent, when the parent is gone).
LEMMA RereadIsTidy ==
  ASSUME Tidy, NEW changed,
         UNCHANGED <<stored, call, claiming, resource, ghost, faults>>,
         LET r == [parent |-> parent, entry |-> entry]
         IN  \/ CacheCommitted(r, {}, NoUID, changed)
             \/ CacheModels(r, {}, NoUID, changed) /\ parentCache' = NoParent
  PROVE  Tidy'
<1> DEFINE r == [parent |-> parent, entry |-> entry]
<1>1. Proper(r) /\ r.entry = entry /\ NoUID \in Nat /\ {} \in SUBSET Models
  BY Zenon DEF Tidy, Records, Proper, NoUID
<1> HIDE DEF r
<1>2. \/ CacheCommitted(r, {}, NoUID, changed)
      \/ CacheModels(r, {}, NoUID, changed) /\ parentCache' = NoParent
  BY Zenon DEF r
<1>3. CacheModels(r, {}, NoUID, changed)
  BY <1>2, Zenon DEF CacheCommitted
<1>4. Memories' /\ invalidated' = invalidated
      /\ \A m \in Models : ~ Present(entry[m]) => cache'[m] = cache[m]
  BY <1>1, <1>2, <1>3, CommitIsCached, CacheCommittedIsTidy, NoParentIsParent, ZenonT(30)
     DEF Memories, Tidy
<1>5. UNCHANGED <<exists, parent, entry, call, claiming, resource, author, owed, restored, faults>>
  BY Zenon DEF stored, ghost
<1>6. Owing'
  BY <1>4, <1>5, StaysKnown, Zenon DEF Tidy, Owing
<1>7. Records' /\ Calls' /\ Resources' /\ Ghosts' /\ faults' \in 0..MaxFaults
  BY <1>5, Zenon DEF Tidy, Records, Calls, Resources, Ghosts, resource
<1> QED BY <1>4, <1>6, <1>7, Zenon DEF Tidy

LEMMA DeletedParentTidy ==
  ASSUME Tidy, NEW m \in Models, DeletedParent(m)
  PROVE  Tidy'
BY RereadIsTidy, Zenon DEF DeletedParent

\* A compare-and-swap to n, with what else a step changes.
LEMMA StepIsTidy ==
  ASSUME Tidy, NEW n, Proper(n), NEW scope \in SUBSET Models, NEW u \in Nat,
         Commit(n, scope, u) \/ LoseAnswer(n),
         \A m \in Models : owed'[m] => Kept(n, m),
         author' \in [Models -> Nat], owed' \in [Models -> BOOLEAN], restored' \in BOOLEAN,
         Calls', UNCHANGED resource
  PROVE  Tidy'
<1>1. Records' /\ Memories' /\ Owing' /\ faults' \in 0..MaxFaults
  BY CommitIsTidy, Zenon
<1>2. Resources' /\ Ghosts'
  BY Zenon DEF Tidy, Resources, resource, Ghosts
<1> QED BY <1>1, <1>2, Zenon DEF Tidy

\* adoptPendingDeletionUID.
LEMMA AdoptPendingDeletionUIDTidy ==
  ASSUME Tidy, AdoptPendingDeletionUID
  PROVE  Tidy'
<1> DEFINE m == claiming.model
           u == claiming.uid
<1>1. m \in Models /\ u \in Nat
  BY Zenon DEF AdoptPendingDeletionUID, Tidy, Calls
<1>2. UNCHANGED <<stored, parentCache, call, resource, ghost, faults>> /\ claiming' = NoClaim
  BY ZenonT(30) DEF AdoptPendingDeletionUID
<1>3. \/ UNCHANGED <<invalidated, cache, evicted>>
      \/ /\ entry[m].receipt.held
         /\ \E s \in SUBSET Nat : invalidated' = [invalidated EXCEPT ![m] = s]
         /\ cache' = [cache EXCEPT ![m] = [ held |-> TRUE, uid |-> u, status |-> entry[m].status,
                                            json |-> entry[m] ]]
         /\ evicted' = evicted \ {m}
  <2>1. invalidated[m] \in SUBSET Nat /\ invalidated[m] \cup {cache[m].uid} \in SUBSET Nat
    BY <1>1, Zenon DEF Tidy, Memories, CacheEntry
  <2>2. CASE entry[m].receipt.held /\ entry[m].uid = u /\ ~ entry[m].ref /\ u = uid[m]
             /\ u \notin invalidated[m]
    <3>1. /\ invalidated' = [invalidated EXCEPT ![m] =
                IF OwnedByAnother(m, u) THEN @ \cup {cache[m].uid} ELSE @]
          /\ cache' = [cache EXCEPT ![m] = [ held |-> TRUE, uid |-> u, status |-> entry[m].status,
                                             json |-> entry[m] ]]
          /\ evicted' = evicted \ {m}
      BY <2>2, ZenonT(30) DEF AdoptPendingDeletionUID
    <3> QED BY <2>1, <2>2, <3>1, ZenonT(30)
  <2>3. CASE ~ (entry[m].receipt.held /\ entry[m].uid = u /\ ~ entry[m].ref /\ u = uid[m]
                /\ u \notin invalidated[m])
    BY <2>3, Zenon DEF AdoptPendingDeletionUID
  <2> QED BY <2>2, <2>3, Zenon
<1> HIDE DEF m, u
<1>4. entry[m] \in Record /\ Whole(entry[m])
  BY <1>1, Zenon DEF Tidy, Records
<1>5. /\ Memories'
      /\ \A k \in Models : Known(k) /\ ~ Present(entry[k]) => Known(k)'
  <2>1. CASE UNCHANGED <<invalidated, cache, evicted>>
    <3>1. Memories'
      BY <1>2, <2>1, Zenon DEF Tidy, Memories
    <3> QED BY <2>1, <3>1, StaysKnown, Zenon
  <2>2. CASE /\ entry[m].receipt.held
             /\ \E s \in SUBSET Nat : invalidated' = [invalidated EXCEPT ![m] = s]
             /\ cache' = [cache EXCEPT ![m] = [ held |-> TRUE, uid |-> u, status |-> entry[m].status,
                                                json |-> entry[m] ]]
             /\ evicted' = evicted \ {m}
    <3>1. Present(entry[m])
      BY <1>4, <2>2, Zenon DEF Whole, Shared
    <3>2. [ held |-> TRUE, uid |-> u, status |-> entry[m].status, json |-> entry[m] ] \in CacheEntry
      BY <1>1, <1>4, <3>1, Zenon DEF CacheEntry, Record, Present
    <3>3. cache \in [Models -> CacheEntry] /\ invalidated \in [Models -> SUBSET Nat]
          /\ \A k \in Models : Whole(cache[k].json)
      BY Zenon DEF Tidy, Memories
    <3>4. cache' \in [Models -> CacheEntry] /\ invalidated' \in [Models -> SUBSET Nat]
      BY <2>2, <3>2, <3>3, Zenon
    <3>5. \A k \in Models \ {m} : cache'[k] = cache[k] /\ invalidated'[k] = invalidated[k]
      BY <2>2, <3>3, Zenon
    <3>6. cache'[m].json = entry[m]
      BY <1>1, <2>2, <3>3, Zenon
    <3>7. \A k \in Models : Whole(cache'[k].json)
      BY <1>4, <3>3, <3>5, <3>6, Zenon
    <3>8. parentCache' \in ParentRecord /\ evicted' \subseteq Models
      BY <1>2, <2>2, Zenon DEF Tidy, Memories
    <3> QED BY <3>1, <3>4, <3>5, <3>7, <3>8, StaysKnown, Zenon DEF Memories
  <2> QED BY <1>3, <2>1, <2>2, Zenon
<1>6. Records' /\ Resources' /\ Ghosts' /\ faults' \in 0..MaxFaults
  BY <1>2, Zenon DEF Tidy, Records, Resources, Ghosts, stored, resource, ghost
<1>7. Owing'
  BY <1>2, <1>5, Zenon DEF Tidy, Owing, stored, ghost
<1>8. Calls'
  BY <1>2, Zenon DEF Tidy, Calls, NoClaim, NoUID
<1> QED BY <1>5, <1>6, <1>7, <1>8, Zenon DEF Tidy

\* A change of the parent by its owner: the entries keep their shared parts.
LEMMA ChangeParentIsTidy ==
  ASSUME Tidy, NEW p \in ParentRecord, NEW e \in [Models -> Record], NEW unvalidated \in BOOLEAN,
         ChangeParent(p, e, unvalidated),
         \A m \in Models : \/ e[m] = Unlost.entry[m]
                           \/ Present(e[m]) /\ e[m].ref
  PROVE  Tidy'
<1> DEFINE r == Unlost
           n == [parent |-> p, entry |-> e]
<1>1. Faithful(r)
  BY UnlostIsFaithful, Zenon
<1> HIDE DEF r
<1>2. Commit(n, {}, NoUID) \/ LoseAnswer(n)
  BY Zenon DEF ChangeParent, Change
<1>3. UNCHANGED <<call, resource, author, owed, claiming>> /\ restored' = unvalidated
  BY Zenon DEF ChangeParent, Change
<1>4. \A m \in Models : e[m] = r.entry[m] \/ (Present(e[m]) /\ e[m].ref)
  BY Zenon DEF r
<1>5. \A m \in Models : Whole(e[m]) /\ (owed[m] => Kept(n, m))
  BY <1>1, <1>4, Zenon DEF Faithful, Proper, Whole, Shared, Kept
<1>6. Proper(n) /\ NoUID \in Nat /\ {} \in SUBSET Models
  BY <1>5, ZenonT(30) DEF Proper, NoUID
<1> HIDE DEF n
<1>7. Calls' /\ author' \in [Models -> Nat] /\ owed' \in [Models -> BOOLEAN] /\ restored' \in BOOLEAN
  BY <1>3, Zenon DEF Tidy, Calls, Ghosts
<1> QED BY <1>2, <1>3, <1>5, <1>6, <1>7, StepIsTidy, Zenon

LEMMA ParentChangesTidy ==
  ASSUME Tidy,
         \/ \E l \in Locks : TryAcquireLock(l)
         \/ \E status \in {"Ready", "Failed", "Updating"} : SetStatus(status)
         \/ MarkChildrenFailedForRepair
         \/ DeleteIfUnreferenced
  PROVE  Tidy'
<1> DEFINE r == Unlost
<1>1. Faithful(r)
  BY UnlostIsFaithful, Zenon
<1>2. r.parent \in ParentRecord /\ r.entry \in [Models -> Record]
  BY <1>1, Zenon DEF Faithful, Proper
<1>3. (restored \/ r.parent # parent) \in BOOLEAN
  BY Zenon
<1>4. ASSUME NEW l \in Locks, TryAcquireLock(l) PROVE Tidy'
  <2>1. ChangeParent(tryAcquireLock(r.parent, l), r.entry, restored \/ r.parent # parent)
    BY <1>4, Zenon DEF TryAcquireLock
  <2> HIDE DEF r
  <2>2. tryAcquireLock(r.parent, l) \in ParentRecord
    BY <1>2, LockedIsParent, Zenon
  <2> QED BY <1>2, <1>3, <2>1, <2>2, ChangeParentIsTidy, Zenon DEF r
<1>5. ASSUME NEW status \in {"Ready", "Failed", "Updating"}, SetStatus(status) PROVE Tidy'
  <2> DEFINE p == setParentStatus(r.parent, status)
             e == setChildStatuses(r.parent, r.entry, status)
  <2>1. ChangeParent(p, e, status # "Ready" /\ (restored \/ r.parent # parent))
    BY <1>5, Zenon DEF SetStatus
  <2> HIDE DEF r
  <2>2. p \in ParentRecord
    BY <1>2, ZenonT(30) DEF setParentStatus, ParentRecord, ParentStatus, MaybeLock, NothingSaved
  <2>3. ASSUME NEW m \in Models
        PROVE  e[m] \in Record /\ (e[m] = r.entry[m] \/ (Present(e[m]) /\ e[m].ref))
    <3>1. CASE status = "Ready" /\ Restorable(r.parent, r.entry, m)
      <4>1. e[m] = [r.entry[m] EXCEPT !.status = r.parent.saved[m]] /\ r.entry[m].ref
        BY <3>1, Zenon DEF setChildStatuses, Restorable
      <4>2. r.parent.saved[m] \in ModelStatus \cup {"blank"} /\ r.entry[m] \in Record
        BY <1>2, <3>1, Zenon DEF Restorable, ParentRecord
      <4>3. e[m] \in Record /\ Present(e[m])
        BY <4>1, <4>2, StatusIsRecord, Zenon
      <4>4. e[m].ref
        BY <4>1, <4>2, Zenon DEF Record
      <4> QED BY <4>3, <4>4, Zenon
    <3>2. CASE ~ (status = "Ready" /\ Restorable(r.parent, r.entry, m))
      BY <1>2, <3>2, Zenon DEF setChildStatuses
    <3> QED BY <3>1, <3>2, Zenon
  <2>4. e \in [Models -> Record]
    BY <2>3, Zenon DEF setChildStatuses
  <2>5. (status # "Ready" /\ (restored \/ r.parent # parent)) \in BOOLEAN
    BY Zenon
  <2> HIDE DEF p, e
  <2> QED BY <2>1, <2>2, <2>3, <2>4, <2>5, ChangeParentIsTidy, Zenon DEF r
<1>6. ASSUME MarkChildrenFailedForRepair PROVE Tidy'
  <2> DEFINE p == saveChildStatuses(r.parent, r.entry)
             e == failChildren(r.parent, r.entry)
  <2>1. ChangeParent(p, e, restored \/ r.parent # parent)
    BY <1>6, Zenon DEF MarkChildrenFailedForRepair
  <2> HIDE DEF r
  <2>2. \A m \in Models : r.entry[m] \in Record /\ Whole(r.entry[m])
    BY <1>1, Zenon DEF Faithful, Proper
  <2>3. \A m \in Models : r.entry[m].ref => r.entry[m].status \in ModelStatus \cup {"blank"}
    BY <2>2, Zenon DEF Whole, Shared, Present, Record
  <2>4. [m \in Models |->
           IF m \in r.parent.children /\ r.entry[m].ref
              /\ (r.parent.saved[m] = "none" \/ r.entry[m].status # "Failed")
           THEN r.entry[m].status ELSE r.parent.saved[m]]
          \in [Models -> ModelStatus \cup {"none", "blank"}]
    BY <1>2, <2>3, Zenon DEF ParentRecord
  <2>5. p \in ParentRecord
    BY <1>2, <2>4, Zenon DEF saveChildStatuses, ParentRecord
  <2>6. ASSUME NEW m \in Models
        PROVE  e[m] \in Record /\ (e[m] = r.entry[m] \/ (Present(e[m]) /\ e[m].ref))
    <3>1. CASE m \in r.parent.children /\ r.entry[m].ref
      <4>1. e[m] = [r.entry[m] EXCEPT !.status = "Failed"] /\ r.entry[m] \in Record
        BY <2>2, <3>1, Zenon DEF failChildren
      <4>2. e[m] \in Record /\ Present(e[m])
        <5>1. "Failed" \in ModelStatus \cup {"blank"}
          BY Zenon DEF ModelStatus
        <5> QED BY <4>1, <5>1, StatusIsRecord, ZenonT(30)
      <4>3. e[m].ref
        BY <3>1, <4>1, Zenon DEF Record
      <4> QED BY <4>2, <4>3, Zenon
    <3>2. CASE ~ (m \in r.parent.children /\ r.entry[m].ref)
      BY <2>2, <3>2, Zenon DEF failChildren
    <3> QED BY <3>1, <3>2, ZenonT(30)
  <2>7. e \in [Models -> Record]
    BY <2>6, Zenon DEF failChildren
  <2> HIDE DEF p, e
  <2> QED BY <1>3, <2>1, <2>5, <2>6, <2>7, ChangeParentIsTidy, ZenonT(30) DEF r
<1>7. ASSUME DeleteIfUnreferenced PROVE Tidy'
  <2>1. ChangeParent(NoParent, r.entry, FALSE)
    BY <1>7, Zenon DEF DeleteIfUnreferenced
  <2> QED BY <1>2, <2>1, NoParentIsParent, ChangeParentIsTidy, Zenon
<1> QED BY <1>4, <1>5, <1>6, <1>7, Zenon

LEMMA UIDsAreNat ==
  ASSUME Tidy, NEW m \in Models, NEW u \in UIDs(m)
  PROVE  u \in Nat
BY DEF Tidy, Resources, UIDs

LEMMA RepositoryStepTidy ==
  ASSUME Tidy, RepositoryStep
  PROVE  Tidy'
<1>1. ASSUME NEW m \in Models, NEW u \in UIDs(m),
             \/ RememberDownload(m, u) \/ AddModelReference(m, u)
             \/ BeginPendingDownloadDeletion(m, u)
             \/ \E l \in Locks : RemoveModelReference(m, u, l)
      PROVE  Tidy'
  <2>1. u \in Nat
    BY UIDsAreNat, Zenon
  <2> QED BY <1>1, <2>1, RememberDownloadTidy, AddModelReferenceTidy,
             BeginPendingDownloadDeletionTidy, RemoveModelReferenceTidy, Zenon
<1>2. ASSUME NEW m \in Models,
             \/ ClaimPendingDeletion(m) \/ FinishPendingDeletion(m) \/ DeletedParent(m)
             \/ \E l \in Locks : DeletionParent(m, l)
      PROVE  Tidy'
  BY <1>2, ClaimPendingDeletionTidy, FinishPendingDeletionTidy, DeletedParentTidy, DeletionParentTidy, Zenon
<1> QED BY <1>1, <1>2, AdoptPendingDeletionUIDTidy, ParentChangesTidy, Zenon DEF RepositoryStep

\* A record that is written with another status keeps its shared part.
LEMMA WriteIsKept ==
  ASSUME Tidy, NEW r, Faithful(r), NEW m \in Models, KeepsShared(r, m),
         NEW status \in ModelStatus, NEW n, n = [r EXCEPT !.entry[m].status = status]
  PROVE  Proper(n) /\ \A k \in Models : owed[k] => Kept(n, k)
<1>1. /\ r = [parent |-> r.parent, entry |-> r.entry] /\ r.parent \in ParentRecord
      /\ r.entry \in [Models -> Record] /\ \A k \in Models : Whole(r.entry[k])
      /\ \A k \in Models : owed[k] => Kept(r, k)
  BY Zenon DEF Faithful, Proper
<1>2. PICK x : x = [r.entry[m] EXCEPT !.status = status]
  BY Zenon
<1>3. PICK e : e = [r.entry EXCEPT ![m] = x]
  BY Zenon
<1>4. n = [parent |-> r.parent, entry |-> e]
  <2>1. n = [r EXCEPT !.entry = [r.entry EXCEPT ![m] = [r.entry[m] EXCEPT !.status = status]]]
    BY <1>1, Zenon
  <2>2. n = [r EXCEPT !.entry = e]
    BY <1>2, <1>3, <2>1, Zenon
  <2> QED BY <1>1, <2>2, Zenon
<1>5. n.parent = r.parent /\ n.entry = e
  BY <1>4
<1>6. x \in Record /\ Present(x) /\ (Shared(x) <=> Shared(r.entry[m]))
  BY <1>1, <1>2, StatusIsRecord, Zenon
<1>7. e \in [Models -> Record] /\ e[m] = x /\ \A k \in Models \ {m} : e[k] = r.entry[k]
  BY <1>1, <1>3, <1>6, Zenon
<1>8. owed[m] => Shared(x)
  <2> SUFFICES ASSUME owed[m] PROVE Shared(r.entry[m])
    BY <1>6, Zenon
  <2>1. CASE Present(r.entry[m])
    BY <1>1, <2>1, Zenon DEF Kept
  <2>2. CASE ~ Present(r.entry[m])
    <3>1. Shared(cache[m].json)
      BY <1>1, <2>2, Zenon DEF Kept, Known
    <3> QED BY <3>1, Zenon DEF KeepsShared, Shared
  <2> QED BY <2>1, <2>2, Zenon
<1>9. \A k \in Models : Whole(e[k])
  BY <1>1, <1>6, <1>7, Zenon DEF Whole
<1>10. Proper(n)
  BY <1>1, <1>4, <1>5, <1>7, <1>9, Zenon DEF Proper
<1>11. \A k \in Models : owed[k] => Kept(n, k)
  BY <1>1, <1>5, <1>6, <1>7, <1>8, Zenon DEF Kept
<1> QED BY <1>10, <1>11, Zenon

\* mutateModelEntryWithRetry.
LEMMA WriteIsTidy ==
  ASSUME Tidy, NEW m \in Models, NEW u \in Nat, NEW r, Faithful(r), NEW n, NEW then \in Call,
         then.step # "none" => then.model \in Models, Write(m, u, r, n, then),
         n = r \/ \E status \in ModelStatus : n = [r EXCEPT !.entry[m].status = status]
  PROVE  Tidy'
<1>1. {m} \in SUBSET Models /\ restored' \in BOOLEAN /\ UNCHANGED <<claiming, resource, owed>>
  BY RestoredIsBoolean, Zenon DEF Write
<1>2. Proper(r) /\ \A k \in Models : owed[k] => Kept(r, k)
  BY Zenon DEF Faithful
<1>3. owed' \in [Models -> BOOLEAN] /\ owed' = owed
  BY <1>1, Zenon DEF Tidy, Ghosts
<1>4. CASE isModelMutationBlocked(m, u)
  <2>1. Commit(r, {m}, u) /\ call' = then /\ UNCHANGED author
    BY <1>4, Zenon DEF Write
  <2>2. Calls' /\ author' \in [Models -> Nat]
    BY <1>1, <2>1, Zenon DEF Tidy, Calls, Ghosts
  <2> QED BY <1>1, <1>2, <1>3, <2>1, <2>2, StepIsTidy, Zenon
<1>5. CASE ~ isModelMutationBlocked(m, u)
  <2>1. /\ KeepsShared(r, m) /\ author' = [author EXCEPT ![m] = u]
        /\ Commit(n, {m}, u) \/ LoseAnswer(n)
        /\ call' = then \/ call' = call
    BY <1>5, Zenon DEF Write
  <2>2. Calls' /\ author' \in [Models -> Nat]
    BY <1>1, <2>1, Zenon DEF Tidy, Calls, Ghosts
  <2>3. Proper(n) /\ \A k \in Models : owed[k] => Kept(n, k)
    BY <1>2, <2>1, WriteIsKept, Zenon
  <2> QED BY <1>1, <1>3, <2>1, <2>2, <2>3, StepIsTidy, Zenon
<1> QED BY <1>4, <1>5, Zenon

LEMMA WritesTidy ==
  ASSUME Tidy, NEW m \in Models, NEW u \in Nat,
         \/ \E status \in Published : ReconcileModelStatus(m, u, status)
         \/ StatusNotReady(m, u)
         \/ ReconcileModelMetadata(m, u) \/ ReconcileModelProgress(m, u)
  PROVE  Tidy'
<1> DEFINE r == Latest({m})
<1>1. Faithful(r)
  BY LatestIsFaithful, Zenon
<1>2. \A status \in ModelStatus \cup {"blank"} :
        Then(m, u, status) \in Call /\ Then(m, u, status).model \in Models
  BY Zenon DEF Then, Call
<1>3. NoCall \in Call /\ NoCall.step = "none"
  BY Zenon DEF NoCall, Call, NoUID
<1>4. ASSUME NEW status \in Published, ReconcileModelStatus(m, u, status) PROVE Tidy'
  <2>1. status \in ModelStatus
    BY CacheAssumption, Zenon
  <2>2. Write(m, u, r, [r EXCEPT !.entry[m].status = status], Then(m, u, status))
    BY <1>4, Zenon DEF ReconcileModelStatus
  <2> HIDE DEF r
  <2>3. Then(m, u, status) \in Call /\ Then(m, u, status).model \in Models
    BY <1>2, <2>1, Zenon
  <2> QED BY <1>1, <2>1, <2>2, <2>3, WriteIsTidy, Zenon
<1>5. ASSUME StatusNotReady(m, u) PROVE Tidy'
  <2>1. Commit(r, {m}, u) /\ NoteRestored(r) /\ UNCHANGED <<call, claiming, resource, author, owed>>
    BY <1>5, Zenon DEF StatusNotReady
  <2> HIDE DEF r
  <2>2. Calls' /\ author' \in [Models -> Nat] /\ owed' \in [Models -> BOOLEAN] /\ restored' \in BOOLEAN
    BY <2>1, RestoredIsBoolean, Zenon DEF Tidy, Calls, Ghosts
  <2>3. Proper(r) /\ \A k \in Models : owed'[k] => Kept(r, k)
    BY <1>1, <2>1, Zenon DEF Faithful
  <2> QED BY <2>1, <2>2, <2>3, StepIsTidy, Zenon
<1>6. "Ready" \in ModelStatus /\ "Updating" \in ModelStatus
  BY Zenon DEF ModelStatus
<1>7. \A status \in ModelStatus :
        \/ Assumed(r, m, status) = r
        \/ Assumed(r, m, status) = [r EXCEPT !.entry[m].status = status]
  BY Zenon DEF Assumed
<1>8. ASSUME ReconcileModelMetadata(m, u) PROVE Tidy'
  <2>1. Write(m, u, r, Assumed(r, m, "Ready"), Then(m, u, "blank"))
    BY <1>8, Zenon DEF ReconcileModelMetadata
  <2> HIDE DEF r
  <2>2. Then(m, u, "blank") \in Call /\ Then(m, u, "blank").model \in Models
    BY <1>2, Zenon
  <2> QED BY <1>1, <1>6, <1>7, <2>1, <2>2, WriteIsTidy
<1>9. ASSUME ReconcileModelProgress(m, u) PROVE Tidy'
  <2>1. Write(m, u, r, Assumed(r, m, "Updating"), NoCall)
    BY <1>9, Zenon DEF ReconcileModelProgress
  <2> HIDE DEF r
  <2> QED BY <1>1, <1>3, <1>6, <1>7, <2>1, WriteIsTidy, Zenon
<1> QED BY <1>4, <1>5, <1>8, <1>9, Zenon

\* cacheOrdinaryModel.
LEMMA CacheOrdinaryTidy ==
  ASSUME Tidy, CacheOrdinary
  PROVE  Tidy'
<1> DEFINE m == call.model
<1>1. /\ UNCHANGED <<stored, parentCache, invalidated, claiming, resource, ghost, faults>>
      /\ call' = NoCall /\ m \in Models /\ call.uid \in Nat
      /\ call.status \in ModelStatus \cup {"blank"}
  BY Zenon DEF CacheOrdinary, Tidy, Calls, Call
<1>2. \/ UNCHANGED <<cache, evicted>>
      \/ /\ ~ HasJSON(m) /\ evicted' = evicted \ {m}
         /\ cache' = [cache EXCEPT ![m] =
              [ held |-> TRUE, uid |-> call.uid, json |-> NoRecord,
                status |-> IF call.status = "blank" THEN cache[m].status ELSE call.status ]]
  BY Zenon DEF CacheOrdinary
<1>3. /\ cache \in [Models -> CacheEntry] /\ \A k \in Models : Whole(cache[k].json)
      /\ evicted \subseteq Models
  BY Zenon DEF Tidy, Memories
<1>4. NoRecord \in Record /\ Whole(NoRecord)
  BY Zenon DEF NoRecord, Record, NoReceipt, Receipt, NoUID, MaybeLock, ParentStatus, Whole, Shared
<1> HIDE DEF m
<1>5. Memories' /\ \A k \in Models : Known(k) => Known(k)'
  <2>1. CASE UNCHANGED <<cache, evicted>>
    <3>1. Memories'
      BY <1>1, <2>1, Zenon DEF Tidy, Memories
    <3> QED BY <1>1, <2>1, <3>1, StaysKnown, Zenon
  <2>2. CASE /\ ~ HasJSON(m) /\ evicted' = evicted \ {m}
             /\ cache' = [cache EXCEPT ![m] =
                  [ held |-> TRUE, uid |-> call.uid, json |-> NoRecord,
                    status |-> IF call.status = "blank" THEN cache[m].status ELSE call.status ]]
    <3>1. PICK s : s = IF call.status = "blank" THEN cache[m].status ELSE call.status
      BY Zenon
    <3>2. s \in ModelStatus \cup {"blank"}
      BY <1>1, <1>3, <3>1, Zenon DEF CacheEntry
    <3>3. PICK x : x = [ held |-> TRUE, uid |-> call.uid, json |-> NoRecord, status |-> s ]
      BY Zenon
    <3>4. x \in CacheEntry /\ Whole(x.json)
      BY <1>1, <1>4, <3>2, <3>3, Zenon DEF CacheEntry
    <3>5. cache' = [cache EXCEPT ![m] = x]
      BY <2>2, <3>1, <3>3, Zenon
    <3>6. /\ cache' \in [Models -> CacheEntry] /\ \A k \in Models : Whole(cache'[k].json)
          /\ \A k \in Models \ {m} : cache'[k] = cache[k]
      BY <1>1, <1>3, <3>4, <3>5, Zenon
    <3>7. ~ Known(m)
      BY <1>1, <1>3, <2>2, Zenon DEF Known, HasJSON, Whole
    <3>8. Memories'
      BY <1>1, <1>3, <2>2, <3>6, Zenon DEF Tidy, Memories
    <3>9. invalidated' = invalidated
      BY <1>1, Zenon
    <3> QED BY <3>6, <3>7, <3>8, <3>9, StaysKnown, Zenon
  <2> QED BY <1>2, <2>1, <2>2, Zenon
<1>6. Records' /\ Resources' /\ Ghosts' /\ faults' \in 0..MaxFaults
  BY <1>1, Zenon DEF Tidy, Records, Resources, Ghosts, stored, resource, ghost
<1>7. Owing'
  BY <1>1, <1>5, ZenonT(30) DEF Tidy, Owing, stored, ghost
<1>8. Calls'
  BY <1>1, Zenon DEF Tidy, Calls, NoCall, Call, NoUID
<1> QED BY <1>5, <1>6, <1>7, <1>8, Zenon DEF Tidy

\* DeleteModelFromConfigMap, its first half: the model leaves the cache.
LEMMA DeleteModelTidy ==
  ASSUME Tidy, NEW m \in Models, NEW u \in Nat, NEW terminal \in BOOLEAN, DeleteModel(m, u, terminal)
  PROVE  Tidy'
<1>1. /\ cache' = [cache EXCEPT ![m] = NotCached] /\ evicted' = evicted \cup {m}
      /\ parentCache' = WithoutChildren(parentCache, {m})
      /\ invalidated' = [invalidated EXCEPT ![m] = IF terminal THEN @ \cup {u} ELSE @]
      /\ call' = [ step |-> "delete", model |-> m, uid |-> u, status |-> "blank" ]
      /\ owed' = [owed EXCEPT ![m] = @ /\ Present(entry[m])]
      /\ UNCHANGED <<stored, claiming, resource, author, restored, faults>>
  BY Zenon DEF DeleteModel
<1>2. /\ cache \in [Models -> CacheEntry] /\ parentCache \in ParentRecord
      /\ \A k \in Models : Whole(cache[k].json)
      /\ evicted \subseteq Models /\ invalidated \in [Models -> SUBSET Nat]
  BY Zenon DEF Tidy, Memories
<1>3. NotCached \in CacheEntry /\ Whole(NotCached.json)
  BY Zenon DEF NotCached, CacheEntry, NoRecord, Record, NoReceipt, Receipt, NoUID, MaybeLock,
     ParentStatus, ModelStatus, Whole, Shared
<1>4. /\ cache' \in [Models -> CacheEntry] /\ \A k \in Models : Whole(cache'[k].json)
      /\ \A k \in Models \ {m} : cache'[k] = cache[k]
  BY <1>1, <1>2, <1>3, Zenon
<1>5. /\ invalidated' \in [Models -> SUBSET Nat]
      /\ \A k \in Models \ {m} : invalidated'[k] = invalidated[k]
  BY <1>1, <1>2, Zenon
<1>6. Memories'
  BY <1>1, <1>2, <1>4, <1>5, WithoutChildrenIsParent, Zenon DEF Memories
<1>7. /\ owed' \in [Models -> BOOLEAN] /\ (owed'[m] => owed[m] /\ Present(entry[m]))
      /\ \A k \in Models \ {m} : owed'[k] = owed[k]
  <2>1. owed \in [Models -> BOOLEAN] /\ (owed[m] /\ Present(entry[m])) \in BOOLEAN
    BY Zenon DEF Tidy, Ghosts
  <2> QED BY <1>1, <2>1, ZenonT(30)
<1>8. \A k \in Models \ {m} : Known(k) => Known(k)'
  BY <1>4, <1>5, StaysKnown, Zenon
<1>9. Owing'
  BY <1>1, <1>7, <1>8, Zenon DEF Tidy, Owing, stored
<1>10. Records' /\ Resources' /\ Ghosts' /\ faults' \in 0..MaxFaults
  BY <1>1, <1>7, ZenonT(30) DEF Tidy, Records, Resources, Ghosts, stored, resource
<1>11. Calls'
  BY <1>1, Zenon DEF Tidy, Calls, Call
<1> QED BY <1>6, <1>9, <1>10, <1>11, Zenon DEF Tidy

\* Its second half.
LEMMA DeleteEndsTidy ==
  ASSUME Tidy, DeleteRefused \/ DeleteFails \/ DeleteCommits
  PROVE  Tidy'
<1>1. Calls' /\ UNCHANGED resource
  BY DEF Tidy, Calls, DeleteRefused, DeleteFails, DeleteCommits, DeleteEnds, NoCall, Call, NoUID
<1>2. CASE DeleteRefused \/ DeleteFails
  <2>1. UNCHANGED <<stored, memory, ghost>> /\ faults' \in 0..MaxFaults
    BY <1>2, CacheAssumption DEF DeleteRefused, DeleteFails, Fault, Tidy
  <2>2. Records' /\ Memories' /\ Resources' /\ Ghosts'
    BY <1>1, <2>1, Zenon DEF Tidy, Records, Memories, Resources, Ghosts, stored, memory, resource, ghost
  <2>3. \A k \in Models : Known(k) => Known(k)'
    BY <2>1, StaysKnown, Zenon DEF memory
  <2>4. Owing'
    BY <2>1, <2>3, Zenon DEF Tidy, Owing, stored, ghost
  <2> QED BY <1>1, <2>1, <2>2, <2>4, Zenon DEF Tidy
<1>3. CASE DeleteCommits
  <2> DEFINE m == call.model
             r == Latest({m})
             n == [r EXCEPT !.entry[m] = NoRecord]
  <2>1. Faithful(r)
    BY LatestIsFaithful, Zenon
  <2>2. m \in Models /\ call.uid \in Nat
    BY <1>3, Zenon DEF DeleteCommits, Tidy, Calls, Call
  <2>3. /\ Commit(n, {m}, call.uid) \/ LoseAnswer(n)
        /\ author' = [author EXCEPT ![m] = NoUID] /\ owed' = [owed EXCEPT ![m] = FALSE]
        /\ NoteRestored(r)
    BY <1>3, Zenon DEF DeleteCommits
  <2> HIDE DEF m, r
  <2>4. /\ r = [parent |-> r.parent, entry |-> r.entry] /\ r.parent \in ParentRecord
        /\ r.entry \in [Models -> Record] /\ \A k \in Models : Whole(r.entry[k])
        /\ \A k \in Models : owed[k] => Kept(r, k)
    BY <2>1, Zenon DEF Faithful, Proper
  <2>5. PICK e : e = [r.entry EXCEPT ![m] = NoRecord]
    BY Zenon
  <2>6. n = [parent |-> r.parent, entry |-> e]
    BY <2>4, <2>5
  <2>7. n.parent = r.parent /\ n.entry = e
    BY <2>6, Zenon
  <2> HIDE DEF n
  <2>8. NoRecord \in Record /\ Whole(NoRecord)
    BY Zenon DEF NoRecord, Record, NoReceipt, Receipt, NoUID, MaybeLock, ParentStatus, Whole, Shared
  <2>9. e \in [Models -> Record] /\ e[m] = NoRecord /\ \A k \in Models \ {m} : e[k] = r.entry[k]
    BY <2>2, <2>4, <2>5, <2>8, Zenon
  <2>10. \A k \in Models : Whole(e[k])
    BY <2>4, <2>8, <2>9, Zenon
  <2>11. Proper(n)
    BY <2>4, <2>6, <2>7, <2>9, <2>10, Zenon DEF Proper
  <2>12. /\ owed' \in [Models -> BOOLEAN] /\ author' \in [Models -> Nat] /\ restored' \in BOOLEAN
         /\ ~ owed'[m] /\ \A k \in Models \ {m} : owed'[k] = owed[k]
    <3>1. owed \in [Models -> BOOLEAN] /\ author \in [Models -> Nat] /\ NoUID \in Nat
      BY Zenon DEF Tidy, Ghosts, NoUID
    <3> QED BY <2>2, <2>3, <3>1, RestoredIsBoolean, Zenon
  <2>13. \A k \in Models : owed'[k] => Kept(n, k)
    BY <2>4, <2>7, <2>9, <2>12, Zenon DEF Kept
  <2>14. {m} \in SUBSET Models
    BY <2>2, Zenon
  <2> QED BY <1>1, <2>2, <2>3, <2>11, <2>12, <2>13, <2>14, StepIsTidy, Zenon
<1> QED BY <1>2, <1>3, Zenon

LEMMA GopherStepTidy ==
  ASSUME Tidy, GopherStep
  PROVE  Tidy'
<1>1. ASSUME NEW m \in Models, NEW u \in UIDs(m),
             \/ \E status \in Published : ReconcileModelStatus(m, u, status)
             \/ StatusNotReady(m, u)
             \/ ReconcileModelMetadata(m, u) \/ ReconcileModelProgress(m, u)
             \/ \E terminal \in BOOLEAN : DeleteModel(m, u, terminal)
      PROVE  Tidy'
  <2>1. u \in Nat
    BY UIDsAreNat, Zenon
  <2> QED BY <1>1, <2>1, WritesTidy, DeleteModelTidy, Zenon
<1> QED BY <1>1, CacheOrdinaryTidy, DeleteEndsTidy, Zenon DEF GopherStep

\* recreateConfigMap, getConfigMapForHfArtifactCleanup and the readers that cache.
LEMMA CacheStepTidy ==
  ASSUME Tidy, CacheStep
  PROVE  Tidy'
<1>1. ASSUME NEW r, Faithful(r), Observe(r)
      PROVE  Tidy'
  <2>1. /\ Commit(r, {}, NoUID) \/ LoseAnswer(r)
        /\ NoteRestored(r) /\ UNCHANGED <<call, claiming, resource, author, owed>>
    BY <1>1, Zenon DEF Observe
  <2>2. Calls' /\ author' \in [Models -> Nat] /\ owed' \in [Models -> BOOLEAN] /\ restored' \in BOOLEAN
    BY <2>1, RestoredIsBoolean, Zenon DEF Tidy, Calls, Ghosts
  <2>3. Proper(r) /\ \A k \in Models : owed'[k] => Kept(r, k)
    BY <1>1, <2>1, Zenon DEF Faithful
  <2>4. {} \in SUBSET Models /\ NoUID \in Nat
    BY Zenon DEF NoUID
  <2> QED BY <2>1, <2>2, <2>3, <2>4, StepIsTidy, Zenon
<1>2. CASE reconcileConfigMaps
  BY <1>1, <1>2, RestoreAgainIsFaithful, ZenonT(30) DEF reconcileConfigMaps
<1>3. CASE getConfigMapForHfArtifactCleanup
  BY <1>1, <1>3, UnlostIsFaithful, Zenon DEF getConfigMapForHfArtifactCleanup
<1>4. CASE getConfigMapForRecovery
  BY <1>4, RereadIsTidy, Zenon DEF getConfigMapForRecovery
<1>5. CASE \E m \in Models : updateConfigMapWithRetry(m)
  BY <1>5, RereadIsTidy, Zenon DEF updateConfigMapWithRetry
<1> QED BY <1>2, <1>3, <1>4, <1>5, Zenon DEF CacheStep

\* Faults are counted.
LEMMA FaultCounted ==
  ASSUME faults \in 0..MaxFaults, Fault
  PROVE  faults' \in 0..MaxFaults
BY CacheAssumption DEF Fault

\* Records are lost, the agent restarts, resources come and go.
LEMMA EnvironmentTidy ==
  ASSUME Tidy, Environment
  PROVE  Tidy'
<1>1. ASSUME NEW gone \in SUBSET Models, LoseRecords(gone), exists' \in BOOLEAN,
             parent' \in ParentRecord, missed' \subseteq Models, ~ DeletesMiss => missed' = missed
      PROVE  Tidy'
  <2>1. /\ entry' = [m \in Models |-> IF m \in gone THEN NoRecord ELSE entry[m]]
        /\ owed' = [m \in Models |-> owed[m] /\ (m \in gone => Known(m))]
        /\ UNCHANGED <<memory, call, claiming, lastUID, uid, oldest, deleting, author, restored>>
        /\ faults' \in 0..MaxFaults
    <3>1. faults' \in 0..MaxFaults
      BY <1>1, FaultCounted, Zenon DEF LoseRecords, Tidy
    <3> QED BY <1>1, <3>1, Zenon DEF LoseRecords
  <2>2. NoRecord \in Record /\ Whole(NoRecord) /\ ~ Present(NoRecord)
    BY Zenon DEF NoRecord, Record, NoReceipt, Receipt, NoUID, MaybeLock, ParentStatus, Whole, Shared,
       Present
  <2>3. Records'
    BY <1>1, <2>1, <2>2, Zenon DEF Tidy, Records
  <2>4. Memories' /\ Calls' /\ Resources' /\ Ghosts'
    BY <1>1, <2>1, ZenonT(30) DEF Tidy, Memories, Calls, Resources, Ghosts, memory
  <2>5. \A k \in Models : Known(k) => Known(k)'
    BY <2>1, StaysKnown, ZenonT(30) DEF memory
  <2>6. Owing'
    BY <2>1, <2>2, <2>5, Zenon DEF Tidy, Owing
  <2> QED BY <2>1, <2>3, <2>4, <2>6, Zenon DEF Tidy
<1>2. CASE LoseConfigMap
  BY <1>1, <1>2, NoParentIsParent, Zenon DEF LoseConfigMap, Tidy, Resources
<1>3. CASE LoseParent
  BY <1>1, <1>3, NoParentIsParent, Zenon DEF LoseParent, Tidy, Records, Resources
<1>4. ASSUME NEW m \in Models, LoseEntry(m) PROVE Tidy'
  BY <1>1, <1>4, Zenon DEF LoseEntry, Tidy, Records, Resources
<1>5. ASSUME NEW m \in Models, ResourceDeleting(m) \/ ResourceReplaced(m)
      PROVE  Tidy'
  <2>1. UNCHANGED <<stored, memory, call, claiming, lastUID, oldest, missed, ghost, faults>>
    BY <1>5, ZenonT(30) DEF ResourceDeleting, ResourceReplaced
  <2>2. Records' /\ Memories' /\ Calls' /\ Ghosts' /\ faults' \in 0..MaxFaults
    BY <2>1, Zenon DEF Tidy, Records, Memories, Calls, Ghosts, stored, memory, ghost
  <2>3. Resources'
    <3>1. /\ lastUID \in [Models -> Nat] /\ lastUID' = lastUID /\ oldest' = oldest
          /\ uid \in [Models -> Nat] /\ oldest \in [Models -> Nat] /\ deleting \in [Models -> BOOLEAN]
          /\ \A k \in Models : /\ uid[k] <= lastUID[k] /\ oldest[k] <= uid[k]
                               /\ deleting[k] => uid[k] < lastUID[k]
      BY <2>1, CacheAssumption, Zenon DEF Tidy, Resources
    <3>2. CASE ResourceDeleting(m)
      <4>1. deleting' = [deleting EXCEPT ![m] = TRUE] /\ uid' = uid /\ uid[m] < lastUID[m]
        BY <3>2, Zenon DEF ResourceDeleting
      <4> QED BY <2>1, <3>1, <4>1, Zenon DEF Tidy, Resources
    <3>3. CASE ResourceReplaced(m)
      <4>1. /\ uid' = [uid EXCEPT ![m] = uid[m] + 1] /\ uid[m] < lastUID[m]
            /\ deleting' = [deleting EXCEPT ![m] = FALSE]
        BY <3>1, <3>3, Zenon DEF ResourceReplaced
      <4>2. uid' \in [Models -> Nat] /\ uid'[m] = uid[m] + 1
            /\ \A k \in Models \ {m} : uid'[k] = uid[k]
        BY <3>1, <4>1
      <4>3. deleting' \in [Models -> BOOLEAN] /\ ~ deleting'[m]
            /\ \A k \in Models \ {m} : deleting'[k] = deleting[k]
        BY <3>1, <4>1, Zenon
      <4>4. ASSUME NEW k \in Models
            PROVE  /\ uid'[k] <= lastUID[k] /\ oldest[k] <= uid'[k]
                   /\ deleting'[k] => uid'[k] < lastUID[k]
        <5>1. CASE k = m
          BY <3>1, <4>1, <4>2, <4>3, <5>1
        <5>2. CASE k # m
          BY <3>1, <4>2, <4>3, <5>2, Zenon
        <5> QED BY <5>1, <5>2, Zenon
      <4>5. lastUID' \in LastUIDs /\ missed' \subseteq Models /\ (~ DeletesMiss => missed' = {})
        BY <2>1, <3>1, Zenon DEF Tidy, Resources
      <4> QED BY <3>1, <4>2, <4>3, <4>4, <4>5, Zenon DEF Resources
    <3> QED BY <1>5, <3>2, <3>3, Zenon
  <2>4. \A k \in Models : Known(k) => Known(k)'
    BY <2>1, StaysKnown, ZenonT(30) DEF memory
  <2>5. Owing'
    BY <2>1, <2>4, Zenon DEF Tidy, Owing, stored, ghost
  <2> QED BY <2>2, <2>3, <2>5, Zenon DEF Tidy
<1>6. CASE Restart
  <2>1. /\ cache' = [m \in Models |-> NotCached] /\ parentCache' = NoParent
        /\ evicted' = {} /\ invalidated' = [m \in Models |-> {}]
        /\ call' = NoCall /\ claiming' = NoClaim /\ oldest' = uid /\ missed' = {}
        /\ owed' = [m \in Models |-> owed[m] /\ Present(entry[m])]
        /\ UNCHANGED <<stored, lastUID, uid, deleting, author, restored>>
        /\ faults' \in 0..MaxFaults
    <3>1. faults' \in 0..MaxFaults
      BY <1>6, FaultCounted, Zenon DEF Restart, Tidy
    <3> QED BY <1>6, <3>1, Zenon DEF Restart
  <2>2. NotCached \in CacheEntry /\ Whole(NotCached.json)
    BY ZenonT(30) DEF NotCached, CacheEntry, NoRecord, Record, NoReceipt, Receipt, NoUID, MaybeLock,
       ParentStatus, ModelStatus, Whole, Shared
  <2>3. Memories'
    BY <2>1, <2>2, NoParentIsParent, Zenon DEF Memories
  <2>4. Records' /\ Ghosts' /\ Owing'
    BY <2>1, ZenonT(30) DEF Tidy, Records, Ghosts, Owing, stored
  <2>5. Calls'
    BY <2>1, Zenon DEF Calls, NoCall, NoClaim, Call, NoUID
  <2>6. Resources'
    <3>1. uid \in [Models -> Nat] /\ \A m \in Models : uid[m] <= uid[m]
      BY DEF Tidy, Resources
    <3> QED BY <2>1, <3>1, Zenon DEF Tidy, Resources
  <2> QED BY <2>1, <2>3, <2>4, <2>5, <2>6, Zenon DEF Tidy
<1> QED BY <1>2, <1>3, <1>4, <1>5, <1>6, Zenon DEF Environment

LEMMA TidyInvariant == Spec => []Tidy
<1>1. Init => Tidy
  <2> SUFFICES ASSUME Init PROVE Tidy
    BY Zenon
  <2>1. NoRecord \in Record /\ Whole(NoRecord) /\ NotCached \in CacheEntry /\ Whole(NotCached.json)
    BY Zenon DEF NotCached, CacheEntry, NoRecord, Record, NoReceipt, Receipt, NoUID, MaybeLock,
       ParentStatus, ModelStatus, Whole, Shared
  <2>2. Records /\ Memories
    BY <2>1, NoParentIsParent, Zenon DEF Init, Records, Memories
  <2>3. Calls
    BY Zenon DEF Init, Calls, NoCall, NoClaim, Call, NoUID
  <2>4. Resources
    <3>1. lastUID \in [Models -> Nat] /\ lastUID \in LastUIDs
      BY CacheAssumption, Zenon DEF Init
    <3>2. uid = [m \in Models |-> IF lastUID[m] = 0 THEN 0 ELSE 1] /\ oldest = uid
          /\ deleting = [m \in Models |-> FALSE] /\ missed = {}
      BY Zenon DEF Init, NoUID
    <3>3. \A m \in Models : uid[m] <= lastUID[m] /\ oldest[m] <= uid[m] /\ uid[m] \in Nat
      BY <3>1, <3>2
    <3> QED BY <3>1, <3>2, <3>3, Zenon DEF Resources
  <2>5. Ghosts /\ Owing /\ faults \in 0..MaxFaults
    <3>1. faults = 0 /\ author = [m \in Models |-> 0] /\ owed = [m \in Models |-> FALSE]
          /\ restored = FALSE
      BY Zenon DEF Init, NoUID
    <3>2. faults \in 0..MaxFaults
      BY <3>1, CacheAssumption
    <3> QED BY <3>1, <3>2, Zenon DEF Ghosts, Owing
  <2> QED BY <2>2, <2>3, <2>4, <2>5, Zenon DEF Tidy
<1>2. Tidy /\ [Next]_vars => Tidy'
  <2> SUFFICES ASSUME Tidy, [Next]_vars PROVE Tidy'
    BY Zenon
  <2>1. CASE UNCHANGED vars
    <3>1. UNCHANGED <<stored, memory, call, claiming, resource, ghost, faults>>
      BY <2>1, Zenon DEF vars
    <3>2. Records' /\ Memories' /\ Calls' /\ Resources' /\ Ghosts' /\ faults' \in 0..MaxFaults
      BY <3>1, ZenonT(30) DEF Tidy, Records, Memories, Calls, Resources, Ghosts, stored, memory,
         resource, ghost
    <3>3. \A k \in Models : Known(k) => Known(k)'
      BY <3>1, StaysKnown, Zenon DEF memory
    <3>4. Owing'
      BY <3>1, <3>3, Zenon DEF Tidy, Owing, stored, ghost
    <3> QED BY <3>2, <3>4, Zenon DEF Tidy
  <2> QED BY <2>1, GopherStepTidy, CacheStepTidy, RepositoryStepTidy, EnvironmentTidy, Zenon DEF Next
<1> QED BY <1>1, <1>2, PTL DEF Spec

\* Whatever ConfigMapReconciler loses, restores or retries, the stored records, its cache
\* and the call in flight keep their types, and faults stay within their bound.
THEOREM TypeOKHolds == Spec => []TypeOK
<1>1. Tidy => TypeOK
  <2> SUFFICES ASSUME Tidy PROVE TypeOK
    BY Zenon
  <2>1. \A m \in Models : uid[m] \in 0..lastUID[m] /\ oldest[m] \in 0..uid[m]
    BY CacheAssumption DEF Tidy, Resources
  <2> QED BY <2>1, Zenon DEF Tidy, Records, Memories, Calls, Resources, Ghosts, TypeOK, CacheEntry
<1> QED BY <1>1, TidyInvariant, PTL

\* For any number of models, resources and faults, the shared part of an entry that is
\* owed is in the entry whenever there is one: a status, metadata or progress write never
\* replaces it by an entry without (validateHfArtifactChildMutation), whatever was lost
\* and restored before.
THEOREM OwnershipKeptHolds == Spec => []OwnershipKept
<1>1. Tidy => OwnershipKept
  BY Zenon DEF Tidy, Owing, OwnershipKept
<1> QED BY <1>1, TidyInvariant, PTL
-----------------------------------------------------------------------------
(***************************************************************************)
(* RestoredNotReady needs to know that the cache vouches for every record  *)
(* with a reference, as long as it has a parent to restore: otherwise a    *)
(* restoration would leave the status of a child as it was.  A deletion    *)
(* evicts the model of its resource, so the invariant holds as long as no  *)
(* other resource of the same name can have attached it in the meantime,   *)
(* and no delete task skips a record that is lost and restored later.      *)
(***************************************************************************)
\* No name passes from one resource to another.
NamesUsedOnce == \A last \in LastUIDs : \A m \in Models : last[m] <= 1

\* A cached model is not evicted, and belongs to the only resource of its name.
Orderly(m) ==
  /\ cache[m].uid <= 1 /\ invalidated[m] \subseteq {1}
  /\ cache[m].held => m \notin evicted
  /\ HasJSON(m) => cache[m].held
  /\ cache[m].json.ref => cache[m].json.uid = 1

Callers == call.uid <= 1 /\ claiming.uid <= 1

\* Nobody deletes m, and a cached parent has its record with it.
Vouched(m) ==
  /\ m \notin evicted /\ invalidated[m] = {}
  /\ Found(parentCache) => cache[m].held /\ HasJSON(m)

Supported(e) == \A m \in Models : e[m].ref => e[m].uid = 1 /\ Vouched(m)

Unready(p, e) ==
  p.status # "Ready" /\ \A m \in p.children : e[m].ref => e[m].status # "Ready"

\* Records that are those stored, or that an earlier restoration left unready.
Cautious(r) == restored \/ r.parent # parent => Unready(r.parent, r.entry)

\* The inductive invariant behind RestoredNotReady.
Sober ==
  /\ \A m \in Models : Orderly(m)
  /\ Callers /\ Supported(entry)
  /\ restored => Unready(parent, entry)

LEMMA UIDIsOne ==
  ASSUME NamesUsedOnce, Tidy, NEW m \in Models
  PROVE  uid[m] <= 1 /\ \A u \in UIDs(m) : u = 1
<1>1. lastUID \in LastUIDs /\ uid[m] \in Nat /\ oldest[m] \in Nat /\ uid[m] <= lastUID[m]
  BY Zenon DEF Tidy, Resources
<1>2. lastUID[m] \in Nat /\ lastUID[m] <= 1
  <2>1. lastUID \in [Models -> Nat] /\ lastUID[m] <= 1
    BY <1>1, CacheAssumption, Zenon DEF NamesUsedOnce
  <2> QED BY <2>1, Zenon
<1> QED BY <1>1, <1>2 DEF UIDs, NoUID

\* What the cache may restore with a reference is vouched for, and the other way round.
LEMMA TrustedIsVouched ==
  ASSUME Tidy, NEW ordinary, NEW m \in Trusted(ordinary), Orderly(m), CachedRecord(m).ref
  PROVE  CachedRecord(m).uid = 1 /\ Vouched(m)
<1>1. m \in Models /\ cache[m].held /\ ~ isModelUIDInvalidated(m, cache[m].uid)
  BY Zenon DEF Trusted, isModelMutationBlocked
<1>2. HasJSON(m) /\ CachedRecord(m) = cache[m].json
  <2>1. CASE HasJSON(m)
    BY <2>1, Zenon DEF CachedRecord
  <2>2. CASE ~ HasJSON(m)
    <3>1. CachedRecord(m) = [NoRecord EXCEPT !.status = cache[m].status]
      BY <2>2, Zenon DEF CachedRecord
    <3> QED BY <3>1, Zenon DEF NoRecord
  <2> QED BY <2>1, <2>2, Zenon
<1>3. cache[m].uid \in Nat /\ cache[m].uid <= 1 /\ invalidated[m] \subseteq {1}
  BY <1>1, Zenon DEF Tidy, Memories, CacheEntry, Orderly
<1>4. invalidated[m] = {}
  BY <1>1, <1>3 DEF isModelUIDInvalidated, NoUID
<1> QED BY <1>1, <1>2, <1>4, Zenon DEF Orderly, Vouched

LEMMA VouchedIsTrusted ==
  ASSUME NEW m \in Models, Vouched(m), Found(parentCache), NEW ordinary
  PROVE  m \in Trusted(ordinary)
<1>1. cache[m].held /\ HasJSON(m) /\ invalidated[m] = {}
  BY Zenon DEF Vouched
<1>2. ~ isModelMutationBlocked(m, cache[m].uid)
  BY <1>1, Zenon DEF isModelMutationBlocked, isModelUIDInvalidated, OwnedByAnother
<1> QED BY <1>1, <1>2, Zenon DEF Trusted

\* restoreHfArtifactParent: the children of the restored parent that have a
\* reference come back Failed, because the cache vouches for each of them.
LEMMA RestoreIsSober ==
  ASSUME Tidy, \A m \in Models : Orderly(m), NEW p, NEW e, NEW scope, NEW ordinary,
         Proper([parent |-> p, entry |-> e]),
         Supported(e), restored \/ p # parent => Unready(p, e)
  PROVE  LET q == Restore(p, e, scope, ordinary)
         IN  Supported(q.entry) /\ Cautious(q)
<1> DEFINE trusted == Trusted(ordinary)
           group   == RestoresParent(p, e, scope, trusted)
           e1      == IF group THEN RestoredChildren(p, e, trusted) ELSE e
           back(m) == m \in scope \cap trusted /\ ~ Present(e1[m]) /\ ~ CachedRecord(m).ref
           e2      == [m \in Models |-> IF back(m) THEN CachedRecord(m) ELSE e1[m]]
           p2      == IF group THEN RestoredParent(p, e, trusted) ELSE p
           q       == Restore(p, e, scope, ordinary)
<1>1. q.parent = p2 /\ q.entry = e2
  <2>1. q = [parent |-> p2, entry |-> e2]
    BY Zenon DEF Restore
  <2> QED BY <2>1
<1>2. e \in [Models -> Record] /\ (\A m \in Models : Whole(e[m])) /\ p \in ParentRecord
  BY Zenon DEF Proper
<1>3. \A m \in trusted : m \in Models /\ CachedRecord(m) \in Record
  BY CachedRecordIsRecord, Zenon DEF Trusted, Tidy
<1>4. ASSUME NEW m \in Back(p, e, trusted)
      PROVE  /\ m \in Models /\ [Child(e, m) EXCEPT !.status = "Failed"].status = "Failed"
             /\ [Child(e, m) EXCEPT !.status = "Failed"].uid = 1 /\ Vouched(m)
  <2>1. m \in trusted /\ Child(e, m).ref
    BY Zenon DEF Back
  <2>2. Child(e, m) \in Record /\ Child(e, m).uid = 1 /\ Vouched(m)
    <3>1. CASE Present(e[m])
      BY <1>2, <1>3, <2>1, <3>1, ZenonT(30) DEF Child, Supported
    <3>2. CASE ~ Present(e[m])
      <4>1. Child(e, m) = CachedRecord(m)
        BY <3>2, Zenon DEF Child
      <4> QED BY <1>3, <2>1, <4>1, TrustedIsVouched
    <3> QED BY <3>1, <3>2, Zenon
  <2>3. /\ [Child(e, m) EXCEPT !.status = "Failed"].status = "Failed"
        /\ [Child(e, m) EXCEPT !.status = "Failed"].uid = Child(e, m).uid
    BY <2>2, Zenon DEF Record
  <2> QED BY <1>3, <2>1, <2>2, <2>3, Zenon
<1>5. ASSUME NEW m \in Models, e2[m].ref
      PROVE  \/ e2[m] = e[m] /\ (group => m \notin Back(p, e, trusted))
             \/ /\ group /\ m \in Back(p, e, trusted)
                /\ e2[m] = [Child(e, m) EXCEPT !.status = "Failed"]
  <2>1. ~ back(m) /\ e2[m] = e1[m]
    BY <1>5, Zenon
  <2> QED BY <2>1, Zenon DEF RestoredChildren
<1> HIDE DEF back, e1, e2
<1>6. Supported(e2)
  <2> HIDE DEF group, trusted
  <2>1. ASSUME NEW m \in Models, e2[m].ref PROVE e2[m].uid = 1 /\ Vouched(m)
    <3>1. CASE e2[m] = e[m]
      BY <2>1, <3>1, Zenon DEF Supported
    <3>2. CASE e2[m] # e[m]
      BY <1>4, <1>5, <2>1, <3>2, Zenon
    <3> QED BY <3>1, <3>2, ZenonT(30)
  <2> QED BY <2>1, Zenon DEF Supported
<1>7. group => Unready(p2, e2)
  <2> SUFFICES ASSUME group PROVE Unready(p2, e2)
    BY ZenonT(30)
  <2>1. /\ p2.status # "Ready"
        /\ p2.children = IF Found(p) THEN p.children ELSE Back(p, e, trusted)
    BY ZenonT(30) DEF RestoredParent, Base
  <2>2. Found(parentCache)
    BY Zenon DEF RestoresParent, ParentNeedsRecovery
  <2>3. p2.children \subseteq Models
    BY <1>2, <1>4, <2>1, Zenon DEF ParentRecord
  <2> HIDE DEF group, p2
  <2>4. ASSUME NEW m \in p2.children, e2[m].ref PROVE e2[m].status # "Ready"
    <3>1. CASE m \in Back(p, e, trusted)
      BY <1>4, <1>5, <2>3, <2>4, <3>1, Zenon
    <3>2. CASE m \notin Back(p, e, trusted)
      <4>1. m \in Models /\ m \in p.children /\ Found(p) /\ e[m].ref
        BY <1>5, <2>1, <2>3, <2>4, <3>2, ZenonT(30)
      <4>2. Present(e[m]) /\ Vouched(m)
        BY <1>2, <4>1, Zenon DEF Whole, Shared, Supported
      <4>3. m \in trusted
        BY <2>2, <4>1, <4>2, VouchedIsTrusted, Zenon
      <4> QED BY <3>2, <4>1, <4>2, <4>3, Zenon DEF Back, Base, Child
    <3> QED BY <3>1, <3>2, Zenon
  <2> QED BY <2>1, <2>4, Zenon DEF Unready
<1>8. ~ group => p2 = p /\ ((restored \/ p # parent) => Unready(p2, e2))
  <2> SUFFICES ASSUME ~ group, restored \/ p # parent PROVE Unready(p, e2)
    BY Zenon
  <2> QED BY <1>2, <1>5, Zenon DEF Unready, ParentRecord
<1> QED BY <1>1, <1>6, <1>7, <1>8, ZenonT(30) DEF Cautious

LEMMA UnlostIsSober ==
  ASSUME Tidy, Sober
  PROVE  Supported(Unlost.entry) /\ Cautious(Unlost)
<1>1. Proper([parent |-> parent, entry |-> entry])
  BY Zenon DEF Tidy, Records, Proper
<1>2. CASE exists
  <2>1. Unlost.parent = parent /\ Unlost.entry = entry
    BY <1>2, Zenon DEF Unlost
  <2> QED BY <2>1, Zenon DEF Sober, Cautious
<1>3. CASE ~ exists
  <2>1. Unlost = Restore(parent, entry, Models, FALSE)
    BY <1>3, Zenon DEF Unlost
  <2> QED BY <1>1, <2>1, RestoreIsSober, Zenon DEF Sober
<1> QED BY <1>2, <1>3, Zenon

LEMMA RestoreAgainIsSober ==
  ASSUME Tidy, Sober, NEW scope, NEW ordinary
  PROVE  LET q == Restore(Unlost.parent, Unlost.entry, scope, ordinary)
         IN  Supported(q.entry) /\ Cautious(q)
<1> DEFINE p == Unlost.parent
           e == Unlost.entry
<1>1. Proper([parent |-> p, entry |-> e])
  <2>1. Proper(Unlost)
    BY UnlostIsFaithful, Zenon DEF Faithful
  <2>2. Unlost = [parent |-> p, entry |-> e]
    BY <2>1, Zenon DEF Proper
  <2> QED BY <2>1, <2>2, Zenon
<1>2. Supported(e) /\ (restored \/ p # parent => Unready(p, e))
  BY UnlostIsSober, Zenon DEF Cautious
<1> HIDE DEF p, e
<1>3. LET q == Restore(p, e, scope, ordinary) IN Supported(q.entry) /\ Cautious(q)
  BY <1>1, <1>2, RestoreIsSober, Zenon DEF Sober
<1> QED BY <1>3, Zenon DEF p, e

LEMMA LatestIsSober ==
  ASSUME Tidy, Sober, NEW scope
  PROVE  Supported(Latest(scope).entry) /\ Cautious(Latest(scope))
<1> DEFINE lost == {m \in scope : ~ Present(Unlost.entry[m])}
<1>1. Latest(scope) = Unlost \/ Latest(scope) = Restore(Unlost.parent, Unlost.entry, lost, FALSE)
  BY Zenon DEF Latest
<1> QED BY <1>1, UnlostIsSober, RestoreAgainIsSober, Zenon

\* cacheCommittedConfigMapEntries: after a commit the cache vouches for every
\* record with a reference.
LEMMA CommitIsRetained ==
  ASSUME Tidy, Tidy', Sober, NEW n, n.entry = entry', Supported(n.entry),
         NEW scope, NEW u \in {0, 1}, NEW changed, CacheModels(n, scope, u, changed)
  PROVE  (\A m \in Models : Orderly(m)') /\ Supported(entry)'
<1> DEFINE kept(m)  == cacheCommittedModelEntry(n, scope, u, changed, evicted', m)
           full(m, owner) ==
             [ held |-> TRUE, uid |-> owner, status |-> n.entry[m].status, json |-> n.entry[m] ]
           seeded(m) == [NotCached EXCEPT !.held = TRUE, !.status = n.entry[m].status]
<1>1. /\ \A m \in Models : cache'[m] = IF Present(n.entry[m]) THEN kept(m)
                                       ELSE IF m \in Removed(n) THEN NotCached ELSE cache[m]
      /\ evicted' = EvictedAfter(n, scope, u) /\ invalidated' = invalidated
  BY Zenon DEF CacheModels
<1>2. \A m \in Models : m \in evicted' => m \in evicted \/ m \in Removed(n)
  BY <1>1, ZenonT(30) DEF EvictedAfter
<1>3. \A m \in Removed(n) : ~ Present(n.entry[m])
  BY Zenon DEF Removed
<1>4. ASSUME NEW m \in Models
      PROVE  /\ n.entry[m] \in Record /\ Whole(n.entry[m])
             /\ cache[m].uid \in {0, 1} /\ invalidated[m] \subseteq {1}
             /\ cache[m].held => m \notin evicted
             /\ HasJSON(m) => cache[m].held
             /\ cache[m].json.ref => cache[m].json.uid = 1
             /\ n.entry[m].ref => n.entry[m].uid = 1 /\ m \notin evicted /\ invalidated[m] = {}
  <2>1. n.entry[m] \in Record /\ Whole(n.entry[m])
    BY Zenon DEF Tidy, Records
  <2>2. cache[m].uid \in Nat
    BY Zenon DEF Tidy, Memories, CacheEntry
  <2>3. Orderly(m) /\ Supported(n.entry)
    BY Zenon DEF Sober
  <2>4. cache[m].uid \in {0, 1}
    <3>1. cache[m].uid <= 1
      BY <2>3, Zenon DEF Orderly
    <3> QED BY <2>2, <3>1
  <2> QED BY <2>1, <2>3, <2>4, ZenonT(30) DEF Orderly, Supported, Vouched
<1>5. ASSUME NEW m \in Models, Present(n.entry[m])
      PROVE  \/ kept(m) = cache[m] /\ ~ n.entry[m].ref
             \/ kept(m) = seeded(m) /\ m \notin evicted /\ ~ n.entry[m].ref
             \/ m \notin evicted' /\ \E owner \in {0, 1} : kept(m) = full(m, owner)
  <2>1. CASE n.entry[m].ref
    <3>1. ~ Ordinary(n, m) /\ m \notin evicted'
      BY <1>2, <1>3, <1>4, <1>5, <2>1, Zenon DEF Ordinary, Shared
    <3>2. PICK owner \in {0, 1} : owner = IF Owns(n, scope, u, m) THEN u ELSE cache[m].uid
      BY <1>4, ZenonT(30)
    <3>3. ~ isModelUIDInvalidated(m, owner)
      BY <1>4, <2>1, Zenon DEF isModelUIDInvalidated
    <3>4. kept(m) = full(m, owner)
      BY <3>1, <3>2, <3>3, Zenon DEF cacheCommittedModelEntry
    <3> QED BY <3>1, <3>4, ZenonT(30)
  <2>2. CASE ~ n.entry[m].ref
    <3>1. PICK owner \in {0, 1} : owner = IF Owns(n, scope, u, m) THEN u ELSE cache[m].uid
      BY <1>4, Zenon
    <3>2. \/ kept(m) = cache[m]
          \/ kept(m) = seeded(m) /\ Seeds(scope, changed, m)
          \/ m \notin evicted' /\ kept(m) = full(m, owner)
      BY <3>1, Zenon DEF cacheCommittedModelEntry
    <3> QED BY <2>2, <3>2, Zenon DEF Seeds
  <2> QED BY <2>1, <2>2, Zenon
<1> HIDE DEF kept
<1>6. ASSUME NEW m \in Models
      PROVE  /\ cache'[m].uid <= 1
             /\ cache'[m].held => m \notin evicted'
             /\ Present(cache'[m].json) => cache'[m].held
             /\ cache'[m].json.ref => cache'[m].json.uid = 1
             /\ n.entry[m].ref => cache'[m].held /\ Present(cache'[m].json) /\ m \notin evicted'
  <2>1. CASE cache'[m] = cache[m] /\ ~ n.entry[m].ref /\ m \notin Removed(n)
    BY <1>2, <1>4, <2>1 DEF HasJSON
  <2>2. CASE Present(n.entry[m]) /\ cache'[m] = seeded(m) /\ m \notin evicted /\ ~ n.entry[m].ref
    <3>1. /\ cache'[m].uid = 0 /\ cache'[m].held
          /\ ~ cache'[m].json.ref /\ ~ Present(cache'[m].json)
      BY <2>2 DEF NotCached, NoRecord, NoUID, Present
    <3> QED BY <1>2, <1>3, <2>2, <3>1
  <2>3. CASE Present(n.entry[m]) /\ m \notin evicted' /\ \E owner \in {0, 1} : cache'[m] = full(m, owner)
    <3>1. PICK owner \in {0, 1} : cache'[m] = full(m, owner)
      BY <2>3, Zenon
    <3>2. cache'[m].uid = owner /\ cache'[m].held /\ cache'[m].json = n.entry[m]
      BY <3>1
    <3>3. owner <= 1
      OBVIOUS
    <3> QED BY <1>4, <2>3, <3>2, <3>3, ZenonT(30)
  <2>4. CASE ~ Present(n.entry[m]) /\ cache'[m] = NotCached
    <3>1. /\ cache'[m].uid = 0 /\ ~ cache'[m].held
          /\ ~ cache'[m].json.ref /\ ~ Present(cache'[m].json)
      BY <2>4 DEF NotCached, NoRecord, NoUID, Present
    <3>2. 0 <= 1
      OBVIOUS
    <3> QED BY <1>4, <2>4, <3>1, <3>2, ZenonT(30) DEF Whole, Shared
  <2>5. ~ Present(n.entry[m]) => ~ n.entry[m].ref
    BY <1>4, ZenonT(30) DEF Whole, Shared
  <2> QED BY <1>1, <1>3, <1>5, <2>1, <2>2, <2>3, <2>4, <2>5, Zenon
<1>7. \A m \in Models : Orderly(m)'
  BY <1>1, <1>4, <1>6, ZenonT(30) DEF Orderly, HasJSON
<1>8. Supported(entry)'
  BY <1>1, <1>4, <1>6, ZenonT(30) DEF Supported, Vouched, HasJSON
<1> QED BY <1>7, <1>8, Zenon

\* A model that is not cached, and one that is cached without a reference.
LEMMA EmptyIsOrderly ==
  ASSUME NEW m \in Models
  PROVE  /\ cache[m] = NotCached /\ invalidated[m] \subseteq {1} => Orderly(m)
         /\ cache'[m] = NotCached /\ invalidated'[m] \subseteq {1} => Orderly(m)'
<1>1. /\ NotCached.uid = 0 /\ ~ NotCached.held
      /\ ~ NotCached.json.ref /\ ~ Present(NotCached.json)
  BY Zenon DEF NotCached, NoRecord, NoUID, Present
<1> QED BY <1>1 DEF Orderly, HasJSON

LEMMA FullIsOrderly ==
  ASSUME NEW m \in Models, cache'[m].held, cache'[m].uid <= 1, ~ cache'[m].json.ref,
         m \notin evicted', invalidated'[m] \subseteq {1}
  PROVE  Orderly(m)'
BY Zenon DEF Orderly

LEMMA NobodyCalls == NoCall.uid <= 1 /\ NoClaim.uid <= 1
BY DEF NoCall, NoClaim, NoUID

\* What a step leaves of the cache of m and of the cached parent is still in order.
LEMMA StaysOrderly ==
  ASSUME NEW m \in Models, cache'[m] = cache[m], invalidated'[m] = invalidated[m],
         m \in evicted' => m \in evicted, Found(parentCache') => Found(parentCache)
  PROVE  (Orderly(m) => Orderly(m)') /\ (Vouched(m) => Vouched(m)')
<1>1. HasJSON(m)' <=> HasJSON(m)
  BY Zenon DEF HasJSON
<1> QED BY <1>1, Zenon DEF Orderly, Vouched

\* Steps that leave the cache alone and lose records, if they change any.
LEMMA LossIsSober ==
  ASSUME Tidy, Sober, Callers', UNCHANGED <<memory, restored>>, parent' = parent \/ parent' = NoParent,
         \A m \in Models : entry'[m] = entry[m] \/ ~ entry'[m].ref
  PROVE  Sober'
<1>1. UNCHANGED <<cache, parentCache, evicted, invalidated>>
  BY ZenonT(30) DEF memory
<1>2. \A m \in Models : (Orderly(m) => Orderly(m)') /\ (Vouched(m) => Vouched(m)')
  BY <1>1, StaysOrderly, Zenon
<1>3. \A m \in Models : Orderly(m)'
  BY <1>2, Zenon DEF Sober
<1>4. Supported(entry)'
  <2>1. Supported(entry)
    BY Zenon DEF Sober
  <2> QED BY <1>2, <2>1, ZenonT(30) DEF Supported
<1>5. restored' => Unready(parent, entry)'
  <2>1. parent.children \subseteq Models /\ (restored => Unready(parent, entry))
    BY Zenon DEF Sober, Tidy, Records, ParentRecord
  <2>2. NoParent.status # "Ready" /\ NoParent.children = {}
    BY Zenon DEF NoParent
  <2> QED BY <2>1, <2>2, Zenon DEF Unready
<1> QED BY <1>3, <1>4, <1>5, Zenon DEF Sober

\* A compare-and-swap, whose answer may be lost.
LEMMA SwapIsOrderly ==
  ASSUME Tidy, Tidy', Sober, NEW n, n.entry = entry', Supported(n.entry),
         NEW scope, NEW u \in {0, 1}, Commit(n, scope, u) \/ LoseAnswer(n)
  PROVE  (\A m \in Models : Orderly(m)') /\ Supported(entry)'
<1>1. CASE Commit(n, scope, u)
  <2>1. PICK changed : CacheModels(n, scope, u, changed)
    BY <1>1, Zenon DEF Commit, CacheCommitted
  <2> QED BY <2>1, CommitIsRetained, Zenon
<1>2. CASE LoseAnswer(n)
  <2>1. UNCHANGED <<cache, parentCache, evicted, invalidated>>
    BY <1>2, ZenonT(30) DEF LoseAnswer, memory
  <2>2. \A m \in Models : (Orderly(m) => Orderly(m)') /\ (Vouched(m) => Vouched(m)')
    BY <2>1, StaysOrderly, Zenon
  <2>3. \A m \in Models : Orderly(m)'
    BY <2>2, Zenon DEF Sober
  <2> QED BY <2>2, <2>3, ZenonT(30) DEF Supported
<1> QED BY <1>1, <1>2, Zenon

\* A compare-and-swap that gives nobody a reference, and makes nothing Ready that
\* was restored.
LEMMA StepIsSober ==
  ASSUME Tidy, Tidy', Sober, NEW r, Supported(r.entry), Cautious(r),
         NEW n, NEW scope, NEW u \in {0, 1}, Commit(n, scope, u) \/ LoseAnswer(n),
         \A m \in Models : entry'[m].ref => r.entry[m].ref /\ entry'[m].uid = r.entry[m].uid,
         restored' =>
           /\ restored \/ r.parent # parent
           /\ parent'.status = "Ready" => r.parent.status = "Ready"
           /\ parent'.children \subseteq r.parent.children
           /\ \A m \in parent'.children :
                entry'[m].ref /\ entry'[m].status = "Ready" => r.entry[m].status = "Ready",
         Callers'
  PROVE  Sober'
<1>1. entry' = n.entry
  BY ZenonT(30) DEF Commit, LoseAnswer, Store
<1>2. Supported(n.entry)
  BY <1>1, Zenon DEF Supported
<1>3. (\A m \in Models : Orderly(m)') /\ Supported(entry)'
  BY <1>1, <1>2, SwapIsOrderly, Zenon
<1>4. restored' => Unready(parent, entry)'
  <2> SUFFICES ASSUME restored' PROVE Unready(parent, entry)'
    BY Zenon
  <2>1. Unready(r.parent, r.entry)
    BY Zenon DEF Cautious
  <2>2. parent'.children \subseteq Models
    BY Zenon DEF Tidy, Records, ParentRecord
  <2> QED BY <2>1, <2>2, ZenonT(30) DEF Unready
<1> QED BY <1>3, <1>4, Zenon DEF Sober

\* A change by the repository to the entry of m that gives it no reference.
LEMMA ChangeIsSober ==
  ASSUME Tidy, Tidy', Sober, NEW r, Supported(r.entry), Cautious(r), NEW m \in Models,
         NEW p, p.status = "Ready" => r.parent.status = "Ready", p.children \subseteq r.parent.children,
         NEW e, \A k \in Models \ {m} : e[k] = r.entry[k],
         e[m].ref => r.entry[m].ref /\ e[m].uid = r.entry[m].uid /\ e[m].status = r.entry[m].status,
         NEW scope, NEW u \in {0, 1}, Change(scope, u, p, e), NoteRestored(r), claiming'.uid <= 1
  PROVE  Sober'
<1> DEFINE n == [parent |-> p, entry |-> e]
<1>1. (Commit(n, scope, u) \/ LoseAnswer(n)) /\ call' = call
  BY Zenon DEF Change
<1>2. parent' = p /\ entry' = e
  BY <1>1, ZenonT(30) DEF Commit, LoseAnswer, Store
<1>3. parent'.children \subseteq Models
  BY ZenonT(30) DEF Tidy, Records, ParentRecord
<1> HIDE DEF n
<1>4. \A k \in Models : entry'[k].ref => /\ r.entry[k].ref /\ entry'[k].uid = r.entry[k].uid
                                         /\ entry'[k].status = r.entry[k].status
  BY <1>2, Zenon
<1>5. Callers'
  BY <1>1, ZenonT(30) DEF Sober, Callers
<1>6. restored' =>
        /\ restored \/ r.parent # parent
        /\ parent'.status = "Ready" => r.parent.status = "Ready"
        /\ parent'.children \subseteq r.parent.children
        /\ \A k \in parent'.children :
             entry'[k].ref /\ entry'[k].status = "Ready" => r.entry[k].status = "Ready"
  BY <1>2, <1>3, <1>4, Zenon DEF NoteRestored
<1>7. \A k \in Models : entry'[k].ref => r.entry[k].ref /\ entry'[k].uid = r.entry[k].uid
  BY <1>4, Zenon
<1> QED BY <1>1, <1>5, <1>6, <1>7, StepIsSober, Zenon

\* The actions of the repository on one model, AddModelReference aside.
LEMMA SettlingIsSober ==
  ASSUME NamesUsedOnce, Tidy, Tidy', Sober, NEW m \in Models,
         \/ \E u \in UIDs(m) :
              \/ RememberDownload(m, u) \/ BeginPendingDownloadDeletion(m, u)
              \/ \E l \in Locks : RemoveModelReference(m, u, l)
         \/ ClaimPendingDeletion(m) \/ FinishPendingDeletion(m)
         \/ \E l \in Locks : DeletionParent(m, l)
  PROVE  Sober'
<1>1. UIDs(m) \subseteq {1} /\ uid[m] <= 1 /\ claiming.uid <= 1 /\ NoUID \in {0, 1}
  BY UIDIsOne, Zenon DEF Sober, Callers, NoUID
<1>2. /\ Supported(Unlost.entry) /\ Cautious(Unlost)
      /\ Unlost.entry \in [Models -> Record] /\ Unlost.parent \in ParentRecord
  BY UnlostIsSober, UnlostIsFaithful, Zenon DEF Faithful, Proper
<1>3. ASSUME NEW u \in UIDs(m), RememberDownload(m, u) PROVE Sober'
  <2> DEFINE r == Latest({m})
             e == [rememberDownload(r.entry, m) EXCEPT ![m].uid = u]
  <2>1. Supported(r.entry) /\ Cautious(r) /\ r.entry \in [Models -> Record]
    BY LatestIsSober, LatestIsFaithful, Zenon DEF Faithful, Proper
  <2>2. /\ Change({m}, u, r.parent, e) /\ ~ r.entry[m].ref
        /\ NoteRestored(r) /\ claiming' = claiming
    BY <1>3, Zenon DEF RememberDownload
  <2> HIDE DEF r
  <2>3. ~ e[m].ref /\ \A k \in Models \ {m} : e[k] = r.entry[k]
    BY <2>1, <2>2, Zenon DEF rememberDownload, Record
  <2> HIDE DEF e
  <2> QED BY <1>1, <2>1, <2>2, <2>3, ChangeIsSober, ZenonT(30)
<1> DEFINE r == Unlost
<1>4. ASSUME NEW u \in UIDs(m), BeginPendingDownloadDeletion(m, u) PROVE Sober'
  <2> DEFINE e == beginPendingDownloadDeletion(r.entry, m)
  <2>1. Change({}, NoUID, r.parent, e) /\ NoteRestored(r) /\ claiming' = claiming
    BY <1>4, Zenon DEF BeginPendingDownloadDeletion
  <2> HIDE DEF r
  <2>2. /\ \A k \in Models \ {m} : e[k] = r.entry[k]
        /\ e[m].ref = r.entry[m].ref /\ e[m].uid = r.entry[m].uid /\ e[m].status = r.entry[m].status
    BY <1>2, ZenonT(30) DEF beginPendingDownloadDeletion, Record, r
  <2> HIDE DEF e
  <2> QED BY <1>1, <1>2, <2>1, <2>2, ChangeIsSober, ZenonT(30) DEF r
<1>5. ASSUME NEW u \in UIDs(m), NEW l \in Locks, RemoveModelReference(m, u, l) PROVE Sober'
  <2> DEFINE p == removeFromParent(r.parent, m, l)
             e == [removeFromModel(r.parent, r.entry, m, l) EXCEPT
                     ![m].uid = u, ![m].receipt.before = "absent"]
  <2>1. Change({}, NoUID, p, e) /\ NoteRestored(r) /\ claiming' = claiming
    BY <1>5, Zenon DEF RemoveModelReference
  <2>2. r.entry \in [Models -> Record] /\ r.parent \in ParentRecord
    BY <1>2, Zenon
  <2> HIDE DEF r
  <2>3. ~ e[m].ref /\ \A k \in Models \ {m} : e[k] = r.entry[k]
    BY <2>2, ZenonT(30) DEF removeFromModel, Record
  <2>4. (p.status = "Ready" => r.parent.status = "Ready") /\ p.children \subseteq r.parent.children
    BY <2>2, Zenon DEF removeFromParent, tryAcquireLock, ParentRecord
  <2> HIDE DEF e, p
  <2> QED BY <1>1, <1>2, <2>1, <2>3, <2>4, ChangeIsSober, ZenonT(30) DEF r
<1>6. ASSUME ClaimPendingDeletion(m) PROVE Sober'
  <2> DEFINE e == [r.entry EXCEPT ![m].uid = uid[m]]
  <2>1. Change({}, NoUID, r.parent, e) /\ NoteRestored(r) /\ ~ r.entry[m].ref
    BY <1>6, Zenon DEF ClaimPendingDeletion
  <2>2. claiming'.uid <= 1
    BY <1>1, <1>6, Zenon DEF ClaimPendingDeletion, NoClaim, NoUID
  <2> HIDE DEF r
  <2>3. ~ e[m].ref /\ \A k \in Models \ {m} : e[k] = r.entry[k]
    BY <1>2, <2>1, Zenon DEF Record, r
  <2> HIDE DEF e
  <2> QED BY <1>1, <1>2, <2>1, <2>2, <2>3, ChangeIsSober, Zenon DEF r
<1>7. ASSUME FinishPendingDeletion(m) PROVE Sober'
  <2> DEFINE e == [finishPendingDeletion(r.entry, m) EXCEPT ![m].uid = NoUID]
  <2>1. Change({}, NoUID, r.parent, e) /\ NoteRestored(r) /\ ~ r.entry[m].ref /\ claiming' = claiming
    BY <1>7, Zenon DEF FinishPendingDeletion
  <2> HIDE DEF r
  <2>2. ~ e[m].ref /\ \A k \in Models \ {m} : e[k] = r.entry[k]
    BY <1>2, <2>1, Zenon DEF finishPendingDeletion, Record, r
  <2> HIDE DEF e
  <2> QED BY <1>1, <1>2, <2>1, <2>2, ChangeIsSober, Zenon DEF r
<1>8. ASSUME NEW l \in Locks, DeletionParent(m, l) PROVE Sober'
  <2> DEFINE p == tryAcquireLock(r.parent, l)
             e == [claimDeletion(r.parent, r.entry, m, l) EXCEPT ![m].receipt.before = "absent"]
  <2>1. Change({}, NoUID, p, e) /\ NoteRestored(r) /\ ~ r.entry[m].ref /\ claiming' = claiming
    BY <1>8, Zenon DEF DeletionParent
  <2>2. r.entry \in [Models -> Record] /\ r.parent \in ParentRecord
    BY <1>2, Zenon
  <2> HIDE DEF r
  <2>3. ~ e[m].ref /\ \A k \in Models \ {m} : e[k] = r.entry[k]
    BY <2>1, <2>2 DEF claimDeletion, Record
  <2>4. p.status # "Ready" /\ p.children = r.parent.children
    BY <2>2, Zenon DEF tryAcquireLock, ParentRecord
  <2> HIDE DEF e, p
  <2> QED BY <1>1, <1>2, <2>1, <2>3, <2>4, ChangeIsSober, Zenon DEF r
<1> QED BY <1>3, <1>4, <1>5, <1>6, <1>7, <1>8, Zenon

\* AddModelReference joins a parent that is Ready, so nothing was restored, and a
\* model that the cache knows.
LEMMA AddModelReferenceSober ==
  ASSUME NamesUsedOnce, Tidy, Tidy', Sober, NEW m \in Models, NEW u \in UIDs(m), AddModelReference(m, u)
  PROVE  Sober'
<1> DEFINE r == Unlost
           e == [addToModel(r.entry, m) EXCEPT ![m].uid = u]
           n == [parent |-> addToParent(r.parent, m), entry |-> e]
<1>1. u = 1 /\ NoUID \in {0, 1}
  BY UIDIsOne, Zenon DEF NoUID
<1>2. /\ (Commit(n, {}, NoUID) \/ LoseAnswer(n)) /\ UNCHANGED <<call, claiming>>
      /\ Shared(cache[m].json) /\ ~ isModelMutationBlocked(m, u)
      /\ r.parent.status = "Ready" /\ NoteRestored(r)
  BY Zenon DEF AddModelReference, Change, CanAddReference
<1>3. Supported(r.entry) /\ Cautious(r) /\ r.entry \in [Models -> Record]
  BY UnlostIsSober, UnlostIsFaithful, Zenon DEF Faithful, Proper
<1> HIDE DEF r
<1>4. ~ restored'
  BY <1>2, <1>3, Zenon DEF Cautious, Unready, NoteRestored
<1>5. e[m].uid = 1 /\ \A k \in Models \ {m} : e[k] = r.entry[k]
  BY <1>1, <1>3, Zenon DEF addToModel, Record
<1>6. Vouched(m)
  <2>1. HasJSON(m)
    BY <1>2, Zenon DEF Tidy, Memories, Whole, HasJSON
  <2>2. u \notin invalidated[m] /\ invalidated[m] \subseteq {1}
    BY <1>1, <1>2, Zenon DEF isModelMutationBlocked, isModelUIDInvalidated, NoUID, Sober, Orderly
  <2> QED BY <1>1, <2>1, <2>2, Zenon DEF Vouched, Sober, Orderly
<1>7. Supported(e) /\ entry' = e /\ n.entry = e
  <2>1. entry' = n.entry
    BY <1>2, Zenon DEF Commit, LoseAnswer, Store
  <2> QED BY <1>3, <1>5, <1>6, <2>1, Zenon DEF Supported
<1> HIDE DEF n, e
<1>8. (\A k \in Models : Orderly(k)') /\ Supported(entry)'
  BY <1>1, <1>2, <1>7, SwapIsOrderly, ZenonT(30)
<1>9. Callers'
  BY <1>2, Zenon DEF Sober, Callers
<1> QED BY <1>4, <1>8, <1>9, Zenon DEF Sober

\* TryAcquireLock, setStatus, MarkChildrenFailedForRepair and DeleteIfUnreferenced.
LEMMA ParentChangesSober ==
  ASSUME Tidy, Tidy', Sober,
         \/ \E l \in Locks : TryAcquireLock(l)
         \/ \E status \in {"Ready", "Failed", "Updating"} : SetStatus(status)
         \/ MarkChildrenFailedForRepair
         \/ DeleteIfUnreferenced
  PROVE  Sober'
<1> DEFINE r == Unlost
<1>1. /\ Supported(r.entry) /\ Cautious(r)
      /\ r.entry \in [Models -> Record] /\ r.parent \in ParentRecord
  BY UnlostIsSober, UnlostIsFaithful, Zenon DEF Faithful, Proper
<1>2. ASSUME NEW p, NEW e, NEW unvalidated, ChangeParent(p, e, unvalidated),
             \A m \in Models : e[m].ref => r.entry[m].ref /\ e[m].uid = r.entry[m].uid,
             unvalidated =>
               /\ restored \/ r.parent # parent
               /\ p.status # "Ready" /\ p.children = r.parent.children
               /\ \A m \in Models : e[m].status = "Ready" => r.entry[m].status = "Ready"
      PROVE  Sober'
  <2> DEFINE n == [parent |-> p, entry |-> e]
  <2>1. /\ Commit(n, {}, NoUID) \/ LoseAnswer(n)
        /\ UNCHANGED <<call, claiming>> /\ restored' = unvalidated
    BY <1>2, ZenonT(30) DEF ChangeParent, Change
  <2>2. parent' = p /\ entry' = e
    BY <2>1, Zenon DEF Commit, LoseAnswer, Store
  <2> HIDE DEF n, r
  <2>3. r.parent.children \subseteq Models
    BY <1>1, Zenon DEF ParentRecord
  <2>4. Callers' /\ NoUID \in {0, 1}
    BY <2>1, Zenon DEF Sober, Callers, NoUID
  <2> QED BY <1>1, <1>2, <2>1, <2>2, <2>3, <2>4, StepIsSober, ZenonT(30)
<1>3. ASSUME NEW l \in Locks, TryAcquireLock(l) PROVE Sober'
  <2> DEFINE p == tryAcquireLock(r.parent, l)
  <2>1. ChangeParent(p, r.entry, restored \/ r.parent # parent)
    BY <1>3, Zenon DEF TryAcquireLock
  <2> HIDE DEF r
  <2>2. p.status # "Ready" /\ p.children = r.parent.children
    BY <1>1, Zenon DEF tryAcquireLock, ParentRecord
  <2> HIDE DEF p
  <2> QED BY <1>2, <2>1, <2>2, Zenon
<1>4. ASSUME NEW status \in {"Ready", "Failed", "Updating"}, SetStatus(status) PROVE Sober'
  <2> DEFINE p == setParentStatus(r.parent, status)
             e == setChildStatuses(r.parent, r.entry, status)
  <2>1. ChangeParent(p, e, status # "Ready" /\ (restored \/ r.parent # parent))
    BY <1>4, Zenon DEF SetStatus
  <2> HIDE DEF r
  <2>2. p.status = status /\ p.children = r.parent.children
    BY <1>1, Zenon DEF setParentStatus, ParentRecord
  <2>3. \A m \in Models : /\ e[m].ref = r.entry[m].ref /\ e[m].uid = r.entry[m].uid
                          /\ status # "Ready" => e[m] = r.entry[m]
    BY <1>1, Zenon DEF setChildStatuses, Record
  <2> HIDE DEF p, e
  <2>4. \A m \in Models : e[m].ref => r.entry[m].ref /\ e[m].uid = r.entry[m].uid
    BY <2>3, Zenon
  <2>5. status # "Ready" /\ (restored \/ r.parent # parent) =>
          /\ restored \/ r.parent # parent
          /\ p.status # "Ready" /\ p.children = r.parent.children
          /\ \A m \in Models : e[m].status = "Ready" => r.entry[m].status = "Ready"
    BY <2>2, <2>3, Zenon
  <2> QED BY <1>2, <2>1, <2>4, <2>5, Zenon
<1>5. ASSUME MarkChildrenFailedForRepair PROVE Sober'
  <2> DEFINE p == saveChildStatuses(r.parent, r.entry)
             e == failChildren(r.parent, r.entry)
  <2>1. ChangeParent(p, e, restored \/ r.parent # parent) /\ r.parent.status = "Updating"
    BY <1>5, Zenon DEF MarkChildrenFailedForRepair, OwnedBy
  <2> HIDE DEF r
  <2>2. p.status = r.parent.status /\ p.children = r.parent.children
    BY <1>1, Zenon DEF saveChildStatuses, ParentRecord
  <2>3. \A m \in Models : /\ e[m].ref = r.entry[m].ref /\ e[m].uid = r.entry[m].uid
                          /\ e[m].status = "Ready" => r.entry[m].status = "Ready"
    BY <1>1, Zenon DEF failChildren, Record
  <2> HIDE DEF p, e
  <2>4. \A m \in Models : e[m].ref => r.entry[m].ref /\ e[m].uid = r.entry[m].uid
    BY <2>3, Zenon
  <2>5. restored \/ r.parent # parent =>
          /\ restored \/ r.parent # parent
          /\ p.status # "Ready" /\ p.children = r.parent.children
          /\ \A m \in Models : e[m].status = "Ready" => r.entry[m].status = "Ready"
    BY <2>1, <2>2, <2>3, Zenon
  <2> QED BY <1>2, <2>1, <2>4, <2>5, Zenon
<1>6. ASSUME DeleteIfUnreferenced PROVE Sober'
  <2>1. ChangeParent(NoParent, r.entry, FALSE)
    BY <1>6, Zenon DEF DeleteIfUnreferenced
  <2> HIDE DEF r
  <2> QED BY <1>2, <2>1, Zenon
<1> QED BY <1>3, <1>4, <1>5, <1>6, Zenon

\* Reading the records again: getConfigMapForRecovery, updateConfigMapWithRetry, deletionParent.
LEMMA RereadIsSober ==
  ASSUME Tidy, Tidy', Sober, NEW changed,
         CacheModels([parent |-> parent, entry |-> entry], {}, NoUID, changed),
         UNCHANGED <<stored, call, claiming, restored>>
  PROVE  Sober'
<1> DEFINE n == [parent |-> parent, entry |-> entry]
<1>1. /\ n.entry = entry' /\ Supported(n.entry) /\ NoUID \in {0, 1}
      /\ UNCHANGED <<call, claiming, restored, parent, entry>>
  BY Zenon DEF stored, Sober, NoUID
<1> HIDE DEF n
<1>2. CacheModels(n, {}, NoUID, changed)
  BY ZenonT(30) DEF n
<1>3. (\A m \in Models : Orderly(m)') /\ Supported(entry)'
  BY <1>1, <1>2, CommitIsRetained, ZenonT(30)
<1>4. Callers' /\ (restored' => Unready(parent, entry)')
  BY <1>1 DEF Sober, Callers, Unready
<1> QED BY <1>3, <1>4, Zenon DEF Sober

\* A step on the cache of m alone, which has no reference.
LEMMA OneModelIsSober ==
  ASSUME Sober, NEW m, ~ entry[m].ref, Orderly(m)', Callers', UNCHANGED <<parent, entry, restored>>,
         \A k \in Models \ {m} : (Orderly(k) => Orderly(k)') /\ (Vouched(k) => Vouched(k)')
  PROVE  Sober'
<1>1. \A k \in Models : Orderly(k)'
  BY Zenon DEF Sober
<1>2. Supported(entry)'
  <2>1. Supported(entry)
    BY Zenon DEF Sober
  <2> QED BY <2>1, ZenonT(30) DEF Supported
<1>3. restored' => Unready(parent, entry)'
  BY Zenon DEF Sober, Unready
<1> QED BY <1>1, <1>2, <1>3, Zenon DEF Sober

LEMMA AdoptPendingDeletionUIDSober ==
  ASSUME NamesUsedOnce, Tidy, Tidy', Sober, AdoptPendingDeletionUID
  PROVE  Sober'
<1>1. /\ claiming # NoClaim /\ claiming' = NoClaim
      /\ UNCHANGED <<parent, entry, parentCache, call, restored>>
  BY Zenon DEF AdoptPendingDeletionUID, stored, ghost
<1>2. PICK m \in Models : m = claiming.model
  BY <1>1, Zenon DEF Tidy, Calls
<1>3. Callers'
  BY <1>1, NobodyCalls, Zenon DEF Sober, Callers
<1>4. CASE UNCHANGED <<invalidated, cache, evicted>>
  BY <1>1, <1>3, <1>4, LossIsSober, Zenon DEF memory
<1>5. CASE ~ UNCHANGED <<invalidated, cache, evicted>>
  <2> DEFINE u == claiming.uid
  <2>1. /\ ~ entry[m].ref
        /\ invalidated' = [invalidated EXCEPT ![m] =
             IF OwnedByAnother(m, u) THEN @ \cup {cache[m].uid} ELSE @]
        /\ cache' = [cache EXCEPT ![m] =
             [ held |-> TRUE, uid |-> u, status |-> entry[m].status, json |-> entry[m] ]]
        /\ evicted' = evicted \ {m}
    BY <1>2, <1>5, Zenon DEF AdoptPendingDeletionUID
  <2>2. cache \in [Models -> CacheEntry] /\ invalidated \in [Models -> SUBSET Nat]
    BY Zenon DEF Tidy, Memories
  <2> HIDE DEF u
  <2>3. u <= 1 /\ cache[m].uid <= 1 /\ cache[m].uid \in Nat /\ invalidated[m] \subseteq {1}
    <3>1. Orderly(m) /\ Callers
      BY <1>2, Zenon DEF Sober
    <3> QED BY <1>2, <2>2, <3>1, Zenon DEF u, Callers, Orderly, CacheEntry
  <2>4. /\ cache'[m] = [ held |-> TRUE, uid |-> u, status |-> entry[m].status, json |-> entry[m] ]
        /\ \A k \in Models \ {m} : cache'[k] = cache[k] /\ invalidated'[k] = invalidated[k]
    BY <1>2, <2>1, <2>2, Zenon
  <2>5. invalidated'[m] \subseteq {1}
    <3>1. \/ invalidated'[m] = invalidated[m]
          \/ OwnedByAnother(m, u) /\ invalidated'[m] = invalidated[m] \cup {cache[m].uid}
      BY <1>2, <2>1, <2>2, Zenon
    <3> QED BY <2>3, <3>1 DEF OwnedByAnother, NoUID
  <2>6. Orderly(m)'
    <3>1. u <= 1 /\ ~ entry[m].ref /\ m \notin evicted'
      BY <2>1, <2>3, ZenonT(30)
    <3>2. cache'[m].held /\ cache'[m].uid = u /\ cache'[m].json = entry[m]
      BY <2>4
    <3> QED BY <1>2, <2>5, <3>1, <3>2, FullIsOrderly, Zenon
  <2>7. \A k \in Models \ {m} : (Orderly(k) => Orderly(k)') /\ (Vouched(k) => Vouched(k)')
    BY <1>1, <2>1, <2>4, StaysOrderly, Zenon
  <2> QED BY <1>1, <1>3, <2>1, <2>6, <2>7, OneModelIsSober, Zenon
<1> QED BY <1>4, <1>5, Zenon

LEMMA RepositoryStepSober ==
  ASSUME NamesUsedOnce, Tidy, Tidy', Sober, RepositoryStep
  PROVE  Sober'
<1>1. ASSUME NEW m \in Models, DeletedParent(m) PROVE Sober'
  <2>1. /\ CacheModels([parent |-> parent, entry |-> entry], {}, NoUID, {})
        /\ UNCHANGED <<stored, call, claiming, restored>>
    BY <1>1, Zenon DEF DeletedParent, ghost
  <2> QED BY <2>1, RereadIsSober, Zenon
<1> QED BY <1>1, SettlingIsSober, AddModelReferenceSober, AdoptPendingDeletionUIDSober,
           ParentChangesSober, Zenon DEF RepositoryStep

\* mutateModelEntryWithRetry: a write changes the status of m, and does not
\* make it Ready if it has a reference and its parent is not.
LEMMA WriteIsSober ==
  ASSUME Tidy, Tidy', Sober, NEW m \in Models, NEW r, Proper(r), Supported(r.entry), Cautious(r),
         NEW then, then.uid <= 1, NEW n, Write(m, 1, r, n, then),
         \/ n = r
         \/ \E status \in ModelStatus :
              /\ n = [r EXCEPT !.entry[m].status = status]
              /\ status = "Ready" /\ r.entry[m].ref => r.parent.status = "Ready"
  PROVE  Sober'
<1>1. PICK q \in {n, r} : Commit(q, {m}, 1) \/ LoseAnswer(q)
  BY Zenon DEF Write
<1>2. UNCHANGED claiming /\ NoteRestored(r) /\ (call' = then \/ call' = call)
  BY Zenon DEF Write
<1>3. /\ r = [parent |-> r.parent, entry |-> r.entry]
      /\ r.entry \in [Models -> Record] /\ r.parent \in ParentRecord
  BY Zenon DEF Proper
<1> DEFINE gentle ==
             /\ q.parent = r.parent
             /\ \A k \in Models :
                  /\ q.entry[k].ref = r.entry[k].ref /\ q.entry[k].uid = r.entry[k].uid
                  /\ q.entry[k].ref /\ q.entry[k].status = "Ready" =>
                       r.entry[k].status = "Ready" \/ r.parent.status = "Ready"
<1>4. gentle
  <2>1. CASE q = r
    BY <2>1, Zenon
  <2>2. ASSUME NEW status \in ModelStatus, q = [r EXCEPT !.entry[m].status = status],
               status = "Ready" /\ r.entry[m].ref => r.parent.status = "Ready"
        PROVE  gentle
    <3>1. PICK x : x = [r.entry[m] EXCEPT !.status = status]
      BY Zenon
    <3>2. q.parent = r.parent /\ q.entry = [r.entry EXCEPT ![m] = x]
      BY <1>3, <2>2, <3>1, Zenon
    <3>3. x.ref = r.entry[m].ref /\ x.uid = r.entry[m].uid /\ x.status = status
      BY <1>3, <3>1, ZenonT(30) DEF Record
    <3>4. q.entry[m] = x /\ \A k \in Models \ {m} : q.entry[k] = r.entry[k]
      BY <1>3, <3>2, Zenon
    <3> QED BY <2>2, <3>2, <3>3, <3>4, Zenon
  <2> QED BY <2>1, <2>2, Zenon
<1>5. parent' = q.parent /\ entry' = q.entry
  BY <1>1, Zenon DEF Commit, LoseAnswer, Store
<1>6. restored' => (restored \/ r.parent # parent) /\ r.parent.status # "Ready"
  BY <1>2, Zenon DEF NoteRestored, Cautious, Unready
<1>7. Callers' /\ r.parent.children \subseteq Models
  BY <1>2, <1>3, Zenon DEF Sober, Callers, ParentRecord
<1> QED BY <1>1, <1>4, <1>5, <1>6, <1>7, StepIsSober

\* updateModelStatusInConfigMap, and the metadata and progress writes.
LEMMA WritesSober ==
  ASSUME NamesUsedOnce, Tidy, Tidy', Sober, NEW m \in Models, NEW u \in UIDs(m),
         \/ \E status \in Published : ReconcileModelStatus(m, u, status)
         \/ StatusNotReady(m, u)
         \/ ReconcileModelMetadata(m, u) \/ ReconcileModelProgress(m, u)
  PROVE  Sober'
<1> DEFINE r == Latest({m})
<1>1. u = 1 /\ "Ready" \in ModelStatus /\ "Updating" \in ModelStatus
  BY UIDIsOne, Zenon DEF ModelStatus
<1>2. Proper(r) /\ Supported(r.entry) /\ Cautious(r)
  BY LatestIsSober, LatestIsFaithful, Zenon DEF Faithful
<1>3. (\A status : Then(m, 1, status).uid <= 1) /\ NoCall.uid <= 1
  BY DEF Then, NoCall, NoUID
<1>4. ASSUME NEW status \in Published, ReconcileModelStatus(m, u, status) PROVE Sober'
  <2>1. status \in ModelStatus
    BY CacheAssumption, Zenon
  <2>2. /\ Write(m, 1, r, [r EXCEPT !.entry[m].status = status], Then(m, 1, status))
        /\ status = "Ready" /\ r.entry[m].ref => r.parent.status = "Ready"
    BY <1>1, <1>4, Zenon DEF ReconcileModelStatus, ReadyBlocked
  <2> HIDE DEF r
  <2> QED BY <1>2, <1>3, <2>1, <2>2, WriteIsSober, Zenon
<1>5. ASSUME StatusNotReady(m, u) PROVE Sober'
  <2>1. Commit(r, {m}, 1) /\ NoteRestored(r) /\ UNCHANGED <<call, claiming>>
    BY <1>1, <1>5, Zenon DEF StatusNotReady
  <2> HIDE DEF r
  <2>2. parent' = r.parent /\ entry' = r.entry
    BY <2>1, Zenon DEF Commit, Store
  <2>3. restored' => restored \/ r.parent # parent
    BY <2>1, Zenon DEF NoteRestored
  <2>4. Callers'
    BY <2>1, Zenon DEF Sober, Callers
  <2> QED BY <1>2, <2>1, <2>2, <2>3, <2>4, StepIsSober, ZenonT(30)
<1>6. ASSUME NEW status \in ModelStatus, NEW then, then.uid <= 1,
             Write(m, 1, r, Assumed(r, m, status), then)
      PROVE  Sober'
  <2> HIDE DEF r
  <2>1. CASE Present(r.entry[m])
    <3>1. Assumed(r, m, status) = r
      BY <2>1, Zenon DEF Assumed
    <3> QED BY <1>2, <1>6, <3>1, WriteIsSober, Zenon
  <2>2. CASE ~ Present(r.entry[m])
    <3>1. Assumed(r, m, status) = [r EXCEPT !.entry[m].status = status]
      BY <2>2, Zenon DEF Assumed
    <3>2. ~ r.entry[m].ref
      BY <1>2, <2>2, Zenon DEF Proper, Whole, Shared
    <3> QED BY <1>2, <1>6, <3>1, <3>2, WriteIsSober, Zenon
  <2> QED BY <2>1, <2>2, Zenon
<1>7. ASSUME ReconcileModelMetadata(m, u) PROVE Sober'
  <2>1. Write(m, 1, r, Assumed(r, m, "Ready"), Then(m, 1, "blank"))
    BY <1>1, <1>7, Zenon DEF ReconcileModelMetadata
  <2> HIDE DEF r
  <2> QED BY <1>1, <1>3, <1>6, <2>1, Zenon
<1>8. ASSUME ReconcileModelProgress(m, u) PROVE Sober'
  <2>1. Write(m, 1, r, Assumed(r, m, "Updating"), NoCall)
    BY <1>1, <1>8, Zenon DEF ReconcileModelProgress
  <2> HIDE DEF r
  <2> QED BY <1>1, <1>3, <1>6, <2>1, Zenon
<1> QED BY <1>4, <1>5, <1>7, <1>8, Zenon

\* cacheOrdinaryModel caches a record only of a model without one.
LEMMA CacheOrdinarySober ==
  ASSUME Tidy, Sober, CacheOrdinary
  PROVE  Sober'
<1>1. /\ call' = NoCall
      /\ UNCHANGED <<parent, entry, parentCache, invalidated, claiming, restored>>
  BY Zenon DEF CacheOrdinary, stored, ghost
<1> PICK m \in Models : m = call.model
  BY Zenon DEF CacheOrdinary, Tidy, Calls
<1>2. Callers'
  BY <1>1, NobodyCalls, Zenon DEF Sober, Callers
<1>3. CASE UNCHANGED <<cache, evicted>>
  BY <1>1, <1>2, <1>3, LossIsSober, ZenonT(30) DEF memory
<1>4. CASE ~ UNCHANGED <<cache, evicted>>
  <2>1. PICK status : /\ ~ HasJSON(m) /\ evicted' = evicted \ {m}
                      /\ cache' = [cache EXCEPT ![m] =
                           [ held |-> TRUE, uid |-> call.uid, json |-> NoRecord, status |-> status ]]
    BY <1>4, Zenon DEF CacheOrdinary
  <2>2. cache \in [Models -> CacheEntry]
    BY Zenon DEF Tidy, Memories
  <2>3. /\ cache'[m] = [ held |-> TRUE, uid |-> call.uid, json |-> NoRecord, status |-> status ]
        /\ \A k \in Models \ {m} : cache'[k] = cache[k]
    BY <1>1, <2>1, <2>2, Zenon
  <2>4. Orderly(m)'
    <3>1. Orderly(m) /\ call.uid <= 1 /\ ~ NoRecord.ref
      BY <1>1, Zenon DEF Sober, Callers, NoRecord
    <3>2. m \notin evicted' /\ invalidated'[m] \subseteq {1}
      BY <1>1, <2>1, <3>1, Zenon DEF Orderly
    <3>3. cache'[m].held /\ cache'[m].uid = call.uid /\ cache'[m].json = NoRecord
      BY <2>3
    <3> QED BY <1>1, <3>1, <3>2, <3>3, FullIsOrderly, Zenon
  <2>5. \A k \in Models \ {m} : (Orderly(k) => Orderly(k)') /\ (Vouched(k) => Vouched(k)')
    <3> SUFFICES ASSUME NEW k \in Models, k # m
                 PROVE  (Orderly(k) => Orderly(k)') /\ (Vouched(k) => Vouched(k)')
      BY Zenon
    <3>1. cache'[k] = cache[k] /\ (k \in evicted' => k \in evicted)
      BY <2>1, <2>3, Zenon
    <3> QED BY <1>1, <3>1, StaysOrderly, Zenon
  <2>6. Vouched(m) => Vouched(m)'
    <3>1. ~ HasJSON(m) /\ m \notin evicted' /\ invalidated' = invalidated /\ parentCache' = parentCache
      BY <1>1, <2>1, Zenon
    <3> QED BY <3>1, Zenon DEF Vouched
  <2>7. \A k \in Models : Orderly(k)'
    <3> SUFFICES ASSUME NEW k \in Models PROVE Orderly(k)'
      BY Zenon
    <3>1. Orderly(k)
      BY Zenon DEF Sober
    <3> QED BY <2>4, <2>5, <3>1, Zenon
  <2>8. Supported(entry)'
    <3>1. Supported(entry)
      BY Zenon DEF Sober
    <3>2. \A k \in Models : Vouched(k) => Vouched(k)'
      BY <2>5, <2>6, Zenon
    <3> QED BY <1>1, <3>1, <3>2, ZenonT(30) DEF Supported
  <2> QED BY <1>1, <1>2, <2>7, <2>8, Zenon DEF Sober, Unready
<1> QED BY <1>3, <1>4, Zenon

\* DeleteModelFromConfigMap evicts no model that has a reference: the reference
\* would be that of another resource with the same name, or one that the task
\* found missing.
LEMMA DeleteModelSober ==
  ASSUME NamesUsedOnce, ~ DeletesMiss, Tidy, Sober, NEW m \in Models, NEW u \in UIDs(m),
         NEW terminal,
         DeleteModel(m, u, terminal)
  PROVE  Sober'
<1>1. u = 1
  BY UIDIsOne, Zenon
<1>2. /\ ~ entry[m].ref /\ evicted' = evicted \cup {m}
      /\ cache' = [cache EXCEPT ![m] = NotCached]
      /\ invalidated' = [invalidated EXCEPT ![m] = IF terminal THEN @ \cup {u} ELSE @]
      /\ parentCache' = WithoutChildren(parentCache, {m}) /\ call'.uid = u
      /\ UNCHANGED <<parent, entry, claiming, restored>>
  <2>1. entry[m].ref => entry[m].uid = 1
    BY Zenon DEF Sober, Supported
  <2>2. m \notin missed
    BY Zenon DEF Tidy, Resources
  <2> QED BY <1>1, <2>1, <2>2, ZenonT(30) DEF DeleteModel, stored
<1>3. /\ cache \in [Models -> CacheEntry] /\ invalidated \in [Models -> SUBSET Nat]
      /\ parentCache \in ParentRecord
  BY Zenon DEF Tidy, Memories
<1>4. /\ cache'[m] = NotCached /\ invalidated'[m] \subseteq invalidated[m] \cup {1}
      /\ \A k \in Models \ {m} : cache'[k] = cache[k] /\ invalidated'[k] = invalidated[k]
  BY <1>1, <1>2, <1>3, Zenon
<1>5. Found(parentCache') <=> Found(parentCache)
  BY <1>2, <1>3, Zenon DEF WithoutChildren, Found, ParentRecord
<1>6. Orderly(m)'
  <2>1. invalidated[m] \subseteq {1}
    BY Zenon DEF Sober, Orderly
  <2>2. invalidated'[m] \subseteq {1}
    BY <1>4, <2>1, Zenon
  <2> QED BY <1>4, <2>2, EmptyIsOrderly, Zenon
<1>7. \A k \in Models \ {m} : (Orderly(k) => Orderly(k)') /\ (Vouched(k) => Vouched(k)')
  BY <1>2, <1>4, <1>5, StaysOrderly, Zenon
<1>8. Callers'
  BY <1>1, <1>2 DEF Sober, Callers
<1> QED BY <1>2, <1>6, <1>7, <1>8, OneModelIsSober, Zenon

\* A commit of the records r as they are.
LEMMA ObservedIsSober ==
  ASSUME Tidy, Tidy', Sober, NEW r, Supported(r.entry), Cautious(r), Observe(r)
  PROVE  Sober'
<1>1. /\ Commit(r, {}, NoUID) \/ LoseAnswer(r)
      /\ NoteRestored(r) /\ UNCHANGED <<call, claiming>>
  BY Zenon DEF Observe
<1>2. parent' = r.parent /\ entry' = r.entry
  BY <1>1, Zenon DEF Commit, LoseAnswer, Store
<1>3. restored' => restored \/ r.parent # parent
  BY <1>1, Zenon DEF NoteRestored
<1>4. Callers' /\ NoUID \in {0, 1}
  BY <1>1, Zenon DEF Sober, Callers, NoUID
<1> QED BY <1>1, <1>2, <1>3, <1>4, StepIsSober, Zenon

LEMMA DeleteEndsSober ==
  ASSUME NamesUsedOnce, Tidy, Tidy', Sober, DeleteRefused \/ DeleteFails \/ DeleteCommits
  PROVE  Sober'
<1>1. Callers'
  <2>1. call' = NoCall /\ claiming' = claiming
    BY Zenon DEF DeleteRefused, DeleteFails, DeleteCommits, DeleteEnds
  <2> QED BY <2>1, NobodyCalls, Zenon DEF Sober, Callers
<1>2. CASE DeleteRefused \/ DeleteFails
  <2>1. UNCHANGED <<parent, entry, memory, restored>>
    BY <1>2, Zenon DEF DeleteRefused, DeleteFails, stored, ghost
  <2> QED BY <1>1, <2>1, LossIsSober, Zenon
<1>3. CASE DeleteCommits
  <2> DEFINE m == call.model
             u == call.uid
             r == Latest({m})
             n == [r EXCEPT !.entry[m] = NoRecord]
  <2>1. m \in Models /\ u \in {0, 1}
    <3>1. call.step = "delete"
      BY <1>3, Zenon DEF DeleteCommits
    <3> QED BY <3>1 DEF Tidy, Calls, Call, Sober, Callers
  <2>2. (Commit(n, {m}, u) \/ LoseAnswer(n)) /\ NoteRestored(r)
    BY <1>3, Zenon DEF DeleteCommits
  <2>3. Proper(r) /\ Supported(r.entry) /\ Cautious(r)
    BY LatestIsSober, LatestIsFaithful, Zenon DEF Faithful
  <2> HIDE DEF m, u, r
  <2>4. n.parent = r.parent /\ n.entry = [r.entry EXCEPT ![m] = NoRecord]
    BY <2>3, Zenon DEF Proper
  <2>5. parent' = n.parent /\ entry' = n.entry
    BY <2>2, ZenonT(30) DEF Commit, LoseAnswer, Store
  <2> HIDE DEF n
  <2>6. ~ entry'[m].ref /\ \A k \in Models \ {m} : entry'[k] = r.entry[k]
    BY <2>1, <2>3, <2>4, <2>5 DEF Proper, NoRecord
  <2>7. r.parent.children \subseteq Models
    BY <2>3, Zenon DEF Proper, ParentRecord
  <2>8. restored' =>
          /\ restored \/ r.parent # parent
          /\ parent'.status = "Ready" => r.parent.status = "Ready"
          /\ parent'.children \subseteq r.parent.children
          /\ \A k \in parent'.children :
               entry'[k].ref /\ entry'[k].status = "Ready" => r.entry[k].status = "Ready"
    BY <2>2, <2>4, <2>5, <2>6, <2>7, Zenon DEF NoteRestored
  <2>9. \A k \in Models : entry'[k].ref => r.entry[k].ref /\ entry'[k].uid = r.entry[k].uid
    BY <2>6, Zenon
  <2> QED BY <1>1, <2>1, <2>2, <2>3, <2>8, <2>9, StepIsSober, Zenon
<1> QED BY <1>2, <1>3, Zenon

LEMMA GopherStepSober ==
  ASSUME NamesUsedOnce, ~ DeletesMiss, Tidy, Tidy', Sober, GopherStep
  PROVE  Sober'
BY WritesSober, CacheOrdinarySober, DeleteModelSober, DeleteEndsSober, Zenon DEF GopherStep

LEMMA CacheStepSober ==
  ASSUME Tidy, Tidy', Sober, CacheStep
  PROVE  Sober'
<1>1. CASE reconcileConfigMaps
  <2>1. Observe(Restore(Unlost.parent, Unlost.entry, Models, TRUE))
    BY <1>1, Zenon DEF reconcileConfigMaps
  <2> QED BY <2>1, RestoreAgainIsSober, ObservedIsSober, Zenon
<1>2. CASE getConfigMapForHfArtifactCleanup
  BY <1>2, UnlostIsSober, ObservedIsSober, Zenon DEF getConfigMapForHfArtifactCleanup
<1>3. ASSUME NEW changed, CacheCommitted([parent |-> parent, entry |-> entry], {}, NoUID, changed),
             UNCHANGED <<stored, call, claiming, resource, ghost, faults>>
      PROVE  Sober'
  <2>1. CacheModels([parent |-> parent, entry |-> entry], {}, NoUID, changed)
    BY <1>3, Zenon DEF CacheCommitted
  <2>2. UNCHANGED <<stored, call, claiming, restored>>
    BY <1>3, Zenon DEF ghost
  <2> QED BY <2>1, <2>2, RereadIsSober, Zenon
<1> QED BY <1>1, <1>2, <1>3, Zenon DEF CacheStep, getConfigMapForRecovery, updateConfigMapWithRetry

LEMMA EnvironmentSober ==
  ASSUME Tidy, Sober, Environment
  PROVE  Sober'
<1>1. ASSUME NEW gone, LoseRecords(gone), UNCHANGED parent \/ parent' = NoParent
      PROVE  Sober'
  <2>1. /\ entry' = [m \in Models |-> IF m \in gone THEN NoRecord ELSE entry[m]]
        /\ UNCHANGED <<memory, call, claiming, restored>>
    BY <1>1, Zenon DEF LoseRecords
  <2>2. \A m \in Models : entry'[m] = entry[m] \/ ~ entry'[m].ref
    BY <2>1, Zenon DEF NoRecord
  <2>3. Callers'
    BY <2>1, Zenon DEF Sober, Callers
  <2> QED BY <1>1, <2>1, <2>2, <2>3, LossIsSober, Zenon
<1>2. ASSUME NEW m \in Models, ResourceDeleting(m) \/ ResourceReplaced(m) PROVE Sober'
  <2>1. UNCHANGED <<parent, entry, memory, call, claiming, restored>>
    BY <1>2, Zenon DEF ResourceDeleting, ResourceReplaced, stored, ghost
  <2>2. Callers'
    BY <2>1, Zenon DEF Sober, Callers
  <2> QED BY <2>1, <2>2, LossIsSober, Zenon
<1>3. CASE Restart
  <2>1. /\ cache' = [m \in Models |-> NotCached] /\ parentCache' = NoParent
        /\ evicted' = {} /\ invalidated' = [m \in Models |-> {}]
        /\ call' = NoCall /\ claiming' = NoClaim /\ UNCHANGED <<parent, entry, restored>>
    BY <1>3, Zenon DEF Restart, stored
  <2>2. \A m \in Models : Orderly(m)'
    <3>1. \A m \in Models : cache'[m] = NotCached /\ invalidated'[m] \subseteq {1}
      BY <2>1, ZenonT(30)
    <3> QED BY <3>1, EmptyIsOrderly, Zenon
  <2>3. Supported(entry)'
    <3>1. Supported(entry) /\ ~ Found(NoParent)
      BY Zenon DEF Sober, Found, NoParent
    <3> QED BY <2>1, <3>1, Zenon DEF Supported, Vouched
  <2>4. Callers'
    BY <2>1, NobodyCalls, Zenon DEF Callers
  <2> QED BY <2>1, <2>2, <2>3, <2>4, ZenonT(30) DEF Sober, Unready
<1> QED BY <1>1, <1>2, <1>3, ZenonT(30) DEF Environment, LoseConfigMap, LoseEntry, LoseParent

\* If no name passes from one resource to another, and no delete task looks for a
\* record while it is lost, then, whatever is lost and restored and however often,
\* neither a parent that was restored from the cache nor a model that it serves is
\* Ready before the artifact was validated (restoreHfArtifactParent,
\* updateModelStatusInConfigMap).
THEOREM RestoredNotReadyHolds ==
  ASSUME NamesUsedOnce, ~ DeletesMiss
  PROVE  Spec => []RestoredNotReady
<1>1. Init => Sober
  <2> SUFFICES ASSUME Init PROVE Sober
    BY Zenon
  <2>1. /\ \A m \in Models : cache[m] = NotCached /\ invalidated[m] = {} /\ entry[m] = NoRecord
        /\ evicted = {} /\ call = NoCall /\ claiming = NoClaim /\ ~ restored
    BY Zenon DEF Init
  <2>2. \A m \in Models : Orderly(m)
    <3>1. \A m \in Models : cache[m] = NotCached /\ invalidated[m] \subseteq {1}
      BY <2>1, Zenon
    <3> QED BY <3>1, EmptyIsOrderly, Zenon
  <2>3. Callers
    BY <2>1, NobodyCalls, Zenon DEF Callers
  <2>4. Supported(entry)
    <3>1. ~ NoRecord.ref
      BY Zenon DEF NoRecord
    <3> QED BY <2>1, <3>1, Zenon DEF Supported
  <2> QED BY <2>1, <2>2, <2>3, <2>4, Zenon DEF Sober
<1>2. Sober /\ Tidy /\ Tidy' /\ [Next]_vars => Sober'
  <2> SUFFICES ASSUME Sober, Tidy, Tidy', [Next]_vars PROVE Sober'
    BY Zenon
  <2>1. CASE UNCHANGED vars
    <3>1. UNCHANGED <<parent, entry, memory, call, claiming, restored>>
      BY <2>1, Zenon DEF vars, stored, ghost
    <3>2. Callers'
      BY <3>1, Zenon DEF Sober, Callers
    <3> QED BY <3>1, <3>2, LossIsSober, Zenon
  <2> QED BY <2>1, GopherStepSober, CacheStepSober, RepositoryStepSober, EnvironmentSober, Zenon DEF Next
<1>3. Sober => RestoredNotReady
  BY Zenon DEF Sober, Unready, RestoredNotReady
<1> QED BY <1>1, <1>2, <1>3, TidyInvariant, PTL DEF Spec
=============================================================================
