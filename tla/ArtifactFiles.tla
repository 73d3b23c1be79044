----------------------------- MODULE ArtifactFiles -----------------------------
(***************************************************************************)
(* What one Artifact owns outside its model: a row, one object per         *)
(* registered snapshot, the source it was made from, and assets, each a    *)
(* row, an object and an integrity record.  The database commits           *)
(* atomically, the object store writes and removes one object at a time,   *)
(* and no transaction spans the two: a handler may stop after any await,   *)
(* any store call may fail, and the process may die at any point.  Only    *)
(* commits take the write lock.                                            *)
(*                                                                         *)
(* A put that fails may still have left the object (the directory's fsync  *)
(* follows the rename).  A put outlived by its dropped handler and a lost  *)
(* answer of a database commit are left to TransactionKernel.              *)
(***************************************************************************)
EXTENDS Naturals, FiniteSets

CONSTANTS
    Handlers,      \* requests in flight
    Assets,        \* asset ids (fresh uuids)
    Imports,       \* the asset sets an imported file may bring
    MaxRevision,   \* bound on the Artifact's revisions
    None

Rows == [revision : 1 .. MaxRevision, names : SUBSET Assets]

\* What the constants have to be.
FileConstants ==
    /\ MaxRevision \in Nat \ {0}
    /\ Imports \subseteq SUBSET Assets
    /\ None \notin Handlers \cup BOOLEAN \cup Rows

VARIABLES
    up,         \* the server process runs
    row,        \* artifacts: None, or the revision and the assets its snapshot names
    assetRow,   \* artifact_assets: None, or whether ref_count > 0
    integrity,  \* assets with an artifact_blob_integrity row
    stored,     \* the object store
    lock,       \* the handler holding write_lock, or None
    unused,     \* asset ids not drawn yet; created: the Artifact's id is drawn
    created,
    pc, arg, left, base,   \* a handler's label, the assets it is about, what it
                           \* has still to do, the revision it loaded
    \* History variables:
    doomed,     \* removing the Artifact has begun
    answered,   \* its create or import was answered with success
    recounted   \* an import counted revision 1's assets after a later commit

fileVars    == <<up, row, assetRow, integrity, stored, lock, unused, created>>
handlerVars == <<pc, arg, left, base>>
historyVars == <<doomed, answered, recounted>>
vars        == <<fileVars, handlerVars, historyVars>>

Source      == <<"source", None>>
Snapshot(v) == <<"snapshot", v>>
Asset(a)    == <<"asset", a>>

Snapshots(r)   == IF r = None THEN {} ELSE {Snapshot(v) : v \in 1 .. r.revision}
Objects        == {Source} \cup {Snapshot(v) : v \in 1 .. MaxRevision}
                           \cup {Asset(a) : a \in Assets}
NoAssets       == [a \in Assets |-> None]
Recorded       == {a \in Assets : assetRow[a] # None}

Init ==
    /\ up = TRUE
    /\ row = None
    /\ assetRow = NoAssets
    /\ integrity = {}
    /\ stored = {}
    /\ lock = None
    /\ unused = Assets
    /\ created = FALSE
    /\ pc = [h \in Handlers |-> "idle"]
    /\ arg = [h \in Handlers |-> {}]
    /\ left = [h \in Handlers |-> {}]
    /\ base = [h \in Handlers |-> 0]
    /\ doomed = FALSE
    /\ answered = FALSE
    /\ recounted = FALSE

Goto(h, label) == pc' = [pc EXCEPT ![h] = label]

Done(h) ==
    /\ Goto(h, "idle")
    /\ arg' = [arg EXCEPT ![h] = {}]
    /\ left' = [left EXCEPT ![h] = {}]
    /\ base' = [base EXCEPT ![h] = 0]

\* The next label, or the error return.
ContinueOrFail(h, label) ==
    \/ Goto(h, label) /\ UNCHANGED <<arg, left, base>>
    \/ Done(h)

\* BlobStore::put: a success has the object, a failure may have it.
Put(h, object, label) ==
    \/ /\ stored' = stored \cup {object}
       /\ ContinueOrFail(h, label)
    \/ /\ Done(h)
       /\ UNCHANGED stored

\* BlobStore::delete: removing a missing object succeeds.
Delete(h, object, label) ==
    \/ /\ stored' = stored \ {object}
       /\ Goto(h, label)
       /\ UNCHANGED <<arg, left, base>>
    \/ /\ Done(h)
       /\ UNCHANGED stored

\* set_asset_references_in_transaction, which refuses a name without a row.
Counted(names) == [a \in Assets |-> IF a \in Recorded THEN a \in names ELSE None]

\* delete_artifact: the row, and what the foreign keys cascade to.
RemoveRow ==
    /\ row' = None
    /\ assetRow' = NoAssets
    /\ integrity' = {}

--------------------------------------------------------------------------------
(* create and import: two objects, the row, their integrity, then each asset's  *)
(* object, row and integrity, and last the reference counts of revision 1.      *)

Create(h) ==
    /\ up /\ pc[h] = "idle" /\ ~created
    /\ \E brought \in Imports :
         /\ brought \subseteq unused
         /\ created' = TRUE
         /\ unused' = unused \ brought
         /\ Goto(h, "put source")
         /\ arg' = [arg EXCEPT ![h] = brought]
         /\ left' = [left EXCEPT ![h] = brought]
    /\ UNCHANGED <<up, row, assetRow, integrity, stored, lock, base, historyVars>>

PutSource(h) ==
    /\ pc[h] = "put source"
    /\ Put(h, Source, "put first")
    /\ UNCHANGED <<up, row, assetRow, integrity, lock, unused, created, historyVars>>

PutFirstSnapshot(h) ==
    /\ pc[h] = "put first"
    /\ Put(h, Snapshot(1), "insert")
    /\ UNCHANGED <<up, row, assetRow, integrity, lock, unused, created, historyVars>>

\* insert_artifact: the row and the first registered snapshot.
InsertArtifact(h) ==
    /\ pc[h] = "insert"
    /\ \/ /\ row' = [revision |-> 1, names |-> arg[h]]
          /\ Goto(h, "register")
          /\ UNCHANGED <<arg, left, base>>
       \/ Done(h) /\ UNCHANGED row
    /\ UNCHANGED <<up, assetRow, integrity, stored, lock, unused, created, historyVars>>

\* The integrity of source and snapshot; an error here keeps the row.
RegisterBlobs(h) ==
    /\ pc[h] = "register"
    /\ \/ /\ arg[h] # {} /\ row # None
          /\ Goto(h, "put asset") /\ UNCHANGED <<arg, left, base, answered>>
       \/ /\ arg[h] = {} /\ row # None
          /\ Done(h) /\ answered' = TRUE
       \/ Done(h) /\ UNCHANGED answered
    /\ UNCHANGED <<fileVars, doomed, recounted>>

\* An error of register_imported_assets is answered by removing everything.
NextOrClean(h, label) == Goto(h, label) \/ Goto(h, "clean")

\* register_imported_assets: the assets one after the other.
ImportedAsset(h) == CHOOSE a \in left[h] : TRUE

PutImportedAsset(h) ==
    /\ pc[h] = "put asset"
    /\ \/ stored' = stored \cup {Asset(ImportedAsset(h))} /\ NextOrClean(h, "insert asset")
       \/ Goto(h, "clean") /\ UNCHANGED stored
    /\ UNCHANGED <<up, row, assetRow, integrity, lock, unused, created, arg, left, base,
                   historyVars>>

\* insert_artifact_asset; the foreign key refuses it once the Artifact is gone.
InsertImportedAsset(h) ==
    /\ pc[h] = "insert asset"
    /\ \/ /\ row # None
          /\ assetRow' = [assetRow EXCEPT ![ImportedAsset(h)] = FALSE]
          /\ Goto(h, "asset integrity")
       \/ Goto(h, "clean") /\ UNCHANGED assetRow
    /\ UNCHANGED <<up, row, integrity, stored, lock, unused, created, arg, left, base,
                   historyVars>>

RegisterImportedAsset(h) ==
    LET rest == left[h] \ {ImportedAsset(h)}
    IN  /\ pc[h] = "asset integrity"
        /\ \/ /\ row # None
              /\ integrity' = integrity \cup {ImportedAsset(h)}
              /\ left' = [left EXCEPT ![h] = rest]
              /\ Goto(h, IF rest = {} THEN "count" ELSE "put asset")
           \/ Goto(h, "clean") /\ UNCHANGED <<integrity, left>>
        /\ UNCHANGED <<up, row, assetRow, stored, lock, unused, created, arg, base,
                       historyVars>>

\* set_artifact_asset_references with the imported model's names.  It asks for
\* no revision: a commit may have counted a later one's names already.
CountImported(h) ==
    /\ pc[h] = "count"
    /\ \/ /\ arg[h] \subseteq Recorded
          /\ assetRow' = Counted(arg[h])
          /\ recounted' = (row # None /\ row.revision > 1)
          /\ answered' = TRUE
          /\ Done(h)
       \/ /\ Goto(h, "clean")
          /\ UNCHANGED <<assetRow, recounted, answered, arg, left, base>>
    /\ UNCHANGED <<up, row, integrity, stored, lock, unused, created, doomed>>

\* The best-effort cleanup of a failed import: any of its deletes may fail,
\* the row's last of all, and nobody is told.
Clean(h) ==
    /\ pc[h] = "clean"
    /\ \E gone \in SUBSET ({Source, Snapshot(1)} \cup {Asset(a) : a \in arg[h]}) :
         stored' = stored \ gone
    /\ \/ RemoveRow
       \/ UNCHANGED <<row, assetRow, integrity>>
    /\ doomed' = TRUE
    /\ Done(h)
    /\ UNCHANGED <<up, lock, unused, created, answered, recounted>>

--------------------------------------------------------------------------------
(* Assets.                                                                      *)

\* upload_asset draws an id and stores the bytes.
Upload(h) ==
    /\ up /\ pc[h] = "idle" /\ row # None
    /\ \E a \in unused :
         /\ unused' = unused \ {a}
         /\ \/ /\ stored' = stored \cup {Asset(a)}
               /\ Goto(h, "insert upload")
               /\ arg' = [arg EXCEPT ![h] = {a}]
            \/ /\ stored' \in {stored, stored \cup {Asset(a)}}
               /\ UNCHANGED <<pc, arg>>
    /\ UNCHANGED <<up, row, assetRow, integrity, lock, created, left, base, historyVars>>

TheAsset(h) == CHOOSE a \in arg[h] : TRUE

\* A failed insert, and a failed integrity record, take the object away again.
DiscardUpload(h) ==
    /\ stored' \in {stored, stored \ {Asset(TheAsset(h))}}
    /\ Done(h)

InsertUpload(h) ==
    /\ pc[h] = "insert upload"
    /\ \/ /\ row # None
          /\ assetRow' = [assetRow EXCEPT ![TheAsset(h)] = FALSE]
          /\ Goto(h, "upload integrity")
          /\ UNCHANGED <<stored, arg, left, base>>
       \/ DiscardUpload(h) /\ UNCHANGED assetRow
    /\ UNCHANGED <<up, row, integrity, lock, unused, created, historyVars>>

RegisterUpload(h) ==
    /\ pc[h] = "upload integrity"
    /\ \/ /\ row # None
          /\ integrity' = integrity \cup {TheAsset(h)}
          /\ Done(h)
          /\ UNCHANGED stored
       \/ DiscardUpload(h) /\ UNCHANGED integrity
    /\ UNCHANGED <<up, row, assetRow, lock, unused, created, historyVars>>

\* delete_asset looks at the reference count ...
ReadAsset(h) ==
    /\ up /\ pc[h] = "idle"
    /\ \E a \in Recorded :
         /\ ~assetRow[a]
         /\ arg' = [arg EXCEPT ![h] = {a}]
    /\ Goto(h, "delete asset")
    /\ UNCHANGED <<fileVars, left, base, historyVars>>

\* Broken: the delete does not ask for the count again.
DeletableAnyway(a) == assetRow[a] # None

\* The WHERE clause of delete_artifact_asset.
Deletable(a) == assetRow[a] = FALSE

ForgetAsset(a) ==
    /\ assetRow' = [assetRow EXCEPT ![a] = None]
    /\ integrity' = integrity \ {a}

\* ... and delete_artifact_asset looks again: a commit may have named it.
DeleteAssetRow(h) ==
    /\ pc[h] = "delete asset"
    /\ \/ /\ Deletable(TheAsset(h))
          /\ ForgetAsset(TheAsset(h))
          /\ Goto(h, "delete bytes")
          /\ UNCHANGED <<arg, left, base>>
       \/ Done(h) /\ UNCHANGED <<assetRow, integrity>>
    /\ UNCHANGED <<up, row, stored, lock, unused, created, historyVars>>

\* An error leaves bytes that nothing names.
DeleteAssetBytes(h) ==
    /\ pc[h] = "delete bytes"
    /\ stored' \in {stored, stored \ {Asset(TheAsset(h))}}
    /\ Done(h)
    /\ UNCHANGED <<up, row, assetRow, integrity, lock, unused, created, historyVars>>

--------------------------------------------------------------------------------
(* Commits, under the write lock.  An edit may name any asset id, and an undo,  *)
(* a redo or a restore brings back the names of an older snapshot.              *)

\* Broken: the guard outlives the handler.
KeepLock == UNCHANGED lock

\* The guard is dropped.
Release == lock' = None

LoadForCommit(h) ==
    /\ up /\ pc[h] = "idle" /\ lock = None /\ row # None
    /\ Snapshot(row.revision) \in stored
    /\ row.revision < MaxRevision
    /\ \E names \in SUBSET Assets : arg' = [arg EXCEPT ![h] = names]
    /\ base' = [base EXCEPT ![h] = row.revision]
    /\ lock' = h
    /\ Goto(h, "put candidate")
    /\ UNCHANGED <<up, row, assetRow, integrity, stored, unused, created, left, historyVars>>

PutCandidate(h) ==
    /\ pc[h] = "put candidate"
    /\ \/ /\ stored' = stored \cup {Snapshot(base[h] + 1)}
          /\ Goto(h, "commit")
          /\ UNCHANGED <<lock, arg, left, base>>
       \/ /\ stored' \in {stored, stored \cup {Snapshot(base[h] + 1)}}
          /\ Release
          /\ Done(h)
    /\ UNCHANGED <<up, row, assetRow, integrity, unused, created, historyVars>>

\* commit_artifact_transaction_internal asks for the loaded revision and a row
\* for every name; a refusal and an error take the candidate away again.
CommitRow(h) ==
    /\ pc[h] = "commit"
    /\ \/ /\ row # None
          /\ row.revision = base[h]
          /\ arg[h] \subseteq Recorded
          /\ row' = [revision |-> base[h] + 1, names |-> arg[h]]
          /\ assetRow' = Counted(arg[h])
          /\ recounted' = FALSE
          /\ UNCHANGED stored
       \/ /\ stored' \in {stored, stored \ {Snapshot(base[h] + 1)}}
          /\ UNCHANGED <<row, assetRow, recounted>>
    /\ Release
    /\ Done(h)
    /\ UNCHANGED <<up, integrity, unused, created, doomed, answered>>

--------------------------------------------------------------------------------
(* delete: the source, every registered snapshot, then the row; without the     *)
(* lock, and without the assets' objects.                                       *)

DeleteArtifact(h) ==
    /\ up /\ pc[h] = "idle" /\ row # None
    /\ base' = [base EXCEPT ![h] = row.revision]
    /\ Goto(h, "delete source")
    /\ UNCHANGED <<fileVars, arg, left, historyVars>>

DeleteSource(h) ==
    /\ pc[h] = "delete source"
    /\ Delete(h, Source, "list snapshots")
    /\ doomed' = TRUE
    /\ UNCHANGED <<up, row, assetRow, integrity, lock, unused, created, answered, recounted>>

\* list_artifact_snapshot_keys, and the current one as it was read before.
ListSnapshots(h) ==
    /\ pc[h] = "list snapshots"
    /\ left' = [left EXCEPT ![h] =
                  {base[h]} \cup (IF row = None THEN {} ELSE 1 .. row.revision)]
    /\ Goto(h, "delete snapshots")
    /\ UNCHANGED <<fileVars, arg, base, historyVars>>

DeleteSnapshot(h) ==
    /\ pc[h] = "delete snapshots"
    /\ \E v \in left[h] :
         /\ \A w \in left[h] : v <= w
         /\ \/ /\ stored' = stored \ {Snapshot(v)}
               /\ left' = [left EXCEPT ![h] = @ \ {v}]
               /\ UNCHANGED <<pc, arg, base>>
            \/ Done(h) /\ UNCHANGED stored
    /\ UNCHANGED <<up, row, assetRow, integrity, lock, unused, created, historyVars>>

DeleteRow(h) ==
    /\ pc[h] = "delete snapshots" /\ left[h] = {}
    /\ RemoveRow \/ UNCHANGED <<row, assetRow, integrity>>
    /\ Done(h)
    /\ UNCHANGED <<up, stored, lock, unused, created, historyVars>>

--------------------------------------------------------------------------------
(* Dropped requests, crashes, and the two collectors, which run while no server *)
(* does: main's before it listens, gc-assets with the writers stopped.          *)

\* The client went away: the handler is dropped at an await, its guard with it.
Abandon(h) ==
    /\ pc[h] # "idle"
    /\ lock' = IF lock = h THEN None ELSE lock
    /\ Done(h)
    /\ UNCHANGED <<up, row, assetRow, integrity, stored, unused, created, historyVars>>

Crash ==
    /\ up
    /\ up' = FALSE
    /\ lock' = None
    /\ pc' = [h \in Handlers |-> "idle"]
    /\ arg' = [h \in Handlers |-> {}]
    /\ left' = [h \in Handlers |-> {}]
    /\ base' = [h \in Handlers |-> 0]
    /\ UNCHANGED <<row, assetRow, integrity, stored, unused, created, historyVars>>

Start ==
    /\ ~up
    /\ up' = TRUE
    /\ UNCHANGED <<row, assetRow, integrity, stored, lock, unused, created, handlerVars,
                   historyVars>>

\* Broken: the current snapshot only, not the registered ones.
ReferencedNow ==
    IF row = None THEN {}
    ELSE {Source, Snapshot(row.revision)}
         \cup {Asset(a) : a \in Recorded} \cup {Asset(a) : a \in integrity}

\* referenced_blob_keys.
Referenced ==
    IF row = None THEN {}
    ELSE {Source} \cup Snapshots(row)
         \cup {Asset(a) : a \in Recorded} \cup {Asset(a) : a \in integrity}

\* remove_unreferenced, one object at a time: it may stop at an error.
CollectBlob ==
    /\ ~up
    /\ \E object \in stored \ Referenced : stored' = stored \ {object}
    /\ UNCHANGED <<up, row, assetRow, integrity, lock, unused, created, handlerVars,
                   historyVars>>

\* gc-assets: an asset uncounted for the whole grace period.
CollectAsset ==
    /\ ~up
    /\ \E a \in Recorded :
         /\ assetRow[a] = FALSE
         /\ ForgetAsset(a)
         /\ stored' \in {stored, stored \ {Asset(a)}}
    /\ UNCHANGED <<up, row, lock, unused, created, handlerVars, historyVars>>

--------------------------------------------------------------------------------
Import(h) ==
    \/ Create(h) \/ PutSource(h) \/ PutFirstSnapshot(h) \/ InsertArtifact(h)
    \/ RegisterBlobs(h) \/ PutImportedAsset(h) \/ InsertImportedAsset(h)
    \/ RegisterImportedAsset(h) \/ CountImported(h) \/ Clean(h)

AssetRequest(h) ==
    \/ Upload(h) \/ InsertUpload(h) \/ RegisterUpload(h)
    \/ ReadAsset(h) \/ DeleteAssetRow(h) \/ DeleteAssetBytes(h)

Commit(h) == LoadForCommit(h) \/ PutCandidate(h) \/ CommitRow(h)

Removal(h) ==
    \/ DeleteArtifact(h) \/ DeleteSource(h) \/ ListSnapshots(h)
    \/ DeleteSnapshot(h) \/ DeleteRow(h)

Next ==
    \/ \E h \in Handlers :
         Import(h) \/ AssetRequest(h) \/ Commit(h) \/ Removal(h) \/ Abandon(h)
    \/ Crash \/ Start \/ CollectBlob \/ CollectAsset

Spec == Init /\ [][Next]_vars

--------------------------------------------------------------------------------
Labels ==
    {"idle", "put source", "put first", "insert", "register", "put asset", "insert asset",
     "asset integrity", "count", "clean", "insert upload", "upload integrity",
     "delete asset", "delete bytes", "put candidate", "commit", "delete source",
     "list snapshots", "delete snapshots"}

\* The types of what the handlers carry.
HandlersOK ==
    /\ pc \in [Handlers -> Labels]
    /\ arg \in [Handlers -> SUBSET Assets]
    /\ left \in [Handlers -> SUBSET (Assets \cup 1 .. MaxRevision)]
    /\ base \in [Handlers -> 0 .. MaxRevision]

\* The types, and who holds the lock.
TypeOK ==
    /\ {up, created, doomed, answered, recounted} \subseteq BOOLEAN
    /\ row \in {None} \cup Rows
    /\ assetRow \in [Assets -> {None} \cup BOOLEAN]
    /\ integrity \subseteq Assets
    /\ unused \subseteq Assets
    /\ stored \subseteq Objects
    /\ lock \in {None} \cup Handlers
    /\ HandlersOK
    /\ \A h \in Handlers : lock = h <=> pc[h] \in {"put candidate", "commit"}

\* Until somebody begins to remove the Artifact, its source and every snapshot an
\* undo or a restore may ask for are in the object store; and every asset the
\* current snapshot names has a row, is counted and is not torn: bytes whose
\* integrity was recorded are there.  Two holes of the code are left open: before
\* an import's first success its assets are still coming, and its counting of
\* revision 1 may run over a later revision's.
NamedObjectsAreStored ==
    row # None /\ ~doomed =>
        /\ Source \in stored /\ Snapshots(row) \subseteq stored
        /\ (answered \/ row.revision > 1) /\ ~recounted =>
              \A a \in row.names :
                 /\ assetRow[a] = TRUE
                 /\ a \in integrity => Asset(a) \in stored

================================================================================
