--------------------------- MODULE TransactionKernel ---------------------------
(***************************************************************************)
(* The server's transaction path for one Artifact: HTTP handlers that      *)
(* submit an edit, an undo, a redo or a restore, the global write lock,    *)
(* the SQLite rows a commit writes, and the blob store that holds one      *)
(* snapshot object per version.                                            *)
(*                                                                         *)
(* A request is prepared, waits for AppState.write_lock, loads the         *)
(* Artifact, is answered from the transaction log when its id is already   *)
(* committed, is refused when its base revision is not the current one,    *)
(* computes a candidate, stores it under the key of the next version, and  *)
(* commits pointer, registry, transaction log and history in one SQLite    *)
(* transaction.  Two fallible steps surround that commit: the blob is      *)
(* stored before it, the row is read back after it.  Handlers may be       *)
(* dropped at any await (the client went away) and the process may crash.  *)
(***************************************************************************)
EXTENDS Naturals, FiniteSets

CONSTANTS
    Handlers,         \* in-flight HTTP requests the server can hold
    Edits,            \* ids of transactions that carry ordinary commands
    Undos,            \* ids of transactions whose command is a history undo
    Redos,            \* ids of transactions whose command is a history redo
    Restores,         \* ids of transactions that restore an older version
    MaxVersion,       \* largest version the version column can hold (i64::MAX)
    ReadBackMayFail,  \* whether SELECT after COMMIT may return an error
    NoBlob,           \* no object is stored under the key
    NoRequest,        \* the handler slot is free
    Free              \* nobody holds the write lock

TxIds    == Edits \cup Undos \cup Redos \cup Restores
Versions == 1..MaxVersion

\* What a snapshot says, as far as the properties tell contents apart: the
\* edits whose effect it contains.
Content  == SUBSET Edits
Blob     == {NoBlob} \cup Content

ASSUME ConstantsAssumption ==
    /\ MaxVersion \in Nat \ {0}
    /\ ReadBackMayFail \in BOOLEAN
    /\ \A c \in Content : c # NoBlob
    /\ Free \notin Handlers
    /\ Edits \cap (Undos \cup Redos \cup Restores) = {}
    /\ Undos \cap (Redos \cup Restores) = {}
    /\ Redos \cap Restores = {}

\* base is the If-Match revision, target the version a restore asks for.
Request == [tx : TxIds, base : Versions, target : 0..MaxVersion]

\* A history row is ordered by history_id; rows are inserted by commits only,
\* so the version of the after snapshot orders them the same way.
HistoryRow == [before : Versions, after : Versions, undone : BOOLEAN]

Status == {"none", "ok", "conflict", "invalid", "error"}
Reply  == [status : Status, revision : 0..MaxVersion]

\* Labels of a handler; those in Locked hold the write lock.
Locked == {"admit", "execute", "put", "commit", "readBack", "discard", "reply"}
Labels == {"idle", "restoreRead", "restoreLoad", "earlyReply", "waiting"} \cup Locked

VARIABLES
    version,       \* artifacts.version; snapshot_key is always its key
    snapshots,     \* artifact_snapshots: the registered versions.  The row
                   \* holds the key; what the commit meant to store under it
                   \* is recorded here as an auxiliary value.
    transactions,  \* artifact_transactions: version committed by an id, or 0
    history,       \* artifact_history
    blobs,         \* blob store: object under the key of each version
    lock,          \* AppState.write_lock
    pc, req, cand, entry, reply,   \* one handler's label and locals
    acked          \* transactions some client was told are committed

dbVars      == <<version, snapshots, transactions, history>>
handlerVars == <<pc, req, cand, entry, reply>>
vars        == <<dbVars, blobs, lock, handlerVars, acked>>

NoReply == [status |-> "none", revision |-> 0]

Init ==
    /\ version = 1
    /\ snapshots = [v \in Versions |-> IF v = 1 THEN {} ELSE NoBlob]
    /\ transactions = [t \in TxIds |-> 0]
    /\ history = {}
    /\ blobs = snapshots
    /\ lock = Free
    /\ pc = [h \in Handlers |-> "idle"]
    /\ req = [h \in Handlers |-> NoRequest]
    /\ cand = [h \in Handlers |-> NoBlob]
    /\ entry = [h \in Handlers |-> 0]
    /\ reply = [h \in Handlers |-> NoReply]
    /\ acked = {}

--------------------------------------------------------------------------------
(* Helpers.                                                                     *)

Goto(h, label) == pc' = [pc EXCEPT ![h] = label]

Answer(h, status, revision) ==
    /\ reply' = [reply EXCEPT ![h] = [status |-> status, revision |-> revision]]
    /\ Goto(h, "reply")

Committed(t)  == transactions[t] # 0
Registered(v) == snapshots[v] # NoBlob

Active == {e \in history : ~e.undone}
Undone == {e \in history : e.undone}

\* get_artifact_history: undo takes the newest active row, redo the oldest
\* undone one.
\* (Broken variants, each named for its mistake, stand before the definition
\* they stand in for; the README says which property notices which.)
NextUndoOldestFirst(e) == \A f \in Active : e.after <= f.after

NextUndo(e) == \A f \in Active : f.after <= e.after
NextRedo(e) == \A f \in Undone : e.after <= f.after

\* The handler's locals when its slot is free again.
Forget(h) ==
    /\ Goto(h, "idle")
    /\ req'   = [req EXCEPT ![h] = NoRequest]
    /\ cand'  = [cand EXCEPT ![h] = NoBlob]
    /\ entry' = [entry EXCEPT ![h] = 0]
    /\ reply' = [reply EXCEPT ![h] = NoReply]

\* Leaving the handler drops its guard of the write lock.
Release(h) == lock' = IF lock = h THEN Free ELSE lock

--------------------------------------------------------------------------------
(* Arrival.  A client names a revision it has seen.  The same id may arrive     *)
(* again at any time: a retry after a lost answer, a duplicate still in         *)
(* flight, or the outbox's resubmission with a newer base after a conflict.     *)

Arrive(h) ==
    /\ pc[h] = "idle"
    /\ \E t \in TxIds, b \in 1..version :
         \E v \in IF t \in Restores THEN 1..version ELSE {0} :
           /\ req' = [req EXCEPT ![h] = [tx |-> t, base |-> b, target |-> v]]
           /\ Goto(h, IF t \in Restores THEN "restoreRead" ELSE "waiting")
    /\ UNCHANGED <<dbVars, blobs, lock, cand, entry, reply, acked>>

(* restore_snapshot before it takes the lock.  The row it reads first is held   *)
(* across the lookup of the id, so another handler may commit in between; a     *)
(* restore of the current version is answered without any commit.               *)
RestoreRead(h) ==
    /\ pc[h] = "restoreRead"
    /\ reply' = [reply EXCEPT ![h] = [status |-> "none", revision |-> version]]
    /\ Goto(h, "restoreLoad")
    /\ UNCHANGED <<dbVars, blobs, lock, req, cand, entry, acked>>

EarlyAnswer(h, status, revision) ==
    /\ reply' = [reply EXCEPT ![h] = [status |-> status, revision |-> revision]]
    /\ Goto(h, "earlyReply")
    /\ UNCHANGED cand

RestoreLoad(h) ==
    LET r == req[h]
        seen == reply[h].revision
        alreadyThere == Committed(r.tx) \/ (seen = r.base /\ r.target = seen)
    IN  /\ pc[h] = "restoreLoad"
        /\ \/ /\ alreadyThere
              /\ EarlyAnswer(h, "ok", seen)
           \/ /\ ~alreadyThere
              /\ seen # r.base
              /\ EarlyAnswer(h, "conflict", 0)
           \/ /\ ~alreadyThere
              /\ seen = r.base
              /\ blobs[r.target] = NoBlob
              /\ EarlyAnswer(h, "error", 0)
           \/ /\ ~alreadyThere
              /\ seen = r.base
              /\ blobs[r.target] # NoBlob
              /\ cand' = [cand EXCEPT ![h] = blobs[r.target]]
              /\ reply' = [reply EXCEPT ![h] = NoReply]
              /\ Goto(h, "waiting")
        /\ UNCHANGED <<dbVars, blobs, lock, req, entry, acked>>

Acquire(h) ==
    /\ pc[h] = "waiting"
    /\ lock = Free
    /\ lock' = h
    /\ Goto(h, "admit")
    /\ UNCHANGED <<dbVars, blobs, req, cand, entry, reply, acked>>

--------------------------------------------------------------------------------
(* Under the lock.                                                              *)

\* load_target reads the stored Artifact before anything else, also for a
\* request that will only be answered from the log; a restore, which brings
\* its content along, reads the row only.
LoadFails(h) == req[h].tx \notin Restores /\ blobs[version] = NoBlob

\* Broken: the base revision is compared before the log is consulted.
AdmitConflictFirst(h) ==
    LET t == req[h].tx
    IN  /\ pc[h] = "admit"
        /\ \/ req[h].base # version /\ Answer(h, "conflict", 0) /\ UNCHANGED cand
           \/ /\ req[h].base = version
              /\ cand' = IF t \in Restores THEN cand ELSE [cand EXCEPT ![h] = blobs[version]]
              /\ Goto(h, IF t \in Restores THEN "put" ELSE "execute")
              /\ UNCHANGED reply
        /\ UNCHANGED <<dbVars, blobs, lock, req, entry, acked>>

\* Broken: a replayed commit is answered with the current version.
AdmitAnswersCurrent(h) ==
    LET t == req[h].tx
    IN  /\ pc[h] = "admit"
        /\ \/ Committed(t) /\ Answer(h, "ok", version) /\ UNCHANGED cand
           \/ ~Committed(t) /\ req[h].base # version /\ Answer(h, "conflict", 0) /\ UNCHANGED cand
           \/ /\ ~Committed(t) /\ req[h].base = version
              /\ cand' = IF t \in Restores THEN cand ELSE [cand EXCEPT ![h] = blobs[version]]
              /\ Goto(h, IF t \in Restores THEN "put" ELSE "execute")
              /\ UNCHANGED reply
        /\ UNCHANGED <<dbVars, blobs, lock, req, entry, acked>>

(* load_target, replay_if_committed and require_current_revision.  The log is   *)
(* consulted before the base revision, so that a retry of a committed           *)
(* transaction is answered with its own version however far the Artifact went.  *)
Admit(h) ==
    LET t == req[h].tx
    IN  /\ pc[h] = "admit"
        /\ \/ /\ LoadFails(h)
              /\ Answer(h, "error", 0)
              /\ UNCHANGED cand
           \/ /\ ~LoadFails(h)
              /\ Committed(t)
              /\ Answer(h, "ok", transactions[t])
              /\ UNCHANGED cand
           \/ /\ ~LoadFails(h)
              /\ ~Committed(t)
              /\ req[h].base # version
              /\ Answer(h, "conflict", 0)
              /\ UNCHANGED cand
           \/ /\ ~LoadFails(h)
              /\ ~Committed(t)
              /\ req[h].base = version
              /\ cand' = IF t \in Restores THEN cand
                         ELSE [cand EXCEPT ![h] = blobs[version]]
              /\ Goto(h, IF t \in Restores THEN "put" ELSE "execute")
              /\ UNCHANGED reply
        /\ UNCHANGED <<dbVars, blobs, lock, req, entry, acked>>

(* The engine applies the commands to the loaded content, or rejects them.      *)
ExecuteEdit(h) ==
    /\ pc[h] = "execute"
    /\ req[h].tx \in Edits
    /\ \/ /\ cand' = [cand EXCEPT ![h] = @ \cup {req[h].tx}]
          /\ Goto(h, "put")
          /\ UNCHANGED reply
       \/ /\ Answer(h, "invalid", 0)
          /\ UNCHANGED cand
    /\ UNCHANGED <<dbVars, blobs, lock, req, entry, acked>>

(* submit_history_transaction up to the candidate: nothing to undo or redo, or  *)
(* a row to move and a copy of the content before it (undo) or after it (redo). *)
NothingToDo(h) ==
    /\ Answer(h, "invalid", 0)
    /\ UNCHANGED <<cand, entry>>

CopySnapshot(h, row, v) ==
    \/ /\ blobs[v] = NoBlob
       /\ Answer(h, "error", 0)
       /\ UNCHANGED <<cand, entry>>
    \/ /\ blobs[v] # NoBlob
       /\ cand' = [cand EXCEPT ![h] = blobs[v]]
       /\ entry' = [entry EXCEPT ![h] = row.after]
       /\ Goto(h, "put")
       /\ UNCHANGED reply

ExecuteUndo(h) ==
    /\ pc[h] = "execute"
    /\ req[h].tx \in Undos
    /\ \/ Active = {} /\ NothingToDo(h)
       \/ \E e \in Active : NextUndo(e) /\ CopySnapshot(h, e, e.before)
    /\ UNCHANGED <<dbVars, blobs, lock, req, acked>>

ExecuteRedo(h) ==
    /\ pc[h] = "execute"
    /\ req[h].tx \in Redos
    /\ \/ Undone = {} /\ NothingToDo(h)
       \/ \E e \in Undone : NextRedo(e) /\ CopySnapshot(h, e, e.after)
    /\ UNCHANGED <<dbVars, blobs, lock, req, acked>>

\* Broken: the next version is computed without checking for overflow.
PutSnapshotOverflows(h) ==
    /\ pc[h] = "put"
    /\ req[h].base = version
    /\ blobs' = [blobs EXCEPT ![version + 1] = cand[h]]
    /\ Goto(h, "commit")
    /\ UNCHANGED <<dbVars, lock, req, cand, entry, reply, acked>>

(* prepare_artifact_save: the version is checked again and must not overflow;   *)
(* put renames a synced temporary file, so the object appears whole or not at   *)
(* all, but an error of the last directory sync is reported after the rename.   *)
PutSnapshot(h) ==
    /\ pc[h] = "put"
    /\ \/ /\ req[h].base # version
          /\ Answer(h, "conflict", 0)
          /\ UNCHANGED blobs
       \/ /\ req[h].base = version
          /\ version = MaxVersion
          /\ Answer(h, "error", 0)
          /\ UNCHANGED blobs
       \/ /\ req[h].base = version
          /\ version < MaxVersion
          /\ blobs' = [blobs EXCEPT ![version + 1] = cand[h]]
          /\ \/ Goto(h, "commit") /\ UNCHANGED reply
             \/ Answer(h, "error", 0)
       \/ /\ req[h].base = version
          /\ version < MaxVersion
          /\ Answer(h, "error", 0)
          /\ UNCHANGED blobs
    /\ UNCHANGED <<dbVars, lock, req, cand, entry, acked>>

Moved(e, undone) == [before |-> e.before, after |-> e.after, undone |-> undone]

\* Broken: a commit keeps the rows a redo could have replayed.
HistoryAfterKeepsRedo(h) ==
    IF req[h].tx \in Undos \cup Redos
    THEN {IF e.after = entry[h] THEN Moved(e, req[h].tx \in Undos) ELSE e : e \in history}
    ELSE history \cup {[before |-> version, after |-> version + 1, undone |-> FALSE]}

\* A commit deletes the rows a redo could have replayed and adds its own row;
\* a history action flips the row it chose.
HistoryAfter(h) ==
    IF req[h].tx \in Undos \cup Redos
    THEN {IF e.after = entry[h] THEN Moved(e, req[h].tx \in Undos) ELSE e : e \in history}
    ELSE Active \cup {[before |-> version, after |-> version + 1, undone |-> FALSE]}

\* The WHERE clauses and keys that make the SQLite transaction roll back.  A
\* clause no row meets is answered like a conflict, a duplicate key is an error.
RowChosen(h) ==
    /\ req[h].tx \in Undos => \E e \in Active : e.after = entry[h]
    /\ req[h].tx \in Redos => \E e \in Undone : e.after = entry[h]

RowsMatch(h) ==
    /\ version = req[h].base
    /\ ~Committed(req[h].tx)
    /\ RowChosen(h)

NoRowMeets(h) == version # req[h].base \/ (~Committed(req[h].tx) /\ ~RowChosen(h))

\* Broken: undo and redo leave no row in the transaction log.
CommitForgetsHistoryId(h) ==
    /\ pc[h] = "commit"
    /\ RowsMatch(h)
    /\ version' = version + 1
    /\ snapshots' = [snapshots EXCEPT ![version + 1] = cand[h]]
    /\ transactions' = IF req[h].tx \in Undos \cup Redos THEN transactions
                       ELSE [transactions EXCEPT ![req[h].tx] = version + 1]
    /\ history' = HistoryAfter(h)
    /\ Goto(h, "readBack")
    /\ UNCHANGED <<blobs, lock, req, cand, entry, reply, acked>>

\* Broken: a rolled back transaction is reported like a committed one.
CommitIgnoresRollback(h) ==
    /\ pc[h] = "commit"
    /\ \/ /\ RowsMatch(h)
          /\ version' = version + 1
          /\ snapshots' = [snapshots EXCEPT ![version + 1] = cand[h]]
          /\ transactions' = [transactions EXCEPT ![req[h].tx] = version + 1]
          /\ history' = HistoryAfter(h)
       \/ UNCHANGED dbVars
    /\ Goto(h, "readBack")
    /\ UNCHANGED <<blobs, lock, req, cand, entry, reply, acked>>

(* commit_artifact_transaction_internal / commit_artifact_history_internal up   *)
(* to COMMIT: all the rows, or (a guard fails, SQLite reports an error, an      *)
(* asset reference does not match) none of them.                                *)
Commit(h) ==
    /\ pc[h] = "commit"
    /\ \/ /\ RowsMatch(h)
          /\ version' = version + 1
          /\ snapshots' = [snapshots EXCEPT ![version + 1] = cand[h]]
          /\ transactions' = [transactions EXCEPT ![req[h].tx] = version + 1]
          /\ history' = HistoryAfter(h)
          /\ Goto(h, "readBack")
          /\ UNCHANGED reply
       \/ /\ reply' = [reply EXCEPT ![h] = [status |-> IF NoRowMeets(h) THEN "conflict" ELSE "error",
                                            revision |-> 0]]
          /\ Goto(h, "discard")
          /\ UNCHANGED dbVars
    /\ UNCHANGED <<blobs, lock, req, cand, entry, acked>>

(* get_artifact after COMMIT, whose error commit_candidate cannot tell from     *)
(* that of a transaction which was rolled back.                                 *)
ReadBack(h) ==
    /\ pc[h] = "readBack"
    /\ \/ Answer(h, "ok", version)
       \/ /\ ReadBackMayFail
          /\ reply' = [reply EXCEPT ![h] = [status |-> "error", revision |-> 0]]
          /\ Goto(h, "discard")
    /\ UNCHANGED <<dbVars, blobs, lock, req, cand, entry, acked>>

(* discard_candidate_snapshot: a failing delete is logged and leaves the        *)
(* candidate behind.                                                            *)
Discard(h) ==
    /\ pc[h] = "discard"
    /\ \/ blobs' = [blobs EXCEPT ![req[h].base + 1] = NoBlob]
       \/ UNCHANGED blobs
    /\ Goto(h, "reply")
    /\ UNCHANGED <<dbVars, lock, req, cand, entry, reply, acked>>

(* The answer reaches the client.                                               *)
Respond(h) ==
    /\ pc[h] \in {"reply", "earlyReply"}
    /\ acked' = IF reply[h].status = "ok" /\ req[h].target # reply[h].revision
                THEN acked \cup {req[h].tx} ELSE acked
    /\ Release(h)
    /\ Forget(h)
    /\ UNCHANGED <<dbVars, blobs>>

--------------------------------------------------------------------------------
(* What may happen to a handler at any await, and to the process.               *)

(* The client is gone: the handler's future is dropped where it stands, an open *)
(* SQLite transaction rolls back, the lock is released, nothing is discarded.   *)
(* A query or a read that fails at any other label ends the handler in the same *)
(* way, with an error answer that promises nothing.                             *)
Cancel(h) ==
    /\ pc[h] # "idle"
    /\ Release(h)
    /\ Forget(h)
    /\ UNCHANGED <<dbVars, blobs, acked>>

(* The process stops and starts again.  With OO_ENABLE_BLOB_GC the start        *)
(* deletes every object no row names.                                           *)
Restart ==
    /\ \E h \in Handlers : pc[h] # "idle"
    /\ lock' = Free
    /\ pc' = [h \in Handlers |-> "idle"]
    /\ req' = [h \in Handlers |-> NoRequest]
    /\ cand' = [h \in Handlers |-> NoBlob]
    /\ entry' = [h \in Handlers |-> 0]
    /\ reply' = [h \in Handlers |-> NoReply]
    /\ UNCHANGED <<dbVars, blobs, acked>>

\* Broken: only the current pointer counts as a reference.
RestartWithPointerGc ==
    /\ \A h \in Handlers : pc[h] = "idle"
    /\ blobs' = [v \in Versions |-> IF v = version THEN blobs[v] ELSE NoBlob]
    /\ UNCHANGED <<dbVars, lock, handlerVars, acked>>

RestartWithBlobGc ==
    /\ \A h \in Handlers : pc[h] = "idle"
    /\ blobs' = [v \in Versions |-> IF Registered(v) THEN blobs[v] ELSE NoBlob]
    /\ UNCHANGED <<dbVars, lock, handlerVars, acked>>

Step(h) ==
    \/ Arrive(h) \/ RestoreRead(h) \/ RestoreLoad(h) \/ Acquire(h) \/ Admit(h)
    \/ ExecuteEdit(h) \/ ExecuteUndo(h) \/ ExecuteRedo(h)
    \/ PutSnapshot(h) \/ Commit(h) \/ ReadBack(h) \/ Discard(h)
    \/ Respond(h) \/ Cancel(h)

Next == (\E h \in Handlers : Step(h)) \/ Restart \/ RestartWithBlobGc

Spec == Init /\ [][Next]_vars

--------------------------------------------------------------------------------
(* Properties.                                                                  *)

\* Every variable holds a value of its kind.
TypeOK ==
    /\ version \in Versions
    /\ snapshots \in [Versions -> Blob]
    /\ transactions \in [TxIds -> 0..MaxVersion]
    /\ history \subseteq HistoryRow
    /\ blobs \in [Versions -> Blob]
    /\ lock \in Handlers \cup {Free}
    /\ pc \in [Handlers -> Labels]
    /\ req \in [Handlers -> Request \cup {NoRequest}]
    /\ cand \in [Handlers -> Blob]
    /\ entry \in [Handlers -> 0..MaxVersion]
    /\ reply \in [Handlers -> Reply]
    /\ acked \subseteq TxIds

\* Every registered version, the current one included, can be read from the
\* blob store and says what its commit meant to store, whatever was cancelled,
\* crashed, discarded or collected in between: the candidate of a later
\* attempt, stored under the same key, never takes its place.
SnapshotsIntact ==
    \A v \in Versions : v <= version => Registered(v) /\ blobs[v] = snapshots[v]

\* The version log and the transaction log tell the same story: every version
\* after the first was made by exactly one transaction id, and no id made two.
OneTransactionPerVersion ==
    /\ \A v \in 2..version : \E t \in TxIds : transactions[t] = v
    /\ \A t, u \in TxIds : Committed(t) /\ transactions[t] = transactions[u] => t = u
    /\ \A t \in TxIds : transactions[t] <= version

\* A client that was told a transaction is committed is never wrong about it,
\* in particular not after a crash that follows the answer.
AcknowledgedIsCommitted == \A t \in acked : Committed(t)

\* A conflict answer is final for the request it answers: its base is behind
\* the Artifact for good and it is not the request that committed the id.  The
\* outbox relies on this when it rebases the same id onto a newer revision.
ConflictIsNotApplied ==
    \A h \in Handlers :
        pc[h] \in {"reply", "earlyReply", "discard"} /\ reply[h].status = "conflict"
            => /\ req[h].base < version
               /\ transactions[req[h].tx] # req[h].base + 1

\* An answer under the lock names the version that committed the id, also when
\* it replays a commit of long ago.
AnswerNamesItsCommit ==
    \A h \in Handlers :
        pc[h] = "reply" /\ reply[h].status = "ok" => reply[h].revision = transactions[req[h].tx]

\* The history rows are one linear stack over the stored snapshots: undone rows
\* are the newest, each row starts from the content the row before it left, and
\* the current content is what the newest active row left and what the oldest
\* undone row started from.
Follows(f, e) == e.after < f.after /\ ~ \E g \in history : e.after < g.after /\ g.after < f.after

HistoryIsAStack ==
    /\ \A e, f \in history : e.undone /\ e.after < f.after => f.undone
    /\ \A e, f \in history : Follows(f, e) => snapshots[e.after] = snapshots[f.before]
    /\ \A e \in Active : NextUndo(e) => snapshots[version] = snapshots[e.after]
    /\ \A e \in Undone : NextRedo(e) => snapshots[version] = snapshots[e.before]

================================================================================
