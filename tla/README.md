# OpenDocs: specifications and proofs

OpenDocs is an office suite. A Rust server keeps documents, spreadsheets, presentations,
mind maps and whiteboards as *Artifacts*; web editors and an SDK change them by sending
transactions of commands. This directory models the parts whose correctness depends on
order, failure, retry and inversion, checks them with TLC on small instances, and proves the
most important properties with TLAPS for every value of the constants.

## The system

| Component (source) | State | Operations | What is hard |
|---|---|---|---|
| Transaction kernel (`oo-server`: `transaction_kernel.rs`, `routes.rs`, `db.rs`, `store.rs`) | rows of Artifacts, snapshots, transactions and history; one object per version; one process-wide write lock | submit an edit, undo, redo; restore a version; collect objects at start | two stores that commit apart, dropped handlers, crashes, retries and rebased resubmissions of one id, a linear history |
| Domain event outbox (`db.rs`) | `artifact_event_outbox` | insert with a commit, claim under a lease, acknowledge, fail | late, crashed and concurrent workers |
| Review threads (`review.rs`) | threads and messages | create, change state, accept a suggestion, reply | a commit and a state write without a common lock |
| Editor session (`useBlockSession.ts`, `runtime/*.ts`) | outbox queue, committed snapshot, local engine, one flight, timers, history intents | type, flush, save, undo, redo, reload | answers that arrive after the user typed on, lost answers, conflicts, drafts folded into a queued transaction |
| Artifact files (`artifact_routes.rs`, `store.rs`, `db.rs`, `gc-assets.rs`) | source, snapshots, assets, their rows, reference counts and integrity records | create, import, upload, commit, delete, collect | several stores per operation, undone by hand; deletion without the write lock |
| Event feed, stream, change summaries (`events.rs`, `db.rs`, the SDK's consumer, `MindmapStudio.tsx`) | position of a consumer; cursor of a stream; layers of a projection | page through events; follow a stream; load again, whole or by layer | commits between two pages; cut summaries, overtaken loads, dropped streams |
| Presence (`presence.rs`) | entries in memory with a time to live | publish, list, expire | the Artifact is loaded apart from the board |
| Engines (`oo-mindmap`, `oo-whiteboard`, `oo-presentation`, `oo-spreadsheet`, `oo-document`) | a model, a journal, caches beside the model | commands in batches, refusal, undo, redo | exact inverses, rollback in place, references into moving structures, indexes patched in place |
| Calculation (`oo-spreadsheet/calculation.rs`, `projection.rs`) | memo and visiting marks | evaluate all, with errors, or a window | one memo for cells, errors and cycles; calendar edges |
| Projections (`projection.rs`) | none; a cursor in the reader's hand | pages, print sections, overviews | commits between two pages, byte budgets |
| Scene index (`oo-whiteboard`) | a grid of cells, bounds, paint order | build, patch, query, select, snap, route | a patch refused half way |
| Migrations (`oo-schema`, `bin/migrate-*`, `bin/reconcile-snapshots`) | stored snapshots, backups, staging runs, a pointer | convert, stage, apply, register | crashes and failed writes between backup and replacement; silent loss |
| Authentication, routing, import and export, other studios | none that the others see | | not modelled |

An editor sends a transaction under an id and a base revision. The server admits it under
the write lock, runs it on an engine loaded from the newest snapshot, stores the candidate
snapshot, commits rows, events and change summary in one SQLite transaction, and answers.
The editor applies the answer to its committed snapshot and replays what was typed
meanwhile; after a conflict it fetches the newest snapshot, replays its queue on it and
sends the *same id* again. Accepting a suggestion is such a transaction issued by the server
itself. Workers take events from the outbox, SDK consumers page through the feed, studios
follow the stream and load snapshots or projections, and the presence board is filtered by
the newest snapshot.

What makes each part correct: a revision is committed by one id and stays readable with the
content its commit meant; undo and redo walk one stack; an answer is never wrong (kernel).
An event is delivered, to one lease holder at a time (outbox), and a consumer's position
passes none (feed). A replacement goes in once, and `accepted` means it went in (review). A
typed edit is on the server or queued, never twice, never overtaken (session). What a row
names is stored (files). A layer not computed again is the one the whole projection would
show (stream). A place shown is a place of the document (presence). Refused and undone
batches leave no trace but those findings 6 to 9 are about, and structures stay sound
(engines). A cell has one value whatever
window it is read in (calculation), a reader puts together one revision (projections), a
query answers what is drawn (scene), and a migration keeps every original or a copy of it,
and says what its conversions give up, but for the drops listed below (migrations).

## Modules

**Transactions.**

* `ArtifactHistory` is the abstract specification: an append-only list of revisions, an undo
  stack, a redo stack a new edit throws away, ids that take effect once.
* `TransactionKernel` is the server path for one Document. A handler has a label (`pc`) and
  locals; each action is what the code does between two awaits that matter: `Arrive`,
  `RestoreRead`, `RestoreLoad` (before the lock), `Acquire`, `Admit` (`load_target`,
  `replay_if_committed`, `require_current_revision`), `ExecuteEdit/Undo/Redo`,
  `PutSnapshot`, `Commit`, `ReadBack`, `Discard`, `Respond`. `Cancel` drops a handler at any
  label, `Restart` the process; `RestartWithBlobGc` is `remove_unreferenced`. A content is
  the set of edits whose effect it holds. `snapshots` records what a commit meant to store
  under its key (an auxiliary value; the row has the key), `acked` what clients were told.
* `KernelRefinement` maps the kernel to `ArtifactHistory`, reading contents from the object
  store, so that losing or overwriting an object is a step the abstraction lacks.
* `EventOutbox`: `status`, `owner`, `due`, `expired`, `attempts` are the columns; time is
  the two actions `BecomeDue` and `Expire`; `held` are the claims the workers have in hand.
  The workers are not in the repository and are modelled from the comments of the primitives
  they call: claim, act, acknowledge or fail, stop at any point.
* `ReviewThreads`: PATCH handlers with the steps of `update`: `ReadRow`, `LoadDocument`,
  `Submit`, `WriteState`, and `Cancel` at each. A server transaction is one step, which
  `KernelRefinement` justifies. `Edit` brings any text to an anchor, as undo and restore
  may.
* `EditorSession`: one session, its network and the server as `ArtifactHistory` lets the
  session see it. A transaction is named by its first edit; a content is the sequence of
  edits in it, so that order and doubling show. A request stays on `wire` until the server
  handles it, however long the session has given up on it. `Land` is the `finally` block of
  `flush`.

**Engines.** `MindmapEngine`, `WhiteboardEngine`, `PresentationEngine` (with `TableNode`,
the grid of a table), `SpreadsheetEngine` and `DocumentEngine` each have one action per
command, and `Commit`, `Refuse`, `Undo`, `Redo` as the code has them: where the code folds
over a copy the model does, where it changes the live model and takes it back by inverses or
mutations, so does the model. Payloads (text, style, geometry) are values or lengths; all
structure that commands read or write is kept. `model`, `before` and `after` are auxiliary:
what the artifact was around a batch, and a refused batch sets `model` to what it began
with, not to what is left. A document's commit announces what its commands told the
`ChangeTracker` (`told`); its undo and redo announce what their mutations touch, as in
`ChangeSet`. `ArtifactEngines` composes the five: an Artifact's
kind decides which engine its commands go to. The server loads an engine for every request;
the behaviours here are those of one engine through a batch and its undo and redo.

**Services.** `ArtifactServices` composes what surrounds the transactions:
`ArtifactFiles` (handlers, the two collectors, crashes), `EventFeed`, `MindmapFollower`,
`PresenceBoard`, `ProjectionPages`, `SceneIndex` and, while the server is stopped,
`SnapshotMigration` over `PresentationCompiler` and `SnapshotConversion`. `ArtifactParts`
adds what a snapshot's formulas come to: `FormulaCalculator`. They share no variable (each
sees the Artifact as revisions somebody commits), so `part` chooses one per behaviour. The
two compositions are apart because expressions are evaluated with `RECURSIVE` operators,
from which nothing can be proved; everything in `ArtifactServices` can be proved about. The
conversions walk JSON by its places instead: `Places` lists the paths of a tree up to the
depth at which `serde_json` refuses it, and `Paragraphed` rewrites the tree from its leaves.
The pages walk a document by a list of what is still to come (`Visit`), one step for each
place in which a child is listed, which is the order of the recursion in
`collect_block_meta_recursive`. External, modelled from how the code in the
repository uses them: the reader of pages, and the editor that patches the scene index (only
`export_projection` and tests call it so far).

`MC*.tla` give TLC symmetry, the bounds and the sets a `.cfg` cannot write. `MCClients` puts
the outbox, the review threads and the session side by side and `MCEnginePairs` a deck or a
mindmap beside a document; a behaviour of `MCClients` is one of a single part. Definitions
commented *Broken* are deliberate mistakes; each stands before the definition it can
replace, and replacing it makes TLC report the property `PROJECT.json` names with it.

## Runs

| Run | Shows | Bounds and why they are enough |
|---|---|---|
| `kernel` | types; snapshots, ids, answers, conflicts; the stack invariant and the refinement | *short* histories: 2 handlers, 2 edits, an undo, a redo, a restore, 4 versions, so that a handler races a duplicate of itself, a retry comes after further commits, and a restore is stale; *long* ones: one request at a time, 2 edits, 2 undos, a redo, a restore, up to the largest version 6, so that undo-undo-redo-edit occurs and the version runs out (1,181,407 states in all) |
| `kernel_readback` | **violation** (finding 1) | 1 handler |
| `clients` | *outbox*: leases, finality, delivery; *review*: once-only application, accepted implies applied; *session*: mirror, local view, no loss, no overtaking, delivery | *outbox*: 2 events, 2 workers, limit 2, 3 attempts: claim, takeover, late answer of the first worker; *review*: 2 handlers, a comment, 2 suggestions, 4 revisions; *session*: 3 edits (a head in flight, a draft behind it, another), an undo, 4 revisions, 2 attempts, `Patient = TRUE` (592,942 states in all) |
| `outbox_late_ack` | **violation** (finding 2) | the outbox as in `clients` |
| `review_retry` | **violation** (finding 3) | the threads as in `clients` |
| `session_undo` | **violation** (finding 4) | `Patient = FALSE` |
| `session_saved` | **violation** (finding 5) | `Patient = FALSE` |
| `engines` | what refused, undone and redone batches leave; forests, spans, references, indexes, change sets | every batch of 2 commands (3 for a whiteboard, which has no journal), committed or refused, its undo and redo, from models that hold every structure (nested nodes and groups, merged cells, rules, sections and notes); inputs include ids that do not exist and indices past the end (203,657 states) |
| `engines_refusals` | **violation** (findings 6 and 7) | a deck and a document, each with batches of 2 commands; the property asks that *at least one* of the two keeps its promise, so that the trace breaks both |
| `engines_undo` | **violation** (findings 8 and 9) | a mindmap and a document, batches of one command, in the same way |
| `service` | types, and the property of each part | 334,295 states in all, by part below |
| `service_discards` | **violation** (finding 10) | as `service` |

The parts of `service`: *files* (23,588 states) 2 handlers, 1 asset, 2 revisions, so that any
two operations interleave at every await with failures and a crash; *feed* (6,647) 4
revisions of up to 2 events and pages of 1 to 3, so that a page ends within a revision, at
its end and beyond; *follower* (126,500) 4 revisions, a summary cut at 2, 1 fault; *board*
(106,696) 1 session, 1 reader, 2 blocks, 2 revisions, 2 puts, 1 lost answer; *cells*
(40,354) every way to fill three cells with numbers and formulas that read, cycle through
and catch each other, and 21 laws over the worksheet functions with numbers, texts and
dates on both sides of each edge; *pages* (4,821) 3 revisions, budgets 2, 4, 6, 9 under a
maximum of 8, 2 items a page, 3 documents, 2 decks, 2 workbooks, 14 views; *scene* (7,890)
2 elements, 3 areas of which one has no width and one is too large to index, 2 cameras, the
changes of an edit in either order; *migration* (17,799) folders with documents, mind maps,
spreadsheets and decks of versions 1 to 10, well formed, malformed or unreadable, with a
second object beside, 1 failed access and a crash at every step; blocks and shapes have
attributes of the types the converters expect and of others.

`Patient = TRUE` is a user who does not type between an undo request and the reload that
follows, and who reloads only when everything is saved. Nothing in the UI enforces that; the
two violation runs of the session show what happens otherwise. Nothing else is assumed of
the user, the network or other sessions.

Deadlock is checked for the kernel. The other systems stop when their bounded work is used
up (every event delivered, every edit typed, a batch committed and undone), hence
`CHECK_DEADLOCK FALSE` there. Symmetry is used where no liveness is checked and ids are
interchangeable: `kernel`, `review_retry`.

### Fairness

`clients`, outbox: time passes (`BecomeDue`, `Expire`), workers that are up keep claiming
and finish what they hold; nothing is assumed of `Fail` and `Crash`. An event on its last
modelled attempt meets no further fault: without that bound `attempts` grows for ever, and
an event that fails on every attempt is indeed never delivered.

`clients`, session: timers fire, a started flush runs on, and an awaited fetch ends somehow (an
answer or an error). The browser guarantees all three while the page lives. The server is
not assumed to answer. `SaveEnds` may give up only when a timer or flight is left or the
queue is blocked: the 30 s deadline of `flushAll` is longer than the longest retry delay (8
s), so at least one attempt, which sets a timer again, comes before it.

`service`: for `FollowersCatchUp` a consumer keeps asking (weak), and a request that is made
again and again is answered and taken at last (strong: single requests may be lost for ever
only if all are). The studio's steps, the server's polls and deliveries are each weakly
fair, as timers and the runtime make them; faults are bounded by `MaxFaults` and
`MaxLosses`, and nothing forces one. On the board, a page that is open publishes at its
interval, entries age, and started validations, stores and reads end. Sessions may
move in their Document for ever, so that the property is about behaviours in which they come
to rest at last; commits are bounded.

## Findings

1. `transaction_kernel.rs:146`: an error of the SELECT after COMMIT is taken for a rollback
   and the committed snapshot is discarded (`kernel_readback`).
2. `db.rs:1069`: `ack_domain_event` promises a lease check and compares the owner only
   (`outbox_late_ack`).
3. `review.rs:468`: the final UPDATE is unconditional, so a racing or later reject leaves a
   thread rejected with its replacement committed, and retrying the accept is refused
   (`review_retry`).
4. `useBlockSession.ts:1045`: the outbox is checked before the undo request only
   (`session_undo`).
5. `useBlockSession.ts:281`: `load()` drops queued edits (`session_saved`).
6. `oo-document/lib.rs:1509`: a refused `SetImageConfig` has already set the asset and
   journalled nothing, so that the rollback leaves it, where `execute` promises that "the
   live model and indexes remain unchanged" (`engines_refusals`).
7. `oo-presentation/lib.rs:1949`: a refused `SetTableCellStyle` leaves the styles of the
   cells before the address it was refused for, in a batch that is to be atomic
   (`engines_refusals`).
8. `oo-document/lib.rs:2492`: taking back the deletion of a block with children drops the
   children's entries in the index of parents, for all that the journal is exact "including
   nested subtree records" (`engines_undo`).
9. `oo-mindmap/lib.rs:2352`: index 0 inserts behind the first sibling, so that undoing a move
   of a first child loses its place, although the journal keeps "exact vector positions"
   (`engines_undo`).
10. `oo-schema/presentation_v5.rs:1563`: a `shapeKind` that is no string becomes a rectangle
   and is in no report, where the comment says that each discard is added to `losses`
   (`service_discards`).

The passing runs keep saying what holds around 6 to 10: `EditsCanBeTakenBack` leaves out
exactly what 6 to 9 leave behind, `OnlyNestedRestoreDamages` says that nothing but 8
damages a document's store, and `ConversionsAreAccounted` leaves out exactly what the
converters drop without a word.

## Limits the modelling met

Behaviour the models reproduce, or that bounds what their properties say, and for which the
repository makes no promise that a run could hold against it, or which needs inputs the
models leave out.

* *Files.* Deleting or collecting an asset that only an old revision names makes undo and
  restore of that revision refused for ever; `NamedObjectsAreStored` is therefore about the
  current revision's assets and every revision's snapshot. A crash in an import leaves an
  Artifact whose names have no asset rows, so that a save that keeps a name is refused.
  Delete leaves the assets' objects orphaned until the collector runs.
* *Stream.* A failed or overtaken incremental load, or a snapshot newer than its notice,
  leaves stale layers until the next whole load: `StaleOnlyAfterARace` names exactly these.
  An HTTP error on opening closes an `EventSource` for good.
* *Feed.* Two calls of `next()` at once could clear a pending cursor; its callers await it.
* *Mindmap.* `UndoRestores` compares order only if nothing moved (finding 9). An edge added
  in a batch that deletes a summary of the same id, and a node detached and deleted in one
  batch, are committed and cannot be undone.
* *Presentation.* `RefusedBatchLeavesOnlyStyles` leaves out the styles of cells (finding 7)
  and nothing else. `MoveAnimation` sorts by the old keys; ungrouping interleaves the z-order; aligning a group leaves its
  descendants; `DuplicateSlide` panics on a dangling reference.
* *Spreadsheet.* Rolling back a deleted rule appends it at the end (contents are compared up
  to rule order). `RenameSheet` does not rewrite formula texts. `ReplaceRange` asks no
  validation rule.
* *Document.* A batch that holds a nested deletion is left out of what undo and rollback
  restore (finding 8), and after a refused `SetImageConfig` the asset (finding 6).
* *Calculation.* A parse error leaves a cell marked as visited; `IFERROR` inside its own
  cycle makes values depend on the order; a filter judges a formula by its stored value, so
  that the row of a formula is hidden. `CellsHaveTheirValue` is about
  `calculate_targets_with_errors`, the one the server uses. Numbers are fractions: a power
  with an exponent that is not whole, and rounding to such digits, have no value in the
  model (`PowerOf`), and TLC would stop at one.
* *Pages.* A changed filter shifts offsets between pages; a first item over the largest
  budget stops the reader; decks over 200 slides are cut in the studio.
* *Scene.* A refused patch leaves an element out of the index until it is built again, and a
  scene with one element that is too large can never be built (`broken`).
* *Migrations.* The converters drop, without a word in any report, attributes of blocks
  whose type is not the one they ask for, a tick or an address beside a payload
  (`UnsaidAttrs`), and fields of a paragraph style of other names or types (`StyleSays`);
  only the deck's compiler promises a report. Two attributes of one name leave one: the
  `highlight` of a run after its `backgroundColor`. What a *typed* payload's data holds, and
  further keys of a payload, are not accounted. Versions 8 and 9 are skipped by the tool
  though the library converts them; blocks of unknown kinds fail; backups are not synced.
  `MigrationLosesNothing` asks for the original *or a copy*.

## Proofs

Every theorem is for all values of the constants that the module's assumption allows (sets
finite or infinite, any bound). None of the properties is inductive alone; the inductive
invariant of each module was checked by TLC first, most on two configurations (the session's
on 263,281 and 284,165 states, the follower's on 126,500 and 3,355,257, the files' on 73,773
and 513,186, the scene's on 20,784, the migrations' on 17,799, the pages' on 4,821, the
whiteboard's on 838).

| Module | Proves | From |
|---|---|---|
| `TransactionKernelProofs` | `TypeCorrect`, `OneTransactionPerVersionHolds`, `AcknowledgedIsCommittedHolds`, `ConflictIsNotAppliedHolds`, `AnswerNamesItsCommitHolds`, `HistoryIsAStackHolds` | nothing |
| | `SnapshotsIntactHolds`, `KernelImplementsHistory` | `~ReadBackMayFail`, which `kernel_readback` shows is needed |
| `ReviewThreadsProofs` | `ReviewTypesHold`, `SuggestionAppliedOnceHolds`, `AcceptedIsAppliedHolds` | nothing |
| `EventOutboxProofs` | `OutboxTypesHold`, `ClaimsRespectLeases`, `DeliveredStays` | nothing |
| `EditorSessionProofs` | `SessionTypeOK`, `CommittedIsTheServers`, `LocalIsReplayed`, `EditsAreKept`, `EditsKeepTheirOrder` | `Patient`, which `session_undo` and `session_saved` show is needed |
| `ArtifactFilesProofs` | `FilesTypeOK`, `FilesNamedObjectsAreStored` | nothing |
| `SceneIndexProofs` | `SceneTypesHold`, `QueriesAgree` | `IndexConstants`: areas of integers with sizes that `WorldRect::new` accepts, and a screen whose half every scale divides |
| `ArtifactServicesProofs` | `ServiceTypesHold`, `NamedObjectsStayStored`, `FeedSkipsNothing`, `IncrementalIsFull`, `SceneAnswersAgree`, `MigrationsLoseNothing`, `ConversionsAccount`, `PagesAreWhole` | the components' constants; for the pages `PageConstants`: the contents pass `DocumentModel::validate` or `Slide::validate`, as `load_artifact` requires of what it hands to a projection, and a reader's budgets are not zero (`max_bytes` takes none under `MIN_MAX_BYTES`); for the migrations `MigrationConstants`: a stored deck of the retired schema that parses is made of lists, the order of an animation is a number, and a theme with colours has an id, as the fields of the `Legacy*` types require |
| `CanvasProofs` | `RefusedSceneBatchLeavesNoTrace` | `ScenesPass`: an engine is created with scenes that pass the schema, which `WhiteboardEngine::new` checks and `ScenesAssumption` states of the run's scenes |
| | `InsertedLinesTile`, `DeletedLineTiles`, `MergedCellsTile`, `SplitCellTiles`, `ChangedCellTiles` | a table that is tiled |

*Kernel.* `CoreInv` adds to the types the lock (`LockInv`: who is past `Acquire` holds it,
so at most one handler is), what a handler knows at each label (`HandlerInv`: at `commit`
its base is the version and its id is not in the log) and the registry (`RegistryInv`:
versions up to the current one are registered and none above). On it `LogInv` gives the two
logs' agreement; `BlobInv` says that what differs from `snapshots` lies above the current
version, where the next candidate goes, and that a handler about to commit has its own bytes
there; `AnswerInv` describes replies at each label. `StackInv` adds to the stack property
that a row belongs to the one version whose commit made it (`RowsInv`), that a handler about
to undo or redo copied the snapshot of the row that is still on top (`CopyInv`), and that a
stored snapshot, if it is there, is the one that was meant (`WholeInv`). The refinement adds
where a candidate comes from (`OriginInv`) and that the rows are finitely many, so that the
mapping can sort them into two stacks; then each kind of commit has a lemma that it is the
step of `ArtifactHistory` of that name, and every other action is shown to change nothing
the mapping reads.

*Session.* `TypeOK /\ SessionInv /\ LoadInv`: the outbox holds the last edits typed without
a gap, aimed at consecutive revisions; only its head was ever sent; a request that may still
be committed is one of the head *as it is now*, which is why folding a draft into a head
that was refused is safe; and what the log says of the head stands on the committed
snapshot. Replay is `FlattenSeq`, a recursive function; what one more edit does to it is
proved by induction with a set as hypothesis (`SetInduction`, from the well-foundedness of
`<` on the naturals).

*Outbox.* A row that is or will be claimable has been claimed less often than the bound;
claims, columns and leases agree.

*Review.* The counter equals membership in the log, and a handler at `write` for an accept
has its id in the log.

*Files.* Objects are written and removed by handlers that know nothing of each other. `IInv`
says who has which asset in hand: unused, coming (drawn, no row), registering (a row, no
integrity), registered, and removed only once it has a row. Every step moves assets along
that way, leaves what other handlers stand on, and takes from the store only what nobody
needs; `StepKeeps` draws the rest from these three.

*Follower.* The notices on the wire cover every revision the studio has not heard of
(`WireInv`), a studio no load of which raced has heard of exactly what it shows
(`OrderInv`), so that the notice a load answers names every change between the snapshot
shown and its own end (`LoadInv`).

*Feed and board.* An event that a page does not hold is of a later revision than every event
it does, because a revision's events are written with it. Of the board the types are proved.

*Scene.* `SceneInv` says of the index what every patch keeps, refused or not: its cells are
those of its rectangles, every one of which fits, and what has a rectangle has a place
(`Sound`); and, unless a patch was refused, that each element of the scene has its own
rectangle and place in the index and nothing else has any (`Matches`). An edit may meet its
changes in any order, because they are of distinct elements: after any first part of them the
elements already met are as in the new scene and the others as in the old one
(`ApplyDeltaPatches`). A query is exact (`QueryIsExact`) because rectangles that meet share a
cell: division by the cell's size keeps `<=`. `FoldLeft` is a recursion over sets of indices;
each of the three folds (patches, snapping, export bounds) is unrolled by `SetInduction`.

*Composition.* `ArtifactServicesProofs` takes the proofs about the files and the scene as
instances, and shows that these instances say the same as its own (`SameFilesNext` and the
like); the feed, the follower, the board, the migrations and the pages are proved in it. Its
invariant is that of the active part.

*Migrations.* `MigrationIsKept` holds whichever of the three tools runs, fails or has
crashed. `StoreOK`: a key holds its original, or what the conversion makes of it while the
copy beside it is the original; this alone is not inductive, because the writes of one tool
land on what another left. `RunsOK`: every published staging run has the two files of each
deck that its manifest names, and the pointers name published runs. `RunningOK` says what
the running tool may rely on at each step: the converter is at a key it can convert and has
copied it before it writes it; the compiler's list has each deck once, none registered and
none touched before `put all`; there, the copies are of the originals, the decks before the
one it is at are written back and the others are not, and a restore walks the same list.
`MigrationsLoseNothing` is this much: originals, pointers, restores, success. What the
conversions make of an original is `ConversionsAccount`, which is about the operators and
not about steps. `DeckIsKept`: the compiler turns each element, animation and
attribute of a legacy deck into its place in the new one or into a loss in the report,
whatever order of animations and nesting of groups; a shape keeps its kind if that is a
string (`ShownIsAccounted`). `DocumentIsKept`: each block goes
through the chain to the current version with what its attributes, its paragraph style where
they are silent, and an unknown payload said, and what later steps of the chain rewrite does
not disturb what earlier ones wrote. What the theorem excepts is named in the property
(`UnreportedAttrs`, `UnsaidAttrs`, `StyleSays`), and `service_discards` shows the first of
these to be a discard that the code's own comment rules out.

The proof found what the runs' documents had not: an unknown payload does not always come
back as it was, because `migrate_inline_styles` rewrites the styles of anything in it that
looks like the rows of a table, whatever the block's type. `BlockIsAccounted` now says so,
and `FirstDocuments` has such a block.

*Pages.* `WalkInv` is the invariant of a walk over a document: no block is both listed and
to come or either twice (`WalkOnce`), a listed block stands before whatever the walk comes
to later (`WalkOrdered`), each under its headings (`WalkPaths`), and the children of what is
listed are listed or to come (`WalkComplete`). It is inductive because a place lists one
block and a block is in one place, which is what the schema asks of a tree. Each step takes
one place and no place is taken twice, so that after as many steps as there are places
nothing is to come; what is listed then has the roots and is closed under children, which
makes it the document. That the document's order is what is meant (`Before`), and not what
the walk happens to do, is the part that took most of the proof: it is defined by siblings
and by what is below them. `ReaderInv` says of a reader that it has the first `n` items of
one revision's listing and a cursor to the place behind them, or all; that every answer it
keeps is the one its revision gives; and that what it looked up is of the revision it says.
A page fits its budget (`PageFits`) whichever of the two ways of cutting it is used.

*Whiteboard.* `BatchCanBeTakenBack`: the mutations of the open batch, taken back in reverse,
give the scene of the last revision. It is inductive because each command's mutation takes
that command back exactly, and that rests on ids not being repeated (`Apart`, which the
invariant keeps for the draft as well). The hard one is deletion. The elements that stay are
a list built step by step (`Without`); putting the removed ones back at their old places,
the lowest first, rebuilds the list from the front (`PutBackIs`), because the places before
the next one are already as they were and what follows is what had stayed; and the parent,
if it stayed, is found by its id and gets its children back (`AdoptedIs`).

*Tables.* Tiling is told by coordinates. An operation that moves lines has a map from the
places of the new grid back to the old one: cells that meet afterwards met before
(`MovedCellsFit`). The theorems cover every operation `PresentationEngine` uses, for every
size, where `engines` has tables of two by two.

### What only TLC checks, and why

* Liveness: `EveryEventIsDelivered`, `EditsAreDelivered`, `FollowersCatchUp`. The prover has
  no rule for fairness and `ENABLED`.
* Of `ArtifactEngines`, all but the whiteboard's part: `EditsCanBeTakenBack`,
  `NodesFormAForest`, `SpansNeverOverlap`, `ReferencesFollowCells`, `IndexIsFresh`,
  `ChangeSetIsComplete`, `OnlyNestedRestoreDamages` and `ArtifactEngines`' `TypeOK`. A refused or undone batch applies inverses that mean
  something only on the model their command left, so that an inductive invariant has to
  state the exact inversion of some sixty commands, for two of the engines through recursive
  functions over trees. The table theorems are the part of `SpansNeverOverlap` that does not
  pass through inverses.
* `CellsHaveTheirValue`, `FunctionsAgree`: the calculator is written with `RECURSIVE`
  operators over expressions, and what those compute for every input needs induction over
  data. `ArtifactParts`' `TypeOK` is `ServiceTypeOK`, which is proved, with the types of the
  calculator.

## Not modelled

A `put` whose handler was dropped and whose rename completes after the lock is free
(`store.rs:157`); COMMIT reporting an error after it took effect; clock steps in the
browser; several documents (the write lock is shared by all, which only removes
interleavings); renaming, starring, collaborators, export; presence in a scene, which keeps
every entry until it expires; conversion of command records; replies in review threads; the
geometric layout of mind maps and their viewport query; rendering; number formats and the
capability table of spreadsheets; the lexer of formulas, square roots, IRR, the clock and
floating-point overflow; note anchors inside table cells; the import and export formats;
authentication, routing and errors, which keep no state a modelled handler sees; the
sessions of the other studios, which submit and load again without a queue (a refresh that
fails after a commit is reported as a failed submit).

## Plan

1. The inversions of the presentation and of the spreadsheet, after the whiteboard's pattern:
   what each command's mutation takes back, with ids that are not repeated as the invariant,
   and from it the inverses' part of `SpansNeverOverlap`.
2. The parts of engines that do not pass through inverses: merged ranges under line edits,
   bounds of rewritten references.
