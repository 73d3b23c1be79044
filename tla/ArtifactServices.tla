--------------------------- MODULE ArtifactServices ---------------------------
(***************************************************************************)
(* What surrounds an Artifact's transactions while the server runs: the    *)
(* objects and rows it is kept in, the feed of its events, the studio that *)
(* follows its stream, the reader of its pages, the board of who is where, *)
(* the index over a scene's elements and, while it is stopped, the tools   *)
(* that convert what is stored.  Each works on state of its own and sees   *)
(* the Artifact as a sequence of revisions somebody else commits, or as it *)
(* is, so that one is explored at a time.  What formulas come to is added  *)
(* by ArtifactParts.                                                       *)
(***************************************************************************)
EXTENDS Naturals

CONSTANTS
    Handlers, Assets, Imports, MaxFileRevision,
    MaxFeedRevision, MaxEvents, Limits,
    MaxMapRevision, SummaryLimit, MaxFaults,
    Sessions, Readers, Blocks, MaxBoardRevision, MaxPuts, MaxLosses,
    Elements, Areas, Points, Cameras, Screen, CellSize, MaxCells, GridSize, Threshold,
    Keys, Folders, Versions, MaxFailures,
    Bodies, Views, Budgets, MaxPageRevision, MaxBytes, MaxItems,
    None

VARIABLES
    part,
    \* ArtifactFiles
    up, row, assetRow, integrity, stored, lock, unused, created,
    pc, arg, left, base, doomed, answered, recounted,
    \* EventFeed
    version, outbox, start, cursor, lastRevision, received, request, page,
    \* MindmapFollower
    changes, stream, wire, snap, built, streamed, load, awaiting, failed, faults, raced,
    \* PresenceBoard
    blocks, open, seen, place, sent, checked, entries, loaded, shown, losses,
    \* SceneIndex
    scene, cells, bounds, order, broken, selected,
    \* SnapshotMigration
    original, blobs, saved, staging, runs, pointer, pointers, registered,
    tool, ended, launches, failures,
    \* ProjectionPages
    bodies, view, after, budget, collected, of, reading, held, looked

Files     == INSTANCE ArtifactFiles   WITH MaxRevision <- MaxFileRevision
Feed      == INSTANCE EventFeed       WITH MaxRevision <- MaxFeedRevision
Follower  == INSTANCE MindmapFollower WITH MaxRevision <- MaxMapRevision
Board     == INSTANCE PresenceBoard   WITH MaxRevision <- MaxBoardRevision
Scene     == INSTANCE SceneIndex
Tools     == INSTANCE SnapshotMigration
Pages     == INSTANCE ProjectionPages WITH MaxRevision <- MaxPageRevision

ASSUME ServiceConstants ==
    /\ Files!FileConstants
    /\ Feed!FeedConstants
    /\ Follower!FollowerConstants
    /\ Board!BoardConstants
    /\ Scene!IndexConstants
    /\ Tools!MigrationConstants
    /\ Pages!PageConstants

fileVars ==
    <<up, row, assetRow, integrity, stored, lock, unused, created, pc, arg, left, base,
      doomed, answered, recounted>>
feedVars == <<version, outbox, start, cursor, lastRevision, received, request, page>>
followerVars ==
    <<changes, stream, wire, snap, built, streamed, load, awaiting, failed, faults, raced>>
boardVars == <<blocks, open, seen, place, sent, checked, entries, loaded, shown, losses>>
sceneVars == <<scene, cells, bounds, order, broken, selected>>
migrationVars ==
    <<original, blobs, saved, staging, runs, pointer, pointers, registered,
      tool, ended, launches, failures>>
pageVars == <<bodies, view, after, budget, collected, of, reading, held, looked>>

serviceVars ==
    <<part, fileVars, feedVars, followerVars, boardVars, sceneVars, migrationVars, pageVars>>

NoFiles ==
    /\ up = None /\ row = None /\ assetRow = None /\ integrity = None /\ stored = None
    /\ lock = None /\ unused = None /\ created = None /\ pc = None /\ arg = None
    /\ left = None /\ base = None /\ doomed = None /\ answered = None /\ recounted = None

NoFeed ==
    /\ version = None /\ outbox = None /\ start = None /\ cursor = None
    /\ lastRevision = None /\ received = None /\ request = None /\ page = None

NoFollower ==
    /\ changes = None /\ stream = None /\ wire = None /\ snap = None /\ built = None
    /\ streamed = None /\ load = None /\ awaiting = None /\ failed = None
    /\ faults = None /\ raced = None

NoBoard ==
    /\ blocks = None /\ open = None /\ seen = None /\ place = None /\ sent = None
    /\ checked = None /\ entries = None /\ loaded = None /\ shown = None /\ losses = None

NoScene ==
    /\ scene = None /\ cells = None /\ bounds = None /\ order = None /\ broken = None
    /\ selected = None

NoMigration ==
    /\ original = None /\ blobs = None /\ saved = None /\ staging = None /\ runs = None
    /\ pointer = None /\ pointers = None /\ registered = None
    /\ tool = None /\ ended = None /\ launches = None /\ failures = None

NoPages ==
    /\ bodies = None /\ view = None /\ after = None /\ budget = None /\ collected = None
    /\ of = None /\ reading = None /\ held = None /\ looked = None

\* All services but the active one are idle.
Idle(active) ==
    /\ active # "files" => NoFiles
    /\ active # "feed" => NoFeed
    /\ active # "follower" => NoFollower
    /\ active # "board" => NoBoard
    /\ active # "scene" => NoScene
    /\ active # "migration" => NoMigration
    /\ active # "pages" => NoPages

ServiceInit ==
    \/ part = "files" /\ Idle(part) /\ Files!Init
    \/ part = "feed" /\ Idle(part) /\ Feed!Init
    \/ part = "follower" /\ Idle(part) /\ Follower!Init
    \/ part = "board" /\ Idle(part) /\ Board!Init
    \/ part = "scene" /\ Idle(part) /\ Scene!Init
    \/ part = "migration" /\ Idle(part) /\ Tools!Init
    \/ part = "pages" /\ Idle(part) /\ Pages!Init

\* A step of one service leaves the others alone.
OnlyFiles ==
    UNCHANGED <<part, feedVars, followerVars, boardVars, sceneVars, migrationVars, pageVars>>
OnlyFeed ==
    UNCHANGED <<part, fileVars, followerVars, boardVars, sceneVars, migrationVars, pageVars>>
OnlyFollower ==
    UNCHANGED <<part, fileVars, feedVars, boardVars, sceneVars, migrationVars, pageVars>>
OnlyBoard ==
    UNCHANGED <<part, fileVars, feedVars, followerVars, sceneVars, migrationVars, pageVars>>
OnlyScene ==
    UNCHANGED <<part, fileVars, feedVars, followerVars, boardVars, migrationVars, pageVars>>
OnlyMigration ==
    UNCHANGED <<part, fileVars, feedVars, followerVars, boardVars, sceneVars, pageVars>>
OnlyPages ==
    UNCHANGED <<part, fileVars, feedVars, followerVars, boardVars, sceneVars, migrationVars>>

HandleFiles     == part = "files" /\ Files!Next /\ OnlyFiles
HandleFeed      == part = "feed" /\ Feed!Next /\ OnlyFeed
HandleFollower  == part = "follower" /\ Follower!Next /\ OnlyFollower
HandleBoard     == part = "board" /\ Board!Next /\ OnlyBoard
HandleScene     == part = "scene" /\ Scene!Next /\ OnlyScene
HandleMigration == part = "migration" /\ Tools!Next /\ OnlyMigration
HandlePages     == part = "pages" /\ Pages!Next /\ OnlyPages

ServiceNext ==
    \/ HandleFiles \/ HandleFeed \/ HandleFollower \/ HandleBoard \/ HandleScene
    \/ HandleMigration \/ HandlePages

\* The fairness of the part explored, restated under its name.
Fairness ==
    /\ WF_serviceVars(part = "feed" /\ Feed!Ask /\ OnlyFeed)
    /\ SF_serviceVars(part = "feed" /\ Feed!Answer /\ OnlyFeed)
    /\ SF_serviceVars(part = "feed" /\ Feed!Accept /\ OnlyFeed)
    /\ WF_serviceVars(part = "follower" /\ Follower!Connect /\ OnlyFollower)
    /\ WF_serviceVars(part = "follower" /\ Follower!PollVersion /\ OnlyFollower)
    /\ WF_serviceVars(part = "follower" /\ Follower!Summarise /\ OnlyFollower)
    /\ WF_serviceVars(part = "follower" /\ Follower!Deliver /\ OnlyFollower)
    /\ WF_serviceVars(part = "follower" /\ Follower!Fetch /\ OnlyFollower)
    /\ WF_serviceVars(part = "follower" /\ Follower!FinishLoad /\ OnlyFollower)
    /\ WF_serviceVars(part = "follower" /\ Follower!Reload /\ OnlyFollower)
    /\ \A s \in Sessions :
          /\ WF_serviceVars(part = "board" /\ Board!Publish(s) /\ OnlyBoard)
          /\ WF_serviceVars(part = "board" /\ Board!Age(s) /\ OnlyBoard)
    /\ WF_serviceVars(part = "board" /\ (\E p \in sent : Board!Validate(p)) /\ OnlyBoard)
    /\ WF_serviceVars(part = "board" /\ (\E p \in checked : Board!Store(p)) /\ OnlyBoard)
    /\ \A r \in Readers :
          /\ WF_serviceVars(part = "board" /\ Board!ReadDocument(r) /\ OnlyBoard)
          /\ WF_serviceVars(part = "board" /\ Board!ReadBoard(r) /\ OnlyBoard)

ServiceSpec == ServiceInit /\ [][ServiceNext]_serviceVars /\ Fairness

--------------------------------------------------------------------------------
\* The types of the service's state, and that a commit holds the write lock.
ServiceTypeOK ==
    /\ part = "files"    => Files!TypeOK
    /\ part = "feed"     => Feed!TypeOK
    /\ part = "follower" => Follower!TypeOK
    /\ part = "board"    => Board!TypeOK
    /\ part = "scene"    => Scene!TypeOK
    /\ part = "migration" => Tools!TypeOK
    /\ part = "pages"    => Pages!TypeOK

\* No request, failure or crash takes away what an Artifact that nobody removes
\* still names: its source, its snapshots, the assets of the current one.
NamedObjectsAreStored == part = "files" => Files!NamedObjectsAreStored

\* The consumer of the feed has been given every event behind its position.
NoEventIsSkipped == part = "feed" => Feed!NoEventIsSkipped

\* The mindmap's incremental projection is the full one, unless loads raced.
StaleOnlyAfterARace == part = "follower" => Follower!StaleOnlyAfterARace

\* What an editor asks of a scene agrees with the scene.
SceneQueriesAgree == part = "scene" => Scene!SceneQueriesAgree

\* Whatever fails or crashes, the tools over the snapshots keep every original or
\* a copy of it, and what they publish, restore or register is whole.
MigrationLosesNothing == part = "migration" => Tools!MigrationLosesNothing

\* Whatever a conversion writes over, it keeps or reports, but for the attributes and
\* style fields that are named as dropped without a word.
ConversionsAreAccounted == part = "migration" => Tools!ConversionsAreAccounted

\* What the compiler of decks discards, it reports.
DiscardsAreReported == part = "migration" => Tools!DiscardsAreReported

\* A reader of pages puts together one revision, whole and in order.
PagesCoverTheDocument == part = "pages" => Pages!PagesCoverTheDocument

\* Once editing, and in a Document moving, ceases, the feed's consumer has every event,
\* the studio shows the newest revision or an error, and the board is current, for good.
FollowersCatchUp ==
    <>[][UNCHANGED place]_serviceVars =>
        <>[]( /\ part = "feed" => Feed!AllReceived
              /\ part = "follower" => Follower!CaughtUp
              /\ part = "board" => Board!BoardIsCurrent )

================================================================================
