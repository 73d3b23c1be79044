-------------------------- MODULE SnapshotMigration --------------------------
(***************************************************************************)
(* The offline tools over the stored snapshots, run one at a time while    *)
(* the service is stopped: the schema converter, the Presentation compiler *)
(* that stages its decks before it may write them back, and the tool that  *)
(* registers documents' snapshots.  A tool may crash at every step, and    *)
(* every access to the file system may fail: a file that is renamed into   *)
(* place may have arrived nevertheless, a backup may be left torn.         *)
(***************************************************************************)
EXTENDS PresentationCompiler

CONSTANTS
    Keys,           \* the stored objects' keys, in their order
    Folders,        \* what may be stored and, as a bound, how often a tool is launched
    Versions,       \* the version the database has of an artifact
    MaxFailures,    \* bound on the accesses that fail
    None

VARIABLES
    original,       \* what was stored before the first tool
    blobs,          \* the snapshots as they are
    saved,          \* schema-backup/: a copy, Torn or None for each key
    staging,        \* .staging/<run>: the files written so far
    runs,           \* runs/: the staging runs, complete ones only by the code
    pointer,        \* current.json: the index of a run, or 0
    pointers,       \* backups/current-before-<run>: the pointers kept
    registered,     \* keys with a row in artifact_snapshots
    tool,           \* the process running, or None
    ended,        \* how the last one ended
    launches,       \* tools still to be launched
    failures        \* accesses that failed

toolVars    == <<tool, ended, launches, failures>>
stagingVars == <<staging, runs, pointer, pointers>>
vars        == <<original, blobs, saved, stagingVars, registered, toolVars>>

\* What is not JSON, and a backup whose writing was cut short.
Garbage == [garbage |-> TRUE]
Torn    == [torn |-> TRUE]

Indices == DOMAIN Keys

\* A deck of the retired schema is made of lists; its theme has a name or nothing.
IsList(s) == s \in Seq(ToSet(s))

IsLegacy(legacy) ==
    /\ IsList(legacy.slides)
    /\ \A slide \in ToSet(legacy.slides) :
          /\ IsList(slide.elements) /\ IsList(slide.animations)
          /\ \A animation \in ToSet(slide.animations) : animation.order \in Int
    /\ "colors" \in DOMAIN legacy.theme => "id" \in DOMAIN legacy.theme

MigrationConstants ==
    /\ IsList(Keys)
    /\ MaxFailures \in Nat
    /\ \A folder \in Folders :
          /\ folder.launches \in Nat
          /\ DOMAIN folder.objects = Indices
          /\ \A k \in Indices :
                LET raw == folder.objects[k]
                IN  LooksLikeV4Presentation(raw) /\ Is(Data(raw), "legacy") => IsLegacy(Data(raw).legacy)

Init ==
    /\ \E folder \in Folders : original = folder.objects /\ launches = folder.launches
    /\ blobs = original
    /\ saved = [k \in Indices |-> None]
    /\ staging = {} /\ runs = <<>> /\ pointer = 0 /\ pointers = {}
    /\ registered = {}
    /\ tool = None /\ ended = None /\ failures = 0

--------------------------------------------------------------------------------
\* Processes.

\* only is the artifact the tool is restricted to, or None.
Launch(name, apply, materialize, only) ==
    /\ tool = None /\ launches > 0
    /\ materialize => apply
    /\ tool' = [name |-> name, apply |-> apply, materialize |-> materialize, only |-> only,
                step |-> "scan", at |-> 1, failed |-> 0, found |-> <<>>, sources |-> <<>>,
                clean |-> TRUE]
    /\ launches' = launches - 1
    /\ ended' = None
    /\ UNCHANGED <<original, blobs, saved, stagingVars, registered, failures>>

Running(name, step) == tool # None /\ tool.name = name /\ tool.step = step

End(how) == tool' = None /\ ended' = [how |-> how, was |-> tool] /\ UNCHANGED launches

Go(step)  == tool' = [tool EXCEPT !.step = step] /\ UNCHANGED <<ended, launches>>
Skip      == tool' = [tool EXCEPT !.at = @ + 1] /\ UNCHANGED <<ended, launches>>
Repeat(step) == tool' = [tool EXCEPT !.step = step, !.at = @ + 1] /\ UNCHANGED <<ended, launches>>
From(step) == tool' = [tool EXCEPT !.step = step, !.at = 1] /\ UNCHANGED <<ended, launches>>

Works == UNCHANGED failures
Fails == failures < MaxFailures /\ failures' = failures + 1

\* The process ends wherever it is; a backup being written is torn.
Crash ==
    /\ tool # None
    /\ End("crashed")
    /\ saved' \in {saved} \cup {[saved EXCEPT ![k] = Torn] :
                                   k \in IF tool.step = "back up" THEN {tool.at} ELSE {}}
                          \cup {[saved EXCEPT ![k] = Torn] :
                                   k \in IF tool.step = "back up all" THEN {tool.found[tool.at].key} ELSE {}}
    /\ UNCHANGED <<original, blobs, stagingVars, registered, failures>>

\* Listing or reading a key fails, which ends the tool.
FailToRead ==
    /\ tool # None /\ tool.step \in {"scan", "back up all"}
    /\ Fails /\ End("failed")
    /\ UNCHANGED <<original, blobs, saved, stagingVars, registered>>

--------------------------------------------------------------------------------
\* migrate-artifact-schema.

Convertible(raw) == Is(raw, "object") /\ VersionOf(raw) \in 1 .. 7

Chosen(k) ==
    Keys[k].json /\ (tool.only = None \/ (Keys[k].artifact = tool.only /\ Keys[k].place = "artifacts"))

\* The next key: not for the tool, refused, or converted.
ExamineKey ==
    /\ Running("schema", "scan") /\ tool.at \in Indices
    /\ Works
    /\ LET raw == blobs[tool.at]
       IN  IF ~Chosen(tool.at) \/ ~Convertible(raw) THEN Skip
           ELSE IF Migrated(raw) = Refused
           THEN /\ tool' = [tool EXCEPT !.at = @ + 1, !.failed = @ + 1]
                /\ UNCHANGED <<ended, launches>>
           ELSE IF tool.apply THEN Go("back up") ELSE Skip
    /\ UNCHANGED <<original, blobs, saved, stagingVars, registered>>

\* A backup that fails does not stop the converter.
BackUpIfPossible ==
    /\ Running("schema", "back up")
    /\ \/ Works /\ saved' = [saved EXCEPT ![tool.at] = blobs[tool.at]] /\ Go("put")
       \/ Fails /\ saved' \in {saved, [saved EXCEPT ![tool.at] = Torn]} /\ Go("put")
    /\ UNCHANGED <<original, blobs, stagingVars, registered>>

BackUp ==
    /\ Running("schema", "back up")
    /\ \/ Works /\ saved' = [saved EXCEPT ![tool.at] = blobs[tool.at]] /\ Go("put")
       \/ Fails /\ saved' \in {saved, [saved EXCEPT ![tool.at] = Torn]} /\ End("failed")
    /\ UNCHANGED <<original, blobs, stagingVars, registered>>

Put ==
    LET written == [blobs EXCEPT ![tool.at] = Migrated(blobs[tool.at])]
    IN  /\ Running("schema", "put")
        /\ \/ Works /\ blobs' = written /\ Repeat("scan")
           \/ Fails /\ blobs' \in {blobs, written} /\ End("failed")
        /\ UNCHANGED <<original, saved, stagingVars, registered>>

FinishSchema ==
    /\ Running("schema", "scan") /\ tool.at \notin Indices
    /\ Works
    /\ End(IF tool.failed > 0 THEN "incomplete" ELSE "done")
    /\ UNCHANGED <<original, blobs, saved, stagingVars, registered>>

--------------------------------------------------------------------------------
\* migrate-presentation-v4.

\* What the compiler makes of a candidate goes on the list with its key.
Noted(k, staged) ==
    IF staged = Refused THEN [tool EXCEPT !.at = @ + 1, !.failed = @ + 1]
    ELSE [tool EXCEPT !.at = @ + 1, !.found = Append(@, [key |-> k, staged |-> staged])]

CompileKey ==
    /\ Running("presentation", "scan") /\ tool.at \in Indices
    /\ Works
    /\ LET raw == blobs[tool.at]
       IN  IF \/ ~Keys[tool.at].json \/ ~LooksLikeV4Presentation(raw)
              \/ (tool.only # None /\ Field(raw, "artifactId") # Str(tool.only))
           THEN Skip
           ELSE tool' = Noted(tool.at, Compiled(raw)) /\ UNCHANGED <<ended, launches>>
    /\ UNCHANGED <<original, blobs, saved, stagingVars, registered>>

\* One candidate refused, nothing found or a rehearsal: nothing is written.
Decide ==
    /\ Running("presentation", "scan") /\ tool.at \notin Indices
    /\ Works
    /\ IF tool.failed > 0 THEN End("refused")
       ELSE IF ~tool.apply THEN End("rehearsed")
       ELSE IF tool.found = <<>> THEN End("empty")
       ELSE From("stage")
    /\ UNCHANGED <<original, blobs, saved, stagingVars, registered>>

\* The files of a run: a deck and a report for every candidate, then the manifest.
FilesOf(found) ==
    LET candidate(n) == found[(n + 1) \div 2]
        file(n) == IF n % 2 = 1
                   THEN [file |-> "deck", key |-> candidate(n).key, holds |-> candidate(n).staged.deck]
                   ELSE [file |-> "report", key |-> candidate(n).key, holds |-> candidate(n).staged.report]
    IN  [n \in 1 .. 2 * Len(found) + 1 |->
            IF n <= 2 * Len(found) THEN file(n)
            ELSE [file |-> "manifest", keys |-> {found[i].key : i \in DOMAIN found}]]

StageFile ==
    LET file == FilesOf(tool.found)[tool.at]
    IN  /\ Running("presentation", "stage")
        /\ \/ /\ Works /\ staging' = staging \cup {file}
              /\ IF tool.at = Len(FilesOf(tool.found)) THEN From("publish") ELSE Skip
           \/ Fails /\ staging' \in {staging, staging \cup {file}} /\ End("failed")
        /\ UNCHANGED <<original, blobs, saved, runs, pointer, pointers, registered>>

PublishRun ==
    /\ Running("presentation", "publish")
    /\ \/ Works /\ runs' = Append(runs, staging) /\ staging' = {} /\ Go("keep pointer")
       \/ /\ Fails /\ End("failed")
          /\ \/ UNCHANGED <<runs, staging>>
             \/ runs' = Append(runs, staging) /\ staging' = {}
    /\ UNCHANGED <<original, blobs, saved, pointer, pointers, registered>>

\* A pointer that cannot be read is taken for none, one that cannot be copied ends the run.
KeepPointer ==
    LET kept == pointers \cup ({pointer} \ {0})
    IN  /\ Running("presentation", "keep pointer")
        /\ \/ Works /\ pointers' = kept /\ Go("swap pointer")
           \/ pointer # 0 /\ Fails /\ pointers' \in {pointers, kept} /\ End("failed")
           \/ pointer # 0 /\ Fails /\ UNCHANGED pointers /\ Go("swap pointer")
        /\ UNCHANGED <<original, blobs, saved, staging, runs, pointer, registered>>

SwapPointer ==
    /\ Running("presentation", "swap pointer")
    /\ \/ /\ Works /\ pointer' = Len(runs)
          /\ IF tool.materialize THEN From("back up all") ELSE End("staged")
       \/ Fails /\ pointer' \in {pointer, Len(runs)} /\ End("failed")
    /\ UNCHANGED <<original, blobs, saved, staging, runs, pointers, registered>>

\* Every candidate's source is read and copied before the first is written.
BackUpCandidate ==
    LET key == tool.found[tool.at].key
    IN  /\ Running("presentation", "back up all")
        /\ \/ /\ Works /\ saved' = [saved EXCEPT ![key] = blobs[key]]
              /\ tool' = [tool EXCEPT !.sources = Append(@, blobs[key]),
                                      !.step = IF tool.at = Len(tool.found) THEN "put all" ELSE @,
                                      !.at = IF tool.at = Len(tool.found) THEN 1 ELSE @ + 1]
              /\ UNCHANGED <<ended, launches>>
           \/ Fails /\ saved' \in {saved, [saved EXCEPT ![key] = Torn]} /\ End("failed")
        /\ UNCHANGED <<original, blobs, stagingVars, registered>>

\* A put that fails has the candidates so far restored, its own with them.
PutCandidate ==
    LET key     == tool.found[tool.at].key
        written == [blobs EXCEPT ![key] = Materialized(tool.found[tool.at].staged)]
    IN  /\ Running("presentation", "put all")
        /\ \/ /\ Works /\ blobs' = written
              /\ IF tool.at = Len(tool.found) THEN End("materialized") ELSE Skip
           \/ /\ Fails /\ blobs' \in {blobs, written}
              /\ tool' = [tool EXCEPT !.step = "restore", !.failed = tool.at, !.at = 1]
              /\ UNCHANGED <<ended, launches>>
        /\ UNCHANGED <<original, saved, stagingVars, registered>>

\* How many of the candidates are restored.
Restored == tool.failed

\* A source that cannot be written back is passed over.
RestoreSource ==
    LET key     == tool.found[tool.at].key
        written == [blobs EXCEPT ![key] = tool.sources[tool.at]]
    IN  /\ Running("presentation", "restore") /\ tool.at <= Restored
        /\ \/ Works /\ blobs' = written /\ Skip
           \/ /\ Fails /\ blobs' \in {blobs, written}
              /\ tool' = [tool EXCEPT !.at = @ + 1, !.clean = FALSE]
              /\ UNCHANGED <<ended, launches>>
        /\ UNCHANGED <<original, saved, stagingVars, registered>>

FinishRestore ==
    /\ Running("presentation", "restore") /\ tool.at > Restored
    /\ Works /\ End("restored")
    /\ UNCHANGED <<original, blobs, saved, stagingVars, registered>>

--------------------------------------------------------------------------------
\* reconcile-snapshots.

Registrable(k, raw) ==
    /\ Keys[k].json /\ Keys[k].place = "artifacts" /\ Keys[k].revision > 0
    /\ Keys[k].artifact \in DOMAIN Versions
    /\ Keys[k].revision <= Versions[Keys[k].artifact]
    /\ IsCurrent(raw)
    /\ Field(raw, "artifactId") = Str(Keys[k].artifact)
    /\ Field(raw, "revision") = Num(10 * Keys[k].revision)
    /\ Field(raw, "kind") = Str("document")

RegisterKey ==
    /\ Running("reconcile", "scan") /\ tool.at \in Indices
    /\ Works /\ Skip
    /\ registered' =
          IF Registrable(tool.at, blobs[tool.at]) THEN registered \cup {tool.at} ELSE registered
    /\ UNCHANGED <<original, blobs, saved, stagingVars>>

FinishReconcile ==
    /\ Running("reconcile", "scan") /\ tool.at \notin Indices
    /\ Works /\ End("done")
    /\ UNCHANGED <<original, blobs, saved, stagingVars, registered>>

--------------------------------------------------------------------------------
LaunchOne ==
    \/ \E apply \in BOOLEAN, only \in {Keys[1].artifact, None} : Launch("schema", apply, FALSE, only)
    \/ \E apply, materialize \in BOOLEAN, only \in {Keys[1].artifact, None} :
          Launch("presentation", apply, materialize, only)
    \/ Launch("reconcile", TRUE, FALSE, None)

Next ==
    \/ LaunchOne \/ Crash \/ FailToRead
    \/ ExamineKey \/ BackUp \/ Put \/ FinishSchema
    \/ CompileKey \/ Decide \/ StageFile \/ PublishRun \/ KeepPointer \/ SwapPointer
    \/ BackUpCandidate \/ PutCandidate \/ RestoreSource \/ FinishRestore
    \/ RegisterKey \/ FinishReconcile

--------------------------------------------------------------------------------
\* Properties.

TypeOK ==
    /\ DOMAIN blobs = Indices /\ DOMAIN saved = Indices
    /\ pointer \in 0 .. Len(runs) /\ pointers \subseteq 1 .. Len(runs)
    /\ registered \subseteq Indices
    /\ launches \in Nat /\ failures \in 0 .. MaxFailures

\* What the code makes of a key's original, by either tool.
Target(raw) ==
    IF LooksLikeV4Presentation(raw) THEN Materialized(Compiled(raw)) ELSE Migrated(raw)

\* A key holds its original, or what that became while a copy of it is kept.
OriginalsAreKept ==
    \A k \in Indices :
        \/ blobs[k] = original[k]
        \/ saved[k] = original[k] /\ blobs[k] = Target(original[k]) /\ IsCurrent(blobs[k])

\* The run pointed to, and every one kept as a way back, has all its files.
PointersAreComplete ==
    \A r \in ({pointer} \ {0}) \cup pointers :
        \E manifest \in {f \in runs[r] : f.file = "manifest"} : \A k \in manifest.keys :
            \A file \in {"deck", "report"} :
                \E f \in runs[r] : f.file = file /\ f.key = k

Ended(how) == ended # None /\ ended.how = how

\* A failed write-back that could be undone leaves every candidate as it was.
RestoredIsOriginal ==
    Ended("restored") /\ ended.was.clean =>
        \A i \in DOMAIN ended.was.found :
            LooksLikeV4Presentation(blobs[ended.was.found[i].key])

\* A converter that reports success leaves nothing of its versions behind.
SuccessIsComplete ==
    Ended("done") /\ ended.was.name = "schema" /\ ended.was.apply =>
        \A k \in Indices :
            Keys[k].json /\ ended.was.only = None => ~Convertible(blobs[k])

\* A registered snapshot stays one that the service can read.
RegisteredIsReadable == \A k \in registered : IsCurrent(blobs[k])

\* A node of a deck still holds a legacy attribute, or the report names it.
AttrIsAccounted(element, k, node, losses) ==
    \/ node.kind.type = "extension" /\ node.kind.attrs[k] = element.attrs[k]
    \/ [node |-> element.id, lost |-> k] \in losses
    \/ k = "name" /\ node.name = element.attrs[k]
    \/ k = "text" /\ node.kind.type = "text" /\ node.kind.body.text = element.attrs[k].string
    \/ /\ k = "shapeKind" /\ node.kind.type = "shape" /\ Is(element.attrs[k], "string")
       /\ node.kind.geometry = Geometries[element.attrs[k].string]

\* The one attribute the compiler discards without a report.
UnreportedAttrs(element) ==
    {k \in DOMAIN element.attrs \cap {"shapeKind"} :
        element.type = "shape" /\ ~Is(element.attrs[k], "string")}

ElementIsAccounted(slide, i, new, losses) ==
    LET element == slide.elements[i]
        node    == new.nodes[i]
    IN  /\ node.id = element.id
        /\ \A k \in DOMAIN element.attrs \ UnreportedAttrs(element) :
              AttrIsAccounted(element, k, node, losses)
        /\ \A child \in ToSet(element.children) :
              \E n \in ToSet(new.nodes) : n.id = child /\ n.parent = Str(element.id)
        /\ node.width = element.width \/ [node |-> element.id, lost |-> "width"] \in losses

AnimationIsAccounted(animation, new, losses) ==
    \/ \E e \in ToSet(new.timeline) : e.id = animation.id /\ e.target = animation.target
    \/ [node |-> animation.id, lost |-> "effect"] \in losses

DeckIsAccounted(legacy, staged) ==
    /\ \A i \in DOMAIN legacy.slides :
          LET slide == legacy.slides[i]
              new   == staged.deck.slides[i]
          IN  /\ \A k \in DOMAIN slide.elements :
                    ElementIsAccounted(slide, k, new, staged.report.losses)
              /\ \A k \in DOMAIN slide.animations :
                    AnimationIsAccounted(slide.animations[k], new, staged.report.losses)
    /\ \A name \in DOMAIN legacy.theme \cap {"colors"} :
          \A c \in DOMAIN legacy.theme.colors :
             c \in DOMAIN staged.deck.theme.colors
             \/ [node |-> "theme", lost |-> c] \in staged.report.losses

\* The attrs that are there, and what a converted block says in their place.
AttrsOf(block) ==
    LET attrs == Field(block, "attrs")
    IN  IF Is(attrs, "object") THEN {k \in DOMAIN attrs.object : Field(attrs, k) # Absent} ELSE {}

SaidBy(new) ==
    LET shown == Field(new, "presentation")
        data  == At(new, "data", "data")
    IN  [align         |-> Field(shown, "align"),
         listType      |-> At(shown, "list", "kind"),
         listLevel     |-> At(shown, "list", "level"),
         indentLevel   |-> Field(shown, "indentStart"),
         indentRight   |-> Field(shown, "indentEnd"),
         spacingBefore |-> Field(shown, "spacingBefore"),
         spacingAfter  |-> Field(shown, "spacingAfter"),
         lineHeight    |-> Field(shown, "lineHeight"),
         namedStyle    |-> Field(shown, "namedStyle"),
         checked       |-> Field(data, "checked"),
         url           |-> Field(data, "url")]

\* What the converters drop of a block's attrs without a word: those of another type
\* than they ask for, and a tick or an address beside a payload.
UnsaidAttrs(block) ==
    LET attrs == Field(block, "attrs")
    IN  {k \in {"align", "listType", "namedStyle"} : ~Is(Field(attrs, k), "string")}
        \cup {k \in {"listLevel", "indentLevel"} : ~IsCount(Field(attrs, k))}
        \cup {k \in {"checked", "url"} : Given(Field(block, "payload"))}

\* A paragraph style's fields, under the names of the attrs that go before them.  Those
\* of other names or types are dropped without a word too.
StyleSays(style) ==
    [align         |-> FirstString(Field(style, "alignment"), Absent),
     listType      |-> FirstString(At(style, "list", "kind"), Absent),
     listLevel     |-> FirstCount(At(style, "list", "level"), Absent),
     indentLevel   |-> IF Is(Field(style, "indentLeft"), "number")
                       THEN RoundedIndent(Field(style, "indentLeft")) ELSE Absent,
     indentRight   |-> Field(style, "indentRight"),
     spacingBefore |-> Field(style, "spaceBefore"),
     spacingAfter  |-> Field(style, "spaceAfter"),
     lineHeight    |-> Field(style, "lineHeight"),
     namedStyle    |-> FirstString(Field(style, "name"), Absent)]

\* A converted block says what its attrs said, and its paragraph style where they were
\* silent; a payload nobody knows is kept, but for the styles of a table's rows.
BlockIsAccounted(old, new) ==
    LET attrs   == Field(old, "attrs")
        style   == StyleSays(Field(attrs, "paragraphStyle"))
        payload == Field(old, "payload")
    IN  /\ \A k \in AttrsOf(old) \ ({"paragraphStyle"} \cup UnsaidAttrs(old)) :
              k \in DOMAIN SaidBy(new) /\ SaidBy(new)[k] = Field(attrs, k)
        /\ \A k \in DOMAIN style \ AttrsOf(old) :
              style[k] # Absent => SaidBy(new)[k] = style[k]
        /\ Given(payload) /\ At(new, "data", "type") = Str("extension") =>
              Field(At(new, "data", "data"), "raw") \in {payload, Field(MigratedRows(old), "payload")}

DocumentIsAccounted(old, new) ==
    VersionOf(old) \in 1 .. 3 =>
        LET before == Field(Data(old), "blocks").list
            after  == Field(Data(new), "blocks").list
        IN  /\ DOMAIN before = DOMAIN after
            /\ \A i \in DOMAIN before : BlockIsAccounted(before[i], after[i])

\* What a tool wrote over still holds what was there, or its report names it, but for
\* UnreportedAttrs, UnsaidAttrs and the fields StyleSays leaves out.
ConversionsAreAccounted ==
    \A k \in Indices :
        blobs[k] # original[k] =>
            IF LooksLikeV4Presentation(original[k])
            THEN DeckIsAccounted(Data(original[k]).legacy, Compiled(original[k]))
            ELSE IsDocument(original[k]) => DocumentIsAccounted(original[k], blobs[k])

\* "A field is only discarded when it has no v5 representation, and each such discard
\* is added to `losses`" (presentation_v5.rs:1442): no attribute is excepted.
DiscardsAreReported ==
    tool # None =>
        \A candidate \in ToSet(tool.found) :
            LET slides == Data(original[candidate.key]).legacy.slides
            IN  \A i \in DOMAIN slides : \A n \in DOMAIN slides[i].elements :
                   \A k \in DOMAIN slides[i].elements[n].attrs :
                      AttrIsAccounted(slides[i].elements[n], k,
                                      candidate.staged.deck.slides[i].nodes[n],
                                      candidate.staged.report.losses)

\* A crash or a failed access takes no original, and leaves nothing half done that is
\* pointed to, reported a success, restored or registered.
MigrationLosesNothing ==
    /\ OriginalsAreKept
    /\ PointersAreComplete
    /\ RestoredIsOriginal
    /\ SuccessIsComplete
    /\ RegisteredIsReadable
===============================================================================
