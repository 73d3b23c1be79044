---------------------------- MODULE MindmapFollower ----------------------------
(***************************************************************************)
(* A mindmap studio follows its Artifact.  The event stream polls the      *)
(* revision and sends a notice of what changed since its cursor; the       *)
(* studio loads the snapshot anew and, when only edges or annotations      *)
(* changed, recomputes those layers of the projection it shows and keeps   *)
(* the others.  A newer load overtakes an older one; a load may fetch a    *)
(* snapshot newer than its notice; streams drop and requests fail.         *)
(*                                                                         *)
(* A layer is the revision it was computed at.  It is right as long as no  *)
(* revision since then changed what it shows.                              *)
(***************************************************************************)
EXTENDS Naturals, Sequences

CONSTANTS
    MaxRevision,    \* bound on the Artifact's revisions
    SummaryLimit,   \* transactions a change summary reads (100 in the code)
    MaxFaults,      \* bound on drops, failed loads and refused edits
    None

Kinds  == {"structure", "edge", "advanced"}
Layers == {"layout", "edges", "advanced"}

\* What the server's end of a stream and a load in flight hold.
Streams == [cursor : 1 .. MaxRevision, seen : 0 .. MaxRevision]
Loads   == [layers : SUBSET Layers, upto : 1 .. MaxRevision, at : 0 .. MaxRevision]

\* What the constants have to be.
FollowerConstants ==
    /\ MaxRevision \in Nat \ {0}
    /\ SummaryLimit \in Nat \ {0}
    /\ MaxFaults \in Nat
    /\ None \notin Streams \cup Loads

VARIABLES
    changes,    \* the kind of change each revision after the first made
    stream,     \* the server's end: None, or its cursor and the version it has read
    wire,       \* notices sent and not received
    snap,       \* the revision of the snapshot shown, 0 before the first
    built,      \* the revision each layer of the projection was computed at
    streamed,   \* streamedRevision
    load,       \* the load in flight: None, or its layers, how far its notice
                \* goes, and the revision fetched (0: not yet)
    awaiting,   \* an edit of the studio's own is answered with "load anew"
    failed,     \* an error is shown
    faults,     \* drops, failed loads and refused edits so far
    raced       \* history: since the last full build a load was overtaken by, or
                \* failed before, an incremental one, or one ran ahead of its notice

vars == <<changes, stream, wire, snap, built, streamed, load, awaiting, failed, faults, raced>>

\* What the engine computes a layer from.
Affects(kind, layer) ==
    \/ kind = "structure"
    \/ kind = "edge" /\ layer = "edges"
    \/ kind = "advanced" /\ layer = "advanced"

version == Len(changes) + 1
Least(m, n) == IF m < n THEN m ELSE n

\* All layers, computed anew.
Full == [layers |-> Layers, upto |-> MaxRevision, at |-> 0]

Init ==
    /\ changes = <<>>
    /\ stream = None
    /\ wire = <<>>
    /\ snap = 0
    /\ built = [layer \in Layers |-> 0]
    /\ streamed = 0
    /\ load = Full
    /\ awaiting = FALSE
    /\ failed = FALSE
    /\ faults = 0
    /\ raced = FALSE

Fault == faults < MaxFaults /\ faults' = faults + 1

--------------------------------------------------------------------------------
(* The server.                                                                  *)

\* Somebody else's transaction.
Commit ==
    /\ version < MaxRevision
    /\ \E kind \in Kinds : changes' = Append(changes, kind)
    /\ UNCHANGED <<stream, wire, snap, built, streamed, load, awaiting, failed, faults, raced>>

\* Broken: the stream begins at the present revision.
SinceNow == version

\* sinceRevision, in the URL the studio opens and the EventSource opens again.
Since == snap

Connect ==
    /\ stream = None /\ snap # 0
    /\ stream' = [cursor |-> Since, seen |-> 0]
    /\ UNCHANGED <<changes, wire, snap, built, streamed, load, awaiting, failed, faults, raced>>

\* stream's loop: the row is read ...
PollVersion ==
    /\ stream # None /\ stream.seen = 0
    /\ version > stream.cursor
    /\ stream' = [stream EXCEPT !.seen = version]
    /\ UNCHANGED <<changes, wire, snap, built, streamed, load, awaiting, failed, faults, raced>>

\* ... then artifact_change_summary_since, a second read which may already find
\* later transactions and which stops at its limit; the cursor moves to the
\* revision read first.
Summarise ==
    LET last == Least(version, stream.cursor + SummaryLimit)
    IN  /\ stream # None /\ stream.seen # 0
        /\ wire' = Append(wire,
                     [revision |-> stream.seen,
                      kinds |-> {changes[v - 1] : v \in stream.cursor + 1 .. last},
                      upto |-> last])
        /\ stream' = [cursor |-> stream.seen, seen |-> 0]
        /\ UNCHANGED <<changes, snap, built, streamed, load, awaiting, failed, faults, raced>>

\* An error in the loop, or the connection: what was under way is lost.
DropStream ==
    /\ stream # None
    /\ stream' = None
    /\ wire' = <<>>
    /\ Fault
    /\ UNCHANGED <<changes, snap, built, streamed, load, awaiting, failed, raced>>

--------------------------------------------------------------------------------
(* The studio.                                                                  *)

\* load: the newest overtakes whatever is in flight.
StartLoad(job) ==
    /\ load' = job
    /\ failed' = FALSE
    /\ raced' = (raced \/ (load # None /\ job.layers # Layers))

\* Broken: one change that needs no layout suffices.
RecomputedIfAny(kinds) ==
    IF \E kind \in kinds : kind \in {"edge", "advanced"}
    THEN {layer \in Layers : \E kind \in kinds \ {"structure"} : Affects(kind, layer)}
    ELSE Layers

\* incrementalProjectionInvalidation and update_projection: an empty summary and
\* any change but an edge's or an annotation's ask for everything.
Recomputed(kinds) ==
    IF kinds # {} /\ kinds \subseteq {"edge", "advanced"}
    THEN {layer \in Layers : \E kind \in kinds : Affects(kind, layer)}
    ELSE Layers

\* onRevision, with the test of parseMindmapRevisionNotice.
Deliver ==
    LET notice == Head(wire)
    IN  /\ wire # <<>>
        /\ wire' = Tail(wire)
        /\ \/ /\ notice.revision <= streamed
              /\ UNCHANGED <<streamed, load, failed, raced>>
           \/ /\ notice.revision > streamed
              /\ streamed' = notice.revision
              /\ StartLoad([layers |-> Recomputed(notice.kinds), upto |-> notice.upto, at |-> 0])
        /\ UNCHANGED <<changes, stream, snap, built, awaiting, faults>>

\* getArtifact answers with the current snapshot.
Fetch ==
    /\ load # None /\ load.at = 0
    /\ load' = [load EXCEPT !.at = version]
    /\ UNCHANGED <<changes, stream, wire, snap, built, streamed, awaiting, failed, faults, raced>>

\* The projection is there; a snapshot of another revision opens another stream.
FinishLoad ==
    /\ load # None /\ load.at # 0
    /\ snap' = load.at
    /\ streamed' = load.at
    /\ built' = [layer \in Layers |->
                   IF layer \in load.layers \/ snap = 0 THEN load.at ELSE built[layer]]
    /\ raced' = IF load.layers = Layers \/ snap = 0 THEN FALSE
                ELSE raced \/ load.at > load.upto
    /\ load' = None
    /\ IF load.at = snap THEN UNCHANGED <<stream, wire>>
                         ELSE stream' = None /\ wire' = <<>>
    /\ UNCHANGED <<changes, awaiting, failed, faults>>

FailLoad ==
    /\ load # None
    /\ load' = None
    /\ failed' = TRUE
    /\ raced' = TRUE
    /\ Fault
    /\ UNCHANGED <<changes, stream, wire, snap, built, streamed, awaiting>>

\* submit and history: the transaction commits, or is refused as stale, and either
\* way everything is loaded anew; any other error is shown and nothing is loaded,
\* although the transaction may be committed.
Submit ==
    /\ snap # 0 /\ ~awaiting
    /\ \/ /\ snap = version /\ version < MaxRevision
          /\ \E kind \in Kinds : changes' = Append(changes, kind)
          /\ awaiting' = TRUE /\ failed' = FALSE
          /\ UNCHANGED faults
       \/ /\ snap < version
          /\ awaiting' = TRUE /\ failed' = FALSE
          /\ Fault
          /\ UNCHANGED changes
       \/ /\ \/ UNCHANGED changes
             \/ /\ snap = version /\ version < MaxRevision
                /\ \E kind \in Kinds : changes' = Append(changes, kind)
          /\ failed' = TRUE
          /\ Fault
          /\ UNCHANGED awaiting
    /\ UNCHANGED <<stream, wire, snap, built, streamed, load, raced>>

Reload ==
    /\ awaiting
    /\ awaiting' = FALSE
    /\ StartLoad(Full)
    /\ UNCHANGED <<changes, stream, wire, snap, built, streamed, faults>>

Next ==
    \/ Commit \/ Connect \/ PollVersion \/ Summarise \/ DropStream
    \/ Deliver \/ Fetch \/ FinishLoad \/ FailLoad \/ Submit \/ Reload

\* The server's loop runs, the browser reconnects, handles what arrives and gets
\* its answers; nobody has to edit, and nothing has to fail.
Fairness ==
    /\ WF_vars(Connect) /\ WF_vars(PollVersion) /\ WF_vars(Summarise)
    /\ WF_vars(Deliver) /\ WF_vars(Fetch) /\ WF_vars(FinishLoad) /\ WF_vars(Reload)

Spec == Init /\ [][Next]_vars /\ Fairness

--------------------------------------------------------------------------------
\* The types.
TypeOK ==
    /\ changes \in Seq(Kinds) /\ version <= MaxRevision
    /\ stream \in {None} \cup Streams
    /\ wire \in Seq([revision : 1 .. MaxRevision, kinds : SUBSET Kinds, upto : 1 .. MaxRevision])
    /\ snap \in 0 .. MaxRevision
    /\ built \in [Layers -> 0 .. MaxRevision]
    /\ streamed \in 0 .. MaxRevision
    /\ load \in {None} \cup Loads
    /\ {awaiting, failed, raced} \subseteq BOOLEAN
    /\ faults \in 0 .. MaxFaults

\* "The result is required to equal a full projection for the same model": unless
\* loads raced since the last full build, every layer shown is what the snapshot
\* shown with it would give, whatever the notices summed up, repeated or dropped.
StaleOnlyAfterARace ==
    ~raced => \A layer \in Layers, v \in 2 .. snap :
                 v > built[layer] => ~Affects(changes[v - 1], layer)

CaughtUp == snap = version \/ failed

\* Once everybody stops editing, the studio ends at the newest revision or with an
\* error in its status line, and stays there.
StudioCatchesUp == <>[]CaughtUp

===============================================================================
