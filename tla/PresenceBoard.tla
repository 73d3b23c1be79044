----------------------------- MODULE PresenceBoard -----------------------------
(***************************************************************************)
(* Who is where in a Document.  A session publishes its place with the     *)
(* revision it sees, every ten seconds and whenever either changes; the    *)
(* server checks it against the Document it has loaded and keeps it in     *)
(* memory for thirty seconds.  A reader loads the Document, drops the      *)
(* entries that do not fit it, and shows the rest.  Both load before they  *)
(* take the lock, so that a late put or a late reader acts on a Document   *)
(* that is no longer the current one.                                      *)
(*                                                                         *)
(* A place is a block; a selection is in a block as long as the block is   *)
(* there, which is what the checks of its offsets come to here.            *)
(***************************************************************************)
EXTENDS Naturals, Sequences, FiniteSets

CONSTANTS
    Sessions,      \* panels that publish
    Readers,       \* requests and streams that read the board
    Blocks,        \* ids of blocks
    MaxRevision,   \* bound on the Document's revisions
    MaxPuts,       \* bound on one session's puts in flight
    MaxLosses,     \* bound on lost requests, server restarts included
    None

\* What the constants have to be.
BoardConstants ==
    /\ MaxRevision \in Nat \ {0}
    /\ MaxPuts \in Nat \ {0}
    /\ MaxLosses \in Nat

VARIABLES
    blocks,    \* the blocks of each revision of the Document
    open,      \* sessions whose panel is open
    seen,      \* the revision each session is at
    place,     \* the block each session is in (capturedAnchor)
    sent,      \* puts not validated yet
    checked,   \* puts validated, on their way to the lock
    entries,   \* PresenceStore: None, or a session's entry and whether its TTL is over
    loaded,    \* the revision a reader has loaded, 0 before
    shown,     \* what each reader was last answered
    losses

vars == <<blocks, open, seen, place, sent, checked, entries, loaded, shown, losses>>

revision == Len(blocks)

Puts == [session : Sessions, revision : 1 .. MaxRevision, block : Blocks]

Init ==
    /\ blocks = <<Blocks>>
    /\ open = Sessions
    /\ seen = [s \in Sessions |-> 1]
    /\ place \in [Sessions -> Blocks]
    /\ sent = {}
    /\ checked = {}
    /\ entries = [s \in Sessions |-> None]
    /\ loaded = [r \in Readers |-> 0]
    /\ shown = [r \in Readers |-> {}]
    /\ losses = 0

\* A session's edit: its editor is at the new revision at once.  Somebody who
\* shows no presence edits too (no session is at the new revision).
Edit ==
    /\ revision < MaxRevision
    /\ \E after \in SUBSET Blocks : blocks' = Append(blocks, after)
    /\ \/ UNCHANGED seen
       \/ \E s \in open : seen[s] = revision /\ seen' = [seen EXCEPT ![s] = revision + 1]
    /\ UNCHANGED <<open, place, sent, checked, entries, loaded, shown, losses>>

\* An editor learns of others' revisions only when it loads the Document anew.
Reopen(s) ==
    /\ s \in open /\ seen[s] < revision
    /\ seen' = [seen EXCEPT ![s] = revision]
    /\ UNCHANGED <<blocks, open, place, sent, checked, entries, loaded, shown, losses>>

\* The selection moves.
Move(s) ==
    /\ s \in open
    /\ \E b \in Blocks : place' = [place EXCEPT ![s] = b]
    /\ UNCHANGED <<blocks, open, seen, sent, checked, entries, loaded, shown, losses>>

\* The panel is closed; nothing tells the server.
Close(s) ==
    /\ s \in open
    /\ open' = open \ {s}
    /\ UNCHANGED <<blocks, seen, place, sent, checked, entries, loaded, shown, losses>>

InFlight(s) == Cardinality({p \in sent \cup checked : p.session = s})

\* publish: the place captured before, with the revision of now.
Publish(s) ==
    /\ s \in open /\ InFlight(s) < MaxPuts
    /\ sent' = sent \cup {[session |-> s, revision |-> seen[s], block |-> place[s]]}
    /\ UNCHANGED <<blocks, open, seen, place, checked, entries, loaded, shown, losses>>

\* validate_update and participant_is_live ask for the same.
Fits(p, v) == p.revision = v /\ p.block \in blocks[v]

\* put loads the Document and validates, or refuses ...
Validate(p) ==
    /\ p \in sent
    /\ sent' = sent \ {p}
    /\ checked' = IF Fits(p, revision) THEN checked \cup {p} ELSE checked
    /\ UNCHANGED <<blocks, open, seen, place, entries, loaded, shown, losses>>

\* purge_artifact: an entry whose time is over goes at the next put or page.
Purged == [s \in Sessions |-> IF entries[s] # None /\ entries[s].old THEN None ELSE entries[s]]

\* ... and, under the lock, replaces whatever the session had, newer or not.
Store(p) ==
    /\ p \in checked
    /\ checked' = checked \ {p}
    /\ entries' = [Purged EXCEPT ![p.session] = [put |-> p, old |-> FALSE]]
    /\ UNCHANGED <<blocks, open, seen, place, sent, loaded, shown, losses>>

\* Thirty seconds without a put: the panel is closed, or its puts are refused.
Age(s) ==
    /\ entries[s] # None /\ ~entries[s].old
    /\ s \notin open \/ ~Fits([session |-> s, revision |-> seen[s], block |-> place[s]], revision)
    /\ entries' = [entries EXCEPT ![s].old = TRUE]
    /\ UNCHANGED <<blocks, open, seen, place, sent, checked, loaded, shown, losses>>

Lose ==
    /\ losses < MaxLosses
    /\ losses' = losses + 1
    /\ \/ \E p \in sent \cup checked : sent' = sent \ {p} /\ checked' = checked \ {p}
          /\ UNCHANGED <<entries, loaded>>
       \/ /\ sent' = {} /\ checked' = {}
          /\ entries' = [s \in Sessions |-> None]
          /\ loaded' = [r \in Readers |-> 0]
    /\ UNCHANGED <<blocks, open, seen, place, shown>>

--------------------------------------------------------------------------------
(* page: the Document, then the lock.                                           *)

ReadDocument(r) ==
    /\ loaded[r] = 0
    /\ loaded' = [loaded EXCEPT ![r] = revision]
    /\ UNCHANGED <<blocks, open, seen, place, sent, checked, entries, shown, losses>>

\* What does not fit the reader's Document is removed for everybody.
ReadBoard(r) ==
    /\ loaded[r] # 0
    /\ entries' = [s \in Sessions |->
                     IF Purged[s] # None /\ Fits(Purged[s].put, loaded[r])
                     THEN Purged[s] ELSE None]
    /\ shown' = [shown EXCEPT ![r] =
                   {entries'[s].put : s \in {x \in Sessions : entries'[x] # None}}]
    /\ loaded' = [loaded EXCEPT ![r] = 0]
    /\ UNCHANGED <<blocks, open, seen, place, sent, checked, losses>>

Next ==
    \/ Edit \/ Lose
    \/ \E s \in Sessions : Reopen(s) \/ Move(s) \/ Close(s) \/ Publish(s) \/ Age(s)
    \/ \E p \in Puts : Validate(p) \/ Store(p)
    \/ \E r \in Readers : ReadDocument(r) \/ ReadBoard(r)

\* Panels publish and read on timers, requests are handled; nobody has to edit,
\* to reload or to leave, and nothing has to be lost.  The entry of a session
\* that left runs out.
Fairness ==
    /\ \A s \in Sessions : WF_vars(Publish(s)) /\ WF_vars(Age(s))
    /\ WF_vars(\E p \in sent : Validate(p)) /\ WF_vars(\E p \in checked : Store(p))
    /\ \A r \in Readers : WF_vars(ReadDocument(r)) /\ WF_vars(ReadBoard(r))

Spec == Init /\ [][Next]_vars /\ Fairness

--------------------------------------------------------------------------------
\* The types.
TypeOK ==
    /\ blocks \in Seq(SUBSET Blocks) /\ revision \in 1 .. MaxRevision
    /\ open \subseteq Sessions
    /\ seen \in [Sessions -> 1 .. MaxRevision]
    /\ place \in [Sessions -> Blocks]
    /\ sent \subseteq Puts /\ checked \subseteq Puts
    /\ entries \in [Sessions -> {None} \cup [put : Puts, old : BOOLEAN]]
    /\ loaded \in [Readers -> 0 .. MaxRevision]
    /\ shown \in [Readers -> SUBSET Puts]
    /\ losses \in 0 .. MaxLosses

\* A session whose place is in the current Document and who is at its revision.
Present(s) == s \in open /\ seen[s] = revision /\ place[s] \in blocks[revision]

\* Every reader sees exactly the sessions that are present, each at its place.
BoardIsCurrent ==
    \A r \in Readers :
       shown[r] = {[session |-> s, revision |-> revision, block |-> place[s]] :
                     s \in {x \in Sessions : Present(x)}}

\* Once everybody stops editing, moving, leaving and coming, the board is current
\* for good, although late puts overwrite newer entries and late readers remove them.
PresentAreShown == <>[][UNCHANGED place]_vars => <>[]BoardIsCurrent

===============================================================================
