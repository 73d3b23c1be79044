----------------------------- MODULE EditorSession -----------------------------
(***************************************************************************)
(* One browser session on a Document: edits show at once in the local      *)
(* engine, wait in the autosave outbox, and are sent one transaction at a  *)
(* time; answers, conflicts and network errors come back after the user    *)
(* has typed on.  Undo drains the outbox, asks the server, and reloads.    *)
(*                                                                         *)
(* The server is the part of ArtifactHistory the session can see: a log of *)
(* revisions, and ids that take effect once.  A request may be handled     *)
(* long after the session stopped waiting for it, or never.                *)
(***************************************************************************)
EXTENDS Naturals, Sequences, FiniteSets, SequencesExt

CONSTANTS
    MaxEdits,      \* bound: edits the user types; the k-th one is called k
    MaxUndos,      \* bound: history actions the user asks for
    MaxRevision,   \* bound: revisions of the Document
    MaxAttempts,   \* the outbox's maxAttempts
    Patient,       \* whether the user waits for undo and reload to finish, and
                   \* reloads only when everything is saved
    Foreign,       \* an edit of somebody else
    NoFlight       \* no save is in flight

Edits     == 1..MaxEdits
Clicks    == 1..MaxUndos
Revisions == 1..MaxRevision

\* An awaiting flush: what it sent, and what it knows of the answer.
Flights == [edits : Seq(Edits), attempt : Nat, revision : 0..MaxRevision,
            phase : {"sent", "ok", "conflict", "refused", "latest"}]

ASSUME SessionConstants ==
    /\ MaxEdits \in Nat \ {0}
    /\ MaxUndos \in Nat
    /\ MaxRevision \in Nat \ {0}
    /\ MaxAttempts \in Nat \ {0}
    /\ Patient \in BOOLEAN
    /\ Foreign \notin Edits
    /\ NoFlight \notin Flights

VARIABLES
    contents,   \* server: the content of every revision, as the edits it is made of
    log,        \* server: revision committed by an edit transaction, or 0
    undoLog,    \* server: revision committed by an undo transaction, or 0
    wire,       \* edit requests the server may still handle
    undoWire,   \* undo requests the server may still handle
    typed,      \* edits typed so far
    queue,      \* AutosaveOutbox.transactions
    committed,  \* committedSnapshotRef and baseRevisionRef
    local,      \* the engine's content, what the user sees
    flight,     \* the awaiting flush, or NoFlight
    armed,      \* an autosave or retry timer is set
    saving,     \* save() is draining the outbox
    undos,      \* submitHistory calls, one per click
    intents,    \* HistoryAdapter.pendingIntentIds: id kept for a base revision, or 0
    reload      \* a load() the user asked for

serverVars == <<contents, log, undoLog>>
netVars    == <<wire, undoWire>>
localVars  == <<queue, committed, local>>
uiVars     == <<saving, undos, intents, reload>>
vars       == <<serverVars, netVars, typed, localVars, flight, armed, uiVars>>

\* A load() reads a revision and shows it later; an undo drains the outbox, is
\* sent at a base revision, and ends in a load().
NoLoad == [phase |-> "no", revision |-> 0]
NewUndo == [phase |-> "new", base |-> 0, revision |-> 0]

Init ==
    /\ contents = <<(<<>>)>>
    /\ log = [t \in Edits |-> 0]
    /\ undoLog = [c \in Clicks |-> 0]
    /\ wire = {}
    /\ undoWire = {}
    /\ typed = 0
    /\ queue = <<>>
    /\ committed = [revision |-> 1, content |-> <<>>]
    /\ local = <<>>
    /\ flight = NoFlight
    /\ armed = FALSE
    /\ saving = FALSE
    /\ undos = [c \in Clicks |-> NewUndo]
    /\ intents = [r \in Revisions |-> 0]
    /\ reload = NoLoad

Current == Len(contents)

\* A transaction is identified by the first edit that went into it.
Id(t) == t.edits[1]

Replayed(content, q) == content \o FlattenSeq([i \in DOMAIN q |-> q[i].edits])

Retarget(q, revision) == [i \in DOMAIN q |-> [q[i] EXCEPT !.base = revision + i - 1]]

Blocked == queue # <<>> /\ Head(queue).state = "failed"
Ready   == queue # <<>> /\ Head(queue).state \in {"pending", "retrying"}

\* Where an answer of the server to an undo, or a load(), still has to arrive.
Busy == reload.phase # "no" \/ \E c \in Clicks : undos[c].phase \in {"sent", "load", "loaded"}

--------------------------------------------------------------------------------
(* The server.                                                                  *)

\* What a request gets to know, if the session still waits for it.
Tell(r, phase, revision) ==
    flight' = IF flight # NoFlight /\ flight.phase = "sent" /\ flight.attempt = r.attempt /\ flight.edits = r.edits
              THEN [flight EXCEPT !.phase = phase, !.revision = revision]
              ELSE flight

ServerHandlesEdit(r) ==
    /\ wire' = wire \ {r}
    /\ \/ /\ log[Id(r)] # 0
          /\ Tell(r, "ok", log[Id(r)])
          /\ UNCHANGED serverVars
       \/ /\ log[Id(r)] = 0
          /\ r.base # Current
          /\ Tell(r, "conflict", 0)
          /\ UNCHANGED serverVars
       \/ /\ log[Id(r)] = 0
          /\ r.base = Current
          /\ Current < MaxRevision
          /\ contents' = Append(contents, contents[Current] \o r.edits)
          /\ log' = [log EXCEPT ![Id(r)] = Current + 1]
          /\ Tell(r, "ok", Current + 1)
          /\ UNCHANGED undoLog
       \/ /\ log[Id(r)] = 0
          /\ r.base = Current
          /\ Tell(r, "refused", 0)
          /\ UNCHANGED serverVars
    /\ UNCHANGED <<undoWire, typed, localVars, armed, uiVars>>

\* An undo makes an earlier content the next revision.  The session does not
\* look at the answer before its load(), except for its being a success.
ServerHandlesUndo(r) ==
    LET answered == undos[r.click].phase = "sent"
        succeed == /\ undos' = IF answered THEN [undos EXCEPT ![r.click].phase = "load"] ELSE undos
                   /\ intents' = IF answered THEN [intents EXCEPT ![r.base] = 0] ELSE intents
        refuse  == /\ undos' = IF answered THEN [undos EXCEPT ![r.click].phase = "load"] ELSE undos
                   /\ UNCHANGED <<serverVars, intents>>
    IN  /\ undoWire' = undoWire \ {r}
        /\ \/ undoLog[r.id] # 0 /\ succeed /\ UNCHANGED serverVars
           \/ undoLog[r.id] = 0 /\ refuse
           \/ /\ undoLog[r.id] = 0
              /\ r.base = Current
              /\ Current < MaxRevision
              /\ \E v \in 1..(Current - 1) : contents' = Append(contents, contents[v])
              /\ undoLog' = [undoLog EXCEPT ![r.id] = Current + 1]
              /\ succeed
              /\ UNCHANGED log
        /\ UNCHANGED <<wire, typed, localVars, flight, armed, saving, reload>>

\* Another session commits.
SomebodyEdits ==
    /\ Current < MaxRevision
    /\ contents' = Append(contents, Append(contents[Current], Foreign))
    /\ UNCHANGED <<log, undoLog, netVars, typed, localVars, flight, armed, uiVars>>

--------------------------------------------------------------------------------
(* Typing.                                                                      *)

\* Broken: a draft also replaces one that is waiting for its next attempt.
MayCoalesceSent == queue # <<>> /\ queue[Len(queue)].state \in {"pending", "retrying"}

\* enqueue folds an edit of the same target into a tail no attempt is using.
MayCoalesce == queue # <<>> /\ queue[Len(queue)].state = "pending"

\* dispatchCommands: the engine applies the edit, the outbox takes it, the
\* autosave timer is set unless a flight or a failed head stands in the way.
Type ==
    LET e == typed + 1
        n == Len(queue)
        fresh == [edits |-> <<e>>, base |-> committed.revision + n, state |-> "pending", attempts |-> 0]
    IN  /\ typed < MaxEdits
        /\ Patient => ~Busy
        /\ typed' = e
        /\ local' = Append(local, e)
        /\ \/ MayCoalesce /\ queue' = [queue EXCEPT ![n].edits = Append(@, e)]
           \/ queue' = Append(queue, fresh)
        /\ armed' = (armed \/ (flight = NoFlight /\ ~Blocked))
        /\ UNCHANGED <<serverVars, netVars, committed, flight, uiVars>>

--------------------------------------------------------------------------------
(* flush.                                                                       *)

\* beginAttempt and the POST.
Attempt ==
    LET t == [Head(queue) EXCEPT !.state = "sending", !.attempts = @ + 1]
    IN  /\ flight = NoFlight
        /\ Ready
        /\ queue' = <<t>> \o Tail(queue)
        /\ flight' = [edits |-> t.edits, attempt |-> t.attempts, phase |-> "sent", revision |-> 0]
        /\ wire' = wire \cup {[edits |-> t.edits, base |-> t.base, attempt |-> t.attempts]}
        /\ UNCHANGED <<serverVars, undoWire, typed, committed, local, uiVars>>

TimerFires ==
    /\ armed
    /\ armed' = FALSE
    /\ \/ Attempt
       \/ /\ ~ (flight = NoFlight /\ Ready)
          /\ UNCHANGED <<serverVars, netVars, typed, localVars, flight, uiVars>>

\* flushAll, called by save() and by an undo, does not wait for the timer.
DrainFlush ==
    /\ saving \/ \E c \in Clicks : undos[c].phase = "drain"
    /\ Attempt
    /\ UNCHANGED armed

\* Broken: the timer is not set again after a flight.
RearmedNever(q) == armed

\* The finally block: unless nothing can be sent, a timer is set again.
Rearmed(q) == armed \/ (q # <<>> /\ Head(q).state \in {"pending", "retrying"})

Land(q) ==
    /\ queue' = q
    /\ flight' = NoFlight
    /\ armed' = Rearmed(q)
    /\ UNCHANGED <<serverVars, netVars, typed, uiVars>>

IsHead(q) == q # <<>> /\ Id(Head(q)) = Id(flight)

WithHead(q, state) == IF IsHead(q) THEN <<[Head(q) EXCEPT !.state = state]>> \o Tail(q) ELSE q

\* Broken: attempts are not counted against maxAttempts.
MarkRetryForever(q) == WithHead(q, "retrying")

\* Broken: a transaction that has to wait lets the others go first.
MarkRetryAtTail(q) ==
    IF IsHead(q) /\ Head(q).state = "sending"
    THEN Append(Tail(q), [Head(q) EXCEPT !.state = "retrying"])
    ELSE q

MarkRetry(q) ==
    IF IsHead(q) /\ Head(q).state = "sending"
    THEN WithHead(q, IF Head(q).attempts >= MaxAttempts THEN "failed" ELSE "retrying")
    ELSE q

\* Broken: the acknowledged transaction is still among the replayed ones.
RemainingAll == queue

\* outbox.entries().slice(1), whatever the head is by now.
Remaining == IF queue = <<>> THEN <<>> ELSE Tail(queue)

\* 200: the acknowledged transaction moves from the queue into the committed
\* snapshot, and the rest is replayed on top of it.
Acknowledge ==
    LET content == committed.content \o flight.edits
        kept == IF IsHead(queue) /\ Head(queue).state = "sending" THEN Tail(queue) ELSE queue
    IN  /\ flight # NoFlight
        /\ flight.phase = "ok"
        /\ committed' = [revision |-> flight.revision, content |-> content]
        /\ local' = Replayed(content, Remaining)
        /\ Land(Retarget(kept, flight.revision))

\* 409: the latest snapshot is fetched ...
Refetch ==
    /\ flight # NoFlight
    /\ flight.phase = "conflict"
    /\ flight' = [flight EXCEPT !.phase = "latest", !.revision = Current]
    /\ UNCHANGED <<serverVars, netVars, typed, localVars, armed, uiVars>>

\* Broken: the queue is aimed at the new revision without taking its content.
RebaseKeepsSnapshot ==
    /\ flight # NoFlight
    /\ flight.phase = "latest"
    /\ committed' = [committed EXCEPT !.revision = flight.revision]
    /\ UNCHANGED local
    /\ Land(WithHead(Retarget(queue, flight.revision), "pending"))

\* ... and everything queued is replayed on top of it and may be sent again.
Rebase ==
    LET latest == contents[flight.revision]
    IN  /\ flight # NoFlight
        /\ flight.phase = "latest"
        /\ committed' = [revision |-> flight.revision, content |-> latest]
        /\ local' = Replayed(latest, queue)
        /\ Land(WithHead(Retarget(queue, flight.revision), "pending"))

\* 400 and the like are final.
Refused ==
    /\ flight # NoFlight
    /\ flight.phase = "refused"
    /\ UNCHANGED <<committed, local>>
    /\ Land(WithHead(queue, "failed"))

\* The connection breaks, the server answers 5xx, or the fetch or replay that
\* follows an answer fails; the request itself may have been, or be, handled.
FlightFails ==
    /\ flight # NoFlight
    /\ flight.phase # "refused"
    /\ UNCHANGED <<committed, local>>
    /\ Land(MarkRetry(queue))

--------------------------------------------------------------------------------
(* save, submitHistory and load.                                                *)

Save ==
    /\ ~saving
    /\ saving' = TRUE
    /\ armed' = FALSE
    /\ UNCHANGED <<serverVars, netVars, typed, localVars, flight, undos, intents, reload>>

\* flushAll returns: drained, blocked, or past its deadline, which is longer
\* than the longest retry delay, so that a timer or a flight is there by then.
SaveEnds ==
    /\ saving
    /\ Blocked \/ armed \/ flight # NoFlight \/ queue = <<>>
    /\ saving' = FALSE
    /\ UNCHANGED <<serverVars, netVars, typed, localVars, flight, armed, undos, intents, reload>>

ClickUndo(c) ==
    /\ undos[c].phase = "new"
    /\ undos' = [undos EXCEPT ![c].phase = "drain"]
    /\ UNCHANGED <<serverVars, netVars, typed, localVars, flight, armed, saving, intents, reload>>

\* flushAll came back with work left: no undo.
GiveUpUndo(c) ==
    /\ undos[c].phase = "drain"
    /\ queue # <<>> \/ flight # NoFlight
    /\ undos' = [undos EXCEPT ![c].phase = "done"]
    /\ UNCHANGED <<serverVars, netVars, typed, localVars, flight, armed, saving, intents, reload>>

\* An id that was not answered is used again for the same base revision.
SendUndo(c) ==
    LET base == committed.revision
        id == IF intents[base] # 0 THEN intents[base] ELSE c
    IN  /\ undos[c].phase = "drain"
        /\ queue = <<>>
        /\ flight = NoFlight
        /\ undos' = [undos EXCEPT ![c].phase = "sent", ![c].base = base]
        /\ intents' = [intents EXCEPT ![base] = id]
        /\ undoWire' = undoWire \cup {[id |-> id, base |-> base, click |-> c]}
        /\ UNCHANGED <<serverVars, wire, typed, localVars, flight, armed, saving, reload>>

\* No answer: the session loads what the server has, the request may follow.
UndoFails(c) ==
    /\ undos[c].phase = "sent"
    /\ undos' = [undos EXCEPT ![c].phase = "load"]
    /\ UNCHANGED <<serverVars, netVars, typed, localVars, flight, armed, saving, intents, reload>>

\* load(): an outbox with anything in it is cleared, a flight is not looked at.
Show(revision) ==
    /\ queue' = <<>>
    /\ committed' = [revision |-> revision, content |-> contents[revision]]
    /\ local' = contents[revision]
    /\ UNCHANGED <<serverVars, netVars, typed, flight, armed, saving, intents>>

UndoReads(c) ==
    /\ undos[c].phase = "load"
    /\ undos' = [undos EXCEPT ![c].phase = "loaded", ![c].revision = Current]
    /\ UNCHANGED <<serverVars, netVars, typed, localVars, flight, armed, saving, intents, reload>>

UndoShows(c) ==
    /\ undos[c].phase = "loaded"
    /\ undos' = [undos EXCEPT ![c] = [NewUndo EXCEPT !.phase = "done"]]
    /\ Show(undos[c].revision)
    /\ UNCHANGED reload

\* A failing load() leaves the session as it is.
ReloadFails ==
    /\ reload # NoLoad
    /\ reload' = NoLoad
    /\ UNCHANGED <<serverVars, netVars, typed, localVars, flight, armed, saving, undos, intents>>

UndoLoadFails(c) ==
    /\ undos[c].phase = "load"
    /\ undos' = [undos EXCEPT ![c] = [NewUndo EXCEPT !.phase = "done"]]
    /\ UNCHANGED <<serverVars, netVars, typed, localVars, flight, armed, saving, intents, reload>>

\* The review panel reloads after an accepted suggestion, the version list after
\* a restore.
Reload ==
    /\ reload = NoLoad
    /\ Patient => queue = <<>> /\ flight = NoFlight
    /\ reload' = [phase |-> "loaded", revision |-> Current]
    /\ UNCHANGED <<serverVars, netVars, typed, localVars, flight, armed, saving, undos, intents>>

ReloadShows ==
    /\ reload.phase = "loaded"
    /\ reload' = NoLoad
    /\ Show(reload.revision)
    /\ UNCHANGED undos

Next ==
    \/ \E r \in wire : ServerHandlesEdit(r)
    \/ \E r \in undoWire : ServerHandlesUndo(r)
    \/ SomebodyEdits \/ Type \/ TimerFires \/ DrainFlush
    \/ Acknowledge \/ Refetch \/ Rebase \/ Refused \/ FlightFails
    \/ Save \/ SaveEnds \/ Reload \/ ReloadShows \/ ReloadFails
    \/ \E c \in Clicks : ClickUndo(c) \/ GiveUpUndo(c) \/ SendUndo(c) \/ UndoFails(c)
                         \/ UndoReads(c) \/ UndoShows(c) \/ UndoLoadFails(c)

Spec == Init /\ [][Next]_vars

\* Timers fire, a started flush runs on, and every fetch ends one way or another.
Fairness ==
    /\ WF_vars(TimerFires)
    /\ WF_vars(DrainFlush)
    /\ WF_vars(Acknowledge \/ Refetch \/ Rebase \/ Refused \/ FlightFails)

FairSpec == Spec /\ Fairness

--------------------------------------------------------------------------------
(* Properties.                                                                  *)

OutboxState == {"pending", "sending", "retrying", "failed"}

\* Every variable holds a value of its kind, and only the head of the outbox has
\* ever been sent.
TypeOK ==
    /\ contents \in Seq(Seq(Edits \cup {Foreign}))
    /\ log \in [Edits -> 0..MaxRevision]
    /\ undoLog \in [Clicks -> 0..MaxRevision]
    /\ wire \subseteq [edits : Seq(Edits), base : Nat, attempt : Nat]
    /\ undoWire \subseteq [id : Clicks, base : Revisions, click : Clicks]
    /\ typed \in 0..MaxEdits
    /\ queue \in Seq([edits : Seq(Edits), base : Nat, state : OutboxState,
                      attempts : 0..(MaxAttempts + MaxRevision)])
    /\ committed \in [revision : Revisions, content : Seq(Edits \cup {Foreign})]
    /\ local \in Seq(Edits \cup {Foreign})
    /\ flight \in Flights \cup {NoFlight}
    /\ armed \in BOOLEAN
    /\ saving \in BOOLEAN
    /\ undos \in [Clicks -> [phase : {"new", "drain", "sent", "load", "loaded", "done"},
                             base : 0..MaxRevision, revision : 0..MaxRevision]]
    /\ intents \in [Revisions -> 0..MaxUndos]
    /\ reload \in [phase : {"no", "loaded"}, revision : 0..MaxRevision]
    /\ \A i \in 2..Len(queue) : queue[i].state = "pending" /\ queue[i].attempts = 0

IsSaved(e) == \E v \in DOMAIN contents : Contains(contents[v], e)

IsQueued(e) == \E i \in DOMAIN queue : Contains(queue[i].edits, e)

\* What the session takes for revision n is revision n of the server, after lost
\* answers, replayed answers and conflicts alike.
CommittedMirrorsServer == committed.content = contents[committed.revision]

\* What the user sees is the committed content with the unsaved edits on top,
\* each once, in the order they were typed.
LocalIsCommittedPlusQueue == local = Replayed(committed.content, queue)

\* A typed edit is on the server or still queued: an answer to an earlier form of
\* its transaction never takes a draft out of the outbox unsent.
NoEditIsLost == \A e \in 1..typed : IsSaved(e) \/ IsQueued(e)

\* An edit reaches the server only after, or together with, everything the user
\* typed before it.
NothingOvertakes == \A e \in 2..typed : IsSaved(e) => IsSaved(e - 1)

\* Whatever the network does, queued edits are sent in the end or the outbox
\* shows that it is blocked.
EditsAreDelivered == []<>(queue = <<>> \/ Blocked)

\* submitHistory's comment: "Never undo a server revision while unsaved local
\* commands remain queued."
NoUndoOverQueuedEdits == [][undoLog' # undoLog => queue = <<>>]_vars

\* The status line reads "all changes saved" when nothing is queued and nothing
\* is in progress.
Idle == flight = NoFlight /\ reload = NoLoad /\ \A c \in Clicks : undos[c].phase \in {"new", "done"}

SavedIsSaved == queue = <<>> /\ Idle => \A e \in 1..typed : IsSaved(e)

================================================================================
