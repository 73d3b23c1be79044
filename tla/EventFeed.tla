------------------------------- MODULE EventFeed -------------------------------
(***************************************************************************)
(* The pull feed of an Artifact's committed events: GET .../events answers *)
(* the first events after a position, and the SDK's EventFeedConsumer      *)
(* keeps the position.  While a page says there is more the position is    *)
(* its cursor, a pair of revision and event id; after the last page it is  *)
(* the highest revision received, all of which is then over.               *)
(*                                                                         *)
(* One next() is in flight at a time, as its callers await it; a request   *)
(* may fail at any point, and a consumer may restart from the revision and *)
(* the cursor it saved.                                                    *)
(***************************************************************************)
EXTENDS Naturals, FiniteSets

CONSTANTS
    MaxRevision,   \* bound on the Artifact's revisions
    MaxEvents,     \* bound on the events of one revision
    Limits,        \* page sizes a caller asks for
    None

\* What the constants have to be.
FeedConstants ==
    /\ MaxRevision \in Nat \ {0}
    /\ MaxEvents \in Nat \ {0}
    /\ Limits \subseteq Nat \ {0}
    /\ None \notin Nat \X Nat

\* The event ids of one revision, by their order, and the sentinel after them.
EventIds == 1 .. MaxEvents
End      == MaxEvents + 1

VARIABLES
    version,        \* artifacts.version
    outbox,         \* artifact_event_outbox: pairs of revision and event id
    start,          \* options.revision of the consumer's first life
    cursor,         \* EventFeedConsumer.cursor, or None
    lastRevision,   \* EventFeedConsumer.lastRevision
    received,       \* the events handed to the caller
    request,        \* the position and limit asked for, or None
    page            \* the answer under way, or None

vars == <<version, outbox, start, cursor, lastRevision, received, request, page>>

\* Creating the Artifact wrote one event; a consumer begins with the snapshot of
\* revision 1, or with nothing.
Init ==
    /\ version = 1
    /\ outbox = {<<1, 1>>}
    /\ start \in {0, 1}
    /\ cursor = None
    /\ lastRevision = start
    /\ received = {}
    /\ request = None
    /\ page = None

Events == (1 .. MaxRevision) \X EventIds

\* A commit writes its events with the revision it makes.
Commit ==
    /\ version < MaxRevision
    /\ version' = version + 1
    /\ \E ids \in SUBSET EventIds : outbox' = outbox \cup ({version + 1} \X ids)
    /\ UNCHANGED <<start, cursor, lastRevision, received, request, page>>

--------------------------------------------------------------------------------
(* Positions: a revision and an event id, or the sentinel.                      *)

\* revision > ? OR (revision = ? AND event_id > ?)
After(e, at) ==
    \/ e[1] > at[1]
    \/ e[1] = at[1] /\ e[2] > at[2]

\* next: the cursor while there is one, else everything after lastRevision.
Position == IF cursor # None THEN cursor ELSE <<lastRevision, End>>

Ask ==
    /\ request = None /\ page = None
    /\ \E limit \in Limits : request' = [at |-> Position, limit |-> limit]
    /\ UNCHANGED <<version, outbox, start, cursor, lastRevision, received, page>>

\* The rows of list_artifact_events: the first of those after the position.
IsFirst(rows, at, n) ==
    LET all == {e \in outbox : After(e, at)}
    IN  /\ rows \subseteq all
        /\ \A e \in rows, f \in all \ rows : After(f, e)
        /\ Cardinality(rows) = n \/ (rows = all /\ Cardinality(rows) < n)

\* Broken: no more rows are read than the limit, so that none is over.
NoMore(rows, at) == FALSE

\* One row more than the limit is read: there is one after those kept.
HasMore(rows, at) == \E e \in outbox \ rows : After(e, at)

\* list: the cursor of the page is the last event kept, when there is more.
Answer ==
    /\ request # None
    /\ \E rows \in SUBSET outbox, last \in outbox \cup {None} :
         /\ IsFirst(rows, request.at, request.limit)
         /\ IF HasMore(rows, request.at)
            THEN last \in rows /\ \A e \in rows : ~After(e, last)
            ELSE last = None
         /\ page' = [events |-> rows, next |-> last]
    /\ request' = None
    /\ UNCHANGED <<version, outbox, start, cursor, lastRevision, received>>

\* accept.
Accept ==
    /\ page # None
    /\ received' = received \cup page.events
    /\ lastRevision' \in {lastRevision} \cup {e[1] : e \in page.events}
    /\ lastRevision <= lastRevision'
    /\ \A e \in page.events : e[1] <= lastRevision'
    /\ cursor' = page.next
    /\ page' = None
    /\ UNCHANGED <<version, outbox, start, request>>

\* A failed request, or a consumer that restarts from what it saved.
Lose ==
    /\ request # None \/ page # None
    /\ request' = None
    /\ page' = None
    /\ UNCHANGED <<version, outbox, start, cursor, lastRevision, received>>

Next == Commit \/ Ask \/ Answer \/ Accept \/ Lose

\* A caller asks again as long as it cares, and a network that loses requests does
\* not lose them all.
Fairness == WF_vars(Ask) /\ SF_vars(Answer) /\ SF_vars(Accept)

Spec == Init /\ [][Next]_vars /\ Fairness

--------------------------------------------------------------------------------
Positions == Nat \X (1 .. End)

\* The types.
TypeOK ==
    /\ version \in 1 .. MaxRevision
    /\ outbox \subseteq Events
    /\ start \in {0, 1}
    /\ cursor \in Events \cup {None}
    /\ lastRevision \in Nat
    /\ received \subseteq outbox
    /\ request \in {None} \cup [at : Positions, limit : Limits]
    /\ page \in {None} \cup [events : SUBSET outbox, next : Events \cup {None}]

\* Nothing the consumer has gone past was kept from it: every event up to its
\* position, from the revision it began after, was handed to its caller.
NoEventIsSkipped ==
    \A e \in outbox :
       e[1] > start /\ ~After(e, Position) => e \in received

AllReceived == \A e \in outbox : e[1] > start => e \in received

\* Once commits cease, everything after the consumer's start was handed over.
FeedCatchesUp == <>[]AllReceived

===============================================================================
