----------------------------- MODULE ReviewThreads -----------------------------
(***************************************************************************)
(* Review threads on one Document.  A suggestion names an exact piece of   *)
(* the text; accepting it commits a Document transaction, under the id     *)
(* kept in its row since it was created, and then writes the row's state.  *)
(* The PATCH handler takes no lock around the two: it reads the row, loads *)
(* the Document, submits the transaction and writes the state, and may be  *)
(* dropped, or fail, at every await in between.                            *)
(*                                                                         *)
(* A transaction of the server is one step here: TransactionKernel and     *)
(* KernelRefinement show that it takes effect once per id or not at all.   *)
(***************************************************************************)
EXTENDS Naturals, FiniteSets

CONSTANTS
    Handlers,      \* PATCH requests in flight
    Comments,      \* ids of comment threads
    Suggestions,   \* ids of suggestion threads
    LastRevision,  \* bound on the Document's revisions
    NoRequest      \* the handler slot is free

Threads == Comments \cup Suggestions

ReviewState == {"open", "resolved", "accepted", "rejected"}

ASSUME ReviewConstants ==
    /\ Comments \cap Suggestions = {}
    /\ LastRevision \in Nat \ {0}
    /\ \A t \in Threads, s \in ReviewState : NoRequest # [thread |-> t, state |-> s]

VARIABLES
    revision,   \* the Document's current revision
    text,       \* what stands at a suggestion's anchor
    accepts,    \* suggestions whose accept transaction is committed
    applied,    \* how often a suggestion's replacement was committed (auxiliary)
    state,      \* artifact_review_threads.state; "absent" before the insert
    pc, req, base   \* a handler's label, its request, the revision it loaded

documentVars == <<revision, text, accepts, applied>>
handlerVars  == <<pc, req, base>>
reviewVars   == <<documentVars, state, handlerVars>>

\* The anchored text as the accept sees it: what the suggestion quotes, what it
\* puts in its place, or anything else.
Anchored == {"original", "replacement", "other"}

ReviewInit ==
    /\ revision = 1
    /\ text \in [Suggestions -> Anchored]
    /\ accepts = {}
    /\ applied = [s \in Suggestions |-> 0]
    /\ state = [t \in Threads |-> "absent"]
    /\ pc = [h \in Handlers |-> "idle"]
    /\ req = [h \in Handlers |-> NoRequest]
    /\ base = [h \in Handlers |-> 0]

Goto(h, label) == pc' = [pc EXCEPT ![h] = label]

Finish(h) ==
    /\ Goto(h, "idle")
    /\ req' = [req EXCEPT ![h] = NoRequest]
    /\ base' = [base EXCEPT ![h] = 0]

--------------------------------------------------------------------------------
(* Everybody else: editors change the Document, also with undo, redo and        *)
(* restore, so that any text may come back at an anchor.                        *)

Edit ==
    /\ revision < LastRevision
    /\ revision' = revision + 1
    /\ \E s \in Suggestions, x \in Anchored : text' = [text EXCEPT ![s] = x]
    /\ UNCHANGED <<accepts, applied, state, handlerVars>>

(* create_thread: a suggestion must quote the text at its anchor.               *)
CreateThread(t) ==
    /\ state[t] = "absent"
    /\ t \in Suggestions => text[t] = "original"
    /\ state' = [state EXCEPT ![t] = "open"]
    /\ UNCHANGED <<documentVars, handlerVars>>

--------------------------------------------------------------------------------
(* update.                                                                      *)

\* Broken: the thread's kind and state are not looked at.
AnyChange(t, new) == TRUE

\* The match of kind, current state and requested state.
ValidChange(t, new) ==
    \/ t \in Comments /\ new \in {"open", "resolved"}
    \/ t \in Suggestions /\ state[t] = "open" /\ new \in {"accepted", "rejected"}

\* Broken: an accept writes the row before it submits the transaction.
ReadRowWritesFirst(h) ==
    /\ pc[h] = "idle"
    /\ \E t \in Threads, new \in ReviewState :
         /\ state[t] \notin {"absent", new}
         /\ ValidChange(t, new)
         /\ state' = [state EXCEPT ![t] = new]
         /\ req' = [req EXCEPT ![h] = [thread |-> t, state |-> new]]
         /\ Goto(h, IF new = "accepted" THEN "load" ELSE "write")
    /\ UNCHANGED <<documentVars, base>>

(* The request arrives and reads the row.  A state the thread already has, and  *)
(* a change that is not valid, are answered at once and change nothing.         *)
ReadRow(h) ==
    /\ pc[h] = "idle"
    /\ \E t \in Threads, new \in ReviewState :
         /\ state[t] \notin {"absent", new}
         /\ ValidChange(t, new)
         /\ req' = [req EXCEPT ![h] = [thread |-> t, state |-> new]]
         /\ Goto(h, IF new = "accepted" THEN "load" ELSE "write")
    /\ UNCHANGED <<documentVars, state, base>>

(* accept_suggestion: the current Document gives the base revision.             *)
LoadDocument(h) ==
    /\ pc[h] = "load"
    /\ base' = [base EXCEPT ![h] = revision]
    /\ Goto(h, "submit")
    /\ UNCHANGED <<documentVars, state, req>>

\* Broken: every attempt draws a transaction id of its own.
LoggedNever(s) == FALSE

\* The id in the row is in the transaction log.
Logged(s) == s \in accepts

(* submit_transaction: a committed id is answered from the log, a stale base is *)
(* a conflict, and the engine demands the quoted text at the anchor.  A refusal *)
(* ends the request before the row is written.                                  *)
Submit(h) ==
    LET s == req[h].thread
    IN  /\ pc[h] = "submit"
        /\ \/ /\ Logged(s)
              /\ Goto(h, "write")
              /\ UNCHANGED <<documentVars, req, base>>
           \/ /\ ~Logged(s)
              /\ base[h] # revision \/ text[s] # "original"
              /\ Finish(h)
              /\ UNCHANGED documentVars
           \/ /\ ~Logged(s)
              /\ base[h] = revision
              /\ text[s] = "original"
              /\ revision < LastRevision
              /\ revision' = revision + 1
              /\ text' = [text EXCEPT ![s] = "replacement"]
              /\ accepts' = accepts \cup {s}
              /\ applied' = [applied EXCEPT ![s] = @ + 1]
              /\ Goto(h, "write")
              /\ UNCHANGED <<req, base>>
        /\ UNCHANGED state

(* The UPDATE at the end of update is not conditional on the state it replaces. *)
WriteState(h) ==
    /\ pc[h] = "write"
    /\ state' = [state EXCEPT ![req[h].thread] = req[h].state]
    /\ Finish(h)
    /\ UNCHANGED documentVars

(* The client is gone, a query fails, or the process stops: the handler ends    *)
(* where it stands.                                                             *)
Cancel(h) ==
    /\ pc[h] # "idle"
    /\ Finish(h)
    /\ UNCHANGED <<documentVars, state>>

Update(h) == ReadRow(h) \/ LoadDocument(h) \/ Submit(h) \/ WriteState(h) \/ Cancel(h)

ReviewNext ==
    \/ Edit
    \/ \E t \in Threads : CreateThread(t)
    \/ \E h \in Handlers : Update(h)

ReviewSpec == ReviewInit /\ [][ReviewNext]_reviewVars

--------------------------------------------------------------------------------
(* Properties.                                                                  *)

\* Every variable holds a value of its kind, and a thread only has the states of
\* its kind.
ReviewTypeOK ==
    /\ revision \in 1..LastRevision
    /\ text \in [Suggestions -> Anchored]
    /\ accepts \subseteq Suggestions
    /\ applied \in [Suggestions -> Nat]
    /\ state \in [Threads -> ReviewState \cup {"absent"}]
    /\ pc \in [Handlers -> {"idle", "load", "submit", "write"}]
    /\ req \in [Handlers -> [thread : Threads, state : ReviewState] \cup {NoRequest}]
    /\ base \in [Handlers -> 0..LastRevision]
    /\ \A t \in Comments : state[t] \in {"absent", "open", "resolved"}
    /\ \A s \in Suggestions : state[s] # "resolved"

\* However often an accept is retried, duplicated or raced, and whatever is
\* undone or typed in between, the replacement is committed at most once.
SuggestionAppliedOnce == \A s \in Suggestions : applied[s] <= 1

\* A suggestion shown as accepted has its replacement in the Document's history.
AcceptedIsApplied == \A s \in Suggestions : state[s] = "accepted" => applied[s] >= 1

\* accept_suggestion's promise: "a retry [can] finish the review-state update
\* after a previously committed replacement".  After the commit the thread is
\* either still open, so that the retry may run, or already accepted.
RetryCanFinish == \A s \in Suggestions : Logged(s) => state[s] \in {"open", "accepted"}

================================================================================
