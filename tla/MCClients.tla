------------------------------- MODULE MCClients -------------------------------
(***************************************************************************)
(* The three clients of the transaction path, side by side: the outbox and *)
(* its workers, the review threads, an editor session.  They share nothing,*)
(* so that a behaviour is one of a single part.                            *)
(***************************************************************************)
EXTENDS EventOutbox, ReviewThreads, EditorSession, TLC

VARIABLE part

clientVars == <<outboxVars, reviewVars, vars, part>>

\* What stands at the anchors first matters to the review threads alone.
MCInit ==
    /\ OutboxInit
    /\ ReviewInit
    /\ Init
    /\ part \in {"outbox", "review", "session"}
    /\ part # "review" => text = [s \in Suggestions |-> "original"]

MCNext ==
    /\ UNCHANGED part
    /\ \/ part = "outbox" /\ OutboxNext /\ UNCHANGED <<reviewVars, vars>>
       \/ part = "review" /\ ReviewNext /\ UNCHANGED <<outboxVars, vars>>
       \/ part = "session" /\ Next /\ UNCHANGED <<outboxVars, reviewVars>>

\* In a part that rests no fair action is ever enabled: nothing is pending, no
\* timer is set, no save is in flight.
MCSpec == MCInit /\ [][MCNext]_clientVars /\ OutboxFairness /\ Fairness


================================================================================
