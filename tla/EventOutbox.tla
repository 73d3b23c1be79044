------------------------------ MODULE EventOutbox ------------------------------
(***************************************************************************)
(* The durable outbox of domain events.  A commit inserts its events with  *)
(* its other rows; delivery workers claim due events under a lease,        *)
(* perform the side effect outside the database, and acknowledge or        *)
(* reschedule the event.  A worker may crash or outlive its lease.  The    *)
(* repository holds the storage primitives; the workers are modelled from  *)
(* the protocol those primitives and their tests prescribe.                *)
(*                                                                         *)
(* Time is abstract: a pending event becomes due, a lease expires.         *)
(***************************************************************************)
EXTENDS Naturals, Sequences, FiniteSets

CONSTANTS
    Events,       \* ids of domain events
    Consumers,    \* stable worker ids
    MaxLimit,     \* largest limit a worker passes to claim
    MaxClaims,    \* bound: the claim of an event that no fault disturbs
    NoConsumer    \* claimed_by IS NULL

ASSUME OutboxConstants ==
    /\ MaxLimit \in Nat \ {0}
    /\ MaxClaims \in Nat \ {0}
    /\ NoConsumer \notin Consumers

VARIABLES
    order,     \* committed events by created_at, event_id
    status,    \* absent, pending, processing or delivered
    due,       \* pending rows whose available_at has passed
    owner,     \* claimed_by
    expired,   \* processing rows whose lease_until has passed
    attempts,  \* claims so far
    held       \* claims the workers have in hand

outboxVars == <<order, status, due, owner, expired, attempts, held>>

\* A claim a worker was handed; done once its side effect has happened.
Claim == [by : Consumers, event : Events, attempt : 1..MaxClaims, done : BOOLEAN]

OutboxInit ==
    /\ order = <<>>
    /\ status = [e \in Events |-> "absent"]
    /\ due = {}
    /\ owner = [e \in Events |-> NoConsumer]
    /\ expired = {}
    /\ attempts = [e \in Events |-> 0]
    /\ held = {}

InState(s) == {e \in Events : status[e] = s}

(* insert_domain_events, inside the transaction that commits the Artifact.      *)
Insert(e) ==
    /\ status[e] = "absent"
    /\ order' = Append(order, e)
    /\ status' = [status EXCEPT ![e] = "pending"]
    /\ due' = due \cup {e}
    /\ UNCHANGED <<owner, expired, attempts, held>>

(* available_at and lease_until pass.  An event at its last modelled attempt    *)
(* meets no further fault.                                                      *)
BecomeDue(e) ==
    /\ status[e] = "pending"
    /\ e \notin due
    /\ due' = due \cup {e}
    /\ UNCHANGED <<order, status, owner, expired, attempts, held>>

Expire(e) ==
    /\ status[e] = "processing"
    /\ e \notin expired
    /\ attempts[e] < MaxClaims
    /\ expired' = expired \cup {e}
    /\ UNCHANGED <<order, status, due, owner, attempts, held>>

--------------------------------------------------------------------------------
(* claim_pending_domain_events: expired leases return to pending, then the      *)
(* first limit due rows are taken, in one transaction.                          *)

\* Broken: expired leases stay with their owner.
ReturnedNone == {}

\* Broken: every claimed row is returned, whatever its lease.
ReturnedAll == InState("processing")

\* The rows a claim finds pending after it has returned the expired ones.  Their
\* available_at passed when they were claimed before.
Returned == expired

Claimable == (InState("pending") \cap due) \cup Returned

\* ORDER BY created_at, event_id.
Before(e, f) == \E i, j \in DOMAIN order : i < j /\ order[i] = e /\ order[j] = f

\* The first rows of a set of them.
FirstOf(rows, limit) == {e \in rows : Cardinality({f \in rows : Before(f, e)}) < limit}

ClaimPending(c, limit) ==
    LET taken == FirstOf(Claimable, limit)
    IN  /\ Claimable # {}
        /\ status' = [e \in Events |-> IF e \in taken THEN "processing"
                                       ELSE IF e \in Returned THEN "pending" ELSE status[e]]
        /\ owner' = [e \in Events |-> IF e \in taken THEN c
                                      ELSE IF e \in Returned THEN NoConsumer ELSE owner[e]]
        /\ due' = (due \cup Returned) \ taken
        /\ expired' = expired \ (Returned \cup taken)
        /\ attempts' = [e \in Events |-> IF e \in taken THEN attempts[e] + 1 ELSE attempts[e]]
        /\ held' = held \cup {[by |-> c, event |-> e, attempt |-> attempts[e] + 1, done |-> FALSE] : e \in taken}
        /\ UNCHANGED order

(* The worker's side effect, outside the database.                              *)
Perform(t) ==
    /\ ~t.done
    /\ held' = (held \ {t}) \cup {[t EXCEPT !.done = TRUE]}
    /\ UNCHANGED <<order, status, due, owner, expired, attempts>>

\* Broken: the row is changed whoever owns it.
OwnsAnything(t) == TRUE

Owns(t) == status[t.event] = "processing" /\ owner[t.event] = t.by

(* ack_domain_event, called after the side effect; a row that is not the        *)
(* consumer's any more is left alone.                                           *)
Ack(t) ==
    /\ t.done
    /\ held' = held \ {t}
    /\ IF Owns(t)
       THEN /\ status' = [status EXCEPT ![t.event] = "delivered"]
            /\ owner' = [owner EXCEPT ![t.event] = NoConsumer]
            /\ expired' = expired \ {t.event}
       ELSE UNCHANGED <<status, owner, expired>>
    /\ UNCHANGED <<order, due, attempts>>

(* fail_domain_event: the event becomes pending again, due at a later time.     *)
Fail(t) ==
    /\ ~t.done
    /\ attempts[t.event] < MaxClaims
    /\ held' = held \ {t}
    /\ IF Owns(t)
       THEN /\ status' = [status EXCEPT ![t.event] = "pending"]
            /\ owner' = [owner EXCEPT ![t.event] = NoConsumer]
            /\ expired' = expired \ {t.event}
            /\ due' = due \ {t.event}
       ELSE UNCHANGED <<status, owner, expired, due>>
    /\ UNCHANGED <<order, attempts>>

(* A worker stops and comes back with the same stable id and empty hands.       *)
Crash(c) ==
    /\ \E t \in held : t.by = c
    /\ \A t \in held : t.by = c => attempts[t.event] < MaxClaims
    /\ held' = {t \in held : t.by # c}
    /\ UNCHANGED <<order, status, due, owner, expired, attempts>>

OutboxNext ==
    \/ \E e \in Events : Insert(e) \/ BecomeDue(e) \/ Expire(e)
    \/ \E c \in Consumers, limit \in 1..MaxLimit : ClaimPending(c, limit)
    \/ \E t \in held : Perform(t) \/ Ack(t) \/ Fail(t)
    \/ \E c \in Consumers : Crash(c)

OutboxSpec == OutboxInit /\ [][OutboxNext]_outboxVars

\* Time passes, workers that are up keep claiming and finish what they hold.
\* Nothing is assumed of Insert, Fail and Crash.
OutboxFairness ==
    /\ \A e \in Events : WF_outboxVars(BecomeDue(e)) /\ WF_outboxVars(Expire(e))
    /\ WF_outboxVars(\E c \in Consumers, limit \in 1..MaxLimit : ClaimPending(c, limit))
    /\ \A e \in Events :
         WF_outboxVars(\E t \in held : t.event = e /\ (Perform(t) \/ Ack(t)))

OutboxFairSpec == OutboxSpec /\ OutboxFairness

--------------------------------------------------------------------------------
(* Properties.                                                                  *)

\* Every variable holds a value of its kind, and the outbox columns agree: a row
\* has an owner exactly while it is processing.
OutboxTypeOK ==
    /\ order \in Seq(Events)
    /\ status \in [Events -> {"absent", "pending", "processing", "delivered"}]
    /\ due \subseteq InState("pending")
    /\ owner \in [Events -> Consumers \cup {NoConsumer}]
    /\ expired \subseteq InState("processing")
    /\ attempts \in [Events -> 0..MaxClaims]
    /\ held \subseteq Claim
    /\ \A e \in Events : owner[e] # NoConsumer <=> status[e] = "processing"

\* A claim takes an event from nobody whose lease still runs: two workers work
\* on one event only when the first outlived its lease.
LeaseIsRespected ==
    [][\A e \in Events : attempts'[e] # attempts[e] => status[e] = "pending" \/ e \in expired]_outboxVars

\* An event acknowledged once is never offered again, whatever late workers do.
DeliveredIsFinal ==
    [][\A e \in Events : status[e] = "delivered" => status'[e] = "delivered"]_outboxVars

\* No crash, slow worker or failed callback strands a committed event: a row is
\* never waiting or in work for good, and its only other state is "delivered".
EveryEventIsDelivered ==
    \A e \in Events : []<>(status[e] \in {"absent", "delivered"})

\* ack_domain_event's promise: "a late worker cannot acknowledge a lease it no
\* longer holds".
AckHoldsItsLease ==
    [][\A e \in Events : status[e] = "processing" /\ status'[e] = "delivered" => e \notin expired]_outboxVars

================================================================================
