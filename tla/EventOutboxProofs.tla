--------------------------- MODULE EventOutboxProofs ---------------------------
(***************************************************************************)
(* Theorems about EventOutbox, for every set of events and consumers and    *)
(* every bound on the rows of a claim and on the attempts.                  *)
(***************************************************************************)
EXTENDS EventOutbox, TLAPS

\* A row that can be claimed, or will be, has been claimed less often than the bound.
AttemptsInv ==
    \A e \in Events : status[e] \in {"absent", "pending"} \/ e \in expired => attempts[e] < MaxClaims

IInv == OutboxTypeOK /\ AttemptsInv

\* The rows of a claim can be claimed: they are pending, or their lease is over.
LEMMA TakenIsClaimable ==
  ASSUME OutboxTypeOK, NEW limit, NEW e \in FirstOf(Claimable, limit)
  PROVE  /\ e \in Events
         /\ status[e] = "pending" \/ e \in expired
         /\ status[e] \in {"pending", "processing"}
  BY DEF FirstOf, Claimable, Returned, InState, OutboxTypeOK

\* Nothing is committed, claimed or held at first.
LEMMA InitIInv == OutboxInit => IInv
  BY OutboxConstants DEF OutboxInit, IInv, OutboxTypeOK, AttemptsInv, InState

\* A claim that is handed out is the next attempt of its row.
LEMMA ClaimKeepsIInv ==
  ASSUME IInv, NEW c \in Consumers, NEW limit \in 1..MaxLimit, ClaimPending(c, limit)
  PROVE  IInv'
  <1> DEFINE taken == FirstOf(Claimable, limit)
  <1>1. /\ status' = [e \in Events |-> IF e \in taken THEN "processing"
                                       ELSE IF e \in expired THEN "pending" ELSE status[e]]
        /\ owner' = [e \in Events |-> IF e \in taken THEN c
                                      ELSE IF e \in expired THEN NoConsumer ELSE owner[e]]
        /\ due' = (due \cup expired) \ taken
        /\ expired' = expired \ (expired \cup taken)
        /\ attempts' = [e \in Events |-> IF e \in taken THEN attempts[e] + 1 ELSE attempts[e]]
        /\ held' = held \cup {[by |-> c, event |-> e, attempt |-> attempts[e] + 1, done |-> FALSE] : e \in taken}
        /\ order' = order
    BY DEF ClaimPending, Returned
  <1>2. OutboxTypeOK /\ AttemptsInv
    BY DEF IInv
  <1>3. \A e \in taken : e \in Events /\ (status[e] = "pending" \/ e \in expired)
    BY <1>2, TakenIsClaimable
  <1> HIDE DEF taken
  <1>4. \A e \in taken : attempts[e] + 1 \in 1..MaxClaims
    BY <1>2, <1>3, OutboxConstants DEF OutboxTypeOK, AttemptsInv
  <1>5. order' \in Seq(Events) /\ status' \in [Events -> {"absent", "pending", "processing", "delivered"}]
    BY <1>1, <1>2 DEF OutboxTypeOK
  <1>6. owner' \in [Events -> Consumers \cup {NoConsumer}]
    BY <1>1, <1>2 DEF OutboxTypeOK
  <1>7. attempts' \in [Events -> 0..MaxClaims]
    <2>1. ASSUME NEW e \in Events PROVE attempts'[e] \in 0..MaxClaims
      BY <1>1, <1>2, <1>4, OutboxConstants DEF OutboxTypeOK
    <2> QED
      BY <1>1, <2>1
  <1>8. held' \subseteq Claim
    <2>1. ASSUME NEW e \in taken
          PROVE  [by |-> c, event |-> e, attempt |-> attempts[e] + 1, done |-> FALSE] \in Claim
      BY <1>3, <1>4 DEF Claim
    <2> QED
      BY <1>1, <1>2, <2>1 DEF OutboxTypeOK
  <1>9. due' \subseteq InState("pending")' /\ expired' \subseteq InState("processing")'
    <2>1. ASSUME NEW e \in due' PROVE e \in Events /\ status'[e] = "pending"
      BY <1>1, <1>2 DEF OutboxTypeOK, InState
    <2>2. expired' = {}
      BY <1>1
    <2> QED
      BY <2>1, <2>2 DEF InState
  <1>10. \A e \in Events : owner'[e] # NoConsumer <=> status'[e] = "processing"
    BY <1>1, <1>2, OutboxConstants DEF OutboxTypeOK, InState
  <1>11. AttemptsInv'
    <2> SUFFICES ASSUME NEW e \in Events, status'[e] \in {"absent", "pending"} PROVE attempts'[e] < MaxClaims
      BY <1>1 DEF AttemptsInv
    <2>1. e \notin taken /\ (e \in expired \/ status[e] \in {"absent", "pending"})
      BY <1>1
    <2> QED
      BY <1>1, <1>2, <2>1 DEF AttemptsInv
  <1> QED
    BY <1>5, <1>6, <1>7, <1>8, <1>9, <1>10, <1>11 DEF IInv, OutboxTypeOK

\* A row that is not the worker's any more is left alone, and so are all others.
LEMMA AnswerKeepsIInv ==
  ASSUME IInv, NEW t \in held, Ack(t) \/ Fail(t)
  PROVE  IInv'
  <1> USE DEF IInv
  <1>1. t \in Claim /\ t.event \in Events /\ held' = held \ {t} /\ order' = order /\ attempts' = attempts
    BY DEF OutboxTypeOK, Claim, Ack, Fail
  <1>2. CASE UNCHANGED <<status, owner, expired, due>>
    BY <1>1, <1>2 DEF OutboxTypeOK, AttemptsInv, InState
  <1>3. CASE Owns(t) /\ Ack(t)
    <2>1. /\ status[t.event] = "processing"
          /\ status' = [status EXCEPT ![t.event] = "delivered"]
          /\ owner' = [owner EXCEPT ![t.event] = NoConsumer]
          /\ expired' = expired \ {t.event}
          /\ due' = due
      BY <1>3 DEF Owns, Ack
    <2>2. OutboxTypeOK'
      BY <1>1, <2>1 DEF OutboxTypeOK, InState
    <2>3. AttemptsInv'
      BY <1>1, <2>1 DEF OutboxTypeOK, AttemptsInv
    <2> QED
      BY <2>2, <2>3
  <1>4. CASE Owns(t) /\ Fail(t)
    <2>1. /\ status[t.event] = "processing" /\ attempts[t.event] < MaxClaims
          /\ status' = [status EXCEPT ![t.event] = "pending"]
          /\ owner' = [owner EXCEPT ![t.event] = NoConsumer]
          /\ expired' = expired \ {t.event}
          /\ due' = due \ {t.event}
      BY <1>4 DEF Owns, Fail
    <2>2. OutboxTypeOK'
      BY <1>1, <2>1 DEF OutboxTypeOK, InState
    <2>3. AttemptsInv'
      BY <1>1, <2>1 DEF OutboxTypeOK, AttemptsInv
    <2> QED
      BY <2>2, <2>3
  <1> QED
    BY <1>2, <1>3, <1>4 DEF Ack, Fail

\* One case for each action.
LEMMA NextIInv == IInv /\ [OutboxNext]_outboxVars => IInv'
  <1> SUFFICES ASSUME IInv, [OutboxNext]_outboxVars PROVE IInv'
    OBVIOUS
  <1> USE DEF IInv
  <1>1. ASSUME NEW e \in Events, Insert(e) PROVE IInv'
    <2>1. order' \in Seq(Events)
      BY <1>1 DEF Insert, OutboxTypeOK
    <2>2. OutboxTypeOK'
      BY <1>1, <2>1 DEF Insert, OutboxTypeOK, InState
    <2> QED
      BY <1>1, <2>2 DEF Insert, OutboxTypeOK, AttemptsInv
  <1>2. ASSUME NEW e \in Events, BecomeDue(e) PROVE IInv'
    BY <1>2 DEF BecomeDue, OutboxTypeOK, InState, AttemptsInv
  <1>3. ASSUME NEW e \in Events, Expire(e) PROVE IInv'
    BY <1>3 DEF Expire, OutboxTypeOK, InState, AttemptsInv
  <1>4. ASSUME NEW c \in Consumers, NEW limit \in 1..MaxLimit, ClaimPending(c, limit) PROVE IInv'
    BY <1>4, ClaimKeepsIInv
  <1>5. ASSUME NEW t \in held, Perform(t) PROVE IInv'
    <2>1. [t EXCEPT !.done = TRUE] \in Claim
      BY DEF OutboxTypeOK, Claim
    <2> QED
      BY <1>5, <2>1 DEF Perform, OutboxTypeOK, InState, AttemptsInv
  <1>6. ASSUME NEW t \in held, Ack(t) \/ Fail(t) PROVE IInv'
    BY <1>6, AnswerKeepsIInv
  <1>7. ASSUME NEW c \in Consumers, Crash(c) PROVE IInv'
    BY <1>7 DEF Crash, OutboxTypeOK, InState, AttemptsInv
  <1>8. CASE UNCHANGED outboxVars
    BY <1>8 DEF outboxVars, OutboxTypeOK, InState, AttemptsInv
  <1> QED
    BY <1>1, <1>2, <1>3, <1>4, <1>5, <1>6, <1>7, <1>8 DEF OutboxNext

\* The inductive invariant holds in every state.
LEMMA IInvHolds == OutboxSpec => []IInv
  BY InitIInv, NextIInv, PTL DEF OutboxSpec

\* The columns of a row agree, and a claim is of a committed row
\* (db.rs, artifact_event_outbox).
THEOREM OutboxTypesHold == OutboxSpec => []OutboxTypeOK
  <1>1. IInv => OutboxTypeOK
    BY DEF IInv
  <1> QED
    BY <1>1, IInvHolds, PTL

\* claim_pending_domain_events takes a row from nobody whose lease still runs.
THEOREM ClaimsRespectLeases == OutboxSpec => LeaseIsRespected
  <1> DEFINE Respected == \A e \in Events : attempts'[e] # attempts[e] => status[e] = "pending" \/ e \in expired
  <1>1. IInv /\ [OutboxNext]_outboxVars => [Respected]_outboxVars
    <2> SUFFICES ASSUME IInv, OutboxNext, NEW e \in Events, attempts'[e] # attempts[e]
                 PROVE  status[e] = "pending" \/ e \in expired
      OBVIOUS
    <2>1. attempts' # attempts
      OBVIOUS
    <2>2. PICK c \in Consumers, limit \in 1..MaxLimit : ClaimPending(c, limit)
      BY <2>1 DEF OutboxNext, Insert, BecomeDue, Expire, Perform, Ack, Fail, Crash
    <2>3. e \in FirstOf(Claimable, limit)
      BY <2>2 DEF ClaimPending, IInv, OutboxTypeOK
    <2> QED
      BY <2>3, TakenIsClaimable DEF IInv
  <1> QED
    BY <1>1, IInvHolds, PTL DEF OutboxSpec, LeaseIsRespected

\* No late worker, and no claim, moves a row out of delivered.
THEOREM DeliveredStays == OutboxSpec => DeliveredIsFinal
  <1> DEFINE Final == \A e \in Events : status[e] = "delivered" => status'[e] = "delivered"
  <1>1. IInv /\ [OutboxNext]_outboxVars => [Final]_outboxVars
    <2> SUFFICES ASSUME IInv, OutboxNext, NEW e \in Events, status[e] = "delivered"
                 PROVE  status'[e] = "delivered"
      OBVIOUS
    <2>1. status \in [Events -> {"absent", "pending", "processing", "delivered"}] /\ e \notin expired
      BY DEF IInv, OutboxTypeOK, InState
    <2>2. ASSUME NEW c \in Consumers, NEW limit \in 1..MaxLimit, ClaimPending(c, limit)
          PROVE  status'[e] = "delivered"
      <3>1. e \notin FirstOf(Claimable, limit)
        BY <2>1, TakenIsClaimable DEF IInv
      <3> QED
        BY <2>1, <2>2, <3>1 DEF ClaimPending, Returned
    <2>3. ASSUME NEW d \in Events, Insert(d) \/ BecomeDue(d) \/ Expire(d)
          PROVE  status'[e] = "delivered"
      BY <2>1, <2>3 DEF Insert, BecomeDue, Expire
    <2>4. ASSUME NEW t \in held, Perform(t) \/ Ack(t) \/ Fail(t)
          PROVE  status'[e] = "delivered"
      BY <2>1, <2>4 DEF Perform, Ack, Fail, Owns
    <2>5. ASSUME NEW c \in Consumers, Crash(c) PROVE status'[e] = "delivered"
      BY <2>5 DEF Crash
    <2> QED
      BY <2>2, <2>3, <2>4, <2>5 DEF OutboxNext
  <1> QED
    BY <1>1, IInvHolds, PTL DEF OutboxSpec, DeliveredIsFinal

================================================================================
