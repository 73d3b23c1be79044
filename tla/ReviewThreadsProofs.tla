-------------------------- MODULE ReviewThreadsProofs --------------------------
(***************************************************************************)
(* Theorems about ReviewThreads for every set of handlers and threads and  *)
(* every bound on the revisions.                                           *)
(***************************************************************************)
EXTENDS ReviewThreads, TLAPS

\* What a handler carries at each label: an accept reaches the write only
\* through a committed transaction.
UpdateInv(h) ==
    /\ pc[h] # "idle" => req[h] \in [thread : Threads, state : ReviewState]
    /\ pc[h] # "idle" /\ req[h].thread \in Comments => req[h].state \in {"open", "resolved"}
    /\ pc[h] # "idle" /\ req[h].thread \in Suggestions => req[h].state \in {"accepted", "rejected"}
    /\ pc[h] \in {"load", "submit"} => req[h].thread \in Suggestions
    /\ pc[h] = "write" /\ req[h].state = "accepted" => req[h].thread \in accepts

IInv ==
    /\ ReviewTypeOK
    /\ \A h \in Handlers : UpdateInv(h)
    /\ \A s \in Suggestions : applied[s] = IF s \in accepts THEN 1 ELSE 0
    /\ \A s \in Suggestions : state[s] = "accepted" => s \in accepts

LEMMA InitIInv == ReviewInit => IInv
  <1> SUFFICES ASSUME ReviewInit PROVE IInv
    OBVIOUS
  <1>1. ReviewTypeOK
    BY ReviewConstants DEF ReviewInit, ReviewTypeOK, Threads
  <1>2. \A h \in Handlers : UpdateInv(h)
    BY DEF ReviewInit, UpdateInv
  <1> QED
    BY <1>1, <1>2 DEF ReviewInit, IInv, Threads

LEMMA NextIInv == IInv /\ [ReviewNext]_reviewVars => IInv'
  <1> SUFFICES ASSUME IInv, [ReviewNext]_reviewVars PROVE IInv'
    OBVIOUS
  <1> USE ReviewConstants DEF IInv, ReviewTypeOK, Threads, Goto, Finish, documentVars, handlerVars
  <1>1. CASE Edit
    <2>1. ReviewTypeOK'
      BY <1>1 DEF Edit
    <2>2. \A h \in Handlers : UpdateInv(h)'
      BY <1>1 DEF Edit, UpdateInv
    <2> QED
      BY <1>1, <2>1, <2>2 DEF Edit
  <1>2. ASSUME NEW t \in Threads, CreateThread(t) PROVE IInv'
    <2>1. ReviewTypeOK'
      BY <1>2 DEF CreateThread, ReviewState
    <2>2. \A h \in Handlers : UpdateInv(h)'
      BY <1>2 DEF CreateThread, UpdateInv
    <2> QED
      BY <1>2, <2>1, <2>2 DEF CreateThread
  <1>3. ASSUME NEW h \in Handlers, ReadRow(h) PROVE IInv'
    <2>1. PICK t \in Threads, new \in ReviewState :
            /\ ValidChange(t, new)
            /\ req' = [req EXCEPT ![h] = [thread |-> t, state |-> new]]
            /\ pc' = [pc EXCEPT ![h] = IF new = "accepted" THEN "load" ELSE "write"]
      BY <1>3 DEF ReadRow
    <2>2. UNCHANGED <<documentVars, state, base>>
      BY <1>3 DEF ReadRow
    <2>3. ReviewTypeOK'
      BY <2>1, <2>2
    <2>4. ASSUME NEW k \in Handlers PROVE UpdateInv(k)'
      <3>1. CASE k = h
        BY <2>1, <2>2, <3>1 DEF UpdateInv, ValidChange
      <3>2. CASE k # h
        BY <2>1, <2>2, <3>2 DEF UpdateInv
      <3> QED
        BY <3>1, <3>2
    <2> QED
      BY <2>2, <2>3, <2>4
  <1>4. ASSUME NEW h \in Handlers, LoadDocument(h) PROVE IInv'
    BY <1>4 DEF LoadDocument, UpdateInv
  <1>5. ASSUME NEW h \in Handlers, Submit(h) PROVE IInv'
    <2> DEFINE s == req[h].thread
    <2>1. s \in Suggestions /\ req[h] \in [thread : Threads, state : ReviewState]
      BY <1>5 DEF Submit, UpdateInv
    <2>2. CASE s \in accepts /\ pc' = [pc EXCEPT ![h] = "write"] /\ UNCHANGED <<documentVars, req, base, state>>
      <3>1. ASSUME NEW k \in Handlers PROVE UpdateInv(k)'
        <4>1. CASE k = h
          BY <2>1, <2>2, <1>5, <4>1 DEF UpdateInv, Submit
        <4>2. CASE k # h
          BY <2>2, <4>2 DEF UpdateInv
        <4> QED
          BY <4>1, <4>2
      <3> QED
        BY <2>2, <3>1
    <2>3. CASE Finish(h) /\ UNCHANGED <<documentVars, state>>
      BY <2>1, <2>3 DEF UpdateInv
    <2>4. CASE /\ s \notin accepts /\ revision < LastRevision
               /\ revision' = revision + 1
               /\ text' = [text EXCEPT ![s] = "replacement"]
               /\ accepts' = accepts \cup {s}
               /\ applied' = [applied EXCEPT ![s] = @ + 1]
               /\ pc' = [pc EXCEPT ![h] = "write"]
               /\ UNCHANGED <<req, base, state>>
      <3> HIDE DEF s
      <3>1. ReviewTypeOK'
        BY <2>1, <2>4 DEF Anchored
      <3>2. ASSUME NEW k \in Handlers PROVE UpdateInv(k)'
        <4>1. CASE k = h
          BY <1>5, <2>1, <2>4, <4>1 DEF UpdateInv, Submit, s
        <4>2. CASE k # h
          BY <2>4, <4>2 DEF UpdateInv
        <4> QED
          BY <4>1, <4>2
      <3>3. \A u \in Suggestions : applied'[u] = IF u \in accepts' THEN 1 ELSE 0
        BY <2>1, <2>4
      <3> QED
        BY <2>4, <3>1, <3>2, <3>3
    <2> QED
      BY <1>5, <2>2, <2>3, <2>4 DEF Submit, Logged
  <1>6. ASSUME NEW h \in Handlers, WriteState(h) PROVE IInv'
    <2>1. req[h] \in [thread : Threads, state : ReviewState]
      BY <1>6 DEF WriteState, UpdateInv
    <2>2. ReviewTypeOK'
      BY <1>6, <2>1 DEF WriteState, UpdateInv, ReviewState
    <2>3. \A k \in Handlers : UpdateInv(k)'
      BY <1>6 DEF WriteState, UpdateInv
    <2>4. \A s \in Suggestions : state'[s] = "accepted" => s \in accepts
      BY <1>6, <2>1 DEF WriteState, UpdateInv
    <2> QED
      BY <1>6, <2>2, <2>3, <2>4 DEF WriteState
  <1>7. ASSUME NEW h \in Handlers, Cancel(h) PROVE IInv'
    BY <1>7 DEF Cancel, UpdateInv
  <1>8. CASE UNCHANGED reviewVars
    BY <1>8 DEF reviewVars, UpdateInv
  <1> QED
    BY <1>1, <1>2, <1>3, <1>4, <1>5, <1>6, <1>7, <1>8 DEF ReviewNext, Update

\* Every variable holds a value of its kind; a comment never becomes accepted or
\* rejected, and a suggestion is never resolved, whoever overwrites whose state.
THEOREM ReviewTypesHold == ReviewSpec => []ReviewTypeOK
  <1>1. IInv => ReviewTypeOK
    BY DEF IInv
  <1> QED
    BY <1>1, InitIInv, NextIInv, PTL DEF ReviewSpec

\* The replacement of a suggestion is committed at most once, for any number of
\* concurrent, repeated and abandoned accepts.
THEOREM SuggestionAppliedOnceHolds == ReviewSpec => []SuggestionAppliedOnce
  <1>1. IInv => SuggestionAppliedOnce
    BY DEF IInv, SuggestionAppliedOnce
  <1> QED
    BY <1>1, InitIInv, NextIInv, PTL DEF ReviewSpec

\* A suggestion is shown as accepted only after its replacement was committed.
THEOREM AcceptedIsAppliedHolds == ReviewSpec => []AcceptedIsApplied
  <1>1. IInv => AcceptedIsApplied
    BY DEF IInv, AcceptedIsApplied
  <1> QED
    BY <1>1, InitIInv, NextIInv, PTL DEF ReviewSpec

================================================================================
