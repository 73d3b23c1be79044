------------------------ MODULE TransactionKernelProofs ------------------------
(***************************************************************************)
(* Theorems about TransactionKernel for every set of handlers and          *)
(* transactions and every MaxVersion, and that it implements               *)
(* ArtifactHistory.  The refinement and SnapshotsIntact have one           *)
(* assumption: reading the row back after a COMMIT does not fail.  When it *)
(* does, the snapshot of a registered version is deleted                   *)
(* (kernel_readback.cfg).                                                  *)
(***************************************************************************)
EXTENDS KernelRefinement, FiniteSetTheorems, SequenceTheorems, TLAPS

\* A handler holds the lock exactly while it is at a label under the lock.
LockInv == \A h \in Handlers : lock = h <=> pc[h] \in Locked

\* What a handler may rely on at each label.
HandlerInv(h) ==
    /\ pc[h] # "idle" => req[h] \in Request
    /\ pc[h] # "idle" => req[h].base <= version
    /\ pc[h] \in {"restoreRead", "restoreLoad"} => req[h].target \in Versions
    /\ pc[h] \in {"execute", "put", "commit"} => req[h].base = version
    /\ pc[h] \in {"execute", "put", "commit"} => cand[h] \in Content
    /\ pc[h] \in {"waiting", "admit"} /\ req[h].tx \in Restores => cand[h] \in Content
    /\ pc[h] = "commit" => version < MaxVersion
    /\ pc[h] = "readBack" => transactions[req[h].tx] = version

\* The registry has exactly the versions up to the current one.
RegistryInv == \A v \in Versions : Registered(v) <=> v <= version

CoreInv ==
    /\ TypeOK
    /\ LockInv
    /\ \A h \in Handlers : HandlerInv(h)
    /\ RegistryInv

LEMMA InitCore == Init => CoreInv
  <1> SUFFICES ASSUME Init PROVE CoreInv
    OBVIOUS
  <1> USE ConstantsAssumption DEF Init, TxIds, Versions, Content, Blob
  <1>1. {} \in Content
    BY DEF Content
  <1>2. TypeOK
    BY <1>1 DEF TypeOK, Labels, Reply, Status, NoReply
  <1>3. LockInv
    BY DEF LockInv, Locked
  <1>4. \A h \in Handlers : HandlerInv(h)
    BY DEF HandlerInv
  <1>5. RegistryInv
    BY <1>1 DEF RegistryInv, Registered
  <1> QED
    BY <1>2, <1>3, <1>4, <1>5 DEF CoreInv

LEMMA ReplyType ==
    /\ NoReply \in Reply
    /\ \A s \in Status, r \in 0..MaxVersion : [status |-> s, revision |-> r] \in Reply
    /\ \A s \in {"none", "ok", "conflict", "invalid", "error"} : s \in Status
    /\ 0 \in 0..MaxVersion
    /\ \A r \in Reply : r.revision \in 0..MaxVersion
  BY ConstantsAssumption DEF NoReply, Reply, Status

LEMMA NextCore == CoreInv /\ [Next]_vars => CoreInv'
  <1> SUFFICES ASSUME CoreInv, [Next]_vars PROVE CoreInv'
    OBVIOUS
  <1> USE ConstantsAssumption
  <1>1. ASSUME NEW h \in Handlers, Arrive(h) PROVE CoreInv'
    <2> USE <1>1 DEF CoreInv, Arrive, Goto, dbVars, handlerVars
    <2>1. TypeOK'
      BY DEF TypeOK, HandlerInv, Versions, Blob, Labels, Locked, Request, Reply, Status, HistoryRow
    <2>2. LockInv'
      BY DEF TypeOK, LockInv, Locked
    <2>3. ASSUME NEW k \in Handlers PROVE HandlerInv(k)'
      BY <2>3 DEF TypeOK, LockInv, Locked, HandlerInv, Versions, Blob, Request
    <2>4. RegistryInv'
      BY DEF TypeOK, RegistryInv, Registered, HandlerInv, Versions
    <2> QED
      BY <2>1, <2>2, <2>3, <2>4
  <1>2. ASSUME NEW h \in Handlers, RestoreRead(h) PROVE CoreInv'
    <2> USE <1>2 DEF CoreInv, RestoreRead, Goto, dbVars, handlerVars
    <2>1. TypeOK'
      <3>1. pc' \in [Handlers -> Labels]
        BY DEF TypeOK, Labels, Locked
      <3>2. reply' \in [Handlers -> Reply]
        <4>1. [status |-> "none", revision |-> version] \in Reply
          BY DEF TypeOK, Reply, Status, Versions
        <4> QED
          BY <4>1 DEF TypeOK
      <3>3. cand' \in [Handlers -> Blob] /\ entry' \in [Handlers -> 0..MaxVersion]
        <4>1. \E x \in Blob, y \in 0..MaxVersion :
                 /\ cand' = cand \/ cand' = [cand EXCEPT ![h] = x]
                 /\ entry' = entry \/ entry' = [entry EXCEPT ![h] = y]
          BY DEF TypeOK, HandlerInv, Request, HistoryRow, Versions
        <4> QED
          BY <4>1 DEF TypeOK
      <3>4. QED
        BY <3>1, <3>2, <3>3 DEF TypeOK, HandlerInv, Versions, Blob, Request, HistoryRow
    <2>2. LockInv'
      BY DEF TypeOK, LockInv, Locked
    <2>3. ASSUME NEW k \in Handlers PROVE HandlerInv(k)'
      BY <2>3 DEF TypeOK, LockInv, Locked, HandlerInv, Versions, Blob, Request
    <2>4. RegistryInv'
      BY DEF TypeOK, RegistryInv, Registered, HandlerInv, Versions
    <2> QED
      BY <2>1, <2>2, <2>3, <2>4
  <1>3. ASSUME NEW h \in Handlers, RestoreLoad(h) PROVE CoreInv'
    <2> USE <1>3 DEF CoreInv, RestoreLoad, Goto, EarlyAnswer, NoReply, dbVars, handlerVars
    <2>1. TypeOK'
      <3>1. pc' \in [Handlers -> Labels]
        BY DEF TypeOK, Labels, Locked
      <3>2. reply' \in [Handlers -> Reply]
        <4>1. \E x \in Reply : reply' = reply \/ reply' = [reply EXCEPT ![h] = x]
          BY ReplyType DEF TypeOK, HandlerInv, Versions
        <4> QED
          BY <4>1 DEF TypeOK
      <3>3. cand' \in [Handlers -> Blob] /\ entry' \in [Handlers -> 0..MaxVersion]
        <4>1. \E x \in Blob, y \in 0..MaxVersion :
                 /\ cand' = cand \/ cand' = [cand EXCEPT ![h] = x]
                 /\ entry' = entry \/ entry' = [entry EXCEPT ![h] = y]
          BY DEF TypeOK, HandlerInv
        <4> QED
          BY <4>1 DEF TypeOK
      <3>4. QED
        BY <3>1, <3>2, <3>3 DEF TypeOK, HandlerInv, Versions, Blob, Request, HistoryRow
    <2>2. LockInv'
      BY DEF TypeOK, LockInv, Locked
    <2>3. ASSUME NEW k \in Handlers PROVE HandlerInv(k)'
      BY <2>3 DEF TypeOK, LockInv, Locked, HandlerInv, Versions, Blob, Request
    <2>4. RegistryInv'
      BY DEF TypeOK, RegistryInv, Registered, HandlerInv, Versions
    <2> QED
      BY <2>1, <2>2, <2>3, <2>4
  <1>4. ASSUME NEW h \in Handlers, Acquire(h) PROVE CoreInv'
    <2> USE <1>4 DEF CoreInv, Acquire, Goto, dbVars, handlerVars
    <2>1. TypeOK'
      BY DEF TypeOK, HandlerInv, Versions, Blob, Labels, Locked, Request, Reply, Status, HistoryRow
    <2>2. LockInv'
      BY DEF TypeOK, LockInv, Locked
    <2>3. ASSUME NEW k \in Handlers PROVE HandlerInv(k)'
      BY <2>3 DEF TypeOK, LockInv, Locked, HandlerInv, Versions, Blob, Request
    <2>4. RegistryInv'
      BY DEF TypeOK, RegistryInv, Registered, HandlerInv, Versions
    <2> QED
      BY <2>1, <2>2, <2>3, <2>4
  <1>5. ASSUME NEW h \in Handlers, Admit(h) PROVE CoreInv'
    <2> USE <1>5 DEF CoreInv, Admit, Goto, Answer, LoadFails, dbVars, handlerVars
    <2>1. TypeOK'
      <3>1. pc' \in [Handlers -> Labels]
        BY DEF TypeOK, Labels, Locked
      <3>2. reply' \in [Handlers -> Reply]
        <4>1. \E x \in Reply : reply' = reply \/ reply' = [reply EXCEPT ![h] = x]
          BY ReplyType DEF TypeOK, HandlerInv, Request, Versions
        <4> QED
          BY <4>1 DEF TypeOK
      <3>3. cand' \in [Handlers -> Blob] /\ entry' \in [Handlers -> 0..MaxVersion]
        <4>1. \E x \in Blob, y \in 0..MaxVersion :
                 /\ cand' = cand \/ cand' = [cand EXCEPT ![h] = x]
                 /\ entry' = entry \/ entry' = [entry EXCEPT ![h] = y]
          BY DEF TypeOK, HandlerInv, Request, HistoryRow, Versions
        <4> QED
          BY <4>1 DEF TypeOK
      <3>4. QED
        BY <3>1, <3>2, <3>3 DEF TypeOK, HandlerInv, Versions, Blob, Request, HistoryRow
    <2>2. LockInv'
      BY DEF TypeOK, LockInv, Locked
    <2>3. ASSUME NEW k \in Handlers PROVE HandlerInv(k)'
      BY <2>3 DEF TypeOK, LockInv, Locked, HandlerInv, Versions, Blob, Request
    <2>4. RegistryInv'
      BY DEF TypeOK, RegistryInv, Registered, HandlerInv, Versions
    <2> QED
      BY <2>1, <2>2, <2>3, <2>4
  <1>6. ASSUME NEW h \in Handlers, ExecuteEdit(h) PROVE CoreInv'
    <2> USE <1>6 DEF CoreInv, ExecuteEdit, Goto, Answer, dbVars, handlerVars
    <2>0. cand[h] \cup {req[h].tx} \in Content /\ cand[h] \cup {req[h].tx} \in Blob
      BY DEF TypeOK, HandlerInv, Content, Blob
    <2>1. TypeOK'
      <3>1. pc' \in [Handlers -> Labels]
        BY DEF TypeOK, Labels, Locked
      <3>2. reply' \in [Handlers -> Reply]
        <4>1. \E x \in Reply : reply' = reply \/ reply' = [reply EXCEPT ![h] = x]
          BY ReplyType DEF TypeOK, HandlerInv, Versions
        <4> QED
          BY <4>1 DEF TypeOK
      <3>3. cand' \in [Handlers -> Blob] /\ entry' \in [Handlers -> 0..MaxVersion]
        <4>1. \E x \in Blob, y \in 0..MaxVersion :
                 /\ cand' = cand \/ cand' = [cand EXCEPT ![h] = x]
                 /\ entry' = entry \/ entry' = [entry EXCEPT ![h] = y]
          BY <2>0, ReplyType DEF TypeOK
        <4> QED
          BY <4>1 DEF TypeOK
      <3>4. QED
        BY <3>1, <3>2, <3>3 DEF TypeOK, HandlerInv, Versions, Blob, Request, HistoryRow
    <2>2. LockInv'
      BY DEF TypeOK, LockInv, Locked
    <2>3. ASSUME NEW k \in Handlers PROVE HandlerInv(k)'
      BY <2>0, <2>3 DEF TypeOK, LockInv, Locked, HandlerInv, Versions, Blob, Request
    <2>4. RegistryInv'
      BY DEF TypeOK, RegistryInv, Registered, HandlerInv, Versions
    <2> QED
      BY <2>1, <2>2, <2>3, <2>4
  <1>7. ASSUME NEW h \in Handlers, ExecuteUndo(h) PROVE CoreInv'
    <2> USE <1>7 DEF CoreInv, ExecuteUndo, Goto, Answer, NothingToDo, CopySnapshot, Active, dbVars, handlerVars
    <2>0. \A e \in history : e.before \in Versions /\ e.after \in Versions /\ e.after \in 0..MaxVersion
      BY DEF TypeOK, HistoryRow, Versions
    <2>1. TypeOK'
      <3>1. pc' \in [Handlers -> Labels]
        BY DEF TypeOK, Labels, Locked
      <3>2. reply' \in [Handlers -> Reply]
        <4>1. \E x \in Reply : reply' = reply \/ reply' = [reply EXCEPT ![h] = x]
          BY ReplyType DEF TypeOK, HandlerInv, Versions
        <4> QED
          BY <4>1 DEF TypeOK
      <3>3. cand' \in [Handlers -> Blob] /\ entry' \in [Handlers -> 0..MaxVersion]
        <4>1. \E x \in Blob, y \in 0..MaxVersion :
                 /\ cand' = cand \/ cand' = [cand EXCEPT ![h] = x]
                 /\ entry' = entry \/ entry' = [entry EXCEPT ![h] = y]
          BY <2>0 DEF TypeOK
        <4> QED
          BY <4>1 DEF TypeOK
      <3>4. QED
        BY <3>1, <3>2, <3>3 DEF TypeOK, HandlerInv, Versions, Blob, Request, HistoryRow
    <2>2. LockInv'
      BY DEF TypeOK, LockInv, Locked
    <2>3. ASSUME NEW k \in Handlers PROVE HandlerInv(k)'
      BY <2>0, <2>3 DEF TypeOK, LockInv, Locked, HandlerInv, Versions, Blob, Request
    <2>4. RegistryInv'
      BY DEF TypeOK, RegistryInv, Registered, HandlerInv, Versions
    <2> QED
      BY <2>1, <2>2, <2>3, <2>4
  <1>8. ASSUME NEW h \in Handlers, ExecuteRedo(h) PROVE CoreInv'
    <2> USE <1>8 DEF CoreInv, ExecuteRedo, Goto, Answer, NothingToDo, CopySnapshot, Undone, dbVars, handlerVars
    <2>0. \A e \in history : e.before \in Versions /\ e.after \in Versions /\ e.after \in 0..MaxVersion
      BY DEF TypeOK, HistoryRow, Versions
    <2>1. TypeOK'
      <3>1. pc' \in [Handlers -> Labels]
        BY DEF TypeOK, Labels, Locked
      <3>2. reply' \in [Handlers -> Reply]
        <4>1. \E x \in Reply : reply' = reply \/ reply' = [reply EXCEPT ![h] = x]
          BY ReplyType DEF TypeOK, HandlerInv, Versions
        <4> QED
          BY <4>1 DEF TypeOK
      <3>3. cand' \in [Handlers -> Blob] /\ entry' \in [Handlers -> 0..MaxVersion]
        <4>1. \E x \in Blob, y \in 0..MaxVersion :
                 /\ cand' = cand \/ cand' = [cand EXCEPT ![h] = x]
                 /\ entry' = entry \/ entry' = [entry EXCEPT ![h] = y]
          BY <2>0 DEF TypeOK
        <4> QED
          BY <4>1 DEF TypeOK
      <3>4. QED
        BY <3>1, <3>2, <3>3 DEF TypeOK, HandlerInv, Versions, Blob, Request, HistoryRow
    <2>2. LockInv'
      BY DEF TypeOK, LockInv, Locked
    <2>3. ASSUME NEW k \in Handlers PROVE HandlerInv(k)'
      BY <2>0, <2>3 DEF TypeOK, LockInv, Locked, HandlerInv, Versions, Blob, Request
    <2>4. RegistryInv'
      BY DEF TypeOK, RegistryInv, Registered, HandlerInv, Versions
    <2> QED
      BY <2>1, <2>2, <2>3, <2>4
  <1>9. ASSUME NEW h \in Handlers, PutSnapshot(h) PROVE CoreInv'
    <2> USE <1>9 DEF CoreInv, PutSnapshot, Goto, Answer, dbVars, handlerVars
    <2>1. TypeOK'
      <3>1. pc' \in [Handlers -> Labels]
        BY DEF TypeOK, Labels, Locked
      <3>2. reply' \in [Handlers -> Reply]
        <4>1. \E x \in Reply : reply' = reply \/ reply' = [reply EXCEPT ![h] = x]
          BY ReplyType DEF TypeOK, HandlerInv, Versions
        <4> QED
          BY <4>1 DEF TypeOK
      <3>3. cand' \in [Handlers -> Blob] /\ entry' \in [Handlers -> 0..MaxVersion]
        <4>1. \E x \in Blob, y \in 0..MaxVersion :
                 /\ cand' = cand \/ cand' = [cand EXCEPT ![h] = x]
                 /\ entry' = entry \/ entry' = [entry EXCEPT ![h] = y]
          BY DEF TypeOK, HandlerInv, Request, HistoryRow, Versions
        <4> QED
          BY <4>1 DEF TypeOK
      <3>4. QED
        BY <3>1, <3>2, <3>3 DEF TypeOK, HandlerInv, Versions, Blob, Request, HistoryRow
    <2>2. LockInv'
      BY DEF TypeOK, LockInv, Locked
    <2>3. ASSUME NEW k \in Handlers PROVE HandlerInv(k)'
      BY <2>3 DEF TypeOK, LockInv, Locked, HandlerInv, Versions, Blob, Request
    <2>4. RegistryInv'
      BY DEF TypeOK, RegistryInv, Registered, HandlerInv, Versions
    <2> QED
      BY <2>1, <2>2, <2>3, <2>4
  <1>10. ASSUME NEW h \in Handlers, Commit(h) PROVE CoreInv'
    <2> USE <1>10 DEF CoreInv, Commit, Goto, RowsMatch, HistoryAfter, Active, Undone, dbVars, handlerVars
    <2>1. TypeOK'
      <3>1. pc' \in [Handlers -> Labels]
        BY DEF TypeOK, Labels, Locked
      <3>2. reply' \in [Handlers -> Reply]
        <4>1. \E x \in Reply : reply' = reply \/ reply' = [reply EXCEPT ![h] = x]
          BY ReplyType DEF TypeOK, HandlerInv, Versions
        <4> QED
          BY <4>1 DEF TypeOK
      <3>3. cand' \in [Handlers -> Blob] /\ entry' \in [Handlers -> 0..MaxVersion]
        <4>1. \E x \in Blob, y \in 0..MaxVersion :
                 /\ cand' = cand \/ cand' = [cand EXCEPT ![h] = x]
                 /\ entry' = entry \/ entry' = [entry EXCEPT ![h] = y]
          BY DEF TypeOK, HandlerInv, Request, HistoryRow, Versions
        <4> QED
          BY <4>1 DEF TypeOK
      <3>4. history' \subseteq HistoryRow
        <4>1. \A e \in history : Moved(e, req[h].tx \in Undos) \in HistoryRow
          BY DEF TypeOK, HistoryRow, Moved
        <4>2. version < MaxVersion => [before |-> version, after |-> version + 1, undone |-> FALSE] \in HistoryRow
          BY DEF TypeOK, HistoryRow, Versions
        <4>3. CASE req[h].tx \in Undos \cup Redos
          BY <4>1, <4>3 DEF TypeOK
        <4>4. CASE req[h].tx \notin Undos \cup Redos
          <5>1. version < MaxVersion
            BY DEF HandlerInv
          <5>2. HistoryAfter(h) \subseteq history \cup {[before |-> version, after |-> version + 1, undone |-> FALSE]}
            BY <4>4
          <5> QED
            BY <4>2, <5>1, <5>2 DEF TypeOK
        <4> QED
          BY <4>3, <4>4
      <3>5. snapshots' \in [Versions -> Blob]
        BY DEF TypeOK, HandlerInv, Versions, Blob
      <3>6. transactions' \in [TxIds -> 0..MaxVersion] /\ version' \in Versions
        <4>1. version + 1 \in Versions /\ version + 1 \in 0..MaxVersion /\ req[h].tx \in TxIds
          BY DEF TypeOK, HandlerInv, Versions, Request
        <4>2. \/ transactions' = [transactions EXCEPT ![req[h].tx] = version + 1] /\ version' = version + 1
              \/ UNCHANGED <<transactions, version>>
          OBVIOUS
        <4> QED
          BY <4>1, <4>2 DEF TypeOK
      <3>7. QED
        BY <3>1, <3>2, <3>3, <3>4, <3>5, <3>6 DEF TypeOK, HandlerInv, Versions, Blob, Request, HistoryRow
    <2>2. LockInv'
      BY DEF TypeOK, LockInv, Locked
    <2>3. ASSUME NEW k \in Handlers PROVE HandlerInv(k)'
      BY <2>3 DEF TypeOK, LockInv, Locked, HandlerInv, Versions, Blob, Request
    <2>4. RegistryInv'
      BY DEF TypeOK, RegistryInv, Registered, HandlerInv, Versions
    <2> QED
      BY <2>1, <2>2, <2>3, <2>4
  <1>11. ASSUME NEW h \in Handlers, ReadBack(h) PROVE CoreInv'
    <2> USE <1>11 DEF CoreInv, ReadBack, Goto, Answer, dbVars, handlerVars
    <2>1. TypeOK'
      <3>1. pc' \in [Handlers -> Labels]
        BY DEF TypeOK, Labels, Locked
      <3>2. reply' \in [Handlers -> Reply]
        <4>1. \E x \in Reply : reply' = reply \/ reply' = [reply EXCEPT ![h] = x]
          BY ReplyType DEF TypeOK, HandlerInv, Versions
        <4> QED
          BY <4>1 DEF TypeOK
      <3>3. cand' \in [Handlers -> Blob] /\ entry' \in [Handlers -> 0..MaxVersion]
        <4>1. \E x \in Blob, y \in 0..MaxVersion :
                 /\ cand' = cand \/ cand' = [cand EXCEPT ![h] = x]
                 /\ entry' = entry \/ entry' = [entry EXCEPT ![h] = y]
          BY DEF TypeOK, HandlerInv, Request, HistoryRow, Versions
        <4> QED
          BY <4>1 DEF TypeOK
      <3>4. QED
        BY <3>1, <3>2, <3>3 DEF TypeOK, HandlerInv, Versions, Blob, Request, HistoryRow
    <2>2. LockInv'
      BY DEF TypeOK, LockInv, Locked
    <2>3. ASSUME NEW k \in Handlers PROVE HandlerInv(k)'
      BY <2>3 DEF TypeOK, LockInv, Locked, HandlerInv, Versions, Blob, Request
    <2>4. RegistryInv'
      BY DEF TypeOK, RegistryInv, Registered, HandlerInv, Versions
    <2> QED
      BY <2>1, <2>2, <2>3, <2>4
  <1>12. ASSUME NEW h \in Handlers, Discard(h) PROVE CoreInv'
    <2> USE <1>12 DEF CoreInv, Discard, Goto, dbVars, handlerVars
    <2>1. TypeOK'
      BY DEF TypeOK, HandlerInv, Versions, Blob, Labels, Locked, Request, Reply, Status, HistoryRow
    <2>2. LockInv'
      BY DEF TypeOK, LockInv, Locked
    <2>3. ASSUME NEW k \in Handlers PROVE HandlerInv(k)'
      BY <2>3 DEF TypeOK, LockInv, Locked, HandlerInv, Versions, Blob, Request
    <2>4. RegistryInv'
      BY DEF TypeOK, RegistryInv, Registered, HandlerInv, Versions
    <2> QED
      BY <2>1, <2>2, <2>3, <2>4
  <1>13. ASSUME NEW h \in Handlers, Respond(h) PROVE CoreInv'
    <2> USE <1>13 DEF CoreInv, Respond, Goto, Release, Forget, NoReply, dbVars, handlerVars
    <2>1. TypeOK'
      BY DEF TypeOK, HandlerInv, Versions, Blob, Labels, Locked, Request, Reply, Status, HistoryRow
    <2>2. LockInv'
      BY DEF TypeOK, LockInv, Locked
    <2>3. ASSUME NEW k \in Handlers PROVE HandlerInv(k)'
      BY <2>3 DEF TypeOK, LockInv, Locked, HandlerInv, Versions, Blob, Request
    <2>4. RegistryInv'
      BY DEF TypeOK, RegistryInv, Registered, HandlerInv, Versions
    <2> QED
      BY <2>1, <2>2, <2>3, <2>4
  <1>14. ASSUME NEW h \in Handlers, Cancel(h) PROVE CoreInv'
    <2> USE <1>14 DEF CoreInv, Cancel, Goto, Release, Forget, NoReply, dbVars, handlerVars
    <2>1. TypeOK'
      <3>1. pc' \in [Handlers -> Labels]
        BY DEF TypeOK, Labels, Locked
      <3>2. reply' \in [Handlers -> Reply]
        <4>1. \E x \in Reply : reply' = reply \/ reply' = [reply EXCEPT ![h] = x]
          BY ReplyType DEF TypeOK, HandlerInv, Versions
        <4> QED
          BY <4>1 DEF TypeOK
      <3>3. cand' \in [Handlers -> Blob] /\ entry' \in [Handlers -> 0..MaxVersion]
        <4>1. \E x \in Blob, y \in 0..MaxVersion :
                 /\ cand' = cand \/ cand' = [cand EXCEPT ![h] = x]
                 /\ entry' = entry \/ entry' = [entry EXCEPT ![h] = y]
          BY ReplyType DEF Blob
        <4> QED
          BY <4>1 DEF TypeOK
      <3>4. QED
        BY <3>1, <3>2, <3>3 DEF TypeOK, HandlerInv, Versions, Blob, Request, HistoryRow
    <2>2. LockInv'
      BY DEF TypeOK, LockInv, Locked
    <2>3. ASSUME NEW k \in Handlers PROVE HandlerInv(k)'
      BY <2>3 DEF TypeOK, LockInv, Locked, HandlerInv, Versions, Blob, Request
    <2>4. RegistryInv'
      BY DEF TypeOK, RegistryInv, Registered, HandlerInv, Versions
    <2> QED
      BY <2>1, <2>2, <2>3, <2>4
  <1>15. CASE Restart
    <2> USE <1>15 DEF CoreInv, Restart, NoReply, dbVars
    <2>1. TypeOK'
      BY ReplyType DEF TypeOK, Labels, Blob, NoReply
    <2>2. LockInv'
      BY DEF LockInv, Locked
    <2>3. (\A h \in Handlers : HandlerInv(h))'
      BY DEF HandlerInv
    <2>4. RegistryInv'
      BY DEF RegistryInv, Registered
    <2> QED
      BY <2>1, <2>2, <2>3, <2>4
  <1>16. CASE RestartWithBlobGc
    <2> USE <1>16 DEF CoreInv, RestartWithBlobGc, dbVars, handlerVars
    <2>1. TypeOK'
      BY DEF TypeOK, Blob
    <2>2. LockInv' /\ RegistryInv'
      BY DEF LockInv, RegistryInv, Registered
    <2>3. (\A h \in Handlers : HandlerInv(h))'
      BY DEF HandlerInv
    <2> QED
      BY <2>1, <2>2, <2>3
  <1>17. CASE UNCHANGED vars
    BY <1>17 DEF CoreInv, vars, dbVars, handlerVars, TypeOK, LockInv, HandlerInv, RegistryInv, Registered
  <1> QED
    BY <1>1, <1>2, <1>3, <1>4, <1>5, <1>6, <1>7, <1>8, <1>9, <1>10, <1>11, <1>12, <1>13, <1>14,
       <1>15, <1>16, <1>17 DEF Next, Step

\* Every variable keeps its type in every reachable state, whatever fails.
THEOREM TypeCorrect == Spec => []TypeOK
  <1>1. Spec => []CoreInv
    BY InitCore, NextCore, PTL DEF Spec
  <1>2. CoreInv => TypeOK
    BY DEF CoreInv
  <1> QED
    BY <1>1, <1>2, PTL
LEMMA CoreInvariant == Spec => []CoreInv
  BY InitCore, NextCore, PTL DEF Spec

--------------------------------------------------------------------------------
(* Only a commit writes rows.                                                   *)

LEMMA RowsChangeByCommit ==
  [Next]_vars => UNCHANGED dbVars \/ \E h \in Handlers : Commit(h)
  BY DEF Next, Step, vars, dbVars, Arrive, RestoreRead, RestoreLoad, Acquire, Admit, ExecuteEdit,
         ExecuteUndo, ExecuteRedo, PutSnapshot, ReadBack, Discard, Respond, Cancel, Restart,
         RestartWithBlobGc

\* What one commit does to version and transaction log.
LEMMA CommitRows ==
  ASSUME CoreInv, NEW h \in Handlers, Commit(h)
  PROVE  \/ UNCHANGED dbVars
         \/ /\ version' = version + 1 /\ version' \in Versions
            /\ req[h].tx \in TxIds /\ transactions[req[h].tx] = 0
            /\ transactions' = [transactions EXCEPT ![req[h].tx] = version + 1]
            /\ snapshots' = [snapshots EXCEPT ![version + 1] = cand[h]]
            /\ history' = HistoryAfter(h)
            /\ RowsMatch(h)
  BY ConstantsAssumption DEF CoreInv, TypeOK, HandlerInv, Commit, RowsMatch, Committed, Request, Versions, dbVars

LogInv ==
    /\ OneTransactionPerVersion
    /\ \A t \in TxIds : transactions[t] # 1

LEMMA NextLog == CoreInv /\ LogInv /\ [Next]_vars => LogInv'
  <1> SUFFICES ASSUME CoreInv, LogInv, [Next]_vars PROVE LogInv'
    OBVIOUS
  <1>1. CASE UNCHANGED dbVars
    BY <1>1 DEF LogInv, OneTransactionPerVersion, Committed, dbVars
  <1>2. ASSUME NEW h \in Handlers, Commit(h), ~ UNCHANGED dbVars
        PROVE  LogInv'
    <2> DEFINE t0 == req[h].tx
    <2>1. /\ version' = version + 1 /\ t0 \in TxIds /\ transactions[t0] = 0
          /\ transactions' = [transactions EXCEPT ![t0] = version + 1]
      BY <1>2, CommitRows
    <2>2. version \in Nat \ {0} /\ transactions \in [TxIds -> Nat]
      BY ConstantsAssumption DEF CoreInv, TypeOK, Versions
    <2> HIDE DEF t0
    <2>3. \A v \in 2..version' : \E t \in TxIds : transactions'[t] = v
      <3> SUFFICES ASSUME NEW v \in 2..version' PROVE \E t \in TxIds : transactions'[t] = v
        OBVIOUS
      <3>1. CASE v = version + 1
        BY <2>1, <2>2, <3>1
      <3>2. CASE v # version + 1
        <4>1. v \in 2..version
          BY <2>1, <2>2, <3>2
        <4>2. PICK t \in TxIds : transactions[t] = v
          BY <4>1 DEF LogInv, OneTransactionPerVersion
        <4>3. t # t0
          BY <2>1, <4>1, <4>2
        <4> QED
          BY <2>1, <2>2, <4>2, <4>3
      <3> QED
        BY <3>1, <3>2
    <2>4. \A t \in TxIds : transactions'[t] <= version' /\ transactions'[t] # 1
      BY <2>1, <2>2 DEF LogInv, OneTransactionPerVersion
    <2>5. \A t, u \in TxIds : transactions'[t] # 0 /\ transactions'[t] = transactions'[u] => t = u
      BY <2>1, <2>2 DEF LogInv, OneTransactionPerVersion, Committed
    <2> QED
      BY <2>3, <2>4, <2>5 DEF LogInv, OneTransactionPerVersion, Committed
  <1> QED
    BY <1>1, <1>2, RowsChangeByCommit

\* The version log and the transaction log agree, whatever is cancelled, retried,
\* duplicated, crashed or discarded: a version has one transaction and an id one
\* version.
THEOREM OneTransactionPerVersionHolds == Spec => []OneTransactionPerVersion
  <1>1. Init => LogInv
    BY ConstantsAssumption DEF Init, LogInv, OneTransactionPerVersion, Committed
  <1>2. LogInv => OneTransactionPerVersion
    BY DEF LogInv
  <1> QED
    BY <1>1, <1>2, NextLog, CoreInvariant, PTL DEF Spec

--------------------------------------------------------------------------------
(* Snapshots.  The one assumption is that reading the row back after a COMMIT    *)
(* does not fail: kernel_readback.cfg shows what happens when it does.           *)

BlobInv ==
    /\ \A v \in Versions : v <= version => blobs[v] = snapshots[v]
    /\ \A h \in Handlers :
         /\ pc[h] = "commit" => blobs[version + 1] = cand[h]
         /\ pc[h] = "discard" => req[h].base = version

LEMMA NextBlob ==
  ASSUME ~ReadBackMayFail
  PROVE  CoreInv /\ BlobInv /\ [Next]_vars => BlobInv'
  <1> SUFFICES ASSUME CoreInv, BlobInv, [Next]_vars PROVE BlobInv'
    OBVIOUS
  <1> USE ConstantsAssumption DEF CoreInv, TypeOK, Goto, dbVars, handlerVars
  <1>1. ASSUME NEW h \in Handlers, Arrive(h) PROVE BlobInv'
    BY <1>1 DEF Arrive, BlobInv, LockInv, Locked, HandlerInv, Versions
  <1>2. ASSUME NEW h \in Handlers, RestoreRead(h) PROVE BlobInv'
    BY <1>2 DEF RestoreRead, BlobInv, LockInv, Locked, HandlerInv, Versions
  <1>3. ASSUME NEW h \in Handlers, RestoreLoad(h) PROVE BlobInv'
    BY <1>3 DEF RestoreLoad, EarlyAnswer, BlobInv, LockInv, Locked, HandlerInv, Versions
  <1>4. ASSUME NEW h \in Handlers, Acquire(h) PROVE BlobInv'
    BY <1>4 DEF Acquire, BlobInv, LockInv, Locked, HandlerInv, Versions
  <1>5. ASSUME NEW h \in Handlers, Admit(h) PROVE BlobInv'
    BY <1>5 DEF Admit, Answer, BlobInv, LockInv, Locked, HandlerInv, Versions
  <1>6. ASSUME NEW h \in Handlers, ExecuteEdit(h) PROVE BlobInv'
    BY <1>6 DEF ExecuteEdit, Answer, BlobInv, LockInv, Locked, HandlerInv, Versions
  <1>7. ASSUME NEW h \in Handlers, ExecuteUndo(h) PROVE BlobInv'
    BY <1>7 DEF ExecuteUndo, Answer, NothingToDo, CopySnapshot, BlobInv, LockInv, Locked, HandlerInv, Versions
  <1>8. ASSUME NEW h \in Handlers, ExecuteRedo(h) PROVE BlobInv'
    BY <1>8 DEF ExecuteRedo, Answer, NothingToDo, CopySnapshot, BlobInv, LockInv, Locked, HandlerInv, Versions
  <1>9. ASSUME NEW h \in Handlers, PutSnapshot(h) PROVE BlobInv'
    <2>1. \A k \in Handlers : k # h => pc[k] \notin Locked /\ pc'[k] = pc[k]
      BY <1>9 DEF PutSnapshot, Answer, LockInv, Locked
    <2>2. req' = req /\ cand' = cand /\ version' = version /\ snapshots' = snapshots
      BY <1>9 DEF PutSnapshot
    <2>3. CASE UNCHANGED blobs /\ pc'[h] = "reply"
      BY <2>1, <2>2, <2>3 DEF BlobInv, Locked
    <2>4. CASE /\ version < MaxVersion
               /\ blobs' = [blobs EXCEPT ![version + 1] = cand[h]]
               /\ pc'[h] \in {"commit", "reply"}
      <3>1. version + 1 \in Versions /\ blobs'[version + 1] = cand[h]
        BY <2>4 DEF Versions
      <3>2. \A v \in Versions : v <= version => blobs'[v] = blobs[v]
        BY <2>4 DEF Versions
      <3>3. \A v \in Versions : v <= version' => blobs'[v] = snapshots'[v]
        BY <2>2, <3>2 DEF BlobInv
      <3>4. \A k \in Handlers : pc'[k] \in {"commit", "discard"} => k = h /\ pc'[k] = "commit"
        BY <2>1, <2>4 DEF Locked
      <3> QED
        BY <2>2, <3>1, <3>3, <3>4 DEF BlobInv
    <2> QED
      BY <1>9, <2>3, <2>4 DEF PutSnapshot, Answer
  <1>10. ASSUME NEW h \in Handlers, Commit(h) PROVE BlobInv'
    <2>1. \A k \in Handlers : k # h => pc'[k] = pc[k] /\ pc[k] \notin Locked
      BY <1>10 DEF Commit, LockInv, Locked
    <2>2. blobs' = blobs /\ req' = req /\ req[h].base = version /\ pc'[h] \in {"readBack", "discard"}
      BY <1>10 DEF Commit, HandlerInv
    <2>3. CASE UNCHANGED dbVars /\ pc'[h] = "discard"
      BY <2>1, <2>2, <2>3 DEF BlobInv, Locked
    <2>4. CASE /\ version' = version + 1
               /\ version < MaxVersion
               /\ snapshots' = [snapshots EXCEPT ![version + 1] = cand[h]]
               /\ pc'[h] = "readBack"
      <3>1. version + 1 \in Versions /\ blobs[version + 1] = cand[h]
        BY <1>10, <2>4 DEF BlobInv, Versions, Commit
      <3>2. ASSUME NEW v \in Versions, v <= version' PROVE blobs'[v] = snapshots'[v]
        <4>1. CASE v = version + 1
          <5>1. snapshots'[v] = cand[h]
            BY <2>4, <3>1, <4>1
          <5> QED
            BY <2>2, <3>1, <4>1, <5>1
        <4>2. CASE v # version + 1
          <5>1. v <= version
            BY <2>4, <3>2, <4>2 DEF Versions
          <5>2. snapshots'[v] = snapshots[v]
            BY <2>4, <4>2
          <5> QED
            BY <2>2, <5>1, <5>2 DEF BlobInv
        <4> QED
          BY <4>1, <4>2
      <3> QED
        BY <2>1, <2>4, <3>2 DEF BlobInv, Locked
    <2> QED
      BY <1>10, <2>3, <2>4 DEF Commit, HandlerInv
  <1>11. ASSUME NEW h \in Handlers, ReadBack(h) PROVE BlobInv'
    BY <1>11 DEF ReadBack, Answer, BlobInv, LockInv, Locked, HandlerInv, Versions
  <1>12. ASSUME NEW h \in Handlers, Discard(h) PROVE BlobInv'
    BY <1>12 DEF Discard, BlobInv, LockInv, Locked, HandlerInv, Versions
  <1>13. ASSUME NEW h \in Handlers, Respond(h) PROVE BlobInv'
    BY <1>13 DEF Respond, Forget, BlobInv, LockInv, Locked, HandlerInv, Versions
  <1>14. ASSUME NEW h \in Handlers, Cancel(h) PROVE BlobInv'
    BY <1>14 DEF Cancel, Forget, BlobInv, LockInv, Locked, HandlerInv, Versions
  <1>15. CASE Restart
    BY <1>15 DEF Restart, BlobInv
  <1>16. CASE RestartWithBlobGc
    BY <1>16 DEF RestartWithBlobGc, BlobInv, RegistryInv
  <1>17. CASE UNCHANGED vars
    BY <1>17 DEF vars, BlobInv
  <1> QED
    BY <1>1, <1>2, <1>3, <1>4, <1>5, <1>6, <1>7, <1>8, <1>9, <1>10, <1>11, <1>12, <1>13, <1>14,
       <1>15, <1>16, <1>17 DEF Next, Step

\* Every registered version stays readable and unchanged.
THEOREM SnapshotsIntactHolds ==
  ASSUME ~ReadBackMayFail
  PROVE  Spec => []SnapshotsIntact
  <1>1. Init => BlobInv
    BY DEF Init, BlobInv
  <1>2. CoreInv /\ BlobInv => SnapshotsIntact
    BY DEF CoreInv, BlobInv, SnapshotsIntact, RegistryInv
  <1> QED
    BY <1>1, <1>2, NextBlob, CoreInvariant, PTL DEF Spec

--------------------------------------------------------------------------------
(* Answers.  What a handler knows of the rows when it answers, and why a guard   *)
(* of the SQLite transaction never fails for a handler that holds the lock.      *)

ReplyInv(h) ==
    /\ pc[h] = "restoreLoad" => req[h].base <= reply[h].revision /\ reply[h].revision <= version
    /\ pc[h] \in {"execute", "put", "commit"} => ~Committed(req[h].tx)
    /\ pc[h] \in {"put", "commit"} /\ req[h].tx \in Undos => \E e \in Active : e.after = entry[h]
    /\ pc[h] \in {"put", "commit"} /\ req[h].tx \in Redos => \E e \in Undone : e.after = entry[h]
    /\ pc[h] = "reply" /\ reply[h].status = "ok" =>
         reply[h].revision = transactions[req[h].tx] /\ Committed(req[h].tx)
    /\ pc[h] = "earlyReply" /\ reply[h].status = "ok" =>
         Committed(req[h].tx) \/ req[h].target = reply[h].revision
    /\ pc[h] \in {"reply", "earlyReply", "discard"} /\ reply[h].status = "conflict" =>
         req[h].base < version /\ transactions[req[h].tx] # req[h].base + 1
    /\ pc[h] = "discard" => reply[h].status # "ok"

AnswerInv ==
    /\ \A h \in Handlers : ReplyInv(h)
    /\ AcknowledgedIsCommitted

\* A handler that holds the lock and reached its commit passes every guard.
LEMMA GuardsHold ==
  ASSUME CoreInv, AnswerInv, NEW h \in Handlers, pc[h] = "commit"
  PROVE  RowsMatch(h) /\ ~NoRowMeets(h)
  BY DEF CoreInv, HandlerInv, AnswerInv, ReplyInv, RowsMatch, RowChosen, NoRowMeets

\* A step of one handler leaves what the others know alone.
LEMMA OthersKeepReplyInv ==
  ASSUME CoreInv, AnswerInv, NEW h \in Handlers, NEW k \in Handlers, k # h,
         UNCHANGED dbVars \/ Commit(h),
         pc'[k] = pc[k], req'[k] = req[k], reply'[k] = reply[k], entry'[k] = entry[k]
  PROVE  ReplyInv(k)'
  <1>1. ReplyInv(k)
    BY DEF AnswerInv
  <1>2. CASE UNCHANGED dbVars
    BY <1>1, <1>2 DEF ReplyInv, Committed, Active, Undone, dbVars
  <1>3. CASE Commit(h) /\ ~ UNCHANGED dbVars
    <2>1. pc[k] \notin Locked
      BY <1>3 DEF CoreInv, LockInv, Commit, Locked
    <2>2. CASE pc[k] = "restoreLoad"
      <3>1. version' = version + 1 /\ version \in Nat /\ reply[k].revision \in Nat
        BY <1>3, CommitRows, ReplyType, ConstantsAssumption DEF CoreInv, TypeOK, Versions
      <3> QED
        BY <1>1, <2>2, <3>1 DEF ReplyInv
    <2>3. CASE pc[k] = "earlyReply"
      <3>1. /\ version' = version + 1 /\ version \in Nat
            /\ req[h].tx \in TxIds
            /\ transactions \in [TxIds -> Nat]
            /\ transactions' = [transactions EXCEPT ![req[h].tx] = version + 1]
        BY <1>3, CommitRows, ConstantsAssumption DEF CoreInv, TypeOK, Versions
      <3>2. req[k].tx \in TxIds /\ req[k].base \in Nat
        BY <2>3, ConstantsAssumption DEF CoreInv, HandlerInv, Request, Versions
      <3>3. Committed(req[k].tx) => Committed(req[k].tx)'
        BY <3>1, <3>2 DEF Committed
      <3>4. req[k].base < version /\ transactions[req[k].tx] # req[k].base + 1 =>
              req[k].base < version' /\ transactions'[req[k].tx] # req[k].base + 1
        BY <3>1, <3>2
      <3> QED
        BY <1>1, <2>3, <3>3, <3>4 DEF ReplyInv, Committed
    <2> QED
      BY <2>1, <2>2, <2>3 DEF ReplyInv, Locked
  <1> QED
    BY <1>2, <1>3

\* An answer is given from the log, from the row read back, or not at all.
LEMMA NextAnswer == CoreInv /\ AnswerInv /\ [Next]_vars => AnswerInv'
  <1> SUFFICES ASSUME CoreInv, AnswerInv, [Next]_vars PROVE AnswerInv'
    OBVIOUS
  <1> USE ConstantsAssumption
  <1>1. ASSUME NEW h \in Handlers, Step(h)
        PROVE  \A k \in Handlers : k # h =>
                 /\ pc'[k] = pc[k] /\ req'[k] = req[k] /\ reply'[k] = reply[k] /\ entry'[k] = entry[k]
                 /\ UNCHANGED dbVars \/ Commit(h)
    <2> TAKE k \in Handlers
    <2> HAVE k # h
    <2> USE DEF CoreInv, TypeOK, Goto, Answer, handlerVars, dbVars
    <2>1. CASE Arrive(h)
      BY <2>1 DEF Arrive
    <2>2. CASE RestoreRead(h) \/ RestoreLoad(h)
      BY <2>2 DEF RestoreRead, RestoreLoad, EarlyAnswer
    <2>3. CASE Acquire(h) \/ Admit(h)
      BY <2>3 DEF Acquire, Admit
    <2>4. CASE ExecuteEdit(h)
      BY <2>4 DEF ExecuteEdit
    <2>5. CASE ExecuteUndo(h)
      BY <2>5 DEF ExecuteUndo, NothingToDo, CopySnapshot
    <2>6. CASE ExecuteRedo(h)
      BY <2>6 DEF ExecuteRedo, NothingToDo, CopySnapshot
    <2>7. CASE PutSnapshot(h)
      BY <2>7 DEF PutSnapshot
    <2>8. CASE Commit(h)
      BY <2>8 DEF Commit
    <2>9. CASE ReadBack(h) \/ Discard(h)
      BY <2>9 DEF ReadBack, Discard
    <2>10. CASE Respond(h) \/ Cancel(h)
      BY <2>10 DEF Respond, Cancel, Forget
    <2> QED
      BY <1>1, <2>1, <2>2, <2>3, <2>4, <2>5, <2>6, <2>7, <2>8, <2>9, <2>10 DEF Step
  <1>2. ASSUME NEW h \in Handlers, Step(h) PROVE ReplyInv(h)'
    <2> DEFINE t0 == req[h].tx
    <2>0. ReplyInv(h) /\ HandlerInv(h) /\ TypeOK /\ version \in Nat
      BY DEF AnswerInv, CoreInv, TypeOK, Versions
    <2> USE <2>0 DEF TypeOK, Goto, Answer, handlerVars, dbVars
    <2>1. CASE Arrive(h)
      BY <2>1 DEF Arrive, ReplyInv
    <2>2. CASE RestoreRead(h)
      BY <2>2 DEF RestoreRead, ReplyInv, HandlerInv, Versions
    <2>3. CASE RestoreLoad(h)
      <3>1. req[h].base \in Nat /\ reply[h].revision \in Nat /\ req[h].tx \in TxIds
        BY <2>3, ReplyType DEF RestoreLoad, HandlerInv, Request, Versions
      <3>2. CASE pc'[h] = "waiting"
        BY <3>2 DEF ReplyInv
      <3>3. CASE /\ Committed(t0) \/ req[h].target = reply[h].revision
                 /\ EarlyAnswer(h, "ok", reply[h].revision)
        BY <2>3, <3>3 DEF RestoreLoad, EarlyAnswer, ReplyInv, Committed
      <3>4. CASE /\ ~Committed(t0) /\ reply[h].revision # req[h].base
                 /\ EarlyAnswer(h, "conflict", 0)
        BY <2>3, <3>1, <3>4 DEF RestoreLoad, EarlyAnswer, ReplyInv, Committed
      <3>5. CASE EarlyAnswer(h, "error", 0)
        BY <2>3, <3>5 DEF RestoreLoad, EarlyAnswer, ReplyInv
      <3> QED
        BY <2>3, <3>2, <3>3, <3>4, <3>5 DEF RestoreLoad
    <2>4. CASE Acquire(h)
      BY <2>4 DEF Acquire, ReplyInv
    <2>5. CASE Admit(h)
      <3>1. req[h].base \in Nat /\ req[h].tx \in TxIds /\ req[h].base <= version
        BY <2>5 DEF Admit, HandlerInv, Request, Versions
      <3>2. CASE ~Committed(t0) /\ req[h].base # version /\ Answer(h, "conflict", 0)
        BY <2>5, <3>1, <3>2 DEF Admit, ReplyInv, Committed
      <3>3. CASE Answer(h, "error", 0)
        BY <2>5, <3>3 DEF Admit, ReplyInv
      <3>4. CASE Committed(t0) /\ Answer(h, "ok", transactions[t0])
        BY <2>5, <3>4 DEF Admit, ReplyInv, Committed
      <3>5. CASE ~Committed(t0) /\ pc'[h] = "execute"
        BY <2>5, <3>5 DEF Admit, ReplyInv, Committed
      <3>6. CASE ~Committed(t0) /\ pc'[h] = "put" /\ t0 \in Restores
        BY <2>5, <3>6 DEF Admit, ReplyInv, Committed
      <3> QED
        BY <2>5, <3>2, <3>3, <3>4, <3>5, <3>6 DEF Admit
    <2>6. CASE ExecuteEdit(h)
      BY <2>6 DEF ExecuteEdit, ReplyInv, Committed
    <2>7. CASE ExecuteUndo(h)
      BY <2>7 DEF ExecuteUndo, NothingToDo, CopySnapshot, ReplyInv, Committed, Active, Undone
    <2>8. CASE ExecuteRedo(h)
      BY <2>8 DEF ExecuteRedo, NothingToDo, CopySnapshot, ReplyInv, Committed, Active, Undone
    <2>9. CASE PutSnapshot(h)
      BY <2>9 DEF PutSnapshot, ReplyInv, HandlerInv, Committed, Active, Undone
    <2>10. CASE Commit(h)
      <3>1. ~NoRowMeets(h)
        BY <2>10, GuardsHold DEF Commit
      <3> QED
        BY <2>10, <3>1 DEF Commit, ReplyInv
    <2>11. CASE ReadBack(h)
      BY <2>11 DEF ReadBack, ReplyInv, HandlerInv, Committed, Versions
    <2>12. CASE Discard(h)
      <3>1. reply' = reply /\ req' = req /\ UNCHANGED dbVars /\ pc'[h] = "reply"
        BY <2>12 DEF Discard
      <3>2. reply[h].status # "ok"
        BY <2>12 DEF Discard, ReplyInv
      <3> QED
        BY <2>12, <3>1, <3>2 DEF Discard, ReplyInv, Committed
    <2>13. CASE Respond(h) \/ Cancel(h)
      BY <2>13 DEF Respond, Cancel, Forget, ReplyInv
    <2> QED
      BY <1>2, <2>1, <2>2, <2>3, <2>4, <2>5, <2>6, <2>7, <2>8, <2>9, <2>10, <2>11, <2>12, <2>13 DEF Step
  <1>3. ASSUME NEW h \in Handlers, Step(h) PROVE AnswerInv'
    <2>1. ASSUME NEW k \in Handlers PROVE ReplyInv(k)'
      <3>1. CASE k = h
        BY <1>2, <1>3, <3>1
      <3>2. CASE k # h
        BY <1>1, <1>3, <3>2, OthersKeepReplyInv
      <3> QED
        BY <3>1, <3>2
    <2>2. \A t \in TxIds : Committed(t) => Committed(t)'
      <3>1. CASE UNCHANGED dbVars
        BY <3>1 DEF dbVars, Committed
      <3>2. ASSUME NEW k \in Handlers, Commit(k), ~ UNCHANGED dbVars
            PROVE  \A t \in TxIds : Committed(t) => Committed(t)'
        <4>1. /\ version \in Nat /\ req[k].tx \in TxIds
              /\ transactions \in [TxIds -> Nat]
              /\ transactions' = [transactions EXCEPT ![req[k].tx] = version + 1]
          BY <3>2, CommitRows DEF CoreInv, TypeOK, Versions
        <4> QED
          BY <4>1 DEF Committed
      <3> QED
        BY <3>1, <3>2, RowsChangeByCommit
    <2>3. acked \subseteq TxIds
      BY DEF CoreInv, TypeOK
    <2>4. CASE acked' = acked
      BY <2>1, <2>2, <2>3, <2>4 DEF AnswerInv, AcknowledgedIsCommitted
    <2>5. CASE Respond(h) /\ acked' = acked \cup {req[h].tx} /\ reply[h].status = "ok"
               /\ req[h].target # reply[h].revision
      <3>1. req[h].tx \in TxIds /\ ReplyInv(h) /\ pc[h] \in {"reply", "earlyReply"}
        BY <2>5 DEF Respond, CoreInv, HandlerInv, Request, AnswerInv
      <3>2. Committed(req[h].tx)
        BY <2>5, <3>1 DEF ReplyInv
      <3>3. \A t \in acked : Committed(t)'
        BY <2>2, <2>3 DEF AnswerInv, AcknowledgedIsCommitted
      <3>4. \A t \in acked' : Committed(t)'
        BY <2>2, <2>5, <3>1, <3>2, <3>3
      <3> QED
        BY <2>1, <3>4 DEF AnswerInv, AcknowledgedIsCommitted
    <2>6. acked' = acked \/ Respond(h)
      BY <1>3 DEF Step, Arrive, RestoreRead, RestoreLoad, Acquire, Admit, ExecuteEdit, ExecuteUndo,
         ExecuteRedo, PutSnapshot, Commit, ReadBack, Discard, Cancel
    <2> QED
      BY <2>1, <2>4, <2>5, <2>6 DEF Respond, AnswerInv
  <1>4. CASE Restart \/ RestartWithBlobGc \/ UNCHANGED vars
    <2>1. UNCHANGED <<dbVars, acked>>
      BY <1>4 DEF Restart, RestartWithBlobGc, vars
    <2>2. ASSUME NEW k \in Handlers PROVE ReplyInv(k)'
      BY <1>4, <2>1 DEF Restart, RestartWithBlobGc, vars, dbVars, handlerVars, AnswerInv, ReplyInv,
         Committed, Active, Undone
    <2> QED
      BY <2>1, <2>2 DEF AnswerInv, AcknowledgedIsCommitted, Committed, dbVars
  <1> QED
    BY <1>3, <1>4 DEF Next

LEMMA AnswerInvariant == Spec => []AnswerInv
  <1>1. Init => AnswerInv
    BY DEF Init, AnswerInv, ReplyInv, AcknowledgedIsCommitted
  <1> QED
    BY <1>1, NextAnswer, CoreInvariant, PTL DEF Spec

\* Whoever was told that a transaction is committed was told the truth, whatever
\* was cancelled or crashed since.  A failing read-back does not endanger this.
THEOREM AcknowledgedIsCommittedHolds == Spec => []AcknowledgedIsCommitted
  <1>1. AnswerInv => AcknowledgedIsCommitted
    BY DEF AnswerInv
  <1> QED
    BY <1>1, AnswerInvariant, PTL

\* A conflict answer is final for the base it refused.
THEOREM ConflictIsNotAppliedHolds == Spec => []ConflictIsNotApplied
  <1>1. AnswerInv => ConflictIsNotApplied
    BY DEF AnswerInv, ReplyInv, ConflictIsNotApplied
  <1> QED
    BY <1>1, AnswerInvariant, PTL

\* An answer under the lock names the version of its own commit.
THEOREM AnswerNamesItsCommitHolds == Spec => []AnswerNamesItsCommit
  <1>1. AnswerInv => AnswerNamesItsCommit
    BY DEF AnswerInv, ReplyInv, AnswerNamesItsCommit
  <1> QED
    BY <1>1, AnswerInvariant, PTL

--------------------------------------------------------------------------------
(* The history rows.  A handler that undoes or redoes chose its row and copied  *)
(* its snapshot under the lock, before the commit that moves the row.           *)

\* One row per version, made by the commit of that version.
RowsInv ==
    /\ \A e \in history : e.after = e.before + 1 /\ e.after <= version
    /\ \A e, f \in history : e.after = f.after => e = f

\* What a handler takes to its commit is the snapshot of the row on top.
CopyInv(h) ==
    pc[h] \in {"put", "commit"} =>
       /\ req[h].tx \in Undos =>
             \E e \in Active : NextUndo(e) /\ entry[h] = e.after /\ cand[h] = snapshots[e.before]
       /\ req[h].tx \in Redos =>
             \E e \in Undone : NextRedo(e) /\ entry[h] = e.after /\ cand[h] = snapshots[e.after]

\* A stored snapshot is the one that was meant, if it is there.
WholeInv ==
    /\ \A v \in Versions : v <= version => blobs[v] \in {NoBlob, snapshots[v]}
    /\ \A h \in Handlers : pc[h] = "commit" => blobs[version + 1] = cand[h]

StackInv ==
    /\ RowsInv
    /\ HistoryIsAStack
    /\ WholeInv
    /\ \A h \in Handlers : CopyInv(h)

\* What the types say of the history rows.
LEMMA RowTypes ==
  ASSUME CoreInv
  PROVE  /\ version \in Nat \ {0} /\ version \in Versions
         /\ \A e \in history : /\ e.before \in Versions /\ e.after \in Versions
                               /\ e.before \in Nat /\ e.after \in Nat /\ e.undone \in BOOLEAN
                               /\ e = [before |-> e.before, after |-> e.after, undone |-> e.undone]
         /\ snapshots \in [Versions -> Blob]
  BY ConstantsAssumption DEF CoreInv, TypeOK, HistoryRow, Versions

\* A commit adds a snapshot and leaves the others.
LEMMA SnapshotsAfter ==
  ASSUME CoreInv, version' = version + 1, version' \in Versions, NEW c,
         snapshots' = [snapshots EXCEPT ![version + 1] = c]
  PROVE  /\ snapshots'[version'] = c
         /\ \A v \in Versions : v <= version => snapshots'[v] = snapshots[v]
  BY RowTypes DEF Versions

\* A commit of an edit or a restore throws the undone rows away and puts a row on top.
LEMMA StackGrows ==
  ASSUME CoreInv, RowsInv, HistoryIsAStack, version' = version + 1, version' \in Versions,
         NEW c, snapshots' = [snapshots EXCEPT ![version + 1] = c],
         history' = Active \cup {[before |-> version, after |-> version + 1, undone |-> FALSE]}
  PROVE  RowsInv' /\ HistoryIsAStack'
  <1> DEFINE new == [before |-> version, after |-> version + 1, undone |-> FALSE]
  <1>1. /\ new.before = version /\ new.after = version + 1 /\ new.undone = FALSE
        /\ history' = Active \cup {new} /\ Active \subseteq history
    BY DEF Active
  <1> HIDE DEF new
  <1>2. /\ \A e \in Active : e.after \in Nat /\ e.after <= version /\ e.undone = FALSE
        /\ \A e \in Active : e.after \in Versions /\ e.before \in Versions /\ e.before <= version
    BY RowTypes DEF Active, RowsInv
  <1>3. version \in Nat \ {0} /\ version \in Versions
    BY RowTypes
  <1>4. RowsInv'
    BY <1>1, <1>2, <1>3 DEF RowsInv
  <1>5. \A e \in history' : ~e.undone
    BY <1>1, <1>2
  <1>6. Active' = history' /\ Undone' = {}
    BY <1>5 DEF Active, Undone
  <1>7. \A v \in Versions : v <= version => snapshots'[v] = snapshots[v]
    BY SnapshotsAfter
  <1>8. \A e \in Active' : NextUndo(e)' => e = new
    BY <1>1, <1>2, <1>3, <1>6 DEF NextUndo
  <1>9. ASSUME NEW e \in history', NEW f \in history', Follows(f, e)'
        PROVE  snapshots'[e.after] = snapshots'[f.before]
    <2>1. e \in Active /\ e # new
      BY <1>1, <1>2, <1>3, <1>9 DEF Follows
    <2>2. CASE f = new
      <3>1. NextUndo(e)
        <4> SUFFICES ASSUME NEW g \in Active PROVE g.after <= e.after
          BY DEF NextUndo
        <4>1. ~ (e.after < g.after /\ g.after < f.after)
          BY <1>1, <1>9 DEF Follows
        <4>2. g.after \in Nat /\ g.after <= version /\ e.after \in Nat
          BY <1>2, <2>1
        <4> QED
          BY <1>1, <1>3, <2>2, <4>1, <4>2
      <3>2. snapshots[version] = snapshots[e.after]
        BY <2>1, <3>1 DEF HistoryIsAStack
      <3> QED
        BY <1>1, <1>2, <1>3, <1>7, <2>1, <2>2, <3>2
    <2>3. CASE f \in Active
      <3>1. Follows(f, e)
        <4> SUFFICES ASSUME NEW g \in history, e.after < g.after, g.after < f.after PROVE FALSE
          BY <1>9 DEF Follows
        <4>1. ~f.undone /\ f \in history /\ g \in history
          BY <1>1, <1>2, <2>3
        <4>2. ~g.undone
          BY <4>1 DEF HistoryIsAStack
        <4>3. g \in history'
          BY <1>1, <4>2 DEF Active
        <4> QED
          BY <1>9, <4>3 DEF Follows
      <3>2. snapshots[e.after] = snapshots[f.before]
        BY <1>1, <2>1, <2>3, <3>1 DEF HistoryIsAStack
      <3> QED
        BY <1>2, <1>7, <2>1, <2>3, <3>2
    <2> QED
      BY <1>1, <2>2, <2>3
  <1>10. \A e \in Active' : NextUndo(e)' => snapshots'[version'] = snapshots'[e.after]
    BY <1>1, <1>8
  <1> QED
    BY <1>4, <1>5, <1>6, <1>9, <1>10 DEF HistoryIsAStack

WithMoved(n, undone) == {IF e.after = n THEN Moved(e, undone) ELSE e : e \in history}

\* A history action moves the row it chose and leaves the others.
LEMMA RowsMoved ==
  ASSUME CoreInv, RowsInv, NEW t \in history, NEW undone, NEW n, n = t.after,
         history' = WithMoved(n, undone),
         version' = version + 1
  PROVE  /\ history' = (history \ {t}) \cup {Moved(t, undone)}
         /\ Moved(t, undone).before = t.before /\ Moved(t, undone).after = t.after
         /\ Moved(t, undone).undone = undone
         /\ RowsInv'
  <1>1. \A e \in history : e.after = n <=> e = t
    BY DEF RowsInv
  <1>2. history' = (history \ {t}) \cup {Moved(t, undone)}
    BY <1>1 DEF WithMoved
  <1>3. /\ Moved(t, undone).before = t.before /\ Moved(t, undone).after = t.after
        /\ Moved(t, undone).undone = undone
    BY DEF Moved
  <1>4. RowsInv'
    BY <1>2, <1>3, RowTypes DEF RowsInv
  <1> QED
    BY <1>2, <1>3, <1>4

\* An undo moves the row on top of the active ones to the undone.
LEMMA StackUndoes ==
  ASSUME CoreInv, RowsInv, HistoryIsAStack, NEW t \in Active, NextUndo(t), NEW n, n = t.after,
         NEW undone, undone = TRUE,
         version' = version + 1, version' \in Versions,
         snapshots' = [snapshots EXCEPT ![version + 1] = snapshots[t.before]],
         history' = WithMoved(n, undone)
  PROVE  RowsInv' /\ HistoryIsAStack'
  <1> DEFINE moved == Moved(t, undone)
  <1>1. /\ t \in history /\ ~t.undone /\ t.before \in Versions /\ t.after \in Versions
        /\ t.before <= version /\ t.after <= version /\ t.after \in Nat
    BY RowTypes DEF Active, RowsInv
  <1>2. /\ history' = (history \ {t}) \cup {moved} /\ moved.before = t.before
        /\ moved.after = t.after /\ moved.undone = TRUE /\ RowsInv'
    <2>1. RowsInv'
      BY <1>1, RowsMoved
    <2>2. history' = (history \ {t}) \cup {moved}
      BY <1>1, RowsMoved
    <2>3. moved.before = t.before /\ moved.after = t.after
      BY DEF Moved
    <2>4. moved.undone = TRUE
      BY DEF Moved
    <2> QED
      BY <2>1, <2>2, <2>3, <2>4
  <1> HIDE DEF moved
  <1>3. /\ snapshots'[version'] = snapshots[t.before]
        /\ \A v \in Versions : v <= version => snapshots'[v] = snapshots[v]
    BY SnapshotsAfter
  <1>4. \A e \in history : /\ e.after \in Versions /\ e.after \in Nat /\ e.after <= version
                            /\ e.before \in Versions /\ e.before <= version
                            /\ e.undone \in BOOLEAN
    BY RowTypes DEF RowsInv
  <1>5. \A e \in history : e.undone => t.after < e.after
    <2> SUFFICES ASSUME NEW e \in history, e.undone PROVE t.after < e.after
      OBVIOUS
    <2>1. e.after # t.after
      BY <1>1 DEF RowsInv
    <2>2. ~ (e.after < t.after)
      BY <1>1 DEF HistoryIsAStack
    <2> QED
      BY <1>1, <1>4, <2>1, <2>2
  <1>6. \A e \in history : t.after < e.after => e.undone
    BY <1>1, <1>4 DEF NextUndo, Active
  <1>7. \A e, f \in history' : e.undone /\ e.after < f.after => f.undone
    <2>1. \A e \in history' : e.after \in Nat /\ (e.undone <=> ~ (e.after < t.after))
      <3>1. moved.after \in Nat /\ (moved.undone <=> ~ (moved.after < t.after))
        BY <1>1, <1>2
      <3>2. ASSUME NEW e \in history, e # t
            PROVE  e.after \in Nat /\ (e.undone <=> ~ (e.after < t.after))
        <4>1. e.after \in Nat /\ e.after # t.after
          BY <1>1, <1>4, <3>2 DEF RowsInv
        <4> QED
          BY <1>1, <1>5, <1>6, <4>1
      <3> QED
        BY <1>2, <3>1, <3>2
    <2> SUFFICES ASSUME NEW e \in history', NEW f \in history', e.undone, e.after < f.after
                 PROVE  f.undone
      OBVIOUS
    <2>2. ~ (e.after < t.after) /\ e.after \in Nat /\ f.after \in Nat
      BY <2>1
    <2>3. ~ (f.after < t.after)
      BY <1>1, <2>2
    <2> QED
      BY <2>1, <2>3
  \* Rows follow each other as before.
  <1> DEFINE was(e) == IF e = moved THEN t ELSE e
  <1>8. \A e \in history' : /\ was(e) \in history /\ was(e).after = e.after
                             /\ was(e).before = e.before
    BY <1>1, <1>2
  <1>9. \A g \in history : \E e \in history' : e.after = g.after
    BY <1>2
  <1> HIDE DEF was
  <1>10. ASSUME NEW e \in history', NEW f \in history', Follows(f, e)'
         PROVE  Follows(was(f), was(e)) /\ snapshots'[e.after] = snapshots'[f.before]
    <2>1. Follows(was(f), was(e))
      BY <1>8, <1>9, <1>10 DEF Follows
    <2>2. snapshots[e.after] = snapshots[f.before]
      <3>1. snapshots[was(e).after] = snapshots[was(f).before]
        BY <1>8, <2>1 DEF HistoryIsAStack
      <3> QED
        BY <1>8, <3>1
    <2>3. /\ e.after \in Versions /\ e.after <= version
          /\ f.before \in Versions /\ f.before <= version
      BY <1>4, <1>8
    <2> QED
      BY <1>3, <2>1, <2>2, <2>3
  <1>11. ASSUME NEW e \in Active', NextUndo(e)' PROVE snapshots'[version'] = snapshots'[e.after]
    <2>1. e \in history /\ ~e.undone /\ e # t
      BY <1>2, <1>11 DEF Active
    <2>2. e.after < t.after
      BY <1>1, <1>4, <1>6, <2>1 DEF RowsInv
    <2>3. Follows(t, e)
      <3> SUFFICES ASSUME NEW g \in history, e.after < g.after, g.after < t.after PROVE FALSE
        BY <2>2 DEF Follows
      <3>3. ~ (t.after < g.after) /\ g # t
        BY <1>1, <1>4
      <3>1. ~g.undone /\ g \in history'
        BY <1>2, <1>5, <3>3
      <3>2. g \in Active'
        BY <3>1 DEF Active
      <3> QED
        BY <1>4, <1>11, <2>1, <3>2 DEF NextUndo
    <2>4. snapshots[e.after] = snapshots[t.before]
      BY <1>1, <2>1, <2>3 DEF HistoryIsAStack
    <2> QED
      BY <1>3, <1>4, <2>1, <2>4
  <1>12. ASSUME NEW e \in Undone', NextRedo(e)' PROVE snapshots'[version'] = snapshots'[e.before]
    <2>1. e \in history' /\ moved \in Undone'
      BY <1>2, <1>12 DEF Undone
    <2>2. e.after <= t.after
      BY <1>2, <1>12, <2>1 DEF NextRedo
    <2>3. e = moved
      <3> SUFFICES ASSUME e \in history, e # t PROVE FALSE
        BY <1>2, <2>1
      <3>1. e.undone
        BY <1>12 DEF Undone
      <3> QED
        BY <1>1, <1>4, <1>5, <2>2, <3>1
    <2> QED
      BY <1>1, <1>2, <1>3, <2>3
  <1> QED
    BY <1>2, <1>7, <1>10, <1>11, <1>12 DEF HistoryIsAStack

\* A redo moves the row at the bottom of the undone ones back.
LEMMA StackRedoes ==
  ASSUME CoreInv, RowsInv, HistoryIsAStack, NEW t \in Undone, NextRedo(t), NEW n, n = t.after,
         NEW undone, undone = FALSE,
         version' = version + 1, version' \in Versions,
         snapshots' = [snapshots EXCEPT ![version + 1] = snapshots[t.after]],
         history' = WithMoved(n, undone)
  PROVE  RowsInv' /\ HistoryIsAStack'
  <1> DEFINE moved == Moved(t, undone)
  <1>1. /\ t \in history /\ t.undone /\ t.before \in Versions /\ t.after \in Versions
        /\ t.before <= version /\ t.after <= version /\ t.after \in Nat
    BY RowTypes DEF Undone, RowsInv
  <1>2. /\ history' = (history \ {t}) \cup {moved} /\ moved.before = t.before
        /\ moved.after = t.after /\ moved.undone = FALSE /\ RowsInv'
    <2>1. RowsInv' /\ history' = (history \ {t}) \cup {moved}
      BY <1>1, RowsMoved
    <2>2. moved.before = t.before /\ moved.after = t.after /\ moved.undone = FALSE
      BY DEF Moved
    <2> QED
      BY <2>1, <2>2
  <1> HIDE DEF moved
  <1>3. /\ snapshots'[version'] = snapshots[t.after]
        /\ \A v \in Versions : v <= version => snapshots'[v] = snapshots[v]
    BY SnapshotsAfter
  <1>4. \A e \in history : /\ e.after \in Versions /\ e.after \in Nat /\ e.after <= version
                            /\ e.before \in Versions /\ e.before <= version
                            /\ e.undone \in BOOLEAN
    BY RowTypes DEF RowsInv
  <1>5. \A e \in history : t.after < e.after => e.undone
    BY <1>1 DEF HistoryIsAStack
  <1>6. \A e \in history : e.undone => ~ (e.after < t.after)
    BY <1>1, <1>4 DEF NextRedo, Undone
  <1>7. \A e, f \in history' : e.undone /\ e.after < f.after => f.undone
    <2>1. \A e \in history' : e.after \in Nat /\ (e.undone <=> t.after < e.after)
      <3>1. moved.after \in Nat /\ (moved.undone <=> t.after < moved.after)
        BY <1>1, <1>2
      <3>2. ASSUME NEW e \in history, e # t
            PROVE  e.after \in Nat /\ (e.undone <=> t.after < e.after)
        <4>1. e.after \in Nat /\ e.after # t.after
          BY <1>1, <1>4, <3>2 DEF RowsInv
        <4> QED
          BY <1>1, <1>5, <1>6, <4>1
      <3> QED
        BY <1>2, <3>1, <3>2
    <2> SUFFICES ASSUME NEW e \in history', NEW f \in history', e.undone, e.after < f.after
                 PROVE  f.undone
      OBVIOUS
    <2>2. t.after < e.after /\ e.after \in Nat /\ f.after \in Nat
      BY <2>1
    <2>3. t.after < f.after
      BY <1>1, <2>2
    <2> QED
      BY <2>1, <2>3
  <1> DEFINE was(e) == IF e = moved THEN t ELSE e
  <1>8. \A e \in history' : /\ was(e) \in history /\ was(e).after = e.after
                             /\ was(e).before = e.before
    BY <1>1, <1>2
  <1>9. \A g \in history : \E e \in history' : e.after = g.after
    BY <1>2
  <1> HIDE DEF was
  <1>10. ASSUME NEW e \in history', NEW f \in history', Follows(f, e)'
         PROVE  snapshots'[e.after] = snapshots'[f.before]
    <2>1. Follows(was(f), was(e))
      BY <1>8, <1>9, <1>10 DEF Follows
    <2>2. snapshots[e.after] = snapshots[f.before]
      <3>1. snapshots[was(e).after] = snapshots[was(f).before]
        BY <1>8, <2>1 DEF HistoryIsAStack
      <3> QED
        BY <1>8, <3>1
    <2>3. /\ e.after \in Versions /\ e.after <= version
          /\ f.before \in Versions /\ f.before <= version
      BY <1>4, <1>8
    <2> QED
      BY <1>3, <2>2, <2>3
  <1>11. ASSUME NEW e \in Active', NextUndo(e)' PROVE snapshots'[version'] = snapshots'[e.after]
    <2>1. moved \in Active' /\ e \in history' /\ ~e.undone
      BY <1>2, <1>11 DEF Active
    <2>2. t.after <= e.after
      BY <1>2, <1>11, <2>1 DEF NextUndo
    <2>3. e = moved
      <3> SUFFICES ASSUME e \in history, e # t PROVE FALSE
        BY <1>2, <2>1
      <3>1. e.after # t.after
        BY <1>1 DEF RowsInv
      <3> QED
        BY <1>1, <1>4, <1>5, <2>1, <2>2, <3>1
    <2> QED
      BY <1>1, <1>2, <1>3, <2>3
  <1>12. ASSUME NEW e \in Undone', NextRedo(e)' PROVE snapshots'[version'] = snapshots'[e.before]
    <2>1. e \in history /\ e.undone /\ e # t
      BY <1>2, <1>12 DEF Undone
    <2>2. t.after < e.after
      <3>1. e.after # t.after /\ ~ (e.after < t.after)
        BY <1>1, <1>6, <2>1 DEF RowsInv
      <3> QED
        BY <1>1, <1>4, <2>1, <3>1
    <2>3. Follows(e, t)
      <3> SUFFICES ASSUME NEW g \in history, t.after < g.after, g.after < e.after PROVE FALSE
        BY <2>2 DEF Follows
      <3>1. g.undone /\ g # t
        BY <1>1, <1>5
      <3>2. g \in Undone'
        BY <1>2, <3>1 DEF Undone
      <3> QED
        BY <1>4, <1>12, <2>1, <3>2 DEF NextRedo
    <2>4. snapshots[t.after] = snapshots[e.before]
      BY <1>1, <2>1, <2>3 DEF HistoryIsAStack
    <2> QED
      BY <1>3, <1>4, <2>1, <2>4
  <1> QED
    BY <1>2, <1>7, <1>10, <1>11, <1>12 DEF HistoryIsAStack

\* A commit moves the stack the way its transaction asks for.
LEMMA CommitKeepsStack ==
  ASSUME CoreInv, StackInv, NEW h \in Handlers, Commit(h), ~ UNCHANGED dbVars
  PROVE  RowsInv' /\ HistoryIsAStack'
  <1>1. /\ version' = version + 1 /\ version' \in Versions /\ req[h].tx \in TxIds
        /\ snapshots' = [snapshots EXCEPT ![version + 1] = cand[h]]
        /\ history' = HistoryAfter(h) /\ pc[h] = "commit"
    BY CommitRows DEF Commit
  <1>2. CASE req[h].tx \in Undos
    <2>1. PICK t \in Active : NextUndo(t) /\ entry[h] = t.after /\ cand[h] = snapshots[t.before]
      BY <1>1, <1>2 DEF StackInv, CopyInv
    <2>2. (req[h].tx \in Undos) = TRUE
      BY <1>2
    <2>3. history' = WithMoved(entry[h], req[h].tx \in Undos)
      BY <1>1, <1>2 DEF HistoryAfter, WithMoved
    <2> QED
      BY <1>1, <2>1, <2>2, <2>3, StackUndoes DEF StackInv
  <1>3. CASE req[h].tx \in Redos
    <2>1. PICK t \in Undone : NextRedo(t) /\ entry[h] = t.after /\ cand[h] = snapshots[t.after]
      BY <1>1, <1>3 DEF StackInv, CopyInv
    <2>2. (req[h].tx \in Undos) = FALSE
      BY <1>3, ConstantsAssumption
    <2>3. history' = WithMoved(entry[h], req[h].tx \in Undos)
      BY <1>1, <1>3 DEF HistoryAfter, WithMoved
    <2> QED
      BY <1>1, <2>1, <2>2, <2>3, StackRedoes DEF StackInv
  <1>4. CASE req[h].tx \notin Undos \cup Redos
    <2>1. history' = Active \cup {[before |-> version, after |-> version + 1, undone |-> FALSE]}
      BY <1>1, <1>4 DEF HistoryAfter
    <2> QED
      BY <1>1, <2>1, StackGrows DEF StackInv
  <1> QED
    BY <1>2, <1>3, <1>4

\* A step of one handler leaves the others' locals alone, and their rows unless it commits.
LEMMA OthersStay ==
  ASSUME CoreInv, NEW h \in Handlers, Step(h), NEW k \in Handlers, k # h
  PROVE  /\ pc'[k] = pc[k] /\ req'[k] = req[k] /\ cand'[k] = cand[k] /\ entry'[k] = entry[k]
         /\ UNCHANGED dbVars \/ Commit(h)
  <1> USE DEF CoreInv, TypeOK, Goto, Answer, handlerVars, dbVars
  <1>1. CASE Arrive(h)
    BY <1>1 DEF Arrive
  <1>2. CASE RestoreRead(h) \/ RestoreLoad(h)
    BY <1>2 DEF RestoreRead, RestoreLoad, EarlyAnswer
  <1>3. CASE Acquire(h) \/ Admit(h)
    BY <1>3 DEF Acquire, Admit
  <1>4. CASE ExecuteEdit(h)
    BY <1>4 DEF ExecuteEdit
  <1>5. CASE ExecuteUndo(h)
    BY <1>5 DEF ExecuteUndo, NothingToDo, CopySnapshot
  <1>6. CASE ExecuteRedo(h)
    BY <1>6 DEF ExecuteRedo, NothingToDo, CopySnapshot
  <1>7. CASE PutSnapshot(h)
    BY <1>7 DEF PutSnapshot
  <1>8. CASE Commit(h)
    BY <1>8 DEF Commit
  <1>9. CASE ReadBack(h) \/ Discard(h)
    BY <1>9 DEF ReadBack, Discard
  <1>10. CASE Respond(h) \/ Cancel(h)
    BY <1>10 DEF Respond, Cancel, Forget
  <1> QED
    BY <1>1, <1>2, <1>3, <1>4, <1>5, <1>6, <1>7, <1>8, <1>9, <1>10 DEF Step

\* A handler that comes to its commit has put its own candidate.
LEMMA StepCopies ==
  ASSUME CoreInv, StackInv, NEW h \in Handlers, Step(h)
  PROVE  CopyInv(h)'
  <1> SUFFICES ASSUME pc'[h] \in {"put", "commit"} PROVE CopyInv(h)'
    BY DEF CopyInv
  <1> USE DEF Goto, Answer
  <1>0. HandlerInv(h) /\ TypeOK /\ CopyInv(h)
    BY DEF CoreInv, StackInv
  <1>1. Admit(h) \/ ExecuteEdit(h) \/ ExecuteUndo(h) \/ ExecuteRedo(h) \/ PutSnapshot(h)
    BY <1>0 DEF Step, TypeOK, Arrive, RestoreRead, RestoreLoad, EarlyAnswer, Acquire, Commit, ReadBack,
       Discard, Respond, Cancel, Forget
  <1>2. UNCHANGED dbVars /\ req' = req
    BY <1>1 DEF Admit, ExecuteEdit, ExecuteUndo, ExecuteRedo, NothingToDo, CopySnapshot, PutSnapshot
  <1>3. CASE Admit(h)
    BY <1>0, <1>2, <1>3, ConstantsAssumption DEF Admit, CopyInv, TypeOK, TxIds
  <1>4. CASE ExecuteEdit(h)
    BY <1>0, <1>2, <1>4, ConstantsAssumption DEF ExecuteEdit, CopyInv, TypeOK
  <1>5. CASE ExecuteUndo(h)
    <2>1. req[h].tx \in Undos /\ req[h].tx \notin Redos
      BY <1>5, ConstantsAssumption DEF ExecuteUndo
    <2>2. PICK e \in Active : /\ NextUndo(e) /\ blobs[e.before] # NoBlob
                              /\ cand' = [cand EXCEPT ![h] = blobs[e.before]]
                              /\ entry' = [entry EXCEPT ![h] = e.after]
      BY <1>0, <1>5 DEF ExecuteUndo, NothingToDo, CopySnapshot, TypeOK
    <2>3. blobs[e.before] = snapshots[e.before]
      <3>1. e \in history /\ e.before \in Versions /\ e.before <= version
        BY RowTypes DEF Active, StackInv, RowsInv
      <3> QED
        BY <2>2, <3>1 DEF StackInv, WholeInv
    <2>4. cand'[h] = snapshots[e.before] /\ entry'[h] = e.after
      BY <1>0, <2>2, <2>3 DEF TypeOK
    <2> QED
      BY <1>2, <2>1, <2>2, <2>4 DEF CopyInv, Active, NextUndo, dbVars
  <1>6. CASE ExecuteRedo(h)
    <2>1. req[h].tx \in Redos /\ req[h].tx \notin Undos
      BY <1>6, ConstantsAssumption DEF ExecuteRedo
    <2>2. PICK e \in Undone : /\ NextRedo(e) /\ blobs[e.after] # NoBlob
                              /\ cand' = [cand EXCEPT ![h] = blobs[e.after]]
                              /\ entry' = [entry EXCEPT ![h] = e.after]
      BY <1>0, <1>6 DEF ExecuteRedo, NothingToDo, CopySnapshot, TypeOK
    <2>3. blobs[e.after] = snapshots[e.after]
      <3>1. e \in history /\ e.after \in Versions /\ e.after <= version
        BY RowTypes DEF Undone, StackInv, RowsInv
      <3> QED
        BY <2>2, <3>1 DEF StackInv, WholeInv
    <2>4. cand'[h] = snapshots[e.after] /\ entry'[h] = e.after
      BY <1>0, <2>2, <2>3 DEF TypeOK
    <2> QED
      BY <1>2, <2>1, <2>2, <2>4 DEF CopyInv, Undone, NextRedo, dbVars
  <1>7. CASE PutSnapshot(h)
    BY <1>0, <1>2, <1>7 DEF PutSnapshot, CopyInv, Active, Undone, NextUndo, NextRedo, dbVars
  <1> QED
    BY <1>1, <1>3, <1>4, <1>5, <1>6, <1>7

\* No step stores anything under the key of a registered version.
LEMMA StepKeepsWhole ==
  ASSUME CoreInv, StackInv, NEW h \in Handlers, Step(h)
  PROVE  WholeInv'
  <1>1. \A k \in Handlers : k # h /\ pc'[k] = "commit" => pc[h] \notin Locked /\ pc[k] = "commit"
    BY OthersStay DEF CoreInv, LockInv, Locked
  <1>2. version \in Nat \ {0} /\ version \in Versions /\ TypeOK /\ HandlerInv(h)
    BY RowTypes DEF CoreInv
  <1>3. CASE PutSnapshot(h)
    <2>1. pc[h] \in Locked /\ UNCHANGED <<version, snapshots, cand>>
      BY <1>3 DEF PutSnapshot, Locked, dbVars
    <2>2. CASE blobs' = blobs /\ pc'[h] # "commit"
      BY <1>1, <2>1, <2>2 DEF StackInv, WholeInv
    <2>3. CASE version < MaxVersion /\ blobs' = [blobs EXCEPT ![version + 1] = cand[h]]
      <3>1. version + 1 \in Versions /\ blobs'[version + 1] = cand[h]
        BY <1>2, <2>3, ConstantsAssumption DEF Versions, TypeOK
      <3>2. \A v \in Versions : v <= version => blobs'[v] = blobs[v]
        BY <1>2, <2>3 DEF Versions, TypeOK
      <3> QED
        BY <1>1, <2>1, <3>1, <3>2 DEF StackInv, WholeInv
    <2> QED
      BY <1>2, <1>3, <2>2, <2>3 DEF PutSnapshot, Answer, Goto, TypeOK
  <1>4. CASE Commit(h)
    <2>1. blobs' = blobs /\ pc'[h] # "commit" /\ pc[h] = "commit"
      BY <1>2, <1>4 DEF Commit, Goto, TypeOK
    <2>2. CASE UNCHANGED dbVars
      BY <1>1, <2>1, <2>2 DEF StackInv, WholeInv, dbVars, Locked
    <2>3. CASE ~ UNCHANGED dbVars
      <3>1. /\ version' = version + 1 /\ version' \in Versions
            /\ snapshots' = [snapshots EXCEPT ![version + 1] = cand[h]]
        BY <1>4, <2>3, CommitRows
      <3>2. /\ snapshots'[version'] = cand[h]
            /\ \A v \in Versions : v <= version => snapshots'[v] = snapshots[v]
        BY <3>1, SnapshotsAfter
      <3>3. \A v \in Versions : v <= version' => v <= version \/ v = version'
        BY <1>2, <3>1 DEF Versions
      <3> QED
        BY <1>1, <2>1, <3>1, <3>2, <3>3 DEF StackInv, WholeInv, Locked
    <2> QED
      BY <2>2, <2>3
  <1>5. CASE Discard(h)
    <2>1. UNCHANGED <<version, snapshots, cand>> /\ pc'[h] # "commit" /\ pc[h] \in Locked
      BY <1>2, <1>5 DEF Discard, Goto, TypeOK, Locked, dbVars
    <2>2. \A v \in Versions : blobs'[v] \in {blobs[v], NoBlob}
      BY <1>2, <1>5 DEF Discard, TypeOK
    <2> QED
      BY <1>1, <2>1, <2>2 DEF StackInv, WholeInv
  <1>6. CASE ~PutSnapshot(h) /\ ~Commit(h) /\ ~Discard(h)
    <2>1. UNCHANGED <<blobs, version, snapshots>> /\ (pc'[h] # "commit")
      BY <1>2, <1>6
      DEF Step, TypeOK, Goto, Answer, Arrive, RestoreRead, RestoreLoad, EarlyAnswer, Acquire, Admit,
          ExecuteEdit, ExecuteUndo, ExecuteRedo, NothingToDo, CopySnapshot, ReadBack, Respond,
          Cancel, Forget, dbVars
    <2>2. \A k \in Handlers : pc'[k] = "commit" => pc[k] = "commit" /\ cand'[k] = cand[k]
      BY <2>1, OthersStay
    <2> QED
      BY <2>1, <2>2 DEF StackInv, WholeInv
  <1> QED
    BY <1>3, <1>4, <1>5, <1>6

\* The invariant is preserved: a commit by CommitKeepsStack, every other step because
\* it leaves the rows alone.
LEMMA NextStack == CoreInv /\ StackInv /\ [Next]_vars => StackInv'
  <1> SUFFICES ASSUME CoreInv, StackInv, [Next]_vars PROVE StackInv'
    OBVIOUS
  <1>1. ASSUME NEW h \in Handlers, Step(h) PROVE StackInv'
    <2>1. RowsInv' /\ HistoryIsAStack'
      <3>1. CASE UNCHANGED dbVars
        BY <3>1 DEF StackInv, RowsInv, HistoryIsAStack, Follows, Active, Undone, NextUndo, NextRedo,
                    dbVars
      <3>2. CASE ~ UNCHANGED dbVars
        <4>1. PICK k \in Handlers : Commit(k)
          BY <3>2, RowsChangeByCommit
        <4> QED
          BY <3>2, <4>1, CommitKeepsStack
      <3> QED
        BY <3>1, <3>2
    <2>2. ASSUME NEW k \in Handlers PROVE CopyInv(k)'
      <3>1. CASE k = h
        BY <1>1, <3>1, StepCopies
      <3>2. CASE k # h /\ UNCHANGED dbVars
        <4>1. CopyInv(k)
          BY DEF StackInv
        <4>2. /\ pc'[k] = pc[k] /\ req'[k] = req[k] /\ cand'[k] = cand[k] /\ entry'[k] = entry[k]
          BY <1>1, <3>2, OthersStay
        <4> QED
          BY <3>2, <4>1, <4>2 DEF CopyInv, Active, Undone, NextUndo, NextRedo, dbVars
      <3>3. CASE k # h /\ Commit(h)
        <4>1. pc'[k] = pc[k] /\ pc[k] \notin Locked
          BY <1>1, <3>3, OthersStay DEF CoreInv, LockInv, Commit, Locked
        <4> QED
          BY <4>1 DEF CopyInv, Locked
      <3> QED
        BY <1>1, <3>1, <3>2, <3>3, OthersStay
    <2>3. WholeInv'
      BY <1>1, StepKeepsWhole
    <2> QED
      BY <2>1, <2>2, <2>3 DEF StackInv
  <1>2. CASE Restart \/ RestartWithBlobGc \/ UNCHANGED vars
    <2>1. UNCHANGED dbVars
      BY <1>2 DEF Restart, RestartWithBlobGc, vars
    <2>2. RowsInv' /\ HistoryIsAStack'
      BY <2>1 DEF StackInv, RowsInv, HistoryIsAStack, Follows, Active, Undone, NextUndo, NextRedo,
                  dbVars
    <2>3. ASSUME NEW k \in Handlers
          PROVE  pc'[k] = "idle" \/ /\ pc'[k] = pc[k] /\ req'[k] = req[k] /\ cand'[k] = cand[k]
                                    /\ entry'[k] = entry[k]
      BY <1>2 DEF Restart, RestartWithBlobGc, vars, handlerVars
    <2>4. ASSUME NEW k \in Handlers PROVE CopyInv(k)'
      <3>1. CopyInv(k)
        BY DEF StackInv
      <3> QED
        BY <2>1, <2>3, <3>1 DEF CopyInv, Active, Undone, NextUndo, NextRedo, dbVars
    <2>5. WholeInv'
      <3>1. CASE blobs' = blobs
        BY <2>1, <2>3, <3>1 DEF StackInv, WholeInv, dbVars
      <3>2. CASE RestartWithBlobGc
        BY <2>1, <2>3, <3>2 DEF RestartWithBlobGc, StackInv, WholeInv, dbVars, handlerVars
      <3> QED
        BY <1>2, <3>1, <3>2 DEF Restart, vars
    <2> QED
      BY <2>2, <2>4, <2>5 DEF StackInv
  <1> QED
    BY <1>1, <1>2 DEF Next

\* The history rows are one linear undo and redo stack over the stored snapshots,
\* also when answers get lost, reading back fails, requests are dropped and the
\* process restarts.
THEOREM HistoryIsAStackHolds == Spec => []HistoryIsAStack
  <1>1. Init => StackInv
    BY ConstantsAssumption
    DEF Init, StackInv, RowsInv, HistoryIsAStack, WholeInv, CopyInv, Active, Undone, Follows
  <1>2. StackInv => HistoryIsAStack
    BY DEF StackInv
  <1> QED
    BY <1>1, <1>2, NextStack, CoreInvariant, PTL DEF Spec

--------------------------------------------------------------------------------
(* The rows in the order of their versions.                                     *)

Ordered(rows) ==
    /\ IsFiniteSet(rows)
    /\ \A e \in rows : e.after \in Nat
    /\ \A e, f \in rows : e.after = f.after => e = f

Rank(rows, e) == Cardinality(Older(rows, e))

LEMMA RankBound ==
  ASSUME NEW rows, Ordered(rows), NEW e \in rows
  PROVE  /\ IsFiniteSet(Older(rows, e))
         /\ Rank(rows, e) \in 0 .. (Cardinality(rows) - 1)
         /\ Cardinality(rows) \in Nat \ {0}
  <1>1. IsFiniteSet(rows)
    BY DEF Ordered
  <1>2. IsFiniteSet(rows \ {e}) /\ Cardinality(rows \ {e}) = Cardinality(rows) - 1
    BY <1>1, FS_RemoveElement
  <1>3. Older(rows, e) \in SUBSET (rows \ {e})
    BY DEF Older, Ordered
  <1>4. IsFiniteSet(Older(rows, e)) /\ Cardinality(Older(rows, e)) <= Cardinality(rows \ {e})
    BY <1>2, <1>3, FS_Subset
  <1>5. Cardinality(rows) \in Nat /\ Cardinality(rows \ {e}) \in Nat /\ Cardinality(Older(rows, e)) \in Nat
    BY <1>1, <1>2, <1>4, FS_CardinalityType
  <1> QED
    BY <1>2, <1>4, <1>5 DEF Rank

LEMMA RankGrows ==
  ASSUME NEW rows, Ordered(rows), NEW e \in rows, NEW f \in rows, e.after < f.after
  PROVE  Rank(rows, e) # Rank(rows, f)
  <1>1. Older(rows, e) \in SUBSET Older(rows, f)
    BY DEF Older, Ordered
  <1>2. e \in Older(rows, f) /\ e \notin Older(rows, e)
    BY DEF Older, Ordered
  <1>3. IsFiniteSet(Older(rows, f))
    BY RankBound
  <1> QED
    BY <1>1, <1>2, <1>3, FS_Subset DEF Rank

LEMMA RankInjective ==
  ASSUME NEW rows, Ordered(rows), NEW e \in rows, NEW f \in rows, Rank(rows, e) = Rank(rows, f)
  PROVE  e = f
  <1>1. e.after \in Nat /\ f.after \in Nat
    BY DEF Ordered
  <1>2. ~ (e.after < f.after) /\ ~ (f.after < e.after)
    BY RankGrows
  <1>3. e.after = f.after
    BY <1>1, <1>2
  <1> QED
    BY <1>3 DEF Ordered

\* Every rank is a row's.
LEMMA RowIsThere ==
  ASSUME NEW rows, Ordered(rows), NEW i \in 1 .. Cardinality(rows)
  PROVE  Row(rows, i) \in Ranked(rows, i) /\ Row(rows, i) \in rows
  <1>1. Ranked(rows, i) # {}
    <2> SUFFICES ASSUME Ranked(rows, i) = {} PROVE FALSE
      OBVIOUS
    <2> DEFINE n == Cardinality(rows)
               ranks == (0 .. (n - 1)) \ {i - 1}
               rank == [e \in rows |-> Rank(rows, e)]
    <2>1. IsFiniteSet(rows) /\ n \in Nat
      BY FS_CardinalityType DEF Ordered
    <2>2. IsFiniteSet(0 .. (n - 1)) /\ Cardinality(0 .. (n - 1)) = n
      <3> HIDE DEF n
      <3>1. n - 1 \in Int /\ 0 \in Int
        BY <2>1
      <3>2. n >= 1
        BY <2>1 DEF n
      <3> QED
        BY <2>1, <3>1, <3>2, FS_Interval
    <2>3. i - 1 \in 0 .. (n - 1)
      BY <2>1
    <2>4. IsFiniteSet(ranks) /\ Cardinality(ranks) = n - 1
      BY <2>2, <2>3, FS_RemoveElement
    <2>5. \A e \in rows : Rank(rows, e) \in ranks
      <3> SUFFICES ASSUME NEW e \in rows PROVE Rank(rows, e) \in ranks
        OBVIOUS
      <3>1. Rank(rows, e) \in 0 .. (n - 1)
        BY RankBound
      <3>2. Rank(rows, e) # i - 1
        BY DEF Rank, Ranked
      <3> QED
        BY <3>1, <3>2
    <2>6. rank \in [rows -> ranks]
      BY <2>5
    <2>7. Cardinality(ranks) < Cardinality(rows)
      BY <2>1, <2>4
    <2> HIDE DEF ranks, rank
    <2>8. PICK e, f \in rows : e # f /\ rank[e] = rank[f]
      BY <2>1, <2>4, <2>6, <2>7, FS_PigeonHole
    <2>9. Rank(rows, e) = Rank(rows, f)
      BY <2>8 DEF rank
    <2> QED
      BY <2>8, <2>9, RankInjective
  <1> QED
    BY <1>1 DEF Row, Ranked

LEMMA RowWithRank ==
  ASSUME NEW rows, Ordered(rows), NEW e \in rows, NEW i \in Nat, Rank(rows, e) = i - 1
  PROVE  Row(rows, i) = e
  <1>1. e \in Ranked(rows, i)
    BY DEF Ranked, Rank
  <1>2. Row(rows, i) \in rows /\ Rank(rows, Row(rows, i)) = i - 1
    BY <1>1 DEF Row, Ranked, Rank
  <1> QED
    BY <1>2, RankInjective

LEMMA NoRows == Ordered({}) /\ Cardinality({}) = 0
  BY FS_EmptySet DEF Ordered

\* A row newer than all the others comes last.
LEMMA RowOnTop ==
  ASSUME NEW rows, Ordered(rows), NEW t, t.after \in Nat, \A e \in rows : e.after < t.after
  PROVE  LET n == Cardinality(rows)
         IN  /\ Ordered(rows \cup {t})
             /\ n \in Nat /\ Cardinality(rows \cup {t}) = n + 1
             /\ \A i \in 1 .. n : Row(rows \cup {t}, i) = Row(rows, i)
             /\ Row(rows \cup {t}, n + 1) = t
  <1> DEFINE n == Cardinality(rows)
             more == rows \cup {t}
  <1>1. t \notin rows
    BY DEF Ordered
  <1>2. IsFiniteSet(rows) /\ n \in Nat
    BY FS_CardinalityType DEF Ordered
  <1>3. IsFiniteSet(more) /\ Cardinality(more) = n + 1
    BY <1>1, <1>2, FS_AddElement
  <1>4. Ordered(more)
    BY <1>3 DEF Ordered
  <1>5. Older(more, t) = rows
    BY DEF Older, Ordered
  <1>6. \A e \in rows : Older(more, e) = Older(rows, e)
    BY DEF Older, Ordered
  <1>7. Row(more, n + 1) = t
    <2>1. Rank(more, t) = (n + 1) - 1
      BY <1>2, <1>5 DEF Rank
    <2> HIDE DEF n, more
    <2>2. n + 1 \in Nat
      BY <1>2
    <2>3. t \in more
      BY DEF more
    <2> QED
      BY <1>4, <2>1, <2>2, <2>3, RowWithRank
  <1>8. ASSUME NEW i \in 1 .. n PROVE Row(more, i) = Row(rows, i)
    <2> DEFINE e == Row(rows, i)
    <2>1. e \in rows /\ Rank(rows, e) = i - 1
      BY RowIsThere DEF Ranked, Rank
    <2> HIDE DEF e
    <2>2. Rank(more, e) = i - 1 /\ e \in more
      BY <1>6, <2>1 DEF Rank
    <2>3. i \in Nat
      BY <1>2
    <2> HIDE DEF more
    <2>4. Row(more, i) = e
      BY <1>4, <2>2, <2>3, RowWithRank
    <2> QED
      BY <2>4 DEF e
  <1> QED
    BY <1>2, <1>3, <1>4, <1>7, <1>8

\* A row older than all the others comes first.
LEMMA RowAtBottom ==
  ASSUME NEW rows, Ordered(rows), NEW t, t.after \in Nat, \A e \in rows : t.after < e.after
  PROVE  LET n == Cardinality(rows)
         IN  /\ Ordered(rows \cup {t})
             /\ n \in Nat /\ Cardinality(rows \cup {t}) = n + 1
             /\ \A i \in 1 .. n : Row(rows \cup {t}, i + 1) = Row(rows, i)
             /\ Row(rows \cup {t}, 1) = t
  <1> DEFINE n == Cardinality(rows)
             more == rows \cup {t}
  <1>1. t \notin rows
    BY DEF Ordered
  <1>2. IsFiniteSet(rows) /\ n \in Nat
    BY FS_CardinalityType DEF Ordered
  <1>3. IsFiniteSet(more) /\ Cardinality(more) = n + 1
    BY <1>1, <1>2, FS_AddElement
  <1>4. Ordered(more)
    BY <1>3 DEF Ordered
  <1>5. Older(more, t) = {}
    BY DEF Older, Ordered
  <1>6. \A e \in rows : Older(more, e) = Older(rows, e) \cup {t}
    BY DEF Older, Ordered
  <1>7. Row(more, 1) = t
    <2>1. Rank(more, t) = 1 - 1
      <3>1. Rank(more, t) = Cardinality({})
        BY <1>5 DEF Rank
      <3> HIDE DEF more
      <3>2. Cardinality({}) = 0
        BY FS_EmptySet
      <3> QED
        BY <3>1, <3>2
    <2> HIDE DEF more
    <2>2. t \in more
      BY DEF more
    <2> QED
      BY <1>4, <2>1, <2>2, RowWithRank
  <1>8. ASSUME NEW i \in 1 .. n PROVE Row(more, i + 1) = Row(rows, i)
    <2> DEFINE e == Row(rows, i)
    <2>1. e \in rows /\ Rank(rows, e) = i - 1
      BY RowIsThere DEF Ranked, Rank
    <2> HIDE DEF e
    <2>2. IsFiniteSet(Older(rows, e)) /\ t \notin Older(rows, e)
      BY <1>1, <2>1, RankBound DEF Older
    <2>3. Cardinality(Older(rows, e) \cup {t}) = Cardinality(Older(rows, e)) + 1
      BY <2>2, FS_AddElement
    <2>4. i \in Nat /\ i + 1 \in Nat
      BY <1>2
    <2>5. Rank(more, e) = (i + 1) - 1 /\ e \in more
      <3>1. Rank(more, e) = Cardinality(Older(rows, e) \cup {t}) /\ e \in more
        BY <1>6, <2>1 DEF Rank
      <3>2. Cardinality(Older(rows, e)) = i - 1
        BY <2>1 DEF Rank
      <3> HIDE DEF more
      <3> QED
        BY <2>3, <2>4, <3>1, <3>2
    <2> HIDE DEF more
    <2>6. Row(more, i + 1) = e
      BY <1>4, <2>4, <2>5, RowWithRank
    <2> QED
      BY <2>6 DEF e
  <1> QED
    BY <1>2, <1>3, <1>4, <1>7, <1>8

--------------------------------------------------------------------------------
(* Sequences of contents that differ at one end.                                *)

LEMMA FunctionIsSeq ==
  ASSUME NEW S, NEW n \in Nat, NEW s \in [1 .. n -> S]
  PROVE  s \in Seq(S) /\ Len(s) = n
  <1>1. s \in Seq(S)
    OBVIOUS
  <1>2. Len(s) \in Nat /\ DOMAIN s = 1 .. Len(s)
    BY <1>1, LenProperties
  <1>3. 1 .. n = 1 .. Len(s)
    BY <1>2
  <1>4. Len(s) = n
    BY <1>2, <1>3
  <1> QED
    BY <1>1, <1>4

LEMMA AppendIs ==
  ASSUME NEW S, NEW n \in Nat, NEW s \in [1 .. n -> S], NEW r \in [1 .. n + 1 -> S],
         \A i \in 1 .. n : r[i] = s[i]
  PROVE  /\ r = Append(s, r[n + 1])
         /\ s = SubSeq(r, 1, Len(r) - 1)
         /\ r # << >> /\ Len(r) = n + 1 /\ r[Len(r)] = r[n + 1]
  <1> DEFINE c == r[n + 1]
  <1>1. s \in Seq(S) /\ Len(s) = n /\ r \in Seq(S) /\ Len(r) = n + 1 /\ n + 1 \in Nat
    BY FunctionIsSeq
  <1>2. c \in S
    OBVIOUS
  <1> HIDE DEF c
  <1>3. /\ Append(s, c) \in Seq(S) /\ Len(Append(s, c)) = n + 1
        /\ \A i \in 1 .. n : Append(s, c)[i] = s[i]
        /\ Append(s, c)[n + 1] = c
    BY <1>1, <1>2, AppendProperties
  <1>4. \A i \in 1 .. Len(r) : r[i] = Append(s, c)[i]
    <2> SUFFICES ASSUME NEW i \in 1 .. n + 1 PROVE r[i] = Append(s, c)[i]
      BY <1>1
    <2>1. CASE i \in 1 .. n
      BY <1>3, <2>1
    <2>2. CASE i = n + 1
      BY <1>3, <2>2 DEF c
    <2> QED
      BY <2>1, <2>2
  <1>5. r = Append(s, c)
    BY <1>1, <1>3, <1>4, SeqEqual
  <1>6. s = SubSeq(r, 1, Len(r) - 1)
    <2>1. Len(r) - 1 = n /\ n \in Int /\ 1 \in Int
      BY <1>1
    <2>2. \A i \in 1 .. n : r[i] \in S
      BY <1>1
    <2>3. /\ SubSeq(r, 1, n) \in Seq(S)
          /\ Len(SubSeq(r, 1, n)) = IF 1 <= n THEN n - 1 + 1 ELSE 0
          /\ \A i \in 1 .. n - 1 + 1 : SubSeq(r, 1, n)[i] = r[1 + i - 1]
      BY <2>1, <2>2, SubSeqProperties
    <2>4. Len(SubSeq(r, 1, n)) = n
      BY <2>3
    <2>5. \A i \in 1 .. Len(s) : s[i] = SubSeq(r, 1, n)[i]
      <3> SUFFICES ASSUME NEW i \in 1 .. n PROVE s[i] = SubSeq(r, 1, n)[i]
        BY <1>1
      <3>1. i \in 1 .. n - 1 + 1 /\ 1 + i - 1 = i
        OBVIOUS
      <3> QED
        BY <2>3, <3>1
    <2> QED
      BY <1>1, <2>1, <2>3, <2>4, <2>5, SeqEqual
  <1>7. r # << >>
    BY <1>1, EmptySeq
  <1> QED
    BY <1>1, <1>5, <1>6, <1>7 DEF c

LEMMA PrependIs ==
  ASSUME NEW S, NEW n \in Nat, NEW s \in [1 .. n -> S], NEW r \in [1 .. n + 1 -> S],
         \A i \in 1 .. n : r[i + 1] = s[i]
  PROVE  r = <<r[1]>> \o s /\ r # << >> /\ Head(r) = r[1] /\ Tail(r) = s
  <1> DEFINE c == r[1]
  <1>1. s \in Seq(S) /\ Len(s) = n /\ r \in Seq(S) /\ Len(r) = n + 1 /\ n + 1 \in Nat
    BY FunctionIsSeq
  <1>2. c \in S /\ <<c>> \in Seq(S) /\ Len(<<c>>) = 1 /\ <<c>>[1] = c
    OBVIOUS
  <1> HIDE DEF c
  <1>3. /\ <<c>> \o s \in Seq(S) /\ Len(<<c>> \o s) = n + 1
        /\ \A i \in 1 .. n + 1 : (<<c>> \o s)[i] = IF i <= 1 THEN <<c>>[i] ELSE s[i - 1]
    <2>1. /\ <<c>> \o s \in Seq(S)
          /\ Len(<<c>> \o s) = Len(<<c>>) + Len(s)
          /\ \A i \in 1 .. Len(<<c>>) + Len(s) :
               (<<c>> \o s)[i] = IF i <= Len(<<c>>) THEN <<c>>[i] ELSE s[i - Len(<<c>>)]
      BY <1>1, <1>2, ConcatProperties
    <2>2. Len(<<c>>) + Len(s) = n + 1
      BY <1>1, <1>2
    <2> QED
      BY <1>2, <2>1, <2>2
  <1>4. \A i \in 1 .. Len(r) : r[i] = (<<c>> \o s)[i]
    <2> SUFFICES ASSUME NEW i \in 1 .. n + 1 PROVE r[i] = (<<c>> \o s)[i]
      BY <1>1
    <2>1. CASE i = 1
      BY <1>2, <1>3, <2>1 DEF c
    <2>2. CASE i # 1
      <3>1. i - 1 \in 1 .. n /\ (i - 1) + 1 = i /\ ~ (i <= 1)
        BY <2>2
      <3>2. r[i] = s[i - 1]
        BY <3>1
      <3> QED
        BY <1>3, <3>1, <3>2
    <2> QED
      BY <2>1, <2>2
  <1>5. r = <<c>> \o s
    BY <1>1, <1>3, <1>4, SeqEqual
  <1>6. r # << >>
    BY <1>1, EmptySeq
  <1>7. Tail(r) \in Seq(S) /\ Len(Tail(r)) = n /\ \A i \in 1 .. n : Tail(r)[i] = r[i + 1]
    <2>1. /\ Tail(r) \in Seq(S) /\ Len(Tail(r)) = Len(r) - 1
          /\ \A i \in 1 .. Len(Tail(r)) : Tail(r)[i] = r[i + 1]
      BY <1>1, <1>6, HeadTailProperties
    <2>2. Len(Tail(r)) = n
      BY <1>1, <2>1
    <2> QED
      BY <2>1, <2>2
  <1>8. Tail(r) = s
    <2>1. \A i \in 1 .. Len(s) : s[i] = Tail(r)[i]
      BY <1>1, <1>7
    <2>2. Len(Tail(r)) = Len(s)
      BY <1>1, <1>7
    <2> QED
      BY <1>1, <1>7, <2>1, <2>2, SeqEqual
  <1>9. Head(r) = c
    BY <1>1 DEF c
  <1> QED
    BY <1>5, <1>6, <1>8, <1>9 DEF c

--------------------------------------------------------------------------------
(* Where a candidate comes from.                                                *)

\* An edit adds its id to the current content; a restore takes the content of a
\* version older than its base.
OriginInv(h) ==
    LET t == req[h].tx
    IN  /\ pc[h] \in {"execute", "put", "commit"} /\ t \in Edits =>
             cand[h] = snapshots[version] \cup (IF pc[h] = "execute" THEN {} ELSE {t})
        /\ pc[h] \in {"restoreRead", "restoreLoad", "waiting", "admit", "put", "commit"} /\ t \in Restores =>
             req[h].target \in Versions /\ req[h].target <= version
        /\ pc[h] \in {"waiting", "admit", "put", "commit"} /\ t \in Restores =>
             req[h].target # req[h].base /\ cand[h] = snapshots[req[h].target]
        /\ pc[h] = "execute" => t \notin Restores

FiniteInv == IsFiniteSet(history)

RefInv ==
    /\ CoreInv /\ StackInv /\ BlobInv
    /\ \A h \in Handlers : OriginInv(h)
    /\ FiniteInv

\* What a handler's own step makes of its candidate.
LEMMA StepOrigin ==
  ASSUME CoreInv, StackInv, NEW h \in Handlers, OriginInv(h), Step(h)
  PROVE  OriginInv(h)'
  <1> USE DEF Goto, Answer
  <1>0. HandlerInv(h) /\ TypeOK /\ WholeInv /\ version \in Nat \ {0} /\ version \in Versions
    BY RowTypes DEF CoreInv, StackInv
  <1>1. CASE Arrive(h)
    <2>1. PICK t \in TxIds, b \in 1 .. version :
            \E v \in IF t \in Restores THEN 1 .. version ELSE {0} :
              /\ req' = [req EXCEPT ![h] = [tx |-> t, base |-> b, target |-> v]]
              /\ pc' = [pc EXCEPT ![h] = IF t \in Restores THEN "restoreRead" ELSE "waiting"]
      BY <1>1 DEF Arrive
    <2>2. PICK v \in IF t \in Restores THEN 1 .. version ELSE {0} :
              /\ req' = [req EXCEPT ![h] = [tx |-> t, base |-> b, target |-> v]]
              /\ pc' = [pc EXCEPT ![h] = IF t \in Restores THEN "restoreRead" ELSE "waiting"]
      BY <2>1
    <2>3. /\ req'[h] = [tx |-> t, base |-> b, target |-> v] /\ version' = version
          /\ pc'[h] = IF t \in Restores THEN "restoreRead" ELSE "waiting"
      BY <1>0, <1>1, <2>2 DEF TypeOK, Arrive, dbVars
    <2>4. req'[h].tx = t /\ req'[h].target = v
      BY <2>3
    <2>5. t \in Restores => v \in Versions /\ v <= version
      BY <1>0, ConstantsAssumption DEF Versions
    <2> QED
      BY <2>3, <2>4, <2>5 DEF OriginInv
  <1>2. CASE RestoreRead(h) \/ Acquire(h)
    BY <1>0, <1>2 DEF RestoreRead, Acquire, OriginInv, TypeOK, dbVars
  <1>3. CASE RestoreLoad(h)
    <2>1. UNCHANGED <<dbVars, blobs, req>> /\ pc[h] = "restoreLoad" /\ pc'[h] \in {"earlyReply", "waiting"}
      BY <1>0, <1>3 DEF RestoreLoad, EarlyAnswer, TypeOK
    <2>2. CASE pc'[h] = "waiting"
      <3>1. /\ reply[h].revision = req[h].base /\ ~ (reply[h].revision = req[h].base /\ req[h].target = reply[h].revision)
            /\ blobs[req[h].target] # NoBlob /\ cand'[h] = blobs[req[h].target]
        BY <1>0, <1>3, <2>2 DEF RestoreLoad, EarlyAnswer, TypeOK
      <3>2. req[h].target # req[h].base
        BY <3>1
      <3>3. req[h].tx \in Restores => cand'[h] = snapshots[req[h].target]
        BY <1>0, <2>1, <3>1 DEF OriginInv, WholeInv
      <3> QED
        BY <2>1, <2>2, <3>2, <3>3 DEF OriginInv, dbVars
    <2>3. CASE pc'[h] = "earlyReply"
      BY <2>3 DEF OriginInv
    <2> QED
      BY <2>1, <2>2, <2>3
  <1>4. CASE Admit(h)
    <2>1. UNCHANGED <<dbVars, blobs, req>> /\ pc[h] = "admit" /\ pc'[h] \in {"reply", "execute", "put"}
      BY <1>0, <1>4 DEF Admit, TypeOK
    <2>2. CASE pc'[h] = "reply"
      BY <2>2 DEF OriginInv
    <2>3. CASE pc'[h] \in {"execute", "put"}
      <3>1. ~LoadFails(h)
        BY <1>0, <1>4, <2>3 DEF Admit, TypeOK
      <3>2. /\ cand' = IF req[h].tx \in Restores THEN cand ELSE [cand EXCEPT ![h] = blobs[version]]
            /\ pc'[h] = IF req[h].tx \in Restores THEN "put" ELSE "execute"
        BY <1>0, <1>4, <2>3 DEF Admit, TypeOK
      <3>3. CASE req[h].tx \in Restores
        <4>1. req[h].tx \notin Edits
          BY <3>3, ConstantsAssumption
        <4> QED
          BY <2>1, <3>2, <3>3, <4>1 DEF OriginInv, dbVars
      <3>4. CASE req[h].tx \notin Restores
        <4>1. blobs[version] = snapshots[version]
          BY <1>0, <3>1, <3>4 DEF LoadFails, WholeInv
        <4>2. cand'[h] = snapshots[version]
          BY <1>0, <3>2, <3>4, <4>1 DEF TypeOK
        <4>3. pc'[h] = "execute" /\ req' = req /\ version' = version /\ snapshots' = snapshots
          BY <2>1, <3>2, <3>4 DEF dbVars
        <4>4. snapshots[version] = snapshots[version] \cup {}
          OBVIOUS
        <4> QED
          BY <3>4, <4>2, <4>3, <4>4 DEF OriginInv
      <3> QED
        BY <3>3, <3>4
    <2> QED
      BY <2>1, <2>2, <2>3
  <1>5. CASE ExecuteEdit(h)
    <2>1. UNCHANGED <<dbVars, blobs, req>> /\ pc[h] = "execute" /\ pc'[h] \in {"reply", "put"} /\ req[h].tx \in Edits
      BY <1>0, <1>5 DEF ExecuteEdit, TypeOK
    <2>2. CASE pc'[h] = "reply"
      BY <2>2 DEF OriginInv
    <2>3. CASE pc'[h] = "put"
      <3>1. cand'[h] = cand[h] \cup {req[h].tx}
        BY <1>0, <1>5, <2>3 DEF ExecuteEdit, TypeOK
      <3>2. cand[h] = snapshots[version]
        BY <2>1 DEF OriginInv
      <3>3. req[h].tx \notin Restores
        BY <2>1, ConstantsAssumption
      <3> QED
        BY <2>1, <2>3, <3>1, <3>2, <3>3 DEF OriginInv, dbVars
    <2> QED
      BY <2>1, <2>2, <2>3
  <1>6. CASE ExecuteUndo(h) \/ ExecuteRedo(h)
    <2>1. req' = req /\ pc'[h] \in {"reply", "put"} /\ req[h].tx \in Undos \cup Redos
      BY <1>0, <1>6 DEF ExecuteUndo, ExecuteRedo, NothingToDo, CopySnapshot, TypeOK
    <2>2. req'[h].tx \notin Edits /\ req'[h].tx \notin Restores
      BY <2>1, ConstantsAssumption
    <2> QED
      BY <2>1, <2>2 DEF OriginInv
  <1>7. CASE PutSnapshot(h)
    <2>1. UNCHANGED <<dbVars, req, cand>> /\ pc[h] = "put" /\ pc'[h] \in {"reply", "commit"}
      BY <1>0, <1>7 DEF PutSnapshot, TypeOK
    <2> QED
      BY <2>1 DEF OriginInv, dbVars
  <1>8. CASE Commit(h) \/ ReadBack(h) \/ Discard(h) \/ Respond(h) \/ Cancel(h)
    <2>1. pc'[h] \in {"readBack", "discard", "reply", "idle"}
      BY <1>0, <1>8 DEF Commit, ReadBack, Discard, Respond, Cancel, Forget, TypeOK
    <2> QED
      BY <2>1 DEF OriginInv
  <1> QED
    BY <1>1, <1>2, <1>3, <1>4, <1>5, <1>6, <1>7, <1>8 DEF Step

\* A commit ends no other handler's claim: that one is outside the lock.
LEMMA OthersKeepOrigin ==
  ASSUME CoreInv, NEW h \in Handlers, Step(h), NEW k \in Handlers, k # h, OriginInv(k)
  PROVE  OriginInv(k)'
  <1>1. /\ pc'[k] = pc[k] /\ req'[k] = req[k] /\ cand'[k] = cand[k]
        /\ UNCHANGED dbVars \/ Commit(h)
    BY OthersStay
  <1>2. CASE UNCHANGED dbVars
    BY <1>1, <1>2 DEF OriginInv, dbVars
  <1>3. CASE Commit(h) /\ ~ UNCHANGED dbVars
    <2>1. pc[k] \notin Locked
      BY <1>3 DEF CoreInv, LockInv, Commit, Locked
    <2>2. pc[k] \notin {"execute", "put", "commit", "admit"}
      BY <2>1 DEF Locked
    <2>3. /\ version' = version + 1 /\ version \in Nat
          /\ \A v \in Versions : v <= version => snapshots'[v] = snapshots[v]
      BY <1>3, CommitRows, SnapshotsAfter, RowTypes
    <2>4. \A v \in Versions : v <= version => v <= version'
      BY <2>3 DEF Versions
    <2> QED
      BY <1>1, <2>2, <2>3, <2>4 DEF OriginInv
  <1> QED
    BY <1>1, <1>2, <1>3

LEMMA NextFinite == CoreInv /\ StackInv /\ FiniteInv /\ [Next]_vars => FiniteInv'
  <1> SUFFICES ASSUME CoreInv, StackInv, FiniteInv, [Next]_vars PROVE FiniteInv'
    OBVIOUS
  <1>1. CASE UNCHANGED dbVars
    BY <1>1 DEF FiniteInv, dbVars
  <1>2. ASSUME NEW h \in Handlers, Commit(h), ~ UNCHANGED dbVars PROVE FiniteInv'
    <2>1. history' = HistoryAfter(h) /\ RowsMatch(h)
      BY <1>2, CommitRows
    <2>2. IsFiniteSet(Active)
      <3>1. Active \in SUBSET history
        BY DEF Active
      <3> QED
        BY <3>1, FS_Subset DEF FiniteInv
    <2>3. CASE req[h].tx \notin Undos \cup Redos
      <3>1. history' = Active \cup {[before |-> version, after |-> version + 1, undone |-> FALSE]}
        BY <2>1, <2>3 DEF HistoryAfter
      <3> QED
        BY <2>2, <3>1, FS_AddElement DEF FiniteInv
    <2>4. CASE req[h].tx \in Undos \cup Redos
      <3>1. PICK t \in history : t.after = entry[h]
        BY <2>1, <2>4 DEF RowsMatch, RowChosen, Active, Undone
      <3>2. history' = WithMoved(entry[h], req[h].tx \in Undos)
        BY <2>1, <2>4 DEF HistoryAfter, WithMoved
      <3>3. version' = version + 1
        BY <1>2, CommitRows
      <3>4. history' = (history \ {t}) \cup {Moved(t, req[h].tx \in Undos)}
        BY <3>1, <3>2, <3>3, RowsMoved DEF StackInv
      <3>5. IsFiniteSet(history \ {t})
        BY FS_RemoveElement DEF FiniteInv
      <3> QED
        BY <3>4, <3>5, FS_AddElement DEF FiniteInv
    <2> QED
      BY <2>3, <2>4
  <1> QED
    BY <1>1, <1>2, RowsChangeByCommit

LEMMA NextRef == ~ReadBackMayFail => (RefInv /\ [Next]_vars => RefInv')
  <1> SUFFICES ASSUME ~ReadBackMayFail, RefInv, [Next]_vars PROVE RefInv'
    OBVIOUS
  <1>1. CoreInv /\ StackInv /\ BlobInv /\ FiniteInv
    BY DEF RefInv
  <1>2. CoreInv' /\ StackInv' /\ BlobInv' /\ FiniteInv'
    BY <1>1, NextCore, NextStack, NextBlob, NextFinite
  <1>3. ASSUME NEW h \in Handlers, Step(h), NEW k \in Handlers PROVE OriginInv(k)'
    <2>1. OriginInv(k)
      BY DEF RefInv
    <2> QED
      BY <1>1, <1>3, <2>1, StepOrigin, OthersKeepOrigin
  <1>4. ASSUME Restart \/ RestartWithBlobGc \/ UNCHANGED vars, NEW k \in Handlers PROVE OriginInv(k)'
    <2>1. OriginInv(k)
      BY DEF RefInv
    <2>2. UNCHANGED dbVars
      BY <1>4 DEF Restart, RestartWithBlobGc, vars
    <2>3. pc'[k] = "idle" \/ (pc'[k] = pc[k] /\ req'[k] = req[k] /\ cand'[k] = cand[k])
      BY <1>4 DEF Restart, RestartWithBlobGc, vars, handlerVars
    <2> QED
      BY <2>1, <2>2, <2>3 DEF OriginInv, dbVars
  <1>5. \A k \in Handlers : OriginInv(k)'
    BY <1>3, <1>4 DEF Next
  <1> QED
    BY <1>2, <1>5 DEF RefInv

LEMMA InitRef == Init => RefInv
  <1> SUFFICES ASSUME Init PROVE RefInv
    OBVIOUS
  <1>1. CoreInv
    BY InitCore
  <1>2. StackInv
    BY ConstantsAssumption
    DEF Init, StackInv, RowsInv, HistoryIsAStack, WholeInv, CopyInv, Active, Undone, Follows
  <1>3. BlobInv
    BY DEF Init, BlobInv
  <1>4. \A h \in Handlers : OriginInv(h)
    BY DEF Init, OriginInv
  <1>5. FiniteInv
    BY FS_EmptySet DEF Init, FiniteInv
  <1> QED
    BY <1>1, <1>2, <1>3, <1>4, <1>5 DEF RefInv

--------------------------------------------------------------------------------
(* What the abstract variables are, in terms of the rows alone.                 *)

Befores(rows, contents) == [i \in 1 .. Cardinality(rows) |-> contents[Row(rows, i).before]]
Afters(rows, contents)  == [i \in 1 .. Cardinality(rows) |-> contents[Row(rows, i).after]]

LogOf  == [v \in 1 .. version |-> snapshots[v]]
UndoOf == Befores(Active, snapshots)
RedoOf == Afters(Undone, snapshots)

LEMMA RowsAreOrdered ==
  ASSUME CoreInv, RowsInv, FiniteInv
  PROVE  Ordered(Active) /\ Ordered(Undone)
  <1>1. Active \in SUBSET history /\ Undone \in SUBSET history
    BY DEF Active, Undone
  <1>2. IsFiniteSet(Active) /\ IsFiniteSet(Undone)
    BY <1>1, FS_Subset DEF FiniteInv
  <1>3. \A e \in history : e.after \in Nat
    BY RowTypes
  <1> QED
    BY <1>1, <1>2, <1>3 DEF Ordered, RowsInv

\* Every row points to registered versions.
LEMMA RowsPointToLog ==
  ASSUME CoreInv, RowsInv
  PROVE  \A e \in history : /\ e.before \in Versions /\ e.before <= version
                            /\ e.after \in Versions /\ e.after <= version
  BY RowTypes DEF RowsInv

LEMMA StoredIsMeant ==
  ASSUME RefInv
  PROVE  Revisions = LogOf /\ UndoStack = UndoOf /\ RedoStack = RedoOf
  <1>1. CoreInv /\ RowsInv /\ FiniteInv /\ \A v \in Versions : v <= version => blobs[v] = snapshots[v]
    BY DEF RefInv, StackInv, BlobInv
  <1>2. \A v \in 1 .. version : v \in Versions /\ v <= version
    BY <1>1, RowTypes, ConstantsAssumption DEF Versions
  <1>3. Revisions = LogOf
    BY <1>1, <1>2 DEF Revisions, LogOf
  <1>4. Ordered(Active) /\ Ordered(Undone)
    BY <1>1, RowsAreOrdered
  <1>5. \A i \in 1 .. Cardinality(Active) : Row(Active, i) \in history
    BY <1>4, RowIsThere DEF Active
  <1>6. \A i \in 1 .. Cardinality(Undone) : Row(Undone, i) \in history
    BY <1>4, RowIsThere DEF Undone
  <1>7. \A e \in history : blobs[e.before] = snapshots[e.before] /\ blobs[e.after] = snapshots[e.after]
    BY <1>1, RowsPointToLog
  <1>8. UndoStack = UndoOf
    BY <1>5, <1>7 DEF UndoStack, UndoOf, Befores
  <1>9. RedoStack = RedoOf
    BY <1>6, <1>7 DEF RedoStack, RedoOf, Afters
  <1> QED
    BY <1>3, <1>8, <1>9

\* The three sequences hold contents, as many as there are versions and rows.
LEMMA SequenceTypes ==
  ASSUME CoreInv, RowsInv, FiniteInv
  PROVE  /\ LogOf \in [1 .. version -> Content]
         /\ Cardinality(Active) \in Nat /\ Cardinality(Undone) \in Nat
         /\ UndoOf \in [1 .. Cardinality(Active) -> Content]
         /\ RedoOf \in [1 .. Cardinality(Undone) -> Content]
         /\ \A i \in 1 .. Cardinality(Active) : Row(Active, i) \in Active
         /\ \A i \in 1 .. Cardinality(Undone) : Row(Undone, i) \in Undone
  <1>1. \A v \in Versions : v <= version => snapshots[v] \in Content
    BY DEF CoreInv, RegistryInv, Registered, TypeOK, Blob
  <1>2. \A v \in 1 .. version : v \in Versions /\ v <= version
    BY RowTypes, ConstantsAssumption DEF Versions
  <1>3. LogOf \in [1 .. version -> Content]
    BY <1>1, <1>2 DEF LogOf
  <1>4. Ordered(Active) /\ Ordered(Undone)
    BY RowsAreOrdered
  <1>5. Cardinality(Active) \in Nat /\ Cardinality(Undone) \in Nat
    BY <1>4, FS_CardinalityType DEF Ordered
  <1>6. \A i \in 1 .. Cardinality(Active) : Row(Active, i) \in Active
    BY <1>4, RowIsThere
  <1>7. \A i \in 1 .. Cardinality(Undone) : Row(Undone, i) \in Undone
    BY <1>4, RowIsThere
  <1>8. \A e \in history : snapshots[e.before] \in Content /\ snapshots[e.after] \in Content
    BY <1>1, RowsPointToLog
  <1>9. UndoOf \in [1 .. Cardinality(Active) -> Content]
    BY <1>6, <1>8 DEF UndoOf, Befores, Active
  <1>10. RedoOf \in [1 .. Cardinality(Undone) -> Content]
    BY <1>7, <1>8 DEF RedoOf, Afters, Undone
  <1> QED
    BY <1>3, <1>5, <1>6, <1>7, <1>9, <1>10

\* The log's last entry is the current content.
LEMMA CurrentIs ==
  ASSUME CoreInv, RowsInv, FiniteInv
  PROVE  Len(LogOf) = version /\ LogOf[Len(LogOf)] = snapshots[version]
  <1>1. LogOf \in [1 .. version -> Content] /\ version \in Nat \ {0}
    BY SequenceTypes, RowTypes
  <1>2. Len(LogOf) = version
    BY <1>1, FunctionIsSeq
  <1>3. version \in 1 .. version
    BY <1>1
  <1> QED
    BY <1>2, <1>3 DEF LogOf

\* A commit appends its candidate to the log and its id to what took effect.
LEMMA CommitAppends ==
  ASSUME RefInv, RefInv', NEW h \in Handlers, Commit(h), ~ UNCHANGED dbVars
  PROVE  /\ req[h].tx \in TxIds /\ req[h].tx \notin Applied
         /\ Applied' = Applied \cup {req[h].tx}
         /\ LogOf' = Append(LogOf, cand[h])
         /\ \A e \in history : snapshots'[e.before] = snapshots[e.before] /\ snapshots'[e.after] = snapshots[e.after]
  <1>1. /\ version' = version + 1 /\ version' \in Versions
        /\ req[h].tx \in TxIds /\ transactions[req[h].tx] = 0
        /\ transactions' = [transactions EXCEPT ![req[h].tx] = version + 1]
        /\ snapshots' = [snapshots EXCEPT ![version + 1] = cand[h]]
    BY CommitRows DEF RefInv
  <1>2. CoreInv /\ RowsInv /\ FiniteInv /\ CoreInv' /\ RowsInv' /\ FiniteInv'
    BY DEF RefInv, StackInv
  <1>3. version \in Nat \ {0} /\ version' \in Nat
    BY <1>1, <1>2, RowTypes
  <1>4. Applied' = Applied \cup {req[h].tx} /\ req[h].tx \notin Applied
    <2>1. transactions \in [TxIds -> 0 .. MaxVersion] /\ version + 1 # 0
      BY <1>2, <1>3 DEF CoreInv, TypeOK
    <2>2. \A t \in TxIds : transactions'[t] = IF t = req[h].tx THEN version + 1 ELSE transactions[t]
      BY <1>1, <2>1
    <2> QED
      BY <1>1, <2>1, <2>2 DEF Applied, Committed
  <1>5. snapshots'[version'] = cand[h] /\ \A v \in Versions : v <= version => snapshots'[v] = snapshots[v]
    BY <1>1, <1>2, SnapshotsAfter
  <1>6. LogOf' = Append(LogOf, cand[h])
    <2>1. LogOf \in [1 .. version -> Content]
      BY <1>2, SequenceTypes
    <2>2. LogOf' \in [1 .. version' -> Content]
      <3>1. \A v \in Versions : v <= version' => snapshots'[v] \in Content
        BY <1>2 DEF CoreInv, RegistryInv, Registered, TypeOK, Blob
      <3>2. \A v \in 1 .. version' : v \in Versions /\ v <= version'
        BY <1>1, <1>3, ConstantsAssumption DEF Versions
      <3> QED
        BY <3>1, <3>2 DEF LogOf
    <2>3. LogOf' \in [1 .. version + 1 -> Content]
      BY <1>1, <2>2
    <2>4. \A v \in 1 .. version : LogOf'[v] = LogOf[v]
      <3>1. \A v \in 1 .. version : v \in 1 .. version' /\ v \in Versions /\ v <= version
        BY <1>1, <1>2, <1>3, RowTypes, ConstantsAssumption DEF Versions
      <3> QED
        BY <1>5, <3>1 DEF LogOf
    <2>5. LogOf'[version + 1] = cand[h]
      <3>1. version' \in 1 .. version'
        BY <1>1, <1>3
      <3> QED
        BY <1>1, <1>5, <3>1 DEF LogOf
    <2> QED
      BY <1>3, <2>1, <2>3, <2>4, <2>5, AppendIs
  <1>7. \A e \in history : snapshots'[e.before] = snapshots[e.before] /\ snapshots'[e.after] = snapshots[e.after]
    BY <1>2, <1>5, RowsPointToLog
  <1> QED
    BY <1>1, <1>4, <1>6, <1>7

\* r is q with c at its end, or at its front.
Pushed(q, c, r) ==
    /\ r = Append(q, c) /\ q = SubSeq(r, 1, Len(r) - 1)
    /\ r # << >> /\ r[Len(r)] = c

Prepended(q, c, r) == r = <<c>> \o q /\ r # << >> /\ Head(r) = c /\ Tail(r) = q

OnTop(rows, t, C, s, s2) ==
    /\ Ordered(rows) /\ t.after \in Nat /\ \A e \in rows : e.after < t.after
    /\ \A e \in rows : s[e.before] \in C /\ s2[e.before] = s[e.before]
    /\ s2[t.before] \in C

Below(rows, t, C, s, s2) ==
    /\ Ordered(rows) /\ t.after \in Nat /\ \A e \in rows : t.after < e.after
    /\ \A e \in rows : s[e.after] \in C /\ s2[e.after] = s[e.after]
    /\ s2[t.after] \in C

\* A row on top of the others puts its content at the end ...
LEMMA PushBefore ==
  ASSUME NEW rows, NEW t, NEW C, NEW s, NEW s2, OnTop(rows, t, C, s, s2)
  PROVE  Pushed(Befores(rows, s), s2[t.before], Befores(rows \cup {t}, s2))
  <1> DEFINE n == Cardinality(rows)
             more == rows \cup {t}
             r == Befores(more, s2)
             q == Befores(rows, s)
  <1>0. /\ Ordered(rows) /\ t.after \in Nat /\ \A e \in rows : e.after < t.after
        /\ \A e \in rows : s[e.before] \in C /\ s2[e.before] = s[e.before]
        /\ s2[t.before] \in C
    BY DEF OnTop
  <1>1. /\ n \in Nat /\ Cardinality(more) = n + 1
        /\ \A i \in 1 .. n : Row(more, i) = Row(rows, i)
        /\ Row(more, n + 1) = t
    BY <1>0, RowOnTop
  <1>2. \A i \in 1 .. n : Row(rows, i) \in rows
    BY <1>0, RowIsThere
  <1> HIDE DEF n, more
  <1>3. q = [i \in 1 .. n |-> s[Row(rows, i).before]]
    BY DEF Befores, n
  <1>4. r = [i \in 1 .. n + 1 |-> s2[Row(more, i).before]]
    BY <1>1 DEF Befores
  <1> HIDE DEF q, r
  <1>5. q \in [1 .. n -> C]
    BY <1>0, <1>2, <1>3
  <1>6. n + 1 \in 1 .. n + 1 /\ \A i \in 1 .. n : i \in 1 .. n + 1
    BY <1>1
  <1>7. r[n + 1] = s2[t.before]
    BY <1>1, <1>4, <1>6
  <1>8. \A i \in 1 .. n : r[i] = q[i]
    BY <1>0, <1>1, <1>2, <1>3, <1>4, <1>6
  <1>9. r \in [1 .. n + 1 -> C]
    <2>1. \A i \in 1 .. n + 1 : i \in 1 .. n \/ i = n + 1
      BY <1>1
    <2>2. \A i \in 1 .. n + 1 : r[i] \in C
      BY <1>0, <1>5, <1>7, <1>8, <2>1
    <2> QED
      BY <1>4, <2>2
  <1>10. /\ r = Append(q, r[n + 1]) /\ q = SubSeq(r, 1, Len(r) - 1)
         /\ r # << >> /\ r[Len(r)] = r[n + 1]
    BY <1>1, <1>5, <1>8, <1>9, AppendIs
  <1> QED
    BY <1>7, <1>10 DEF Pushed, q, r, more

\* ... and a row below them at the front.
LEMMA PrependAfter ==
  ASSUME NEW rows, NEW t, NEW C, NEW s, NEW s2, Below(rows, t, C, s, s2)
  PROVE  Prepended(Afters(rows, s), s2[t.after], Afters(rows \cup {t}, s2))
  <1> DEFINE n == Cardinality(rows)
             more == rows \cup {t}
             r == Afters(more, s2)
             q == Afters(rows, s)
  <1>0. /\ Ordered(rows) /\ t.after \in Nat /\ \A e \in rows : t.after < e.after
        /\ \A e \in rows : s[e.after] \in C /\ s2[e.after] = s[e.after]
        /\ s2[t.after] \in C
    BY DEF Below
  <1>1. /\ n \in Nat /\ Cardinality(more) = n + 1
        /\ \A i \in 1 .. n : Row(more, i + 1) = Row(rows, i)
        /\ Row(more, 1) = t
    BY <1>0, RowAtBottom
  <1>2. \A i \in 1 .. n : Row(rows, i) \in rows
    BY <1>0, RowIsThere
  <1> HIDE DEF n, more
  <1>3. q = [i \in 1 .. n |-> s[Row(rows, i).after]]
    BY DEF Afters, n
  <1>4. r = [i \in 1 .. n + 1 |-> s2[Row(more, i).after]]
    BY <1>1 DEF Afters
  <1> HIDE DEF q, r
  <1>5. q \in [1 .. n -> C]
    BY <1>0, <1>2, <1>3
  <1>6. 1 \in 1 .. n + 1 /\ \A i \in 1 .. n : i + 1 \in 1 .. n + 1
    BY <1>1
  <1>7. r[1] = s2[t.after]
    BY <1>1, <1>4, <1>6
  <1>8. \A i \in 1 .. n : r[i + 1] = q[i]
    BY <1>0, <1>1, <1>2, <1>3, <1>4, <1>6
  <1>9. r \in [1 .. n + 1 -> C]
    <2>1. ASSUME NEW i \in 1 .. n + 1 PROVE r[i] \in C
      <3>1. CASE i = 1
        BY <1>0, <1>7, <3>1
      <3>2. CASE i # 1
        <4>1. i - 1 \in 1 .. n /\ i = (i - 1) + 1
          BY <1>1, <3>2
        <4>2. r[i] = q[i - 1]
          BY <1>8, <4>1
        <4> QED
          BY <1>5, <4>1, <4>2
      <3> QED
        BY <3>1, <3>2
    <2> QED
      BY <1>4, <2>1
  <1>10. r = <<r[1]>> \o q /\ r # << >> /\ Head(r) = r[1] /\ Tail(r) = q
    BY <1>1, <1>5, <1>8, <1>9, PrependIs
  <1> QED
    BY <1>7, <1>10 DEF Prepended, q, r, more

--------------------------------------------------------------------------------
(* The commits.                                                                 *)

\* The facts every commit starts from.
LEMMA CommitFacts ==
  ASSUME RefInv, RefInv', NEW h \in Handlers, Commit(h), ~ UNCHANGED dbVars
  PROVE  /\ version \in Nat \ {0} /\ version' = version + 1
         /\ Ordered(Active) /\ Ordered(Undone) /\ Ordered(Active') /\ Ordered(Undone')
         /\ \A e \in history : /\ e.after \in Nat /\ e.after <= version
                               /\ snapshots[e.before] \in Content /\ snapshots[e.after] \in Content
                               /\ snapshots'[e.before] = snapshots[e.before]
                               /\ snapshots'[e.after] = snapshots[e.after]
         /\ snapshots[version] \in Content /\ snapshots'[version] = snapshots[version]
  <1>1. CoreInv /\ RowsInv /\ FiniteInv /\ CoreInv' /\ RowsInv' /\ FiniteInv'
    BY DEF RefInv, StackInv
  <1>2. /\ version' = version + 1 /\ version' \in Versions
        /\ snapshots' = [snapshots EXCEPT ![version + 1] = cand[h]]
    BY <1>1, CommitRows
  <1>3. version \in Nat \ {0} /\ version \in Versions
    BY <1>1, RowTypes
  <1>4. Ordered(Active) /\ Ordered(Undone) /\ Ordered(Active') /\ Ordered(Undone')
    <2>1. Ordered(Active) /\ Ordered(Undone)
      BY <1>1, RowsAreOrdered
    <2>2. Active' \in SUBSET history' /\ Undone' \in SUBSET history'
      BY DEF Active, Undone
    <2>3. IsFiniteSet(Active') /\ IsFiniteSet(Undone')
      BY <1>1, <2>2, FS_Subset DEF FiniteInv
    <2>4. \A e \in history' : e.after \in Nat
      BY <1>1, ConstantsAssumption DEF CoreInv, TypeOK, HistoryRow, Versions
    <2>5. \A e, f \in history' : e.after = f.after => e = f
      BY <1>1 DEF RowsInv
    <2> QED
      BY <2>1, <2>2, <2>3, <2>4, <2>5 DEF Ordered
  <1>5. \A v \in Versions : v <= version => snapshots[v] \in Content /\ snapshots'[v] = snapshots[v]
    <2>1. \A v \in Versions : v <= version => snapshots[v] \in Content
      BY <1>1 DEF CoreInv, RegistryInv, Registered, TypeOK, Blob
    <2> QED
      BY <1>1, <1>2, <2>1, SnapshotsAfter
  <1>6. \A e \in history : /\ e.before \in Versions /\ e.before <= version
                           /\ e.after \in Versions /\ e.after <= version /\ e.after \in Nat
    BY <1>1, RowsPointToLog, RowTypes
  <1>7. \A e \in history : /\ snapshots[e.before] \in Content /\ snapshots[e.after] \in Content
                           /\ snapshots'[e.before] = snapshots[e.before]
                           /\ snapshots'[e.after] = snapshots[e.after]
    BY <1>5, <1>6
  <1>8. version <= version
    BY <1>3
  <1>9. snapshots[version] \in Content /\ snapshots'[version] = snapshots[version]
    BY <1>3, <1>5, <1>8
  <1> QED
    BY <1>2, <1>3, <1>4, <1>6, <1>7, <1>9

\* An edit or a restore starts a new branch.
LEMMA CommitBranches ==
  ASSUME RefInv, RefInv', NEW h \in Handlers, Commit(h), ~ UNCHANGED dbVars,
         req[h].tx \notin Undos \cup Redos
  PROVE  UndoOf' = Append(UndoOf, snapshots[version]) /\ RedoOf' = << >>
  <1> DEFINE new == [before |-> version, after |-> version + 1, undone |-> FALSE]
  <1>1. history' = Active \cup {new}
    BY CommitRows DEF RefInv, HistoryAfter
  <1>2. new.before = version /\ new.after = version + 1 /\ new.undone = FALSE
    OBVIOUS
  <1> HIDE DEF new
  <1>3. Active' = Active \cup {new} /\ Undone' = {}
    BY <1>1, <1>2 DEF Active, Undone
  <1>4. \A e \in Active : /\ e.after < new.after
                          /\ snapshots[e.before] \in Content /\ snapshots'[e.before] = snapshots[e.before]
    <2> SUFFICES ASSUME NEW e \in Active
                 PROVE  /\ e.after < new.after
                        /\ snapshots[e.before] \in Content /\ snapshots'[e.before] = snapshots[e.before]
      OBVIOUS
    <2>1. e \in history
      BY DEF Active
    <2>2. /\ e.after \in Nat /\ e.after <= version /\ version \in Nat
          /\ snapshots[e.before] \in Content /\ snapshots'[e.before] = snapshots[e.before]
      BY <2>1, CommitFacts
    <2>3. e.after < version + 1
      BY <2>2
    <2> QED
      BY <1>2, <2>2, <2>3
  <1>5. new.after \in Nat /\ snapshots'[new.before] = snapshots[version] /\ snapshots[version] \in Content
    BY <1>2, CommitFacts
  <1>6. Ordered(Active)
    BY CommitFacts
  <1>7. Pushed(Befores(Active, snapshots), snapshots'[new.before], Befores(Active \cup {new}, snapshots'))
    <2>1. OnTop(Active, new, Content, snapshots, snapshots')
      BY <1>4, <1>5, <1>6 DEF OnTop
    <2> QED
      BY <2>1, PushBefore
  <1>8. RedoOf' = << >>
    <2>1. Cardinality(Undone') = 0
      BY <1>3, NoRows
    <2>2. DOMAIN RedoOf' = {}
      BY <2>1 DEF RedoOf, Afters
    <2>3. RedoOf' = [i \in 1 .. 0 |-> snapshots'[Row(Undone', i).after]]
      BY <2>1 DEF RedoOf, Afters
    <2>4. RedoOf' \in [1 .. 0 -> Content]
      BY <2>3
    <2>5. RedoOf' \in Seq(Content) /\ Len(RedoOf') = 0
      BY <2>4, FunctionIsSeq
    <2> QED
      BY <2>5, EmptySeq
  <1> QED
    BY <1>3, <1>5, <1>7, <1>8 DEF UndoOf, Pushed

\* An undo takes the content at the end of the undo stack and leaves the current
\* one at the front of the redo stack.
LEMMA CommitUndoes ==
  ASSUME RefInv, RefInv', NEW h \in Handlers, Commit(h), ~ UNCHANGED dbVars, req[h].tx \in Undos
  PROVE  /\ UndoOf # << >> /\ cand[h] = UndoOf[Len(UndoOf)]
         /\ UndoOf' = SubSeq(UndoOf, 1, Len(UndoOf) - 1)
         /\ RedoOf' = <<snapshots[version]>> \o RedoOf
  <1>1. CoreInv /\ RowsInv /\ HistoryIsAStack /\ CopyInv(h) /\ pc[h] = "commit"
    BY DEF RefInv, StackInv, Commit
  <1>2. PICK t \in Active : NextUndo(t) /\ entry[h] = t.after /\ cand[h] = snapshots[t.before]
    BY <1>1 DEF CopyInv
  <1>3. t \in history /\ ~t.undone
    BY DEF Active
  <1> DEFINE moved == Moved(t, req[h].tx \in Undos)
  <1>4. /\ history' = (history \ {t}) \cup {moved}
        /\ moved.after = t.after /\ moved.undone = TRUE
    <2>1. history' = WithMoved(entry[h], req[h].tx \in Undos) /\ version' = version + 1
      BY <1>1, CommitRows DEF HistoryAfter, WithMoved
    <2>2. history' = (history \ {t}) \cup {moved}
      BY <1>1, <1>2, <1>3, <2>1, RowsMoved
    <2>3. moved.after = t.after
      BY DEF Moved
    <2>4. moved.undone = TRUE
      BY DEF Moved
    <2> QED
      BY <2>2, <2>3, <2>4
  <1> HIDE DEF moved
  <1>5. Active' = Active \ {t} /\ Undone' = Undone \cup {moved}
    BY <1>3, <1>4 DEF Active, Undone
  <1>6. Active = Active' \cup {t}
    BY <1>5
  <1>7. \A e \in history : /\ e.after \in Nat
                           /\ snapshots[e.before] \in Content /\ snapshots[e.after] \in Content
                           /\ snapshots'[e.before] = snapshots[e.before]
                           /\ snapshots'[e.after] = snapshots[e.after]
    BY CommitFacts
  <1>8. \A e \in Active' : e.after < t.after
    <2> SUFFICES ASSUME NEW e \in Active' PROVE e.after < t.after
      OBVIOUS
    <2>1. e \in Active /\ e \in history /\ e # t
      BY <1>5 DEF Active
    <2>2. e.after <= t.after /\ e.after # t.after
      BY <1>1, <1>2, <1>3, <2>1 DEF NextUndo, RowsInv
    <2> QED
      BY <1>3, <1>7, <2>1, <2>2
  <1>9. \A e \in Undone : moved.after < e.after
    <2> SUFFICES ASSUME NEW e \in Undone PROVE t.after < e.after
      BY <1>4
    <2>1. e \in history /\ e.undone /\ e # t
      BY <1>3 DEF Undone
    <2>2. ~ (e.after < t.after) /\ e.after # t.after
      BY <1>1, <1>3, <2>1 DEF HistoryIsAStack, RowsInv
    <2> QED
      BY <1>3, <1>7, <2>1, <2>2
  <1>10. Ordered(Active') /\ Ordered(Undone)
    BY CommitFacts
  <1>11. Pushed(Befores(Active', snapshots'), snapshots[t.before], Befores(Active' \cup {t}, snapshots))
    <2>1. \A e \in Active' : snapshots'[e.before] \in Content /\ snapshots[e.before] = snapshots'[e.before]
      BY <1>5, <1>7 DEF Active
    <2>2. t.after \in Nat /\ snapshots[t.before] \in Content
      BY <1>3, <1>7
    <2>3. OnTop(Active', t, Content, snapshots', snapshots)
      BY <1>8, <1>10, <2>1, <2>2 DEF OnTop
    <2> QED
      BY <2>3, PushBefore
  <1>12. /\ Befores(Active', snapshots') = SubSeq(UndoOf, 1, Len(UndoOf) - 1)
         /\ UndoOf # << >> /\ UndoOf[Len(UndoOf)] = snapshots[t.before]
    BY <1>6, <1>11 DEF UndoOf, Pushed
  <1>13. Prepended(Afters(Undone, snapshots), snapshots'[moved.after], Afters(Undone \cup {moved}, snapshots'))
    <2>1. \A e \in Undone : snapshots[e.after] \in Content /\ snapshots'[e.after] = snapshots[e.after]
      BY <1>7 DEF Undone
    <2>2. moved.after \in Nat /\ snapshots'[moved.after] \in Content
      BY <1>3, <1>4, <1>7
    <2>3. Below(Undone, moved, Content, snapshots, snapshots')
      BY <1>9, <1>10, <2>1, <2>2 DEF Below
    <2> QED
      BY <2>3, PrependAfter
  <1>14. snapshots'[moved.after] = snapshots[version]
    BY <1>1, <1>2, <1>3, <1>4, <1>7 DEF HistoryIsAStack
  <1> QED
    BY <1>2, <1>5, <1>12, <1>13, <1>14 DEF UndoOf, RedoOf, Pushed, Prepended

\* A redo takes the content at the front of the redo stack and leaves the current
\* one at the end of the undo stack.
LEMMA CommitRedoes ==
  ASSUME RefInv, RefInv', NEW h \in Handlers, Commit(h), ~ UNCHANGED dbVars, req[h].tx \in Redos
  PROVE  /\ RedoOf # << >> /\ cand[h] = Head(RedoOf)
         /\ RedoOf' = Tail(RedoOf)
         /\ UndoOf' = Append(UndoOf, snapshots[version])
  <1>1. CoreInv /\ RowsInv /\ HistoryIsAStack /\ CopyInv(h) /\ pc[h] = "commit"
    BY DEF RefInv, StackInv, Commit
  <1>2. PICK t \in Undone : NextRedo(t) /\ entry[h] = t.after /\ cand[h] = snapshots[t.after]
    BY <1>1 DEF CopyInv
  <1>3. t \in history /\ t.undone
    BY DEF Undone
  <1> DEFINE moved == Moved(t, req[h].tx \in Undos)
  <1>4. /\ history' = (history \ {t}) \cup {moved}
        /\ moved.before = t.before /\ moved.after = t.after /\ moved.undone = FALSE
    <2>1. history' = WithMoved(entry[h], req[h].tx \in Undos) /\ version' = version + 1
      BY <1>1, CommitRows DEF HistoryAfter, WithMoved
    <2>2. history' = (history \ {t}) \cup {moved}
      BY <1>1, <1>2, <1>3, <2>1, RowsMoved
    <2>3. moved.before = t.before /\ moved.after = t.after
      BY DEF Moved
    <2>4. (req[h].tx \in Undos) = FALSE
      BY ConstantsAssumption
    <2>5. moved.undone = (req[h].tx \in Undos)
      BY DEF Moved
    <2> QED
      BY <2>2, <2>3, <2>4, <2>5
  <1> HIDE DEF moved
  <1>5. Undone' = Undone \ {t} /\ Active' = Active \cup {moved}
    BY <1>3, <1>4 DEF Active, Undone
  <1>6. Undone = Undone' \cup {t}
    BY <1>5
  <1>7. \A e \in history : /\ e.after \in Nat
                           /\ snapshots[e.before] \in Content /\ snapshots[e.after] \in Content
                           /\ snapshots'[e.before] = snapshots[e.before]
                           /\ snapshots'[e.after] = snapshots[e.after]
    BY CommitFacts
  <1>8. \A e \in Undone' : t.after < e.after
    <2> SUFFICES ASSUME NEW e \in Undone' PROVE t.after < e.after
      OBVIOUS
    <2>1. e \in Undone /\ e \in history /\ e # t
      BY <1>5 DEF Undone
    <2>2. t.after <= e.after /\ e.after # t.after
      BY <1>1, <1>2, <1>3, <2>1 DEF NextRedo, RowsInv
    <2> QED
      BY <1>3, <1>7, <2>1, <2>2
  <1>9. \A e \in Active : e.after < moved.after
    <2> SUFFICES ASSUME NEW e \in Active PROVE e.after < t.after
      BY <1>4
    <2>1. e \in history /\ ~e.undone /\ e # t
      BY <1>3 DEF Active
    <2>2. ~ (t.after < e.after) /\ e.after # t.after
      BY <1>1, <1>3, <2>1 DEF HistoryIsAStack, RowsInv
    <2> QED
      BY <1>3, <1>7, <2>1, <2>2
  <1>10. Ordered(Undone') /\ Ordered(Active)
    BY CommitFacts
  <1>11. Prepended(Afters(Undone', snapshots'), snapshots[t.after], Afters(Undone' \cup {t}, snapshots))
    <2>1. \A e \in Undone' : snapshots'[e.after] \in Content /\ snapshots[e.after] = snapshots'[e.after]
      BY <1>5, <1>7 DEF Undone
    <2>2. t.after \in Nat /\ snapshots[t.after] \in Content
      BY <1>3, <1>7
    <2>3. Below(Undone', t, Content, snapshots', snapshots)
      BY <1>8, <1>10, <2>1, <2>2 DEF Below
    <2> QED
      BY <2>3, PrependAfter
  <1>12. RedoOf # << >> /\ Head(RedoOf) = snapshots[t.after] /\ Tail(RedoOf) = Afters(Undone', snapshots')
    BY <1>6, <1>11 DEF RedoOf, Prepended
  <1>13. Pushed(Befores(Active, snapshots), snapshots'[moved.before], Befores(Active \cup {moved}, snapshots'))
    <2>1. \A e \in Active : snapshots[e.before] \in Content /\ snapshots'[e.before] = snapshots[e.before]
      BY <1>7 DEF Active
    <2>2. moved.after \in Nat /\ snapshots'[moved.before] \in Content
      BY <1>3, <1>4, <1>7
    <2>3. OnTop(Active, moved, Content, snapshots, snapshots')
      BY <1>9, <1>10, <2>1, <2>2 DEF OnTop
    <2> QED
      BY <2>3, PushBefore
  <1>14. snapshots'[moved.before] = snapshots[version]
    BY <1>1, <1>2, <1>3, <1>4, <1>7 DEF HistoryIsAStack
  <1> QED
    BY <1>2, <1>5, <1>12, <1>13, <1>14 DEF UndoOf, RedoOf, Pushed, Prepended

--------------------------------------------------------------------------------
(* The refinement.                                                              *)

\* A commit is a step of the abstract history.
LEMMA CommitIsAbstractStep ==
  ASSUME RefInv, RefInv', NEW h \in Handlers, Commit(h), ~ UNCHANGED dbVars,
         Revisions = LogOf, UndoStack = UndoOf, RedoStack = RedoOf,
         Revisions' = LogOf', UndoStack' = UndoOf', RedoStack' = RedoOf'
  PROVE  Abstract!Next
  <1> DEFINE t == req[h].tx
  <1>1. CoreInv /\ RowsInv /\ FiniteInv /\ OriginInv(h) /\ HandlerInv(h) /\ pc[h] = "commit"
    BY DEF RefInv, StackInv, CoreInv, Commit
  <1>2. /\ t \in TxIds /\ t \notin Applied /\ Applied' = Applied \cup {t}
        /\ Revisions' = Append(Revisions, cand[h])
    BY CommitAppends
  <1>3. Len(Revisions) = version /\ Revisions[Len(Revisions)] = snapshots[version] /\ version \in Nat
    BY <1>1, CurrentIs, RowTypes
  <1>4. Abstract!Current = snapshots[version]
    BY <1>3 DEF Abstract!Current
  <1>5. Abstract!Becomes(t, cand[h])
    BY <1>2 DEF Abstract!Becomes
  <1>6. CASE t \in Edits
    <2>1. t \notin Undos \cup Redos
      BY <1>6, ConstantsAssumption
    <2>2. UndoStack' = Append(UndoStack, snapshots[version]) /\ RedoStack' = << >>
      BY <2>1, CommitBranches
    <2>3. Abstract!Branch
      BY <1>4, <2>2 DEF Abstract!Branch
    <2>4. cand[h] = Abstract!Current \cup {t}
      BY <1>1, <1>4, <1>6 DEF OriginInv
    <2>5. Abstract!Edit(t)
      BY <1>5, <2>3, <2>4 DEF Abstract!Edit
    <2> QED
      BY <1>6, <2>5 DEF Abstract!Next
  <1>7. CASE t \in Restores
    <2>1. t \notin Undos \cup Redos
      BY <1>7, ConstantsAssumption
    <2>2. UndoStack' = Append(UndoStack, snapshots[version]) /\ RedoStack' = << >>
      BY <2>1, CommitBranches
    <2>3. Abstract!Branch
      BY <1>4, <2>2 DEF Abstract!Branch
    <2>4. /\ req[h].target \in Versions /\ req[h].target <= version /\ req[h].target # version
          /\ cand[h] = snapshots[req[h].target]
      BY <1>1, <1>7 DEF OriginInv, HandlerInv
    <2>5. req[h].target \in 1 .. version /\ req[h].target \in 1 .. (version - 1)
      BY <1>3, <2>4, ConstantsAssumption DEF Versions
    <2>6. Revisions[req[h].target] = cand[h]
      BY <2>4, <2>5 DEF LogOf
    <2>7. Abstract!Restore(t)
      BY <1>3, <1>5, <2>3, <2>5, <2>6 DEF Abstract!Restore
    <2> QED
      BY <1>7, <2>7 DEF Abstract!Next
  <1>8. CASE t \in Undos
    <2>1. /\ UndoStack # << >> /\ cand[h] = UndoStack[Len(UndoStack)]
          /\ UndoStack' = SubSeq(UndoStack, 1, Len(UndoStack) - 1)
          /\ RedoStack' = <<snapshots[version]>> \o RedoStack
      BY <1>8, CommitUndoes
    <2>2. Abstract!Undo(t)
      BY <1>4, <1>5, <2>1 DEF Abstract!Undo
    <2> QED
      BY <1>8, <2>2 DEF Abstract!Next
  <1>9. CASE t \in Redos
    <2>1. /\ RedoStack # << >> /\ cand[h] = Head(RedoStack)
          /\ RedoStack' = Tail(RedoStack)
          /\ UndoStack' = Append(UndoStack, snapshots[version])
      BY <1>9, CommitRedoes
    <2>2. Abstract!Redo(t)
      BY <1>4, <1>5, <2>1 DEF Abstract!Redo
    <2> QED
      BY <1>9, <2>2 DEF Abstract!Next
  <1> QED
    BY <1>2, <1>6, <1>7, <1>8, <1>9 DEF TxIds

\* Every other step leaves the abstract history alone, whatever becomes of the
\* objects that no version names.
LEMMA OthersAreStutters ==
  ASSUME UNCHANGED dbVars,
         Revisions = LogOf, UndoStack = UndoOf, RedoStack = RedoOf,
         Revisions' = LogOf', UndoStack' = UndoOf', RedoStack' = RedoOf'
  PROVE  UNCHANGED Abstract!vars
  <1>1. LogOf' = LogOf
    BY DEF LogOf, dbVars
  <1>2. Active' = Active /\ Undone' = Undone /\ snapshots' = snapshots
    BY DEF Active, Undone, dbVars
  <1>3. UndoOf' = UndoOf /\ RedoOf' = RedoOf
    BY <1>2 DEF UndoOf, RedoOf
  <1>4. Applied' = Applied
    BY DEF Applied, Committed, dbVars
  <1> QED
    BY <1>1, <1>3, <1>4 DEF Abstract!vars

LEMMA InitIsAbstractInit == Init => Abstract!Init
  <1> SUFFICES ASSUME Init PROVE Abstract!Init
    OBVIOUS
  <1>1. Revisions = <<{}>>
    <2>1. version = 1 /\ blobs[1] = {}
      BY ConstantsAssumption DEF Init, Versions
    <2>2. Revisions = [v \in 1 .. 1 |-> blobs[v]]
      BY <2>1 DEF Revisions
    <2> QED
      BY <2>1, <2>2
  <1>2. Cardinality(Active) = 0 /\ Cardinality(Undone) = 0
    <2>1. Active = {} /\ Undone = {}
      BY DEF Init, Active, Undone
    <2> QED
      BY <2>1, FS_EmptySet
  <1>3. UndoStack = << >>
    <2>1. UndoStack \in [1 .. 0 -> {blobs[Row(Active, i).before] : i \in 1 .. 0}]
      BY <1>2 DEF UndoStack
    <2> QED
      BY <2>1, FunctionIsSeq, EmptySeq
  <1>4. RedoStack = << >>
    <2>1. RedoStack \in [1 .. 0 -> {blobs[Row(Undone, i).after] : i \in 1 .. 0}]
      BY <1>2 DEF RedoStack
    <2> QED
      BY <2>1, FunctionIsSeq, EmptySeq
  <1>5. Applied = {}
    BY DEF Init, Applied, Committed
  <1> QED
    BY <1>1, <1>3, <1>4, <1>5 DEF Abstract!Init

LEMMA StepIsAbstractStep ==
  ASSUME RefInv, RefInv', [Next]_vars,
         Revisions = LogOf, UndoStack = UndoOf, RedoStack = RedoOf,
         Revisions' = LogOf', UndoStack' = UndoOf', RedoStack' = RedoOf'
  PROVE  [Abstract!Next]_(Abstract!vars)
  <1>1. CASE UNCHANGED dbVars
    BY <1>1, OthersAreStutters
  <1>2. CASE ~ UNCHANGED dbVars
    <2>1. PICK h \in Handlers : Commit(h)
      BY <1>2, RowsChangeByCommit
    <2> QED
      BY <1>2, <2>1, CommitIsAbstractStep
  <1> QED
    BY <1>1, <1>2

\* The mapped variables are the rows' own story in every reachable state.
Mapped == Revisions = LogOf /\ UndoStack = UndoOf /\ RedoStack = RedoOf

\* The server's transaction path implements the abstract history: no revision is
\* lost or changed, an undo returns to exactly the content its entry started from,
\* a redo to what was undone, a new edit ends the redo branch, and an id takes
\* effect once, whatever is retried, duplicated, dropped, discarded, collected or
\* crashed.
THEOREM KernelImplementsHistory ==
  ASSUME ~ReadBackMayFail
  PROVE  Spec => ImplementsArtifactHistory
  <1>1. RefInv /\ [Next]_vars => RefInv'
    BY NextRef
  <1>2. RefInv => Mapped
    BY StoredIsMeant DEF Mapped
  <1>3. RefInv /\ RefInv' /\ Mapped /\ Mapped' /\ [Next]_vars => [Abstract!Next]_(Abstract!vars)
    BY StepIsAbstractStep DEF Mapped
  <1> QED
    BY <1>1, <1>2, <1>3, InitRef, InitIsAbstractInit, PTL DEF Spec, ImplementsArtifactHistory, Abstract!Spec


================================================================================
