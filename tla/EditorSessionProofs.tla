-------------------------- MODULE EditorSessionProofs --------------------------
(***************************************************************************)
(* Theorems about EditorSession for every number of edits, undos, revisions *)
(* and attempts, with a user who waits for undo and reload to finish.       *)
(*                                                                         *)
(* The inductive invariant is TypeOK /\ SessionInv /\ LoadInv: the outbox   *)
(* holds the last edits typed without a gap, aimed at consecutive           *)
(* revisions; only its head was ever sent; a request that may still be      *)
(* committed is one of the head as it is now; and what the log says of the  *)
(* head stands on the committed snapshot.                                   *)
(*                                                                         *)
(* Replaying the outbox is FlattenSeq, a recursive function.  What it does  *)
(* to one more edit is proved by induction over the naturals, which the     *)
(* well-foundedness of < gives for a set of naturals.                       *)
(***************************************************************************)
EXTENDS EditorSession, SequenceTheorems, WellFoundedInduction, TLAPS

--------------------------------------------------------------------------------
(* Induction over the naturals, with a set for the induction hypothesis.         *)

\* A set of naturals with 0 and every successor is all of them.
LEMMA SetInduction ==
  ASSUME NEW S \in SUBSET Nat, 0 \in S, \A n \in S : n + 1 \in S
  PROVE  S = Nat
  <1> DEFINE R == {ss \in Nat \X Nat : ss[1] < ss[2]}
             T == Nat \ S
  <1>1. IsWellFoundedOn(R, Nat)
    BY NatLessThanWellFounded DEF OpToRel
  <1>2. ASSUME T # {} PROVE FALSE
    <2>1. T \subseteq Nat
      OBVIOUS
    <2> HIDE DEF R, T
    <2>2. PICK m \in T : \A k \in T : <<k, m>> \notin R
      BY <1>1, <1>2, <2>1, WFMin
    <2>3. m \in Nat /\ m # 0 /\ m \notin S
      BY <2>2 DEF T
    <2>4. m - 1 \in Nat /\ m - 1 \notin S
      BY <2>3
    <2>5. <<m - 1, m>> \in R /\ m - 1 \in T
      BY <2>3, <2>4 DEF R, T
    <2> QED
      BY <2>2, <2>5
  <1> QED
    BY <1>2

(* FlattenSeq.                                                                   *)

\* The recursion FlattenSeq is defined by, up to n.
Flattens(f, s, n) == f = [i \in 1..n |-> IF i = 1 THEN s[i] ELSE f[i - 1] \o s[i]]

\* What the recursion gives has the right type.
LEMMA FlattensType ==
  ASSUME NEW S, NEW s \in Seq(Seq(S)), NEW n \in 0..Len(s), NEW f, Flattens(f, s, n)
  PROVE  \A i \in 1..n : f[i] \in Seq(S)
  <1> DEFINE P == {k \in Nat : k + 1 <= n => f[k + 1] \in Seq(S)}
  <1>0. n \in Nat /\ Len(s) \in Nat /\ n <= Len(s) /\ \A i \in 1..n : s[i] \in Seq(S)
    OBVIOUS
  <1>a. \A i \in 1..n : f[i] = IF i = 1 THEN s[i] ELSE f[i - 1] \o s[i]
    BY DEF Flattens
  <1>1. 0 \in P
    <2>1. CASE 1 <= n
      <3>1. 1 \in 1..n
        BY <1>0, <2>1
      <3>2. f[1] \in Seq(S)
        BY <1>0, <1>a, <3>1
      <3> QED
        BY <3>2
    <2> QED
      BY <1>0, <2>1
  <1>2. ASSUME NEW k \in P PROVE k + 1 \in P
    <2>1. CASE k + 2 <= n
      <3>1. k \in Nat /\ f[k + 1] \in Seq(S) /\ k + 2 \in 1..n /\ k + 2 # 1 /\ (k + 2) - 1 = k + 1
        BY <1>0, <2>1
      <3>2. f[k + 2] = f[k + 1] \o s[k + 2] /\ s[k + 2] \in Seq(S)
        BY <1>0, <1>a, <3>1
      <3>3. f[k + 2] \in Seq(S)
        BY <3>1, <3>2
      <3> QED
        BY <3>1, <3>3
    <2> QED
      BY <2>1, <1>0
  <1> HIDE DEF P
  <1>3. P = Nat
    BY <1>1, <1>2, SetInduction DEF P
  <1> QED
    <2>1. ASSUME NEW i \in 1..n PROVE f[i] \in Seq(S)
      <3>1. i - 1 \in Nat /\ (i - 1) + 1 = i /\ i <= n
        BY <1>0
      <3>2. i - 1 \in P
        BY <1>3, <3>1
      <3> QED
        BY <3>1, <3>2 DEF P
    <2> QED
      BY <2>1

Agree(f, g, n) == \A i \in 1..n : f[i] = g[i]

\* The recursion gives one function.
LEMMA FlattensOne ==
  ASSUME NEW s, NEW t, NEW n \in Nat, NEW m \in Nat, n <= m, NEW f, NEW g,
         Flattens(f, s, n), Flattens(g, t, m), Agree(s, t, n)
  PROVE  Agree(f, g, n)
  <1> DEFINE P == {k \in Nat : k + 1 <= n => f[k + 1] = g[k + 1]}
  <1>a. \A i \in 1..n : f[i] = IF i = 1 THEN s[i] ELSE f[i - 1] \o s[i]
    BY DEF Flattens
  <1>b. \A i \in 1..m : g[i] = IF i = 1 THEN t[i] ELSE g[i - 1] \o t[i]
    BY DEF Flattens
  <1>c. \A i \in 1..n : s[i] = t[i]
    BY DEF Agree
  <1>1. 0 \in P
    BY <1>a, <1>b, <1>c
  <1>2. ASSUME NEW k \in P PROVE k + 1 \in P
    <2>1. CASE k + 2 <= n
      <3>1. k \in Nat /\ f[k + 1] = g[k + 1] /\ k + 2 \in 1..n /\ k + 2 \in 1..m
            /\ k + 2 # 1 /\ (k + 2) - 1 = k + 1
        BY <2>1
      <3>2. f[k + 2] = f[k + 1] \o s[k + 2] /\ g[k + 2] = g[k + 1] \o t[k + 2] /\ s[k + 2] = t[k + 2]
        BY <1>a, <1>b, <1>c, <3>1
      <3>3. f[k + 2] = g[k + 2] /\ (k + 1) + 1 = k + 2
        BY <3>1, <3>2
      <3> QED
        BY <3>1, <3>3
    <2> QED
      BY <2>1
  <1> HIDE DEF P
  <1>3. P = Nat
    BY <1>1, <1>2, SetInduction DEF P
  <1> QED
    <2>1. ASSUME NEW i \in 1..n PROVE f[i] = g[i]
      <3>1. i - 1 \in Nat /\ (i - 1) + 1 = i /\ i <= n
        OBVIOUS
      <3>2. i - 1 \in P
        BY <1>3, <3>1
      <3> QED
        BY <3>1, <3>2 DEF P
    <2> QED
      BY <2>1 DEF Agree

\* The same for a sequence that is one longer.
LEMMA FlattensMore ==
  ASSUME NEW s, NEW t, NEW n \in Nat, NEW f, NEW g,
         Flattens(f, s, n), Flattens(g, t, n + 1), Agree(s, t, n)
  PROVE  Agree(f, g, n)
  <1> DEFINE m == n + 1
  <1>1. m \in Nat /\ n <= m /\ Flattens(g, t, m)
    OBVIOUS
  <1> HIDE DEF m
  <1> QED
    BY <1>1, FlattensOne

\* A function the recursion gives, one element longer.
Longer(f, s, n) == [i \in 1..(n + 1) |-> IF i <= n THEN f[i] ELSE IF i = 1 THEN s[1] ELSE f[n] \o s[n + 1]]

\* There is a function for every length.
LEMMA FlattensExists ==
  ASSUME NEW s, NEW n \in Nat
  PROVE  \E f : Flattens(f, s, n)
  <1> DEFINE P == {k \in Nat : \E f : Flattens(f, s, k)}
  <1>1. 0 \in P
    <2>1. Flattens([i \in 1..0 |-> s], s, 0)
      BY DEF Flattens
    <2> QED
      BY <2>1
  <1>2. ASSUME NEW k \in P PROVE k + 1 \in P
    <2>1. k \in Nat
      OBVIOUS
    <2>2. PICK f : Flattens(f, s, k)
      OBVIOUS
    <2> DEFINE g == Longer(f, s, k)
    <2>3. /\ \A i \in 1..k : g[i] = f[i]
          /\ g[k + 1] = IF k + 1 = 1 THEN s[1] ELSE f[k] \o s[k + 1]
          /\ DOMAIN g = 1..(k + 1)
          /\ g = [i \in 1..(k + 1) |-> g[i]]
      <3>1. \A i \in 1..k : g[i] = f[i]
        BY <2>1 DEF Longer
      <3>2. k + 1 \in 1..(k + 1) /\ ~(k + 1 <= k)
        BY <2>1
      <3>3. g[k + 1] = IF k + 1 = 1 THEN s[1] ELSE f[k] \o s[k + 1]
        BY <3>2 DEF Longer
      <3>4. DOMAIN g = 1..(k + 1) /\ g = [i \in 1..(k + 1) |-> g[i]]
        BY DEF Longer
      <3> QED
        BY <3>1, <3>3, <3>4
    <2>4. \A i \in 1..k : f[i] = IF i = 1 THEN s[i] ELSE f[i - 1] \o s[i]
      BY <2>2 DEF Flattens
    <2> HIDE DEF g
    <2>5. ASSUME NEW i \in 1..(k + 1) PROVE g[i] = IF i = 1 THEN s[i] ELSE g[i - 1] \o s[i]
      <3>1. CASE i <= k
        <4>1. i \in 1..k /\ (i # 1 => i - 1 \in 1..k)
          BY <2>1, <3>1
        <4> QED
          BY <4>1, <2>3, <2>4
      <3>2. CASE i = k + 1
        <4>1. i # 1 => i - 1 = k /\ k \in 1..k
          BY <2>1, <3>2
        <4> QED
          BY <4>1, <3>2, <2>3
      <3> QED
        BY <2>1, <3>1, <3>2
    <2>6. Flattens(g, s, k + 1)
      BY <2>3, <2>5 DEF Flattens
    <2> QED
      BY <2>1, <2>6
  <1> HIDE DEF P
  <1>3. P = Nat
    BY <1>1, <1>2, SetInduction DEF P
  <1> QED
    BY <1>3 DEF P

\* FlattenSeq is what the recursion gives for the whole sequence.
LEMMA FlattenIs ==
  ASSUME NEW S, NEW s \in Seq(Seq(S)), s # <<>>
  PROVE  \E f : Flattens(f, s, Len(s)) /\ FlattenSeq(s) = f[Len(s)]
  <1> DEFINE c == CHOOSE f : Flattens(f, s, Len(s))
  <1>1. Len(s) \in Nat /\ Len(s) # 0
    OBVIOUS
  <1>2. Flattens(c, s, Len(s))
    BY <1>1, FlattensExists
  <1>3. FlattenSeq(s) = c[Len(s)]
    BY <1>1 DEF FlattenSeq, Flattens
  <1> QED
    BY <1>2, <1>3

\* What a sequence of sequences is flattened to has their type.
LEMMA FlattenType ==
  ASSUME NEW S, NEW s \in Seq(Seq(S))
  PROVE  FlattenSeq(s) \in Seq(S)
  <1>1. CASE s = <<>>
    BY <1>1 DEF FlattenSeq
  <1>2. CASE s # <<>>
    <2>1. PICK f : Flattens(f, s, Len(s)) /\ FlattenSeq(s) = f[Len(s)]
      BY <1>2, FlattenIs
    <2>2. Len(s) \in 0..Len(s) /\ Len(s) \in 1..Len(s)
      BY <1>2
    <2> QED
      BY <2>1, <2>2, FlattensType
  <1> QED
    BY <1>1, <1>2

\* Flattening one more sequence adds it at the end.
LEMMA FlattenAppend ==
  ASSUME NEW S, NEW s \in Seq(Seq(S)), NEW x \in Seq(S)
  PROVE  FlattenSeq(Append(s, x)) = FlattenSeq(s) \o x
  <1>0. PICK n \in Nat : n = Len(s)
    OBVIOUS
  <1> DEFINE longer == Append(s, x)
  <1>1. /\ n \in Nat /\ longer \in Seq(Seq(S)) /\ longer # <<>> /\ Len(longer) = n + 1 /\ longer[n + 1] = x
        /\ \A i \in 1..n : longer[i] = s[i]
    <2>1. /\ longer \in Seq(Seq(S)) /\ longer # <<>> /\ Len(longer) = Len(s) + 1 /\ longer[Len(s) + 1] = x
          /\ \A i \in 1..Len(s) : longer[i] = s[i]
      BY AppendProperties
    <2> QED
      BY <1>0, <2>1
  <1> HIDE DEF longer
  <1>2. PICK f : Flattens(f, longer, n + 1) /\ FlattenSeq(longer) = f[n + 1]
    BY <1>1, FlattenIs
  <1>3. f[n + 1] = IF n + 1 = 1 THEN x ELSE f[n] \o x
    <2>1. n + 1 \in 1..(n + 1) /\ (n + 1) - 1 = n
      BY <1>1
    <2> QED
      BY <1>1, <1>2, <2>1 DEF Flattens
  <1>4. CASE s = <<>>
    <2>1. n = 0 /\ FlattenSeq(s) = <<>> /\ <<>> \o x = x
      BY <1>0, <1>4 DEF FlattenSeq
    <2> QED
      BY <2>1, <1>2, <1>3 DEF longer
  <1>5. CASE s # <<>>
    <2>1. PICK g : Flattens(g, s, n) /\ FlattenSeq(s) = g[n]
      BY <1>0, <1>5, FlattenIs
    <2>2. n # 0 /\ n \in 1..n /\ n <= n + 1
      BY <1>0, <1>1, <1>5
    <2>3. Agree(g, f, n)
      <3>1. Agree(s, longer, n)
        BY <1>1 DEF Agree
      <3>2. n \in Nat /\ Flattens(g, s, n) /\ Flattens(f, longer, n + 1)
        BY <1>1, <1>2, <2>1
      <3> QED
        BY <3>1, <3>2, FlattensMore
    <2>4. f[n + 1] = g[n] \o x
      <3>1. n + 1 # 1
        BY <1>1, <2>2
      <3>2. f[n] = g[n]
        BY <2>2, <2>3 DEF Agree
      <3> QED
        BY <1>3, <3>1, <3>2
    <2> QED
      BY <1>2, <2>1, <2>4 DEF longer
  <1> QED
    BY <1>4, <1>5

--------------------------------------------------------------------------------
(* The invariant.                                                               *)

\* A transaction holds a run of the edits typed, without a gap.
Run(t) ==
    /\ t.edits # <<>>
    /\ \A j \in 1..Len(t.edits) : t.edits[j] = Id(t) + j - 1

\* The outbox holds the last edits typed, in order, each aimed at the revision the
\* ones before it will make; only the head was ever sent.
QueueInv ==
    /\ \A i \in 1..Len(queue) :
          /\ Run(queue[i])
          /\ queue[i].base = committed.revision + i - 1
          /\ Id(queue[i]) + Len(queue[i].edits) <= typed + 1
    /\ \A i \in 2..Len(queue) : Id(queue[i]) = Id(queue[i - 1]) + Len(queue[i - 1].edits)
    /\ queue # <<>> => Id(queue[Len(queue)]) + Len(queue[Len(queue)].edits) = typed + 1

\* The attempts of the head: only a conflict gives one beyond maxAttempts, and a
\* conflict moves the committed revision.
AttemptsInv ==
    queue # <<>> =>
       /\ queue[1].state \in {"pending", "retrying"} =>
             queue[1].attempts + 2 <= MaxAttempts + committed.revision
       /\ queue[1].attempts + 1 <= MaxAttempts + committed.revision

\* The flight is about the head, and the session knows what the server answered.
FlightInv ==
    /\ flight # NoFlight =>
          /\ queue # <<>>
          /\ flight.edits = queue[1].edits
          /\ flight.attempt = queue[1].attempts
          /\ flight.phase = "ok" => flight.revision = log[Id(queue[1])] /\ flight.revision # 0
          /\ flight.phase \in {"conflict", "latest"} =>
                log[Id(queue[1])] = 0 /\ committed.revision < Current
          /\ flight.phase = "latest" =>
                committed.revision < flight.revision /\ flight.revision <= Current
    /\ queue # <<>> => (queue[1].state = "sending" <=> flight # NoFlight)

\* A request on the wire that may still be committed is one of the head as it is.
RequestInv(r) ==
    /\ r.edits # <<>>
    /\ Id(r) <= typed
    /\ r.base <= Current
    /\ queue # <<>> => Id(r) <= Id(queue[1])
    /\ queue # <<>> /\ Id(r) = Id(queue[1]) =>
          /\ r.attempt <= queue[1].attempts
          /\ r.attempt = queue[1].attempts /\ queue[1].state = "sending" => r.base = committed.revision
    /\ log[Id(r)] = 0 /\ r.base = Current =>
          /\ queue # <<>>
          /\ r.edits = queue[1].edits
          /\ queue[1].state # "pending"
          /\ committed.revision = Current

\* What the log says of the head: its commit stands on the committed snapshot.
LogInv ==
    /\ \A e \in Edits : log[e] # 0 => e <= typed /\ (queue # <<>> => e <= Id(queue[1]))
    /\ \A e \in Edits : log[e] <= Current
    /\ queue # <<>> /\ log[Id(queue[1])] # 0 =>
          /\ queue[1].state # "pending"
          /\ committed.revision < log[Id(queue[1])]
          /\ contents[log[Id(queue[1])]] = committed.content \o queue[1].edits

\* Everything before the head is on the server, and nothing after it.
SavedInv ==
    /\ \A e \in 1..typed : queue = <<>> \/ e < Id(queue[1]) => IsSaved(e)
    /\ \A e \in Edits : IsSaved(e) =>
          /\ e <= typed
          /\ queue = <<>> \/ e < Id(queue[1]) \/ (Contains(queue[1].edits, e) /\ log[Id(queue[1])] # 0)

\* A patient user types and reloads only when nothing is under way, and what a
\* load() read is a revision of the server.
LoadInv ==
    /\ Busy => queue = <<>> /\ flight = NoFlight
    /\ reload.phase = "loaded" => reload.revision \in 1..Current
    /\ \A c \in Clicks : undos[c].phase = "loaded" => undos[c].revision \in 1..Current

--------------------------------------------------------------------------------
(* The types, in parts.                                                         *)

Content == Seq(Edits \cup {Foreign})

Transaction == [edits : Seq(Edits), base : Nat, state : OutboxState,
                attempts : 0..(MaxAttempts + MaxRevision)]

Request == [edits : Seq(Edits), base : Nat, attempt : Nat]

ServerTypes ==
    /\ contents \in Seq(Content)
    /\ log \in [Edits -> 0..MaxRevision]
    /\ undoLog \in [Clicks -> 0..MaxRevision]

NetTypes ==
    /\ wire \subseteq Request
    /\ undoWire \subseteq [id : Clicks, base : Revisions, click : Clicks]

LocalTypes ==
    /\ typed \in 0..MaxEdits
    /\ queue \in Seq(Transaction)
    /\ committed \in [revision : Revisions, content : Content]
    /\ local \in Content
    /\ \A i \in 2..Len(queue) : queue[i].state = "pending" /\ queue[i].attempts = 0

FlightTypes == flight \in Flights \cup {NoFlight}

UndoState == [phase : {"new", "drain", "sent", "load", "loaded", "done"},
              base : 0..MaxRevision, revision : 0..MaxRevision]

UiTypes ==
    /\ armed \in BOOLEAN
    /\ saving \in BOOLEAN
    /\ undos \in [Clicks -> UndoState]
    /\ intents \in [Revisions -> 0..MaxUndos]
    /\ reload \in [phase : {"no", "loaded"}, revision : 0..MaxRevision]

\* TypeOK is its parts.
LEMMA TypeParts ==
  TypeOK <=> ServerTypes /\ NetTypes /\ LocalTypes /\ FlightTypes /\ UiTypes
  BY DEF TypeOK, ServerTypes, NetTypes, LocalTypes, FlightTypes, UiTypes, Content, Transaction, Request,
         UndoState

\* The same in the next state.
LEMMA TypePartsNext ==
  TypeOK' <=> ServerTypes' /\ NetTypes' /\ LocalTypes' /\ FlightTypes' /\ UiTypes'
  BY DEF TypeOK, ServerTypes, NetTypes, LocalTypes, FlightTypes, UiTypes, Content, Transaction, Request,
         UndoState

\* The head and the rest of the outbox, by their types.
LEMMA QueueTypes ==
  ASSUME LocalTypes
  PROVE  /\ Len(queue) \in Nat
         /\ queue # <<>> <=> Len(queue) # 0
         /\ \A i \in 1..Len(queue) : queue[i] \in Transaction /\ queue[i].edits \in Seq(Edits)
  <1>1. queue \in Seq(Transaction)
    BY DEF LocalTypes
  <1>2. Len(queue) \in Nat /\ \A i \in 1..Len(queue) : queue[i] \in Transaction
    BY <1>1
  <1>3. queue # <<>> <=> Len(queue) # 0
    BY <1>1
  <1>4. \A t \in Transaction : t.edits \in Seq(Edits)
    BY DEF Transaction
  <1> QED
    BY <1>2, <1>3, <1>4

\* The head of the outbox is a run that starts at an edit and stands on the committed
\* revision.
LEMMA HeadId ==
  ASSUME LocalTypes, QueueInv, queue # <<>>
  PROVE  /\ queue[1] \in Transaction /\ queue[1].edits \in Seq(Edits)
         /\ Len(queue[1].edits) \in Nat \ {0}
         /\ Id(queue[1]) \in Edits
         /\ Run(queue[1]) /\ queue[1].base = committed.revision
  <1>1. Len(queue) \in Nat \ {0} /\ 1 \in 1..Len(queue)
    BY QueueTypes
  <1>2. queue[1] \in Transaction /\ queue[1].edits \in Seq(Edits) /\ Run(queue[1])
    BY <1>1, QueueTypes DEF QueueInv
  <1>3. Len(queue[1].edits) \in Nat \ {0} /\ Id(queue[1]) \in Edits
    BY <1>2 DEF Run, Id
  <1>4. queue[1].base = committed.revision
    <2>1. queue[1].base = committed.revision + 1 - 1 /\ committed.revision \in Nat
      BY <1>1 DEF QueueInv, LocalTypes, Revisions
    <2> QED
      BY <2>1
  <1> QED
    BY <1>2, <1>3, <1>4

\* The invariant without the types and the loads, which every step preserves that
\* leaves what it speaks about alone.
SessionInv ==
    /\ Current \in Revisions
    /\ committed.revision <= Current
    /\ CommittedMirrorsServer
    /\ QueueInv
    /\ AttemptsInv
    /\ FlightInv
    /\ \A r \in wire : RequestInv(r)
    /\ LogInv
    /\ SavedInv
    /\ LocalIsCommittedPlusQueue

sessionVars == <<contents, log, wire, typed, queue, committed, local, flight>>

\* A step that leaves what SessionInv speaks about alone preserves it.
LEMMA SessionStays == SessionInv /\ UNCHANGED sessionVars => SessionInv'
  <1> SUFFICES ASSUME SessionInv, UNCHANGED sessionVars PROVE SessionInv'
    OBVIOUS
  <1>1. /\ contents' = contents /\ log' = log /\ wire' = wire /\ typed' = typed
        /\ queue' = queue /\ committed' = committed /\ local' = local /\ flight' = flight
    BY DEF sessionVars
  <1>2. Current' \in Revisions /\ (committed.revision <= Current)' /\ CommittedMirrorsServer'
    BY <1>1 DEF SessionInv, CommittedMirrorsServer, Current
  <1>3. QueueInv' /\ AttemptsInv'
    BY <1>1 DEF SessionInv, QueueInv, AttemptsInv, Run, Id
  <1>4. FlightInv'
    BY <1>1 DEF SessionInv, FlightInv, Current, Id
  <1>5. \A r \in wire' : RequestInv(r)'
    BY <1>1 DEF SessionInv, RequestInv, Current, Id
  <1>6. LogInv' /\ SavedInv'
    BY <1>1 DEF SessionInv, LogInv, SavedInv, IsSaved, Current, Id
  <1>7. LocalIsCommittedPlusQueue'
    BY <1>1 DEF SessionInv, LocalIsCommittedPlusQueue, Replayed
  <1> QED
    BY <1>2, <1>3, <1>4, <1>5, <1>6, <1>7 DEF SessionInv

\* An undo that moves on is the only one that changes.
LEMMA UndoMoves ==
  ASSUME UiTypes, NEW c \in Clicks, NEW u \in UndoState, undos' = [undos EXCEPT ![c] = u]
  PROVE  /\ undos' \in [Clicks -> UndoState]
         /\ undos'[c] = u
         /\ \A d \in Clicks : d # c => undos'[d] = undos[d]
  BY DEF UiTypes

\* The records of an undo that is sent and of one that has loaded.
LEMMA UndoSent ==
  ASSUME NEW u \in UndoState, NEW n \in 0..MaxRevision
  PROVE  /\ [u EXCEPT !.phase = "sent", !.base = n] \in UndoState
         /\ [u EXCEPT !.phase = "sent", !.base = n].phase = "sent"
  BY DEF UndoState

\* The record of an undo whose load() has read a revision.
LEMMA UndoLoaded ==
  ASSUME NEW u \in UndoState, NEW n \in 0..MaxRevision
  PROVE  /\ [u EXCEPT !.phase = "loaded", !.revision = n] \in UndoState
         /\ [u EXCEPT !.phase = "loaded", !.revision = n].phase = "loaded"
         /\ [u EXCEPT !.phase = "loaded", !.revision = n].revision = n
  BY DEF UndoState

(* Steps that only move a save, an undo or a load() on.                          *)

\* The loads that have read a revision, after a step that leaves the queue, the
\* flight and the server alone.
LEMMA UiStep ==
  ASSUME TypeOK, SessionInv, LoadInv,
         \/ Save \/ SaveEnds \/ Reload \/ ReloadFails
         \/ \E c \in Clicks : \/ ClickUndo(c) \/ GiveUpUndo(c) \/ SendUndo(c) \/ UndoFails(c)
                              \/ UndoReads(c) \/ UndoLoadFails(c),
         Patient
  PROVE  TypeOK' /\ SessionInv' /\ LoadInv'
  <1> USE SessionConstants DEF localVars, serverVars, netVars
  <1>1. SessionInv'
    <2>1. UNCHANGED sessionVars
      BY DEF Save, SaveEnds, Reload, ReloadFails, ClickUndo, GiveUpUndo, SendUndo, UndoFails,
             UndoReads, UndoLoadFails, sessionVars
    <2> QED
      BY <2>1, SessionStays
  <1>2. ServerTypes' /\ LocalTypes' /\ FlightTypes'
    <2>1. UNCHANGED <<serverVars, localVars, typed, flight>>
      BY DEF Save, SaveEnds, Reload, ReloadFails, ClickUndo, GiveUpUndo, SendUndo, UndoFails,
             UndoReads, UndoLoadFails
    <2>2. ServerTypes /\ LocalTypes /\ FlightTypes
      BY TypeParts
    <2> QED
      BY <2>1, <2>2 DEF ServerTypes, LocalTypes, FlightTypes
  <1>3. UiTypes /\ NetTypes /\ LocalTypes /\ Current \in Revisions
    BY TypeParts DEF SessionInv
  <1>4. CASE Save \/ SaveEnds
    <2>1. NetTypes' /\ UiTypes'
      BY <1>3, <1>4 DEF Save, SaveEnds, NetTypes, UiTypes
    <2>2. LoadInv'
      BY <1>4 DEF Save, SaveEnds, LoadInv, Busy, Current
    <2> QED
      BY <1>1, <1>2, <2>1, <2>2, TypePartsNext
  <1>5. CASE Reload
    <2>1. NetTypes' /\ UiTypes'
      BY <1>3, <1>5 DEF Reload, NetTypes, UiTypes, Revisions
    <2>2. LoadInv'
      BY <1>3, <1>5 DEF Reload, LoadInv, Busy, Current, Revisions
    <2> QED
      BY <1>1, <1>2, <2>1, <2>2, TypePartsNext
  <1>6. CASE ReloadFails
    <2>1. NetTypes' /\ UiTypes'
      BY <1>3, <1>6 DEF ReloadFails, NetTypes, UiTypes, NoLoad
    <2>2. LoadInv'
      BY <1>6 DEF ReloadFails, LoadInv, Busy, Current, NoLoad
    <2> QED
      BY <1>1, <1>2, <2>1, <2>2, TypePartsNext
  <1>7. ASSUME NEW c \in Clicks, ClickUndo(c) \/ GiveUpUndo(c) \/ UndoFails(c)
        PROVE  TypeOK' /\ LoadInv'
    <2>1. PICK p \in {"drain", "done", "load"} : undos' = [undos EXCEPT ![c].phase = p]
      BY <1>7 DEF ClickUndo, GiveUpUndo, UndoFails
    <2>2. undos[c] \in UndoState
      BY <1>3 DEF UiTypes
    <2> DEFINE u == [undos[c] EXCEPT !.phase = p]
    <2>3. u \in UndoState /\ u.phase = p
      BY <2>2 DEF UndoState
    <2>4. undos' = [undos EXCEPT ![c] = u]
      BY <2>1
    <2> HIDE DEF u
    <2>5. /\ undos' \in [Clicks -> UndoState]
          /\ undos'[c] = u
          /\ \A d \in Clicks : d # c => undos'[d] = undos[d]
      BY <1>3, <2>3, <2>4, UndoMoves
    <2>6. UNCHANGED <<serverVars, netVars, typed, localVars, flight, armed, saving, intents, reload>>
      BY <1>7 DEF ClickUndo, GiveUpUndo, UndoFails
    <2>7. NetTypes' /\ UiTypes'
      BY <1>3, <2>5, <2>6 DEF NetTypes, UiTypes
    <2>8. p = "load" => undos[c].phase = "sent"
      <3>1. CASE UndoFails(c)
        BY <3>1 DEF UndoFails
      <3>2. CASE ClickUndo(c)
        <4>1. undos' = [undos EXCEPT ![c].phase = "drain"]
          BY <3>2 DEF ClickUndo
        <4>2. undos'[c].phase = "drain"
          BY <2>2, <4>1, <1>3 DEF UiTypes, UndoState
        <4> QED
          BY <2>3, <2>5, <4>2
      <3>3. CASE GiveUpUndo(c)
        <4>1. undos' = [undos EXCEPT ![c].phase = "done"]
          BY <3>3 DEF GiveUpUndo
        <4>2. undos'[c].phase = "done"
          BY <2>2, <4>1, <1>3 DEF UiTypes, UndoState
        <4> QED
          BY <2>3, <2>5, <4>2
      <3> QED
        BY <1>7, <3>1, <3>2, <3>3
    <2>9. Busy' => Busy
      BY <2>3, <2>5, <2>6, <2>8 DEF Busy
    <2>10. LoadInv'
      BY <2>3, <2>5, <2>6, <2>9 DEF LoadInv, Current
    <2> QED
      BY <1>2, <2>7, <2>10, TypePartsNext
  <1>8. ASSUME NEW c \in Clicks, SendUndo(c) PROVE TypeOK' /\ LoadInv'
    <2> DEFINE base == committed.revision
               id == IF intents[base] # 0 THEN intents[base] ELSE c
               u == [undos[c] EXCEPT !.phase = "sent", !.base = base]
    <2>1. base \in Revisions /\ id \in Clicks /\ id \in 0..MaxUndos
      BY <1>3 DEF UiTypes, LocalTypes, Clicks
    <2>2. /\ undos' = [undos EXCEPT ![c].phase = "sent", ![c].base = base]
          /\ intents' = [intents EXCEPT ![base] = id]
          /\ undoWire' = undoWire \cup {[id |-> id, base |-> base, click |-> c]}
          /\ UNCHANGED <<serverVars, wire, typed, localVars, flight, armed, saving, reload>>
          /\ queue = <<>> /\ flight = NoFlight
      BY <1>8 DEF SendUndo
    <2> HIDE DEF base, id
    <2>3. undos[c] \in UndoState
      BY <1>3 DEF UiTypes
    <2>4. u \in UndoState /\ u.phase = "sent"
      <3>1. base \in 0..MaxRevision
        BY <2>1 DEF Revisions
      <3> QED
        BY <2>3, <3>1, UndoSent
    <2>5. undos' = [undos EXCEPT ![c] = u]
      BY <2>2, <2>3 DEF UndoState
    <2> HIDE DEF u
    <2>6. /\ undos' \in [Clicks -> UndoState]
          /\ undos'[c] = u
          /\ \A d \in Clicks : d # c => undos'[d] = undos[d]
      BY <1>3, <2>4, <2>5, UndoMoves
    <2>7. NetTypes'
      BY <1>3, <2>1, <2>2 DEF NetTypes
    <2>8. UiTypes'
      BY <1>3, <2>1, <2>2, <2>6 DEF UiTypes
    <2>9. LoadInv'
      BY <2>2, <2>4, <2>6 DEF LoadInv, Current
    <2> QED
      BY <1>2, <2>7, <2>8, <2>9, TypePartsNext
  <1>9. ASSUME NEW c \in Clicks, UndoReads(c) PROVE TypeOK' /\ LoadInv'
    <2> DEFINE u == [undos[c] EXCEPT !.phase = "loaded", !.revision = Current]
    <2>1. /\ undos[c].phase = "load"
          /\ undos' = [undos EXCEPT ![c].phase = "loaded", ![c].revision = Current]
          /\ UNCHANGED <<serverVars, netVars, typed, localVars, flight, armed, saving, intents, reload>>
      BY <1>9 DEF UndoReads
    <2>2. undos[c] \in UndoState /\ Current \in 1..Current
      BY <1>3 DEF UiTypes, Revisions
    <2>3. u \in UndoState /\ u.phase = "loaded" /\ u.revision = Current
      <3>1. Current \in 0..MaxRevision
        BY <1>3 DEF Revisions
      <3> HIDE DEF Current
      <3> QED
        BY <2>2, <3>1, UndoLoaded
    <2>4. undos' = [undos EXCEPT ![c] = u]
      BY <2>1, <2>2 DEF UndoState
    <2> HIDE DEF u
    <2>5. /\ undos' \in [Clicks -> UndoState]
          /\ undos'[c] = u
          /\ \A d \in Clicks : d # c => undos'[d] = undos[d]
      BY <1>3, <2>3, <2>4, UndoMoves
    <2>6. NetTypes' /\ UiTypes'
      BY <1>3, <2>1, <2>5 DEF NetTypes, UiTypes
    <2>7. LoadInv'
      <3>1. queue = <<>> /\ flight = NoFlight
        BY <2>1 DEF LoadInv, Busy
      <3> QED
        BY <2>1, <2>2, <2>3, <2>5, <3>1 DEF LoadInv, Current
    <2> QED
      BY <1>2, <2>6, <2>7, TypePartsNext
  <1>10. ASSUME NEW c \in Clicks, UndoLoadFails(c) PROVE TypeOK' /\ LoadInv'
    <2> DEFINE u == [NewUndo EXCEPT !.phase = "done"]
    <2>1. /\ undos[c].phase = "load"
          /\ undos' = [undos EXCEPT ![c] = u]
          /\ UNCHANGED <<serverVars, netVars, typed, localVars, flight, armed, saving, intents, reload>>
      BY <1>10 DEF UndoLoadFails
    <2>2. u \in UndoState /\ u.phase = "done"
      BY DEF UndoState, NewUndo
    <2> HIDE DEF u
    <2>3. /\ undos' \in [Clicks -> UndoState]
          /\ undos'[c] = u
          /\ \A d \in Clicks : d # c => undos'[d] = undos[d]
      BY <1>3, <2>1, <2>2, UndoMoves
    <2>4. NetTypes' /\ UiTypes'
      BY <1>3, <2>1, <2>3 DEF NetTypes, UiTypes
    <2>5. LoadInv'
      BY <2>1, <2>2, <2>3 DEF LoadInv, Busy, Current
    <2> QED
      BY <1>2, <2>4, <2>5, TypePartsNext
  <1> QED
    BY <1>1, <1>4, <1>5, <1>6, <1>7, <1>8, <1>9, <1>10

--------------------------------------------------------------------------------
(* The server's steps: a revision more, or only an answer.                      *)

\* What a concatenation contains.
LEMMA ContainsConcat ==
  ASSUME NEW S, NEW s \in Seq(S), NEW t \in Seq(S), NEW e
  PROVE  Contains(s \o t, e) <=> Contains(s, e) \/ Contains(t, e)
  <1>1. /\ Len(s) \in Nat /\ Len(t) \in Nat /\ Len(s \o t) = Len(s) + Len(t)
        /\ \A i \in 1..(Len(s) + Len(t)) :
              (s \o t)[i] = IF i <= Len(s) THEN s[i] ELSE t[i - Len(s)]
    BY ConcatProperties
  <1>2. ASSUME Contains(s \o t, e) PROVE Contains(s, e) \/ Contains(t, e)
    <2>1. PICK i \in 1..(Len(s) + Len(t)) : (s \o t)[i] = e
      BY <1>1, <1>2 DEF Contains
    <2>2. CASE i <= Len(s)
      BY <1>1, <2>1, <2>2 DEF Contains
    <2>3. CASE ~(i <= Len(s))
      <3>1. i - Len(s) \in 1..Len(t) /\ t[i - Len(s)] = e
        BY <1>1, <2>1, <2>3
      <3> QED
        BY <3>1 DEF Contains
    <2> QED
      BY <2>2, <2>3
  <1>3. ASSUME Contains(s, e) PROVE Contains(s \o t, e)
    <2>1. PICK i \in 1..Len(s) : s[i] = e
      BY <1>3 DEF Contains
    <2>2. i \in 1..(Len(s) + Len(t)) /\ i <= Len(s)
      BY <1>1, <2>1
    <2>3. (s \o t)[i] = e
      BY <1>1, <2>1, <2>2
    <2> QED
      BY <1>1, <2>2, <2>3 DEF Contains
  <1>4. ASSUME Contains(t, e) PROVE Contains(s \o t, e)
    <2>1. PICK i \in 1..Len(t) : t[i] = e
      BY <1>4 DEF Contains
    <2>2. /\ i + Len(s) \in 1..(Len(s) + Len(t)) /\ ~(i + Len(s) <= Len(s))
          /\ (i + Len(s)) - Len(s) = i
      BY <1>1, <2>1
    <2>3. (s \o t)[i + Len(s)] = e
      BY <1>1, <2>1, <2>2
    <2> QED
      BY <1>1, <2>2, <2>3 DEF Contains
  <1> QED
    BY <1>2, <1>3, <1>4

\* What a run contains.
LEMMA ContainsRun ==
  ASSUME NEW t \in Transaction, Run(t), NEW e
  PROVE  /\ Contains(t.edits, e) <=> e \in Id(t)..(Id(t) + Len(t.edits) - 1)
         /\ Contains(t.edits, e) => e \in Edits
  <1>1. t.edits \in Seq(Edits) /\ Len(t.edits) \in Nat \ {0}
    BY DEF Transaction, Run
  <1>2. /\ \A j \in 1..Len(t.edits) : t.edits[j] \in Edits /\ t.edits[j] = Id(t) + j - 1
        /\ Id(t) \in Nat
    BY <1>1, SessionConstants DEF Run, Id, Edits
  <1>3. ASSUME Contains(t.edits, e)
        PROVE  e \in Id(t)..(Id(t) + Len(t.edits) - 1) /\ e \in Edits
    <2>1. PICK j \in 1..Len(t.edits) : t.edits[j] = e
      BY <1>3 DEF Contains
    <2>2. t.edits[j] \in Edits /\ t.edits[j] = Id(t) + j - 1
      BY <1>2
    <2> DEFINE a == Id(t)
               b == Len(t.edits)
    <2>3. a \in Nat /\ b \in Nat \ {0} /\ j \in 1..b /\ e = a + j - 1 /\ e \in Edits
      BY <1>1, <1>2, <2>1, <2>2
    <2> HIDE DEF a, b
    <2>4. e \in a..(a + b - 1)
      BY <2>3
    <2> QED
      BY <2>3, <2>4 DEF a, b
  <1>4. ASSUME e \in Id(t)..(Id(t) + Len(t.edits) - 1)
        PROVE  Contains(t.edits, e)
    <2>1. e - Id(t) + 1 \in 1..Len(t.edits) /\ e = Id(t) + (e - Id(t) + 1) - 1
      BY <1>1, <1>2, <1>4
    <2> QED
      BY <1>2, <2>1 DEF Contains
  <1> QED
    BY <1>3, <1>4

\* What a new revision leaves as it was.
LEMMA Grown ==
  ASSUME ServerTypes, Current \in Revisions, Current < MaxRevision,
         NEW c \in Content, contents' = Append(contents, c)
  PROVE  /\ contents' \in Seq(Content)
         /\ Current' = Current + 1 /\ Current' \in Revisions
         /\ \A v \in 1..Current : contents'[v] = contents[v]
         /\ contents'[Current + 1] = c
         /\ \A e : IsSaved(e)' <=> IsSaved(e) \/ Contains(c, e)
  <1>1. /\ contents \in Seq(Content) /\ Current \in Nat /\ Len(contents) = Current
        /\ DOMAIN contents = 1..Current
    BY DEF ServerTypes, Current
  <1>2. /\ contents' \in Seq(Content) /\ Len(contents') = Current + 1
        /\ DOMAIN contents' = 1..(Current + 1)
        /\ \A v \in 1..Current : contents'[v] = contents[v]
        /\ contents'[Current + 1] = c
    <2>1. /\ Append(contents, c) \in Seq(Content) /\ Len(Append(contents, c)) = Len(contents) + 1
          /\ \A v \in 1..Len(contents) : Append(contents, c)[v] = contents[v]
          /\ Append(contents, c)[Len(contents) + 1] = c
      BY <1>1, AppendProperties
    <2> QED
      BY <1>1, <2>1, LenProperties
  <1>3. Current' = Current + 1 /\ Current' \in Revisions
    BY <1>1, <1>2, SessionConstants DEF Current, Revisions
  <1>4. ASSUME NEW e PROVE IsSaved(e)' <=> IsSaved(e) \/ Contains(c, e)
    <2>1. IsSaved(e)' <=> \E v \in 1..(Current + 1) : Contains(contents'[v], e)
      BY <1>2 DEF IsSaved
    <2>2. IsSaved(e) <=> \E v \in 1..Current : Contains(contents[v], e)
      BY <1>1 DEF IsSaved
    <2>3. \A v \in 1..(Current + 1) : v \in 1..Current \/ v = Current + 1
      BY <1>1
    <2>4. \A v \in 1..Current : v \in 1..(Current + 1)
      BY <1>1
    <2>5. Current + 1 \in 1..(Current + 1)
      BY <1>1
    <2> HIDE DEF Contains
    <2> QED
      BY <1>2, <2>1, <2>2, <2>3, <2>4, <2>5
  <1> QED
    BY <1>2, <1>3, <1>4

\* A revision somebody else made: the session does not know of it yet, and no
\* request that was sent before can be committed any more.
LEMMA ForeignRevision ==
  ASSUME TypeOK, SessionInv, Current < MaxRevision, NEW c \in Content, contents' = Append(contents, c),
         \A e \in Edits : Contains(c, e) => IsSaved(e),
         UNCHANGED <<log, wire, typed, queue, committed, local, flight>>
  PROVE  SessionInv'
  <1>0. /\ log' = log /\ wire' = wire /\ typed' = typed /\ queue' = queue
        /\ committed' = committed /\ local' = local /\ flight' = flight
    OBVIOUS
  <1>1. ServerTypes /\ LocalTypes /\ NetTypes /\ FlightTypes /\ Current \in Revisions /\ Current \in Nat
    BY TypeParts DEF SessionInv, Revisions
  <1>2. /\ Current' = Current + 1 /\ Current' \in Revisions
        /\ \A v \in 1..Current : contents'[v] = contents[v]
        /\ \A e \in Edits : IsSaved(e)' <=> IsSaved(e)
    BY <1>1, Grown
  <1>3. committed.revision \in 1..Current /\ committed.revision \in Nat
    BY <1>1 DEF SessionInv, LocalTypes, Revisions
  <1>4. (committed.revision <= Current)' /\ CommittedMirrorsServer'
    <2>1. (committed.revision <= Current)'
      BY <1>0, <1>1, <1>2, <1>3
    <2>2. committed.content = contents[committed.revision]
      BY DEF SessionInv, CommittedMirrorsServer
    <2>3. committed'.content = contents'[committed'.revision]
      BY <1>0, <1>2, <1>3, <2>2
    <2> QED
      BY <2>1, <2>3 DEF CommittedMirrorsServer
  <1>5. QueueInv' /\ AttemptsInv'
    BY <1>0 DEF SessionInv, QueueInv, AttemptsInv, Run, Id
  <1>6. FlightInv'
    <2>1. flight # NoFlight => flight.revision \in Nat
      BY <1>1 DEF FlightTypes, Flights
    <2> QED
      BY <1>0, <1>1, <1>2, <1>3, <2>1 DEF SessionInv, FlightInv, Id
  <1>7. \A r \in wire : RequestInv(r)'
    <2>1. \A r \in wire : r.base \in Nat
      BY <1>1 DEF NetTypes, Request
    <2> SUFFICES ASSUME NEW r \in wire PROVE RequestInv(r)'
      OBVIOUS
    <2>2. RequestInv(r)
      BY DEF SessionInv
    <2>3. r.base <= Current' /\ r.base # Current'
      <3>1. r.base <= Current /\ r.base \in Nat
        BY <2>1, <2>2 DEF RequestInv
      <3> HIDE DEF Current
      <3> QED
        BY <1>1, <1>2, <3>1
    <2> QED
      BY <1>0, <2>2, <2>3 DEF RequestInv, Id
  <1>8. LogInv'
    <2>1. \A e \in Edits : log[e] \in Nat
      BY <1>1, SessionConstants DEF ServerTypes
    <2>2. queue # <<>> /\ log[Id(queue[1])] # 0 => log[Id(queue[1])] \in 1..Current
      <3>1. queue # <<>> => Id(queue[1]) \in Edits
        BY <1>1, HeadId DEF SessionInv
      <3> QED
        BY <2>1, <3>1, <1>1 DEF SessionInv, LogInv
    <2>3. \A e \in Edits : log'[e] <= Current'
      <3>1. \A e \in Edits : log[e] <= Current
        BY DEF SessionInv, LogInv
      <3> HIDE DEF Current
      <3> QED
        BY <1>0, <1>1, <1>2, <2>1, <3>1
    <2>4. \A e \in Edits : log'[e] # 0 => e <= typed' /\ (queue' # <<>> => e <= Id(queue'[1]))
      BY <1>0 DEF SessionInv, LogInv, Id
    <2>5. ASSUME queue # <<>>, log[Id(queue[1])] # 0
          PROVE  /\ queue[1].state # "pending"
                 /\ committed.revision < log[Id(queue[1])]
                 /\ contents'[log[Id(queue[1])]] = committed.content \o queue[1].edits
      BY <1>2, <2>2, <2>5 DEF SessionInv, LogInv
    <2> QED
      BY <1>0, <2>3, <2>4, <2>5 DEF LogInv, Id
  <1>9. SavedInv'
    <2>1. \A e \in 1..typed : e \in Edits
      BY <1>1, SessionConstants DEF LocalTypes, Edits
    <2> QED
      BY <1>0, <1>2, <2>1 DEF SessionInv, SavedInv, Id
  <1>10. LocalIsCommittedPlusQueue'
    BY <1>0 DEF SessionInv, LocalIsCommittedPlusQueue, Replayed
  <1> QED
    BY <1>0, <1>2, <1>4, <1>5, <1>6, <1>7, <1>8, <1>9, <1>10 DEF SessionInv

\* Another session's edit is no edit of this one.
LEMMA SomebodyEditsStep ==
  ASSUME TypeOK, SessionInv, LoadInv, SomebodyEdits
  PROVE  TypeOK' /\ SessionInv' /\ LoadInv'
  <1> DEFINE c == Append(contents[Current], Foreign)
  <1>1. /\ Current < MaxRevision /\ contents' = Append(contents, c)
        /\ UNCHANGED <<log, undoLog, wire, undoWire, typed, queue, committed, local, flight, armed,
                       saving, undos, intents, reload>>
    BY DEF SomebodyEdits, netVars, localVars, uiVars
  <1>2. /\ ServerTypes /\ NetTypes /\ LocalTypes /\ FlightTypes /\ UiTypes
        /\ Current \in Revisions /\ Current \in 1..Len(contents)
    BY TypeParts DEF SessionInv, Revisions, Current
  <1>3. contents[Current] \in Content /\ contents[Current] \in Seq(Edits \cup {Foreign})
    BY <1>2 DEF ServerTypes, Content
  <1>4. c \in Content
    BY <1>3 DEF Content
  <1>5. ASSUME NEW e \in Edits, Contains(c, e) PROVE IsSaved(e)
    <2>1. e # Foreign
      BY SessionConstants DEF Edits
    <2>2. PICK i \in 1..Len(c) : c[i] = e
      BY <1>5 DEF Contains
    <2>3. /\ Len(contents[Current]) \in Nat
          /\ Len(c) = Len(contents[Current]) + 1
          /\ c[Len(contents[Current]) + 1] = Foreign
          /\ \A k \in 1..Len(contents[Current]) : c[k] = contents[Current][k]
      BY <1>3, AppendProperties
    <2> HIDE DEF c
    <2>4. i # Len(contents[Current]) + 1
      BY <2>1, <2>2, <2>3
    <2>5. i \in 1..Len(contents[Current])
      BY <2>2, <2>3, <2>4
    <2>6. Contains(contents[Current], e)
      BY <2>2, <2>3, <2>5 DEF Contains
    <2>7. Current \in DOMAIN contents
      BY <1>2 DEF ServerTypes
    <2> QED
      BY <2>6, <2>7 DEF IsSaved
  <1> HIDE DEF c
  <1>6. SessionInv'
    BY <1>1, <1>4, <1>5, ForeignRevision
  <1>7. TypeOK'
    <2>1. ServerTypes'
      BY <1>1, <1>2, <1>4, Grown DEF ServerTypes
    <2>2. NetTypes' /\ LocalTypes' /\ FlightTypes' /\ UiTypes'
      BY <1>1, <1>2 DEF NetTypes, LocalTypes, FlightTypes, UiTypes
    <2> QED
      BY <2>1, <2>2, TypePartsNext
  <1>8. LoadInv'
    <2>1. Current' = Current + 1 /\ Current \in Nat
      BY <1>1, <1>2, <1>4, Grown DEF Revisions
    <2>2. \A v : v \in 1..Current => v \in 1..Current'
      BY <2>1
    <2> QED
      BY <1>1, <2>2 DEF LoadInv, Busy
  <1> QED
    BY <1>6, <1>7, <1>8

\* An undo of this session makes an old content new, or is only answered.
LEMMA ServerUndoStep ==
  ASSUME TypeOK, SessionInv, LoadInv, NEW r \in undoWire, ServerHandlesUndo(r)
  PROVE  TypeOK' /\ SessionInv' /\ LoadInv'
  <1>1. /\ ServerTypes /\ NetTypes /\ LocalTypes /\ FlightTypes /\ UiTypes
        /\ Current \in Revisions /\ Current = Len(contents) /\ Current \in Nat
    BY TypeParts DEF SessionInv, Revisions, Current
  <1>2. /\ undoWire' = undoWire \ {r}
        /\ UNCHANGED <<wire, typed, queue, committed, local, flight, armed, saving, reload>>
        /\ log' = log
    BY DEF ServerHandlesUndo, localVars, serverVars
  <1>3. r.id \in Clicks /\ r.base \in Revisions /\ r.click \in Clicks
    BY <1>1 DEF NetTypes
  <1>4. undos' \in [Clicks -> UndoState] /\ \A c \in Clicks :
           undos'[c] = undos[c] \/ (undos[c].phase = "sent" /\ undos'[c].phase = "load")
    <2> DEFINE u == [undos[r.click] EXCEPT !.phase = "load"]
    <2>1. undos' = undos \/ (undos[r.click].phase = "sent" /\ undos' = [undos EXCEPT ![r.click].phase = "load"])
      BY DEF ServerHandlesUndo
    <2>2. CASE undos' = undos
      BY <1>1, <2>2 DEF UiTypes
    <2>3. CASE undos[r.click].phase = "sent" /\ undos' = [undos EXCEPT ![r.click].phase = "load"]
      <3>1. undos[r.click] \in UndoState
        BY <1>1, <1>3 DEF UiTypes
      <3>2. u \in UndoState /\ u.phase = "load"
        BY <3>1 DEF UndoState
      <3>3. undos' = [undos EXCEPT ![r.click] = u]
        BY <2>3
      <3> HIDE DEF u
      <3> QED
        BY <1>1, <1>3, <2>3, <3>2, <3>3, UndoMoves
    <2> QED
      BY <2>1, <2>2, <2>3
  <1>5. intents' \in [Revisions -> 0..MaxUndos]
    <2>1. intents' = intents \/ intents' = [intents EXCEPT ![r.base] = 0]
      BY DEF ServerHandlesUndo
    <2>2. 0 \in 0..MaxUndos
      BY SessionConstants
    <2> QED
      BY <1>1, <1>3, <2>1, <2>2 DEF UiTypes
  <1>6. NetTypes' /\ LocalTypes' /\ FlightTypes' /\ UiTypes'
    BY <1>1, <1>2, <1>4, <1>5 DEF NetTypes, LocalTypes, FlightTypes, UiTypes
  <1>7. Busy' => Busy
    BY <1>2, <1>4 DEF Busy
  <1>8. CASE UNCHANGED <<contents, undoLog>>
    <2>1. SessionInv'
      BY <1>2, <1>8, SessionStays DEF sessionVars
    <2>2. ServerTypes'
      BY <1>1, <1>2, <1>8 DEF ServerTypes
    <2>3. LoadInv'
      <3>1. Current' = Current
        BY <1>8 DEF Current
      <3> QED
        BY <1>2, <1>4, <1>7, <3>1 DEF LoadInv
    <2> QED
      BY <1>6, <2>1, <2>2, <2>3, TypePartsNext
  <1>9. ASSUME Current < MaxRevision, NEW v \in 1..(Current - 1), contents' = Append(contents, contents[v]),
               undoLog' = [undoLog EXCEPT ![r.id] = Current + 1]
        PROVE  TypeOK' /\ SessionInv' /\ LoadInv'
    <2>1. contents[v] \in Content /\ v \in DOMAIN contents
      BY <1>1, <1>9 DEF ServerTypes
    <2>2. \A e \in Edits : Contains(contents[v], e) => IsSaved(e)
      BY <2>1 DEF IsSaved
    <2>3. SessionInv'
      BY <1>2, <1>9, <2>1, <2>2, ForeignRevision
    <2>4. /\ contents' \in Seq(Content) /\ Current' = Current + 1
      BY <1>1, <1>9, <2>1, Grown
    <2>5. ServerTypes'
      <3>1. Current + 1 \in 0..MaxRevision
        BY <1>1, <1>9, SessionConstants DEF Revisions
      <3> QED
        BY <1>1, <1>2, <1>3, <1>9, <2>4, <3>1 DEF ServerTypes
    <2>6. LoadInv'
      <3>1. \A w : w \in 1..Current => w \in 1..Current'
        BY <1>1, <2>4
      <3> QED
        BY <1>2, <1>4, <1>7, <3>1 DEF LoadInv
    <2> QED
      BY <1>6, <2>3, <2>5, <2>6, TypePartsNext
  <1> QED
    BY <1>8, <1>9 DEF ServerHandlesUndo, serverVars

(* An edit request is handled.                                                   *)

\* What the session still waits for is about the head.
LEMMA ToldIsHead ==
  ASSUME TypeOK, SessionInv, NEW r \in wire, NEW phase, NEW revision, Tell(r, phase, revision),
         flight' # flight
  PROVE  /\ flight # NoFlight /\ queue # <<>> /\ queue[1].state = "sending"
         /\ r.edits = queue[1].edits /\ Id(r) = Id(queue[1])
         /\ r.base = committed.revision
         /\ flight' = [flight EXCEPT !.phase = phase, !.revision = revision]
  <1>1. /\ flight # NoFlight /\ flight.attempt = r.attempt /\ flight.edits = r.edits
        /\ flight' = [flight EXCEPT !.phase = phase, !.revision = revision]
    BY DEF Tell
  <1>2. /\ queue # <<>> /\ flight.edits = queue[1].edits /\ flight.attempt = queue[1].attempts
        /\ queue[1].state = "sending"
    BY <1>1 DEF SessionInv, FlightInv
  <1>3. Id(r) = Id(queue[1])
    BY <1>1, <1>2 DEF Id
  <1>4. r.base = committed.revision
    BY <1>1, <1>2, <1>3 DEF SessionInv, RequestInv
  <1> QED
    BY <1>1, <1>2, <1>3, <1>4

\* The record of a flight that was answered.
LEMMA FlightTold ==
  ASSUME FlightTypes, flight # NoFlight, NEW phase \in {"ok", "conflict", "refused", "latest"},
         NEW revision \in 0..MaxRevision,
         flight' = [flight EXCEPT !.phase = phase, !.revision = revision]
  PROVE  /\ flight' \in Flights
         /\ flight'.edits = flight.edits /\ flight'.attempt = flight.attempt
         /\ flight'.phase = phase /\ flight'.revision = revision
  BY DEF FlightTypes, Flights

\* An answer changes nothing but what the flight knows.
LEMMA AnswerKeeps ==
  ASSUME SessionInv, wire' \subseteq wire, FlightInv',
         UNCHANGED <<contents, log, typed, queue, committed, local>>
  PROVE  SessionInv'
  <1>1. /\ contents' = contents /\ log' = log /\ typed' = typed
        /\ queue' = queue /\ committed' = committed /\ local' = local /\ Current' = Current
    BY DEF Current
  <1>2. Current' \in Revisions /\ (committed.revision <= Current)' /\ CommittedMirrorsServer'
    BY <1>1 DEF SessionInv, CommittedMirrorsServer
  <1>3. QueueInv' /\ AttemptsInv'
    BY <1>1 DEF SessionInv, QueueInv, AttemptsInv, Run, Id
  <1>4. \A r \in wire' : RequestInv(r)'
    BY <1>1 DEF SessionInv, RequestInv, Id
  <1>5. LogInv' /\ SavedInv'
    BY <1>1 DEF SessionInv, LogInv, SavedInv, IsSaved, Id
  <1>6. LocalIsCommittedPlusQueue'
    BY <1>1 DEF SessionInv, LocalIsCommittedPlusQueue, Replayed
  <1> QED
    BY <1>2, <1>3, <1>4, <1>5, <1>6 DEF SessionInv

\* What an answer may say: the revision in the log, a conflict only with a base
\* that is not the current revision, or a refusal.
Answered(r, phase, revision) ==
    \/ phase = "ok" /\ revision = log[Id(r)] /\ revision # 0
    \/ phase = "conflict" /\ revision = 0 /\ log[Id(r)] = 0 /\ r.base # Current
    \/ phase = "refused" /\ revision = 0

\* An answer leaves the flight about the head.
LEMMA AnswerStep ==
  ASSUME TypeOK, SessionInv, NEW r \in wire, NEW phase, NEW revision, Tell(r, phase, revision),
         Answered(r, phase, revision), UNCHANGED <<contents, log, queue, committed>>
  PROVE  FlightInv' /\ FlightTypes'
  <1>1. ServerTypes /\ FlightTypes /\ LocalTypes /\ Current' = Current
    BY TypeParts DEF Current
  <1>2. CASE flight' = flight
    BY <1>1, <1>2 DEF SessionInv, FlightInv, FlightTypes, Id
  <1>3. CASE flight' # flight
    <2>1. /\ flight # NoFlight /\ queue # <<>> /\ queue[1].state = "sending"
          /\ r.edits = queue[1].edits /\ Id(r) = Id(queue[1])
          /\ r.base = committed.revision
          /\ flight' = [flight EXCEPT !.phase = phase, !.revision = revision]
      BY <1>3, ToldIsHead
    <2>2. Id(r) \in Edits
      BY <1>1, <2>1, HeadId DEF SessionInv
    <2>3. phase \in {"ok", "conflict", "refused", "latest"} /\ revision \in 0..MaxRevision
      BY <1>1, <2>2, SessionConstants DEF Answered, ServerTypes
    <2>4. /\ flight' \in Flights
          /\ flight'.edits = flight.edits /\ flight'.attempt = flight.attempt
          /\ flight'.phase = phase /\ flight'.revision = revision
      BY <1>1, <2>1, <2>3, FlightTold
    <2>5. FlightTypes'
      BY <2>4 DEF FlightTypes
    <2>6. phase = "conflict" => log[Id(queue[1])] = 0 /\ committed.revision < Current
      <3>1. committed.revision <= Current /\ committed.revision \in Nat /\ Current \in Nat
        BY <1>1 DEF SessionInv, LocalTypes, Revisions
      <3> HIDE DEF Current
      <3> QED
        BY <2>1, <3>1 DEF Answered
    <2>7. phase = "ok" => revision = log[Id(queue[1])] /\ revision # 0
      BY <2>1 DEF Answered
    <2>8. phase # "latest"
      BY DEF Answered
    <2>9. flight.edits = queue[1].edits /\ flight.attempt = queue[1].attempts
      BY <2>1 DEF SessionInv, FlightInv
    <2> QED
      <3>1. queue' = queue /\ log' = log /\ committed' = committed
        OBVIOUS
      <3>2. flight' # NoFlight \/ flight' = NoFlight
        OBVIOUS
      <3>3. FlightInv' <=>
              /\ flight' # NoFlight =>
                    /\ queue # <<>>
                    /\ flight'.edits = queue[1].edits
                    /\ flight'.attempt = queue[1].attempts
                    /\ flight'.phase = "ok" => flight'.revision = log[Id(queue[1])] /\ flight'.revision # 0
                    /\ flight'.phase \in {"conflict", "latest"} =>
                          log[Id(queue[1])] = 0 /\ committed.revision < Current
                    /\ flight'.phase = "latest" =>
                          committed.revision < flight'.revision /\ flight'.revision <= Current
              /\ queue # <<>> => (queue[1].state = "sending" <=> flight' # NoFlight)
        BY <1>1, <3>1 DEF FlightInv, Id
      <3>4. flight' # NoFlight
        BY <2>4, SessionConstants
      <3> QED
        BY <2>1, <2>4, <2>5, <2>6, <2>7, <2>8, <2>9, <3>3, <3>4
  <1> QED
    BY <1>2, <1>3

\* A commit is one of the head, on top of what the session holds.
LEMMA CommitStep ==
  ASSUME TypeOK, SessionInv, NEW r \in wire, wire' = wire \ {r},
         log[Id(r)] = 0, r.base = Current, Current < MaxRevision,
         contents' = Append(contents, contents[Current] \o r.edits),
         log' = [log EXCEPT ![Id(r)] = Current + 1],
         Tell(r, "ok", Current + 1),
         UNCHANGED <<undoLog, typed, queue, committed, local>>
  PROVE  SessionInv' /\ ServerTypes' /\ FlightTypes'
  <1> DEFINE c == contents[Current] \o r.edits
             h == Id(queue[1])
  <1>0. log' = [log EXCEPT ![h] = Current + 1] /\ typed' = typed /\ queue' = queue
        /\ committed' = committed /\ local' = local /\ undoLog' = undoLog
    BY DEF SessionInv, RequestInv, Id
  <1>1. /\ ServerTypes /\ LocalTypes /\ NetTypes /\ FlightTypes
        /\ Current \in Revisions /\ Current \in Nat /\ Current \in 1..Current
        /\ contents[Current] \in Content
    BY TypeParts DEF SessionInv, Revisions, ServerTypes, Current
  <1>2. /\ queue # <<>> /\ r.edits = queue[1].edits /\ queue[1].state # "pending"
        /\ committed.revision = Current /\ Id(r) = h /\ h <= typed
    BY DEF SessionInv, RequestInv, Id
  <1>3. /\ queue[1] \in Transaction /\ queue[1].edits \in Seq(Edits) /\ Run(queue[1])
        /\ h \in Edits /\ Len(queue[1].edits) \in Nat \ {0}
    BY <1>1, <1>2, HeadId DEF SessionInv
  <1>4. /\ c \in Content /\ c = committed.content \o queue[1].edits
        /\ \A e : Contains(c, e) <=> Contains(contents[Current], e) \/ Contains(queue[1].edits, e)
    <2>1. queue[1].edits \in Seq(Edits \cup {Foreign}) /\ contents[Current] \in Seq(Edits \cup {Foreign})
      BY <1>1, <1>3 DEF Content
    <2>2. committed.content = contents[Current]
      BY <1>2 DEF SessionInv, CommittedMirrorsServer
    <2>3. c \in Content
      BY <1>2, <2>1 DEF Content
    <2> QED
      BY <1>2, <2>1, <2>2, <2>3, ContainsConcat
  <1>5. contents' = Append(contents, c)
    OBVIOUS
  <1> HIDE DEF c, h
  <1>6. /\ contents' \in Seq(Content)
        /\ Current' = Current + 1 /\ Current' \in Revisions
        /\ \A v \in 1..Current : contents'[v] = contents[v]
        /\ contents'[Current + 1] = c
        /\ \A e : IsSaved(e)' <=> IsSaved(e) \/ Contains(c, e)
    BY <1>1, <1>4, <1>5, Grown
  <1>7. /\ log'[h] = Current + 1
        /\ \A e \in Edits : e # h => log'[e] = log[e]
        /\ \A e \in Edits : log[e] \in Nat /\ log[e] <= Current
        /\ log[h] = 0
    <2>1. \A e \in Edits : log[e] \in Nat
      BY <1>1, SessionConstants DEF ServerTypes
    <2>2. \A e \in Edits : log[e] <= Current
      BY DEF SessionInv, LogInv
    <2> QED
      BY <1>0, <1>1, <1>2, <1>3, <2>1, <2>2 DEF ServerTypes
  <1>8. ServerTypes'
    <2>1. Current + 1 \in 0..MaxRevision
      BY <1>1, SessionConstants DEF Revisions
    <2> QED
      BY <1>0, <1>1, <1>3, <1>6, <2>1 DEF ServerTypes
  <1>9. (committed.revision <= Current)' /\ CommittedMirrorsServer'
    <2>1. committed.content = contents[Current] /\ committed.revision = Current
      BY <1>2 DEF SessionInv, CommittedMirrorsServer
    <2>2. contents'[Current] = contents[Current]
      BY <1>1, <1>6
    <2>3. committed'.content = contents'[committed'.revision]
      BY <1>0, <2>1, <2>2
    <2>4. committed'.revision <= Current'
      BY <1>0, <1>1, <1>6, <2>1
    <2> QED
      BY <2>3, <2>4 DEF CommittedMirrorsServer
  <1>10. QueueInv' /\ AttemptsInv'
    BY <1>0 DEF SessionInv, QueueInv, AttemptsInv, Run, Id
  <1>11. FlightInv' /\ FlightTypes'
    <2>1. flight # NoFlight => flight.phase \notin {"ok", "conflict", "latest"}
      BY <1>1, <1>2, <1>7 DEF SessionInv, FlightInv, h
    <2>2. CASE flight' = flight
      <3>1. FlightInv'
        BY <1>0, <2>1, <2>2 DEF SessionInv, FlightInv, h
      <3> QED
        BY <1>1, <2>2, <3>1 DEF FlightTypes
    <2>3. CASE flight' # flight
      <3>1. flight # NoFlight /\ flight' = [flight EXCEPT !.phase = "ok", !.revision = Current + 1]
        BY <2>3 DEF Tell
      <3>2. Current + 1 \in 0..MaxRevision
        BY <1>1, SessionConstants DEF Revisions
      <3>3. /\ flight' \in Flights
            /\ flight'.edits = flight.edits /\ flight'.attempt = flight.attempt
            /\ flight'.phase = "ok" /\ flight'.revision = Current + 1
        BY <1>1, <3>1, <3>2, FlightTold
      <3>4. flight' # NoFlight /\ FlightTypes'
        BY <3>3, SessionConstants DEF FlightTypes
      <3>5. /\ flight.edits = queue[1].edits /\ flight.attempt = queue[1].attempts
            /\ queue[1].state = "sending"
        BY <1>2, <3>1 DEF SessionInv, FlightInv
      <3>6. flight'.revision = log'[Id(queue'[1])] /\ flight'.revision # 0
        BY <1>0, <1>1, <1>7, <3>3 DEF h
      <3>7. FlightInv'
        BY <1>0, <1>2, <3>3, <3>4, <3>5, <3>6 DEF FlightInv
      <3> QED
        BY <3>4, <3>7
    <2> QED
      BY <2>2, <2>3
  <1>12. \A q \in wire' : RequestInv(q)'
    <2> SUFFICES ASSUME NEW q \in wire' PROVE RequestInv(q)'
      OBVIOUS
    <2>1. q \in wire /\ RequestInv(q) /\ q.base \in Nat
      BY <1>1 DEF SessionInv, NetTypes, Request
    <2>2. q.base <= Current' /\ q.base # Current'
      <3>1. q.base <= Current /\ q.base \in Nat
        BY <2>1 DEF RequestInv
      <3> QED
        BY <1>1, <1>6, <3>1
    <2> QED
      BY <1>0, <2>1, <2>2 DEF RequestInv, Id
  <1>13. LogInv'
    <2>1. \A e \in Edits : log'[e] <= Current'
      BY <1>1, <1>3, <1>6, <1>7
    <2>2. \A e \in Edits : log'[e] # 0 => e <= typed /\ e <= h
      <3>1. \A e \in Edits : log[e] # 0 => e <= typed /\ e <= h
        BY <1>2 DEF SessionInv, LogInv, h
      <3>2. h <= h
        BY <1>3, SessionConstants DEF Edits
      <3> QED
        BY <1>2, <1>7, <3>1, <3>2
    <2>3. committed'.revision < log'[h] /\ contents'[log'[h]] = committed'.content \o queue'[1].edits
      <3>1. contents'[log'[h]] = c
        BY <1>6, <1>7
      <3>2. committed'.revision < log'[h]
        BY <1>0, <1>1, <1>2, <1>7
      <3>3. c = committed'.content \o queue'[1].edits
        BY <1>0, <1>4
      <3> QED
        BY <3>1, <3>2, <3>3
    <2> QED
      BY <1>0, <1>2, <2>1, <2>2, <2>3 DEF LogInv, h, Id
  <1>14. SavedInv'
    <2>1. \A e \in 1..typed : e < h => IsSaved(e)'
      BY <1>2, <1>6 DEF SessionInv, SavedInv, h
    <2>2. log'[h] # 0
      BY <1>1, <1>7
    <2>3. ASSUME NEW e \in Edits, IsSaved(e)'
          PROVE  e <= typed /\ (e < h \/ Contains(queue[1].edits, e))
      <3>1. CASE IsSaved(e)
        BY <1>2, <3>1 DEF SessionInv, SavedInv, h
      <3>2. CASE Contains(contents[Current], e)
        <4>1. IsSaved(e)
          BY <1>1, <3>2 DEF IsSaved, ServerTypes, Current
        <4> QED
          BY <1>2, <4>1 DEF SessionInv, SavedInv, h
      <3>3. CASE Contains(queue[1].edits, e)
        <4>1. e \in Id(queue[1])..(Id(queue[1]) + Len(queue[1].edits) - 1)
          BY <1>3, <3>3, ContainsRun
        <4>2. Id(queue[1]) + Len(queue[1].edits) <= typed + 1
          BY <1>1, <1>2, QueueTypes DEF SessionInv, QueueInv
        <4>3. Id(queue[1]) \in Nat /\ typed \in Nat
          BY <1>1, <1>3, SessionConstants DEF LocalTypes, Edits, h
        <4> QED
          BY <1>3, <3>3, <4>1, <4>2, <4>3
      <3> QED
        BY <1>4, <1>6, <2>3, <3>1, <3>2, <3>3
    <2> QED
      BY <1>0, <1>2, <2>1, <2>2, <2>3 DEF SavedInv, h
  <1>15. LocalIsCommittedPlusQueue'
    BY <1>0 DEF SessionInv, LocalIsCommittedPlusQueue, Replayed
  <1> QED
    BY <1>6, <1>8, <1>9, <1>10, <1>11, <1>12, <1>13, <1>14, <1>15 DEF SessionInv

\* The four ways an edit request ends.
LEMMA ServerEditStep ==
  ASSUME TypeOK, SessionInv, LoadInv, NEW r \in wire, ServerHandlesEdit(r)
  PROVE  TypeOK' /\ SessionInv' /\ LoadInv'
  <1>1. /\ ServerTypes /\ NetTypes /\ LocalTypes /\ FlightTypes /\ UiTypes
        /\ wire' = wire \ {r}
        /\ UNCHANGED <<undoWire, typed, queue, committed, local, armed, saving, undos, intents, reload>>
    BY TypeParts DEF ServerHandlesEdit, localVars, uiVars
  <1>2. NetTypes' /\ LocalTypes' /\ UiTypes'
    BY <1>1 DEF NetTypes, LocalTypes, UiTypes
  <1>3. LoadInv'
    <2>1. Busy' = Busy
      BY <1>1 DEF Busy
    <2>2. Busy => flight' = flight
      BY DEF LoadInv, ServerHandlesEdit, Tell
    <2>3. \A v : v \in 1..Current => v \in 1..Current'
      <3>1. CASE contents' = contents
        BY <3>1 DEF Current
      <3>2. CASE contents' # contents
        <4>0. Current \in Nat /\ Current = Len(contents) /\ contents \in Seq(Content)
          BY <1>1 DEF Current, ServerTypes
        <4>1. contents' = Append(contents, contents[Current] \o r.edits)
          BY <3>2 DEF ServerHandlesEdit, serverVars
        <4>2. Current' = Current + 1
          BY <4>0, <4>1 DEF Current
        <4> QED
          BY <4>0, <4>2
      <3> QED
        BY <3>1, <3>2
    <2> QED
      BY <1>1, <2>1, <2>2, <2>3 DEF LoadInv
  <1>4. CASE UNCHANGED serverVars
    <2>1. UNCHANGED <<contents, log, queue, committed>>
      BY <1>1, <1>4 DEF serverVars
    <2>2. FlightInv' /\ FlightTypes'
      <3>1. CASE log[Id(r)] # 0 /\ Tell(r, "ok", log[Id(r)])
        BY <2>1, <3>1, AnswerStep DEF Answered
      <3>2. CASE log[Id(r)] = 0 /\ r.base # Current /\ Tell(r, "conflict", 0)
        BY <2>1, <3>2, AnswerStep DEF Answered
      <3>3. CASE Tell(r, "refused", 0)
        BY <2>1, <3>3, AnswerStep DEF Answered
      <3>4. contents' # Append(contents, contents[Current] \o r.edits) \/ Tell(r, "refused", 0)
        <4>1. contents \in Seq(Content) /\ contents' = contents
          BY <1>1, <2>1 DEF ServerTypes
        <4>2. \A x : contents # Append(contents, x)
          BY <4>1
        <4> QED
          BY <4>1, <4>2
      <3> QED
        BY <3>1, <3>2, <3>3, <3>4 DEF ServerHandlesEdit
    <2>3. SessionInv'
      BY <1>1, <2>1, <2>2, AnswerKeeps
    <2>4. ServerTypes'
      BY <1>1, <1>4 DEF ServerTypes, serverVars
    <2>5. TypeOK' /\ SessionInv'
      BY <1>2, <2>2, <2>3, <2>4, TypePartsNext
    <2> QED
      BY <1>3, <2>5
  <1>5. CASE ~UNCHANGED serverVars
    <2>1. /\ log[Id(r)] = 0 /\ r.base = Current /\ Current < MaxRevision
          /\ contents' = Append(contents, contents[Current] \o r.edits)
          /\ log' = [log EXCEPT ![Id(r)] = Current + 1]
          /\ Tell(r, "ok", Current + 1)
          /\ UNCHANGED undoLog
      BY <1>5 DEF ServerHandlesEdit
    <2>2. SessionInv' /\ ServerTypes' /\ FlightTypes'
      BY <1>1, <2>1, CommitStep
    <2>3. TypeOK' /\ SessionInv'
      BY <1>2, <2>2, TypePartsNext
    <2> QED
      BY <1>3, <2>3
  <1> QED
    BY <1>4, <1>5

--------------------------------------------------------------------------------
(* Typing.                                                                      *)

\* The edits of the outbox, in order.
EditsOf(q) == [i \in 1..Len(q) |-> q[i].edits]

\* Replayed in terms of EditsOf.
LEMMA ReplayedIs ==
  ASSUME NEW q \in Seq(Transaction), NEW content
  PROVE  /\ Replayed(content, q) = content \o FlattenSeq(EditsOf(q))
         /\ EditsOf(q) \in Seq(Seq(Edits))
         /\ EditsOf(q) \in Seq(Content)
         /\ Len(EditsOf(q)) = Len(q)
  <1>1. DOMAIN q = 1..Len(q) /\ Len(q) \in Nat
    OBVIOUS
  <1>2. [i \in DOMAIN q |-> q[i].edits] = EditsOf(q)
    BY <1>1 DEF EditsOf
  <1>3. \A i \in 1..Len(q) : q[i].edits \in Seq(Edits)
    <2>1. \A i \in 1..Len(q) : q[i] \in Transaction
      BY <1>1
    <2>2. \A t \in Transaction : t.edits \in Seq(Edits)
      BY DEF Transaction
    <2> QED
      BY <2>1, <2>2
  <1>4. \A i \in 1..Len(q) : q[i].edits \in Content
    BY <1>3 DEF Content
  <1>5. EditsOf(q) \in [1..Len(q) -> Seq(Edits)] /\ EditsOf(q) \in [1..Len(q) -> Content]
    BY <1>3, <1>4 DEF EditsOf
  <1>6. \A S : \A f \in [1..Len(q) -> S] : f \in Seq(S) /\ Len(f) = Len(q)
    BY <1>1
  <1> QED
    BY <1>2, <1>5, <1>6 DEF Replayed

\* A queue with the same edits is replayed to the same content.
LEMMA ReplayedSame ==
  ASSUME NEW q \in Seq(Transaction), NEW p \in Seq(Transaction), Len(p) = Len(q),
         \A i \in 1..Len(q) : p[i].edits = q[i].edits, NEW content
  PROVE  Replayed(content, p) = Replayed(content, q)
  <1>1. EditsOf(p) = EditsOf(q)
    BY DEF EditsOf
  <1> QED
    BY <1>1, ReplayedIs

\* An element appended behind a concatenation.
LEMMA ConcatOfAppend ==
  ASSUME NEW S, NEW a \in Seq(S), NEW b \in Seq(S), NEW e \in S
  PROVE  a \o Append(b, e) = Append(a \o b, e)
  OBVIOUS

\* An edit typed comes last, in a transaction of its own or in the last one.
LEMMA ReplayedTyped ==
  ASSUME NEW q \in Seq(Transaction), NEW p \in Seq(Transaction), NEW content \in Content, NEW e \in Edits,
         \/ /\ Len(p) = Len(q) + 1
            /\ \A i \in 1..Len(q) : p[i].edits = q[i].edits
            /\ p[Len(p)].edits = <<e>>
         \/ /\ q # <<>> /\ Len(p) = Len(q)
            /\ \A i \in 1..(Len(q) - 1) : p[i].edits = q[i].edits
            /\ p[Len(q)].edits = Append(q[Len(q)].edits, e)
  PROVE  Replayed(content, p) = Append(Replayed(content, q), e)
  <1>1. /\ EditsOf(q) \in Seq(Content) /\ EditsOf(p) \in Seq(Content)
        /\ Len(EditsOf(q)) = Len(q) /\ Len(EditsOf(p)) = Len(p) /\ Len(q) \in Nat /\ Len(p) \in Nat
    BY ReplayedIs
  <1>2. e \in Edits \cup {Foreign} /\ <<e>> \in Content
    BY DEF Content
  <1>3. /\ \A i \in 1..Len(q) : EditsOf(q)[i] = q[i].edits
        /\ \A i \in 1..Len(p) : EditsOf(p)[i] = p[i].edits
    BY DEF EditsOf
  <1>4. FlattenSeq(EditsOf(q)) \in Content
    BY <1>1, FlattenType DEF Content
  <1>5. CASE /\ Len(p) = Len(q) + 1
             /\ \A i \in 1..Len(q) : p[i].edits = q[i].edits
             /\ p[Len(p)].edits = <<e>>
    <2>1. EditsOf(p) = Append(EditsOf(q), <<e>>)
      <3> DEFINE a == EditsOf(p)
                 b == Append(EditsOf(q), <<e>>)
      <3>1. /\ b \in Seq(Content) /\ Len(b) = Len(q) + 1 /\ b[Len(q) + 1] = <<e>>
            /\ \A i \in 1..Len(q) : b[i] = q[i].edits
        <4>1. /\ b \in Seq(Content) /\ Len(b) = Len(EditsOf(q)) + 1 /\ b[Len(EditsOf(q)) + 1] = <<e>>
              /\ \A i \in 1..Len(EditsOf(q)) : b[i] = EditsOf(q)[i]
          BY <1>1, <1>2, AppendProperties
        <4> HIDE DEF b
        <4> QED
          BY <1>1, <1>3, <4>1
      <3>2. /\ a \in Seq(Content) /\ Len(a) = Len(q) + 1 /\ a[Len(q) + 1] = <<e>>
            /\ \A i \in 1..Len(q) : a[i] = q[i].edits
        <4>1. Len(q) + 1 \in 1..Len(p) /\ \A i \in 1..Len(q) : i \in 1..Len(p)
          BY <1>1, <1>5
        <4> HIDE DEF EditsOf
        <4> QED
          BY <1>1, <1>3, <1>5, <4>1
      <3> HIDE DEF a, b
      <3>3. \A i \in 1..Len(a) : a[i] = b[i]
        <4>1. \A i \in 1..(Len(q) + 1) : i \in 1..Len(q) \/ i = Len(q) + 1
          BY <1>1
        <4> QED
          BY <3>1, <3>2, <4>1
      <3>4. a = b
        BY <3>1, <3>2, <3>3, SeqEqual
      <3> QED
        BY <3>4 DEF a, b
    <2>2. FlattenSeq(EditsOf(p)) = FlattenSeq(EditsOf(q)) \o <<e>>
      BY <1>1, <1>2, <2>1, FlattenAppend DEF Content
    <2>3. content \o (FlattenSeq(EditsOf(q)) \o <<e>>) = Append(content \o FlattenSeq(EditsOf(q)), e)
      <3> DEFINE f == FlattenSeq(EditsOf(q))
      <3>1. f \in Seq(Edits \cup {Foreign}) /\ content \in Seq(Edits \cup {Foreign})
        BY <1>4 DEF Content
      <3> HIDE DEF f
      <3>2. content \o (f \o <<e>>) = Append(content \o f, e)
        BY <1>2, <3>1
      <3> QED
        BY <3>2 DEF f
    <2> QED
      BY <2>2, <2>3, ReplayedIs
  <1>6. CASE /\ q # <<>> /\ Len(p) = Len(q)
             /\ \A i \in 1..(Len(q) - 1) : p[i].edits = q[i].edits
             /\ p[Len(q)].edits = Append(q[Len(q)].edits, e)
    <2>1. PICK s \in Seq(Content), x \in Content : EditsOf(q) = Append(s, x)
      <3>1. EditsOf(q) # <<>>
        BY <1>1, <1>6
      <3> QED
        BY <1>1, <3>1, SequenceEmptyOrAppend
    <2>2. /\ Len(s) \in Nat /\ Len(q) = Len(s) + 1 /\ x = q[Len(q)].edits
          /\ \A i \in 1..Len(s) : s[i] = q[i].edits
      <3>1. /\ Len(EditsOf(q)) = Len(s) + 1 /\ EditsOf(q)[Len(s) + 1] = x
            /\ \A i \in 1..Len(s) : EditsOf(q)[i] = s[i]
        BY <2>1, AppendProperties
      <3>2. Len(s) \in Nat /\ Len(q) = Len(s) + 1 /\ Len(s) + 1 \in 1..Len(q)
            /\ \A i \in 1..Len(s) : i \in 1..Len(q)
        BY <1>1, <3>1
      <3> HIDE DEF EditsOf
      <3> QED
        BY <1>3, <3>1, <3>2
    <2>3. Append(x, e) \in Content
      BY <1>2 DEF Content
    <2>4. EditsOf(p) = Append(s, Append(x, e))
      <3> DEFINE a == EditsOf(p)
                 y == Append(x, e)
                 b == Append(s, y)
      <3>1. /\ b \in Seq(Content) /\ Len(b) = Len(q) /\ b[Len(q)] = y
            /\ \A i \in 1..(Len(q) - 1) : b[i] = q[i].edits
        <4> HIDE DEF y
        <4>1. /\ b \in Seq(Content) /\ Len(b) = Len(s) + 1 /\ b[Len(s) + 1] = y
              /\ \A i \in 1..Len(s) : b[i] = s[i]
          BY <2>3, AppendProperties DEF y
        <4> HIDE DEF b
        <4> QED
          BY <2>2, <4>1
      <3>2. /\ a \in Seq(Content) /\ Len(a) = Len(q) /\ a[Len(q)] = y
            /\ \A i \in 1..(Len(q) - 1) : a[i] = q[i].edits
        <4>1. Len(q) \in 1..Len(p) /\ \A i \in 1..(Len(q) - 1) : i \in 1..Len(p)
          BY <1>1, <1>6, <2>2
        <4> HIDE DEF EditsOf
        <4> QED
          BY <1>1, <1>3, <1>6, <2>2, <4>1
      <3> HIDE DEF a, b, y
      <3>3. \A i \in 1..Len(a) : a[i] = b[i]
        <4>1. \A i \in 1..Len(q) : i \in 1..(Len(q) - 1) \/ i = Len(q)
          BY <1>1
        <4> QED
          BY <3>1, <3>2, <4>1
      <3>4. a = b
        BY <3>1, <3>2, <3>3, SeqEqual
      <3> QED
        BY <3>4 DEF a, b, y
    <2>5. /\ FlattenSeq(EditsOf(p)) = FlattenSeq(s) \o Append(x, e)
          /\ FlattenSeq(EditsOf(q)) = FlattenSeq(s) \o x
          /\ FlattenSeq(s) \in Content
      BY <2>1, <2>3, <2>4, FlattenAppend, FlattenType DEF Content
    <2>6. content \o (FlattenSeq(s) \o Append(x, e)) = Append(content \o (FlattenSeq(s) \o x), e)
      <3> DEFINE f == FlattenSeq(s)
      <3>1. f \in Seq(Edits \cup {Foreign}) /\ content \in Seq(Edits \cup {Foreign})
            /\ x \in Seq(Edits \cup {Foreign})
        BY <2>5 DEF Content
      <3> HIDE DEF f
      <3>2. f \o Append(x, e) = Append(f \o x, e)
        BY <1>2, <3>1, ConcatOfAppend
      <3> DEFINE g == f \o x
      <3>3. g \in Seq(Edits \cup {Foreign})
        BY <3>1
      <3> HIDE DEF g
      <3>4. content \o Append(g, e) = Append(content \o g, e)
        BY <1>2, <3>1, <3>3, ConcatOfAppend
      <3> QED
        BY <3>2, <3>4 DEF f, g
    <2> QED
      BY <2>5, <2>6, ReplayedIs
  <1> QED
    BY <1>5, <1>6

\* The outbox after an edit: the last transaction is longer, or there is a new one.
Coalesced(q, p, e) ==
    LET n == Len(q)
    IN  /\ q # <<>> /\ q[n].state = "pending"
        /\ p \in Seq(Transaction) /\ Len(p) = n
        /\ \A i \in 1..(n - 1) : p[i] = q[i]
        /\ p[n].edits = Append(q[n].edits, e)
        /\ p[n].base = q[n].base /\ p[n].state = q[n].state /\ p[n].attempts = q[n].attempts

Enqueued(q, p, e) ==
    LET n == Len(q)
    IN  /\ p \in Seq(Transaction) /\ Len(p) = n + 1
        /\ \A i \in 1..n : p[i] = q[i]
        /\ p[n + 1] = [edits |-> <<e>>, base |-> committed.revision + n, state |-> "pending",
                       attempts |-> 0]

\* A transaction an edit is folded into.
LEMMA Folded ==
  ASSUME NEW t \in Transaction, NEW e \in Edits
  PROVE  /\ [t EXCEPT !.edits = Append(@, e)] \in Transaction
         /\ [t EXCEPT !.edits = Append(@, e)].edits = Append(t.edits, e)
         /\ [t EXCEPT !.edits = Append(@, e)].base = t.base
         /\ [t EXCEPT !.edits = Append(@, e)].state = t.state
         /\ [t EXCEPT !.edits = Append(@, e)].attempts = t.attempts
  <1>1. t.edits \in Seq(Edits)
    BY DEF Transaction
  <1>2. Append(t.edits, e) \in Seq(Edits)
    BY <1>1
  <1> QED
    BY <1>2 DEF Transaction

\* Typing folds the edit into the last transaction or adds one.
LEMMA TypeQueue ==
  ASSUME LocalTypes, Type
  PROVE  LET e == typed + 1
         IN  /\ e \in Edits /\ Len(queue) \in Nat
             /\ Coalesced(queue, queue', e) \/ Enqueued(queue, queue', e)
  <1> DEFINE e == typed + 1
             n == Len(queue)
             fresh == [edits |-> <<e>>, base |-> committed.revision + n, state |-> "pending", attempts |-> 0]
  <1>1. e \in Edits /\ n \in Nat /\ committed.revision \in Nat
    BY QueueTypes, SessionConstants DEF Type, LocalTypes, Edits, Revisions
  <1>2. queue \in Seq(Transaction) /\ \A i \in 1..n : queue[i] \in Transaction
    BY DEF LocalTypes
  <1>3. CASE MayCoalesce /\ queue' = [queue EXCEPT ![n].edits = Append(@, e)]
    <2> DEFINE t == [queue[n] EXCEPT !.edits = Append(@, e)]
    <2>1. queue # <<>> /\ queue[n].state = "pending" /\ n \in 1..n
      BY <1>1, <1>2, <1>3 DEF MayCoalesce
    <2>2. queue[n] \in Transaction
      BY <1>2, <2>1
    <2> HIDE DEF e
    <2>3. /\ t \in Transaction /\ t.edits = Append(queue[n].edits, e)
          /\ t.base = queue[n].base /\ t.state = queue[n].state /\ t.attempts = queue[n].attempts
      BY <1>1, <2>2, Folded DEF e
    <2>4. queue' = [queue EXCEPT ![n] = t]
      BY <1>3
    <2> HIDE DEF t
    <2>5. /\ queue' \in Seq(Transaction) /\ Len(queue') = n
          /\ \A i \in 1..(n - 1) : queue'[i] = queue[i]
          /\ queue'[n] = t
      <3>1. /\ [queue EXCEPT ![n] = t] \in Seq(Transaction) /\ Len([queue EXCEPT ![n] = t]) = n
            /\ \A j \in 1..n : [queue EXCEPT ![n] = t][j] = IF j = n THEN t ELSE queue[j]
        BY <1>2, <2>1, <2>3, ExceptSeq
      <3>2. \A j \in 1..(n - 1) : j \in 1..n /\ j # n
        BY <1>1
      <3> QED
        BY <2>1, <2>4, <3>1, <3>2
    <2> QED
      BY <1>1, <2>1, <2>3, <2>5 DEF Coalesced, e
  <1>4. CASE queue' = Append(queue, fresh)
    <2> HIDE DEF e
    <2>1. fresh \in Transaction
      <3>1. committed.revision + n \in Nat /\ 0 \in 0..(MaxAttempts + MaxRevision) /\ <<e>> \in Seq(Edits)
        BY <1>1, SessionConstants
      <3> QED
        BY <3>1 DEF Transaction, OutboxState
    <2> HIDE DEF fresh
    <2>2. /\ queue' \in Seq(Transaction) /\ Len(queue') = n + 1
          /\ \A i \in 1..n : queue'[i] = queue[i]
          /\ queue'[n + 1] = fresh
      BY <1>2, <1>4, <2>1, AppendProperties
    <2> QED
      BY <1>1, <2>2 DEF Enqueued, e, fresh
  <1> QED
    BY <1>3, <1>4 DEF Type

\* Typing preserves the invariant: the session waits for an answer with a head that
\* no edit is folded into.
LEMMA TypeStep ==
  ASSUME TypeOK, SessionInv, LoadInv, Patient, Type
  PROVE  TypeOK' /\ SessionInv' /\ LoadInv'
  <1> DEFINE e == typed + 1
             n == Len(queue)
  <1>1. /\ ServerTypes /\ NetTypes /\ LocalTypes /\ FlightTypes /\ UiTypes
        /\ typed < MaxEdits /\ typed' = e /\ local' = Append(local, e) /\ ~Busy
        /\ UNCHANGED <<contents, log, undoLog, wire, undoWire, committed, flight, saving, undos,
                       intents, reload>>
    BY TypeParts DEF Type, serverVars, netVars, uiVars
  <1>2. /\ e \in Edits /\ n \in Nat /\ typed \in Nat
        /\ Coalesced(queue, queue', e) \/ Enqueued(queue, queue', e)
    BY <1>1, TypeQueue DEF LocalTypes
  <1>3. /\ contents' = contents /\ log' = log /\ wire' = wire /\ committed' = committed
        /\ flight' = flight /\ Current' = Current
    BY <1>1 DEF Current
  <1>e. e = typed + 1
    OBVIOUS
  <1> HIDE DEF e
  <1>4. /\ queue' \in Seq(Transaction) /\ Len(queue') \in Nat \ {0} /\ queue' # <<>>
        /\ \A i \in 2..Len(queue') : queue'[i].state = "pending" /\ queue'[i].attempts = 0
    <2>1. \A i \in 2..n : queue[i].state = "pending" /\ queue[i].attempts = 0
      BY <1>1 DEF LocalTypes
    <2>2. CASE Coalesced(queue, queue', e)
      <3>1. n # 0 /\ queue' \in Seq(Transaction) /\ Len(queue') = n
        BY <1>1, <2>2, QueueTypes DEF Coalesced
      <3>2. ASSUME NEW i \in 2..n PROVE queue'[i].state = "pending" /\ queue'[i].attempts = 0
        <4>1. i \in 1..(n - 1) \/ i = n
          BY <1>2
        <4> QED
          BY <2>1, <2>2, <4>1 DEF Coalesced
      <3> QED
        BY <1>2, <3>1, <3>2
    <2>3. CASE Enqueued(queue, queue', e)
      <3>1. queue' \in Seq(Transaction) /\ Len(queue') = n + 1
        BY <2>3 DEF Enqueued
      <3>2. ASSUME NEW i \in 2..(n + 1) PROVE queue'[i].state = "pending" /\ queue'[i].attempts = 0
        <4>1. (i \in 1..n /\ i \in 2..n) \/ i = n + 1
          BY <1>2
        <4> QED
          BY <2>1, <2>3, <4>1 DEF Enqueued
      <3> QED
        BY <1>2, <3>1, <3>2
    <2> QED
      BY <1>2, <2>2, <2>3
  <1>5. ASSUME queue # <<>>
        PROVE  AttemptsInv' /\ FlightInv' /\ (\A r \in wire' : RequestInv(r)') /\ LogInv' /\ SavedInv'
    <2>1. /\ Id(queue'[1]) = Id(queue[1]) /\ queue'[1].state = queue[1].state
          /\ queue'[1].attempts = queue[1].attempts
          /\ queue[1].state # "pending" => queue'[1] = queue[1]
      <3>1. n # 0 /\ queue[1].edits \in Seq(Edits) /\ queue[1].edits # <<>>
        BY <1>1, <1>5, QueueTypes, HeadId DEF SessionInv, Run
      <3>2. CASE Coalesced(queue, queue', e)
        <4>1. CASE n = 1
          <5>1. queue'[1].edits = Append(queue[1].edits, e) /\ queue[1].state = "pending"
            BY <3>2, <4>1 DEF Coalesced
          <5>2. Append(queue[1].edits, e)[1] = queue[1].edits[1]
            BY <1>2, <3>1
          <5>3. queue'[1].state = queue[1].state /\ queue'[1].attempts = queue[1].attempts
            BY <3>2, <4>1 DEF Coalesced
          <5> QED
            BY <5>1, <5>2, <5>3 DEF Id
        <4>2. CASE n # 1
          <5>0. n \in Nat /\ n # 0 /\ n # 1
            BY <1>2, <3>1, <4>2
          <5> HIDE DEF n
          <5>1. 1 \in 1..(n - 1)
            BY <5>0
          <5> QED
            BY <3>2, <5>1 DEF Coalesced, n
        <4> QED
          BY <4>1, <4>2
      <3>3. CASE Enqueued(queue, queue', e)
        <4>1. 1 \in 1..n
          BY <1>2, <3>1
        <4> QED
          BY <3>3, <4>1 DEF Enqueued
      <3> QED
        BY <1>2, <3>2, <3>3
    <2>2. Id(queue[1]) \in Edits /\ Id(queue[1]) <= typed
      <3>1. Id(queue[1]) \in Edits /\ Len(queue[1].edits) \in Nat \ {0} /\ 1 \in 1..n
        BY <1>1, <1>2, <1>5, HeadId, QueueTypes DEF SessionInv
      <3>2. Id(queue[1]) + Len(queue[1].edits) <= typed + 1
        BY <3>1 DEF SessionInv, QueueInv
      <3> QED
        BY <1>2, <3>1, <3>2, SessionConstants DEF Edits
    <2>3. AttemptsInv'
      BY <1>3, <1>5, <2>1 DEF SessionInv, AttemptsInv
    <2>4. FlightInv'
      BY <1>3, <1>4, <1>5, <2>1 DEF SessionInv, FlightInv
    <2>5. \A r \in wire' : RequestInv(r)'
      <3> SUFFICES ASSUME NEW r \in wire PROVE RequestInv(r)'
        BY <1>3
      <3>1. RequestInv(r) /\ r.edits \in Seq(Edits)
        BY <1>1 DEF SessionInv, NetTypes, Request
      <3>2. Id(r) <= typed'
        <4>1. Id(r) \in Nat /\ Id(r) <= typed
          BY <3>1, SessionConstants DEF RequestInv, Id, Edits
        <4> QED
          BY <1>1, <1>2, <1>e, <4>1
      <3>3. queue' # <<>> => Id(r) <= Id(queue'[1])
        BY <1>4, <1>5, <2>1, <3>1 DEF RequestInv
      <3>4. queue' # <<>> /\ Id(r) = Id(queue'[1]) =>
               /\ r.attempt <= queue'[1].attempts
               /\ r.attempt = queue'[1].attempts /\ queue'[1].state = "sending" => r.base = committed.revision
        BY <1>4, <1>5, <2>1, <3>1 DEF RequestInv
      <3>5. log[Id(r)] = 0 /\ r.base = Current =>
               /\ queue' # <<>>
               /\ r.edits = queue'[1].edits
               /\ queue'[1].state # "pending"
               /\ committed.revision = Current
        BY <1>4, <1>5, <2>1, <3>1 DEF RequestInv
      <3>6. r.edits # <<>> /\ r.base <= Current
        BY <3>1 DEF RequestInv
      <3> QED
        BY <1>3, <3>2, <3>3, <3>4, <3>5, <3>6 DEF RequestInv, Id
    <2>6. LogInv'
      <3>1. \A d \in Edits : log[d] # 0 => d <= typed' /\ d <= Id(queue[1])
        BY <1>1, <1>2, <1>5, <1>e, SessionConstants DEF SessionInv, LogInv, Edits
      <3>2. log[Id(queue[1])] # 0 =>
               /\ queue[1].state # "pending"
               /\ committed.revision < log[Id(queue[1])]
               /\ contents[log[Id(queue[1])]] = committed.content \o queue[1].edits
        BY <1>5 DEF SessionInv, LogInv
      <3>3. \A d \in Edits : log[d] <= Current
        BY DEF SessionInv, LogInv
      <3> QED
        BY <1>3, <2>1, <3>1, <3>2, <3>3 DEF LogInv
    <2>7. SavedInv'
      <3>1. \A d : IsSaved(d)' <=> IsSaved(d)
        BY <1>3 DEF IsSaved
      <3>2. ASSUME NEW d \in 1..typed', d < Id(queue[1]) PROVE IsSaved(d)
        <4>1. d \in 1..typed
          BY <1>1, <1>2, <1>e, <2>2, <3>2, SessionConstants DEF Edits
        <4> QED
          BY <1>5, <3>2, <4>1 DEF SessionInv, SavedInv
      <3>3. ASSUME NEW d \in Edits, IsSaved(d)
            PROVE  /\ d <= typed'
                   /\ d < Id(queue[1]) \/ (Contains(queue'[1].edits, d) /\ log[Id(queue[1])] # 0)
        <4>1. d <= typed /\ (d < Id(queue[1]) \/ (Contains(queue[1].edits, d) /\ log[Id(queue[1])] # 0))
          BY <1>5, <3>3 DEF SessionInv, SavedInv
        <4>2. log[Id(queue[1])] # 0 => queue'[1] = queue[1]
          BY <1>5, <2>1 DEF SessionInv, LogInv
        <4>3. d <= typed'
          BY <1>1, <1>2, <1>e, <4>1, SessionConstants DEF Edits
        <4> QED
          BY <4>1, <4>2, <4>3
      <3> QED
        BY <1>3, <1>4, <2>1, <3>1, <3>2, <3>3 DEF SavedInv
    <2> QED
      BY <2>3, <2>4, <2>5, <2>6, <2>7
  <1>6. ASSUME queue = <<>>
        PROVE  AttemptsInv' /\ FlightInv' /\ (\A r \in wire' : RequestInv(r)') /\ LogInv' /\ SavedInv'
    <2>1. /\ queue'[1] = [edits |-> <<e>>, base |-> committed.revision + n, state |-> "pending",
                          attempts |-> 0]
          /\ n = 0 /\ flight = NoFlight
      <3>1. n = 0 /\ flight = NoFlight /\ ~Coalesced(queue, queue', e)
        BY <1>1, <1>6, QueueTypes DEF SessionInv, FlightInv, Coalesced
      <3> QED
        BY <1>2, <3>1 DEF Enqueued
    <2>2. Id(queue'[1]) = e /\ queue'[1].state = "pending" /\ queue'[1].attempts = 0
      BY <2>1 DEF Id
    <2>3. AttemptsInv'
      <3>1. committed.revision \in Nat \ {0}
        BY <1>1 DEF LocalTypes, Revisions
      <3> QED
        BY <1>3, <2>2, <3>1, SessionConstants DEF AttemptsInv
    <2>4. FlightInv'
      BY <1>3, <2>1, <2>2 DEF FlightInv
    <2>5. \A r \in wire' : RequestInv(r)'
      <3> SUFFICES ASSUME NEW r \in wire PROVE RequestInv(r)'
        BY <1>3
      <3>1. RequestInv(r) /\ r.edits \in Seq(Edits)
        BY <1>1 DEF SessionInv, NetTypes, Request
      <3>2. Id(r) <= typed' /\ Id(r) <= e /\ Id(r) # e
        <4>1. Id(r) \in Nat /\ Id(r) <= typed
          BY <3>1, SessionConstants DEF RequestInv, Id, Edits
        <4> QED
          BY <1>1, <1>2, <1>e, <4>1
      <3>3. queue' # <<>> => Id(r) <= Id(queue'[1])
        BY <2>2, <3>2
      <3>4. queue' # <<>> /\ Id(r) = Id(queue'[1]) =>
               /\ r.attempt <= queue'[1].attempts
               /\ r.attempt = queue'[1].attempts /\ queue'[1].state = "sending" => r.base = committed.revision
        BY <2>2, <3>2
      <3>5. log[Id(r)] = 0 /\ r.base = Current =>
               /\ queue' # <<>>
               /\ r.edits = queue'[1].edits
               /\ queue'[1].state # "pending"
               /\ committed.revision = Current
        BY <1>6, <3>1 DEF RequestInv
      <3>6. r.edits # <<>> /\ r.base <= Current
        BY <3>1 DEF RequestInv
      <3> QED
        BY <1>3, <3>2, <3>3, <3>4, <3>5, <3>6 DEF RequestInv, Id
    <2>6. LogInv'
      <3>1. \A d \in Edits : log[d] # 0 => d <= typed
        BY DEF SessionInv, LogInv
      <3>2. \A d \in Edits : log[d] # 0 => d <= typed' /\ d <= e
        BY <1>1, <1>2, <1>e, <3>1, SessionConstants DEF Edits
      <3>3. log[e] = 0
        BY <1>2, <1>e, <3>1
      <3>4. \A d \in Edits : log[d] <= Current
        BY DEF SessionInv, LogInv
      <3> QED
        BY <1>3, <2>2, <3>2, <3>3, <3>4 DEF LogInv
    <2>7. SavedInv'
      <3>1. \A d : IsSaved(d)' <=> IsSaved(d)
        BY <1>3 DEF IsSaved
      <3>2. ASSUME NEW d \in 1..typed', d < e PROVE IsSaved(d)
        <4>1. d \in 1..typed
          BY <1>1, <1>2, <1>e, <3>2
        <4> QED
          BY <1>6, <4>1 DEF SessionInv, SavedInv
      <3>3. ASSUME NEW d \in Edits, IsSaved(d) PROVE d <= typed' /\ d < e
        <4>1. d <= typed
          BY <3>3 DEF SessionInv, SavedInv
        <4> QED
          BY <1>1, <1>2, <1>e, <4>1, SessionConstants DEF Edits
      <3> QED
        BY <1>4, <2>2, <3>1, <3>2, <3>3 DEF SavedInv
    <2> QED
      BY <2>3, <2>4, <2>5, <2>6, <2>7
  <1>7. QueueInv'
    <2> DEFINE m == Len(queue')
    <2>1. ASSUME NEW i \in 1..n
          PROVE  /\ Run(queue[i]) /\ queue[i].base = committed.revision + i - 1
                 /\ Id(queue[i]) + Len(queue[i].edits) <= typed + 1
                 /\ queue[i] \in Transaction /\ queue[i].edits \in Seq(Edits)
      BY <1>1, QueueTypes DEF SessionInv, QueueInv
    <2>2. \A i \in 2..n : Id(queue[i]) = Id(queue[i - 1]) + Len(queue[i - 1].edits)
      BY DEF SessionInv, QueueInv
    <2>3. n # 0 => Id(queue[n]) + Len(queue[n].edits) = typed + 1
      BY <1>1, QueueTypes DEF SessionInv, QueueInv
    <2>4. CASE Enqueued(queue, queue', e)
      <3>1. /\ m = n + 1 /\ \A i \in 1..n : queue'[i] = queue[i]
            /\ queue'[n + 1] = [edits |-> <<e>>, base |-> committed.revision + n, state |-> "pending",
                                attempts |-> 0]
        BY <2>4 DEF Enqueued
      <3>2. /\ Run(queue'[n + 1]) /\ Id(queue'[n + 1]) = e /\ Len(queue'[n + 1].edits) = 1
            /\ queue'[n + 1].base = committed.revision + n
        <4>1. queue'[n + 1].edits = <<e>> /\ queue'[n + 1].base = committed.revision + n
          BY <3>1
        <4> HIDE DEF Current
        <4>2. Len(<<e>>) = 1 /\ <<e>>[1] = e /\ <<e>> # <<>>
          OBVIOUS
        <4>3. \A j \in 1..1 : <<e>>[j] = e + j - 1
          <5>1. e \in Nat /\ \A j \in 1..1 : j = 1
            BY <1>2, <1>e
          <5> QED
            BY <4>2, <5>1
        <4> QED
          BY <4>1, <4>2, <4>3 DEF Run, Id
      <3>3. ASSUME NEW i \in 1..m
            PROVE  /\ Run(queue'[i]) /\ queue'[i].base = committed.revision + i - 1
                   /\ Id(queue'[i]) + Len(queue'[i].edits) <= typed' + 1
        <4>1. CASE i \in 1..n
          <5>1. Id(queue[i]) \in Nat /\ Len(queue[i].edits) \in Nat
            BY <2>1, <4>1, SessionConstants DEF Run, Id, Edits
          <5> QED
            BY <1>1, <1>2, <1>e, <2>1, <3>1, <4>1, <5>1
        <4>2. CASE i = n + 1
          <5>1. committed.revision \in Nat
            BY <1>1 DEF LocalTypes, Revisions
          <5>2. committed.revision + n = committed.revision + i - 1 /\ e + 1 <= typed' + 1
            BY <1>1, <1>2, <1>e, <4>2, <5>1
          <5> QED
            BY <3>2, <4>2, <5>2
        <4> QED
          BY <1>2, <3>1, <4>1, <4>2
      <3>4. ASSUME NEW i \in 2..m
            PROVE  Id(queue'[i]) = Id(queue'[i - 1]) + Len(queue'[i - 1].edits)
        <4>1. CASE i \in 2..n
          <5>1. i \in 1..n /\ i - 1 \in 1..n
            BY <1>2, <4>1
          <5> QED
            BY <2>2, <3>1, <4>1, <5>1
        <4>2. CASE i = n + 1
          <5>1. n # 0 /\ n \in 1..n /\ i - 1 = n
            BY <1>2, <4>2
          <5> QED
            BY <1>e, <2>3, <3>1, <3>2, <4>2, <5>1
        <4> QED
          BY <1>2, <3>1, <4>1, <4>2
      <3>5. Id(queue'[m]) + Len(queue'[m].edits) = typed' + 1
        BY <1>1, <1>2, <3>1, <3>2
      <3> QED
        BY <1>3, <3>3, <3>4, <3>5 DEF QueueInv
    <2>5. CASE Coalesced(queue, queue', e)
      <3>1. /\ m = n /\ n # 0 /\ n \in 1..n /\ \A i \in 1..(n - 1) : queue'[i] = queue[i]
            /\ queue'[n].edits = Append(queue[n].edits, e) /\ queue'[n].base = queue[n].base
        BY <1>1, <1>2, <2>5, QueueTypes DEF Coalesced
      <3>2. /\ Run(queue'[n]) /\ Id(queue'[n]) = Id(queue[n])
            /\ Len(queue'[n].edits) = Len(queue[n].edits) + 1
        <4> DEFINE s == queue[n].edits
                   t == queue'[n].edits
        <4>1. /\ s \in Seq(Edits) /\ s # <<>> /\ Len(s) \in Nat \ {0}
              /\ \A j \in 1..Len(s) : s[j] = s[1] + j - 1
              /\ s[1] + Len(s) = typed + 1
          BY <2>1, <2>3, <3>1 DEF Run, Id
        <4>2. t = Append(s, e)
          BY <3>1
        <4> HIDE DEF s, t
        <4>3. /\ Len(t) = Len(s) + 1 /\ t[Len(s) + 1] = e /\ \A j \in 1..Len(s) : t[j] = s[j]
              /\ t # <<>>
          BY <1>2, <4>1, <4>2, AppendProperties
        <4>4. s[1] \in Nat /\ t[1] = s[1]
          <5>1. 1 \in 1..Len(s) /\ s[1] \in Edits
            BY <4>1
          <5> QED
            BY <4>3, <5>1, SessionConstants DEF Edits
        <4>5. \A j \in 1..Len(t) : t[j] = t[1] + j - 1
          <5>1. \A j \in 1..(Len(s) + 1) : j \in 1..Len(s) \/ j = Len(s) + 1
            BY <4>1
          <5>2. e = t[1] + (Len(s) + 1) - 1
            BY <1>2, <1>e, <4>1, <4>4
          <5> QED
            BY <4>1, <4>3, <4>4, <5>1, <5>2
        <4> QED
          BY <4>3, <4>4, <4>5 DEF Run, Id, s, t
      <3>3. ASSUME NEW i \in 1..m
            PROVE  /\ Run(queue'[i]) /\ queue'[i].base = committed.revision + i - 1
                   /\ Id(queue'[i]) + Len(queue'[i].edits) <= typed' + 1
        <4>0. \A k \in 1..n : Id(queue[k]) \in Nat /\ Len(queue[k].edits) \in Nat
          BY <2>1, SessionConstants DEF Run, Id, Edits
        <4>1. CASE i \in 1..(n - 1)
          <5>1. i \in 1..n
            BY <1>2, <4>1
          <5>2. queue'[i] = queue[i] /\ Id(queue[i]) \in Nat /\ Len(queue[i].edits) \in Nat
                /\ Id(queue[i]) + Len(queue[i].edits) <= typed + 1
            BY <2>1, <3>1, <4>0, <4>1, <5>1
          <5>3. Id(queue[i]) + Len(queue[i].edits) <= typed' + 1
            <6> DEFINE a == Id(queue[i])
                       b == Len(queue[i].edits)
            <6>1. a \in Nat /\ b \in Nat /\ a + b <= typed + 1 /\ typed' = typed + 1 /\ typed \in Nat
              BY <1>1, <1>2, <1>e, <5>2
            <6> HIDE DEF a, b
            <6>2. a + b <= typed' + 1
              BY <6>1
            <6> QED
              BY <6>2 DEF a, b
          <5> QED
            BY <2>1, <5>1, <5>2, <5>3
        <4>2. CASE i = n
          <5>1. /\ Id(queue[n]) \in Nat /\ Len(queue[n].edits) \in Nat
                /\ Id(queue[n]) + Len(queue[n].edits) = typed + 1
            BY <2>3, <3>1, <4>0
          <5>2. Id(queue'[n]) + Len(queue'[n].edits) <= typed' + 1
            <6> DEFINE a == Id(queue[n])
                       b == Len(queue[n].edits)
            <6>1. /\ a \in Nat /\ b \in Nat /\ a + b = typed + 1 /\ typed' = typed + 1 /\ typed \in Nat
                  /\ Id(queue'[n]) = a /\ Len(queue'[n].edits) = b + 1
              BY <1>1, <1>2, <1>e, <3>2, <5>1
            <6> HIDE DEF a, b
            <6>2. a + (b + 1) <= typed' + 1
              BY <6>1
            <6> QED
              BY <6>1, <6>2
          <5>3. queue'[n].base = committed.revision + n - 1
            BY <2>1, <3>1
          <5> QED
            BY <3>2, <4>2, <5>2, <5>3
        <4> QED
          BY <1>2, <3>1, <4>1, <4>2
      <3>4. ASSUME NEW i \in 2..m
            PROVE  Id(queue'[i]) = Id(queue'[i - 1]) + Len(queue'[i - 1].edits)
        <4>1. i \in 2..n /\ i - 1 \in 1..(n - 1) /\ (i \in 1..(n - 1) \/ i = n)
          BY <1>2, <3>1
        <4> QED
          BY <2>2, <3>1, <3>2, <4>1
      <3>5. Id(queue'[m]) + Len(queue'[m].edits) = typed' + 1
        <4>0. \A k \in 1..n : Id(queue[k]) \in Nat /\ Len(queue[k].edits) \in Nat
          BY <2>1, SessionConstants DEF Run, Id, Edits
        <4>1. Id(queue[n]) \in Nat /\ Len(queue[n].edits) \in Nat
          BY <3>1, <4>0
        <4> QED
          BY <1>1, <1>2, <1>e, <2>3, <3>1, <3>2, <4>1
      <3> QED
        BY <1>3, <3>3, <3>4, <3>5 DEF QueueInv
    <2> QED
      BY <1>2, <2>4, <2>5
  <1>8. LocalIsCommittedPlusQueue'
    <2>1. committed.content \in Content /\ queue \in Seq(Transaction)
      BY <1>1 DEF LocalTypes
    <2>2. \/ /\ Len(queue') = Len(queue) + 1
             /\ \A i \in 1..Len(queue) : queue'[i].edits = queue[i].edits
             /\ queue'[Len(queue')].edits = <<e>>
          \/ /\ queue # <<>> /\ Len(queue') = Len(queue)
             /\ \A i \in 1..(Len(queue) - 1) : queue'[i].edits = queue[i].edits
             /\ queue'[Len(queue)].edits = Append(queue[Len(queue)].edits, e)
      BY <1>2 DEF Coalesced, Enqueued
    <2>3. Replayed(committed.content, queue') = Append(Replayed(committed.content, queue), e)
      BY <1>2, <1>4, <2>1, <2>2, ReplayedTyped
    <2>4. local = Replayed(committed.content, queue)
      BY DEF SessionInv, LocalIsCommittedPlusQueue
    <2>5. local' = Replayed(committed'.content, queue')
      BY <1>1, <1>3, <2>3, <2>4
    <2> QED
      BY <2>5 DEF LocalIsCommittedPlusQueue
  <1>9. SessionInv'
    <2>1. Current' \in Revisions /\ (committed.revision <= Current)' /\ CommittedMirrorsServer'
      BY <1>3 DEF SessionInv, CommittedMirrorsServer
    <2> QED
      BY <1>5, <1>6, <1>7, <1>8, <2>1 DEF SessionInv
  <1>10. TypeOK'
    <2>1. ServerTypes' /\ NetTypes' /\ FlightTypes'
      BY <1>1 DEF ServerTypes, NetTypes, FlightTypes
    <2>2. LocalTypes'
      <3>1. typed' \in 0..MaxEdits
        BY <1>1, <1>2, <1>e, SessionConstants
      <3>2. local' \in Content
        BY <1>1, <1>2 DEF LocalTypes, Content
      <3> QED
        BY <1>1, <1>4, <3>1, <3>2 DEF LocalTypes
    <2>3. UiTypes'
      <3>1. armed' \in BOOLEAN
        BY DEF Type
      <3> QED
        BY <1>1, <3>1 DEF UiTypes
    <2> QED
      BY <2>1, <2>2, <2>3, TypePartsNext
  <1>11. LoadInv'
    <2>1. Busy' <=> Busy
      BY <1>1 DEF Busy
    <2> QED
      BY <1>1, <1>3, <2>1 DEF LoadInv
  <1> QED
    BY <1>9, <1>10, <1>11

--------------------------------------------------------------------------------
(* The head of the outbox changes its state.                                    *)

\* The records of a transaction that is sent, put into a state, and aimed.
LEMMA SentTransaction ==
  ASSUME NEW t \in Transaction, t.attempts + 1 \in 0..(MaxAttempts + MaxRevision)
  PROVE  LET u == [t EXCEPT !.state = "sending", !.attempts = @ + 1]
         IN  /\ u \in Transaction /\ u.edits = t.edits /\ u.base = t.base
             /\ u.state = "sending" /\ u.attempts = t.attempts + 1
  BY DEF Transaction, OutboxState

\* A transaction put into another state.
LEMMA PutInto ==
  ASSUME NEW t \in Transaction, NEW state \in OutboxState
  PROVE  LET u == [t EXCEPT !.state = state]
         IN  /\ u \in Transaction /\ u.edits = t.edits /\ u.base = t.base
             /\ u.state = state /\ u.attempts = t.attempts
  BY DEF Transaction

\* A transaction aimed at another revision.
LEMMA Aimed ==
  ASSUME NEW t \in Transaction, NEW base \in Nat
  PROVE  LET u == [t EXCEPT !.base = base]
         IN  /\ u \in Transaction /\ u.edits = t.edits /\ u.base = base
             /\ u.state = t.state /\ u.attempts = t.attempts
  BY DEF Transaction

\* A queue of the same edits.
SameEdits(q, p) ==
    /\ q \in Seq(Transaction) /\ p \in Seq(Transaction) /\ Len(p) = Len(q)
    /\ \A i \in 1..Len(q) : p[i].edits = q[i].edits

\* The transactions behind the head are the same ones.
SameTail(q, p) == \A i \in 2..Len(q) : p[i] = q[i]

\* Another head in front of the same rest.
LEMMA NewHead ==
  ASSUME NEW q \in Seq(Transaction), q # <<>>, NEW t \in Transaction, t.edits = q[1].edits
  PROVE  /\ SameEdits(q, <<t>> \o Tail(q))
         /\ SameTail(q, <<t>> \o Tail(q))
         /\ (<<t>> \o Tail(q))[1] = t
         /\ <<t>> \o Tail(q) # <<>>
  <1> DEFINE p == <<t>> \o Tail(q)
             s == Tail(q)
             u == <<t>>
  <1>1. /\ Len(q) \in Nat \ {0} /\ s \in Seq(Transaction) /\ Len(s) = Len(q) - 1
        /\ \A i \in 1..Len(s) : s[i] = q[i + 1]
    BY HeadTailProperties
  <1>2. u \in Seq(Transaction) /\ Len(u) = 1 /\ u[1] = t
    OBVIOUS
  <1> HIDE DEF s, u
  <1>3. /\ p \in Seq(Transaction) /\ Len(p) = 1 + Len(s)
        /\ \A i \in 1..(1 + Len(s)) : p[i] = IF i <= 1 THEN u[i] ELSE s[i - 1]
    BY <1>1, <1>2, ConcatProperties DEF s, u
  <1> HIDE DEF p
  <1>4. Len(p) = Len(q) /\ 1 \in 1..Len(q) /\ p[1] = t
    BY <1>1, <1>2, <1>3
  <1>5. ASSUME NEW i \in 2..Len(q) PROVE p[i] = q[i]
    <2>1. i \in 1..(1 + Len(s)) /\ ~(i <= 1) /\ i - 1 \in 1..Len(s) /\ (i - 1) + 1 = i
      BY <1>1
    <2> QED
      BY <1>1, <1>3, <2>1
  <1>6. \A i \in 1..Len(q) : p[i].edits = q[i].edits
    <2>1. \A i \in 1..Len(q) : i = 1 \/ i \in 2..Len(q)
      BY <1>1
    <2> QED
      BY <1>4, <1>5, <2>1
  <1> QED
    <2>1. p # <<>>
      BY <1>1, <1>4
    <2>2. SameEdits(q, p) /\ SameTail(q, p)
      BY <1>3, <1>4, <1>5, <1>6 DEF SameEdits, SameTail
    <2> QED
      BY <1>4, <2>1, <2>2 DEF p, s, u

\* What depends on the edits of the outbox only, after a step that keeps them.
LEMMA EditsKept ==
  ASSUME TypeOK, SessionInv, SameEdits(queue, queue'), UNCHANGED <<contents, log, typed>>,
         \A i \in 1..Len(queue) : queue'[i].base = committed'.revision + i - 1
  PROVE  /\ QueueInv' /\ SavedInv'
         /\ queue' # <<>> <=> queue # <<>>
         /\ queue # <<>> => queue'[1].edits = queue[1].edits /\ Id(queue'[1]) = Id(queue[1])
         /\ \A e : IsSaved(e)' <=> IsSaved(e)
  <1>1. /\ LocalTypes /\ queue' \in Seq(Transaction) /\ Len(queue') = Len(queue) /\ Len(queue) \in Nat
        /\ \A i \in 1..Len(queue) : queue'[i].edits = queue[i].edits
        /\ queue # <<>> => 1 \in 1..Len(queue)
        /\ contents' = contents /\ log' = log /\ typed' = typed
    BY TypeParts, QueueTypes DEF SameEdits
  <1>2. \A i \in 1..Len(queue) : Id(queue'[i]) = Id(queue[i]) /\ (Run(queue[i]) => Run(queue'[i]))
    BY <1>1 DEF Id, Run
  <1>3. queue' # <<>> <=> queue # <<>>
    BY <1>1
  <1>4. QueueInv'
    <2>1. ASSUME NEW i \in 1..Len(queue)
          PROVE  /\ Run(queue'[i])
                 /\ Id(queue'[i]) + Len(queue'[i].edits) <= typed' + 1
      BY <1>1, <1>2 DEF SessionInv, QueueInv
    <2>2. ASSUME NEW i \in 2..Len(queue)
          PROVE  Id(queue'[i]) = Id(queue'[i - 1]) + Len(queue'[i - 1].edits)
      <3>1. i \in 1..Len(queue) /\ i - 1 \in 1..Len(queue)
        BY <1>1
      <3> QED
        BY <1>1, <1>2, <3>1 DEF SessionInv, QueueInv
    <2>3. queue' # <<>> => Id(queue'[Len(queue)]) + Len(queue'[Len(queue)].edits) = typed' + 1
      <3>1. queue # <<>> => Len(queue) \in 1..Len(queue)
        BY <1>1
      <3> QED
        BY <1>1, <1>2, <1>3, <3>1 DEF SessionInv, QueueInv
    <2> QED
      BY <1>1, <2>1, <2>2, <2>3 DEF QueueInv
  <1>5. \A e : IsSaved(e)' <=> IsSaved(e)
    BY <1>1 DEF IsSaved
  <1>6. SavedInv'
    <2>1. queue # <<>> => queue'[1].edits = queue[1].edits /\ Id(queue'[1]) = Id(queue[1])
      BY <1>1, <1>2
    <2> QED
      BY <1>1, <1>3, <1>5, <2>1 DEF SessionInv, SavedInv
  <1> QED
    BY <1>1, <1>2, <1>3, <1>4, <1>5, <1>6

\* A head that has been sent, in front of the same rest and on the same snapshot.
LEMMA HeadMoves ==
  ASSUME TypeOK, SessionInv, queue # <<>>, NEW t \in Transaction, t.edits = queue[1].edits,
         t.base = queue[1].base, t.state # "pending", queue' = <<t>> \o Tail(queue),
         UNCHANGED <<contents, log, typed, committed, local>>
  PROVE  /\ LocalTypes' /\ QueueInv' /\ LogInv' /\ SavedInv' /\ LocalIsCommittedPlusQueue'
         /\ Current' \in Revisions /\ Current' = Current
         /\ (committed.revision <= Current)' /\ CommittedMirrorsServer'
         /\ queue' # <<>> /\ queue'[1] = t /\ Id(t) = Id(queue[1])
  <1>1. /\ LocalTypes /\ queue \in Seq(Transaction) /\ Len(queue) \in Nat
        /\ contents' = contents /\ log' = log /\ typed' = typed /\ committed' = committed /\ local' = local
        /\ Current' = Current
    BY TypeParts DEF LocalTypes, Current
  <1>2. SameEdits(queue, queue') /\ SameTail(queue, queue') /\ queue'[1] = t /\ queue' # <<>>
    BY <1>1, NewHead
  <1>3. \A i \in 1..Len(queue) : queue'[i].base = committed'.revision + i - 1
    <2>1. \A i \in 1..Len(queue) : i = 1 \/ i \in 2..Len(queue)
      BY <1>1
    <2>2. \A i \in 1..Len(queue) : queue[i].base = committed.revision + i - 1
      BY DEF SessionInv, QueueInv
    <2> QED
      BY <1>1, <1>2, <2>1, <2>2 DEF SameTail
  <1>4. /\ QueueInv' /\ SavedInv'
        /\ queue'[1].edits = queue[1].edits /\ Id(queue'[1]) = Id(queue[1])
    BY <1>1, <1>2, <1>3, EditsKept
  <1>5. LocalTypes'
    <2>1. \A i \in 2..Len(queue') : queue'[i].state = "pending" /\ queue'[i].attempts = 0
      BY <1>1, <1>2 DEF SameEdits, SameTail, LocalTypes
    <2>2. queue' \in Seq(Transaction)
      BY <1>2 DEF SameEdits
    <2> QED
      BY <1>1, <2>1, <2>2 DEF LocalTypes
  <1>6. LogInv'
    BY <1>1, <1>2, <1>4 DEF SessionInv, LogInv
  <1>7. LocalIsCommittedPlusQueue'
    <2>1. Replayed(committed.content, queue') = Replayed(committed.content, queue)
      BY <1>2, ReplayedSame DEF SameEdits
    <2> QED
      BY <1>1, <2>1 DEF SessionInv, LocalIsCommittedPlusQueue
  <1>8. Current' \in Revisions /\ (committed.revision <= Current)' /\ CommittedMirrorsServer'
    BY <1>1 DEF SessionInv, CommittedMirrorsServer
  <1> QED
    BY <1>1, <1>2, <1>4, <1>5, <1>6, <1>7, <1>8

\* A new attempt: the flight and the request are those of the head.
LEMMA AttemptStep ==
  ASSUME TypeOK, SessionInv, Attempt
  PROVE  SessionInv' /\ LocalTypes' /\ FlightTypes' /\ wire' \subseteq Request
  <1> DEFINE h == Head(queue)
             t == [h EXCEPT !.state = "sending", !.attempts = @ + 1]
             q == [edits |-> t.edits, base |-> t.base, attempt |-> t.attempts]
             f == [edits |-> t.edits, attempt |-> t.attempts, phase |-> "sent", revision |-> 0]
  <1>1. /\ flight = NoFlight /\ queue # <<>> /\ h.state \in {"pending", "retrying"}
        /\ queue' = <<t>> \o Tail(queue) /\ flight' = f /\ wire' = wire \cup {q}
        /\ UNCHANGED <<contents, log, typed, committed, local>>
    BY DEF Attempt, Ready, serverVars
  <1>2. /\ LocalTypes /\ NetTypes /\ queue \in Seq(Transaction) /\ h = queue[1]
        /\ Current \in Nat
    BY <1>1, TypeParts DEF LocalTypes, SessionInv, Revisions
  <1> HIDE DEF h
  <1>3. /\ h \in Transaction /\ h.edits \in Seq(Edits) /\ Run(h) /\ h.base = committed.revision
        /\ Id(h) \in Edits
    BY <1>1, <1>2, HeadId DEF SessionInv
  <1>4. h.attempts + 2 <= MaxAttempts + committed.revision
    BY <1>1, <1>2 DEF SessionInv, AttemptsInv
  <1>5. /\ h.attempts \in Nat /\ committed.revision \in 1..MaxRevision
        /\ h.attempts + 1 \in 0..(MaxAttempts + MaxRevision)
    <2>1. h.attempts \in Nat /\ committed.revision \in 1..MaxRevision
      BY <1>2, <1>3, SessionConstants DEF Transaction, LocalTypes, Revisions
    <2> QED
      BY <1>4, <2>1, SessionConstants
  <1>6. /\ t \in Transaction /\ t.edits = h.edits /\ t.base = h.base
        /\ t.state = "sending" /\ t.attempts = h.attempts + 1
    BY <1>3, <1>5, SentTransaction
  <1> HIDE DEF t
  <1>7. /\ q.edits = h.edits /\ q.base = committed.revision /\ q.attempt = h.attempts + 1
        /\ f.edits = h.edits /\ f.attempt = h.attempts + 1 /\ f.phase = "sent"
        /\ f \in Flights /\ q \in Request
    <2>1. q.edits = h.edits /\ q.base = committed.revision /\ q.attempt = h.attempts + 1
      BY <1>3, <1>6
    <2>2. f.edits = h.edits /\ f.attempt = h.attempts + 1 /\ f.phase = "sent"
      BY <1>6
    <2>3. f \in Flights
      <3>1. h.attempts + 1 \in Nat /\ 0 \in 0..MaxRevision
        BY <1>5, SessionConstants
      <3> QED
        BY <1>3, <1>6, <3>1 DEF Flights
    <2>4. q \in Request
      <3>1. h.attempts + 1 \in Nat /\ committed.revision \in Nat
        BY <1>5
      <3> QED
        BY <1>3, <1>6, <3>1 DEF Request
    <2> QED
      BY <2>1, <2>2, <2>3, <2>4
  <1> HIDE DEF q, f
  <1>8. /\ LocalTypes' /\ QueueInv' /\ LogInv' /\ SavedInv' /\ LocalIsCommittedPlusQueue'
        /\ Current' \in Revisions /\ Current' = Current
        /\ (committed.revision <= Current)' /\ CommittedMirrorsServer'
        /\ queue' # <<>> /\ queue'[1] = t /\ Id(t) = Id(h)
    BY <1>1, <1>2, <1>6, HeadMoves
  <1>9. wire' \subseteq Request /\ FlightTypes'
    BY <1>1, <1>2, <1>7 DEF NetTypes, FlightTypes
  <1>10. AttemptsInv'
    <2>1. t.attempts + 1 <= MaxAttempts + committed'.revision
      BY <1>1, <1>4, <1>5, <1>6, SessionConstants
    <2> QED
      BY <1>6, <1>8, <2>1 DEF AttemptsInv
  <1>11. FlightInv'
    <2>1. flight' # NoFlight /\ flight'.phase = "sent"
      BY <1>1, <1>7, SessionConstants
    <2> QED
      BY <1>1, <1>6, <1>7, <1>8, <2>1 DEF FlightInv
  <1>12. ASSUME NEW r \in wire' PROVE RequestInv(r)'
    <2>1. CASE r = q
      <3>1. r.edits # <<>> /\ Id(r) = Id(h) /\ r.edits = t.edits /\ r.attempt = t.attempts
            /\ r.base = committed.revision
        BY <1>3, <1>6, <1>7, <2>1 DEF Id, Run
      <3>2. Id(h) <= typed /\ Id(h) \in Nat
        <4>1. Id(h) + Len(h.edits) <= typed + 1 /\ Len(h.edits) \in Nat \ {0}
          BY <1>1, <1>2, HeadId, QueueTypes DEF SessionInv, QueueInv
        <4>2. Id(h) \in Nat /\ typed \in Nat
          BY <1>2, <1>3, SessionConstants DEF Edits, LocalTypes
        <4> QED
          BY <4>1, <4>2
      <3>3. r.attempt \in Nat
        BY <1>5, <1>6, <3>1
      <3>4. committed.revision <= Current
        BY DEF SessionInv
      <3> HIDE DEF Current
      <3> QED
        BY <1>1, <1>6, <1>8, <3>1, <3>2, <3>3, <3>4 DEF RequestInv
    <2>2. CASE r \in wire
      <3>1. RequestInv(r) /\ r.attempt \in Nat
        BY <1>2, <2>2 DEF SessionInv, NetTypes, Request
      <3>2. r.edits # <<>> /\ Id(r) <= typed' /\ r.base <= Current' /\ Id(r) <= Id(queue'[1])
        BY <1>1, <1>2, <1>8, <3>1 DEF RequestInv
      <3>3. Id(r) = Id(queue'[1]) => r.attempt < queue'[1].attempts
        <4>1. Id(r) = Id(h) => r.attempt <= h.attempts
          BY <1>1, <1>2, <3>1 DEF RequestInv
        <4> QED
          BY <1>5, <1>6, <1>8, <3>1, <4>1
      <3>4. Id(r) = Id(queue'[1]) => r.attempt <= queue'[1].attempts /\ r.attempt # queue'[1].attempts
        BY <1>5, <1>6, <1>8, <3>1, <3>3
      <3>5. log'[Id(r)] = 0 /\ r.base = Current' =>
               r.edits = queue'[1].edits /\ committed'.revision = Current'
        BY <1>1, <1>2, <1>6, <1>8, <3>1 DEF RequestInv
      <3>6. queue'[1].state # "pending"
        BY <1>6, <1>8
      <3> QED
        BY <1>8, <3>2, <3>4, <3>5, <3>6 DEF RequestInv
    <2> QED
      BY <1>1, <2>1, <2>2
  <1> QED
    BY <1>8, <1>9, <1>10, <1>11, <1>12 DEF SessionInv

\* The timer or a drain makes the attempt, or the timer finds nothing to do.
LEMMA SendStep ==
  ASSUME TypeOK, SessionInv, LoadInv, TimerFires \/ DrainFlush
  PROVE  TypeOK' /\ SessionInv' /\ LoadInv'
  <1>1. /\ ServerTypes /\ NetTypes /\ LocalTypes /\ FlightTypes /\ UiTypes
        /\ UNCHANGED <<contents, log, undoLog, undoWire, typed, committed, local, saving, undos, intents, reload>>
    BY TypeParts DEF TimerFires, DrainFlush, Attempt, serverVars, netVars, localVars, uiVars
  <1>2. ServerTypes' /\ UiTypes'
    <2>1. armed' \in BOOLEAN
      BY <1>1 DEF TimerFires, DrainFlush, UiTypes
    <2> QED
      BY <1>1, <2>1 DEF ServerTypes, UiTypes
  <1>3. SessionInv' /\ LocalTypes' /\ FlightTypes' /\ wire' \subseteq Request
    <2>1. CASE Attempt
      BY <2>1, AttemptStep
    <2>2. CASE UNCHANGED <<serverVars, netVars, typed, localVars, flight, uiVars>>
      <3>1. UNCHANGED sessionVars
        BY <2>2 DEF sessionVars, serverVars, netVars, localVars
      <3>2. SessionInv'
        BY <3>1, SessionStays
      <3>3. LocalTypes' /\ FlightTypes' /\ wire' \subseteq Request
        BY <1>1, <3>1 DEF sessionVars, LocalTypes, FlightTypes, NetTypes
      <3> QED
        BY <3>2, <3>3
    <2> QED
      BY <2>1, <2>2 DEF TimerFires, DrainFlush
  <1>4. NetTypes'
    BY <1>1, <1>3 DEF NetTypes
  <1>5. LoadInv'
    <2>1. Busy' = Busy
      BY <1>1 DEF Busy
    <2>2. Current' = Current
      BY <1>1 DEF Current
    <2>3. Busy => queue' = queue /\ flight' = flight
      BY DEF LoadInv, TimerFires, DrainFlush, Attempt, Ready, localVars
    <2> QED
      BY <1>1, <2>1, <2>2, <2>3 DEF LoadInv
  <1> QED
    BY <1>2, <1>3, <1>4, <1>5, TypePartsNext

--------------------------------------------------------------------------------
(* A flight ends.                                                               *)

\* The flight is the head's, and the head is nobody else's.
LEMMA FlightOfHead ==
  ASSUME TypeOK, SessionInv, flight # NoFlight
  PROVE  /\ queue # <<>> /\ Head(queue) = queue[1] /\ queue[1].state = "sending"
         /\ Id(flight) = Id(queue[1]) /\ flight.edits = queue[1].edits
         /\ IsHead(queue)
  <1>1. queue # <<>> /\ flight.edits = queue[1].edits /\ queue[1].state = "sending"
    BY DEF SessionInv, FlightInv
  <1>2. Head(queue) = queue[1]
    BY <1>1, TypeParts DEF LocalTypes
  <1> QED
    BY <1>1, <1>2 DEF IsHead, Id

\* What a step preserves that ends the flight and marks its transaction as one to
\* send again, or as one that cannot be saved.
LEMMA MarkedStep ==
  ASSUME TypeOK, SessionInv, flight # NoFlight, NEW state \in {"retrying", "failed"},
         state = "retrying" => queue[1].attempts < MaxAttempts,
         queue' = WithHead(queue, state), flight' = NoFlight,
         UNCHANGED <<contents, log, wire, typed, committed, local>>
  PROVE  SessionInv' /\ LocalTypes'
  <1> DEFINE t == [queue[1] EXCEPT !.state = state]
  <1>1. /\ queue # <<>> /\ Head(queue) = queue[1] /\ IsHead(queue) /\ LocalTypes
        /\ queue[1] \in Transaction
    BY FlightOfHead, TypeParts, HeadId DEF SessionInv
  <1>2. queue' = <<t>> \o Tail(queue)
    BY <1>1 DEF WithHead
  <1>3. /\ t \in Transaction /\ t.edits = queue[1].edits /\ t.base = queue[1].base
        /\ t.state = state /\ t.attempts = queue[1].attempts
    <2>1. state \in OutboxState
      BY DEF OutboxState
    <2> QED
      BY <1>1, <2>1, PutInto
  <1> HIDE DEF t
  <1>4. /\ LocalTypes' /\ QueueInv' /\ LogInv' /\ SavedInv' /\ LocalIsCommittedPlusQueue'
        /\ Current' \in Revisions /\ Current' = Current
        /\ (committed.revision <= Current)' /\ CommittedMirrorsServer'
        /\ queue' # <<>> /\ queue'[1] = t /\ Id(t) = Id(queue[1])
    BY <1>1, <1>2, <1>3, HeadMoves
  <1>5. AttemptsInv'
    <2>1. queue[1].attempts + 1 <= MaxAttempts + committed.revision
      BY <1>1 DEF SessionInv, AttemptsInv
    <2>2. state = "retrying" => queue[1].attempts + 2 <= MaxAttempts + committed.revision
      <3>1. queue[1].attempts \in Nat /\ committed.revision \in Nat \ {0}
        BY <1>1, SessionConstants DEF Transaction, LocalTypes, Revisions
      <3> QED
        BY <3>1, SessionConstants
    <2> QED
      BY <1>3, <1>4, <2>1, <2>2 DEF AttemptsInv
  <1>6. FlightInv'
    BY <1>3, <1>4 DEF FlightInv
  <1>7. ASSUME NEW r \in wire' PROVE RequestInv(r)'
    <2>1. RequestInv(r)
      BY <1>7 DEF SessionInv
    <2>2. queue'[1].state # "sending" /\ queue'[1].state # "pending"
      BY <1>3, <1>4
    <2>3. log' = log /\ typed' = typed /\ committed' = committed
      OBVIOUS
    <2> QED
      BY <1>1, <1>3, <1>4, <2>1, <2>2, <2>3 DEF RequestInv
  <1> QED
    BY <1>4, <1>5, <1>6, <1>7 DEF SessionInv

\* The rest of the invariant, when a flight ends.
LEMMA Landed ==
  ASSUME TypeOK, LoadInv, flight # NoFlight, NEW q, Land(q), LocalTypes'
  PROVE  TypeOK' /\ LoadInv'
  <1>1. /\ ServerTypes /\ NetTypes /\ UiTypes /\ flight' = NoFlight
        /\ UNCHANGED <<contents, log, undoLog, wire, undoWire, typed, saving, undos, intents, reload>>
    BY TypeParts DEF Land, serverVars, netVars, uiVars
  <1>2. armed' \in BOOLEAN
    <2>1. armed \in BOOLEAN
      BY <1>1 DEF UiTypes
    <2> QED
      BY <2>1 DEF Land, Rearmed
  <1>3. ServerTypes' /\ NetTypes' /\ UiTypes' /\ FlightTypes'
    BY <1>1, <1>2 DEF ServerTypes, NetTypes, UiTypes, FlightTypes
  <1>4. LoadInv'
    <2>1. ~Busy /\ Busy' = Busy
      BY <1>1 DEF LoadInv, Busy
    <2>2. Current' = Current
      BY <1>1 DEF Current
    <2> QED
      BY <1>1, <2>1, <2>2 DEF LoadInv
  <1> QED
    BY <1>3, <1>4, TypePartsNext

\* A refusal, and a flight that failed.
LEMMA FailureStep ==
  ASSUME TypeOK, SessionInv, LoadInv, Refused \/ FlightFails
  PROVE  TypeOK' /\ SessionInv' /\ LoadInv'
  <1>1. /\ flight # NoFlight /\ flight' = NoFlight
        /\ UNCHANGED <<contents, log, wire, typed, committed, local>>
        /\ \E q : Land(q)
    BY DEF Refused, FlightFails, Land, serverVars, netVars
  <1>2. PICK state \in {"retrying", "failed"} :
           /\ state = "retrying" => queue[1].attempts < MaxAttempts
           /\ queue' = WithHead(queue, state)
    <2>1. CASE Refused
      BY <2>1 DEF Refused, Land
    <2>2. CASE FlightFails
      <3>1. IsHead(queue) /\ Head(queue) = queue[1] /\ queue[1].state = "sending"
        BY <1>1, FlightOfHead
      <3>2. queue' = WithHead(queue, IF queue[1].attempts >= MaxAttempts THEN "failed" ELSE "retrying")
        BY <2>2, <3>1 DEF FlightFails, Land, MarkRetry
      <3>3. queue[1].attempts \in Nat
        <4>1. queue # <<>>
          BY <1>1, FlightOfHead
        <4> QED
          BY <4>1, TypeParts, HeadId, SessionConstants DEF SessionInv, Transaction
      <3>4. queue[1].attempts >= MaxAttempts \/ queue[1].attempts < MaxAttempts
        BY <3>3, SessionConstants
      <3>5. CASE queue[1].attempts >= MaxAttempts
        BY <3>2, <3>5
      <3>6. CASE ~(queue[1].attempts >= MaxAttempts)
        BY <3>2, <3>4, <3>6
      <3> QED
        BY <3>5, <3>6
    <2> QED
      BY <2>1, <2>2
  <1>3. SessionInv' /\ LocalTypes'
    BY <1>1, <1>2, MarkedStep
  <1> QED
    BY <1>1, <1>3, Landed

\* A conflict is followed by a look at the latest revision.
LEMMA RefetchStep ==
  ASSUME TypeOK, SessionInv, LoadInv, Refetch
  PROVE  TypeOK' /\ SessionInv' /\ LoadInv'
  <1>1. /\ flight # NoFlight /\ flight.phase = "conflict"
        /\ flight' = [flight EXCEPT !.phase = "latest", !.revision = Current]
        /\ UNCHANGED <<contents, log, undoLog, wire, undoWire, typed, queue, committed, local, armed,
                       saving, undos, intents, reload>>
    BY DEF Refetch, serverVars, netVars, localVars, uiVars
  <1>2. /\ ServerTypes /\ NetTypes /\ LocalTypes /\ FlightTypes /\ UiTypes
        /\ Current \in 0..MaxRevision /\ Current \in Nat
    BY TypeParts, SessionConstants DEF SessionInv, Revisions
  <1>3. /\ flight' \in Flights
        /\ flight'.edits = flight.edits /\ flight'.attempt = flight.attempt
        /\ flight'.phase = "latest" /\ flight'.revision = Current
    BY <1>1, <1>2, FlightTold
  <1>4. /\ queue # <<>> /\ flight.edits = queue[1].edits /\ flight.attempt = queue[1].attempts
        /\ log[Id(queue[1])] = 0 /\ committed.revision < Current /\ queue[1].state = "sending"
    BY <1>1 DEF SessionInv, FlightInv
  <1>5. flight' # NoFlight /\ FlightTypes' /\ Current' = Current
    BY <1>1, <1>3, SessionConstants DEF FlightTypes, Current
  <1>6. FlightInv'
    <2>1. Current <= Current
      BY <1>2
    <2>2. queue' = queue /\ log' = log /\ committed' = committed
      BY <1>1
    <2> HIDE DEF Current
    <2> QED
      BY <1>3, <1>4, <1>5, <2>1, <2>2 DEF FlightInv
  <1>7. SessionInv'
    BY <1>1, <1>6, AnswerKeeps
  <1>8. ServerTypes' /\ NetTypes' /\ LocalTypes' /\ UiTypes'
    BY <1>1, <1>2 DEF ServerTypes, NetTypes, LocalTypes, UiTypes
  <1>9. LoadInv'
    <2>1. ~Busy /\ Busy' = Busy
      BY <1>1 DEF LoadInv, Busy
    <2> QED
      BY <1>1, <1>5, <2>1 DEF LoadInv
  <1> QED
    BY <1>5, <1>7, <1>8, <1>9, TypePartsNext

--------------------------------------------------------------------------------
(* The committed snapshot moves.                                                *)

\* The outbox aimed at a revision.
LEMMA Retargeted ==
  ASSUME NEW q \in Seq(Transaction), NEW revision \in Nat \ {0}
  PROVE  /\ SameEdits(q, Retarget(q, revision))
         /\ \A i \in 1..Len(q) :
               /\ Retarget(q, revision)[i].base = revision + i - 1
               /\ Retarget(q, revision)[i].state = q[i].state
               /\ Retarget(q, revision)[i].attempts = q[i].attempts
         /\ Retarget(q, revision) # <<>> <=> q # <<>>
  <1> DEFINE p == Retarget(q, revision)
  <1>1. /\ Len(q) \in Nat /\ DOMAIN q = 1..Len(q)
        /\ \A i \in 1..Len(q) : q[i] \in Transaction /\ revision + i - 1 \in Nat
    OBVIOUS
  <1>2. \A i \in 1..Len(q) : p[i] = [q[i] EXCEPT !.base = revision + i - 1]
    BY <1>1 DEF Retarget
  <1>3. ASSUME NEW i \in 1..Len(q)
        PROVE  /\ p[i] \in Transaction /\ p[i].edits = q[i].edits /\ p[i].base = revision + i - 1
               /\ p[i].state = q[i].state /\ p[i].attempts = q[i].attempts
    <2>1. q[i] \in Transaction /\ revision + i - 1 \in Nat
      BY <1>1
    <2> DEFINE b == revision + i - 1
    <2>2. p[i] = [q[i] EXCEPT !.base = b] /\ b \in Nat
      BY <1>2, <2>1
    <2> HIDE DEF b, p
    <2>3. /\ p[i] \in Transaction /\ p[i].edits = q[i].edits /\ p[i].base = b
          /\ p[i].state = q[i].state /\ p[i].attempts = q[i].attempts
      BY <2>1, <2>2, Aimed
    <2> QED
      BY <2>3 DEF b
  <1>4. p \in [1..Len(q) -> Transaction]
    <2>1. DOMAIN p = 1..Len(q) /\ p = [i \in 1..Len(q) |-> p[i]]
      BY <1>1 DEF Retarget
    <2> HIDE DEF p
    <2> QED
      BY <1>3, <2>1
  <1> HIDE DEF p
  <1>5. p \in Seq(Transaction) /\ Len(p) = Len(q)
    BY <1>1, <1>4
  <1>6. p # <<>> <=> q # <<>>
    BY <1>1, <1>5
  <1> QED
    BY <1>3, <1>5, <1>6 DEF SameEdits, p

\* After a conflict the outbox stands on the latest snapshot, and its head may be
\* sent again.
LEMMA RebaseStep ==
  ASSUME TypeOK, SessionInv, LoadInv, Rebase
  PROVE  TypeOK' /\ SessionInv' /\ LoadInv'
  <1> DEFINE n == flight.revision
             p == Retarget(queue, n)
             t == [p[1] EXCEPT !.state = "pending"]
  <1>1. /\ flight # NoFlight /\ flight.phase = "latest" /\ flight' = NoFlight
        /\ committed' = [revision |-> n, content |-> contents[n]]
        /\ local' = Replayed(contents[n], queue)
        /\ queue' = WithHead(p, "pending")
        /\ UNCHANGED <<contents, log, wire, typed>>
        /\ \E q : Land(q)
    BY DEF Rebase, Land, serverVars, netVars
  <1>2. /\ ServerTypes /\ LocalTypes /\ FlightTypes /\ NetTypes /\ queue \in Seq(Transaction)
        /\ Current \in Revisions /\ Current' = Current
        /\ contents' = contents /\ log' = log /\ wire' = wire /\ typed' = typed
    BY <1>1, TypeParts DEF LocalTypes, SessionInv, Current
  <1>3. /\ queue # <<>> /\ log[Id(queue[1])] = 0 /\ committed.revision < Current
        /\ committed.revision < n /\ n <= Current
        /\ Id(flight) = Id(queue[1])
    BY <1>1, FlightOfHead DEF SessionInv, FlightInv
  <1>4. /\ n \in Revisions /\ n \in Nat \ {0} /\ committed.revision \in Nat \ {0} /\ n \in 1..Len(contents)
    <2>1. committed.revision \in Nat \ {0} /\ Current \in 1..MaxRevision
      BY <1>2 DEF LocalTypes, Revisions
    <2>2. n \in Nat
      BY <1>1, <1>2, SessionConstants DEF FlightTypes, Flights
    <2> QED
      BY <1>3, <2>1, <2>2, SessionConstants DEF Revisions, Current
  <1> HIDE DEF n
  <1>5. /\ SameEdits(queue, p) /\ p # <<>>
        /\ \A i \in 1..Len(queue) :
              p[i].base = n + i - 1 /\ p[i].state = queue[i].state /\ p[i].attempts = queue[i].attempts
    BY <1>2, <1>3, <1>4, Retargeted
  <1> HIDE DEF p
  <1>6. /\ p \in Seq(Transaction) /\ Len(p) = Len(queue) /\ Len(queue) \in Nat /\ 1 \in 1..Len(queue)
        /\ p[1] \in Transaction /\ Head(p) = p[1] /\ p[1].edits = queue[1].edits
        /\ Id(p[1]) = Id(queue[1]) /\ p[1].attempts = queue[1].attempts /\ p[1].base = n
    <2>1. /\ p \in Seq(Transaction) /\ Len(p) = Len(queue) /\ Len(queue) \in Nat /\ 1 \in 1..Len(queue)
      BY <1>2, <1>3, <1>5 DEF SameEdits
    <2>2. p[1] \in Transaction /\ Head(p) = p[1] /\ p[1].edits = queue[1].edits
      BY <1>5, <2>1 DEF SameEdits
    <2>3. p[1].base = n
      BY <1>4, <1>5, <2>1
    <2> QED
      BY <1>5, <2>1, <2>2, <2>3 DEF Id
  <1>7. queue' = <<t>> \o Tail(p)
    <2>1. IsHead(p)
      BY <1>3, <1>5, <1>6 DEF IsHead
    <2> QED
      BY <1>1, <1>6, <2>1 DEF WithHead
  <1>8. /\ t \in Transaction /\ t.edits = p[1].edits /\ t.base = n
        /\ t.state = "pending" /\ t.attempts = queue[1].attempts
    <2>1. "pending" \in OutboxState
      BY DEF OutboxState
    <2> QED
      BY <1>6, <2>1, PutInto
  <1> HIDE DEF t
  <1>9. SameEdits(p, queue') /\ SameTail(p, queue') /\ queue'[1] = t /\ queue' # <<>>
    BY <1>5, <1>6, <1>7, <1>8, NewHead
  <1>10. /\ SameEdits(queue, queue')
         /\ \A i \in 1..Len(queue) : queue'[i].base = n + i - 1
         /\ \A i \in 2..Len(queue') : queue'[i].state = "pending" /\ queue'[i].attempts = 0
    <2>1. SameEdits(queue, queue')
      BY <1>5, <1>6, <1>9 DEF SameEdits
    <2>2. \A i \in 1..Len(queue) : i = 1 \/ i \in 2..Len(queue)
      BY <1>6
    <2>3. \A i \in 2..Len(queue) : i \in 1..Len(queue) /\ queue'[i] = p[i]
      BY <1>6, <1>9 DEF SameTail
    <2>4. \A i \in 1..Len(queue) : queue'[i].base = n + i - 1
      <3>1. n = n + 1 - 1
        BY <1>4
      <3> QED
        BY <1>5, <1>8, <1>9, <2>2, <2>3, <3>1
    <2>5. \A i \in 2..Len(queue) : queue[i].state = "pending" /\ queue[i].attempts = 0
      BY <1>2 DEF LocalTypes
    <2>6. Len(queue') = Len(queue)
      BY <2>1 DEF SameEdits
    <2> QED
      BY <1>5, <2>1, <2>3, <2>4, <2>5, <2>6
  <1>11. committed'.revision = n /\ committed'.content = contents[n] /\ contents[n] \in Content
    BY <1>1, <1>2, <1>4 DEF ServerTypes
  <1>12. /\ QueueInv' /\ SavedInv'
         /\ queue'[1].edits = queue[1].edits /\ Id(queue'[1]) = Id(queue[1])
    BY <1>2, <1>3, <1>10, <1>11, EditsKept
  <1>13. Replayed(contents[n], queue') = Replayed(contents[n], queue)
    BY <1>10, ReplayedSame DEF SameEdits
  <1>14. LocalTypes' /\ LocalIsCommittedPlusQueue'
    <2>1. LocalIsCommittedPlusQueue'
      BY <1>1, <1>11, <1>13 DEF LocalIsCommittedPlusQueue
    <2>2. local' \in Content
      <3>1. local' = contents[n] \o FlattenSeq(EditsOf(queue)) /\ EditsOf(queue) \in Seq(Content)
        BY <1>1, <1>2, ReplayedIs
      <3>2. FlattenSeq(EditsOf(queue)) \in Content
        BY <3>1, FlattenType DEF Content
      <3> QED
        BY <1>11, <3>1, <3>2 DEF Content
    <2>3. committed' \in [revision : Revisions, content : Content]
      BY <1>1, <1>4, <1>11
    <2>4. queue' \in Seq(Transaction)
      BY <1>10 DEF SameEdits
    <2> QED
      BY <1>2, <1>10, <2>1, <2>2, <2>3, <2>4 DEF LocalTypes
  <1>15. (Current \in Revisions /\ committed.revision <= Current)' /\ CommittedMirrorsServer'
    BY <1>2, <1>3, <1>11 DEF CommittedMirrorsServer
  <1>16. AttemptsInv'
    <2>1. queue[1].attempts + 1 <= MaxAttempts + committed.revision /\ queue[1].attempts \in Nat
      BY <1>2, <1>3, HeadId, SessionConstants DEF SessionInv, AttemptsInv, Transaction
    <2>2. queue[1].attempts + 2 <= MaxAttempts + n /\ queue[1].attempts + 1 <= MaxAttempts + n
      BY <1>3, <1>4, <2>1, SessionConstants
    <2> QED
      BY <1>8, <1>9, <1>11, <2>2 DEF AttemptsInv
  <1>17. FlightInv'
    BY <1>1, <1>8, <1>9 DEF FlightInv
  <1>18. ASSUME NEW r \in wire PROVE RequestInv(r)'
    <2>1. RequestInv(r)
      BY DEF SessionInv
    <2>2. ~(log[Id(r)] = 0 /\ r.base = Current)
      <3>1. committed.revision # Current
        BY <1>2, <1>3, <1>4 DEF Revisions
      <3> QED
        BY <2>1, <3>1 DEF RequestInv
    <2>3. queue'[1].attempts = queue[1].attempts /\ queue'[1].state # "sending"
      BY <1>8, <1>9
    <2> QED
      BY <1>2, <1>3, <1>12, <2>1, <2>2, <2>3 DEF RequestInv
  <1>19. LogInv'
    <2>1. log'[Id(queue'[1])] = 0
      BY <1>2, <1>3, <1>12
    <2> QED
      BY <1>2, <1>3, <1>12, <2>1 DEF SessionInv, LogInv
  <1>20. SessionInv'
    BY <1>2, <1>12, <1>14, <1>15, <1>16, <1>17, <1>18, <1>19 DEF SessionInv
  <1> QED
    BY <1>1, <1>14, <1>20, Landed

\* The head of the next state, by the same argument.
LEMMA HeadIdNext ==
  ASSUME LocalTypes', QueueInv', queue' # <<>>
  PROVE  Id(queue'[1]) \in Edits
  <1>1. queue' \in Seq(Transaction) /\ 1 \in 1..Len(queue')
    BY DEF LocalTypes
  <1>2. queue'[1] \in Transaction /\ Run(queue'[1])
    BY <1>1 DEF QueueInv
  <1>3. queue'[1].edits \in Seq(Edits) /\ queue'[1].edits # <<>>
    BY <1>2 DEF Transaction, Run
  <1> QED
    BY <1>3 DEF Id

\* The acknowledged transaction leaves the outbox, and its edits are those that the
\* committed snapshot gained.
LEMMA AcknowledgeStep ==
  ASSUME TypeOK, SessionInv, LoadInv, Acknowledge
  PROVE  TypeOK' /\ SessionInv' /\ LoadInv'
  <1> DEFINE n == flight.revision
             h == queue[1]
             rest == Tail(queue)
             content == committed.content \o h.edits
  <1>1. /\ flight # NoFlight /\ flight.phase = "ok"
        /\ queue # <<>> /\ Head(queue) = h /\ h.state = "sending" /\ flight.edits = h.edits
        /\ IsHead(queue)
        /\ n = log[Id(h)] /\ n # 0
    BY FlightOfHead DEF Acknowledge, SessionInv, FlightInv
  <1>2. /\ flight' = NoFlight
        /\ committed' = [revision |-> n, content |-> content]
        /\ local' = Replayed(content, rest)
        /\ queue' = Retarget(rest, n)
        /\ contents' = contents /\ log' = log /\ wire' = wire /\ typed' = typed
        /\ \E q : Land(q)
    BY <1>1 DEF Acknowledge, Land, Remaining, serverVars, netVars
  <1>3. /\ ServerTypes /\ LocalTypes /\ NetTypes /\ queue \in Seq(Transaction)
        /\ Current \in Revisions /\ Current' = Current
    BY <1>2, TypeParts DEF LocalTypes, SessionInv, Current
  <1>4. /\ h \in Transaction /\ h.edits \in Seq(Edits) /\ Run(h) /\ Id(h) \in Edits /\ Id(h) \in Nat
        /\ Len(h.edits) \in Nat \ {0}
    BY <1>1, <1>3, HeadId, SessionConstants DEF SessionInv, Edits
  <1>5. /\ committed.revision < n /\ contents[n] = content /\ n <= Current
        /\ committed.revision \in Nat \ {0} /\ n \in Nat \ {0} /\ n \in Revisions /\ n \in 1..Len(contents)
    <2>1. committed.revision < n /\ contents[n] = content /\ n <= Current
      BY <1>1, <1>4 DEF SessionInv, LogInv
    <2>2. committed.revision \in Nat \ {0} /\ n \in Nat
      BY <1>1, <1>3, <1>4, SessionConstants DEF LocalTypes, Revisions, ServerTypes
    <2> QED
      BY <1>1, <1>3, <2>1, <2>2, SessionConstants DEF Revisions, Current
  <1>6. content \in Content
    <2>1. committed.content \in Seq(Edits \cup {Foreign}) /\ h.edits \in Seq(Edits \cup {Foreign})
      BY <1>3, <1>4 DEF LocalTypes, Content
    <2> QED
      BY <2>1 DEF Content
  <1>7. /\ Len(queue) \in Nat \ {0} /\ rest \in Seq(Transaction) /\ Len(rest) = Len(queue) - 1
        /\ \A i \in 1..Len(rest) : rest[i] = queue[i + 1]
    BY <1>1, <1>3, HeadTailProperties
  <1> HIDE DEF n, h, rest, content
  <1>8. /\ SameEdits(rest, queue')
        /\ \A i \in 1..Len(rest) :
              queue'[i].base = n + i - 1 /\ queue'[i].state = rest[i].state
              /\ queue'[i].attempts = rest[i].attempts
    BY <1>2, <1>5, <1>7, Retargeted
  <1>9. /\ queue' \in Seq(Transaction) /\ Len(queue') = Len(queue) - 1
        /\ queue' # <<>> => Len(queue) \in Nat \ {0, 1}
        /\ queue' = <<>> => Len(queue) = 1
        /\ \A i \in 1..(Len(queue) - 1) :
              /\ queue'[i].edits = queue[i + 1].edits /\ queue'[i].base = n + i - 1
              /\ queue'[i].state = "pending" /\ queue'[i].attempts = 0
              /\ Id(queue'[i]) = Id(queue[i + 1])
    <2>1. queue' \in Seq(Transaction) /\ Len(queue') = Len(queue) - 1
      BY <1>7, <1>8 DEF SameEdits
    <2>2. queue' # <<>> => Len(queue) \in Nat \ {0, 1}
      BY <1>7, <2>1
    <2>3. queue' = <<>> => Len(queue) = 1
      <3> SUFFICES ASSUME queue' = <<>> PROVE Len(queue) = 1
        OBVIOUS
      <3>1. Len(queue') = 0
        OBVIOUS
      <3>2. Len(queue) - 1 = 0 /\ Len(queue) \in Nat
        BY <1>7, <2>1, <3>1
      <3> DEFINE l == Len(queue)
      <3>3. l - 1 = 0 /\ l \in Nat
        BY <3>2
      <3> HIDE DEF l
      <3>4. l = 1
        BY <3>3
      <3> QED
        BY <3>4 DEF l
    <2>4. ASSUME NEW i \in 1..(Len(queue) - 1)
          PROVE  /\ queue'[i].edits = queue[i + 1].edits /\ queue'[i].base = n + i - 1
                 /\ queue'[i].state = "pending" /\ queue'[i].attempts = 0
                 /\ Id(queue'[i]) = Id(queue[i + 1])
      <3>1. i \in 1..Len(rest) /\ i + 1 \in 2..Len(queue)
        BY <1>7
      <3>2. queue'[i].edits = rest[i].edits /\ rest[i] = queue[i + 1]
        BY <1>7, <1>8, <3>1 DEF SameEdits
      <3>3. queue[i + 1].state = "pending" /\ queue[i + 1].attempts = 0
        BY <1>3, <3>1 DEF LocalTypes
      <3> QED
        BY <1>8, <3>1, <3>2, <3>3 DEF Id
    <2> QED
      BY <2>1, <2>2, <2>3, <2>4
  <1>10. committed'.revision = n /\ committed'.content = content
    BY <1>2
  <1>11. \A i \in 1..Len(queue) :
            /\ Run(queue[i]) /\ Id(queue[i]) \in Nat /\ Len(queue[i].edits) \in Nat
            /\ Id(queue[i]) + Len(queue[i].edits) <= typed + 1
    <2>1. \A i \in 1..Len(queue) :
             /\ queue[i].edits \in Seq(Edits) /\ Run(queue[i])
             /\ Id(queue[i]) + Len(queue[i].edits) <= typed + 1
      BY <1>3, QueueTypes DEF SessionInv, QueueInv
    <2> QED
      BY <2>1, SessionConstants DEF Run, Id, Edits
  <1>12. QueueInv'
    <2>1. ASSUME NEW i \in 1..(Len(queue) - 1)
          PROVE  /\ Run(queue'[i]) /\ Id(queue'[i]) + Len(queue'[i].edits) <= typed' + 1
      <3>1. i + 1 \in 1..Len(queue)
        BY <1>7
      <3>2. queue'[i].edits = queue[i + 1].edits /\ Id(queue'[i]) = Id(queue[i + 1])
        BY <1>9
      <3>3. Run(queue'[i])
        BY <1>11, <3>1, <3>2 DEF Run
      <3> QED
        BY <1>2, <1>11, <3>1, <3>2, <3>3
    <2>2. ASSUME NEW i \in 2..(Len(queue) - 1)
          PROVE  Id(queue'[i]) = Id(queue'[i - 1]) + Len(queue'[i - 1].edits)
      <3>1. /\ i \in 1..(Len(queue) - 1) /\ i - 1 \in 1..(Len(queue) - 1) /\ (i - 1) + 1 = i
            /\ i + 1 \in 2..Len(queue) /\ (i + 1) - 1 = i
        BY <1>7
      <3>2. Id(queue[i + 1]) = Id(queue[i]) + Len(queue[i].edits)
        BY <3>1 DEF SessionInv, QueueInv
      <3> QED
        BY <1>9, <3>1, <3>2
    <2>3. queue' # <<>> => Id(queue'[Len(queue')]) + Len(queue'[Len(queue')].edits) = typed' + 1
      <3> SUFFICES ASSUME queue' # <<>>
                   PROVE  Id(queue'[Len(queue')]) + Len(queue'[Len(queue')].edits) = typed' + 1
        OBVIOUS
      <3>1. Len(queue') \in 1..(Len(queue) - 1) /\ Len(queue') + 1 = Len(queue)
        BY <1>9
      <3>2. Id(queue[Len(queue)]) + Len(queue[Len(queue)].edits) = typed + 1
        BY <1>1 DEF SessionInv, QueueInv
      <3> QED
        BY <1>2, <1>9, <3>1, <3>2
    <2> QED
      BY <1>9, <1>10, <2>1, <2>2, <2>3 DEF QueueInv
  \* The edits up to the next transaction.
  <1>13. /\ queue' # <<>> => Id(queue'[1]) = Id(h) + Len(h.edits)
         /\ queue' = <<>> => typed + 1 = Id(h) + Len(h.edits)
    <2>1. ASSUME queue' # <<>> PROVE Id(queue'[1]) = Id(h) + Len(h.edits)
      <3>1. 1 \in 1..(Len(queue) - 1) /\ 1 + 1 = 2 /\ 2 \in 2..Len(queue) /\ 2 - 1 = 1
        BY <1>9, <2>1
      <3>2. Id(queue[2]) = Id(queue[1]) + Len(queue[1].edits)
        BY <3>1 DEF SessionInv, QueueInv
      <3> QED
        BY <1>9, <3>1, <3>2 DEF h
    <2>2. ASSUME queue' = <<>> PROVE typed + 1 = Id(h) + Len(h.edits)
      BY <1>1, <1>9, <2>2 DEF SessionInv, QueueInv, h
    <2> QED
      BY <2>1, <2>2
  <1>14. LocalTypes' /\ LocalIsCommittedPlusQueue'
    <2>1. Replayed(content, queue') = Replayed(content, rest)
      BY <1>8, ReplayedSame DEF SameEdits
    <2>2. LocalIsCommittedPlusQueue'
      BY <1>2, <1>10, <2>1 DEF LocalIsCommittedPlusQueue
    <2>3. local' \in Content
      <3>1. local' = content \o FlattenSeq(EditsOf(rest)) /\ EditsOf(rest) \in Seq(Content)
        BY <1>2, <1>7, ReplayedIs
      <3>2. FlattenSeq(EditsOf(rest)) \in Content
        BY <3>1, FlattenType DEF Content
      <3> QED
        BY <1>6, <3>1, <3>2 DEF Content
    <2>4. committed' \in [revision : Revisions, content : Content]
      BY <1>2, <1>5, <1>6
    <2>5. \A i \in 2..Len(queue') : queue'[i].state = "pending" /\ queue'[i].attempts = 0
      <3>1. \A i \in 2..Len(queue') : i \in 1..(Len(queue) - 1)
        BY <1>7, <1>9
      <3> QED
        BY <1>9, <3>1
    <2> QED
      BY <1>2, <1>3, <1>9, <2>2, <2>3, <2>4, <2>5 DEF LocalTypes
  <1>15. (Current \in Revisions /\ committed.revision <= Current)' /\ CommittedMirrorsServer'
    BY <1>2, <1>3, <1>5, <1>10 DEF CommittedMirrorsServer
  <1>16. queue' # <<>> => queue'[1].state = "pending" /\ queue'[1].attempts = 0
    <2>1. queue' # <<>> => 1 \in 1..(Len(queue) - 1)
      BY <1>9
    <2> QED
      BY <1>9, <2>1
  <1>17. AttemptsInv' /\ FlightInv'
    <2>1. 0 + 2 <= MaxAttempts + n /\ 0 + 1 <= MaxAttempts + n
      BY <1>5, SessionConstants
    <2>2. AttemptsInv'
      BY <1>10, <1>16, <2>1 DEF AttemptsInv
    <2>3. FlightInv'
      BY <1>2, <1>16 DEF FlightInv
    <2> QED
      BY <2>2, <2>3
  <1>18. ASSUME NEW r \in wire PROVE RequestInv(r)'
    <2>1. RequestInv(r) /\ r.edits \in Seq(Edits) /\ Id(r) <= Id(h)
      BY <1>1, <1>3 DEF SessionInv, RequestInv, NetTypes, Request, h
    <2>2. Id(r) \in Nat
      BY <2>1, SessionConstants DEF RequestInv, Id, Edits
    <2>3. queue' # <<>> => Id(r) <= Id(queue'[1]) /\ Id(r) # Id(queue'[1])
      BY <1>4, <1>13, <2>1, <2>2
    <2>4. ~(log[Id(r)] = 0 /\ r.base = Current)
      <3>1. log[Id(r)] = 0 /\ r.base = Current => r.edits = h.edits
        BY <2>1 DEF RequestInv, h
      <3>2. r.edits = h.edits => Id(r) = Id(h)
        BY DEF Id
      <3> QED
        BY <1>1, <3>1, <3>2
    <2> QED
      BY <1>2, <1>3, <2>1, <2>3, <2>4 DEF RequestInv
  <1>19. LogInv'
    <2>1. ASSUME NEW e \in Edits, log[e] # 0 PROVE e <= typed /\ e <= Id(h)
      BY <1>1, <2>1 DEF SessionInv, LogInv, h
    <2>2. ASSUME NEW e \in Edits, log[e] # 0, queue' # <<>>
          PROVE  e <= Id(queue'[1]) /\ e # Id(queue'[1])
      <3>1. e <= Id(h) /\ e \in Nat
        BY <2>1, <2>2, SessionConstants DEF Edits
      <3> QED
        BY <1>4, <1>13, <2>2, <3>1
    <2>3. \A e \in Edits : log[e] <= Current
      BY DEF SessionInv, LogInv
    <2>4. queue' # <<>> => log[Id(queue'[1])] = 0
      <3>1. queue' # <<>> => Id(queue'[1]) \in Edits
        BY <1>12, <1>14, HeadIdNext
      <3> QED
        BY <2>2, <3>1
    <2> QED
      BY <1>2, <1>3, <2>1, <2>2, <2>3, <2>4 DEF LogInv
  <1>20. SavedInv'
    <2>1. \A e : IsSaved(e)' <=> IsSaved(e)
      BY <1>2 DEF IsSaved
    <2>2. \A e : Contains(h.edits, e) <=> e \in Id(h)..(Id(h) + Len(h.edits) - 1)
      BY <1>4, ContainsRun
    <2>3. ASSUME NEW e \in 1..typed, queue' = <<>> \/ e < Id(queue'[1]) PROVE IsSaved(e)
      <3>1. e < Id(h) + Len(h.edits) /\ e \in Nat
        <4>1. typed \in Nat /\ e \in Nat /\ e <= typed
          BY <1>3 DEF LocalTypes
        <4> QED
          BY <1>4, <1>13, <2>3, <4>1
      <3>2. CASE e < Id(h)
        BY <1>1, <3>2 DEF SessionInv, SavedInv, h
      <3>3. CASE ~(e < Id(h))
        <4>1. Contains(h.edits, e)
          BY <1>4, <2>2, <3>1, <3>3
        <4>2. Contains(content, e)
          <5>1. committed.content \in Seq(Edits \cup {Foreign}) /\ h.edits \in Seq(Edits \cup {Foreign})
            BY <1>3, <1>4 DEF LocalTypes, Content
          <5> QED
            BY <4>1, <5>1, ContainsConcat DEF content
        <4>3. n \in DOMAIN contents
          BY <1>3, <1>5 DEF ServerTypes
        <4> QED
          BY <1>5, <4>2, <4>3 DEF IsSaved
      <3> QED
        BY <3>2, <3>3
    <2>4. ASSUME NEW e \in Edits, IsSaved(e)
          PROVE  e <= typed /\ (queue' = <<>> \/ e < Id(queue'[1]))
      <3>1. e <= typed /\ (e < Id(h) \/ Contains(h.edits, e))
        BY <1>1, <2>4 DEF SessionInv, SavedInv, h
      <3>2. e \in Nat
        BY SessionConstants DEF Edits
      <3>3. e < Id(h) + Len(h.edits)
        BY <1>4, <2>2, <3>1, <3>2
      <3> QED
        BY <1>13, <3>1, <3>3
    <2> QED
      BY <1>2, <2>1, <2>3, <2>4 DEF SavedInv
  <1>21. SessionInv'
    BY <1>2, <1>12, <1>14, <1>15, <1>17, <1>18, <1>19, <1>20 DEF SessionInv
  <1> QED
    BY <1>1, <1>2, <1>14, <1>21, Landed

\* Nothing is replayed on top of a snapshot when nothing is queued.
LEMMA ReplayedNothing ==
  ASSUME NEW content \in Content
  PROVE  Replayed(content, <<>>) = content
  <1> DEFINE none == <<>>
  <1>1. none \in Seq(Transaction) /\ Len(none) = 0
    OBVIOUS
  <1>2. EditsOf(none) = <<>>
    <2>1. EditsOf(none) \in Seq(Content) /\ Len(EditsOf(none)) = 0
      BY <1>1, ReplayedIs
    <2> QED
      BY <2>1
  <1>3. FlattenSeq(<<>>) = <<>>
    BY DEF FlattenSeq
  <1>4. content \o <<>> = content
    BY DEF Content
  <1>5. Replayed(content, none) = content \o FlattenSeq(EditsOf(none))
    BY <1>1, ReplayedIs
  <1> QED
    BY <1>2, <1>3, <1>4, <1>5

\* A load() shows a revision of the server to a session that has nothing queued.
LEMMA ShownStep ==
  ASSUME TypeOK, SessionInv, queue = <<>>, flight = NoFlight, NEW n \in 1..Current, Show(n)
  PROVE  SessionInv' /\ ServerTypes' /\ LocalTypes' /\ FlightTypes' /\ NetTypes'
  <1>1. /\ contents' = contents /\ log' = log /\ undoLog' = undoLog /\ wire' = wire /\ undoWire' = undoWire
        /\ typed' = typed /\ flight' = flight /\ queue' = <<>>
        /\ committed' = [revision |-> n, content |-> contents[n]] /\ local' = contents[n]
        /\ Current' = Current
    BY DEF Show, serverVars, netVars, Current
  <1>2. /\ ServerTypes /\ NetTypes /\ LocalTypes /\ FlightTypes /\ Current \in Revisions /\ n \in Revisions
        /\ n <= Current
    BY TypeParts, SessionConstants DEF SessionInv, Revisions
  <1>3. contents[n] \in Content
    BY <1>2 DEF ServerTypes, Current
  <1>4. ServerTypes' /\ LocalTypes' /\ FlightTypes' /\ NetTypes'
    <2>1. queue' \in Seq(Transaction) /\ \A i \in 2..Len(queue') :
             queue'[i].state = "pending" /\ queue'[i].attempts = 0
      BY <1>1
    <2>2. ServerTypes' /\ FlightTypes' /\ NetTypes'
      BY <1>1, <1>2 DEF ServerTypes, FlightTypes, NetTypes
    <2>3. LocalTypes'
      BY <1>1, <1>2, <1>3, <2>1 DEF LocalTypes
    <2> QED
      BY <2>2, <2>3
  <1>5. (Current \in Revisions /\ committed.revision <= Current)' /\ CommittedMirrorsServer'
    BY <1>1, <1>2 DEF CommittedMirrorsServer
  <1>6. QueueInv' /\ AttemptsInv' /\ FlightInv'
    BY <1>1 DEF QueueInv, AttemptsInv, FlightInv
  <1>7. \A r \in wire' : RequestInv(r)'
    BY <1>1 DEF SessionInv, RequestInv
  <1>8. LogInv'
    BY <1>1 DEF SessionInv, LogInv
  <1>9. SavedInv'
    BY <1>1 DEF SessionInv, SavedInv, IsSaved
  <1>10. LocalIsCommittedPlusQueue'
    <2>1. committed'.content = contents[n]
      BY <1>1
    <2> QED
      BY <1>1, <1>3, <2>1, ReplayedNothing DEF LocalIsCommittedPlusQueue
  <1> QED
    BY <1>4, <1>5, <1>6, <1>7, <1>8, <1>9, <1>10 DEF SessionInv

\* A load() is shown, for an undo or for the user.
LEMMA ShowStep ==
  ASSUME TypeOK, SessionInv, LoadInv, ReloadShows \/ \E c \in Clicks : UndoShows(c)
  PROVE  TypeOK' /\ SessionInv' /\ LoadInv'
  <1>1. PICK n \in 1..Current : Show(n) /\ queue = <<>> /\ flight = NoFlight
    <2>1. CASE ReloadShows
      BY <2>1 DEF ReloadShows, LoadInv, Busy
    <2>2. ASSUME NEW c \in Clicks, UndoShows(c)
          PROVE  \E n \in 1..Current : Show(n) /\ queue = <<>> /\ flight = NoFlight
      BY <2>2 DEF UndoShows, LoadInv, Busy
    <2> QED
      BY <2>1, <2>2
  <1>2. SessionInv' /\ ServerTypes' /\ LocalTypes' /\ FlightTypes' /\ NetTypes'
    BY <1>1, ShownStep
  <1>3. /\ UiTypes /\ queue' = <<>> /\ flight' = NoFlight /\ Current' = Current
        /\ UNCHANGED <<armed, saving, intents>>
    BY <1>1, TypeParts DEF Show, serverVars, Current
  <1>4. CASE ReloadShows
    <2>1. reload' = NoLoad /\ undos' = undos
      BY <1>4 DEF ReloadShows
    <2>2. UiTypes'
      BY <1>3, <2>1, SessionConstants DEF UiTypes, NoLoad
    <2>3. LoadInv'
      BY <1>3, <2>1 DEF LoadInv, NoLoad
    <2> QED
      BY <1>2, <2>2, <2>3, TypePartsNext
  <1>5. ASSUME NEW c \in Clicks, UndoShows(c) PROVE TypeOK' /\ SessionInv' /\ LoadInv'
    <2> DEFINE u == [NewUndo EXCEPT !.phase = "done"]
    <2>1. undos' = [undos EXCEPT ![c] = u] /\ reload' = reload
      BY <1>5 DEF UndoShows
    <2>2. u \in UndoState /\ u.phase = "done"
      BY SessionConstants DEF UndoState, NewUndo
    <2> HIDE DEF u
    <2>3. /\ undos' \in [Clicks -> UndoState]
          /\ undos'[c] = u
          /\ \A d \in Clicks : d # c => undos'[d] = undos[d]
      BY <1>3, <2>1, <2>2, UndoMoves
    <2>4. UiTypes'
      BY <1>3, <2>1, <2>3 DEF UiTypes
    <2>5. LoadInv'
      BY <1>3, <2>1, <2>2, <2>3 DEF LoadInv
    <2> QED
      BY <1>2, <2>4, <2>5, TypePartsNext
  <1> QED
    BY <1>4, <1>5

--------------------------------------------------------------------------------
(* The invariant.                                                               *)

\* The session starts with nothing typed, queued or sent.
LEMMA InitInv == Init => TypeOK /\ SessionInv /\ LoadInv
  <1> SUFFICES ASSUME Init PROVE TypeOK /\ SessionInv /\ LoadInv
    OBVIOUS
  <1> USE DEF Init
  <1>1. /\ contents = <<(<<>>)>> /\ Len(contents) = 1 /\ contents[1] = <<>> /\ DOMAIN contents = 1..1
        /\ <<>> \in Content /\ 1 \in Revisions /\ queue = <<>> /\ Len(queue) = 0
    BY SessionConstants DEF Content, Revisions
  <1>2. TypeOK
    <2>1. ServerTypes
      BY <1>1, SessionConstants DEF ServerTypes
    <2>2. NetTypes /\ FlightTypes
      BY DEF NetTypes, FlightTypes
    <2>3. LocalTypes
      BY <1>1, SessionConstants DEF LocalTypes
    <2>4. UiTypes
      <3>1. 0 \in 0..MaxRevision /\ 0 \in 0..MaxUndos
        BY SessionConstants
      <3>2. NewUndo \in UndoState
        BY <3>1 DEF UndoState, NewUndo
      <3>3. undos \in [Clicks -> UndoState]
        BY <3>2
      <3>4. intents \in [Revisions -> 0..MaxUndos]
        BY <3>1
      <3> QED
        BY <3>1, <3>3, <3>4 DEF UiTypes, NoLoad
    <2> QED
      BY <2>1, <2>2, <2>3, <2>4, TypeParts
  <1>3. /\ Current \in Revisions /\ committed.revision <= Current /\ CommittedMirrorsServer
    BY <1>1 DEF Current, CommittedMirrorsServer
  <1>4. QueueInv /\ AttemptsInv /\ FlightInv /\ \A r \in wire : RequestInv(r)
    BY <1>1 DEF QueueInv, AttemptsInv, FlightInv
  <1>5. LogInv /\ SavedInv
    <2>1. \A e : ~IsSaved(e)
      BY <1>1 DEF IsSaved, Contains
    <2>2. LogInv
      BY <1>1 DEF LogInv, Current
    <2>3. SavedInv
      BY <1>1, <2>1 DEF SavedInv
    <2> QED
      BY <2>2, <2>3
  <1>6. LocalIsCommittedPlusQueue
    BY <1>1, ReplayedNothing DEF LocalIsCommittedPlusQueue
  <1>7. LoadInv
    BY DEF LoadInv, Busy, NoLoad, NewUndo
  <1> QED
    BY <1>2, <1>3, <1>4, <1>5, <1>6, <1>7 DEF SessionInv

\* Every step preserves the invariant, one case for each action.
LEMMA NextInv ==
  ASSUME Patient, TypeOK, SessionInv, LoadInv, [Next]_vars
  PROVE  TypeOK' /\ SessionInv' /\ LoadInv'
  <1>1. ASSUME NEW r \in wire, ServerHandlesEdit(r) PROVE TypeOK' /\ SessionInv' /\ LoadInv'
    BY <1>1, ServerEditStep
  <1>2. ASSUME NEW r \in undoWire, ServerHandlesUndo(r) PROVE TypeOK' /\ SessionInv' /\ LoadInv'
    BY <1>2, ServerUndoStep
  <1>3. CASE SomebodyEdits
    BY <1>3, SomebodyEditsStep
  <1>4. CASE Type
    BY <1>4, TypeStep
  <1>5. CASE TimerFires \/ DrainFlush
    BY <1>5, SendStep
  <1>6. CASE Acknowledge
    BY <1>6, AcknowledgeStep
  <1>7. CASE Refetch
    BY <1>7, RefetchStep
  <1>8. CASE Rebase
    BY <1>8, RebaseStep
  <1>9. CASE Refused \/ FlightFails
    BY <1>9, FailureStep
  <1>10. CASE \/ Save \/ SaveEnds \/ Reload \/ ReloadFails
              \/ \E c \in Clicks : \/ ClickUndo(c) \/ GiveUpUndo(c) \/ SendUndo(c) \/ UndoFails(c)
                                   \/ UndoReads(c) \/ UndoLoadFails(c)
    BY <1>10, UiStep
  <1>11. CASE ReloadShows \/ \E c \in Clicks : UndoShows(c)
    BY <1>11, ShowStep
  <1>12. CASE UNCHANGED vars
    <2>1. UNCHANGED sessionVars
      BY <1>12 DEF vars, serverVars, netVars, localVars, uiVars, sessionVars
    <2>2. TypeOK'
      BY <1>12 DEF vars, serverVars, netVars, localVars, uiVars, TypeOK
    <2>3. LoadInv'
      BY <1>12 DEF vars, serverVars, netVars, localVars, uiVars, LoadInv, Busy, Current
    <2> QED
      BY <2>1, <2>2, <2>3, SessionStays
  <1> QED
    BY <1>1, <1>2, <1>3, <1>4, <1>5, <1>6, <1>7, <1>8, <1>9, <1>10, <1>11, <1>12 DEF Next

\* The inductive invariant holds in every state.
LEMMA InvHolds == ASSUME Patient PROVE Spec => [](TypeOK /\ SessionInv /\ LoadInv)
  <1>1. Init => TypeOK /\ SessionInv /\ LoadInv
    BY InitInv
  <1>2. (TypeOK /\ SessionInv /\ LoadInv) /\ [Next]_vars => (TypeOK /\ SessionInv /\ LoadInv)'
    BY NextInv
  <1> QED
    BY <1>1, <1>2, PTL DEF Spec

\* An edit from the head of the outbox on is in one of its transactions.
LEMMA FoundInQueue ==
  ASSUME LocalTypes, QueueInv, queue # <<>>, NEW e \in Id(queue[1])..typed
  PROVE  IsQueued(e)
  <1> DEFINE end(i) == Id(queue[i]) + Len(queue[i].edits)
             P == {k \in Nat : k + 1 <= Len(queue) /\ e < end(k + 1) => IsQueued(e)}
  <1>1. /\ Len(queue) \in Nat \ {0} /\ e \in Nat /\ typed \in Nat /\ DOMAIN queue = 1..Len(queue)
        /\ \A i \in 1..Len(queue) : /\ queue[i] \in Transaction /\ Run(queue[i])
                                    /\ Id(queue[i]) \in Nat /\ Len(queue[i].edits) \in Nat /\ end(i) \in Nat
    <2>1. Len(queue) \in Nat \ {0} /\ 1 \in 1..Len(queue) /\ DOMAIN queue = 1..Len(queue)
      BY QueueTypes DEF LocalTypes
    <2>2. \A i \in 1..Len(queue) : queue[i] \in Transaction /\ queue[i].edits \in Seq(Edits) /\ Run(queue[i])
      BY QueueTypes DEF QueueInv
    <2>3. \A i \in 1..Len(queue) : Id(queue[i]) \in Nat /\ Len(queue[i].edits) \in Nat
      BY <2>2, SessionConstants DEF Run, Id, Edits
    <2>4. typed \in Nat
      BY DEF LocalTypes
    <2>5. e \in Nat
      BY <2>1, <2>3, <2>4
    <2> QED
      BY <2>1, <2>2, <2>3, <2>4, <2>5
  <1>2. ASSUME NEW i \in 1..Len(queue), Id(queue[i]) <= e, e < end(i) PROVE IsQueued(e)
    <2>1. Contains(queue[i].edits, e)
      <3>1. e \in Id(queue[i])..(Id(queue[i]) + Len(queue[i].edits) - 1)
        BY <1>1, <1>2
      <3> QED
        BY <1>1, <3>1, ContainsRun
    <2> QED
      BY <1>1, <2>1 DEF IsQueued
  <1>3. \A i \in 2..Len(queue) : Id(queue[i]) = end(i - 1)
    BY DEF QueueInv
  <1> HIDE DEF end
  <1>4. 0 \in P
    <2>1. 0 + 1 = 1 /\ 1 \in 1..Len(queue) /\ Id(queue[1]) <= e
      BY <1>1
    <2> QED
      BY <1>2, <2>1
  <1>5. ASSUME NEW k \in P PROVE k + 1 \in P
    <2>1. k \in Nat /\ (k + 1 <= Len(queue) /\ e < end(k + 1) => IsQueued(e))
      OBVIOUS
    <2>2. ASSUME (k + 1) + 1 <= Len(queue), e < end((k + 1) + 1) PROVE IsQueued(e)
      <3> DEFINE i == (k + 1) + 1
      <3>1. /\ i \in 2..Len(queue) /\ i \in 1..Len(queue) /\ i - 1 = k + 1 /\ k + 1 <= Len(queue)
            /\ k + 1 \in 1..Len(queue)
        BY <1>1, <2>1, <2>2
      <3>2. Id(queue[i]) = end(k + 1)
        BY <1>3, <3>1
      <3>3. e < end(k + 1) \/ Id(queue[i]) <= e
        BY <1>1, <3>1, <3>2
      <3> HIDE DEF P
      <3> QED
        BY <1>2, <2>1, <2>2, <3>1, <3>3
    <2> QED
      BY <2>1, <2>2
  <1>6. P = Nat
    <2>1. P \in SUBSET Nat
      OBVIOUS
    <2> HIDE DEF P
    <2> QED
      BY <1>4, <1>5, <2>1, SetInduction
  <1>7. Len(queue) - 1 \in Nat /\ (Len(queue) - 1) + 1 = Len(queue) /\ Len(queue) <= Len(queue)
    BY <1>1
  <1>8. e < end(Len(queue))
    BY <1>1 DEF QueueInv, end
  <1>9. Len(queue) - 1 \in P
    BY <1>6, <1>7
  <1>10. (Len(queue) - 1) + 1 <= Len(queue) /\ e < end((Len(queue) - 1) + 1) => IsQueued(e)
    BY <1>9
  <1> QED
    BY <1>7, <1>8, <1>10

\* The edits of a committed head are on the server.
LEMMA HeadSaved ==
  ASSUME TypeOK, SessionInv, queue # <<>>, log[Id(queue[1])] # 0, NEW e, Contains(queue[1].edits, e)
  PROVE  IsSaved(e)
  <1>1. /\ ServerTypes /\ LocalTypes /\ queue[1].edits \in Seq(Edits) /\ Id(queue[1]) \in Edits
    BY TypeParts, HeadId DEF SessionInv
  <1>2. /\ contents[log[Id(queue[1])]] = committed.content \o queue[1].edits
        /\ log[Id(queue[1])] <= Current
    BY <1>1 DEF SessionInv, LogInv
  <1>3. log[Id(queue[1])] \in DOMAIN contents
    BY <1>1, <1>2, SessionConstants DEF ServerTypes, Current
  <1>4. committed.content \in Seq(Edits \cup {Foreign}) /\ queue[1].edits \in Seq(Edits \cup {Foreign})
    BY <1>1 DEF LocalTypes, Content
  <1>5. Contains(committed.content \o queue[1].edits, e)
    BY <1>4, ContainsConcat
  <1> QED
    BY <1>2, <1>3, <1>5 DEF IsSaved

\* An edit typed is before the head, and saved, or in the outbox.
LEMMA NothingLost == TypeOK /\ SessionInv => NoEditIsLost
  <1> SUFFICES ASSUME TypeOK, SessionInv, NEW e \in 1..typed PROVE IsSaved(e) \/ IsQueued(e)
    BY DEF NoEditIsLost
  <1>1. LocalTypes /\ QueueInv /\ typed \in Nat /\ (queue # <<>> => Id(queue[1]) \in Nat)
    <2>1. LocalTypes /\ QueueInv
      BY TypeParts DEF SessionInv
    <2> QED
      BY <2>1, HeadId, SessionConstants DEF LocalTypes, Edits
  <1>2. CASE queue = <<>> \/ e < Id(queue[1])
    BY <1>2 DEF SessionInv, SavedInv
  <1>3. CASE queue # <<>> /\ ~(e < Id(queue[1]))
    <2>1. e \in Id(queue[1])..typed
      BY <1>1, <1>3
    <2> QED
      BY <1>1, <1>3, <2>1, FoundInQueue
  <1> QED
    BY <1>2, <1>3

\* A saved edit is before the head or in it, and so is the one typed before it.
LEMMA NothingAhead == TypeOK /\ SessionInv => NothingOvertakes
  <1> SUFFICES ASSUME TypeOK, SessionInv, NEW e \in 2..typed, IsSaved(e) PROVE IsSaved(e - 1)
    BY DEF NothingOvertakes
  <1>1. LocalTypes /\ QueueInv /\ typed \in 0..MaxEdits /\ (queue # <<>> => Id(queue[1]) \in Nat)
    <2>1. LocalTypes /\ QueueInv
      BY TypeParts DEF SessionInv
    <2> QED
      BY <2>1, HeadId, SessionConstants DEF LocalTypes, Edits
  <1>2. e \in Edits /\ e - 1 \in 1..typed /\ e \in Nat
    BY <1>1, SessionConstants DEF Edits
  <1>3. queue = <<>> \/ e < Id(queue[1]) \/ (Contains(queue[1].edits, e) /\ log[Id(queue[1])] # 0)
    BY <1>2 DEF SessionInv, SavedInv
  <1>4. CASE queue = <<>> \/ e - 1 < Id(queue[1])
    BY <1>2, <1>4 DEF SessionInv, SavedInv
  <1>5. CASE queue # <<>> /\ ~(e - 1 < Id(queue[1]))
    <2>1. /\ queue[1] \in Transaction /\ Run(queue[1]) /\ Len(queue[1].edits) \in Nat
          /\ Id(queue[1]) \in Nat /\ ~(e < Id(queue[1]))
      BY <1>1, <1>2, <1>5, HeadId
    <2>2. e \in Id(queue[1])..(Id(queue[1]) + Len(queue[1].edits) - 1)
      BY <1>3, <1>5, <2>1, ContainsRun
    <2>3. e - 1 \in Id(queue[1])..(Id(queue[1]) + Len(queue[1].edits) - 1)
      BY <1>2, <1>5, <2>1, <2>2
    <2>4. Contains(queue[1].edits, e - 1)
      BY <2>1, <2>3, ContainsRun
    <2> QED
      BY <1>3, <1>5, <2>1, <2>4, HeadSaved
  <1> QED
    BY <1>4, <1>5

\* Every variable of the session keeps its type, and only the head of the outbox
\* has ever been sent (autosaveOutbox.ts).
THEOREM SessionTypeOK == ASSUME Patient PROVE Spec => []TypeOK
  BY InvHolds, PTL

\* What the session holds as committed is the server's content at that revision,
\* after lost answers, late answers and conflicts (useBlockSession.ts).
THEOREM CommittedIsTheServers == ASSUME Patient PROVE Spec => []CommittedMirrorsServer
  <1>1. SessionInv => CommittedMirrorsServer
    BY DEF SessionInv
  <1> QED
    BY <1>1, InvHolds, PTL

\* The user sees the committed content with what is queued on top of it, each edit
\* once and in order (useBlockSession.ts, autosaveOutbox.ts).
THEOREM LocalIsReplayed == ASSUME Patient PROVE Spec => []LocalIsCommittedPlusQueue
  <1>1. SessionInv => LocalIsCommittedPlusQueue
    BY DEF SessionInv
  <1> QED
    BY <1>1, InvHolds, PTL

\* Every edit typed is on the server or still in the outbox.
THEOREM EditsAreKept == ASSUME Patient PROVE Spec => []NoEditIsLost
  BY InvHolds, NothingLost, PTL

\* No edit is on the server before one that was typed before it.
THEOREM EditsKeepTheirOrder == ASSUME Patient PROVE Spec => []NothingOvertakes
  BY InvHolds, NothingAhead, PTL

================================================================================
