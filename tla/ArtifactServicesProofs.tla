----------------------- MODULE ArtifactServicesProofs -----------------------
(***************************************************************************)
(* Theorems about the services around an Artifact's transactions, for      *)
(* every value of their constants.  One service runs at a time, so that    *)
(* the inductive invariant is that of the active one.  Those of the files  *)
(* and of the scene are ArtifactFilesProofs' and SceneIndexProofs', of     *)
(* which this module takes instances; those of the feed, the mindmap's     *)
(* follower, the board, the offline tools and the pages are proved here.   *)
(***************************************************************************)
EXTENDS ArtifactServices, SequenceTheorems, FiniteSetTheorems, TLAPS

--------------------------------------------------------------------------------
(* The feed.  A page that ends it is read while commits go on: what makes it    *)
(* safe to go past its highest revision is that a revision's events are written *)
(* with it, so that an event the page does not hold is of a later revision than *)
(* every event it does (FeedAnswerInv).                                         *)

\* Nobody is ahead of the Artifact, and a question is asked from the position.
FeedPositionInv ==
    /\ lastRevision <= version
    /\ cursor # None => cursor[1] <= version
    /\ \A e \in outbox : e[1] <= version
    /\ request # None => request.at = Feed!Position /\ page = None

\* What an answer under way says of the events after the position.
FeedAnswerInv ==
    page # None =>
       /\ page.next # None =>
             /\ page.next \in outbox
             /\ \A e \in outbox :
                   Feed!After(e, Feed!Position) /\ ~Feed!After(e, page.next) => e \in page.events
       /\ page.next = None =>
             \A e \in outbox :
                Feed!After(e, Feed!Position) /\ e \notin page.events =>
                   lastRevision < e[1] /\ \A f \in page.events : f[1] < e[1]

FeedInv == Feed!TypeOK /\ FeedPositionInv /\ FeedAnswerInv /\ Feed!NoEventIsSkipped

LEMMA FeedInit ==
    ASSUME Feed!FeedConstants, Feed!Init
    PROVE  FeedInv
  <1> USE DEF Feed!FeedConstants, Feed!Init
  <1>1. Feed!TypeOK
    BY DEF Feed!TypeOK, Feed!Events, Feed!EventIds
  <1>2. FeedPositionInv /\ FeedAnswerInv
    BY DEF FeedPositionInv, FeedAnswerInv
  <1>3. Feed!NoEventIsSkipped
    BY DEF Feed!NoEventIsSkipped, Feed!After, Feed!Position, Feed!End
  <1> QED
    BY <1>1, <1>2, <1>3 DEF FeedInv

\* Events and positions are pairs of numbers.
LEMMA PositionType ==
    ASSUME Feed!FeedConstants, Feed!TypeOK
    PROVE  /\ Feed!Position \in Nat \X (1 .. Feed!End)
           /\ \A e \in Feed!Events : e[1] \in Nat /\ e[2] \in 1 .. MaxEvents /\ e # None
  BY DEF Feed!FeedConstants, Feed!TypeOK, Feed!Events, Feed!EventIds, Feed!End, Feed!Position

\* A commit's events are after every position and every page there can be.
LEMMA FeedCommitKeeps ==
    ASSUME Feed!FeedConstants, FeedInv, Feed!Commit
    PROVE  FeedInv'
  <1> USE DEF Feed!FeedConstants, FeedInv
  <1>1. PICK ids \in SUBSET Feed!EventIds : outbox' = outbox \cup ({version + 1} \X ids)
    BY DEF Feed!Commit
  <1>2. /\ version' = version + 1 /\ version < MaxFeedRevision
        /\ UNCHANGED <<start, cursor, lastRevision, received, request, page, Feed!Position>>
    BY DEF Feed!Commit, Feed!Position
  <1>3. version \in Nat /\ outbox \subseteq outbox'
    BY <1>1 DEF Feed!TypeOK
  <1>4. ASSUME NEW e \in outbox', e \notin outbox
        PROVE  e \in Feed!Events /\ e[1] = version + 1
    BY <1>1, <1>2, <1>3, <1>4 DEF Feed!Events
  <1>5. Feed!TypeOK'
    BY <1>2, <1>3, <1>4 DEF Feed!TypeOK
  <1>6. FeedPositionInv'
    BY <1>2, <1>3, <1>4, PositionType DEF FeedPositionInv, Feed!TypeOK
  <1>7. FeedAnswerInv'
    <2> SUFFICES ASSUME page # None PROVE FeedAnswerInv'
      BY <1>2 DEF FeedAnswerInv
    <2>1. page.events \subseteq outbox /\ page.next \in Feed!Events \cup {None}
      BY DEF Feed!TypeOK
    <2>2. CASE page.next # None
      <3>1. ASSUME NEW e \in outbox', e \notin outbox PROVE Feed!After(e, page.next)
        BY <1>3, <1>4, <2>1, <2>2, <3>1, PositionType DEF FeedAnswerInv, FeedPositionInv,
           Feed!After
      <3> QED
        BY <1>2, <1>3, <2>2, <3>1 DEF FeedAnswerInv
    <2>3. CASE page.next = None
      <3>1. ASSUME NEW e \in outbox', e \notin outbox
            PROVE  lastRevision < e[1] /\ \A f \in page.events : f[1] < e[1]
        BY <1>3, <1>4, <2>1, <3>1, PositionType DEF FeedPositionInv, Feed!TypeOK
      <3> QED
        BY <1>2, <1>3, <2>3, <3>1 DEF FeedAnswerInv
    <2> QED
      BY <2>2, <2>3
  <1>8. Feed!NoEventIsSkipped'
    <2> SUFFICES ASSUME NEW e \in outbox', e[1] > start, ~Feed!After(e, Feed!Position)
                 PROVE  e \in received
      BY <1>2 DEF Feed!NoEventIsSkipped, Feed!After
    <2>1. e \in outbox
      BY <1>3, <1>4, PositionType DEF Feed!After, Feed!Position, FeedPositionInv, Feed!TypeOK
    <2> QED
      BY <2>1 DEF Feed!NoEventIsSkipped
  <1> QED
    BY <1>5, <1>6, <1>7, <1>8

\* The rows of an answer are the first after the position; when there are more,
\* its cursor is the last of them.
LEMMA FeedAnswerKeeps ==
    ASSUME Feed!FeedConstants, FeedInv, Feed!Answer
    PROVE  FeedInv'
  <1> USE DEF Feed!FeedConstants, FeedInv
  <1>1. PICK rows \in SUBSET outbox, last \in outbox \cup {None} :
           /\ Feed!IsFirst(rows, request.at, request.limit)
           /\ IF Feed!HasMore(rows, request.at)
              THEN last \in rows /\ \A e \in rows : ~Feed!After(e, last)
              ELSE last = None
           /\ page' = [events |-> rows, next |-> last]
    BY DEF Feed!Answer
  <1>2. /\ request # None /\ request' = None
        /\ UNCHANGED <<version, outbox, start, cursor, lastRevision, received, Feed!Position>>
    BY DEF Feed!Answer, Feed!Position
  <1>3. outbox \subseteq Feed!Events /\ last \in Feed!Events \cup {None}
    BY <1>1 DEF Feed!TypeOK
  <1>4. Feed!TypeOK'
    BY <1>1, <1>2, <1>3 DEF Feed!TypeOK
  <1>5. FeedPositionInv' /\ Feed!NoEventIsSkipped'
    BY <1>2 DEF FeedPositionInv, Feed!NoEventIsSkipped, Feed!After
  <1>6. FeedAnswerInv'
    <2>1. request.at = Feed!Position
      BY <1>2 DEF FeedPositionInv
    <2>2. CASE Feed!HasMore(rows, Feed!Position)
      <3>1. last \in rows /\ last # None
        BY <1>1, <1>3, <2>1, <2>2, PositionType
      <3>2. \A e \in outbox : Feed!After(e, Feed!Position) /\ ~Feed!After(e, last) => e \in rows
        BY <1>1, <2>1, <3>1 DEF Feed!IsFirst
      <3> QED
        BY <1>1, <1>2, <3>1, <3>2 DEF FeedAnswerInv, Feed!After
    <2>3. CASE ~Feed!HasMore(rows, Feed!Position)
      BY <1>1, <1>2, <2>1, <2>3 DEF FeedAnswerInv, Feed!HasMore, Feed!After
    <2> QED
      BY <2>2, <2>3
  <1> QED
    BY <1>4, <1>5, <1>6

\* Going past a page leaves no event behind.
LEMMA FeedAcceptKeeps ==
    ASSUME Feed!FeedConstants, FeedInv, Feed!Accept
    PROVE  FeedInv'
  <1> USE DEF Feed!FeedConstants, FeedInv
  <1>1. /\ page # None /\ page' = None /\ cursor' = page.next
        /\ received' = received \cup page.events
        /\ lastRevision' \in {lastRevision} \cup {e[1] : e \in page.events}
        /\ lastRevision <= lastRevision' /\ \A e \in page.events : e[1] <= lastRevision'
        /\ UNCHANGED <<version, outbox, start, request>>
    BY DEF Feed!Accept
  <1>2. /\ page.events \subseteq outbox /\ page.next \in Feed!Events \cup {None}
        /\ outbox \subseteq Feed!Events /\ lastRevision \in Nat /\ start \in {0, 1}
    BY <1>1 DEF Feed!TypeOK
  <1>3. lastRevision' \in Nat /\ lastRevision' <= version
    BY <1>1, <1>2, PositionType DEF FeedPositionInv
  <1>4. Feed!TypeOK'
    BY <1>1, <1>2, <1>3 DEF Feed!TypeOK
  <1>5. request' = None
    BY <1>1 DEF FeedPositionInv
  <1>6. FeedPositionInv' /\ FeedAnswerInv'
    BY <1>1, <1>2, <1>3, <1>5 DEF FeedPositionInv, FeedAnswerInv
  <1>7. Feed!NoEventIsSkipped'
    <2> SUFFICES ASSUME NEW e \in outbox, e[1] > start, ~Feed!After(e, Feed!Position)'
                 PROVE  e \in received \cup page.events
      BY <1>1 DEF Feed!NoEventIsSkipped, Feed!After
    <2>1. CASE ~Feed!After(e, Feed!Position)
      BY <2>1 DEF Feed!NoEventIsSkipped
    <2>2. CASE Feed!After(e, Feed!Position) /\ page.next # None
      <3>1. ~Feed!After(e, page.next)
        BY <1>1, <2>2 DEF Feed!Position, Feed!After
      <3> QED
        BY <1>1, <2>2, <3>1 DEF FeedAnswerInv
    <2>3. CASE Feed!After(e, Feed!Position) /\ page.next = None
      <3>1. e[1] <= lastRevision'
        BY <1>1, <1>2, <1>3, <2>3, PositionType DEF Feed!Position, Feed!After, Feed!End
      <3>2. ~(lastRevision < e[1] /\ \A f \in page.events : f[1] < e[1])
        BY <1>1, <1>2, <1>3, <3>1, PositionType
      <3> QED
        BY <1>1, <2>3, <3>2 DEF FeedAnswerInv
    <2> QED
      BY <2>1, <2>2, <2>3
  <1> QED
    BY <1>4, <1>6, <1>7

LEMMA FeedNextKeeps ==
    ASSUME Feed!FeedConstants, FeedInv, [Feed!Next]_(Feed!vars)
    PROVE  FeedInv'
  <1>1. CASE Feed!Ask
    <2>1. PICK limit \in Limits : request' = [at |-> Feed!Position, limit |-> limit]
      BY <1>1 DEF Feed!Ask
    <2>2. page = None
          /\ UNCHANGED <<version, outbox, start, cursor, lastRevision, received, page, Feed!Position>>
      BY <1>1 DEF Feed!Ask, Feed!Position
    <2>3. Feed!TypeOK'
      BY <2>1, <2>2, PositionType DEF FeedInv, Feed!TypeOK, Feed!Positions
    <2> QED
      BY <2>1, <2>2, <2>3 DEF FeedInv, FeedPositionInv, FeedAnswerInv,
         Feed!NoEventIsSkipped, Feed!After
  <1>2. CASE Feed!Lose
    BY <1>2 DEF Feed!Lose, FeedInv, Feed!TypeOK, FeedPositionInv, FeedAnswerInv,
       Feed!NoEventIsSkipped, Feed!After, Feed!Position
  <1>3. CASE UNCHANGED Feed!vars
    BY <1>3 DEF Feed!vars, FeedInv, Feed!TypeOK, FeedPositionInv, FeedAnswerInv,
       Feed!NoEventIsSkipped, Feed!After, Feed!Position
  <1> QED
    BY <1>1, <1>2, <1>3, FeedCommitKeeps, FeedAnswerKeeps, FeedAcceptKeeps DEF Feed!Next

--------------------------------------------------------------------------------
(* The board.                                                                   *)

\* The value of an entry under a later put or reader.
Entry == {None} \cup [put : Board!Puts, old : BOOLEAN]

LEMMA BoardInit == Board!BoardConstants /\ Board!Init => Board!TypeOK
  <1> SUFFICES ASSUME Board!BoardConstants, Board!Init PROVE Board!TypeOK
    OBVIOUS
  <1>1. blocks \in Seq(SUBSET Blocks) /\ Board!revision = 1
    BY DEF Board!Init, Board!revision
  <1> QED
    BY <1>1 DEF Board!Init, Board!TypeOK, Board!BoardConstants

LEMMA EditKeeps == Board!BoardConstants /\ Board!TypeOK /\ Board!Edit => Board!TypeOK'
  <1> SUFFICES ASSUME Board!BoardConstants, Board!TypeOK, Board!Edit PROVE Board!TypeOK'
    OBVIOUS
  <1>1. PICK later \in SUBSET Blocks : blocks' = Append(blocks, later)
    BY DEF Board!Edit
  <1>2. blocks' \in Seq(SUBSET Blocks) /\ Board!revision' = Board!revision + 1
    BY <1>1, AppendProperties DEF Board!TypeOK, Board!revision
  <1>3. /\ Board!revision \in 1 .. MaxBoardRevision
        /\ Board!revision < MaxBoardRevision /\ MaxBoardRevision \in Nat
        /\ UNCHANGED <<open, place, sent, checked, entries, loaded, shown, losses>>
    BY DEF Board!Edit, Board!TypeOK, Board!BoardConstants
  <1>4. Board!revision + 1 \in 1 .. MaxBoardRevision
    BY <1>3
  <1>5. seen' \in [Sessions -> 1 .. MaxBoardRevision]
    <2>1. seen \in [Sessions -> 1 .. MaxBoardRevision]
      BY DEF Board!TypeOK
    <2>2. seen' = seen \/ \E s \in open : seen' = [seen EXCEPT ![s] = Board!revision + 1]
      BY DEF Board!Edit
    <2> QED
      BY <1>4, <2>1, <2>2
  <1> QED
    BY <1>2, <1>3, <1>4, <1>5 DEF Board!TypeOK

LEMMA SessionsKeep ==
  ASSUME Board!BoardConstants, Board!TypeOK, NEW s \in Sessions,
         Board!Reopen(s) \/ Board!Move(s) \/ Board!Close(s) \/ Board!Publish(s) \/ Board!Age(s)
  PROVE  Board!TypeOK'
  <1>2. UNCHANGED <<blocks, shown, loaded, losses>>
    BY DEF Board!Reopen, Board!Move, Board!Close, Board!Publish, Board!Age
  <1>4. Board!revision' = Board!revision
    BY <1>2 DEF Board!revision
  <1>5. open' \subseteq Sessions
    BY DEF Board!TypeOK, Board!Reopen, Board!Move, Board!Close, Board!Publish, Board!Age
  <1>6. seen' \in [Sessions -> 1 .. MaxBoardRevision] /\ place' \in [Sessions -> Blocks]
    BY DEF Board!TypeOK, Board!Reopen, Board!Move, Board!Close, Board!Publish, Board!Age
  <1>7. sent' \subseteq Board!Puts /\ checked' \subseteq Board!Puts
    BY DEF Board!TypeOK, Board!Puts, Board!Reopen, Board!Move, Board!Close,
       Board!Publish, Board!Age
  <1>8. entries' \in [Sessions -> Entry]
    <2>1. entries \in [Sessions -> Entry]
      BY DEF Board!TypeOK, Entry
    <2>2. CASE Board!Age(s)
      <3>1. entries[s] \in [put : Board!Puts, old : BOOLEAN]
        BY <2>1, <2>2 DEF Board!Age, Entry
      <3>2. entries' = [entries EXCEPT ![s].old = TRUE]
        BY <2>2 DEF Board!Age
      <3>3. [entries[s] EXCEPT !.old = TRUE] \in Entry
        BY <3>1 DEF Entry
      <3> QED
        BY <2>1, <3>2, <3>3
    <2>3. CASE ~Board!Age(s)
      BY <2>1, <2>3 DEF Board!Reopen, Board!Move, Board!Close, Board!Publish
    <2> QED
      BY <2>2, <2>3
  <1> QED
    BY <1>2, <1>4, <1>5, <1>6, <1>7, <1>8 DEF Board!TypeOK, Entry

LEMMA PurgedType == Board!TypeOK => Board!Purged \in [Sessions -> Entry]
  BY DEF Board!TypeOK, Board!Purged, Entry

LEMMA PutsKeep ==
  ASSUME Board!BoardConstants, Board!TypeOK, NEW p \in Board!Puts,
         Board!Validate(p) \/ Board!Store(p)
  PROVE  Board!TypeOK'
  <1>1. UNCHANGED <<blocks, open, seen, place, shown, loaded, losses>>
    BY DEF Board!Validate, Board!Store
  <1>2. Board!revision' = Board!revision
    BY <1>1 DEF Board!revision
  <1>3. sent' \subseteq Board!Puts /\ checked' \subseteq Board!Puts
    BY DEF Board!TypeOK, Board!Validate, Board!Store
  <1>4. entries' \in [Sessions -> Entry]
    <2>1. CASE Board!Validate(p)
      BY <2>1 DEF Board!TypeOK, Board!Validate, Entry
    <2>2. CASE Board!Store(p)
      <3>1. [put |-> p, old |-> FALSE] \in Entry
        BY DEF Entry
      <3>2. entries' = [Board!Purged EXCEPT ![p.session] = [put |-> p, old |-> FALSE]]
        BY <2>2 DEF Board!Store
      <3> QED
        BY <3>1, <3>2, PurgedType
    <2> QED
      BY <2>1, <2>2
  <1> QED
    BY <1>1, <1>2, <1>3, <1>4 DEF Board!TypeOK, Entry

LEMMA LoseKeeps == Board!BoardConstants /\ Board!TypeOK /\ Board!Lose => Board!TypeOK'
  <1> SUFFICES ASSUME Board!BoardConstants, Board!TypeOK, Board!Lose PROVE Board!TypeOK'
    OBVIOUS
  <1>1. UNCHANGED <<blocks, open, seen, place, shown>> /\ losses' \in 0 .. MaxLosses
    BY DEF Board!Lose, Board!TypeOK, Board!BoardConstants
  <1>2. sent' \subseteq Board!Puts /\ checked' \subseteq Board!Puts
    BY DEF Board!Lose, Board!TypeOK
  <1>3. entries' \in [Sessions -> Entry]
    BY DEF Board!Lose, Board!TypeOK, Entry
  <1>4. loaded' \in [Readers -> 0 .. MaxBoardRevision]
    BY DEF Board!Lose, Board!TypeOK, Board!BoardConstants
  <1>5. Board!revision' = Board!revision
    BY <1>1 DEF Board!revision
  <1> QED
    BY <1>1, <1>2, <1>3, <1>4, <1>5 DEF Board!TypeOK, Entry

LEMMA ReadDocumentKeeps ==
  ASSUME Board!BoardConstants, Board!TypeOK, NEW r \in Readers, Board!ReadDocument(r)
  PROVE  Board!TypeOK'
  <1>1. UNCHANGED <<blocks, open, seen, place, sent, checked, entries, shown, losses>>
    BY DEF Board!ReadDocument
  <1>2. Board!revision \in 0 .. MaxBoardRevision /\ loaded' = [loaded EXCEPT ![r] = Board!revision]
    BY DEF Board!ReadDocument, Board!TypeOK, Board!BoardConstants
  <1>3. loaded' \in [Readers -> 0 .. MaxBoardRevision]
    BY <1>2 DEF Board!TypeOK
  <1>4. Board!revision' = Board!revision
    BY <1>1 DEF Board!revision
  <1> QED
    BY <1>1, <1>3, <1>4 DEF Board!TypeOK

LEMMA ReadBoardKeeps ==
  ASSUME Board!BoardConstants, Board!TypeOK, NEW r \in Readers, Board!ReadBoard(r)
  PROVE  Board!TypeOK'
  <1>1. /\ UNCHANGED <<blocks, open, seen, place, sent, checked, losses>>
        /\ loaded' = [loaded EXCEPT ![r] = 0]
    BY DEF Board!ReadBoard
  <1>2. Board!revision' = Board!revision /\ Board!revision \in 1 .. MaxBoardRevision
    BY <1>1 DEF Board!revision, Board!TypeOK
  <1>3. /\ Board!Purged \in [Sessions -> Entry]
        /\ entries' = [s \in Sessions |->
                         IF Board!Purged[s] # None /\ Board!Fits(Board!Purged[s].put, loaded[r])
                         THEN Board!Purged[s] ELSE None]
    BY PurgedType DEF Board!ReadBoard
  <1>4. entries' \in [Sessions -> Entry]
    BY <1>3 DEF Entry
  <1>5. \A s \in Sessions : entries'[s] # None => entries'[s].put \in Board!Puts
    BY <1>4 DEF Entry
  <1> DEFINE answer == {entries'[s].put : s \in {x \in Sessions : entries'[x] # None}}
  <1>6. shown' = [shown EXCEPT ![r] = answer]
    BY DEF Board!ReadBoard
  <1>7. answer \subseteq Board!Puts
    BY <1>5
  <1> HIDE DEF answer
  <1>8. shown' \in [Readers -> SUBSET Board!Puts]
    BY <1>6, <1>7 DEF Board!TypeOK
  <1>9. loaded' \in [Readers -> 0 .. MaxBoardRevision]
    BY <1>1 DEF Board!TypeOK, Board!BoardConstants
  <1> QED
    BY <1>1, <1>2, <1>4, <1>8, <1>9 DEF Board!TypeOK, Entry

LEMMA BoardNextKeeps ==
  Board!BoardConstants /\ Board!TypeOK /\ [Board!Next]_(Board!vars) => Board!TypeOK'
  <1> SUFFICES ASSUME Board!BoardConstants, Board!TypeOK, [Board!Next]_(Board!vars) PROVE Board!TypeOK'
    OBVIOUS
  <1>1. CASE Board!Edit \/ Board!Lose
    BY <1>1, EditKeeps, LoseKeeps
  <1>2. ASSUME NEW s \in Sessions,
               Board!Reopen(s) \/ Board!Move(s) \/ Board!Close(s) \/ Board!Publish(s) \/ Board!Age(s)
        PROVE  Board!TypeOK'
    BY <1>2, SessionsKeep
  <1>3. ASSUME NEW p \in Board!Puts, Board!Validate(p) \/ Board!Store(p) PROVE Board!TypeOK'
    BY <1>3, PutsKeep
  <1>4. ASSUME NEW r \in Readers, Board!ReadDocument(r) \/ Board!ReadBoard(r) PROVE Board!TypeOK'
    BY <1>4, ReadDocumentKeeps, ReadBoardKeeps
  <1>5. CASE UNCHANGED Board!vars
    BY <1>5 DEF Board!vars, Board!TypeOK, Board!Puts, Board!revision
  <1> QED
    BY <1>1, <1>2, <1>3, <1>4, <1>5 DEF Board!Next

--------------------------------------------------------------------------------
(* The mindmap's follower.  Why the layers an incremental load leaves out need  *)
(* no computing: the notices on the wire cover every revision the studio has    *)
(* not heard of (WireInv), a studio no load of which raced has heard of exactly *)
(* what it shows (OrderInv), so that the notice a load answers names every      *)
(* change between the snapshot shown and the end of the notice (LoadInv).       *)

\* The revision the studio has heard of when the i-th notice on the wire arrives.
Heard(i) == IF i = 1 THEN streamed ELSE wire[i - 1].revision

\* Each notice names what changed between the one before it and its own end; the
\* server's cursor is not ahead of what was sent.
WireInv ==
    /\ stream = None => wire = <<>>
    /\ stream # None =>
          /\ snap # 0 /\ stream.seen <= Follower!version
          /\ stream.cursor <= IF wire = <<>> THEN streamed ELSE wire[Len(wire)].revision
    /\ \A i \in DOMAIN wire :
          /\ wire[i].revision <= Follower!version /\ wire[i].upto <= Follower!version
          /\ \A v \in Heard(i) + 1 .. wire[i].upto : changes[v - 1] \in wire[i].kinds

\* The studio shows nothing newer than it has heard of, and nothing older unless a
\* load is under way or loads raced.
OrderInv ==
    /\ snap <= streamed /\ streamed <= Follower!version
    /\ load # None => load.at <= Follower!version /\ (load.at # 0 => streamed <= load.at)
    /\ ~raced /\ load = None => streamed = snap

\* The layers an incremental load leaves out are those that nothing changed from
\* the snapshot shown to the end of the notice.
LoadInv ==
    load # None /\ load.layers # Follower!Layers =>
       /\ load.upto <= Follower!version
       /\ snap # 0
       /\ ~raced => \A layer \in Follower!Layers \ load.layers, v \in snap + 1 .. load.upto :
                 ~Follower!Affects(changes[v - 1], layer)

FollowerInv == Follower!TypeOK /\ WireInv /\ OrderInv /\ LoadInv /\ Follower!StaleOnlyAfterARace

Notices ==
    [revision : 1 .. MaxMapRevision, kinds : SUBSET Follower!Kinds, upto : 1 .. MaxMapRevision]

LEMMA WireType ==
  ASSUME wire \in Seq(Notices), NEW i \in DOMAIN wire
  PROVE  /\ wire[i] \in Notices
         /\ wire[i].revision \in 1 .. MaxMapRevision /\ wire[i].upto \in 1 .. MaxMapRevision
         /\ i \in 1 .. Len(wire) /\ Len(wire) \in Nat
  <1>1. DOMAIN wire = 1 .. Len(wire) /\ Len(wire) \in Nat
    BY LenProperties
  <1>2. wire[i] \in Notices
    BY <1>1, ElementOfSeq
  <1> QED
    BY <1>1, <1>2 DEF Notices

LEMMA FollowerInit == ASSUME Follower!FollowerConstants, Follower!Init PROVE FollowerInv
  <1> USE DEF Follower!FollowerConstants, Follower!Init
  <1>1. changes \in Seq(Follower!Kinds) /\ wire = <<>> /\ Follower!version = 1
    BY DEF Follower!version
  <1>2. /\ load \in Follower!Loads /\ load # None /\ load.layers = Follower!Layers
        /\ load.at = 0
    BY DEF Follower!Full, Follower!Loads
  <1>3. Follower!TypeOK
    <2>1. stream \in {None} \cup Follower!Streams /\ load \in {None} \cup Follower!Loads
      BY <1>2
    <2>2. built \in [Follower!Layers -> 0 .. MaxMapRevision]
      OBVIOUS
    <2>3. {awaiting, failed, raced} \subseteq BOOLEAN
      BY Zenon
    <2> QED
      BY <1>1, <2>1, <2>2, <2>3 DEF Follower!TypeOK
  <1>4. WireInv /\ OrderInv /\ LoadInv
    BY <1>1, <1>2 DEF WireInv, OrderInv, LoadInv
  <1>5. Follower!StaleOnlyAfterARace
    BY <1>1 DEF Follower!StaleOnlyAfterARace
  <1> QED
    BY <1>3, <1>4, <1>5 DEF FollowerInv

\* A transaction adds a change and leaves the earlier ones alone.
Grown ==
    /\ Follower!version <= Follower!version'
    /\ \A v \in 2 .. Follower!version : changes'[v - 1] = changes[v - 1]

LEMMA AppendGrows ==
  ASSUME changes \in Seq(Follower!Kinds), Follower!version < MaxMapRevision,
         MaxMapRevision \in Nat,
         NEW kind \in Follower!Kinds, changes' = Append(changes, kind)
  PROVE  Grown /\ changes' \in Seq(Follower!Kinds) /\ Follower!version' <= MaxMapRevision
  <1>1. /\ Len(changes) \in Nat /\ Len(changes') = Len(changes) + 1
        /\ changes' \in Seq(Follower!Kinds)
    BY AppendProperties, LenProperties
  <1>2. \A i \in 1 .. Len(changes) : changes'[i] = changes[i]
    BY AppendProperties, LenProperties
  <1> QED
    BY <1>1, <1>2 DEF Grown, Follower!version

LEMMA VersionType ==
  ASSUME Follower!FollowerConstants, Follower!TypeOK
  PROVE  Follower!version \in 1 .. MaxMapRevision /\ MaxMapRevision \in Nat
  BY LenProperties DEF Follower!TypeOK, Follower!version, Follower!FollowerConstants

\* Transactions spoil nothing the studio holds.
LEMMA GrowthKeeps ==
  ASSUME Follower!FollowerConstants, FollowerInv, Grown, Follower!TypeOK',
         UNCHANGED <<stream, wire, snap, built, streamed, load, raced>>
  PROVE  FollowerInv'
  <1> USE VersionType DEF FollowerInv
  <1>1. /\ Follower!version \in Nat /\ Follower!version' \in Nat
        /\ Follower!version <= Follower!version'
    <2>1. Len(changes') \in Nat
      BY LenProperties DEF Follower!TypeOK
    <2> QED
      BY <2>1 DEF Grown, Follower!version
  <1>2. WireInv'
    <2>1. (stream = None => wire = <<>>)' 
      BY DEF WireInv
    <2>2. (stream # None =>
          /\ snap # 0 /\ stream.seen <= Follower!version
          /\ stream.cursor <= IF wire = <<>> THEN streamed ELSE wire[Len(wire)].revision)'
      <3>1. stream # None => stream.seen \in Nat
        BY DEF Follower!TypeOK, Follower!Streams
      <3> QED
        BY <1>1, <3>1 DEF WireInv
    <2>3. ASSUME NEW i \in DOMAIN wire
          PROVE  /\ wire[i].revision <= Follower!version' /\ wire[i].upto <= Follower!version'
                 /\ \A v \in Heard(i)' + 1 .. wire[i].upto : changes'[v - 1] \in wire[i].kinds
      <3>0. wire \in Seq(Notices)
        BY DEF Follower!TypeOK, Notices
      <3>1. /\ wire[i].revision \in 1 .. MaxMapRevision
            /\ wire[i].upto \in 1 .. MaxMapRevision
        BY <3>0, WireType
      <3>2. wire[i].revision <= Follower!version /\ wire[i].upto <= Follower!version
        BY DEF WireInv
      <3>3. Heard(i)' = Heard(i)
        BY DEF Heard
      <3>4. Heard(i) \in Nat /\ Heard(i) >= 1
        <4>1. CASE i = 1
          <5>1. streamed \in Nat /\ snap \in Nat /\ snap <= streamed
            BY DEF Follower!TypeOK, OrderInv
          <5>2. snap # 0
            BY LenProperties DEF Follower!TypeOK, WireInv
          <5> QED
            BY <5>1, <5>2, <4>1 DEF Heard
        <4>2. CASE i # 1
          <5>1. i - 1 \in DOMAIN wire
            BY <4>2, <3>0, LenProperties
          <5>2. wire[i - 1].revision \in 1 .. MaxMapRevision
            BY <5>1, <3>0, WireType
          <5> QED
            BY <4>2, <5>2 DEF Heard
        <4> QED
          BY <4>1, <4>2
      <3>5. \A v \in Heard(i) + 1 .. wire[i].upto : v \in 2 .. Follower!version
        BY <3>1, <3>2, <3>4, <1>1
      <3>6. \A v \in Heard(i) + 1 .. wire[i].upto : changes'[v - 1] \in wire[i].kinds
        BY <3>5 DEF WireInv, Grown
      <3> QED
        BY <1>1, <3>1, <3>2, <3>3, <3>6
    <2> QED
      BY <2>1, <2>2, <2>3 DEF WireInv
  <1>3. OrderInv'
    BY <1>1 DEF OrderInv, Follower!TypeOK, Follower!Loads
  <1>4. LoadInv'
    <2> SUFFICES ASSUME load # None, load.layers # Follower!Layers
                 PROVE  /\ load.upto <= Follower!version'
                        /\ snap # 0
                        /\ ~raced =>
                              \A layer \in Follower!Layers \ load.layers,
                                 v \in snap + 1 .. load.upto :
                                        ~Follower!Affects(changes'[v - 1], layer)
      BY DEF LoadInv
    <2>1. load.upto \in Nat /\ snap \in Nat
      BY DEF Follower!TypeOK, Follower!Loads
    <2>2. load.upto <= Follower!version /\ snap # 0
      BY DEF LoadInv
    <2>3. \A v \in snap + 1 .. load.upto : changes'[v - 1] = changes[v - 1]
      BY <2>1, <2>2, <1>1 DEF Grown
    <2> QED
      BY <1>1, <2>1, <2>2, <2>3 DEF LoadInv
  <1>5. Follower!StaleOnlyAfterARace'
    <2>1. \A v \in 2 .. snap : changes'[v - 1] = changes[v - 1]
      BY <1>1 DEF Grown, OrderInv, Follower!TypeOK
    <2> QED
      BY <2>1 DEF Follower!StaleOnlyAfterARace
  <1> QED
    BY <1>2, <1>3, <1>4, <1>5

LEMMA MapCommitKeeps ==
  ASSUME Follower!FollowerConstants, FollowerInv, Follower!Commit
  PROVE FollowerInv'
  <1>1. PICK kind \in Follower!Kinds : changes' = Append(changes, kind)
    BY DEF Follower!Commit
  <1>2. Grown /\ changes' \in Seq(Follower!Kinds) /\ Follower!version' <= MaxMapRevision
    BY <1>1, AppendGrows, VersionType DEF Follower!Commit, FollowerInv, Follower!TypeOK
  <1>3. Follower!TypeOK'
    BY <1>2 DEF Follower!Commit, FollowerInv, Follower!TypeOK
  <1> QED
    BY <1>2, <1>3, GrowthKeeps DEF Follower!Commit

LEMMA SubmitKeeps ==
  ASSUME Follower!FollowerConstants, FollowerInv, Follower!Submit
  PROVE FollowerInv'
  <1>1. Grown /\ changes' \in Seq(Follower!Kinds) /\ Follower!version' <= MaxMapRevision
    <2>1. CASE UNCHANGED changes
      BY <2>1, VersionType DEF FollowerInv, Follower!TypeOK, Grown, Follower!version
    <2>2. CASE /\ Follower!version < MaxMapRevision
               /\ \E kind \in Follower!Kinds : changes' = Append(changes, kind)
      BY <2>2, AppendGrows, VersionType DEF FollowerInv, Follower!TypeOK
    <2> QED
      BY <2>1, <2>2 DEF Follower!Submit
  <1>2. faults' \in 0 .. MaxFaults
    BY DEF Follower!Submit, Follower!Fault, FollowerInv, Follower!TypeOK,
       Follower!FollowerConstants
  <1>3. {awaiting', failed', raced'} \subseteq BOOLEAN
    <2>1. {awaiting, failed, raced} \subseteq BOOLEAN
      BY DEF FollowerInv, Follower!TypeOK
    <2>2. awaiting' \in {awaiting, TRUE} /\ failed' \in {TRUE, FALSE} /\ raced' = raced
      BY DEF Follower!Submit
    <2> QED
      BY <2>1, <2>2, Zenon
  <1>4. Follower!TypeOK'
    BY <1>1, <1>2, <1>3 DEF Follower!Submit, FollowerInv, Follower!TypeOK
  <1> QED
    BY <1>1, <1>4, GrowthKeeps DEF Follower!Submit

\* What the server's end and the wire do leaves the layers alone.
LEMMA StreamKeeps ==
  ASSUME Follower!FollowerConstants, FollowerInv, Follower!TypeOK', WireInv',
         UNCHANGED <<changes, snap, built, streamed, load, raced>>
  PROVE  FollowerInv'
  <1>1. Follower!version' = Follower!version
    BY DEF Follower!version
  <1>2. OrderInv' /\ LoadInv' /\ Follower!StaleOnlyAfterARace'
    BY <1>1 DEF FollowerInv, OrderInv, LoadInv, Follower!StaleOnlyAfterARace
  <1> QED
    BY <1>2 DEF FollowerInv

LEMMA ConnectKeeps ==
  ASSUME Follower!FollowerConstants, FollowerInv, Follower!Connect
  PROVE FollowerInv'
  <1>0. /\ Follower!version' = Follower!version
        /\ Follower!version \in 1 .. MaxMapRevision /\ MaxMapRevision \in Nat
    BY VersionType DEF Follower!Connect, Follower!version, FollowerInv
  <1>1. snap \in 1 .. MaxMapRevision /\ snap <= streamed /\ wire = <<>>
    BY <1>0 DEF Follower!Connect, FollowerInv, Follower!TypeOK, OrderInv, WireInv
  <1>2. stream' \in Follower!Streams /\ stream'.cursor = snap /\ stream'.seen = 0
    BY <1>0, <1>1 DEF Follower!Connect, Follower!Since, Follower!Streams
  <1>3. Follower!TypeOK'
    BY <1>0, <1>2 DEF Follower!Connect, FollowerInv, Follower!TypeOK
  <1>4. WireInv'
    BY <1>0, <1>1, <1>2 DEF Follower!Connect, WireInv, Follower!FollowerConstants
  <1> QED
    BY <1>3, <1>4, StreamKeeps DEF Follower!Connect

LEMMA PollVersionKeeps ==
  ASSUME Follower!FollowerConstants, FollowerInv, Follower!PollVersion
  PROVE FollowerInv'
  <1>0. /\ Follower!version' = Follower!version
        /\ Follower!version \in 1 .. MaxMapRevision /\ MaxMapRevision \in Nat
    BY VersionType DEF Follower!PollVersion, Follower!version, FollowerInv
  <1>1. stream \in Follower!Streams
    BY DEF Follower!PollVersion, FollowerInv, Follower!TypeOK
  <1>2. /\ stream' \in Follower!Streams /\ stream'.cursor = stream.cursor
        /\ stream'.seen = Follower!version
    BY <1>0, <1>1 DEF Follower!PollVersion, Follower!Streams
  <1>3. Follower!TypeOK'
    BY <1>0, <1>2 DEF Follower!PollVersion, FollowerInv, Follower!TypeOK
  <1>4. \A i : Heard(i)' = Heard(i)
    BY DEF Follower!PollVersion, Heard
  <1>5. WireInv'
    BY <1>0, <1>1, <1>2, <1>4 DEF Follower!PollVersion, WireInv,
       Follower!FollowerConstants, FollowerInv
  <1> QED
    BY <1>3, <1>5, StreamKeeps DEF Follower!PollVersion

LEMMA DropStreamKeeps ==
  ASSUME Follower!FollowerConstants, FollowerInv, Follower!DropStream
  PROVE FollowerInv'
  <1>0. Follower!version' = Follower!version
    BY DEF Follower!DropStream, Follower!version
  <1>1. Follower!TypeOK'
    BY <1>0 DEF Follower!DropStream, FollowerInv, Follower!TypeOK, Follower!Fault,
       Follower!FollowerConstants
  <1>2. WireInv'
    BY DEF Follower!DropStream, WireInv
  <1> QED
    BY <1>1, <1>2, StreamKeeps DEF Follower!DropStream

LEMMA SummariseKeeps ==
  ASSUME Follower!FollowerConstants, FollowerInv, Follower!Summarise
  PROVE FollowerInv'
  <1> DEFINE last   == Follower!Least(Follower!version, stream.cursor + SummaryLimit)
             kinds  == {changes[v - 1] : v \in stream.cursor + 1 .. last}
             notice == [revision |-> stream.seen, kinds |-> kinds, upto |-> last]
  <1>0. /\ Follower!version' = Follower!version
        /\ Follower!version \in 1 .. MaxMapRevision /\ MaxMapRevision \in Nat
    BY VersionType DEF Follower!Summarise, Follower!version, FollowerInv
  <1>1. /\ stream \in Follower!Streams /\ stream # None /\ stream.seen # 0
        /\ stream.seen <= Follower!version
    BY DEF Follower!Summarise, FollowerInv, Follower!TypeOK, WireInv
  <1>2. stream.cursor \in 1 .. MaxMapRevision /\ stream.seen \in 1 .. MaxMapRevision
    BY <1>0, <1>1 DEF Follower!Streams
  <1>3. last \in 1 .. MaxMapRevision /\ last <= Follower!version
    BY <1>0, <1>2 DEF Follower!Least, Follower!FollowerConstants
  <1>4. kinds \in SUBSET Follower!Kinds
    <2> SUFFICES ASSUME NEW v \in stream.cursor + 1 .. last PROVE changes[v - 1] \in Follower!Kinds
      OBVIOUS
    <2>1. v - 1 \in 1 .. Len(changes)
      BY <1>2, <1>3, <1>0 DEF Follower!version
    <2> QED
      BY <2>1, ElementOfSeq DEF FollowerInv, Follower!TypeOK
  <1>5. notice \in Notices
    BY <1>2, <1>3, <1>4 DEF Notices
  <1>6. wire \in Seq(Notices) /\ wire' = Append(wire, notice)
    BY DEF Follower!Summarise, FollowerInv, Follower!TypeOK, Notices
  <1>7. Len(wire) \in Nat /\ DOMAIN wire = 1 .. Len(wire)
    BY <1>6, LenProperties
  <1>8. /\ wire' \in Seq(Notices) /\ wire' # <<>> /\ Len(wire') = Len(wire) + 1
        /\ \A i \in 1 .. Len(wire) : wire'[i] = wire[i]
        /\ wire'[Len(wire) + 1] = notice
    BY <1>5, <1>6, AppendProperties
  <1>9. DOMAIN wire' = 1 .. Len(wire) + 1
    BY <1>8, LenProperties
  <1>10. /\ stream' \in Follower!Streams /\ stream'.cursor = stream.seen
         /\ stream'.seen = 0
    BY <1>0, <1>2 DEF Follower!Summarise, Follower!Streams
  <1>11. Follower!TypeOK'
    BY <1>0, <1>8, <1>10 DEF Follower!Summarise, FollowerInv, Follower!TypeOK, Notices
  <1>12. WireInv'
    <2>1. (stream # None =>
          /\ snap # 0 /\ stream.seen <= Follower!version
          /\ stream.cursor <= IF wire = <<>> THEN streamed ELSE wire[Len(wire)].revision)'
      BY <1>0, <1>1, <1>2, <1>7, <1>8, <1>10 DEF FollowerInv, WireInv, Follower!Summarise
    <2>2. ASSUME NEW i \in DOMAIN wire'
          PROVE  /\ wire'[i].revision <= Follower!version' /\ wire'[i].upto <= Follower!version'
                 /\ \A v \in Heard(i)' + 1 .. wire'[i].upto : changes'[v - 1] \in wire'[i].kinds
      <3>1. CASE i \in 1 .. Len(wire)
        <4>1. Heard(i)' = Heard(i)
          <5>1. i # 1 => i - 1 \in 1 .. Len(wire)
            BY <1>7, <3>1
          <5> QED
            BY <5>1, <1>8 DEF Heard, Follower!Summarise
        <4>2. wire'[i] = wire[i] /\ i \in DOMAIN wire
          BY <3>1, <1>7, <1>8
        <4> QED
          BY <1>0, <4>1, <4>2 DEF FollowerInv, WireInv, Follower!Summarise
      <3>2. CASE i = Len(wire) + 1
        <4>1. wire'[i] = notice
          BY <3>2, <1>8
        <4>2. stream.cursor <= Heard(i)' /\ Heard(i)' \in Nat
          <5>1. CASE wire = <<>>
            <6>1. Len(wire) = 0
              BY <5>1
            <6> QED
              BY <5>1, <6>1, <3>2, <1>1 DEF Heard, FollowerInv, WireInv,
                 Follower!Summarise, Follower!TypeOK
          <5>2. CASE wire # <<>>
            <6>1. Len(wire) \in 1 .. Len(wire)
              BY <5>2, <1>6, <1>7, EmptySeq
            <6>2. Heard(i)' = wire[Len(wire)].revision
              BY <6>1, <3>2, <1>7, <1>8 DEF Heard
            <6>3. wire[Len(wire)].revision \in 1 .. MaxMapRevision
              BY <6>1, <1>6, <1>7, WireType
            <6> QED
              BY <5>2, <6>2, <6>3, <1>0, <1>1 DEF FollowerInv, WireInv
          <5> QED
            BY <5>1, <5>2
        <4>3. \A v \in Heard(i)' + 1 .. last : v \in stream.cursor + 1 .. last
          BY <4>2, <1>2, <1>3
        <4> QED
          BY <4>1, <4>3, <1>0, <1>1, <1>3 DEF Follower!Summarise
      <3> QED
        BY <3>1, <3>2, <1>7, <1>9
    <2> QED
      BY <2>1, <2>2, <1>0, <1>8, <1>10 DEF WireInv, Follower!FollowerConstants
  <1> QED
    BY <1>11, <1>12, StreamKeeps DEF Follower!Summarise

\* A studio's load stands on the snapshot shown until it is fetched; nothing it
\* fetches is older than what the studio has heard of.
LEMMA FetchKeeps ==
  ASSUME Follower!FollowerConstants, FollowerInv, Follower!Fetch
  PROVE FollowerInv'
  <1>0. /\ Follower!version' = Follower!version
        /\ Follower!version \in 1 .. MaxMapRevision /\ MaxMapRevision \in Nat
    BY VersionType DEF Follower!Fetch, Follower!version, FollowerInv
  <1>1. load \in Follower!Loads /\ load # None
    BY DEF Follower!Fetch, FollowerInv, Follower!TypeOK
  <1>2. /\ load' \in Follower!Loads /\ load'.at = Follower!version
        /\ load'.layers = load.layers /\ load'.upto = load.upto
    BY <1>0, <1>1 DEF Follower!Fetch, Follower!Loads
  <1>3. Follower!TypeOK'
    BY <1>0, <1>2 DEF Follower!Fetch, FollowerInv, Follower!TypeOK
  <1>4. WireInv'
    BY <1>0 DEF Follower!Fetch, FollowerInv, WireInv, Heard
  <1>5. OrderInv'
    BY <1>0, <1>1, <1>2 DEF Follower!Fetch, FollowerInv, OrderInv, Follower!FollowerConstants
  <1>6. LoadInv'
    BY <1>0, <1>1, <1>2 DEF Follower!Fetch, FollowerInv, LoadInv
  <1>7. Follower!StaleOnlyAfterARace'
    BY DEF Follower!Fetch, FollowerInv, Follower!StaleOnlyAfterARace
  <1> QED
    BY <1>3, <1>4, <1>5, <1>6, <1>7 DEF FollowerInv

LEMMA FailLoadKeeps ==
  ASSUME Follower!FollowerConstants, FollowerInv, Follower!FailLoad
  PROVE FollowerInv'
  <1>0. Follower!version' = Follower!version
    BY DEF Follower!FailLoad, Follower!version
  <1>1. {awaiting', failed', raced'} \subseteq BOOLEAN
    <2>1. {awaiting, failed, raced} \subseteq BOOLEAN
      BY DEF FollowerInv, Follower!TypeOK
    <2> QED
      BY <2>1, Zenon DEF Follower!FailLoad
  <1>2. Follower!TypeOK'
    BY <1>0, <1>1 DEF Follower!FailLoad, FollowerInv, Follower!TypeOK, Follower!Fault,
       Follower!FollowerConstants
  <1>3. WireInv'
    BY <1>0 DEF Follower!FailLoad, FollowerInv, WireInv, Heard
  <1>4. OrderInv' /\ LoadInv' /\ Follower!StaleOnlyAfterARace'
    BY <1>0 DEF Follower!FailLoad, FollowerInv, OrderInv, LoadInv,
       Follower!StaleOnlyAfterARace
  <1> QED
    BY <1>2, <1>3, <1>4 DEF FollowerInv

LEMMA ReloadKeeps ==
  ASSUME Follower!FollowerConstants, FollowerInv, Follower!Reload
  PROVE FollowerInv'
  <1>0. /\ Follower!version' = Follower!version
        /\ Follower!version \in 1 .. MaxMapRevision /\ MaxMapRevision \in Nat
    BY VersionType DEF Follower!Reload, Follower!version, FollowerInv
  <1>1. /\ load' = Follower!Full /\ load' \in Follower!Loads
        /\ load'.layers = Follower!Layers /\ load'.at = 0
    BY <1>0 DEF Follower!Reload, Follower!StartLoad, Follower!Full, Follower!Loads
  <1>2. raced' = raced
    <2>1. raced \in BOOLEAN
      BY DEF FollowerInv, Follower!TypeOK
    <2>2. /\ raced' = (raced \/ (load # None /\ Follower!Full.layers # Follower!Layers))
          /\ Follower!Full.layers = Follower!Layers
      BY DEF Follower!Reload, Follower!StartLoad, Follower!Full
    <2> QED
      BY <2>1, <2>2, Zenon
  <1>3. {awaiting', failed', raced'} \subseteq BOOLEAN
    <2>1. {awaiting, failed, raced} \subseteq BOOLEAN
      BY DEF FollowerInv, Follower!TypeOK
    <2>2. awaiting' = FALSE /\ failed' = FALSE
      BY DEF Follower!Reload, Follower!StartLoad
    <2> QED
      BY <2>1, <2>2, <1>2, Zenon
  <1>4. Follower!TypeOK'
    BY <1>0, <1>1, <1>3 DEF Follower!Reload, FollowerInv, Follower!TypeOK
  <1>5. WireInv'
    BY <1>0 DEF Follower!Reload, FollowerInv, WireInv, Heard
  <1>6. OrderInv'
    BY <1>0, <1>1, <1>2 DEF Follower!Reload, FollowerInv, OrderInv, Follower!FollowerConstants
  <1>7. LoadInv' /\ Follower!StaleOnlyAfterARace'
    BY <1>0, <1>1, <1>2 DEF Follower!Reload, FollowerInv, LoadInv,
       Follower!StaleOnlyAfterARace
  <1> QED
    BY <1>4, <1>5, <1>6, <1>7 DEF FollowerInv

\* The layers a load leaves out are those no change of its notice affects.
LEMMA RecomputedCovers ==
  ASSUME NEW kinds \in SUBSET Follower!Kinds
  PROVE  /\ Follower!Recomputed(kinds) \in SUBSET Follower!Layers
         /\ \A kind \in kinds, layer \in Follower!Layers \ Follower!Recomputed(kinds) :
               ~Follower!Affects(kind, layer)
  BY DEF Follower!Recomputed, Follower!Layers, Follower!Kinds

LEMMA DeliverKeeps ==
  ASSUME Follower!FollowerConstants, FollowerInv, Follower!Deliver
  PROVE FollowerInv'
  <1> DEFINE notice == Head(wire)
             job    == [layers |-> Follower!Recomputed(notice.kinds), upto |-> notice.upto, at |-> 0]
  <1>0. /\ Follower!version' = Follower!version
        /\ Follower!version \in 1 .. MaxMapRevision /\ MaxMapRevision \in Nat
    BY VersionType DEF Follower!Deliver, Follower!version, FollowerInv
  <1>1. wire \in Seq(Notices) /\ wire # <<>> /\ wire' = Tail(wire)
    BY DEF Follower!Deliver, FollowerInv, Follower!TypeOK, Notices
  <1>2. Len(wire) \in Nat \ {0} /\ DOMAIN wire = 1 .. Len(wire)
    BY <1>1, LenProperties, EmptySeq
  <1>3. /\ wire' \in Seq(Notices) /\ Len(wire') = Len(wire) - 1
        /\ \A i \in 1 .. Len(wire') : wire'[i] = wire[i + 1]
    BY <1>1, HeadTailProperties
  <1>4. DOMAIN wire' = 1 .. Len(wire')
    BY <1>3, LenProperties
  <1>5. notice = wire[1] /\ notice \in Notices
    BY <1>1, <1>2, HeadTailProperties
  <1>6. /\ notice.revision \in 1 .. MaxMapRevision /\ notice.upto \in 1 .. MaxMapRevision
        /\ notice.kinds \in SUBSET Follower!Kinds
    BY <1>5 DEF Notices
  <1>7. notice.revision <= Follower!version /\ notice.upto <= Follower!version
    BY <1>2, <1>5 DEF FollowerInv, WireInv
  <1>8. /\ streamed \in Nat /\ snap \in Nat /\ snap <= streamed
        /\ streamed <= Follower!version /\ snap # 0
    BY <1>1 DEF FollowerInv, Follower!TypeOK, OrderInv, WireInv
  <1>9. /\ streamed' \in 0 .. Follower!version /\ streamed <= streamed'
        /\ notice.revision <= streamed'
    BY <1>0, <1>6, <1>7, <1>8 DEF Follower!Deliver
  <1>10. WireInv'
    <2>1. ASSUME NEW i \in DOMAIN wire'
          PROVE  /\ wire'[i].revision <= Follower!version' /\ wire'[i].upto <= Follower!version'
                 /\ \A v \in Heard(i)' + 1 .. wire'[i].upto : changes'[v - 1] \in wire'[i].kinds
      <3>1. i + 1 \in DOMAIN wire /\ wire'[i] = wire[i + 1] /\ i \in Nat \ {0}
        BY <1>2, <1>3, <1>4
      <3>2. Heard(i + 1) <= Heard(i)' /\ Heard(i + 1) \in Nat /\ Heard(i)' \in Nat
        <4>1. Heard(i + 1) = wire[i].revision
          BY <3>1 DEF Heard
        <4>2. wire[i].revision \in 1 .. MaxMapRevision
          BY <3>1, <1>1, <1>2, WireType
        <4>3. CASE i = 1
          BY <4>1, <4>2, <4>3, <1>5, <1>9, <1>0 DEF Heard
        <4>4. CASE i # 1
          <5>1. wire'[i - 1] = wire[i]
            BY <4>4, <3>1, <1>2, <1>3, <1>4
          <5> QED
            BY <5>1, <4>1, <4>2, <4>4, <1>0 DEF Heard
        <4> QED
          BY <4>3, <4>4
      <3>3. wire[i + 1].upto \in 1 .. MaxMapRevision
        BY <3>1, <1>1, WireType
      <3>4. \A v \in Heard(i)' + 1 .. wire[i + 1].upto : v \in Heard(i + 1) + 1 .. wire[i + 1].upto
        BY <3>2, <3>3, <1>0
      <3>5. \A v \in Heard(i + 1) + 1 .. wire[i + 1].upto : changes[v - 1] \in wire[i + 1].kinds
        BY <3>1 DEF FollowerInv, WireInv
      <3>6. /\ wire[i + 1].revision <= Follower!version
            /\ wire[i + 1].upto <= Follower!version
        BY <3>1 DEF FollowerInv, WireInv
      <3>7. changes' = changes
        BY DEF Follower!Deliver
      <3> QED
        BY <3>1, <3>4, <3>5, <3>6, <3>7, <1>0
    <2>2. stream # None /\ stream' = stream /\ snap' = snap
      BY <1>1 DEF Follower!Deliver, FollowerInv, WireInv
    <2>3. (/\ snap # 0 /\ stream.seen <= Follower!version
           /\ stream.cursor <= IF wire = <<>> THEN streamed ELSE wire[Len(wire)].revision)'
      <3>1. stream.cursor <= wire[Len(wire)].revision /\ stream.seen <= Follower!version
        BY <2>2, <1>1 DEF FollowerInv, WireInv
      <3>2. stream.cursor \in Nat
        BY <2>2 DEF FollowerInv, Follower!TypeOK, Follower!Streams
      <3>3. CASE wire' = <<>>
        <4>0. Len(wire') = 0
          BY <3>3
        <4>9. Len(wire) \in Nat /\ Len(wire') = Len(wire) - 1
          BY <1>2, <1>3
        <4>1. Len(wire) = 1
          BY <4>0, <4>9
        <4> QED
          BY <4>1, <3>1, <3>2, <3>3, <2>2, <1>0, <1>5, <1>6, <1>8, <1>9
      <3>4. CASE wire' # <<>>
        <4>1. Len(wire') \in 1 .. Len(wire')
          BY <3>4, <1>2, <1>3, EmptySeq
        <4>2. wire'[Len(wire')] = wire[Len(wire)]
          BY <4>1, <1>2, <1>3
        <4> QED
          BY <4>2, <3>1, <3>4, <2>2, <1>0, <1>8
      <3> QED
        BY <3>3, <3>4
    <2> QED
      BY <2>1, <2>2, <2>3 DEF WireInv
  <1>11. CASE notice.revision <= streamed /\ UNCHANGED <<streamed, load, failed, raced>>
    <2>1. Follower!TypeOK'
      BY <1>0, <1>3, <1>11 DEF Follower!Deliver, FollowerInv, Follower!TypeOK, Notices
    <2>2. OrderInv' /\ LoadInv' /\ Follower!StaleOnlyAfterARace'
      BY <1>0, <1>11 DEF Follower!Deliver, FollowerInv, OrderInv, LoadInv,
         Follower!StaleOnlyAfterARace
    <2> QED
      BY <2>1, <2>2, <1>10 DEF FollowerInv
  <1>12. CASE notice.revision > streamed /\ streamed' = notice.revision /\ Follower!StartLoad(job)
    <2>1. /\ load' = job /\ failed' = FALSE
          /\ raced' = (raced \/ (load # None /\ job.layers # Follower!Layers))
      BY <1>12 DEF Follower!StartLoad
    <2>2. /\ job \in Follower!Loads /\ job # None /\ job.at = 0
          /\ job.layers = Follower!Recomputed(notice.kinds) /\ job.upto = notice.upto
      BY <1>0, <1>6, RecomputedCovers DEF Follower!Loads, Follower!FollowerConstants
    <2>3. {awaiting', failed', raced'} \subseteq BOOLEAN
      <3>1. {awaiting, failed, raced} \subseteq BOOLEAN /\ awaiting' = awaiting
        BY DEF FollowerInv, Follower!TypeOK, Follower!Deliver
      <3>2. raced' \in BOOLEAN
        BY <2>1
      <3> QED
        BY <3>1, <3>2, <2>1, Zenon
    <2>4. Follower!TypeOK'
      BY <1>0, <1>3, <1>9, <2>1, <2>2, <2>3 DEF Follower!Deliver, FollowerInv,
         Follower!TypeOK, Notices
    <2>5. OrderInv'
      BY <1>0, <1>8, <1>9, <2>1, <2>2 DEF Follower!Deliver, FollowerInv, OrderInv
    <2>6. LoadInv'
      <3> SUFFICES ASSUME job.layers # Follower!Layers
                   PROVE  /\ notice.upto <= Follower!version
                          /\ ~raced' =>
                                \A layer \in Follower!Layers \ job.layers,
                                   v \in snap + 1 .. notice.upto :
                                           ~Follower!Affects(changes[v - 1], layer)
        BY <1>0, <1>8, <2>1, <2>2 DEF LoadInv, Follower!Deliver
      <3>1. ASSUME ~raced', NEW layer \in Follower!Layers \ job.layers,
                   NEW v \in snap + 1 .. notice.upto
            PROVE  ~Follower!Affects(changes[v - 1], layer)
        <4>1. ~raced /\ load = None
          BY <3>1, <2>1
        <4>2. streamed = snap
          BY <4>1 DEF FollowerInv, OrderInv
        <4>3. \A w \in streamed + 1 .. notice.upto : changes[w - 1] \in notice.kinds
          BY <1>2, <1>5 DEF FollowerInv, WireInv, Heard
        <4>4. changes[v - 1] \in notice.kinds
          BY <4>2, <4>3, <3>1
        <4> QED
          BY <4>4, <2>2, <1>6, RecomputedCovers, <3>1
      <3> QED
        BY <3>1, <1>7
    <2>7. Follower!StaleOnlyAfterARace'
      BY <2>1 DEF Follower!Deliver, FollowerInv, Follower!StaleOnlyAfterARace
    <2> QED
      BY <2>4, <2>5, <2>6, <2>7, <1>10 DEF FollowerInv
  <1> QED
    BY <1>11, <1>12 DEF Follower!Deliver

LEMMA FinishLoadKeeps ==
  ASSUME Follower!FollowerConstants, FollowerInv, Follower!FinishLoad
  PROVE FollowerInv'
  <1>0. /\ Follower!version' = Follower!version
        /\ Follower!version \in 1 .. MaxMapRevision /\ MaxMapRevision \in Nat
    BY VersionType DEF Follower!FinishLoad, Follower!version, FollowerInv
  <1>1. load \in Follower!Loads /\ load # None /\ load.at # 0
    BY DEF Follower!FinishLoad, FollowerInv, Follower!TypeOK
  <1>2. /\ load.at \in 1 .. Follower!version /\ streamed <= load.at /\ snap <= streamed
        /\ streamed \in Nat /\ snap \in Nat
    BY <1>0, <1>1 DEF FollowerInv, Follower!TypeOK, OrderInv, Follower!Loads
  <1>3. snap' = load.at /\ streamed' = load.at /\ load' = None /\ changes' = changes
    BY DEF Follower!FinishLoad
  <1>4. /\ built' \in [Follower!Layers -> 0 .. MaxMapRevision]
        /\ \A layer \in Follower!Layers :
              built'[layer] = IF layer \in load.layers \/ snap = 0 THEN load.at ELSE built[layer]
    BY <1>0, <1>2 DEF Follower!FinishLoad, FollowerInv, Follower!TypeOK
  <1>5. /\ stream' \in {stream, None} /\ wire' \in {wire, <<>>}
        /\ stream' = None => wire' = <<>>
        /\ wire' # <<>> => wire' = wire /\ stream' = stream
        /\ stream' # None => /\ stream' = stream /\ wire' = wire
                             /\ snap' = snap /\ streamed' = streamed
        /\ wire' # <<>> => streamed' = streamed
    BY <1>2, <1>3 DEF Follower!FinishLoad, FollowerInv, WireInv
  <1>6. raced' = IF load.layers = Follower!Layers \/ snap = 0 THEN FALSE
                 ELSE raced \/ load.at > load.upto
    BY DEF Follower!FinishLoad
  <1>7. {awaiting', failed', raced'} \subseteq BOOLEAN
    <2>1. {awaiting, failed, raced} \subseteq BOOLEAN
      BY DEF FollowerInv, Follower!TypeOK
    <2>2. raced' \in BOOLEAN
      BY <1>6
    <2>3. awaiting' = awaiting /\ failed' = failed
      BY DEF Follower!FinishLoad
    <2> QED
      BY <2>1, <2>2, <2>3, Zenon
  <1>8. Follower!TypeOK'
    <2>1. wire' \in Seq(Notices)
      <3>1. wire \in Seq(Notices) /\ <<>> \in Seq(Notices)
        BY DEF FollowerInv, Follower!TypeOK, Notices
      <3> QED
        BY <3>1, <1>5
    <2>2. stream' \in {None} \cup Follower!Streams
      BY <1>5 DEF FollowerInv, Follower!TypeOK
    <2>3. /\ changes' \in Seq(Follower!Kinds) /\ Follower!version' <= MaxMapRevision
          /\ faults' \in 0 .. MaxFaults
      BY <1>0, <1>3 DEF Follower!FinishLoad, FollowerInv, Follower!TypeOK
    <2>4. snap' \in 0 .. MaxMapRevision /\ streamed' \in 0 .. MaxMapRevision
      BY <1>0, <1>2, <1>3
    <2> QED
      BY <2>1, <2>2, <2>3, <2>4, <1>3, <1>4, <1>7 DEF Follower!TypeOK, Notices
  <1>9. WireInv'
    <2>1. (stream = None => wire = <<>>)'
      BY <1>5
    <2>2. (stream # None =>
             /\ snap # 0 /\ stream.seen <= Follower!version
             /\ stream.cursor <= IF wire = <<>> THEN streamed ELSE wire[Len(wire)].revision)'
      BY <1>0, <1>5 DEF FollowerInv, WireInv
    <2>3. CASE wire' = <<>>
      <3>1. DOMAIN wire' = {}
        BY <2>3
      <3> QED
        BY <2>1, <2>2, <3>1 DEF WireInv
    <2>4. CASE wire' # <<>>
      <3>1. wire' = wire /\ streamed' = streamed
        BY <2>4, <1>5
      <3>2. \A i : Heard(i)' = Heard(i)
        BY <3>1 DEF Heard
      <3>3. (\A i \in DOMAIN wire :
              /\ wire[i].revision <= Follower!version /\ wire[i].upto <= Follower!version
              /\ \A v \in Heard(i) + 1 .. wire[i].upto : changes[v - 1] \in wire[i].kinds)'
        BY <3>1, <3>2, <1>0, <1>3 DEF FollowerInv, WireInv
      <3> QED
        BY <2>1, <2>2, <3>3 DEF WireInv
    <2> QED
      BY <2>3, <2>4
  <1>10. OrderInv' /\ LoadInv'
    BY <1>0, <1>2, <1>3 DEF OrderInv, LoadInv
  <1>11. Follower!StaleOnlyAfterARace'
    <2> SUFFICES ASSUME ~raced', NEW layer \in Follower!Layers, NEW v \in 2 .. load.at,
                        v > built'[layer]
                 PROVE  ~Follower!Affects(changes[v - 1], layer)
      BY <1>3 DEF Follower!StaleOnlyAfterARace
    <2>1. built'[layer] = built[layer] /\ layer \notin load.layers /\ snap # 0
      BY <1>2, <1>4
    <2>2. load.layers # Follower!Layers
      BY <2>1
    <2>3. ~raced /\ ~(load.at > load.upto)
      BY <1>6, <2>1, <2>2
    <2>4. load.upto \in Nat /\ load.at <= load.upto
      BY <1>1, <1>2, <1>0, <2>3 DEF Follower!Loads
    <2>5. CASE v <= snap
      <3>1. v \in 2 .. snap /\ v > built[layer]
        BY <2>1, <2>5, <1>2
      <3> QED
        BY <3>1, <2>3 DEF FollowerInv, Follower!StaleOnlyAfterARace
    <2>6. CASE v > snap
      <3>1. v \in snap + 1 .. load.upto /\ layer \in Follower!Layers \ load.layers
        BY <2>1, <2>4, <2>6, <1>0, <1>2
      <3> QED
        BY <3>1, <1>1, <2>2, <2>3 DEF FollowerInv, LoadInv
    <2> QED
      BY <2>5, <2>6, <1>2
  <1> QED
    BY <1>8, <1>9, <1>10, <1>11 DEF FollowerInv

LEMMA FollowerNextKeeps ==
  ASSUME Follower!FollowerConstants, FollowerInv, [Follower!Next]_(Follower!vars)
  PROVE FollowerInv'
  <1>1. CASE Follower!Commit
    BY <1>1, MapCommitKeeps
  <1>2. CASE Follower!Connect
    BY <1>2, ConnectKeeps
  <1>3. CASE Follower!PollVersion
    BY <1>3, PollVersionKeeps
  <1>4. CASE Follower!Summarise
    BY <1>4, SummariseKeeps
  <1>5. CASE Follower!DropStream
    BY <1>5, DropStreamKeeps
  <1>6. CASE Follower!Deliver
    BY <1>6, DeliverKeeps
  <1>7. CASE Follower!Fetch
    BY <1>7, FetchKeeps
  <1>8. CASE Follower!FinishLoad
    BY <1>8, FinishLoadKeeps
  <1>9. CASE Follower!FailLoad
    BY <1>9, FailLoadKeeps
  <1>10. CASE Follower!Submit
    BY <1>10, SubmitKeeps
  <1>11. CASE Follower!Reload
    BY <1>11, ReloadKeeps
  <1>12. CASE UNCHANGED Follower!vars
    <2>1. Follower!TypeOK'
      BY <1>12 DEF Follower!vars, FollowerInv, Follower!TypeOK, Follower!version
    <2>2. WireInv' /\ OrderInv' /\ LoadInv' /\ Follower!StaleOnlyAfterARace'
      BY <1>12 DEF Follower!vars, FollowerInv, WireInv, Heard, OrderInv, LoadInv,
         Follower!StaleOnlyAfterARace, Follower!version
    <2> QED
      BY <2>1, <2>2 DEF FollowerInv
  <1> QED
    BY <1>1, <1>2, <1>3, <1>4, <1>5, <1>6, <1>7, <1>8, <1>9, <1>10, <1>11, <1>12
       DEF Follower!Next

--------------------------------------------------------------------------------
(* The offline tools.  Why no crash or failure between two of their steps costs *)
(* an original: a key they may have written over has its copy beside it         *)
(* (KeyIsKept), so that what a step examines, copies or writes must still be    *)
(* what was stored first (OldIsOriginal, SourceIsOriginal); the compiler's list *)
(* names each candidate once, and at every step of its write-back which of them *)
(* are copied, written or restored (CompilerOK).  Why what they write accounts  *)
(* for what they read: ElementIsKept and PlayedIsPlayable for a deck,           *)
(* ThirdIsAccounted, SecondIsAccounted and FirstIsAccounted for the blocks of a *)
(* document of each version, whose chain of conversions keeps them in place.    *)

\* The instance's cardinality is the one the library's theorems are about.
LEMMA SameCardinality == ASSUME NEW S PROVE Tools!Cardinality(S) = Cardinality(S)
  BY Zenon DEF Tools!Cardinality, Cardinality


--------------------------------------------------------------------------------
(* JSON values. *)

LEMMA Atoms ==
    /\ \A s, t : Tools!Str(s) = Tools!Str(t) => s = t
    /\ \A m, n : Tools!Num(m) = Tools!Num(n) => m = n
    /\ \A s : Tools!Is(Tools!Str(s), "string") /\ ~Tools!Is(Tools!Str(s), "object")
         /\ Tools!Str(s) \notin {Tools!Absent, Tools!Null, Tools!Refused}
    /\ \A n : Tools!Is(Tools!Num(n), "number") /\ Tools!Num(n).number = n
         /\ Tools!Num(n) # Tools!Absent
    /\ Tools!Absent # Tools!Refused /\ Tools!Absent # Tools!Null /\ Tools!Null # Tools!Refused
    /\ ~Tools!Is(Tools!Absent, "object") /\ ~Tools!Is(Tools!Absent, "string")
         /\ ~Tools!Is(Tools!Absent, "number") /\ ~Tools!Is(Tools!Absent, "bool")
    /\ ~Tools!Is(Tools!Absent, "list") /\ ~Tools!Is(Tools!Null, "object")
         /\ ~Tools!Is(Tools!Refused, "object")
  <1>1. \A s, t : Tools!Str(s) = Tools!Str(t) => Tools!Str(s).string = Tools!Str(t).string
    OBVIOUS
  <1>2. \A m, n : Tools!Num(m) = Tools!Num(n) => Tools!Num(m).number = Tools!Num(n).number
    OBVIOUS
  <1>3. \A s : Tools!Str(s).string = s /\ DOMAIN Tools!Str(s) = {"string"}
    BY DEF Tools!Str
  <1>4. \A n : Tools!Num(n).number = n /\ DOMAIN Tools!Num(n) = {"number"}
    BY DEF Tools!Num
  <1>5. DOMAIN Tools!Absent = {"absent"} /\ DOMAIN Tools!Null = {"null"}
                 /\ DOMAIN Tools!Refused = {"refused"}
    BY DEF Tools!Absent, Tools!Null, Tools!Refused
  <1>6. /\ "string" # "absent" /\ "string" # "null" /\ "string" # "refused" /\ "string" # "object"
        /\ "number" # "absent" /\ "absent" # "refused" /\ "absent" # "null" /\ "null" # "refused"
    OBVIOUS
  <1>7. /\ {"string"} # {"absent"} /\ {"string"} # {"null"} /\ {"string"} # {"refused"}
        /\ {"number"} # {"absent"} /\ {"absent"} # {"refused"} /\ {"absent"} # {"null"}
        /\ {"null"} # {"refused"}
    BY <1>6
  <1>8. \A s : Tools!Str(s) # Tools!Absent /\ Tools!Str(s) # Tools!Null
          /\ Tools!Str(s) # Tools!Refused
    BY <1>3, <1>5, <1>7
  <1>9. \A n : Tools!Num(n) # Tools!Absent
    BY <1>4, <1>5, <1>7
  <1>10. Tools!Absent # Tools!Refused /\ Tools!Absent # Tools!Null /\ Tools!Null # Tools!Refused
    BY <1>5, <1>7
  <1> QED
    BY <1>1, <1>2, <1>3, <1>4, <1>5, <1>8, <1>9, <1>10 DEF Tools!Is

\* An object has the fields it was given, and no others.
LEMMA Fields ==
    /\ \A f : Tools!Obj(f).object = f /\ Tools!Is(Tools!Obj(f), "object")
         /\ Tools!Obj(f) # Tools!Refused /\ Tools!Obj(f) # Tools!Absent
    /\ \A f, k : Tools!Field(Tools!Obj(f), k) = IF k \in DOMAIN f THEN f[k] ELSE Tools!Absent
    /\ \A j, k : Tools!Field(j, k) # Tools!Absent => Tools!Is(j, "object")
    /\ \A j, k, l, v : /\ Tools!Is(Tools!With(j, k, v), "object")
                            /\ Tools!With(j, k, v) # Tools!Refused
                       /\ Tools!Field(Tools!With(j, k, v), k) = v
                       /\ Tools!Is(j, "object") /\ l # k
                            => Tools!Field(Tools!With(j, k, v), l) = Tools!Field(j, l)
  <1>1. \A f : Tools!Obj(f).object = f /\ DOMAIN Tools!Obj(f) = {"object"}
    BY DEF Tools!Obj
  <1>2. /\ DOMAIN Tools!Refused = {"refused"} /\ {"object"} # {"refused"}
        /\ DOMAIN Tools!Absent = {"absent"} /\ {"object"} # {"absent"}
    <2>1. "object" # "refused" /\ "object" # "absent"
      OBVIOUS
    <2> QED
      BY <2>1 DEF Tools!Refused, Tools!Absent
  <1>3. \A f : Tools!Obj(f) # Tools!Refused /\ Tools!Obj(f) # Tools!Absent
    BY <1>1, <1>2
  <1>4. \A f, k : Tools!Field(Tools!Obj(f), k) = IF k \in DOMAIN f THEN f[k] ELSE Tools!Absent
    BY <1>1 DEF Tools!Field, Tools!Is
  <1>5. \A j, k : Tools!Field(j, k) # Tools!Absent => Tools!Is(j, "object")
    BY DEF Tools!Field
  <1>6. ASSUME NEW j, NEW k, NEW l, NEW v
        PROVE  /\ Tools!Is(Tools!With(j, k, v), "object") /\ Tools!With(j, k, v) # Tools!Refused
               /\ Tools!Field(Tools!With(j, k, v), k) = v
               /\ Tools!Is(j, "object") /\ l # k
                    => Tools!Field(Tools!With(j, k, v), l) = Tools!Field(j, l)
    <2> DEFINE f == [x \in DOMAIN j.object \cup {k} |-> IF x = k THEN v ELSE j.object[x]]
    <2>1. Tools!With(j, k, v) = Tools!Obj(f)
      BY DEF Tools!With
    <2>2. DOMAIN f = DOMAIN j.object \cup {k}
                   /\ \A x \in DOMAIN f : f[x] = IF x = k THEN v ELSE j.object[x]
      OBVIOUS
    <2> HIDE DEF f
    <2>3. Tools!Field(Tools!Obj(f), k) = v
      BY <1>4, <2>2
    <2>4. ASSUME Tools!Is(j, "object"), l # k PROVE Tools!Field(Tools!Obj(f), l) = Tools!Field(j, l)
      BY <1>4, <2>2, <2>4 DEF Tools!Field
    <2> QED
      BY <1>1, <1>3, <2>1, <2>3, <2>4 DEF Tools!Is
  <1> QED
    BY <1>1, <1>3, <1>4, <1>5, <1>6 DEF Tools!Is

LEMMA LatestIsCurrent ==
    ASSUME NEW raw, Tools!IsCurrent(raw)
    PROVE  ~Tools!Convertible(raw) /\ ~Tools!LooksLikeV4Presentation(raw) /\ raw # Tools!Refused
  <1>1. Tools!Field(raw, "schemaVersion") = Tools!Num(100) /\ Tools!Is(raw, "object")
    <2>1. 10 * Tools!CurrentVersion = 100
      BY DEF Tools!CurrentVersion
    <2> QED
      BY <2>1 DEF Tools!IsCurrent
  <1>2. Tools!IsCount(Tools!Num(100)) /\ Tools!Num(100).number = 100
    BY Atoms DEF Tools!IsCount
  <1>3. Tools!VersionOf(raw) = 10
    BY <1>1, <1>2 DEF Tools!VersionOf
  <1>4. Tools!Num(100) # Tools!Num(40)
    BY Atoms
  <1> QED
    BY <1>1, <1>3, <1>4, Atoms DEF Tools!Convertible, Tools!LooksLikeV4Presentation

\* The chain of conversions, step by step.
Chained(raw) ==
    LET third == Tools!Lifted(Tools!Lifted(raw, 1), 2)
        sixth == Tools!Lifted(Tools!Lifted(Tools!Lifted(third, 3), 4), 5)
    IN  Tools!Lifted(Tools!Lifted(Tools!Lifted(Tools!Lifted(sixth, 6), 7), 8), 9)

LEMMA MigratedIsChained ==
    ASSUME NEW raw
    PROVE  Tools!Migrated(raw) =
              IF Tools!VersionOf(raw) \in 1 .. Tools!CurrentVersion - 1
              THEN Tools!Validated(Chained(raw)) ELSE Tools!Refused
  <1> DEFINE Step(f) == [v \in 0 .. 9 |->
                            IF v = 0 THEN raw ELSE Tools!Lifted(f[v - 1], v)]
             past == CHOOSE f : f = Step(f)
             second == Tools!Lifted(Tools!Lifted(raw, 1), 2)
             fourth == Tools!Lifted(Tools!Lifted(second, 3), 4)
             sixth  == Tools!Lifted(Tools!Lifted(fourth, 5), 6)
             eighth == Tools!Lifted(Tools!Lifted(sixth, 7), 8)
             chain == [v \in 0 .. 9 |->
                IF v = 0 THEN raw ELSE IF v = 1 THEN Tools!Lifted(raw, 1)
                ELSE IF v = 2 THEN second ELSE IF v = 3 THEN Tools!Lifted(second, 3)
                ELSE IF v = 4 THEN fourth ELSE IF v = 5 THEN Tools!Lifted(fourth, 5)
                ELSE IF v = 6 THEN sixth ELSE IF v = 7 THEN Tools!Lifted(sixth, 7)
                ELSE IF v = 8 THEN eighth ELSE Tools!Lifted(eighth, 9)]
  <1>1. \A v \in 0 .. 9 : chain[v] = IF v = 0 THEN raw ELSE Tools!Lifted(chain[v - 1], v)
    <2>1. 0 .. 9 = {0, 1, 2, 3, 4, 5, 6, 7, 8, 9}
      OBVIOUS
    <2> QED
      BY <2>1
  <1>2. chain = Step(chain)
    BY <1>1
  <1>3. past = Step(past)
    BY <1>2
  <1>4. Tools!Migrated(raw) =
           IF Tools!VersionOf(raw) \in 1 .. Tools!CurrentVersion - 1
           THEN Tools!Validated(past[9]) ELSE Tools!Refused
    BY DEF Tools!Migrated, Tools!CurrentVersion
  <1> HIDE DEF past
  <1>5. \A v \in 0 .. 9 : past[v] = IF v = 0 THEN raw ELSE Tools!Lifted(past[v - 1], v)
    BY <1>3
  <1>6. past[0] = raw /\ past[1] = Tools!Lifted(past[0], 1) /\ past[2] = Tools!Lifted(past[1], 2)
    BY <1>5
  <1>7. past[3] = Tools!Lifted(past[2], 3) /\ past[4] = Tools!Lifted(past[3], 4)
          /\ past[5] = Tools!Lifted(past[4], 5)
    BY <1>5
  <1>8. past[6] = Tools!Lifted(past[5], 6) /\ past[7] = Tools!Lifted(past[6], 7)
          /\ past[8] = Tools!Lifted(past[7], 8) /\ past[9] = Tools!Lifted(past[8], 9)
    BY <1>5
  <1>9. past[9] = Chained(raw)
    BY <1>6, <1>7, <1>8 DEF Chained
  <1> QED
    BY <1>4, <1>9

LEMMA MigratedIsCurrent ==
    ASSUME NEW raw
    PROVE  Tools!Migrated(raw) = Tools!Refused \/ Tools!IsCurrent(Tools!Migrated(raw))
  BY MigratedIsChained DEF Tools!Validated

\* A step that is not for a version leaves it, what is refused stays refused.
LEMMA LiftedElse ==
    /\ \A raw, v : Tools!Field(raw, "schemaVersion") # Tools!Num(10 * v)
         => Tools!Lifted(raw, v) = raw
    /\ \A v : Tools!Lifted(Tools!Refused, v) = Tools!Refused
  <1>1. \A raw, v : Tools!Field(raw, "schemaVersion") # Tools!Num(10 * v)
          => Tools!Lifted(raw, v) = raw
    BY DEF Tools!Lifted
  <1>2. Tools!Field(Tools!Refused, "schemaVersion") = Tools!Absent
    BY Atoms DEF Tools!Field
  <1> QED
    BY <1>1, <1>2, Atoms

\* The converter leaves the decks to their own tool.
LEMMA OldDecksAreRefused ==
    ASSUME NEW raw, Tools!LooksLikeV4Presentation(raw)
    PROVE  Tools!Migrated(raw) = Tools!Refused
  <1>1. Tools!Field(raw, "schemaVersion") = Tools!Num(40)
          /\ Tools!Field(raw, "kind") = Tools!Str("presentation")
    BY DEF Tools!LooksLikeV4Presentation, Tools!IsPresentation
  <1>2. Tools!Num(40) # Tools!Num(10 * 1) /\ Tools!Num(40) # Tools!Num(10 * 2)
          /\ Tools!Num(40) # Tools!Num(10 * 3) /\ Tools!Num(40) = Tools!Num(10 * 4)
    BY Atoms
  <1>3. Tools!Lifted(raw, 1) = raw /\ Tools!Lifted(raw, 2) = raw /\ Tools!Lifted(raw, 3) = raw
    BY <1>1, <1>2, LiftedElse
  <1>4. Tools!Lifted(raw, 4) = Tools!Refused
    <2>1. Tools!Str("presentation") # Tools!Str("document")
      BY Atoms
    <2>2. Tools!Added(4, raw) = Tools!Refused
      BY <1>1, <2>1 DEF Tools!Added, Tools!OnlyDocuments
    <2>3. Tools!Rewritten(Tools!Refused, "schemaVersion", Tools!Num(10 * Tools!NextVersion(4))) = Tools!Refused
      BY DEF Tools!Rewritten
    <2> QED
      BY <1>1, <1>2, <2>2, <2>3 DEF Tools!Lifted
  <1>5. ~Tools!IsCurrent(Tools!Refused)
    BY Atoms DEF Tools!IsCurrent
  <1> QED
    BY <1>3, <1>4, <1>5, LiftedElse, MigratedIsChained DEF Tools!Validated, Chained

LEMMA CompiledIsCurrent ==
    ASSUME NEW raw, Tools!Compiled(raw) # Tools!Refused
    PROVE  Tools!IsCurrent(Tools!Materialized(Tools!Compiled(raw)))
  <1> DEFINE legacy == Tools!Data(raw).legacy
             s == Tools!Compiled(raw)
             f == [format |-> Tools!Str("open-office-artifact"), schemaVersion |-> Tools!Num(10 * Tools!CurrentVersion),
                   artifactId |-> s.artifact, revision |-> s.revision,
                   kind |-> Tools!Str("presentation"),
                   payload |-> Tools!Obj([kind |-> Tools!Str("presentation"), data |-> [deck |-> s.deck]])]
             p == [kind |-> Tools!Str("presentation"), data |-> [deck |-> s.deck]]
  <1>1. /\ s = Tools!Staged(raw, Tools!DeckOf(legacy), Tools!ReportOf(legacy))
        /\ Tools!Is(Tools!Field(raw, "artifactId"), "string")
             /\ Tools!Field(raw, "artifactId") # Tools!Str("")
        /\ Tools!IsCount(Tools!Field(raw, "revision"))
    BY DEF Tools!Compiled, Tools!CompiledLegacy
  <1> HIDE DEF legacy
  <1>2. s.artifact = Tools!Field(raw, "artifactId") /\ s.revision = Tools!Field(raw, "revision")
    <2>1. \A d, r : /\ Tools!Staged(raw, d, r).artifact = Tools!Field(raw, "artifactId")
                    /\ Tools!Staged(raw, d, r).revision = Tools!Field(raw, "revision")
      BY DEF Tools!Staged
    <2> HIDE DEF s
    <2> QED
      BY <1>1, <2>1
  <1>3. Tools!Materialized(s) = Tools!Obj(f)
    BY DEF Tools!Materialized
  <1> HIDE DEF s
  <1>4. /\ Tools!Field(Tools!Obj(f), "format") = Tools!Str("open-office-artifact")
        /\ Tools!Field(Tools!Obj(f), "schemaVersion") = Tools!Num(10 * Tools!CurrentVersion)
        /\ Tools!Field(Tools!Obj(f), "artifactId") = s.artifact
             /\ Tools!Field(Tools!Obj(f), "revision") = s.revision
        /\ Tools!Field(Tools!Obj(f), "kind") = Tools!Str("presentation")
             /\ Tools!Field(Tools!Obj(f), "payload") = Tools!Obj(p)
    BY Fields
  <1>5. Tools!Field(Tools!Obj(p), "kind") = Tools!Str("presentation")
          /\ Tools!Field(Tools!Obj(p), "data") = [deck |-> s.deck]
    BY Fields
  <1> HIDE DEF f, p
  <1>6. Tools!At(Tools!Obj(f), "payload", "kind") = Tools!Str("presentation")
          /\ Tools!Data(Tools!Obj(f)) = [deck |-> s.deck]
    BY <1>4, <1>5 DEF Tools!At, Tools!Data
  <1> HIDE DEF s
  <1>7. Tools!PayloadIsValid(Tools!Str("presentation"), [deck |-> s.deck])
    <2>1. Tools!Str("presentation") # Tools!Str("document")
            /\ Tools!Str("presentation") # Tools!Str("mindmap")
          /\ Tools!Str("presentation") # Tools!Str("spreadsheet")
      BY Atoms
    <2>2. Tools!Is([deck |-> s.deck], "deck")
      BY DEF Tools!Is
    <2> QED
      BY <2>1, <2>2 DEF Tools!PayloadIsValid
  <1>8. Tools!PayloadIsValid(Tools!Field(Tools!Obj(f), "kind"), Tools!Data(Tools!Obj(f)))
    BY <1>4, <1>6, <1>7
  <1>9. /\ Tools!Is(Tools!Obj(f), "object") /\ Tools!Is(s.artifact, "string")
             /\ s.artifact # Tools!Str("")
        /\ Tools!IsCount(s.revision)
    BY <1>1, <1>2, Fields
  <1>10. Tools!IsCurrent(Tools!Obj(f))
    BY <1>4, <1>6, <1>8, <1>9 DEF Tools!IsCurrent
  <1> QED
    BY <1>3, <1>10 DEF s


--------------------------------------------------------------------------------
(* The decks. *)

LEMMA ListIs ==
    ASSUME NEW s, Tools!IsList(s)
    PROVE  /\ Len(s) \in Nat /\ DOMAIN s = 1 .. Len(s) /\ IsFiniteSet(DOMAIN s)
           /\ \A i \in DOMAIN s : s[i] \in Tools!ToSet(s)
           /\ \A x \in Tools!ToSet(s) : \E i \in DOMAIN s : x = s[i]
  <1>1. Len(s) \in Nat /\ DOMAIN s = 1 .. Len(s)
    BY DEF Tools!IsList
  <1>2. IsFiniteSet(1 .. Len(s))
    BY <1>1, FS_Interval
  <1> QED
    BY <1>1, <1>2 DEF Tools!ToSet

\* Every element has one owner where one has it among its children.
LEMMA OwnerIsParent ==
    ASSUME NEW slide, Tools!IsList(slide.elements), NEW i \in DOMAIN slide.elements,
           NEW child \in Tools!ToSet(slide.elements[i].children),
           Tools!Cardinality(Tools!Owners(slide, child)) = 1
    PROVE  Tools!ParentOf(slide, child) = Tools!Str(slide.elements[i].id)
  <1> DEFINE ids == Tools!ElementIds(slide)
             element == slide.elements[i]
  <1>1. DOMAIN ids = DOMAIN slide.elements /\ \A k \in DOMAIN ids : ids[k] = slide.elements[k].id
    BY DEF Tools!ElementIds
  <1>2. IsFiniteSet(Tools!ToSet(ids))
    <2>1. ids \in Surjection(DOMAIN slide.elements, Tools!ToSet(ids))
      BY <1>1 DEF Tools!ElementIds, Surjection, Tools!ToSet
    <2> QED
      BY <2>1, ListIs, FS_Surjection
  <1>3. element.id \in Tools!ToSet(ids)
    BY <1>1 DEF Tools!ToSet
  <1> HIDE DEF ids
  <1>4. child \in Tools!ChildrenOf(slide, element.id)
    BY DEF Tools!ChildrenOf
  <1>5. element.id \in Tools!Owners(slide, child)
          /\ Tools!Owners(slide, child) \subseteq Tools!ToSet(ids)
    BY <1>3, <1>4 DEF Tools!Owners, ids
  <1>6. PICK o : Tools!Owners(slide, child) = {o}
    <2>1. IsFiniteSet(Tools!Owners(slide, child))
      BY <1>2, <1>5, FS_Subset
    <2> QED
      BY <2>1, FS_Singleton, SameCardinality
  <1> QED
    BY <1>5, <1>6 DEF Tools!ParentOf

LEMMA AttrIsKept ==
    ASSUME NEW slide, NEW i \in DOMAIN slide.elements, NEW lost,
           NEW k \in DOMAIN slide.elements[i].attrs \ Tools!UnreportedAttrs(slide.elements[i]),
           Tools!AttrLosses(slide.elements[i]) \cup Tools!NameLosses(slide.elements[i]) \subseteq lost
    PROVE  Tools!AttrIsAccounted(slide.elements[i], k, Tools!NodeOf(slide, i), lost)
  <1> DEFINE element == slide.elements[i]
             node    == Tools!NodeOf(slide, i)
  <1>1. node.name = Tools!NameOf(element) /\ node.kind = Tools!NodeKind(element)
    BY DEF Tools!NodeOf
  <1>2. \A t, a, c : /\ [type |-> "extension", typeId |-> t, attrs |-> a, children |-> c].type = "extension"
                     /\ [type |-> "extension", typeId |-> t, attrs |-> a, children |-> c].attrs = a
    OBVIOUS
  <1> HIDE DEF node
  <1>3. CASE Tools!IsExtension(element)
    <2>1. node.kind = [type |-> "extension", typeId |-> element.type, attrs |-> element.attrs,
                       children |-> element.children]
      BY <1>1, <1>3 DEF Tools!NodeKind
    <2> QED
      BY <1>2, <2>1 DEF Tools!AttrIsAccounted, node
  <1>4. CASE ~Tools!IsExtension(element) /\ k \notin Tools!AcceptedAttr(element)
    BY <1>4 DEF Tools!AttrLosses, Tools!AttrIsAccounted
  <1>5. CASE k = "name"
    <2>1. Tools!Field(Tools!Obj(element.attrs), "name") = element.attrs["name"]
      BY <1>5, Fields
    <2>2. Tools!NameOf(element) = IF Tools!Is(element.attrs["name"], "string") THEN element.attrs["name"] ELSE Tools!Absent
      BY <2>1, Atoms DEF Tools!NameOf, Tools!FirstString
    <2>3. Tools!NameOf(element) = Tools!Absent => [node |-> element.id, lost |-> "name"] \in lost
      BY <1>5 DEF Tools!NameLosses
    <2>4. Tools!NameOf(element) # Tools!Absent => node.name = element.attrs[k]
      BY <1>1, <1>5, <2>2
    <2> QED
      BY <1>5, <2>3, <2>4 DEF Tools!AttrIsAccounted, node
  <1>6. CASE ~Tools!IsExtension(element) /\ k \in Tools!AcceptedAttr(element) /\ k # "name"
    <2>1. \/ element.type = "shape" /\ k = "shapeKind"
          \/ element.type = "text" /\ k = "text"
      BY <1>6 DEF Tools!AcceptedAttr
    <2>2. CASE element.type = "shape" /\ k = "shapeKind"
      <3>1. node.kind = [type |-> "shape", geometry |-> Tools!Geometries[Tools!ShapeKind(element)]]
        BY <1>1, <1>6, <2>2 DEF Tools!NodeKind
      <3>2. Tools!Is(element.attrs[k], "string")
        BY <2>2 DEF Tools!UnreportedAttrs
      <3>3. Tools!Field(Tools!Obj(element.attrs), "shapeKind") = element.attrs[k]
        BY <2>2, Fields
      <3>4. Tools!ShapeKind(element) = element.attrs[k].string
        BY <3>2, <3>3 DEF Tools!ShapeKind
      <3>5. node.kind.type = "shape" /\ node.kind.geometry = Tools!Geometries[element.attrs[k].string]
        BY <3>1, <3>4
      <3> QED
        BY <2>2, <3>2, <3>5 DEF Tools!AttrIsAccounted, node
    <2>3. CASE element.type = "text" /\ k = "text"
      <3> DEFINE body == Tools!PlainText(element.attrs.text.string)
      <3>1. node.kind = [type |-> "text", body |-> body]
        <4>1. k \in DOMAIN element.attrs
          OBVIOUS
        <4>2. "text" \in DOMAIN element.attrs
          BY <2>3, <4>1
        <4> QED
          BY <1>1, <1>6, <2>3, <4>2 DEF Tools!NodeKind
      <3>2. body.text = element.attrs.text.string
        BY DEF Tools!PlainText
      <3> HIDE DEF body
      <3>3. node.kind.type = "text" /\ node.kind.body = body
        BY <3>1
      <3> QED
        BY <2>3, <3>2, <3>3 DEF Tools!AttrIsAccounted, node
    <2> QED
      BY <2>1, <2>2, <2>3
  <1> QED
    BY <1>3, <1>4, <1>5, <1>6

LEMMA ElementIsKept ==
    ASSUME NEW slide, Tools!IsList(slide.elements), NEW i \in DOMAIN slide.elements, NEW lost, NEW new,
           Tools!AttrLosses(slide.elements[i]) \cup Tools!NameLosses(slide.elements[i])
               \cup Tools!DimensionLosses(slide.elements[i]) \subseteq lost,
           new.nodes = [k \in DOMAIN slide.elements |-> Tools!NodeOf(slide, k)],
           Tools!ToSet(slide.elements[i].children) \subseteq Tools!ToSet(Tools!ElementIds(slide)),
           \A id \in Tools!Referenced(slide) : Tools!Cardinality(Tools!Owners(slide, id)) = 1
    PROVE  Tools!ElementIsAccounted(slide, i, new, lost)
  <1> DEFINE element == slide.elements[i]
             node    == new.nodes[i]
  <1>1. /\ node = Tools!NodeOf(slide, i) /\ node.id = element.id
             /\ node.width = Tools!Dimension(element.width)
    BY DEF Tools!NodeOf
  <1>2. \A k \in DOMAIN element.attrs \ Tools!UnreportedAttrs(element) :
           Tools!AttrIsAccounted(element, k, node, lost)
    BY <1>1, AttrIsKept
  <1>3. ASSUME NEW child \in Tools!ToSet(element.children)
        PROVE  \E n \in Tools!ToSet(new.nodes) : n.id = child /\ n.parent = Tools!Str(element.id)
    <2>1. PICK k \in DOMAIN slide.elements : slide.elements[k].id = child
      BY DEF Tools!ElementIds, Tools!ToSet
    <2>2. /\ Tools!NodeOf(slide, k).id = child
          /\ Tools!NodeOf(slide, k).parent = Tools!ParentOf(slide, child)
      BY <2>1 DEF Tools!NodeOf
    <2>3. child \in Tools!Referenced(slide)
      BY DEF Tools!Referenced
    <2>4. Tools!ParentOf(slide, child) = Tools!Str(element.id)
      BY <2>3, OwnerIsParent
    <2>5. Tools!NodeOf(slide, k) \in Tools!ToSet(new.nodes)
      BY DEF Tools!ToSet
    <2> QED
      BY <2>2, <2>4, <2>5
  <1>4. node.width = element.width \/ [node |-> element.id, lost |-> "width"] \in lost
    BY <1>1 DEF Tools!Dimension, Tools!DimensionLosses
  <1> HIDE DEF node
  <1> QED
    BY <1>1, <1>2, <1>3, <1>4 DEF Tools!ElementIsAccounted, node

\* Each animation that is kept has its place in the timeline.
LEMMA PlayedIsPlayable ==
    ASSUME NEW slide, Tools!IsList(slide.animations),
           \A a \in Tools!ToSet(slide.animations) : a.order \in Int,
           NEW k \in Tools!Playable(slide)
    PROVE  \E n \in 1 .. Tools!Cardinality(Tools!Playable(slide)) : Tools!Played(slide, n) = k
  <1> DEFINE S == Tools!Playable(slide)
             rank(i) == slide.animations[i].order
             B(i) == Tools!PlayedBefore(slide, i)
  <1>1. /\ S \subseteq DOMAIN slide.animations /\ \A i \in S : i \in Int /\ rank(i) \in Int
    BY ListIs DEF Tools!Playable
  <1>2. \A i \in S : B(i) = {m \in S : rank(m) < rank(i) \/ (rank(m) = rank(i) /\ m < i)}
    BY DEF Tools!PlayedBefore
  <1> HIDE DEF S, rank, B
  <1>3. IsFiniteSet(S)
    BY <1>1, ListIs, FS_Subset
  <1>4. \A i \in S : B(i) \subseteq S /\ i \notin B(i)
    BY <1>1, <1>2
  <1>5. \A i, m \in S : m \in B(i) \/ i \in B(m) \/ m = i
    BY <1>1, <1>2
  <1>6. \A i, m \in S : m \in B(i) => B(m) \subseteq B(i)
    BY <1>1, <1>2
  <1>7. \A i \in S : /\ IsFiniteSet(B(i)) /\ Tools!Cardinality(B(i)) \in Nat
                     /\ Tools!Cardinality(B(i)) < Tools!Cardinality(S)
    <2> TAKE i \in S
    <2>1. IsFiniteSet(B(i)) /\ Tools!Cardinality(B(i)) <= Tools!Cardinality(S)
            /\ Tools!Cardinality(B(i)) # Tools!Cardinality(S)
      BY <1>3, <1>4, FS_Subset, SameCardinality
    <2> QED
      BY <1>3, <2>1, FS_CardinalityType, SameCardinality
  <1>8. ASSUME NEW i \in S, NEW m \in S, m \in B(i) PROVE Tools!Cardinality(B(m)) # Tools!Cardinality(B(i))
    BY <1>4, <1>6, <1>7, <1>8, FS_Subset, SameCardinality
  <1> DEFINE n == Tools!Cardinality(B(k)) + 1
  <1>9. k \in S /\ n \in 1 .. Tools!Cardinality(S) /\ Tools!Cardinality(B(k)) = n - 1
    BY <1>3, <1>7, FS_CardinalityType, SameCardinality DEF S
  <1>10. Tools!Played(slide, n) \in S /\ Tools!Cardinality(B(Tools!Played(slide, n))) = n - 1
    <2>1. Tools!Played(slide, n) = CHOOSE i \in S : Tools!Cardinality(B(i)) = n - 1
      BY DEF Tools!Played, S, B
    <2> HIDE DEF n
    <2> QED
      BY <1>9, <2>1
  <1>11. Tools!Played(slide, n) = k
    BY <1>5, <1>8, <1>9, <1>10
  <1> QED
    BY <1>9, <1>11 DEF S

LEMMA DeckIsKept ==
    ASSUME NEW raw, Tools!Compiled(raw) # Tools!Refused, Tools!IsLegacy(Tools!Data(raw).legacy)
    PROVE  Tools!DeckIsAccounted(Tools!Data(raw).legacy, Tools!Compiled(raw))
  <1> DEFINE legacy == Tools!Data(raw).legacy
             staged == Tools!Compiled(raw)
             lost == Tools!ReportOf(legacy).losses
  <1>1. Tools!LegacyIsValid(legacy) /\ Tools!OneParentEach(legacy)
    BY DEF Tools!Compiled, Tools!CompiledLegacy
  <1>2. staged.deck = Tools!DeckOf(legacy) /\ staged.report = Tools!ReportOf(legacy)
    <2>1. staged = Tools!Staged(raw, Tools!DeckOf(legacy), Tools!ReportOf(legacy))
      BY DEF Tools!Compiled, Tools!CompiledLegacy
    <2>2. \A d, r : Tools!Staged(raw, d, r).deck = d /\ Tools!Staged(raw, d, r).report = r
      BY DEF Tools!Staged
    <2> QED
      BY <2>1, <2>2
  <1> HIDE DEF legacy, staged
  <1>3. /\ Tools!IsList(legacy.slides)
        /\ \A slide \in Tools!ToSet(legacy.slides) :
              /\ Tools!IsList(slide.elements) /\ Tools!IsList(slide.animations)
              /\ \A a \in Tools!ToSet(slide.animations) : a.order \in Int
        /\ "colors" \in DOMAIN legacy.theme => "id" \in DOMAIN legacy.theme
    BY DEF Tools!IsLegacy, legacy
  <1>4. /\ Tools!ThemeLosses(legacy.theme) \subseteq lost
        /\ \A slide \in Tools!ToSet(legacy.slides) :
              /\ Tools!TimelineLosses(slide) \subseteq lost
              /\ \A e \in Tools!ToSet(slide.elements) :
                    Tools!AttrLosses(e) \cup Tools!NameLosses(e) \cup Tools!DimensionLosses(e) \subseteq lost
    <2> DEFINE slides   == Tools!ToSet(legacy.slides)
               elements == UNION {Tools!ToSet(s.elements) : s \in slides}
               own(e)   == Tools!AttrLosses(e) \cup Tools!NameLosses(e) \cup Tools!DimensionLosses(e)
               all      == {own(e) : e \in elements}
               played   == {Tools!TimelineLosses(s) : s \in slides}
    <2>1. lost = {[node |-> "deck", lost |-> "pageSpec"]} \cup Tools!ThemeLosses(legacy.theme)
                   \cup (UNION played) \cup (UNION all)
      BY DEF Tools!ReportOf
    <2>2. ASSUME NEW slide \in slides
          PROVE  Tools!TimelineLosses(slide) \in played
                  /\ \A e \in Tools!ToSet(slide.elements) : own(e) \in all
      OBVIOUS
    <2> HIDE DEF lost, all, played, own, elements, slides
    <2>3. Tools!ThemeLosses(legacy.theme) \subseteq lost
      BY <2>1
    <2>4. ASSUME NEW x \in played PROVE x \subseteq lost
      BY <2>1
    <2>5. UNION all \subseteq lost
      BY <2>1
    <2>6. ASSUME NEW slide \in slides
          PROVE  /\ Tools!TimelineLosses(slide) \subseteq lost
                 /\ \A e \in Tools!ToSet(slide.elements) : own(e) \subseteq lost
      BY <2>2, <2>4, <2>5
    <2> QED
      BY <2>3, <2>6 DEF own, slides
  <1> HIDE DEF lost
  <1>5. ASSUME NEW i \in DOMAIN legacy.slides
        PROVE  LET slide == legacy.slides[i]
                   new   == staged.deck.slides[i]
               IN  /\ \A k \in DOMAIN slide.elements : Tools!ElementIsAccounted(slide, k, new, lost)
                   /\ \A k \in DOMAIN slide.animations :
                         Tools!AnimationIsAccounted(slide.animations[k], new, lost)
    <2> DEFINE slide == legacy.slides[i]
               new   == staged.deck.slides[i]
    <2>1. slide \in Tools!ToSet(legacy.slides) /\ Tools!SceneIsValid(slide)
      BY <1>1 DEF Tools!LegacyIsValid, Tools!ToSet
    <2>2. /\ new.nodes = [k \in DOMAIN slide.elements |-> Tools!NodeOf(slide, k)]
          /\ new.timeline = Tools!TimelineOf(slide)
      BY <1>2 DEF Tools!DeckOf
    <2>3. /\ Tools!IsList(slide.elements) /\ Tools!IsList(slide.animations)
          /\ \A a \in Tools!ToSet(slide.animations) : a.order \in Int
          /\ \A id \in Tools!Referenced(slide) : Tools!Cardinality(Tools!Owners(slide, id)) = 1
      BY <1>1, <1>3, <2>1 DEF Tools!OneParentEach
    <2> HIDE DEF slide, new
    <2>4. ASSUME NEW k \in DOMAIN slide.elements PROVE Tools!ElementIsAccounted(slide, k, new, lost)
      <3>1. slide.elements[k] \in Tools!ToSet(slide.elements)
        BY DEF Tools!ToSet
      <3>2. Tools!ToSet(slide.elements[k].children) \subseteq Tools!ToSet(Tools!ElementIds(slide))
        BY <2>1 DEF Tools!SceneIsValid
      <3> QED
        BY <1>4, <2>1, <2>2, <2>3, <3>1, <3>2, ElementIsKept
    <2>5. ASSUME NEW k \in DOMAIN slide.animations
          PROVE  Tools!AnimationIsAccounted(slide.animations[k], new, lost)
      <3>1. CASE k \in Tools!Playable(slide)
        <4>1. PICK n \in 1 .. Tools!Cardinality(Tools!Playable(slide)) : Tools!Played(slide, n) = k
          BY <2>3, <3>1, PlayedIsPlayable
        <4>2. new.timeline[n] \in Tools!ToSet(new.timeline)
          BY <2>2 DEF Tools!TimelineOf, Tools!ToSet
        <4>3. /\ new.timeline[n].id = slide.animations[k].id
              /\ new.timeline[n].target = slide.animations[k].target
          BY <2>2, <4>1 DEF Tools!TimelineOf
        <4> QED
          BY <4>2, <4>3 DEF Tools!AnimationIsAccounted
      <3>2. CASE k \notin Tools!Playable(slide)
        <4>1. [node |-> slide.animations[k].id, lost |-> "effect"] \in Tools!TimelineLosses(slide)
          BY <3>2 DEF Tools!TimelineLosses
        <4> QED
          BY <1>4, <2>1, <4>1 DEF Tools!AnimationIsAccounted
      <3> QED
        BY <3>1, <3>2
    <2> QED
      BY <2>4, <2>5 DEF slide, new
  <1>6. ASSUME NEW name \in DOMAIN legacy.theme \cap {"colors"}, NEW c \in DOMAIN legacy.theme.colors
        PROVE  c \in DOMAIN staged.deck.theme.colors \/ [node |-> "theme", lost |-> c] \in lost
    <2>1. "id" \in DOMAIN legacy.theme
      BY <1>3
    <2>2. DOMAIN staged.deck.theme.colors = Tools!KeptColors(legacy.theme)
      <3>1. staged.deck.theme = Tools!ThemeOf(legacy.theme)
        BY <1>2 DEF Tools!DeckOf
      <3> QED
        BY <2>1, <3>1 DEF Tools!ThemeOf
    <2>3. c \notin Tools!KeptColors(legacy.theme)
              => [node |-> "theme", lost |-> c] \in Tools!ThemeLosses(legacy.theme)
      BY <2>1 DEF Tools!ThemeLosses
    <2> QED
      BY <1>4, <2>2, <2>3
  <1> QED
    BY <1>2, <1>5, <1>6 DEF Tools!DeckIsAccounted, lost, legacy, staged


--------------------------------------------------------------------------------
(* The documents. *)

\* What a block shows: that its attrs say so, and where they are silent its style.
Shown == {"align", "listType", "listLevel", "indentLevel", "indentRight", "spacingBefore",
          "spacingAfter", "lineHeight", "namedStyle"}

WellTyped(k, value) ==
    /\ k \in {"align", "listType", "namedStyle"} => Tools!Is(value, "string")
    /\ k \in {"listLevel", "indentLevel"} => Tools!IsCount(value)

ShowsAttr(attrs, k, new) ==
    Tools!Field(attrs, k) # Tools!Absent /\ WellTyped(k, Tools!Field(attrs, k)) =>
       Tools!SaidBy(new)[k] = Tools!Field(attrs, k)

ShowsStyle(attrs, k, new) ==
    LET style == Tools!StyleSays(Tools!Field(attrs, "paragraphStyle"))
    IN  Tools!Field(attrs, k) = Tools!Absent /\ style[k] # Tools!Absent =>
           Tools!SaidBy(new)[k] = style[k]

Shows(attrs, new) == \A k \in Shown : ShowsAttr(attrs, k, new) /\ ShowsStyle(attrs, k, new)

LEMMA SaidFields ==
    ASSUME NEW new, NEW look, NEW data,
           look = Tools!Field(new, "presentation"), data = Tools!At(new, "data", "data")
    PROVE  /\ DOMAIN Tools!SaidBy(new) = Shown \cup {"checked", "url"}
           /\ Tools!SaidBy(new)["align"] = Tools!Field(look, "align")
           /\ Tools!SaidBy(new)["listType"] = Tools!At(look, "list", "kind")
           /\ Tools!SaidBy(new)["listLevel"] = Tools!At(look, "list", "level")
           /\ Tools!SaidBy(new)["indentLevel"] = Tools!Field(look, "indentStart")
           /\ Tools!SaidBy(new)["indentRight"] = Tools!Field(look, "indentEnd")
           /\ Tools!SaidBy(new)["spacingBefore"] = Tools!Field(look, "spacingBefore")
           /\ Tools!SaidBy(new)["spacingAfter"] = Tools!Field(look, "spacingAfter")
           /\ Tools!SaidBy(new)["lineHeight"] = Tools!Field(look, "lineHeight")
           /\ Tools!SaidBy(new)["namedStyle"] = Tools!Field(look, "namedStyle")
           /\ Tools!SaidBy(new)["checked"] = Tools!Field(data, "checked")
           /\ Tools!SaidBy(new)["url"] = Tools!Field(data, "url")
  BY DEF Tools!SaidBy, Shown

LEMMA StyleFields ==
    ASSUME NEW style
    PROVE  LET said == Tools!StyleSays(style)
           IN  /\ DOMAIN said = Shown
               /\ said["align"] = Tools!FirstString(Tools!Field(style, "alignment"), Tools!Absent)
               /\ said["listType"] = Tools!FirstString(Tools!At(style, "list", "kind"), Tools!Absent)
               /\ said["listLevel"] = Tools!FirstCount(Tools!At(style, "list", "level"), Tools!Absent)
               /\ said["indentLevel"] = IF Tools!Is(Tools!Field(style, "indentLeft"), "number")
                                        THEN Tools!RoundedIndent(Tools!Field(style, "indentLeft"))
                                        ELSE Tools!Absent
               /\ said["indentRight"] = Tools!Field(style, "indentRight")
               /\ said["spacingBefore"] = Tools!Field(style, "spaceBefore")
               /\ said["spacingAfter"] = Tools!Field(style, "spaceAfter")
               /\ said["lineHeight"] = Tools!Field(style, "lineHeight")
               /\ said["namedStyle"] = Tools!FirstString(Tools!Field(style, "name"), Tools!Absent)
  BY DEF Tools!StyleSays, Shown

\* What is presented, field by field.
LEMMA PresentedFields ==
    ASSUME NEW asked
    PROVE  LET look == Tools!Presented(asked)
           IN  /\ Tools!Field(look, "align") = Tools!OrElse(asked.align, Tools!Str("left"))
               /\ asked.type # Tools!Absent =>
                    /\ Tools!At(look, "list", "kind") = asked.type
                    /\ asked.level # Tools!Absent => Tools!At(look, "list", "level") = asked.level
               /\ Tools!Field(look, "indentStart") = asked.indent
               /\ Tools!Field(look, "indentEnd") = Tools!OrElse(asked.right, Tools!Num(0))
               /\ Tools!Field(look, "spacingBefore") = Tools!OrElse(asked.before, Tools!Num(0))
               /\ Tools!Field(look, "spacingAfter") = Tools!OrElse(asked.after, Tools!Num(0))
               /\ Tools!Field(look, "lineHeight") = Tools!OrElse(asked.line, Tools!Num(10))
               /\ Tools!Field(look, "namedStyle") =
                     IF Tools!Is(asked.named, "string") THEN asked.named ELSE Tools!Null
  <1> DEFINE look == Tools!Presented(asked)
  <1>1. /\ Tools!Field(look, "align") = Tools!OrElse(asked.align, Tools!Str("left"))
        /\ Tools!Field(look, "list") = Tools!ListOf(asked.type, asked.level)
        /\ Tools!Field(look, "indentStart") = asked.indent
        /\ Tools!Field(look, "indentEnd") = Tools!OrElse(asked.right, Tools!Num(0))
        /\ Tools!Field(look, "spacingBefore") = Tools!OrElse(asked.before, Tools!Num(0))
        /\ Tools!Field(look, "spacingAfter") = Tools!OrElse(asked.after, Tools!Num(0))
        /\ Tools!Field(look, "lineHeight") = Tools!OrElse(asked.line, Tools!Num(10))
        /\ Tools!Field(look, "namedStyle") =
              IF Tools!Is(asked.named, "string") THEN asked.named ELSE Tools!Null
    BY Fields DEF Tools!Presented
  <1> HIDE DEF look
  <1>2. ASSUME asked.type # Tools!Absent
        PROVE  /\ Tools!Field(Tools!ListOf(asked.type, asked.level), "kind") = asked.type
               /\ asked.level # Tools!Absent =>
                     Tools!Field(Tools!ListOf(asked.type, asked.level), "level") = asked.level
    BY <1>2, Fields DEF Tools!ListOf
  <1> QED
    BY <1>1, <1>2 DEF Tools!At, look

\* What the converter of blocks from version 3 makes of a block.
LEMMA ConvertedBlock ==
    ASSUME NEW block, Tools!MigratedV3Block(block) # Tools!Refused
    PROVE  LET new   == Tools!MigratedV3Block(block)
               attrs == Tools!Field(block, "attrs")
           IN  /\ Tools!KindOf(new) = Tools!KindOf(block)
               /\ Tools!Field(new, "data") = Tools!MigratedBlockData(Tools!KindOf(block), Tools!Field(block, "payload"))
               /\ Tools!Field(new, "data") # Tools!Refused
               /\ Tools!Is(attrs, "object")
                    => DOMAIN attrs.object \subseteq Tools!AcceptedAttrs(Tools!KindOf(block))
               /\ Shows(attrs, new)
  <1> DEFINE new   == Tools!MigratedV3Block(block)
             kind  == Tools!KindOf(block)
             attrs == Tools!Field(block, "attrs")
             style == Tools!Field(attrs, "paragraphStyle")
             asked == Tools!Asked(attrs, style)
             data  == Tools!MigratedBlockData(kind, Tools!Field(block, "payload"))
             A(k)  == Tools!Field(attrs, k)
             S(k)  == Tools!StyleSays(style)[k]
  <1>1. /\ new = Tools!With(Tools!With(Tools!Stripped(block), "presentation", Tools!Presented(asked)), "data", data)
        /\ data # Tools!Refused /\ Tools!Is(block, "object")
        /\ Tools!Given(attrs) => Tools!Is(attrs, "object")
             /\ DOMAIN attrs.object \subseteq Tools!AcceptedAttrs(kind)
        /\ asked.level # Tools!Absent => asked.type # Tools!Absent
    BY DEF Tools!MigratedV3Block, Tools!Presentable
  <1>2. Tools!Is(Tools!Stripped(block), "object")
          /\ Tools!Field(Tools!Stripped(block), "kind") = Tools!Field(block, "kind")
    BY <1>1, Fields DEF Tools!Stripped, Tools!Field
  <1>3. /\ Tools!Field(new, "data") = data
             /\ Tools!Field(new, "presentation") = Tools!Presented(asked)
        /\ Tools!Field(new, "kind") = Tools!Field(block, "kind")
    BY <1>1, <1>2, Fields
  <1>4. /\ asked.align = Tools!FirstString(A("align"), Tools!Field(style, "alignment"))
        /\ asked.type = Tools!FirstString(A("listType"), Tools!At(style, "list", "kind"))
        /\ asked.level = Tools!FirstCount(A("listLevel"), Tools!At(style, "list", "level"))
        /\ asked.indent = Tools!IndentOf(A("indentLevel"), Tools!Field(style, "indentLeft"))
        /\ asked.right = Tools!FirstGiven(A("indentRight"), Tools!Field(style, "indentRight"))
        /\ asked.before = Tools!FirstGiven(A("spacingBefore"), Tools!Field(style, "spaceBefore"))
        /\ asked.after = Tools!FirstGiven(A("spacingAfter"), Tools!Field(style, "spaceAfter"))
        /\ asked.line = Tools!FirstGiven(A("lineHeight"), Tools!Field(style, "lineHeight"))
        /\ asked.named = Tools!FirstGiven(A("namedStyle"), Tools!Field(style, "name"))
    BY DEF Tools!Asked
  <1> HIDE DEF new, asked, data, style, attrs
  <1> DEFINE said == Tools!SaidBy(new)
  <1>5. /\ said["align"] = Tools!OrElse(asked.align, Tools!Str("left"))
        /\ asked.type # Tools!Absent =>
             /\ said["listType"] = asked.type
             /\ asked.level # Tools!Absent => said["listLevel"] = asked.level
        /\ said["indentLevel"] = asked.indent
        /\ said["indentRight"] = Tools!OrElse(asked.right, Tools!Num(0))
        /\ said["spacingBefore"] = Tools!OrElse(asked.before, Tools!Num(0))
        /\ said["spacingAfter"] = Tools!OrElse(asked.after, Tools!Num(0))
        /\ said["lineHeight"] = Tools!OrElse(asked.line, Tools!Num(10))
        /\ said["namedStyle"] = IF Tools!Is(asked.named, "string") THEN asked.named ELSE Tools!Null
    BY <1>3, SaidFields, PresentedFields
  <1> HIDE DEF said
  <1>6. /\ ~Tools!Is(Tools!Absent, "string") /\ ~Tools!Is(Tools!Absent, "number")
        /\ ~Tools!IsCount(Tools!Absent)
    BY Atoms DEF Tools!IsCount
  <1> DEFINE Attr(k) == A(k) # Tools!Absent /\ WellTyped(k, A(k)) => said[k] = A(k)
             Sty(k)  == A(k) = Tools!Absent /\ S(k) # Tools!Absent => said[k] = S(k)
  <1>7. Attr("align") /\ Sty("align")
    BY <1>4, <1>5, <1>6, StyleFields DEF Tools!FirstString, Tools!OrElse, WellTyped
  <1>8. Attr("listType") /\ Sty("listType")
    BY <1>4, <1>5, <1>6, StyleFields DEF Tools!FirstString, WellTyped
  <1>9. Attr("listLevel") /\ Sty("listLevel")
    <2>1. asked.level # Tools!Absent => said["listLevel"] = asked.level
      BY <1>1, <1>5 DEF asked
    <2> QED
      BY <1>4, <1>6, <2>1, StyleFields DEF Tools!FirstCount, WellTyped
  <1>10. Attr("indentLevel") /\ Sty("indentLevel")
    BY <1>4, <1>5, <1>6, StyleFields DEF Tools!IndentOf, WellTyped
  <1>11. /\ Attr("indentRight") /\ Sty("indentRight")
         /\ Attr("spacingBefore") /\ Sty("spacingBefore")
         /\ Attr("spacingAfter") /\ Sty("spacingAfter")
         /\ Attr("lineHeight") /\ Sty("lineHeight")
    BY <1>4, <1>5, StyleFields DEF Tools!FirstGiven, Tools!OrElse
  <1>12. Attr("namedStyle") /\ Sty("namedStyle")
    BY <1>4, <1>5, <1>6, StyleFields DEF Tools!FirstGiven, Tools!FirstString, WellTyped
  <1>13. \A k \in Shown : Attr(k) /\ Sty(k)
    BY <1>7, <1>8, <1>9, <1>10, <1>11, <1>12 DEF Shown
  <1>14. Shows(attrs, new)
    BY <1>13 DEF Shows, ShowsAttr, ShowsStyle, said, style
  <1>15. Tools!Is(attrs, "object") => Tools!Given(attrs)
    BY Atoms DEF Tools!Given
  <1> QED
    BY <1>1, <1>3, <1>14, <1>15 DEF Tools!KindOf, Tools!At, new, data, attrs

\* Data under the type "extension" is a payload nobody knows.
LEMMA ConvertedData ==
    ASSUME NEW kind, NEW payload, Tools!MigratedBlockData(kind, payload) # Tools!Refused
    PROVE  LET data == Tools!MigratedBlockData(kind, payload)
           IN  /\ Tools!Given(payload) /\ Tools!Field(data, "type") = Tools!Str("extension") =>
                     Tools!At(data, "data", "raw") = payload
               /\ ~Tools!Given(payload) => kind \notin Tools!StructuredTypes
               /\ Tools!Given(payload) /\ Tools!Field(payload, "type") \in Tools!StructuredTypes
                    /\ Tools!Field(payload, "data") # Tools!Absent =>
                     Tools!Field(data, "data") = Tools!Field(payload, "data")
  <1> DEFINE data == Tools!MigratedBlockData(kind, payload)
             type == Tools!Field(payload, "type")
  <1>1. ~Tools!Given(payload) => kind \notin Tools!StructuredTypes
    <2>1. ~Tools!Given(payload) =>
             data = IF kind \in Tools!StructuredTypes THEN Tools!Refused ELSE Tools!Obj([type |-> Tools!Str("none")])
      BY DEF Tools!MigratedBlockData
    <2> HIDE DEF data
    <2> QED
      BY <2>1 DEF data
  <1>2. Tools!Str("extension") \notin Tools!StructuredTypes
    BY Atoms DEF Tools!StructuredTypes
  <1>3. type \in Tools!StructuredTypes => Tools!Is(type, "string")
    BY Atoms DEF Tools!StructuredTypes
  <1>4. ASSUME Tools!Given(payload), type \in Tools!StructuredTypes
        PROVE  /\ Tools!Field(data, "type") = type
               /\ Tools!Field(payload, "data") # Tools!Absent
                    => Tools!Field(data, "data") = Tools!Field(payload, "data")
    <2>1. data = Tools!Obj([type |-> type, data |-> Tools!OrElse(Tools!Field(payload, "data"), Tools!Null)])
      BY <1>3, <1>4 DEF Tools!MigratedBlockData
    <2> HIDE DEF data
    <2> QED
      BY <2>1, Fields DEF Tools!OrElse
  <1>5. ASSUME Tools!Given(payload), type \notin Tools!StructuredTypes
        PROVE  Tools!At(data, "data", "raw") = payload
    <2>1. data = Tools!Obj([type |-> Tools!Str("extension"), data |-> Tools!Obj([typeId |-> kind, raw |-> payload])])
      BY <1>5 DEF Tools!MigratedBlockData
    <2> HIDE DEF data
    <2> QED
      BY <2>1, Fields DEF Tools!At
  <1> QED
    BY <1>1, <1>2, <1>4, <1>5

\* The attributes a block may have.
LEMMA Accepted ==
    ASSUME NEW kind, NEW a \in Tools!AcceptedAttrs(kind)
    PROVE  \/ a \in Tools!KnownAttrs
           \/ kind = Tools!Str("todo") /\ a = "checked"
           \/ kind = Tools!Str("link") /\ a = "url"
  <1> DEFINE todo == IF kind = Tools!Str("todo") THEN {"checked"} ELSE {}
             link == IF kind = Tools!Str("link") THEN {"url"} ELSE {}
  <1>1. a \in Tools!KnownAttrs \/ a \in todo \/ a \in link
    BY DEF Tools!AcceptedAttrs
  <1>2. a \in todo => kind = Tools!Str("todo") /\ a = "checked"
    <2>1. kind # Tools!Str("todo") => todo = {}
      OBVIOUS
    <2>2. kind = Tools!Str("todo") => todo = {"checked"}
      OBVIOUS
    <2> HIDE DEF todo
    <2> QED
      BY <2>1, <2>2
  <1>3. a \in link => kind = Tools!Str("link") /\ a = "url"
    <2>1. kind # Tools!Str("link") => link = {}
      OBVIOUS
    <2>2. kind = Tools!Str("link") => link = {"url"}
      OBVIOUS
    <2> HIDE DEF link
    <2> QED
      BY <2>1, <2>2
  <1> QED
    BY <1>1, <1>2, <1>3

\* A block that shows what the attrs of another, the same but for a tick and an address,
\* ask for is what became of that one.
LEMMA ShownIsAccounted ==
    ASSUME NEW old, NEW new, NEW attrs, Shows(attrs, new),
           \A k \in Tools!KnownAttrs : Tools!Field(attrs, k) = Tools!Field(Tools!Field(old, "attrs"), k),
           \A k \in Tools!AttrsOf(old) :
              \/ k \in Tools!KnownAttrs
              \/ /\ k \in {"checked", "url"}
                 /\ \/ Tools!Given(Tools!Field(old, "payload"))
                    \/ Tools!Field(Tools!At(new, "data", "data"), k) = Tools!Field(Tools!Field(old, "attrs"), k),
           Tools!Given(Tools!Field(old, "payload")) /\ Tools!At(new, "data", "type") = Tools!Str("extension") =>
              Tools!Field(Tools!At(new, "data", "data"), "raw") \in
                 {Tools!Field(old, "payload"), Tools!Field(Tools!MigratedRows(old), "payload")}
    PROVE  Tools!BlockIsAccounted(old, new)
  <1> DEFINE before == Tools!Field(old, "attrs")
             style  == Tools!StyleSays(Tools!Field(before, "paragraphStyle"))
             said   == Tools!SaidBy(new)
  <1>1. /\ \A k \in Tools!AttrsOf(old) : Tools!Field(before, k) # Tools!Absent
        /\ \A k : k \notin Tools!AttrsOf(old) => Tools!Field(before, k) = Tools!Absent
    <2>1. CASE Tools!Is(before, "object")
      <3>1. Tools!AttrsOf(old) = {k \in DOMAIN before.object : Tools!Field(before, k) # Tools!Absent}
        BY <2>1 DEF Tools!AttrsOf
      <3>2. \A k : k \notin DOMAIN before.object => Tools!Field(before, k) = Tools!Absent
        BY DEF Tools!Field
      <3> QED
        BY <3>1, <3>2
    <2>2. CASE ~Tools!Is(before, "object")
      BY <2>2 DEF Tools!AttrsOf, Tools!Field
    <2> QED
      BY <2>1, <2>2
  <1>2. Tools!KnownAttrs = Shown \cup {"paragraphStyle"} /\ "paragraphStyle" \notin Shown
    BY DEF Tools!KnownAttrs, Shown
  <1>3. Tools!Field(attrs, "paragraphStyle") = Tools!Field(before, "paragraphStyle")
          /\ \A k \in Shown : Tools!Field(attrs, k) = Tools!Field(before, k)
    BY <1>2
  <1>4. DOMAIN said = Shown \cup {"checked", "url"} /\ DOMAIN style = Shown
    BY SaidFields, StyleFields
  <1>5. \A k \in {"checked", "url"} : said[k] = Tools!Field(Tools!At(new, "data", "data"), k)
    BY SaidFields
  <1> HIDE DEF said, before, style
  <1>6. ASSUME NEW k \in Tools!AttrsOf(old) \ ({"paragraphStyle"} \cup Tools!UnsaidAttrs(old))
        PROVE  k \in DOMAIN said /\ said[k] = Tools!Field(before, k)
    <2>1. CASE k \in Shown
      <3>1. WellTyped(k, Tools!Field(before, k))
        BY <1>6 DEF WellTyped, Tools!UnsaidAttrs, before
      <3>2. ShowsAttr(attrs, k, new)
        BY <2>1 DEF Shows
      <3> QED
        BY <1>1, <1>3, <1>4, <1>6, <2>1, <3>1, <3>2 DEF ShowsAttr, said
    <2>2. CASE k \in {"checked", "url"} /\ k \notin Tools!KnownAttrs
      <3>1. ~Tools!Given(Tools!Field(old, "payload"))
        BY <1>6, <2>2 DEF Tools!UnsaidAttrs
      <3> QED
        BY <1>4, <1>5, <1>6, <2>2, <3>1 DEF before
    <2> QED
      BY <1>2, <1>6, <2>1, <2>2
  <1>7. ASSUME NEW k \in DOMAIN style \ Tools!AttrsOf(old), style[k] # Tools!Absent
        PROVE  said[k] = style[k]
    <2>1. ShowsStyle(attrs, k, new)
      BY <1>4, <1>7 DEF Shows
    <2> QED
      BY <1>1, <1>3, <1>4, <1>7, <2>1 DEF ShowsStyle, said, style
  <1> QED
    BY <1>6, <1>7 DEF Tools!BlockIsAccounted, said, before, style

\* A block of version 3 is accounted for; so is one of before by what it became then.
LEMMA ThirdIsAccounted ==
    ASSUME NEW old, NEW block, Tools!MigratedV3Block(block) # Tools!Refused,
           \/ Tools!Field(block, "payload") = Tools!Field(old, "payload")
           \/ Tools!Field(block, "payload") = Tools!Field(Tools!MigratedRows(old), "payload"),
           Tools!Given(Tools!Field(block, "payload")) <=> Tools!Given(Tools!Field(old, "payload")),
           Tools!Field(block, "attrs") = Tools!Field(old, "attrs"),
           Tools!KindOf(block) = Tools!KindOf(old)
    PROVE  Tools!BlockIsAccounted(old, Tools!MigratedV3Block(block))
  <1> DEFINE new     == Tools!MigratedV3Block(block)
             attrs   == Tools!Field(old, "attrs")
             payload == Tools!Field(block, "payload")
  <1>1. /\ Tools!Field(new, "data") = Tools!MigratedBlockData(Tools!KindOf(block), payload)
             /\ Tools!Field(new, "data") # Tools!Refused
        /\ Tools!Is(attrs, "object")
             => DOMAIN attrs.object \subseteq Tools!AcceptedAttrs(Tools!KindOf(block))
        /\ Shows(attrs, new)
    BY ConvertedBlock
  <1> HIDE DEF new
  <1>2. Tools!Given(payload) /\ Tools!At(new, "data", "type") = Tools!Str("extension")
          => Tools!Field(Tools!At(new, "data", "data"), "raw") = payload
    BY <1>1, ConvertedData DEF Tools!At
  <1>3. ASSUME NEW k \in Tools!AttrsOf(old)
        PROVE  k \in Tools!KnownAttrs \/ (k \in {"checked", "url"} /\ Tools!Given(payload))
    <2>1. Tools!Is(attrs, "object") /\ k \in DOMAIN attrs.object
      BY <1>3 DEF Tools!AttrsOf
    <2>2. \/ k \in Tools!KnownAttrs
          \/ k \in {"checked", "url"} /\ Tools!KindOf(block) \in {Tools!Str("todo"), Tools!Str("link")}
      <3> HIDE DEF attrs
      <3> QED
        BY <1>1, <2>1, Accepted
    <2>3. Tools!KindOf(block) \in {Tools!Str("todo"), Tools!Str("link")} => Tools!Given(payload)
      <3>1. {Tools!Str("todo"), Tools!Str("link")} \subseteq Tools!StructuredTypes
        BY DEF Tools!StructuredTypes
      <3> QED
        BY <1>1, <3>1, ConvertedData
    <2> QED
      BY <2>2, <2>3
  <1> HIDE DEF payload
  <1>4. payload \in {Tools!Field(old, "payload"), Tools!Field(Tools!MigratedRows(old), "payload")}
          /\ (Tools!Given(payload) <=> Tools!Given(Tools!Field(old, "payload")))
    BY DEF payload
  <1> QED
    BY <1>1, <1>2, <1>3, <1>4, ShownIsAccounted DEF new

\* Turning the attributes of runs into styles leaves a block's own alone.
LEMMA StyledBlock ==
    ASSUME NEW block, Tools!MigratedInlineStyles(block) # Tools!Refused
    PROVE  LET new == Tools!MigratedInlineStyles(block)
           IN  /\ Tools!Is(block, "object") /\ Tools!Is(new, "object")
               /\ Tools!Field(new, "attrs") = Tools!Field(block, "attrs")
                    /\ Tools!KindOf(new) = Tools!KindOf(block)
               /\ Tools!Field(new, "payload") = Tools!Field(Tools!MigratedRows(block), "payload")
               /\ Tools!Given(Tools!Field(new, "payload")) <=> Tools!Given(Tools!Field(block, "payload"))
  <1> DEFINE styled == Tools!MigratedContent(block)
             new    == Tools!MigratedInlineStyles(block)
             rows(b) == Tools!Field(Tools!Data(b), "rows")
             list(b) == Tools!AllOf([i \in DOMAIN rows(b).list |-> Tools!MigratedCells(rows(b).list[i])])
  <1>1. Tools!Is(block, "object") /\ styled # Tools!Refused /\ new = Tools!MigratedRows(styled)
    BY DEF Tools!MigratedInlineStyles
  <1>2. /\ Tools!Is(styled, "object")
        /\ \A k \in {"attrs", "payload", "kind"} : Tools!Field(styled, k) = Tools!Field(block, k)
    <2>1. \/ styled = block
          \/ styled = Tools!With(block, "content", Tools!MigratedRichText(Tools!Field(block, "content")))
      BY <1>1 DEF Tools!MigratedContent, Tools!Rewritten
    <2> HIDE DEF styled
    <2> QED
      BY <1>1, <2>1, Fields
  <1> HIDE DEF styled, new
  <1>3. Tools!Data(styled) = Tools!Data(block)
    BY <1>2 DEF Tools!Data, Tools!At
  <1>4. CASE ~Tools!Is(rows(block), "list")
    <2>1. new = styled /\ Tools!MigratedRows(block) = block
      BY <1>1, <1>3, <1>4 DEF Tools!MigratedRows
    <2> QED
      BY <1>1, <1>2, <2>1 DEF Tools!KindOf, Tools!At, new
  <1>5. CASE Tools!Is(rows(block), "list")
    <2> DEFINE data == Tools!Rewritten(Tools!Data(block), "rows", list(block))
               payload == Tools!With(Tools!Field(block, "payload"), "data", data)
    <2>1. Tools!MigratedRows(block) = Tools!WithData(block, data)
            /\ new = Tools!WithData(styled, data)
      BY <1>1, <1>3, <1>5 DEF Tools!MigratedRows
    <2> HIDE DEF data
    <2>2. data # Tools!Refused
      BY <1>1, <2>1 DEF Tools!WithData, new
    <2>3. Tools!MigratedRows(block) = Tools!With(block, "payload", payload)
            /\ new = Tools!With(styled, "payload", payload)
      BY <1>2, <2>1, <2>2 DEF Tools!WithData
    <2>4. Tools!Given(payload)
      <3>1. Tools!Is(payload, "object")
        BY Fields
      <3> HIDE DEF payload
      <3> QED
        BY <3>1, Atoms DEF Tools!Given
    <2>5. Tools!Given(Tools!Field(block, "payload"))
      <3>1. Tools!Is(Tools!Field(block, "payload"), "object")
        <4>1. rows(block) # Tools!Absent
          BY <1>5, Atoms
        <4>2. Tools!Data(block) # Tools!Absent
          BY <4>1, Fields, Atoms
        <4> QED
          BY <4>2, Fields DEF Tools!Data, Tools!At
      <3> QED
        BY <3>1, Atoms DEF Tools!Given
    <2> HIDE DEF payload
    <2> QED
      BY <1>1, <1>2, <2>3, <2>4, <2>5, Fields DEF Tools!KindOf, Tools!At, new
  <1> QED
    BY <1>4, <1>5


\* A table's data is a table's, whatever its merged ranges.
LEMMA TableIsAccounted ==
    ASSUME NEW old, NEW block, Tools!MigratedV3Block(block) # Tools!Refused,
           LET new == Tools!MigratedV3Block(block) IN Tools!Suits(Tools!KindOf(new), Tools!Field(new, "data")),
           Tools!Field(block, "attrs") = Tools!Field(old, "attrs"),
           Tools!KindOf(block) = Tools!Str("table"), Tools!Given(Tools!Field(old, "payload"))
    PROVE  Tools!BlockIsAccounted(old, Tools!MigratedV3Block(block))
  <1> DEFINE new   == Tools!MigratedV3Block(block)
             attrs == Tools!Field(old, "attrs")
  <1>1. /\ Tools!KindOf(new) = Tools!Str("table")
        /\ Tools!Is(attrs, "object") => DOMAIN attrs.object \subseteq Tools!AcceptedAttrs(Tools!Str("table"))
        /\ Shows(attrs, new)
    BY ConvertedBlock
  <1> HIDE DEF new
  <1>2. Tools!Str("table") \in Tools!StructuredTypes /\ Tools!Str("table") # Tools!Str("extension")
    BY Atoms DEF Tools!StructuredTypes
  <1>3. Tools!Field(Tools!Field(new, "data"), "type") = Tools!Str("table")
    <2>1. Tools!Suits(Tools!Str("table"), Tools!Field(new, "data"))
      BY <1>1 DEF new
    <2>2. Tools!Str("table") \notin Tools!TextTypes
      BY Atoms DEF Tools!TextTypes
    <2> QED
      BY <2>1, <2>2, <1>2 DEF Tools!Suits
  <1>4. ASSUME NEW k \in Tools!AttrsOf(old) PROVE k \in Tools!KnownAttrs
    <2>1. Tools!Is(attrs, "object") /\ k \in DOMAIN attrs.object
      BY <1>4 DEF Tools!AttrsOf
    <2>2. Tools!Str("table") # Tools!Str("todo") /\ Tools!Str("table") # Tools!Str("link")
      BY Atoms
    <2> HIDE DEF attrs
    <2> QED
      BY <1>1, <2>1, <2>2, Accepted
  <1>5. Tools!At(new, "data", "type") # Tools!Str("extension")
    BY <1>2, <1>3 DEF Tools!At
  <1> QED
    BY <1>1, <1>4, <1>5, ShownIsAccounted DEF new

\* What a bare block had in its attributes is in its data.
LEMMA BareIsAccounted ==
    ASSUME NEW old, NEW block, NEW type, NEW f, Tools!MigratedV3Block(block) # Tools!Refused,
           Tools!KindOf(block) = Tools!Str(type), Tools!KindOf(old) = Tools!Str(type), Tools!Str(type) \in Tools!StructuredTypes,
           Tools!Field(block, "payload") = Tools!Obj([type |-> Tools!Str(type), data |-> Tools!Obj(f)]),
           ~Tools!Given(Tools!Field(old, "payload")),
           \A key :
              \/ Tools!Field(Tools!Field(block, "attrs"), key) = Tools!Field(Tools!Field(old, "attrs"), key)
              \/ key \in {"checked", "url"}
                   /\ Tools!Field(Tools!Obj(f), key) = Tools!Field(Tools!Field(old, "attrs"), key),
           /\ type \notin {"todo", "link"}
                => Tools!Field(block, "attrs") = Tools!Field(old, "attrs")
           /\ type = "todo" => \/ Tools!Field(Tools!Field(old, "attrs"), "checked") = Tools!Absent
                               \/ Tools!Field(Tools!Obj(f), "checked") = Tools!Field(Tools!Field(old, "attrs"), "checked")
           /\ type = "link" => Tools!Field(Tools!Obj(f), "url") = Tools!Field(Tools!Field(old, "attrs"), "url")
    PROVE  Tools!BlockIsAccounted(old, Tools!MigratedV3Block(block))
  <1> DEFINE new     == Tools!MigratedV3Block(block)
             attrs   == Tools!Field(block, "attrs")
             before  == Tools!Field(old, "attrs")
             payload == Tools!Field(block, "payload")
  <1>1. /\ Tools!Field(new, "data") = Tools!MigratedBlockData(Tools!KindOf(block), payload)
             /\ Tools!Field(new, "data") # Tools!Refused
        /\ Tools!Is(attrs, "object")
             => DOMAIN attrs.object \subseteq Tools!AcceptedAttrs(Tools!KindOf(block))
        /\ Shows(attrs, new)
    BY ConvertedBlock
  <1> HIDE DEF new
  <1>2. \A k \in Tools!KnownAttrs : Tools!Field(attrs, k) = Tools!Field(before, k)
    BY DEF Tools!KnownAttrs
  <1>3. /\ Tools!Given(payload) /\ Tools!Field(payload, "type") = Tools!Str(type)
             /\ Tools!Field(payload, "data") = Tools!Obj(f)
        /\ Tools!Field(payload, "data") # Tools!Absent
    <2>1. Tools!Is(payload, "object")
      BY Fields
    <2> QED
      BY <2>1, Fields, Atoms DEF Tools!Given
  <1>4. Tools!At(new, "data", "data") = Tools!Obj(f)
    BY <1>1, <1>3, ConvertedData DEF Tools!At
  <1>5. ASSUME NEW key \in {"checked", "url"}, Tools!Field(before, key) # Tools!Absent
        PROVE  Tools!Field(Tools!Obj(f), key) = Tools!Field(before, key)
    <2>1. CASE Tools!Field(attrs, key) = Tools!Field(before, key)
      <3>1. key \in Tools!AcceptedAttrs(Tools!Str(type))
        BY <1>1, <1>5, <2>1 DEF Tools!Field
      <3>2. (key = "checked" /\ Tools!Str(type) = Tools!Str("todo"))
              \/ (key = "url" /\ Tools!Str(type) = Tools!Str("link"))
        <4>1. key \notin Tools!KnownAttrs /\ "checked" # "url"
          BY DEF Tools!KnownAttrs
        <4> QED
          BY <1>5, <3>1, <4>1, Accepted
      <3>3. (key = "checked" /\ type = "todo") \/ (key = "url" /\ type = "link")
        BY <3>2, Atoms
      <3> QED
        BY <3>3, <1>5
    <2> QED
      BY <2>1, <1>5
  <1>6. ASSUME NEW k \in Tools!AttrsOf(old)
        PROVE  \/ k \in Tools!KnownAttrs
               \/ k \in {"checked", "url"} /\ Tools!Field(Tools!Obj(f), k) = Tools!Field(before, k)
    <2>1. Tools!Field(before, k) # Tools!Absent
      BY <1>6 DEF Tools!AttrsOf
    <2>2. CASE Tools!Field(attrs, k) = Tools!Field(before, k)
      <3>1. k \in Tools!AcceptedAttrs(Tools!Str(type))
        BY <1>1, <2>1, <2>2 DEF Tools!Field
      <3>2. k \in Tools!KnownAttrs \cup {"checked", "url"}
        BY <3>1, Accepted
      <3> QED
        BY <1>5, <2>1, <3>2
    <2>3. CASE Tools!Field(attrs, k) # Tools!Field(before, k)
      BY <2>3
    <2> QED
      BY <2>2, <2>3
  <1> HIDE DEF attrs, before
  <1> QED
    BY <1>1, <1>2, <1>4, <1>6, ShownIsAccounted DEF new, attrs, before

\* The blocks of version 1.
LEMMA FirstIsAccounted ==
    ASSUME NEW old, Tools!MigratedDocumentBlock(old) # Tools!Refused,
           Tools!MigratedV3Block(Tools!MigratedDocumentBlock(old)) # Tools!Refused,
           LET new == Tools!MigratedV3Block(Tools!MigratedDocumentBlock(old)) IN Tools!Suits(Tools!KindOf(new), Tools!Field(new, "data"))
    PROVE  Tools!BlockIsAccounted(old, Tools!MigratedV3Block(Tools!MigratedDocumentBlock(old)))
  <1> DEFINE styled  == Tools!MigratedInlineStyles(old)
             typed   == Tools!MigratedDocumentBlock(old)
             bare    == ~Tools!Given(Tools!Field(styled, "payload"))
             attrs   == Tools!Field(styled, "attrs")
             tick == Tools!At(styled, "attrs", "checked")
             url     == Tools!At(styled, "attrs", "url")
             kind    == Tools!KindOf(styled)
  <1>0. typed = Tools!TypedBlock(styled)
    BY DEF Tools!MigratedDocumentBlock
  <1>1. styled # Tools!Refused
    <2>1. ~Tools!Is(Tools!KindOf(Tools!Refused), "string")
      BY Atoms DEF Tools!KindOf, Tools!At, Tools!Field
    <2>2. Tools!TypedBlock(Tools!Refused) = Tools!Refused
      BY <2>1 DEF Tools!TypedBlock
    <2> QED
      BY <1>0, <2>2
  <1>2. /\ Tools!Is(styled, "object") /\ attrs = Tools!Field(old, "attrs")
             /\ kind = Tools!KindOf(old)
        /\ Tools!Field(styled, "payload") = Tools!Field(Tools!MigratedRows(old), "payload")
        /\ Tools!Given(Tools!Field(styled, "payload")) <=> Tools!Given(Tools!Field(old, "payload"))
    BY <1>1, StyledBlock
  <1> HIDE DEF styled, typed
  <1>3. Tools!Is(kind, "string")
    BY <1>0 DEF Tools!TypedBlock, typed
  <1>4. CASE typed = styled
    BY <1>2, <1>4, ThirdIsAccounted DEF typed
  <1>5. ASSUME kind = Tools!Str("table") PROVE typed = styled
                 \/ Tools!BlockIsAccounted(old, Tools!MigratedV3Block(typed))
    <2>1. typed = IF Tools!Is(Tools!Data(styled), "object") THEN Tools!WithMergedRanges(styled) ELSE styled
      BY <1>0, <1>3, <1>5, Atoms DEF Tools!TypedBlock
    <2>2. CASE Tools!Is(Tools!Data(styled), "object")
      <3> DEFINE p == Tools!With(Tools!Field(styled, "payload"), "data",
                           Tools!Default(Tools!Data(styled), "mergedRanges", Tools!List(<<>>)))
      <3>1. typed = Tools!With(styled, "payload", p)
        BY <2>1, <2>2 DEF Tools!WithMergedRanges
      <3> HIDE DEF p
      <3>2. Tools!Field(typed, "attrs") = attrs /\ Tools!KindOf(typed) = kind
        BY <1>2, <3>1, Fields DEF Tools!KindOf, Tools!At
      <3>3. Tools!Given(Tools!Field(styled, "payload"))
        <4>1. Tools!Data(styled) # Tools!Absent
          BY <2>2, Atoms
        <4>2. Tools!Is(Tools!Field(styled, "payload"), "object")
          BY <4>1, Fields DEF Tools!Data, Tools!At
        <4> QED
          BY <4>2, Atoms DEF Tools!Given
      <3> QED
        BY <1>2, <1>5, <3>2, <3>3, TableIsAccounted DEF typed
    <2> QED
      BY <2>1, <2>2
  \* A block given a payload of its own.
  <1>6. ASSUME NEW type, NEW f, NEW b, Tools!Str(type) \in Tools!StructuredTypes, bare, kind = Tools!Str(type),
               typed = Tools!With(b, "payload", Tools!Obj([type |-> Tools!Str(type), data |-> Tools!Obj(f)])),
               Tools!Is(b, "object"), Tools!KindOf(b) = kind
        PROVE  /\ Tools!Field(typed, "attrs") = Tools!Field(b, "attrs")
                    /\ Tools!KindOf(typed) = kind
               /\ Tools!Field(typed, "payload") = Tools!Obj([type |-> Tools!Str(type), data |-> Tools!Obj(f)])
    BY <1>6, Fields DEF Tools!KindOf, Tools!At
  <1>7. ASSUME NEW key, NEW b, b = Tools!WithoutAttr(styled, key)
        PROVE  /\ Tools!Is(b, "object") /\ Tools!KindOf(b) = kind
               /\ \A k : k # key => Tools!Field(Tools!Field(b, "attrs"), k) = Tools!Field(attrs, k)
               /\ Tools!Field(Tools!Field(b, "attrs"), key) = Tools!Absent
    <2>1. CASE ~Tools!Is(attrs, "object")
      BY <1>2, <1>7, <2>1, Fields DEF Tools!WithoutAttr
    <2>2. CASE Tools!Is(attrs, "object")
      <3> DEFINE less == Tools!Without(attrs, key)
      <3>1. b = Tools!With(styled, "attrs", less)
        BY <1>7, <2>2 DEF Tools!WithoutAttr
      <3>2. Tools!Field(less, key) = Tools!Absent /\ \A k : k # key
              => Tools!Field(less, k) = Tools!Field(attrs, k)
        <4> DEFINE g == [k \in DOMAIN attrs.object \ {key} |-> attrs.object[k]]
        <4>1. less = Tools!Obj(g)
          BY DEF Tools!Without
        <4>2. DOMAIN g = DOMAIN attrs.object \ {key} /\ \A k \in DOMAIN g : g[k] = attrs.object[k]
          OBVIOUS
        <4> HIDE DEF g, less
        <4> QED
          BY <2>2, <4>1, <4>2, Fields DEF Tools!Field
      <3> HIDE DEF less
      <3> QED
        BY <1>2, <3>1, <3>2, Fields DEF Tools!KindOf, Tools!At
    <2> QED
      BY <2>1, <2>2
  <1>8. ASSUME kind = Tools!Str("todo"), bare PROVE Tools!BlockIsAccounted(old, Tools!MigratedV3Block(typed))
    <2> DEFINE c == IF tick = Tools!Absent THEN Tools!Bool(FALSE) ELSE tick
               f == [checked |-> c]
               b == Tools!WithoutAttr(styled, "checked")
    <2>1. typed = Tools!WithPayload(b, "todo", Tools!Obj(f))
      BY <1>0, <1>3, <1>8, Atoms DEF Tools!TypedBlock, typed
    <2>2. typed = Tools!With(b, "payload", Tools!Obj([type |-> Tools!Str("todo"), data |-> Tools!Obj(f)]))
      BY <2>1 DEF Tools!WithPayload
    <2>3. Tools!Str("todo") \in Tools!StructuredTypes
      BY DEF Tools!StructuredTypes
    <2>4. Tools!Field(Tools!Obj(f), "checked") = c
      BY Fields
    <2>5. /\ Tools!Is(b, "object") /\ Tools!KindOf(b) = kind
          /\ \A k : k # "checked" => Tools!Field(Tools!Field(b, "attrs"), k) = Tools!Field(attrs, k)
          /\ Tools!Field(Tools!Field(b, "attrs"), "checked") = Tools!Absent
      BY <1>7
    <2> HIDE DEF b, f
    <2>6. /\ Tools!Field(typed, "attrs") = Tools!Field(b, "attrs") /\ Tools!KindOf(typed) = kind
          /\ Tools!Field(typed, "payload") = Tools!Obj([type |-> Tools!Str("todo"), data |-> Tools!Obj(f)])
      BY <1>6, <1>8, <2>2, <2>3, <2>5
    <2>7. \/ Tools!Field(Tools!Field(old, "attrs"), "checked") = Tools!Absent
          \/ Tools!Field(Tools!Obj(f), "checked") = Tools!Field(Tools!Field(old, "attrs"), "checked")
      BY <1>2, <2>4 DEF Tools!At
    <2>8. \A key :
             \/ Tools!Field(Tools!Field(typed, "attrs"), key) = Tools!Field(Tools!Field(old, "attrs"), key)
             \/ key \in {"checked", "url"}
                  /\ Tools!Field(Tools!Obj(f), key) = Tools!Field(Tools!Field(old, "attrs"), key)
      BY <1>2, <2>5, <2>6, <2>7
    <2> QED
      BY <1>2, <1>8, <2>3, <2>6, <2>7, <2>8, BareIsAccounted DEF typed
  <1>9. ASSUME kind = Tools!Str("code"), bare PROVE Tools!BlockIsAccounted(old, Tools!MigratedV3Block(typed))
    <2> DEFINE f == [language |-> Tools!Null, wrap |-> Tools!Bool(FALSE)]
    <2>1. typed = Tools!With(styled, "payload", Tools!Obj([type |-> Tools!Str("code"), data |-> Tools!Obj(f)]))
      BY <1>0, <1>3, <1>9, Atoms DEF Tools!TypedBlock, typed, Tools!WithPayload, Tools!CodeDefaults
    <2>2. Tools!Str("code") \in Tools!StructuredTypes
      BY DEF Tools!StructuredTypes
    <2> HIDE DEF f
    <2>3. /\ Tools!Field(typed, "attrs") = attrs /\ Tools!KindOf(typed) = kind
          /\ Tools!Field(typed, "payload") = Tools!Obj([type |-> Tools!Str("code"), data |-> Tools!Obj(f)])
      BY <1>2, <1>6, <1>9, <2>1, <2>2
    <2> QED
      BY <1>2, <1>9, <2>2, <2>3, BareIsAccounted DEF typed
  <1>10. ASSUME kind = Tools!Str("link"), bare PROVE Tools!BlockIsAccounted(old, Tools!MigratedV3Block(typed))
    <2> DEFINE f == [url |-> url]
               b == Tools!WithoutAttr(styled, "url")
    <2>1. typed = Tools!WithPayload(b, "link", Tools!Obj(f))
      BY <1>0, <1>3, <1>10, Atoms DEF Tools!TypedBlock, typed
    <2>2. typed = Tools!With(b, "payload", Tools!Obj([type |-> Tools!Str("link"), data |-> Tools!Obj(f)]))
      BY <2>1 DEF Tools!WithPayload
    <2>3. Tools!Str("link") \in Tools!StructuredTypes
      BY DEF Tools!StructuredTypes
    <2>4. Tools!Field(Tools!Obj(f), "url") = url
      BY Fields
    <2>5. /\ Tools!Is(b, "object") /\ Tools!KindOf(b) = kind
          /\ \A k : k # "url" => Tools!Field(Tools!Field(b, "attrs"), k) = Tools!Field(attrs, k)
      BY <1>7
    <2> HIDE DEF b, f
    <2>6. /\ Tools!Field(typed, "attrs") = Tools!Field(b, "attrs") /\ Tools!KindOf(typed) = kind
          /\ Tools!Field(typed, "payload") = Tools!Obj([type |-> Tools!Str("link"), data |-> Tools!Obj(f)])
      BY <1>6, <1>10, <2>2, <2>3, <2>5
    <2>7. Tools!Field(Tools!Obj(f), "url") = Tools!Field(Tools!Field(old, "attrs"), "url")
      BY <1>2, <2>4 DEF Tools!At
    <2>8. \A key :
             \/ Tools!Field(Tools!Field(typed, "attrs"), key) = Tools!Field(Tools!Field(old, "attrs"), key)
             \/ key \in {"checked", "url"}
                  /\ Tools!Field(Tools!Obj(f), key) = Tools!Field(Tools!Field(old, "attrs"), key)
      BY <1>2, <2>5, <2>6, <2>7
    <2> QED
      BY <1>2, <1>10, <2>3, <2>6, <2>7, <2>8, BareIsAccounted DEF typed
  <1>11. \/ typed = styled
         \/ kind = Tools!Str("table")
         \/ bare /\ kind \in {Tools!Str("todo"), Tools!Str("code"), Tools!Str("link")}
    BY <1>0, <1>3 DEF Tools!TypedBlock
  <1> QED
    BY <1>4, <1>5, <1>8, <1>9, <1>10, <1>11 DEF typed

\* The blocks of version 2.
LEMMA SecondIsAccounted ==
    ASSUME NEW old, Tools!MigratedV2Block(old) # Tools!Refused,
           Tools!MigratedV3Block(Tools!MigratedV2Block(old)) # Tools!Refused,
           LET new == Tools!MigratedV3Block(Tools!MigratedV2Block(old)) IN Tools!Suits(Tools!KindOf(new), Tools!Field(new, "data"))
    PROVE  Tools!BlockIsAccounted(old, Tools!MigratedV3Block(Tools!MigratedV2Block(old)))
  <1> DEFINE styled == Tools!MigratedInlineStyles(old)
             typed  == Tools!MigratedV2Block(old)
             p == Tools!With(Tools!Field(styled, "payload"), "data",
                       Tools!Default(Tools!Data(styled), "mergedRanges", Tools!List(<<>>)))
  <1>1. /\ typed = Tools!MergeableTable(styled) /\ styled # Tools!Refused
        /\ \/ typed = styled
           \/ /\ Tools!KindOf(styled) = Tools!Str("table") /\ Tools!Is(Tools!Data(styled), "object")
              /\ typed = Tools!With(styled, "payload", p)
    BY DEF Tools!MigratedV2Block, Tools!MergeableTable, Tools!WithMergedRanges
  <1>2. /\ Tools!Is(styled, "object") /\ Tools!Field(styled, "attrs") = Tools!Field(old, "attrs")
             /\ Tools!KindOf(styled) = Tools!KindOf(old)
        /\ Tools!Field(styled, "payload") = Tools!Field(Tools!MigratedRows(old), "payload")
        /\ Tools!Given(Tools!Field(styled, "payload")) <=> Tools!Given(Tools!Field(old, "payload"))
    BY <1>1, StyledBlock
  <1> HIDE DEF styled, typed, p
  <1>3. CASE typed = styled
    BY <1>2, <1>3, ThirdIsAccounted DEF typed
  <1>4. CASE Tools!KindOf(styled) = Tools!Str("table") /\ Tools!Is(Tools!Data(styled), "object")
               /\ typed = Tools!With(styled, "payload", p)
    <2>1. Tools!Field(typed, "attrs") = Tools!Field(old, "attrs")
            /\ Tools!KindOf(typed) = Tools!Str("table")
      BY <1>2, <1>4, Fields DEF Tools!KindOf, Tools!At
    <2>2. Tools!Given(Tools!Field(styled, "payload"))
      <3>1. Tools!Data(styled) # Tools!Absent
        BY <1>4, Atoms
      <3>2. Tools!Is(Tools!Field(styled, "payload"), "object")
        BY <3>1, Fields DEF Tools!Data, Tools!At
      <3> QED
        BY <3>2, Atoms DEF Tools!Given
    <2> QED
      BY <1>2, <2>1, <2>2, TableIsAccounted DEF typed
  <1> QED
    BY <1>1, <1>3, <1>4


BlocksOf(raw) == Tools!Field(Tools!Data(raw), "blocks")

\* A document of a version, whose steps are the chain's.
IsDocumentOf(raw, v0) ==
    Tools!IsDocument(raw) /\ Tools!Field(raw, "schemaVersion") = Tools!Num(10 * v0)

LEMMA DataOf ==
    ASSUME NEW raw, NEW data, Tools!IsDocument(raw), Tools!Is(data, "object")
    PROVE  LET new == Tools!WithData(raw, data)
           IN  /\ Tools!IsDocument(new) /\ Tools!Data(new) = data /\ new # Tools!Refused
               /\ \A k : k # "payload" => Tools!Field(new, k) = Tools!Field(raw, k)
  <1> DEFINE p == Tools!With(Tools!Field(raw, "payload"), "data", data)
             new == Tools!WithData(raw, data)
  <1>1. Tools!Is(Tools!Field(raw, "payload"), "object") /\ Tools!Is(raw, "object")
    <2>1. Tools!At(raw, "payload", "kind") # Tools!Absent
      BY Atoms DEF Tools!IsDocument
    <2>2. Tools!Is(Tools!Field(raw, "payload"), "object")
      BY <2>1, Fields DEF Tools!At
    <2> QED
      BY <2>2, Fields, Atoms
  <1>2. data # Tools!Refused
    BY Atoms
  <1>3. new = Tools!With(raw, "payload", p)
    BY <1>2 DEF Tools!WithData
  <1>4. Tools!Field(p, "data") = data
          /\ Tools!Field(p, "kind") = Tools!Field(Tools!Field(raw, "payload"), "kind")
    BY <1>1, Fields
  <1> HIDE DEF p, new
  <1>5. Tools!Field(new, "payload") = p /\ new # Tools!Refused /\ \A k : k # "payload"
          => Tools!Field(new, k) = Tools!Field(raw, k)
    BY <1>1, <1>3, Fields
  <1> QED
    BY <1>4, <1>5 DEF Tools!IsDocument, Tools!Data, Tools!At, new

\* The version is written last, over whatever was done.
LEMMA VersionWritten ==
    ASSUME NEW raw, NEW n, Tools!IsDocument(raw)
    PROVE  LET new == Tools!With(raw, "schemaVersion", n)
           IN  /\ Tools!IsDocument(new) /\ Tools!Data(new) = Tools!Data(raw)
                    /\ Tools!Field(new, "schemaVersion") = n
               /\ Tools!Field(new, "kind") = Tools!Field(raw, "kind")
  <1> DEFINE new == Tools!With(raw, "schemaVersion", n)
  <1>1. Tools!Is(raw, "object")
    <2>1. Tools!At(raw, "payload", "kind") # Tools!Absent
      BY Atoms DEF Tools!IsDocument
    <2> QED
      BY <2>1, Fields, Atoms DEF Tools!At
  <1>2. Tools!Field(new, "payload") = Tools!Field(raw, "payload")
          /\ Tools!Field(new, "schemaVersion") = n
               /\ Tools!Field(new, "kind") = Tools!Field(raw, "kind")
    BY <1>1, Fields
  <1> HIDE DEF new
  <1> QED
    BY <1>2 DEF Tools!IsDocument, Tools!Data, Tools!At, new

\* A step over the blocks converts every one of them.
LEMMA BlocksAreLifted ==
    ASSUME NEW raw, NEW v \in {1, 2, 3}, IsDocumentOf(raw, v), Tools!Lifted(raw, v) # Tools!Refused
    PROVE  LET new == Tools!Lifted(raw, v)
               old == BlocksOf(raw).list
           IN  /\ IsDocumentOf(new, Tools!NextVersion(v))
               /\ BlocksOf(new) = Tools!List([i \in DOMAIN old |-> Tools!MigratedBlock(v, old[i])])
               /\ \A i \in DOMAIN old : Tools!MigratedBlock(v, old[i]) # Tools!Refused
  <1> DEFINE new  == Tools!Lifted(raw, v)
             old  == BlocksOf(raw).list
             made == [i \in DOMAIN old |-> Tools!MigratedBlock(v, old[i])]
             data == Tools!Rewritten(Tools!Data(raw), "blocks", Tools!AllOf(made))
             n    == Tools!Num(10 * Tools!NextVersion(v))
  <1>1. Tools!Added(v, raw) = Tools!WithBlocks(v, raw)
    BY DEF Tools!Added
  <1>2. Tools!WithBlocks(v, raw) # Tools!Refused
          /\ new = Tools!With(Tools!WithBlocks(v, raw), "schemaVersion", n)
    <2>1. new = Tools!Rewritten(Tools!WithBlocks(v, raw), "schemaVersion", n)
      BY <1>1 DEF Tools!Lifted, IsDocumentOf
    <2>2. new # Tools!Refused
      OBVIOUS
    <2> HIDE DEF new, n
    <2> QED
      BY <2>1, <2>2 DEF Tools!Rewritten
  <1>3. Tools!WithBlocks(v, raw) = Tools!WithData(raw, data)
    BY <1>2 DEF Tools!WithBlocks, IsDocumentOf, BlocksOf
  <1> HIDE DEF new, old, made
  <1>4. data # Tools!Refused
    BY <1>2, <1>3 DEF Tools!WithData
  <1>5. Tools!AllOf(made) # Tools!Refused
          /\ data = Tools!With(Tools!Data(raw), "blocks", Tools!AllOf(made))
    BY <1>4 DEF Tools!Rewritten
  <1>6. Tools!AllOf(made) = Tools!List(made) /\ \A i \in DOMAIN made : made[i] # Tools!Refused
    BY <1>5 DEF Tools!AllOf
  <1>7. Tools!Is(data, "object") /\ Tools!Field(data, "blocks") = Tools!List(made)
    BY <1>5, <1>6, Fields
  <1> HIDE DEF data, n
  <1>8. Tools!IsDocument(raw)
    BY DEF IsDocumentOf
  <1>9. Tools!IsDocument(Tools!WithData(raw, data)) /\ Tools!Data(Tools!WithData(raw, data)) = data
    BY <1>7, <1>8, DataOf
  <1>10. Tools!IsDocument(new) /\ Tools!Data(new) = data /\ Tools!Field(new, "schemaVersion") = n
    BY <1>2, <1>3, <1>9, VersionWritten
  <1>11. DOMAIN made = DOMAIN old /\ \A i \in DOMAIN old : made[i] = Tools!MigratedBlock(v, old[i])
    BY DEF made
  <1>12. /\ IsDocumentOf(new, Tools!NextVersion(v)) /\ BlocksOf(new) = Tools!List(made)
         /\ \A i \in DOMAIN old : Tools!MigratedBlock(v, old[i]) # Tools!Refused
    BY <1>6, <1>7, <1>10, <1>11 DEF IsDocumentOf, BlocksOf, n
  <1> QED
    BY <1>12 DEF new, made, old

\* The later steps leave a document's blocks alone.
LEMMA BlocksAreKept ==
    ASSUME NEW raw, NEW v \in 4 .. 9, IsDocumentOf(raw, v), Tools!Lifted(raw, v) # Tools!Refused,
           v # 4 => Tools!Field(raw, "kind") = Tools!Str("document")
    PROVE  LET new == Tools!Lifted(raw, v)
           IN  /\ IsDocumentOf(new, v + 1) /\ BlocksOf(new) = BlocksOf(raw)
               /\ Tools!Field(new, "kind") = Tools!Str("document")
  <1> DEFINE new == Tools!Lifted(raw, v)
             n   == Tools!Num(10 * (v + 1))
  <1>1. Tools!NextVersion(v) = v + 1
    BY DEF Tools!NextVersion
  <1>2. Tools!Added(v, raw) # Tools!Refused
          /\ new = Tools!With(Tools!Added(v, raw), "schemaVersion", n)
    <2>1. new = Tools!Rewritten(Tools!Added(v, raw), "schemaVersion", n)
      BY <1>1 DEF Tools!Lifted, IsDocumentOf
    <2>2. new # Tools!Refused
      OBVIOUS
    <2> HIDE DEF new, n
    <2> QED
      BY <2>1, <2>2 DEF Tools!Rewritten
  <1>3. Tools!IsDocument(raw)
    BY DEF IsDocumentOf
  <1>4. /\ Tools!Str("document") # Tools!Str("mindmap")
             /\ Tools!Str("document") # Tools!Str("spreadsheet")
        /\ Tools!Str("document") # Tools!Str("presentation")
    BY Atoms
  <1>5. v = 4 => Tools!Added(v, raw) = Tools!OnlyDocuments(raw)
    BY DEF Tools!Added
  <1>6. Tools!Field(raw, "kind") = Tools!Str("document")
    BY <1>2, <1>5 DEF Tools!OnlyDocuments
  <1>7. CASE v # 6
    <2>1. Tools!Added(v, raw) = raw
      <3>1. v = 4 => Tools!Added(v, raw) = raw
        BY <1>5, <1>6 DEF Tools!OnlyDocuments
      <3>2. v = 5 => Tools!Added(v, raw) = raw
        BY <1>4, <1>6 DEF Tools!Added, Tools!WithMindmapStyles
      <3>3. v = 7 => Tools!Added(v, raw) = raw
        BY <1>4, <1>6 DEF Tools!Added, Tools!WithNamedRanges
      <3>4. v = 8 => Tools!Added(v, raw) = raw
        BY <1>4, <1>6 DEF Tools!Added, Tools!WithParagraphs
      <3>5. v = 9 => Tools!Added(v, raw) = raw
        BY <1>4, <1>6 DEF Tools!Added, Tools!WithGraphEntities
      <3> QED
        BY <1>7, <3>1, <3>2, <3>3, <3>4, <3>5
    <2> HIDE DEF new, n
    <2>2. Tools!IsDocument(new) /\ Tools!Data(new) = Tools!Data(raw)
            /\ Tools!Field(new, "schemaVersion") = n
          /\ Tools!Field(new, "kind") = Tools!Str("document")
      BY <1>2, <1>3, <1>6, <2>1, VersionWritten
    <2> QED
      BY <2>2 DEF IsDocumentOf, BlocksOf, new, n
  <1>8. CASE v = 6
    <2> DEFINE data == Tools!Default(Tools!Data(raw), "pageSemantics", Tools!List(<<>>))
    <2>1. Tools!Added(v, raw) = Tools!WithData(raw, data)
      BY <1>3, <1>8 DEF Tools!Added, Tools!WithPageSemantics
    <2>2. Tools!Is(data, "object")
            /\ Tools!Field(data, "blocks") = Tools!Field(Tools!Data(raw), "blocks")
      <3>1. Tools!Is(Tools!Data(raw), "object")
        BY <1>3 DEF Tools!IsDocument
      <3>2. data = Tools!Data(raw)
                   \/ data = Tools!With(Tools!Data(raw), "pageSemantics", Tools!List(<<>>))
        BY DEF Tools!Default
      <3> HIDE DEF data
      <3> QED
        BY <3>1, <3>2, Fields
    <2> HIDE DEF data, new, n
    <2>3. /\ Tools!IsDocument(Tools!WithData(raw, data))
               /\ Tools!Data(Tools!WithData(raw, data)) = data
          /\ Tools!Field(Tools!WithData(raw, data), "kind") = Tools!Str("document")
      BY <1>3, <1>6, <2>2, DataOf
    <2>4. Tools!IsDocument(new) /\ Tools!Data(new) = data /\ Tools!Field(new, "schemaVersion") = n
          /\ Tools!Field(new, "kind") = Tools!Str("document")
      BY <1>2, <2>1, <2>3, VersionWritten
    <2> QED
      BY <2>2, <2>4 DEF IsDocumentOf, BlocksOf, new, n
  <1> QED
    BY <1>7, <1>8

\* From version 3 on, through to the current one.
LEMMA ThirdIsLifted ==
    ASSUME NEW third, IsDocumentOf(third, 3),
           NEW last, last = Tools!Lifted(Tools!Lifted(Tools!Lifted(Tools!Lifted(
                          Tools!Lifted(Tools!Lifted(Tools!Lifted(third, 3), 4), 5), 6), 7), 8), 9),
           Tools!IsCurrent(last)
    PROVE  LET listed == BlocksOf(third).list
               new    == BlocksOf(last).list
           IN  /\ DOMAIN new = DOMAIN listed
               /\ \A i \in DOMAIN listed :
                     /\ new[i] = Tools!MigratedV3Block(listed[i]) /\ new[i] # Tools!Refused
                     /\ Tools!Suits(Tools!KindOf(new[i]), Tools!Field(new[i], "data"))
  <1> DEFINE r4 == Tools!Lifted(third, 3)
             r5 == Tools!Lifted(r4, 4)
             r6 == Tools!Lifted(r5, 5)
             r7 == Tools!Lifted(r6, 6)
             r8 == Tools!Lifted(r7, 7)
             r9 == Tools!Lifted(r8, 8)
             listed == BlocksOf(third).list
             made   == [i \in DOMAIN listed |-> Tools!MigratedBlock(3, listed[i])]
  <1>1. last = Tools!Lifted(r9, 9)
    OBVIOUS
  <1>2. /\ last # Tools!Refused /\ r9 # Tools!Refused /\ r8 # Tools!Refused /\ r7 # Tools!Refused
             /\ r6 # Tools!Refused
        /\ r5 # Tools!Refused /\ r4 # Tools!Refused
    BY <1>1, LatestIsCurrent, LiftedElse
  <1>3. /\ IsDocumentOf(r4, 4) /\ BlocksOf(r4) = Tools!List(made)
        /\ \A i \in DOMAIN listed : Tools!MigratedBlock(3, listed[i]) # Tools!Refused
    <2>1. Tools!NextVersion(3) = 4
      BY DEF Tools!NextVersion
    <2> HIDE DEF made, listed, r4
    <2>2. Tools!Lifted(third, 3) # Tools!Refused
      BY <1>2 DEF r4
    <2> QED
      BY <2>1, <2>2, BlocksAreLifted DEF r4, made, listed
  <1> HIDE DEF made, listed, r4, r5, r6, r7, r8, r9
  <1>4. IsDocumentOf(r5, 5) /\ BlocksOf(r5) = BlocksOf(r4)
          /\ Tools!Field(r5, "kind") = Tools!Str("document")
    BY <1>2, <1>3, BlocksAreKept DEF r5
  <1>5. IsDocumentOf(r6, 6) /\ BlocksOf(r6) = BlocksOf(r4)
          /\ Tools!Field(r6, "kind") = Tools!Str("document")
    BY <1>2, <1>4, BlocksAreKept DEF r6
  <1>6. IsDocumentOf(r7, 7) /\ BlocksOf(r7) = BlocksOf(r4)
          /\ Tools!Field(r7, "kind") = Tools!Str("document")
    BY <1>2, <1>5, BlocksAreKept DEF r7
  <1>7. IsDocumentOf(r8, 8) /\ BlocksOf(r8) = BlocksOf(r4)
          /\ Tools!Field(r8, "kind") = Tools!Str("document")
    BY <1>2, <1>6, BlocksAreKept DEF r8
  <1>8. IsDocumentOf(r9, 9) /\ BlocksOf(r9) = BlocksOf(r4)
          /\ Tools!Field(r9, "kind") = Tools!Str("document")
    BY <1>2, <1>7, BlocksAreKept DEF r9
  <1>9. BlocksOf(last) = BlocksOf(r4) /\ Tools!Field(last, "kind") = Tools!Str("document")
    BY <1>1, <1>2, <1>8, BlocksAreKept
  <1>10. BlocksOf(last).list = made
    BY <1>3, <1>9 DEF Tools!List
  <1>11. /\ DOMAIN made = DOMAIN listed
         /\ \A i \in DOMAIN listed : made[i] = Tools!MigratedV3Block(listed[i])
         /\ \A i \in DOMAIN listed : Tools!MigratedV3Block(listed[i]) # Tools!Refused
    BY <1>3 DEF made, Tools!MigratedBlock
  <1>12. \A i \in DOMAIN made : Tools!BlockIsValid(made[i])
    <2>1. Tools!PayloadIsValid(Tools!Str("document"), Tools!Data(last))
      BY <1>9 DEF Tools!IsCurrent
    <2>2. /\ Tools!Str("document") # Tools!Str("mindmap")
               /\ Tools!Str("document") # Tools!Str("spreadsheet")
          /\ Tools!Str("document") # Tools!Str("presentation")
      BY Atoms
    <2>3. \A i \in DOMAIN BlocksOf(last).list : Tools!BlockIsValid(BlocksOf(last).list[i])
      BY <2>1, <2>2 DEF Tools!PayloadIsValid, BlocksOf
    <2> QED
      BY <1>10, <2>3
  <1> QED
    BY <1>10, <1>11, <1>12 DEF Tools!BlockIsValid, listed

LEMMA DocumentIsKept ==
    ASSUME NEW raw, Tools!Migrated(raw) # Tools!Refused, Tools!IsDocument(raw)
    PROVE  Tools!DocumentIsAccounted(raw, Tools!Migrated(raw))
  <1> SUFFICES ASSUME Tools!VersionOf(raw) \in 1 .. 3
               PROVE  LET before == BlocksOf(raw).list
                          later  == BlocksOf(Tools!Migrated(raw)).list
                      IN  /\ DOMAIN before = DOMAIN later
                          /\ \A i \in DOMAIN before : Tools!BlockIsAccounted(before[i], later[i])
    BY DEF Tools!DocumentIsAccounted, BlocksOf
  <1> DEFINE third == Tools!Lifted(Tools!Lifted(raw, 1), 2)
             last == Tools!Lifted(Tools!Lifted(Tools!Lifted(Tools!Lifted(
                        Tools!Lifted(Tools!Lifted(Tools!Lifted(third, 3), 4), 5), 6), 7), 8), 9)
             before == BlocksOf(raw).list
             later  == BlocksOf(last).list
             middle == BlocksOf(third).list
  <1>1. Tools!Migrated(raw) = last /\ Tools!IsCurrent(last)
    BY MigratedIsChained DEF Tools!Validated, Chained
  <1>2. third # Tools!Refused /\ Tools!Lifted(raw, 1) # Tools!Refused
    BY <1>1, LatestIsCurrent, LiftedElse
  <1>3. PICK v \in 1 .. 3 : Tools!Field(raw, "schemaVersion") = Tools!Num(10 * v)
    <2>1. ASSUME NEW v \in 4 .. 10, Tools!Field(raw, "schemaVersion") = Tools!Num(10 * v) PROVE FALSE
      <3>1. Tools!VersionOf(raw) = (10 * v) \div 10 \/ Tools!VersionOf(raw) = 0
        BY <2>1, Atoms DEF Tools!VersionOf
      <3>2. (10 * v) \div 10 = v \/ Tools!IsCount(Tools!Num(10 * v))
        OBVIOUS
      <3>3. Tools!VersionOf(raw) = v \/ Tools!VersionOf(raw) = 0
        BY <3>1
      <3> QED
        BY <3>3
    <2>2. ASSUME \A v \in 1 .. 10 : Tools!Field(raw, "schemaVersion") # Tools!Num(10 * v) PROVE FALSE
      <3> DEFINE f == Tools!Field(raw, "schemaVersion")
      <3>1. f # Tools!Num(10 * 1) /\ f # Tools!Num(10 * 2) /\ f # Tools!Num(10 * 3)
                /\ f # Tools!Num(10 * 4) /\ f # Tools!Num(10 * 5)
            /\ f # Tools!Num(10 * 6) /\ f # Tools!Num(10 * 7) /\ f # Tools!Num(10 * 8)
                 /\ f # Tools!Num(10 * 9)
        BY <2>2
      <3>2. f # Tools!Num(10 * Tools!CurrentVersion)
        BY <2>2 DEF Tools!CurrentVersion
      <3> HIDE DEF f
      <3>3. last = raw
        BY <3>1, LiftedElse DEF f
      <3> QED
        BY <1>1, <3>2, <3>3 DEF Tools!IsCurrent, f
    <2> QED
      BY <2>1, <2>2
  <1>4. IsDocumentOf(raw, v)
    BY <1>3 DEF IsDocumentOf
  <1> HIDE DEF last
  <1>5. ASSUME IsDocumentOf(third, 3)
        PROVE  /\ DOMAIN later = DOMAIN middle
               /\ \A i \in DOMAIN middle :
                     /\ later[i] = Tools!MigratedV3Block(middle[i]) /\ later[i] # Tools!Refused
                     /\ Tools!Suits(Tools!KindOf(later[i]), Tools!Field(later[i], "data"))
    BY <1>1, <1>5, ThirdIsLifted DEF last
  <1> HIDE DEF third
  <1>6. Tools!Num(10 * 1) # Tools!Num(10 * 2) /\ Tools!Num(10 * 3) # Tools!Num(10 * 1)
          /\ Tools!Num(10 * 3) # Tools!Num(10 * 2)
    BY Atoms
  <1>7. CASE v = 3
    <2>1. third = raw
      BY <1>3, <1>6, <1>7, LiftedElse DEF third
    <2>2. \A i \in DOMAIN before : Tools!BlockIsAccounted(before[i], Tools!MigratedV3Block(before[i]))
      <3> TAKE i \in DOMAIN before
      <3>1. Tools!MigratedV3Block(before[i]) # Tools!Refused
        BY <1>4, <1>5, <1>7, <2>1
      <3> QED
        BY <3>1, ThirdIsAccounted
    <2> QED
      BY <1>1, <1>4, <1>5, <1>7, <2>1, <2>2
  \* What a step before the third makes of the blocks.
  <1>8. ASSUME v \in {1, 2}
        PROVE  /\ DOMAIN middle = DOMAIN before
               /\ \A i \in DOMAIN before : middle[i] = Tools!MigratedBlock(v, before[i])
                    /\ middle[i] # Tools!Refused
               /\ IsDocumentOf(third, 3)
    <2> DEFINE made == [i \in DOMAIN before |-> Tools!MigratedBlock(v, before[i])]
    <2>1. third = Tools!Lifted(raw, v)
      <3>1. CASE v = 1
        <4>1. IsDocumentOf(Tools!Lifted(raw, 1), Tools!NextVersion(1))
          BY <1>2, <1>4, <3>1, BlocksAreLifted
        <4>2. Tools!NextVersion(1) = 3
          BY DEF Tools!NextVersion
        <4> QED
          BY <1>6, <3>1, <4>1, <4>2, LiftedElse DEF third, IsDocumentOf
      <3>2. CASE v = 2
        BY <1>3, <1>6, <3>2, LiftedElse DEF third
      <3> QED
        BY <1>8, <3>1, <3>2
    <2>2. Tools!NextVersion(v) = 3
      BY <1>8 DEF Tools!NextVersion
    <2>3. IsDocumentOf(third, 3) /\ BlocksOf(third) = Tools!List(made)
          /\ \A i \in DOMAIN before : Tools!MigratedBlock(v, before[i]) # Tools!Refused
      <3>1. v \in {1, 2, 3} /\ Tools!Lifted(raw, v) # Tools!Refused
        BY <1>2, <1>8, <2>1
      <3> QED
        BY <1>4, <2>1, <2>2, <3>1, BlocksAreLifted
    <2> HIDE DEF made
    <2>4. middle = made
      BY <2>3 DEF Tools!List
    <2> QED
      BY <2>3, <2>4 DEF made
  <1>9. CASE v = 1
    <2>1. \A b : Tools!MigratedBlock(1, b) = Tools!MigratedDocumentBlock(b)
      BY DEF Tools!MigratedBlock
    <2>2. ASSUME NEW i \in DOMAIN before PROVE Tools!BlockIsAccounted(before[i], later[i])
      <3>1. middle[i] = Tools!MigratedDocumentBlock(before[i]) /\ middle[i] # Tools!Refused
              /\ i \in DOMAIN middle
        BY <1>8, <1>9, <2>1, <2>2
      <3>2. /\ later[i] = Tools!MigratedV3Block(middle[i]) /\ later[i] # Tools!Refused
            /\ Tools!Suits(Tools!KindOf(later[i]), Tools!Field(later[i], "data"))
        BY <1>5, <1>8, <1>9, <3>1
      <3> QED
        BY <3>1, <3>2, FirstIsAccounted
    <2> QED
      BY <1>1, <1>5, <1>8, <1>9, <2>2
  <1>10. CASE v = 2
    <2>1. \A b : Tools!MigratedBlock(2, b) = Tools!MigratedV2Block(b)
      BY DEF Tools!MigratedBlock
    <2>2. ASSUME NEW i \in DOMAIN before PROVE Tools!BlockIsAccounted(before[i], later[i])
      <3>1. middle[i] = Tools!MigratedV2Block(before[i]) /\ middle[i] # Tools!Refused
              /\ i \in DOMAIN middle
        BY <1>8, <1>10, <2>1, <2>2
      <3>2. /\ later[i] = Tools!MigratedV3Block(middle[i]) /\ later[i] # Tools!Refused
            /\ Tools!Suits(Tools!KindOf(later[i]), Tools!Field(later[i], "data"))
        BY <1>5, <1>8, <1>10, <3>1
      <3> QED
        BY <3>1, <3>2, SecondIsAccounted
    <2> QED
      BY <1>1, <1>5, <1>8, <1>10, <2>2
  <1> QED
    BY <1>7, <1>9, <1>10


--------------------------------------------------------------------------------
(* The invariant. *)

\* A key still holds what it did, or what its original became, with a copy kept.
KeyIsKept(k) ==
    \/ blobs[k] = original[k]
    \/ /\ saved[k] = original[k] /\ blobs[k] = Tools!Target(original[k])
            /\ Tools!IsCurrent(blobs[k])
       /\ Tools!LooksLikeV4Presentation(original[k]) => Tools!Compiled(original[k]) # Tools!Refused

\* A deck on the compiler's list.
IsCandidate(c) ==
    /\ c = [key |-> c.key, staged |-> Tools!Compiled(original[c.key])]
    /\ c.key \in Tools!Indices /\ Tools!LooksLikeV4Presentation(original[c.key])
    /\ c.staged # Tools!Refused /\ c.key \notin registered

Untouched(c)   == blobs[c.key] = original[c.key]
WrittenBack(c) == blobs[c.key] = Tools!Materialized(c.staged)

\* The first n sources are copied: kept by the process, and beside the snapshots.
AreCopied(n) ==
    /\ Len(tool.sources) = n
    /\ \A j \in 1 .. n : LET key == tool.found[j].key
                         IN  tool.sources[j] = original[key] /\ saved[key] = original[key]

ToolFields ==
    {"name", "apply", "materialize", "only", "step", "at", "failed", "found", "sources", "clean"}

ToolOK ==
    /\ DOMAIN tool = ToolFields
    /\ tool.at \in Nat \ {0} /\ tool.failed \in Nat
    /\ Tools!IsList(tool.found) /\ Tools!IsList(tool.sources)
    /\ \A i \in DOMAIN tool.found : IsCandidate(tool.found[i])
    /\ \A i, j \in DOMAIN tool.found : tool.found[i].key = tool.found[j].key => i = j
    /\ tool.name \in {"schema", "presentation", "reconcile"}
    /\ tool.name # "presentation" => tool.found = <<>>
    /\ tool.name = "reconcile" => tool.step = "scan"
    /\ tool.name = "schema" => tool.step \in {"scan", "back up", "put"}
    /\ tool.name = "presentation" =>
          tool.step \in {"scan", "stage", "publish", "keep pointer", "swap pointer",
                         "back up all", "put all", "restore"}

\* The converter has passed the keys before the one it is at.
SchemaOK ==
    /\ tool.step \in {"back up", "put"} =>
          /\ tool.at \in Tools!Indices /\ tool.apply
          /\ Tools!Convertible(blobs[tool.at]) /\ Tools!Migrated(blobs[tool.at]) # Tools!Refused
    /\ tool.step = "put" => saved[tool.at] = blobs[tool.at]
    /\ tool.apply /\ tool.only = None /\ tool.failed = 0 =>
          \A k \in Tools!Indices : k < tool.at /\ Keys[k].json => ~Tools!Convertible(blobs[k])

CompilerOK ==
    /\ tool.step \notin {"put all", "restore"} =>
          \A i \in DOMAIN tool.found : Untouched(tool.found[i])
    /\ tool.step = "scan" =>
          \A i \in DOMAIN tool.found : tool.found[i].key < tool.at
    /\ tool.step \notin {"back up all", "put all", "restore"} => tool.sources = <<>>
    /\ tool.step # "scan" => tool.found # <<>>
    /\ tool.step # "restore" => tool.clean
    /\ tool.step = "stage" =>
          /\ tool.at \in DOMAIN Tools!FilesOf(tool.found)
          /\ \A n \in 1 .. tool.at - 1 : Tools!FilesOf(tool.found)[n] \in staging
    /\ tool.step = "publish" => Tools!ToSet(Tools!FilesOf(tool.found)) \subseteq staging
    /\ tool.step = "back up all" => tool.at \in DOMAIN tool.found /\ AreCopied(tool.at - 1)
    /\ tool.step = "put all" =>
          /\ tool.at \in DOMAIN tool.found /\ AreCopied(Len(tool.found))
          /\ \A j \in DOMAIN tool.found :
                IF j < tool.at THEN WrittenBack(tool.found[j]) ELSE Untouched(tool.found[j])
    /\ tool.step = "restore" =>
          /\ tool.failed \in DOMAIN tool.found /\ AreCopied(Len(tool.found))
          /\ \A j \in DOMAIN tool.found :
                /\ Untouched(tool.found[j]) \/ WrittenBack(tool.found[j])
                /\ j > tool.failed \/ (j < tool.at /\ tool.clean) => Untouched(tool.found[j])

\* A staging run that has all the files its manifest names.
IsComplete(files) ==
    \E manifest \in {f \in files : f.file = "manifest"} : \A k \in manifest.keys :
        \A file \in {"deck", "report"} : \E f \in files : f.file = file /\ f.key = k

StoreOK ==
    /\ \E folder \in Folders : original = folder.objects
    /\ DOMAIN blobs = Tools!Indices /\ DOMAIN saved = Tools!Indices
    /\ registered \subseteq Tools!Indices
    /\ launches \in Nat /\ failures \in 0 .. MaxFailures
    /\ \A k \in Tools!Indices : KeyIsKept(k)
    /\ Tools!RegisteredIsReadable

RunsOK ==
    /\ Tools!IsList(runs) /\ pointer \in 0 .. Len(runs) /\ pointers \subseteq 1 .. Len(runs)
    /\ \A r \in DOMAIN runs : IsComplete(runs[r])

RunningOK ==
    tool # None =>
        /\ ToolOK /\ ended = None
        /\ tool.name = "schema" => SchemaOK
        /\ tool.name = "presentation" => CompilerOK

MigrationIsKept ==
    StoreOK /\ RunsOK /\ RunningOK /\ Tools!RestoredIsOriginal /\ Tools!SuccessIsComplete

--------------------------------------------------------------------------------
LEMMA Appended ==
    ASSUME NEW s, Tools!IsList(s), NEW x
    PROVE  LET t == Append(s, x)
           IN  /\ Tools!IsList(t) /\ Len(t) = Len(s) + 1 /\ DOMAIN t = 1 .. Len(s) + 1
               /\ \A i \in DOMAIN s : t[i] = s[i]
               /\ t[Len(s) + 1] = x
  <1> DEFINE S == Tools!ToSet(s) \cup {x}
             t == Append(s, x)
  <1>1. s \in Seq(S)
    BY SeqMonotonic DEF Tools!IsList
  <1>2. /\ t \in Seq(S) /\ Len(t) = Len(s) + 1 /\ DOMAIN s = 1 .. Len(s)
        /\ \A i \in 1 .. Len(s) : t[i] = s[i]
        /\ t[Len(s) + 1] = x
    BY <1>1
  <1>3. DOMAIN t = 1 .. Len(t)
    BY <1>2
  <1> HIDE DEF t
  <1>4. \A i \in 1 .. Len(t) : t[i] \in Tools!ToSet(t)
    BY <1>3 DEF Tools!ToSet
  <1>5. t \in [1 .. Len(t) -> Tools!ToSet(t)]
    <2>1. t = [i \in 1 .. Len(t) |-> t[i]]
      BY <1>2
    <2> QED
      BY <1>4, <2>1
  <1>6. Len(t) \in Nat
    BY <1>2
  <1>7. t \in Seq(Tools!ToSet(t))
    BY <1>5, <1>6, SeqDef
  <1> QED
    BY <1>2, <1>3, <1>7 DEF Tools!IsList, t

LEMMA NothingListed ==
    Tools!IsList(<<>>) /\ Len(<<>>) = 0 /\ DOMAIN <<>> = {}
  <1>1. <<>> \in Seq(Tools!ToSet(<<>>))
    BY EmptySeq
  <1> QED
    BY <1>1 DEF Tools!IsList

\* What a tool is about to convert is still the original.
LEMMA OldIsOriginal ==
    ASSUME StoreOK, NEW k \in Tools!Indices,
           Tools!Convertible(blobs[k]) \/ Tools!LooksLikeV4Presentation(blobs[k])
    PROVE  blobs[k] = original[k] /\ k \notin registered
  BY LatestIsCurrent DEF StoreOK, KeyIsKept, Tools!RegisteredIsReadable

LEMMA CandidateFacts ==
    ASSUME NEW c, IsCandidate(c)
    PROVE  /\ c.key \in Tools!Indices /\ c.staged = Tools!Compiled(original[c.key])
                /\ c.staged # Tools!Refused
           /\ Tools!Target(original[c.key]) = Tools!Materialized(c.staged)
                /\ Tools!IsCurrent(Tools!Materialized(c.staged))
           /\ Tools!LooksLikeV4Presentation(original[c.key]) /\ c.key \notin registered
  <1>1. c.staged = Tools!Compiled(original[c.key])
    <2> DEFINE k == c.key
               r == [key |-> k, staged |-> Tools!Compiled(original[k])]
    <2>1. r.staged = Tools!Compiled(original[k])
      OBVIOUS
    <2>2. c = r
      BY DEF IsCandidate
    <2> HIDE DEF r, k
    <2>3. c.staged = Tools!Compiled(original[k])
      BY <2>1, <2>2
    <2> QED
      BY <2>3 DEF k
  <1> QED
    BY <1>1, CompiledIsCurrent DEF IsCandidate, Tools!Target

LEMMA ToolTypes ==
    ASSUME ToolOK
    PROVE  tool.at \in Nat \ {0} /\ tool.failed \in Nat /\ DOMAIN tool = ToolFields
  BY DEF ToolOK

LEMMA IndicesAre ==
    ASSUME Tools!MigrationConstants
    PROVE  Len(Keys) \in Nat /\ Tools!Indices = 1 .. Len(Keys)
  BY ListIs DEF Tools!MigrationConstants, Tools!Indices

\* A tool that goes on, its list as it was.
LEMMA ToolIsKept ==
    ASSUME ToolOK, UNCHANGED <<original, registered>>,
           DOMAIN tool' = ToolFields, tool'.name = tool.name,
           tool'.at \in Nat \ {0}, tool'.failed \in Nat,
           tool'.found = tool.found, Tools!IsList(tool'.sources),
           /\ tool'.name = "reconcile" => tool'.step = "scan"
           /\ tool'.name = "schema" => tool'.step \in {"scan", "back up", "put"}
           /\ tool'.name = "presentation" =>
                 tool'.step \in {"scan", "stage", "publish", "keep pointer", "swap pointer",
                                 "back up all", "put all", "restore"}
    PROVE  ToolOK'
  <1>1. (\A i \in DOMAIN tool.found : IsCandidate(tool.found[i]))'
    <2>1. \A i \in DOMAIN tool.found : IsCandidate(tool.found[i])
      BY DEF ToolOK
    <2>2. ASSUME NEW c PROVE IsCandidate(c) => IsCandidate(c)'
      BY DEF IsCandidate
    <2> QED
      BY <2>1 DEF IsCandidate
  <1>2. (Tools!IsList(tool.found)
          /\ \A i, j \in DOMAIN tool.found : tool.found[i].key = tool.found[j].key => i = j)'
    BY DEF ToolOK
  <1>3. /\ tool'.name \in {"schema", "presentation", "reconcile"}
        /\ tool'.name # "presentation" => tool'.found = <<>>
    BY DEF ToolOK
  <1> QED
    BY <1>1, <1>2, <1>3 DEF ToolOK

\* While a process runs, nobody has ended.
LEMMA NobodyEnded ==
    ASSUME ended = None PROVE Tools!RestoredIsOriginal /\ Tools!SuccessIsComplete
  BY DEF Tools!RestoredIsOriginal, Tools!SuccessIsComplete, Tools!Ended

LEMMA EndIsKept ==
    ASSUME NEW how, Tools!End(how), how \notin {"done", "restored"}
    PROVE  (RunningOK /\ Tools!RestoredIsOriginal /\ Tools!SuccessIsComplete)'
  <1>1. tool' = None /\ ended' = [how |-> how, was |-> tool]
    BY DEF Tools!End
  <1>2. ended'.how = how
    BY <1>1
  <1>3. ~Tools!Ended("done")' /\ ~Tools!Ended("restored")'
    BY <1>2 DEF Tools!Ended
  <1>4. RunningOK'
    BY <1>1 DEF RunningOK
  <1>5. Tools!RestoredIsOriginal' /\ Tools!SuccessIsComplete'
    BY <1>3 DEF Tools!RestoredIsOriginal, Tools!SuccessIsComplete
  <1> QED
    BY <1>4, <1>5

LEMMA StoreIsKept ==
    ASSUME StoreOK, UNCHANGED <<original, blobs, saved, registered>>, launches' \in Nat,
           failures' \in 0 .. MaxFailures
    PROVE  StoreOK'
  <1>1. \A k \in Tools!Indices : KeyIsKept(k)'
    BY DEF StoreOK, KeyIsKept
  <1> QED
    BY <1>1 DEF StoreOK, Tools!RegisteredIsReadable

LEMMA CountersAreKept ==
    ASSUME Tools!MigrationConstants, StoreOK, Tools!Works \/ Tools!Fails
    PROVE  failures' \in 0 .. MaxFailures
  BY DEF Tools!MigrationConstants, StoreOK, Tools!Works, Tools!Fails

LEMMA RunsAreKept ==
    ASSUME RunsOK, UNCHANGED <<runs, pointer, pointers>>
    PROVE  RunsOK'
  BY DEF RunsOK

LEMMA InitIsKept ==
    ASSUME Tools!MigrationConstants, Tools!Init
    PROVE  MigrationIsKept
  <1>1. StoreOK
    <2>1. PICK folder \in Folders : original = folder.objects /\ launches = folder.launches
      BY DEF Tools!Init
    <2>2. launches \in Nat /\ DOMAIN original = Tools!Indices
      BY <2>1 DEF Tools!MigrationConstants
    <2>3. \A k \in Tools!Indices : KeyIsKept(k)
      BY DEF Tools!Init, KeyIsKept
    <2>4. failures \in 0 .. MaxFailures
      BY DEF Tools!Init, Tools!MigrationConstants
    <2> QED
      BY <2>1, <2>2, <2>3, <2>4 DEF StoreOK, Tools!Init, Tools!RegisteredIsReadable
  <1>2. RunsOK
    BY NothingListed DEF Tools!Init, RunsOK
  <1>3. RunningOK
    BY DEF Tools!Init, RunningOK
  <1>4. Tools!RestoredIsOriginal /\ Tools!SuccessIsComplete
    BY NobodyEnded DEF Tools!Init
  <1> QED
    BY <1>1, <1>2, <1>3, <1>4 DEF MigrationIsKept

LEMMA LaunchIsKept ==
    ASSUME Tools!MigrationConstants, MigrationIsKept,
           NEW name \in {"schema", "presentation", "reconcile"}, NEW apply, NEW materialize, NEW only,
           Tools!Launch(name, apply, materialize, only)
    PROVE  MigrationIsKept'
  <1> DEFINE t == [name |-> name, apply |-> apply, materialize |-> materialize, only |-> only,
                   step |-> "scan", at |-> 1, failed |-> 0, found |-> <<>>, sources |-> <<>>,
                   clean |-> TRUE]
  <1>1. /\ tool' = t /\ ended' = None /\ launches > 0 /\ launches' = launches - 1
        /\ UNCHANGED <<original, blobs, saved, registered, failures, runs, pointer, pointers>>
    BY DEF Tools!Launch, Tools!stagingVars
  <1>2. /\ DOMAIN t = ToolFields /\ t.name = name /\ t.step = "scan" /\ t.at = 1 /\ t.failed = 0
        /\ t.found = <<>> /\ t.sources = <<>> /\ t.clean
    BY DEF ToolFields
  <1> HIDE DEF t
  <1>3. StoreOK'
    <2>1. launches' \in Nat /\ failures' \in 0 .. MaxFailures
      BY <1>1 DEF MigrationIsKept, StoreOK
    <2> QED
      BY <1>1, <2>1, StoreIsKept DEF MigrationIsKept
  <1>4. RunsOK'
    BY <1>1, RunsAreKept DEF MigrationIsKept
  <1>5. ToolOK'
    BY <1>1, <1>2, NothingListed DEF ToolOK
  <1>6. SchemaOK'
    <2>1. \A k \in Tools!Indices : ~(k < 1)
      BY ListIs DEF Tools!MigrationConstants, Tools!Indices
    <2> QED
      BY <1>1, <1>2, <2>1 DEF SchemaOK
  <1>7. CompilerOK'
    BY <1>1, <1>2, NothingListed DEF CompilerOK
  <1>8. RunningOK'
    BY <1>1, <1>5, <1>6, <1>7 DEF RunningOK
  <1>9. (Tools!RestoredIsOriginal /\ Tools!SuccessIsComplete)'
    BY <1>1 DEF Tools!RestoredIsOriginal, Tools!SuccessIsComplete, Tools!Ended
  <1> QED
    BY <1>3, <1>4, <1>8, <1>9 DEF MigrationIsKept


\* What is being copied is still what it was.
LEMMA SourceIsOriginal ==
    ASSUME MigrationIsKept, tool # None
    PROVE  /\ tool.step \in {"back up", "put"} =>
                 /\ tool.name = "schema" /\ tool.at \in Tools!Indices
                 /\ blobs[tool.at] = original[tool.at] /\ tool.at \notin registered
           /\ tool.step = "back up all" =>
                 LET c == tool.found[tool.at]
                 IN  tool.name = "presentation" /\ IsCandidate(c) /\ Untouched(c)
                      /\ c.key \in Tools!Indices
  <1>1. StoreOK /\ ToolOK /\ (tool.name = "schema" => SchemaOK)
                  /\ (tool.name = "presentation" => CompilerOK)
    BY DEF MigrationIsKept, RunningOK
  <1>2. ASSUME tool.step \in {"back up", "put"}
        PROVE  /\ tool.name = "schema" /\ tool.at \in Tools!Indices
               /\ blobs[tool.at] = original[tool.at] /\ tool.at \notin registered
    <2>1. tool.name = "schema"
      BY <1>1, <1>2 DEF ToolOK
    <2>2. tool.at \in Tools!Indices /\ Tools!Convertible(blobs[tool.at])
      BY <1>1, <1>2, <2>1 DEF SchemaOK
    <2> QED
      BY <1>1, <2>1, <2>2, OldIsOriginal
  <1>3. ASSUME tool.step = "back up all"
        PROVE  LET c == tool.found[tool.at]
               IN  tool.name = "presentation" /\ IsCandidate(c) /\ Untouched(c)
                    /\ c.key \in Tools!Indices
    <2>1. tool.name = "presentation"
      BY <1>1, <1>3 DEF ToolOK
    <2>2. tool.at \in DOMAIN tool.found
      BY <1>1, <1>3, <2>1 DEF CompilerOK
    <2>3. IsCandidate(tool.found[tool.at])
      BY <1>1, <2>2 DEF ToolOK
    <2>4. Untouched(tool.found[tool.at])
      BY <1>1, <1>3, <2>1, <2>2 DEF CompilerOK
    <2> QED
      BY <2>1, <2>3, <2>4, CandidateFacts
  <1> QED
    BY <1>2, <1>3

\* A copy taken of an original, or torn, takes nothing away.
LEMMA CopyIsKept ==
    ASSUME Tools!MigrationConstants, StoreOK, NEW k \in Tools!Indices, NEW copy, blobs[k] = original[k],
           saved' \in {saved, [saved EXCEPT ![k] = copy]},
           UNCHANGED <<original, blobs, registered, launches>>, Tools!Works \/ Tools!Fails
    PROVE  StoreOK'
  <1>1. DOMAIN saved' = Tools!Indices /\ \A i \in Tools!Indices : i # k => saved'[i] = saved[i]
    BY DEF StoreOK
  <1>2. \A i \in Tools!Indices : KeyIsKept(i)'
    BY <1>1 DEF StoreOK, KeyIsKept
  <1>3. failures' \in 0 .. MaxFailures
    BY CountersAreKept
  <1> QED
    BY <1>1, <1>2, <1>3 DEF StoreOK, Tools!RegisteredIsReadable

LEMMA CrashIsKept ==
    ASSUME Tools!MigrationConstants, MigrationIsKept, Tools!Crash
    PROVE  MigrationIsKept'
  <1>1. /\ tool # None /\ Tools!End("crashed")
        /\ UNCHANGED <<original, blobs, registered, failures, runs, pointer, pointers, launches>>
    BY DEF Tools!Crash, Tools!stagingVars, Tools!End
  <1>2. StoreOK'
    <2>1. \/ saved' = saved
          \/ /\ tool.step = "back up"
             /\ saved' = [saved EXCEPT ![tool.at] = Tools!Torn]
          \/ /\ tool.step = "back up all"
             /\ saved' = [saved EXCEPT ![tool.found[tool.at].key] = Tools!Torn]
      <3> DEFINE A == {[saved EXCEPT ![k] = Tools!Torn] : k \in IF tool.step = "back up" THEN {tool.at} ELSE {}}
                 B == {[saved EXCEPT ![k] = Tools!Torn] :
                          k \in IF tool.step = "back up all" THEN {tool.found[tool.at].key} ELSE {}}
      <3>1. saved' \in {saved} \cup A \cup B
        BY DEF Tools!Crash
      <3>2. saved' \in A => tool.step = "back up" /\ saved' = [saved EXCEPT ![tool.at] = Tools!Torn]
        OBVIOUS
      <3>3. saved' \in B => /\ tool.step = "back up all"
                            /\ saved' = [saved EXCEPT ![tool.found[tool.at].key] = Tools!Torn]
        OBVIOUS
      <3> HIDE DEF A, B
      <3> QED
        BY <3>1, <3>2, <3>3
    <2>2. Tools!Works /\ StoreOK
      BY <1>1 DEF Tools!Works, MigrationIsKept
    <2>3. CASE saved' = saved
      BY <1>1, <2>2, <2>3, StoreIsKept DEF StoreOK
    <2>4. CASE tool.step = "back up" /\ saved' = [saved EXCEPT ![tool.at] = Tools!Torn]
      BY <1>1, <2>2, <2>4, SourceIsOriginal, CopyIsKept
    <2>5. CASE tool.step = "back up all"
                 /\ saved' = [saved EXCEPT ![tool.found[tool.at].key] = Tools!Torn]
      <3> DEFINE k == tool.found[tool.at].key
      <3>1. k \in Tools!Indices /\ blobs[k] = original[k]
        BY <1>1, <2>5, SourceIsOriginal DEF Untouched
      <3>2. saved' \in {saved, [saved EXCEPT ![k] = Tools!Torn]}
        BY <2>5
      <3> HIDE DEF k
      <3> QED
        BY <1>1, <2>2, <3>1, <3>2, CopyIsKept
    <2> QED
      BY <2>1, <2>3, <2>4, <2>5
  <1>3. RunsOK'
    BY <1>1, RunsAreKept DEF MigrationIsKept
  <1>4. (RunningOK /\ Tools!RestoredIsOriginal /\ Tools!SuccessIsComplete)'
    BY <1>1, EndIsKept
  <1> QED
    BY <1>2, <1>3, <1>4 DEF MigrationIsKept

LEMMA FailToReadIsKept ==
    ASSUME Tools!MigrationConstants, MigrationIsKept, Tools!FailToRead
    PROVE  MigrationIsKept'
  <1>1. /\ Tools!End("failed") /\ Tools!Fails
        /\ UNCHANGED <<original, blobs, saved, registered, runs, pointer, pointers, launches>>
    BY DEF Tools!FailToRead, Tools!stagingVars, Tools!End
  <1>2. StoreOK'
    BY <1>1, StoreIsKept, CountersAreKept DEF MigrationIsKept, StoreOK
  <1>3. RunsOK'
    BY <1>1, RunsAreKept DEF MigrationIsKept
  <1>4. (RunningOK /\ Tools!RestoredIsOriginal /\ Tools!SuccessIsComplete)'
    BY <1>1, EndIsKept
  <1> QED
    BY <1>2, <1>3, <1>4 DEF MigrationIsKept

--------------------------------------------------------------------------------
\* The converter.

\* The converter goes on to the next key, done with the one it was at.
LEMMA PassingIsKept ==
    ASSUME Tools!MigrationConstants, ToolOK, SchemaOK,
           UNCHANGED <<original, registered>>,
           tool.name = "schema", tool.at \in Tools!Indices, DOMAIN tool' = ToolFields,
           tool'.name = tool.name, tool'.apply = tool.apply, tool'.only = tool.only,
           tool'.found = tool.found, tool'.sources = tool.sources,
           tool'.step = "scan", tool'.at = tool.at + 1,
           tool'.failed \in Nat, tool'.failed = 0 => tool.failed = 0,
           \A i \in Tools!Indices : i # tool.at => blobs'[i] = blobs[i],
           tool.apply /\ tool.only = None /\ tool'.failed = 0 /\ Keys[tool.at].json =>
              ~Tools!Convertible(blobs'[tool.at])
    PROVE  ToolOK' /\ SchemaOK'
  <1>1. ToolOK'
    <2>1. tool.at + 1 \in Nat \ {0}
      BY ToolTypes
    <2>2. Tools!IsList(tool'.sources)
      BY DEF ToolOK
    <2> QED
      BY <2>1, <2>2, ToolIsKept
  <1>2. ASSUME tool'.apply, tool'.only = None, tool'.failed = 0,
               NEW i \in Tools!Indices, i < tool'.at, Keys[i].json
        PROVE  ~Tools!Convertible(blobs'[i])
    <2>1. i \in Int /\ tool.at \in Int
      BY IndicesAre, ToolTypes
    <2>2. i < tool.at \/ i = tool.at
      BY <1>2, <2>1
    <2>3. CASE i < tool.at
      <3>1. ~Tools!Convertible(blobs[i])
        BY <1>2, <2>3 DEF SchemaOK
      <3> QED
        BY <2>1, <2>3, <3>1
    <2>4. CASE i = tool.at
      BY <1>2, <2>4
    <2> QED
      BY <2>2, <2>3, <2>4
  <1>3. SchemaOK'
    BY <1>2 DEF SchemaOK
  <1> QED
    BY <1>1, <1>3

LEMMA ExamineKeyIsKept ==
    ASSUME Tools!MigrationConstants, MigrationIsKept, Tools!ExamineKey
    PROVE  MigrationIsKept'
  <1> DEFINE k == tool.at
             raw == blobs[k]
             other == ~Tools!Chosen(k) \/ ~Tools!Convertible(raw)
  <1>1. /\ tool # None /\ tool.name = "schema" /\ tool.step = "scan" /\ k \in Tools!Indices
        /\ Tools!Works
        /\ UNCHANGED <<original, blobs, saved, registered, runs, pointer, pointers, ended, launches>>
    BY DEF Tools!ExamineKey, Tools!Running, Tools!stagingVars, Tools!Skip, Tools!Go
  <1>2. ToolOK /\ SchemaOK /\ ended = None
    BY <1>1 DEF MigrationIsKept, RunningOK
  <1>3. StoreOK'
    BY <1>1, StoreIsKept, CountersAreKept DEF MigrationIsKept, StoreOK
  <1>4. RunsOK'
    BY <1>1, RunsAreKept DEF MigrationIsKept
  <1>5. DOMAIN tool = ToolFields /\ tool.failed \in Nat
    BY <1>2, ToolTypes
  <1>6. tool.apply /\ tool.only = None /\ Keys[k].json /\ other => ~Tools!Convertible(blobs'[k])
    BY <1>1 DEF Tools!Chosen
  <1>7. ASSUME Tools!Skip, other \/ ~tool.apply
        PROVE  ToolOK' /\ SchemaOK'
    <2>1. /\ DOMAIN tool' = ToolFields /\ tool'.step = "scan" /\ tool'.at = k + 1
          /\ tool'.name = tool.name /\ tool'.apply = tool.apply /\ tool'.only = tool.only
          /\ tool'.found = tool.found /\ tool'.sources = tool.sources /\ tool'.failed = tool.failed
      BY <1>1, <1>5, <1>7 DEF Tools!Skip, ToolFields
    <2> HIDE DEF other
    <2> QED
      BY <1>1, <1>2, <1>5, <1>6, <1>7, <2>1, PassingIsKept
  <1>8. ASSUME tool' = [tool EXCEPT !.at = @ + 1, !.failed = @ + 1]
        PROVE  ToolOK' /\ SchemaOK'
    <2> DEFINE n == tool.failed + 1
               m == tool.at + 1
    <2>1. n \in Nat /\ n # 0
      BY <1>5
    <2>2. tool' = [tool EXCEPT !.at = m, !.failed = n]
      BY <1>8
    <2> HIDE DEF n, m, k
    <2>3. /\ DOMAIN tool' = ToolFields /\ tool'.step = "scan" /\ tool'.at = m
          /\ tool'.name = tool.name /\ tool'.apply = tool.apply /\ tool'.only = tool.only
          /\ tool'.found = tool.found /\ tool'.sources = tool.sources /\ tool'.failed = n
      BY <1>1, <1>5, <2>2 DEF ToolFields
    <2>4. tool'.failed \in Nat /\ tool'.failed # 0 /\ tool'.at = tool.at + 1
      BY <2>1, <2>3 DEF m
    <2> HIDE DEF n, other
    <2> QED
      BY <1>1, <1>2, <2>3, <2>4, PassingIsKept DEF k
  <1>9. ASSUME ~other, Tools!Migrated(raw) # Tools!Refused, tool.apply, Tools!Go("back up")
        PROVE  ToolOK' /\ SchemaOK'
    <2>1. /\ DOMAIN tool' = ToolFields /\ tool'.step = "back up" /\ tool'.at = k
          /\ tool'.name = tool.name /\ tool'.apply = tool.apply /\ tool'.only = tool.only
          /\ tool'.found = tool.found /\ tool'.sources = tool.sources /\ tool'.failed = tool.failed
      BY <1>1, <1>5, <1>9 DEF Tools!Go, ToolFields
    <2>2. ToolOK'
      <3>1. Tools!IsList(tool'.sources)
        BY <1>2, <2>1 DEF ToolOK
      <3> QED
        BY <1>1, <1>2, <2>1, <3>1, ToolTypes, ToolIsKept
    <2>3. SchemaOK'
      BY <1>1, <1>2, <1>9, <2>1 DEF SchemaOK
    <2> QED
      BY <2>2, <2>3
  <1>10. ToolOK' /\ SchemaOK' /\ tool'.name = "schema"
    <2>1. \/ Tools!Skip /\ (other \/ ~tool.apply)
          \/ tool' = [tool EXCEPT !.at = @ + 1, !.failed = @ + 1]
          \/ ~other /\ Tools!Migrated(raw) # Tools!Refused /\ tool.apply /\ Tools!Go("back up")
      BY DEF Tools!ExamineKey
    <2>2. tool'.name = "schema"
      BY <1>1, <1>5, <2>1 DEF Tools!Skip, Tools!Go, ToolFields
    <2> QED
      BY <1>7, <1>8, <1>9, <2>1, <2>2
  <1>11. RunningOK'
    BY <1>1, <1>2, <1>10 DEF RunningOK
  <1> QED
    BY <1>1, <1>2, <1>3, <1>4, <1>11 DEF MigrationIsKept, Tools!RestoredIsOriginal,
       Tools!SuccessIsComplete, Tools!Ended

LEMMA BackUpIsKept ==
    ASSUME Tools!MigrationConstants, MigrationIsKept, Tools!BackUp
    PROVE  MigrationIsKept'
  <1> DEFINE k == tool.at
  <1>1. /\ tool # None /\ tool.name = "schema" /\ tool.step = "back up"
        /\ UNCHANGED <<original, blobs, registered, runs, pointer, pointers, launches>>
        /\ \/ Tools!Works /\ saved' = [saved EXCEPT ![k] = blobs[k]] /\ Tools!Go("put")
           \/ Tools!Fails /\ saved' \in {saved, [saved EXCEPT ![k] = Tools!Torn]}
                /\ Tools!End("failed")
    BY DEF Tools!BackUp, Tools!Running, Tools!stagingVars, Tools!Go, Tools!End
  <1>2. ToolOK /\ SchemaOK /\ ended = None /\ StoreOK
    BY <1>1 DEF MigrationIsKept, RunningOK
  <1>3. k \in Tools!Indices /\ blobs[k] = original[k]
    BY <1>1, SourceIsOriginal
  <1>4. StoreOK'
    BY <1>1, <1>2, <1>3, CopyIsKept
  <1>5. RunsOK'
    BY <1>1, RunsAreKept DEF MigrationIsKept
  <1>6. ASSUME Tools!Go("put") , saved' = [saved EXCEPT ![k] = blobs[k]]
        PROVE  (RunningOK /\ Tools!RestoredIsOriginal /\ Tools!SuccessIsComplete)'
    <2>1. /\ DOMAIN tool' = ToolFields /\ tool'.step = "put" /\ tool'.at = k
          /\ tool'.name = tool.name /\ tool'.apply = tool.apply /\ tool'.only = tool.only
          /\ tool'.failed = tool.failed
          /\ tool'.found = tool.found /\ tool'.sources = tool.sources /\ ended' = None
      BY <1>2, <1>6 DEF ToolOK, ToolFields, Tools!Go
    <2>2. ToolOK'
      <3>1. Tools!IsList(tool'.sources)
        BY <1>2, <2>1 DEF ToolOK
      <3> QED
        BY <1>1, <1>2, <2>1, <3>1, ToolTypes, ToolIsKept
    <2>3. saved'[k] = blobs[k]
      BY <1>2, <1>3, <1>6 DEF StoreOK
    <2>4. SchemaOK'
      BY <1>1, <1>2, <2>1, <2>3 DEF SchemaOK
    <2>5. RunningOK'
      BY <1>1, <2>1, <2>2, <2>4 DEF RunningOK
    <2> QED
      BY <2>1, <2>5 DEF Tools!RestoredIsOriginal, Tools!SuccessIsComplete, Tools!Ended
  <1>7. (RunningOK /\ Tools!RestoredIsOriginal /\ Tools!SuccessIsComplete)'
    BY <1>1, <1>6, EndIsKept
  <1> QED
    BY <1>4, <1>5, <1>7 DEF MigrationIsKept

\* A key written with what its original became, while the copy is there.
LEMMA WriteIsKept ==
    ASSUME Tools!MigrationConstants, StoreOK, NEW k \in Tools!Indices, NEW value,
           saved[k] = original[k], k \notin registered \/ Tools!IsCurrent(value),
           \/ value = original[k]
           \/ /\ value = Tools!Target(original[k]) /\ Tools!IsCurrent(value)
              /\ Tools!LooksLikeV4Presentation(original[k])
                   => Tools!Compiled(original[k]) # Tools!Refused,
           blobs' \in {blobs, [blobs EXCEPT ![k] = value]},
           UNCHANGED <<original, saved, registered, launches>>, Tools!Works \/ Tools!Fails
    PROVE  StoreOK'
  <1>1. DOMAIN blobs' = Tools!Indices /\ \A i \in Tools!Indices : i # k => blobs'[i] = blobs[i]
    BY DEF StoreOK
  <1>2. blobs'[k] = blobs[k] \/ blobs'[k] = value
    BY DEF StoreOK
  <1>3. KeyIsKept(k)'
    BY <1>2 DEF StoreOK, KeyIsKept
  <1>4. \A i \in Tools!Indices : KeyIsKept(i)'
    <2>1. \A i \in Tools!Indices : i # k => KeyIsKept(i)'
      BY <1>1 DEF StoreOK, KeyIsKept
    <2> QED
      BY <1>3, <2>1
  <1>5. failures' \in 0 .. MaxFailures
    BY CountersAreKept
  <1>6. Tools!RegisteredIsReadable'
    BY <1>1, <1>2 DEF StoreOK, Tools!RegisteredIsReadable
  <1> QED
    BY <1>1, <1>4, <1>5, <1>6 DEF StoreOK

LEMMA PutIsKept ==
    ASSUME Tools!MigrationConstants, MigrationIsKept, Tools!Put
    PROVE  MigrationIsKept'
  <1> DEFINE k == tool.at
             new == Tools!Migrated(blobs[k])
             written == [blobs EXCEPT ![k] = new]
  <1>1. /\ tool # None /\ tool.name = "schema" /\ tool.step = "put"
        /\ UNCHANGED <<original, saved, registered, runs, pointer, pointers, launches>>
        /\ \/ Tools!Works /\ blobs' = written /\ Tools!Repeat("scan")
           \/ Tools!Fails /\ blobs' \in {blobs, written} /\ Tools!End("failed")
    BY DEF Tools!Put, Tools!Running, Tools!stagingVars, Tools!Repeat, Tools!End
  <1>2. ToolOK /\ SchemaOK /\ ended = None /\ StoreOK
    BY <1>1 DEF MigrationIsKept, RunningOK
  <1>3. k \in Tools!Indices /\ blobs[k] = original[k] /\ k \notin registered
    BY <1>1, SourceIsOriginal
  <1>4. new # Tools!Refused /\ saved[k] = original[k]
    BY <1>1, <1>2, <1>3 DEF SchemaOK
  <1>5. Tools!IsCurrent(new) /\ ~Tools!LooksLikeV4Presentation(original[k])
          /\ new = Tools!Target(original[k])
    BY <1>3, <1>4, MigratedIsCurrent, OldDecksAreRefused DEF Tools!Target
  <1> HIDE DEF new
  <1>6. StoreOK'
    BY <1>1, <1>2, <1>3, <1>4, <1>5, WriteIsKept
  <1>7. RunsOK'
    BY <1>1, RunsAreKept DEF MigrationIsKept
  <1>8. ASSUME Tools!Repeat("scan"), blobs' = written
        PROVE  (RunningOK /\ Tools!RestoredIsOriginal /\ Tools!SuccessIsComplete)'
    <2>1. /\ DOMAIN tool' = ToolFields /\ tool'.step = "scan" /\ tool'.at = k + 1
          /\ tool'.name = tool.name /\ tool'.apply = tool.apply /\ tool'.only = tool.only
          /\ tool'.failed = tool.failed
          /\ tool'.found = tool.found /\ tool'.sources = tool.sources /\ ended' = None
      BY <1>2, <1>8 DEF ToolOK, ToolFields, Tools!Repeat
    <2>2. blobs'[k] = new /\ \A i \in Tools!Indices : i # k => blobs'[i] = blobs[i]
      BY <1>2, <1>3, <1>8 DEF StoreOK
    <2>3. ~Tools!Convertible(blobs'[k])
      BY <1>5, <2>2, LatestIsCurrent
    <2>4. ToolOK' /\ SchemaOK'
      BY <1>1, <1>2, <1>3, <2>1, <2>2, <2>3, ToolTypes, PassingIsKept
    <2>6. RunningOK'
      BY <1>1, <2>1, <2>4 DEF RunningOK
    <2> QED
      BY <2>1, <2>6 DEF Tools!RestoredIsOriginal, Tools!SuccessIsComplete, Tools!Ended
  <1>9. (RunningOK /\ Tools!RestoredIsOriginal /\ Tools!SuccessIsComplete)'
    BY <1>1, <1>8, EndIsKept
  <1> QED
    BY <1>6, <1>7, <1>9 DEF MigrationIsKept

LEMMA FinishSchemaIsKept ==
    ASSUME Tools!MigrationConstants, MigrationIsKept, Tools!FinishSchema
    PROVE  MigrationIsKept'
  <1>1. /\ tool # None /\ tool.name = "schema" /\ tool.step = "scan" /\ tool.at \notin Tools!Indices
        /\ Tools!End(IF tool.failed > 0 THEN "incomplete" ELSE "done") /\ Tools!Works
        /\ UNCHANGED <<original, blobs, saved, registered, runs, pointer, pointers, launches>>
    BY DEF Tools!FinishSchema, Tools!Running, Tools!stagingVars, Tools!End
  <1>2. ToolOK /\ SchemaOK
    BY <1>1 DEF MigrationIsKept, RunningOK
  <1>3. StoreOK'
    BY <1>1, StoreIsKept, CountersAreKept DEF MigrationIsKept, StoreOK
  <1>4. RunsOK'
    BY <1>1, RunsAreKept DEF MigrationIsKept
  <1>5. CASE tool.failed > 0
    <2>1. Tools!End("incomplete")
      BY <1>1, <1>5
    <2> QED
      BY <1>3, <1>4, <2>1, EndIsKept DEF MigrationIsKept
  <1>6. CASE ~(tool.failed > 0)
    <2>1. tool' = None /\ ended' = [how |-> "done", was |-> tool] /\ tool.failed = 0
      BY <1>1, <1>2, <1>6 DEF Tools!End, ToolOK
    <2>2. ended'.how = "done" /\ ended'.was = tool
      BY <2>1
    <2>3. RunningOK' /\ Tools!RestoredIsOriginal'
      BY <2>1, <2>2 DEF RunningOK, Tools!RestoredIsOriginal, Tools!Ended
    <2>4. \A k \in Tools!Indices : k < tool.at
      BY <1>1, <1>2, ListIs DEF Tools!MigrationConstants, Tools!Indices, ToolOK
    <2>5. Tools!SuccessIsComplete'
      BY <1>1, <1>2, <2>1, <2>2, <2>4 DEF Tools!SuccessIsComplete, SchemaOK
    <2> QED
      BY <1>3, <1>4, <2>3, <2>5 DEF MigrationIsKept
  <1> QED
    BY <1>5, <1>6


--------------------------------------------------------------------------------
\* The registration.

LEMMA RegisterKeyIsKept ==
    ASSUME Tools!MigrationConstants, MigrationIsKept, Tools!RegisterKey
    PROVE  MigrationIsKept'
  <1>1. /\ tool # None /\ tool.name = "reconcile" /\ tool.step = "scan" /\ tool.at \in Tools!Indices
        /\ Tools!Works /\ Tools!Skip
        /\ UNCHANGED <<original, blobs, saved, runs, pointer, pointers, ended, launches>>
        /\ \/ registered' = registered
           \/ registered' = registered \cup {tool.at} /\ Tools!IsCurrent(blobs[tool.at])
    BY DEF Tools!RegisterKey, Tools!Running, Tools!stagingVars, Tools!Skip, Tools!Registrable
  <1>2. ToolOK /\ ended = None
    BY <1>1 DEF MigrationIsKept, RunningOK
  <1>3. StoreOK'
    <2>1. failures' \in 0 .. MaxFailures
      BY <1>1, CountersAreKept DEF MigrationIsKept
    <2>2. \A k \in Tools!Indices : KeyIsKept(k)'
      BY <1>1 DEF MigrationIsKept, StoreOK, KeyIsKept
    <2>3. Tools!RegisteredIsReadable'
      BY <1>1 DEF MigrationIsKept, StoreOK, Tools!RegisteredIsReadable
    <2> QED
      BY <1>1, <2>1, <2>2, <2>3 DEF MigrationIsKept, StoreOK
  <1>4. RunsOK'
    BY <1>1, RunsAreKept DEF MigrationIsKept
  <1>5. /\ DOMAIN tool' = ToolFields /\ tool'.step = "scan" /\ tool'.at = tool.at + 1
        /\ tool'.name = "reconcile" /\ tool'.failed = tool.failed
        /\ tool'.found = tool.found /\ tool'.sources = tool.sources
    BY <1>1, <1>2, ToolTypes DEF Tools!Skip, ToolFields
  <1>6. tool.at + 1 \in Nat \ {0} /\ tool.failed \in Nat
    BY <1>2, ToolTypes
  \* Its list is empty, so that registering concerns none of it.
  <1>7. ToolOK'
    <2>1. tool.found = <<>> /\ Tools!IsList(tool.sources)
      BY <1>1, <1>2 DEF ToolOK
    <2> QED
      BY <1>5, <1>6, <2>1, NothingListed DEF ToolOK
  <1>8. RunningOK'
    BY <1>1, <1>2, <1>5, <1>7 DEF RunningOK
  <1> QED
    BY <1>1, <1>2, <1>3, <1>4, <1>8 DEF MigrationIsKept, Tools!RestoredIsOriginal,
       Tools!SuccessIsComplete, Tools!Ended

LEMMA FinishReconcileIsKept ==
    ASSUME Tools!MigrationConstants, MigrationIsKept, Tools!FinishReconcile
    PROVE  MigrationIsKept'
  <1>1. /\ tool # None /\ tool.name = "reconcile" /\ Tools!End("done") /\ Tools!Works
        /\ UNCHANGED <<original, blobs, saved, registered, runs, pointer, pointers, launches>>
    BY DEF Tools!FinishReconcile, Tools!Running, Tools!stagingVars, Tools!End
  <1>2. StoreOK'
    BY <1>1, StoreIsKept, CountersAreKept DEF MigrationIsKept, StoreOK
  <1>3. RunsOK'
    BY <1>1, RunsAreKept DEF MigrationIsKept
  <1>4. tool' = None /\ ended' = [how |-> "done", was |-> tool]
    BY <1>1 DEF Tools!End
  <1>5. ended'.how = "done" /\ ended'.was = tool
    BY <1>4
  <1>6. RunningOK' /\ Tools!RestoredIsOriginal' /\ Tools!SuccessIsComplete'
    BY <1>1, <1>4, <1>5 DEF RunningOK, Tools!RestoredIsOriginal, Tools!SuccessIsComplete,
       Tools!Ended
  <1> QED
    BY <1>2, <1>3, <1>6 DEF MigrationIsKept

--------------------------------------------------------------------------------
\* The compiler.

LEMMA FilesAre ==
    ASSUME NEW found, Tools!IsList(found)
    PROVE  LET files == Tools!FilesOf(found)
           IN  /\ Len(files) = 2 * Len(found) + 1 /\ DOMAIN files = 1 .. 2 * Len(found) + 1
               /\ \A i \in DOMAIN found :
                     /\ 2 * i - 1 \in DOMAIN files /\ 2 * i \in DOMAIN files
                     /\ files[2 * i - 1].file = "deck" /\ files[2 * i - 1].key = found[i].key
                     /\ files[2 * i].file = "report" /\ files[2 * i].key = found[i].key
               /\ files[2 * Len(found) + 1].file = "manifest"
               /\ files[2 * Len(found) + 1].keys = {found[i].key : i \in DOMAIN found}
  <1> DEFINE N == 2 * Len(found) + 1
             candidate(n) == found[(n + 1) \div 2]
             file(n) == IF n % 2 = 1
                        THEN [file |-> "deck", key |-> candidate(n).key, holds |-> candidate(n).staged.deck]
                        ELSE [file |-> "report", key |-> candidate(n).key, holds |-> candidate(n).staged.report]
             last == [file |-> "manifest", keys |-> {found[i].key : i \in DOMAIN found}]
             files == Tools!FilesOf(found)
  <1>1. Len(found) \in Nat /\ DOMAIN found = 1 .. Len(found) /\ N \in Nat /\ N > 0
    BY ListIs
  <1>2. files = [n \in 1 .. N |-> IF n <= 2 * Len(found) THEN file(n) ELSE last]
    BY DEF Tools!FilesOf
  <1> HIDE DEF files, file, last
  <1>3. DOMAIN files = 1 .. N /\ \A n \in 1 .. N : files[n] = IF n <= 2 * Len(found) THEN file(n) ELSE last
    BY <1>2
  <1>4. Len(files) = N
    <2>1. \A n \in 1 .. N : files[n] \in Tools!ToSet(files)
      BY <1>3 DEF Tools!ToSet
    <2>2. files \in [1 .. N -> Tools!ToSet(files)]
      BY <1>2, <2>1
    <2>3. files \in Seq(Tools!ToSet(files))
      BY <1>1, <2>2, SeqDef
    <2>4. Len(files) \in Nat /\ DOMAIN files = 1 .. Len(files)
      BY <2>3, LenProperties
    <2> HIDE DEF N
    <2> QED
      BY <1>1, <1>3, <2>4
  <1>5. ASSUME NEW i \in DOMAIN found
        PROVE  /\ 2 * i - 1 \in DOMAIN files /\ 2 * i \in DOMAIN files
               /\ files[2 * i - 1].file = "deck" /\ files[2 * i - 1].key = found[i].key
               /\ files[2 * i].file = "report" /\ files[2 * i].key = found[i].key
    <2>1. /\ 2 * i - 1 \in 1 .. N /\ 2 * i \in 1 .. N
          /\ 2 * i - 1 <= 2 * Len(found) /\ 2 * i <= 2 * Len(found)
      BY <1>1
    <2>2. /\ ((2 * i - 1) + 1) \div 2 = i /\ (2 * i + 1) \div 2 = i
          /\ (2 * i - 1) % 2 = 1 /\ (2 * i) % 2 # 1
      BY <1>1
    <2>3. file(2 * i - 1).file = "deck" /\ file(2 * i - 1).key = found[i].key
      BY <2>2 DEF file
    <2>4. file(2 * i).file = "report" /\ file(2 * i).key = found[i].key
      BY <2>2 DEF file
    <2> QED
      BY <1>3, <2>1, <2>3, <2>4
  <1>6. files[N] = last
    BY <1>1, <1>3
  <1>7. last.file = "manifest" /\ last.keys = {found[i].key : i \in DOMAIN found}
    BY DEF last
  <1> QED
    BY <1>3, <1>4, <1>5, <1>6, <1>7 DEF files

LEMMA FilesAreComplete ==
    ASSUME NEW found, Tools!IsList(found), NEW files, Tools!ToSet(Tools!FilesOf(found)) \subseteq files
    PROVE  IsComplete(files)
  <1> DEFINE N == 2 * Len(found) + 1
             manifest == Tools!FilesOf(found)[N]
  <1>1. \A n \in DOMAIN Tools!FilesOf(found) : Tools!FilesOf(found)[n] \in files
    BY DEF Tools!ToSet
  <1>2. manifest \in {f \in files : f.file = "manifest"}
    <2>1. N \in DOMAIN Tools!FilesOf(found)
      BY FilesAre, ListIs
    <2> QED
      BY <1>1, <2>1, FilesAre
  <1>3. manifest.keys = {found[i].key : i \in DOMAIN found}
    BY FilesAre
  <1> HIDE DEF manifest, N
  <1>4. ASSUME NEW k \in manifest.keys, NEW file \in {"deck", "report"}
        PROVE  \E f \in files : f.file = file /\ f.key = k
    <2>1. PICK i \in DOMAIN found : k = found[i].key
      BY <1>3
    <2>2. /\ Tools!FilesOf(found)[2 * i - 1] \in files /\ Tools!FilesOf(found)[2 * i] \in files
      BY <1>1, FilesAre
    <2> QED
      BY <2>1, <2>2, FilesAre
  <1> QED
    BY <1>2, <1>4 DEF IsComplete


\* What the compiler's process and its list are while it runs.
LEMMA CompilerRuns ==
    ASSUME MigrationIsKept, tool # None, tool.name = "presentation"
    PROVE  /\ StoreOK /\ RunsOK /\ ToolOK /\ CompilerOK /\ ended = None
           /\ tool.at \in Nat \ {0} /\ tool.failed \in Nat /\ DOMAIN tool = ToolFields
           /\ Tools!IsList(tool.found) /\ Tools!IsList(tool.sources)
           /\ Len(tool.found) \in Nat /\ DOMAIN tool.found = 1 .. Len(tool.found)
           /\ \A i \in DOMAIN tool.found : IsCandidate(tool.found[i])
           /\ \A i, j \in DOMAIN tool.found : tool.found[i].key = tool.found[j].key => i = j
  BY ListIs DEF MigrationIsKept, RunningOK, ToolOK

\* A step of the compiler's that writes no snapshot.
LEMMA GoingOnIsKept ==
    ASSUME Tools!MigrationConstants, MigrationIsKept, tool # None, tool.name = "presentation",
           UNCHANGED <<original, blobs, saved, registered, launches, ended>>, Tools!Works
                       \/ Tools!Fails,
           RunsOK', ToolOK', CompilerOK', tool'.name = "presentation"
    PROVE  MigrationIsKept'
  <1>1. StoreOK'
    BY StoreIsKept, CountersAreKept DEF MigrationIsKept, StoreOK
  <1>2. ended' = None
    BY CompilerRuns
  <1>3. RunningOK'
    BY <1>2 DEF RunningOK
  <1> QED
    BY <1>1, <1>2, <1>3 DEF MigrationIsKept, Tools!RestoredIsOriginal, Tools!SuccessIsComplete,
       Tools!Ended

LEMMA EndingIsKept ==
    ASSUME Tools!MigrationConstants, MigrationIsKept,
           UNCHANGED <<original, blobs, saved, registered>>, Tools!Works \/ Tools!Fails,
           RunsOK', NEW how, Tools!End(how), how \notin {"done", "restored"}
    PROVE  MigrationIsKept'
  <1>1. StoreOK'
    BY StoreIsKept, CountersAreKept DEF MigrationIsKept, StoreOK, Tools!End
  <1> QED
    BY <1>1, EndIsKept DEF MigrationIsKept

LEMMA CompileKeyIsKept ==
    ASSUME Tools!MigrationConstants, MigrationIsKept, Tools!CompileKey
    PROVE  MigrationIsKept'
  <1> DEFINE k == tool.at
             raw == blobs[k]
             made == Tools!Compiled(raw)
             entry == [key |-> k, staged |-> made]
             m == k + 1
             n == tool.failed + 1
  <1>1. /\ tool # None /\ tool.name = "presentation" /\ tool.step = "scan" /\ k \in Tools!Indices
             /\ Tools!Works
        /\ UNCHANGED <<original, blobs, saved, registered, runs, pointer, pointers, staging, ended, launches>>
        /\ Tools!Skip \/ (Tools!LooksLikeV4Presentation(raw) /\ tool' = Tools!Noted(k, made))
    BY DEF Tools!CompileKey, Tools!Running, Tools!stagingVars, Tools!Skip
  <1>2. /\ CompilerOK /\ ToolOK /\ StoreOK /\ RunsOK /\ k \in Nat \ {0} /\ tool.failed \in Nat
        /\ DOMAIN tool = ToolFields /\ Tools!IsList(tool.found)
        /\ DOMAIN tool.found = 1 .. Len(tool.found) /\ Len(tool.found) \in Nat
        /\ \A i \in DOMAIN tool.found : IsCandidate(tool.found[i])
        /\ \A i, j \in DOMAIN tool.found : tool.found[i].key = tool.found[j].key => i = j
    BY <1>1, CompilerRuns
  <1>3. /\ m \in Nat \ {0} /\ n \in Nat
        /\ \A i \in DOMAIN tool.found : tool.found[i].key \in Nat
    BY <1>2, CandidateFacts, IndicesAre
  <1>4. /\ \A i \in DOMAIN tool.found : Untouched(tool.found[i]) /\ tool.found[i].key < k
        /\ tool.sources = <<>> /\ tool.clean
    BY <1>1, <1>2 DEF CompilerOK
  <1>5. RunsOK'
    BY <1>1, <1>2, RunsAreKept
  <1>6. \A i \in DOMAIN tool.found : tool.found[i].key < m
    BY <1>2, <1>3, <1>4
  \* The list as it was.
  <1>7. ASSUME tool' = [tool EXCEPT !.at = m] \/ tool' = [tool EXCEPT !.at = m, !.failed = n]
        PROVE  ToolOK' /\ CompilerOK' /\ tool'.name = "presentation"
    <2> HIDE DEF m, n
    <2>1. /\ DOMAIN tool' = ToolFields /\ tool'.name = tool.name /\ tool'.step = "scan"
               /\ tool'.at = m
          /\ tool'.found = tool.found /\ tool'.sources = tool.sources /\ tool'.clean = tool.clean
          /\ tool'.failed = tool.failed \/ tool'.failed = n
      BY <1>1, <1>2, <1>7 DEF ToolFields
    <2>2. ToolOK'
      BY <1>1, <1>2, <1>3, <1>4, <2>1, NothingListed, ToolIsKept
    <2>3. CompilerOK'
      BY <1>1, <1>4, <1>6, <2>1 DEF CompilerOK, Untouched
    <2> QED
      BY <1>1, <2>1, <2>2, <2>3
  \* One more on it.
  <1>8. ASSUME Tools!LooksLikeV4Presentation(raw), made # Tools!Refused,
               tool' = [tool EXCEPT !.at = m, !.found = Append(@, entry)]
        PROVE  ToolOK' /\ CompilerOK' /\ tool'.name = "presentation"
    <2> DEFINE found == Append(tool.found, entry)
    <2>1. raw = original[k] /\ k \notin registered
      BY <1>1, <1>2, <1>8, OldIsOriginal
    <2>2. entry.key = k /\ entry.staged = made
      OBVIOUS
    <2>3. IsCandidate(entry) /\ Untouched(entry)
      BY <1>1, <1>8, <2>1, <2>2 DEF IsCandidate, Untouched
    <2> HIDE DEF entry
    <2>4. /\ Tools!IsList(found) /\ DOMAIN found = 1 .. Len(tool.found) + 1
          /\ \A i \in DOMAIN tool.found : found[i] = tool.found[i]
          /\ found[Len(tool.found) + 1] = entry
      BY <1>2, Appended
    <2>5. \A i \in DOMAIN found : i \in DOMAIN tool.found \/ i = Len(tool.found) + 1
      BY <1>2, <2>4
    <2> HIDE DEF m, n, found
    <2>6. /\ DOMAIN tool' = ToolFields /\ tool'.name = tool.name /\ tool'.step = "scan"
               /\ tool'.at = m
          /\ tool'.found = found /\ tool'.sources = tool.sources /\ tool'.clean = tool.clean
          /\ tool'.failed = tool.failed
      BY <1>1, <1>2, <1>8 DEF ToolFields, found
    <2>7. \A i \in DOMAIN found : IsCandidate(found[i]) /\ Untouched(found[i]) /\ found[i].key < m
      <3>1. k < m
        BY <1>2 DEF m
      <3> QED
        BY <1>2, <1>4, <1>6, <2>2, <2>3, <2>4, <2>5, <3>1
    <2>8. \A i, j \in DOMAIN found : found[i].key = found[j].key => i = j
      <3>1. \A i \in DOMAIN tool.found : tool.found[i].key # k
        BY <1>2, <1>3, <1>4
      <3> QED
        BY <1>2, <2>2, <2>4, <2>5, <3>1
    <2> QED
      BY <1>1, <1>2, <1>3, <1>4, <2>4, <2>6, <2>7, <2>8, NothingListed DEF ToolOK, CompilerOK,
         IsCandidate, Untouched
  <1>9. \/ tool' = [tool EXCEPT !.at = m] \/ tool' = [tool EXCEPT !.at = m, !.failed = n]
        \/ /\ Tools!LooksLikeV4Presentation(raw) /\ made # Tools!Refused
           /\ tool' = [tool EXCEPT !.at = m, !.found = Append(@, entry)]
    BY <1>1 DEF Tools!Skip, Tools!Noted
  <1> HIDE DEF m, n, entry
  <1>10. ToolOK' /\ CompilerOK' /\ tool'.name = "presentation"
    BY <1>7, <1>8, <1>9
  <1> QED
    BY <1>1, <1>5, <1>10, GoingOnIsKept

LEMMA DecideIsKept ==
    ASSUME Tools!MigrationConstants, MigrationIsKept, Tools!Decide
    PROVE  MigrationIsKept'
  <1>1. /\ tool # None /\ tool.name = "presentation" /\ tool.step = "scan" /\ Tools!Works
        /\ UNCHANGED <<original, blobs, saved, registered, runs, pointer, pointers, staging, launches>>
        /\ \/ Tools!End("refused") \/ Tools!End("rehearsed") \/ Tools!End("empty")
           \/ tool.found # <<>> /\ Tools!From("stage")
    BY DEF Tools!Decide, Tools!Running, Tools!stagingVars, Tools!From, Tools!End
  <1>2. RunsOK'
    BY <1>1, RunsAreKept DEF MigrationIsKept
  <1>3. ASSUME tool.found # <<>>, Tools!From("stage") PROVE MigrationIsKept'
    <2>1. /\ CompilerOK /\ ToolOK /\ tool.failed \in Nat /\ DOMAIN tool = ToolFields
          /\ Tools!IsList(tool.found) /\ Tools!IsList(tool.sources) /\ Len(tool.found) \in Nat
      BY <1>1, CompilerRuns
    <2>2. /\ DOMAIN tool' = ToolFields /\ tool'.name = tool.name /\ tool'.step = "stage"
               /\ tool'.at = 1
          /\ tool'.found = tool.found /\ tool'.sources = tool.sources /\ tool'.clean = tool.clean
          /\ tool'.failed = tool.failed /\ ended' = ended
      BY <1>3, <2>1 DEF Tools!From, ToolFields
    <2>3. ToolOK'
      BY <1>1, <2>1, <2>2, ToolIsKept
    <2>4. 1 \in DOMAIN Tools!FilesOf(tool.found)
      <3>1. 1 \in 1 .. 2 * Len(tool.found) + 1
        BY <2>1
      <3> QED
        BY <2>1, <3>1, FilesAre
    <2>5. CompilerOK'
      BY <1>1, <1>3, <2>1, <2>2, <2>4 DEF CompilerOK, Untouched
    <2> QED
      BY <1>1, <1>2, <2>2, <2>3, <2>5, GoingOnIsKept
  <1> QED
    BY <1>1, <1>2, <1>3, EndingIsKept

LEMMA StageFileIsKept ==
    ASSUME Tools!MigrationConstants, MigrationIsKept, Tools!StageFile
    PROVE  MigrationIsKept'
  <1> DEFINE files == Tools!FilesOf(tool.found)
             file == files[tool.at]
             m == tool.at + 1
  <1>1. /\ tool # None /\ tool.name = "presentation" /\ tool.step = "stage"
        /\ UNCHANGED <<original, blobs, saved, registered, runs, pointer, pointers, launches>>
        /\ \/ /\ Tools!Works /\ staging' = staging \cup {file}
              /\ IF tool.at = Len(files) THEN Tools!From("publish") ELSE Tools!Skip
           \/ Tools!Fails /\ Tools!End("failed")
    BY DEF Tools!StageFile, Tools!Running, Tools!From, Tools!Skip, Tools!End
  <1>2. RunsOK'
    BY <1>1, RunsAreKept DEF MigrationIsKept
  <1>3. ASSUME Tools!Works, staging' = staging \cup {file},
               IF tool.at = Len(files) THEN Tools!From("publish") ELSE Tools!Skip
        PROVE  MigrationIsKept'
    <2>1. /\ CompilerOK /\ ToolOK /\ tool.failed \in Nat /\ DOMAIN tool = ToolFields
          /\ Tools!IsList(tool.found) /\ Tools!IsList(tool.sources) /\ tool.at \in Nat \ {0}
      BY <1>1, CompilerRuns
    <2>2. /\ tool.at \in DOMAIN files /\ \A n \in 1 .. tool.at - 1 : files[n] \in staging
          /\ tool.found # <<>> /\ tool.sources = <<>> /\ tool.clean
          /\ \A i \in DOMAIN tool.found : Untouched(tool.found[i])
      BY <1>1, <2>1 DEF CompilerOK
    <2>3. DOMAIN files = 1 .. Len(files) /\ Len(files) \in Nat
      <3>1. 2 * Len(tool.found) + 1 \in Nat
        BY <2>1, ListIs
      <3> QED
        BY <2>1, <3>1, FilesAre
    <2> HIDE DEF files
    <2>4. \A n \in 1 .. tool.at : files[n] \in staging'
      BY <1>3, <2>1, <2>2
    <2>5. m \in Nat \ {0} /\ \A n \in 1 .. m - 1 : files[n] \in staging'
      BY <2>1, <2>4
    <2>6. CASE tool.at = Len(files)
      <3>1. /\ DOMAIN tool' = ToolFields /\ tool'.name = tool.name /\ tool'.step = "publish"
                 /\ tool'.at = 1
            /\ tool'.found = tool.found /\ tool'.sources = tool.sources /\ tool'.clean = tool.clean
            /\ tool'.failed = tool.failed /\ ended' = ended
        BY <1>3, <2>1, <2>6 DEF Tools!From, ToolFields
      <3>2. ToolOK'
        BY <1>1, <2>1, <3>1, ToolIsKept
      <3>3. Tools!ToSet(files) \subseteq staging'
        BY <2>3, <2>4, <2>6 DEF Tools!ToSet
      <3>4. CompilerOK'
        BY <1>1, <2>2, <3>1, <3>3 DEF CompilerOK, Untouched, files
      <3> QED
        BY <1>1, <1>2, <1>3, <3>1, <3>2, <3>4, GoingOnIsKept
    <2>7. CASE tool.at # Len(files)
      <3>1. m \in DOMAIN files
        BY <2>2, <2>3, <2>7
      <3>2. tool' = [tool EXCEPT !.at = m] /\ ended' = ended
        BY <1>3, <2>7 DEF Tools!Skip
      <3> HIDE DEF m
      <3>3. /\ DOMAIN tool' = ToolFields /\ tool'.name = tool.name /\ tool'.step = "stage"
                 /\ tool'.at = m
            /\ tool'.found = tool.found /\ tool'.sources = tool.sources /\ tool'.clean = tool.clean
            /\ tool'.failed = tool.failed
        BY <1>1, <2>1, <3>2 DEF ToolFields
      <3>4. ToolOK'
        BY <1>1, <2>1, <2>5, <3>3, ToolIsKept
      <3>5. CompilerOK'
        BY <1>1, <2>2, <2>5, <3>1, <3>3 DEF CompilerOK, Untouched, files
      <3> QED
        BY <1>1, <1>2, <1>3, <3>2, <3>3, <3>4, <3>5, GoingOnIsKept
    <2> QED
      BY <2>6, <2>7
  <1> HIDE DEF files, file
  <1> QED
    BY <1>1, <1>2, <1>3, EndingIsKept


\* A run is added whole, and the pointers are to what is there.
LEMMA RunsGrow ==
    ASSUME RunsOK, IsComplete(staging), runs' = Append(runs, staging), UNCHANGED <<pointer, pointers>>
    PROVE  RunsOK'
  <1>1. /\ Tools!IsList(runs) /\ Len(runs) \in Nat /\ DOMAIN runs = 1 .. Len(runs)
        /\ pointer \in 0 .. Len(runs) /\ pointers \subseteq 1 .. Len(runs)
    BY ListIs DEF RunsOK
  <1>2. /\ Tools!IsList(runs') /\ Len(runs') = Len(runs) + 1 /\ DOMAIN runs' = 1 .. Len(runs) + 1
        /\ \A i \in DOMAIN runs : runs'[i] = runs[i]
        /\ runs'[Len(runs) + 1] = staging
    BY <1>1, Appended
  <1>3. pointer' \in 0 .. Len(runs') /\ pointers' \subseteq 1 .. Len(runs')
    BY <1>1, <1>2
  <1>4. \A r \in DOMAIN runs' : IsComplete(runs'[r])
    <2> TAKE r \in DOMAIN runs'
    <2>1. CASE r \in DOMAIN runs
      BY <1>2, <2>1 DEF RunsOK
    <2>2. CASE r = Len(runs) + 1
      BY <1>2, <2>2
    <2> QED
      BY <1>1, <1>2, <2>1, <2>2
  <1> QED
    BY <1>2, <1>3, <1>4 DEF RunsOK

LEMMA OneIsPositive == 1 \in Nat \ {0}
  OBVIOUS

\* The compiler goes from one step to the next, its list and counter as they were.
LEMMA GoneOn ==
    ASSUME ToolOK, UNCHANGED <<original, registered>>, tool.name = "presentation",
           NEW step \in {"keep pointer", "swap pointer", "back up all"},
           tool' = [tool EXCEPT !.step = step] \/ tool' = [tool EXCEPT !.step = step, !.at = 1]
    PROVE  /\ DOMAIN tool' = ToolFields /\ tool'.name = "presentation" /\ tool'.step = step
           /\ tool'.found = tool.found /\ tool'.sources = tool.sources /\ tool'.clean = tool.clean
           /\ tool' = [tool EXCEPT !.step = step, !.at = 1] => tool'.at = 1
           /\ ToolOK'
  <1>1. DOMAIN tool = ToolFields /\ tool.at \in Nat \ {0} /\ tool.failed \in Nat
                 /\ Tools!IsList(tool.sources)
    BY ToolTypes DEF ToolOK
  <1>2. /\ DOMAIN tool' = ToolFields /\ tool'.name = "presentation" /\ tool'.step = step
        /\ tool'.found = tool.found /\ tool'.sources = tool.sources /\ tool'.clean = tool.clean
        /\ tool'.failed = tool.failed /\ tool'.at \in Nat \ {0}
    <2>1. CASE tool' = [tool EXCEPT !.step = step]
      BY <1>1, <2>1 DEF ToolFields
    <2>2. CASE tool' = [tool EXCEPT !.step = step, !.at = 1]
      <3>1. tool'.at = 1
        BY <1>1, <2>2 DEF ToolFields
      <3>2. /\ DOMAIN tool' = ToolFields /\ tool'.name = "presentation" /\ tool'.step = step
            /\ tool'.found = tool.found /\ tool'.sources = tool.sources /\ tool'.clean = tool.clean
            /\ tool'.failed = tool.failed
        BY <1>1, <2>2 DEF ToolFields
      <3>3. tool'.at \in Nat \ {0}
        BY <3>1, OneIsPositive, Zenon
      <3> QED
        BY <3>2, <3>3
    <2> QED
      BY <2>1, <2>2
  <1>3. tool' = [tool EXCEPT !.step = step, !.at = 1] => tool'.at = 1
    BY <1>1 DEF ToolFields
  <1>4. ToolOK'
    BY <1>1, <1>2, ToolIsKept
  <1> QED
    BY <1>2, <1>3, <1>4

LEMMA PublishRunIsKept ==
    ASSUME Tools!MigrationConstants, MigrationIsKept, Tools!PublishRun
    PROVE  MigrationIsKept'
  <1>1. /\ tool # None /\ tool.name = "presentation" /\ tool.step = "publish"
        /\ UNCHANGED <<original, blobs, saved, registered, pointer, pointers, launches>>
        /\ \/ Tools!Works /\ runs' = Append(runs, staging) /\ Tools!Go("keep pointer")
           \/ /\ Tools!Fails /\ Tools!End("failed")
              /\ runs' = runs \/ runs' = Append(runs, staging)
    BY DEF Tools!PublishRun, Tools!Running, Tools!Go, Tools!End
  <1>2. CompilerOK /\ ToolOK /\ RunsOK /\ Tools!IsList(tool.found)
    BY <1>1, CompilerRuns
  <1>3. /\ Tools!ToSet(Tools!FilesOf(tool.found)) \subseteq staging
        /\ tool.found # <<>> /\ tool.sources = <<>> /\ tool.clean
        /\ \A i \in DOMAIN tool.found : Untouched(tool.found[i])
    BY <1>1, <1>2 DEF CompilerOK
  <1>4. RunsOK'
    BY <1>1, <1>2, <1>3, FilesAreComplete, RunsGrow, RunsAreKept
  <1>5. ASSUME Tools!Works, Tools!Go("keep pointer") PROVE MigrationIsKept'
    <2>1. /\ tool'.name = "presentation" /\ tool'.step = "keep pointer" /\ ToolOK' /\ ended' = ended
          /\ tool'.found = tool.found /\ tool'.sources = tool.sources /\ tool'.clean = tool.clean
      BY <1>1, <1>2, <1>5, GoneOn DEF Tools!Go
    <2>2. CompilerOK'
      BY <1>1, <1>3, <2>1 DEF CompilerOK, Untouched
    <2> QED
      BY <1>1, <1>4, <1>5, <2>1, <2>2, GoingOnIsKept
  <1> QED
    BY <1>1, <1>4, <1>5, EndingIsKept

LEMMA KeepPointerIsKept ==
    ASSUME Tools!MigrationConstants, MigrationIsKept, Tools!KeepPointer
    PROVE  MigrationIsKept'
  <1> DEFINE kept == pointers \cup ({pointer} \ {0})
  <1>1. /\ tool # None /\ tool.name = "presentation" /\ tool.step = "keep pointer"
        /\ UNCHANGED <<original, blobs, saved, registered, staging, runs, pointer, launches>>
        /\ pointers' \in {pointers, kept}
        /\ \/ (Tools!Works \/ Tools!Fails) /\ Tools!Go("swap pointer")
           \/ Tools!Fails /\ Tools!End("failed")
    BY DEF Tools!KeepPointer, Tools!Running, Tools!Go, Tools!End
  <1>2. CompilerOK /\ ToolOK /\ RunsOK
    BY <1>1, CompilerRuns
  <1>3. /\ tool.found # <<>> /\ tool.sources = <<>> /\ tool.clean
        /\ \A i \in DOMAIN tool.found : Untouched(tool.found[i])
    BY <1>1, <1>2 DEF CompilerOK
  <1>4. RunsOK'
    <2>1. kept \subseteq 1 .. Len(runs)
      BY <1>2, ListIs DEF RunsOK
    <2> HIDE DEF kept
    <2> QED
      BY <1>1, <1>2, <2>1 DEF RunsOK
  <1> HIDE DEF kept
  <1>5. ASSUME Tools!Works \/ Tools!Fails, Tools!Go("swap pointer") PROVE MigrationIsKept'
    <2>1. /\ tool'.name = "presentation" /\ tool'.step = "swap pointer" /\ ToolOK' /\ ended' = ended
          /\ tool'.found = tool.found /\ tool'.sources = tool.sources /\ tool'.clean = tool.clean
      BY <1>1, <1>2, <1>5, GoneOn DEF Tools!Go
    <2>2. CompilerOK'
      BY <1>1, <1>3, <2>1 DEF CompilerOK, Untouched
    <2> QED
      BY <1>1, <1>4, <1>5, <2>1, <2>2, GoingOnIsKept
  <1> QED
    BY <1>1, <1>4, <1>5, EndingIsKept

LEMMA SwapPointerIsKept ==
    ASSUME Tools!MigrationConstants, MigrationIsKept, Tools!SwapPointer
    PROVE  MigrationIsKept'
  <1>1. /\ tool # None /\ tool.name = "presentation" /\ tool.step = "swap pointer"
        /\ UNCHANGED <<original, blobs, saved, registered, staging, runs, pointers, launches>>
        /\ pointer' \in {pointer, Len(runs)}
        /\ \/ Tools!Works /\ (Tools!From("back up all") \/ Tools!End("staged"))
           \/ Tools!Fails /\ Tools!End("failed")
    BY DEF Tools!SwapPointer, Tools!Running, Tools!From, Tools!End
  <1>2. CompilerOK /\ ToolOK /\ RunsOK /\ Tools!IsList(tool.found)
    BY <1>1, CompilerRuns
  <1>3. /\ tool.found # <<>> /\ tool.sources = <<>> /\ tool.clean
        /\ \A i \in DOMAIN tool.found : Untouched(tool.found[i])
    BY <1>1, <1>2 DEF CompilerOK
  <1>4. RunsOK'
    <2>1. pointer' \in 0 .. Len(runs)
      <3>1. Len(runs) \in Nat /\ pointer \in 0 .. Len(runs)
        BY <1>2, ListIs DEF RunsOK
      <3>2. pointer' = pointer \/ pointer' = Len(runs)
        BY <1>1
      <3>3. Len(runs) \in 0 .. Len(runs)
        BY <3>1
      <3> QED
        BY <3>1, <3>2, <3>3
    <2> QED
      BY <1>1, <1>2, <2>1 DEF RunsOK
  <1>5. ASSUME Tools!Works, Tools!From("back up all") PROVE MigrationIsKept'
    <2>1. /\ tool'.name = "presentation" /\ tool'.step = "back up all" /\ ToolOK' /\ ended' = ended
          /\ tool'.found = tool.found /\ tool'.sources = tool.sources /\ tool'.clean = tool.clean
          /\ tool'.at = 1
      BY <1>1, <1>2, <1>5, GoneOn DEF Tools!From
    <2>2. 1 \in DOMAIN tool.found
      <3>1. tool.found \in Seq(Tools!ToSet(tool.found))
        BY <1>2 DEF Tools!IsList
      <3> QED
        BY <1>3, <3>1, EmptySeq, ListIs, <1>2
    <2>3. AreCopied(0)'
      <3>1. \A j \in 1 .. 0 : FALSE
        OBVIOUS
      <3>2. Len(tool'.sources) = 0
        BY <1>3, <2>1, NothingListed
      <3> QED
        BY <3>1, <3>2 DEF AreCopied
    <2>4. 1 - 1 = 0
      OBVIOUS
    <2>5. CompilerOK'
      BY <1>1, <1>3, <2>1, <2>2, <2>3, <2>4 DEF CompilerOK, Untouched
    <2> QED
      BY <1>1, <1>4, <1>5, <2>1, <2>5, GoingOnIsKept
  <1> QED
    BY <1>1, <1>4, <1>5, EndingIsKept


LEMMA Decreased == \A n, m : n \in Nat \ {0} /\ m = n - 1 => m + 1 = n
  OBVIOUS

LEMMA Before == \A n \in Nat : \A j \in 1 .. n : j # n => j \in 1 .. n - 1
  OBVIOUS

LEMMA Below ==
    ASSUME NEW N \in Nat, NEW n \in 1 .. N, NEW j \in 1 .. n
    PROVE  j \in 1 .. N
  OBVIOUS

\* One more source is copied, the n-th.
CopiesOneMore(n, key, sources) ==
    /\ n = tool.at /\ key = tool.found[n].key
    /\ Len(sources) = Len(tool.sources) + 1
    /\ \A i \in DOMAIN tool.sources : sources[i] = tool.sources[i]
    /\ sources[Len(tool.sources) + 1] = blobs[key]
    /\ saved' = [saved EXCEPT ![key] = blobs[key]]
    /\ original' = original /\ tool'.sources = sources /\ tool'.found = tool.found

LEMMA OneMoreIsCopied ==
    ASSUME MigrationIsKept, tool # None, tool.name = "presentation", tool.step = "back up all",
           NEW n, NEW key, NEW sources, CopiesOneMore(n, key, sources)
    PROVE  AreCopied(n)'
  <1> USE DEF CopiesOneMore
  <1>1. /\ StoreOK /\ CompilerOK /\ n \in Nat \ {0} /\ Tools!IsList(tool.sources)
        /\ Len(tool.found) \in Nat /\ DOMAIN tool.found = 1 .. Len(tool.found)
        /\ \A i \in DOMAIN tool.found : IsCandidate(tool.found[i])
        /\ \A i, j \in DOMAIN tool.found : tool.found[i].key = tool.found[j].key => i = j
    BY CompilerRuns
  <1>2. n \in DOMAIN tool.found /\ AreCopied(n - 1)
    BY <1>1 DEF CompilerOK
  <1>3. blobs[key] = original[key] /\ key \in Tools!Indices /\ DOMAIN saved = Tools!Indices
    BY <1>1, SourceIsOriginal DEF Untouched, StoreOK
  <1>4. Len(tool.sources) = n - 1 /\ DOMAIN tool.sources = 1 .. n - 1
    <2>1. Len(tool.sources) = n - 1
      BY <1>2, Zenon DEF AreCopied
    <2>2. DOMAIN tool.sources = 1 .. Len(tool.sources)
      BY <1>1, ListIs
    <2> QED
      BY <2>1, <2>2, Zenon
  <1>5. Len(sources) = n /\ sources[n] = original[key]
    <2> DEFINE N == Len(tool.sources)
    <2>1. N + 1 = n
      BY <1>1, <1>4, Decreased
    <2> HIDE DEF N
    <2>2. Len(sources) = N + 1 /\ sources[N + 1] = blobs[key]
      BY DEF N
    <2> QED
      BY <1>3, <2>1, <2>2, Zenon
  <1>6. ASSUME NEW j \in 1 .. n
        PROVE  sources[j] = original[tool.found[j].key]
                /\ saved'[tool.found[j].key] = original[tool.found[j].key]
    <2>1. CASE j = n
      BY <1>3, <1>5, <2>1
    <2>2. CASE j # n
      <3>1. j \in 1 .. n - 1
        BY <1>1, <2>2, Before
      <3>2. tool.sources[j] = original[tool.found[j].key]
              /\ saved[tool.found[j].key] = original[tool.found[j].key]
        BY <1>2, <3>1 DEF AreCopied
      <3>3. j \in DOMAIN tool.found
        BY <1>1, <1>2, Below
      <3>4. tool.found[j].key # key
        BY <1>1, <1>2, <2>2, <3>3
      <3>5. sources[j] = tool.sources[j]
        BY <1>4, <3>1
      <3>6. saved'[tool.found[j].key] = saved[tool.found[j].key]
        BY <1>1, <1>3, <3>3, <3>4, CandidateFacts
      <3> QED
        BY <3>2, <3>5, <3>6
    <2> QED
      BY <2>1, <2>2
  <1> QED
    BY <1>5, <1>6 DEF AreCopied

LEMMA NextIs ==
    ASSUME NEW N \in Nat, NEW n \in 1 .. N, n # N, NEW m, m = n + 1
    PROVE  m \in Nat \ {0} /\ m - 1 = n /\ m \in 1 .. N
  OBVIOUS

LEMMA BackUpCandidateIsKept ==
    ASSUME Tools!MigrationConstants, MigrationIsKept, Tools!BackUpCandidate
    PROVE  MigrationIsKept'
  <1>1. PICK n, N, key, sources, step, at :
           /\ n = tool.at /\ N = Len(tool.found) /\ key = tool.found[n].key
           /\ sources = Append(tool.sources, blobs[key])
           /\ step = IF n = N THEN "put all" ELSE "back up all"
           /\ at = IF n = N THEN 1 ELSE n + 1
    OBVIOUS
  <1>2. /\ tool # None /\ tool.name = "presentation" /\ tool.step = "back up all"
        /\ UNCHANGED <<original, blobs, registered, runs, pointer, pointers, launches>>
        /\ \/ /\ Tools!Works /\ saved' = [saved EXCEPT ![key] = blobs[key]]
              /\ tool' = [tool EXCEPT !.sources = sources, !.step = step, !.at = at]
              /\ ended' = ended
           \/ Tools!Fails /\ saved' \in {saved, [saved EXCEPT ![key] = Tools!Torn]}
                /\ Tools!End("failed")
    <2>1. tool # None /\ tool.name = "presentation" /\ tool.step = "back up all"
      BY DEF Tools!BackUpCandidate, Tools!Running
    <2> QED
      BY <1>1, <2>1 DEF Tools!BackUpCandidate, Tools!stagingVars, Tools!End
  <1>3. /\ StoreOK /\ RunsOK /\ CompilerOK /\ ToolOK /\ n \in Nat \ {0} /\ tool.failed \in Nat
        /\ DOMAIN tool = ToolFields /\ ended = None /\ Tools!IsList(tool.sources)
        /\ N \in Nat /\ DOMAIN tool.found = 1 .. N
    BY <1>1, <1>2, CompilerRuns
  <1>4. /\ tool.found # <<>> /\ tool.clean /\ n \in DOMAIN tool.found
        /\ \A i \in DOMAIN tool.found : Untouched(tool.found[i])
    BY <1>1, <1>2, <1>3 DEF CompilerOK
  <1>5. blobs[key] = original[key] /\ key \in Tools!Indices
    BY <1>1, <1>2, SourceIsOriginal DEF Untouched
  <1>6. RunsOK'
    BY <1>2, <1>3, RunsAreKept
  <1>7. /\ step \in {"back up all", "put all"} /\ at \in Nat \ {0}
        /\ step = "put all" => n = N /\ at = 1
        /\ step = "back up all" => at - 1 = n /\ at \in 1 .. N
    <2>1. CASE n = N
      BY <1>1, <2>1, OneIsPositive, Zenon
    <2>2. CASE n # N
      <3>1. at = n + 1 /\ step = "back up all"
        BY <1>1, <2>2, Zenon
      <3>2. at \in Nat \ {0} /\ at - 1 = n /\ at \in 1 .. N
        BY <1>3, <1>4, <2>2, <3>1, NextIs
      <3> QED
        BY <3>1, <3>2
    <2> QED
      BY <2>1, <2>2
  <1>8. StoreOK'
    BY <1>2, <1>3, <1>5, CopyIsKept
  <1>9. ASSUME saved' = [saved EXCEPT ![key] = blobs[key]], ended' = ended,
               tool' = [tool EXCEPT !.sources = sources, !.step = step, !.at = at]
        PROVE  (RunningOK /\ Tools!RestoredIsOriginal /\ Tools!SuccessIsComplete)'
    <2>1. /\ DOMAIN tool' = ToolFields /\ tool'.name = "presentation" /\ tool'.step = step
               /\ tool'.at = at
          /\ tool'.found = tool.found /\ tool'.sources = sources /\ tool'.clean = tool.clean
          /\ tool'.failed = tool.failed
      BY <1>2, <1>3, <1>9, Zenon DEF ToolFields
    <2>2. /\ Tools!IsList(sources) /\ Len(sources) = Len(tool.sources) + 1
          /\ \A i \in DOMAIN tool.sources : sources[i] = tool.sources[i]
          /\ sources[Len(tool.sources) + 1] = blobs[key]
      <3>1. PICK old, new : old = tool.sources /\ new = blobs[key]
        OBVIOUS
      <3>2. Tools!IsList(old) /\ sources = Append(old, new)
        BY <1>1, <1>3, <3>1, Zenon
      <3>3. /\ Tools!IsList(sources) /\ Len(sources) = Len(old) + 1
            /\ \A i \in DOMAIN old : sources[i] = old[i]
            /\ sources[Len(old) + 1] = new
        BY <3>2, Appended
      <3> QED
        BY <3>1, <3>3, Zenon
    <2>3. AreCopied(n)'
      <3>1. n = tool.at /\ key = tool.found[n].key
        BY <1>1, Zenon
      <3>2. tool'.sources = sources /\ tool'.found = tool.found /\ original' = original
        BY <1>2, <2>1
      <3>3. tool # None /\ tool.name = "presentation" /\ tool.step = "back up all"
        BY <1>2
      <3>4. saved' = [saved EXCEPT ![key] = blobs[key]]
        BY <1>9
      <3>5. CopiesOneMore(n, key, sources)
        BY <2>2, <3>1, <3>2, <3>4, Zenon DEF CopiesOneMore
      <3> QED
        BY <3>3, <3>5, OneMoreIsCopied
    <2>4. ToolOK'
      BY <1>2, <1>3, <1>7, <2>1, <2>2, ToolIsKept
    <2>5. CompilerOK'
      <3>1. CASE step = "put all"
        <4>1. AreCopied(Len(tool.found))'
          BY <1>1, <1>7, <2>1, <2>3, <3>1, Zenon
        <4>2. 1 \in DOMAIN tool.found /\ \A j \in DOMAIN tool.found : ~(j < 1)
          BY <1>3, <1>4
        <4> QED
          BY <1>2, <1>4, <1>7, <2>1, <3>1, <4>1, <4>2 DEF CompilerOK, Untouched
      <3>2. CASE step = "back up all"
        <4>1. AreCopied(tool.at - 1)' /\ at \in DOMAIN tool.found
          BY <1>3, <1>7, <2>1, <2>3, <3>2, Zenon
        <4> QED
          BY <1>2, <1>4, <2>1, <3>2, <4>1 DEF CompilerOK, Untouched
      <3> QED
        BY <1>7, <3>1, <3>2
    <2>6. RunningOK'
      BY <1>3, <1>9, <2>1, <2>4, <2>5 DEF RunningOK
    <2>7. ended' = None
      BY <1>3, <1>9
    <2> QED
      BY <2>6, <2>7 DEF Tools!RestoredIsOriginal, Tools!SuccessIsComplete, Tools!Ended
  <1>10. (RunningOK /\ Tools!RestoredIsOriginal /\ Tools!SuccessIsComplete)'
    BY <1>2, <1>9, EndIsKept
  <1> QED
    BY <1>6, <1>8, <1>10 DEF MigrationIsKept


\* What the compiler writes back concerns one of its candidates.
MayWrite(n, key, value) ==
    /\ n \in DOMAIN tool.found /\ key = tool.found[n].key
    /\ blobs' \in {blobs, [blobs EXCEPT ![key] = value]}

LEMMA OtherCandidates ==
    ASSUME MigrationIsKept, tool # None, tool.name = "presentation",
           NEW n, NEW key, NEW value, MayWrite(n, key, value)
    PROVE  /\ \A j \in DOMAIN tool.found : j # n
                => blobs'[tool.found[j].key] = blobs[tool.found[j].key]
           /\ blobs'[key] \in {blobs[key], value}
           /\ blobs' = [blobs EXCEPT ![key] = value] => blobs'[key] = value
  <1> USE DEF MayWrite
  <1>1. /\ StoreOK /\ \A i \in DOMAIN tool.found : tool.found[i].key \in Tools!Indices
        /\ \A i, j \in DOMAIN tool.found : tool.found[i].key = tool.found[j].key => i = j
    BY CompilerRuns, CandidateFacts
  <1>2. DOMAIN blobs = Tools!Indices /\ key \in Tools!Indices
    BY <1>1 DEF StoreOK
  <1>3. \A k \in Tools!Indices : k # key => blobs'[k] = blobs[k]
    BY <1>2
  <1> QED
    BY <1>1, <1>2, <1>3

\* Where the compiler writes, the source is copied.
LEMMA SourceIsCopied ==
    ASSUME MigrationIsKept, tool # None, tool.name = "presentation",
           tool.step \in {"put all", "restore"}, NEW n \in DOMAIN tool.found
    PROVE  LET c == tool.found[n]
           IN  /\ c.key \in Tools!Indices /\ c.key \notin registered
               /\ tool.sources[n] = original[c.key] /\ saved[c.key] = original[c.key]
               /\ Tools!Target(original[c.key]) = Tools!Materialized(c.staged)
               /\ Tools!IsCurrent(Tools!Materialized(c.staged))
                    /\ Tools!Compiled(original[c.key]) # Tools!Refused
               /\ Tools!LooksLikeV4Presentation(original[c.key])
  <1>1. /\ CompilerOK /\ IsCandidate(tool.found[n])
        /\ DOMAIN tool.found = 1 .. Len(tool.found)
    BY CompilerRuns
  <1>2. AreCopied(Len(tool.found))
    BY <1>1 DEF CompilerOK
  <1>3. tool.sources[n] = original[tool.found[n].key]
          /\ saved[tool.found[n].key] = original[tool.found[n].key]
    BY <1>1, <1>2 DEF AreCopied
  <1> QED
    BY <1>1, <1>3, CandidateFacts

LEMMA PutCandidateIsKept ==
    ASSUME Tools!MigrationConstants, MigrationIsKept, Tools!PutCandidate
    PROVE  MigrationIsKept'
  <1>1. PICK n, N, key, value : /\ n = tool.at /\ N = Len(tool.found) /\ key = tool.found[n].key
                                /\ value = Tools!Materialized(tool.found[n].staged)
    OBVIOUS
  <1>2. /\ tool # None /\ tool.name = "presentation" /\ tool.step = "put all"
        /\ UNCHANGED <<original, saved, registered, runs, pointer, pointers, launches>>
        /\ blobs' \in {blobs, [blobs EXCEPT ![key] = value]} /\ (Tools!Works \/ Tools!Fails)
        /\ \/ /\ blobs' = [blobs EXCEPT ![key] = value]
              /\ IF n = N THEN Tools!End("materialized") ELSE Tools!Skip
           \/ tool' = [tool EXCEPT !.step = "restore", !.failed = n, !.at = 1] /\ ended' = ended
    <2>1. tool # None /\ tool.name = "presentation" /\ tool.step = "put all"
      BY DEF Tools!PutCandidate, Tools!Running
    <2> QED
      BY <1>1, <2>1 DEF Tools!PutCandidate, Tools!stagingVars, Tools!End, Tools!Skip
  <1>3. /\ StoreOK /\ RunsOK /\ CompilerOK /\ ToolOK /\ n \in Nat \ {0} /\ tool.failed \in Nat
        /\ DOMAIN tool = ToolFields /\ ended = None /\ Tools!IsList(tool.sources)
             /\ Tools!IsList(tool.found)
        /\ N \in Nat /\ DOMAIN tool.found = 1 .. N
    BY <1>1, <1>2, CompilerRuns
  <1>4. /\ tool.found # <<>> /\ tool.clean /\ n \in DOMAIN tool.found /\ AreCopied(N)
        /\ \A j \in DOMAIN tool.found :
              IF j < n THEN WrittenBack(tool.found[j]) ELSE Untouched(tool.found[j])
    BY <1>1, <1>2, <1>3 DEF CompilerOK
  <1>5. /\ key \in Tools!Indices /\ key \notin registered /\ saved[key] = original[key]
        /\ value = Tools!Target(original[key]) /\ Tools!IsCurrent(value)
             /\ Tools!Compiled(original[key]) # Tools!Refused
    BY <1>1, <1>2, <1>4, SourceIsCopied
  <1>6. StoreOK'
    BY <1>2, <1>3, <1>5, WriteIsKept
  <1>7. RunsOK'
    BY <1>2, <1>3, RunsAreKept
  <1>8. /\ \A j \in DOMAIN tool.found : j # n
             => blobs'[tool.found[j].key] = blobs[tool.found[j].key]
        /\ blobs'[key] \in {blobs[key], value}
        /\ blobs' = [blobs EXCEPT ![key] = value] => blobs'[key] = value
    <2>1. tool # None /\ tool.name = "presentation" /\ MayWrite(n, key, value)
      BY <1>1, <1>2, <1>4, Zenon DEF MayWrite
    <2> QED
      BY <2>1, OtherCandidates
  <1>9. ASSUME n # N, Tools!Skip, blobs' = [blobs EXCEPT ![key] = value]
        PROVE  (RunningOK /\ Tools!RestoredIsOriginal /\ Tools!SuccessIsComplete)'
    <2>1. PICK m : m = n + 1
      OBVIOUS
    <2>2. m \in Nat \ {0} /\ m - 1 = n /\ m \in DOMAIN tool.found
      BY <1>3, <1>4, <1>9, <2>1, NextIs
    <2>3. tool' = [tool EXCEPT !.at = m] /\ ended' = None
      BY <1>1, <1>3, <1>9, <2>1 DEF Tools!Skip
    <2>4. /\ DOMAIN tool' = ToolFields /\ tool'.name = "presentation" /\ tool'.step = "put all"
               /\ tool'.at = m
          /\ tool'.found = tool.found /\ tool'.sources = tool.sources /\ tool'.clean = tool.clean
          /\ tool'.failed = tool.failed
      BY <1>2, <1>3, <2>3 DEF ToolFields
    <2>5. ToolOK'
      BY <1>2, <1>3, <2>2, <2>4, ToolIsKept
    <2>6. AreCopied(Len(tool.found))'
      <3>1. tool'.sources = tool.sources /\ tool'.found = tool.found /\ saved' = saved
              /\ original' = original
        BY <1>2, <2>4
      <3>2. AreCopied(N)'
        BY <1>4, <3>1 DEF AreCopied
      <3> QED
        BY <1>1, <3>1, <3>2, Zenon
    <2>7. ASSUME NEW j \in DOMAIN tool.found
          PROVE  IF j < m THEN WrittenBack(tool.found[j])' ELSE Untouched(tool.found[j])'
      <3>1. CASE j = n
        <4>1. j < m
          BY <1>3, <2>1, <3>1
        <4>2. blobs'[tool.found[j].key] = Tools!Materialized(tool.found[j].staged)
          BY <1>1, <1>8, <1>9, <3>1
        <4> QED
          BY <2>4, <4>1, <4>2 DEF WrittenBack
      <3>2. CASE j # n
        <4>1. j < m <=> j < n
          BY <1>3, <2>1, <3>2
        <4>2. tool'.found = tool.found /\ original' = original
          BY <1>2, <2>4
        <4> QED
          BY <1>4, <1>8, <3>2, <4>1, <4>2 DEF WrittenBack, Untouched
      <3> QED
        BY <3>1, <3>2
    <2>8. CompilerOK'
      BY <1>4, <2>2, <2>4, <2>6, <2>7 DEF CompilerOK
    <2>9. RunningOK'
      BY <2>3, <2>4, <2>5, <2>8 DEF RunningOK
    <2> QED
      BY <2>3, <2>9 DEF Tools!RestoredIsOriginal, Tools!SuccessIsComplete, Tools!Ended
  <1>10. ASSUME tool' = [tool EXCEPT !.step = "restore", !.failed = n, !.at = 1], ended' = ended
         PROVE  (RunningOK /\ Tools!RestoredIsOriginal /\ Tools!SuccessIsComplete)'
    <2>1. /\ DOMAIN tool' = ToolFields /\ tool'.name = "presentation" /\ tool'.step = "restore"
               /\ tool'.at = 1
          /\ tool'.found = tool.found /\ tool'.sources = tool.sources /\ tool'.clean = tool.clean
          /\ tool'.failed = n
      BY <1>2, <1>3, <1>10, Zenon DEF ToolFields
    <2>2. ToolOK'
      <3>1. n \in Nat
        BY <1>3
      <3> QED
        BY <1>2, <1>3, <2>1, <3>1, OneIsPositive, ToolIsKept
    <2>3. AreCopied(Len(tool.found))'
      <3>1. tool'.sources = tool.sources /\ tool'.found = tool.found /\ saved' = saved
              /\ original' = original
        BY <1>2, <2>1
      <3>2. AreCopied(N)'
        BY <1>4, <3>1 DEF AreCopied
      <3> QED
        BY <1>1, <3>1, <3>2, Zenon
    <2>4. ASSUME NEW j \in DOMAIN tool.found
          PROVE  /\ Untouched(tool.found[j])' \/ WrittenBack(tool.found[j])'
                 /\ j > n \/ (j < 1 /\ tool'.clean) => Untouched(tool.found[j])'
      <3>1. ~(j < 1) /\ (j > n => j # n /\ ~(j < n)) /\ (j # n => j < n \/ j > n)
        BY <1>3
      <3>2. CASE j = n
        BY <1>1, <1>2, <1>4, <1>8, <2>1, <3>1, <3>2 DEF Untouched, WrittenBack
      <3>3. CASE j # n
        <4>1. tool'.found = tool.found /\ original' = original
          BY <1>2, <2>1
        <4> QED
          BY <1>4, <1>8, <2>1, <3>1, <3>3, <4>1 DEF Untouched, WrittenBack
      <3> QED
        BY <3>2, <3>3
    <2>5. CompilerOK'
      BY <1>4, <2>1, <2>3, <2>4 DEF CompilerOK
    <2>6. ended' = None
      BY <1>3, <1>10
    <2>7. RunningOK'
      BY <2>1, <2>2, <2>5, <2>6 DEF RunningOK
    <2> QED
      BY <2>6, <2>7 DEF Tools!RestoredIsOriginal, Tools!SuccessIsComplete, Tools!Ended
  <1>11. (RunningOK /\ Tools!RestoredIsOriginal /\ Tools!SuccessIsComplete)'
    <2>1. \/ Tools!End("materialized")
          \/ n # N /\ Tools!Skip /\ blobs' = [blobs EXCEPT ![key] = value]
          \/ tool' = [tool EXCEPT !.step = "restore", !.failed = n, !.at = 1] /\ ended' = ended
      BY <1>2, Zenon
    <2> QED
      BY <1>9, <1>10, <2>1, EndIsKept
  <1> QED
    BY <1>6, <1>7, <1>11 DEF MigrationIsKept

LEMMA RestoreSourceIsKept ==
    ASSUME Tools!MigrationConstants, MigrationIsKept, Tools!RestoreSource
    PROVE  MigrationIsKept'
  <1>1. PICK n, m, N, key, value, clean :
           /\ n = tool.at /\ m = n + 1 /\ N = Len(tool.found) /\ key = tool.found[n].key
           /\ value = tool.sources[n] /\ clean = tool'.clean
    OBVIOUS
  <1>2. /\ tool # None /\ tool.name = "presentation" /\ tool.step = "restore" /\ n <= tool.failed
        /\ UNCHANGED <<original, saved, registered, runs, pointer, pointers, launches, ended>>
        /\ blobs' \in {blobs, [blobs EXCEPT ![key] = value]} /\ (Tools!Works \/ Tools!Fails)
        /\ \/ blobs' = [blobs EXCEPT ![key] = value] /\ tool' = [tool EXCEPT !.at = m]
           \/ tool' = [tool EXCEPT !.at = m, !.clean = FALSE]
    <2>1. tool # None /\ tool.name = "presentation" /\ tool.step = "restore" /\ n <= tool.failed
      BY <1>1 DEF Tools!RestoreSource, Tools!Running, Tools!Restored
    <2> QED
      BY <1>1, <2>1 DEF Tools!RestoreSource, Tools!stagingVars, Tools!Skip
  <1>3. /\ StoreOK /\ RunsOK /\ CompilerOK /\ ToolOK /\ n \in Nat \ {0} /\ tool.failed \in Nat
        /\ DOMAIN tool = ToolFields /\ ended = None /\ Tools!IsList(tool.sources)
             /\ Tools!IsList(tool.found)
        /\ N \in Nat /\ DOMAIN tool.found = 1 .. N
    BY <1>1, <1>2, CompilerRuns
  <1>4. /\ tool.found # <<>> /\ tool.failed \in DOMAIN tool.found /\ AreCopied(N)
        /\ \A j \in DOMAIN tool.found :
              /\ Untouched(tool.found[j]) \/ WrittenBack(tool.found[j])
              /\ j > tool.failed \/ (j < n /\ tool.clean) => Untouched(tool.found[j])
    BY <1>1, <1>2, <1>3 DEF CompilerOK
  <1>5. n \in DOMAIN tool.found /\ m \in Nat \ {0} /\ \A j \in 1 .. N : j < m => j < n \/ j = n
    BY <1>1, <1>2, <1>3, <1>4
  <1>6. key \in Tools!Indices /\ key \notin registered /\ saved[key] = original[key]
              /\ value = original[key]
    BY <1>1, <1>2, <1>5, SourceIsCopied
  <1>7. StoreOK'
    BY <1>2, <1>3, <1>6, WriteIsKept
  <1>8. RunsOK'
    BY <1>2, <1>3, RunsAreKept
  <1>9. /\ \A j \in DOMAIN tool.found : j # n
             => blobs'[tool.found[j].key] = blobs[tool.found[j].key]
        /\ blobs'[key] \in {blobs[key], value}
        /\ blobs' = [blobs EXCEPT ![key] = value] => blobs'[key] = value
    <2>1. tool # None /\ tool.name = "presentation" /\ MayWrite(n, key, value)
      BY <1>1, <1>2, <1>5, Zenon DEF MayWrite
    <2> QED
      BY <2>1, OtherCandidates
  <1>10. /\ DOMAIN tool' = ToolFields /\ tool'.name = "presentation" /\ tool'.step = "restore"
              /\ tool'.at = m
         /\ tool'.found = tool.found /\ tool'.sources = tool.sources /\ tool'.failed = tool.failed
         /\ tool'.clean => tool.clean /\ blobs' = [blobs EXCEPT ![key] = value]
    <2>1. CASE blobs' = [blobs EXCEPT ![key] = value] /\ tool' = [tool EXCEPT !.at = m]
      BY <1>2, <1>3, <2>1, Zenon DEF ToolFields
    <2>2. CASE tool' = [tool EXCEPT !.at = m, !.clean = FALSE]
      BY <1>2, <1>3, <2>2, Zenon DEF ToolFields
    <2> QED
      BY <1>2, <2>1, <2>2, Zenon
  <1>11. ToolOK'
    BY <1>2, <1>3, <1>5, <1>10, ToolIsKept
  <1>12. AreCopied(Len(tool.found))'
    <2>1. tool'.sources = tool.sources /\ tool'.found = tool.found /\ saved' = saved
            /\ original' = original
      BY <1>2, <1>10
    <2>2. AreCopied(N)'
      BY <1>4, <2>1 DEF AreCopied
    <2> QED
      BY <1>1, <2>1, <2>2, Zenon
  <1>13. ASSUME NEW j \in DOMAIN tool.found
         PROVE  /\ Untouched(tool.found[j])' \/ WrittenBack(tool.found[j])'
                /\ j > tool.failed \/ (j < m /\ tool'.clean) => Untouched(tool.found[j])'
    <2>1. tool'.found = tool.found /\ original' = original
      BY <1>2, <1>10
    <2>2. CASE j = n
      <3>1. ~(j > tool.failed)
        BY <1>2, <1>3, <2>2
      <3>2. tool'.clean => Untouched(tool.found[j])'
        BY <1>1, <1>6, <1>9, <1>10, <2>1, <2>2 DEF Untouched
      <3>3. Untouched(tool.found[j])' \/ WrittenBack(tool.found[j])'
        BY <1>1, <1>4, <1>6, <1>9, <2>1, <2>2 DEF Untouched, WrittenBack
      <3> QED
        BY <3>1, <3>2, <3>3
    <2>3. CASE j # n
      <3>1. j < m => j < n
        BY <1>3, <1>5, <2>3
      <3> QED
        BY <1>4, <1>9, <1>10, <2>1, <2>3, <3>1 DEF Untouched, WrittenBack
    <2> QED
      BY <2>2, <2>3
  <1>14. CompilerOK'
    BY <1>4, <1>10, <1>12, <1>13 DEF CompilerOK
  <1>15. RunningOK'
    BY <1>2, <1>3, <1>10, <1>11, <1>14 DEF RunningOK
  <1>16. ended' = None
    BY <1>2, <1>3
  <1> QED
    BY <1>7, <1>8, <1>15, <1>16 DEF MigrationIsKept, Tools!RestoredIsOriginal,
       Tools!SuccessIsComplete, Tools!Ended

LEMMA FinishRestoreIsKept ==
    ASSUME Tools!MigrationConstants, MigrationIsKept, Tools!FinishRestore
    PROVE  MigrationIsKept'
  <1>1. /\ tool # None /\ tool.name = "presentation" /\ tool.step = "restore"
             /\ tool.at > tool.failed
        /\ Tools!Works /\ Tools!End("restored")
        /\ UNCHANGED <<original, blobs, saved, registered, runs, pointer, pointers, launches>>
    BY DEF Tools!FinishRestore, Tools!Running, Tools!Restored, Tools!stagingVars, Tools!End
  <1>2. /\ CompilerOK /\ ToolOK /\ tool.at \in Nat \ {0} /\ tool.failed \in Nat
        /\ DOMAIN tool.found = 1 .. Len(tool.found) /\ Len(tool.found) \in Nat
        /\ \A i \in DOMAIN tool.found : IsCandidate(tool.found[i])
    BY <1>1, CompilerRuns
  <1>3. StoreOK'
    BY <1>1, StoreIsKept, CountersAreKept DEF MigrationIsKept, StoreOK
  <1>4. RunsOK'
    BY <1>1, RunsAreKept DEF MigrationIsKept
  <1>5. tool' = None /\ ended'.how = "restored" /\ ended'.was = tool
    BY <1>1 DEF Tools!End
  <1>6. ASSUME tool.clean, NEW i \in DOMAIN tool.found
        PROVE  Tools!LooksLikeV4Presentation(blobs'[tool.found[i].key])
    <2>1. i > tool.failed \/ i < tool.at
      BY <1>1, <1>2
    <2>2. Untouched(tool.found[i])
      BY <1>1, <1>2, <1>6, <2>1 DEF CompilerOK
    <2> QED
      BY <1>1, <1>2, <2>2, CandidateFacts DEF Untouched
  <1>7. RunningOK' /\ Tools!SuccessIsComplete' /\ Tools!RestoredIsOriginal'
    BY <1>5, <1>6 DEF RunningOK, Tools!SuccessIsComplete, Tools!RestoredIsOriginal, Tools!Ended
  <1> QED
    BY <1>3, <1>4, <1>7 DEF MigrationIsKept

--------------------------------------------------------------------------------
LEMMA NextIsKept ==
    ASSUME Tools!MigrationConstants, MigrationIsKept, [Tools!Next]_(Tools!vars)
    PROVE  MigrationIsKept'
  <1>1. CASE Tools!LaunchOne
    BY <1>1, LaunchIsKept DEF Tools!LaunchOne
  <1>2. CASE UNCHANGED Tools!vars
    BY <1>2 DEF Tools!vars, Tools!toolVars, Tools!stagingVars, MigrationIsKept, StoreOK, RunsOK,
       RunningOK, ToolOK, SchemaOK,
                CompilerOK, Tools!RestoredIsOriginal, Tools!SuccessIsComplete, Tools!Ended, Tools!RegisteredIsReadable, KeyIsKept,
                IsCandidate, Untouched, WrittenBack, AreCopied
  <1> QED
    BY <1>1, <1>2, CrashIsKept, FailToReadIsKept, ExamineKeyIsKept, BackUpIsKept, PutIsKept,
       FinishSchemaIsKept, CompileKeyIsKept, DecideIsKept, StageFileIsKept, PublishRunIsKept,
       KeepPointerIsKept, SwapPointerIsKept, BackUpCandidateIsKept, PutCandidateIsKept,
       RestoreSourceIsKept, FinishRestoreIsKept, RegisterKeyIsKept, FinishReconcileIsKept
    DEF Tools!Next

\* The invariant says what the properties do.
LEMMA KeptSaysSo ==
    ASSUME Tools!MigrationConstants, MigrationIsKept
    PROVE  Tools!TypeOK /\ Tools!MigrationLosesNothing /\ Tools!ConversionsAreAccounted
  <1>1. StoreOK /\ RunsOK
    BY DEF MigrationIsKept
  <1>2. PICK folder \in Folders : original = folder.objects
    BY <1>1 DEF StoreOK
  <1>3. Tools!OriginalsAreKept
    BY <1>1 DEF StoreOK, KeyIsKept, Tools!OriginalsAreKept
  <1>4. Tools!PointersAreComplete
    <2>1. \A r \in ({pointer} \ {0}) \cup pointers : r \in DOMAIN runs
      BY <1>1, ListIs DEF RunsOK
    <2> QED
      BY <1>1, <2>1 DEF RunsOK, IsComplete, Tools!PointersAreComplete
  <1>5. ASSUME NEW k \in Tools!Indices, blobs[k] # original[k]
        PROVE  IF Tools!LooksLikeV4Presentation(original[k])
               THEN Tools!DeckIsAccounted(Tools!Data(original[k]).legacy, Tools!Compiled(original[k]))
               ELSE Tools!IsDocument(original[k])
                      => Tools!DocumentIsAccounted(original[k], blobs[k])
    <2>1. /\ blobs[k] = Tools!Target(original[k]) /\ Tools!IsCurrent(blobs[k])
          /\ Tools!LooksLikeV4Presentation(original[k])
               => Tools!Compiled(original[k]) # Tools!Refused
      BY <1>1, <1>5 DEF StoreOK, KeyIsKept
    <2>2. CASE Tools!LooksLikeV4Presentation(original[k])
      <3>1. Tools!Is(Tools!Data(original[k]), "legacy")
        BY <2>1, <2>2 DEF Tools!Compiled
      <3>2. Tools!IsLegacy(Tools!Data(original[k]).legacy)
        BY <1>2, <2>2, <3>1 DEF Tools!MigrationConstants
      <3> QED
        BY <2>1, <2>2, <3>2, DeckIsKept
    <2>3. CASE ~Tools!LooksLikeV4Presentation(original[k])
      <3>1. blobs[k] = Tools!Migrated(original[k])
        BY <2>1, <2>3 DEF Tools!Target
      <3>2. Tools!Migrated(original[k]) # Tools!Refused
        BY <2>1, <3>1, Atoms DEF Tools!IsCurrent, Tools!Refused
      <3> QED
        BY <2>3, <3>1, <3>2, DocumentIsKept
    <2> QED
      BY <2>2, <2>3
  <1>6. Tools!TypeOK
    BY <1>1, ListIs DEF Tools!TypeOK, StoreOK, RunsOK
  <1> QED
    BY <1>1, <1>3, <1>4, <1>5, <1>6
    DEF MigrationIsKept, Tools!MigrationLosesNothing, Tools!ConversionsAreAccounted, StoreOK

--------------------------------------------------------------------------------
(* The pages.  A listing of a document is a walk from its roots, whose invariant *)
(* (WalkInv) says that what is listed and what is still to come is, each block   *)
(* once, in the document's order and under its headings; as no place is listed   *)
(* twice and every set of blocks that has the roots and is closed under children *)
(* is the whole document, a walk of as many steps as there are places has        *)
(* listed every block.  The reader's invariant (ReaderInv) then says that what   *)
(* it has is the beginning of the listing of one revision, and its cursor the    *)
(* place behind it.                                                              *)

\* A set of numbers that has 0 and with a number the next has them all.
LEMMA SetInduction ==
  ASSUME NEW S \in SUBSET Nat, 0 \in S, \A n \in S : n + 1 \in S
  PROVE  S = Nat
  <1> DEFINE R == {ss \in Nat \X Nat : ss[1] < ss[2]}
             T == Nat \ S
  <1>1. IsWellFoundedOn(R, Nat)
    BY NatLessThanWellFounded DEF OpToRel
  <1>2. ASSUME T # {} PROVE FALSE
    <2>1. T \subseteq Nat
      OBVIOUS
    <2> HIDE DEF R, T
    <2>2. PICK m \in T : \A k \in T : <<k, m>> \notin R
      BY <1>1, <1>2, <2>1, WFMin
    <2>3. m \in Nat /\ m # 0 /\ m \notin S
      BY <2>2 DEF T
    <2>4. m - 1 \in Nat /\ m - 1 \notin S
      BY <2>3
    <2>5. <<m - 1, m>> \in R /\ m - 1 \in T
      BY <2>3, <2>4 DEF R, T
    <2> QED
      BY <2>2, <2>5
  <1> QED
    BY <1>2

\* The instance's cardinality is the one the library's theorems are about.
LEMMA PageCardinality == \A S : Pages!Cardinality(S) = Cardinality(S)
  BY Zenon DEF Pages!Cardinality, Cardinality

\* The members of a finite set of numbers, ascending.
LEMMA AscendingIs ==
    ASSUME NEW S \in SUBSET Nat, IsFiniteSet(S)
    PROVE  /\ Pages!Ascending(S) \in [1 .. Cardinality(S) -> S] /\ Cardinality(S) \in Nat
           /\ \A k, l \in 1 .. Cardinality(S) :
                 k < l => Pages!Ascending(S)[k] < Pages!Ascending(S)[l]
           /\ \A x \in S : \E k \in 1 .. Cardinality(S) : Pages!Ascending(S)[k] = x
  <1> DEFINE Fewer(x) == {y \in S : y < x}
             n        == Cardinality(S)
             rank     == [x \in S |-> Cardinality(Fewer(x))]
             sorted   == Pages!Ascending(S)
  <1>0. \A y \in S : y \in Nat
    OBVIOUS
  <1>1. n \in Nat
    BY FS_CardinalityType
  <1>2. ASSUME NEW x \in S
        PROVE  /\ IsFiniteSet(Fewer(x)) /\ Cardinality(Fewer(x)) \in Nat
               /\ Cardinality(Fewer(x)) <= n - 1
    <2>1. IsFiniteSet(S \ {x}) /\ Cardinality(S \ {x}) = n - 1
      BY FS_RemoveElement
    <2>2. Fewer(x) \in SUBSET (S \ {x})
      OBVIOUS
    <2>3. IsFiniteSet(Fewer(x)) /\ Cardinality(Fewer(x)) <= Cardinality(S \ {x})
      BY <2>1, <2>2, FS_Subset
    <2> QED
      BY <2>1, <2>3, FS_CardinalityType
  <1>3. ASSUME NEW x \in S, NEW z \in S, x < z
        PROVE  Cardinality(Fewer(x)) < Cardinality(Fewer(z))
    <2>1. x \notin Fewer(x) /\ Fewer(x) \cup {x} \in SUBSET Fewer(z)
      <3>1. x \in Nat /\ z \in Nat /\ x < z
        BY <1>0, <1>3
      <3>2. ASSUME NEW y \in S, y < x PROVE y < z
        <4>1. y \in Nat
          BY <1>0
        <4> QED
          BY <3>1, <3>2, <4>1
      <3>3. ~(x < x)
        BY <3>1
      <3> QED
        BY <3>1, <3>2, <3>3
    <2> HIDE DEF Fewer
    <2>2. /\ IsFiniteSet(Fewer(x) \cup {x})
          /\ Cardinality(Fewer(x) \cup {x}) = Cardinality(Fewer(x)) + 1
      BY <1>2, <2>1, FS_AddElement
    <2>3. Cardinality(Fewer(x) \cup {x}) <= Cardinality(Fewer(z))
      BY <1>2, <2>1, FS_Subset
    <2> QED
      BY <1>2, <2>2, <2>3
  <1>4. rank \in Injection(S, 0 .. n - 1)
    <2>1. rank \in [S -> 0 .. n - 1]
      BY <1>1, <1>2
    <2>2. ASSUME NEW x \in S, NEW z \in S, rank[x] = rank[z] PROVE x = z
      <3>1. x < z \/ z < x \/ x = z
        OBVIOUS
      <3>2. rank[x] \in Nat /\ rank[z] \in Nat /\ rank[x] = Cardinality(Fewer(x))
               /\ rank[z] = Cardinality(Fewer(z))
        BY <1>2
      <3> QED
        BY <1>3, <2>2, <3>1, <3>2
    <2> QED
      BY <2>1, <2>2 DEF Injection, IsInjective
  <1>5. rank \in Surjection(S, 0 .. n - 1)
    <2> HIDE DEF n, rank
    <2>0. 0 \in Int /\ n - 1 \in Int /\ (IF 0 > n - 1 THEN 0 ELSE n - 1 - 0 + 1) = n
      BY <1>1
    <2>1. IsFiniteSet(0 .. n - 1) /\ Cardinality(0 .. n - 1) = n
      BY <2>0, FS_Interval
    <2> QED
      BY <1>4, <2>1, FS_Injection DEF n
  <1>6. sorted = [k \in 1 .. n |-> CHOOSE x \in S : Cardinality({y \in S : y < x}) = k - 1]
    <2>1. sorted = [k \in 1 .. Pages!Cardinality(S) |->
                        CHOOSE x \in S : Pages!Cardinality({y \in S : y < x}) = k - 1]
      BY DEF Pages!Ascending
    <2>2. /\ Pages!Cardinality(S) = n
          /\ \A x \in S : Pages!Cardinality({y \in S : y < x}) = Cardinality({y \in S : y < x})
      BY PageCardinality
    <2> QED
      BY <2>1, <2>2
  <1>7. ASSUME NEW k \in 1 .. n
        PROVE  sorted[k] \in S /\ Cardinality(Fewer(sorted[k])) = k - 1
    <2>1. k - 1 \in 0 .. n - 1
      BY <1>1
    <2>2. \E x \in S : rank[x] = k - 1
      BY <1>5, <2>1 DEF Surjection
    <2>3. \E x \in S : Cardinality(Fewer(x)) = k - 1
      BY <2>2
    <2> QED
      BY <1>6, <2>3
  <1> HIDE DEF sorted, rank
  <1>8. sorted \in [1 .. n -> S]
    BY <1>6, <1>7
  <1>9. ASSUME NEW k \in 1 .. n, NEW l \in 1 .. n, k < l PROVE sorted[k] < sorted[l]
    <2>0. sorted[k] \in Nat /\ sorted[l] \in Nat
      BY <1>0, <1>7
    <2>1. sorted[k] < sorted[l] \/ sorted[l] < sorted[k] \/ sorted[k] = sorted[l]
      BY <2>0
    <2>2. Cardinality(Fewer(sorted[k])) = k - 1 /\ Cardinality(Fewer(sorted[l])) = l - 1
      BY <1>7
    <2>3. ASSUME sorted[l] < sorted[k] PROVE FALSE
      <3>1. Cardinality(Fewer(sorted[l])) < Cardinality(Fewer(sorted[k]))
        BY <1>3, <1>7, <2>3
      <3> QED
        BY <1>1, <1>9, <2>2, <3>1
    <2>4. sorted[k] # sorted[l]
      BY <1>1, <1>9, <2>2
    <2> QED
      BY <2>1, <2>3, <2>4
  <1>10. ASSUME NEW x \in S PROVE \E k \in 1 .. n : sorted[k] = x
    <2> DEFINE k == Cardinality(Fewer(x)) + 1
    <2>1. k \in 1 .. n
      BY <1>1, <1>2
    <2>2. Cardinality(Fewer(sorted[k])) = Cardinality(Fewer(x)) /\ sorted[k] \in S
      BY <1>2, <1>7, <2>1
    <2> HIDE DEF k
    <2>3. sorted[k] < x \/ x < sorted[k] \/ sorted[k] = x
      <3>1. sorted[k] \in Nat /\ x \in Nat
        BY <1>0, <2>2
      <3> QED
        BY <3>1
    <2>4. Cardinality(Fewer(sorted[k])) \in Nat /\ Cardinality(Fewer(x)) \in Nat
      BY <1>2, <2>2
    <2>5. ~(sorted[k] < x) /\ ~(x < sorted[k])
      <3>1. sorted[k] < x => Cardinality(Fewer(sorted[k])) < Cardinality(Fewer(x))
        BY <1>3, <2>2
      <3>2. x < sorted[k] => Cardinality(Fewer(x)) < Cardinality(Fewer(sorted[k]))
        BY <1>3, <2>2
      <3> QED
        BY <2>2, <2>4, <3>1, <3>2
    <2> QED
      BY <2>1, <2>3, <2>5
  <1> QED
    BY <1>1, <1>8, <1>9, <1>10 DEF sorted

\* What a sequence has of T: all of it, and in its order.
LEMMA OnlyIs ==
    ASSUME NEW E, NEW s \in Seq(E), NEW T
    PROVE  /\ Pages!Only(s, T) \in Seq(E)
           /\ \A i \in DOMAIN Pages!Only(s, T) : \E a \in DOMAIN s :
                 s[a] = Pages!Only(s, T)[i] /\ s[a] \in T
           /\ \A a \in DOMAIN s : s[a] \in T =>
                 \E i \in DOMAIN Pages!Only(s, T) : s[a] = Pages!Only(s, T)[i]
           /\ \A i, j \in DOMAIN Pages!Only(s, T) : i < j =>
                 \E a, b \in DOMAIN s :
                    a < b /\ s[a] = Pages!Only(s, T)[i] /\ s[b] = Pages!Only(s, T)[j]
  <1> DEFINE S  == {i \in DOMAIN s : s[i] \in T}
             at == Pages!Ascending(S)
             o  == Pages!Only(s, T)
             n  == Cardinality(S)
  <1>1. S \in SUBSET (1 .. Len(s)) /\ Len(s) \in Nat
    OBVIOUS
  <1>2. S \in SUBSET Nat /\ IsFiniteSet(S)
    <2>1. IsFiniteSet(1 .. Len(s))
      BY <1>1, FS_Interval
    <2>2. IsFiniteSet(S)
      BY <1>1, <2>1, FS_Subset
    <2> QED
      BY <1>1, <2>2
  <1>3. /\ at \in [1 .. n -> S] /\ n \in Nat
        /\ \A k, l \in 1 .. n : k < l => at[k] < at[l]
        /\ \A x \in S : \E k \in 1 .. n : at[k] = x
    BY <1>2, AscendingIs
  <1>4. o = [k \in DOMAIN at |-> s[at[k]]]
    BY DEF Pages!Only
  <1>5. DOMAIN at = 1 .. n
    BY <1>3
  <1> HIDE DEF at, n, o
  <1>6. o = [k \in 1 .. n |-> s[at[k]]] /\ DOMAIN o = 1 .. n
    BY <1>4, <1>5
  <1>7. \A k \in 1 .. n : at[k] \in DOMAIN s /\ s[at[k]] \in T /\ s[at[k]] \in E /\ o[k] = s[at[k]]
    BY <1>3, <1>6
  <1>8. o \in Seq(E)
    BY <1>3, <1>6, <1>7
  <1>9. ASSUME NEW i \in DOMAIN o, NEW j \in DOMAIN o, i < j
        PROVE  at[i] \in DOMAIN s /\ at[j] \in DOMAIN s /\ at[i] < at[j]
    BY <1>3, <1>6, <1>7, <1>9
  <1>10. ASSUME NEW a \in DOMAIN s, s[a] \in T PROVE \E i \in DOMAIN o : s[a] = o[i]
    <2>1. PICK k \in 1 .. n : at[k] = a
      BY <1>3, <1>10
    <2> QED
      BY <1>6, <1>7, <2>1
  <1> QED
    BY <1>6, <1>7, <1>8, <1>9, <1>10 DEF o

\* What the place p of a document lists its children in.
Owners(doc)   == Pages!Ids(doc) \cup {None}
KidsOf(doc, o) == IF o = None THEN doc.root ELSE Pages!BlockOf(doc, o).children

LEMMA BlockFacts ==
    ASSUME NEW doc, Pages!IsForest(doc)
    PROVE  /\ None \notin Pages!Ids(doc)
           /\ \A x \in Pages!Ids(doc) :
                 /\ Pages!BlockOf(doc, x) \in Pages!ToSet(doc.blocks)
                 /\ Pages!BlockOf(doc, x).id = x /\ Pages!BlockOf(doc, x).level \in Nat
           /\ \A b \in Pages!ToSet(doc.blocks) : b.id \in Pages!Ids(doc) /\ Pages!BlockOf(doc, b.id) = b
  <1>1. \A x \in Pages!Ids(doc) : \E b \in Pages!ToSet(doc.blocks) : b.id = x
    BY DEF Pages!Ids
  <1>2. \A b, c \in Pages!ToSet(doc.blocks) : b.id = c.id => b = c
    BY DEF Pages!IsForest, Pages!ToSet
  <1>3. \A x \in Pages!Ids(doc) :
           Pages!BlockOf(doc, x) \in Pages!ToSet(doc.blocks) /\ Pages!BlockOf(doc, x).id = x
    BY <1>1 DEF Pages!BlockOf
  <1>4. \A b \in Pages!ToSet(doc.blocks) : b.id \in Pages!Ids(doc)
    BY DEF Pages!Ids
  <1> QED
    BY <1>2, <1>3, <1>4 DEF Pages!IsForest

LEMMA KidsFacts ==
    ASSUME NEW doc, Pages!IsForest(doc)
    PROVE  /\ \A s : s \in {doc.root} \cup {b.children : b \in Pages!ToSet(doc.blocks)}
                 <=> \E o \in Owners(doc) : s = KidsOf(doc, o)
           /\ Pages!Listed(doc) = {p \in Owners(doc) \X Nat : p[2] \in DOMAIN KidsOf(doc, p[1])}
           /\ \A o \in Owners(doc) : KidsOf(doc, o) \in Seq(Pages!Ids(doc))
           /\ \A o, q \in Owners(doc) : \A i \in DOMAIN KidsOf(doc, o), j \in DOMAIN KidsOf(doc, q) :
                 KidsOf(doc, o)[i] = KidsOf(doc, q)[j] => o = q /\ i = j
           /\ \A S \in SUBSET Pages!Ids(doc) :
                 (\A o \in S \cup {None} : \A i \in DOMAIN KidsOf(doc, o) : KidsOf(doc, o)[i] \in S)
                    => S = Pages!Ids(doc)
  <1> DEFINE B    == Pages!ToSet(doc.blocks)
             I    == Pages!Ids(doc)
             K(o) == KidsOf(doc, o)
  <1>1. /\ None \notin I /\ \A b \in B : b.id \in I /\ Pages!BlockOf(doc, b.id) = b
        /\ \A x \in I : Pages!BlockOf(doc, x) \in B /\ Pages!BlockOf(doc, x).id = x
    BY BlockFacts
  <1>2. K(None) = doc.root /\ (\A x \in I : K(x) = Pages!BlockOf(doc, x).children)
        /\ \A b \in B : K(b.id) = b.children
    BY <1>1 DEF KidsOf
  <1>3. \A s : s \in {doc.root} \cup {b.children : b \in B} <=> \E o \in Owners(doc) : s = K(o)
    <2>1. ASSUME NEW b \in B PROVE b.id \in Owners(doc) /\ K(b.id) = b.children
      BY <1>1, <1>2 DEF Owners
    <2>2. ASSUME NEW x \in I PROVE Pages!BlockOf(doc, x) \in B /\ K(x) = Pages!BlockOf(doc, x).children
      BY <1>1, <1>2
    <2>3. None \in Owners(doc) /\ Owners(doc) = I \cup {None}
      BY DEF Owners
    <2> HIDE DEF B, I, K
    <2> QED
      BY <1>2, <2>1, <2>2, <2>3
  <1>4. \A s : (\E o \in Owners(doc) : s = K(o)) => s \in Seq(I)
    <2>1. \A s \in {doc.root} \cup {b.children : b \in B} :
             s \in Seq(Pages!ToSet(s)) /\ Pages!ToSet(s) \subseteq I
      BY DEF Pages!IsForest, Pages!IsSeq
    <2>2. ASSUME NEW s, s \in Seq(Pages!ToSet(s)), Pages!ToSet(s) \subseteq I PROVE s \in Seq(I)
      BY <2>2, SeqMonotonic
    <2> QED
      BY <1>3, <2>1, <2>2
  <1>5. \A o \in Owners(doc) : K(o) \in Seq(I)
    BY <1>4
  <1>6. Pages!Listed(doc) = {p \in Owners(doc) \X Nat : p[2] \in DOMAIN K(p[1])}
    <2>1. ASSUME NEW o \in Owners(doc), NEW i \in DOMAIN K(o) PROVE i \in Nat
      BY <1>5
    <2>2. ASSUME NEW p \in Pages!Listed(doc)
          PROVE  \E o \in Owners(doc) : \E i \in DOMAIN K(o) : p = <<o, i>>
      <3>1. CASE \E i \in DOMAIN doc.root : p = <<None, i>>
        BY <1>2, <3>1 DEF Owners
      <3>2. CASE \E b \in B : \E i \in DOMAIN b.children : p = <<b.id, i>>
        BY <1>1, <1>2, <3>2 DEF Owners
      <3>3. \/ \E i \in DOMAIN doc.root : p = <<None, i>>
            \/ \E b \in B : \E i \in DOMAIN b.children : p = <<b.id, i>>
        BY DEF Pages!Listed
      <3> QED
        BY <3>1, <3>2, <3>3
    <2>3. ASSUME NEW o \in Owners(doc), NEW i \in DOMAIN K(o) PROVE <<o, i>> \in Pages!Listed(doc)
      <3>1. CASE o = None
        BY <1>2, <3>1 DEF Pages!Listed
      <3>2. CASE o \in I
        <4>1. Pages!BlockOf(doc, o) \in B /\ Pages!BlockOf(doc, o).id = o
                 /\ i \in DOMAIN Pages!BlockOf(doc, o).children
          BY <1>1, <1>2, <3>2
        <4> QED
          BY <4>1 DEF Pages!Listed
      <3> QED
        BY <3>1, <3>2 DEF Owners
    <2> HIDE DEF B, I, K
    <2> QED
      BY <2>1, <2>2, <2>3
  <1>7. ASSUME NEW o \in Owners(doc), NEW q \in Owners(doc), NEW i \in DOMAIN K(o), NEW j \in DOMAIN K(q),
               K(o)[i] = K(q)[j]
        PROVE  o = q /\ i = j
    <2>1. <<o, i>> \in Pages!Listed(doc) /\ <<q, j>> \in Pages!Listed(doc)
      BY <1>5, <1>6
    <2>2. Pages!ListedId(doc, <<o, i>>) = K(o)[i] /\ Pages!ListedId(doc, <<q, j>>) = K(q)[j]
      BY DEF Pages!ListedId, KidsOf
    <2>3. <<o, i>> = <<q, j>>
      BY <1>7, <2>1, <2>2 DEF Pages!IsForest
    <2> QED
      BY <2>3
  <1>8. ASSUME NEW S \in SUBSET I, \A o \in S \cup {None} : \A i \in DOMAIN K(o) : K(o)[i] \in S
        PROVE  S = I
    <2>1. Pages!ToSet(doc.root) \subseteq S
      BY <1>2, <1>8 DEF Pages!ToSet
    <2>2. ASSUME NEW b \in B, b.id \in S PROVE Pages!ToSet(b.children) \subseteq S
      BY <1>2, <1>8, <2>2 DEF Pages!ToSet
    <2>3. Pages!ClosedUnder(doc, S)
      BY <2>2 DEF Pages!ClosedUnder
    <2> QED
      BY <2>1, <2>3 DEF Pages!IsForest
  <1> QED
    BY <1>3, <1>5, <1>6, <1>7, <1>8

LEMMA UnderFacts ==
    ASSUME NEW doc, Pages!IsForest(doc), NEW a \in Pages!Ids(doc), NEW x \in Pages!Ids(doc)
    PROVE  /\ \A i \in DOMAIN KidsOf(doc, a) : Pages!IsUnder(doc, KidsOf(doc, a)[i], a)
           /\ \A y : Pages!IsUnder(doc, x, a) /\ Pages!IsUnder(doc, y, x) => Pages!IsUnder(doc, y, a)
  <1>1. /\ None # a /\ None # x
        /\ Pages!BlockOf(doc, a) \in Pages!ToSet(doc.blocks)
        /\ Pages!BlockOf(doc, x) \in Pages!ToSet(doc.blocks) /\ Pages!BlockOf(doc, x).id = x
    BY BlockFacts
  <1>2. ASSUME NEW i \in DOMAIN KidsOf(doc, a) PROVE Pages!IsUnder(doc, KidsOf(doc, a)[i], a)
    <2>1. KidsOf(doc, a)[i] \in Pages!ToSet(Pages!BlockOf(doc, a).children)
      BY <1>1 DEF KidsOf, Pages!ToSet
    <2> QED
      BY <2>1 DEF Pages!IsUnder
  <1>3. ASSUME NEW y, Pages!IsUnder(doc, x, a), Pages!IsUnder(doc, y, x),
               NEW S \in SUBSET Pages!Ids(doc),
               Pages!ToSet(Pages!BlockOf(doc, a).children) \subseteq S, Pages!ClosedUnder(doc, S)
        PROVE  y \in S
    <2>1. x \in S
      BY <1>3 DEF Pages!IsUnder
    <2>2. Pages!ToSet(Pages!BlockOf(doc, x).children) \subseteq S
      BY <1>1, <1>3, <2>1 DEF Pages!ClosedUnder
    <2> QED
      BY <1>3, <2>2 DEF Pages!IsUnder
  <1>4. \A y : Pages!IsUnder(doc, x, a) /\ Pages!IsUnder(doc, y, x) => Pages!IsUnder(doc, y, a)
    BY <1>3 DEF Pages!IsUnder
  <1> QED
    BY <1>2, <1>4

\* How the order of a document goes on to the children.
LEMMA OrderFacts ==
    ASSUME NEW doc, Pages!IsForest(doc)
    PROVE  /\ \A o \in Owners(doc) : \A i, j \in DOMAIN KidsOf(doc, o) :
                 i < j => Pages!Precedes(doc, KidsOf(doc, o)[i], KidsOf(doc, o)[j])
           /\ \A x, y \in Pages!Ids(doc) : \A i \in DOMAIN KidsOf(doc, y) :
                 /\ Pages!Before(doc, y, KidsOf(doc, y)[i])
                 /\ Pages!Precedes(doc, x, y) => Pages!Precedes(doc, x, KidsOf(doc, y)[i])
                 /\ Pages!Precedes(doc, y, x) => Pages!Precedes(doc, KidsOf(doc, y)[i], x)
                 /\ Pages!Before(doc, x, y) => Pages!Before(doc, x, KidsOf(doc, y)[i])
  <1> DEFINE I     == Pages!Ids(doc)
             K(o)  == KidsOf(doc, o)
             U(x, a)  == Pages!IsUnder(doc, x, a)
             P(x, y)  == Pages!Precedes(doc, x, y)
  <1>1. \A x, y : P(x, y) <=>
           \E o \in Owners(doc) : \E i, j \in DOMAIN K(o) :
              i < j /\ (x = K(o)[i] \/ U(x, K(o)[i])) /\ (y = K(o)[j] \/ U(y, K(o)[j]))
    <2> DEFINE L == {doc.root} \cup {b.children : b \in Pages!ToSet(doc.blocks)}
    <2>1. \A s : s \in L <=> \E o \in Owners(doc) : s = K(o)
      BY KidsFacts
    <2>2. \A x, y : P(x, y) <=>
             \E s \in L : \E i, j \in DOMAIN s :
                i < j /\ (x = s[i] \/ U(x, s[i])) /\ (y = s[j] \/ U(y, s[j]))
      BY DEF Pages!Precedes
    <2> HIDE DEF K, U, P, L
    <2> QED
      BY <2>1, <2>2
  <1>2. \A o \in Owners(doc) : K(o) \in Seq(I)
    BY KidsFacts
  <1>3. \A x \in I : x \in Owners(doc)
    BY DEF Owners
  <1>4. \A a, x \in I : \A i \in DOMAIN K(a) : U(K(a)[i], a) /\ K(a)[i] \in I
    BY <1>2, <1>3, UnderFacts
  <1>5. \A a, x \in I : \A y : U(x, a) /\ U(y, x) => U(y, a)
    BY UnderFacts
  <1> HIDE DEF I, K, U, P
  <1>6. \A o \in Owners(doc) : \A i, j \in DOMAIN K(o) : i < j => P(K(o)[i], K(o)[j])
    BY <1>1
  <1>7. ASSUME NEW x \in I, NEW y \in I, NEW k \in DOMAIN K(y), P(x, y) PROVE P(x, K(y)[k])
    <2>1. PICK o \in Owners(doc) : \E i, j \in DOMAIN K(o) :
              i < j /\ (x = K(o)[i] \/ U(x, K(o)[i])) /\ (y = K(o)[j] \/ U(y, K(o)[j]))
      BY <1>1, <1>7
    <2>2. PICK i, j \in DOMAIN K(o) :
              i < j /\ (x = K(o)[i] \/ U(x, K(o)[i])) /\ (y = K(o)[j] \/ U(y, K(o)[j]))
      BY <2>1
    <2>3. K(o)[j] \in I
      BY <1>2
    <2>4. U(K(y)[k], K(o)[j])
      BY <1>4, <1>5, <2>2, <2>3
    <2> QED
      BY <1>1, <2>2, <2>4
  <1>8. ASSUME NEW x \in I, NEW y \in I, NEW k \in DOMAIN K(y), P(y, x) PROVE P(K(y)[k], x)
    <2>1. PICK o \in Owners(doc) : \E i, j \in DOMAIN K(o) :
              i < j /\ (y = K(o)[i] \/ U(y, K(o)[i])) /\ (x = K(o)[j] \/ U(x, K(o)[j]))
      BY <1>1, <1>8
    <2>2. PICK i, j \in DOMAIN K(o) :
              i < j /\ (y = K(o)[i] \/ U(y, K(o)[i])) /\ (x = K(o)[j] \/ U(x, K(o)[j]))
      BY <2>1
    <2>3. K(o)[i] \in I
      BY <1>2
    <2>4. U(K(y)[k], K(o)[i])
      BY <1>4, <1>5, <2>2, <2>3
    <2> QED
      BY <1>1, <2>2, <2>4
  <1>9. \A x, y : Pages!Before(doc, x, y) <=> U(y, x) \/ P(x, y)
    BY DEF Pages!Before, U, P
  <1>10. ASSUME NEW x \in I, NEW y \in I, NEW k \in DOMAIN K(y)
         PROVE  /\ Pages!Before(doc, y, K(y)[k])
                /\ Pages!Before(doc, x, y) => Pages!Before(doc, x, K(y)[k])
    BY <1>4, <1>5, <1>7, <1>9
  <1> QED
    BY <1>6, <1>7, <1>8, <1>10 DEF I, K, P

\* The headings x is under, the outermost first.
HeadingsOver(doc, x, path) ==
    /\ path \in Seq(Pages!Ids(doc))
    /\ \A h \in DOMAIN path : Pages!BlockOf(doc, path[h]).level > 0 /\ Pages!IsUnder(doc, x, path[h])
    /\ \A h, k \in DOMAIN path : h < k => Pages!IsUnder(doc, path[k], path[h])

\* The same, and x itself if it is one.
HeadingsAt(doc, x, path) ==
    /\ path \in Seq(Pages!Ids(doc))
    /\ \A h \in DOMAIN path :
          /\ Pages!BlockOf(doc, path[h]).level > 0
          /\ path[h] = x \/ Pages!IsUnder(doc, x, path[h])
    /\ \A h, k \in DOMAIN path : h < k => Pages!IsUnder(doc, path[k], path[h])

LEMMA PathFacts ==
    ASSUME NEW doc, Pages!IsForest(doc), NEW x \in Pages!Ids(doc), NEW path, HeadingsOver(doc, x, path)
    PROVE  LET below == Pages!PathAt(Pages!BlockOf(doc, x), path)
           IN  /\ HeadingsAt(doc, x, below)
               /\ \A i \in DOMAIN KidsOf(doc, x) : HeadingsOver(doc, KidsOf(doc, x)[i], below)
  <1> DEFINE I     == Pages!Ids(doc)
             level == Pages!BlockOf(doc, x).level
             n     == IF level - 1 < Len(path) THEN level - 1 ELSE Len(path)
             q     == Pages!PathAt(Pages!BlockOf(doc, x), path)
  <1>1. level \in Nat /\ path \in Seq(I) /\ Pages!BlockOf(doc, x).id = x
    BY BlockFacts DEF HeadingsOver
  <1>2. HeadingsAt(doc, x, q)
    <2>1. CASE level = 0
      BY <2>1 DEF Pages!PathAt, HeadingsOver, HeadingsAt
    <2>2. CASE level # 0
      <3>1. q = Append(SubSeq(path, 1, n), x)
        BY <1>1, <2>2 DEF Pages!PathAt
      <3>2. n \in Nat /\ n <= Len(path)
        BY <1>1, <2>2
      <3> HIDE DEF n, q
      <3>3. /\ SubSeq(path, 1, n) \in Seq(I) /\ Len(SubSeq(path, 1, n)) = n
            /\ \A h \in 1 .. n : SubSeq(path, 1, n)[h] = path[h] /\ h \in DOMAIN path
        BY <1>1, <3>2
      <3>4. /\ q \in Seq(I) /\ Len(q) = n + 1 /\ DOMAIN q = 1 .. n + 1
            /\ \A h \in 1 .. n : q[h] = path[h] /\ h \in DOMAIN path
            /\ q[n + 1] = x
        BY <3>1, <3>2, <3>3
      <3>5. ASSUME NEW h \in DOMAIN q
            PROVE  Pages!BlockOf(doc, q[h]).level > 0 /\ (q[h] = x \/ Pages!IsUnder(doc, x, q[h]))
        <4>1. CASE h \in 1 .. n
          BY <3>4, <4>1 DEF HeadingsOver
        <4>2. CASE h = n + 1
          BY <1>1, <2>2, <3>4, <4>2
        <4> QED
          BY <3>2, <3>4, <4>1, <4>2
      <3>6. ASSUME NEW h \in DOMAIN q, NEW k \in DOMAIN q, h < k PROVE Pages!IsUnder(doc, q[k], q[h])
        <4>1. h \in 1 .. n /\ (k \in 1 .. n \/ k = n + 1)
          BY <3>2, <3>4, <3>6
        <4> QED
          BY <3>4, <3>6, <4>1 DEF HeadingsOver
      <3> QED
        BY <3>4, <3>5, <3>6 DEF HeadingsAt, I
    <2> QED
      BY <2>1, <2>2
  <1> HIDE DEF q
  <1>3. ASSUME NEW i \in DOMAIN KidsOf(doc, x) PROVE HeadingsOver(doc, KidsOf(doc, x)[i], q)
    <2> DEFINE y == KidsOf(doc, x)[i]
    <2>1. Pages!IsUnder(doc, y, x)
      BY UnderFacts
    <2>2. ASSUME NEW h \in DOMAIN q PROVE Pages!IsUnder(doc, y, q[h])
      <3>1. q[h] \in I /\ (q[h] = x \/ Pages!IsUnder(doc, x, q[h]))
        BY <1>2 DEF HeadingsAt
      <3> QED
        BY <2>1, <3>1, UnderFacts
    <2> QED
      BY <1>2, <2>2 DEF HeadingsAt, HeadingsOver
  <1> QED
    BY <1>2, <1>3 DEF q

--------------------------------------------------------------------------------
\* What a walk has come to: the blocks in `done`, then those in `todo`.
Metas(doc) == [id : Pages!Ids(doc), parent : Owners(doc), order : Nat, path : Seq(Pages!Ids(doc))]

WalkTypes(doc, todo, done) == todo \in Seq(Metas(doc)) /\ done \in Seq(Metas(doc))

\* Each is where its owner lists it, and the owner has been there.
WalkListed(doc, todo, done) ==
    \A m \in Pages!ToSet(todo) \cup Pages!ToSet(done) :
       /\ m.order \in DOMAIN KidsOf(doc, m.parent) /\ m.id = KidsOf(doc, m.parent)[m.order]
       /\ m.parent = None \/ \E d \in Pages!ToSet(done) : d.id = m.parent

WalkOnce(todo, done) ==
    /\ \A i, j \in DOMAIN done : done[i].id = done[j].id => i = j
    /\ \A i, j \in DOMAIN todo : todo[i].id = todo[j].id => i = j
    /\ \A i \in DOMAIN done, j \in DOMAIN todo : done[i].id # todo[j].id

\* The roots, and with a block its children.
WalkComplete(doc, todo, done) ==
    \A o \in {None} \cup {d.id : d \in Pages!ToSet(done)} : \A i \in DOMAIN KidsOf(doc, o) :
       \E m \in Pages!ToSet(todo) \cup Pages!ToSet(done) : m.id = KidsOf(doc, o)[i]

WalkOrdered(doc, todo, done) ==
    /\ \A i, j \in DOMAIN done : i < j => Pages!Before(doc, done[i].id, done[j].id)
    /\ \A i \in DOMAIN done, j \in DOMAIN todo : Pages!Before(doc, done[i].id, todo[j].id)
    /\ \A i, j \in DOMAIN todo : i < j => Pages!Precedes(doc, todo[i].id, todo[j].id)

WalkPaths(doc, todo, done) ==
    /\ \A i \in DOMAIN todo : HeadingsOver(doc, todo[i].id, todo[i].path)
    /\ \A i \in DOMAIN done : HeadingsAt(doc, done[i].id, done[i].path)

WalkInv(doc, todo, done) ==
    /\ WalkTypes(doc, todo, done)
    /\ WalkListed(doc, todo, done)
    /\ WalkOnce(todo, done)
    /\ WalkComplete(doc, todo, done)
    /\ WalkOrdered(doc, todo, done)
    /\ WalkPaths(doc, todo, done)

Rooted(doc) == [i \in DOMAIN doc.root |-> Pages!Meta(doc.root[i], None, i, <<>>)]

LEMMA WalkStarts ==
    ASSUME NEW doc, Pages!IsForest(doc)
    PROVE  WalkInv(doc, Rooted(doc), <<>>)
  <1> DEFINE K == KidsOf(doc, None)
             R == Rooted(doc)
  <1>1. K = doc.root /\ None \in Owners(doc)
    BY DEF KidsOf, Owners
  <1>2. K \in Seq(Pages!Ids(doc)) /\ DOMAIN K = 1 .. Len(K) /\ Len(K) \in Nat
    BY <1>1, KidsFacts
  <1>3. /\ R = [i \in 1 .. Len(K) |-> Pages!Meta(K[i], None, i, <<>>)]
        /\ DOMAIN R = 1 .. Len(K)
    BY <1>1, <1>2 DEF Rooted
  <1>4. \A i \in 1 .. Len(K) :
           /\ R[i].id = K[i] /\ R[i].parent = None /\ R[i].order = i /\ R[i].path = <<>>
           /\ R[i] \in Metas(doc)
    BY <1>1, <1>2, <1>3 DEF Pages!Meta, Metas
  <1> HIDE DEF R, K
  <1>5. WalkTypes(doc, R, <<>>)
    BY <1>2, <1>3, <1>4 DEF WalkTypes
  <1>6. WalkListed(doc, R, <<>>)
    BY <1>2, <1>3, <1>4 DEF WalkListed, Pages!ToSet, K
  <1>7. \A i, j \in DOMAIN K : K[i] = K[j] => i = j
    BY <1>1, KidsFacts DEF K
  <1>8. WalkOnce(R, <<>>)
    BY <1>2, <1>3, <1>4, <1>7 DEF WalkOnce
  <1>9. WalkComplete(doc, R, <<>>)
    <2>1. ASSUME NEW i \in DOMAIN K PROVE \E m \in Pages!ToSet(R) : m.id = K[i]
      BY <1>2, <1>3, <1>4 DEF Pages!ToSet
    <2> QED
      BY <2>1 DEF WalkComplete, Pages!ToSet, K
  <1>10. WalkOrdered(doc, R, <<>>)
    <2>1. \A i, j \in DOMAIN K : i < j => Pages!Precedes(doc, K[i], K[j])
      BY <1>1, OrderFacts DEF K
    <2> QED
      BY <1>2, <1>3, <1>4, <2>1 DEF WalkOrdered
  <1>11. WalkPaths(doc, R, <<>>)
    <2>1. \A x : HeadingsOver(doc, x, <<>>)
      BY DEF HeadingsOver
    <2> QED
      BY <1>2, <1>3, <1>4, <2>1 DEF WalkPaths
  <1> QED
    BY <1>5, <1>6, <1>8, <1>9, <1>10, <1>11 DEF WalkInv, R

\* What the walk makes of its next block.
Gone(doc, todo) ==
    [todo[1] EXCEPT !.path = Pages!PathAt(Pages!BlockOf(doc, todo[1].id), todo[1].path)]
ToCome(doc, todo) ==
    LET b == Pages!BlockOf(doc, todo[1].id)
    IN  [i \in DOMAIN b.children |->
            Pages!Meta(b.children[i], todo[1].id, i, Pages!PathAt(b, todo[1].path))] \o Tail(todo)

\* Behind its first k members, next is todo without its first.
IsBehind(next, k, todo) ==
    /\ \A i \in k + 1 .. k + Len(todo) - 1 :
          i - k + 1 \in 2 .. Len(todo) /\ next[i] = todo[i - k + 1]
    /\ \A i \in 2 .. Len(todo) :
          i - 1 + k \in k + 1 .. k + Len(todo) - 1 /\ next[i - 1 + k] = todo[i]

\* Where the new sequences have their members from.
LEMMA VisitShape ==
    ASSUME NEW doc, Pages!IsForest(doc), NEW todo, NEW done, WalkInv(doc, todo, done), todo # <<>>,
           NEW m, m = todo[1]
    PROVE  LET K    == KidsOf(doc, m.id)
               next == ToCome(doc, todo)
               gone == Append(done, Gone(doc, todo))
           IN  /\ m \in Metas(doc) /\ 1 \in DOMAIN todo /\ m.id \in Pages!Ids(doc)
               /\ K \in Seq(Pages!Ids(doc)) /\ Len(K) \in Nat /\ DOMAIN K = 1 .. Len(K)
               /\ next \in Seq(Metas(doc)) /\ gone \in Seq(Metas(doc))
               /\ Len(todo) \in Nat \ {0} /\ DOMAIN todo = 1 .. Len(todo)
               /\ Len(done) \in Nat /\ DOMAIN done = 1 .. Len(done)
               /\ DOMAIN next = 1 .. Len(K) + Len(todo) - 1
               /\ \A i \in 1 .. Len(K) :
                     /\ next[i].id = K[i] /\ next[i].parent = m.id /\ next[i].order = i
                     /\ next[i].path = Pages!PathAt(Pages!BlockOf(doc, m.id), m.path)
               /\ IsBehind(next, Len(K), todo)
               /\ DOMAIN gone = 1 .. Len(done) + 1
               /\ \A i \in 1 .. Len(done) : gone[i] = done[i]
               /\ gone[Len(done) + 1].id = m.id /\ gone[Len(done) + 1].parent = m.parent
               /\ gone[Len(done) + 1].order = m.order
               /\ gone[Len(done) + 1].path = Pages!PathAt(Pages!BlockOf(doc, m.id), m.path)
  <1> DEFINE I    == Pages!Ids(doc)
             K    == KidsOf(doc, m.id)
             path == Pages!PathAt(Pages!BlockOf(doc, m.id), m.path)
             kids == [i \in DOMAIN K |-> Pages!Meta(K[i], m.id, i, path)]
             next == ToCome(doc, todo)
             gone == Append(done, Gone(doc, todo))
  <1>1. todo \in Seq(Metas(doc)) /\ done \in Seq(Metas(doc))
    BY DEF WalkInv, WalkTypes
  <1>2. /\ Len(todo) \in Nat \ {0} /\ DOMAIN todo = 1 .. Len(todo) /\ 1 \in DOMAIN todo
        /\ Len(done) \in Nat /\ DOMAIN done = 1 .. Len(done)
    BY <1>1
  <1>3. m \in Metas(doc) /\ m.id \in I /\ m.parent \in Owners(doc) /\ m.order \in Nat
    <2>1. m \in Metas(doc)
      BY <1>1, <1>2
    <2> QED
      BY <2>1 DEF Metas
  <1>4. m.id \in Owners(doc) /\ m.id # None
    BY <1>3, BlockFacts DEF Owners
  <1>5. K \in Seq(I) /\ Len(K) \in Nat /\ DOMAIN K = 1 .. Len(K)
    BY <1>4, KidsFacts
  <1>6. HeadingsOver(doc, m.id, m.path)
    BY <1>2 DEF WalkInv, WalkPaths
  <1>7. path \in Seq(I)
    BY <1>3, <1>6, PathFacts DEF HeadingsAt
  <1>8. K = Pages!BlockOf(doc, m.id).children
    BY <1>4 DEF KidsOf
  <1>9. next = kids \o Tail(todo)
    BY <1>8 DEF ToCome
  <1>10. /\ gone = Append(done, [m EXCEPT !.path = path])
         /\ Gone(doc, todo) = [m EXCEPT !.path = path]
    BY DEF Gone
  <1> HIDE DEF K, path, next, gone
  <1>11. \A i \in 1 .. Len(K) :
            /\ kids[i].id = K[i] /\ kids[i].parent = m.id /\ kids[i].order = i /\ kids[i].path = path
            /\ kids[i] \in Metas(doc)
    BY <1>3, <1>4, <1>5, <1>7 DEF Pages!Meta, Metas
  <1>12. kids \in Seq(Metas(doc)) /\ Len(kids) = Len(K)
    <2>1. kids = [i \in 1 .. Len(K) |-> Pages!Meta(K[i], m.id, i, path)]
      BY <1>5
    <2> HIDE DEF kids
    <2> QED
      BY <1>5, <1>11, <2>1
  <1> HIDE DEF kids
  <1>13. /\ Tail(todo) \in Seq(Metas(doc)) /\ Len(Tail(todo)) = Len(todo) - 1
         /\ \A i \in 1 .. Len(todo) - 1 : Tail(todo)[i] = todo[i + 1]
    BY <1>1, <1>2
  <1>14. /\ next \in Seq(Metas(doc)) /\ Len(next) = Len(K) + Len(todo) - 1
         /\ DOMAIN next = 1 .. Len(K) + Len(todo) - 1
         /\ \A i \in 1 .. Len(K) : next[i] = kids[i]
         /\ \A i \in Len(K) + 1 .. Len(K) + Len(todo) - 1 : next[i] = Tail(todo)[i - Len(K)]
    <2>1. /\ kids \o Tail(todo) \in Seq(Metas(doc))
          /\ Len(kids \o Tail(todo)) = Len(K) + (Len(todo) - 1)
          /\ \A i \in 1 .. Len(K) + (Len(todo) - 1) :
                (kids \o Tail(todo))[i] = IF i <= Len(K) THEN kids[i] ELSE Tail(todo)[i - Len(K)]
      <3> DEFINE rest == Tail(todo)
      <3>1. kids \in Seq(Metas(doc)) /\ rest \in Seq(Metas(doc))
        BY <1>12, <1>13
      <3>2. Len(kids) = Len(K) /\ Len(rest) = Len(todo) - 1
        BY <1>12, <1>13
      <3> HIDE DEF rest
      <3>3. /\ kids \o rest \in Seq(Metas(doc))
            /\ Len(kids \o rest) = Len(kids) + Len(rest)
            /\ \A i \in 1 .. Len(kids) + Len(rest) :
                  (kids \o rest)[i] = IF i <= Len(kids) THEN kids[i] ELSE rest[i - Len(kids)]
        BY <3>1, ConcatProperties
      <3> QED
        BY <3>2, <3>3 DEF rest
    <2> QED
      BY <1>2, <1>5, <1>9, <2>1
  <1>15. IsBehind(next, Len(K), todo)
    <2>1. ASSUME NEW i \in Len(K) + 1 .. Len(K) + Len(todo) - 1
          PROVE  i - Len(K) + 1 \in 2 .. Len(todo) /\ next[i] = todo[i - Len(K) + 1]
      <3>1. i - Len(K) \in 1 .. Len(todo) - 1
        BY <1>2, <1>5
      <3> QED
        BY <1>2, <1>5, <1>13, <1>14, <3>1
    <2>2. ASSUME NEW i \in 2 .. Len(todo)
          PROVE  /\ i - 1 + Len(K) \in Len(K) + 1 .. Len(K) + Len(todo) - 1
                 /\ next[i - 1 + Len(K)] = todo[i]
      <3>1. /\ i - 1 + Len(K) \in Len(K) + 1 .. Len(K) + Len(todo) - 1
            /\ (i - 1 + Len(K)) - Len(K) + 1 = i
        BY <1>2, <1>5
      <3> QED
        BY <2>1, <3>1
    <2> QED
      BY <2>1, <2>2 DEF IsBehind
  <1>16. [m EXCEPT !.path = path] \in Metas(doc)
    BY <1>3, <1>7 DEF Metas
  <1>17. /\ gone \in Seq(Metas(doc)) /\ DOMAIN gone = 1 .. Len(done) + 1
         /\ \A i \in 1 .. Len(done) : gone[i] = done[i]
         /\ gone[Len(done) + 1] = [m EXCEPT !.path = path]
    BY <1>1, <1>2, <1>10, <1>16
  <1>18. /\ gone[Len(done) + 1].id = m.id /\ gone[Len(done) + 1].parent = m.parent
         /\ gone[Len(done) + 1].order = m.order /\ gone[Len(done) + 1].path = path
    BY <1>3, <1>17 DEF Metas
  <1>19. \A i \in 1 .. Len(K) :
            /\ next[i].id = K[i] /\ next[i].parent = m.id /\ next[i].order = i
            /\ next[i].path = path
    BY <1>11, <1>14
  <1> QED
    BY <1>2, <1>3, <1>5, <1>14, <1>15, <1>17, <1>18, <1>19 DEF K, path, next, gone

LEMMA VisitKeeps ==
    ASSUME NEW doc, Pages!IsForest(doc), NEW todo, NEW done, WalkInv(doc, todo, done), todo # <<>>
    PROVE  WalkInv(doc, ToCome(doc, todo), Append(done, Gone(doc, todo)))
  <1> DEFINE m    == todo[1]
             x    == m.id
             I    == Pages!Ids(doc)
             K    == KidsOf(doc, x)
             k    == Len(K)
             n    == Len(done)
             t    == Len(todo)
             path == Pages!PathAt(Pages!BlockOf(doc, x), m.path)
             next == ToCome(doc, todo)
             gone == Append(done, Gone(doc, todo))
  <1>1. /\ m \in Metas(doc) /\ 1 \in DOMAIN todo /\ x \in I
        /\ K \in Seq(I) /\ k \in Nat /\ DOMAIN K = 1 .. k
        /\ next \in Seq(Metas(doc)) /\ gone \in Seq(Metas(doc))
        /\ t \in Nat \ {0} /\ DOMAIN todo = 1 .. t
        /\ n \in Nat /\ DOMAIN done = 1 .. n
    BY VisitShape
  <1>2. /\ DOMAIN next = 1 .. k + t - 1
        /\ \A i \in 1 .. k :
              next[i].id = K[i] /\ next[i].parent = x /\ next[i].order = i /\ next[i].path = path
        /\ \A i \in k + 1 .. k + t - 1 : i - k + 1 \in 2 .. t /\ next[i] = todo[i - k + 1]
        /\ \A i \in 2 .. t : i - 1 + k \in k + 1 .. k + t - 1 /\ next[i - 1 + k] = todo[i]
    <2>1. /\ DOMAIN next = 1 .. k + t - 1
          /\ \A i \in 1 .. k :
                next[i].id = K[i] /\ next[i].parent = x /\ next[i].order = i /\ next[i].path = path
      BY VisitShape
    <2>2. IsBehind(ToCome(doc, todo), Len(KidsOf(doc, x)), todo)
      BY VisitShape
    <2> QED
      BY <2>1, <2>2 DEF IsBehind
  <1>3. /\ DOMAIN gone = 1 .. n + 1
        /\ \A i \in 1 .. n : gone[i] = done[i]
        /\ gone[n + 1].id = x /\ gone[n + 1].parent = m.parent /\ gone[n + 1].order = m.order
        /\ gone[n + 1].path = path
    BY VisitShape
  <1>4. x \in Owners(doc) /\ x # None /\ None \in Owners(doc)
    BY <1>1, BlockFacts DEF Owners
  <1>5. /\ WalkTypes(doc, todo, done) /\ WalkListed(doc, todo, done) /\ WalkOnce(todo, done)
        /\ WalkComplete(doc, todo, done) /\ WalkOrdered(doc, todo, done) /\ WalkPaths(doc, todo, done)
    BY DEF WalkInv
  <1>6. /\ \A i \in 1 .. t : todo[i] \in Metas(doc) /\ todo[i].id \in I /\ todo[i].parent \in Owners(doc)
        /\ \A i \in 1 .. n : done[i] \in Metas(doc) /\ done[i].id \in I /\ done[i].parent \in Owners(doc)
    <2>1. /\ todo \in Seq(Metas(doc)) /\ done \in Seq(Metas(doc))
      BY <1>5 DEF WalkTypes
    <2>2. \A e \in Metas(doc) : e.id \in I /\ e.parent \in Owners(doc)
      BY DEF Metas
    <2>3. \A i \in 1 .. t : todo[i] \in Metas(doc)
      BY <1>1, <2>1
    <2>4. \A i \in 1 .. n : done[i] \in Metas(doc)
      BY <1>1, <2>1
    <2> HIDE DEF t, n, I
    <2> QED
      BY <2>2, <2>3, <2>4
  <1> HIDE DEF m, x, I, K, k, n, t, path, next, gone
  \* Every pending block is a child of x or was pending; every visited one is x or was visited.
  <1>7. \A i \in DOMAIN next :
           \/ i \in 1 .. k
           \/ i \in k + 1 .. k + t - 1 /\ i - k + 1 \in 2 .. t /\ next[i] = todo[i - k + 1]
    BY <1>1, <1>2
  <1>8. \A i \in DOMAIN gone : (i \in 1 .. n /\ gone[i] = done[i]) \/ i = n + 1
    BY <1>1, <1>3
  \* Where the pending and visited ones are listed.
  <1>9. /\ \A i \in 1 .. t :
              /\ todo[i].order \in DOMAIN KidsOf(doc, todo[i].parent)
              /\ todo[i].id = KidsOf(doc, todo[i].parent)[todo[i].order]
              /\ todo[i].parent = None \/ \E j \in 1 .. n : done[j].id = todo[i].parent
        /\ \A i \in 1 .. n :
              /\ done[i].order \in DOMAIN KidsOf(doc, done[i].parent)
              /\ done[i].id = KidsOf(doc, done[i].parent)[done[i].order]
              /\ done[i].parent = None \/ \E j \in 1 .. n : done[j].id = done[i].parent
    BY <1>1, <1>5 DEF WalkListed, Pages!ToSet
  <1>10. m = todo[1] /\ x = m.id /\ 1 \in 1 .. t
    BY <1>1 DEF m, x
  \* x was not visited, and nothing come to so far is its child.
  <1>11. \A j \in 1 .. n : done[j].id # x
    BY <1>1, <1>5, <1>10 DEF WalkOnce
  <1>12. /\ \A j \in 1 .. t : todo[j].parent # x
         /\ \A j \in 1 .. n : done[j].parent # x
    BY <1>4, <1>9, <1>11
  <1>13. /\ \A i \in 1 .. k, j \in 1 .. t : K[i] # todo[j].id
         /\ \A i \in 1 .. k, j \in 1 .. n : K[i] # done[j].id
         /\ \A i, j \in 1 .. k : K[i] = K[j] => i = j
    <2>1. \A o, q \in Owners(doc) : \A i \in DOMAIN KidsOf(doc, o), j \in DOMAIN KidsOf(doc, q) :
                 KidsOf(doc, o)[i] = KidsOf(doc, q)[j] => o = q /\ i = j
      BY KidsFacts
    <2>2. \A q \in Owners(doc) : \A i \in 1 .. k, j \in DOMAIN KidsOf(doc, q) :
             K[i] = KidsOf(doc, q)[j] => q = x /\ i = j
      BY <1>1, <1>4, <2>1 DEF K
    <2>3. ASSUME NEW i \in 1 .. k, NEW j \in 1 .. t PROVE K[i] # todo[j].id
      BY <1>6, <1>9, <1>12, <2>2
    <2>4. ASSUME NEW i \in 1 .. k, NEW j \in 1 .. n PROVE K[i] # done[j].id
      BY <1>6, <1>9, <1>12, <2>2
    <2>5. ASSUME NEW i \in 1 .. k, NEW j \in 1 .. k, K[i] = K[j] PROVE i = j
      BY <1>1, <1>4, <2>2, <2>5 DEF K
    <2> QED
      BY <2>3, <2>4, <2>5
  <1>14. WalkListed(doc, next, gone)
    <2>1. ASSUME NEW i \in DOMAIN next
          PROVE  /\ next[i].order \in DOMAIN KidsOf(doc, next[i].parent)
                 /\ next[i].id = KidsOf(doc, next[i].parent)[next[i].order]
                 /\ next[i].parent = None \/ \E j \in DOMAIN gone : gone[j].id = next[i].parent
      <3>1. CASE i \in 1 .. k
        <4>1. n + 1 \in DOMAIN gone /\ gone[n + 1].id = next[i].parent
          BY <1>1, <1>2, <1>3, <3>1
        <4> QED
          BY <1>1, <1>2, <3>1, <4>1 DEF K
      <3>2. CASE i - k + 1 \in 2 .. t /\ next[i] = todo[i - k + 1]
        <4>1. i - k + 1 \in 1 .. t
          BY <1>1, <3>2
        <4>2. \A j \in 1 .. n : j \in DOMAIN gone /\ gone[j].id = done[j].id
          BY <1>1, <1>3
        <4> QED
          BY <1>9, <3>2, <4>1, <4>2
      <3> QED
        BY <1>7, <3>1, <3>2
    <2>2. ASSUME NEW i \in DOMAIN gone
          PROVE  /\ gone[i].order \in DOMAIN KidsOf(doc, gone[i].parent)
                 /\ gone[i].id = KidsOf(doc, gone[i].parent)[gone[i].order]
                 /\ gone[i].parent = None \/ \E j \in DOMAIN gone : gone[j].id = gone[i].parent
      <3>1. \A j \in 1 .. n : j \in DOMAIN gone /\ gone[j].id = done[j].id
        BY <1>1, <1>3
      <3>2. CASE i \in 1 .. n /\ gone[i] = done[i]
        BY <1>9, <3>1, <3>2
      <3>3. CASE i = n + 1
        BY <1>3, <1>9, <1>10, <3>1, <3>3
      <3> QED
        BY <1>8, <3>2, <3>3
    <2> QED
      BY <2>1, <2>2 DEF WalkListed, Pages!ToSet
  <1>15. WalkOnce(next, gone)
    <2>1. /\ \A i, j \in 1 .. n : done[i].id = done[j].id => i = j
          /\ \A i, j \in 1 .. t : todo[i].id = todo[j].id => i = j
          /\ \A i \in 1 .. n, j \in 1 .. t : done[i].id # todo[j].id
      BY <1>1, <1>5 DEF WalkOnce
    <2>2. ASSUME NEW i \in DOMAIN gone, NEW j \in DOMAIN gone, gone[i].id = gone[j].id PROVE i = j
      BY <1>3, <1>8, <1>11, <2>1, <2>2
    <2>3. ASSUME NEW i \in DOMAIN next, NEW j \in DOMAIN next, next[i].id = next[j].id PROVE i = j
      <3>1. CASE i \in 1 .. k /\ j \in 1 .. k
        BY <1>2, <1>13, <2>3, <3>1
      <3>2. CASE i \in 1 .. k /\ (j - k + 1 \in 2 .. t /\ next[j] = todo[j - k + 1])
        <4>1. j - k + 1 \in 1 .. t
          BY <1>1, <3>2
        <4> QED
          BY <1>2, <1>13, <2>3, <3>2, <4>1
      <3>3. CASE j \in 1 .. k /\ (i - k + 1 \in 2 .. t /\ next[i] = todo[i - k + 1])
        <4>1. i - k + 1 \in 1 .. t
          BY <1>1, <3>3
        <4> QED
          BY <1>2, <1>13, <2>3, <3>3, <4>1
      <3>4. CASE /\ i - k + 1 \in 2 .. t /\ next[i] = todo[i - k + 1]
                 /\ j - k + 1 \in 2 .. t /\ next[j] = todo[j - k + 1]
        <4>1. i - k + 1 \in 1 .. t /\ j - k + 1 \in 1 .. t
          BY <1>1, <3>4
        <4>2. i - k + 1 = j - k + 1
          BY <2>1, <2>3, <3>4, <4>1
        <4>3. i \in Int /\ j \in Int
          BY <1>1, <1>2
        <4> QED
          BY <1>1, <4>2, <4>3
      <3> QED
        BY <1>7, <3>1, <3>2, <3>3, <3>4
    <2>4. ASSUME NEW i \in DOMAIN gone, NEW j \in DOMAIN next PROVE gone[i].id # next[j].id
      <3>1. CASE j \in 1 .. k
        BY <1>2, <1>3, <1>8, <1>10, <1>13, <3>1
      <3>2. CASE j - k + 1 \in 2 .. t /\ next[j] = todo[j - k + 1]
        <4>1. j - k + 1 \in 1 .. t /\ j - k + 1 # 1
          BY <1>1, <3>2
        <4> QED
          BY <1>3, <1>8, <1>10, <2>1, <3>2, <4>1
      <3> QED
        BY <1>7, <3>1, <3>2
    <2> QED
      BY <2>2, <2>3, <2>4 DEF WalkOnce
  <1>16. WalkComplete(doc, next, gone)
    <2> DEFINE In(y) == (\E j \in DOMAIN next : next[j].id = y) \/ \E j \in DOMAIN gone : gone[j].id = y
    <2>1. \A j \in 1 .. n : In(done[j].id)
      <3>1. \A j \in 1 .. n : j \in DOMAIN gone /\ gone[j].id = done[j].id
        BY <1>1, <1>3
      <3> QED
        BY <3>1
    <2>2. In(x)
      <3>1. n + 1 \in DOMAIN gone
        BY <1>1, <1>3
      <3> QED
        BY <1>3, <3>1
    <2>3. \A j \in 1 .. t : In(todo[j].id)
      <3>1. \A j \in 1 .. t : j = 1 \/ j \in 2 .. t
        BY <1>1
      <3>2. \A j \in 2 .. t : j - 1 + k \in DOMAIN next /\ next[j - 1 + k].id = todo[j].id
        BY <1>1, <1>2
      <3> QED
        BY <1>10, <2>2, <3>1, <3>2
    <2>4. \A i \in 1 .. k : In(K[i])
      <3>1. \A i \in 1 .. k : i \in DOMAIN next /\ next[i].id = K[i]
        BY <1>1, <1>2
      <3> QED
        BY <3>1
    <2>5. ASSUME NEW o, o = None \/ \E d \in 1 .. n : done[d].id = o, NEW i \in DOMAIN KidsOf(doc, o)
          PROVE  In(KidsOf(doc, o)[i])
      <3>1. \/ \E j \in 1 .. t : todo[j].id = KidsOf(doc, o)[i]
            \/ \E j \in 1 .. n : done[j].id = KidsOf(doc, o)[i]
        <4>1. \A d \in 1 .. n : done[d] \in Pages!ToSet(done)
          BY <1>1 DEF Pages!ToSet
        <4>2. o \in {None} \cup {d.id : d \in Pages!ToSet(done)}
          BY <2>5, <4>1
        <4>3. PICK e \in Pages!ToSet(todo) \cup Pages!ToSet(done) : e.id = KidsOf(doc, o)[i]
          BY <1>5, <4>2 DEF WalkComplete
        <4>4. (\E j \in 1 .. t : e = todo[j]) \/ \E j \in 1 .. n : e = done[j]
          BY <1>1 DEF Pages!ToSet
        <4> QED
          BY <4>3, <4>4
      <3> HIDE DEF In
      <3> QED
        BY <2>1, <2>3, <3>1
    <2>6. ASSUME NEW o, o = None \/ \E d \in DOMAIN gone : gone[d].id = o, NEW i \in DOMAIN KidsOf(doc, o)
          PROVE  In(KidsOf(doc, o)[i])
      <3> HIDE DEF In
      <3>1. CASE o = x
        BY <1>1, <2>4, <2>6, <3>1 DEF K
      <3>2. CASE o # x
        <4>1. o = None \/ \E d \in 1 .. n : done[d].id = o
          BY <1>3, <1>8, <2>6, <3>2
        <4> QED
          BY <2>5, <4>1
      <3> QED
        BY <3>1, <3>2
    <2> QED
      BY <2>6 DEF WalkComplete, Pages!ToSet
  <1>17. WalkOrdered(doc, next, gone)
    <2>1. /\ \A i, j \in 1 .. n : i < j => Pages!Before(doc, done[i].id, done[j].id)
          /\ \A i \in 1 .. n, j \in 1 .. t : Pages!Before(doc, done[i].id, todo[j].id)
          /\ \A i, j \in 1 .. t : i < j => Pages!Precedes(doc, todo[i].id, todo[j].id)
      BY <1>1, <1>5 DEF WalkOrdered
    <2>2. /\ \A i, j \in 1 .. k : i < j => Pages!Precedes(doc, K[i], K[j])
          /\ \A y \in I : \A i \in 1 .. k :
                /\ Pages!Before(doc, x, K[i])
                /\ Pages!Precedes(doc, x, y) => Pages!Precedes(doc, K[i], y)
                /\ Pages!Before(doc, y, x) => Pages!Before(doc, y, K[i])
      BY <1>1, <1>4, OrderFacts DEF I, K
    <2>3. \A y, z : Pages!Precedes(doc, y, z) => Pages!Before(doc, y, z)
      BY DEF Pages!Before
    <2>4. \A j \in 2 .. t : Pages!Precedes(doc, x, todo[j].id) /\ todo[j].id \in I /\ j \in 1 .. t
      BY <1>1, <1>6, <1>10, <2>1
    <2>5. \A j \in 1 .. n : Pages!Before(doc, done[j].id, x) /\ done[j].id \in I
      BY <1>6, <1>10, <2>1
    <2>6. ASSUME NEW i \in DOMAIN gone, NEW j \in DOMAIN gone, i < j
          PROVE  Pages!Before(doc, gone[i].id, gone[j].id)
      <3>1. i \in 1 .. n /\ gone[i] = done[i]
        BY <1>1, <1>3, <2>6
      <3>2. CASE j \in 1 .. n /\ gone[j] = done[j]
        BY <2>1, <2>6, <3>1, <3>2
      <3>3. CASE j = n + 1
        BY <1>3, <2>5, <3>1, <3>3
      <3> QED
        BY <1>8, <3>2, <3>3
    <2>7. ASSUME NEW i \in DOMAIN gone, NEW j \in DOMAIN next
          PROVE  Pages!Before(doc, gone[i].id, next[j].id)
      <3>1. CASE j \in 1 .. k
        <4>1. next[j].id = K[j]
          BY <1>2, <3>1
        <4>2. CASE i \in 1 .. n /\ gone[i] = done[i]
          BY <2>2, <2>5, <3>1, <4>1, <4>2
        <4>3. CASE i = n + 1
          BY <1>1, <1>3, <2>2, <3>1, <4>1, <4>3
        <4> QED
          BY <1>8, <4>2, <4>3
      <3>2. CASE j - k + 1 \in 2 .. t /\ next[j] = todo[j - k + 1]
        <4>1. j - k + 1 \in 1 .. t
          BY <1>1, <3>2
        <4>2. CASE i \in 1 .. n /\ gone[i] = done[i]
          BY <2>1, <3>2, <4>1, <4>2
        <4>3. CASE i = n + 1
          BY <1>3, <2>3, <2>4, <3>2, <4>3
        <4> QED
          BY <1>8, <4>2, <4>3
      <3> QED
        BY <1>7, <3>1, <3>2
    <2>8. ASSUME NEW i \in DOMAIN next, NEW j \in DOMAIN next, i < j
          PROVE  Pages!Precedes(doc, next[i].id, next[j].id)
      <3>1. CASE i \in 1 .. k /\ j \in 1 .. k
        BY <1>2, <2>2, <2>8, <3>1
      <3>2. CASE i \in 1 .. k /\ (j - k + 1 \in 2 .. t /\ next[j] = todo[j - k + 1])
        BY <1>2, <2>2, <2>4, <3>2
      <3>3. CASE ~(i \in 1 .. k)
        <4>1. i - k + 1 \in 2 .. t /\ next[i] = todo[i - k + 1]
          BY <1>7, <3>3
        <4>2. i \in Int /\ j \in Int /\ ~(j \in 1 .. k)
          BY <1>1, <1>2, <2>8, <3>3
        <4>3. j - k + 1 \in 2 .. t /\ next[j] = todo[j - k + 1]
          BY <1>7, <4>2
        <4>4. i - k + 1 < j - k + 1 /\ i - k + 1 \in 1 .. t /\ j - k + 1 \in 1 .. t
          BY <1>1, <2>8, <4>1, <4>2, <4>3
        <4> QED
          BY <2>1, <4>1, <4>3, <4>4
      <3> QED
        BY <1>7, <3>1, <3>2, <3>3
    <2> QED
      BY <2>6, <2>7, <2>8 DEF WalkOrdered
  <1>18. WalkPaths(doc, next, gone)
    <2>1. /\ \A i \in 1 .. t : HeadingsOver(doc, todo[i].id, todo[i].path)
          /\ \A i \in 1 .. n : HeadingsAt(doc, done[i].id, done[i].path)
      BY <1>1, <1>5 DEF WalkPaths
    <2>2. HeadingsOver(doc, x, m.path)
      BY <1>10, <2>1
    <2>3. HeadingsAt(doc, x, path) /\ \A i \in DOMAIN K : HeadingsOver(doc, K[i], path)
      BY <1>1, <2>2, PathFacts DEF path, K, I
    <2>4. ASSUME NEW i \in DOMAIN next PROVE HeadingsOver(doc, next[i].id, next[i].path)
      <3>1. CASE i \in 1 .. k
        BY <1>1, <1>2, <2>3, <3>1
      <3>2. CASE i - k + 1 \in 2 .. t /\ next[i] = todo[i - k + 1]
        <4>1. i - k + 1 \in 1 .. t
          BY <1>1, <3>2
        <4> QED
          BY <2>1, <3>2, <4>1
      <3> QED
        BY <1>7, <3>1, <3>2
    <2>5. ASSUME NEW i \in DOMAIN gone PROVE HeadingsAt(doc, gone[i].id, gone[i].path)
      BY <1>3, <1>8, <2>1, <2>3
    <2> QED
      BY <2>4, <2>5 DEF WalkPaths
  <1> QED
    BY <1>1, <1>14, <1>15, <1>16, <1>17, <1>18 DEF WalkInv, WalkTypes, next, gone

--------------------------------------------------------------------------------
\* The walk comes to the next block, which it has not visited.
LEMMA VisitIs ==
    ASSUME NEW doc, Pages!IsForest(doc), NEW once, NEW todo, NEW done, WalkInv(doc, todo, done)
    PROVE  Pages!Visit(doc, once, [pending |-> todo, out |-> done]) =
              IF todo = <<>> THEN [pending |-> todo, out |-> done]
              ELSE [pending |-> ToCome(doc, todo), out |-> Append(done, Gone(doc, todo))]
  <1> DEFINE w == [pending |-> todo, out |-> done]
  <1>1. w.pending = todo /\ w.out = done
    OBVIOUS
  <1> HIDE DEF w
  <1>2. CASE todo = <<>>
    BY <1>1, <1>2 DEF Pages!Visit, w
  <1>3. CASE todo # <<>>
    <2>1. todo \in Seq(Metas(doc)) /\ done \in Seq(Metas(doc))
      BY DEF WalkInv, WalkTypes
    <2>2. Head(todo) = todo[1] /\ 1 \in DOMAIN todo
      BY <1>3, <2>1
    <2>3. todo[1].id \in Pages!Ids(doc)
      BY <1>3, VisitShape
    <2>4. ~ \E o \in Pages!ToSet(done) : o.id = todo[1].id
      BY <2>1, <2>2 DEF WalkInv, WalkOnce, Pages!ToSet
    <2>5. Pages!Visit(doc, once, w) =
             [pending |-> ToCome(doc, todo), out |-> Append(done, Gone(doc, todo))]
      BY <1>1, <1>3, <2>2, <2>3, <2>4 DEF Pages!Visit, ToCome, Gone
    <2> QED
      BY <1>3, <2>5 DEF w
  <1> QED
    BY <1>2, <1>3

\* The walk is the last of those that its recursion builds.
LEMMA WalkSteps ==
    ASSUME NEW doc, NEW once, Pages!Cardinality(Pages!Listed(doc)) \in Nat
    PROVE  \E f : /\ Pages!Walk(doc, once) = f[Pages!Cardinality(Pages!Listed(doc))].out
                  /\ f[0] = [pending |-> Rooted(doc), out |-> <<>>]
                  /\ \A n \in 1 .. Pages!Cardinality(Pages!Listed(doc)) :
                        f[n] = Pages!Visit(doc, once, f[n - 1])
  <1> DEFINE C == Pages!Cardinality(Pages!Listed(doc))
             first == [pending |-> Rooted(doc), out |-> <<>>]
             Step(w) == Pages!Visit(doc, once, w)
             Is(f, k) == f = [n \in 0 .. k |-> IF n = 0 THEN first ELSE Step(f[n - 1])]
  <1>1. Pages!Walk(doc, once) = (CHOOSE f : Is(f, C))[C].out
    BY DEF Pages!Walk, Rooted
  <1> HIDE DEF first, Step
  <1>2. \E f : Is(f, 0)
    <2>1. Is([n \in 0 .. 0 |-> first], 0)
      OBVIOUS
    <2> QED
      BY <2>1
  <1>3. ASSUME NEW k \in Nat, NEW f, Is(f, k) PROVE \E g : Is(g, k + 1)
    <2> DEFINE g == [n \in 0 .. k + 1 |-> IF n <= k THEN f[n] ELSE Step(f[n - 1])]
    <2>1. ASSUME NEW n \in 0 .. k + 1 PROVE g[n] = IF n = 0 THEN first ELSE Step(g[n - 1])
      <3>1. CASE n <= k
        <4>1. n \in 0 .. k /\ (n # 0 => n - 1 \in 0 .. k)
          BY <3>1
        <4>2. f[n] = IF n = 0 THEN first ELSE Step(f[n - 1])
          BY <1>3, <4>1, Zenon
        <4>3. g[n] = f[n] /\ (n # 0 => g[n - 1] = f[n - 1])
          BY <3>1
        <4> QED
          BY <4>2, <4>3
      <3>2. CASE n > k
        <4>1. n = k + 1 /\ n # 0 /\ n - 1 \in 0 .. k + 1 /\ n - 1 <= k
          BY <3>2
        <4>2. g[n - 1] = f[n - 1]
          BY <4>1
        <4>3. g[n] = Step(f[n - 1])
          BY <3>2
        <4> QED
          BY <4>1, <4>2, <4>3
      <3> QED
        BY <3>1, <3>2
    <2>2. g = [n \in 0 .. k + 1 |-> g[n]]
      OBVIOUS
    <2> HIDE DEF g
    <2>3. Is(g, k + 1)
      BY <2>1, <2>2
    <2> QED
      BY <2>3
  <1> DEFINE P == {k \in Nat : \E f : Is(f, k)}
  <1> HIDE DEF Is
  <1>4. P = Nat
    <2>1. 0 \in P
      BY <1>2
    <2>2. \A k \in P : k + 1 \in P
      BY <1>3
    <2>3. P \in SUBSET Nat
      OBVIOUS
    <2> HIDE DEF P
    <2> QED
      BY <2>1, <2>2, <2>3, SetInduction
  <1> DEFINE f == CHOOSE f : Is(f, C)
  <1>5. Is(f, C) /\ Pages!Walk(doc, once) = f[C].out
    BY <1>1, <1>4
  <1> HIDE DEF f, C
  <1>6. C \in Nat
    BY DEF C
  <1>7. \A n \in 0 .. C : f[n] = IF n = 0 THEN first ELSE Step(f[n - 1])
    BY <1>5 DEF Is
  <1>8. f[0] = first /\ \A n \in 1 .. C : f[n] = Step(f[n - 1])
    BY <1>6, <1>7
  <1> QED
    BY <1>5, <1>8 DEF C, first, Step

\* A document lists no more than its blocks, of which there are finitely many.
LEMMA ListedIsFinite ==
    ASSUME NEW doc, Pages!IsForest(doc)
    PROVE  IsFiniteSet(Pages!Listed(doc)) /\ Cardinality(Pages!Listed(doc)) \in Nat
  <1> DEFINE I == Pages!Ids(doc)
             f == [i \in DOMAIN doc.blocks |-> doc.blocks[i].id]
             g == [p \in Pages!Listed(doc) |-> KidsOf(doc, p[1])[p[2]]]
  <1>1. IsFiniteSet(I)
    <2>1. doc.blocks \in Seq(Pages!ToSet(doc.blocks))
      BY DEF Pages!IsForest, Pages!IsSeq
    <2>2. DOMAIN doc.blocks = 1 .. Len(doc.blocks) /\ Len(doc.blocks) \in Nat
      BY <2>1
    <2>3. IsFiniteSet(DOMAIN doc.blocks)
      BY <2>2, FS_Interval
    <2>4. \A x : x \in I <=> \E i \in DOMAIN doc.blocks : f[i] = x
      BY DEF Pages!Ids, Pages!ToSet
    <2>5. f \in Surjection(DOMAIN doc.blocks, I)
      BY <2>4 DEF Surjection
    <2> HIDE DEF f, I
    <2> QED
      BY <2>3, <2>5, FS_Surjection
  <1>2. g \in Injection(Pages!Listed(doc), I)
    <2>1. Pages!Listed(doc) = {p \in Owners(doc) \X Nat : p[2] \in DOMAIN KidsOf(doc, p[1])}
      BY KidsFacts
    <2>2. \A p \in Pages!Listed(doc) : g[p] \in I
      BY <2>1, KidsFacts
    <2>3. ASSUME NEW p \in Pages!Listed(doc), NEW q \in Pages!Listed(doc), g[p] = g[q] PROVE p = q
      <3>1. p[1] = q[1] /\ p[2] = q[2]
        BY <2>1, <2>3, KidsFacts
      <3> QED
        BY <2>1, <3>1
    <2> QED
      BY <2>2, <2>3 DEF Injection, IsInjective
  <1> QED
    BY <1>1, <1>2, FS_Injection, FS_CardinalityType

\* What the walk has come to is listed, each at a place of its own.
LEMMA WalkBound ==
    ASSUME NEW doc, Pages!IsForest(doc), NEW todo, NEW done, WalkInv(doc, todo, done)
    PROVE  /\ Len(todo) \in Nat /\ Len(done) \in Nat
           /\ Len(done) + Len(todo) <= Cardinality(Pages!Listed(doc))
  <1> DEFINE n == Len(done)
             t == Len(todo)
             at(i) == IF i <= n THEN done[i] ELSE todo[i - n]
             f == [i \in 1 .. n + t |-> <<at(i).parent, at(i).order>>]
  <1>1. todo \in Seq(Metas(doc)) /\ done \in Seq(Metas(doc))
    BY DEF WalkInv, WalkTypes
  <1>2. n \in Nat /\ t \in Nat /\ DOMAIN done = 1 .. n /\ DOMAIN todo = 1 .. t
    BY <1>1
  <1>3. \A i \in 1 .. n + t : (i <= n /\ i \in 1 .. n) \/ (~(i <= n) /\ i - n \in 1 .. t)
    BY <1>2
  <1>4. \A i \in 1 .. n + t :
           at(i) \in Metas(doc) /\ at(i) \in Pages!ToSet(todo) \cup Pages!ToSet(done)
    <2> HIDE DEF n, t
    <2> QED
      BY <1>1, <1>2, <1>3 DEF Pages!ToSet
  <1>5. ASSUME NEW i \in 1 .. n + t, NEW j \in 1 .. n + t, at(i).id = at(j).id PROVE i = j
    <2>1. WalkOnce(todo, done)
      BY DEF WalkInv
    <2>2. CASE i <= n /\ j <= n
      BY <1>2, <1>3, <1>5, <2>1, <2>2 DEF WalkOnce
    <2>3. CASE i <= n /\ ~(j <= n)
      BY <1>2, <1>3, <1>5, <2>1, <2>3 DEF WalkOnce
    <2>4. CASE ~(i <= n) /\ j <= n
      BY <1>2, <1>3, <1>5, <2>1, <2>4 DEF WalkOnce
    <2>5. CASE ~(i <= n) /\ ~(j <= n)
      <3>1. i - n = j - n
        BY <1>2, <1>3, <1>5, <2>1, <2>5 DEF WalkOnce
      <3> QED
        BY <1>2, <3>1
    <2> QED
      BY <2>2, <2>3, <2>4, <2>5
  <1> HIDE DEF at
  <1>6. \A i \in 1 .. n + t :
           /\ at(i).parent \in Owners(doc) /\ at(i).order \in Nat
           /\ at(i).order \in DOMAIN KidsOf(doc, at(i).parent)
           /\ at(i).id = KidsOf(doc, at(i).parent)[at(i).order]
    <2>1. WalkListed(doc, todo, done)
      BY DEF WalkInv
    <2>2. \A e \in Metas(doc) : e.parent \in Owners(doc) /\ e.order \in Nat
      BY DEF Metas
    <2> HIDE DEF n, t
    <2> QED
      BY <1>4, <2>1, <2>2 DEF WalkListed
  <1>7. f \in Injection(1 .. n + t, Pages!Listed(doc))
    <2>1. Pages!Listed(doc) = {p \in Owners(doc) \X Nat : p[2] \in DOMAIN KidsOf(doc, p[1])}
      BY KidsFacts
    <2>2. \A i \in 1 .. n + t : <<at(i).parent, at(i).order>> \in Pages!Listed(doc)
      BY <1>6, <2>1
    <2>3. f \in [1 .. n + t -> Pages!Listed(doc)]
      BY <2>2
    <2>4. ASSUME NEW i \in 1 .. n + t, NEW j \in 1 .. n + t, f[i] = f[j] PROVE i = j
      <3>1. at(i).parent = at(j).parent /\ at(i).order = at(j).order
        BY <2>4
      <3> QED
        BY <1>5, <1>6, <3>1
    <2> QED
      BY <2>3, <2>4 DEF Injection, IsInjective
  <1> HIDE DEF f
  <1>8. Cardinality(1 .. n + t) <= Cardinality(Pages!Listed(doc))
    BY <1>7, ListedIsFinite, FS_Injection
  <1>9. Cardinality(1 .. n + t) = n + t
    BY <1>2, FS_Interval
  <1> QED
    BY <1>2, <1>8, <1>9

\* A walk visits each block of the document, in its order.
LEMMA WalkIs ==
    ASSUME NEW doc, Pages!IsForest(doc), NEW once
    PROVE  /\ WalkInv(doc, <<>>, Pages!Walk(doc, once))
           /\ \A x : x \in Pages!Ids(doc) <=>
                 \E i \in DOMAIN Pages!Walk(doc, once) : Pages!Walk(doc, once)[i].id = x
  <1> DEFINE C == Cardinality(Pages!Listed(doc))
             Good(w, n) == \E todo, done :
                /\ w = [pending |-> todo, out |-> done] /\ WalkInv(doc, todo, done)
                /\ todo = <<>> \/ Len(done) = n
  <1>1. C \in Nat /\ Pages!Cardinality(Pages!Listed(doc)) = C
    BY ListedIsFinite, PageCardinality
  <1> HIDE DEF C
  <1>2. PICK f : /\ Pages!Walk(doc, once) = f[C].out
                 /\ f[0] = [pending |-> Rooted(doc), out |-> <<>>]
                 /\ \A n \in 1 .. C : f[n] = Pages!Visit(doc, once, f[n - 1])
    <2>1. Pages!Cardinality(Pages!Listed(doc)) \in Nat
      BY <1>1
    <2>2. \E f : /\ Pages!Walk(doc, once) = f[Pages!Cardinality(Pages!Listed(doc))].out
                 /\ f[0] = [pending |-> Rooted(doc), out |-> <<>>]
                 /\ \A n \in 1 .. Pages!Cardinality(Pages!Listed(doc)) :
                        f[n] = Pages!Visit(doc, once, f[n - 1])
      BY <2>1, WalkSteps
    <2> QED
      BY <1>1, <2>2
  <1>3. Good(f[0], 0)
    <2>1. WalkInv(doc, Rooted(doc), <<>>)
      BY WalkStarts
    <2>2. Len(<<>>) = 0
      OBVIOUS
    <2> QED
      BY <1>2, <2>1, <2>2
  <1>4. ASSUME NEW n \in Nat, n + 1 <= C, Good(f[n], n) PROVE Good(f[n + 1], n + 1)
    <2>1. PICK todo, done :
             /\ f[n] = [pending |-> todo, out |-> done] /\ WalkInv(doc, todo, done)
             /\ todo = <<>> \/ Len(done) = n
      BY <1>4
    <2>2. f[n + 1] = Pages!Visit(doc, once, f[n])
      <3>1. n + 1 \in 1 .. C /\ (n + 1) - 1 = n
        BY <1>1, <1>4
      <3> QED
        BY <1>2, <3>1
    <2>3. f[n + 1] = IF todo = <<>> THEN [pending |-> todo, out |-> done]
                     ELSE [pending |-> ToCome(doc, todo), out |-> Append(done, Gone(doc, todo))]
      BY <2>1, <2>2, VisitIs
    <2>4. CASE todo = <<>>
      BY <2>1, <2>3, <2>4
    <2>5. CASE todo # <<>>
      <3>1. WalkInv(doc, ToCome(doc, todo), Append(done, Gone(doc, todo)))
        BY <2>1, <2>5, VisitKeeps
      <3>2. Len(Append(done, Gone(doc, todo))) = n + 1
        <4>1. done \in Seq(Metas(doc)) /\ Len(done) = n
          BY <2>1, <2>5 DEF WalkInv, WalkTypes
        <4> QED
          BY <4>1
      <3> QED
        BY <2>3, <2>5, <3>1, <3>2
    <2> QED
      BY <2>4, <2>5
  <1> DEFINE S == {n \in Nat : n <= C => Good(f[n], n)}
  <1> HIDE DEF Good
  <1>5. S = Nat
    <2>1. 0 \in S
      BY <1>3
    <2>2. ASSUME NEW n \in S PROVE n + 1 \in S
      <3>1. n \in Nat /\ (n <= C => Good(f[n], n))
        OBVIOUS
      <3>2. n + 1 <= C => n <= C
        BY <1>1, <3>1
      <3>3. n + 1 <= C => Good(f[n + 1], n + 1)
        BY <1>4, <3>1, <3>2
      <3> QED
        BY <3>1, <3>3
    <2>3. S \in SUBSET Nat
      OBVIOUS
    <2> HIDE DEF S
    <2> QED
      BY <2>1, <2>2, <2>3, SetInduction
  <1>6. Good(f[C], C)
    <2>1. C \in S /\ C <= C
      BY <1>1, <1>5
    <2> QED
      BY <2>1
  <1>7. PICK todo, done : /\ f[C] = [pending |-> todo, out |-> done] /\ WalkInv(doc, todo, done)
                          /\ todo = <<>> \/ Len(done) = C
    BY <1>6 DEF Good
  <1>8. todo = <<>>
    <2>1. Len(todo) \in Nat /\ Len(done) \in Nat /\ Len(done) + Len(todo) <= C
      BY <1>7, WalkBound DEF C
    <2>2. todo \in Seq(Metas(doc))
      BY <1>7 DEF WalkInv, WalkTypes
    <2>3. ASSUME Len(done) = C PROVE todo = <<>>
      <3>1. Len(todo) = 0
        BY <1>1, <2>1, <2>3
      <3> QED
        BY <2>2, <3>1
    <2> QED
      BY <1>7, <2>3
  <1>9. Pages!Walk(doc, once) = done /\ WalkInv(doc, <<>>, done)
    BY <1>2, <1>7, <1>8
  <1>10. \A i \in DOMAIN done : done[i].id \in Pages!Ids(doc)
    <2>1. done \in Seq(Metas(doc))
      BY <1>9 DEF WalkInv, WalkTypes
    <2>2. \A i \in DOMAIN done : done[i] \in Metas(doc)
      BY <2>1
    <2> QED
      BY <2>2 DEF Metas
  <1> DEFINE V == {x \in Pages!Ids(doc) : \E i \in DOMAIN done : done[i].id = x}
  <1>11. V = Pages!Ids(doc)
    <2>1. ASSUME NEW o \in V \cup {None}, NEW i \in DOMAIN KidsOf(doc, o)
          PROVE  KidsOf(doc, o)[i] \in V
      <3>1. o \in {None} \cup {d.id : d \in Pages!ToSet(done)}
        BY DEF Pages!ToSet
      <3>2. WalkComplete(doc, <<>>, done)
        BY <1>9 DEF WalkInv
      <3>3. PICK m \in Pages!ToSet(<<>>) \cup Pages!ToSet(done) : m.id = KidsOf(doc, o)[i]
        BY <3>1, <3>2 DEF WalkComplete
      <3>4. Pages!ToSet(<<>>) = {}
        BY DEF Pages!ToSet
      <3>5. PICK j \in DOMAIN done : m = done[j]
        BY <3>3, <3>4 DEF Pages!ToSet
      <3> QED
        BY <1>10, <3>3, <3>5
    <2>2. V \in SUBSET Pages!Ids(doc)
      OBVIOUS
    <2> HIDE DEF V
    <2> QED
      BY <2>1, <2>2, KidsFacts
  <1>12. \A x : x \in Pages!Ids(doc) <=> \E i \in DOMAIN done : done[i].id = x
    BY <1>10, <1>11
  <1> QED
    BY <1>9, <1>12

--------------------------------------------------------------------------------
\* What the listings of a document say: its blocks, each once, in its order.
LEMMA BlockMetasAre ==
    ASSUME NEW doc, Pages!IsForest(doc)
    PROVE  /\ WalkInv(doc, <<>>, Pages!BlockMetas(doc))
           /\ \A x : x \in Pages!Ids(doc) <=>
                 \E i \in DOMAIN Pages!BlockMetas(doc) : Pages!BlockMetas(doc)[i].id = x
  <1> DEFINE rooted == Pages!Walk(doc, TRUE)
             all == [i \in DOMAIN doc.blocks |-> Pages!Meta(doc.blocks[i].id, None, i, <<>>)]
             lost == {m \in Pages!ToSet(all) : \A r \in Pages!ToSet(rooted) : r.id # m.id}
  <1>1. WalkInv(doc, <<>>, rooted)
        /\ \A x : x \in Pages!Ids(doc) <=> \E i \in DOMAIN rooted : rooted[i].id = x
    <2>1. \A once : /\ WalkInv(doc, <<>>, Pages!Walk(doc, once))
                     /\ \A x : x \in Pages!Ids(doc) <=>
                           \E i \in DOMAIN Pages!Walk(doc, once) : Pages!Walk(doc, once)[i].id = x
      BY WalkIs
    <2> QED
      BY <2>1, Zenon
  <1>2. Pages!BlockMetas(doc) = rooted \o Pages!Only(all, lost)
    BY DEF Pages!BlockMetas
  <1>3. rooted \in Seq(Metas(doc))
    BY <1>1 DEF WalkInv, WalkTypes
  <1>4. doc.blocks \in Seq(Pages!ToSet(doc.blocks))
    BY DEF Pages!IsForest, Pages!IsSeq
  <1>5. DOMAIN doc.blocks = 1 .. Len(doc.blocks) /\ Len(doc.blocks) \in Nat
    BY <1>4
  <1> HIDE DEF rooted
  <1>6. \A i \in DOMAIN all : all[i].id \in Pages!Ids(doc)
    BY DEF Pages!Meta, Pages!Ids, Pages!ToSet
  <1>7. lost = {}
    <2>1. ASSUME NEW m \in lost PROVE FALSE
      <3>1. PICK i \in DOMAIN all : m = all[i]
        BY DEF Pages!ToSet
      <3>2. PICK j \in DOMAIN rooted : rooted[j].id = m.id
        BY <1>1, <1>6, <3>1
      <3>3. rooted[j] \in Pages!ToSet(rooted)
        BY DEF Pages!ToSet
      <3> QED
        BY <3>2, <3>3
    <2> QED
      BY <2>1
  <1>8. all \in Seq(Pages!ToSet(all))
    <2>1. DOMAIN all = 1 .. Len(doc.blocks)
      BY <1>5
    <2>2. all = [i \in 1 .. Len(doc.blocks) |-> all[i]]
      BY <2>1
    <2>3. \A i \in 1 .. Len(doc.blocks) : all[i] \in Pages!ToSet(all)
      BY <2>1 DEF Pages!ToSet
    <2> HIDE DEF all
    <2> QED
      BY <1>5, <2>2, <2>3
  <1> HIDE DEF all, lost
  <1>9. Pages!Only(all, lost) \in Seq(Pages!ToSet(all))
        /\ \A i \in DOMAIN Pages!Only(all, lost) : FALSE
    BY <1>7, <1>8, OnlyIs
  <1>10. Pages!Only(all, lost) = <<>>
    BY <1>9
  <1>11. Pages!BlockMetas(doc) = rooted
    BY <1>2, <1>3, <1>10
  <1> QED
    BY <1>1, <1>11

\* A selection of what was visited has what was selected, in the order of the document.
LEMMA SelectionIs ==
    ASSUME NEW doc, Pages!IsForest(doc), NEW s, WalkInv(doc, <<>>, s), NEW T
    PROVE  LET o == Pages!Only(s, T)
           IN  /\ o \in Seq(Metas(doc))
               /\ \A x : (\E i \in DOMAIN o : o[i].id = x) <=>
                            \E a \in DOMAIN s : s[a] \in T /\ s[a].id = x
               /\ \A i \in DOMAIN o : \E a \in DOMAIN s : o[i] = s[a] /\ s[a] \in T
               /\ \A i, j \in DOMAIN o : i < j => Pages!Before(doc, o[i].id, o[j].id)
               /\ \A i \in DOMAIN o : HeadingsAt(doc, o[i].id, o[i].path)
  <1>1. s \in Seq(Metas(doc))
    BY DEF WalkInv, WalkTypes
  <1>2. /\ \A a, b \in DOMAIN s : a < b => Pages!Before(doc, s[a].id, s[b].id)
        /\ \A a \in DOMAIN s : HeadingsAt(doc, s[a].id, s[a].path)
    BY DEF WalkInv, WalkOrdered, WalkPaths
  <1> DEFINE o == Pages!Only(s, T)
  <1>3. /\ o \in Seq(Metas(doc))
        /\ \A i \in DOMAIN o : \E a \in DOMAIN s : s[a] = o[i] /\ s[a] \in T
        /\ \A a \in DOMAIN s : s[a] \in T => \E i \in DOMAIN o : s[a] = o[i]
        /\ \A i, j \in DOMAIN o : i < j =>
              \E a, b \in DOMAIN s : a < b /\ s[a] = o[i] /\ s[b] = o[j]
    BY <1>1, OnlyIs
  <1> HIDE DEF o
  <1>4. ASSUME NEW i \in DOMAIN o, NEW j \in DOMAIN o, i < j
        PROVE  Pages!Before(doc, o[i].id, o[j].id)
    <2>1. PICK a, b \in DOMAIN s : a < b /\ s[a] = o[i] /\ s[b] = o[j]
      BY <1>3, <1>4
    <2> QED
      BY <1>2, <2>1
  <1>5. ASSUME NEW i \in DOMAIN o PROVE HeadingsAt(doc, o[i].id, o[i].path)
    BY <1>2, <1>3
  <1>6. \A x : (\E i \in DOMAIN o : o[i].id = x) <=> \E a \in DOMAIN s : s[a] \in T /\ s[a].id = x
    BY <1>3
  <1> QED
    BY <1>3, <1>4, <1>5, <1>6 DEF o

\* A list of blocks in the order of the document, with the headings they are under.
Reads(doc, items, wanted) ==
    /\ {items[i].id : i \in DOMAIN items} = wanted
    /\ \A i, j \in DOMAIN items : i < j => Pages!Before(doc, items[i].id, items[j].id)
    /\ \A i \in DOMAIN items : "path" \in DOMAIN items[i] => HeadingsAt(doc, items[i].id, items[i].path)

LEMMA ReadsIs ==
    ASSUME NEW doc, NEW items, Reads(doc, items, Pages!Wanted(view, doc))
    PROVE  Pages!ReadsADocument(doc, items)
  <1>1. ASSUME NEW i \in DOMAIN items, "path" \in DOMAIN items[i]
        PROVE  LET path == items[i].path
               IN  /\ \A h \in DOMAIN path :
                         /\ Pages!BlockOf(doc, path[h]).level > 0
                         /\ path[h] = items[i].id \/ Pages!IsUnder(doc, items[i].id, path[h])
                   /\ \A h, k \in DOMAIN path : h < k => Pages!IsUnder(doc, path[k], path[h])
    BY <1>1 DEF Reads, HeadingsAt
  <1> QED
    BY <1>1, Zenon DEF Reads, Pages!ReadsADocument

\* The children of the asked-for parent are the blocks listed under it.
ChildrenOf(doc, parent) ==
    UNION {Pages!ToSet(b.children) : b \in {c \in Pages!ToSet(doc.blocks) : c.id = parent}}

LEMMA ChildrenAre ==
    ASSUME NEW doc, Pages!IsForest(doc), NEW parent, parent # None,
           NEW s, WalkInv(doc, <<>>, s),
           \A x : x \in Pages!Ids(doc) <=> \E i \in DOMAIN s : s[i].id = x
    PROVE  \A x : x \in ChildrenOf(doc, parent)
              <=> \E a \in DOMAIN s : s[a].parent = parent /\ s[a].id = x
  <1> DEFINE U == ChildrenOf(doc, parent)
  <1>1. s \in Seq(Metas(doc)) /\ WalkListed(doc, <<>>, s)
    BY DEF WalkInv, WalkTypes
  <1>2. \A a \in DOMAIN s :
           /\ s[a].parent \in Owners(doc)
           /\ s[a].order \in DOMAIN KidsOf(doc, s[a].parent)
           /\ s[a].id = KidsOf(doc, s[a].parent)[s[a].order]
    <2>1. \A a \in DOMAIN s : s[a] \in Metas(doc) /\ s[a] \in Pages!ToSet(<<>>) \cup Pages!ToSet(s)
      BY <1>1 DEF Pages!ToSet
    <2>2. \A e \in Metas(doc) : e.parent \in Owners(doc)
      BY DEF Metas
    <2> QED
      BY <1>1, <2>1, <2>2 DEF WalkListed
  <1>3. \A x : x \in U <=> parent \in Pages!Ids(doc) /\ \E i \in DOMAIN KidsOf(doc, parent) : x = KidsOf(doc, parent)[i]
    <2>1. \A x : x \in U <=> \E b \in Pages!ToSet(doc.blocks) : b.id = parent /\ x \in Pages!ToSet(b.children)
      BY DEF ChildrenOf
    <2>2. \A b \in Pages!ToSet(doc.blocks) : b.id = parent =>
             parent \in Pages!Ids(doc) /\ b = Pages!BlockOf(doc, parent)
      BY BlockFacts
    <2>3. parent \in Pages!Ids(doc) =>
             /\ Pages!BlockOf(doc, parent) \in Pages!ToSet(doc.blocks)
             /\ Pages!BlockOf(doc, parent).id = parent
      BY BlockFacts
    <2>4. KidsOf(doc, parent) = Pages!BlockOf(doc, parent).children
      BY DEF KidsOf
    <2>5. \A x : x \in Pages!ToSet(KidsOf(doc, parent)) <=>
             \E i \in DOMAIN KidsOf(doc, parent) : x = KidsOf(doc, parent)[i]
      BY DEF Pages!ToSet
    <2> HIDE DEF U
    <2> QED
      BY <2>1, <2>2, <2>3, <2>4, <2>5
  <1> HIDE DEF U
  <1>4. ASSUME NEW x \in U PROVE \E a \in DOMAIN s : s[a].parent = parent /\ s[a].id = x
    <2>1. PICK i \in DOMAIN KidsOf(doc, parent) : x = KidsOf(doc, parent)[i]
      BY <1>3
    <2>2. parent \in Owners(doc)
      BY <1>3 DEF Owners
    <2>3. x \in Pages!Ids(doc)
      BY <2>1, <2>2, KidsFacts
    <2>4. PICK a \in DOMAIN s : s[a].id = x
      BY <2>3
    <2>5. s[a].parent = parent
      BY <1>2, <2>1, <2>2, <2>4, KidsFacts
    <2> QED
      BY <2>4, <2>5
  <1>5. ASSUME NEW a \in DOMAIN s, s[a].parent = parent PROVE s[a].id \in U
    <2>1. parent \in Pages!Ids(doc)
      BY <1>2, <1>5 DEF Owners
    <2> QED
      BY <1>2, <1>3, <1>5, <2>1
  <1> QED
    BY <1>4, <1>5 DEF U

LEMMA ListingReads ==
    ASSUME NEW doc, Pages!IsForest(doc), view.route \in {"outline", "blocks", "toc"}
    PROVE  LET items == Pages!Listing(view, doc)
           IN  Reads(doc, items, Pages!Wanted(view, doc)) /\ \E E : items \in Seq(E)
  <1> DEFINE metas == Pages!BlockMetas(doc)
             items == Pages!Listing(view, doc)
  <1>1. /\ WalkInv(doc, <<>>, metas)
        /\ \A x : x \in Pages!Ids(doc) <=> \E i \in DOMAIN metas : metas[i].id = x
    BY BlockMetasAre
  <1>2. metas \in Seq(Metas(doc))
    BY <1>1 DEF WalkInv, WalkTypes
  <1>3. /\ \A a, b \in DOMAIN metas : a < b => Pages!Before(doc, metas[a].id, metas[b].id)
        /\ \A a \in DOMAIN metas : HeadingsAt(doc, metas[a].id, metas[a].path)
    BY <1>1 DEF WalkInv, WalkOrdered, WalkPaths
  <1> HIDE DEF metas
  <1>4. CASE view.route = "outline"
    <2>1. items = metas /\ Pages!Wanted(view, doc) = Pages!Ids(doc)
      BY <1>4 DEF Pages!Listing, Pages!Wanted, metas
    <2>2. {metas[i].id : i \in DOMAIN metas} = Pages!Ids(doc)
      BY <1>1
    <2> HIDE DEF items
    <2>3. Reads(doc, items, Pages!Wanted(view, doc))
      BY <1>3, <2>1, <2>2 DEF Reads
    <2> QED
      BY <1>2, <2>1, <2>3 DEF items
  <1>5. CASE view.route = "blocks"
    <2>0. PICK T : T = {m \in Pages!ToSet(metas) : view.parent # None => m.parent = view.parent}
      OBVIOUS
    <2> DEFINE o == Pages!Only(metas, T)
    <2>1. items = o
      BY <1>5, <2>0 DEF Pages!Listing, metas
    <2>2. /\ o \in Seq(Metas(doc))
          /\ \A x : (\E i \in DOMAIN o : o[i].id = x) <=>
                       \E a \in DOMAIN metas : metas[a] \in T /\ metas[a].id = x
          /\ \A i, j \in DOMAIN o : i < j => Pages!Before(doc, o[i].id, o[j].id)
          /\ \A i \in DOMAIN o : HeadingsAt(doc, o[i].id, o[i].path)
      <3>1. o \in Seq(Metas(doc))
        BY <1>1, SelectionIs
      <3>2. \A x : (\E i \in DOMAIN o : o[i].id = x) <=>
                      \E a \in DOMAIN metas : metas[a] \in T /\ metas[a].id = x
        BY <1>1, SelectionIs
      <3>3. \A i, j \in DOMAIN o : i < j => Pages!Before(doc, o[i].id, o[j].id)
        BY <1>1, SelectionIs
      <3>4. \A i \in DOMAIN o : HeadingsAt(doc, o[i].id, o[i].path)
        BY <1>1, SelectionIs
      <3> QED
        BY <3>1, <3>2, <3>3, <3>4
    <2>3. \A a \in DOMAIN metas : metas[a] \in T <=> (view.parent # None => metas[a].parent = view.parent)
      BY <2>0 DEF Pages!ToSet
    <2> HIDE DEF o, items
    <2>4. {o[i].id : i \in DOMAIN o} = Pages!Wanted(view, doc)
      <3>1. CASE view.parent = None
        <4>1. Pages!Wanted(view, doc) = Pages!Ids(doc)
          BY <1>5, <3>1 DEF Pages!Wanted
        <4> QED
          BY <1>1, <2>2, <2>3, <3>1, <4>1
      <3>2. CASE view.parent # None
        <4> DEFINE parent == view.parent
        <4>1. Pages!Wanted(view, doc)
                 = ChildrenOf(doc, parent)
          BY <1>5, <3>2 DEF Pages!Wanted, ChildrenOf
        <4>2. \A x : x \in Pages!Wanted(view, doc)
                 <=> \E a \in DOMAIN metas : metas[a].parent = parent /\ metas[a].id = x
          <5> HIDE DEF parent
          <5>1. parent # None
            BY <3>2 DEF parent
          <5>2. \A x : x \in ChildrenOf(doc, parent)
                   <=> \E a \in DOMAIN metas : metas[a].parent = parent /\ metas[a].id = x
            BY <1>1, <5>1, ChildrenAre
          <5> QED
            BY <4>1, <5>2, Zenon
        <4>3. \A x : x \in Pages!Wanted(view, doc) <=> \E i \in DOMAIN o : o[i].id = x
          BY <2>2, <2>3, <3>2, <4>2
        <4> QED
          BY <4>3
      <3> QED
        BY <3>1, <3>2
    <2>5. Reads(doc, items, Pages!Wanted(view, doc))
      BY <2>1, <2>2, <2>4 DEF Reads
    <2> QED
      BY <2>1, <2>2, <2>5 DEF items
  <1>6. CASE view.route = "toc"
    <2> DEFINE walked == Pages!Walk(doc, FALSE)
               T == {m \in Pages!ToSet(walked) : /\ Pages!BlockOf(doc, m.id).level > 0
                                                 /\ Pages!BlockOf(doc, m.id).content}
               o == Pages!Only(walked, T)
               toc == [i \in DOMAIN o |->
                          [id |-> o[i].id, level |-> Pages!BlockOf(doc, o[i].id).level]]
    <2>1. items = toc
      BY <1>6 DEF Pages!Listing, Pages!TableOfContents
    <2>2. /\ WalkInv(doc, <<>>, walked)
          /\ \A x : x \in Pages!Ids(doc) <=> \E i \in DOMAIN walked : walked[i].id = x
      <3>1. \A once : /\ WalkInv(doc, <<>>, Pages!Walk(doc, once))
                       /\ \A x : x \in Pages!Ids(doc) <=>
                             \E i \in DOMAIN Pages!Walk(doc, once) : Pages!Walk(doc, once)[i].id = x
        BY WalkIs
      <3> QED
        BY <3>1, Zenon
    <2> HIDE DEF walked
    <2>3. /\ o \in Seq(Metas(doc))
          /\ \A x : (\E i \in DOMAIN o : o[i].id = x) <=>
                       \E a \in DOMAIN walked : walked[a] \in T /\ walked[a].id = x
          /\ \A i, j \in DOMAIN o : i < j => Pages!Before(doc, o[i].id, o[j].id)
      <3> HIDE DEF T
      <3> QED
        BY <2>2, SelectionIs
    <2>4. \A a \in DOMAIN walked : walked[a] \in T <=>
             /\ Pages!BlockOf(doc, walked[a].id).level > 0
             /\ Pages!BlockOf(doc, walked[a].id).content
      BY DEF Pages!ToSet
    <2> HIDE DEF T, o, items
    <2>5. DOMAIN toc = DOMAIN o /\ \A i \in DOMAIN o : toc[i].id = o[i].id
             /\ "path" \notin DOMAIN toc[i]
      OBVIOUS
    <2>6. \E E : toc \in Seq(E)
      <3>1. DOMAIN o = 1 .. Len(o) /\ Len(o) \in Nat
        BY <2>3
      <3>2. toc \in [1 .. Len(o) -> {toc[i] : i \in DOMAIN o}]
        BY <3>1
      <3>3. toc \in Seq({toc[i] : i \in DOMAIN o})
        <4> HIDE DEF toc
        <4> QED
          BY <3>1, <3>2
      <3> QED
        BY <3>3
    <2> HIDE DEF toc
    <2>7. Pages!Wanted(view, doc)
             = {b.id : b \in {c \in Pages!ToSet(doc.blocks) : c.level > 0 /\ c.content}}
      BY <1>6 DEF Pages!Wanted
    <2>8. \A x : x \in Pages!Wanted(view, doc) <=>
             x \in Pages!Ids(doc) /\ Pages!BlockOf(doc, x).level > 0 /\ Pages!BlockOf(doc, x).content
      <3>1. \A x : x \in Pages!Wanted(view, doc) <=>
               \E c \in Pages!ToSet(doc.blocks) : c.level > 0 /\ c.content /\ c.id = x
        BY <2>7
      <3> QED
        BY <3>1, BlockFacts
    <2>9. {toc[i].id : i \in DOMAIN toc} = Pages!Wanted(view, doc)
      <3>1. \A x : (\E i \in DOMAIN toc : toc[i].id = x) <=> \E i \in DOMAIN o : o[i].id = x
        BY <2>5
      <3>2. \A x : x \in Pages!Wanted(view, doc) <=> \E i \in DOMAIN toc : toc[i].id = x
        BY <2>2, <2>3, <2>4, <2>8, <3>1
      <3> QED
        BY <3>2
    <2>10. Reads(doc, items, Pages!Wanted(view, doc))
      BY <2>1, <2>3, <2>5, <2>9 DEF Reads
    <2> QED
      BY <2>1, <2>6, <2>10 DEF items
  <1> QED
    BY <1>4, <1>5, <1>6

--------------------------------------------------------------------------------
\* A function of the places of a list is a list.
LEMMA ListOver ==
    ASSUME NEW E, NEW s \in Seq(E), NEW f, DOMAIN f = DOMAIN s, f = [i \in DOMAIN f |-> f[i]]
    PROVE  f \in Seq(Pages!ToSet(f)) /\ Len(f) = Len(s) /\ DOMAIN f = 1 .. Len(s) /\ Len(s) \in Nat
  <1>1. DOMAIN s = 1 .. Len(s) /\ Len(s) \in Nat
    OBVIOUS
  <1>2. \A i \in 1 .. Len(s) : f[i] \in Pages!ToSet(f)
    BY <1>1 DEF Pages!ToSet
  <1>3. f \in [1 .. Len(s) -> Pages!ToSet(f)]
    BY <1>1, <1>2
  <1>4. f \in Seq(Pages!ToSet(f))
    BY <1>1, <1>3
  <1> QED
    BY <1>1, <1>3, <1>4

\* The sections of a document, one behind the other, are its roots.
LEMMA SectionsAre ==
    ASSUME NEW doc, Pages!IsForest(doc)
    PROVE  LET items == Pages!PrintSections(doc)
           IN  /\ Pages!FlattenSeq([i \in DOMAIN items |-> items[i].roots]) = doc.root
               /\ \E E : items \in Seq(E)
  <1> DEFINE I     == Pages!Ids(doc)
             root  == doc.root
             n     == Len(doc.starts)
             items == Pages!PrintSections(doc)
             parts == [i \in DOMAIN items |-> items[i].roots]
  <1>1. root \in Seq(I) /\ \A i, j \in DOMAIN root : root[i] = root[j] => i = j
    <2>1. None \in Owners(doc) /\ KidsOf(doc, None) = root
      BY DEF Owners, KidsOf
    <2> QED
      BY <2>1, KidsFacts
  <1>2. DOMAIN root = 1 .. Len(root) /\ Len(root) \in Nat
    BY <1>1
  <1>3. CASE doc.starts = <<>>
    <2> DEFINE one == [id |-> None, roots |-> root]
    <2>1. items = <<one>>
      BY <1>3 DEF Pages!PrintSections
    <2>2. DOMAIN items = 1 .. 1 /\ items[1].roots = root /\ items \in Seq({one})
      BY <2>1
    <2> HIDE DEF items, one
    <2>3. parts = [i \in 1 .. 1 |-> root]
      BY <2>2
    <2>4. parts = <<root>>
      BY <2>3
    <2>5. Len(parts) = 1 /\ parts[1] = root
      BY <2>4
    <2> DEFINE Is(f) == f = [i \in 1 .. Len(parts) |-> IF i = 1 THEN parts[i] ELSE f[i - 1] \o parts[i]]
    <2>6. Pages!FlattenSeq(parts) = (CHOOSE f : Is(f))[Len(parts)]
      BY <2>5 DEF Pages!FlattenSeq
    <2> HIDE DEF parts
    <2>7. Is([i \in 1 .. 1 |-> root])
      BY <2>5
    <2>8. Is(CHOOSE f : Is(f))
      <3> HIDE DEF Is
      <3> QED
        BY <2>7
    <2>9. \A f : Is(f) => f[1] = root
      BY <2>5
    <2>10. Pages!FlattenSeq(parts) = root
      <3> HIDE DEF Is
      <3> QED
        BY <2>5, <2>6, <2>8, <2>9
    <2> QED
      BY <2>2, <2>10 DEF items, parts
  <1>4. CASE doc.starts # <<>>
    <2>1. doc.starts \in Seq(Pages!ToSet(doc.starts))
      BY DEF Pages!IsForest, Pages!IsSeq
    <2>2. n \in Nat \ {0} /\ DOMAIN doc.starts = 1 .. n
      BY <1>4, <2>1
    <2>3. PICK at \in [DOMAIN doc.starts -> DOMAIN root] :
             /\ at[1] = 1
             /\ \A i, j \in DOMAIN at : i < j => at[i] < at[j]
             /\ \A i \in DOMAIN at : root[at[i]] = doc.starts[i]
      BY <1>4 DEF Pages!IsForest
    <2>4. DOMAIN at = 1 .. n /\ \A i \in 1 .. n : at[i] \in 1 .. Len(root)
      BY <1>2, <2>2, <2>3
    <2> HIDE DEF n
    <2> DEFINE from(i) == CHOOSE k \in DOMAIN root : root[k] = doc.starts[i]
               end(i)   == IF i = n THEN Len(root) ELSE at[i + 1] - 1
               g        == [i \in 1 .. n |-> SubSeq(root, 1, end(i))]
    <2>5. \A i \in 1 .. n : from(i) = at[i]
      BY <1>1, <2>3, <2>4
    <2>6. items = [i \in 1 .. n |->
                      [id |-> doc.starts[i],
                       roots |-> SubSeq(root, from(i), IF i = n THEN Len(root) ELSE from(i + 1) - 1)]]
      BY <1>4, <2>2 DEF Pages!PrintSections, n
    <2> HIDE DEF from
    <2>7. \A i \in 1 .. n : i # n => i + 1 \in 1 .. n
      BY <2>2
    <2>8. DOMAIN items = 1 .. n /\ \A i \in 1 .. n : items[i].roots = SubSeq(root, at[i], end(i))
      <3>1. DOMAIN items = 1 .. n
        BY <2>6
      <3>2. \A i \in 1 .. n :
               items[i].roots = SubSeq(root, from(i), IF i = n THEN Len(root) ELSE from(i + 1) - 1)
        BY <2>6
      <3> HIDE DEF items, root
      <3> QED
        BY <2>5, <2>7, <3>1, <3>2
    <2> HIDE DEF items
    <2>9. /\ DOMAIN parts = 1 .. n /\ Len(parts) = n
          /\ \A i \in 1 .. n : parts[i] = SubSeq(root, at[i], end(i))
      <3>1. parts = [i \in 1 .. n |-> items[i].roots]
        BY <2>8
      <3> HIDE DEF parts, end, root
      <3> QED
        BY <2>2, <2>8, <3>1
    <2>10. \A i \in 1 .. n : end(i) \in Nat /\ end(i) <= Len(root) /\ at[i] <= end(i) + 1
      <3>1. \A i \in 1 .. n : i # n => at[i] < at[i + 1]
        BY <2>2, <2>3, <2>4, <2>7
      <3> HIDE DEF root
      <3> QED
        BY <1>2, <2>2, <2>4, <2>7, <3>1
    <2>11. \A i \in 1 .. n : i # 1 => i - 1 \in 1 .. n /\ end(i - 1) = at[i] - 1
      BY <2>2
    <2> HIDE DEF parts, end
    <2>12. g = [i \in 1 .. n |-> IF i = 1 THEN parts[i] ELSE g[i - 1] \o parts[i]]
      <3>1. ASSUME NEW i \in 1 .. n PROVE g[i] = IF i = 1 THEN parts[i] ELSE g[i - 1] \o parts[i]
        <4>1. CASE i = 1
          BY <2>3, <2>9, <4>1
        <4>2. CASE i # 1
          <5> DEFINE a == at[i] - 1
                     b == end(i)
          <5>1. g[i - 1] = SubSeq(root, 1, a) /\ parts[i] = SubSeq(root, a + 1, b) /\ g[i] = SubSeq(root, 1, b)
            <6>1. at[i] \in Nat /\ (at[i] - 1) + 1 = at[i]
              BY <2>4
            <6> QED
              BY <2>9, <2>11, <4>2, <6>1
          <5>2. a \in Nat /\ b \in Nat /\ a <= b /\ b <= Len(root)
            BY <2>4, <2>10
          <5> HIDE DEF a, b, g
          <5>3. SubSeq(root, 1, b) = SubSeq(root, 1, a) \o SubSeq(root, a + 1, b)
            BY <1>1, <1>2, <5>2
          <5> QED
            BY <4>2, <5>1, <5>3
        <4> QED
          BY <4>1, <4>2
      <3>2. g = [i \in 1 .. n |-> g[i]]
        OBVIOUS
      <3> HIDE DEF g
      <3> QED
        BY <3>1, <3>2
    <2> DEFINE Is(f) == f = [i \in 1 .. n |-> IF i = 1 THEN parts[i] ELSE f[i - 1] \o parts[i]]
               c == CHOOSE f : Is(f)
    <2>13. Pages!FlattenSeq(parts) = c[n]
      BY <2>2, <2>9 DEF Pages!FlattenSeq
    <2>14. Is(g)
      BY <2>12
    <2> HIDE DEF g
    <2>15. Is(c)
      <3> HIDE DEF Is
      <3> QED
        BY <2>14
    <2> HIDE DEF c
    <2> DEFINE S == {k \in Nat : k + 1 <= n => c[k + 1] = g[k + 1]}
    <2>16. S = Nat
      <3>1. 0 \in S
        <4>1. 1 \in 1 .. n
          BY <2>2
        <4>2. c[1] = parts[1] /\ g[1] = parts[1]
          BY <2>14, <2>15, <4>1
        <4> QED
          BY <4>2
      <3>2. ASSUME NEW k \in S PROVE k + 1 \in S
        <4>1. ASSUME (k + 1) + 1 <= n PROVE c[(k + 1) + 1] = g[(k + 1) + 1]
          <5>1. /\ (k + 1) + 1 \in 1 .. n /\ (k + 1) + 1 # 1 /\ ((k + 1) + 1) - 1 = k + 1
                /\ k + 1 <= n
            BY <2>2, <4>1
          <5>2. c[k + 1] = g[k + 1]
            BY <5>1
          <5>3. /\ c[(k + 1) + 1] = c[k + 1] \o parts[(k + 1) + 1]
                /\ g[(k + 1) + 1] = g[k + 1] \o parts[(k + 1) + 1]
            BY <2>14, <2>15, <5>1
          <5> QED
            BY <5>2, <5>3
        <4> QED
          BY <4>1
      <3>3. S \in SUBSET Nat
        OBVIOUS
      <3> HIDE DEF S
      <3> QED
        BY <3>1, <3>2, <3>3, SetInduction
    <2>17. c[n] = g[n]
      <3>1. n - 1 \in S /\ (n - 1) + 1 = n /\ n <= n
        <4> HIDE DEF S
        <4> QED
          BY <2>2, <2>16
      <3> QED
        BY <3>1
    <2>18. g[n] = root
      <3>1. n \in 1 .. n /\ end(n) = Len(root)
        BY <2>2 DEF end
      <3>2. g[n] = SubSeq(root, 1, Len(root))
        BY <3>1 DEF g
      <3> QED
        BY <1>1, <3>2
    <2>19. items \in Seq(Pages!ToSet(items))
      <3>1. items = [i \in DOMAIN items |-> items[i]]
        BY <2>6
      <3>2. DOMAIN items = DOMAIN doc.starts
        BY <2>2, <2>8
      <3> QED
        BY <2>1, <3>1, <3>2, ListOver
    <2> QED
      BY <2>13, <2>17, <2>18, <2>19 DEF parts, items
  <1> QED
    BY <1>3, <1>4

--------------------------------------------------------------------------------
\* What a reader has that has read a whole listing.
Covers(body, items) ==
    CASE view.route \in {"outline", "toc", "blocks"} -> Pages!ReadsADocument(body, items)
      [] view.route = "documentPrint" ->
           Pages!FlattenSeq([i \in DOMAIN items |-> items[i].roots]) = body.root
      [] view.route = "slides" ->
           [i \in DOMAIN items |-> items[i].id] = [i \in DOMAIN body.slides |-> body.slides[i].id]
      [] view.route = "sheets" -> [i \in DOMAIN items |-> items[i].id] = body.sheets
      [] OTHER -> Len(items) = 1

Sized(items) == \A i \in DOMAIN items : Pages!Size(items[i]) \in Nat

LEMMA ListingCovers ==
    ASSUME Pages!PageConstants, view.route \in Pages!Routes,
           NEW body \in Bodies, Pages!ReadKind(view.route) = body.kind
    PROVE  LET items == Pages!Listing(view, body)
           IN  Covers(body, items) /\ (\E E : items \in Seq(E)) /\ Sized(items)
  <1> DEFINE items == Pages!Listing(view, body)
  <1>1. /\ body.kind \in Pages!Kinds
        /\ body.kind = "document" => Pages!IsForest(body)
        /\ body.kind = "presentation" => Pages!IsDeck(body)
        /\ body.kind = "spreadsheet" => Pages!IsSeq(body.sheets)
        /\ None \notin Pages!Kinds
    BY DEF Pages!PageConstants
  <1>2. CASE view.route \in {"outline", "toc", "blocks"}
    <2>1. Pages!IsForest(body)
      BY <1>1, <1>2 DEF Pages!ReadKind
    <2>2. Reads(body, items, Pages!Wanted(view, body)) /\ \E E : items \in Seq(E)
      BY <1>2, <2>1, ListingReads
    <2> HIDE DEF items
    <2>3. Covers(body, items)
      BY <1>2, <2>2, ReadsIs DEF Covers
    <2>4. ASSUME NEW i \in DOMAIN items PROVE Pages!Size(items[i]) \in Nat
      <3>1. CASE "path" \in DOMAIN items[i]
        <4>1. items[i].path \in Seq(Pages!Ids(body))
          BY <2>2, <3>1 DEF Reads, HeadingsAt
        <4>2. Pages!Size(items[i]) = 1 + Len(items[i].path) /\ Len(items[i].path) \in Nat
          BY <3>1, <4>1 DEF Pages!Size
        <4> QED
          BY <4>2
      <3>2. CASE "path" \notin DOMAIN items[i]
        BY <3>2 DEF Pages!Size
      <3> QED
        BY <3>1, <3>2
    <2> QED
      BY <2>2, <2>3, <2>4 DEF Sized, items
  <1>3. CASE view.route = "documentPrint"
    <2>1. Pages!IsForest(body) /\ items = Pages!PrintSections(body)
      BY <1>1, <1>3 DEF Pages!ReadKind, Pages!Listing
    <2>2. /\ Pages!FlattenSeq([i \in DOMAIN items |-> items[i].roots]) = body.root
          /\ \E E : items \in Seq(E)
      BY <2>1, SectionsAre
    <2> HIDE DEF items
    <2>3. Covers(body, items)
      BY <1>3, <2>2 DEF Covers
    <2>4. \A i \in DOMAIN items : "path" \notin DOMAIN items[i]
      <3>1. \A i \in DOMAIN items : DOMAIN items[i] = {"id", "roots"}
        <4>1. CASE body.starts = <<>>
          <5>1. items = <<[id |-> None, roots |-> body.root]>>
            BY <2>1, <4>1 DEF Pages!PrintSections
          <5> QED
            BY <5>1
        <4>2. CASE body.starts # <<>>
          BY <2>1, <4>2 DEF Pages!PrintSections
        <4> QED
          BY <4>1, <4>2
      <3> QED
        BY <3>1
    <2>5. Sized(items)
      BY <2>4 DEF Sized, Pages!Size
    <2> QED
      BY <2>2, <2>3, <2>5 DEF items
  <1>4. CASE view.route = "slides"
    <2>1. Pages!IsDeck(body) /\ items = [i \in DOMAIN body.slides |-> Pages!SlideOutline(body.slides[i])]
      BY <1>1, <1>4 DEF Pages!ReadKind, Pages!Listing
    <2>2. body.slides \in Seq(Pages!ToSet(body.slides))
      BY <2>1 DEF Pages!IsDeck, Pages!IsSeq
    <2>3. DOMAIN items = DOMAIN body.slides /\ items = [i \in DOMAIN items |-> items[i]]
             /\ \A i \in DOMAIN items : items[i].id = body.slides[i].id /\ DOMAIN items[i] = {"id", "nodes"}
      BY <2>1 DEF Pages!SlideOutline
    <2> HIDE DEF items
    <2>4. items \in Seq(Pages!ToSet(items))
      BY <2>2, <2>3, ListOver
    <2>5. [i \in DOMAIN items |-> items[i].id] = [i \in DOMAIN body.slides |-> body.slides[i].id]
      BY <2>3
    <2>6. Covers(body, items) /\ Sized(items)
      BY <1>4, <2>3, <2>5 DEF Covers, Sized, Pages!Size
    <2> QED
      BY <2>4, <2>6 DEF items
  <1>5. CASE view.route = "sheets"
    <2>1. Pages!IsSeq(body.sheets) /\ items = [i \in DOMAIN body.sheets |-> [id |-> body.sheets[i]]]
      BY <1>1, <1>5 DEF Pages!ReadKind, Pages!Listing
    <2>2. body.sheets \in Seq(Pages!ToSet(body.sheets))
      BY <2>1 DEF Pages!IsSeq
    <2>3. DOMAIN items = DOMAIN body.sheets /\ items = [i \in DOMAIN items |-> items[i]]
             /\ \A i \in DOMAIN items : items[i].id = body.sheets[i] /\ DOMAIN items[i] = {"id"}
      BY <2>1
    <2> HIDE DEF items
    <2>4. items \in Seq(Pages!ToSet(items))
      BY <2>2, <2>3, ListOver
    <2>5. [i \in DOMAIN items |-> items[i].id] = body.sheets
      <3>1. body.sheets = [i \in DOMAIN body.sheets |-> body.sheets[i]]
        BY <2>2
      <3> QED
        BY <2>3, <3>1
    <2>6. Covers(body, items) /\ Sized(items)
      BY <1>5, <2>3, <2>5 DEF Covers, Sized, Pages!Size
    <2> QED
      BY <2>4, <2>6 DEF items
  <1>6. CASE view.route = "overview"
    <2> DEFINE one == [id |-> "deck", slides |-> Len(body.slides), masters |-> body.masters,
                       layouts |-> body.layouts]
    <2>1. items = <<one>>
      BY <1>6 DEF Pages!Listing, Pages!Overview
    <2>2. "path" \notin DOMAIN one
      OBVIOUS
    <2> HIDE DEF items, one
    <2>3. items \in Seq({one}) /\ Len(items) = 1 /\ \A i \in DOMAIN items : items[i] = one
      BY <2>1
    <2>4. Covers(body, items) /\ Sized(items)
      BY <1>6, <2>2, <2>3 DEF Covers, Sized, Pages!Size
    <2> QED
      BY <2>3, <2>4 DEF items
  <1>7. view.route # "unknown"
    BY <1>1 DEF Pages!ReadKind
  <1> QED
    BY <1>2, <1>3, <1>4, <1>5, <1>6, <1>7 DEF Pages!Routes

--------------------------------------------------------------------------------
\* The size of a list is a number.
LEMMA BytesAre ==
    ASSUME NEW E, NEW items \in Seq(E), Sized(items)
    PROVE  Pages!Bytes(items) \in Nat /\ (items = <<>> => Pages!Bytes(items) = 0)
  <1> DEFINE n == Len(items)
             size(k) == Pages!Size(items[k])
             Is(f, k) == f = [i \in 0 .. k |-> IF i = 0 THEN 0 ELSE f[i - 1] + size(i)]
             P == {k \in Nat : k <= n => \E f : Is(f, k) /\ f[k] \in Nat}
  <1>1. n \in Nat /\ \A k \in 1 .. n : size(k) \in Nat
    BY DEF Sized
  <1>2. Pages!Bytes(items) = (CHOOSE f : Is(f, n))[n]
    BY DEF Pages!Bytes
  <1> HIDE DEF n, size
  <1>3. 0 \in P
    <2>1. Is([i \in 0 .. 0 |-> 0], 0) /\ [i \in 0 .. 0 |-> 0][0] = 0
      OBVIOUS
    <2> HIDE DEF Is
    <2> QED
      BY <2>1
  <1>4. ASSUME NEW k \in P PROVE k + 1 \in P
    <2>1. ASSUME k + 1 <= n PROVE \E g : Is(g, k + 1) /\ g[k + 1] \in Nat
      <3>1. k \in Nat /\ k <= n /\ k + 1 \in 1 .. n
        BY <1>1, <2>1
      <3>2. PICK f : Is(f, k) /\ f[k] \in Nat
        BY <3>1
      <3> DEFINE g == [i \in 0 .. k + 1 |-> IF i <= k THEN f[i] ELSE f[i - 1] + size(i)]
      <3>3. ASSUME NEW i \in 0 .. k + 1 PROVE g[i] = IF i = 0 THEN 0 ELSE g[i - 1] + size(i)
        <4>1. CASE i <= k
          <5>1. i \in 0 .. k /\ (i # 0 => i - 1 \in 0 .. k)
            BY <3>1, <4>1
          <5>2. f[i] = IF i = 0 THEN 0 ELSE f[i - 1] + size(i)
            BY <3>2, <5>1, Zenon
          <5>3. g[i] = f[i] /\ (i # 0 => g[i - 1] = f[i - 1])
            BY <3>1, <4>1
          <5> QED
            BY <5>2, <5>3
        <4>2. CASE i > k
          <5>1. i = k + 1 /\ i # 0 /\ i - 1 \in 0 .. k + 1 /\ i - 1 <= k
            BY <3>1, <4>2
          <5>2. g[i - 1] = f[i - 1]
            BY <5>1
          <5>3. g[i] = f[i - 1] + size(i)
            BY <3>1, <4>2
          <5> QED
            BY <5>1, <5>2, <5>3
        <4> QED
          BY <3>1, <4>1, <4>2
      <3>4. g = [i \in 0 .. k + 1 |-> g[i]]
        OBVIOUS
      <3>5. g[k + 1] = f[k] + size(k + 1)
        <4>1. (k + 1) - 1 = k /\ k + 1 \in 0 .. k + 1 /\ ~(k + 1 <= k)
          BY <3>1
        <4> QED
          BY <4>1
      <3> HIDE DEF g
      <3>6. Is(g, k + 1)
        BY <3>3, <3>4
      <3>7. g[k + 1] \in Nat
        BY <1>1, <3>1, <3>2, <3>5
      <3> QED
        BY <3>6, <3>7
    <2> QED
      BY <2>1
  <1> HIDE DEF Is
  <1>5. P = Nat
    <2>1. P \in SUBSET Nat
      OBVIOUS
    <2> HIDE DEF P
    <2> QED
      BY <1>3, <1>4, <2>1, SetInduction
  <1>6. PICK f : Is(f, n) /\ f[n] \in Nat
    <2>1. n \in P /\ n <= n
      <3> HIDE DEF P
      <3> QED
        BY <1>1, <1>5
    <2> QED
      BY <2>1
  <1> DEFINE c == CHOOSE h : Is(h, n)
  <1>7. Is(c, n)
    BY <1>6
  <1> HIDE DEF c
  <1> DEFINE S == {k \in Nat : k <= n => c[k] = f[k]}
  <1>8. S = Nat
    <2>1. 0 \in S
      BY <1>1, <1>6, <1>7 DEF Is
    <2>2. ASSUME NEW k \in S PROVE k + 1 \in S
      <3>1. ASSUME k + 1 <= n PROVE c[k + 1] = f[k + 1]
        <4>1. k + 1 \in 0 .. n /\ k + 1 # 0 /\ (k + 1) - 1 = k /\ k <= n
          BY <1>1, <3>1
        <4>2. c[k] = f[k]
          BY <4>1
        <4>3. c[k + 1] = c[k] + size(k + 1) /\ f[k + 1] = f[k] + size(k + 1)
          BY <1>6, <1>7, <4>1 DEF Is
        <4> QED
          BY <4>2, <4>3
      <3> QED
        BY <3>1
    <2>3. S \in SUBSET Nat
      OBVIOUS
    <2> HIDE DEF S
    <2> QED
      BY <2>1, <2>2, <2>3, SetInduction
  <1>9. c[n] = f[n]
    BY <1>1, <1>8
  <1>10. n = 0 => f[n] = 0
    BY <1>6 DEF Is
  <1>11. items = <<>> => n = 0
    BY DEF n
  <1> QED
    BY <1>2, <1>6, <1>9, <1>10, <1>11 DEF c

\* The first of some numbers.
LEMMA FirstExists ==
    ASSUME NEW T \in SUBSET Nat, T # {}
    PROVE  \E m \in T : \A k \in T : m <= k
  <1> DEFINE R == {ss \in Nat \X Nat : ss[1] < ss[2]}
  <1>1. IsWellFoundedOn(R, Nat)
    BY NatLessThanWellFounded DEF OpToRel
  <1>2. PICK m \in T : \A k \in T : <<k, m>> \notin R
    <2> HIDE DEF R
    <2> QED
      BY <1>1, WFMin
  <1>3. \A k \in T : k \in Nat /\ m \in Nat /\ ~(k < m)
    BY <1>2
  <1> QED
    BY <1>2, <1>3

\* What of a listing goes on a page.
LEMMA CostIs ==
    ASSUME NEW E, NEW items \in Seq(E), Sized(items), NEW first \in Nat, first <= Len(items),
           NEW asker, NEW n \in 0 .. Len(items) - first
    PROVE  /\ SubSeq(items, first + 1, first + n) \in Seq(E)
           /\ Len(SubSeq(items, first + 1, first + n)) = n
           /\ \A i \in 1 .. n : SubSeq(items, first + 1, first + n)[i] = items[first + i]
           /\ Pages!Bytes(SubSeq(items, first + 1, first + n)) \in Nat
           /\ n = 0 => Pages!Bytes(SubSeq(items, first + 1, first + n)) = 0
           /\ Pages!Cost(items, first, n, asker) \in Nat
           /\ Pages!Cost(items, first, n, asker) =
                 Pages!Bytes(SubSeq(items, first + 1, first + n))
                 + (IF first + n < Len(items) THEN 1 ELSE 0) + (IF asker # None THEN 1 ELSE 0)
  <1> DEFINE some == SubSeq(items, first + 1, first + n)
  <1>1. /\ some \in Seq(E) /\ Len(some) = n
        /\ \A i \in 1 .. n : some[i] = items[first + i] /\ first + i \in 1 .. Len(items)
    <2>1. Len(items) \in Nat /\ first + n \in Nat /\ first + n <= Len(items)
      OBVIOUS
    <2>2. \A i \in first + 1 .. first + n : items[i] \in E
      BY <2>1
    <2>3. some \in Seq(E) /\ Len(some) = n
      BY <2>1, <2>2
    <2>4. \A i \in 1 .. n : some[i] = items[first + i] /\ first + i \in 1 .. Len(items)
      BY <2>1
    <2> QED
      BY <2>3, <2>4
  <1> HIDE DEF some
  <1>2. Sized(some)
    BY <1>1 DEF Sized
  <1>3. Pages!Bytes(some) \in Nat /\ (some = <<>> => Pages!Bytes(some) = 0)
    BY <1>1, <1>2, BytesAre
  <1>4. n = 0 => some = <<>>
    BY <1>1
  <1>5. Pages!Cost(items, first, n, asker) =
           Pages!Bytes(some) + (IF first + n < Len(items) THEN 1 ELSE 0) + (IF asker # None THEN 1 ELSE 0)
    BY DEF Pages!Cost, some
  <1>6. Pages!Cost(items, first, n, asker) \in Nat
    BY <1>3, <1>5
  <1> QED
    BY <1>1, <1>3, <1>4, <1>5, <1>6 DEF some

LEMMA TakenIs ==
    ASSUME NEW E, NEW items \in Seq(E), Sized(items), NEW first \in Nat, first <= Len(items),
           NEW v, v.limit \in Nat, NEW asker, NEW bytes \in Nat
    PROVE  /\ Pages!Room(v, items, first) \in 0 .. Len(items) - first
           /\ v.route # "outline" => Pages!Room(v, items, first) <= v.limit
           /\ Pages!Taken(v, items, first, asker, bytes) \in 0 .. Pages!Room(v, items, first)
           /\ v.route # "blocks" /\ Pages!Taken(v, items, first, asker, bytes) # 0 =>
                 Pages!Cost(items, first, Pages!Taken(v, items, first, asker, bytes), asker) <= bytes
           /\ v.route = "blocks" =>
                 Pages!Taken(v, items, first, asker, bytes) = Pages!Room(v, items, first)
  <1> DEFINE room == Pages!Room(v, items, first)
             cost(m) == Pages!Cost(items, first, m, asker)
             taken == Pages!Taken(v, items, first, asker, bytes)
             Stops(n) == /\ \A m \in 1 .. n : cost(m) <= bytes
                         /\ n < room => cost(n + 1) > bytes
  <1>1. Len(items) - first \in Nat
    OBVIOUS
  <1>2. room \in 0 .. Len(items) - first /\ (v.route # "outline" => room <= v.limit)
    BY <1>1 DEF Pages!Room
  <1>3. \A m \in 0 .. room : cost(m) \in Nat
    <2>1. \A m \in 0 .. Len(items) - first : cost(m) \in Nat
      BY CostIs
    <2> HIDE DEF room, cost
    <2> QED
      BY <1>1, <1>2, <2>1
  <1>4. taken = IF v.route = "blocks" THEN room ELSE CHOOSE n \in 0 .. room : Stops(n)
    BY DEF Pages!Taken
  <1> HIDE DEF room, cost, taken
  <1>5. \E n \in 0 .. room : Stops(n)
    <2> DEFINE T == {m \in 1 .. room : cost(m) > bytes}
    <2>0. room \in Nat
      BY <1>1, <1>2
    <2>1. CASE T = {}
      <3>1. \A m \in 1 .. room : cost(m) <= bytes
        BY <1>3, <2>1
      <3> QED
        BY <2>0, <3>1
    <2>2. CASE T # {}
      <3>1. T \in SUBSET Nat
        OBVIOUS
      <3>2. PICK m \in T : \A k \in T : m <= k
        <4> HIDE DEF T
        <4> QED
          BY <2>2, <3>1, FirstExists
      <3>3. \A k \in 1 .. m - 1 : cost(k) <= bytes
        BY <1>3, <2>0, <3>2
      <3>4. m - 1 \in 0 .. room /\ cost((m - 1) + 1) > bytes
        BY <2>0, <3>2
      <3> QED
        BY <3>3, <3>4
    <2> QED
      BY <2>1, <2>2
  <1>6. v.route # "blocks" => taken \in 0 .. room /\ Stops(taken)
    <2> HIDE DEF Stops
    <2> QED
      BY <1>4, <1>5
  <1>7. v.route # "blocks" /\ taken # 0 => cost(taken) <= bytes
    BY <1>1, <1>2, <1>6
  <1>8. taken \in 0 .. room
    BY <1>1, <1>2, <1>4, <1>6
  <1> QED
    BY <1>2, <1>4, <1>7, <1>8 DEF room, cost, taken

\* A page keeps to its budget and its limit, and is what is next of the listing.
LEMMA PageFits ==
    ASSUME NEW E, NEW items \in Seq(E), Sized(items), NEW first \in Nat, first <= Len(items),
           NEW v, v.limit \in Nat, v.route # "outline" => v.limit # 0, NEW asker, NEW bytes \in Nat \ {0},
           ~Pages!TooLarge(v, items, first, asker, bytes), NEW r
    PROVE  LET n      == Pages!Taken(v, items, first, asker, bytes)
               answer == Pages!Envelope(r, items, first, n)
           IN  /\ n \in 0 .. Len(items) - first
               /\ Pages!Bytes(answer.items) + Pages!Cardinality({asker, answer.next} \ {None}) <= bytes
               /\ v.route # "outline" => Len(answer.items) <= v.limit
  <1> DEFINE n      == Pages!Taken(v, items, first, asker, bytes)
             room   == Pages!Room(v, items, first)
             answer == Pages!Envelope(r, items, first, n)
             size   == Pages!Bytes(answer.items)
             more   == IF first + n < Len(items) THEN 1 ELSE 0
             back  == IF asker # None THEN 1 ELSE 0
             cost   == Pages!Cost(items, first, n, asker)
  <1>1. /\ room \in 0 .. Len(items) - first
        /\ v.route # "outline" => room <= v.limit
        /\ n \in 0 .. room
        /\ v.route # "blocks" /\ n # 0 => cost <= bytes
        /\ v.route = "blocks" => n = room
    BY TakenIs
  <1>2. v.route = "blocks" => cost <= bytes
    <2>1. v.route = "blocks" => ~(cost > bytes)
      <3>1. v.route = "blocks" => ~(Pages!Cost(items, first, room, asker) > bytes)
        BY DEF Pages!TooLarge
      <3> QED
        BY <1>1, <3>1
    <2>2. n \in 0 .. Len(items) - first
      BY <1>1
    <2>3. cost \in Nat
      <3> HIDE DEF n
      <3> QED
        BY <2>2, CostIs
    <2> HIDE DEF cost
    <2> QED
      BY <2>1, <2>3
  <1>3. v.route # "blocks" /\ n = 0 => room = 0
    <2>1. v.route # "blocks" => ~(room > 0 /\ n = 0)
      BY DEF Pages!TooLarge
    <2> HIDE DEF n, room
    <2> QED
      BY <1>1, <2>1
  <1>4. room = 0 => first = Len(items)
    BY DEF Pages!Room
  <1>5. /\ answer.items = SubSeq(items, first + 1, first + n)
        /\ answer.next = IF first + n < Len(items) THEN <<r, first + n>> ELSE None
    BY DEF Pages!Envelope
  <1> HIDE DEF n, room, answer
  <1>6. n \in 0 .. Len(items) - first /\ Len(items) \in Nat
    BY <1>1
  <1>7. /\ Len(answer.items) = n /\ size \in Nat /\ (n = 0 => size = 0)
        /\ cost = size + more + back
    <2> DEFINE some == SubSeq(items, first + 1, first + n)
    <2>1. Len(some) = n /\ Pages!Bytes(some) \in Nat /\ (n = 0 => Pages!Bytes(some) = 0)
      <3>1. Len(some) = n
        BY <1>6, CostIs
      <3>2. Pages!Bytes(some) \in Nat
        BY <1>6, CostIs
      <3>3. n = 0 => Pages!Bytes(some) = 0
        BY <1>6, CostIs
      <3> QED
        BY <3>1, <3>2, <3>3
    <2>2. cost = Pages!Bytes(some) + more + back
      BY <1>6, CostIs
    <2>3. answer.items = some
      BY <1>5
    <2> HIDE DEF some, cost, more, back
    <2> QED
      BY <2>1, <2>2, <2>3
  <1> HIDE DEF cost, size
  <1>8. size + more + back <= bytes
    <2>1. CASE v.route = "blocks" \/ n # 0
      BY <1>1, <1>2, <1>7, <2>1
    <2>2. CASE v.route # "blocks" /\ n = 0
      <3>1. first = Len(items) /\ size = 0
        BY <1>3, <1>4, <1>7, <2>2
      <3>2. more = 0
        BY <1>6, <2>2, <3>1
      <3> QED
        BY <3>1, <3>2
    <2> QED
      BY <2>1, <2>2
  <1> DEFINE C == {asker, answer.next} \ {None}
  <1>9. Cardinality(C) \in Nat /\ Cardinality(C) <= more + back
    <2> DEFINE A == IF asker # None THEN {asker} ELSE {}
               B == A \cup {answer.next}
               D == IF more = 1 THEN B ELSE A
    <2>1. IsFiniteSet(A) /\ Cardinality(A) = back
      BY FS_EmptySet, FS_Singleton
    <2>2. back \in Nat /\ more \in {0, 1}
      OBVIOUS
    <2>3. C \in SUBSET D
      BY <1>5
    <2> HIDE DEF A, C, back, more
    <2>4. IsFiniteSet(B) /\ Cardinality(B) = IF answer.next \in A THEN Cardinality(A) ELSE Cardinality(A) + 1
      BY <2>1, FS_AddElement
    <2> HIDE DEF B
    <2>5. IsFiniteSet(D) /\ Cardinality(D) <= back + more /\ Cardinality(D) \in Nat
      BY <2>1, <2>2, <2>4
    <2> HIDE DEF D
    <2>6. IsFiniteSet(C) /\ Cardinality(C) <= Cardinality(D)
      BY <2>3, <2>5, FS_Subset
    <2>7. Cardinality(C) \in Nat
      BY <2>6, FS_CardinalityType
    <2> QED
      BY <2>2, <2>5, <2>6, <2>7
  <1>10. size + Pages!Cardinality(C) <= bytes
    <2>1. Pages!Cardinality(C) = Cardinality(C)
      BY PageCardinality
    <2> HIDE DEF C
    <2> QED
      BY <1>7, <1>8, <1>9, <2>1
  <1>11. v.route # "outline" => Len(answer.items) <= v.limit
    BY <1>1, <1>7
  <1> QED
    BY <1>6, <1>10, <1>11 DEF n, answer, size

--------------------------------------------------------------------------------
Asks(asker) == asker = None \/ asker \in Nat \X Nat

\* An answer that is not a refusal is of one revision: a page from where the cursor says,
\* or the whole list.
FirstOf(asker) == IF Pages!Paged(view.route) /\ asker # None THEN asker[2] ELSE 0

IsAnswer(r, asker, bytes, answer) ==
    /\ Pages!ReadKind(view.route) = bodies[r].kind
    /\ Covers(bodies[r], Pages!Listing(view, bodies[r]))
    /\ \E E : Pages!Listing(view, bodies[r]) \in Seq(E)
    /\ FirstOf(asker) \in Nat /\ FirstOf(asker) <= Len(Pages!Listing(view, bodies[r]))
    /\ Pages!Paged(view.route) /\ asker # None => asker[1] = r
    /\ \E n \in 0 .. Len(Pages!Listing(view, bodies[r])) - FirstOf(asker) :
          /\ answer = Pages!Envelope(r, Pages!Listing(view, bodies[r]), FirstOf(asker), n)
          /\ ~Pages!Paged(view.route) => n = Len(Pages!Listing(view, bodies[r]))
    /\ Pages!Paged(view.route) =>
          /\ Pages!Bytes(answer.items) + Pages!Cardinality({asker, answer.next} \ {None}) <= bytes
          /\ view.route # "outline" => Len(answer.items) <= view.limit

LEMMA AnswerIs ==
    ASSUME Pages!PageConstants, view \in Views, bodies \in Seq(Bodies), NEW r \in 1 .. Len(bodies),
           NEW asker, Asks(asker), NEW bytes \in Nat \ {0},
           NEW answer, answer = Pages!RespondAt(r, view, asker, bytes), answer.status = "ok"
    PROVE  IsAnswer(r, asker, bytes, answer)
  <1> DEFINE body  == bodies[r]
             items == Pages!Listing(view, body)
             paged == Pages!Paged(view.route)
             at    == Pages!StartOf(asker, r)
             first == FirstOf(asker)
             full  == Pages!Envelope(r, items, 0, Len(items))
             leaf == Pages!PageFrom(r, view, items, asker, bytes, at)
  <1>1. body \in Bodies /\ view.route \in Pages!Routes /\ view.limit \in Nat
    BY DEF Pages!PageConstants
  <1>2. \A why : Pages!Refuse(why).status = why
    BY DEF Pages!Refuse
  <1>3. answer = IF paged /\ bytes > MaxBytes THEN Pages!Refuse("badRequest")
                 ELSE IF paged /\ view.route # "outline" /\ view.limit \notin 1 .. MaxItems
                      THEN Pages!Refuse("badRequest")
                 ELSE IF Pages!ReadKind(view.route) = None THEN Pages!Refuse("badRequest")
                 ELSE IF Pages!ReadKind(view.route) # body.kind THEN Pages!Refuse("unsupported")
                 ELSE IF paged THEN leaf ELSE full
    BY DEF Pages!RespondAt
  <1> HIDE DEF paged, leaf, full, body
  <1>4. /\ Pages!ReadKind(view.route) = body.kind
        /\ answer = IF paged THEN leaf ELSE full
        /\ paged /\ view.route # "outline" => view.limit \in 1 .. MaxItems
    BY <1>2, <1>3
  <1>5. Covers(body, items) /\ (\E E : items \in Seq(E)) /\ Sized(items)
    BY <1>1, <1>4, ListingCovers
  <1>6. PICK E : items \in Seq(E)
    BY <1>5
  <1> HIDE DEF items
  <1>7. Len(items) \in Nat
    BY <1>6
  <1>8. CASE ~paged
    <2>1. first = 0 /\ answer = Pages!Envelope(r, items, first, Len(items))
      BY <1>4, <1>8 DEF full, paged, FirstOf
    <2>2. Len(items) \in 0 .. Len(items) - first
      BY <1>7, <2>1
    <2> QED
      BY <1>4, <1>5, <1>6, <1>7, <1>8, <2>1, <2>2 DEF items, body, paged, IsAnswer
  <1>9. CASE paged
    <2>1. leaf.status = "ok"
      BY <1>4, <1>9
    <2>2. leaf = IF at = None THEN Pages!Refuse("expired")
                  ELSE IF at > Len(items) THEN Pages!Refuse("outOfRange")
                  ELSE IF Pages!TooLarge(view, items, at, asker, bytes) THEN Pages!Refuse("tooLarge")
                  ELSE Pages!Envelope(r, items, at, Pages!Taken(view, items, at, asker, bytes))
      BY DEF Pages!PageFrom, leaf
    <2> HIDE DEF at
    <2>3. /\ at # None /\ ~(at > Len(items)) /\ ~Pages!TooLarge(view, items, at, asker, bytes)
          /\ leaf = Pages!Envelope(r, items, at, Pages!Taken(view, items, at, asker, bytes))
      BY <1>2, <2>1, <2>2
    <2>4. at = first /\ first \in Nat /\ (asker # None => asker[1] = r)
      BY <1>9, <2>3 DEF at, paged, FirstOf, Pages!StartOf, Asks
    <2>5. at \in Nat /\ at <= Len(items)
      BY <1>7, <2>3, <2>4
    <2>6. view.route # "outline" => view.limit # 0
      BY <1>4, <1>9
    <2> DEFINE n == Pages!Taken(view, items, at, asker, bytes)
    <2>7. /\ n \in 0 .. Len(items) - at
          /\ Pages!Bytes(leaf.items) + Pages!Cardinality({asker, leaf.next} \ {None}) <= bytes
          /\ view.route # "outline" => Len(leaf.items) <= view.limit
      <3>0. PICK v : v = view
        OBVIOUS
      <3>1. LET m == Pages!Taken(v, items, at, asker, bytes)
                given == Pages!Envelope(r, items, at, m)
            IN  /\ m \in 0 .. Len(items) - at
                /\ Pages!Bytes(given.items) + Pages!Cardinality({asker, given.next} \ {None}) <= bytes
                /\ v.route # "outline" => Len(given.items) <= v.limit
        <4>1. v.limit \in Nat /\ (v.route # "outline" => v.limit # 0)
                /\ ~Pages!TooLarge(v, items, at, asker, bytes)
          BY <1>1, <2>3, <2>6, <3>0
        <4> QED
          BY <1>5, <1>6, <2>5, <4>1, PageFits
      <3> QED
        BY <2>3, <3>0, <3>1
    <2> HIDE DEF first, n
    <2>8. answer = leaf /\ leaf = Pages!Envelope(r, items, first, n) /\ n \in 0 .. Len(items) - first
      BY <1>4, <1>9, <2>3, <2>4, <2>7 DEF n
    <2>9. /\ Pages!Bytes(answer.items) + Pages!Cardinality({asker, answer.next} \ {None}) <= bytes
          /\ view.route # "outline" => Len(answer.items) <= view.limit
      BY <2>7, <2>8
    <2> QED
      BY <1>4, <1>5, <1>6, <1>9, <2>4, <2>5, <2>8, <2>9 DEF items, body, paged, first, IsAnswer
  <1> QED
    BY <1>8, <1>9

--------------------------------------------------------------------------------
\* The inductive invariant of a reader.
ListedAt(r) == Pages!Listing(view, bodies[r])

OneKind == \A r \in 1 .. Len(bodies) : bodies[r].kind = bodies[1].kind

\* It has nothing, or the beginning of one revision's list and the cursor behind it, or all.
Reader ==
    \/ collected = <<>> /\ after = None /\ reading # "all" /\ looked = None
    \/ /\ of \in 1 .. Len(bodies)
       /\ Pages!ReadKind(view.route) = bodies[of].kind
       /\ \/ reading = "all" /\ after = None /\ collected = ListedAt(of)
          \/ /\ reading # "all" /\ Pages!Paged(view.route)
             /\ \E n \in Nat : /\ n < Len(ListedAt(of))
                               /\ after = <<of, n>> /\ collected = SubSeq(ListedAt(of), 1, n)

\* An answer is what its revision's snapshot gives.
Holds(kept) ==
    kept # None =>
        /\ kept = [cursor |-> kept.cursor, bytes |-> kept.bytes, answer |-> kept.answer]
        /\ Asks(kept.cursor) /\ kept.bytes \in Nat \ {0}
        /\ kept.answer.status = "ok" /\ kept.answer.revision \in 1 .. Len(bodies)
        /\ kept.answer = Pages!RespondAt(kept.answer.revision, view, kept.cursor, kept.bytes)

\* The nodes of a slide: each is a child of the one that is its parent.
NodesAreChildren(slide, nodes) ==
    \A n \in Pages!ToSet(slide.nodes) :
       n.parent # None <=>
          \E p \in Pages!ToSet(nodes) : p.id = n.parent /\ n.id \in Pages!ToSet(p.children)

SlideOf(body, id) == CHOOSE s \in Pages!ToSet(body.slides) : s.id = id

\* What was looked up is what the list says, unless it is of another revision.
Looked(found) ==
    found # None =>
        /\ IF found.answer.status = "ok" /\ found.answer.revision = of
           THEN found.answer.item \in Pages!ToSet(collected)
           ELSE found.answer.status = "missing" => of < Len(bodies)
        /\ view.route = "slides" /\ found.answer.status = "ok" =>
              /\ found.answer.revision \in 1 .. Len(bodies)
              /\ NodesAreChildren(SlideOf(bodies[found.answer.revision], found.id), found.answer.nodes)

ReaderInv == Pages!TypeOK /\ OneKind /\ Reader /\ Holds(held) /\ Looked(looked)

\* The invariant has the property.
LEMMA ReaderCovers ==
    ASSUME Pages!PageConstants, ReaderInv
    PROVE  Pages!PagesCoverTheDocument
  <1>1. /\ bodies \in Seq(Bodies) /\ view \in Views /\ Pages!revision = Len(bodies)
        /\ None \notin Nat \X Nat /\ view.route \in Pages!Routes
    BY DEF ReaderInv, Pages!TypeOK, Pages!revision, Pages!PageConstants
  <1>2. ASSUME reading = "all" PROVE Covers(bodies[of], collected)
    <2>1. /\ of \in 1 .. Len(bodies) /\ Pages!ReadKind(view.route) = bodies[of].kind
          /\ collected = ListedAt(of)
      BY <1>2 DEF ReaderInv, Reader
    <2>2. bodies[of] \in Bodies
      BY <1>1, <2>1
    <2>3. Covers(bodies[of], ListedAt(of))
      BY <1>1, <2>1, <2>2, ListingCovers DEF ListedAt
    <2> QED
      BY <2>1, <2>3
  <1>3. ASSUME held # None
        PROVE  /\ Pages!Paged(view.route) =>
                     /\ Pages!Bytes(held.answer.items)
                           + Pages!Cardinality({held.cursor, held.answer.next} \ {None}) <= held.bytes
                     /\ view.route # "outline" => Len(held.answer.items) <= view.limit
               /\ held.answer.revision = Pages!revision =>
                     held.answer = Pages!Respond(view, held.cursor, held.bytes)
    <2>1. PICK h : h = held
      OBVIOUS
    <2>2. /\ Asks(h.cursor) /\ h.bytes \in Nat \ {0}
          /\ h.answer.status = "ok" /\ h.answer.revision \in 1 .. Len(bodies)
          /\ h.answer = Pages!RespondAt(h.answer.revision, view, h.cursor, h.bytes)
      BY <1>3, <2>1 DEF ReaderInv, Holds
    <2>3. Pages!Paged(view.route) =>
             /\ Pages!Bytes(h.answer.items)
                   + Pages!Cardinality({h.cursor, h.answer.next} \ {None}) <= h.bytes
             /\ view.route # "outline" => Len(h.answer.items) <= view.limit
      BY <1>1, <2>2, AnswerIs DEF IsAnswer
    <2>4. h.answer.revision = Pages!revision => h.answer = Pages!Respond(view, h.cursor, h.bytes)
      BY <2>2 DEF Pages!Respond
    <2> QED
      BY <2>1, <2>3, <2>4
  <1>4. ASSUME looked # None
        PROVE  IF looked.answer.status = "ok" /\ looked.answer.revision = of
               THEN looked.answer.item \in Pages!ToSet(collected)
               ELSE looked.answer.status = "missing" => of < Pages!revision
    BY <1>1, <1>4 DEF ReaderInv, Looked
  <1>5. ASSUME looked # None, view.route = "slides", looked.answer.status = "ok"
        PROVE  LET nodes == looked.answer.nodes
                   slide == CHOOSE s \in Pages!ToSet(bodies[looked.answer.revision].slides) : s.id = looked.id
               IN  \A n \in Pages!ToSet(slide.nodes) :
                      n.parent # None <=>
                         \E p \in Pages!ToSet(nodes) : p.id = n.parent /\ n.id \in Pages!ToSet(p.children)
    BY <1>5 DEF ReaderInv, Looked, NodesAreChildren, SlideOf
  <1> QED
    BY <1>2, <1>3, <1>4, <1>5 DEF Pages!PagesCoverTheDocument, Covers

LEMMA ReaderInit == Pages!PageConstants /\ Pages!Init => ReaderInv
  <1> SUFFICES ASSUME Pages!PageConstants, Pages!Init PROVE ReaderInv
    OBVIOUS
  <1>1. PICK b \in Bodies : bodies = <<b>>
    BY DEF Pages!Init
  <1>2. bodies \in Seq(Bodies) /\ Len(bodies) = 1
    BY <1>1
  <1>3. MaxPageRevision \in Nat \ {0} /\ Budgets \in Seq(Pages!ToSet(Budgets)) /\ Budgets # <<>>
    BY DEF Pages!PageConstants, Pages!IsSeq
  <1>4. Pages!TypeOK
    <2>1. 1 \in DOMAIN Budgets
      BY <1>3
    <2> QED
      BY <1>2, <1>3, <2>1 DEF Pages!TypeOK, Pages!Init, Pages!revision
  <1> QED
    BY <1>2, <1>4 DEF ReaderInv, OneKind, Reader, Holds, Looked, Pages!Init

\* What every state of a reader has.
LEMMA ReaderFacts ==
    ASSUME Pages!PageConstants, ReaderInv
    PROVE  /\ bodies \in Seq(Bodies) /\ view \in Views /\ Pages!revision = Len(bodies)
           /\ Len(bodies) \in 1 .. MaxPageRevision /\ MaxPageRevision \in Nat \ {0}
           /\ view.route \in Pages!Routes /\ None \notin Nat \X Nat
           /\ Asks(after) /\ budget \in DOMAIN Budgets
           /\ Budgets \in Seq(Pages!ToSet(Budgets)) /\ Budgets[budget] \in Nat \ {0}
  BY DEF ReaderInv, Pages!TypeOK, Pages!revision, Pages!PageConstants, Pages!IsSeq, Asks

LEMMA CommitKeeps ==
    ASSUME Pages!PageConstants, ReaderInv, Pages!Commit PROVE ReaderInv'
  <1>1. /\ bodies \in Seq(Bodies) /\ Pages!revision = Len(bodies)
        /\ Len(bodies) \in 1 .. MaxPageRevision /\ MaxPageRevision \in Nat \ {0}
    BY ReaderFacts
  <1>2. PICK b \in Bodies : b.kind = bodies[1].kind /\ bodies' = Append(bodies, b)
    BY DEF Pages!Commit
  <1>3. Len(bodies) < MaxPageRevision
        /\ UNCHANGED <<view, after, budget, collected, of, reading, held, looked>>
    BY <1>1 DEF Pages!Commit
  <1>4. /\ bodies' \in Seq(Bodies) /\ Len(bodies') = Len(bodies) + 1
        /\ \A r \in 1 .. Len(bodies) : bodies'[r] = bodies[r] /\ r \in 1 .. Len(bodies')
        /\ bodies'[Len(bodies) + 1] = b
    BY <1>1, <1>2
  <1>5. Pages!TypeOK'
    BY <1>1, <1>3, <1>4 DEF ReaderInv, Pages!TypeOK, Pages!revision
  <1>6. OneKind'
    <2>1. 1 \in 1 .. Len(bodies)
      BY <1>1
    <2>2. ASSUME NEW r \in 1 .. Len(bodies') PROVE bodies'[r].kind = bodies'[1].kind
      <3>1. r \in 1 .. Len(bodies) \/ r = Len(bodies) + 1
        BY <1>1, <1>4
      <3> QED
        BY <1>2, <1>4, <2>1, <3>1 DEF ReaderInv, OneKind
    <2> QED
      BY <2>2 DEF OneKind
  <1>7. Reader'
    <2>1. CASE collected = <<>> /\ after = None /\ reading # "all" /\ looked = None
      BY <1>3, <2>1 DEF Reader
    <2>2. CASE ~(collected = <<>> /\ after = None /\ reading # "all" /\ looked = None)
      <3>1. of \in 1 .. Len(bodies)
        BY <2>2 DEF ReaderInv, Reader
      <3>2. ListedAt(of)' = ListedAt(of) /\ bodies'[of] = bodies[of] /\ of \in 1 .. Len(bodies')
        BY <1>3, <1>4, <3>1 DEF ListedAt
      <3> QED
        BY <1>3, <2>2, <3>2 DEF ReaderInv, Reader
    <2> QED
      BY <2>1, <2>2
  <1>8. \A r \in 1 .. Len(bodies) : \A asker, bytes :
           Pages!RespondAt(r, view, asker, bytes)' = Pages!RespondAt(r, view, asker, bytes)
    BY <1>3, <1>4 DEF Pages!RespondAt
  <1>9. Holds(held)'
    BY <1>3, <1>4, <1>8 DEF ReaderInv, Holds
  <1>10. Looked(looked)'
    <2>1. \A r \in 1 .. Len(bodies) : bodies'[r] = bodies[r] /\ r \in 1 .. Len(bodies')
      BY <1>4
    <2>2. of \in Nat /\ (of < Len(bodies) => of < Len(bodies'))
      BY <1>1, <1>4 DEF ReaderInv, Pages!TypeOK, Pages!revision
    <2> QED
      BY <1>3, <2>1, <2>2 DEF ReaderInv, Looked
  <1> QED
    BY <1>5, <1>6, <1>7, <1>9, <1>10 DEF ReaderInv

LEMMA TakeKeeps ==
    ASSUME Pages!PageConstants, ReaderInv, reading = "more", UNCHANGED <<bodies, view>>,
           NEW answer, answer = Pages!Respond(view, after, Budgets[budget]), Pages!Take(answer)
    PROVE  ReaderInv'
  <1> DEFINE r     == Len(bodies)
             items == Pages!Listing(view, bodies[r])
             first == FirstOf(after)
  <1>1. /\ bodies \in Seq(Bodies) /\ view \in Views /\ Pages!revision = r
        /\ r \in 1 .. MaxPageRevision /\ MaxPageRevision \in Nat \ {0} /\ r \in 1 .. r
        /\ None \notin Nat \X Nat /\ Asks(after) /\ Budgets[budget] \in Nat \ {0}
    BY ReaderFacts
  <1>2. answer = Pages!RespondAt(r, view, after, Budgets[budget])
    BY <1>1 DEF Pages!Respond
  <1>3. /\ answer.status = "ok" /\ collected' = collected \o answer.items
        /\ of' = answer.revision /\ after' = answer.next
        /\ reading' = IF answer.next = None THEN "all" ELSE "more"
        /\ held' = [cursor |-> after, bytes |-> Budgets[budget], answer |-> answer]
        /\ budget' = budget /\ looked' = looked
    BY DEF Pages!Take
  <1>4. /\ Pages!ReadKind(view.route) = bodies[r].kind
        /\ \E E : items \in Seq(E)
        /\ first \in Nat /\ first <= Len(items)
        /\ Pages!Paged(view.route) /\ after # None => after[1] = r
        /\ \E n \in 0 .. Len(items) - first :
              /\ answer = Pages!Envelope(r, items, first, n)
              /\ ~Pages!Paged(view.route) => n = Len(items)
    <2>0. PICK asker, bytes, q : asker = after /\ bytes = Budgets[budget] /\ q = r
      OBVIOUS
    <2>1. /\ q \in 1 .. Len(bodies) /\ Asks(asker) /\ bytes \in Nat \ {0}
          /\ answer = Pages!RespondAt(q, view, asker, bytes) /\ answer.status = "ok"
      BY <1>1, <1>2, <1>3, <2>0
    <2>2. IsAnswer(q, asker, bytes, answer)
      BY <1>1, <2>1, AnswerIs
    <2>3. IsAnswer(r, after, bytes, answer)
      BY <2>0, <2>2
    <2> HIDE DEF r
    <2> QED
      BY <2>3 DEF IsAnswer
  <1>5. PICK E : items \in Seq(E)
    BY <1>4
  <1>6. PICK n \in 0 .. Len(items) - first :
           /\ answer = Pages!Envelope(r, items, first, n)
           /\ ~Pages!Paged(view.route) => n = Len(items)
    BY <1>4
  <1> HIDE DEF items, first
  <1>7. /\ answer.revision = r /\ answer.items = SubSeq(items, first + 1, first + n)
        /\ answer.next = IF first + n < Len(items) THEN <<r, first + n>> ELSE None
    <2> HIDE DEF r
    <2> DEFINE some == SubSeq(items, first + 1, first + n)
               rest == IF first + n < Len(items) THEN <<r, first + n>> ELSE None
    <2>1. answer = [status |-> "ok", revision |-> r, items |-> some, next |-> rest]
      BY <1>6 DEF Pages!Envelope
    <2> HIDE DEF some, rest
    <2>2. answer.revision = r /\ answer.items = some /\ answer.next = rest
      BY <2>1
    <2> QED
      BY <2>2 DEF some, rest
  <1>8. ListedAt(r) = items /\ ListedAt(r)' = items
    BY DEF ListedAt, items
  <1>9. Len(items) \in Nat /\ first \in Nat /\ first + n <= Len(items) /\ n \in Nat
    BY <1>4, <1>5, <1>6
  \* The page goes on where the reader is.
  <1>10. first \in Nat /\ collected = SubSeq(items, 1, first)
         /\ (looked # None => of = r)
    <2>1. CASE collected = <<>> /\ after = None /\ reading # "all" /\ looked = None
      BY <1>5, <2>1 DEF first, FirstOf
    <2>2. CASE ~(collected = <<>> /\ after = None /\ reading # "all" /\ looked = None)
      <3>1. /\ of \in 1 .. Len(bodies) /\ Pages!Paged(view.route)
            /\ \E k \in Nat : after = <<of, k>> /\ collected = SubSeq(ListedAt(of), 1, k)
        BY <2>2 DEF ReaderInv, Reader
      <3>2. PICK k \in Nat : after = <<of, k>> /\ collected = SubSeq(ListedAt(of), 1, k)
        BY <3>1
      <3>3. after # None
        BY <1>1, <3>1, <3>2
      <3>4. of = r /\ first = k
        BY <1>4, <3>1, <3>2, <3>3 DEF first, FirstOf
      <3> QED
        BY <1>8, <3>2, <3>4
    <2> QED
      BY <2>1, <2>2
  <1>11. /\ collected' = SubSeq(items, 1, first + n)
         /\ \A x : x \in Pages!ToSet(collected) => x \in Pages!ToSet(collected')
    <2>1. SubSeq(items, 1, first + n) = SubSeq(items, 1, first) \o SubSeq(items, first + 1, first + n)
      BY <1>5, <1>9
    <2>2. collected' = SubSeq(items, 1, first + n)
      BY <1>3, <1>7, <1>10, <2>1
    <2>3. /\ DOMAIN collected = 1 .. first /\ \A i \in 1 .. first : collected[i] = items[i]
          /\ DOMAIN collected' = 1 .. first + n /\ \A i \in 1 .. first + n : collected'[i] = items[i]
      BY <1>5, <1>9, <1>10, <2>2
    <2>4. \A i \in 1 .. first : i \in 1 .. first + n
      BY <1>9
    <2>5. ASSUME NEW x \in Pages!ToSet(collected) PROVE x \in Pages!ToSet(collected')
      <3>1. PICK i \in 1 .. first : x = collected[i]
        BY <2>3 DEF Pages!ToSet
      <3>2. i \in DOMAIN collected' /\ x = collected'[i]
        BY <2>3, <2>4, <3>1
      <3> QED
        BY <3>2 DEF Pages!ToSet
    <2> QED
      BY <2>2, <2>5
  <1>12. of' = r /\ bodies' = bodies /\ view' = view
    BY <1>3, <1>7
  <1>13. Pages!TypeOK'
    <2>1. after' = None \/ after' \in (1 .. MaxPageRevision) \X Nat
      BY <1>1, <1>3, <1>7, <1>9
    <2> QED
      BY <1>1, <1>3, <1>12, <2>1 DEF ReaderInv, Pages!TypeOK, Pages!revision
  <1>14. Reader'
    <2>1. CASE first + n < Len(items)
      <3>1. after' = <<r, first + n>> /\ first + n \in Nat
        BY <1>3, <1>7, <1>9, <2>1
      <3>2. after' # None
        BY <1>1, <3>1
      <3>3. reading' = "more"
        BY <1>3, <3>2
      <3>4. Pages!Paged(view.route)
        BY <1>6, <1>9, <2>1
      <3> QED
        BY <1>1, <1>4, <1>8, <1>11, <1>12, <2>1, <3>1, <3>3, <3>4 DEF Reader
    <2>2. CASE ~(first + n < Len(items))
      <3>1. first + n = Len(items) /\ after' = None /\ reading' = "all"
        BY <1>3, <1>7, <1>9, <2>2
      <3>2. collected' = items
        BY <1>5, <1>11, <3>1
      <3> QED
        BY <1>1, <1>4, <1>8, <1>12, <3>1, <3>2 DEF Reader
    <2> QED
      BY <2>1, <2>2
  <1>15. Holds(held)'
    <2>1. Pages!RespondAt(r, view, after, Budgets[budget])'
             = Pages!RespondAt(r, view, after', Budgets[budget'])
      BY <1>12 DEF Pages!RespondAt
    <2>2. \A asker, bytes : Pages!RespondAt(r, view, asker, bytes)' = Pages!RespondAt(r, view, asker, bytes)
      BY <1>12 DEF Pages!RespondAt
    <2>3. held'.answer = answer /\ held'.cursor = after /\ held'.bytes = Budgets[budget]
      BY <1>3
    <2>4. answer = Pages!RespondAt(r, view, held'.cursor, held'.bytes)
      BY <1>2, <2>3
    <2> QED
      BY <1>1, <1>3, <1>7, <1>12, <2>2, <2>3, <2>4 DEF Holds
  <1>16. Looked(looked)'
    BY <1>3, <1>10, <1>11, <1>12 DEF ReaderInv, Looked
  <1>17. OneKind'
    BY <1>12 DEF ReaderInv, OneKind
  <1> QED
    BY <1>13, <1>14, <1>15, <1>16, <1>17 DEF ReaderInv

\* What does not change what a reader has.
LEMMA RestKeeps ==
    ASSUME UNCHANGED <<bodies, view>>
    PROVE  /\ OneKind => OneKind'
           /\ \A kept : Holds(kept) => Holds(kept)'
           /\ \A r : ListedAt(r)' = ListedAt(r)
           /\ \A r, asker, bytes : Pages!RespondAt(r, view, asker, bytes)' = Pages!RespondAt(r, view, asker, bytes)
  <1>1. \A r, asker, bytes :
           Pages!RespondAt(r, view, asker, bytes)' = Pages!RespondAt(r, view, asker, bytes)
    BY DEF Pages!RespondAt
  <1>2. \A r : ListedAt(r)' = ListedAt(r)
    BY DEF ListedAt
  <1>3. \A kept : Holds(kept) => Holds(kept)'
    BY <1>1 DEF Holds
  <1> QED
    BY <1>1, <1>2, <1>3 DEF OneKind

LEMMA ReadKeeps ==
    ASSUME Pages!PageConstants, ReaderInv, Pages!Read PROVE ReaderInv'
  <1> DEFINE answer == Pages!Respond(view, after, Budgets[budget])
  <1>1. UNCHANGED <<bodies, view>> /\ reading = "more"
    BY DEF Pages!Read
  <1>2. Pages!Take(answer) \/ Pages!StartAgain(answer) \/ Pages!AskForMore(answer) \/ Pages!GiveUp(answer)
    BY DEF Pages!Read
  <1>3. OneKind' /\ (\A kept : Holds(kept) => Holds(kept)') /\ \A r : ListedAt(r)' = ListedAt(r)
    BY <1>1, RestKeeps DEF ReaderInv
  <1>4. /\ Pages!revision = Len(bodies) /\ Pages!revision' = Pages!revision
        /\ Budgets \in Seq(Pages!ToSet(Budgets)) /\ Len(bodies) \in 1 .. MaxPageRevision
    BY <1>1, ReaderFacts DEF Pages!revision
  <1> HIDE DEF answer
  <1>5. CASE Pages!Take(answer)
    <2>1. PICK given : given = answer
      OBVIOUS
    <2> QED
      BY <1>1, <1>5, <2>1, TakeKeeps DEF answer
  <1>6. CASE Pages!StartAgain(answer)
    <2>1. /\ collected' = <<>> /\ of' = 0 /\ after' = None /\ held' = None /\ looked' = None
          /\ budget' = budget /\ reading' = reading
      BY <1>6 DEF Pages!StartAgain
    <2>2. Pages!TypeOK'
      BY <1>1, <1>4, <2>1 DEF ReaderInv, Pages!TypeOK
    <2>3. Reader' /\ Holds(held)' /\ Looked(looked)'
      BY <1>1, <2>1 DEF Reader, Holds, Looked
    <2> QED
      BY <1>3, <2>2, <2>3 DEF ReaderInv
  <1>7. CASE Pages!AskForMore(answer)
    <2>1. /\ budget < Len(Budgets) /\ budget' = budget + 1
          /\ UNCHANGED <<collected, of, after, reading, held, looked>>
      BY <1>7 DEF Pages!AskForMore
    <2>2. Pages!TypeOK'
      <3>1. budget' \in DOMAIN Budgets
        BY <1>4, <2>1 DEF ReaderInv, Pages!TypeOK
      <3> QED
        BY <1>1, <1>4, <2>1, <3>1 DEF ReaderInv, Pages!TypeOK
    <2>3. Reader'
      BY <1>1, <1>3, <2>1 DEF ReaderInv, Reader
    <2>4. Holds(held)' /\ Looked(looked)'
      BY <1>1, <1>3, <2>1 DEF ReaderInv, Looked, Holds, Pages!RespondAt
    <2> QED
      BY <1>3, <2>2, <2>3, <2>4 DEF ReaderInv
  <1>8. CASE Pages!GiveUp(answer)
    <2>1. /\ reading' \in {"badRequest", "unsupported", "outOfRange", "tooLarge"}
          /\ UNCHANGED <<collected, of, after, budget, held, looked>>
      BY <1>8 DEF Pages!GiveUp
    <2>2. Pages!TypeOK'
      BY <1>1, <1>4, <2>1 DEF ReaderInv, Pages!TypeOK
    <2>3. Reader'
      <3>1. reading' # "all"
        BY <2>1
      <3> QED
        BY <1>1, <1>3, <2>1, <3>1 DEF ReaderInv, Reader
    <2>4. Holds(held)' /\ Looked(looked)'
      BY <1>1, <1>3, <2>1 DEF ReaderInv, Looked, Holds, Pages!RespondAt
    <2> QED
      BY <1>3, <2>2, <2>3, <2>4 DEF ReaderInv
  <1> QED
    BY <1>2, <1>5, <1>6, <1>7, <1>8

LEMMA RecheckKeeps ==
    ASSUME Pages!PageConstants, ReaderInv, Pages!Recheck PROVE ReaderInv'
  <1> DEFINE answer == Pages!Respond(view, held.cursor, held.bytes)
             r == Len(bodies)
  <1>1. /\ bodies \in Seq(Bodies) /\ view \in Views /\ Pages!revision = r /\ r \in 1 .. r
        /\ Len(bodies) \in 1 .. MaxPageRevision
    BY ReaderFacts
  <1>2. /\ held # None /\ UNCHANGED <<bodies, view, after, budget, collected, of, reading, looked>>
        /\ \/ UNCHANGED held
           \/ answer.status = "ok" /\ held' = [held EXCEPT !.answer = answer]
           \/ held' = None
    BY DEF Pages!Recheck
  <1>3. answer = Pages!RespondAt(r, view, held.cursor, held.bytes)
    BY <1>1 DEF Pages!Respond
  <1>4. OneKind' /\ (\A kept : Holds(kept) => Holds(kept)') /\ \A q : ListedAt(q)' = ListedAt(q)
    BY <1>2, RestKeeps DEF ReaderInv
  <1>5. Pages!TypeOK' /\ Reader' /\ Looked(looked)'
    <2>1. Pages!TypeOK'
      BY <1>2 DEF ReaderInv, Pages!TypeOK, Pages!revision
    <2>2. Reader'
      BY <1>2, <1>4 DEF ReaderInv, Reader
    <2>3. Looked(looked)'
      BY <1>2 DEF ReaderInv, Looked
    <2> QED
      BY <2>1, <2>2, <2>3
  <1>6. \A q, asker, bytes :
           Pages!RespondAt(q, view, asker, bytes)' = Pages!RespondAt(q, view, asker, bytes)
    BY <1>2, RestKeeps
  <1>7. Holds(held)'
    <2>1. CASE UNCHANGED held
      BY <1>2, <1>6, <2>1 DEF ReaderInv, Holds
    <2>2. CASE held' = None
      BY <2>2 DEF Holds
    <2>3. CASE answer.status = "ok" /\ held' = [held EXCEPT !.answer = answer]
      <3>1. PICK h, a : h = held /\ a = answer
        OBVIOUS
      <3>2. /\ h = [cursor |-> h.cursor, bytes |-> h.bytes, answer |-> h.answer]
            /\ Asks(h.cursor) /\ h.bytes \in Nat \ {0}
        BY <1>2, <3>1 DEF ReaderInv, Holds
      <3>3. /\ a.status = "ok" /\ a = Pages!RespondAt(r, view, h.cursor, h.bytes)
        BY <1>3, <2>3, <3>1
      <3>4. a.revision = r
        <4>1. PICK q : q = r
          OBVIOUS
        <4>2. IsAnswer(q, h.cursor, h.bytes, a)
          BY <1>1, <3>2, <3>3, <4>1, AnswerIs
        <4>3. a.revision = q
          BY <4>2 DEF IsAnswer, Pages!Envelope
        <4> QED
          BY <4>1, <4>3
      <3>5. held' = [cursor |-> h.cursor, bytes |-> h.bytes, answer |-> a]
        BY <2>3, <3>1, <3>2
      <3> HIDE DEF r, answer
      <3>6. held'.cursor = h.cursor /\ held'.bytes = h.bytes /\ held'.answer = a
        BY <3>5
      <3>7. r' = r
        BY <1>2 DEF r
      <3> QED
        BY <1>1, <1>2, <1>6, <3>2, <3>3, <3>4, <3>5, <3>6, <3>7 DEF Holds, r
    <2> QED
      BY <1>2, <2>1, <2>2, <2>3
  <1> QED
    BY <1>4, <1>5, <1>7 DEF ReaderInv

\* A block is listed once: what a read of it finds is the entry of the list.
LEMMA BlockReadIs ==
    ASSUME NEW body, Pages!IsForest(body), view.route \in {"outline", "blocks"},
           NEW i \in DOMAIN Pages!Listing(view, body), NEW bytes
    PROVE  LET item == Pages!Listing(view, body)[i]
               read == Pages!BlockRead(body, item.id, bytes)
           IN  /\ read.status # "missing"
               /\ read.status = "ok" => read.item = item
  <1> DEFINE metas == Pages!BlockMetas(body)
             item  == Pages!Listing(view, body)[i]
             found == {m \in Pages!ToSet(metas) : m.id = item.id}
             read  == Pages!BlockRead(body, item.id, bytes)
  <1>1. WalkInv(body, <<>>, metas)
    BY BlockMetasAre
  <1>2. \A a, b \in DOMAIN metas : metas[a].id = metas[b].id => a = b
    BY <1>1 DEF WalkInv, WalkOnce
  <1>3. \E a \in DOMAIN metas : metas[a] = item
    <2>1. CASE view.route = "outline"
      BY <2>1 DEF Pages!Listing
    <2>2. CASE view.route = "blocks"
      <3>1. PICK T : T = {m \in Pages!ToSet(metas) : view.parent # None => m.parent = view.parent}
        OBVIOUS
      <3>2. Pages!Listing(view, body) = Pages!Only(metas, T)
        BY <2>2, <3>1 DEF Pages!Listing
      <3>3. \A j \in DOMAIN Pages!Only(metas, T) : \E a \in DOMAIN metas : Pages!Only(metas, T)[j] = metas[a]
        BY <1>1, SelectionIs
      <3> QED
        BY <3>2, <3>3
    <2> QED
      BY <2>1, <2>2
  <1> HIDE DEF metas, item
  <1>4. item \in found /\ \A m \in found : m = item
    BY <1>2, <1>3 DEF Pages!ToSet
  <1>5. read = IF found = {} THEN Pages!Refuse("missing")
               ELSE IF Pages!Size(CHOOSE m \in found : TRUE) > bytes THEN Pages!Refuse("tooLarge")
               ELSE [status |-> "ok", revision |-> Pages!revision, item |-> CHOOSE m \in found : TRUE]
    BY DEF Pages!BlockRead, metas
  <1> HIDE DEF found, read
  <1>6. (CHOOSE m \in found : TRUE) = item
    BY <1>4
  <1>7. \/ read.status = "tooLarge"
        \/ read.status = "ok" /\ read.item = item
    BY <1>4, <1>5, <1>6 DEF Pages!Refuse
  <1> QED
    BY <1>7 DEF item, read

\* The children of a node: those that have it for their parent.
LEMMA ChildNodesAre ==
    ASSUME NEW deck, Pages!IsDeck(deck), NEW slide \in Pages!ToSet(deck.slides), NEW id
    PROVE  \A n \in Pages!ToSet(slide.nodes) :
              n.id \in Pages!ToSet(Pages!ChildNodes(slide, id)) <=> n.parent = id
  <1> DEFINE nodes == Pages!ToSet(slide.nodes)
             mine  == {n \in nodes : n.parent = id}
             K     == {n.key : n \in mine}
             keys  == Pages!Ascending(K)
             of_(k) == CHOOSE n \in mine : n.key = k
             kids  == Pages!ChildNodes(slide, id)
  <1>1. /\ Pages!IsSeq(slide.nodes)
        /\ \A m, n \in nodes : m.id = n.id \/ (m.parent = n.parent /\ m.key = n.key) => m = n
        /\ \A n \in nodes : n.key \in Nat
    BY DEF Pages!IsDeck
  <1>2. kids = [i \in DOMAIN keys |-> of_(keys[i]).id]
    BY DEF Pages!ChildNodes
  <1>3. IsFiniteSet(nodes)
    <2> DEFINE f == [i \in DOMAIN slide.nodes |-> slide.nodes[i]]
    <2>1. DOMAIN slide.nodes = 1 .. Len(slide.nodes) /\ Len(slide.nodes) \in Nat
      BY <1>1 DEF Pages!IsSeq
    <2>2. IsFiniteSet(DOMAIN slide.nodes)
      BY <2>1, FS_Interval
    <2>3. f \in Surjection(DOMAIN slide.nodes, nodes)
      BY DEF Surjection, Pages!ToSet
    <2> HIDE DEF f, nodes
    <2> QED
      BY <2>2, <2>3, FS_Surjection
  <1> HIDE DEF nodes
  <1>4. IsFiniteSet(K) /\ K \in SUBSET Nat
    <2> DEFINE f == [n \in mine |-> n.key]
    <2>1. IsFiniteSet(mine)
      BY <1>3, FS_Subset
    <2>2. f \in Surjection(mine, K)
      BY DEF Surjection
    <2>3. K \in SUBSET Nat
      BY <1>1
    <2> HIDE DEF f, mine, K
    <2> QED
      BY <2>1, <2>2, <2>3, FS_Surjection
  <1>5. \A n \in mine : of_(n.key) = n
    BY <1>1
  <1>6. \A n \in mine : n.key \in K
    OBVIOUS
  <1>7. \A k \in K : of_(k) \in mine
    OBVIOUS
  <1> HIDE DEF K, of_
  <1>8. /\ DOMAIN keys = 1 .. Cardinality(K) /\ \A i \in DOMAIN keys : keys[i] \in K
        /\ \A k \in K : \E i \in DOMAIN keys : keys[i] = k
    BY <1>4, AscendingIs
  <1> HIDE DEF keys, kids
  <1>9. DOMAIN kids = DOMAIN keys /\ \A i \in DOMAIN keys : kids[i] = of_(keys[i]).id
    BY <1>2
  <1>10. ASSUME NEW n \in nodes, n.parent = id PROVE n.id \in Pages!ToSet(kids)
    <2>1. PICK i \in DOMAIN keys : keys[i] = n.key
      BY <1>6, <1>8, <1>10
    <2>2. kids[i] = n.id
      BY <1>5, <1>9, <1>10, <2>1
    <2> QED
      BY <1>9, <2>2 DEF Pages!ToSet
  <1>11. ASSUME NEW n \in nodes, n.id \in Pages!ToSet(kids) PROVE n.parent = id
    <2>1. PICK i \in DOMAIN keys : kids[i] = n.id
      BY <1>9, <1>11 DEF Pages!ToSet
    <2>2. of_(keys[i]) \in mine /\ of_(keys[i]).id = n.id
      BY <1>7, <1>8, <1>9, <2>1
    <2> QED
      BY <1>1, <2>2
  <1> QED
    BY <1>10, <1>11 DEF nodes, kids

LEMMA SlideReadIs ==
    ASSUME NEW body, Pages!IsDeck(body), NEW slide \in Pages!ToSet(body.slides), NEW bytes
    PROVE  LET read == Pages!SlideRead(body, slide.id, bytes)
           IN  /\ SlideOf(body, slide.id) = slide
               /\ read.status # "missing"
               /\ read.status = "ok" =>
                     /\ read.revision = Pages!revision /\ read.item = Pages!SlideOutline(slide)
                     /\ NodesAreChildren(slide, read.nodes)
  <1> DEFINE read  == Pages!SlideRead(body, slide.id, bytes)
             nodes == [i \in DOMAIN slide.nodes |->
                          [id |-> slide.nodes[i].id,
                           children |-> Pages!ChildNodes(slide, slide.nodes[i].id)]]
             given == [status |-> "ok", revision |-> Pages!revision,
                       item |-> Pages!SlideOutline(slide), nodes |-> nodes]
             chosen == CHOOSE s \in Pages!ToSet(body.slides) : s.id = slide.id
  <1>1. \A s, z \in Pages!ToSet(body.slides) : s.id = z.id => s = z
    BY DEF Pages!IsDeck, Pages!ToSet
  <1>2. chosen = slide /\ SlideOf(body, slide.id) = slide
    BY <1>1 DEF SlideOf
  <1>3. read = IF 1 + Len(slide.nodes) > bytes THEN Pages!Refuse("tooLarge") ELSE given
    BY <1>2 DEF Pages!SlideRead
  <1>4. NodesAreChildren(slide, nodes)
    <2>1. /\ \A n \in Pages!ToSet(slide.nodes) :
                /\ n.id # None
                /\ n.parent # None => \E p \in Pages!ToSet(slide.nodes) : p.id = n.parent
      BY DEF Pages!IsDeck
    <2>2. \A p : p \in Pages!ToSet(nodes) <=>
             \E q \in Pages!ToSet(slide.nodes) :
                p = [id |-> q.id, children |-> Pages!ChildNodes(slide, q.id)]
      BY DEF Pages!ToSet
    <2> HIDE DEF nodes
    <2>3. ASSUME NEW n \in Pages!ToSet(slide.nodes), n.parent # None
          PROVE  \E p \in Pages!ToSet(nodes) : p.id = n.parent /\ n.id \in Pages!ToSet(p.children)
      <3>1. PICK q \in Pages!ToSet(slide.nodes) : q.id = n.parent
        BY <2>1, <2>3
      <3> DEFINE p == [id |-> q.id, children |-> Pages!ChildNodes(slide, q.id)]
      <3>2. p \in Pages!ToSet(nodes) /\ p.id = n.parent /\ p.children = Pages!ChildNodes(slide, q.id)
        BY <2>2, <3>1
      <3>3. n.id \in Pages!ToSet(Pages!ChildNodes(slide, q.id))
        BY <3>1, ChildNodesAre
      <3> HIDE DEF p
      <3> QED
        BY <3>2, <3>3
    <2>4. ASSUME NEW n \in Pages!ToSet(slide.nodes), NEW p \in Pages!ToSet(nodes), p.id = n.parent
          PROVE  n.parent # None
      <3>1. PICK q \in Pages!ToSet(slide.nodes) :
               p = [id |-> q.id, children |-> Pages!ChildNodes(slide, q.id)]
        BY <2>2
      <3> QED
        BY <2>1, <2>4, <3>1
    <2> QED
      BY <2>3, <2>4 DEF NodesAreChildren
  <1> HIDE DEF nodes, read
  <1>5. \/ read.status = "tooLarge"
        \/ /\ read.status = "ok" /\ read.revision = Pages!revision
           /\ read.item = Pages!SlideOutline(slide) /\ read.nodes = nodes
    BY <1>3 DEF Pages!Refuse
  <1> QED
    BY <1>2, <1>4, <1>5 DEF read

\* What the reader has is the list of its revision, from the first.
LEMMA CollectedIs ==
    ASSUME Pages!PageConstants, ReaderInv, NEW i \in DOMAIN collected
    PROVE  /\ of \in 1 .. Len(bodies) /\ bodies[of] \in Bodies
           /\ Pages!ReadKind(view.route) = bodies[of].kind
           /\ i \in DOMAIN ListedAt(of) /\ collected[i] = ListedAt(of)[i]
  <1>1. /\ of \in 1 .. Len(bodies) /\ Pages!ReadKind(view.route) = bodies[of].kind
        /\ \/ collected = ListedAt(of)
           \/ \E n \in Nat : n < Len(ListedAt(of)) /\ collected = SubSeq(ListedAt(of), 1, n)
    BY DEF ReaderInv, Reader
  <1>2. bodies[of] \in Bodies /\ view.route \in Pages!Routes
    BY <1>1, ReaderFacts
  <1>3. PICK E : ListedAt(of) \in Seq(E)
    BY <1>1, <1>2, ListingCovers DEF ListedAt
  <1>4. i \in DOMAIN ListedAt(of) /\ collected[i] = ListedAt(of)[i]
    BY <1>1, <1>3
  <1> QED
    BY <1>1, <1>2, <1>4

\* What a read of one item finds when it is not the revision's list that named it.
LEMMA FoundIs ==
    ASSUME NEW body, NEW id, NEW bytes
    PROVE  /\ Pages!BlockRead(body, id, bytes).status = "ok" =>
                 Pages!BlockRead(body, id, bytes).revision = Pages!revision
           /\ Pages!SlideRead(body, id, bytes).status = "ok" =>
                 /\ Pages!SlideRead(body, id, bytes).revision = Pages!revision
                 /\ \E slide \in Pages!ToSet(body.slides) : slide.id = id
  <1>1. \A why : Pages!Refuse(why).status = why
    BY DEF Pages!Refuse
  <1>2. Pages!BlockRead(body, id, bytes).status = "ok" =>
           Pages!BlockRead(body, id, bytes).revision = Pages!revision
    <2> DEFINE found == {m \in Pages!ToSet(Pages!BlockMetas(body)) : m.id = id}
               item  == CHOOSE m \in found : TRUE
               read  == Pages!BlockRead(body, id, bytes)
    <2>1. read = IF found = {} THEN Pages!Refuse("missing")
                 ELSE IF Pages!Size(item) > bytes THEN Pages!Refuse("tooLarge")
                 ELSE [status |-> "ok", revision |-> Pages!revision, item |-> item]
      BY DEF Pages!BlockRead
    <2> HIDE DEF found, item, read
    <2>2. read.status = "ok" => read.revision = Pages!revision
      BY <1>1, <2>1
    <2> QED
      BY <2>2 DEF read
  <1>3. Pages!SlideRead(body, id, bytes).status = "ok" =>
           /\ Pages!SlideRead(body, id, bytes).revision = Pages!revision
           /\ \E slide \in Pages!ToSet(body.slides) : slide.id = id
    <2> DEFINE slide == CHOOSE s \in Pages!ToSet(body.slides) : s.id = id
               nodes == [i \in DOMAIN slide.nodes |->
                            [id |-> slide.nodes[i].id,
                             children |-> Pages!ChildNodes(slide, slide.nodes[i].id)]]
               outline == Pages!SlideOutline(slide)
               none  == \A s \in Pages!ToSet(body.slides) : s.id # id
               read  == Pages!SlideRead(body, id, bytes)
    <2>1. read = IF none THEN Pages!Refuse("missing")
                 ELSE IF 1 + Len(slide.nodes) > bytes THEN Pages!Refuse("tooLarge")
                 ELSE [status |-> "ok", revision |-> Pages!revision, item |-> outline, nodes |-> nodes]
      BY DEF Pages!SlideRead
    <2> HIDE DEF slide, nodes, outline, none, read
    <2>2. read.status = "ok" => read.revision = Pages!revision /\ ~none
      BY <1>1, <2>1
    <2> QED
      BY <2>2 DEF read, none
  <1> QED
    BY <1>2, <1>3

LEMMA LookUpKeeps ==
    ASSUME Pages!PageConstants, ReaderInv, Pages!LookUp PROVE ReaderInv'
  <1> DEFINE r == Len(bodies)
             bytes == Budgets[budget]
  <1>1. /\ bodies \in Seq(Bodies) /\ view \in Views /\ Pages!revision = r
        /\ r \in 1 .. MaxPageRevision /\ r \in 1 .. r
    BY ReaderFacts
  <1>2. /\ view.route \in {"outline", "blocks", "slides"}
        /\ UNCHANGED <<bodies, view, after, budget, collected, of, reading, held>>
    BY DEF Pages!LookUp
  <1>3. PICK i \in DOMAIN collected :
           looked' = [id |-> collected[i].id,
                      answer |-> IF view.route = "slides"
                                 THEN Pages!SlideRead(bodies[r], collected[i].id, bytes)
                                 ELSE Pages!BlockRead(bodies[r], collected[i].id, bytes)]
    BY <1>1 DEF Pages!LookUp
  <1>4. /\ of \in 1 .. r /\ bodies[of] \in Bodies /\ Pages!ReadKind(view.route) = bodies[of].kind
        /\ i \in DOMAIN ListedAt(of) /\ collected[i] = ListedAt(of)[i]
    BY CollectedIs
  <1>5. /\ bodies[r] \in Bodies /\ bodies[r].kind = bodies[of].kind
        /\ view.route = "slides" => Pages!IsDeck(bodies[r])
        /\ view.route # "slides" => Pages!IsForest(bodies[r])
    <2>1. bodies[r] \in Bodies
      BY <1>1
    <2>2. bodies[r].kind = bodies[of].kind
      BY <1>1, <1>4 DEF ReaderInv, OneKind
    <2>3. /\ view.route = "slides" => Pages!ReadKind(view.route) = "presentation"
          /\ view.route # "slides" => Pages!ReadKind(view.route) = "document"
      BY <1>2 DEF Pages!ReadKind
    <2>4. /\ bodies[r].kind = "presentation" => Pages!IsDeck(bodies[r])
          /\ bodies[r].kind = "document" => Pages!IsForest(bodies[r])
      BY <2>1 DEF Pages!PageConstants
    <2> QED
      BY <1>4, <2>1, <2>2, <2>3, <2>4
  <1> DEFINE id    == collected[i].id
             block == Pages!BlockRead(bodies[r], id, bytes)
             slide == Pages!SlideRead(bodies[r], id, bytes)
             answer == looked'.answer
  <1>6. /\ looked'.id = id
        /\ answer = IF view.route = "slides" THEN slide ELSE block
    BY <1>3
  <1>7. collected[i] \in Pages!ToSet(collected)
    BY DEF Pages!ToSet
  <1>8. ASSUME view.route # "slides"
        PROVE  /\ answer.status = "ok" => answer.revision = r
               /\ of = r => answer.status # "missing"
               /\ of = r /\ answer.status = "ok" => answer.item = collected[i]
    <2>1. answer.status = "ok" => answer.revision = r
      BY <1>1, <1>6, <1>8, FoundIs
    <2>2. ASSUME of = r
          PROVE  answer.status # "missing" /\ (answer.status = "ok" => answer.item = collected[i])
      <3>1. PICK body : body = bodies[r]
        OBVIOUS
      <3>2. i \in DOMAIN Pages!Listing(view, body) /\ collected[i] = Pages!Listing(view, body)[i]
        BY <1>4, <2>2, <3>1 DEF ListedAt
      <3>3. view.route \in {"outline", "blocks"} /\ Pages!IsForest(body)
        BY <1>2, <1>5, <1>8, <3>1
      <3>4. LET item == Pages!Listing(view, body)[i]
                read == Pages!BlockRead(body, item.id, bytes)
            IN  /\ read.status # "missing"
                /\ read.status = "ok" => read.item = item
        BY <3>2, <3>3, BlockReadIs
      <3> QED
        BY <1>6, <1>8, <3>1, <3>2, <3>4
    <2> QED
      BY <2>1, <2>2
  <1>9. ASSUME view.route = "slides"
        PROVE  /\ answer.status = "ok" =>
                     /\ answer.revision = r
                     /\ NodesAreChildren(SlideOf(bodies[r], id), answer.nodes)
               /\ of = r => answer.status # "missing"
               /\ of = r /\ answer.status = "ok" => answer.item = collected[i]
    <2>0. PICK body : body = bodies[r]
      OBVIOUS
    <2>1. Pages!IsDeck(body) /\ answer = Pages!SlideRead(body, id, bytes)
      BY <1>5, <1>6, <1>9, <2>0
    <2>2. answer.status = "ok" => \E s \in Pages!ToSet(body.slides) : s.id = id
      BY <2>1, FoundIs
    <2> HIDE DEF answer, bytes, r
    <2>3. ASSUME NEW s \in Pages!ToSet(body.slides), s.id = id
          PROVE  /\ answer.status # "missing"
                 /\ answer.status = "ok" =>
                       /\ answer.revision = Pages!revision /\ answer.item = Pages!SlideOutline(s)
                       /\ NodesAreChildren(SlideOf(body, id), answer.nodes)
      <3> HIDE DEF id
      <3>1. LET read == Pages!SlideRead(body, s.id, bytes)
            IN  /\ SlideOf(body, s.id) = s
                /\ read.status # "missing"
                /\ read.status = "ok" =>
                      /\ read.revision = Pages!revision /\ read.item = Pages!SlideOutline(s)
                      /\ NodesAreChildren(s, read.nodes)
        BY <2>1, SlideReadIs
      <3> QED
        BY <2>1, <2>3, <3>1
    <2>4. answer.status = "ok" =>
             answer.revision = r /\ NodesAreChildren(SlideOf(bodies[r], id), answer.nodes)
      BY <1>1, <2>0, <2>2, <2>3
    <2>5. ASSUME of = r
          PROVE  answer.status # "missing" /\ (answer.status = "ok" => answer.item = collected[i])
      <3>1. ListedAt(of) = [k \in DOMAIN body.slides |-> Pages!SlideOutline(body.slides[k])]
        BY <1>9, <2>0, <2>5 DEF ListedAt, Pages!Listing
      <3>2. i \in DOMAIN body.slides /\ collected[i] = Pages!SlideOutline(body.slides[i])
        BY <1>4, <3>1
      <3>3. body.slides[i] \in Pages!ToSet(body.slides) /\ body.slides[i].id = id
        BY <3>2 DEF Pages!ToSet, Pages!SlideOutline
      <3> QED
        BY <2>3, <3>2, <3>3
    <2> QED
      BY <2>4, <2>5
  <1> HIDE DEF id, answer, block, slide, bytes
  <1>10. r' = r /\ of' = of /\ collected' = collected /\ bodies' = bodies /\ view' = view
    BY <1>2
  <1>11. Looked(looked)'
    <2> HIDE DEF r
    <2>1. IF answer.status = "ok" /\ answer.revision = of THEN answer.item \in Pages!ToSet(collected)
          ELSE answer.status = "missing" => of < r
      BY <1>1, <1>4, <1>7, <1>8, <1>9
    <2>2. view.route = "slides" /\ answer.status = "ok" =>
             /\ answer.revision \in 1 .. r
             /\ NodesAreChildren(SlideOf(bodies[answer.revision], looked'.id), answer.nodes)
      BY <1>1, <1>6, <1>9
    <2> QED
      BY <1>10, <2>1, <2>2 DEF Looked, answer, r
  <1>12. OneKind' /\ Holds(held)' /\ \A q : ListedAt(q)' = ListedAt(q)
    <2>1. OneKind' /\ (\A kept : Holds(kept) => Holds(kept)') /\ \A q : ListedAt(q)' = ListedAt(q)
      BY <1>2, RestKeeps DEF ReaderInv
    <2>2. Holds(held)'
      BY <1>2, RestKeeps DEF ReaderInv, Holds
    <2> QED
      BY <2>1, <2>2
  <1>13. Reader'
    <2>1. collected # <<>>
      BY <1>3
    <2> QED
      BY <1>2, <1>12, <2>1 DEF ReaderInv, Reader
  <1>14. Pages!TypeOK'
    BY <1>2 DEF ReaderInv, Pages!TypeOK, Pages!revision
  <1> QED
    BY <1>11, <1>12, <1>13, <1>14 DEF ReaderInv

\* Every step of a reader keeps the invariant.
LEMMA ReaderNextKeeps ==
    ASSUME Pages!PageConstants, ReaderInv, Pages!Next \/ UNCHANGED Pages!vars
    PROVE  ReaderInv'
  <1>1. CASE UNCHANGED Pages!vars
    <2>1. UNCHANGED <<bodies, view, after, budget, collected, of, reading, held, looked>>
      BY <1>1 DEF Pages!vars
    <2>2. OneKind' /\ (\A kept : Holds(kept) => Holds(kept)') /\ \A q : ListedAt(q)' = ListedAt(q)
      BY <2>1, RestKeeps DEF ReaderInv
    <2>3. Pages!TypeOK'
      BY <2>1 DEF ReaderInv, Pages!TypeOK, Pages!revision
    <2>4. Reader'
      BY <2>1, <2>2 DEF ReaderInv, Reader
    <2>5. Looked(looked)'
      BY <2>1 DEF ReaderInv, Looked
    <2>6. Holds(held)'
      BY <2>1, RestKeeps DEF ReaderInv, Holds
    <2> QED
      BY <2>2, <2>3, <2>4, <2>5, <2>6 DEF ReaderInv
  <1> QED
    BY <1>1, CommitKeeps, ReadKeeps, RecheckKeeps, LookUpKeeps DEF Pages!Next

--------------------------------------------------------------------------------
(* The theorems about the files and the scene are about this module's           *)
(* definitions: the two instances of each say the same.                         *)

FilesThm == INSTANCE ArtifactFilesProofs WITH MaxRevision <- MaxFileRevision
SceneThm == INSTANCE SceneIndexProofs

LEMMA SameFileConstants == FilesThm!FileConstants = Files!FileConstants
  BY DEF
      Files!FileConstants, FilesThm!FileConstants, Files!Rows, FilesThm!Rows

LEMMA SameFilesInit == FilesThm!Init = Files!Init
  BY DEF
      Files!Init, FilesThm!Init, Files!NoAssets, FilesThm!NoAssets

LEMMA SameFilesNext == FilesThm!Next = Files!Next
  BY DEF
      Files!Next, FilesThm!Next, Files!CollectAsset, FilesThm!CollectAsset,
      Files!historyVars, FilesThm!historyVars, Files!handlerVars,
      FilesThm!handlerVars, Files!Asset, FilesThm!Asset, Files!ForgetAsset,
      FilesThm!ForgetAsset, Files!Recorded, FilesThm!Recorded, Files!CollectBlob,
      FilesThm!CollectBlob, Files!Referenced, FilesThm!Referenced, Files!Snapshots,
      FilesThm!Snapshots, Files!Snapshot, FilesThm!Snapshot, Files!Source,
      FilesThm!Source, Files!Start, FilesThm!Start, Files!Crash, FilesThm!Crash,
      Files!Abandon, FilesThm!Abandon, Files!Done, FilesThm!Done, Files!Goto,
      FilesThm!Goto, Files!Removal, FilesThm!Removal, Files!DeleteRow,
      FilesThm!DeleteRow, Files!RemoveRow, FilesThm!RemoveRow, Files!NoAssets,
      FilesThm!NoAssets, Files!DeleteSnapshot, FilesThm!DeleteSnapshot,
      Files!ListSnapshots, FilesThm!ListSnapshots, Files!fileVars, FilesThm!fileVars,
      Files!DeleteSource, FilesThm!DeleteSource, Files!Delete, FilesThm!Delete,
      Files!DeleteArtifact, FilesThm!DeleteArtifact, Files!Commit, FilesThm!Commit,
      Files!CommitRow, FilesThm!CommitRow, Files!Release, FilesThm!Release,
      Files!Counted, FilesThm!Counted, Files!PutCandidate, FilesThm!PutCandidate,
      Files!LoadForCommit, FilesThm!LoadForCommit, Files!AssetRequest,
      FilesThm!AssetRequest, Files!DeleteAssetBytes, FilesThm!DeleteAssetBytes,
      Files!TheAsset, FilesThm!TheAsset, Files!DeleteAssetRow,
      FilesThm!DeleteAssetRow, Files!Deletable, FilesThm!Deletable, Files!ReadAsset,
      FilesThm!ReadAsset, Files!RegisterUpload, FilesThm!RegisterUpload,
      Files!DiscardUpload, FilesThm!DiscardUpload, Files!InsertUpload,
      FilesThm!InsertUpload, Files!Upload, FilesThm!Upload, Files!Import,
      FilesThm!Import, Files!Clean, FilesThm!Clean, Files!CountImported,
      FilesThm!CountImported, Files!RegisterImportedAsset,
      FilesThm!RegisterImportedAsset, Files!ImportedAsset, FilesThm!ImportedAsset,
      Files!InsertImportedAsset, FilesThm!InsertImportedAsset, Files!PutImportedAsset,
      FilesThm!PutImportedAsset, Files!NextOrClean, FilesThm!NextOrClean,
      Files!RegisterBlobs, FilesThm!RegisterBlobs, Files!InsertArtifact,
      FilesThm!InsertArtifact, Files!PutFirstSnapshot, FilesThm!PutFirstSnapshot,
      Files!Put, FilesThm!Put, Files!ContinueOrFail, FilesThm!ContinueOrFail,
      Files!PutSource, FilesThm!PutSource, Files!Create, FilesThm!Create

LEMMA SameFilesTypeOK == FilesThm!TypeOK = Files!TypeOK
  BY DEF
      Files!TypeOK, FilesThm!TypeOK, Files!HandlersOK, FilesThm!HandlersOK,
      Files!Labels, FilesThm!Labels, Files!Objects, FilesThm!Objects, Files!Asset,
      FilesThm!Asset, Files!Snapshot, FilesThm!Snapshot, Files!Source,
      FilesThm!Source, Files!Rows, FilesThm!Rows

LEMMA SameFilesNamedObjectsAreStored ==
  FilesThm!NamedObjectsAreStored = Files!NamedObjectsAreStored
  BY DEF
      Files!NamedObjectsAreStored, FilesThm!NamedObjectsAreStored, Files!Asset,
      FilesThm!Asset, Files!Snapshots, FilesThm!Snapshots, Files!Snapshot,
      FilesThm!Snapshot, Files!Source, FilesThm!Source

LEMMA SameSceneConstants == SceneThm!IndexConstants = Scene!IndexConstants
  BY DEF
      Scene!IndexConstants, SceneThm!IndexConstants

LEMMA SameSceneInit == SceneThm!Init = Scene!Init
  BY DEF
      Scene!Init, SceneThm!Init

LEMMA SameSceneNext == SceneThm!Next = Scene!Next
  <1>1. SceneThm!AddElement = Scene!AddElement
    BY DEF
       Scene!AddElement, SceneThm!AddElement, Scene!IdsOf, SceneThm!IdsOf,
       Scene!Rearrange, SceneThm!Rearrange, Scene!ApplyDelta, SceneThm!ApplyDelta,
       Scene!Patched, SceneThm!Patched, Scene!Upsert, SceneThm!Upsert, Scene!Fits,
       SceneThm!Fits, Scene!Right, SceneThm!Right, Scene!Bottom, SceneThm!Bottom,
       Scene!CellCoord, SceneThm!CellCoord, Scene!With, SceneThm!With, Scene!Entries,
       SceneThm!Entries, Scene!CellsForRect, SceneThm!CellsForRect, Scene!Taken,
       SceneThm!Taken, Scene!Without, SceneThm!Without, Scene!RemoveElement,
       SceneThm!RemoveElement, Scene!FoldLeft, SceneThm!FoldLeft,
       Scene!MapThenFoldSet, SceneThm!MapThenFoldSet, Scene!Max, SceneThm!Max,
       Scene!Indexed, SceneThm!Indexed, Scene!Put, SceneThm!Put, Scene!Changes,
       SceneThm!Changes, Scene!Change, SceneThm!Change, Scene!ToSet, SceneThm!ToSet,
       Scene!SetToSeqs, SceneThm!SetToSeqs, Scene!Cardinality, SceneThm!Cardinality,
       Scene!InsertAt, SceneThm!InsertAt
  <1>2. SceneThm!MoveElement = Scene!MoveElement
    BY DEF
       Scene!MoveElement, SceneThm!MoveElement, Scene!Rearrange, SceneThm!Rearrange,
       Scene!ApplyDelta, SceneThm!ApplyDelta, Scene!Patched, SceneThm!Patched,
       Scene!Upsert, SceneThm!Upsert, Scene!Fits, SceneThm!Fits, Scene!Right,
       SceneThm!Right, Scene!Bottom, SceneThm!Bottom, Scene!CellCoord,
       SceneThm!CellCoord, Scene!With, SceneThm!With, Scene!Entries, SceneThm!Entries,
       Scene!CellsForRect, SceneThm!CellsForRect, Scene!Taken, SceneThm!Taken,
       Scene!Without, SceneThm!Without, Scene!RemoveElement, SceneThm!RemoveElement,
       Scene!FoldLeft, SceneThm!FoldLeft, Scene!MapThenFoldSet,
       SceneThm!MapThenFoldSet, Scene!Max, SceneThm!Max, Scene!Indexed,
       SceneThm!Indexed, Scene!Put, SceneThm!Put, Scene!Changes, SceneThm!Changes,
       Scene!Change, SceneThm!Change, Scene!IdsOf, SceneThm!IdsOf, Scene!ToSet,
       SceneThm!ToSet, Scene!SetToSeqs, SceneThm!SetToSeqs, Scene!Cardinality,
       SceneThm!Cardinality
  <1>3. SceneThm!DeleteElement = Scene!DeleteElement
    BY DEF
       Scene!DeleteElement, SceneThm!DeleteElement, Scene!Rearrange,
       SceneThm!Rearrange, Scene!ApplyDelta, SceneThm!ApplyDelta, Scene!Patched,
       SceneThm!Patched, Scene!Upsert, SceneThm!Upsert, Scene!Fits, SceneThm!Fits,
       Scene!Right, SceneThm!Right, Scene!Bottom, SceneThm!Bottom, Scene!CellCoord,
       SceneThm!CellCoord, Scene!With, SceneThm!With, Scene!Entries, SceneThm!Entries,
       Scene!CellsForRect, SceneThm!CellsForRect, Scene!Taken, SceneThm!Taken,
       Scene!Without, SceneThm!Without, Scene!RemoveElement, SceneThm!RemoveElement,
       Scene!FoldLeft, SceneThm!FoldLeft, Scene!MapThenFoldSet,
       SceneThm!MapThenFoldSet, Scene!Max, SceneThm!Max, Scene!Indexed,
       SceneThm!Indexed, Scene!Put, SceneThm!Put, Scene!Changes, SceneThm!Changes,
       Scene!Change, SceneThm!Change, Scene!IdsOf, SceneThm!IdsOf, Scene!ToSet,
       SceneThm!ToSet, Scene!SetToSeqs, SceneThm!SetToSeqs, Scene!Cardinality,
       SceneThm!Cardinality, Scene!RemoveAt, SceneThm!RemoveAt
  <1>4. SceneThm!Rebuild = Scene!Rebuild
    BY DEF
       Scene!Rebuild, SceneThm!Rebuild, Scene!Build, SceneThm!Build, Scene!Empty,
       SceneThm!Empty, Scene!ApplyDelta, SceneThm!ApplyDelta, Scene!Patched,
       SceneThm!Patched, Scene!Upsert, SceneThm!Upsert, Scene!Fits, SceneThm!Fits,
       Scene!Right, SceneThm!Right, Scene!Bottom, SceneThm!Bottom, Scene!CellCoord,
       SceneThm!CellCoord, Scene!With, SceneThm!With, Scene!Entries, SceneThm!Entries,
       Scene!CellsForRect, SceneThm!CellsForRect, Scene!Taken, SceneThm!Taken,
       Scene!Without, SceneThm!Without, Scene!RemoveElement, SceneThm!RemoveElement,
       Scene!FoldLeft, SceneThm!FoldLeft, Scene!MapThenFoldSet,
       SceneThm!MapThenFoldSet, Scene!Max, SceneThm!Max, Scene!Change,
       SceneThm!Change, Scene!Put, SceneThm!Put
  <1>5. SceneThm!SelectRect = Scene!SelectRect
    BY DEF
       Scene!SelectRect, SceneThm!SelectRect, Scene!Fits, SceneThm!Fits, Scene!Right,
       SceneThm!Right, Scene!Bottom, SceneThm!Bottom, Scene!CellCoord,
       SceneThm!CellCoord, Scene!SortedBy, SceneThm!SortedBy, Scene!Ascending,
       SceneThm!Ascending, Scene!ToSet, SceneThm!ToSet, Scene!Cardinality,
       SceneThm!Cardinality, Scene!Hits, SceneThm!Hits, Scene!Intersects,
       SceneThm!Intersects, Scene!CellsForRect, SceneThm!CellsForRect, Scene!Indexed,
       SceneThm!Indexed, Scene!Chosen, SceneThm!Chosen, Scene!IdsOf, SceneThm!IdsOf
  <1> QED
    BY <1>1, <1>2, <1>3, <1>4, <1>5, Zenon DEF Scene!Next, SceneThm!Next

LEMMA SameSceneTypeOK == SceneThm!TypeOK = Scene!TypeOK
  BY DEF
      Scene!TypeOK, SceneThm!TypeOK, Scene!IsInjective, SceneThm!IsInjective

LEMMA SameSceneQueriesAgree == SceneThm!SceneQueriesAgree = Scene!SceneQueriesAgree
  BY DEF
      Scene!SceneQueriesAgree, SceneThm!SceneQueriesAgree, Scene!Right,
      SceneThm!Right, Scene!Bottom, SceneThm!Bottom, Scene!Intersects,
      SceneThm!Intersects, Scene!Fits, SceneThm!Fits, Scene!CellCoord,
      SceneThm!CellCoord, Scene!Build, SceneThm!Build, Scene!Empty, SceneThm!Empty,
      Scene!ApplyDelta, SceneThm!ApplyDelta, Scene!Patched, SceneThm!Patched,
      Scene!Upsert, SceneThm!Upsert, Scene!With, SceneThm!With, Scene!Entries,
      SceneThm!Entries, Scene!CellsForRect, SceneThm!CellsForRect, Scene!Taken,
      SceneThm!Taken, Scene!Without, SceneThm!Without, Scene!RemoveElement,
      SceneThm!RemoveElement, Scene!FoldLeft, SceneThm!FoldLeft, Scene!MapThenFoldSet,
      SceneThm!MapThenFoldSet, Scene!Max, SceneThm!Max, Scene!Change, SceneThm!Change,
      Scene!Hits, SceneThm!Hits, Scene!ViewArea, SceneThm!ViewArea,
      Scene!ScreenToWorld, SceneThm!ScreenToWorld, Scene!Project, SceneThm!Project,
      Scene!Anchors, SceneThm!Anchors, Scene!RouteConnector, SceneThm!RouteConnector,
      Scene!AnchorPoint, SceneThm!AnchorPoint, Scene!ExportBounds,
      SceneThm!ExportBounds, Scene!Around, SceneThm!Around, Scene!Lesser,
      SceneThm!Lesser, Scene!Greater, SceneThm!Greater, Scene!Indexed,
      SceneThm!Indexed, Scene!PlaceOf, SceneThm!PlaceOf, Scene!SnapIsNearest,
      SceneThm!SnapIsNearest, Scene!Distance2, SceneThm!Distance2, Scene!Near,
      SceneThm!Near, Scene!EdgePoints, SceneThm!EdgePoints, Scene!OnGrid,
      SceneThm!OnGrid, Scene!ToGrid, SceneThm!ToGrid, Scene!Magnitude,
      SceneThm!Magnitude, Scene!SnapPoint, SceneThm!SnapPoint, Scene!AtEdges,
      SceneThm!AtEdges, Scene!Nearer, SceneThm!Nearer, Scene!Unsnapped,
      SceneThm!Unsnapped, Scene!ToSet, SceneThm!ToSet

--------------------------------------------------------------------------------
(* The composition.                                                             *)

ServiceInv ==
    /\ part = "files"    => FilesThm!IInv
    /\ part = "feed"     => FeedInv
    /\ part = "follower" => FollowerInv
    /\ part = "board"    => Board!TypeOK
    /\ part = "scene"    => SceneThm!SceneInv
    /\ part = "migration" => MigrationIsKept
    /\ part = "pages"    => ReaderInv

LEMMA InitServiceInv == ServiceInit => ServiceInv
  <1> SUFFICES ASSUME ServiceInit PROVE ServiceInv
    OBVIOUS
  <1>1. ASSUME part = "files" PROVE FilesThm!IInv
    <2>1. FilesThm!Init /\ FilesThm!FileConstants
      BY <1>1, ServiceConstants, SameFilesInit, SameFileConstants DEF ServiceInit
    <2> QED
      BY <2>1, FilesThm!InitIInv
  <1>2. ASSUME part = "feed" PROVE FeedInv
    BY <1>2, ServiceConstants, FeedInit DEF ServiceInit
  <1>3. ASSUME part = "follower" PROVE FollowerInv
    BY <1>3, ServiceConstants, FollowerInit DEF ServiceInit
  <1>4. ASSUME part = "board" PROVE Board!TypeOK
    BY <1>4, ServiceConstants, BoardInit DEF ServiceInit
  <1>5. ASSUME part = "scene" PROVE SceneThm!SceneInv
    <2>1. Scene!Init /\ Scene!IndexConstants
      BY <1>5, ServiceConstants DEF ServiceInit
    <2>2. SceneThm!Init /\ SceneThm!IndexConstants
      BY <2>1, SameSceneInit, SameSceneConstants, Zenon
    <2> QED
      BY <2>2, SceneThm!SceneInit
  <1>6. ASSUME part = "migration" PROVE MigrationIsKept
    BY <1>6, ServiceConstants, InitIsKept DEF ServiceInit
  <1>7. ASSUME part = "pages" PROVE ReaderInv
    BY <1>7, ServiceConstants, ReaderInit DEF ServiceInit
  <1> QED
    BY <1>1, <1>2, <1>3, <1>4, <1>5, <1>6, <1>7 DEF ServiceInv

\* The part explored stays the same, and a step of the composition is one of the
\* part's or leaves its variables alone.
LEMMA PartSteps ==
  ASSUME [ServiceNext]_serviceVars
  PROVE  /\ part' = part
         /\ part = "files"    => [Files!Next]_(Files!vars)
         /\ part = "feed"     => [Feed!Next]_(Feed!vars)
         /\ part = "follower" => [Follower!Next]_(Follower!vars)
         /\ part = "board"    => [Board!Next]_(Board!vars)
         /\ part = "scene"    => [Scene!Next]_(Scene!vars)
         /\ part = "migration" => [Tools!Next]_(Tools!vars)
         /\ part = "pages"    => [Pages!Next]_(Pages!vars)
  <1>1. CASE HandleFiles
    BY <1>1 DEF HandleFiles, OnlyFiles
  <1>2. CASE HandleFeed
    BY <1>2 DEF HandleFeed, OnlyFeed
  <1>3. CASE HandleFollower
    BY <1>3 DEF HandleFollower, OnlyFollower
  <1>4. CASE HandleBoard
    BY <1>4 DEF HandleBoard, OnlyBoard
  <1>5. CASE HandleScene
    BY <1>5 DEF HandleScene, OnlyScene
  <1>6. CASE HandleMigration
    BY <1>6 DEF HandleMigration, OnlyMigration
  <1>7. CASE HandlePages
    BY <1>7 DEF HandlePages, OnlyPages
  <1>8. CASE UNCHANGED serviceVars
    <2>1. /\ part' = part
          /\ UNCHANGED <<fileVars, feedVars, followerVars, boardVars, sceneVars, migrationVars, pageVars>>
      BY <1>8 DEF serviceVars
    <2>2. UNCHANGED Files!vars
      BY <2>1 DEF fileVars, Files!vars, Files!fileVars, Files!handlerVars, Files!historyVars
    <2>3. UNCHANGED Feed!vars /\ UNCHANGED Follower!vars /\ UNCHANGED Board!vars
      BY <2>1 DEF feedVars, followerVars, boardVars, Feed!vars, Follower!vars, Board!vars
    <2>4. UNCHANGED Scene!vars
      BY <2>1 DEF sceneVars, Scene!vars
    <2>5. UNCHANGED Tools!vars
      BY <2>1 DEF migrationVars, Tools!vars, Tools!stagingVars, Tools!toolVars
    <2>6. UNCHANGED Pages!vars
      BY <2>1 DEF pageVars, Pages!vars
    <2> QED
      BY <2>1, <2>2, <2>3, <2>4, <2>5, <2>6
  <1> QED
    BY <1>1, <1>2, <1>3, <1>4, <1>5, <1>6, <1>7, <1>8 DEF ServiceNext

LEMMA NextServiceInv == ServiceInv /\ [ServiceNext]_serviceVars => ServiceInv'
  <1> SUFFICES ASSUME ServiceInv, [ServiceNext]_serviceVars PROVE ServiceInv'
    OBVIOUS
  <1>0. part' = part
    BY PartSteps
  <1>1. ASSUME part = "files" PROVE FilesThm!IInv'
    <2>1. FilesThm!IInv /\ FilesThm!FileConstants
      BY <1>1, ServiceConstants, SameFileConstants DEF ServiceInv
    <2>2. [Files!Next]_(Files!vars)
      BY <1>1, PartSteps
    <2>3. CASE Files!Next
      <3>1. FilesThm!Next
        BY <2>3, SameFilesNext, Zenon
      <3> QED
        BY <2>1, <3>1, FilesThm!NextIInv
    <2>4. CASE UNCHANGED Files!vars
      <3>1. UNCHANGED FilesThm!vars
        BY <2>4 DEF Files!vars, Files!fileVars, Files!handlerVars, Files!historyVars,
             FilesThm!vars, FilesThm!fileVars, FilesThm!handlerVars, FilesThm!historyVars
      <3> QED
        BY <2>1, <3>1, FilesThm!NextIInv
    <2> QED
      BY <2>2, <2>3, <2>4
  <1>2. ASSUME part = "feed" PROVE FeedInv'
    BY <1>2, ServiceConstants, PartSteps, FeedNextKeeps DEF ServiceInv
  <1>3. ASSUME part = "follower" PROVE FollowerInv'
    BY <1>3, ServiceConstants, PartSteps, FollowerNextKeeps DEF ServiceInv
  <1>4. ASSUME part = "board" PROVE Board!TypeOK'
    BY <1>4, ServiceConstants, PartSteps, BoardNextKeeps DEF ServiceInv
  <1>5. ASSUME part = "scene" PROVE SceneThm!SceneInv'
    <2>1. SceneThm!SceneInv /\ Scene!IndexConstants /\ [Scene!Next]_(Scene!vars)
      BY <1>5, ServiceConstants, PartSteps DEF ServiceInv
    <2>2. SceneThm!IndexConstants
      BY <2>1, SameSceneConstants, Zenon
    <2>3. CASE Scene!Next
      <3>1. SceneThm!Next
        BY <2>3, SameSceneNext, Zenon
      <3> QED
        BY <2>1, <2>2, <3>1, SceneThm!SceneNextKeeps
    <2>4. CASE UNCHANGED Scene!vars
      <3>1. UNCHANGED SceneThm!vars
        BY <2>4 DEF Scene!vars, SceneThm!vars
      <3> QED
        BY <2>1, <2>2, <3>1, SceneThm!SceneNextKeeps
    <2> QED
      BY <2>1, <2>3, <2>4
  <1>6. ASSUME part = "migration" PROVE MigrationIsKept'
    BY <1>6, ServiceConstants, PartSteps, NextIsKept DEF ServiceInv
  <1>7. ASSUME part = "pages" PROVE ReaderInv'
    BY <1>7, ServiceConstants, PartSteps, ReaderNextKeeps DEF ServiceInv
  <1> QED
    BY <1>0, <1>1, <1>2, <1>3, <1>4, <1>5, <1>6, <1>7 DEF ServiceInv

LEMMA ServiceInvariant == ServiceSpec => []ServiceInv
  BY InitServiceInv, NextServiceInv, PTL DEF ServiceSpec

\* The state of every service keeps to its types; for the files: a handler past the
\* write lock holds it; for the scene: no two elements share an id.
THEOREM ServiceTypesHold == ServiceSpec => []ServiceTypeOK
  <1>1. ServiceInv => ServiceTypeOK
    <2> SUFFICES ASSUME ServiceInv PROVE ServiceTypeOK
      OBVIOUS
    <2>1. ASSUME part = "files" PROVE Files!TypeOK
      BY <2>1, SameFilesTypeOK DEF ServiceInv, FilesThm!IInv
    <2>2. ASSUME part = "scene" PROVE Scene!TypeOK
      <3>1. SceneThm!TypeOK
        BY <2>2, SceneThm!SceneInvTypes DEF ServiceInv
      <3> QED
        BY <3>1, SameSceneTypeOK, Zenon
    <2>3. ASSUME part = "migration" PROVE Tools!TypeOK
      BY <2>3, ServiceConstants, KeptSaysSo DEF ServiceInv
    <2> QED
      BY <2>1, <2>2, <2>3
      DEF ServiceInv, ServiceTypeOK, FollowerInv, FeedInv, ReaderInv
  <1> QED
    BY <1>1, ServiceInvariant, PTL

\* However handlers of artifact_routes, asset_routes and db interleave, fail and
\* crash, an Artifact nobody removes keeps its source, its snapshots and the assets
\* its current snapshot names.
THEOREM NamedObjectsStayStored == ServiceSpec => []NamedObjectsAreStored
  <1>1. ServiceInv => NamedObjectsAreStored
    <2> SUFFICES ASSUME ServiceInv, part = "files" PROVE Files!NamedObjectsAreStored
      BY DEF NamedObjectsAreStored
    <2>1. FilesThm!NamedObjectsAreStored
      BY ServiceConstants, SameFileConstants, FilesThm!IInvNames DEF ServiceInv
    <2> QED
      BY <2>1, SameFilesNamedObjectsAreStored, Zenon
  <1> QED
    BY <1>1, ServiceInvariant, PTL

\* EventFeedConsumer.accept goes past no event its caller was not handed, however
\* commits interleave with the pages and whichever requests are lost.
THEOREM FeedSkipsNothing == ServiceSpec => []NoEventIsSkipped
  <1>1. ServiceInv => NoEventIsSkipped
    BY DEF ServiceInv, NoEventIsSkipped, FeedInv
  <1> QED
    BY <1>1, ServiceInvariant, PTL

\* update_projection keeps a layer only when the full projection would have made the
\* same of it, unless a load was overtaken, failed, or ran ahead of its notice.
THEOREM IncrementalIsFull == ServiceSpec => []StaleOnlyAfterARace
  <1>1. ServiceInv => StaleOnlyAfterARace
    BY DEF ServiceInv, StaleOnlyAfterARace, FollowerInv
  <1> QED
    BY <1>1, ServiceInvariant, PTL

\* The grid an editor patches with its edits answers every query as the scene does,
\* in every order the changes of an edit are met, until a patch is refused; points
\* snap to what is nearest, connectors run at right angles, exports cover the scene.
THEOREM SceneAnswersAgree == ServiceSpec => []SceneQueriesAgree
  <1>1. ServiceInv => SceneQueriesAgree
    <2> SUFFICES ASSUME ServiceInv, part = "scene" PROVE Scene!SceneQueriesAgree
      BY DEF SceneQueriesAgree
    <2>1. SceneThm!SceneInv /\ SceneThm!IndexConstants
      BY ServiceConstants, SameSceneConstants, Zenon DEF ServiceInv
    <2>2. SceneThm!SceneQueriesAgree
      BY <2>1, SceneThm!SceneInvAnswers
    <2> QED
      BY <2>2, SameSceneQueriesAgree, Zenon
  <1> QED
    BY <1>1, ServiceInvariant, PTL

\* Wherever the schema converter, the Presentation compiler and the registration end
\* or crash, and whichever access fails: a snapshot is what it was, or what its
\* conversion makes of it while a copy is kept; the staging runs pointed to are whole;
\* a write-back undone is undone, a success leaves nothing unconverted.
THEOREM MigrationsLoseNothing == ServiceSpec => []MigrationLosesNothing
  <1>1. ServiceInv => MigrationLosesNothing
    BY ServiceConstants, KeptSaysSo DEF ServiceInv, MigrationLosesNothing
  <1> QED
    BY <1>1, ServiceInvariant, PTL

\* Whatever snapshots the tools find: a deck they write over a version 4 Presentation
\* holds its elements' attributes, children, widths, animations and colours, or its
\* report names what it gave up, but for a shape's kind that is no string (see
\* DiscardsAreReported); a block of a document of version 1 to 3 says what its attrs
\* said, and its paragraph style where they were silent, but for what UnsaidAttrs and
\* StyleSays leave out.
THEOREM ConversionsAccount == ServiceSpec => []ConversionsAreAccounted
  <1>1. ServiceInv => ConversionsAreAccounted
    BY ServiceConstants, KeptSaysSo DEF ServiceInv, ConversionsAreAccounted
  <1> QED
    BY <1>1, ServiceInvariant, PTL

\* Whatever is committed between the pages of lib.rs's projections, a reader that
\* follows their cursors to the end has one revision's listing: every block, heading,
\* child or slide it asks for once, in order, under its headings, sections that make up
\* the document; its pages keep to their budget and limit, the answer an ETag confirms
\* is the one it would be sent, and a read of one item agrees with the list.
THEOREM PagesAreWhole == ServiceSpec => []PagesCoverTheDocument
  <1>1. ServiceInv => PagesCoverTheDocument
    BY ServiceConstants, ReaderCovers DEF ServiceInv, PagesCoverTheDocument
  <1> QED
    BY <1>1, ServiceInvariant, PTL

================================================================================
