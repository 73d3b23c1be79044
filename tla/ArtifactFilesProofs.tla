------------------------- MODULE ArtifactFilesProofs -------------------------
(***************************************************************************)
(* Proofs about ArtifactFiles.                                             *)
(*                                                                         *)
(* The objects an Artifact needs are written and removed by handlers that  *)
(* know nothing of each other, so the property is not inductive: IInv says *)
(* who has which asset in hand.  An asset id goes from unused to coming    *)
(* (drawn, no row yet), to registering (a row, no integrity), to           *)
(* registered, and is removed only once it has a row; every step moves     *)
(* assets along that way (AssetsMove), leaves what the other handlers      *)
(* stand on (Globals), and takes from the object store only what nobody    *)
(* needs (Spares).  StepKeeps draws from these three that a step keeps     *)
(* what the invariant says of the other handlers and of the assets; each   *)
(* action then shows its own label, the row and the snapshots.             *)
(***************************************************************************)
EXTENDS ArtifactFiles, TLAPS

--------------------------------------------------------------------------------
(* The inductive invariant.                                                     *)

Creating  == {"put source", "put first", "insert"}
Importing == {"register", "put asset", "insert asset", "asset integrity", "count"}
Locking   == {"put candidate", "commit"}

\* Assets a handler has drawn and not recorded yet, those it has recorded and not
\* registered yet, and those it deletes.
Coming(h) ==
    {a \in arg[h] :
       \/ pc[h] \in Creating \cup {"register", "put asset", "insert asset"} /\ a \in left[h]
       \/ pc[h] = "asset integrity" /\ a \in left[h] /\ a # ImportedAsset(h)
       \/ pc[h] = "insert upload"}

Registering(h) ==
    {a \in arg[h] :
       \/ pc[h] = "asset integrity" /\ a = ImportedAsset(h)
       \/ pc[h] = "upload integrity"}

Removing(h) == {a \in arg[h] : pc[h] \in {"delete asset", "delete bytes"}}

Fresh(a) ==
    /\ assetRow[a] = None
    /\ a \notin integrity
    /\ \A k \in Handlers : a \notin Registering(k) /\ a \notin Removing(k)

\* What a handler carries at each label.
CarriesInv(h) ==
    /\ pc[h] # "idle" => up /\ created
    /\ pc[h] \in Creating \cup {"register"} => left[h] = arg[h]
    /\ pc[h] \in {"put asset", "insert asset", "asset integrity"} =>
          left[h] \subseteq arg[h] /\ left[h] # {}
    /\ pc[h] \in {"insert upload", "upload integrity", "delete asset", "delete bytes"} =>
          \E a \in Assets : arg[h] = {a}
    /\ pc[h] \in Locking => base[h] + 1 \in 2 .. MaxRevision
    /\ pc[h] \in {"delete source", "list snapshots"} => base[h] >= 1
    /\ pc[h] = "delete snapshots" => left[h] \subseteq 1 .. MaxRevision

\* The Artifact is made once, before anybody can find it, and what was imported is
\* what its first snapshot names.
CreatesInv(h) ==
    /\ pc[h] \in Creating => row = None /\ ~answered
    /\ pc[h] \in {"put first", "insert"} => Source \in stored
    /\ pc[h] = "insert" => Snapshot(1) \in stored
    /\ pc[h] \in Importing /\ row # None => (row.revision = 1 => row.names = arg[h])

\* The holder of the lock commits onto the revision it loaded; snapshots are
\* removed only once removing the Artifact has begun.
CommitsInv(h) ==
    /\ pc[h] \in Locking /\ row # None => row.revision = base[h]
    /\ pc[h] = "commit" /\ ~doomed => Snapshot(base[h] + 1) \in stored
    /\ pc[h] \in {"list snapshots", "delete snapshots"} => doomed

\* An asset id is drawn once and registered at most once, by who drew it.
OwnsInv(h) ==
    /\ \A a \in Coming(h) : Fresh(a) /\ a \notin unused
    /\ \A a \in Registering(h) : a \notin integrity
    /\ pc[h] = "delete bytes" => \A a \in arg[h] : assetRow[a] = None

\* The bytes of an asset precede its row.
BytesInv(h) ==
    ~doomed =>
       /\ \A a \in Registering(h) \cap Recorded : Asset(a) \in stored
       /\ pc[h] = "insert upload" => \A a \in arg[h] : Asset(a) \in stored
       /\ pc[h] = "insert asset" => Asset(ImportedAsset(h)) \in stored

AtLabelInv(h) == CarriesInv(h) /\ CreatesInv(h) /\ CommitsInv(h) /\ BytesInv(h)
HandlerInv(h) == AtLabelInv(h) /\ OwnsInv(h)

\* One handler makes the Artifact, and no two have the same asset in hand.
ApartInv ==
    \A h, k \in Handlers :
       h # k => /\ pc[h] \in Creating => pc[k] = "idle"
                /\ Coming(h) \cap Coming(k) = {}
                /\ Registering(h) \cap Registering(k) = {}

RowInv ==
    /\ ~created => row = None /\ ~answered
    /\ row = None => assetRow = NoAssets

UnusedInv == \A a \in unused : Fresh(a)

\* The bytes of a recorded asset stay until its row is gone, unless its
\* registration failed.
AssetsInv == ~doomed => \A a \in Recorded \cap integrity : Asset(a) \in stored

SnapshotsInv ==
    row # None /\ ~doomed => Source \in stored /\ Snapshots(row) \subseteq stored

NamesInv ==
    row # None /\ (answered \/ row.revision > 1) /\ ~recounted =>
       \A a \in row.names : assetRow[a] = TRUE

IInv ==
    /\ TypeOK
    /\ \A h \in Handlers : HandlerInv(h)
    /\ ApartInv /\ RowInv /\ UnusedInv /\ AssetsInv /\ SnapshotsInv /\ NamesInv

--------------------------------------------------------------------------------
(* Lemmas on the helpers and on one step of a handler.                          *)

\* The keys of assets, snapshots and the source differ.
LEMMA ObjectsDiffer ==
    /\ \A a, b : Asset(a) = Asset(b) => a = b
    /\ \A v, w : Snapshot(v) = Snapshot(w) => v = w
    /\ \A a, v : Asset(a) # Snapshot(v)
    /\ \A a : Asset(a) # Source
    /\ \A v : Snapshot(v) # Source
  BY DEF Asset, Source, Snapshot

\* What an import works on is left to do; a request about one asset is about that one.
LEMMA Chosen ==
    ASSUME NEW h
    PROVE  /\ left[h] # {} => ImportedAsset(h) \in left[h]
           /\ \A a : arg[h] = {a} => TheAsset(h) = a
  BY DEF ImportedAsset, TheAsset

\* One step of h, and what it leaves of the others.
Moves(h, label, a, l, b) ==
    /\ pc' = [pc EXCEPT ![h] = label]
    /\ arg' = [arg EXCEPT ![h] = a]
    /\ left' = [left EXCEPT ![h] = l]
    /\ base' = [base EXCEPT ![h] = b]

Moved(h, label, a, l, b) ==
    /\ HandlersOK'
    /\ pc'[h] = label /\ arg'[h] = a /\ left'[h] = l /\ base'[h] = b
    /\ \A k \in Handlers \ {h} :
         /\ pc'[k] = pc[k] /\ arg'[k] = arg[k] /\ left'[k] = left[k] /\ base'[k] = base[k]
         /\ Coming(k)' = Coming(k) /\ Registering(k)' = Registering(k)
         /\ Removing(k)' = Removing(k) /\ ImportedAsset(k)' = ImportedAsset(k)

\* A step of h moves h and leaves the other handlers where they are.
LEMMA Move ==
    ASSUME FileConstants, HandlersOK, NEW h \in Handlers, NEW label \in Labels,
           NEW a \in SUBSET Assets, NEW l \in SUBSET (Assets \cup 1 .. MaxRevision),
           NEW b \in 0 .. MaxRevision, Moves(h, label, a, l, b)
    PROVE  Moved(h, label, a, l, b)
  <1>1. HandlersOK'
    BY DEF HandlersOK, Moves
  <1>2. pc'[h] = label /\ arg'[h] = a /\ left'[h] = l /\ base'[h] = b
    BY DEF HandlersOK, Moves
  <1>3. ASSUME NEW k \in Handlers \ {h}
        PROVE  pc'[k] = pc[k] /\ arg'[k] = arg[k] /\ left'[k] = left[k] /\ base'[k] = base[k]
    BY DEF HandlersOK, Moves
  <1>4. ASSUME NEW k \in Handlers \ {h}
        PROVE  /\ Coming(k)' = Coming(k) /\ Registering(k)' = Registering(k)
               /\ Removing(k)' = Removing(k) /\ ImportedAsset(k)' = ImportedAsset(k)
    BY <1>3 DEF Coming, Registering, Removing, ImportedAsset
  <1> QED
    BY <1>1, <1>2, <1>3, <1>4 DEF Moved

\* The groups of labels are labels.
LEMMA LabelsType ==
    /\ Creating \cup Importing \cup Locking \subseteq Labels
    /\ {"idle", "clean", "insert upload", "upload integrity", "delete asset", "delete bytes",
        "delete source", "list snapshots", "delete snapshots"} \subseteq Labels
  BY DEF Creating, Importing, Locking, Labels

\* What the invariant says of one handler.
LEMMA Parts ==
    ASSUME FileConstants, IInv, NEW h \in Handlers
    PROVE  /\ HandlersOK /\ pc[h] \in Labels /\ arg[h] \subseteq Assets
           /\ left[h] \subseteq Assets \cup 1 .. MaxRevision
           /\ base[h] \in 0 .. MaxRevision /\ 0 \in 0 .. MaxRevision
           /\ {doomed, answered, recounted, up, created} \subseteq BOOLEAN /\ stored \subseteq Objects
           /\ lock = h <=> pc[h] \in Locking
           /\ CarriesInv(h) /\ CreatesInv(h) /\ CommitsInv(h) /\ OwnsInv(h) /\ BytesInv(h)
  <1>1. TypeOK /\ HandlerInv(h)
    BY DEF IInv
  <1>2. HandlersOK
    BY <1>1 DEF TypeOK
  <1>3. pc[h] \in Labels /\ arg[h] \subseteq Assets /\ base[h] \in 0 .. MaxRevision
        /\ left[h] \subseteq Assets \cup 1 .. MaxRevision /\ 0 \in 0 .. MaxRevision
    BY <1>2 DEF HandlersOK, FileConstants
  <1>4. {doomed, answered, recounted, up, created} \subseteq BOOLEAN /\ stored \subseteq Objects
    BY <1>1 DEF TypeOK
  <1>5. lock = h <=> pc[h] \in Locking
    BY <1>1 DEF TypeOK, Locking
  <1> QED
    BY <1>1, <1>2, <1>3, <1>4, <1>5 DEF HandlerInv, AtLabelInv

\* What the invariant says of a row that is there.
LEMMA RowType ==
    ASSUME FileConstants, IInv, row # None
    PROVE  /\ row.revision \in 1 .. MaxRevision /\ row.revision \in Nat \ {0}
           /\ row.names \subseteq Assets /\ created /\ MaxRevision \in Nat
  <1>1. TypeOK /\ created
    BY DEF IInv, RowInv
  <1>2. row \in Rows
    BY <1>1 DEF TypeOK
  <1> QED
    BY <1>1, <1>2 DEF FileConstants, Rows

\* What is taken out of the object store is needed by nobody but h.
Spares(h) ==
    \A x \in stored \ stored' :
       \/ \E a \in Assets :
            /\ x = Asset(a)
            /\ a \in Recorded => a \notin integrity
            /\ \A k \in Handlers \ {h} :
                 a \notin Coming(k) /\ (a \in Recorded => a \notin Registering(k))
       \/ \E v \in 1 .. MaxRevision :
            /\ x = Snapshot(v) /\ (row # None => row.revision < v)
            /\ \A k \in Handlers \ {h} : pc[k] # "commit"

\* What a step of h changes, as far as the others can tell: assets go from unused
\* to coming, registering and registered, and only the recorded are removed.
AssetsMove(h) ==
    /\ unused' \subseteq unused
    /\ Coming(h)' \subseteq Coming(h) \cup unused
    /\ Coming(h)' \cap (unused' \cup Recorded' \cup Registering(h)') = {}
    /\ Recorded' \subseteq Recorded \cup Coming(h)
    /\ Registering(h)' \subseteq Registering(h) \cup Coming(h)
    /\ Registering(h)' \cap (integrity' \cup unused') = {}
    /\ integrity' \subseteq integrity \cup Registering(h)
    /\ integrity' \subseteq integrity \/ stored \subseteq stored'
    /\ Removing(h)' \subseteq Removing(h) \cup Recorded
    /\ pc'[h] = "delete bytes" => arg'[h] \cap Recorded' = {}

Globals(h) ==
    /\ up' = up /\ (created => created') /\ (doomed => doomed')
    /\ {doomed, doomed'} \subseteq BOOLEAN
    /\ ~doomed' => Spares(h)
    /\ \A k \in Handlers \ {h} : pc[k] \notin Creating /\ (pc'[h] \in Creating => pc[k] = "idle")
    /\ \/ row' \in {row, None}
       \/ /\ \A k \in Handlers \ {h} : pc[k] \notin Locking
          /\ row'.revision # 1 \/ \A k \in Handlers \ {h} : pc[k] = "idle"

\* A fresh asset stays fresh in a step that does not record or register it.
LEMMA FreshKeeps ==
    ASSUME FileConstants, IInv, NEW h \in Handlers, NEW label, NEW a, NEW l, NEW b,
           Moved(h, label, a, l, b), AssetsMove(h),
           NEW x \in Assets, Fresh(x), x \notin Recorded', x \notin Registering(h)'
    PROVE  Fresh(x)'
  <1>1. assetRow'[x] = None
    BY DEF Recorded
  <1>2. x \notin integrity'
    BY DEF Fresh, AssetsMove
  <1>3. x \notin Recorded
    BY DEF Fresh, Recorded
  <1>4. ASSUME NEW k \in Handlers PROVE x \notin Registering(k)' /\ x \notin Removing(k)'
    <2>1. CASE k = h
      BY <1>3, <2>1 DEF Fresh, AssetsMove
    <2>2. CASE k # h
      BY <2>2 DEF Fresh, Moved
    <2> QED
      BY <2>1, <2>2
  <1> QED
    BY <1>1, <1>2, <1>4 DEF Fresh

\* What the invariant says of another handler outlives a step of h.
LEMMA OthersKeep ==
    ASSUME FileConstants, IInv, NEW h \in Handlers, NEW label, NEW a, NEW l, NEW b,
           Moved(h, label, a, l, b), AssetsMove(h), Globals(h), NEW k \in Handlers, k # h
    PROVE  HandlerInv(k)'
  <1>1. /\ pc'[k] = pc[k] /\ arg'[k] = arg[k] /\ left'[k] = left[k] /\ base'[k] = base[k]
        /\ Coming(k)' = Coming(k) /\ Registering(k)' = Registering(k)
        /\ Removing(k)' = Removing(k) /\ ImportedAsset(k)' = ImportedAsset(k)
    BY DEF Moved
  <1>2. CarriesInv(k)'
    BY <1>1, Parts DEF CarriesInv, Globals
  <1>3. CreatesInv(k)' /\ CommitsInv(k)'
    <2>1. pc[k] \notin Creating
      BY DEF Globals
    <2>2. CASE row' \in {row, None}
      <3>1. CreatesInv(k)'
        BY <1>1, <2>1, <2>2, Parts DEF CreatesInv, Creating
      <3>2. pc[k] = "commit" /\ ~doomed' => Snapshot(base[k] + 1) \in stored'
        <4> SUFFICES ASSUME pc[k] = "commit", ~doomed'
                     PROVE  Snapshot(base[k] + 1) \in stored'
          OBVIOUS
        <4>1. Snapshot(base[k] + 1) \in stored /\ Spares(h)
          BY Parts DEF CommitsInv, Globals
        <4> QED
          BY <4>1, ObjectsDiffer DEF Spares
      <3> QED
        BY <1>1, <2>2, <3>1, <3>2, Parts DEF CommitsInv, Globals
    <2>3. CASE /\ pc[k] \notin Locking
               /\ row'.revision # 1 \/ pc[k] = "idle"
      BY <1>1, <2>1, <2>3, Parts DEF CreatesInv, CommitsInv, Globals, Creating, Importing, Locking
    <2> QED
      BY <2>2, <2>3 DEF Globals
  <1>4. /\ Coming(k) \subseteq Assets /\ Registering(k) \subseteq Assets /\ arg[k] \subseteq Assets
        /\ \A x \in Coming(h) : Fresh(x)
        /\ Coming(k) \cap Coming(h) = {} /\ Registering(k) \cap Registering(h) = {}
    BY Parts DEF Coming, Registering, OwnsInv, IInv, ApartInv
  <1>5. OwnsInv(k)'
    <2>1. ASSUME NEW x \in Coming(k) PROVE Fresh(x)' /\ x \notin unused'
      <3>1. Fresh(x) /\ x \notin unused /\ x \in Assets
        BY <1>4, Parts DEF OwnsInv
      <3>2. x \notin Recorded' /\ x \notin Registering(h)' /\ x \notin unused'
        BY <1>4, <3>1 DEF AssetsMove, Fresh, Recorded
      <3> QED
        BY <3>1, <3>2, FreshKeeps
    <2>2. ASSUME NEW x \in Registering(k) PROVE x \notin integrity'
      BY <1>4, Parts DEF OwnsInv, AssetsMove
    <2>3. ASSUME pc[k] = "delete bytes", NEW x \in arg[k] PROVE assetRow'[x] = None
      <3>1. x \in Removing(k) /\ x \notin Recorded /\ x \in Assets
        BY <1>4, <2>3, Parts DEF Removing, OwnsInv, Recorded
      <3>2. x \notin Coming(h)
        BY <1>4, <3>1 DEF Fresh
      <3> QED
        BY <3>1, <3>2 DEF AssetsMove, Recorded
    <2> QED
      BY <1>1, <2>1, <2>2, <2>3 DEF OwnsInv
  <1>6. BytesInv(k)'
    <2> SUFFICES ASSUME ~doomed' PROVE BytesInv(k)'
      BY DEF BytesInv
    <2>1. ~doomed /\ Spares(h)
      BY DEF Globals
    <2>2. ASSUME NEW x \in Assets, Asset(x) \in stored,
                 x \in Coming(k) \/ (x \in Registering(k) /\ x \in Recorded)
          PROVE  Asset(x) \in stored'
      BY <2>1, <2>2, ObjectsDiffer DEF Spares
    <2>3. ASSUME NEW x \in Registering(k) \cap Recorded' PROVE Asset(x) \in stored'
      <3>1. x \in Recorded
        BY <1>4 DEF AssetsMove, Fresh
      <3>2. Asset(x) \in stored
        BY <2>1, <3>1, Parts DEF BytesInv
      <3> QED
        BY <1>4, <2>2, <3>1, <3>2
    <2>4. ASSUME pc[k] = "insert upload", NEW x \in arg[k] PROVE Asset(x) \in stored'
      <3>1. x \in Coming(k) /\ Asset(x) \in stored
        BY <2>1, <2>4, Parts DEF Coming, BytesInv
      <3> QED
        BY <1>4, <2>2, <3>1
    <2>5. ASSUME pc[k] = "insert asset" PROVE Asset(ImportedAsset(k)) \in stored'
      <3>1. ImportedAsset(k) \in Coming(k) /\ Asset(ImportedAsset(k)) \in stored
        BY <2>1, <2>5, Chosen, Parts DEF Coming, BytesInv, CarriesInv
      <3> QED
        BY <1>4, <2>2, <3>1
    <2> QED
      BY <1>1, <2>3, <2>4, <2>5 DEF BytesInv
  <1> QED
    BY <1>2, <1>3, <1>5, <1>6 DEF HandlerInv, AtLabelInv

\* What is left to show of a step: its own label, and the row.
LEMMA StepKeeps ==
    ASSUME FileConstants, IInv, NEW h \in Handlers, NEW label, NEW a, NEW l, NEW b,
           Moved(h, label, a, l, b), AssetsMove(h), Globals(h),
           TypeOK', AtLabelInv(h)', RowInv', SnapshotsInv', NamesInv'
    PROVE  IInv'
  <1>1. /\ unused \subseteq Assets /\ unused' \subseteq Assets
        /\ \A k \in Handlers : Coming(k) \subseteq Assets /\ Registering(k) \subseteq Assets
    BY Parts DEF IInv, TypeOK, Coming, Registering
  <1>2. ASSUME NEW x \in Coming(h) \cup unused PROVE Fresh(x) /\ x \in Assets
    BY <1>1, Parts DEF OwnsInv, IInv, UnusedInv
  <1>3. OwnsInv(h)'
    <2>1. ASSUME NEW x \in Coming(h)' PROVE Fresh(x)' /\ x \notin unused'
      <3>1. x \in Coming(h) \cup unused
        BY DEF AssetsMove
      <3>2. x \notin Recorded' /\ x \notin Registering(h)' /\ x \notin unused'
        BY DEF AssetsMove
      <3> QED
        BY <1>2, <3>1, <3>2, FreshKeeps
    <2>2. ASSUME pc'[h] = "delete bytes", NEW x \in arg'[h] PROVE assetRow'[x] = None
      <3>1. x \in Assets
        BY DEF Moved, HandlersOK
      <3> QED
        BY <2>2, <3>1 DEF AssetsMove, Recorded
    <2> QED
      BY <2>1, <2>2 DEF OwnsInv, AssetsMove
  <1>4. \A k \in Handlers : HandlerInv(k)'
    BY <1>3, OthersKeep DEF HandlerInv
  <1>5. ApartInv'
    <2>1. ASSUME NEW k \in Handlers, k # h
          PROVE  /\ Coming(h)' \cap Coming(k)' = {} /\ Registering(h)' \cap Registering(k)' = {}
                 /\ pc'[k] \notin Creating /\ (pc'[h] \in Creating => pc'[k] = "idle")
      <3>1. /\ Coming(k)' = Coming(k) /\ Registering(k)' = Registering(k) /\ pc'[k] = pc[k]
        BY <2>1 DEF Moved
      <3>2. Coming(h) \cap Coming(k) = {} /\ Registering(h) \cap Registering(k) = {}
        BY <2>1 DEF IInv, ApartInv
      <3>3. Coming(k) \cap unused = {} /\ Registering(k) \cap Coming(h) = {}
        BY <1>2, Parts DEF OwnsInv, Fresh
      <3> QED
        BY <2>1, <3>1, <3>2, <3>3 DEF AssetsMove, Globals
    <2>2. ASSUME NEW j \in Handlers, NEW k \in Handlers, j # k, j # h, k # h
          PROVE  /\ Coming(j)' \cap Coming(k)' = {} /\ Registering(j)' \cap Registering(k)' = {}
                 /\ pc'[j] \notin Creating
      BY <2>2 DEF Moved, IInv, ApartInv, Globals
    <2> QED
      BY <2>1, <2>2 DEF ApartInv
  <1>6. UnusedInv'
    <2> SUFFICES ASSUME NEW x \in unused' PROVE Fresh(x)'
      BY DEF UnusedInv
    <2>1. x \in unused /\ x \notin Coming(h)
      BY Parts DEF AssetsMove, OwnsInv
    <2>2. x \notin Recorded' /\ x \notin Registering(h)'
      BY <1>2, <2>1 DEF AssetsMove, Fresh, Recorded
    <2> QED
      BY <1>2, <2>1, <2>2, FreshKeeps
  <1>7. AssetsInv'
    <2> SUFFICES ASSUME ~doomed', NEW x \in Recorded' \cap integrity'
                 PROVE  Asset(x) \in stored'
      BY DEF AssetsInv
    <2>1. ~doomed /\ Spares(h)
      BY DEF Globals
    <2>2. x \in Recorded /\ x \in Assets
      BY <1>1, <1>2 DEF AssetsMove, Fresh, Recorded
    <2>3. CASE x \in integrity
      <3>1. Asset(x) \in stored
        BY <2>1, <2>2, <2>3 DEF IInv, AssetsInv
      <3> QED
        BY <2>1, <2>2, <2>3, <3>1, ObjectsDiffer DEF Spares
    <2>4. CASE x \notin integrity
      <3>1. x \in Registering(h) /\ stored \subseteq stored'
        BY <2>4 DEF AssetsMove
      <3> QED
        BY <2>1, <2>2, <3>1, Parts DEF BytesInv
    <2> QED
      BY <2>3, <2>4
  <1> QED
    BY <1>4, <1>5, <1>6, <1>7 DEF IInv

Locks(h, label) ==
    \/ lock' = lock /\ (label \in Locking <=> pc[h] \in Locking)
    \/ lock' = None /\ label \notin Locking /\ lock \in {None, h}
    \/ lock' = h /\ label \in Locking /\ lock \in {None, h}

\* The types of what is not a handler's.
RowOK    == row \in {None} \cup Rows
AssetsOK ==
    /\ assetRow \in [Assets -> {None} \cup BOOLEAN]
    /\ integrity \subseteq Assets /\ unused \subseteq Assets
SwitchesOK == {up, created, doomed, answered, recounted} \subseteq BOOLEAN

\* The types outlive a step that keeps its own, and the lock its holder.
LEMMA StepType ==
    ASSUME FileConstants, IInv, NEW h \in Handlers, NEW label, NEW a, NEW l, NEW b,
           Moved(h, label, a, l, b), Locks(h, label),
           SwitchesOK', RowOK', AssetsOK', stored' \subseteq Objects
    PROVE  TypeOK'
  <1>1. ASSUME NEW k \in Handlers PROVE lock' = k <=> pc'[k] \in Locking
    <2>1. /\ lock = k <=> pc[k] \in Locking
          /\ lock = h <=> pc[h] \in Locking
          /\ k # None
      BY Parts DEF FileConstants
    <2> QED
      BY <2>1 DEF Moved, Locks
  <1>2. lock' \in {None} \cup Handlers
    BY DEF Locks, IInv, TypeOK
  <1> QED
    BY <1>1, <1>2 DEF TypeOK, Moved, Locking, SwitchesOK, RowOK, AssetsOK

\* The types the invariant holds.
LEMMA Types ==
    ASSUME IInv
    PROVE  SwitchesOK /\ RowOK /\ AssetsOK /\ stored \subseteq Objects
  BY DEF IInv, TypeOK, SwitchesOK, RowOK, AssetsOK

\* A step that takes no snapshot the row has keeps them.
LEMMA SnapshotsKeep ==
    ASSUME FileConstants, IInv, NEW h \in Handlers, Spares(h), row' = row, ~doomed
    PROVE  SnapshotsInv'
  <1> SUFFICES ASSUME row # None, NEW x \in {Source} \cup Snapshots(row)
               PROVE  x \in stored'
    BY DEF SnapshotsInv, Snapshots
  <1>1. x \in stored
    BY DEF IInv, SnapshotsInv
  <1>2. x = Source \/ \E v \in 1 .. row.revision : x = Snapshot(v)
    BY DEF Snapshots
  <1>3. row.revision \in 1 .. MaxRevision /\ MaxRevision \in Nat
    BY RowType
  <1> QED
    BY <1>1, <1>2, <1>3, ObjectsDiffer DEF Spares

\* Steps of h that change only the object store, whether removal has begun, and
\* whether an import without assets was answered.
Quiet(h) ==
    /\ UNCHANGED <<up, row, assetRow, integrity, unused, created, recounted>>
    /\ \/ answered' = answered
       \/ answered' = TRUE /\ pc[h] \in Importing /\ arg[h] = {}
    /\ stored' \subseteq Objects
    /\ doomed' \in BOOLEAN /\ (doomed => doomed')
    /\ ~doomed' => Spares(h)
    /\ pc[h] \in Creating => stored \subseteq stored'

\* h takes no asset in hand that another may have, and does not begin to make the Artifact.
InHand(h, label) ==
    /\ pc[h] = "idle" => \A k \in Handlers : pc[k] \notin Creating
    /\ label \in Creating => pc[h] \in Creating
    /\ Coming(h)' \subseteq Coming(h) /\ Registering(h)' \subseteq Registering(h)
    /\ \A x \in Removing(h)' : x \in Removing(h) \/ assetRow[x] # None
    /\ label # "delete bytes"

\* A step that changes neither row nor assets keeps the invariant.
LEMMA QuietKeeps ==
    ASSUME FileConstants, IInv, NEW h \in Handlers, NEW label \in Labels,
           NEW a \in SUBSET Assets, NEW l \in SUBSET (Assets \cup 1 .. MaxRevision),
           NEW b \in 0 .. MaxRevision, Moved(h, label, a, l, b), Quiet(h), Locks(h, label),
           InHand(h, label), AtLabelInv(h)'
    PROVE  IInv'
  <1>1. Recorded' = Recorded
    BY DEF Quiet, Recorded
  <1>2. /\ \A x \in Coming(h) : Fresh(x) /\ x \notin unused
        /\ \A x \in Registering(h) : x \notin integrity
        /\ \A x \in unused : Fresh(x)
        /\ Removing(h)' \subseteq Assets
    BY Parts DEF OwnsInv, IInv, UnusedInv, Removing, Moved, HandlersOK
  <1>3. AssetsMove(h)
    <2>1. Coming(h)' \cap (unused' \cup Recorded' \cup Registering(h)') = {}
      BY <1>1, <1>2 DEF InHand, Quiet, Fresh, Recorded
    <2>2. Registering(h)' \cap (integrity' \cup unused') = {}
      BY <1>2 DEF InHand, Quiet, Fresh
    <2>3. Removing(h)' \subseteq Removing(h) \cup Recorded
      BY <1>2 DEF InHand, Recorded
    <2> QED
      BY <1>1, <2>1, <2>2, <2>3 DEF AssetsMove, InHand, Quiet, Moved
  <1>4. Globals(h)
    <2>1. \A k \in Handlers \ {h} : pc[k] \notin Creating /\ (label \in Creating => pc[k] = "idle")
      BY DEF IInv, ApartInv, InHand
    <2> QED
      BY <2>1, Parts DEF Globals, Quiet, Moved
  <1>5. TypeOK'
    BY Types, StepType DEF Quiet, SwitchesOK, RowOK, AssetsOK
  <1>6. RowInv' /\ NamesInv'
    <2>1. CASE answered' = answered
      BY <2>1 DEF IInv, RowInv, NamesInv, Quiet
    <2>2. CASE answered' = TRUE /\ pc[h] \in Importing /\ arg[h] = {}
      <3>1. created /\ (row # None /\ row.revision = 1 => row.names = {})
        BY <2>2, Parts DEF CarriesInv, CreatesInv, Importing
      <3>2. row # None => row.revision \in Nat \ {0}
        BY RowType
      <3> QED
        BY <3>1, <3>2 DEF IInv, RowInv, NamesInv, Quiet
    <2> QED
      BY <2>1, <2>2 DEF Quiet
  <1>7. SnapshotsInv'
    BY SnapshotsKeep DEF Quiet, SnapshotsInv, IInv
  <1> QED
    BY <1>3, <1>4, <1>5, <1>6, <1>7, StepKeeps

--------------------------------------------------------------------------------
(* Steps that change neither the row nor the assets.                            *)

\* A handler that ends, whether it answers, fails, is dropped or dies.
LEMMA IdleKeeps ==
    ASSUME FileConstants, IInv, NEW h \in Handlers, pc[h] # "idle",
           Moves(h, "idle", {}, {}, 0), Quiet(h), lock' = IF lock = h THEN None ELSE lock
    PROVE  IInv'
  <1>1. HandlersOK /\ "idle" \in Labels /\ 0 \in 0 .. MaxRevision
    BY Parts, LabelsType
  <1>2. Moved(h, "idle", {}, {}, 0)
    BY <1>1, Move
  <1>3. Coming(h)' = {} /\ Registering(h)' = {} /\ Removing(h)' = {}
    BY <1>2 DEF Moved, Coming, Registering, Removing
  <1>4. AtLabelInv(h)'
    BY <1>2, <1>3 DEF Moved, AtLabelInv, CarriesInv, CreatesInv, CommitsInv, BytesInv,
                      Creating, Importing, Locking
  <1>5. Locks(h, "idle")
    BY DEF Locks, Locking, IInv, TypeOK, FileConstants
  <1>6. InHand(h, "idle")
    BY <1>3 DEF InHand, Creating
  <1> QED
    BY <1>1, <1>2, <1>3, <1>4, <1>5, <1>6, QuietKeeps

\* An import that failed goes on to remove what it left.
LEMMA ToCleanKeeps ==
    ASSUME FileConstants, IInv, NEW h \in Handlers, pc[h] \in Importing,
           Moves(h, "clean", arg[h], left[h], base[h]), Quiet(h), lock' = lock
    PROVE  IInv'
  <1>1. Moved(h, "clean", arg[h], left[h], base[h])
    BY Parts, Move, LabelsType
  <1>2. Coming(h)' = {} /\ Registering(h)' = {} /\ Removing(h)' = {}
    BY <1>1 DEF Moved, Coming, Registering, Removing, Creating
  <1>3. AtLabelInv(h)'
    BY <1>1, <1>2, Parts
    DEF Moved, AtLabelInv, CarriesInv, CreatesInv, CommitsInv, BytesInv, Creating, Importing, Locking, Quiet
  <1> QED
    BY <1>1, <1>2, <1>3, Parts, QuietKeeps, LabelsType DEF Locks, InHand, Locking, Creating, Importing

\* The keys are objects.
LEMMA ObjectsType ==
    ASSUME FileConstants
    PROVE  /\ Source \in Objects
           /\ \A a \in Assets : Asset(a) \in Objects
           /\ \A v \in 1 .. MaxRevision : Snapshot(v) \in Objects
           /\ 1 \in 1 .. MaxRevision
  BY DEF Objects, FileConstants

\* The invariant outlives PutSource: the source is stored.
LEMMA PutSourceKeeps ==
    ASSUME FileConstants, IInv, NEW h \in Handlers, PutSource(h)
    PROVE  IInv'
  <1>1. /\ pc[h] = "put source"
        /\ UNCHANGED <<up, row, assetRow, integrity, lock, unused, created, doomed, answered, recounted>>
        /\ stored' \in {stored, stored \cup {Source}}
    BY DEF PutSource, Put, historyVars
  <1>2. Quiet(h)
    BY <1>1, Parts, ObjectsType DEF Quiet, Spares
  <1>3. CASE Moves(h, "put first", arg[h], left[h], base[h]) /\ stored' = stored \cup {Source}
    <2>1. Moved(h, "put first", arg[h], left[h], base[h])
      BY <1>3, Parts, Move, LabelsType DEF Creating
    <2>2. Coming(h)' = Coming(h) /\ Registering(h)' = {} /\ Removing(h)' = {}
      BY <1>1, <2>1 DEF Moved, Coming, Registering, Removing, Creating
    <2>3. AtLabelInv(h)'
      BY <1>1, <1>3, <2>1, <2>2, Parts
      DEF Moved, AtLabelInv, CarriesInv, CreatesInv, CommitsInv, BytesInv, Creating, Importing, Locking
    <2> QED
      BY <1>1, <1>2, <2>1, <2>2, <2>3, Parts, QuietKeeps, LabelsType DEF Locks, InHand, Locking, Creating
  <1>4. CASE Moves(h, "idle", {}, {}, 0)
    BY <1>1, <1>2, <1>4, Parts, IdleKeeps DEF Locking
  <1> QED
    BY <1>3, <1>4, Parts DEF PutSource, Put, ContinueOrFail, Done, Goto, Moves, HandlersOK

\* The invariant outlives PutFirstSnapshot: the first snapshot is stored.
LEMMA PutFirstSnapshotKeeps ==
    ASSUME FileConstants, IInv, NEW h \in Handlers, PutFirstSnapshot(h)
    PROVE  IInv'
  <1>1. /\ pc[h] = "put first"
        /\ UNCHANGED <<up, row, assetRow, integrity, lock, unused, created, doomed, answered, recounted>>
        /\ stored' \in {stored, stored \cup {Snapshot(1)}}
    BY DEF PutFirstSnapshot, Put, historyVars
  <1>2. Quiet(h)
    BY <1>1, Parts, ObjectsType DEF Quiet, Spares
  <1>3. CASE Moves(h, "insert", arg[h], left[h], base[h]) /\ stored' = stored \cup {Snapshot(1)}
    <2>1. Moved(h, "insert", arg[h], left[h], base[h])
      BY <1>3, Parts, Move, LabelsType DEF Creating
    <2>2. Coming(h)' = Coming(h) /\ Registering(h)' = {} /\ Removing(h)' = {}
      BY <1>1, <2>1 DEF Moved, Coming, Registering, Removing, Creating
    <2>3. AtLabelInv(h)'
      BY <1>1, <1>3, <2>1, <2>2, Parts
      DEF Moved, AtLabelInv, CarriesInv, CreatesInv, CommitsInv, BytesInv, Creating, Importing, Locking
    <2> QED
      BY <1>1, <1>2, <2>1, <2>2, <2>3, Parts, QuietKeeps, LabelsType DEF Locks, InHand, Locking, Creating
  <1>4. CASE Moves(h, "idle", {}, {}, 0)
    BY <1>1, <1>2, <1>4, Parts, IdleKeeps DEF Locking
  <1> QED
    BY <1>3, <1>4, Parts DEF PutFirstSnapshot, Put, ContinueOrFail, Done, Goto, Moves, HandlersOK

\* The invariant outlives PutImportedAsset: an imported asset's bytes.
LEMMA PutImportedAssetKeeps ==
    ASSUME FileConstants, IInv, NEW h \in Handlers, PutImportedAsset(h)
    PROVE  IInv'
  <1>1. /\ pc[h] = "put asset"
        /\ UNCHANGED <<up, row, assetRow, integrity, lock, unused, created, doomed, answered, recounted>>
        /\ stored' \in {stored, stored \cup {Asset(ImportedAsset(h))}}
    BY DEF PutImportedAsset, historyVars
  <1>2. ImportedAsset(h) \in left[h] /\ ImportedAsset(h) \in Assets
    BY <1>1, Parts, Chosen DEF CarriesInv
  <1>3. Quiet(h)
    BY <1>1, <1>2, Parts, ObjectsType DEF Quiet, Spares
  <1>4. CASE Moves(h, "insert asset", arg[h], left[h], base[h])
             /\ stored' = stored \cup {Asset(ImportedAsset(h))}
    <2>1. Moved(h, "insert asset", arg[h], left[h], base[h])
      BY <1>4, Parts, Move, LabelsType DEF Importing
    <2>2. Coming(h)' = Coming(h) /\ Registering(h)' = {} /\ Removing(h)' = {}
          /\ ImportedAsset(h)' = ImportedAsset(h)
      BY <1>1, <2>1 DEF Moved, Coming, Registering, Removing, Creating, ImportedAsset
    <2>3. AtLabelInv(h)'
      BY <1>1, <1>4, <2>1, <2>2, Parts
      DEF Moved, AtLabelInv, CarriesInv, CreatesInv, CommitsInv, BytesInv, Creating, Importing, Locking
    <2> QED
      BY <1>1, <1>3, <2>1, <2>2, <2>3, Parts, QuietKeeps, LabelsType DEF Locks, InHand, Locking, Creating, Importing
  <1>5. CASE Moves(h, "clean", arg[h], left[h], base[h])
    BY <1>1, <1>3, <1>5, ToCleanKeeps DEF Locking, Importing
  <1> QED
    BY <1>4, <1>5, Parts DEF PutImportedAsset, NextOrClean, Goto, Moves, HandlersOK

\* The invariant outlives RegisterBlobs: integrity of the first two objects.
LEMMA RegisterBlobsKeeps ==
    ASSUME FileConstants, IInv, NEW h \in Handlers, RegisterBlobs(h)
    PROVE  IInv'
  <1>1. /\ pc[h] = "register"
        /\ UNCHANGED <<up, row, assetRow, integrity, stored, lock, unused, created, doomed, recounted>>
        /\ answered' = answered \/ (answered' = TRUE /\ arg[h] = {})
    BY DEF RegisterBlobs, Done, fileVars
  <1>2. Quiet(h)
    BY <1>1, Parts, ObjectsType DEF Quiet, Spares, Importing
  <1>3. CASE Moves(h, "put asset", arg[h], left[h], base[h]) /\ arg[h] # {}
    <2>1. Moved(h, "put asset", arg[h], left[h], base[h])
      BY <1>3, Parts, Move, LabelsType DEF Importing
    <2>2. Coming(h)' = Coming(h) /\ Registering(h)' = {} /\ Removing(h)' = {}
      BY <1>1, <2>1 DEF Moved, Coming, Registering, Removing, Creating
    <2>3. AtLabelInv(h)'
      BY <1>1, <1>3, <2>1, <2>2, Parts
      DEF Moved, AtLabelInv, CarriesInv, CreatesInv, CommitsInv, BytesInv, Creating, Importing, Locking
    <2> QED
      BY <1>1, <1>2, <2>1, <2>2, <2>3, Parts, QuietKeeps, LabelsType
      DEF Locks, InHand, Locking, Creating, Importing
  <1>4. CASE Moves(h, "idle", {}, {}, 0)
    BY <1>1, <1>2, <1>4, Parts, IdleKeeps DEF Locking
  <1> QED
    BY <1>3, <1>4, Parts DEF RegisterBlobs, Done, Goto, Moves, HandlersOK

\* The invariant outlives ReadAsset: a deletion reads the count.
LEMMA ReadAssetKeeps ==
    ASSUME FileConstants, IInv, NEW h \in Handlers, ReadAsset(h)
    PROVE  IInv'
  <1>1. PICK a \in Recorded : Moves(h, "delete asset", {a}, left[h], base[h])
    BY Parts DEF ReadAsset, Goto, Moves, HandlersOK
  <1>2. /\ pc[h] = "idle" /\ up
        /\ UNCHANGED <<up, row, assetRow, integrity, stored, lock, unused, created, doomed,
                       answered, recounted>>
    BY DEF ReadAsset, fileVars, historyVars
  <1>3. Quiet(h)
    BY <1>2, Parts, ObjectsType DEF Quiet, Spares
  <1>4. a \in Assets /\ assetRow[a] # None /\ row # None
    BY DEF Recorded, IInv, RowInv, NoAssets
  <1>5. Moved(h, "delete asset", {a}, left[h], base[h])
    BY <1>1, <1>4, Parts, Move, LabelsType
  <1>6. Coming(h)' = {} /\ Registering(h)' = {} /\ Removing(h)' = {a}
    BY <1>5 DEF Moved, Coming, Registering, Removing, Creating
  <1>7. created /\ \A k \in Handlers : pc[k] \notin Creating
    BY <1>4, Parts DEF IInv, RowInv, CreatesInv
  <1>8. AtLabelInv(h)'
    BY <1>2, <1>4, <1>5, <1>6, <1>7, Parts
    DEF Moved, AtLabelInv, CarriesInv, CreatesInv, CommitsInv, BytesInv, Creating, Importing, Locking
  <1> QED
    BY <1>2, <1>3, <1>4, <1>5, <1>6, <1>7, <1>8, Parts, QuietKeeps, LabelsType
    DEF Locks, InHand, Locking, Creating

\* The invariant outlives DeleteAssetBytes: and then the bytes nobody names.
LEMMA DeleteAssetBytesKeeps ==
    ASSUME FileConstants, IInv, NEW h \in Handlers, DeleteAssetBytes(h)
    PROVE  IInv'
  <1>1. /\ pc[h] = "delete bytes"
        /\ UNCHANGED <<up, row, assetRow, integrity, lock, unused, created, doomed, answered, recounted>>
        /\ stored' \in {stored, stored \ {Asset(TheAsset(h))}}
        /\ Moves(h, "idle", {}, {}, 0)
    BY DEF DeleteAssetBytes, Done, Goto, Moves, historyVars
  <1>2. PICK a \in Assets : arg[h] = {a} /\ TheAsset(h) = a /\ assetRow[a] = None
    BY <1>1, Parts, Chosen DEF CarriesInv, OwnsInv
  <1>3. a \in Removing(h)
    BY <1>1, <1>2 DEF Removing
  <1>4. ASSUME NEW k \in Handlers PROVE a \notin Coming(k)
    BY <1>3, Parts DEF OwnsInv, Fresh
  <1>5. Quiet(h)
    BY <1>1, <1>2, <1>4, Parts DEF Quiet, Spares, Recorded, Creating
  <1> QED
    BY <1>1, <1>5, Parts, IdleKeeps DEF Locking

\* The invariant outlives LoadForCommit: a commit takes the lock and loads the row.
LEMMA LoadForCommitKeeps ==
    ASSUME FileConstants, IInv, NEW h \in Handlers, LoadForCommit(h)
    PROVE  IInv'
  <1>1. PICK names \in SUBSET Assets : Moves(h, "put candidate", names, left[h], row.revision)
    BY Parts DEF LoadForCommit, Goto, Moves, HandlersOK
  <1>2. /\ pc[h] = "idle" /\ up /\ lock = None /\ lock' = h
        /\ row # None /\ row.revision < MaxRevision
        /\ UNCHANGED <<up, row, assetRow, integrity, stored, unused, created, doomed, answered,
                       recounted>>
    BY DEF LoadForCommit, historyVars
  <1>3. row.revision \in 0 .. MaxRevision /\ row.revision + 1 \in 2 .. MaxRevision /\ created
    BY <1>2, RowType
  <1>4. Quiet(h)
    BY <1>2, Parts, ObjectsType DEF Quiet, Spares
  <1>5. Moved(h, "put candidate", names, left[h], row.revision)
    BY <1>1, <1>3, Parts, Move, LabelsType DEF Locking
  <1>6. Coming(h)' = {} /\ Registering(h)' = {} /\ Removing(h)' = {}
    BY <1>5 DEF Moved, Coming, Registering, Removing, Creating
  <1>7. \A k \in Handlers : pc[k] \notin Creating
    BY <1>2, Parts DEF CreatesInv
  <1>8. AtLabelInv(h)'
    BY <1>2, <1>3, <1>5, <1>6, Parts
    DEF Moved, AtLabelInv, CarriesInv, CreatesInv, CommitsInv, BytesInv, Creating, Importing, Locking
  <1> QED
    BY <1>2, <1>3, <1>4, <1>5, <1>6, <1>7, <1>8, Parts, QuietKeeps, LabelsType
    DEF Locks, InHand, Locking, Creating

\* The invariant outlives PutCandidate: it stores its snapshot.
LEMMA PutCandidateKeeps ==
    ASSUME FileConstants, IInv, NEW h \in Handlers, PutCandidate(h)
    PROVE  IInv'
  <1>1. /\ pc[h] = "put candidate"
        /\ stored' \in {stored, stored \cup {Snapshot(base[h] + 1)}}
        /\ UNCHANGED <<up, row, assetRow, integrity, unused, created, doomed, answered, recounted>>
    BY DEF PutCandidate, historyVars
  <1>2. lock = h /\ base[h] + 1 \in 1 .. MaxRevision
    <2>1. lock = h /\ base[h] + 1 \in 2 .. MaxRevision
      BY <1>1, Parts DEF CarriesInv, Locking
    <2> QED
      BY <2>1 DEF FileConstants
  <1>3. Quiet(h)
    BY <1>1, <1>2, Parts, ObjectsType DEF Quiet, Spares
  <1>4. CASE /\ Moves(h, "commit", arg[h], left[h], base[h]) /\ lock' = lock
             /\ stored' = stored \cup {Snapshot(base[h] + 1)}
    <2>1. Moved(h, "commit", arg[h], left[h], base[h])
      BY <1>4, Parts, Move, LabelsType DEF Locking
    <2>2. Coming(h)' = {} /\ Registering(h)' = {} /\ Removing(h)' = {}
      BY <2>1 DEF Moved, Coming, Registering, Removing, Creating
    <2>3. AtLabelInv(h)'
      BY <1>1, <1>4, <2>1, <2>2, Parts
      DEF Moved, AtLabelInv, CarriesInv, CreatesInv, CommitsInv, BytesInv, Creating, Importing, Locking
    <2> QED
      BY <1>1, <1>3, <1>4, <2>1, <2>2, <2>3, Parts, QuietKeeps, LabelsType
      DEF Locks, InHand, Locking, Creating
  <1>5. CASE Moves(h, "idle", {}, {}, 0) /\ lock' = None
    BY <1>1, <1>2, <1>3, <1>5, Parts, IdleKeeps
  <1> QED
    BY <1>4, <1>5, Parts DEF PutCandidate, Release, Done, Goto, Moves, HandlersOK

\* The invariant outlives DeleteArtifact: a removal reads the row.
LEMMA DeleteArtifactKeeps ==
    ASSUME FileConstants, IInv, NEW h \in Handlers, DeleteArtifact(h)
    PROVE  IInv'
  <1>1. /\ pc[h] = "idle" /\ up /\ row # None
        /\ UNCHANGED <<up, row, assetRow, integrity, stored, lock, unused, created, doomed,
                       answered, recounted>>
        /\ Moves(h, "delete source", arg[h], left[h], row.revision)
    BY Parts DEF DeleteArtifact, Goto, Moves, HandlersOK, fileVars, historyVars
  <1>2. row.revision \in 0 .. MaxRevision /\ row.revision >= 1 /\ created
    <2>1. row.revision \in 1 .. MaxRevision /\ created
      BY <1>1, RowType
    <2> QED
      BY <2>1 DEF FileConstants
  <1>3. Quiet(h)
    BY <1>1, Parts, ObjectsType DEF Quiet, Spares
  <1>4. Moved(h, "delete source", arg[h], left[h], row.revision)
    BY <1>1, <1>2, Parts, Move, LabelsType
  <1>5. Coming(h)' = {} /\ Registering(h)' = {} /\ Removing(h)' = {}
    BY <1>4 DEF Moved, Coming, Registering, Removing, Creating
  <1>6. \A k \in Handlers : pc[k] \notin Creating
    BY <1>1, Parts DEF CreatesInv
  <1>7. AtLabelInv(h)'
    BY <1>1, <1>2, <1>4, <1>5, Parts
    DEF Moved, AtLabelInv, CarriesInv, CreatesInv, CommitsInv, BytesInv, Creating, Importing, Locking
  <1> QED
    BY <1>1, <1>2, <1>3, <1>4, <1>5, <1>6, <1>7, Parts, QuietKeeps, LabelsType
    DEF Locks, InHand, Locking, Creating

\* The invariant outlives DeleteSource: it begins with the source.
LEMMA DeleteSourceKeeps ==
    ASSUME FileConstants, IInv, NEW h \in Handlers, DeleteSource(h)
    PROVE  IInv'
  <1>1. /\ pc[h] = "delete source" /\ doomed' = TRUE
        /\ stored' \in {stored, stored \ {Source}}
        /\ UNCHANGED <<up, row, assetRow, integrity, lock, unused, created, answered, recounted>>
    BY DEF DeleteSource, Delete
  <1>2. Quiet(h)
    BY <1>1, Parts DEF Quiet, Creating
  <1>3. CASE Moves(h, "list snapshots", arg[h], left[h], base[h])
    <2>1. Moved(h, "list snapshots", arg[h], left[h], base[h])
      BY <1>3, Parts, Move, LabelsType
    <2>2. Coming(h)' = {} /\ Registering(h)' = {} /\ Removing(h)' = {}
      BY <2>1 DEF Moved, Coming, Registering, Removing, Creating
    <2>3. AtLabelInv(h)'
      BY <1>1, <2>1, <2>2, Parts
      DEF Moved, AtLabelInv, CarriesInv, CreatesInv, CommitsInv, BytesInv, Creating, Importing, Locking
    <2> QED
      BY <1>1, <1>2, <2>1, <2>2, <2>3, Parts, QuietKeeps, LabelsType
      DEF Locks, InHand, Locking, Creating
  <1>4. CASE Moves(h, "idle", {}, {}, 0)
    BY <1>1, <1>2, <1>4, Parts, IdleKeeps DEF Locking
  <1> QED
    BY <1>3, <1>4, Parts DEF DeleteSource, Delete, Done, Goto, Moves, HandlersOK

\* The invariant outlives ListSnapshots: lists the snapshots.
LEMMA ListSnapshotsKeeps ==
    ASSUME FileConstants, IInv, NEW h \in Handlers, ListSnapshots(h)
    PROVE  IInv'
  <1> DEFINE all == {base[h]} \cup (IF row = None THEN {} ELSE 1 .. row.revision)
  <1>1. /\ pc[h] = "list snapshots"
        /\ UNCHANGED <<up, row, assetRow, integrity, stored, lock, unused, created, doomed,
                       answered, recounted>>
        /\ Moves(h, "delete snapshots", arg[h], all, base[h])
    BY Parts DEF ListSnapshots, Goto, Moves, HandlersOK, fileVars, historyVars
  <1>2. all \subseteq 1 .. MaxRevision
    <2>1. base[h] \in 0 .. MaxRevision /\ base[h] >= 1
      BY <1>1, Parts DEF CarriesInv
    <2>2. row # None => row.revision \in 1 .. MaxRevision
      BY RowType
    <2> QED
      BY <2>1, <2>2 DEF FileConstants
  <1> HIDE DEF all
  <1>3. Quiet(h)
    BY <1>1, Parts, ObjectsType DEF Quiet, Spares
  <1>4. Moved(h, "delete snapshots", arg[h], all, base[h])
    BY <1>1, <1>2, Parts, Move, LabelsType
  <1>5. Coming(h)' = {} /\ Registering(h)' = {} /\ Removing(h)' = {}
    BY <1>4 DEF Moved, Coming, Registering, Removing, Creating
  <1>6. AtLabelInv(h)'
    BY <1>1, <1>2, <1>4, <1>5, Parts
    DEF Moved, AtLabelInv, CarriesInv, CreatesInv, CommitsInv, BytesInv, Creating, Importing, Locking
  <1> QED
    BY <1>1, <1>2, <1>3, <1>4, <1>5, <1>6, Parts, QuietKeeps, LabelsType
    DEF Locks, InHand, Locking, Creating

\* The invariant outlives DeleteSnapshot: removes them one by one.
LEMMA DeleteSnapshotKeeps ==
    ASSUME FileConstants, IInv, NEW h \in Handlers, DeleteSnapshot(h)
    PROVE  IInv'
  <1>1. /\ pc[h] = "delete snapshots" /\ doomed
        /\ stored' \subseteq stored
        /\ UNCHANGED <<up, row, assetRow, integrity, lock, unused, created, doomed, answered, recounted>>
    BY Parts DEF DeleteSnapshot, CommitsInv, historyVars
  <1>2. Quiet(h)
    BY <1>1, Parts DEF Quiet, Creating
  <1>3. ASSUME NEW v \in left[h], Moves(h, "delete snapshots", arg[h], left[h] \ {v}, base[h])
        PROVE  IInv'
    <2>1. Moved(h, "delete snapshots", arg[h], left[h] \ {v}, base[h])
      BY <1>3, Parts, Move, LabelsType
    <2>2. Coming(h)' = {} /\ Registering(h)' = {} /\ Removing(h)' = {}
      BY <2>1 DEF Moved, Coming, Registering, Removing, Creating
    <2>3. AtLabelInv(h)'
      BY <1>1, <2>1, <2>2, Parts
      DEF Moved, AtLabelInv, CarriesInv, CreatesInv, CommitsInv, BytesInv, Creating, Importing, Locking
    <2> QED
      BY <1>1, <1>2, <2>1, <2>2, <2>3, Parts, QuietKeeps, LabelsType
      DEF Locks, InHand, Locking, Creating
  <1>4. CASE Moves(h, "idle", {}, {}, 0)
    BY <1>1, <1>2, <1>4, Parts, IdleKeeps DEF Locking
  <1> QED
    BY <1>1, <1>3, <1>4, Parts DEF DeleteSnapshot, Done, Goto, Moves, HandlersOK

\* The invariant outlives Abandon: a dropped request.
LEMMA AbandonKeeps ==
    ASSUME FileConstants, IInv, NEW h \in Handlers, Abandon(h)
    PROVE  IInv'
  <1>1. Quiet(h)
    BY Parts DEF Abandon, Quiet, Spares, historyVars
  <1> QED
    BY <1>1, IdleKeeps DEF Abandon, Done, Goto, Moves

--------------------------------------------------------------------------------
(* Steps that change the row or the assets.                                     *)

\* The invariant outlives Create: create draws the ids.
LEMMA CreateKeeps ==
    ASSUME FileConstants, IInv, NEW h \in Handlers, Create(h)
    PROVE  IInv'
  <1>1. PICK brought \in Imports :
           /\ brought \subseteq unused /\ unused' = unused \ brought
           /\ Moves(h, "put source", brought, brought, base[h])
    BY Parts DEF Create, Goto, Moves, HandlersOK
  <1>2. /\ pc[h] = "idle" /\ up /\ ~created /\ created' = TRUE
        /\ UNCHANGED <<up, row, assetRow, integrity, stored, lock, doomed, answered, recounted>>
    BY DEF Create, historyVars
  <1>3. row = None /\ ~answered /\ \A k \in Handlers : pc[k] = "idle"
    BY <1>2, Parts DEF IInv, RowInv, CarriesInv
  <1>4. brought \subseteq Assets
    BY DEF FileConstants
  <1>5. Moved(h, "put source", brought, brought, base[h])
    BY <1>1, <1>4, Parts, Move, LabelsType DEF Creating
  <1>6. Coming(h)' = brought /\ Registering(h)' = {} /\ Removing(h)' = {}
    BY <1>4, <1>5 DEF Moved, Coming, Registering, Removing, Creating
  <1>7. AssetsMove(h)
    <2>1. brought \cap (integrity \cup Recorded) = {}
      BY <1>1 DEF IInv, UnusedInv, Fresh, Recorded
    <2> QED
      BY <1>1, <1>2, <1>5, <1>6, <2>1 DEF AssetsMove, Moved, Recorded
  <1>8. Globals(h)
    BY <1>2, <1>3, Parts DEF Globals, Spares, Creating
  <1>9. AtLabelInv(h)'
    BY <1>2, <1>3, <1>5, <1>6, Parts
    DEF Moved, AtLabelInv, CarriesInv, CreatesInv, CommitsInv, BytesInv, Creating, Importing, Locking
  <1>10. TypeOK'
    <2>1. Locks(h, "put source")
      BY <1>2 DEF Locks, Locking
    <2>2. SwitchesOK' /\ RowOK' /\ AssetsOK' /\ stored' \subseteq Objects
      BY <1>1, <1>2, Types DEF SwitchesOK, RowOK, AssetsOK
    <2> QED
      BY <1>5, <2>1, <2>2, StepType
  <1>11. RowInv' /\ SnapshotsInv' /\ NamesInv'
    BY <1>2, <1>3 DEF IInv, RowInv, SnapshotsInv, NamesInv
  <1> QED
    BY <1>5, <1>7, <1>8, <1>9, <1>10, <1>11, StepKeeps

\* The invariant outlives InsertArtifact: the row comes after its objects.
LEMMA InsertArtifactKeeps ==
    ASSUME FileConstants, IInv, NEW h \in Handlers, InsertArtifact(h)
    PROVE  IInv'
  <1>1. /\ pc[h] = "insert"
        /\ UNCHANGED <<up, assetRow, integrity, stored, lock, unused, created, doomed, answered,
                       recounted>>
    BY DEF InsertArtifact, historyVars
  <1>2. ASSUME row' = [revision |-> 1, names |-> arg[h]],
               Moves(h, "register", arg[h], left[h], base[h])
        PROVE  IInv'
    <2>1. row' \in Rows /\ row' # None
      BY <1>2, Parts, ObjectsType DEF Rows, FileConstants
    <2>2. /\ row = None /\ ~answered /\ created /\ up /\ left[h] = arg[h]
          /\ Source \in stored /\ Snapshot(1) \in stored
      BY <1>1, Parts DEF CreatesInv, CarriesInv, Creating
    <2>3. \A k \in Handlers \ {h} : pc[k] = "idle"
      BY <1>1 DEF IInv, ApartInv, Creating
    <2>4. Moved(h, "register", arg[h], left[h], base[h])
      BY <1>2, Parts, Move, LabelsType DEF Importing
    <2>5. Coming(h)' = Coming(h) /\ Registering(h)' = {} /\ Removing(h)' = {}
      BY <1>1, <2>4 DEF Moved, Coming, Registering, Removing, Creating
    <2>6. AssetsMove(h)
      <3>1. Coming(h) \cap (unused \cup Recorded) = {}
        BY Parts DEF OwnsInv, Fresh, Recorded
      <3> QED
        BY <1>1, <2>4, <2>5, <3>1 DEF AssetsMove, Moved, Recorded
    <2>7. Globals(h)
      BY <1>1, <1>2, <2>3, <2>4, Parts DEF Globals, Spares, Creating, Locking, Moved
    <2>8. AtLabelInv(h)'
      BY <1>1, <1>2, <2>2, <2>4, <2>5, Parts
      DEF Moved, AtLabelInv, CarriesInv, CreatesInv, CommitsInv, BytesInv, Creating, Importing, Locking
    <2>9. TypeOK'
      <3>1. Locks(h, "register")
        BY <1>1 DEF Locks, Locking
      <3>2. SwitchesOK' /\ RowOK' /\ AssetsOK' /\ stored' \subseteq Objects
        BY <1>1, <2>1, Types DEF SwitchesOK, RowOK, AssetsOK
      <3> QED
        BY <2>4, <3>1, <3>2, StepType
    <2>10. SnapshotsInv'
      <3>1. Snapshots(row)' = {Snapshot(v) : v \in 1 .. 1}
        BY <1>2, <2>1 DEF Snapshots
      <3>2. \A v \in 1 .. 1 : v = 1
        OBVIOUS
      <3> QED
        BY <1>1, <2>2, <3>1, <3>2 DEF SnapshotsInv
    <2>11. RowInv' /\ NamesInv'
      BY <1>1, <1>2, <2>1, <2>2 DEF RowInv, NamesInv
    <2> QED
      BY <2>4, <2>6, <2>7, <2>8, <2>9, <2>10, <2>11, StepKeeps
  <1>3. ASSUME Moves(h, "idle", {}, {}, 0), row' = row PROVE IInv'
    <2>1. Quiet(h)
      BY <1>1, <1>3, Parts DEF Quiet, Spares
    <2> QED
      BY <1>1, <1>3, <2>1, Parts, IdleKeeps DEF Locking
  <1> QED
    BY <1>2, <1>3, Parts DEF InsertArtifact, Done, Goto, Moves, HandlersOK

\* The invariant outlives InsertImportedAsset: an imported asset's row, after its bytes.
LEMMA InsertImportedAssetKeeps ==
    ASSUME FileConstants, IInv, NEW h \in Handlers, InsertImportedAsset(h)
    PROVE  IInv'
  <1> DEFINE x == ImportedAsset(h)
  <1>1. /\ pc[h] = "insert asset"
        /\ UNCHANGED <<up, row, integrity, stored, lock, unused, created, doomed, answered, recounted>>
    BY DEF InsertImportedAsset, historyVars
  <1>2. ASSUME row # None, assetRow' = [assetRow EXCEPT ![x] = FALSE],
               Moves(h, "asset integrity", arg[h], left[h], base[h])
        PROVE  IInv'
    <2>1. x \in left[h] /\ x \in arg[h] /\ x \in Assets /\ up /\ created
      BY <1>1, Parts, Chosen DEF CarriesInv
    <2>2. x \in Coming(h) /\ Fresh(x) /\ x \notin unused
      BY <1>1, <2>1, Parts DEF Coming, OwnsInv
    <2>3. Recorded' = Recorded \cup {x}
      BY <1>2, <2>1, Types DEF Recorded, AssetsOK, FileConstants
    <2>4. Moved(h, "asset integrity", arg[h], left[h], base[h])
      BY <1>2, Parts, Move, LabelsType DEF Importing
    <2>5. /\ Coming(h)' = Coming(h) \ {x} /\ Registering(h)' = {x} /\ Removing(h)' = {}
          /\ ImportedAsset(h)' = x
      <3>1. ImportedAsset(h)' = x
        BY <2>4 DEF Moved, ImportedAsset
      <3> HIDE DEF x
      <3>2. ImportedAsset(h) = x
        BY DEF x
      <3> QED
        BY <1>1, <2>1, <2>4, <3>1, <3>2 DEF Moved, Coming, Registering, Removing, Creating
    <2> HIDE DEF x
    <2>6. AssetsMove(h)
      <3>1. Coming(h) \cap (unused \cup Recorded) = {}
        BY Parts DEF OwnsInv, Fresh, Recorded
      <3> QED
        BY <1>1, <2>2, <2>3, <2>4, <2>5, <3>1 DEF AssetsMove, Moved, Fresh
    <2>7. Globals(h)
      <3>1. \A k \in Handlers \ {h} : pc[k] \notin Creating
        BY <1>2, Parts DEF CreatesInv
      <3> QED
        BY <1>1, <2>4, <3>1, Parts DEF Globals, Spares, Creating, Moved
    <2>8. BytesInv(h)'
      BY <1>1, <2>4, <2>5, Parts DEF BytesInv, Moved, x
    <2>9. AtLabelInv(h)'
      BY <1>1, <1>2, <2>1, <2>4, <2>8, Parts
      DEF Moved, AtLabelInv, CarriesInv, CreatesInv, CommitsInv, Creating, Importing, Locking
    <2>10. TypeOK'
      <3>1. Locks(h, "asset integrity")
        BY <1>1 DEF Locks, Locking
      <3>2. SwitchesOK' /\ RowOK' /\ AssetsOK' /\ stored' \subseteq Objects
        BY <1>1, <1>2, Types DEF SwitchesOK, RowOK, AssetsOK
      <3> QED
        BY <2>4, <3>1, <3>2, StepType
    <2>11. RowInv' /\ SnapshotsInv'
      BY <1>1, <1>2 DEF IInv, RowInv, SnapshotsInv, Snapshots
    <2>12. NamesInv'
      <3>1. \A a \in Assets : assetRow[a] = TRUE => assetRow'[a] = TRUE
        BY <1>2, <2>2, Types DEF Fresh, AssetsOK, FileConstants
      <3>2. row.names \subseteq Assets
        BY <1>2, RowType
      <3> QED
        BY <1>1, <3>1, <3>2 DEF IInv, NamesInv
    <2> QED
      BY <2>4, <2>6, <2>7, <2>9, <2>10, <2>11, <2>12, StepKeeps
  <1>3. ASSUME Moves(h, "clean", arg[h], left[h], base[h]), assetRow' = assetRow PROVE IInv'
    <2>1. Quiet(h)
      BY <1>1, <1>3, Parts DEF Quiet, Spares
    <2> QED
      BY <1>1, <1>3, <2>1, ToCleanKeeps DEF Importing
  <1> QED
    BY <1>2, <1>3, Parts DEF InsertImportedAsset, Goto, Moves, HandlersOK

\* The invariant outlives RegisterImportedAsset: an imported asset's integrity, after its row.
LEMMA RegisterImportedAssetKeeps ==
    ASSUME FileConstants, IInv, NEW h \in Handlers, RegisterImportedAsset(h)
    PROVE  IInv'
  <1> DEFINE x    == ImportedAsset(h)
             rest == left[h] \ {x}
             next == IF rest = {} THEN "count" ELSE "put asset"
  <1>1. /\ pc[h] = "asset integrity"
        /\ UNCHANGED <<up, row, assetRow, stored, lock, unused, created, doomed, answered, recounted>>
    BY DEF RegisterImportedAsset, historyVars
  <1>2. ASSUME row # None, integrity' = integrity \cup {x}, Moves(h, next, arg[h], rest, base[h])
        PROVE  IInv'
    <2>1. /\ x \in left[h] /\ x \in arg[h] /\ x \in Assets /\ up /\ created
          /\ left[h] \subseteq arg[h]
      BY <1>1, Parts, Chosen DEF CarriesInv
    <2>2. Coming(h) = rest /\ Registering(h) = {x}
      BY <1>1, <2>1 DEF Coming, Registering, Creating
    <2>3. next \in {"count", "put asset"} /\ next \in Labels /\ (next = "put asset" => rest # {})
      BY LabelsType DEF Importing
    <2>4. Moved(h, next, arg[h], rest, base[h])
      BY <1>2, <2>1, <2>3, Parts, Move
    <2> HIDE DEF next
    <2>5. Coming(h)' \subseteq rest /\ Registering(h)' = {} /\ Removing(h)' = {}
      BY <2>3, <2>4 DEF Moved, Coming, Registering, Removing, Creating
    <2>6. rest \cap (unused \cup Recorded) = {} /\ rest \subseteq arg[h]
      BY <2>1, <2>2, Parts DEF OwnsInv, Fresh, Recorded
    <2> HIDE DEF x, rest
    <2>7. AssetsMove(h)
      BY <1>1, <1>2, <2>2, <2>3, <2>4, <2>5, <2>6 DEF AssetsMove, Moved, Recorded
    <2>8. Globals(h)
      <3>1. \A k \in Handlers \ {h} : pc[k] \notin Creating
        BY <1>2, Parts DEF CreatesInv
      <3> QED
        BY <1>1, <2>3, <2>4, <3>1, Parts DEF Globals, Spares, Creating, Moved
    <2>9. AtLabelInv(h)'
      BY <1>1, <1>2, <2>1, <2>3, <2>4, <2>5, <2>6, Parts
      DEF Moved, AtLabelInv, CarriesInv, CreatesInv, CommitsInv, BytesInv, Creating, Importing, Locking
    <2>10. TypeOK'
      <3>1. Locks(h, next)
        BY <1>1, <2>3 DEF Locks, Locking
      <3>2. SwitchesOK' /\ RowOK' /\ AssetsOK' /\ stored' \subseteq Objects
        BY <1>1, <1>2, <2>1, Types DEF SwitchesOK, RowOK, AssetsOK
      <3> QED
        BY <2>4, <3>1, <3>2, StepType
    <2>11. RowInv' /\ SnapshotsInv' /\ NamesInv'
      BY <1>1 DEF IInv, RowInv, SnapshotsInv, Snapshots, NamesInv
    <2> QED
      BY <2>4, <2>7, <2>8, <2>9, <2>10, <2>11, StepKeeps
  <1>3. ASSUME Moves(h, "clean", arg[h], left[h], base[h]), integrity' = integrity PROVE IInv'
    <2>1. Quiet(h)
      BY <1>1, <1>3, Parts DEF Quiet, Spares
    <2> QED
      BY <1>1, <1>3, <2>1, ToCleanKeeps DEF Importing
  <1> QED
    BY <1>2, <1>3, Parts DEF RegisterImportedAsset, Goto, Moves, HandlersOK

\* What counting the names of a snapshot writes: TRUE for a name with a row, nothing without one.
LEMMA CountedType ==
    ASSUME FileConstants, NEW names \in SUBSET Assets
    PROVE  /\ Counted(names) \in [Assets -> {None} \cup BOOLEAN]
           /\ \A a \in Assets \ Recorded : Counted(names)[a] = None
           /\ \A a \in Recorded : Counted(names)[a] # None /\ (Counted(names)[a] = TRUE <=> a \in names)
  <1>1. \A a \in Assets : Counted(names)[a] = IF a \in Recorded THEN a \in names ELSE None
    BY DEF Counted
  <1>2. ASSUME NEW a \in Recorded
        PROVE  Counted(names)[a] \in BOOLEAN /\ (Counted(names)[a] = TRUE <=> a \in names)
    <2>1. a \in Assets /\ Counted(names)[a] = (a \in names)
      BY <1>1 DEF Recorded
    <2>2. CASE a \in names
      BY <2>1, <2>2
    <2>3. CASE a \notin names
      <3>1. (a \in names) = FALSE
        BY <2>3, SMT
      <3>2. Counted(names)[a] = FALSE
        BY <2>1, <3>1, Zenon
      <3> QED
        BY <2>3, <3>2
    <2> QED
      BY <2>2, <2>3
  <1>3. \A a \in Assets \ Recorded : Counted(names)[a] = None
    BY <1>1
  <1>4. Counted(names) \in [Assets -> {None} \cup BOOLEAN]
    BY <1>2, <1>3 DEF Counted
  <1> QED
    BY <1>2, <1>3, <1>4 DEF FileConstants

\* The invariant outlives CountImported: the final count of an import.
LEMMA CountImportedKeeps ==
    ASSUME FileConstants, IInv, NEW h \in Handlers, CountImported(h)
    PROVE  IInv'
  <1>1. /\ pc[h] = "count"
        /\ UNCHANGED <<up, row, integrity, stored, lock, unused, created, doomed>>
    BY DEF CountImported
  <1>2. ASSUME arg[h] \subseteq Recorded, assetRow' = Counted(arg[h]),
               recounted' = (row # None /\ row.revision > 1), answered' = TRUE,
               Moves(h, "idle", {}, {}, 0)
        PROVE  IInv'
    <2>1. created /\ up /\ (row # None /\ row.revision = 1 => row.names = arg[h])
      BY <1>1, Parts DEF CarriesInv, CreatesInv, Importing
    <2>2. Recorded' = Recorded
      <3>1. /\ \A a \in Assets \ Recorded : assetRow'[a] = None
            /\ \A a \in Recorded : assetRow'[a] # None
        BY <1>2, Parts, CountedType
      <3> QED
        BY <3>1 DEF Recorded
    <2>3. Moved(h, "idle", {}, {}, 0)
      BY <1>2, Parts, Move, LabelsType
    <2>4. Coming(h)' = {} /\ Registering(h)' = {} /\ Removing(h)' = {}
      BY <2>3 DEF Moved, Coming, Registering, Removing
    <2>5. AssetsMove(h)
      BY <1>1, <2>2, <2>3, <2>4 DEF AssetsMove, Moved
    <2>6. row # None => row.revision \in Nat \ {0}
      BY RowType
    <2>7. Globals(h)
      <3>1. row = None \/ row # None
        OBVIOUS
      <3>2. \A k \in Handlers \ {h} : pc[k] \notin Creating
        <4> SUFFICES ASSUME NEW k \in Handlers \ {h}, pc[k] \in Creating PROVE FALSE
          OBVIOUS
        <4>1. pc[h] = "idle"
          BY DEF IInv, ApartInv
        <4> QED
          BY <1>1, <4>1
      <3> QED
        BY <1>1, <2>3, <3>2, Parts DEF Globals, Spares, Creating, Moved
    <2>8. AtLabelInv(h)'
      BY <2>3, <2>4
      DEF Moved, AtLabelInv, CarriesInv, CreatesInv, CommitsInv, BytesInv, Creating, Importing, Locking
    <2>9. TypeOK'
      <3>1. Locks(h, "idle")
        BY <1>1 DEF Locks, Locking
      <3>2. SwitchesOK' /\ RowOK' /\ AssetsOK' /\ stored' \subseteq Objects
        BY <1>1, <1>2, Types DEF SwitchesOK, RowOK, AssetsOK, Counted
      <3> QED
        BY <2>3, <3>1, <3>2, StepType
    <2>10. RowInv'
      BY <1>1, <1>2, <2>1 DEF IInv, RowInv, Counted, NoAssets, Recorded
    <2>11. NamesInv'
      <3> SUFFICES ASSUME row # None, ~recounted', NEW a \in row.names
                   PROVE  assetRow'[a] = TRUE
        BY <1>1 DEF NamesInv
      <3>1. ~(row.revision > 1)
        BY <1>2
      <3>2. row.revision = 1
        BY <2>6, <3>1
      <3>3. a \in arg[h] /\ a \in Recorded
        BY <1>2, <2>1, <3>2
      <3> QED
        BY <1>2, <3>3, Parts, CountedType
    <2>12. SnapshotsInv'
      BY <1>1 DEF IInv, SnapshotsInv, Snapshots
    <2> QED
      BY <2>3, <2>5, <2>7, <2>8, <2>9, <2>10, <2>11, <2>12, StepKeeps
  <1>3. ASSUME Moves(h, "clean", arg[h], left[h], base[h]),
               UNCHANGED <<assetRow, recounted, answered>>
        PROVE  IInv'
    <2>1. Quiet(h)
      BY <1>1, <1>3, Parts DEF Quiet, Spares
    <2> QED
      BY <1>1, <1>3, <2>1, ToCleanKeeps DEF Importing
  <1> QED
    BY <1>2, <1>3, Parts DEF CountImported, Done, Goto, Moves, HandlersOK

\* The last step of a removal, with or without the row.
LEMMA GoneKeeps ==
    ASSUME FileConstants, IInv, NEW h \in Handlers, pc[h] \in {"clean", "delete snapshots"},
           Moves(h, "idle", {}, {}, 0), doomed' = TRUE, stored' \subseteq stored,
           RemoveRow \/ UNCHANGED <<row, assetRow, integrity>>,
           UNCHANGED <<up, lock, unused, created, answered, recounted>>
    PROVE  IInv'
  <1>1. Moved(h, "idle", {}, {}, 0)
    BY Parts, Move, LabelsType
  <1>2. Coming(h)' = {} /\ Registering(h)' = {} /\ Removing(h)' = {}
    BY <1>1 DEF Moved, Coming, Registering, Removing
  <1>3. Recorded' \subseteq Recorded /\ integrity' \subseteq integrity
    BY DEF RemoveRow, Recorded, NoAssets
  <1>4. AssetsMove(h)
    BY <1>1, <1>2, <1>3 DEF AssetsMove, Moved
  <1>5. Globals(h)
    <2>1. \A k \in Handlers \ {h} : pc[k] \notin Creating
      <3> SUFFICES ASSUME NEW k \in Handlers \ {h}, pc[k] \in Creating PROVE FALSE
        OBVIOUS
      <3> QED
        BY DEF IInv, ApartInv
    <2> QED
      BY <1>1, <2>1, Parts DEF Globals, Creating, Moved, RemoveRow
  <1>6. AtLabelInv(h)'
    BY <1>1, <1>2
    DEF Moved, AtLabelInv, CarriesInv, CreatesInv, CommitsInv, BytesInv, Creating, Importing, Locking
  <1>7. TypeOK'
    <2>1. Locks(h, "idle")
      BY DEF Locks, Locking
    <2>2. SwitchesOK' /\ RowOK' /\ AssetsOK' /\ stored' \subseteq Objects
      BY Types DEF SwitchesOK, RowOK, AssetsOK, RemoveRow, NoAssets
    <2> QED
      BY <1>1, <2>1, <2>2, StepType
  <1>8. created
    BY Parts DEF CarriesInv
  <1>9. RowInv' /\ NamesInv' /\ SnapshotsInv'
    BY <1>8 DEF IInv, RowInv, NamesInv, SnapshotsInv, RemoveRow
  <1> QED
    BY <1>1, <1>4, <1>5, <1>6, <1>7, <1>9, StepKeeps

\* The invariant outlives Clean: the clean-up of a failed import.
LEMMA CleanKeeps ==
    ASSUME FileConstants, IInv, NEW h \in Handlers, Clean(h)
    PROVE  IInv'
  <1>1. stored' \subseteq stored
    BY DEF Clean
  <1> QED
    BY <1>1, GoneKeeps DEF Clean, Done, Goto, Moves

\* The invariant outlives DeleteRow: and the row last.
LEMMA DeleteRowKeeps ==
    ASSUME FileConstants, IInv, NEW h \in Handlers, DeleteRow(h)
    PROVE  IInv'
  <1>1. doomed
    BY Parts DEF DeleteRow, CommitsInv
  <1> QED
    BY <1>1, Parts, GoneKeeps DEF DeleteRow, Done, Goto, Moves, historyVars

\* The invariant outlives Upload: an upload stores its bytes.
LEMMA UploadKeeps ==
    ASSUME FileConstants, IInv, NEW h \in Handlers, Upload(h)
    PROVE  IInv'
  <1>1. /\ pc[h] = "idle" /\ up /\ row # None
        /\ UNCHANGED <<up, row, assetRow, integrity, lock, created, doomed, answered, recounted>>
    BY DEF Upload, historyVars
  <1>2. PICK a \in unused :
           /\ unused' = unused \ {a}
           /\ \/ /\ Moves(h, "insert upload", {a}, left[h], base[h])
                 /\ stored' = stored \cup {Asset(a)}
              \/ /\ Moves(h, "idle", arg[h], left[h], base[h])
                 /\ stored' \in {stored, stored \cup {Asset(a)}}
    BY <1>1, Parts DEF Upload, Goto, Moves, HandlersOK
  <1>3. a \in Assets /\ Fresh(a) /\ a \notin integrity /\ a \notin Recorded
    BY Types DEF AssetsOK, IInv, UnusedInv, Fresh, Recorded
  <1>4. \A k \in Handlers : pc[k] \notin Creating
    BY <1>1, Parts DEF CreatesInv
  <1>5. SwitchesOK' /\ RowOK' /\ AssetsOK' /\ stored' \subseteq Objects /\ stored \subseteq stored'
    BY <1>1, <1>2, <1>3, Types, ObjectsType DEF SwitchesOK, RowOK, AssetsOK
  <1>6. RowInv' /\ NamesInv' /\ SnapshotsInv'
    BY <1>1, <1>5 DEF IInv, RowInv, NamesInv, SnapshotsInv, Snapshots
  <1>7. CASE /\ Moves(h, "insert upload", {a}, left[h], base[h])
             /\ stored' = stored \cup {Asset(a)}
    <2>1. Moved(h, "insert upload", {a}, left[h], base[h])
      BY <1>3, <1>7, Parts, Move, LabelsType
    <2>2. Coming(h)' = {a} /\ Registering(h)' = {} /\ Removing(h)' = {}
      BY <2>1 DEF Moved, Coming, Registering, Removing, Creating
    <2>3. AssetsMove(h)
      BY <1>1, <1>2, <1>3, <2>1, <2>2 DEF AssetsMove, Moved, Recorded
    <2>4. Globals(h)
      BY <1>1, <1>4, <1>5, <2>1, Parts DEF Globals, Spares, Creating, Moved
    <2>5. AtLabelInv(h)'
      BY <1>1, <1>3, <1>6, <1>7, <2>1, <2>2, Parts
      DEF Moved, AtLabelInv, CarriesInv, CreatesInv, CommitsInv, BytesInv, RowInv, Creating,
          Importing, Locking
    <2>6. TypeOK'
      <3>1. Locks(h, "insert upload")
        BY <1>1 DEF Locks, Locking
      <3> QED
        BY <1>5, <2>1, <3>1, StepType
    <2> QED
      BY <1>6, <2>1, <2>3, <2>4, <2>5, <2>6, StepKeeps
  <1>8. CASE Moves(h, "idle", arg[h], left[h], base[h])
    <2>1. Moved(h, "idle", arg[h], left[h], base[h])
      BY <1>8, Parts, Move, LabelsType
    <2>2. Coming(h)' = {} /\ Registering(h)' = {} /\ Removing(h)' = {}
      BY <2>1 DEF Moved, Coming, Registering, Removing, Creating
    <2>3. AssetsMove(h)
      BY <1>1, <1>2, <2>1, <2>2 DEF AssetsMove, Moved, Recorded
    <2>4. Globals(h)
      BY <1>1, <1>4, <1>5, <2>1, Parts DEF Globals, Spares, Creating, Moved
    <2>5. AtLabelInv(h)'
      BY <2>1, <2>2
      DEF Moved, AtLabelInv, CarriesInv, CreatesInv, CommitsInv, BytesInv, Creating, Importing, Locking
    <2>6. TypeOK'
      <3>1. Locks(h, "idle")
        BY <1>1 DEF Locks, Locking
      <3> QED
        BY <1>5, <2>1, <3>1, StepType
    <2> QED
      BY <1>6, <2>1, <2>3, <2>4, <2>5, <2>6, StepKeeps
  <1> QED
    BY <1>2, <1>7, <1>8

\* The invariant outlives InsertUpload: an upload's row.
LEMMA InsertUploadKeeps ==
    ASSUME FileConstants, IInv, NEW h \in Handlers, InsertUpload(h)
    PROVE  IInv'
  <1>1. /\ pc[h] = "insert upload"
        /\ UNCHANGED <<up, row, integrity, lock, unused, created, doomed, answered, recounted>>
    BY DEF InsertUpload, historyVars
  <1>2. PICK a \in Assets : arg[h] = {a} /\ TheAsset(h) = a
    BY <1>1, Parts, Chosen DEF CarriesInv
  <1>3. a \in Coming(h) /\ Fresh(a) /\ a \notin unused /\ Coming(h) = {a}
    BY <1>1, <1>2, Parts DEF Coming, OwnsInv, Creating
  <1>4. ASSUME row # None, assetRow' = [assetRow EXCEPT ![a] = FALSE], stored' = stored,
               Moves(h, "upload integrity", arg[h], left[h], base[h])
        PROVE  IInv'
    <2>1. Recorded' = Recorded \cup {a}
      BY <1>2, <1>4, Types DEF Recorded, AssetsOK, FileConstants
    <2>2. Moved(h, "upload integrity", arg[h], left[h], base[h])
      BY <1>4, Parts, Move, LabelsType
    <2>3. Coming(h)' = {} /\ Registering(h)' = {a} /\ Removing(h)' = {}
      BY <1>2, <2>2 DEF Moved, Coming, Registering, Removing, Creating
    <2>4. AssetsMove(h)
      BY <1>1, <1>3, <1>4, <2>1, <2>2, <2>3 DEF AssetsMove, Moved, Fresh
    <2>5. Globals(h)
      <3>1. \A k \in Handlers \ {h} : pc[k] \notin Creating
        BY <1>4, Parts DEF CreatesInv
      <3> QED
        BY <1>1, <1>4, <2>2, <3>1, Parts DEF Globals, Spares, Creating, Moved
    <2>6. AtLabelInv(h)'
      BY <1>1, <1>2, <1>4, <2>2, <2>3, Parts
      DEF Moved, AtLabelInv, CarriesInv, CreatesInv, CommitsInv, BytesInv, Creating, Importing, Locking
    <2>7. TypeOK'
      <3>1. Locks(h, "upload integrity")
        BY <1>1 DEF Locks, Locking
      <3>2. SwitchesOK' /\ RowOK' /\ AssetsOK' /\ stored' \subseteq Objects
        BY <1>1, <1>4, Types DEF SwitchesOK, RowOK, AssetsOK
      <3> QED
        BY <2>2, <3>1, <3>2, StepType
    <2>8. RowInv' /\ SnapshotsInv'
      BY <1>1, <1>4 DEF IInv, RowInv, SnapshotsInv, Snapshots
    <2>9. NamesInv'
      <3>1. \A x \in Assets : assetRow[x] = TRUE => assetRow'[x] = TRUE
        BY <1>3, <1>4, Types DEF Fresh, AssetsOK, FileConstants
      <3>2. row.names \subseteq Assets
        BY <1>4, RowType
      <3> QED
        BY <1>1, <3>1, <3>2 DEF IInv, NamesInv
    <2> QED
      BY <2>2, <2>4, <2>5, <2>6, <2>7, <2>8, <2>9, StepKeeps
  <1>5. ASSUME Moves(h, "idle", {}, {}, 0), assetRow' = assetRow,
               stored' \in {stored, stored \ {Asset(a)}}
        PROVE  IInv'
    <2>1. \A k \in Handlers \ {h} : a \notin Coming(k)
      BY <1>3 DEF IInv, ApartInv
    <2>2. Quiet(h)
      BY <1>1, <1>2, <1>3, <1>5, <2>1, Parts DEF Quiet, Spares, Fresh, Recorded, Creating
    <2> QED
      BY <1>1, <1>5, <2>2, Parts, IdleKeeps DEF Locking
  <1> QED
    BY <1>2, <1>4, <1>5, Parts DEF InsertUpload, DiscardUpload, Done, Goto, Moves, HandlersOK

\* The invariant outlives RegisterUpload: an upload's integrity.
LEMMA RegisterUploadKeeps ==
    ASSUME FileConstants, IInv, NEW h \in Handlers, RegisterUpload(h)
    PROVE  IInv'
  <1>1. /\ pc[h] = "upload integrity"
        /\ UNCHANGED <<up, row, assetRow, lock, unused, created, doomed, answered, recounted>>
        /\ Moves(h, "idle", {}, {}, 0)
    BY DEF RegisterUpload, DiscardUpload, Done, Goto, Moves, historyVars
  <1>2. PICK a \in Assets : arg[h] = {a} /\ TheAsset(h) = a
    BY <1>1, Parts, Chosen DEF CarriesInv
  <1>3. Registering(h) = {a} /\ a \notin integrity
    BY <1>1, <1>2, Parts DEF Registering, OwnsInv
  <1>4. ASSUME row # None, integrity' = integrity \cup {a}, stored' = stored
        PROVE  IInv'
    <2>1. Moved(h, "idle", {}, {}, 0)
      BY <1>1, Parts, Move, LabelsType
    <2>2. Coming(h)' = {} /\ Registering(h)' = {} /\ Removing(h)' = {}
      BY <2>1 DEF Moved, Coming, Registering, Removing
    <2>3. AssetsMove(h)
      BY <1>1, <1>3, <1>4, <2>1, <2>2 DEF AssetsMove, Moved, Recorded
    <2>4. Globals(h)
      <3>1. \A k \in Handlers \ {h} : pc[k] \notin Creating
        BY <1>4, Parts DEF CreatesInv
      <3> QED
        BY <1>1, <1>4, <2>1, <3>1, Parts DEF Globals, Spares, Creating, Moved
    <2>5. AtLabelInv(h)'
      BY <2>1, <2>2
      DEF Moved, AtLabelInv, CarriesInv, CreatesInv, CommitsInv, BytesInv, Creating, Importing, Locking
    <2>6. TypeOK'
      <3>1. Locks(h, "idle")
        BY <1>1 DEF Locks, Locking
      <3>2. SwitchesOK' /\ RowOK' /\ AssetsOK' /\ stored' \subseteq Objects
        BY <1>1, <1>2, <1>4, Types DEF SwitchesOK, RowOK, AssetsOK
      <3> QED
        BY <2>1, <3>1, <3>2, StepType
    <2>7. RowInv' /\ SnapshotsInv' /\ NamesInv'
      BY <1>1, <1>4 DEF IInv, RowInv, SnapshotsInv, Snapshots, NamesInv
    <2> QED
      BY <2>1, <2>3, <2>4, <2>5, <2>6, <2>7, StepKeeps
  <1>5. ASSUME integrity' = integrity, stored' \in {stored, stored \ {Asset(a)}}
        PROVE  IInv'
    <2>1. ASSUME NEW k \in Handlers \ {h} PROVE a \notin Coming(k) /\ a \notin Registering(k)
      <3>1. a \notin Registering(k)
        BY <1>3 DEF IInv, ApartInv
      <3>2. a \notin Coming(k)
        BY <1>3, Parts DEF OwnsInv, Fresh
      <3> QED
        BY <3>1, <3>2
    <2>2. Quiet(h)
      BY <1>1, <1>2, <1>3, <1>5, <2>1, Parts DEF Quiet, Spares, Creating
    <2> QED
      BY <1>1, <2>2, Parts, IdleKeeps DEF Locking
  <1> QED
    BY <1>2, <1>4, <1>5 DEF RegisterUpload, DiscardUpload

\* The invariant outlives DeleteAssetRow: it removes an uncounted row.
LEMMA DeleteAssetRowKeeps ==
    ASSUME FileConstants, IInv, NEW h \in Handlers, DeleteAssetRow(h)
    PROVE  IInv'
  <1>1. /\ pc[h] = "delete asset"
        /\ UNCHANGED <<up, row, stored, lock, unused, created, doomed, answered, recounted>>
    BY DEF DeleteAssetRow, historyVars
  <1>2. PICK a \in Assets : arg[h] = {a} /\ TheAsset(h) = a
    BY <1>1, Parts, Chosen DEF CarriesInv
  <1>3. ASSUME assetRow[a] = FALSE, assetRow' = [assetRow EXCEPT ![a] = None],
               integrity' = integrity \ {a},
               Moves(h, "delete bytes", arg[h], left[h], base[h])
        PROVE  IInv'
    <2>1. Recorded' = Recorded \ {a} /\ row # None
      BY <1>2, <1>3, Types DEF Recorded, AssetsOK, IInv, RowInv, NoAssets, FileConstants
    <2>2. Moved(h, "delete bytes", arg[h], left[h], base[h])
      BY <1>3, Parts, Move, LabelsType
    <2>3. Coming(h)' = {} /\ Registering(h)' = {} /\ Removing(h)' = {a} /\ Removing(h) = {a}
      BY <1>1, <1>2, <2>2 DEF Moved, Coming, Registering, Removing, Creating
    <2>4. AssetsMove(h)
      BY <1>1, <1>2, <1>3, <2>1, <2>2, <2>3 DEF AssetsMove, Moved
    <2>5. Globals(h)
      <3>1. \A k \in Handlers \ {h} : pc[k] \notin Creating
        BY <2>1, Parts DEF CreatesInv
      <3> QED
        BY <1>1, <2>2, <3>1, Parts DEF Globals, Spares, Creating, Moved
    <2>6. AtLabelInv(h)'
      BY <1>1, <1>2, <2>2, <2>3, Parts
      DEF Moved, AtLabelInv, CarriesInv, CreatesInv, CommitsInv, BytesInv, Creating, Importing, Locking
    <2>7. TypeOK'
      <3>1. Locks(h, "delete bytes")
        BY <1>1 DEF Locks, Locking
      <3>2. SwitchesOK' /\ RowOK' /\ AssetsOK' /\ stored' \subseteq Objects
        BY <1>1, <1>3, Types DEF SwitchesOK, RowOK, AssetsOK
      <3> QED
        BY <2>2, <3>1, <3>2, StepType
    <2>8. RowInv' /\ SnapshotsInv'
      BY <1>1, <2>1 DEF IInv, RowInv, SnapshotsInv, Snapshots
    <2>9. NamesInv'
      <3>1. \A x \in Assets : assetRow[x] = TRUE => assetRow'[x] = TRUE
        BY <1>3, Types DEF AssetsOK
      <3>2. row.names \subseteq Assets
        BY <2>1, RowType
      <3> QED
        BY <1>1, <3>1, <3>2 DEF IInv, NamesInv
    <2> QED
      BY <2>2, <2>4, <2>5, <2>6, <2>7, <2>8, <2>9, StepKeeps
  <1>4. ASSUME Moves(h, "idle", {}, {}, 0), UNCHANGED <<assetRow, integrity>>
        PROVE  IInv'
    <2>1. Quiet(h)
      BY <1>1, <1>4, Parts DEF Quiet, Spares
    <2> QED
      BY <1>1, <1>4, <2>1, Parts, IdleKeeps DEF Locking
  <1> QED
    BY <1>2, <1>3, <1>4, Parts
    DEF DeleteAssetRow, Deletable, ForgetAsset, Done, Goto, Moves, HandlersOK

\* The invariant outlives CommitRow: and commits onto the row it loaded.
LEMMA CommitRowKeeps ==
    ASSUME FileConstants, IInv, NEW h \in Handlers, CommitRow(h)
    PROVE  IInv'
  <1>1. /\ pc[h] = "commit" /\ lock' = None /\ Moves(h, "idle", {}, {}, 0)
        /\ UNCHANGED <<up, integrity, unused, created, doomed, answered>>
    BY DEF CommitRow, Release, Done, Goto, Moves
  <1>2. /\ lock = h /\ base[h] + 1 \in 2 .. MaxRevision /\ created
        /\ row # None => row.revision = base[h]
        /\ ~doomed => Snapshot(base[h] + 1) \in stored
    BY <1>1, Parts DEF CarriesInv, CommitsInv, Locking
  <1>3. \A k \in Handlers \ {h} : pc[k] \notin Locking
    BY <1>2, Parts
  <1>4. ASSUME row # None, arg[h] \subseteq Recorded, assetRow' = Counted(arg[h]),
               row' = [revision |-> base[h] + 1, names |-> arg[h]],
               recounted' = FALSE, stored' = stored
        PROVE  IInv'
    <2>1. base[h] + 1 \in 1 .. MaxRevision /\ base[h] + 1 # 1
      BY <1>2 DEF FileConstants
    <2>2. row' \in Rows /\ row' # None
      BY <1>4, <2>1, Parts DEF Rows, FileConstants
    <2>3. /\ Recorded' = Recorded /\ \A x \in arg[h] : assetRow'[x] = TRUE
          /\ assetRow' \in [Assets -> {None} \cup BOOLEAN]
      <3>1. /\ \A a \in Assets \ Recorded : assetRow'[a] = None
            /\ \A a \in Recorded : assetRow'[a] # None /\ (assetRow'[a] = TRUE <=> a \in arg[h])
            /\ assetRow' \in [Assets -> {None} \cup BOOLEAN]
        BY <1>4, Parts, CountedType
      <3> QED
        BY <1>4, <3>1 DEF Recorded
    <2>4. Moved(h, "idle", {}, {}, 0)
      BY <1>1, Parts, Move, LabelsType
    <2>5. Coming(h)' = {} /\ Registering(h)' = {} /\ Removing(h)' = {}
      BY <2>4 DEF Moved, Coming, Registering, Removing
    <2>6. AssetsMove(h)
      BY <1>1, <2>3, <2>4, <2>5 DEF AssetsMove, Moved
    <2>7. Globals(h)
      <3>1. \A k \in Handlers \ {h} : pc[k] \notin Creating
        BY <1>4, Parts DEF CreatesInv
      <3>2. row'.revision # 1
        BY <1>4, <2>1
      <3>3. Spares(h)
        BY <1>4 DEF Spares
      <3> QED
        BY <1>1, <1>3, <2>4, <3>1, <3>2, <3>3, Parts DEF Globals, Creating, Moved
    <2>8. AtLabelInv(h)'
      BY <2>4, <2>5
      DEF Moved, AtLabelInv, CarriesInv, CreatesInv, CommitsInv, BytesInv, Creating, Importing, Locking
    <2>9. TypeOK'
      <3>1. Locks(h, "idle")
        BY <1>1, <1>2 DEF Locks, Locking
      <3>2. SwitchesOK' /\ RowOK' /\ AssetsOK' /\ stored' \subseteq Objects
        BY <1>1, <1>4, <2>2, <2>3, Types DEF SwitchesOK, RowOK, AssetsOK
      <3> QED
        BY <2>4, <3>1, <3>2, StepType
    <2>10. RowInv' /\ NamesInv'
      BY <1>1, <1>2, <1>4, <2>2, <2>3 DEF RowInv, NamesInv
    <2>11. SnapshotsInv'
      <3>4. Snapshots(row)' = {Snapshot(w) : w \in 1 .. base[h] + 1}
        BY <1>4, <2>2 DEF Snapshots
      <3> SUFFICES ASSUME ~doomed
                   PROVE  Source \in stored /\ \A v \in 1 .. base[h] + 1 : Snapshot(v) \in stored
        BY <1>1, <1>4, <3>4 DEF SnapshotsInv
      <3>1. Source \in stored /\ \A w \in 1 .. base[h] : Snapshot(w) \in stored
        BY <1>2, <1>4 DEF IInv, SnapshotsInv, Snapshots
      <3>2. base[h] \in 0 .. MaxRevision /\ MaxRevision \in Nat
        BY Parts DEF FileConstants
      <3>3. \A v \in 1 .. base[h] + 1 : v \in 1 .. base[h] \/ v = base[h] + 1
        BY <3>2
      <3> QED
        BY <1>2, <3>1, <3>3
    <2> QED
      BY <2>4, <2>6, <2>7, <2>8, <2>9, <2>10, <2>11, StepKeeps
  <1>5. ASSUME stored' \in {stored, stored \ {Snapshot(base[h] + 1)}},
               UNCHANGED <<row, assetRow, recounted>>
        PROVE  IInv'
    <2>1. base[h] + 1 \in 1 .. MaxRevision /\ (row # None => row.revision < base[h] + 1)
      <3>1. base[h] \in 0 .. MaxRevision /\ MaxRevision \in Nat
        BY Parts DEF FileConstants
      <3> QED
        BY <1>2, <3>1
    <2>2. Spares(h)
      BY <1>3, <1>5, <2>1 DEF Spares, Locking
    <2>3. Quiet(h)
      BY <1>1, <1>5, <2>2, Parts DEF Quiet, Creating
    <2> QED
      BY <1>1, <1>2, <2>3, Parts, IdleKeeps
  <1> QED
    BY <1>4, <1>5 DEF CommitRow

--------------------------------------------------------------------------------
(* Steps no handler takes, and the theorems.                                    *)

\* Steps no handler takes: afterwards all are idle.
LEMMA IdleInv ==
    ASSUME FileConstants, TypeOK', \A k \in Handlers : pc'[k] = "idle", RowInv', AssetsInv',
           SnapshotsInv', NamesInv', \A x \in unused' : assetRow'[x] = None /\ x \notin integrity'
    PROVE  IInv'
  <1>1. ASSUME NEW k \in Handlers
        PROVE  Coming(k)' = {} /\ Registering(k)' = {} /\ Removing(k)' = {}
    BY <1>1 DEF Coming, Registering, Removing, Creating
  <1>2. ASSUME NEW k \in Handlers PROVE HandlerInv(k)'
    BY <1>1
    DEF HandlerInv, AtLabelInv, CarriesInv, CreatesInv, CommitsInv, OwnsInv, BytesInv, Creating,
        Importing, Locking
  <1>3. ApartInv'
    BY <1>1 DEF ApartInv, Creating
  <1>4. UnusedInv'
    BY <1>1 DEF UnusedInv, Fresh
  <1> QED
    BY <1>2, <1>3, <1>4 DEF IInv

\* The invariant holds of an empty service.
LEMMA InitIInv ==
    ASSUME FileConstants, Init
    PROVE  IInv
  <1>1. HandlersOK
    BY DEF Init, HandlersOK, Labels, FileConstants
  <1>2. assetRow \in [Assets -> {None} \cup BOOLEAN] /\ Recorded = {}
    BY DEF Init, Recorded, NoAssets
  <1>3. TypeOK
    BY <1>1, <1>2 DEF Init, TypeOK, FileConstants
  <1>4. ASSUME NEW k \in Handlers
        PROVE  pc[k] = "idle" /\ Coming(k) = {} /\ Registering(k) = {} /\ Removing(k) = {}
    BY DEF Init, Coming, Registering, Removing, Creating
  <1>5. ASSUME NEW k \in Handlers PROVE HandlerInv(k)
    BY <1>4
    DEF HandlerInv, AtLabelInv, CarriesInv, CreatesInv, CommitsInv, OwnsInv, BytesInv, Creating,
        Importing, Locking
  <1>6. ApartInv /\ UnusedInv
    BY <1>4 DEF Init, ApartInv, UnusedInv, Fresh, NoAssets, Creating
  <1> QED
    BY <1>2, <1>3, <1>5, <1>6 DEF Init, IInv, RowInv, AssetsInv, SnapshotsInv, NamesInv

\* The invariant outlives Crash: a crash drops every handler.
LEMMA CrashKeeps ==
    ASSUME FileConstants, IInv, Crash
    PROVE  IInv'
  <1>1. /\ \A k \in Handlers : pc'[k] = "idle"
        /\ up' = FALSE /\ lock' = None /\ HandlersOK'
        /\ UNCHANGED <<row, assetRow, integrity, stored, unused, created, doomed, answered,
                       recounted>>
    BY DEF Crash, HandlersOK, Labels, historyVars, FileConstants
  <1>2. TypeOK'
    BY <1>1 DEF IInv, TypeOK, FileConstants
  <1>3. \A x \in unused : assetRow[x] = None /\ x \notin integrity
    BY DEF IInv, UnusedInv, Fresh
  <1>4. RowInv' /\ AssetsInv' /\ SnapshotsInv' /\ NamesInv'
    BY <1>1 DEF IInv, RowInv, AssetsInv, SnapshotsInv, NamesInv, Snapshots, Recorded
  <1> QED
    BY <1>1, <1>2, <1>3, <1>4, IdleInv

\* The invariant outlives Start: a start.
LEMMA StartKeeps ==
    ASSUME FileConstants, IInv, Start
    PROVE  IInv'
  <1>1. /\ \A k \in Handlers : pc[k] = "idle"
        /\ up' = TRUE
        /\ UNCHANGED <<row, assetRow, integrity, stored, lock, unused, created, pc, arg, left, base,
                       doomed, answered, recounted>>
    BY Parts DEF Start, CarriesInv, handlerVars, historyVars
  <1>2. TypeOK'
    BY <1>1 DEF IInv, TypeOK, HandlersOK
  <1>3. \A x \in unused : assetRow[x] = None /\ x \notin integrity
    BY DEF IInv, UnusedInv, Fresh
  <1>4. RowInv' /\ AssetsInv' /\ SnapshotsInv' /\ NamesInv'
    BY <1>1 DEF IInv, RowInv, AssetsInv, SnapshotsInv, NamesInv, Snapshots, Recorded
  <1> QED
    BY <1>1, <1>2, <1>3, <1>4, IdleInv

\* The invariant outlives CollectBlob: the blob collector takes what no row refers to.
LEMMA CollectBlobKeeps ==
    ASSUME FileConstants, IInv, CollectBlob
    PROVE  IInv'
  <1>1. PICK object \in stored \ Referenced : stored' = stored \ {object}
    BY DEF CollectBlob
  <1>2. /\ \A k \in Handlers : pc[k] = "idle"
        /\ UNCHANGED <<up, row, assetRow, integrity, lock, unused, created, pc, arg, left, base,
                       doomed, answered, recounted>>
    BY Parts DEF CollectBlob, CarriesInv, handlerVars, historyVars
  <1>3. TypeOK'
    BY <1>1, <1>2 DEF IInv, TypeOK, HandlersOK
  <1>4. \A x \in unused : assetRow[x] = None /\ x \notin integrity
    BY DEF IInv, UnusedInv, Fresh
  <1>5. RowInv' /\ NamesInv'
    BY <1>2 DEF IInv, RowInv, NamesInv
  <1>6. AssetsInv'
    <2> SUFFICES ASSUME ~doomed, NEW x \in Recorded \cap integrity PROVE Asset(x) \in stored'
      BY <1>2 DEF AssetsInv, Recorded
    <2>1. row # None
      BY DEF IInv, RowInv, Recorded, NoAssets
    <2>2. Asset(x) \in stored /\ Asset(x) \in Referenced
      BY <2>1 DEF IInv, AssetsInv, Referenced
    <2> QED
      BY <1>1, <2>2
  <1>7. SnapshotsInv'
    BY <1>1, <1>2 DEF IInv, SnapshotsInv, Snapshots, Referenced
  <1> QED
    BY <1>2, <1>3, <1>4, <1>5, <1>6, <1>7, IdleInv

\* The invariant outlives CollectAsset: the asset collector takes uncounted assets.
LEMMA CollectAssetKeeps ==
    ASSUME FileConstants, IInv, CollectAsset
    PROVE  IInv'
  <1>1. PICK a \in Recorded :
           /\ assetRow[a] = FALSE
           /\ assetRow' = [assetRow EXCEPT ![a] = None]
           /\ integrity' = integrity \ {a}
           /\ stored' \in {stored, stored \ {Asset(a)}}
    BY DEF CollectAsset, ForgetAsset
  <1>2. /\ \A k \in Handlers : pc[k] = "idle"
        /\ UNCHANGED <<up, row, lock, unused, created, pc, arg, left, base, doomed, answered,
                       recounted>>
    BY Parts DEF CollectAsset, CarriesInv, handlerVars, historyVars
  <1>3. a \in Assets /\ row # None /\ assetRow \in [Assets -> {None} \cup BOOLEAN]
    BY Types DEF Recorded, IInv, RowInv, NoAssets, AssetsOK
  <1>4. Recorded' = Recorded \ {a}
    BY <1>1, <1>3 DEF Recorded
  <1>5. TypeOK'
    BY <1>1, <1>2 DEF IInv, TypeOK, HandlersOK
  <1>6. \A x \in unused : assetRow'[x] = None /\ x \notin integrity'
    BY <1>1, <1>3 DEF IInv, UnusedInv, Fresh
  <1>7. RowInv'
    BY <1>2, <1>3 DEF IInv, RowInv
  <1>8. NamesInv'
    <2>1. row.names \subseteq Assets
      BY <1>3, RowType
    <2>2. \A x \in Assets : assetRow[x] = TRUE => assetRow'[x] = TRUE
      BY <1>1, <1>3
    <2> QED
      BY <1>2, <2>1, <2>2 DEF IInv, NamesInv
  <1>9. AssetsInv'
    BY <1>1, <1>2, <1>4, ObjectsDiffer DEF IInv, AssetsInv
  <1>10. SnapshotsInv'
    <2>1. \A v : Snapshot(v) \in stored => Snapshot(v) \in stored'
      BY <1>1, ObjectsDiffer
    <2>2. Source \in stored => Source \in stored'
      BY <1>1, ObjectsDiffer
    <2> QED
      BY <1>2, <2>1, <2>2 DEF IInv, SnapshotsInv, Snapshots
  <1> QED
    BY <1>2, <1>5, <1>6, <1>7, <1>8, <1>9, <1>10, IdleInv

\* A step that changes nothing keeps it.
LEMMA StutterKeeps ==
    ASSUME IInv, UNCHANGED vars
    PROVE  IInv'
  <1>1. UNCHANGED <<up, row, assetRow, integrity, stored, lock, unused, created, pc, arg, left,
                    base, doomed, answered, recounted>>
    BY DEF vars, fileVars, handlerVars, historyVars
  <1>2. TypeOK'
    BY <1>1 DEF IInv, TypeOK, HandlersOK
  <1>3. ASSUME NEW k \in Handlers
        PROVE  /\ Coming(k)' = Coming(k) /\ Registering(k)' = Registering(k)
               /\ Removing(k)' = Removing(k) /\ ImportedAsset(k)' = ImportedAsset(k)
    BY <1>1 DEF Coming, Registering, Removing, ImportedAsset
  <1>4. \A x : Fresh(x)' <=> Fresh(x)
    BY <1>1, <1>3 DEF Fresh
  <1>5. Recorded' = Recorded
    BY <1>1 DEF Recorded
  <1>6. ASSUME NEW k \in Handlers PROVE HandlerInv(k)'
    <2>1. HandlerInv(k)
      BY DEF IInv
    <2>2. CarriesInv(k) /\ CreatesInv(k) /\ CommitsInv(k)
      BY <2>1 DEF HandlerInv, AtLabelInv
    <2>3. CarriesInv(k)'
      BY <1>1, <2>2 DEF CarriesInv
    <2>4. CreatesInv(k)'
      BY <1>1, <2>2 DEF CreatesInv
    <2>5. CommitsInv(k)'
      BY <1>1, <2>2 DEF CommitsInv
    <2>6. OwnsInv(k)'
      BY <1>1, <1>3, <1>4, <2>1 DEF HandlerInv, OwnsInv
    <2>7. BytesInv(k)'
      BY <1>1, <1>3, <1>5, <2>1 DEF HandlerInv, AtLabelInv, BytesInv
    <2> QED
      BY <2>5, <2>6, <2>7, <2>3, <2>4 DEF HandlerInv, AtLabelInv
  <1>7. ApartInv' /\ UnusedInv'
    BY <1>1, <1>3, <1>4 DEF IInv, ApartInv, UnusedInv
  <1>8. RowInv' /\ AssetsInv' /\ SnapshotsInv' /\ NamesInv'
    BY <1>1, <1>5 DEF IInv, RowInv, AssetsInv, SnapshotsInv, NamesInv, Snapshots
  <1> QED
    BY <1>2, <1>6, <1>7, <1>8 DEF IInv

\* Every step keeps the invariant.
LEMMA NextIInv ==
    ASSUME FileConstants, IInv, [Next]_vars
    PROVE  IInv'
  <1>1. ASSUME NEW h \in Handlers, Import(h) PROVE IInv'
    BY <1>1, CreateKeeps, PutSourceKeeps, PutFirstSnapshotKeeps, InsertArtifactKeeps,
       RegisterBlobsKeeps, PutImportedAssetKeeps, InsertImportedAssetKeeps,
       RegisterImportedAssetKeeps, CountImportedKeeps, CleanKeeps
    DEF Import
  <1>2. ASSUME NEW h \in Handlers, AssetRequest(h) PROVE IInv'
    BY <1>2, UploadKeeps, InsertUploadKeeps, RegisterUploadKeeps, ReadAssetKeeps,
       DeleteAssetRowKeeps, DeleteAssetBytesKeeps
    DEF AssetRequest
  <1>3. ASSUME NEW h \in Handlers, Commit(h) PROVE IInv'
    BY <1>3, LoadForCommitKeeps, PutCandidateKeeps, CommitRowKeeps DEF Commit
  <1>4. ASSUME NEW h \in Handlers, Removal(h) PROVE IInv'
    BY <1>4, DeleteArtifactKeeps, DeleteSourceKeeps, ListSnapshotsKeeps, DeleteSnapshotKeeps,
       DeleteRowKeeps
    DEF Removal
  <1> QED
    BY <1>1, <1>2, <1>3, <1>4, AbandonKeeps, CrashKeeps, StartKeeps, CollectBlobKeeps,
       CollectAssetKeeps, StutterKeeps
    DEF Next

\* What a live Artifact names is stored.
LEMMA IInvNames ==
    ASSUME FileConstants, IInv
    PROVE  NamedObjectsAreStored
  <1> SUFFICES ASSUME row # None, ~doomed
               PROVE  /\ Source \in stored /\ Snapshots(row) \subseteq stored
                      /\ (answered \/ row.revision > 1) /\ ~recounted =>
                            \A a \in row.names :
                               /\ assetRow[a] = TRUE
                               /\ a \in integrity => Asset(a) \in stored
    BY DEF NamedObjectsAreStored
  <1>1. Source \in stored /\ Snapshots(row) \subseteq stored
    BY DEF IInv, SnapshotsInv
  <1>2. ASSUME NEW a \in row.names, assetRow[a] = TRUE, a \in integrity PROVE Asset(a) \in stored
    <2>1. a \in Recorded
      BY <1>2, RowType DEF Recorded, FileConstants
    <2> QED
      BY <1>2, <2>1 DEF IInv, AssetsInv
  <1>3. (answered \/ row.revision > 1) /\ ~recounted => \A a \in row.names : assetRow[a] = TRUE
    BY DEF IInv, NamesInv
  <1> QED
    BY <1>1, <1>2, <1>3

\* Every variable keeps its type, and the write lock is held by exactly the handler
\* that is between loading the row and its commit (artifact_routes.rs).
THEOREM FilesTypeOK ==
    ASSUME FileConstants
    PROVE  Spec => []TypeOK
  <1>1. Init => IInv
    BY InitIInv
  <1>2. IInv /\ [Next]_vars => IInv'
    BY NextIInv
  <1>3. IInv => TypeOK
    BY DEF IInv
  <1> QED
    BY <1>1, <1>2, <1>3, PTL DEF Spec

\* Whatever requests are dropped, calls fail and crashes come in between: until its
\* removal begins, an Artifact has its source, every snapshot undo and restore can
\* ask for, and a counted, whole row for each asset its current snapshot names.
THEOREM FilesNamedObjectsAreStored ==
    ASSUME FileConstants
    PROVE  Spec => []NamedObjectsAreStored
  <1>1. Init => IInv
    BY InitIInv
  <1>2. IInv /\ [Next]_vars => IInv'
    BY NextIInv
  <1>3. IInv => NamedObjectsAreStored
    BY IInvNames
  <1> QED
    BY <1>1, <1>2, <1>3, PTL DEF Spec

================================================================================
