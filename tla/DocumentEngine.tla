---------------------------- MODULE DocumentEngine ----------------------------
(***************************************************************************)
(* The document engine: a tree of blocks kept as a vector of records that  *)
(* list their children, the sections and notes that refer to blocks, and   *)
(* an index (position and parent of every block) that each mutation        *)
(* updates in place.  A batch changes the live document and records a      *)
(* mutation per change; a refusal takes them back in reverse, undo takes   *)
(* back a whole journal entry, redo runs its mutations as commands again.  *)
(*                                                                         *)
(* A text is its length and a style mark; a table is its rows, columns,    *)
(* cells and merged ranges.  Every other payload is one value.             *)
(***************************************************************************)
EXTENDS Naturals, SequencesExt

CONSTANTS
    BlockIds,     \* block ids
    NewBlocks,    \* blocks the insert commands bring
    Lengths,      \* lengths of the texts the commands bring
    NewRows,      \* table rows the commands bring, without their cells
    NewColumns,   \* table columns the commands bring
    TableRanges,  \* table ranges the commands name
    NewSections,  \* sections the commands bring
    NewNotes,     \* notes the commands bring
    Documents,    \* the documents an engine is created with
    MaxCommands,  \* bound: commands in the open batch and in the journal
    None          \* no parent, no text, no data

VARIABLES
    model,  \* auxiliary: the document as the last batch found it, while it is
            \* open and when it was refused, or as a commit, undo or redo left it
    draft,  \* the live document and its index
    cmds,   \* number of commands of the open batch so far
    muts,   \* mutations recorded for the open batch
    told,   \* ChangeTracker of the open batch
    undo,   \* journal; cmds, before and after are auxiliary
    redo    \* entries an undo took off the journal

vars == <<model, draft, cmds, muts, told, undo, redo>>

----------------------------------------------------------------------------
(* Documents *)

Ids(s)     == {s[i].id : i \in DOMAIN s}
Pos(s, id) == CHOOSE i \in DOMAIN s : s[i].id = id
Get(s, id) == s[Pos(s, id)]
Unique(s)  == IsInjective([i \in DOMAIN s |-> s[i].id])
Where(s, x) == CHOOSE i \in DOMAIN s : s[i] = x

Text(n, style) == [len |-> n, style |-> style]
\* What the engine serialises: the document without the index.
Document(st) ==
    [root |-> st.root, blocks |-> st.blocks, setup |-> st.setup, pages |-> st.pages]

\* Ids below a list of ids, themselves included.
Below(blocks, ids) ==
    LET after[n \in 0..Len(blocks)] ==
            IF n = 0 THEN ids
            ELSE LET near == after[n - 1]
                 IN  near \cup UNION {ToSet(Get(blocks, x).children) : x \in near \cap Ids(blocks)}
    IN  after[Len(blocks)]

TreeValid(d) ==
    /\ Unique(d.blocks)
    /\ IsInjective(d.root)
    /\ \A b \in ToSet(d.blocks) : IsInjective(b.children)
    /\ Below(d.blocks, ToSet(d.root)) = Ids(d.blocks)
    \* one owner each
    /\ \A b \in ToSet(d.blocks) : ToSet(b.children) \cap ToSet(d.root) = {}
    /\ \A b, c \in ToSet(d.blocks) : b.id # c.id => ToSet(b.children) \cap ToSet(c.children) = {}

\* The rows and columns a range covers; both ends must exist, in order.
Resolves(t, r) ==
    /\ {r.startRow, r.endRow} \subseteq Ids(t.rows)
    /\ {r.startColumn, r.endColumn} \subseteq Ids(t.columns)
    /\ Pos(t.rows, r.startRow) <= Pos(t.rows, r.endRow)
    /\ Pos(t.columns, r.startColumn) <= Pos(t.columns, r.endColumn)
Covered(t, r) ==
    (Pos(t.rows, r.startRow)..Pos(t.rows, r.endRow))
    \X (Pos(t.columns, r.startColumn)..Pos(t.columns, r.endColumn))
\* merge_bounds: a range of more than one cell
Mergeable(t, r) == Resolves(t, r) /\ <<r.startRow, r.startColumn>> # <<r.endRow, r.endColumn>>

TableValid(t) ==
    /\ t.columns # << >> /\ Unique(t.columns) /\ Unique(t.rows)
    /\ \A row \in ToSet(t.rows) : Len(row.cells) = Len(t.columns)
    /\ \A i \in DOMAIN t.merges :
         /\ Mergeable(t, t.merges[i])
         /\ \A j \in 1..(i - 1) : Covered(t, t.merges[j]) \cap Covered(t, t.merges[i]) = {}

\* A section starts at a root block, the first one at the first, in root order;
\* a note is anchored in a text long enough.
PagesValid(d) ==
    LET s == d.pages.sections
        notes == d.pages.footnotes \o d.pages.endnotes
    IN  /\ Unique(s) /\ Unique(notes)
        /\ \A i \in DOMAIN s :
             /\ Contains(d.root, s[i].start)
             /\ i = 1 => s[i].start = d.root[1]
             /\ i > 1 => Where(d.root, s[i - 1].start) < Where(d.root, s[i].start)
        /\ \A n \in ToSet(notes) :
             /\ n.block \in Ids(d.blocks)
             /\ LET text == Get(d.blocks, n.block).text IN text # None /\ n.end <= text.len

Valid(d) ==
    /\ TreeValid(d)
    /\ \A b \in ToSet(d.blocks) :
         /\ b.kind \in {"todo", "code", "link", "image", "table"} <=> b.data # None
         /\ b.kind = "table" => TableValid(b.data)
    /\ PagesValid(d)

----------------------------------------------------------------------------
(* The index *)

IndexOf(d) ==
    [positions |-> [id \in Ids(d.blocks) |-> Pos(d.blocks, id)],
     parents   |-> [id \in BlockIds |->
        IF \E b \in ToSet(d.blocks) : Contains(b.children, id)
        THEN (CHOOSE b \in ToSet(d.blocks) : Contains(b.children, id)).id
        ELSE None]]

Open(d) ==
    [root |-> d.root, blocks |-> d.blocks, setup |-> d.setup, pages |-> d.pages,
     positions |-> IndexOf(d).positions, parents |-> IndexOf(d).parents]

\* The tree is a tree and the index the engine patches in place is the one it
\* would build from the document.
Sound(st) ==
    /\ TreeValid(Document(st))
    /\ st.positions = IndexOf(Document(st)).positions
    /\ st.parents = IndexOf(Document(st)).parents

Has(st, id)   == id \in DOMAIN st.positions
Block(st, id) == st.blocks[st.positions[id]]
Kids(st, p)   == IF p = None THEN st.root ELSE Block(st, p).children
SetKids(st, p, s) ==
    IF p = None THEN [st EXCEPT !.root = s]
    ELSE [st EXCEPT !.blocks[st.positions[p]].children = s]
SetBlock(st, b) == IF Has(st, b.id) THEN [st EXCEPT !.blocks[st.positions[b.id]] = b] ELSE st

\* container_position: the parent the index names must list the block.
InContainer(st, id) ==
    LET p == st.parents[id] IN (p # None => Has(st, p)) /\ Contains(Kids(st, p), id)

RemoveFromParent(st, id) ==
    IF Contains(st.root, id) THEN SetKids(st, None, RemoveFirst(st.root, id))
    ELSE IF st.parents[id] # None /\ InContainer(st, id)
         THEN SetKids(st, st.parents[id], RemoveFirst(Kids(st, st.parents[id]), id))
         ELSE st

CanInsertChild(st, p, at) == (p # None => Has(st, p)) /\ at <= Len(Kids(st, p))
InsertChild(st, p, at, id) ==
    IF CanInsertChild(st, p, at) THEN SetKids(st, p, InsertAt(Kids(st, p), at + 1, id)) ELSE st

\* Broken: blocks behind the removed ones keep their positions.
RemovePositionsUnshifted(st, ids) ==
    [st EXCEPT
        !.positions = [x \in DOMAIN @ \ ids |-> @[x]],
        !.parents   = [x \in DOMAIN @ |-> IF x \in ids THEN None ELSE @[x]]]

RemovePositions(st, ids) ==
    LET gone == {st.positions[x] : x \in ids \cap DOMAIN st.positions}
        Fewer(n) == Len(SelectSeq([i \in 1..(n - 1) |-> i], LAMBDA i : i \in gone))
    IN  [st EXCEPT
            !.positions = [x \in DOMAIN @ \ ids |-> @[x] - Fewer(@[x])],
            !.parents   = [x \in DOMAIN @ |-> IF x \in ids THEN None ELSE @[x]]]

\* reindex_positions_only: blocks that are there get their position; entries of
\* blocks that are not stay.
Reindexed(st) ==
    [st EXCEPT !.positions = [x \in DOMAIN @ \cup Ids(st.blocks) |->
        IF x \in Ids(st.blocks) THEN Pos(st.blocks, x) ELSE @[x]]]

----------------------------------------------------------------------------
(* Edits of one block *)

TextKinds == {"paragraph", "quote", "todo", "code"}

\* cells a selection names: the whole table, a row, a column, or a range in
\* either direction
Selected(t, sel) ==
    {<<i, j>> \in (DOMAIN t.rows) \X (DOMAIN t.columns) :
        CASE sel.kind = "all"    -> TRUE
          [] sel.kind = "row"    -> t.rows[i].id = sel.row
          [] sel.kind = "column" -> t.columns[j].id = sel.column}
CanSelect(t, sel) ==
    CASE sel.kind = "all"    -> TRUE
      [] sel.kind = "row"    -> sel.row \in Ids(t.rows)
      [] sel.kind = "column" -> sel.column \in Ids(t.columns)

Styled(t, cells) ==
    [t EXCEPT !.rows = [i \in DOMAIN @ |->
        [@[i] EXCEPT !.cells = [j \in DOMAIN @ |->
            IF <<i, j>> \in cells THEN [@[j] EXCEPT !.style = 1] ELSE @[j]]]]]

CanEditTable(t, c) ==
    CASE c.op = "ReplaceTableCellText" ->
           c.row \in Ids(t.rows) /\ c.at \in DOMAIN Get(t.rows, c.row).cells
      [] c.op = "PatchTableCellInlineRange" ->
           /\ c.row \in Ids(t.rows) /\ c.at \in DOMAIN Get(t.rows, c.row).cells
           /\ c.end <= Get(t.rows, c.row).cells[c.at].len
      [] c.op = "InsertTableRow" -> c.cells = Len(t.columns) /\ c.at <= Len(t.rows)
      [] c.op = "InsertTableColumn" -> c.cells = Len(t.rows) /\ c.at <= Len(t.columns)
      [] c.op = "SetTableColumnWidth" -> c.column \in Ids(t.columns)
      [] c.op = "SetTableRowHeight" -> c.row \in Ids(t.rows)
      [] c.op = "DeleteTableRow" -> Len(t.rows) > 1 /\ c.row \in Ids(t.rows)
      [] c.op = "DeleteTableColumn" -> Len(t.columns) > 1 /\ c.column \in Ids(t.columns)
      [] c.op = "MergeTableCells" ->
           /\ Mergeable(t, c.range)
           \* a merge absorbs merges it encloses and refuses partial overlap
           /\ \A m \in ToSet(t.merges) :
                \/ ~Resolves(t, m)
                \/ Covered(t, m) \cap Covered(t, c.range) = {}
                \/ Covered(t, m) \subseteq Covered(t, c.range)
      [] c.op = "SplitTableCells" -> Mergeable(t, c.range) /\ Contains(t.merges, c.range)
      [] OTHER -> CanSelect(t, c.selection)

Absorbed(t, r) == {m \in ToSet(t.merges) : Resolves(t, m) /\ Covered(t, m) \cap Covered(t, r) # {}}

EditedTable(t, c) ==
    CASE c.op = "ReplaceTableCellText" ->
           [t EXCEPT !.rows[Pos(t.rows, c.row)].cells[c.at].len = c.len]
      [] c.op = "PatchTableCellInlineRange" ->
           [t EXCEPT !.rows[Pos(t.rows, c.row)].cells[c.at].style = 1]
      [] c.op = "InsertTableRow" ->
           [t EXCEPT !.rows = InsertAt(@, c.at + 1,
                [id |-> c.row, size |-> 0, cells |-> [i \in 1..c.cells |-> Text(0, 0)]])]
      [] c.op = "InsertTableColumn" ->
           [t EXCEPT !.columns = InsertAt(@, c.at + 1, [id |-> c.column, size |-> 0]),
                     !.rows = [i \in DOMAIN @ |->
                        [@[i] EXCEPT !.cells = InsertAt(@, c.at + 1, Text(0, 0))]]]
      [] c.op = "SetTableColumnWidth" -> [t EXCEPT !.columns[Pos(t.columns, c.column)].size = 1]
      [] c.op = "SetTableRowHeight" -> [t EXCEPT !.rows[Pos(t.rows, c.row)].size = 1]
      [] c.op = "DeleteTableRow" -> [t EXCEPT !.rows = RemoveAt(@, Pos(t.rows, c.row))]
      [] c.op = "DeleteTableColumn" ->
           [t EXCEPT !.columns = RemoveAt(@, Pos(t.columns, c.column)),
                     !.rows = [i \in DOMAIN @ |->
                        [@[i] EXCEPT !.cells = RemoveAt(@, Pos(t.columns, c.column))]]]
      [] c.op = "MergeTableCells" ->
           [t EXCEPT !.merges = Append(
                SelectSeq(@, LAMBDA m : m \notin Absorbed(t, c.range)), c.range)]
      [] c.op = "SplitTableCells" -> [t EXCEPT !.merges = RemoveFirst(@, c.range)]
      \* format, borders and border preset
      [] OTHER -> Styled(t, Selected(t, c.selection))

TableOps == {"ReplaceTableCellText", "PatchTableCellInlineRange", "InsertTableRow",
             "InsertTableColumn", "SetTableColumnWidth", "SetTableRowHeight", "DeleteTableRow",
             "DeleteTableColumn", "MergeTableCells", "SplitTableCells", "FormatTableCells"}

CanEdit(b, c) ==
    CASE c.op \in TableOps -> b.kind = "table" /\ CanEditTable(b.data, c)
      [] c.op = "SetBlockPresentation" -> TRUE
      [] c.op = "SetTodoChecked" -> b.kind = "todo"
      [] c.op = "SetLinkTarget" -> b.kind = "link"
      [] c.op = "SetCodeConfig" -> b.kind = "code"
      [] c.op = "SetImageConfig" -> b.kind = "image" /\ c.valid
      [] c.op = "PatchInlineRange" -> b.text # None /\ c.end <= b.text.len
      [] c.op = "ConvertBlock" -> b.text # None /\ c.kind \in TextKinds
      [] OTHER -> b.text # None

Edited(b, c) ==
    CASE c.op \in TableOps -> [b EXCEPT !.data = EditedTable(@, c)]
      [] c.op = "SetBlockPresentation" -> [b EXCEPT !.look = 1]
      [] c.op \in {"SetTodoChecked", "SetLinkTarget", "SetCodeConfig"} -> [b EXCEPT !.data = 1]
      [] c.op = "SetImageConfig" -> [b EXCEPT !.data = [asset |-> 1, crop |-> 1]]
      [] c.op = "PatchInlineRange" -> [b EXCEPT !.text.style = 1]
      [] c.op = "ConvertToLink" -> [b EXCEPT !.kind = "link", !.data = 0]
      [] c.op = "ReplaceBlockText" -> [b EXCEPT !.text = Text(c.len, 0)]
      [] c.op = "ConvertBlock" ->
           [b EXCEPT !.kind = c.kind,
                     !.data = IF c.kind \in {"todo", "code"}
                              THEN IF b.kind = c.kind THEN @ ELSE 0 ELSE None]
      [] c.op = "ResetBlock" ->
           [b EXCEPT !.kind = "paragraph", !.look = 0, !.text = Text(0, 0), !.data = None]

----------------------------------------------------------------------------
(* Commands.  Each gives the live document after it and the mutations it     *)
(* recorded; the document of a refused command is what it leaves behind.     *)

\* What a command adds to the ChangeTracker: blocks, and whether the structure
\* changed.
Silent      == [blocks |-> {}, structure |-> FALSE]
Changes(bs) == [blocks |-> bs, structure |-> FALSE]
Reshapes(bs) == [blocks |-> bs \ {None}, structure |-> TRUE]
Both(t, u)  == [blocks |-> t.blocks \cup u.blocks, structure |-> t.structure \/ u.structure]

Done(st, m, t) == [ok |-> TRUE, st |-> st, muts |-> m, told |-> t]
Refused(st)    == [ok |-> FALSE, st |-> st, muts |-> << >>, told |-> Silent]

Update(before, after) == [op |-> "Update", id |-> before.id, before |-> before, after |-> after]

InsertBlockIn(st, c) ==
    LET id == c.block.id IN
    IF Has(st, id) \/ ~CanInsertChild(st, c.parent, c.at) THEN Refused(st)
    ELSE LET s == InsertChild(st, c.parent, c.at, id)
         IN  Done([s EXCEPT
                !.blocks = Append(@, c.block),
                !.positions = [x \in DOMAIN @ \cup {id} |-> IF x = id THEN Len(st.blocks) + 1 ELSE @[x]],
                !.parents[id] = c.parent],
              <<[op |-> "Insert", block |-> c.block, parent |-> c.parent, at |-> c.at]>>,
              Reshapes({id, c.parent}))

DeleteBlockIn(st, id) ==
    IF st.root = <<id>> \/ ~Has(st, id) \/ ~InContainer(st, id) THEN Refused(st)
    ELSE LET tree == Below(st.blocks, {id})
             gone == SelectSeq([i \in DOMAIN st.blocks |-> [at |-> i - 1, block |-> st.blocks[i]]],
                               LAMBDA r : r.block.id \in tree)
             p    == st.parents[id]
             s    == RemoveFromParent(st, id)
         IN  Done(RemovePositions(
                [s EXCEPT !.blocks = SelectSeq(@, LAMBDA b : b.id \notin tree)], tree),
              <<[op |-> "Delete", id |-> id, removed |-> gone, parent |-> p,
                 at |-> Where(Kids(st, p), id) - 1]>>,
              Reshapes(tree \cup {p}))

MoveBlockIn(st, c) ==
    LET from == st.parents[c.id]
        last == Len(Kids(st, c.parent)) - IF from = c.parent THEN 1 ELSE 0
    IN  IF \/ ~Has(st, c.id) \/ (c.parent # None /\ ~Has(st, c.parent))
           \/ c.parent \in Below(st.blocks, {c.id})
           \/ ~InContainer(st, c.id) \/ c.at > last
        THEN Refused(st)
        ELSE Done([InsertChild(RemoveFromParent(st, c.id), c.parent, c.at, c.id)
                      EXCEPT !.parents[c.id] = c.parent],
                  <<[op |-> "Move", id |-> c.id, from |-> from,
                     fromAt |-> Where(Kids(st, from), c.id) - 1, to |-> c.parent, at |-> c.at]>>,
                  Reshapes({c.id, from, c.parent}))

\* Every edit of one block records the block before and after.  An image patch
\* that is refused has already set the asset.
EditIn(st, c) ==
    IF ~Has(st, c.id) THEN Refused(st)
    ELSE LET block == Block(st, c.id) IN
         IF CanEdit(block, c)
         THEN Done(SetBlock(st, Edited(block, c)), <<Update(block, Edited(block, c))>>, Changes({c.id}))
         ELSE IF c.op = "SetImageConfig" /\ block.kind = "image"
              THEN Refused(SetBlock(st, [block EXCEPT !.data.asset = 1]))
              ELSE Refused(st)

PutFirst(s, x) == IF x.id \in Ids(s) THEN [s EXCEPT ![Pos(s, x.id)] = x] ELSE Append(s, x)
Without(s, id) == SelectSeq(s, LAMBDA x : x.id # id)

\* Sections and notes: refused, or the whole page semantics before and after.
CanSetPages(pages, c) ==
    CASE c.op = "UpsertSection" -> c.at <= Len(Without(pages.sections, c.section.id))
      [] c.op = "DeleteSection" -> c.id \in Ids(pages.sections)
      [] c.op = "UpsertNote"    -> TRUE
      [] c.op = "DeleteNote"    -> c.id \in Ids(pages[c.kind])

SetPages(pages, c) ==
    CASE c.op = "UpsertSection" ->
           [pages EXCEPT !.sections = InsertAt(Without(@, c.section.id), c.at + 1, c.section)]
      [] c.op = "DeleteSection" -> [pages EXCEPT !.sections = Without(@, c.id)]
      [] c.op = "UpsertNote"    -> [pages EXCEPT ![c.kind] = PutFirst(@, c.note)]
      [] c.op = "DeleteNote"    -> [pages EXCEPT ![c.kind] = Without(@, c.id)]

PagesIn(st, c) ==
    IF ~CanSetPages(st.pages, c) THEN Refused(st)
    ELSE LET after == SetPages(st.pages, c)
         IN  Done([st EXCEPT !.pages = after],
                  <<[op |-> "SetPageSemantics", before |-> st.pages, after |-> after]>>, Reshapes({}))

SetupIn(st, c) ==
    Done([st EXCEPT !.setup = c.setup],
         <<[op |-> "SetPageSetup", before |-> st.setup, after |-> c.setup]>>, Reshapes({}))

\* Texts a query matches (those of its length), in tree order: blocks, then the
\* cells of a table row by row.
Matches(st, len) ==
    LET own(b) ==
            (IF b.text # None /\ b.text.len = len THEN <<[id |-> b.id, row |-> None, at |-> 0]>> ELSE << >>)
            \o IF b.kind # "table" THEN << >>
               ELSE FlattenSeq([i \in DOMAIN b.data.rows |->
                        LET cells == b.data.rows[i].cells
                            hits  == SelectSeq([j \in DOMAIN cells |-> j], LAMBDA j : cells[j].len = len)
                        IN  [h \in DOMAIN hits |-> [id |-> b.id, row |-> b.data.rows[i].id, at |-> hits[h]]]])
        from[d \in 0..Len(st.blocks), id \in Ids(st.blocks)] ==
            own(Get(st.blocks, id)) \o
            IF d = 0 THEN << >>
            ELSE LET kids == SelectSeq(Get(st.blocks, id).children, LAMBDA x : x \in Ids(st.blocks))
                 IN  FlattenSeq([i \in DOMAIN kids |-> from[d - 1, kids[i]]])
    IN  FlattenSeq([i \in DOMAIN st.root |-> from[Len(st.blocks), st.root[i]]])

\* One result after another.
Joined(r, s) ==
    [ok |-> r.ok /\ s.ok, st |-> s.st, muts |-> r.muts \o s.muts, told |-> Both(r.told, s.told)]

ReplaceMatch(r, hit, len) ==
    LET edit == IF hit.row = None
             THEN [op |-> "ReplaceBlockText", id |-> hit.id, len |-> len]
             ELSE [op |-> "ReplaceTableCellText", id |-> hit.id, row |-> hit.row, at |-> hit.at, len |-> len]
    IN  Joined(r, EditIn(r.st, edit))

ReplaceTextIn(st, c) ==
    LET hits == Matches(st, c.query)
        some == IF c.op = "ReplaceAllText" THEN hits ELSE SelectSeq(hits, LAMBDA h : h.id = c.id)
    IN  IF some = << >> THEN Refused(st)
        ELSE FoldLeft(LAMBDA r, h : ReplaceMatch(r, h, c.len), Done(st, << >>, Silent),
                      IF c.op = "ReplaceAllText" THEN some ELSE <<Head(some)>>)

Apply(st, c) ==
    CASE c.op = "InsertBlock" -> InsertBlockIn(st, c)
      [] c.op = "DeleteBlock" -> DeleteBlockIn(st, c.id)
      [] c.op = "MoveBlock"   -> MoveBlockIn(st, c)
      [] c.op = "SetPageSetup" -> SetupIn(st, c)
      [] c.op \in {"UpsertSection", "DeleteSection", "UpsertNote", "DeleteNote"} -> PagesIn(st, c)
      [] c.op \in {"ReplaceAllText", "ReplaceTextMatch"} -> ReplaceTextIn(st, c)
      [] OTHER -> EditIn(st, c)

----------------------------------------------------------------------------
(* Taking mutations back and putting them in again *)

\* restore_removed: the records go back to their places in the vector, each one
\* loses its parent entry before its children get theirs, and the first record
\* is taken for the root of the subtree.
RestoreRecord(st, r) ==
    LET at == IF r.at > Len(st.blocks) THEN Len(st.blocks) ELSE r.at
        id == r.block.id
    IN  [st EXCEPT
            !.blocks = InsertAt(@, at + 1, r.block),
            !.positions = [x \in DOMAIN @ \cup {id} |->
                IF x = id THEN at + 1 ELSE IF @[x] > at THEN @[x] + 1 ELSE @[x]],
            !.parents = [x \in DOMAIN @ |->
                IF Contains(r.block.children, x) THEN id ELSE IF x = id THEN None ELSE @[x]]]

RestoreRemoved(st, m) ==
    LET s    == FoldLeft(RestoreRecord, st, m.removed)
        root == m.removed[1].block.id
    IN  [InsertChild(s, m.parent, m.at, root) EXCEPT !.parents[root] = m.parent]

TakeBack(m, st) ==
    Reindexed(CASE m.op = "Insert" ->
           LET s == RemoveFromParent(st, m.block.id)
           IN  RemovePositions([s EXCEPT !.blocks = Without(@, m.block.id)], {m.block.id})
      [] m.op = "Delete" -> RestoreRemoved(st, m)
      [] m.op = "Update" -> SetBlock(st, m.before)
      [] m.op = "Move" ->
           [InsertChild(RemoveFromParent(st, m.id), m.from, m.fromAt, m.id)
               EXCEPT !.parents[m.id] = m.from]
      [] m.op = "SetPageSetup" -> [st EXCEPT !.setup = m.before]
      [] m.op = "SetPageSemantics" -> [st EXCEPT !.pages = m.before])

\* Broken: the mutations are taken back in the order they were made.
TakenBackForwards(st, ms) == FoldLeft(LAMBDA s, m : TakeBack(m, s), st, ms)
TakenBack(st, ms) == FoldRight(TakeBack, ms, st)

\* Put in again: pages and block updates as recorded, the rest as a command that
\* records fresh mutations.
Again(m) ==
    CASE m.op = "Insert" -> [op |-> "InsertBlock", block |-> m.block, parent |-> m.parent, at |-> m.at]
      [] m.op = "Delete" -> [op |-> "DeleteBlock", id |-> m.id]
      [] m.op = "Move"   -> [op |-> "MoveBlock", id |-> m.id, parent |-> m.to, at |-> m.at]
      [] m.op = "SetPageSetup" -> [op |-> "SetPageSetup", setup |-> m.after]

Forward(st, m) ==
    CASE m.op = "Update" -> Reindexed(SetBlock(st, m.after))
      [] m.op = "SetPageSemantics" -> Reindexed([st EXCEPT !.pages = m.after])
      [] OTHER -> Apply(st, Again(m)).st

\* lost: the block of an update is gone; redo answers at once, with what it has
\* applied so far and without the entry.
AgainOn(st, m) ==
    CASE m.op = "Update" ->
           IF Has(st, m.id)
           THEN Done(SetBlock(st, m.after), <<Update(Block(st, m.id), m.after)>>, Changes({m.id}))
           ELSE Refused(st)
      [] m.op = "SetPageSemantics" ->
           Done([st EXCEPT !.pages = m.after],
                <<[op |-> m.op, before |-> st.pages, after |-> m.after]>>, Reshapes({}))
      [] OTHER -> Apply(st, Again(m))

RedoStep(r, m) ==
    IF ~r.ok THEN r
    ELSE Joined(r, AgainOn(r.st, m)) @@ [lost |-> m.op = "Update" /\ ~Has(r.st, m.id)]

Redone(st, ms) == FoldLeft(RedoStep, Done(st, << >>, Silent) @@ [lost |-> FALSE], ms)

----------------------------------------------------------------------------
(* Change sets of an undo or a redo, read from its mutations; an inverse says  *)
(* what its mutation said                                                     *)

Touched(m) ==
    CASE m.op = "Insert" -> {m.block.id, m.parent}
      [] m.op = "Delete" -> {x.block.id : x \in ToSet(m.removed)} \cup {m.parent}
      [] m.op = "Update" -> {m.id}
      [] m.op = "Move"   -> {m.id, m.from, m.to}
      [] OTHER           -> {}

ChangeSet(ms) ==
    [blocks    |-> UNION {Touched(ms[i]) : i \in DOMAIN ms},
     structure |-> \E i \in DOMAIN ms : ms[i].op # "Update"]

----------------------------------------------------------------------------
(* Behaviour *)

CountAll(s) == FoldLeft(LAMBDA n, e : n + e.cmds, 0, s)

Init ==
    /\ model \in Documents
    /\ draft = Open(model)
    /\ cmds = 0 /\ muts = << >> /\ told = Silent /\ undo = << >> /\ redo = << >>

NoBatch == cmds' = 0 /\ muts' = << >> /\ told' = Silent

\* The document the batch of the next command, or the open one, began with.
Began == IF cmds = 0 THEN Document(draft) ELSE model

\* A batch that ends refused; what that leaves is to be compared with the model.
Refuse(st) == draft' = TakenBack(st, muts) /\ model' = Began /\ NoBatch

\* What a command leaves: its result, or the batch refused.
Folded(r) ==
    IF r.ok
    THEN /\ draft' = r.st
         /\ cmds' = cmds + 1
         /\ muts' = muts \o r.muts
         /\ told' = Both(told, r.told)
         /\ model' = Began
    ELSE Refuse(r.st)

Fold(c) ==
    /\ cmds + CountAll(undo) + CountAll(redo) < MaxCommands
    /\ Sound(draft)   \* bound: a damaged document takes no further command
    /\ \E r \in {Apply(draft, c)} : Folded(r)
    /\ UNCHANGED <<undo, redo>>

Finish ==
    /\ cmds > 0
    /\ IF Valid(Document(draft))
       THEN /\ undo' = Append(undo, [muts |-> muts, cmds |-> cmds, before |-> model,
                                     after |-> Document(draft)])
            /\ redo' = << >>
            /\ model' = Document(draft)
            /\ NoBatch /\ UNCHANGED draft
       ELSE Refuse(draft) /\ UNCHANGED <<undo, redo>>

\* s: the document with the entry e taken back, kept only if it is valid.
Undone(e, s) ==
    IF Valid(Document(s))
    THEN draft' = s /\ model' = Document(s) /\ undo' = Front(undo) /\ redo' = Append(redo, e)
    ELSE draft' = FoldLeft(Forward, s, e.muts) /\ model' = Began /\ UNCHANGED <<undo, redo>>

Undo ==
    /\ cmds = 0 /\ undo # << >>
    /\ \E s \in {TakenBack(draft, Last(undo).muts)} : Undone(Last(undo), s)
    /\ UNCHANGED <<cmds, muts, told>>

\* r: the entry e put in again.
RedoneWith(e, r) ==
    IF r.ok /\ Valid(Document(r.st))
    THEN /\ draft' = r.st
         /\ model' = Document(r.st)
         /\ undo' = Append(undo, [e EXCEPT !.muts = r.muts, !.before = Document(draft),
                                        !.after = Document(r.st)])
         /\ redo' = Front(redo)
    ELSE /\ draft' = IF r.lost THEN r.st ELSE TakenBack(r.st, r.muts)
         /\ model' = IF r.lost THEN Document(r.st) ELSE Began
         /\ redo' = IF r.lost THEN Front(redo) ELSE redo
         /\ UNCHANGED undo

Redo ==
    /\ cmds = 0 /\ redo # << >>
    /\ \E r \in {Redone(draft, Last(redo).muts)} : RedoneWith(Last(redo), r)
    /\ UNCHANGED <<cmds, muts, told>>

Parents == BlockIds \cup {None}
Tables  == {b \in ToSet(draft.blocks) : b.kind = "table"}

\* InsertBlock, InsertQuote, InsertTodo, InsertLink, InsertDivider; one index
\* too large is enough
InsertBlocks ==
    {[op |-> "InsertBlock", block |-> b, parent |-> p, at |-> i] :
        b \in NewBlocks, p \in Parents, i \in 0..(Len(draft.blocks) - 1)}
DeleteBlocks == {[op |-> "DeleteBlock", id |-> id] : id \in BlockIds}
MoveBlocks ==
    {[op |-> "MoveBlock", id |-> id, parent |-> p, at |-> i] :
        id \in BlockIds, p \in Parents, i \in 0..2}

Switches ==
    {[op |-> op, id |-> id] : id \in BlockIds,
        op \in {"SetBlockPresentation", "SetTodoChecked", "SetLinkTarget", "SetCodeConfig",
                "ConvertToLink", "ResetBlock"}}
Conversions ==
    {[op |-> "ConvertBlock", id |-> id, kind |-> k] :
        id \in BlockIds, k \in {"quote", "todo", "code", "divider"}}
ImageConfigs == {[op |-> "SetImageConfig", id |-> id, valid |-> v] : id \in BlockIds, v \in BOOLEAN}
TextEdits ==
    {[op |-> "PatchInlineRange", id |-> id, end |-> n] : id \in BlockIds, n \in Lengths}
    \cup {[op |-> "ReplaceBlockText", id |-> id, len |-> n] : id \in BlockIds, n \in Lengths}
Replacements ==
    {[op |-> "ReplaceAllText", query |-> q, len |-> n] : q \in Lengths, n \in Lengths}
    \cup {[op |-> "ReplaceTextMatch", id |-> id, query |-> q, len |-> n] :
              id \in BlockIds, q \in Lengths, n \in Lengths}

PageSetups == {[op |-> "SetPageSetup", setup |-> 1]}
Sections ==
    {[op |-> "UpsertSection", section |-> x, at |-> i] : x \in NewSections, i \in 0..1}
    \cup {[op |-> "DeleteSection", id |-> x.id] : x \in NewSections}
Notes ==
    {[op |-> "UpsertNote", kind |-> k, note |-> n] : k \in {"footnotes", "endnotes"}, n \in NewNotes}
    \cup {[op |-> "DeleteNote", kind |-> k, id |-> n.id] :
              k \in {"footnotes", "endnotes"}, n \in NewNotes}

RowEdits(b, rows) ==
    {[op |-> "InsertTableRow", id |-> b.id, row |-> row, at |-> i, cells |-> 2] :
        row \in rows, i \in 0..2}
    \cup {[op |-> op, id |-> b.id, row |-> row] :
              op \in {"SetTableRowHeight", "DeleteTableRow"}, row \in rows}
ColumnEdits(b, columns) ==
    {[op |-> "InsertTableColumn", id |-> b.id, column |-> column, at |-> i, cells |-> 2] :
        column \in columns, i \in 0..2}
    \cup {[op |-> op, id |-> b.id, column |-> column] :
              op \in {"SetTableColumnWidth", "DeleteTableColumn"}, column \in columns}
CellEdits(b, rows) ==
    {[op |-> "ReplaceTableCellText", id |-> b.id, row |-> row, at |-> at, len |-> n] :
        row \in rows, at \in 1..2, n \in Lengths}
    \cup {[op |-> "PatchTableCellInlineRange", id |-> b.id, row |-> row, at |-> at, end |-> n] :
              row \in rows, at \in 1..2, n \in Lengths}
Ranges(b) ==
    {[op |-> op, id |-> b.id, range |-> r] :
        op \in {"MergeTableCells", "SplitTableCells"}, r \in TableRanges}
Formats(b, rows, columns) ==
    {[op |-> "FormatTableCells", id |-> b.id, selection |-> sel] :
        sel \in {[kind |-> "all"]} \cup {[kind |-> "row", row |-> x] : x \in rows}
               \cup {[kind |-> "column", column |-> x] : x \in columns}}

EditBlocks == \E c \in InsertBlocks \cup DeleteBlocks \cup MoveBlocks : Fold(c)
EditBlock  == \E c \in Switches \cup Conversions \cup ImageConfigs \cup TextEdits \cup Replacements : Fold(c)
EditPages  == \E c \in PageSetups \cup Sections \cup Notes : Fold(c)
EditTable  == \E b \in Tables : \E c \in
       RowEdits(b, NewRows \cup Ids(b.data.rows)) \cup CellEdits(b, NewRows \cup Ids(b.data.rows))
       \cup ColumnEdits(b, NewColumns \cup Ids(b.data.columns)) \cup Ranges(b)
       \cup Formats(b, NewRows \cup Ids(b.data.rows), NewColumns \cup Ids(b.data.columns)) :
    Fold(c)

Next == EditBlocks \/ EditBlock \/ EditPages \/ EditTable \/ Finish \/ Undo \/ Redo

Spec == Init /\ [][Next]_vars

----------------------------------------------------------------------------
(* Properties *)

TypeOK ==
    /\ DOMAIN draft.parents = BlockIds
    /\ DOMAIN draft.positions \subseteq BlockIds
    /\ Ids(draft.blocks) \subseteq DOMAIN draft.positions
    /\ cmds + CountAll(undo) + CountAll(redo) <= MaxCommands
    /\ cmds = 0 /\ Sound(draft) => Valid(model)

Nested(ms) == \E i \in DOMAIN ms :
    ms[i].op = "Delete" /\ \E r \in ToSet(ms[i].removed) : r.block.children # << >>

\* Whatever is applied, refused, undone or redone, the index stays the index of
\* the tree, and the tree a tree.  The exception: taking back the deletion of a
\* block that had children, which drops or misplaces parents.
KeepsSound ==
    Sound(draft) =>
        \/ Sound(draft')
        \/ muts' = << >> /\ Nested(muts)
        \/ muts = << >> /\ undo # << >> /\ Nested(Last(undo).muts)
OnlyNestedRestoreDamages == [][KeepsSound]_vars

\* What a commit announces from its ChangeTracker, and an undo or a redo from its
\* mutations, covers all that differs: every block
\* that came, went, or has another content or other children, and, by the word
\* that the structure changed, the roots, the page setup and the pages.
ChangesNamed ==
    undo' # undo =>
        LET set == IF cmds > 0 THEN told
                   ELSE ChangeSet(IF Len(undo') > Len(undo) THEN Last(undo').muts ELSE Last(redo').muts)
        IN  /\ \A b \in (ToSet(Began.blocks) \ ToSet(model'.blocks))
                        \cup (ToSet(model'.blocks) \ ToSet(Began.blocks)) : b.id \in set.blocks
            /\ ~set.structure =>
                 \A part \in {"root", "setup", "pages"} : model'[part] = Began[part]

\* A document but for the asset of one image: what a refused SetImageConfig has
\* already set when its patch fails.
WithAsset(d, id) == [d EXCEPT !.blocks[Pos(d.blocks, id)].data.asset = 1]
HalfPatched(d)   == {WithAsset(d, b.id) : b \in {x \in ToSet(d.blocks) : x.kind = "image"}}

\* On a sound document: a batch that was refused, or an undo or a redo that was,
\* has left the document it found, but for the asset of a refused image patch;
\* taking the open batch back would; undo gives the document before the batch,
\* redo the one after it.  All of it to the place of every block in the vector.
EditsCanBeTakenBack ==
    Sound(draft) =>
        /\ cmds = 0 => Document(draft) \in {model} \cup HalfPatched(model)
        /\ cmds > 0 /\ ~Nested(muts) => Document(TakenBack(draft, muts)) = model
        /\ (cmds = 0 /\ undo # << >>) =>
             LET e == Last(undo)
             IN  Document(draft) = e.after /\ ~Nested(e.muts) => Document(TakenBack(draft, e.muts)) = e.before
        /\ (cmds = 0 /\ redo # << >>) =>
             LET e == Last(redo)
             IN  Document(draft) = e.before => Document(Redone(draft, e.muts).st) = e.after

\* execute's comment: any failed command "replays that journal in reverse order,
\* so the live model and indexes remain unchanged".
RefusedBatchLeavesNoTrace == cmds = 0 => draft = Open(model)

\* undo's comment: "the exact mutation journal (including nested subtree records)
\* remains the source of truth".  Undoing the last batch gives back the document
\* before it, with the index of that document.
UndoIsExact ==
    cmds = 0 /\ undo # << >> /\ draft = Open(Last(undo).after) =>
        TakenBack(draft, Last(undo).muts) = Open(Last(undo).before)

================================================================================
