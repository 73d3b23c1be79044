-------------------------- MODULE PresentationEngine --------------------------
(***************************************************************************)
(* The presentation engine: a deck of slides over layouts and masters, a   *)
(* tree of nodes on every slide (groups hold nodes, connectors name them,  *)
(* tables are grids) and a timeline of animations.                         *)
(*                                                                         *)
(* A batch changes the live deck in place, one inverse per command.  A     *)
(* refused command, or a deck that does not validate, takes the inverses   *)
(* back in reverse; undo takes those of a committed batch back, redo runs  *)
(* the commands again.  Order keys are numbers; geometry is one number.    *)
(***************************************************************************)
EXTENDS TableNode, SequencesExt

CONSTANTS
    NodeIds,      \* node ids the commands use
    NewIds,       \* ids they give new nodes and groups
    Selections,   \* lists of nodes they group, align and distribute
    SlideIds,     \* slide ids the commands use
    ItemIds,      \* ids of masters, layouts and assets the commands use
    NewSlides,    \* slides the commands create
    Renamings,    \* maps of node and animation ids the commands duplicate a slide with
    Indices,      \* places in lists, and lines of tables
    Decks,        \* the decks an engine is created with
    MaxCommands,  \* bound: commands in the one batch of a behaviour
    None          \* no parent, no layout, a free connector end, no table

VARIABLES
    model,     \* auxiliary: the deck of the last revision
    draft,     \* the live deck
    cmds,      \* commands of the open batch so far
    inverses,  \* their inverses, in order
    undo,      \* committed batches and their inverses
    redo,      \* batches an undo took back
    changed    \* the change set of the last revision

vars == <<model, draft, cmds, inverses, undo, redo, changed>>

----------------------------------------------------------------------------
(* Lists of records with an id, slides and nodes *)

Ids(s)        == {s[i].id : i \in DOMAIN s}
Pos(s, id)    == CHOOSE i \in DOMAIN s : s[i].id = id /\ \A j \in 1..i - 1 : s[j].id # id
Get(s, id)    == s[Pos(s, id)]
Clip(i, s)    == IF i > Len(s) THEN Len(s) ELSE i
Put(s, at, x) == InsertAt(s, Clip(at, s) + 1, x)
Drop(s, id)   == RemoveAt(s, Pos(s, id))

Nodes(d, s)       == Get(d.slides, s).nodes
WithNodes(d, s, nodes) == [d EXCEPT !.slides[Pos(d.slides, s)].nodes = nodes]

\* Does the slide exist, and the node on it?
On(d, s, id)   == s \in Ids(d.slides) /\ id \in Ids(Nodes(d, s))
Is(d, s, id, kind) == On(d, s, id) /\ Get(Nodes(d, s), id).kind = kind

\* The node and what hangs under it; is_descendant walks up the parents.
Above(nodes, id) ==
    LET up[n \in 0..Len(nodes)] ==
            IF n = 0 THEN {id}
            ELSE LET low == up[n - 1]
                 IN  low \cup {Get(nodes, x).parent : x \in low \cap Ids(nodes)}
    IN  up[Len(nodes)]
Below(nodes, id) == {x \in Ids(nodes) : id \in Above(nodes, x)}

----------------------------------------------------------------------------
(* What the schema accepts *)

EndValid(nodes, id, end) == end = None \/ (end # id /\ end \in Ids(nodes))

NodeValid(nodes, n) ==
    /\ n.parent # None => n.parent # n.id /\ n.parent \in Ids(nodes)
    /\ n.kind = "connector" =>
         EndValid(nodes, n.id, n.ends.start) /\ EndValid(nodes, n.id, n.ends.end)
    /\ n.kind = "table" => Tiled(n.table)

Unique(s) == IsInjective([i \in DOMAIN s |-> s[i].id])

TreeValid(nodes) ==
    /\ Unique(nodes)
    /\ \A i \in DOMAIN nodes : NodeValid(nodes, nodes[i])
    \* no cycle: every node hangs, step by step, under no parent
    /\ \A id \in Ids(nodes) : None \in Above(nodes, id)
    /\ \A i, j \in DOMAIN nodes :
         i # j /\ nodes[i].parent = nodes[j].parent => nodes[i].key # nodes[j].key

TimelineValid(s) ==
    /\ Unique(s.timeline)
    /\ IsInjective([i \in DOMAIN s.timeline |-> s.timeline[i].key])
    /\ \A e \in ToSet(s.timeline) : e.target \in Ids(s.nodes)

Valid(d) ==
    /\ \A list \in {"assets", "masters", "layouts", "slides"} : Unique(d[list])
    /\ \A l \in ToSet(d.layouts) : l.master \in Ids(d.masters)
    /\ \A s \in ToSet(d.slides) :
         (s.layout = None \/ s.layout \in Ids(d.layouts)) /\ TreeValid(s.nodes) /\ TimelineValid(s)

----------------------------------------------------------------------------
(* Positions among siblings *)

Position(n) == [id |-> n.id, parent |-> n.parent, key |-> n.key]

\* capture_positions: the siblings of the nodes, and those under the new parent.
Captured(nodes, ids, parent) ==
    LET parents == {Get(nodes, id).parent : id \in ids \cap Ids(nodes)} \cup {parent}
    IN  {Position(n) : n \in {m \in ToSet(nodes) : m.parent \in parents}}

Restored(nodes, positions) ==
    [i \in DOMAIN nodes |->
        IF \E p \in positions : p.id = nodes[i].id
        THEN LET p == CHOOSE q \in positions : q.id = nodes[i].id
             IN  [nodes[i] EXCEPT !.parent = p.parent, !.key = p.key]
        ELSE nodes[i]]

\* Places in the vector, by key: the sort is stable.
ByKey(nodes, places) ==
    SortSeq(SelectSeq([i \in DOMAIN nodes |-> i], LAMBDA i : i \in places),
            LAMBDA i, j : nodes[i].key < nodes[j].key
                          \/ (nodes[i].key = nodes[j].key /\ i < j))

Renumbered(nodes, order) ==
    [i \in DOMAIN nodes |-> IF Contains(order, i)
                            THEN [nodes[i] EXCEPT !.key = SelectInSeq(order, LAMBDA j : j = i) - 1]
                            ELSE nodes[i]]

\* reorder_within_parent
Reordered(nodes, id, parent, index) ==
    LET others == {i \in DOMAIN nodes : nodes[i].parent = parent /\ i # Pos(nodes, id)}
    IN  Renumbered(nodes, Put(ByKey(nodes, others), index, Pos(nodes, id)))

\* normalize_sibling_order
Normalized(nodes, parent) ==
    Renumbered(nodes, ByKey(nodes, {i \in DOMAIN nodes : nodes[i].parent = parent}))

Reparented(nodes, ids, parent) ==
    [i \in DOMAIN nodes |-> IF nodes[i].id \in ids THEN [nodes[i] EXCEPT !.parent = parent]
                            ELSE nodes[i]]

CanParent(nodes, id, parent) ==
    parent # None => /\ parent # id /\ parent \in Ids(nodes)
                     /\ Get(nodes, parent).kind = "group"

----------------------------------------------------------------------------
(* The commands: the deck after one, and its inverse; a refusal leaves the   *)
(* deck as it is, except where a command changes it before it is refused     *)

Done(d, inv)  == [ok |-> TRUE, deck |-> d, inv |-> inv]
Refused(d)    == [ok |-> FALSE, deck |-> d]
When(guard, d, after, inv) == IF guard THEN Done(after, inv) ELSE Refused(d)

\* RegisterAsset, CreateMaster, CreateLayout: the item is appended.
CreateItem(d, c) ==
    When(/\ c.item.id \notin Ids(d[c.list])
         /\ c.list = "layouts" => c.item.master \in Ids(d.masters),
         d, [d EXCEPT ![c.list] = Append(@, c.item)],
         [op |-> "RemoveItem", list |-> c.list, id |-> c.item.id])

UpdateItem(d, c) ==
    IF /\ c.item.id \in Ids(d[c.list])
       /\ c.list = "layouts" => c.item.master \in Ids(d.masters)
    THEN Done([d EXCEPT ![c.list][Pos(d[c.list], c.item.id)] = c.item],
              [op |-> "SetItem", list |-> c.list, item |-> Get(d[c.list], c.item.id)])
    ELSE Refused(d)

InUse(d, list, id) ==
    CASE list = "masters" -> \E l \in ToSet(d.layouts) : l.master = id
      [] list = "layouts" -> \E s \in ToSet(d.slides) : s.layout = id
      [] list = "slides"  -> FALSE

\* DeleteMaster, DeleteLayout, DeleteSlide
DeleteItem(d, c) ==
    IF c.id \in Ids(d[c.list]) /\ ~InUse(d, c.list, c.id)
    THEN Done([d EXCEPT ![c.list] = Drop(@, c.id)],
              [op |-> "RestoreItem", list |-> c.list, item |-> Get(d[c.list], c.id),
               at |-> Pos(d[c.list], c.id) - 1])
    ELSE Refused(d)

InsertSlide(d, slide, index) ==
    When(slide.id \notin Ids(d.slides), d, [d EXCEPT !.slides = Put(@, index, slide)],
         [op |-> "RemoveItem", list |-> "slides", id |-> slide.id])

MoveSlideIn(d, c) ==
    IF c.id \in Ids(d.slides)
    THEN Done([d EXCEPT !.slides = Put(Drop(@, c.id), c.index, Get(@, c.id))],
              [op |-> "MoveSlide", id |-> c.id, at |-> Pos(d.slides, c.id) - 1])
    ELSE Refused(d)

\* The map names every node and animation once; new names are distinct and new.
Renames(map, ids) ==
    /\ {p[1] : p \in map} = ids
    /\ \A p, q \in map : (p[1] = q[1] \/ p[2] = q[2]) => p = q
    /\ {p[2] : p \in map} \cap ids = {}

NamedBy(s) == {n.parent : n \in ToSet(s.nodes)}
            \cup UNION {{n.ends.start, n.ends.end} : n \in ToSet(s.nodes)}
            \cup {e.target : e \in ToSet(s.timeline)}

\* A name without a node is an index out of the map: the code panics.
Dangling(s) == NamedBy(s) \ (Ids(s.nodes) \cup {None}) # {}

Clone(s, id, map) ==
    LET New(x) == IF x = None THEN None ELSE (CHOOSE p \in map : p[1] = x)[2]
    IN  [s EXCEPT !.id = id,
                  !.nodes = [i \in DOMAIN @ |->
                      [@[i] EXCEPT !.id = New(@), !.parent = New(@),
                                   !.ends = [start |-> New(@.start), end |-> New(@.end)]]],
                  !.timeline = [i \in DOMAIN @ |->
                      [@[i] EXCEPT !.id = New(@), !.target = New(@)]]]

DuplicateSlideIn(d, c) ==
    IF c.id \notin Ids(d.slides) /\ c.source \in Ids(d.slides)
    THEN LET s == Get(d.slides, c.source)
         IN  IF ~Renames(c.map, Ids(s.nodes) \cup Ids(s.timeline)) THEN Refused(d)
             ELSE IF Dangling(s) THEN [ok |-> FALSE, deck |-> d, panic |-> TRUE]
             ELSE InsertSlide(d, Clone(s, c.id, c.map), c.index)
    ELSE Refused(d)

InsertNodeIn(d, c) ==
    IF /\ c.slide \in Ids(d.slides)
       /\ c.node.id \notin Ids(Nodes(d, c.slide))
       /\ CanParent(Nodes(d, c.slide), c.node.id, c.node.parent)
    THEN LET nodes == Nodes(d, c.slide)
         IN  Done(WithNodes(d, c.slide,
                      Reordered(Put(nodes, c.index, c.node), c.node.id, c.node.parent, c.index)),
                  [op |-> "RemoveNode", slide |-> c.slide, id |-> c.node.id,
                   positions |-> Captured(nodes, {}, c.node.parent)])
    ELSE Refused(d)

DeleteNodeIn(d, c) ==
    IF On(d, c.slide, c.id) /\ \A n \in ToSet(Nodes(d, c.slide)) : n.parent # c.id
    THEN LET nodes == Nodes(d, c.slide)
         IN  Done(WithNodes(d, c.slide, Drop(nodes, c.id)),
                  [op |-> "RestoreNode", slide |-> c.slide, node |-> Get(nodes, c.id),
                   at |-> Pos(nodes, c.id) - 1, positions |-> {}])
    ELSE Refused(d)

MoveNodeIn(d, c) ==
    IF /\ On(d, c.slide, c.id)
       /\ CanParent(Nodes(d, c.slide), c.id, c.parent)
       /\ c.parent \notin Below(Nodes(d, c.slide), c.id)
    THEN LET nodes == Nodes(d, c.slide)
         IN  Done(WithNodes(d, c.slide,
                      Reordered(Reparented(nodes, {c.id}, c.parent), c.id, c.parent, c.index)),
                  [op |-> "RestorePositions", slide |-> c.slide,
                   positions |-> Captured(nodes, {c.id}, c.parent)])
    ELSE Refused(d)

ReorderNodeIn(d, c) ==
    IF On(d, c.slide, c.id)
    THEN LET nodes  == Nodes(d, c.slide)
             parent == Get(nodes, c.id).parent
         IN  Done(WithNodes(d, c.slide, Reordered(nodes, c.id, parent, c.index)),
                  [op |-> "RestorePositions", slide |-> c.slide,
                   positions |-> Captured(nodes, {c.id}, parent)])
    ELSE Refused(d)

\* The group is pushed last, takes the children and is placed by its index.
GroupNodesIn(d, c) ==
    IF /\ c.slide \in Ids(d.slides) /\ Len(c.ids) >= 2
       /\ ToSet(c.ids) \subseteq Ids(Nodes(d, c.slide))
       /\ \A id \in ToSet(c.ids) : Get(Nodes(d, c.slide), id).kind # "connector"
       /\ c.group.id \notin Ids(Nodes(d, c.slide))
       /\ \A id \in ToSet(c.ids) : Get(Nodes(d, c.slide), id).parent = c.group.parent
       /\ CanParent(Nodes(d, c.slide), c.group.id, c.group.parent)
    THEN LET nodes   == Nodes(d, c.slide)
             grouped == Reparented(Append(nodes, c.group), ToSet(c.ids), c.group.id)
         IN  Done(WithNodes(d, c.slide,
                      Normalized(Reordered(grouped, c.group.id, c.group.parent, c.index),
                                 c.group.id)),
                  [op |-> "RemoveNode", slide |-> c.slide, id |-> c.group.id,
                   positions |-> Captured(nodes, ToSet(c.ids), c.group.parent)])
    ELSE Refused(d)

UngroupNodesIn(d, c) ==
    IF Is(d, c.slide, c.id, "group") /\ \E n \in ToSet(Nodes(d, c.slide)) : n.parent = c.id
    THEN LET nodes == Nodes(d, c.slide)
             group == Get(nodes, c.id)
             kids  == {n.id : n \in {m \in ToSet(nodes) : m.parent = c.id}}
         IN  Done(WithNodes(d, c.slide,
                      Normalized(Reparented(Drop(nodes, c.id), kids, group.parent), group.parent)),
                  [op |-> "RestoreNode", slide |-> c.slide, node |-> group,
                   at |-> Pos(nodes, c.id) - 1, positions |-> Captured(nodes, kids, group.parent)])
    ELSE Refused(d)

SetIn(d, slide, id, field, value) ==
    [d EXCEPT !.slides[Pos(d.slides, slide)].nodes[Pos(Nodes(d, slide), id)][field] = value]

\* One field of a node, and its old value as the inverse.
SetField(d, slide, id, field, value) ==
    Done(SetIn(d, slide, id, field, value),
         [op |-> "SetNode", slide |-> slide, id |-> id, field |-> field,
          value |-> Get(Nodes(d, slide), id)[field]])

\* Geometry: a set of nodes takes new places.
SetPlaces(d, slide, place) ==
    Done(WithNodes(d, slide,
             [i \in DOMAIN Nodes(d, slide) |->
                 LET node == Nodes(d, slide)[i]
                 IN  IF node.id \in DOMAIN place THEN [node EXCEPT !.place = place[node.id]] ELSE node]),
         [op |-> "SetPlaces", slide |-> slide,
          place |-> [id \in DOMAIN place |-> Get(Nodes(d, slide), id).place]])

\* SetNodeTransform: a group carries all that hangs under it.
SetTransform(d, c) ==
    IF /\ On(d, c.slide, c.id)
       /\ Get(Nodes(d, c.slide), c.id).locked = 0
       /\ Is(d, c.slide, c.id, "group") =>
            \A x \in Below(Nodes(d, c.slide), c.id) : Get(Nodes(d, c.slide), x).locked = 0
    THEN LET nodes == Nodes(d, c.slide)
             delta == c.place - Get(nodes, c.id).place
             moved == IF Is(d, c.slide, c.id, "group") THEN Below(nodes, c.id) ELSE {c.id}
         IN  SetPlaces(d, c.slide, [x \in moved |-> Get(nodes, x).place + delta])
    ELSE Refused(d)

\* The nodes of a selection are distinct, there and unlocked.
Selectable(d, slide, ids, least) ==
    /\ slide \in Ids(d.slides)
    /\ Len(ids) >= least /\ IsInjective(ids)
    /\ \A id \in ToSet(ids) : On(d, slide, id) /\ Get(Nodes(d, slide), id).locked = 0

\* AlignNodes: what hangs under a selected group stays where it is.
Align(d, c) ==
    IF Selectable(d, c.slide, c.ids, 2)
    THEN LET at(id) == Get(Nodes(d, c.slide), id).place
             low    == CHOOSE x \in ToSet(c.ids) : \A y \in ToSet(c.ids) : at(x) <= at(y)
         IN  SetPlaces(d, c.slide, [id \in ToSet(c.ids) |-> at(low)])
    ELSE Refused(d)

Distribute(d, c) ==
    IF Selectable(d, c.slide, c.ids, 3)
    THEN LET at(id) == Get(Nodes(d, c.slide), id).place
             sorted == SortSeq(c.ids, LAMBDA x, y : at(x) < at(y))
             first  == at(sorted[1])
             last   == at(Last(sorted))
         IN  SetPlaces(d, c.slide,
                 [id \in ToSet(c.ids) |->
                     first + ((Pos([i \in DOMAIN sorted |-> [id |-> sorted[i]]], id) - 1)
                              * (last - first)) \div (Len(sorted) - 1)])
    ELSE Refused(d)

\* SetNodeLocked; SetShapeStyle to SetMediaConfig need a node of their kind.
SetNodeIn(d, c) ==
    IF On(d, c.slide, c.id) /\ (c.kind = "any" \/ Is(d, c.slide, c.id, c.kind))
    THEN SetField(d, c.slide, c.id, c.field, c.value)
    ELSE Refused(d)

SetEnds(d, c) ==
    IF /\ Is(d, c.slide, c.id, "connector")
       /\ \A e \in {"start", "end"} : EndValid(Nodes(d, c.slide), c.id, c.ends[e])
    THEN SetField(d, c.slide, c.id, "ends", c.ends)
    ELSE Refused(d)

----------------------------------------------------------------------------
(* Tables *)

TableOf(d, c) == Get(Nodes(d, c.slide), c.id).table

\* Row, column, merge and split commands keep the whole table as the inverse.
Reshape(d, c) ==
    LET t == TableOf(d, c)
        To(guard, after) == IF guard THEN SetField(d, c.slide, c.id, "table", after) ELSE Refused(d)
    IN  CASE c.op = "InsertLines" -> To(CanInsertLines(t, c.axis, c.index, 1),
                                        InsertLines(t, c.axis, c.index, 1))
          [] c.op = "DeleteLine"  -> To(CanDeleteLine(t, c.axis, c.index),
                                        DeleteLine(t, c.axis, c.index))
          [] c.op = "MergeCells"  -> To(CanMerge(t, c.first, c.last), Merge(t, c.first, c.last))
          [] c.op = "SplitCell"   -> To(CanSplit(t, c.at), Split(t, c.at))

\* SetTableCellContent and SetTableCellStyle.  The style is written cell by
\* cell: an address that comes twice or names no anchor refuses the command
\* after the cells before it have changed.
SetCells(d, c) ==
    LET Write(acc, at) ==
            IF acc.ok /\ at \notin {o.at : o \in acc.old} /\ Anchored(acc.table, at) # {}
            THEN [ok |-> TRUE, table |-> SetCell(acc.table, at, c.field, c.value),
                  old |-> acc.old \cup {CHOOSE x \in Anchored(acc.table, at) : TRUE}]
            ELSE [acc EXCEPT !.ok = FALSE]
        end   == FoldLeft(Write, [ok |-> TRUE, table |-> TableOf(d, c), old |-> {}], c.cells)
        after == SetIn(d, c.slide, c.id, "table", end.table)
    IN  IF c.cells = << >> THEN Refused(d)
        ELSE IF ~end.ok THEN Refused(after)
        ELSE Done(after, [op |-> "SetCells", slide |-> c.slide, id |-> c.id, field |-> c.field,
                          cells |-> {[at |-> o.at, value |-> o[c.field]] : o \in end.old}])

TableCommand(d, c) ==
    IF ~Is(d, c.slide, c.id, "table") THEN Refused(d)
    ELSE IF c.op = "SetCells" THEN SetCells(d, c) ELSE Reshape(d, c)

----------------------------------------------------------------------------
(* Slides, the deck, animations *)

SetSlideField(d, slide, field, value) ==
    IF slide \in Ids(d.slides)
    THEN Done([d EXCEPT !.slides[Pos(d.slides, slide)][field] = value],
              [op |-> "SetSlide", slide |-> slide, field |-> field,
               value |-> Get(d.slides, slide)[field]])
    ELSE Refused(d)

SetDeckField(d, c) ==
    Done([d EXCEPT ![c.field] = c.value], [op |-> "SetDeck", field |-> c.field, value |-> d[c.field]])

Timeline(d, slide) == Get(d.slides, slide).timeline

Upsert(s, x) == IF x.id \in Ids(s) THEN [s EXCEPT ![Pos(s, x.id)] = x] ELSE Append(s, x)

\* The entry is put at its index, then the sort by the old keys takes it back.
MoveEntry(s, id, index) ==
    LET moved == Put(Drop(s, id), index, Get(s, id))
       sorted == SetToSortSeq(ToSet(moved), LAMBDA x, y : x.key < y.key)
    IN  [i \in DOMAIN sorted |-> [sorted[i] EXCEPT !.key = i - 1]]

Animate(d, c) ==
    IF c.slide \notin Ids(d.slides) THEN Refused(d)
    ELSE LET s == Timeline(d, c.slide)
         IN  IF c.op = "UpsertAnimation"
             THEN SetSlideField(d, c.slide, "timeline", Upsert(s, c.entry))
             ELSE IF c.id \notin Ids(s) THEN Refused(d)
             ELSE SetSlideField(d, c.slide, "timeline",
                      IF c.op = "DeleteAnimation" THEN Drop(s, c.id)
                      ELSE MoveEntry(s, c.id, c.index))

Apply(d, c) ==
    CASE c.op = "CreateItem"     -> CreateItem(d, c)
      [] c.op = "UpdateItem"     -> UpdateItem(d, c)
      [] c.op = "DeleteItem"     -> DeleteItem(d, c)
      [] c.op = "CreateSlide"    -> InsertSlide(d, c.item, c.index)
      [] c.op = "MoveSlide"      -> MoveSlideIn(d, c)
      [] c.op = "DuplicateSlide" -> DuplicateSlideIn(d, c)
      [] c.op = "InsertNode"     -> InsertNodeIn(d, c)
      [] c.op = "DeleteNode"     -> DeleteNodeIn(d, c)
      [] c.op = "MoveNode"       -> MoveNodeIn(d, c)
      [] c.op = "ReorderNode"    -> ReorderNodeIn(d, c)
      [] c.op = "GroupNodes"     -> GroupNodesIn(d, c)
      [] c.op = "UngroupNodes"   -> UngroupNodesIn(d, c)
      [] c.op = "SetTransform"   -> SetTransform(d, c)
      [] c.op = "Align"          -> Align(d, c)
      [] c.op = "Distribute"     -> Distribute(d, c)
      [] c.op = "SetNode"        -> SetNodeIn(d, c)
      [] c.op = "SetEnds"        -> SetEnds(d, c)
      [] c.op = "SetSlide"       -> SetSlideField(d, c.slide, c.field, c.value)
      [] c.op = "SetDeck"        -> SetDeckField(d, c)
      [] c.op \in {"UpsertAnimation", "DeleteAnimation", "MoveAnimation"} -> Animate(d, c)
      [] OTHER                   -> TableCommand(d, c)

----------------------------------------------------------------------------
(* Inverses *)

\* The inverses that write an old value back.
SetBack(d, v) ==
    CASE v.op = "SetNode"   -> SetIn(d, v.slide, v.id, v.field, v.value)
      [] v.op = "SetPlaces" -> SetPlaces(d, v.slide, v.place).deck
      [] v.op = "SetCells"  ->
           SetIn(d, v.slide, v.id, "table",
                 FoldSet(LAMBDA x, t : SetCell(t, x.at, v.field, x.value),
                         Get(Nodes(d, v.slide), v.id).table, v.cells))
      [] v.op = "SetSlide"  -> SetSlideField(d, v.slide, v.field, v.value).deck
      [] v.op = "SetDeck"   -> [d EXCEPT ![v.field] = v.value]

ApplyInverse(d, v) ==
    CASE v.op = "RemoveItem"  -> [d EXCEPT ![v.list] = Drop(@, v.id)]
      [] v.op = "RestoreItem" -> [d EXCEPT ![v.list] = Put(@, v.at, v.item)]
      [] v.op = "SetItem"     -> [d EXCEPT ![v.list][Pos(d[v.list], v.item.id)] = v.item]
      [] v.op = "MoveSlide"   -> [d EXCEPT !.slides = Put(Drop(@, v.id), v.at, Get(@, v.id))]
      [] v.op = "RemoveNode"  ->
           WithNodes(d, v.slide, Restored(Drop(Nodes(d, v.slide), v.id), v.positions))
      [] v.op = "RestoreNode" ->
           WithNodes(d, v.slide, Restored(Put(Nodes(d, v.slide), v.at, v.node), v.positions))
      [] v.op = "RestorePositions" ->
           WithNodes(d, v.slide, Restored(Nodes(d, v.slide), v.positions))
      [] OTHER -> SetBack(d, v)

RolledBack(d, inv) == FoldLeft(ApplyInverse, d, Reverse(inv))

----------------------------------------------------------------------------
(* Change sets: what a revision tells the editors of the deck.  A mutation is *)
(* read from the command alone, and turned round by an undo                  *)

Said(how, list, slide, ids) == [how |-> how, list |-> list, slide |-> slide, ids |-> ids]

MutationOf(c) ==
    CASE c.op = "CreateItem"     -> Said("added", c.list, None, {c.item.id})
      [] c.op = "CreateSlide"    -> Said("added", "slides", None, {c.item.id})
      [] c.op = "UpdateItem"     -> Said("changed", c.list, None, {c.item.id})
      [] c.op = "DeleteItem"     -> Said("removed", c.list, None, {c.id})
      [] c.op = "MoveSlide"      -> Said("moved", "slides", None, {c.id})
      [] c.op = "DuplicateSlide" -> Said("duplicated", "slides", c.source, {c.id})
      [] c.op = "SetDeck"        -> Said("changed", "deck", None, {})
      [] c.op = "InsertNode"     -> Said("added", "nodes", c.slide, {c.node.id})
      [] c.op = "DeleteNode"     -> Said("removed", "nodes", c.slide, {c.id})
      [] c.op = "GroupNodes"     -> Said("grouped", "nodes", c.slide, {c.group.id})
      [] c.op = "UngroupNodes"   -> Said("ungrouped", "nodes", c.slide, {c.id})
      [] c.op \in {"MoveNode", "ReorderNode"} -> Said("moved", "nodes", c.slide, {c.id})
      [] c.op \in {"Align", "Distribute"}     -> Said("changed", "nodes", c.slide, ToSet(c.ids))
      [] c.op \in {"SetSlide", "UpsertAnimation", "DeleteAnimation", "MoveAnimation"} ->
           Said("changed", "slides", None, {c.slide})
      [] OTHER                   -> Said("changed", "nodes", c.slide, {c.id})

Mutations(list) == {MutationOf(list[i]) : i \in DOMAIN list}

\* reverse_mutations: masters and layouts keep the direction they had.
Reversed(m) ==
    LET other == [added |-> "removed", removed |-> "added", duplicated |-> "removed",
                  grouped |-> "ungrouped", ungrouped |-> "grouped"]
    IN  IF m.list \in {"assets", "slides", "nodes"} /\ m.how \in DOMAIN other
        THEN [m EXCEPT !.how = other[@]] ELSE m

\* entity_refs
Entities(m) ==
    CASE m.list = "deck"  -> {<<"deck">>}
      [] m.list = "nodes" -> {<<"slides", m.slide>>} \cup {<<"nodes", m.slide, id>> : id \in m.ids}
      [] OTHER -> {<<m.list, id>> : id \in m.ids \cup (IF m.how = "duplicated" THEN {m.slide} ELSE {})}

Structural(m) == m.how = "changed" => m.list \notin {"slides", "nodes"}

\* DeckProjection: the references of the deck, looked up backwards.
SlidesOf(d, layouts)  == {s.id : s \in {t \in ToSet(d.slides) : t.layout \in layouts}}
LayoutsOf(d, masters) == {l.id : l \in {k \in ToSet(d.layouts) : k.master \in masters}}

\* Broken: a master is not looked up through the layouts that follow it.
ThumbnailsOfMasters(d, m) ==
    CASE m.list = "deck"    -> Ids(d.slides)
      [] m.list = "masters" -> SlidesOf(d, m.ids)
      [] m.list = "layouts" -> SlidesOf(d, m.ids)
      [] m.list = "assets"  -> {}
      [] m.list = "slides"  -> m.ids
      [] m.list = "nodes"   -> {m.slide}

\* The thumbnails a mutation makes stale, by the references of the deck it
\* leaves; no node of this model names an asset.
Thumbnails(d, m) ==
    CASE m.list = "deck"    -> Ids(d.slides)
      [] m.list = "masters" -> SlidesOf(d, LayoutsOf(d, m.ids))
      [] m.list = "layouts" -> SlidesOf(d, m.ids)
      [] m.list = "assets"  -> {}
      [] m.list = "slides"  -> m.ids
      [] m.list = "nodes"   -> {m.slide}

ChangeSet(d, muts) ==
    [entities   |-> UNION {Entities(m) : m \in muts},
     structure  |-> \E m \in muts : Structural(m),
     thumbnails |-> UNION {Thumbnails(d, m) : m \in muts}]

----------------------------------------------------------------------------
(* The engine *)

Init ==
    /\ model \in Decks
    /\ draft = model
    /\ cmds = << >> /\ inverses = << >> /\ undo = << >> /\ redo = << >>
    /\ changed = ChangeSet(model, {})

NoBatch == cmds' = << >> /\ inverses' = << >>

\* A handler loads an engine for its request: one whose deck is not that of the
\* last revision, after a refusal, is not used again.
Usable == cmds = << >> => draft = model

\* What a command leaves; a panic loses the engine.
Folded(c, r) ==
    \/ /\ r.ok
       /\ draft' = r.deck
       /\ cmds' = Append(cmds, c)
       /\ inverses' = Append(inverses, r.inv)
       /\ UNCHANGED <<undo, redo>>
    \/ /\ ~r.ok /\ "panic" \notin DOMAIN r
       /\ draft' = RolledBack(r.deck, inverses)
       /\ NoBatch
       /\ UNCHANGED <<undo, redo>>
    \/ /\ "panic" \in DOMAIN r
       /\ draft' = model /\ NoBatch
       /\ undo' = << >> /\ redo' = << >>

Fold(c) ==
    /\ Len(cmds) < MaxCommands /\ undo = << >> /\ redo = << >> /\ Usable
    /\ \E r \in {Apply(draft, c)} : Folded(c, r)
    /\ UNCHANGED <<model, changed>>

Parents == NodeIds \cup {None}

NewNode(id, parent, kind) ==
    [id |-> id, parent |-> parent, key |-> 0, kind |-> kind, locked |-> 0, place |-> 0,
     content |-> 0, ends |-> [start |-> None, end |-> None], table |-> None]

Item(list, id, master) == IF list = "layouts" THEN [id |-> id, master |-> master, data |-> 1]
                          ELSE [id |-> id, data |-> 1]

Lists == {"assets", "masters", "layouts"}

RegisterItem ==
    {[op |-> "CreateItem", list |-> list, item |-> Item(list, id, m)] :
        list \in Lists, id \in ItemIds, m \in ItemIds}
ReplaceItem ==
    {[op |-> "UpdateItem", list |-> list, item |-> Item(list, id, m)] :
        list \in {"masters", "layouts"}, id \in ItemIds, m \in ItemIds}
RemoveItem ==
    {[op |-> "DeleteItem", list |-> list, id |-> id] : list \in {"masters", "layouts"}, id \in ItemIds}
\* SetTheme, SetPageSpec
SetDeckData == {[op |-> "SetDeck", field |-> "data", value |-> 1]}

CreateSlide ==
    {[op |-> "CreateSlide", item |-> s, index |-> i] : s \in NewSlides, i \in Indices}
DeleteSlide == {[op |-> "DeleteItem", list |-> "slides", id |-> s] : s \in SlideIds}
MoveSlide == {[op |-> "MoveSlide", id |-> s, index |-> i] : s \in SlideIds, i \in Indices}
DuplicateSlide ==
    {[op |-> "DuplicateSlide", source |-> s, id |-> t, map |-> map, index |-> 0] :
        s \in SlideIds, t \in SlideIds, map \in Renamings}
\* Notes, background and transition are the slide's data.
SetSlideData ==
    {[op |-> "SetSlide", slide |-> s, field |-> "data", value |-> 1] : s \in SlideIds}
SetSlideLayout ==
    {[op |-> "SetSlide", slide |-> s, field |-> "layout", value |-> l] :
        s \in SlideIds, l \in ItemIds \cup {None}}
UpsertAnimation ==
    {[op |-> "UpsertAnimation", slide |-> s, entry |-> [id |-> id, target |-> x, key |-> 1]] :
        s \in SlideIds, id \in ItemIds, x \in NewIds}
DeleteAnimation ==
    {[op |-> "DeleteAnimation", slide |-> s, id |-> id] : s \in SlideIds, id \in ItemIds}
MoveAnimation ==
    {[op |-> "MoveAnimation", slide |-> s, id |-> id, index |-> i] :
        s \in SlideIds, id \in ItemIds, i \in Indices}

InsertNode ==
    {[op |-> "InsertNode", slide |-> s, node |-> NewNode(id, p, "shape"), index |-> i] :
        s \in SlideIds, id \in NewIds, p \in Parents, i \in Indices}
MoveNode ==
    {[op |-> "MoveNode", slide |-> s, id |-> id, parent |-> p, index |-> i] :
        s \in SlideIds, id \in NodeIds, p \in Parents, i \in Indices}
ReorderNode ==
    {[op |-> "ReorderNode", slide |-> s, id |-> id, index |-> i] :
        s \in SlideIds, id \in NodeIds, i \in Indices}
GroupNodes ==
    {[op |-> "GroupNodes", slide |-> s, group |-> NewNode(g, p, "group"), ids |-> ids, index |-> i] :
        s \in SlideIds, g \in NewIds, ids \in Selections, p \in Parents, i \in Indices}
DeleteOrUngroup ==
    {[op |-> op, slide |-> s, id |-> id] :
        op \in {"DeleteNode", "UngroupNodes"}, s \in SlideIds, id \in NodeIds}
SetNodeTransform ==
    {[op |-> "SetTransform", slide |-> s, id |-> id, place |-> 5] : s \in SlideIds, id \in NodeIds}
AlignOrDistribute ==
    {[op |-> op, slide |-> s, ids |-> ids] :
        op \in {"Align", "Distribute"}, s \in SlideIds, ids \in Selections}
SetNodeLocked ==
    {[op |-> "SetNode", slide |-> s, id |-> id, kind |-> "any", field |-> "locked", value |-> 1] :
        s \in SlideIds, id \in NodeIds}
\* SetShapeStyle, SetShapeGeometry, SetChartSpec, SetTextContent, SetTextFrame,
\* SetImageConfig and SetMediaConfig
SetNodeContent ==
    {[op |-> "SetNode", slide |-> s, id |-> id, kind |-> "shape", field |-> "content", value |-> 1] :
        s \in SlideIds, id \in NodeIds}
SetConnectorEndpoints ==
    {[op |-> "SetEnds", slide |-> s, id |-> id, ends |-> [start |-> x, end |-> x]] :
        s \in SlideIds, id \in NodeIds, x \in Parents}

Addresses == {At(r, k) : r, k \in Indices}

TableLines ==
    {[op |-> op, slide |-> s, id |-> id, axis |-> axis, index |-> i] :
        op \in {"InsertLines", "DeleteLine"}, s \in SlideIds, id \in NodeIds, axis \in Axes,
        i \in Indices}
MergeTableCells ==
    {[op |-> "MergeCells", slide |-> s, id |-> id, first |-> first, last |-> last] :
        s \in SlideIds, id \in NodeIds, first \in Addresses, last \in Addresses}
SplitTableCell ==
    {[op |-> "SplitCell", slide |-> s, id |-> id, at |-> at] :
        s \in SlideIds, id \in NodeIds, at \in Addresses}
SetTableCellContent ==
    {[op |-> "SetCells", slide |-> s, id |-> id, field |-> "content", value |-> 1, cells |-> <<at>>] :
        s \in SlideIds, id \in NodeIds, at \in Addresses}
SetTableCellStyle ==
    {[op |-> "SetCells", slide |-> s, id |-> id, field |-> "style", value |-> 1, cells |-> <<x, y>>] :
        s \in SlideIds, id \in NodeIds, x \in Addresses, y \in Addresses}

DeckCommand == \E c \in RegisterItem \cup ReplaceItem \cup RemoveItem \cup SetDeckData : Fold(c)
SlideCommand == \E c \in CreateSlide \cup DeleteSlide \cup MoveSlide \cup DuplicateSlide
        \cup SetSlideData \cup SetSlideLayout
        \cup UpsertAnimation \cup DeleteAnimation \cup MoveAnimation :
    Fold(c)
NodeCommand == \E c \in InsertNode \cup MoveNode \cup ReorderNode \cup GroupNodes
        \cup DeleteOrUngroup \cup SetNodeTransform \cup AlignOrDistribute
        \cup SetNodeLocked \cup SetNodeContent \cup SetConnectorEndpoints :
    Fold(c)
TableChange == \E c \in TableLines \cup MergeTableCells \cup SplitTableCell
        \cup SetTableCellContent \cup SetTableCellStyle :
    Fold(c)

\* Broken: the deck is committed without a look at it.
FinishUnchecked ==
    /\ cmds # << >>
    /\ undo' = Append(undo, [cmds |-> cmds, inverses |-> inverses])
    /\ redo' = << >>
    /\ model' = draft
    /\ changed' = ChangeSet(draft, Mutations(cmds))
    /\ UNCHANGED draft
    /\ NoBatch

Finish ==
    /\ cmds # << >>
    /\ IF Valid(draft)
       THEN /\ undo' = Append(undo, [cmds |-> cmds, inverses |-> inverses])
            /\ redo' = << >>
            /\ model' = draft
            /\ changed' = ChangeSet(draft, Mutations(cmds))
            /\ UNCHANGED draft
       ELSE /\ draft' = RolledBack(draft, inverses)
            /\ UNCHANGED <<model, undo, redo, changed>>
    /\ NoBatch

\* An undo that leaves no valid deck keeps what it changed, and the entry
\* without its inverses.
Undo ==
    /\ cmds = << >> /\ undo # << >> /\ Usable
    /\ draft' = RolledBack(draft, Last(undo).inverses)
    /\ IF Valid(draft')
       THEN /\ undo' = Front(undo)
            /\ redo' = Append(redo, [Last(undo) EXCEPT !.inverses = << >>])
            /\ model' = draft'
            /\ changed' = ChangeSet(draft', {Reversed(m) : m \in Mutations(Last(undo).cmds)})
       ELSE /\ undo' = [undo EXCEPT ![Len(undo)].inverses = << >>]
            /\ UNCHANGED <<model, redo, changed>>
    /\ UNCHANGED <<cmds, inverses>>

\* The commands of the entry as a batch of their own.
After(acc, r) == IF r.ok THEN Done(r.deck, Append(acc.inv, r.inv))
                 ELSE Refused(RolledBack(r.deck, acc.inv))
Step(acc, c) == IF acc.ok THEN After(acc, Apply(acc.deck, c)) ELSE acc
Checked(r) == IF r.ok /\ ~Valid(r.deck) THEN Refused(RolledBack(r.deck, r.inv)) ELSE r
Redone(d, list) == Checked(FoldLeft(Step, Done(d, << >>), list))

RedoneWith(r) ==
    /\ draft' = r.deck
    /\ IF r.ok
       THEN /\ undo' = Append(undo, [Last(redo) EXCEPT !.inverses = r.inv])
            /\ redo' = Front(redo)
            /\ model' = draft'
            /\ changed' = ChangeSet(draft', Mutations(Last(redo).cmds))
       ELSE UNCHANGED <<model, undo, redo, changed>>

Redo ==
    /\ cmds = << >> /\ redo # << >> /\ Usable
    /\ \E r \in {Redone(draft, Last(redo).cmds)} : RedoneWith(r)
    /\ UNCHANGED <<cmds, inverses>>

Next == DeckCommand \/ SlideCommand \/ NodeCommand \/ TableChange \/ Finish \/ Undo \/ Redo

Spec == Init /\ [][Next]_vars

----------------------------------------------------------------------------
(* Properties *)

TypeOK == Valid(model)

\* At any point of a batch the inverses recorded so far take the live deck back
\* to the deck the batch found, vector orders and order keys included: what a
\* refused batch and an undo leave depends on it.
InversesRestoreTheDeck == cmds # << >> => RolledBack(draft, inverses) = model

\* Also in the middle of a batch every node hangs, by groups that exist, under
\* the slide, and siblings have distinct keys: no walk up the parents loops.
Forest(nodes) ==
    /\ \A id \in Ids(nodes) : None \in Above(nodes, id)
    /\ \A n \in ToSet(nodes) : n.parent # None => Get(nodes, n.parent).kind = "group"
    /\ \A m, n \in ToSet(nodes) : m.parent = n.parent /\ m.key = n.key => m = n
NodesFormAForest == \A s \in ToSet(draft.slides) : Forest(s.nodes)

\* Row, column, merge and split commands leave every place of a grid under
\* exactly one cell, whatever merged cells they cross.
TablesStayTiled ==
    \A s \in ToSet(draft.slides) : \A n \in ToSet(s.nodes) : n.kind = "table" => Tiled(n.table)

\* The comment of execute: "Applies a semantic batch atomically. ... If a command
\* or final schema validation fails, inverses are replayed before this method
\* returns an error."
RefusedBatchLeavesNoTrace == cmds = << >> => draft = model

\* A deck but for the styles of the cells of one table: what a refused
\* SetTableCellStyle has already written when a later address fails.
SameButStyles(t, u) ==
    /\ t.size = u.size
    /\ {[x EXCEPT !.style = 0] : x \in t.cells} = {[x EXCEPT !.style = 0] : x \in u.cells}
HalfStyled(d, e) ==
    \E i \in DOMAIN d.slides : \E j \in DOMAIN d.slides[i].nodes :
        LET t == d.slides[i].nodes[j].table
            u == e.slides[i].nodes[j].table
        IN  t # None /\ SameButStyles(t, u) /\ e = [d EXCEPT !.slides[i].nodes[j].table = u]

\* A batch that is refused, or does not validate, leaves the deck it found, but
\* for the styles a refused SetTableCellStyle has written.
RefusedBatchLeavesOnlyStyles == cmds = << >> => draft = model \/ HalfStyled(model, draft)

\* A new revision's change set names every slide, layout, master and asset that
\* differs, and the deck when its own data do.  Where it says that the structure
\* is the old one, the slides and their trees are, and it names every node whose
\* content differs.  A slide that is drawn otherwise, be it by its layout, by a
\* master or by the deck's data, has its thumbnail marked.
Drawn(d, id) ==
    {<<s, {<<l, {m \in ToSet(d.masters) : m.id = l.master}>> :
              l \in {k \in ToSet(d.layouts) : k.id = s.layout}}, d.data>> :
        s \in {t \in ToSet(d.slides) : t.id = id}}
Placed(d) ==
    [i \in DOMAIN d.slides |-> <<d.slides[i].id, {Position(n) : n \in ToSet(d.slides[i].nodes)}>>]
NodeContents(d) ==
    UNION {{<<s.id, n.id, n.content, n.ends, n.table, n.locked>> : n \in ToSet(s.nodes)} :
              s \in ToSet(d.slides)}
Differ(S, T) == (S \ T) \cup (T \ S)
Named(set) ==
    /\ \A list \in {"assets", "masters", "layouts", "slides"} :
         \A x \in Differ(ToSet(model[list]), ToSet(model'[list])) : <<list, x.id>> \in set.entities
    /\ model'.data # model.data => <<"deck">> \in set.entities
    /\ ~set.structure =>
         /\ Placed(model') = Placed(model)
         /\ \A x \in Differ(NodeContents(model), NodeContents(model')) : <<"nodes", x[1], x[2]>> \in set.entities
    /\ \A id \in Ids(model.slides) \cup Ids(model'.slides) :
         Drawn(model', id) # Drawn(model, id) => id \in set.thumbnails
ChangesNamed == model' # model => Named(changed')

================================================================================
