------------------------------- MODULE SceneIndex -------------------------------
(***************************************************************************)
(* What an editor of a whiteboard asks of its scene: which elements meet a *)
(* rectangle, what a dragged point snaps to, how a connector runs, what an *)
(* export covers.  Rectangles are answered from a grid of cells that is    *)
(* patched with the elements an edit changed instead of being built anew;  *)
(* a rectangle over too many cells is refused, half way through a patch.   *)
(*                                                                         *)
(* Coordinates are integers; a connector's are doubled, for its middle.    *)
(***************************************************************************)
EXTENDS Integers, Sequences, SequencesExt, FiniteSets

CONSTANTS
    Elements,     \* ids of elements
    Areas,        \* rectangles of elements and of queries: [x, y, width, height]
    Points,       \* points that are dragged: [x, y]
    Cameras,      \* [x, y, scale]
    Screen,       \* the viewport: [width, height], so that halves are whole
    CellSize,
    MaxCells,     \* cells one rectangle may cover, a million in the code
    GridSize, Threshold   \* SnapOptions

\* WorldRect::new refuses negative sizes; what a screen shows has whole coordinates.
IndexConstants ==
    /\ CellSize \in Nat \ {0} /\ GridSize \in Nat \ {0}
    /\ MaxCells \in Nat /\ Threshold \in Nat
    /\ Areas \subseteq [x : Int, y : Int, width : Nat, height : Nat]
    /\ Points \subseteq [x : Int, y : Int]
    /\ Cameras \subseteq [x : Int, y : Int, scale : Nat \ {0}]
    /\ Screen \in [width : Nat, height : Nat]
    /\ \A c \in Cameras :
          Screen.width % (2 * c.scale) = 0 /\ Screen.height % (2 * c.scale) = 0

VARIABLES
    scene,      \* the elements in paint order: [id, area]
    cells,      \* the grid: pairs of a cell and an id
    bounds,     \* the indexed rectangle of each indexed element
    order,      \* its place in paint order
    broken,     \* auxiliary: a patch was refused and nothing built the index since
    selected    \* the selection and, auxiliary, how it was made from this scene

vars == <<scene, cells, bounds, order, broken, selected>>

Right(r)  == r.x + r.width
Bottom(r) == r.y + r.height

Intersects(r, s) ==
    /\ r.x <= Right(s) /\ Right(r) >= s.x
    /\ r.y <= Bottom(s) /\ Bottom(r) >= s.y

CellCoord(v) == v \div CellSize

\* Broken: the cell of the far edges is left out.
CellsInside(r) ==
    (CellCoord(r.x) .. CellCoord(Right(r) - 1)) \X (CellCoord(r.y) .. CellCoord(Bottom(r) - 1))

CellsForRect(r) ==
    (CellCoord(r.x) .. CellCoord(Right(r))) \X (CellCoord(r.y) .. CellCoord(Bottom(r)))

Fits(r) ==
    (CellCoord(Right(r)) - CellCoord(r.x) + 1) * (CellCoord(Bottom(r)) - CellCoord(r.y) + 1)
        <= MaxCells

--------------------------------------------------------------------------------
(* The index, and whether a change of it was refused.                           *)

Empty == [ok |-> TRUE, cells |-> {}, bounds |-> <<>>, order |-> <<>>]

With(f, id, v)  == [i \in DOMAIN f \cup {id} |-> IF i = id THEN v ELSE f[i]]
Without(f, id)  == [i \in DOMAIN f \ {id} |-> f[i]]
Entries(id, r)  == {<<c, id>> : c \in CellsForRect(r)}

Taken(index, id) ==
    IF id \notin DOMAIN index.bounds THEN index
    ELSE [index EXCEPT !.cells = @ \ Entries(id, index.bounds[id]), !.bounds = Without(@, id)]

\* upsert takes the old entries out before it finds that the new ones are too many.
Upsert(index, c) ==
    LET clear == Taken(index, c.id)
    IN  IF ~Fits(c.area) THEN [clear EXCEPT !.ok = FALSE]
        ELSE [clear EXCEPT !.cells = @ \cup Entries(c.id, c.area),
                           !.bounds = With(@, c.id, c.area), !.order = With(@, c.id, c.at)]

RemoveElement(index, c) ==
    IF c.id \notin DOMAIN index.bounds THEN index
    ELSE [Taken(index, c.id) EXCEPT !.order = Without(@, c.id)]

\* apply_delta stops at the first change that is refused.
Patched(index, c) ==
    IF ~index.ok THEN index
    ELSE IF c.at = 0 THEN RemoveElement(index, c)
    ELSE Upsert(index, c)
ApplyDelta(index, delta) == FoldLeft(Patched, index, delta)

\* build
Change(s, i) == [id |-> s[i].id, at |-> i, area |-> s[i].area]
Build(s) == ApplyDelta(Empty, [i \in DOMAIN s |-> Change(s, i)])

Ascending(seq, key) ==
    \A i, j \in DOMAIN seq : i < j =>
        /\ seq[i] # seq[j]
        /\ seq[j] \in DOMAIN key => seq[i] \in DOMAIN key /\ key[seq[i]] <= key[seq[j]]

\* A set by sort_by_key: ids that share a place, or have none, come as the hash map
\* gives them.
SortedBy(ids, key) ==
    {s \in [1 .. Cardinality(ids) -> ids] : ToSet(s) = ids /\ Ascending(s, key)}

\* query_with_stats: the elements in the cells, tested exactly.
Hits(index, r) ==
    {id \in DOMAIN index.bounds :
        /\ \E c \in CellsForRect(r) : <<c, id>> \in index.cells
        /\ Intersects(index.bounds[id], r)}

\* query_viewport: from corner to corner of the screen, by screen_to_world.
ScreenToWorld(c, p) ==
    [x |-> (p.x - (Screen.width \div 2)) \div c.scale + c.x,
     y |-> (p.y - (Screen.height \div 2)) \div c.scale + c.y]
ViewArea(c) ==
    LET from == ScreenToWorld(c, [x |-> 0, y |-> 0])
        to   == ScreenToWorld(c, [x |-> Screen.width, y |-> Screen.height])
    IN  [x |-> from.x, y |-> from.y, width |-> to.x - from.x, height |-> to.y - from.y]

\* world_to_screen and project: where a renderer draws an element.
Project(c, r) ==
    [x |-> (r.x - c.x) * c.scale + (Screen.width \div 2),
     y |-> (r.y - c.y) * c.scale + (Screen.height \div 2),
     width |-> r.width * c.scale, height |-> r.height * c.scale]

--------------------------------------------------------------------------------
(* Reads of the scene itself.                                                   *)

Magnitude(v) == IF v < 0 THEN -v ELSE v
Distance2(p, q) == (p.x - q.x) * (p.x - q.x) + (p.y - q.y) * (p.y - q.y)
Near(p, q) == Distance2(p, q) <= Threshold * Threshold

\* f32::round, halves away from zero, onto the grid.
ToGrid(v) ==
    LET up == ((2 * Magnitude(v) + GridSize) \div (2 * GridSize)) * GridSize
    IN  IF v < 0 THEN -up ELSE up

EdgePoints(p, r) ==
    <<[p EXCEPT !.x = r.x], [p EXCEPT !.x = Right(r)],
      [p EXCEPT !.y = r.y], [p EXCEPT !.y = Bottom(r)]>>

\* snap_point: the grid, unless an edge is nearer.
Nearer(p, best, q) ==
    IF Near(p, q) /\ (best.target = "None" \/ Distance2(p, q) < Distance2(p, best.point))
    THEN [point |-> q, target |-> "ElementEdge"] ELSE best
AtEdges(p, best, e) ==
    FoldLeft(LAMBDA b, q : Nearer(p, b, q), best, EdgePoints(p, e.area))
OnGrid(p) == [x |-> ToGrid(p.x), y |-> ToGrid(p.y)]
Unsnapped(p) ==
    IF Near(p, OnGrid(p)) THEN [point |-> OnGrid(p), target |-> "Grid"]
    ELSE [point |-> p, target |-> "None"]
SnapPoint(s, p) == FoldLeft(LAMBDA b, e : AtEdges(p, b, e), Unsnapped(p), s)

Anchors == {"Center", "Top", "Right", "Bottom", "Left"}
AnchorPoint(r, a) ==
    [x |-> CASE a = "Left" -> 2 * r.x [] a = "Right" -> 2 * Right(r) [] OTHER -> 2 * r.x + r.width,
     y |-> CASE a = "Top" -> 2 * r.y [] a = "Bottom" -> 2 * Bottom(r) [] OTHER -> 2 * r.y + r.height]

\* route_connector: an elbow in the middle, in quarters of a unit across.
RouteConnector(r, a, t, b) ==
    LET start == AnchorPoint(r, a)
        end   == AnchorPoint(t, b)
        mid   == start.x + end.x
    IN  <<[x |-> 2 * start.x, y |-> start.y], [x |-> mid, y |-> start.y],
          [x |-> mid, y |-> end.y], [x |-> 2 * end.x, y |-> end.y]>>

Lesser(a, b)  == IF a <= b THEN a ELSE b
Greater(a, b) == IF a >= b THEN a ELSE b

\* export_projection's bounds of a scene that is not empty.
Around(r, e) ==
    [x |-> Lesser(r.x, e.area.x), y |-> Lesser(r.y, e.area.y),
     width  |-> Greater(Right(r), Right(e.area)) - Lesser(r.x, e.area.x),
     height |-> Greater(Bottom(r), Bottom(e.area)) - Lesser(r.y, e.area.y)]
ExportBounds(s) == FoldLeft(Around, s[1].area, s)

--------------------------------------------------------------------------------
Indexed == [ok |-> TRUE, cells |-> cells, bounds |-> bounds, order |-> order]
Put(index) == cells' = index.cells /\ bounds' = index.bounds /\ order' = index.order

Init ==
    /\ scene = <<>>
    /\ cells = {} /\ bounds = <<>> /\ order = <<>>
    /\ broken = FALSE
    /\ selected = [ids |-> <<>>]

IdsOf(s) == {s[i].id : i \in DOMAIN s}
PlaceOf(s, id) == CHOOSE i \in DOMAIN s : s[i].id = id

\* What an edit changed: elements that are gone, and those that are elsewhere.
Changes(s, t) ==
    LET gone == {e \in ToSet(s) : e.id \notin IdsOf(t)}
        kept == {i \in DOMAIN t : ~(i \in DOMAIN s /\ s[i] = t[i])}
    IN  {[id |-> e.id, at |-> 0, area |-> e.area] : e \in gone} \cup {Change(t, i) : i \in kept}

\* The editor patches the index in whatever order it met the changes.
Rearrange(t) ==
    \E delta \in SetToSeqs(Changes(scene, t)) :
        LET index == ApplyDelta(Indexed, delta)
        IN  /\ scene' = t
            /\ Put(index)
            /\ broken' = (broken \/ ~index.ok)
            /\ selected' = [ids |-> selected.ids]

AddElement ==
    \E id \in Elements \ IdsOf(scene), r \in Areas, i \in 1 .. Len(scene) + 1 :
        Rearrange(InsertAt(scene, i, [id |-> id, area |-> r]))
MoveElement ==
    \E i \in DOMAIN scene, r \in Areas :
        r # scene[i].area /\ Rearrange([scene EXCEPT ![i].area = r])
DeleteElement == \E i \in DOMAIN scene : Rearrange(RemoveAt(scene, i))

Rebuild ==
    /\ broken
    /\ LET index == Build(scene)
       IN  \/ index.ok /\ Put(index) /\ broken' = FALSE
           \/ ~index.ok /\ UNCHANGED <<cells, bounds, order, broken>>
    /\ selected' = [ids |-> selected.ids]
    /\ UNCHANGED scene

\* WhiteboardSelection::apply
Chosen(mode, previous, hits) ==
    LET valid == ToSet(previous) \cap IdsOf(scene)
    IN  CASE mode = "Replace" -> hits
          [] mode = "Add"     -> valid \cup hits
          [] mode = "Toggle"  -> (valid \ hits) \cup (hits \ valid)

SelectRect ==
    \E r \in Areas, mode \in {"Replace", "Add", "Toggle"} :
        /\ Fits(r)
        /\ \E ids \in SortedBy(Chosen(mode, selected.ids, Hits(Indexed, r)), order) :
              selected' = [ids |-> ids, area |-> r, mode |-> mode]
        /\ UNCHANGED <<scene, cells, bounds, order, broken>>

Next == AddElement \/ MoveElement \/ DeleteElement \/ Rebuild \/ SelectRect

Spec == Init /\ [][Next]_vars

--------------------------------------------------------------------------------
TypeOK ==
    /\ scene \in Seq([id : Elements, area : Areas])
    /\ IsInjective([i \in DOMAIN scene |-> scene[i].id])
    /\ bounds \in UNION {[ids -> Areas] : ids \in SUBSET Elements}
    /\ DOMAIN bounds \subseteq DOMAIN order
    /\ broken \in BOOLEAN

SnapIsNearest(p) ==
    LET snap  == SnapPoint(scene, p)
        nears == {q \in {OnGrid(p)} \cup UNION {ToSet(EdgePoints(p, e.area)) : e \in ToSet(scene)} :
                    Near(p, q)}
    IN  IF nears = {} THEN snap.point = p
        ELSE snap.point \in nears /\ \A q \in nears : Distance2(p, snap.point) <= Distance2(p, q)

\* The patched index is the one built anew, and unless a patch was refused it
\* finds, in any rectangle, exactly the elements of the scene that meet it, and
\* for any camera those that are drawn on the screen; a selection has
\* them in paint order; a dragged point goes to what is nearest; a connector runs at
\* right angles from anchor to anchor; an export's bounds hold every element and no
\* more.
SceneQueriesAgree ==
    /\ ~broken =>
          /\ Build(scene) = Indexed
          /\ \A r \in Areas : Fits(r) =>
                Hits(Indexed, r) = {e.id : e \in {f \in ToSet(scene) : Intersects(f.area, r)}}
          /\ \A c \in Cameras : Fits(ViewArea(c)) =>
                Hits(Indexed, ViewArea(c)) =
                    {e.id : e \in {f \in ToSet(scene) :
                        Intersects(Project(c, f.area),
                                   [x |-> 0, y |-> 0, width |-> Screen.width,
                                    height |-> Screen.height])}}
    /\ ~broken /\ "mode" \in DOMAIN selected =>
          LET ids == selected.ids
              met == {e.id : e \in {f \in ToSet(scene) : Intersects(f.area, selected.area)}}
          IN  /\ \A i, j \in DOMAIN ids : i < j => PlaceOf(scene, ids[i]) < PlaceOf(scene, ids[j])
              /\ selected.mode = "Replace" => ToSet(ids) = met
              /\ selected.mode = "Add" => met \subseteq ToSet(ids)
    /\ \A p \in Points : SnapIsNearest(p)
    /\ \A i, j \in DOMAIN scene, a, b \in Anchors : i # j =>
          LET route == RouteConnector(scene[i].area, a, scene[j].area, b)
          IN  /\ \A k \in 1 .. 3 : route[k].x = route[k + 1].x \/ route[k].y = route[k + 1].y
              /\ route[2].x - route[1].x = route[4].x - route[3].x
    /\ scene # <<>> =>
          LET all == ExportBounds(scene)
          IN  /\ \A e \in ToSet(scene) :
                    /\ all.x <= e.area.x /\ Right(e.area) <= Right(all)
                    /\ all.y <= e.area.y /\ Bottom(e.area) <= Bottom(all)
              /\ \E e \in ToSet(scene) : e.area.x = all.x
              /\ \E e \in ToSet(scene) : e.area.y = all.y
              /\ \E e \in ToSet(scene) : Right(e.area) = Right(all)
              /\ \E e \in ToSet(scene) : Bottom(e.area) = Bottom(all)

================================================================================
