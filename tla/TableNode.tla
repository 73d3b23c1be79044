------------------------------- MODULE TableNode -------------------------------
(***************************************************************************)
(* Tables on a slide: a grid of rows and columns whose cells, single or    *)
(* merged, are named by the grid place of their upper left corner.  Every  *)
(* place of the grid must be covered by exactly one cell.                  *)
(*                                                                         *)
(* Rows and columns are treated alike, so an operation on either is one    *)
(* operator with the axis as a parameter.  A table is its size and the set *)
(* of its cells: the code keeps the cells sorted by place.                 *)
(***************************************************************************)
EXTENDS Naturals, FiniteSets

Axes == {"row", "column"}
At(r, c) == [row |-> r, column |-> c]

Cell(at, span, content, style) ==
    [at |-> at, span |-> span, content |-> content, style |-> style]

Covers(c) == {At(r, k) : r \in c.at.row .. c.at.row + c.span.row - 1,
                         k \in c.at.column .. c.at.column + c.span.column - 1}
Grid(t)   == {At(r, k) : r \in 0 .. t.size.row - 1, k \in 0 .. t.size.column - 1}

\* TableNode.validate
Tiled(t) ==
    /\ t.size.row > 0 /\ t.size.column > 0
    /\ \A c \in t.cells : Covers(c) # {}
    /\ \A c, d \in t.cells : c # d => Covers(c) \cap Covers(d) = {}
    /\ UNION {Covers(c) : c \in t.cells} = Grid(t)

Anchored(t, at) == {c \in t.cells : c.at = at}

\* Empty cells for the places nothing covers.
Canonical(t) ==
    LET free == Grid(t) \ UNION {Covers(c) : c \in t.cells}
    IN  [t EXCEPT !.cells = @ \cup {Cell(p, At(1, 1), 0, 0) : p \in free}]

CanInsertLines(t, axis, index, count) == count > 0 /\ index <= t.size[axis]

\* Cells beyond the new lines move, cells across them grow.
InsertLines(t, axis, index, count) ==
    LET Shift(c) == IF c.at[axis] >= index THEN [c EXCEPT !.at[axis] = @ + count]
                    ELSE IF index < c.at[axis] + c.span[axis]
                         THEN [c EXCEPT !.span[axis] = @ + count]
                    ELSE c
    IN  Canonical([size |-> [t.size EXCEPT ![axis] = @ + count],
                   cells |-> {Shift(c) : c \in t.cells}])

CanDeleteLine(t, axis, index) == t.size[axis] > 1 /\ index < t.size[axis]

\* Broken: cells across the line keep their span.
DeleteLineUnshrunk(t, axis, index) ==
    LET Keeps(c) == ~(c.at[axis] = index /\ c.span[axis] = 1)
        Shift(c) == IF c.at[axis] > index THEN [c EXCEPT !.at[axis] = @ - 1] ELSE c
    IN  Canonical([size |-> [t.size EXCEPT ![axis] = @ - 1],
                   cells |-> {Shift(c) : c \in {d \in t.cells : Keeps(d)}}])

\* Cells beyond the line move, cells across it shrink, single ones on it go.
DeleteLine(t, axis, index) ==
    LET Keeps(c) == ~(c.at[axis] = index /\ c.span[axis] = 1)
        Shift(c) == IF c.at[axis] > index THEN [c EXCEPT !.at[axis] = @ - 1]
                    ELSE IF c.at[axis] + c.span[axis] > index
                         THEN [c EXCEPT !.span[axis] = @ - 1]
                    ELSE c
    IN  Canonical([size |-> [t.size EXCEPT ![axis] = @ - 1],
                   cells |-> {Shift(c) : c \in {d \in t.cells : Keeps(d)}}])

Selected(c, first, last) ==
    \A a \in Axes : c.at[a] >= first[a] /\ c.at[a] + c.span[a] - 1 <= last[a]
Overlaps(c, first, last) ==
    \A a \in Axes : c.at[a] <= last[a] /\ c.at[a] + c.span[a] > first[a]

CanMerge(t, first, last) ==
    /\ \A a \in Axes : first[a] <= last[a] /\ last[a] < t.size[a]
    /\ first # last
    /\ \A c \in t.cells : Overlaps(c, first, last) => Selected(c, first, last)
    /\ \E c \in Anchored(t, first) : Selected(c, first, last)

Merge(t, first, last) ==
    LET anchor == CHOOSE c \in Anchored(t, first) : TRUE
        span   == At(last.row - first.row + 1, last.column - first.column + 1)
    IN  Canonical([t EXCEPT !.cells =
            {c \in @ : ~Selected(c, first, last)}
            \cup {Cell(first, span, anchor.content, anchor.style)}])

CanSplit(t, at) == \E c \in Anchored(t, at) : c.span # At(1, 1)

\* The anchor keeps the content, every part keeps the style.
Split(t, at) ==
    LET cell == CHOOSE c \in Anchored(t, at) : TRUE
    IN  Canonical([t EXCEPT !.cells =
            (@ \ {cell})
            \cup {Cell(p, At(1, 1), IF p = at THEN cell.content ELSE 0, cell.style) :
                     p \in Covers(cell)}])

SetCell(t, at, field, value) ==
    [t EXCEPT !.cells = {IF c.at = at THEN [c EXCEPT ![field] = value] ELSE c : c \in @}]

================================================================================
