--------------------------- MODULE SpreadsheetEngine ---------------------------
(***************************************************************************)
(* The spreadsheet engine: sheets of sparse cells, the ranges that rules,  *)
(* merges, filters and names cover, and formulas that read other cells.    *)
(* A batch changes the live workbook in place and records a mutation per   *)
(* effect; a refused batch is taken back by the inverses of its mutations, *)
(* undo applies those inverses, redo the mutations.  Beside the workbook   *)
(* the engine caches which formulas read which cells.                      *)
(*                                                                         *)
(* Rows and columns are treated alike: the axis is a parameter.  The code  *)
(* keeps the cells of a sheet sorted by place; here they are a function.   *)
(* A formula is the one reference it makes; everything else it computes is *)
(* abstracted, as are a cell's attributes and the predicates of filters.   *)
(***************************************************************************)
EXTENDS Integers, SequencesExt, FiniteSetsExt

CONSTANTS
    SheetIds,     \* ids the commands use
    Names,        \* display names of sheets
    Spots,        \* cells the commands write
    Ranges,       \* ranges the commands cover
    Contents,     \* pairs of a value and a formula the commands write
    Rules,        \* rules of formatting and validation the commands write
    Metas,        \* settings a whole-sheet replacement writes
    Sizes,        \* row and column counts the commands set
    Lines,        \* where and how many lines are inserted and deleted
    Workbooks,    \* the workbooks an engine is created with
    MaxCommands,  \* bound: commands in the open batch and in the journal
    None,         \* absent value, formula, filter, size, active sheet
    Lost          \* "#REF!": what a swallowed reference becomes

VARIABLES
    model,    \* auxiliary: the workbook of the last revision
    draft,    \* the live workbook
    cmds,     \* number of commands of the open batch
    muts,     \* its mutations
    undo,     \* journal: batches of mutations; before and after are auxiliary
    redo,
    index     \* which cells each formula reads, or None

vars == <<model, draft, cmds, muts, undo, redo, index>>

Axes == {"row", "column"}
At(r, c) == [row |-> r, column |-> c]
Box(a, b) == [from |-> a, to |-> b]

Overlap(x, y) == \A d \in Axes : x.from[d] <= y.to[d] /\ y.from[d] <= x.to[d]
Inside(p, x)  == \A d \in Axes : x.from[d] <= p[d] /\ p[d] <= x.to[d]
RangeValid(x) == \A d \in Axes : x.from[d] <= x.to[d]
CellsOf(x)    == {At(r, c) : r \in x.from.row .. x.to.row,
                             c \in x.from.column .. x.to.column}

Ids(s)      == {s[i].id : i \in DOMAIN s}
Pos(s, id)  == CHOOSE i \in DOMAIN s : s[i].id = id
Sheet(m, s) == m.sheets[Pos(m.sheets, s)]
Drop(s, id) == SelectSeq(s, LAMBDA x : x.id # id)

\* Replaces the entry with this id or appends it.
Put(s, x) == IF x.id \in Ids(s) THEN [s EXCEPT ![Pos(s, x.id)] = x] ELSE Append(s, x)

Unless(x, limit) == IF limit = None THEN x ELSE Min({x, limit})
Fits(x, limit)   == limit = None \/ x <= limit

Blank == [value |-> None, formula |-> None, style |-> None]
Only(f, S)       == [p \in DOMAIN f \cap S |-> f[p]]
Within(sheet, x) == Only(sheet.cells, {p \in DOMAIN sheet.cells : Inside(p, x)})
Outside(cells, x) == Only(cells, {p \in DOMAIN cells : ~Inside(p, x)})
\* normalized_cell: a cell without anything is no cell.
Normal(cells)    == Only(cells, {p \in DOMAIN cells : cells[p] # Blank})

----------------------------------------------------------------------------
(* Formulas.  A reference names a sheet by id or display name, or its own    *)
(* sheet (None)                                                              *)

Keys(sheet) == {sheet.id, sheet.name}

\* Two sheets go by one key: neither the index nor the calculator works.
Ambiguous(m) == \E s, t \in ToSet(m.sheets) : s.id # t.id /\ Keys(s) \cap Keys(t) # {}

\* An id wins; a name counts when nothing else has claimed it.  The third of
\* three sheets of one name claims it again.
Lookup(m, key) ==
    LET Claim(acc, sheet) ==
            IF sheet.name # key THEN acc
            ELSE IF acc = {} \/ acc = {sheet.id} THEN {sheet.id} ELSE {}
    IN  FoldLeft(Claim, IF key \in Ids(m.sheets) THEN {key} ELSE {}, m.sheets)

\* The sheet a formula on sheet s reads, if any.
Resolve(m, s, f) ==
    IF f \in {None, Lost} THEN {} ELSE IF f.sheet = None THEN {s} ELSE Lookup(m, f.sheet)

Reads(m, s, f) == {<<t, p>> : t \in Resolve(m, s, f),
                              p \in IF f \in {None, Lost} THEN {} ELSE CellsOf(f)}

\* translate_formula_for_copy: an end that leaves the grid is lost by itself.
Translate(f, by) ==
    IF f \in {None, Lost} \/ f.fixed THEN f
    ELSE LET Move(p) == [d \in Axes |-> p[d] + by[d]]
             On(p)   == \A d \in Axes : p[d] >= 0
             from == Move(f.from)
             to   == Move(f.to)
         IN  IF ~On(to) THEN Lost
             ELSE [f EXCEPT !.from = IF On(from) THEN from ELSE to, !.to = to]

\* FormulaDependencyIndex: both directions of the graph, as one relation.
Dependencies(m) ==
    UNION {UNION {{[reader |-> <<s.id, p>>, source |-> q] : q \in Reads(m, s.id, s.cells[p].formula)} :
                     p \in DOMAIN s.cells} : s \in ToSet(m.sheets)}

NewIndex(m) == IF Ambiguous(m) THEN None ELSE Dependencies(m)

\* Only what a changed cell reads can be stale: what reads it is kept.
UpdatedIndex(edges, m, changed) ==
    IF Ambiguous(m) THEN None
    ELSE {e \in edges : e.reader \notin changed}
         \cup {e \in Dependencies(m) : e.reader \in changed}

----------------------------------------------------------------------------
(* Inserting and deleting rows and columns.  An edit is [op, axis, at, count] *)

\* Where a coordinate goes, {} when its line is deleted.
Moved(x, e) ==
    IF e.op = "insert" THEN {IF x >= e.at THEN x + e.count ELSE x}
    ELSE IF x >= e.at + e.count THEN {x - e.count}
    ELSE IF x >= e.at THEN {} ELSE {x}

MovedPlace(p, e) == {[p EXCEPT ![e.axis] = x] : x \in Moved(p[e.axis], e)}

\* Broken: an insertion at the last line of an interval leaves that line behind.
IntervalMissesEnd(a, b, e) ==
    IF e.op = "insert"
    THEN IF a >= e.at THEN {<<a + e.count, b + e.count>>}
         ELSE IF b > e.at THEN {<<a, b + e.count>>} ELSE {<<a, b>>}
    ELSE LET end == e.at + e.count
         IN  IF a >= end THEN {<<a - e.count, b - e.count>>}
             ELSE IF b < e.at THEN {<<a, b>>}
             ELSE IF a >= e.at /\ b < end THEN {}
             ELSE IF a >= e.at THEN {<<e.at, b - e.count>>}
             ELSE IF b >= end THEN {<<a, b - e.count>>}
             ELSE {<<a, e.at - 1>>}

\* remap_range_bounds and rewrite_interval: an interval grows around an
\* insertion, shrinks to what a deletion leaves of it.
Interval(a, b, e) ==
    IF e.op = "insert"
    THEN IF a >= e.at THEN {<<a + e.count, b + e.count>>}
         ELSE IF b >= e.at THEN {<<a, b + e.count>>} ELSE {<<a, b>>}
    ELSE LET end == e.at + e.count
         IN  IF a >= end THEN {<<a - e.count, b - e.count>>}
             ELSE IF b < e.at THEN {<<a, b>>}
             ELSE IF a >= e.at /\ b < end THEN {}
             ELSE IF a >= e.at THEN {<<e.at, b - e.count>>}
             ELSE IF b >= end THEN {<<a, b - e.count>>}
             ELSE {<<a, e.at - 1>>}

\* Any record with from and to; {} when the deletion swallows it.
MovedRange(x, e) ==
    {[x EXCEPT !.from[e.axis] = i[1], !.to[e.axis] = i[2]] :
        i \in Interval(x.from[e.axis], x.to[e.axis], e)}

\* The formula of a cell on sheet s after an edit of sheet edited.
Rewritten(m, s, f, edited, e) ==
    IF edited \notin Resolve(m, s, f) THEN f
    ELSE IF MovedRange(f, e) = {} THEN Lost ELSE CHOOSE g \in MovedRange(f, e) : TRUE

\* The entries Move keeps, moved.
Carried(s, Move(_)) ==
    FoldLeft(LAMBDA acc, x : acc \o SetToSeq(Move(x)), << >>, s)

MovedRule(r, e)   == {[r EXCEPT !.range = x] : x \in MovedRange(r.range, e)}
MovedColumn(c, e) ==
    IF e.axis = "row" THEN {c} ELSE {[c EXCEPT !.column = x] : x \in Moved(c.column, e)}

\* A filter or a sort: its range, and the columns it names.
MovedSpec(f, e) ==
    IF f = None \/ MovedRange(f.range, e) = {} THEN None
    ELSE [range   |-> CHOOSE x \in MovedRange(f.range, e) : TRUE,
          columns |-> Carried(f.columns, LAMBDA c : MovedColumn(c, e))]

MovedFreeze(n, e) ==
    IF e.at >= n THEN n
    ELSE IF e.op = "insert" THEN n + e.count
    ELSE n - (Min({e.at + e.count, n}) - e.at)

\* The count shrinks by every line named, also by those beyond it.
MovedSize(n, e) ==
    IF n = None THEN None
    ELSE IF e.op = "insert" THEN n + e.count ELSE Max({n - e.count, 0})

\* remap_sheet
Remap(m, sheet, e) ==
    LET kept  == {p \in DOMAIN sheet.cells : MovedPlace(p, e) # {}}
        Of(q) == CHOOSE p \in kept : q \in MovedPlace(p, e)
        cells == [q \in UNION {MovedPlace(p, e) : p \in kept} |->
                    [sheet.cells[Of(q)] EXCEPT !.formula = Rewritten(m, sheet.id, @, sheet.id, e)]]
        size  == MovedSize(sheet.size[e.axis], e)
    IN  [sheet EXCEPT
          !.cells   = cells,
          !.merged  = Carried(@, LAMBDA x : MovedRange(x, e)),
          !.formats = Carried(@, LAMBDA r : MovedRule(r, e)),
          !.checks  = Carried(@, LAMBDA r : MovedRule(r, e)),
          !.filter  = MovedSpec(@, e),
          !.sort    = MovedSpec(@, e),
          !.layout  = IF e.axis = "column" THEN @ ELSE UNION {Moved(r, e) : r \in @},
          !.size[e.axis]   = size,
          !.freeze[e.axis] = Unless(MovedFreeze(@, e), size)]

RewriteForeign(m, sheet, edited, e) ==
    [sheet EXCEPT !.cells = [p \in DOMAIN @ |->
        [@[p] EXCEPT !.formula = Rewritten(m, sheet.id, @, edited, e)]]]

----------------------------------------------------------------------------
(* Validation of a workbook *)

SpecValid(f) ==
    f # None => /\ RangeValid(f.range)
                /\ \A c \in ToSet(f.columns) :
                     f.range.from.column <= c.column /\ c.column <= f.range.to.column

SheetValid(sheet) ==
    /\ \A r \in sheet.layout : Fits(r + 1, sheet.size.row)
    /\ \A d \in Axes : Fits(sheet.freeze[d], sheet.size[d])
    /\ \A x \in ToSet(sheet.merged) : RangeValid(x)
    /\ \A r \in ToSet(sheet.formats \o sheet.checks) : RangeValid(r.range)
    /\ SpecValid(sheet.filter) /\ SpecValid(sheet.sort)

Valid(m) ==
    /\ IsInjective([i \in DOMAIN m.sheets |-> m.sheets[i].id])
    /\ m.active \in Ids(m.sheets) \cup {None}
    /\ IsInjective([i \in DOMAIN m.named |-> <<m.named[i].scope, m.named[i].name>>])
    /\ \A n \in ToSet(m.named) :
         /\ n.sheet \in Ids(m.sheets) /\ n.scope \in Ids(m.sheets) \cup {None}
         /\ RangeValid(n.range)
    /\ \A s \in ToSet(m.sheets) : SheetValid(s)

----------------------------------------------------------------------------
(* Mutations: what they do, when they fail, how they are taken back *)

\* Every effect carries what was there before and what is there after.
SheetMut(m, s, at, before, after) ==
    [op |-> "sheet", sheet |-> s, at |-> at, before |-> before, after |-> after]
CellsMut(op, s, x, before, after) ==
    [op |-> op, sheet |-> s, range |-> x, before |-> before, after |-> after]
FieldMut(s, path, before, after) ==
    [op |-> "field", sheet |-> s, path |-> path, before |-> before, after |-> after]
WorkbookMut(field, before, after) ==
    [op |-> "workbook", field |-> field, before |-> before, after |-> after]
RuleMut(list, s, rule, previous) ==
    [op |-> "rule", list |-> list, sheet |-> s, rule |-> rule, previous |-> previous]
UnruleMut(list, s, rule) == [op |-> "unrule", list |-> list, sheet |-> s, rule |-> rule]

Opposite(u) ==
    CASE u.op = "rule"   -> IF u.previous = None THEN UnruleMut(u.list, u.sheet, u.rule)
                            ELSE RuleMut(u.list, u.sheet, u.previous, u.rule)
      [] u.op = "unrule" -> RuleMut(u.list, u.sheet, u.rule, None)
      [] OTHER           -> [u EXCEPT !.before = u.after, !.after = u.before]

CanMutate(m, u) ==
    CASE u.op = "workbook" -> TRUE
      [] u.op = "sheet"    -> u.after = None \/ u.sheet \in Ids(m.sheets) \/ u.at <= Len(m.sheets) + 1
      [] u.op = "field" /\ u.path[1] = "columns" ->
                              u.sheet \in Ids(m.sheets) /\ Sheet(m, u.sheet).filter # None
      [] OTHER             -> u.sheet \in Ids(m.sheets)

WithSheet(m, sheet) == [m EXCEPT !.sheets = Put(@, sheet)]

Mutate(m, u) ==
    CASE u.op = "workbook" -> [m EXCEPT ![u.field] = u.after]
      [] u.op = "sheet" ->
           IF u.after = None THEN [m EXCEPT !.sheets = Drop(@, u.sheet)]
           ELSE IF u.sheet \in Ids(m.sheets) THEN WithSheet(m, u.after)
           ELSE [m EXCEPT !.sheets = InsertAt(@, u.at, u.after)]
      [] OTHER ->
           LET sheet == Sheet(m, u.sheet) IN
           WithSheet(m,
             CASE u.op \in {"cell", "range"} ->
                    [sheet EXCEPT !.cells = u.after @@ Outside(@, u.range)]
               [] u.op = "field" /\ u.path[1] = "columns" ->
                    [sheet EXCEPT !.filter.columns = u.after]
               [] u.op = "field" /\ Len(u.path) = 1 -> [sheet EXCEPT ![u.path[1]] = u.after]
               [] u.op = "field" /\ Len(u.path) = 2 ->
                    [sheet EXCEPT ![u.path[1]][u.path[2]] = u.after]
               [] u.op = "rule"   -> [sheet EXCEPT ![u.list] = Put(@, u.rule)]
               [] u.op = "unrule" -> [sheet EXCEPT ![u.list] = Drop(@, u.rule.id)])

\* A mutation that fails is skipped: nobody reads the result.
Rollback(m, us) ==
    FoldLeft(LAMBDA acc, u : IF CanMutate(acc, u) THEN Mutate(acc, u) ELSE acc,
             m, [i \in DOMAIN us |-> Opposite(us[Len(us) + 1 - i])])

Inverses(us) == [i \in DOMAIN us |-> Opposite(us[Len(us) + 1 - i])]

\* Mutations in order up to the first that fails, which takes back the others.
Play(m, us) ==
    LET Step(acc, u) == IF acc.ok /\ CanMutate(acc.model, u)
                        THEN [acc EXCEPT !.model = Mutate(@, u), !.done = Append(@, u)]
                        ELSE [acc EXCEPT !.ok = FALSE]
        end == FoldLeft(Step, [ok |-> TRUE, model |-> m, done |-> << >>], us)
    IN  IF end.ok /\ Valid(end.model) THEN end
        ELSE [ok |-> FALSE, model |-> Rollback(end.model, end.done), done |-> << >>]

----------------------------------------------------------------------------
(* Commands: a refusal, or the mutations they emit *)

Refused  == [ok |-> FALSE]
Emits(us) == [ok |-> TRUE, muts |-> us]
When(ok, result) == IF ok THEN result ELSE Refused

EmitSheet(m, s, after) ==
    IF after = Sheet(m, s) THEN << >>
    ELSE << SheetMut(m, s, Pos(m.sheets, s), Sheet(m, s), after) >>

EmitRange(m, s, x, after) ==
    LET before == Within(Sheet(m, s), x)
    IN  Emits(IF before = after THEN << >> ELSE << CellsMut("range", s, x, before, after) >>)

EmitField(s, path, before, after) ==
    Emits(IF before = after THEN << >> ELSE << FieldMut(s, path, before, after) >>)

NewSheet(id, name) ==
    [id |-> id, name |-> name, cells |-> << >>, merged |-> << >>, formats |-> << >>,
     checks |-> << >>, filter |-> None, sort |-> None, layout |-> {},
     size |-> At(None, None), freeze |-> At(0, 0)]

CreateSheetIn(m, c) ==
    When(c.sheet \notin Ids(m.sheets),
         Emits(<< SheetMut(m, c.sheet, Len(m.sheets) + 1, None, NewSheet(c.sheet, c.name)) >>))

\* Emitted also when the name stays.
RenameSheetIn(m, c) ==
    Emits(<< SheetMut(m, c.sheet, Pos(m.sheets, c.sheet), Sheet(m, c.sheet),
                      [Sheet(m, c.sheet) EXCEPT !.name = c.name]) >>)

\* Names on the sheet go, and the nearest other sheet becomes active.
DeleteSheetIn(m, c) ==
    LET at    == Pos(m.sheets, c.sheet)
        named == SelectSeq(m.named, LAMBDA n : n.sheet # c.sheet /\ n.scope # c.sheet)
        Near(i) == IF i < at THEN at - i ELSE i - at
        other == (DOMAIN m.sheets) \ {at}
        first == {i \in other : \A j \in other : Near(i) < Near(j) \/ (Near(i) = Near(j) /\ i <= j)}
        next  == IF first = {} THEN None ELSE m.sheets[CHOOSE i \in first : TRUE].id
    IN  Emits((IF named = m.named THEN << >> ELSE << WorkbookMut("named", m.named, named) >>)
              \o (IF m.active # c.sheet THEN << >> ELSE << WorkbookMut("active", m.active, next) >>)
              \o << SheetMut(m, c.sheet, at, m.sheets[at], None) >>)

\* Validation rules look at the value alone.
Accepted(m, s, p, cell) ==
    \A r \in ToSet(Sheet(m, s).checks) :
        Inside(p, r.range) => IF cell.value = None THEN r.blank ELSE cell.value \in r.allow

EmitCell(m, s, p, after) ==
    LET before == Within(Sheet(m, s), Box(p, p))
    IN  Emits(IF before = after THEN << >> ELSE << CellsMut("cell", s, Box(p, p), before, after) >>)

StyleAt(cells, p) == IF p \in DOMAIN cells THEN cells[p].style ELSE None

SetCellIn(m, c) ==
    LET cells == Sheet(m, c.sheet).cells
        cell  == [value |-> c.value, formula |-> c.formula, style |-> StyleAt(cells, c.at)]
        after == Normal(c.at :> cell)
    IN  When(\/ Only(cells, {c.at}) = after
             \/ \A p \in DOMAIN after : Accepted(m, c.sheet, p, cell),
             EmitCell(m, c.sheet, c.at, after))

\* A styled cell appears where there was none, even without a style.
SetCellStyleIn(m, c) ==
    LET cells == Sheet(m, c.sheet).cells
        old   == IF c.at \in DOMAIN cells THEN cells[c.at] ELSE Blank
    IN  EmitCell(m, c.sheet, c.at, c.at :> [old EXCEPT !.style = c.style])

ClearCellIn(m, c) == EmitCell(m, c.sheet, c.at, << >>)

\* Every row of the band gets the height or visibility, or loses it.
SetRowLayoutIn(m, c) ==
    LET sheet  == Sheet(m, c.sheet)
        rows   == c.first .. c.last
        layout == IF c.set THEN sheet.layout \cup rows ELSE sheet.layout \ rows
        size   == IF sheet.size.row = None \/ layout = {} THEN sheet.size.row
                  ELSE Max({sheet.size.row, Max(layout) + 1})
    IN  When(c.first <= c.last,
             Emits(EmitSheet(m, c.sheet, [sheet EXCEPT !.layout = layout, !.size.row = size])))

\* The settings replaced as a whole, whatever they are.
SetSheetMetadataIn(m, c) ==
    Emits(EmitSheet(m, c.sheet, [f \in DOMAIN Sheet(m, c.sheet) |->
        IF f \in DOMAIN c.meta THEN c.meta[f] ELSE Sheet(m, c.sheet)[f]]))

\* Also every formula of another sheet that reads this one, and its names.
StructuralEdit(m, c) ==
    LET others == SelectSeq(m.sheets, LAMBDA s : s.id # c.sheet)
        named  == Carried(m.named, LAMBDA n : IF n.sheet = c.sheet THEN MovedRule(n, c) ELSE {n})
    IN  Emits(IF c.count = 0 THEN << >>
              ELSE EmitSheet(m, c.sheet, Remap(m, Sheet(m, c.sheet), c))
                   \o FlattenSeq([i \in DOMAIN others |->
                        EmitSheet(m, others[i].id, RewriteForeign(m, others[i], c.sheet, c))])
                   \o IF named = m.named THEN << >> ELSE << WorkbookMut("named", m.named, named) >>)

Corners(x) == <<x.from.row, x.from.column, x.to.row, x.to.column>>
Precedes(x, y) ==
    \E i \in 1..4 : /\ Corners(x)[i] < Corners(y)[i]
                    /\ \A j \in 1..(i - 1) : Corners(x)[j] = Corners(y)[j]

\* Only the anchor keeps its content.
MergeCellsIn(m, c) ==
    LET sheet == Sheet(m, c.sheet)
        Stays(p) == ~Inside(p, c.range) \/ p = c.range.from
    IN  When(RangeValid(c.range) /\ \A x \in ToSet(sheet.merged) : ~Overlap(x, c.range),
             Emits(EmitSheet(m, c.sheet,
                [sheet EXCEPT !.cells  = Only(@, {p \in DOMAIN @ : Stays(p)}),
                              !.merged = SortSeq(Append(@, c.range), Precedes)])))

UnmergeCellsIn(m, c) ==
    LET sheet == Sheet(m, c.sheet)
    IN  When(Contains(sheet.merged, c.range),
             Emits(EmitSheet(m, c.sheet, [sheet EXCEPT !.merged = Remove(@, c.range)])))

\* The occupied rows of the range change places; blanks come last either way.
RowOrder(sheet, key, x, y) ==
    LET Key(r) == IF At(r, key.column) \in DOMAIN sheet.cells
                  THEN sheet.cells[At(r, key.column)].value ELSE None
    IN  IF Key(x) = Key(y) THEN x < y
        ELSE IF Key(x) = None THEN FALSE
        ELSE IF Key(y) = None THEN TRUE
        ELSE IF key.down THEN Key(y) < Key(x) ELSE Key(x) < Key(y)

Sorted(sheet, x, key) ==
    LET cells == Within(sheet, x)
        rows  == SetToSortSeq({p.row : p \in DOMAIN cells}, <)
        order == SortSeq(rows, LAMBDA a, b : RowOrder(sheet, key, a, b))
        To(p) == At(rows[CHOOSE i \in DOMAIN order : order[i] = p.row], p.column)
        From(q) == CHOOSE p \in DOMAIN cells : To(p) = q
    IN  [sheet EXCEPT !.cells = [q \in {To(p) : p \in DOMAIN cells} |-> cells[From(q)]]
                                @@ Outside(@, x)]

SortRangeIn(m, c) ==
    LET sheet == Sheet(m, c.sheet)
        cells == Within(sheet, c.range)
    IN  When(/\ RangeValid(c.range)
             /\ \/ Cardinality({p.row : p \in DOMAIN cells}) <= 1
                \/ \A p \in DOMAIN cells : cells[p].formula = None,
             Emits(EmitSheet(m, c.sheet, Sorted(sheet, c.range, c.key))))

FilterColumns(m, s) == Sheet(m, s).filter.columns

UpsertFilterColumnIn(m, c) ==
    LET filter == Sheet(m, c.sheet).filter
        Same(i) == filter.columns[i].column = c.filter.column
        at == {i \in DOMAIN filter.columns : Same(i)}
    IN  When(/\ filter # None
             /\ filter.range.from.column <= c.filter.column
             /\ c.filter.column <= filter.range.to.column,
             EmitField(c.sheet, <<"columns">>, filter.columns,
                       IF at = {} THEN Append(filter.columns, c.filter)
                       ELSE [filter.columns EXCEPT ![Min(at)] = c.filter]))

\* One column, or all of them (None).
ClearFilterColumnIn(m, c) ==
    LET filter == Sheet(m, c.sheet).filter
    IN  IF filter = None THEN Emits(<< >>)
        ELSE EmitField(c.sheet, <<"columns">>, filter.columns,
                       SelectSeq(filter.columns, LAMBDA x : c.column # None /\ x.column # c.column))

SetAutoFilterIn(m, c) ==
    EmitField(c.sheet, <<"filter">>, Sheet(m, c.sheet).filter,
              IF c.range = None THEN None ELSE [range |-> c.range, columns |-> << >>])

SetCalculationModeIn(m, c) ==
    Emits(IF m.mode = c.mode THEN << >> ELSE << WorkbookMut("mode", m.mode, c.mode) >>)

\* SetRowDimensions and SetColumnDimensions
SetDimensionIn(m, c) ==
    LET sheet == Sheet(m, c.sheet)
    IN  When(Fits(sheet.freeze[c.axis], c.size),
             EmitField(c.sheet, <<"size", c.axis>>, sheet.size[c.axis], c.size))

SetFreezePaneIn(m, c) ==
    LET sheet == Sheet(m, c.sheet)
    IN  When(\A d \in Axes : Fits(c.freeze[d], sheet.size[d]),
             EmitField(c.sheet, <<"freeze">>, sheet.freeze, c.freeze))

Rule(s, id) == s[Pos(s, id)]

\* UpsertConditionalFormat and UpsertDataValidation
UpsertRuleIn(m, c) ==
    LET list == Sheet(m, c.sheet)[c.list]
    IN  Emits(<< RuleMut(c.list, c.sheet, c.rule,
                         IF c.rule.id \in Ids(list) THEN Rule(list, c.rule.id) ELSE None) >>)

\* DeleteConditionalFormat and DeleteDataValidation
DeleteRuleIn(m, c) ==
    LET list == Sheet(m, c.sheet)[c.list]
    IN  Emits(IF c.id \notin Ids(list) THEN << >>
              ELSE << UnruleMut(c.list, c.sheet, Rule(list, c.id)) >>)

\* Blank cells are filled in too: the ranges of the runs are small.
FormatRangeIn(m, c) ==
    LET before == Within(Sheet(m, c.sheet), c.range)
        Old(p) == IF p \in DOMAIN before THEN before[p] ELSE Blank
    IN  When(RangeValid(c.range),
             EmitRange(m, c.sheet, c.range,
                       [p \in CellsOf(c.range) |-> [Old(p) EXCEPT !.style = c.style]]))

\* Contents are cleared where a style stays, formats where a content stays.
ClearRangeIn(m, c) ==
    LET before   == Within(Sheet(m, c.sheet), c.range)
        Content(x) == x.value # None \/ x.formula # None
        keep == {p \in DOMAIN before :
                   CASE c.mode = "all"      -> FALSE
                     [] c.mode = "contents" -> before[p].style # None
                     [] c.mode = "formats"  -> Content(before[p])}
        Cleared(x) == IF c.mode = "contents" THEN [x EXCEPT !.value = None, !.formula = None]
                      ELSE [x EXCEPT !.style = None]
    IN  When(RangeValid(c.range),
             EmitRange(m, c.sheet, c.range, [p \in keep |-> Cleared(before[p])]))

\* No validation rule is asked.
ReplaceRangeIn(m, c) ==
    LET before == Within(Sheet(m, c.sheet), c.range)
    IN  When(RangeValid(c.range),
             EmitRange(m, c.sheet, c.range,
                       [p \in DOMAIN before |->
                          [before[p] EXCEPT !.value = IF @ = c.search THEN c.replace ELSE @]]))

\* What a paste leaves in range x.  source: the cells put in it, each with the
\* distance it was copied over (None: from elsewhere).
Pasted(m, s, x, source, mode) ==
    LET before == Within(Sheet(m, s), x)
        Rest(cell) ==
            CASE mode = "all"     -> Blank
              [] mode = "values"  -> [Blank EXCEPT !.style = cell.style]
              [] mode = "formats" -> [cell EXCEPT !.style = None]
        rest   == Normal([p \in DOMAIN before |-> Rest(before[p])])
        Old(p) == IF p \in DOMAIN rest THEN rest[p] ELSE Blank
        New(p) ==
            LET from == source[p].cell
            IN  CASE mode = "all"     -> [from EXCEPT !.formula =
                                            IF source[p].by = None THEN @ ELSE Translate(@, source[p].by)]
                  [] mode = "values"  -> [value |-> from.value, formula |-> None, style |-> Old(p).style]
                  [] mode = "formats" -> [Old(p) EXCEPT !.style = from.style]
        new == Normal([p \in DOMAIN source |-> New(p)])
    IN  When(\A p \in DOMAIN new : Accepted(m, s, p, new[p]),
             EmitRange(m, s, x, new @@ Only(rest, DOMAIN rest \ DOMAIN source)))

OnSheet(m, s, x) == \A d \in Axes : Fits(x.to[d] + 1, Sheet(m, s).size[d])
Distance(p, q)   == [d \in Axes |-> p[d] - q[d]]

\* The clipboard: cells taken from a range, with or without their origin.
PasteRangeIn(m, c) ==
    LET copied == Within(Sheet(m, c.sheet), c.from)
        by     == Distance(c.at, c.from.from)
        Shift(p, d) == At(p.row + d.row, p.column + d.column)
        x      == Box(c.at, Shift(c.from.to, by))
        Back(q) == Shift(q, Distance(c.from.from, c.at))
        source == [q \in {Shift(p, by) : p \in DOMAIN copied} |->
                     [cell |-> copied[Back(q)], by |-> IF c.origin THEN by ELSE None]]
    IN  When(OnSheet(m, c.sheet, x), Pasted(m, c.sheet, x, source, c.mode))

\* The source is repeated over the destination.
FillRangeIn(m, c) ==
    LET copied  == Within(Sheet(m, c.from), c.source)
        Size(d) == c.source.to[d] - c.source.from[d] + 1
        Of(p)   == [d \in Axes |-> c.source.from[d] + ((p[d] - c.range.from[d]) % Size(d))]
        hit     == {p \in CellsOf(c.range) : Of(p) \in DOMAIN copied}
        source  == [p \in hit |-> [cell |-> copied[Of(p)], by |-> Distance(p, Of(p))]]
    IN  When(/\ RangeValid(c.range) /\ c.from \in Ids(m.sheets)
             /\ RangeValid(c.source) /\ OnSheet(m, c.sheet, c.range),
             Pasted(m, c.sheet, c.range, source, c.mode))

SheetResult(m, c) ==
    CASE c.op = "RenameSheet"   -> RenameSheetIn(m, c)
      [] c.op = "DeleteSheet"   -> DeleteSheetIn(m, c)
      [] c.op = "SetCell"       -> SetCellIn(m, c)
      [] c.op = "SetCellStyle"  -> SetCellStyleIn(m, c)
      [] c.op = "ClearCell"     -> ClearCellIn(m, c)
      [] c.op \in {"insert", "delete"} -> StructuralEdit(m, c)
      [] c.op = "MergeCells"    -> MergeCellsIn(m, c)
      [] c.op = "UnmergeCells"  -> UnmergeCellsIn(m, c)
      [] c.op = "SortRange"     -> SortRangeIn(m, c)
      [] c.op = "SetRowLayout"  -> SetRowLayoutIn(m, c)
      [] c.op = "SetSheetMetadata"   -> SetSheetMetadataIn(m, c)
      [] c.op = "UpsertFilterColumn" -> UpsertFilterColumnIn(m, c)
      [] c.op = "ClearFilterColumn"  -> ClearFilterColumnIn(m, c)
      [] c.op = "SetAutoFilter" -> SetAutoFilterIn(m, c)
      [] c.op = "SetDimensions" -> SetDimensionIn(m, c)
      [] c.op = "SetFreezePane" -> SetFreezePaneIn(m, c)
      [] c.op = "UpsertRule"    -> UpsertRuleIn(m, c)
      [] c.op = "DeleteRule"    -> DeleteRuleIn(m, c)
      [] c.op = "FormatRange"   -> FormatRangeIn(m, c)
      [] c.op = "ClearRange"    -> ClearRangeIn(m, c)
      [] c.op = "ReplaceRange"  -> ReplaceRangeIn(m, c)
      [] c.op = "PasteRange"    -> PasteRangeIn(m, c)
      [] c.op = "FillRange"     -> FillRangeIn(m, c)

----------------------------------------------------------------------------
(* Behaviour *)

Init ==
    /\ model \in Workbooks
    /\ draft = model
    /\ cmds = 0 /\ muts = << >>
    /\ undo = << >> /\ redo = << >>
    /\ index = None

NoBatch == cmds' = 0 /\ muts' = << >>

Entry(us) == [muts |-> us, cmds |-> cmds, before |-> model, after |-> draft]
Spent == FoldLeft(LAMBDA n, e : n + e.cmds, cmds, undo \o redo)

\* Broken: a batch that wrote whole ranges leaves the index as it is.
SyncedByCells(m, us) ==
    LET changed == {<<us[i].sheet, us[i].range.from>> : i \in {j \in DOMAIN us : us[j].op = "cell"}}
    IN  IF \E i \in DOMAIN us : us[i].op = "sheet" THEN None
        ELSE IF changed = {} THEN index
        ELSE IF index = None THEN NewIndex(m) ELSE UpdatedIndex(index, m, changed)

\* sync_dependency_invalidation: a batch that moved cells about drops the index,
\* one that wrote single cells refreshes it or builds it.
Synced(m, us) ==
    LET changed == {<<us[i].sheet, us[i].range.from>> : i \in {j \in DOMAIN us : us[j].op = "cell"}}
    IN  IF \E i \in DOMAIN us : us[i].op \in {"sheet", "range"} THEN None
        ELSE IF changed = {} THEN index
        ELSE IF index = None THEN NewIndex(m) ELSE UpdatedIndex(index, m, changed)

\* from_mutations: the sheets a change set names, None standing for the workbook,
\* and whether sheets came or went.
ChangeSet(us) ==
    [containers |-> {IF us[i].op = "workbook" THEN None ELSE us[i].sheet : i \in DOMAIN us},
     structure  |-> \E i \in DOMAIN us : us[i].op = "sheet" /\ None \in {us[i].before, us[i].after}]

Result(m, c) ==
    CASE c.op = "CreateSheet" -> CreateSheetIn(m, c)
      [] c.op = "SetCalculationMode" -> SetCalculationModeIn(m, c)
      [] OTHER -> IF c.sheet \in Ids(m.sheets) THEN SheetResult(m, c) ELSE Refused

\* A command of the open batch: applied, or the batch is taken back.
Folded(result) ==
    IF result.ok
    THEN /\ draft' = FoldLeft(Mutate, draft, result.muts)
         /\ muts'  = muts \o result.muts
         /\ cmds'  = cmds + 1
    ELSE draft' = Rollback(draft, muts) /\ NoBatch

Fold(c) ==
    /\ Spent < MaxCommands
    /\ \E result \in {Result(draft, c)} : Folded(result)
    /\ UNCHANGED <<model, undo, redo, index>>

CreateSheet == {[op |-> "CreateSheet", sheet |-> s, name |-> n] : s \in SheetIds, n \in Names}
RenameSheet == {[op |-> "RenameSheet", sheet |-> s, name |-> n] : s \in SheetIds, n \in Names}
DeleteSheet == {[op |-> "DeleteSheet", sheet |-> s] : s \in SheetIds}

SetCell ==
    {[op |-> "SetCell", sheet |-> s, at |-> p, value |-> x[1], formula |-> x[2]] :
        s \in SheetIds, p \in Spots, x \in Contents}
SetCellStyle ==
    {[op |-> "SetCellStyle", sheet |-> s, at |-> p, style |-> style] :
        s \in SheetIds, p \in Spots, style \in {1, None}}
ClearCell == {[op |-> "ClearCell", sheet |-> s, at |-> p] : s \in SheetIds, p \in Spots}

\* InsertRows, DeleteRows, InsertColumns, DeleteColumns
EditLines ==
    {[op |-> op, sheet |-> s, axis |-> d, at |-> l[1], count |-> l[2]] :
        op \in {"insert", "delete"}, s \in SheetIds, d \in Axes, l \in Lines}
MergeOrUnmerge ==
    {[op |-> op, sheet |-> s, range |-> x] :
        op \in {"MergeCells", "UnmergeCells"}, s \in SheetIds, x \in Ranges}
SortRange ==
    {[op |-> "SortRange", sheet |-> s, range |-> x, key |-> [column |-> column, down |-> down]] :
        s \in SheetIds, x \in Ranges, column \in {0}, down \in BOOLEAN}

SetRowLayout ==
    {[op |-> "SetRowLayout", sheet |-> s, first |-> first, last |-> last, set |-> set] :
        s \in SheetIds, first \in Sizes, last \in {0}, set \in BOOLEAN}
SetSheetMetadata ==
    {[op |-> "SetSheetMetadata", sheet |-> s, meta |-> x] : s \in SheetIds, x \in Metas}
UpsertFilterColumn ==
    {[op |-> "UpsertFilterColumn", sheet |-> s,
      filter |-> [column |-> column, predicate |-> predicate]] :
        s \in SheetIds, column \in Sizes, predicate \in {1}}
ClearFilterColumn ==
    {[op |-> "ClearFilterColumn", sheet |-> s, column |-> column] :
        s \in SheetIds, column \in Sizes \cup {None}}
SetAutoFilter ==
    {[op |-> "SetAutoFilter", sheet |-> s, range |-> x] : s \in SheetIds, x \in Ranges \cup {None}}
SetCalculationMode == {[op |-> "SetCalculationMode", mode |-> x] : x \in {"automatic", "manual"}}
SetDimensions ==
    {[op |-> "SetDimensions", sheet |-> s, axis |-> d, size |-> n] :
        s \in SheetIds, d \in Axes, n \in Sizes \cup {None}}
SetFreezePane ==
    {[op |-> "SetFreezePane", sheet |-> s, freeze |-> At(r, k)] :
        s \in SheetIds, r \in Sizes, k \in Sizes}
UpsertRule ==
    {[op |-> "UpsertRule", sheet |-> s, list |-> list, rule |-> r] :
        s \in SheetIds, list \in {"formats", "checks"}, r \in Rules}
DeleteRule ==
    {[op |-> "DeleteRule", sheet |-> s, list |-> list, id |-> r.id] :
        s \in SheetIds, list \in {"formats", "checks"}, r \in Rules}

Modes == {"all", "values", "formats"}
FormatRange ==
    {[op |-> "FormatRange", sheet |-> s, range |-> x, style |-> 1] : s \in SheetIds, x \in Ranges}
ClearRange ==
    {[op |-> "ClearRange", sheet |-> s, range |-> x, mode |-> mode] :
        s \in SheetIds, x \in Ranges, mode \in {"all", "contents", "formats"}}
ReplaceRange ==
    {[op |-> "ReplaceRange", sheet |-> s, range |-> x, search |-> 1, replace |-> 2] :
        s \in SheetIds, x \in Ranges}
\* The origin matters where formulas are pasted.
PasteRange ==
    {[op |-> "PasteRange", sheet |-> s, at |-> p, from |-> x, mode |-> m[1], origin |-> m[2]] :
        s \in SheetIds, p \in Spots, x \in Ranges, m \in (Modes \X {TRUE}) \cup {<<"all", FALSE>>}}
FillRange ==
    {[op |-> "FillRange", sheet |-> s, range |-> x, from |-> s, source |-> y, mode |-> mode] :
        s \in SheetIds, x \in Ranges, y \in Ranges, mode \in {"all", "values"}}

SheetCommand == \E c \in CreateSheet \cup RenameSheet \cup DeleteSheet : Fold(c)
CellCommand  == \E c \in SetCell \cup SetCellStyle \cup ClearCell : Fold(c)
GridCommand  == \E c \in EditLines \cup MergeOrUnmerge \cup SortRange : Fold(c)
SettingsCommand == \E c \in SetRowLayout \cup SetSheetMetadata \cup UpsertFilterColumn
        \cup ClearFilterColumn \cup SetAutoFilter \cup SetCalculationMode \cup SetDimensions
        \cup SetFreezePane \cup UpsertRule \cup DeleteRule :
    Fold(c)
RangeCommand == \E c \in FormatRange \cup ClearRange \cup ReplaceRange \cup PasteRange \cup FillRange :
    Fold(c)

\* A batch that changed nothing is refused.
Finish ==
    /\ cmds > 0
    /\ NoBatch
    /\ IF muts # << >> /\ Valid(draft)
       THEN /\ model' = draft
            /\ undo' = Append(undo, Entry(muts))
            /\ redo' = << >>
            /\ index' = Synced(draft, muts)
            /\ UNCHANGED draft
       ELSE /\ draft' = Rollback(draft, muts)
            /\ UNCHANGED <<model, undo, redo, index>>

\* An entry played back or forth; one that cannot be stays where it is.
Played(us, result) ==
    /\ draft' = result.model
    /\ model' = IF result.ok THEN result.model ELSE model
    /\ index' = IF result.ok THEN Synced(result.model, us) ELSE index

Undo ==
    /\ cmds = 0 /\ undo # << >>
    /\ \E result \in {Play(draft, Inverses(Last(undo).muts))} :
         /\ Played(Inverses(Last(undo).muts), result)
         /\ undo' = IF result.ok THEN Front(undo) ELSE undo
         /\ redo' = IF result.ok THEN Append(redo, Last(undo)) ELSE redo
    /\ UNCHANGED <<cmds, muts>>

Redo ==
    /\ cmds = 0 /\ redo # << >>
    /\ \E result \in {Play(draft, Last(redo).muts)} :
         /\ Played(Last(redo).muts, result)
         /\ redo' = IF result.ok THEN Front(redo) ELSE redo
         /\ undo' = IF result.ok THEN Append(undo, Last(redo)) ELSE undo
    /\ UNCHANGED <<cmds, muts>>

Next ==
    \/ SheetCommand \/ CellCommand \/ GridCommand \/ SettingsCommand \/ RangeCommand
    \/ Finish \/ Undo \/ Redo

Spec == Init /\ [][Next]_vars

----------------------------------------------------------------------------
(* Properties *)

TypeOK == Valid(model)

SameRules(s, t) == Len(s) = Len(t) /\ ToSet(s) = ToSet(t)
SameSheet(s, t) ==
    /\ SameRules(s.formats, t.formats) /\ SameRules(s.checks, t.checks)
    /\ [s EXCEPT !.formats = t.formats, !.checks = t.checks] = t
SameContent(m, n) ==
    /\ Len(m.sheets) = Len(n.sheets)
    /\ \A i \in DOMAIN m.sheets : SameSheet(m.sheets[i], n.sheets[i])
    /\ [m EXCEPT !.sheets = n.sheets] = n

\* What a batch did can be taken back: the mutations of the open batch lead back
\* to the workbook of the last revision, so that a batch refused midway leaves
\* nothing behind, and undo and redo give back exactly the workbooks before and
\* after their batch.  Only the order of rules may differ.
EditsCanBeTakenBack ==
    /\ SameContent(Rollback(draft, muts), model)
    /\ undo # << >> => SameContent(Last(undo).after, model)
    /\ redo # << >> => SameContent(Last(redo).before, model)

\* Merged ranges never overlap, however rows and columns are inserted and deleted
\* around and inside them.
MergesStayDisjoint ==
    \A s \in ToSet(model.sheets) : \A i, j \in DOMAIN s.merged :
        i # j => ~Overlap(s.merged[i], s.merged[j])

\* After any insertion or deletion every formula that is left reads the cells it
\* read before, wherever they are now, less the deleted ones and more only by
\* new lines: rewriting the text of formulas and moving the cells agree, also
\* across sheets.
FollowsEdit(s, e) ==
    LET after == FoldLeft(Mutate, model, StructuralEdit(model, e @@ [sheet |-> s]).muts)
        Seen(p, t) == IF t = s THEN MovedPlace(p, e) ELSE {p}
        Now(sources) == UNION {{<<q[1], p>> : p \in Seen(q[2], q[1])} : q \in sources}
        IsNew(q) == /\ q[1] = s /\ e.op = "insert"
                    /\ e.at <= q[2][e.axis] /\ q[2][e.axis] < e.at + e.count
    IN  \A sheet \in ToSet(model.sheets) : \A p \in DOMAIN sheet.cells :
          \A q \in Seen(p, sheet.id) :
            LET then == Now(Reads(model, sheet.id, sheet.cells[p].formula))
                now  == Reads(after, sheet.id, Sheet(after, sheet.id).cells[q].formula)
            IN  then \subseteq now /\ \A r \in now \ then : IsNew(r)

ReferencesFollowCells ==
    cmds = 0 /\ redo = << >> => \A s \in Ids(model.sheets), op \in {"insert", "delete"}, d \in Axes,
                   l \in Lines :
        FollowsEdit(s, [op |-> op, axis |-> d, at |-> l[1], count |-> l[2]])

\* What a commit, an undo or a redo announces covers all that differs: every sheet
\* that came, went or has another content, the workbook when its own data differ,
\* and the structure when the list of sheets does.  (A batch refused before it may
\* have changed the order of rules.)
ChangesNamed ==
    undo' # undo =>
        LET told == ChangeSet(IF Len(undo') > Len(undo) THEN Last(undo').muts
                              ELSE Inverses(Last(redo').muts))
        IN  /\ \A s \in (Ids(model.sheets) \cup Ids(model'.sheets)) \ told.containers :
                 /\ s \in Ids(model.sheets) \cap Ids(model'.sheets)
                 /\ SameSheet(Sheet(model, s), Sheet(model', s))
            /\ \A part \in {"mode", "active", "named"} :
                 model'[part] # model[part] => None \in told.containers
            /\ ~told.structure =>
                 [i \in DOMAIN model'.sheets |-> model'.sheets[i].id]
                 = [i \in DOMAIN model.sheets |-> model.sheets[i].id]

\* The cached index is never stale: whenever there is one, it is the index a
\* rebuild from the current workbook would give.
IndexIsFresh == index # None => index = NewIndex(model)

================================================================================
