-------------------------- MODULE MCArtifactEngines --------------------------
(***************************************************************************)
(* Inputs of the engines' run: the artifacts they open and the arguments   *)
(* their commands take.                                                    *)
(***************************************************************************)
EXTENDS ArtifactEngines, TLC

CONSTANTS r, a, b, c, g, k, h, n, l1, l2, a2, b2, g2, k2, m1, u1, s1, s2, A, B,
          r1, r2, r3, k1, k3

At(i, j) == [row |-> i, column |-> j]

(* Mindmaps: empty, with a summary over two children, with an edge across a subtree *)
MapNode(id, p) == [id |-> id, parent |-> p, data |-> 0, collapsed |-> FALSE]
NoLinks == [x \in {"edge", "summary", "boundary", "formula"} |-> << >>]
TheImports ==
    { [root |-> None, nodes |-> << >>, links |-> NoLinks, settings |-> 0],
      [root |-> r, nodes |-> <<MapNode(r, None), MapNode(a, r), MapNode(b, r)>>, settings |-> 0,
       links |-> [NoLinks EXCEPT !["summary"] = <<[id |-> l1, from |-> a, to |-> b, data |-> 0]>>]],
      [root |-> r, settings |-> 0,
       nodes |-> <<MapNode(r, None), MapNode(a, r), MapNode(c, a), MapNode(b, r)>>,
       links |-> [NoLinks EXCEPT !["edge"] = <<[id |-> l1, from |-> c, to |-> b, data |-> 0]>>]] }
TheEnds == {<<a, b>>, <<c, c>>}

(* Whiteboards: an owner painted after its child, and a chain *)
Element(id, kids) == [id |-> id, children |-> kids]
TheScenes ==
    { [elements |-> <<Element(a, << >>), Element(b, <<a>>)>>, camera |-> 0],
      [elements |-> <<Element(a, <<b>>), Element(b, <<c>>), Element(c, << >>)>>, camera |-> 0] }
TheChildLists == {<< >>, <<a>>, <<b, c>>, <<c, c>>}

(* Decks: a group, a connector and an animation; a table with a span and an
   empty group, and a second slide *)
Node(id, p, key, type, place) ==
    [id |-> id, parent |-> p, key |-> key, kind |-> type, locked |-> 0, place |-> place,
     content |-> 0, ends |-> [start |-> None, end |-> None], table |-> None]
Cell(at, span, content) == [at |-> at, span |-> span, content |-> content, style |-> 0]
Spanned ==
    [size |-> At(2, 2),
     cells |-> {Cell(At(0, 0), At(1, 2), 1),
                Cell(At(1, 0), At(1, 1), 0),
                Cell(At(1, 1), At(1, 1), 0)}]
TheDecks ==
    { [assets |-> << >>, masters |-> <<[id |-> m1, data |-> 0]>>,
       layouts |-> <<[id |-> l1, master |-> m1, data |-> 0]>>, data |-> 0,
       slides |-> <<[id |-> s1, layout |-> l1, data |-> 0,
          nodes |-> <<Node(g, None, 0, "group", 0), Node(a, g, 0, "shape", 4), Node(k, g, 1, "shape", 2),
                      [Node(b, None, 1, "connector", 8) EXCEPT !.ends = [start |-> a, end |-> None]]>>,
          timeline |-> <<[id |-> m1, target |-> a, key |-> 0]>>]>>],
      [assets |-> << >>, masters |-> << >>, layouts |-> << >>, data |-> 0,
       slides |-> <<[id |-> s1, layout |-> None, data |-> 0, timeline |-> << >>,
                     nodes |-> <<[Node(a, None, 2, "table", 0) EXCEPT !.table = Spanned],
                                 Node(b, None, 1, "shape", 9), Node(g, None, 0, "group", 4)>>],
                    [id |-> s2, layout |-> None, data |-> 0, timeline |-> << >>,
                     nodes |-> <<Node(a, None, 0, "shape", 0)>>]>>] }
TheNewSlides ==
    {[id |-> s2, layout |-> l1, data |-> 1, timeline |-> << >>, nodes |-> <<Node(a, None, 0, "shape", 0)>>]}
TheRenamings ==
    { {<<a, a2>>, <<b, b2>>, <<g, g2>>, <<k, k2>>, <<m1, u1>>}, {<<a, a2>>, <<b, b2>>, <<g, g2>>},
      {<<a, g2>>}, {<<a, a>>} }
TheSelections == {<<a, k>>, <<k, k>>, <<a, b, g>>}

(* A workbook: formulas across two sheets, merges, a filter, a sort, two names and
   rules *)
Area(i, j, i2, j2) == [from |-> At(i, j), to |-> At(i2, j2)]
Value(v) == [value |-> v, formula |-> None, style |-> None]
Formula(s, x, fixed) == [sheet |-> s, from |-> x.from, to |-> x.to, fixed |-> fixed]
FormulaCell(f) == [value |-> None, formula |-> f, style |-> None]
Rule(id, x, allow, blank) == [id |-> id, range |-> x, allow |-> allow, blank |-> blank]
NewSheet(id, name) ==
    [id |-> id, name |-> name, cells |-> << >>, merged |-> << >>, formats |-> << >>,
     checks |-> << >>, filter |-> None, sort |-> None, layout |-> {},
     size |-> At(None, None), freeze |-> At(0, 0)]
TheWorkbooks ==
    { [mode |-> "automatic", active |-> s1,
       named |-> <<[name |-> 1, scope |-> s2, sheet |-> s1, range |-> Area(0, 0, 1, 0)],
                   [name |-> 2, scope |-> None, sheet |-> s2, range |-> Area(0, 0, 0, 0)]>>,
       sheets |-> <<
         [NewSheet(s1, A) EXCEPT
            !.cells = (At(0, 0) :> Value(1))
                      @@ (At(1, 0) :> [Value(2) EXCEPT !.style = 1])
                      @@ (At(2, 1) :> FormulaCell(Formula(None, Area(0, 0, 2, 0), FALSE))),
            !.merged = <<Area(0, 0, 0, 1), Area(1, 0, 1, 1)>>,
            !.formats = <<Rule(1, Area(0, 0, 0, 1), {1}, TRUE)>>,
            !.checks = <<Rule(1, Area(0, 0, 1, 1), {1, 2}, TRUE), Rule(2, Area(1, 1, 1, 1), {1}, TRUE)>>,
            !.sort = [range |-> Area(0, 0, 1, 1), columns |-> <<[column |-> 0, predicate |-> 0]>>],
            !.filter = [range |-> Area(0, 0, 1, 1), columns |-> <<[column |-> 1, predicate |-> 0]>>],
            !.layout = {1}, !.size = At(4, None), !.freeze = At(1, 1)],
         [NewSheet(s2, B) EXCEPT
            !.cells = At(0, 0) :> FormulaCell(Formula(A, Area(1, 0, 1, 1), TRUE))]>>] }
TheNames  == {A, s1}
TheSpots  == {At(1, 1)}
TheRanges == {Area(0, 0, 1, 0), Area(1, 0, 1, 1)}
TheContents ==
    {<<1, None>>, <<None, Formula(B, Area(0, 0, 0, 0), FALSE)>>, <<2, Formula(None, Area(0, 0, 0, 1), FALSE)>>}
TheRules == {Rule(1, Area(1, 0, 1, 1), {1}, TRUE)}
TheMetas ==
    {[freeze |-> At(0, 1), layout |-> {0}, size |-> At(2, 2), sort |-> None,
      merged |-> <<Area(0, 0, 1, 1)>>]}
TheLines == {<<0, 1>>, <<1, 2>>}

(* Documents: three levels, a todo that starts a section and carries a note
   beside an image, and a table *)
Block(id, type, text, kids, data) ==
    [id |-> id, kind |-> type, text |-> text, look |-> 0, children |-> kids, data |-> data]
Plain == [len |-> 1, style |-> 0]
Doc(root, blocks) ==
    [root |-> root, blocks |-> blocks, setup |-> 0,
     pages |-> [sections |-> << >>, footnotes |-> << >>, endnotes |-> << >>]]
Row(id) == [id |-> id, size |-> 0, cells |-> <<Plain, [len |-> 0, style |-> 0]>>]
Column(id) == [id |-> id, size |-> 0]
TheDocuments ==
    { Doc(<<a>>, <<Block(a, "page", None, <<b>>, None), Block(b, "callout", Plain, <<c>>, None),
                   Block(c, "paragraph", Plain, << >>, None)>>),
      [Doc(<<a, b>>, <<Block(a, "todo", Plain, << >>, 0),
                       Block(b, "image", None, << >>, [asset |-> 0, crop |-> 0])>>)
          EXCEPT !.pages.sections = <<[id |-> "s", start |-> a]>>,
                 !.pages.footnotes = <<[id |-> "f", block |-> a, end |-> 1]>>],
      Doc(<<a, b>>, <<Block(a, "paragraph", Plain, << >>, None),
                      Block(b, "table", None, << >>,
                            [rows |-> <<Row(r1), Row(r2)>>, columns |-> <<Column(k1), Column(k2)>>,
                             merges |-> << >>])>>) }
TheNewBlocks ==
    {Block(n, "link", Plain, << >>, 0), Block(a, "divider", None, << >>, None)}
Span(x, y, u, v) == [startRow |-> x, endRow |-> y, startColumn |-> u, endColumn |-> v]
TheTableRanges ==
    {Span(r1, r1, k1, k2), Span(r1, r2, k1, k2), Span(r1, r2, k1, k1), Span(r1, r1, k1, k1)}
TheSections == {[id |-> "s", start |-> b], [id |-> "t", start |-> a]}
TheNotes    == {[id |-> "f", block |-> a, end |-> 0], [id |-> "g", block |-> c, end |-> 1]}

================================================================================
