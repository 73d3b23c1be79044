-------------------------- MODULE MCArtifactServices --------------------------
(* Constants of the services' run: the workbooks it calculates, the contents it
   pages, the areas of its scene, the snapshots it migrates. *)
EXTENDS ArtifactParts, Integers, TLC, Sequences, SequencesExt

CONSTANTS h1, h2, a1, s1, r1, b1, b2, e1, e2

\* A file without assets, and one that brings one.
TheImports == {{}, {a1}}

--------------------------------------------------------------------------------
\* Tokens of a formula.
Op(t)       == [t |-> t]
Name(n)     == [t |-> "name", name |-> n]
Lit(n)      == <<[t |-> "num", num |-> <<n, 1>>]>>
Str(s)      == <<[t |-> "text", text |-> s]>>
Far(s, r, c) == <<[t |-> "ref", ref |-> [sheet |-> s, row |-> r, column |-> c]]>>
Ref(r, c)   == Far(None, r, c)
To(a, b)    == a \o <<Op(":")>> \o b
Infix(a, op, b) == a \o <<Op(op)>> \o b
Call(n, args) ==
    <<Name(n), Op("(")>>
    \o FlattenSeq([i \in DOMAIN args |-> IF i = 1 THEN args[i] ELSE <<Op(",")>> \o args[i]])
    \o <<Op(")")>>

A1 == Ref(0, 0)
B1 == Ref(0, 1)
A2 == Ref(1, 0)
B2 == Ref(1, 1)

F(tokens) == [formula |-> tokens]
C(v)      == [constant |-> "value", value |-> v]
Num(n)    == C([num |-> <<n, 1>>])
Txt(s)    == C([text |-> s])

\* What a cell of the small workbooks holds.
Contents == {
    Num(2),
    F(Infix(A1, "+", Lit(1))),
    F(Infix(B1, "*", A2)),
    F(Infix(A2, "/", Lit(0))),
    F(Call("IFERROR", <<A1, Lit(7)>>)),
    F(Call("IF", <<A1, B1, A2>>)),
    F(Call("SUM", <<To(A1, B2)>>)),
    F(A2 \o <<Op("+")>>)}

Small(a, b, c) ==
    [sheets |-> <<{"s1"}>>, system |-> 1900, laws |-> {},
     formats |-> <<[sheet |-> 1, startRow |-> 0, endRow |-> 0, startColumn |-> 0, endColumn |-> 1,
                    op |-> "greaterThan", operand |-> <<2, 1>>]>>,
     filters |-> {[sheet |-> 1, startRow |-> 0, endRow |-> 1, column |-> 0,
                   predicate |-> [kind |-> "greaterThan", num |-> <<1, 1>>]]},
     cells |-> (<<1, 0, 0>> :> a) @@ (<<1, 0, 1>> :> b) @@ (<<1, 1, 0>> :> c)]

\* A law over the cells A1, B1, A2, B2 of another sheet.
Law(tokens, system, a, b, c, d) ==
    [sheets |-> <<{"s1", "sheet one"}, {"s2"}>>, system |-> system, laws |-> {<<2, 0, 0>>},
     formats |-> <<>>, filters |-> {},
     cells |-> (<<2, 0, 0>> :> F(tokens)) @@ (<<1, 0, 0>> :> a) @@ (<<1, 0, 1>> :> b)
               @@ (<<1, 1, 0>> :> c) @@ (<<1, 1, 1>> :> d)]

X  == Far("s1", 0, 0)
Y  == Far("sheet one", 0, 1)
Z  == Far("s1", 1, 0)
W  == Far("s1", 1, 1)
All == To(X, W)

AtMost(a, b) == Infix(a, "<=", b)
Same(a, b)   == Infix(a, "=", b)
Half(a)      == Infix(a, "/", Lit(2))
Minus(a)     == <<Op("-")>> \o a
Total(a, b)  == Infix(a, "+", b)
Paren(a)     == <<Op("(")>> \o a \o <<Op(")")>>
Fun(n, a)    == Call(n, <<a>>)
Fun2(n, a, b) == Call(n, <<a, b>>)
Fun3(n, a, b, c) == Call(n, <<a, b, c>>)
Both(laws)   == Call("AND", laws)
Where(sign, a) == Fun2("CONCAT", Str(sign), a)

\* Rounding brackets a number; a remainder completes it; subtraction is to the left.
RoundingLaws == {
    Both(<<AtMost(Fun("FLOOR", Half(X)), Half(X)),
           AtMost(Half(X), Fun("CEILING", Half(X))),
           AtMost(Fun("ABS", Fun("ROUNDDOWN", Half(X))), Fun("ABS", Half(X))),
           AtMost(Fun("ABS", Half(X)), Fun("ABS", Fun2("ROUNDUP", Half(X), Lit(0)))),
           AtMost(Fun("ABS", Infix(Half(X), "-", Fun("ROUND", Half(X)))), Half(Lit(1)))>>),
    Same(Total(Fun2("MOD", X, Y), Infix(Y, "*", Fun("INT", Infix(X, "/", Y)))), X),
    Fun("NOT", Infix(Fun2("POWER", X, Lit(2)), "!=", Infix(X, "*", X))),
    Call("OR", <<Infix(X, ">", Y), Infix(X, "<", Y), Same(X, Y)>>),
    Same(Infix(Infix(X, "-", Y), "-", Z), Infix(X, "-", Paren(Total(Y, Z))))}

\* A criterion and its contrary part a range; order statistics agree with extremes.
RangeLaws == {
    Same(Total(Fun2("COUNTIF", All, Where(<<"<">>, X)), Fun2("COUNTIF", All, Where(<<">", "=">>, X))),
         Fun("COUNT", All)),
    Same(Total(Fun2("SUMIF", All, Where(<<"<", ">">>, X)), Fun3("SUMIF", All, X, All)),
         Fun("SUM", All)),
    Both(<<Same(Fun2("SMALL", All, Lit(1)), Fun("MIN", All)),
           Same(Fun2("LARGE", All, Lit(1)), Fun("MAX", All)),
           AtMost(Fun("MIN", All), Fun("MEDIAN", All)),
           Same(Infix(Fun("AVERAGE", All), "*", Fun("COUNTA", All)), Fun("SUM", All)),
           Same(Fun2("AVERAGEIF", All, Str(<<">", "=", "-", "9">>)), Fun("AVERAGE", All))>>),
    Same(Fun3("INDEX", All, Lit(2), Fun3("MATCH", Z, To(Z, W), Lit(0))), Z),
    Same(Fun3("VLOOKUP", X, All, Lit(2)), Y),
    Same(Fun3("HLOOKUP", X, All, Lit(2)),
         Call("XLOOKUP", <<X, To(X, Y), To(Z, W), Minus(Lit(1))>>))}

\* A loan that is paid off is worth nothing; what it comes to discounts back.
AnnuityLaws == {
    Same(Call("FV", <<Half(Y), Lit(2), Fun3("PMT", Half(Y), Lit(2), X), X>>), Lit(0)),
    Same(Call("PV", <<Y, Lit(2), X, Call("FV", <<Y, Lit(2), X, Z>>)>>), Z),
    Same(Fun3("NPV", Y, X, Z),
         Total(Fun3("PV", Y, Lit(1), Minus(X)),
               Call("PV", <<Y, Lit(2), Lit(0), Minus(Z)>>)))}

NumberBooks ==
    {Law(l, 1900, Num(a), Num(b), Num(c), Num(5)) :
       l \in RoundingLaws \cup RangeLaws \cup AnnuityLaws,
       a \in {-3, 0, 3}, b \in {1, 2}, c \in {-2, 4}}

\* The parts of a text make it up; what is found in it can be replaced.
TextLaws == {
    Fun2("EXACT", Fun2("CONCAT", Fun2("LEFT", X, Y),
                       Fun2("RIGHT", X, Infix(Fun("LEN", X), "-", Y))), X),
    Fun2("EXACT", Call("REPLACE", <<X, Y, Lit(1), Fun3("MID", X, Y, Lit(1))>>), X),
    Same(Fun2("IFERROR", Fun2("FIND", Z, X), Lit(0)),
         Fun3("IF", Fun2("EXACT", Fun3("SUBSTITUTE", X, Z, Str(<<>>)), X),
              Lit(0), Fun2("FIND", Z, X))),
    AtMost(Fun2("IFERROR", Fun2("SEARCH", Z, X), Lit(0)),
           Fun2("IFERROR", Fun2("FIND", Z, X), Lit(9))),
    Fun2("EXACT", Call("TEXTJOIN", <<Str(<<" ">>), <<Name("TRUE")>>, Fun("TRIM", X), Str(<<>>)>>),
         Fun("TRIM", X)),
    Fun2("EXACT", Fun("UPPER", Fun("LOWER", X)), Fun("UPPER", X))}

TextBooks ==
    {Law(l, 1900, Txt(a), Num(b), Txt(c), Num(1)) :
       l \in TextLaws, a \in {<<"a", "b", "a">>, <<" ", "A", " ", " ", "b">>},
       b \in {1, 2}, c \in {<<"a">>, <<"b", "a">>}}

\* A date is read back from its serial, and later months have later serials.
DateLaw ==
    LET date == Fun3("DATE", X, Y, Z)
    IN  Both(<<Same(Fun("YEAR", date), X), Same(Fun("MONTH", date), Y), Same(Fun("DAY", date), Z),
               AtMost(Total(Fun3("DATE", X, Lit(1), Lit(1)),
                            Infix(Infix(Y, "-", Lit(1)), "*", Lit(28))), date)>>)

DateBooks ==
    {Law(DateLaw, s, Num(d[1]), Num(d[2]), Num(d[3]), Num(1)) :
       s \in {1900, 1904},
       d \in ({1900, 1904, 2000, 2023, 2024} \X {1, 2, 3, 12} \X {1, 28})
             \cup ({1900, 2000, 2024} \X {2} \X {29})}

\* Two sheets that go by one name, and a reference to a sheet that is not there.
OddBooks == {
    [Small(Num(2), F(Infix(A1, "+", Far("s2", 0, 0))), Num(2)) EXCEPT !.sheets = s] :
        s \in {<<{"s1"}>>, <<{"s1"}, {"s2", "s1"}>>}}

TheBooks ==
    OddBooks \cup {Small(a, b, c) : a, b, c \in Contents}
    \cup NumberBooks \cup TextBooks \cup DateBooks

--------------------------------------------------------------------------------
\* Contents that are read in pages, and how.
OutlineBlock(id, level, content, children) ==
    [id |-> id, level |-> level, content |-> content, children |-> children]
DocumentBody(root, starts, body) ==
    [kind |-> "document", root |-> root, starts |-> starts, blocks |-> body]
SceneNode(id, parent, key) == [id |-> id, parent |-> parent, key |-> key]
SlideBody(id, nodes) == [id |-> id, nodes |-> nodes]
DeckBody(slides) ==
    [kind |-> "presentation", slides |-> slides, masters |-> <<"m1">>, layouts |-> <<>>]

TheBodies == {
    DocumentBody(<<"x", "y">>, <<"x", "y">>,
        <<OutlineBlock("y", 1, FALSE, <<>>), OutlineBlock("z", 2, TRUE, <<"p">>),
          OutlineBlock("x", 1, TRUE, <<"z">>), OutlineBlock("p", 0, TRUE, <<>>)>>),
    DocumentBody(<<"y", "x">>, <<>>,
        <<OutlineBlock("x", 2, TRUE, <<>>), OutlineBlock("y", 0, TRUE, <<"z", "p">>),
          OutlineBlock("z", 1, TRUE, <<>>), OutlineBlock("p", 3, TRUE, <<>>)>>),
    DocumentBody(<<"x">>, <<"x">>,
        <<OutlineBlock("x", 3, TRUE, <<"y">>), OutlineBlock("y", 2, TRUE, <<>>)>>),
    DeckBody(<<SlideBody("s1", <<SceneNode("n1", None, 1), SceneNode("n2", "n1", 3),
                                 SceneNode("n3", "n1", 2)>>),
               SlideBody("s2", <<>>)>>),
    DeckBody(<<SlideBody("s2", <<>>), SlideBody("s1", <<SceneNode("n1", None, 1)>>),
               SlideBody("s3", <<>>)>>),
    [kind |-> "spreadsheet", sheets |-> <<"t1", "t2">>],
    [kind |-> "spreadsheet", sheets |-> <<"t1">>]}

Asking(route, parent, limit) == [route |-> route, parent |-> parent, limit |-> limit]
TheViews ==
    {Asking(route, None, 1) :
        route \in {"outline", "toc", "blocks", "slides", "documentPrint", "overview", "sheets", "unknown"}}
    \cup {Asking("toc", None, 2), Asking("slides", None, 2), Asking("blocks", None, 2),
          Asking("blocks", "x", 1), Asking("blocks", "y", 1), Asking("blocks", None, 0)}
TheBudgets == <<2, 4, 6, 9>>

--------------------------------------------------------------------------------
\* Areas that touch, overlap and lie apart, one of no width, one too large to index.
Area(x, y, width, height) == [x |-> x, y |-> y, width |-> width, height |-> height]
TheAreas == {Area(-5, -1, 9, 4), Area(4, 2, 0, 6), Area(30, 0, 90, 1)}
ThePoints == {[x |-> 1, y |-> 1], [x |-> -3, y |-> 6]}
TheCameras == {[x |-> 0, y |-> 0, scale |-> 1], [x |-> -3, y |-> 2, scale |-> 2]}
TheScreen == [width |-> 8, height |-> 4]

--------------------------------------------------------------------------------
\* JSON as the converter sees it: numbers in tenths, texts as characters.
JStr(s)  == [string |-> s]
JNum(n)  == [number |-> n]
JBool(b) == [bool |-> b]
JList(s) == [list |-> s]
JObj(f)  == [object |-> f]
JNull    == [null |-> TRUE]
JGarbage == [garbage |-> TRUE]

\* Stored snapshots.
Envelope(v, id, kind, data) ==
    JObj([format |-> JStr("open-office-artifact"), schemaVersion |-> JNum(10 * v),
         artifactId |-> JStr(id), revision |-> JNum(10), kind |-> JStr(kind),
         payload |-> JObj([kind |-> JStr(kind), data |-> data])])

StoredBlock(id, type, more) == JObj([id |-> JStr(id), kind |-> JObj([type |-> JStr(type)])] @@ more)
WithAttrs(f)      == [attrs |-> JObj(f)]
WithContents(t, d) == [payload |-> JObj([type |-> JStr(t), data |-> d])]
TextOf(them)    == JObj([text |-> JStr(<<"a">>), runs |-> JList(them)])
OldRun        == JObj([attrs |-> JObj([bold |-> JBool(TRUE), backgroundColor |-> JStr("red")])])
StoredDocument(v, id, body) ==
    Envelope(v, id, "document",
        JObj([blocks |-> JList(body)] @@ (IF v < 7 THEN <<>> ELSE [pageSemantics |-> JList(<<>>)])))

OldTable(data) == StoredBlock("b1", "table", WithContents("table", data))
OneCell(run)     == JObj([rows |-> JList(<<JObj([cells |-> JList(<<JObj([content |-> TextOf(<<run>>)])>>)])>>)])

FirstDocuments(id) == {
    StoredDocument(1, id, <<StoredBlock("b1", "todo", WithAttrs([checked |-> JBool(TRUE), align |-> JStr("center")])),
                      StoredBlock("b2", "link", WithAttrs([url |-> JStr("u")])),
                      StoredBlock("b3", "code", <<>>),
                      StoredBlock("b4", "paragraph", [content |-> TextOf(<<OldRun>>)])>>),
    StoredDocument(1, id, <<OldTable(OneCell(OldRun))>>),
    StoredDocument(1, id, <<StoredBlock("b1", "chart", WithContents("chart", OneCell(OldRun)))>>),
    StoredDocument(1, id, <<StoredBlock("b1", "link", <<>>)>>),
    StoredDocument(1, id, <<StoredBlock("b1", "todo", WithAttrs([checked |-> JStr("yes")]))>>),
    StoredDocument(2, id, <<OldTable(OneCell(OldRun))>>),
    StoredDocument(2, id, <<StoredBlock("b1", "table", <<>>)>>),
    StoredDocument(2, id, <<StoredBlock("b1", "quote",
                            [content |-> TextOf(<<JObj([attrs |-> JObj([size |-> JNum(10)])])>>)])>>)}

OldStyle ==
    JObj([alignment |-> JStr("justify"), list |-> JObj([kind |-> JStr("bullet"), level |-> JNum(10)]),
          indentLeft |-> JNum(25), indentRight |-> JNum(10), spaceBefore |-> JNum(20),
          spaceAfter |-> JNum(30), lineHeight |-> JNum(20), name |-> JStr("body")])

SecondDocuments(id) ==
    {StoredDocument(3, id, <<StoredBlock("b1", "paragraph", WithAttrs(a))>>) : a \in {
        [align |-> JStr("right"), listType |-> JStr("ordered"), listLevel |-> JNum(20),
         indentLevel |-> JNum(30), indentRight |-> JNum(15), spacingBefore |-> JNum(55),
         spacingAfter |-> JNum(5), lineHeight |-> JNum(15), namedStyle |-> JStr("title"),
         paragraphStyle |-> OldStyle],
        [paragraphStyle |-> OldStyle],
        [align |-> JNum(10), listType |-> JNum(10), indentLevel |-> JNum(15),
         namedStyle |-> JNum(10), paragraphStyle |-> OldStyle],
        [align |-> JStr("middle")],
        [listLevel |-> JNum(10)],
        [indentLevel |-> JNum(210)],
        [lineHeight |-> JNum(101)],
        [colour |-> JStr("red")]}}
    \cup {StoredDocument(3, id, <<b>>) : b \in {
        StoredBlock("b1", "chart", WithContents("chart", JNum(10))),
        StoredBlock("b1", "extension", WithContents("chart", JNum(10))),
        StoredBlock("b1", "image", <<>>),
        StoredBlock("b1", "paragraph", WithContents("chart", JNum(10))),
        StoredBlock("b1", "todo", WithAttrs([checked |-> JBool(TRUE)])
                                  @@ WithContents("todo", JObj([checked |-> JBool(FALSE)]))),
        StoredBlock("b1", "todo", WithContents("link", JObj([url |-> JStr("u")])))}}

PlainRichText(chars) == JObj([text |-> JStr(chars), runs |-> JList(<<>>)])
DeckJson ==
    JObj([slides |-> JList(<<JObj([nodes |-> JList(<<
             JObj([kind |-> JObj([type |-> JStr("text"),
                                data |-> JObj([body |-> PlainRichText(<<"a", "nl", "b">>)])])]),
             JObj([kind |-> JObj([type |-> JStr("extension"),
                                data |-> JObj([body |-> JObj([runs |-> JNull])])])])>>)])>>)])
OldMindmap(more) == JObj([nodes |-> JList(<<JObj([id |-> JStr("n1")])>>),
                   edges |-> JList(<<JObj([id |-> JStr("e1")])>>)] @@ more)

Others(id) == {
    StoredDocument(4, id, <<>>), StoredDocument(6, id, <<>>), StoredDocument(10, id, <<>>),
    Envelope(4, id, "spreadsheet", JObj([metadata |-> JObj(<<>>)])),
    Envelope(7, id, "spreadsheet", JObj([metadata |-> JObj(<<>>)])),
    Envelope(5, id, "mindmap", OldMindmap(<<>>)),
    Envelope(5, id, "mindmap", JObj([nodes |-> JList(<<>>)])),
    Envelope(9, id, "mindmap", OldMindmap([settings |-> JObj(<<>>)])),
    Envelope(7, id, "presentation", DeckJson),
    JGarbage}

\* Version 4 presentations.
OldElement(id, type, attrs, children, width) ==
    [id |-> id, type |-> type, attrs |-> attrs, children |-> children, x |-> 1, width |-> width,
     height |-> 1]
OldAnimation(id, effect, nth) ==
    [id |-> id, target |-> "e1", effect |-> effect, order |-> nth, duration |-> 5]
OldDeck(elements, animations, theme) ==
    [legacy |-> [slides |-> <<[id |-> "s1", name |-> "one", notes |-> JNull, elements |-> elements,
                               animations |-> animations]>>,
                 theme |-> theme]]
OldPresentation(id, elements, animations, theme) ==
    Envelope(4, id, "presentation", OldDeck(elements, animations, theme))

RichDeck(id) ==
    OldPresentation(id,
        <<OldElement("e1", "group", [name |-> JStr("g"), colour |-> JStr("red")], <<"e2", "e3">>, 0),
          OldElement("e2", "text", [text |-> JStr(<<"a", "nl">>), name |-> JNum(10)], <<>>, 3),
          OldElement("e3", "shape", [shapeKind |-> JStr("oval"), fill |-> JStr("red")], <<"e4">>, 3),
          OldElement("e4", "shape", [shapeKind |-> JStr("star")], <<>>, 3),
          OldElement("e5", "chart", [series |-> JNum(10)], <<>>, 3),
          OldElement("e6", "shape", [shapeKind |-> JNum(10)], <<>>, 3)>>,
        <<OldAnimation("m1", "wipe", 2), OldAnimation("m2", "spin", 1), OldAnimation("m3", "fade", 2)>>,
        [id |-> "t", fonts |-> [body |-> "f", mono |-> "g"],
         colors |-> [text |-> [hex |-> <<1, 2, 15>>], accent1 |-> [css |-> "rgb"],
                     hyperlink |-> [hex |-> <<0, 1, 2, 3, 4, 16>>], shade |-> [hex |-> <<1, 1, 1>>]]])
PlainDeck(id) ==
    OldPresentation(id, <<OldElement("e1", "text", <<>>, <<>>, 2)>>, <<>>, [none |-> TRUE])

BadDecks(id) ==
    {OldPresentation(id, es, <<>>, [none |-> TRUE]) : es \in {
        <<OldElement("e1", "group", <<>>, <<"e1">>, 1)>>,
        <<OldElement("e3", "group", <<>>, <<>>, 1), OldElement("e1", "group", <<>>, <<"e2">>, 1),
          OldElement("e2", "group", <<>>, <<"e1", "e3">>, 1)>>,
        <<OldElement("e1", "group", <<>>, <<"e3">>, 1), OldElement("e2", "group", <<>>, <<"e3">>, 1),
          OldElement("e3", "group", <<>>, <<>>, 1)>>}}
    \cup {OldPresentation(id, <<OldElement("e1", "text", <<>>, <<>>, 1)>>, <<OldAnimation("m1", "fade", 1)>>,
              [id |-> "t", fonts |-> [body |-> ""], colors |-> <<>>])}

TheKeys ==
    <<[artifact |-> "a1", revision |-> 1, place |-> "artifacts", json |-> TRUE],
      [artifact |-> "a2", revision |-> 1, place |-> "artifacts", json |-> TRUE],
      [artifact |-> "a2", revision |-> 1, place |-> "source", json |-> FALSE]>>

FolderOf(n, a, b) == [objects |-> <<a, b, JGarbage>>, launches |-> n]
TheFolders ==
    {FolderOf(2, RichDeck("a1"), PlainDeck("a2"))}
    \cup {FolderOf(2, StoredDocument(1, "a1", <<StoredBlock("b1", "code", <<>>)>>), PlainDeck("a2"))}
    \cup {FolderOf(1, a, PlainDeck("a2")) : a \in BadDecks("a1")}
    \cup {FolderOf(1, a, JGarbage) :
             a \in FirstDocuments("a1") \cup SecondDocuments("a1") \cup Others("a1")}
TheVersions == [a1 |-> 1]

===============================================================================
