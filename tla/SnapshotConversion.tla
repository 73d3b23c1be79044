-------------------------- MODULE SnapshotConversion --------------------------
(***************************************************************************)
(* The offline conversion of a stored snapshot: the chain that lifts the   *)
(* JSON of schema 1 to 9 to the current one.                               *)
(*                                                                         *)
(* A JSON value is a record with one field, named for its type.  Numbers   *)
(* count tenths.  A text of a deck is the sequence of its characters,      *)
(* other strings are atoms; names of shapes are in lower case.             *)
(***************************************************************************)
EXTENDS Integers, Sequences, FiniteSets, SequencesExt, TLC

CurrentVersion == 10

--------------------------------------------------------------------------------
\* JSON values.

Absent  == [absent |-> TRUE]
Null    == [null |-> TRUE]
Refused == [refused |-> TRUE]
Str(s)  == [string |-> s]
Num(n)  == [number |-> n]
Bool(b) == [bool |-> b]
List(s) == [list |-> s]
Obj(f)  == [object |-> f]

Is(j, type) == type \in DOMAIN j
IsCount(j)  == Is(j, "number") /\ j.number >= 0 /\ j.number % 10 = 0
Given(j)    == j \notin {Absent, Null}

Field(j, key) == IF Is(j, "object") /\ key \in DOMAIN j.object THEN j.object[key] ELSE Absent
At(j, key, next) == Field(Field(j, key), next)

With(j, key, value) ==
    Obj([k \in DOMAIN j.object \cup {key} |-> IF k = key THEN value ELSE j.object[k]])
Without(j, key)     == Obj([k \in DOMAIN j.object \ {key} |-> j.object[k]])
Default(j, key, value) == IF key \in DOMAIN j.object THEN j ELSE With(j, key, value)

\* A list some element of which was refused is refused.
AllOf(values) == IF \E i \in DOMAIN values : values[i] = Refused THEN Refused ELSE List(values)

\* j with its field replaced by a converted value, refused with it.
Rewritten(j, key, value) == IF Refused \in {j, value} THEN Refused ELSE With(j, key, value)

Data(raw) == At(raw, "payload", "data")
WithData(raw, data) ==
    IF data = Refused THEN Refused
    ELSE With(raw, "payload", With(Field(raw, "payload"), "data", data))

IsDocument(raw) ==
    At(raw, "payload", "kind") = Str("document") /\ Is(Data(raw), "object")

--------------------------------------------------------------------------------
\* Inline styles: a run's attrs become its style.

InlineStyles ==
    {"bold", "italic", "underline", "strikethrough", "fontFamily", "fontSize", "color",
     "highlight", "verticalAlign"}

StyleName(key) == IF key = "backgroundColor" THEN "highlight" ELSE key

\* Two attrs of one name leave one: the later key's, "highlight" after "backgroundColor".
StyleOf(attrs) ==
    Obj([name \in {StyleName(k) : k \in DOMAIN attrs} |->
            IF name \in DOMAIN attrs THEN attrs[name] ELSE attrs["backgroundColor"]])

MigratedRun(run) ==
    LET attrs == Field(run, "attrs")
    IN  IF ~Is(run, "object") THEN Refused
        ELSE IF attrs = Absent THEN run
        ELSE IF \/ Field(run, "style") # Absent
                \/ ~Is(attrs, "object")
                \/ \E k \in DOMAIN attrs.object : StyleName(k) \notin InlineStyles
             THEN Refused
        ELSE With(Without(run, "attrs"), "style", StyleOf(attrs.object))

MigratedRichText(content) ==
    LET runs == Field(content, "runs")
    IN  IF ~Is(runs, "list") THEN content
        ELSE Rewritten(content, "runs", AllOf([i \in DOMAIN runs.list |-> MigratedRun(runs.list[i])]))

MigratedContent(holder) ==
    IF Field(holder, "content") = Absent THEN holder
    ELSE Rewritten(holder, "content", MigratedRichText(Field(holder, "content")))

MigratedCells(row) ==
    LET cells == Field(row, "cells")
    IN  IF ~Is(cells, "list") THEN row
        ELSE Rewritten(row, "cells", AllOf([i \in DOMAIN cells.list |-> MigratedContent(cells.list[i])]))

MigratedRows(block) ==
    LET rows == Field(Data(block), "rows")
    IN  IF ~Is(rows, "list") THEN block
        ELSE WithData(block, Rewritten(Data(block), "rows",
                AllOf([i \in DOMAIN rows.list |-> MigratedCells(rows.list[i])])))

MigratedInlineStyles(block) ==
    IF ~Is(block, "object") THEN Refused
    ELSE LET styled == MigratedContent(block)
         IN  IF styled = Refused THEN Refused ELSE MigratedRows(styled)

--------------------------------------------------------------------------------
\* Schema 1 and 2 to 3: typed payloads.

KindOf(block) == At(block, "kind", "type")

WithMergedRanges(block) ==
    With(block, "payload",
         With(Field(block, "payload"), "data",
              Default(Data(block), "mergedRanges", List(<<>>))))

WithPayload(block, type, data) ==
    With(block, "payload", Obj([type |-> Str(type), data |-> data]))

WithoutAttr(block, key) ==
    IF Is(Field(block, "attrs"), "object")
    THEN With(block, "attrs", Without(Field(block, "attrs"), key))
    ELSE block

CodeDefaults == Obj([language |-> Null, wrap |-> Bool(FALSE)])

TypedBlock(block) ==
    LET bare    == ~Given(Field(block, "payload"))
        checked == At(block, "attrs", "checked")
        url     == At(block, "attrs", "url")
    IN  IF ~Is(KindOf(block), "string") THEN Refused
        ELSE IF KindOf(block) = Str("table")
        THEN IF Is(Data(block), "object") THEN WithMergedRanges(block) ELSE block
        ELSE IF KindOf(block) = Str("todo") /\ bare
        THEN IF checked # Absent /\ ~Is(checked, "bool") THEN Refused
             ELSE WithPayload(WithoutAttr(block, "checked"), "todo",
                     Obj([checked |-> IF checked = Absent THEN Bool(FALSE) ELSE checked]))
        ELSE IF KindOf(block) = Str("code") /\ bare THEN WithPayload(block, "code", CodeDefaults)
        ELSE IF KindOf(block) = Str("link") /\ bare
        THEN IF ~Is(url, "string") \/ url = Str("") THEN Refused
             ELSE WithPayload(WithoutAttr(block, "url"), "link", Obj([url |-> url]))
        ELSE block

MigratedDocumentBlock(block) == TypedBlock(MigratedInlineStyles(block))

MergeableTable(block) ==
    IF block = Refused THEN Refused
    ELSE IF KindOf(block) # Str("table") THEN block
    ELSE IF Is(Data(block), "object") THEN WithMergedRanges(block)
    ELSE Refused

MigratedV2Block(block) == MergeableTable(MigratedInlineStyles(block))

--------------------------------------------------------------------------------
\* Schema 3 to 4: attrs and payload become presentation and data.

KnownAttrs ==
    {"align", "listType", "listLevel", "indentLevel", "indentRight", "spacingBefore",
     "spacingAfter", "lineHeight", "paragraphStyle", "namedStyle"}

AcceptedAttrs(kind) ==
    KnownAttrs \cup (IF kind = Str("todo") THEN {"checked"} ELSE {})
               \cup (IF kind = Str("link") THEN {"url"} ELSE {})

\* The first of two values that has the type, and the first that is there at all.
FirstString(a, b) == IF Is(a, "string") THEN a ELSE IF Is(b, "string") THEN b ELSE Absent
FirstCount(a, b)  == IF IsCount(a) THEN a ELSE IF IsCount(b) THEN b ELSE Absent
FirstGiven(a, b)  == IF a # Absent THEN a ELSE b

\* A length rounded to an unsigned whole number, half away from zero.
RoundedIndent(j) == IF j.number < 0 THEN Num(0) ELSE Num(10 * ((j.number + 5) \div 10))

IndentOf(level, left) ==
    IF IsCount(level) THEN level
    ELSE IF Is(left, "number") THEN RoundedIndent(left)
    ELSE Num(0)

\* The level of a list is not carried over.
ListOfNoLevel(type, level) ==
    IF type = Absent THEN Null ELSE Obj([kind |-> type, level |-> Num(0)])

ListOf(type, level) ==
    IF type = Absent THEN Null
    ELSE Obj([kind |-> type, level |-> IF level = Absent THEN Num(0) ELSE level])

Within(j, low, high) == Is(j, "number") /\ j.number >= low /\ j.number <= high
OrElse(j, value)     == IF j = Absent THEN value ELSE j

\* What a block's attrs and its paragraph style ask for.
Asked(attrs, style) ==
    [align   |-> FirstString(Field(attrs, "align"), Field(style, "alignment")),
     type    |-> FirstString(Field(attrs, "listType"), At(style, "list", "kind")),
     level   |-> FirstCount(Field(attrs, "listLevel"), At(style, "list", "level")),
     indent  |-> IndentOf(Field(attrs, "indentLevel"), Field(style, "indentLeft")),
     right   |-> FirstGiven(Field(attrs, "indentRight"), Field(style, "indentRight")),
     before  |-> FirstGiven(Field(attrs, "spacingBefore"), Field(style, "spaceBefore")),
     after   |-> FirstGiven(Field(attrs, "spacingAfter"), Field(style, "spaceAfter")),
     line    |-> FirstGiven(Field(attrs, "lineHeight"), Field(style, "lineHeight")),
     named   |-> FirstGiven(Field(attrs, "namedStyle"), Field(style, "name"))]

Presentable(asked) ==
    /\ asked.align \in {Absent, Str("left"), Str("center"), Str("right"), Str("justify")}
    /\ asked.type \in {Absent, Str("bullet"), Str("ordered")}
    /\ asked.level # Absent => asked.type # Absent /\ asked.level.number <= 200
    /\ asked.indent.number <= 200
    /\ \A f \in {"right", "before", "after"} : asked[f] = Absent \/ Within(asked[f], 0, 10000)
    /\ asked.line = Absent \/ Within(asked.line, 1, 100)

Presented(asked) ==
    Obj([align         |-> OrElse(asked.align, Str("left")),
         list          |-> ListOf(asked.type, asked.level),
         indentStart   |-> asked.indent,
         indentEnd     |-> OrElse(asked.right, Num(0)),
         spacingBefore |-> OrElse(asked.before, Num(0)),
         spacingAfter  |-> OrElse(asked.after, Num(0)),
         lineHeight    |-> OrElse(asked.line, Num(10)),
         namedStyle    |-> IF Is(asked.named, "string") THEN asked.named ELSE Null])

StructuredTypes == {Str(t) : t \in {"image", "table", "code", "todo", "link"}}
TextTypes ==
    {Str(t) : t \in {"paragraph", "heading", "quote", "callout", "divider", "page", "columns",
                     "column"}}

MigratedBlockData(kind, payload) ==
    IF ~Given(payload)
    THEN IF kind \in StructuredTypes THEN Refused ELSE Obj([type |-> Str("none")])
    ELSE IF ~Is(Field(payload, "type"), "string") THEN Refused
    ELSE IF Field(payload, "type") \in StructuredTypes
    THEN Obj([type |-> Field(payload, "type"), data |-> OrElse(Field(payload, "data"), Null)])
    ELSE IF kind \in TextTypes THEN Refused
    ELSE Obj([type |-> Str("extension"), data |-> Obj([typeId |-> kind, raw |-> payload])])

Stripped(block) ==
    Obj([k \in DOMAIN block.object \ {"attrs", "payload"} |-> block.object[k]])

MigratedV3Block(block) ==
    LET kind  == KindOf(block)
        attrs == Field(block, "attrs")
        asked == Asked(attrs, Field(attrs, "paragraphStyle"))
        data  == MigratedBlockData(kind, Field(block, "payload"))
    IN  IF \/ ~Is(block, "object")
           \/ Field(block, "presentation") # Absent \/ Field(block, "data") # Absent
           \/ ~Is(kind, "string")
           \/ Given(attrs) /\ ~Is(attrs, "object")
           \/ Given(attrs) /\ ~(DOMAIN attrs.object \subseteq AcceptedAttrs(kind))
           \/ ~Presentable(asked)
           \/ data = Refused
        THEN Refused
        ELSE With(With(Stripped(block), "presentation", Presented(asked)), "data", data)

\* A document with every block converted by the step of its version.
MigratedBlock(version, block) ==
    CASE version = 1 -> MigratedDocumentBlock(block)
      [] version = 2 -> MigratedV2Block(block)
      [] version = 3 -> MigratedV3Block(block)

WithBlocks(version, raw) ==
    LET blocks == Field(Data(raw), "blocks")
    IN  IF ~IsDocument(raw) THEN raw
        ELSE IF ~Is(blocks, "list") THEN Refused
        ELSE WithData(raw, Rewritten(Data(raw), "blocks",
                AllOf([i \in DOMAIN blocks.list |-> MigratedBlock(version, blocks.list[i])])))

--------------------------------------------------------------------------------
\* Schema 4 to 10: what later versions added.

OnlyDocuments(raw) == IF Field(raw, "kind") = Str("document") THEN raw ELSE Refused

Styled(node) ==
    IF ~Is(node, "object") THEN Refused
    ELSE Default(Default(node, "style", Obj([own |-> Bool(FALSE)])), "supplement",
                 Obj([own |-> Bool(FALSE)]))

StyledEdge(edge) ==
    IF ~Is(edge, "object") THEN Refused
    ELSE Default(Default(edge, "label", Null), "style", Obj([own |-> Bool(FALSE)]))

WithMindmapStyles(raw) ==
    LET data  == Data(raw)
        nodes == Field(data, "nodes")
        edges == Field(data, "edges")
    IN  IF Field(raw, "kind") # Str("mindmap") THEN raw
        ELSE IF ~Is(data, "object") \/ ~Is(nodes, "list") \/ ~Is(edges, "list") THEN Refused
        ELSE LET styled == AllOf([i \in DOMAIN nodes.list |-> Styled(nodes.list[i])])
                 lines  == AllOf([i \in DOMAIN edges.list |-> StyledEdge(edges.list[i])])
             IN  IF Refused \in {styled, lines} THEN Refused
                 ELSE WithData(raw, With(With(Default(data, "settings", Obj([own |-> Bool(FALSE)])),
                                              "nodes", styled), "edges", lines))

WithPageSemantics(raw) ==
    IF ~IsDocument(raw) THEN raw
    ELSE WithData(raw, Default(Data(raw), "pageSemantics", List(<<>>)))

WithNamedRanges(raw) ==
    LET metadata == Field(Data(raw), "metadata")
    IN  IF Field(raw, "kind") # Str("spreadsheet") THEN raw
        ELSE IF ~Is(metadata, "object") THEN Refused
        ELSE WithData(raw, With(Data(raw), "metadata", Default(metadata, "namedRanges", List(<<>>))))

\* The paragraphs of a text: each ends behind a line break or with the text.
LineEnds(text) ==
    {i \in 1 .. Len(text) : text[i] = "nl"} \cup (IF text = <<>> THEN {} ELSE {Len(text)})

ParagraphRanges(text) ==
    LET ends == SetToSortSeq(LineEnds(text), LAMBDA a, b : a < b)
    IN  [i \in 1 .. Cardinality(LineEnds(text)) |->
            [start |-> IF i = 1 THEN 0 ELSE ends[i - 1], end |-> ends[i]]]

ParagraphedText(content) ==
    LET text == Field(content, "text")
    IN  IF \/ text = Absent \/ Field(content, "runs") = Absent
           \/ Field(content, "paragraphs") # Absent
        THEN content
        ELSE IF ~Is(text, "string") THEN Refused
        ELSE With(content, "paragraphs", List(ParagraphRanges(text.string)))

TextFields == {"body", "content", "defaultText"}

\* Where the values of a JSON tree are: steps into the fields of an object, or into
\* the items of a list, <<"", i>>.  A text's ranges are not gone into.
MaxDepth == 128

IsRanges(j)  == Is(j, "list") /\ (j.list = <<>> \/ Is(j.list[1], "start"))
Into(j, step) == IF Is(j, "object") THEN j.object[step[1]] ELSE j.list[step[2]]
Reached(j, place) == FoldLeft(Into, j, place)

Steps(j) ==
    CASE Is(j, "object") -> {<<k, 0>> : k \in DOMAIN j.object}
      [] Is(j, "list") /\ ~IsRanges(j) -> {<<"", i>> : i \in DOMAIN j.list}
      [] OTHER -> {}

\* An extension keeps its data to itself.
StepsInside(j) ==
    IF Field(j, "type") = Str("extension") THEN Steps(j) \ {<<"data", 0>>} ELSE Steps(j)

Places(j) ==
    LET upto[n \in 0 .. MaxDepth] ==
            IF n = 0 THEN {<<>>}
            ELSE LET nearer == upto[n - 1]
                     found  == {p \in nearer : Len(p) = n - 1}
                 IN  nearer \cup UNION {{Append(p, s) : s \in StepsInside(Reached(j, p))} : p \in found}
    IN  upto[MaxDepth]

\* Every rich text gets paragraphs, but for what an extension keeps to itself.
Paragraphed(j) ==
    LET places == Places(j)
        text(step, new) ==
            IF step[1] \in TextFields /\ Is(new, "object") THEN ParagraphedText(new) ELSE new
        at[p \in places] ==
            LET here     == Reached(j, p)
                below(s) == IF s \in StepsInside(here) THEN text(s, at[Append(p, s)]) ELSE Into(here, s)
                refused  == \E s \in StepsInside(here) : below(s) = Refused
            IN  CASE Steps(here) = {} -> here
                  [] Steps(here) # {} /\ refused -> Refused
                  [] Steps(here) # {} /\ ~refused /\ Is(here, "object") ->
                        Obj([k \in DOMAIN here.object |-> below(<<k, 0>>)])
                  [] Steps(here) # {} /\ ~refused /\ Is(here, "list") ->
                        List([i \in DOMAIN here.list |-> below(<<"", i>>)])
    IN  at[<<>>]

WithParagraphs(raw) ==
    IF Field(raw, "kind") # Str("presentation") THEN raw
    ELSE IF Data(raw) = Absent THEN Refused
    ELSE WithData(raw, Paragraphed(Data(raw)))

WithGraphEntities(raw) ==
    LET data == Data(raw)
    IN  IF Field(raw, "kind") # Str("mindmap") THEN raw
        ELSE IF ~Is(data, "object") THEN Refused
        ELSE WithData(raw, Default(Default(Default(data, "summaries", List(<<>>)),
                                           "boundaries", List(<<>>)), "formulas", List(<<>>)))

--------------------------------------------------------------------------------
\* What the current schema accepts.

Suits(kind, data) ==
    LET type == Field(data, "type")
    IN  CASE kind \in StructuredTypes -> type = kind /\ Is(Field(data, "data"), "object")
          [] kind \in TextTypes       -> type = Str("none")
          [] kind \notin StructuredTypes \cup TextTypes ->
                /\ type = Str("extension")
                /\ At(data, "data", "typeId") = kind
                /\ kind # Str("extension")

BlockIsValid(block) ==
    /\ Is(block, "object")
    /\ DOMAIN block.object \subseteq {"id", "kind", "presentation", "content", "children", "data"}
    /\ Is(Field(block, "id"), "string") /\ Field(block, "id") # Str("")
    /\ Suits(KindOf(block), Field(block, "data"))

Tiles(paragraphs, length) ==
    IF length = 0 THEN paragraphs = <<>>
    ELSE /\ paragraphs # <<>>
         /\ paragraphs[1].start = 0 /\ paragraphs[Len(paragraphs)].end = length
         /\ \A i \in DOMAIN paragraphs : paragraphs[i].start < paragraphs[i].end
         /\ \A i \in 2 .. Len(paragraphs) : paragraphs[i].start = paragraphs[i - 1].end

\* A JSON deck's texts, outside of extensions.
TextsTile(j) ==
    \A p \in {q \in Places(j) : q # <<>> /\ {i \in DOMAIN q : q[i][1] \in TextFields} = {Len(q)}} :
        LET paragraphs == Field(Reached(j, p), "paragraphs")
        IN  /\ Is(paragraphs, "list")
            /\ Tiles(paragraphs.list, Len(Field(Reached(j, p), "text").string))

PayloadIsValid(kind, data) ==
    CASE kind = Str("document") ->
            LET blocks == Field(data, "blocks")
            IN  /\ Is(blocks, "list") /\ Field(data, "pageSemantics") # Absent
                /\ \A i \in DOMAIN blocks.list : BlockIsValid(blocks.list[i])
                /\ \A i, k \in DOMAIN blocks.list :
                      Field(blocks.list[i], "id") = Field(blocks.list[k], "id") => i = k
      [] kind = Str("mindmap") ->
            /\ Is(Field(data, "settings"), "object")
            /\ \A f \in {"nodes", "edges"} :
                  \A i \in DOMAIN Field(data, f).list :
                     Is(Field(Field(data, f).list[i], "style"), "object")
      [] kind = Str("spreadsheet") -> Is(Field(data, "metadata"), "object")
      [] kind = Str("presentation") -> Is(data, "deck") \/ (Is(data, "object") /\ TextsTile(data))
      [] OTHER -> FALSE

\* The envelope deserialises and validates.
IsCurrent(raw) ==
    /\ Is(raw, "object")
    /\ Field(raw, "format") = Str("open-office-artifact")
    /\ Field(raw, "schemaVersion") = Num(10 * CurrentVersion)
    /\ Is(Field(raw, "artifactId"), "string") /\ Field(raw, "artifactId") # Str("")
    /\ IsCount(Field(raw, "revision"))
    /\ Field(raw, "kind") = At(raw, "payload", "kind")
    /\ PayloadIsValid(Field(raw, "kind"), Data(raw))

--------------------------------------------------------------------------------
\* The chain.

Added(version, raw) ==
    CASE version \in {1, 2, 3} -> WithBlocks(version, raw)
      [] version = 4 -> OnlyDocuments(raw)
      [] version = 5 -> WithMindmapStyles(raw)
      [] version = 6 -> WithPageSemantics(raw)
      [] version = 7 -> WithNamedRanges(raw)
      [] version = 8 -> WithParagraphs(raw)
      [] version = 9 -> WithGraphEntities(raw)

NextVersion(version) == IF version = 1 THEN 3 ELSE version + 1

\* A step of the chain works on its own version: 1 and 2 both become 3.
Lifted(raw, version) ==
    IF Field(raw, "schemaVersion") # Num(10 * version) THEN raw
    ELSE Rewritten(Added(version, raw), "schemaVersion", Num(10 * NextVersion(version)))

VersionOf(raw) ==
    IF IsCount(Field(raw, "schemaVersion")) THEN Field(raw, "schemaVersion").number \div 10 ELSE 0

Validated(raw) == IF IsCurrent(raw) THEN raw ELSE Refused

\* From whichever version, the steps from there on.
Migrated(raw) ==
    LET past[version \in 0 .. CurrentVersion - 1] ==
            IF version = 0 THEN raw ELSE Lifted(past[version - 1], version)
    IN  IF VersionOf(raw) \in 1 .. CurrentVersion - 1
        THEN Validated(past[CurrentVersion - 1]) ELSE Refused
===============================================================================
