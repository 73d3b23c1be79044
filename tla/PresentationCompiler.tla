------------------------ MODULE PresentationCompiler ------------------------
(***************************************************************************)
(* The compiler of a version 4 Presentation: its scene graph, given by the *)
(* children of each element, becomes a Deck, whose nodes name their        *)
(* parent.  What a Deck cannot hold stays in an extension or is reported.  *)
(***************************************************************************)
EXTENDS SnapshotConversion

--------------------------------------------------------------------------------
\* What the retired schema accepted.

Distinct(ids) == "" \notin ToSet(ids) /\ IsInjective(ids)

ElementIds(slide)   == [i \in DOMAIN slide.elements |-> slide.elements[i].id]
Referenced(slide)   == UNION {ToSet(slide.elements[i].children) : i \in DOMAIN slide.elements}
ChildrenOf(slide, id) ==
    UNION {ToSet(slide.elements[i].children) :
              i \in {k \in DOMAIN slide.elements : slide.elements[k].id = id}}

\* The elements a walk from the given ones visits, and those on a cycle of theirs.
Visited(slide, ids) ==
    LET within[depth \in 0 .. Len(slide.elements)] ==
            IF depth = 0 THEN ids
            ELSE LET nearer == within[depth - 1]
                 IN  nearer \cup UNION {ChildrenOf(slide, id) : id \in nearer}
    IN  within[Len(slide.elements)]
OnCycle(slide, id)  == id \in Visited(slide, ChildrenOf(slide, id))

\* The walk starts at every element no other names, then at the first it missed.
Unvisited(slide) ==
    {i \in DOMAIN slide.elements :
        slide.elements[i].id \notin Visited(slide, ToSet(ElementIds(slide)) \ Referenced(slide))}

Starts(slide) ==
    (ToSet(ElementIds(slide)) \ Referenced(slide))
    \cup {slide.elements[i].id :
             i \in {k \in Unvisited(slide) : \A m \in Unvisited(slide) : k <= m}}

Owners(slide, id) == {o \in ToSet(ElementIds(slide)) : id \in ChildrenOf(slide, o)}

SceneIsValid(slide) ==
    /\ Distinct(ElementIds(slide))
    /\ \A i \in DOMAIN slide.elements :
          LET element == slide.elements[i]
          IN  /\ element.type # "" /\ element.width >= 0 /\ element.height >= 0
              /\ IsInjective(element.children)
              /\ ToSet(element.children) \subseteq ToSet(ElementIds(slide))
    /\ \A id \in Visited(slide, Starts(slide)) :
          /\ ~OnCycle(slide, id)
          /\ Cardinality(Owners(slide, id) \cap Visited(slide, Starts(slide))) <= 1

AnimationsAreValid(slide) ==
    /\ Distinct([i \in DOMAIN slide.animations |-> slide.animations[i].id])
    /\ \A i \in DOMAIN slide.animations :
          /\ slide.animations[i].target \in ToSet(ElementIds(slide))
          /\ slide.animations[i].effect # ""

IsCssColor(color) == "css" \in DOMAIN color \/ Len(color.hex) \in {3, 6, 8}

LegacyIsValid(legacy) ==
    /\ Distinct([i \in DOMAIN legacy.slides |-> legacy.slides[i].id])
    /\ \A i \in DOMAIN legacy.slides :
          SceneIsValid(legacy.slides[i]) /\ AnimationsAreValid(legacy.slides[i])
    /\ "id" \in DOMAIN legacy.theme =>
          /\ legacy.theme.id # ""
          /\ \A name \in DOMAIN legacy.theme.colors :
                name # "" /\ IsCssColor(legacy.theme.colors[name])

--------------------------------------------------------------------------------
\* Nodes.

Geometries ==
    [rect |-> "rectangle", rectangle |-> "rectangle", ellipse |-> "ellipse", oval |-> "ellipse",
     line |-> "line", arrow |-> "arrow", rightarrow |-> "arrow"]

\* A kind that is not a string counts as a rectangle.
ShapeKind(element) ==
    LET kind == Field(Obj(element.attrs), "shapeKind")
    IN  IF Is(kind, "string") THEN kind.string ELSE "rectangle"

IsExtension(element) ==
    CASE element.type = "shape" -> ShapeKind(element) \notin DOMAIN Geometries
      [] element.type = "text"  ->
            LET text == Field(Obj(element.attrs), "text")
            IN  text # Absent /\ ~Is(text, "string")
      [] OTHER -> element.type # "group"

PlainText(text) ==
    [text |-> text, runs |-> <<>>, paragraphs |-> ParagraphRanges(text)]

NodeKind(element) ==
    CASE IsExtension(element) ->
            [type |-> "extension", typeId |-> element.type, attrs |-> element.attrs,
             children |-> element.children]
      [] ~IsExtension(element) /\ element.type = "shape" ->
            [type |-> "shape", geometry |-> Geometries[ShapeKind(element)]]
      [] ~IsExtension(element) /\ element.type = "text" ->
            [type |-> "text",
             body |-> PlainText(IF "text" \in DOMAIN element.attrs
                                THEN element.attrs.text.string ELSE <<>>)]
      [] ~IsExtension(element) /\ element.type = "group" -> [type |-> "group"]

AcceptedAttr(element) ==
    CASE element.type = "shape" -> {"name", "shapeKind"}
      [] element.type = "text"  -> {"name", "text"}
      [] OTHER                  -> {"name"}

AttrLosses(element) ==
    IF IsExtension(element) THEN {}
    ELSE {[node |-> element.id, lost |-> k] : k \in DOMAIN element.attrs \ AcceptedAttr(element)}

NameOf(element) == FirstString(Field(Obj(element.attrs), "name"), Absent)

NameLosses(element) ==
    IF "name" \in DOMAIN element.attrs /\ NameOf(element) = Absent
    THEN {[node |-> element.id, lost |-> "name"]} ELSE {}

Dimension(n) == IF n > 0 THEN n ELSE 1

DimensionLosses(element) ==
    (IF element.width > 0 THEN {} ELSE {[node |-> element.id, lost |-> "width"]})
    \cup (IF element.height > 0 THEN {} ELSE {[node |-> element.id, lost |-> "height"]})

ParentOf(slide, id) ==
    IF Owners(slide, id) = {} THEN Absent ELSE Str(CHOOSE o \in Owners(slide, id) : TRUE)

NodeOf(slide, i) ==
    LET element == slide.elements[i]
    IN  [id |-> element.id, parent |-> ParentOf(slide, element.id), order |-> i,
         name |-> NameOf(element), kind |-> NodeKind(element), x |-> element.x,
         width |-> Dimension(element.width), height |-> Dimension(element.height)]

--------------------------------------------------------------------------------
\* Animations and the theme.

Presets ==
    [appear |-> "appear", fade |-> "fade", flyIn |-> "flyIn", flyin |-> "flyIn", wipe |-> "wipe"]

Playable(slide) == {i \in DOMAIN slide.animations : slide.animations[i].effect \in DOMAIN Presets}

\* Those played before one: by their order, those of one order as they were.
PlayedBefore(slide, k) ==
    {i \in Playable(slide) :
        \/ slide.animations[i].order < slide.animations[k].order
        \/ slide.animations[i].order = slide.animations[k].order /\ i < k}

Played(slide, n) ==
    CHOOSE k \in Playable(slide) : Cardinality(PlayedBefore(slide, k)) = n - 1

TimelineOf(slide) ==
    [n \in 1 .. Cardinality(Playable(slide)) |->
        LET animation == slide.animations[Played(slide, n)]
        IN  [id |-> animation.id, target |-> animation.target, order |-> n,
             preset |-> Presets[animation.effect], duration |-> animation.duration]]

\* An effect that is not known is lost, of another the trigger.
TimelineLosses(slide) ==
    {[node |-> slide.animations[i].id, lost |-> "effect"] : i \in DOMAIN slide.animations \ Playable(slide)}
    \cup {[node |-> slide.animations[i].id, lost |-> "trigger"] : i \in Playable(slide)}

ColorTokens == {"background", "text", "accent1", "hyperlink"}
FontTokens  == {"heading", "body"}

\* Digits of a colour; 16 stands for a character that is none.
IsHex(color) == "hex" \in DOMAIN color /\ \A i \in DOMAIN color.hex : color.hex[i] < 16
Byte(digits, i) == 16 * digits[i] + digits[i + 1]

Rgba(digits) ==
    IF Len(digits) = 3 THEN <<17 * digits[1], 17 * digits[2], 17 * digits[3], 255>>
    ELSE <<Byte(digits, 1), Byte(digits, 3), Byte(digits, 5),
           IF Len(digits) = 8 THEN Byte(digits, 7) ELSE 255>>

KeptColors(theme) == {n \in DOMAIN theme.colors \cap ColorTokens : IsHex(theme.colors[n])}

ThemeOf(theme) ==
    IF "id" \notin DOMAIN theme
    THEN [id |-> "migrated-default-theme", colors |-> <<>>, fonts |-> <<>>]
    ELSE [id |-> theme.id, colors |-> [n \in KeptColors(theme) |-> Rgba(theme.colors[n].hex)],
          fonts |-> [n \in DOMAIN theme.fonts \cap FontTokens |-> theme.fonts[n]]]

ThemeLosses(theme) ==
    IF "id" \notin DOMAIN theme THEN {[node |-> "deck", lost |-> "theme"]}
    ELSE {[node |-> "theme", lost |-> n] :
             n \in (DOMAIN theme.colors \ KeptColors(theme)) \cup (DOMAIN theme.fonts \ FontTokens)}

--------------------------------------------------------------------------------
\* The deck and its report.

DeckOf(legacy) ==
    [slides |-> [i \in DOMAIN legacy.slides |->
        LET slide == legacy.slides[i]
        IN  [id |-> slide.id, order |-> i, name |-> slide.name, notes |-> slide.notes,
             nodes |-> [k \in DOMAIN slide.elements |-> NodeOf(slide, k)],
             timeline |-> TimelineOf(slide)]],
     theme |-> ThemeOf(legacy.theme)]

ReportOf(legacy) ==
    LET slides   == ToSet(legacy.slides)
        elements == UNION {ToSet(s.elements) : s \in slides}
    IN  [extensions |-> {e.id : e \in {x \in elements : IsExtension(x)}},
         losses |-> {[node |-> "deck", lost |-> "pageSpec"]}
                    \cup ThemeLosses(legacy.theme)
                    \cup (UNION {TimelineLosses(s) : s \in slides})
                    \cup (UNION {AttrLosses(e) \cup NameLosses(e) \cup DimensionLosses(e) : e \in elements})]

MaxDuration == 600000

NodeIsValid(slide, node) ==
    /\ node.width > 0 /\ node.height > 0
    /\ Is(node.parent, "string") =>
          node.parent.string # node.id /\ \E k \in DOMAIN slide.nodes : slide.nodes[k].id = node.parent.string
    /\ "body" \in DOMAIN node.kind =>
          Tiles(node.kind.body.paragraphs, Len(node.kind.body.text))

\* Going from parent to parent ends.
Climbs(slide, id) ==
    LET above[steps \in 0 .. Len(slide.nodes)] ==
            IF steps = 0 THEN {id}
            ELSE LET below == above[steps - 1]
                     nodes == {n \in ToSet(slide.nodes) : n.id \in below /\ n.parent # Absent}
                 IN  {n.parent.string : n \in nodes}
    IN  above[Len(slide.nodes)] = {}

DeckSlideIsValid(slide) ==
    /\ Distinct([k \in DOMAIN slide.nodes |-> slide.nodes[k].id])
    /\ \A k \in DOMAIN slide.nodes : NodeIsValid(slide, slide.nodes[k])
    /\ \A k \in DOMAIN slide.nodes : Climbs(slide, slide.nodes[k].id)
    /\ \A k, m \in DOMAIN slide.nodes :
          slide.nodes[k].parent = slide.nodes[m].parent /\ slide.nodes[k].order = slide.nodes[m].order
          => k = m
    /\ Distinct([k \in DOMAIN slide.timeline |-> slide.timeline[k].id])
    /\ \A k \in DOMAIN slide.timeline :
          /\ slide.timeline[k].duration <= MaxDuration
          /\ \E m \in DOMAIN slide.nodes : slide.nodes[m].id = slide.timeline[k].target

DeckIsValid(deck) ==
    /\ deck.theme.id # "" /\ \A n \in DOMAIN deck.theme.fonts : deck.theme.fonts[n] # ""
    /\ Distinct([i \in DOMAIN deck.slides |-> deck.slides[i].id])
    /\ \A i \in DOMAIN deck.slides : DeckSlideIsValid(deck.slides[i])

OneParentEach(legacy) ==
    \A i \in DOMAIN legacy.slides : \A id \in Referenced(legacy.slides[i]) :
        Cardinality(Owners(legacy.slides[i], id)) = 1

Staged(raw, deck, report) ==
    [artifact |-> Field(raw, "artifactId"), revision |-> Field(raw, "revision"),
     deck |-> deck, report |-> report]

CompiledLegacy(raw, legacy) ==
    IF LegacyIsValid(legacy) /\ OneParentEach(legacy) /\ DeckIsValid(DeckOf(legacy))
    THEN Staged(raw, DeckOf(legacy), ReportOf(legacy))
    ELSE Refused

IsPresentation(raw) ==
    /\ Field(raw, "kind") = Str("presentation")
    /\ At(raw, "payload", "kind") = Str("presentation")

LooksLikeV4Presentation(raw) == Field(raw, "schemaVersion") = Num(40) /\ IsPresentation(raw)

Compiled(raw) ==
    IF /\ Field(raw, "format") = Str("open-office-artifact")
       /\ LooksLikeV4Presentation(raw)
       /\ Is(Field(raw, "artifactId"), "string") /\ Field(raw, "artifactId") # Str("")
       /\ IsCount(Field(raw, "revision"))
       /\ Is(Data(raw), "legacy")
    THEN CompiledLegacy(raw, Data(raw).legacy)
    ELSE Refused

\* The envelope of a staged deck.
Materialized(staged) ==
    Obj([format |-> Str("open-office-artifact"), schemaVersion |-> Num(10 * CurrentVersion),
         artifactId |-> staged.artifact, revision |-> staged.revision,
         kind |-> Str("presentation"),
         payload |-> Obj([kind |-> Str("presentation"), data |-> [deck |-> staged.deck]])])
=============================================================================
