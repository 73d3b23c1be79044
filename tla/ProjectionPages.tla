----------------------------- MODULE ProjectionPages -----------------------------
(***************************************************************************)
(* Reading an Artifact without its snapshot: outlines, tables of contents, *)
(* block listings and slide lists come in pages, under a limit and a byte  *)
(* budget, and a cursor "revision:offset" leads to the next one; print     *)
(* sections, overviews and sheet lists come whole.  Every request loads    *)
(* the newest snapshot, so that commits fall between two pages.  A reader  *)
(* follows the cursors, starts again when one has expired and raises its   *)
(* budget when a page does not fit it.                                     *)
(*                                                                         *)
(* Bytes are the sizes of the items, one for the cursor of the request and *)
(* one for the next.  A heading's text is its id.                          *)
(***************************************************************************)
EXTENDS Naturals, Sequences, SequencesExt, FiniteSets

CONSTANTS
    Bodies,        \* the contents a snapshot may have, with their kind
    Views,         \* what a reader asks for: [route, parent, limit]
    Budgets,       \* a reader's budgets, each larger than the one before
    MaxRevision,   \* bound on the Artifact's revisions
    MaxBytes,      \* MAX_MAX_BYTES
    MaxItems,      \* MAX_BLOCK_LIMIT, MAX_PRESENTATION_SLIDE_LIMIT
    None

VARIABLES
    bodies,      \* the committed snapshots: the n-th is revision n
    view,        \* what the reader asks for
    after,       \* the cursor of its next request, or None
    budget,      \* which of its budgets it uses
    collected,   \* the items it has, all of revision `of`
    of,
    reading,     \* "more", "all", or why it gave up
    held,        \* the last answer it keeps, with its ETag and its request
    looked       \* its last read of a single block or node

vars == <<bodies, view, after, budget, collected, of, reading, held, looked>>

revision == Len(bodies)

--------------------------------------------------------------------------------
(* What a projection lists.                                                     *)

Ids(doc) == {b.id : b \in ToSet(doc.blocks)}
BlockOf(doc, id) == CHOOSE b \in ToSet(doc.blocks) : b.id = id

\* Headings of the level and above end: their place in the path is taken.
PathAt(block, path) ==
    IF block.level = 0 THEN path
    ELSE Append(SubSeq(path, 1, IF block.level - 1 < Len(path) THEN block.level - 1 ELSE Len(path)),
                block.id)

Meta(id, parent, order, path) == [id |-> id, parent |-> parent, order |-> order, path |-> path]

\* The places of a document's lists of children: the owner, None for the roots, and
\* the index.
Listed(doc) ==
    {<<None, i>> : i \in DOMAIN doc.root}
    \cup UNION {{<<b.id, i>> : i \in DOMAIN b.children} : b \in ToSet(doc.blocks)}

\* A block, what is below it, what follows it.  Blocks that are missing, and at a walk
\* that visits each once those it has visited, are passed over.
Visit(doc, once, walk) ==
    LET m    == Head(walk.pending)
        b    == BlockOf(doc, m.id)
        path == PathAt(b, m.path)
    IN  IF walk.pending = <<>> THEN walk
        ELSE IF m.id \notin Ids(doc) \/ (once /\ \E o \in ToSet(walk.out) : o.id = m.id)
        THEN [walk EXCEPT !.pending = Tail(@)]
        ELSE [pending |-> [i \in DOMAIN b.children |-> Meta(b.children[i], m.id, i, path)]
                              \o Tail(walk.pending),
              out     |-> Append(walk.out, [m EXCEPT !.path = path])]

\* collect_block_meta_recursive, from the roots: each place is come to once.
Walk(doc, once) ==
    LET walk[n \in 0 .. Cardinality(Listed(doc))] ==
            IF n = 0
            THEN [pending |-> [i \in DOMAIN doc.root |-> Meta(doc.root[i], None, i, <<>>)],
                  out     |-> <<>>]
            ELSE Visit(doc, once, walk[n - 1])
    IN  walk[Cardinality(Listed(doc))].out

\* The members of a set of numbers, ascending.
Ascending(S) ==
    [n \in 1 .. Cardinality(S) |-> CHOOSE x \in S : Cardinality({y \in S : y < x}) = n - 1]

\* What s has of T, in its order.
Only(s, T) ==
    LET at == Ascending({i \in DOMAIN s : s[i] \in T}) IN [n \in DOMAIN at |-> s[at[n]]]

\* collect_block_meta: the roots, then blocks nothing leads to.
BlockMetas(doc) ==
    LET rooted == Walk(doc, TRUE)
        all    == [i \in DOMAIN doc.blocks |-> Meta(doc.blocks[i].id, None, i, <<>>)]
    IN  rooted \o Only(all, {m \in ToSet(all) : \A r \in ToSet(rooted) : r.id # m.id})

\* table_of_contents: the headings that have content, by a walk of its own.
TableOfContents(doc) ==
    LET walked   == Walk(doc, FALSE)
        headings == Only(walked, {m \in ToSet(walked) : /\ BlockOf(doc, m.id).level > 0
                                                        /\ BlockOf(doc, m.id).content})
    IN  [i \in DOMAIN headings |->
            [id |-> headings[i].id, level |-> BlockOf(doc, headings[i].id).level]]

\* document_print_projection: a section takes the roots up to the next one's start.
PrintSections(doc) ==
    LET start(i) == CHOOSE n \in DOMAIN doc.root : doc.root[n] = doc.starts[i]
        end(i)   == IF i = Len(doc.starts) THEN Len(doc.root) ELSE start(i + 1) - 1
    IN  IF doc.starts = <<>> THEN <<[id |-> None, roots |-> doc.root]>>
        ELSE [i \in DOMAIN doc.starts |->
                 [id |-> doc.starts[i], roots |-> SubSeq(doc.root, start(i), end(i))]]

\* presentation_overview: counts, and the masters and layouts in full.
Overview(deck) ==
    <<[id |-> "deck", slides |-> Len(deck.slides), masters |-> deck.masters,
       layouts |-> deck.layouts]>>

SlideOutline(slide) == [id |-> slide.id, nodes |-> Len(slide.nodes)]

Kinds  == {"document", "presentation", "spreadsheet"}
Routes == {"outline", "toc", "blocks", "documentPrint", "slides", "overview", "sheets", "unknown"}

ReadKind(route) ==
    CASE route \in {"outline", "toc", "blocks", "documentPrint"} -> "document"
      [] route \in {"slides", "overview"} -> "presentation"
      [] route = "sheets" -> "spreadsheet"
      [] route = "unknown" -> None

Listing(v, body) ==
    CASE v.route = "outline" -> BlockMetas(body)
      [] v.route = "blocks" ->
           LET metas == BlockMetas(body)
           IN  Only(metas, {m \in ToSet(metas) : v.parent # None => m.parent = v.parent})
      [] v.route = "toc" -> TableOfContents(body)
      [] v.route = "documentPrint" -> PrintSections(body)
      [] v.route = "slides" -> [i \in DOMAIN body.slides |-> SlideOutline(body.slides[i])]
      [] v.route = "overview" -> Overview(body)
      [] v.route = "sheets" -> [i \in DOMAIN body.sheets |-> [id |-> body.sheets[i]]]

--------------------------------------------------------------------------------
(* What the schema guarantees of a snapshot.                                    *)

IsSeq(s) == s \in Seq(ToSet(s))

\* With a block its children.
ClosedUnder(doc, S) == \A b \in ToSet(doc.blocks) : b.id \in S => ToSet(b.children) \subseteq S

ListedId(doc, p) ==
    IF p[1] = None THEN doc.root[p[2]] ELSE BlockOf(doc, p[1]).children[p[2]]

\* DocumentModel::validate: blocks that differ in their ids, references to them, each
\* listed once, each reached from the roots; sections that start at roots, in their order,
\* the first one at the first.
IsForest(doc) ==
    /\ IsSeq(doc.blocks)
    /\ \A i, j \in DOMAIN doc.blocks : doc.blocks[i].id = doc.blocks[j].id => i = j
    /\ None \notin Ids(doc)
    /\ \A s \in {doc.root} \cup {b.children : b \in ToSet(doc.blocks)} :
          IsSeq(s) /\ ToSet(s) \subseteq Ids(doc)
    /\ \A b \in ToSet(doc.blocks) : b.level \in Nat
    /\ \A p, q \in Listed(doc) : ListedId(doc, p) = ListedId(doc, q) => p = q
    /\ \A S \in SUBSET Ids(doc) : ToSet(doc.root) \subseteq S /\ ClosedUnder(doc, S) => S = Ids(doc)
    /\ IsSeq(doc.starts)
    /\ doc.starts # <<>> => \E at \in [DOMAIN doc.starts -> DOMAIN doc.root] :
          /\ at[1] = 1
          /\ \A i, j \in DOMAIN at : i < j => at[i] < at[j]
          /\ \A i \in DOMAIN at : doc.root[at[i]] = doc.starts[i]

\* PresentationModel::validate: ids that differ, parents that exist, and siblings with
\* orderKeys that differ.
IsDeck(deck) ==
    /\ IsSeq(deck.slides)
    /\ \A i, j \in DOMAIN deck.slides : deck.slides[i].id = deck.slides[j].id => i = j
    /\ \A slide \in ToSet(deck.slides) :
          /\ IsSeq(slide.nodes)
          /\ \A m, n \in ToSet(slide.nodes) :
                m.id = n.id \/ (m.parent = n.parent /\ m.key = n.key) => m = n
          /\ \A n \in ToSet(slide.nodes) :
                /\ n.key \in Nat
                /\ n.id # None
                /\ n.parent # None => \E p \in ToSet(slide.nodes) : p.id = n.parent

PageConstants ==
    /\ MaxRevision \in Nat \ {0}
    /\ MaxBytes \in Nat /\ MaxItems \in Nat
    /\ None \notin Nat \cup (Nat \X Nat) \cup Kinds
    /\ \A b \in Bodies :
          /\ b.kind \in Kinds
          /\ b.kind = "document" => IsForest(b)
          /\ b.kind = "presentation" => IsDeck(b)
          /\ b.kind = "spreadsheet" => IsSeq(b.sheets)
    /\ \A v \in Views : v.route \in Routes /\ v.limit \in Nat
    /\ IsSeq(Budgets) /\ Budgets # <<>> /\ \A i \in DOMAIN Budgets : Budgets[i] \in Nat \ {0}

--------------------------------------------------------------------------------
(* The pages of a listing.                                                      *)

Size(item) == IF "path" \in DOMAIN item THEN 1 + Len(item.path) ELSE 1
Bytes(items) ==
    LET total[n \in 0 .. Len(items)] == IF n = 0 THEN 0 ELSE total[n - 1] + Size(items[n])
    IN  total[Len(items)]

\* projection_envelope with the first n items behind start.
Cost(items, start, n, cursor) ==
    Bytes(SubSeq(items, start + 1, start + n))
    + (IF start + n < Len(items) THEN 1 ELSE 0) + (IF cursor # None THEN 1 ELSE 0)

Paged(route) == route \in {"outline", "toc", "blocks", "slides"}

\* Broken: a cursor of any revision will do.
StartOfAny(cursor, r) == IF cursor = None THEN 0 ELSE cursor[2]

\* parse_cursor
StartOf(cursor, r) ==
    IF cursor = None THEN 0
    ELSE IF cursor[1] # r THEN None
    ELSE cursor[2]

\* How many items there are room for.  A block listing is not cut to the budget; the
\* others stop before the first item that would exceed it, with its own cursor.
Room(v, items, start) ==
    LET rest == Len(items) - start
    IN  IF v.route = "outline" \/ rest < v.limit THEN rest ELSE v.limit
Taken(v, items, start, cursor, bytes) ==
    LET room == Room(v, items, start)
    IN  IF v.route = "blocks" THEN room
        ELSE CHOOSE n \in 0 .. room :
                 /\ \A m \in 1 .. n : Cost(items, start, m, cursor) <= bytes
                 /\ n < room => Cost(items, start, n + 1, cursor) > bytes

TooLarge(v, items, start, cursor, bytes) ==
    IF v.route = "blocks" THEN Cost(items, start, Room(v, items, start), cursor) > bytes
    ELSE Room(v, items, start) > 0 /\ Taken(v, items, start, cursor, bytes) = 0

Refuse(why) == [status |-> why]
\* The items after start, and the cursor to those after them.
Envelope(r, items, start, n) ==
    [status |-> "ok", revision |-> r, items |-> SubSeq(items, start + 1, start + n),
     next |-> IF start + n < Len(items) THEN <<r, start + n>> ELSE None]

PageFrom(r, v, items, cursor, bytes, start) ==
    IF start = None THEN Refuse("expired")
    ELSE IF start > Len(items) THEN Refuse("outOfRange")
    ELSE IF TooLarge(v, items, start, cursor, bytes) THEN Refuse("tooLarge")
    ELSE Envelope(r, items, start, Taken(v, items, start, cursor, bytes))

\* A projection route: the parameters, the snapshot, its kind, the cursor.  What is
\* sent whole takes no budget.
RespondAt(r, v, cursor, bytes) ==
    LET body == bodies[r]
    IN  IF Paged(v.route) /\ bytes > MaxBytes THEN Refuse("badRequest")
        ELSE IF Paged(v.route) /\ v.route # "outline" /\ v.limit \notin 1 .. MaxItems
             THEN Refuse("badRequest")
        ELSE IF ReadKind(v.route) = None THEN Refuse("badRequest")
        ELSE IF ReadKind(v.route) # body.kind THEN Refuse("unsupported")
        ELSE IF Paged(v.route)
             THEN PageFrom(r, v, Listing(v, body), cursor, bytes, StartOf(cursor, r))
        ELSE Envelope(r, Listing(v, body), 0, Len(Listing(v, body)))

Respond(v, cursor, bytes) == RespondAt(revision, v, cursor, bytes)

--------------------------------------------------------------------------------
Init ==
    /\ \E b \in Bodies : bodies = <<b>>
    /\ view \in Views
    /\ after = None
    /\ budget = 1
    /\ collected = <<>>
    /\ of = 0
    /\ reading = "more"
    /\ held = None
    /\ looked = None

Commit ==
    /\ revision < MaxRevision
    /\ \E b \in Bodies :
          /\ b.kind = bodies[1].kind /\ b # bodies[revision]
          /\ bodies' = Append(bodies, b)
    /\ UNCHANGED <<view, after, budget, collected, of, reading, held, looked>>

Take(answer) ==
    /\ answer.status = "ok"
    /\ collected' = collected \o answer.items
    /\ of' = answer.revision
    /\ after' = answer.next
    /\ reading' = IF answer.next = None THEN "all" ELSE "more"
    /\ held' = [cursor |-> after, bytes |-> Budgets[budget], answer |-> answer]
    /\ UNCHANGED <<budget, looked>>

StartAgain(answer) ==
    /\ answer.status = "expired"
    /\ collected' = <<>> /\ of' = 0 /\ after' = None /\ held' = None /\ looked' = None
    /\ UNCHANGED <<budget, reading>>

\* The error names the cursor, so that the page is asked for again.
AskForMore(answer) ==
    /\ answer.status = "tooLarge" /\ budget < Len(Budgets)
    /\ budget' = budget + 1
    /\ UNCHANGED <<collected, of, after, reading, held, looked>>

GiveUp(answer) ==
    /\ \/ answer.status \in {"badRequest", "unsupported", "outOfRange"}
       \/ answer.status = "tooLarge" /\ budget = Len(Budgets)
    /\ reading' = answer.status
    /\ UNCHANGED <<collected, of, after, budget, held, looked>>

Read ==
    /\ reading = "more"
    /\ LET answer == Respond(view, after, Budgets[budget])
       IN  Take(answer) \/ StartAgain(answer) \/ AskForMore(answer) \/ GiveUp(answer)
    /\ UNCHANGED <<bodies, view>>

\* Routes whose answers carry the revision as an ETag.
Tagged(route) == ~Paged(route) \/ route = "slides"

\* projection_response: the budget and the cursor are judged, then nothing is sent to
\* a reader that names this revision.
Recheck ==
    /\ held # None /\ Tagged(view.route)
    /\ LET answer == Respond(view, held.cursor, held.bytes)
       IN  \/ /\ answer.status = "ok" /\ answer.revision = held.answer.revision
              /\ UNCHANGED held
           \/ /\ answer.status = "ok" /\ answer.revision # held.answer.revision
              /\ held' = [held EXCEPT !.answer = answer]
           \/ answer.status # "ok" /\ held' = None
    /\ UNCHANGED <<bodies, view, after, budget, collected, of, reading, looked>>

\* children, by parentId and orderKey.
ChildNodes(slide, id) ==
    LET mine == {n \in ToSet(slide.nodes) : n.parent = id}
        keys == Ascending({n.key : n \in mine})
    IN  [i \in DOMAIN keys |-> (CHOOSE n \in mine : n.key = keys[i]).id]

\* block: what the listings say of one block.
BlockRead(body, id, bytes) ==
    LET found == {m \in ToSet(BlockMetas(body)) : m.id = id}
        item  == CHOOSE m \in found : TRUE
    IN  IF found = {} THEN Refuse("missing")
        ELSE IF Size(item) > bytes THEN Refuse("tooLarge")
        ELSE [status |-> "ok", revision |-> revision, item |-> item]

\* presentation_slide with its nodes, and presentation_node for each.
SlideRead(body, id, bytes) ==
    IF \A s \in ToSet(body.slides) : s.id # id THEN Refuse("missing")
    ELSE LET slide == CHOOSE s \in ToSet(body.slides) : s.id = id
         IN  IF 1 + Len(slide.nodes) > bytes THEN Refuse("tooLarge")
             ELSE [status |-> "ok", revision |-> revision, item |-> SlideOutline(slide),
                   nodes |-> [i \in DOMAIN slide.nodes |->
                                 [id |-> slide.nodes[i].id,
                                  children |-> ChildNodes(slide, slide.nodes[i].id)]]]

LookUp ==
    /\ view.route \in {"outline", "blocks", "slides"}
    /\ \E i \in DOMAIN collected :
          LET id == collected[i].id
          IN  looked' = [id |-> id,
                         answer |-> IF view.route = "slides"
                                    THEN SlideRead(bodies[revision], id, Budgets[budget])
                                    ELSE BlockRead(bodies[revision], id, Budgets[budget])]
    /\ UNCHANGED <<bodies, view, after, budget, collected, of, reading, held>>

Next == Commit \/ Read \/ Recheck \/ LookUp

Spec == Init /\ [][Next]_vars

--------------------------------------------------------------------------------
TypeOK ==
    /\ bodies \in Seq(Bodies) /\ revision \in 1 .. MaxRevision
    /\ view \in Views
    /\ after = None \/ after \in (1 .. MaxRevision) \X Nat
    /\ budget \in DOMAIN Budgets
    /\ of \in 0 .. revision
    /\ reading \in {"more", "all", "badRequest", "unsupported", "outOfRange", "tooLarge"}

\* x is below a: it is in every set of blocks that has a's children and the children
\* of its members.
IsUnder(doc, x, a) ==
    \A S \in SUBSET Ids(doc) :
        ToSet(BlockOf(doc, a).children) \subseteq S /\ ClosedUnder(doc, S) => x \in S

Wanted(v, body) ==
    CASE v.route = "toc" -> {b.id : b \in {c \in ToSet(body.blocks) : c.level > 0 /\ c.content}}
      [] v.route = "blocks" /\ v.parent # None ->
           UNION {ToSet(b.children) : b \in {c \in ToSet(body.blocks) : c.id = v.parent}}
      [] OTHER -> Ids(body)

\* x is, or is below, an earlier sibling of y or of something y is below.
Precedes(doc, x, y) ==
    \E kids \in {doc.root} \cup {b.children : b \in ToSet(doc.blocks)} :
       \E i, j \in DOMAIN kids :
          /\ i < j
          /\ x = kids[i] \/ IsUnder(doc, x, kids[i])
          /\ y = kids[j] \/ IsUnder(doc, y, kids[j])

\* The order of a document: a block before what is below it, and before whatever
\* follows it or something it is below among their siblings.
Before(doc, x, y) == IsUnder(doc, y, x) \/ Precedes(doc, x, y)

ReadsADocument(doc, items) ==
    /\ {items[i].id : i \in DOMAIN items} = Wanted(view, doc)
    /\ \A i, j \in DOMAIN items : i < j => Before(doc, items[i].id, items[j].id)
    /\ \A i \in DOMAIN items : "path" \in DOMAIN items[i] =>
          LET path == items[i].path
          IN  /\ \A h \in DOMAIN path :
                    /\ BlockOf(doc, path[h]).level > 0
                    /\ path[h] = items[i].id \/ IsUnder(doc, items[i].id, path[h])
              /\ \A h, k \in DOMAIN path : h < k => IsUnder(doc, path[k], path[h])

\* What a reader has put together from the pages is one revision, whole and in
\* order, whatever was committed between them: every block, heading, child of the
\* asked-for parent or slide once, a block's headings outermost first; sections
\* that make up the document.  A page keeps to its budget and limit.  A kept answer
\* that the revision confirms is what would have been sent, and a read of one item
\* agrees with the list it came from.
PagesCoverTheDocument ==
    /\ reading = "all" =>
          LET body == bodies[of]
          IN  CASE view.route \in {"outline", "toc", "blocks"} -> ReadsADocument(body, collected)
                [] view.route = "documentPrint" ->
                     FlattenSeq([i \in DOMAIN collected |-> collected[i].roots]) = body.root
                [] view.route = "slides" ->
                     [i \in DOMAIN collected |-> collected[i].id]
                         = [i \in DOMAIN body.slides |-> body.slides[i].id]
                [] view.route = "sheets" ->
                     [i \in DOMAIN collected |-> collected[i].id] = body.sheets
                [] OTHER -> Len(collected) = 1
    /\ held # None /\ Paged(view.route) =>
          /\ Bytes(held.answer.items) + Cardinality({held.cursor, held.answer.next} \ {None})
                <= held.bytes
          /\ view.route # "outline" => Len(held.answer.items) <= view.limit
    /\ held # None /\ held.answer.revision = revision =>
          held.answer = Respond(view, held.cursor, held.bytes)
    /\ looked # None =>
          IF looked.answer.status = "ok" /\ looked.answer.revision = of
          THEN looked.answer.item \in ToSet(collected)
          ELSE looked.answer.status = "missing" => of < revision
    /\ looked # None /\ view.route = "slides" /\ looked.answer.status = "ok" =>
          LET nodes == looked.answer.nodes
              slide == CHOOSE s \in ToSet(bodies[looked.answer.revision].slides) : s.id = looked.id
          IN  \A n \in ToSet(slide.nodes) :
                 n.parent # None <=>
                    \E p \in ToSet(nodes) : p.id = n.parent /\ n.id \in ToSet(p.children)

================================================================================
