----------------------------- MODULE MindmapEngine -----------------------------
(***************************************************************************)
(* The mindmap engine: one rooted tree of nodes kept as a linear vector,   *)
(* and the edges, summaries, boundaries and formulas that refer to nodes.  *)
(* A batch folds its commands over a copy of the map, records an inverse   *)
(* per command, validates the result and commits it; undo replays the      *)
(* inverses backwards, redo runs the commands again.                       *)
(*                                                                         *)
(* Everything a node carries besides its place is one value; so is         *)
(* everything a link carries besides the nodes it names.                   *)
(***************************************************************************)
EXTENDS Naturals, SequencesExt

CONSTANTS
    NodeIds,      \* node ids the commands use
    LinkIds,      \* ids of edges, summaries, boundaries and formulas
    Ends,         \* pairs of nodes the commands put in a link
    Places,       \* sibling indices the commands use
    Imports,      \* the maps an engine is created with
    MaxCommands,  \* bound: commands in the open batch and in the journal
    None          \* no parent, no root

VARIABLES
    model,     \* the committed map
    draft,     \* the copy the open batch works on
    cmds,      \* commands of the open batch so far
    inverses,  \* their inverses, in order
    undo,      \* journal; before and after are auxiliary: the map around the batch
    redo,      \* entries an undo took off the journal
    changed    \* entities the open batch, or the last step that changed the map, names

vars == <<model, draft, cmds, inverses, undo, redo, changed>>

\* A boundary and a formula name one node: from = to.
LinkKinds == {"edge", "summary", "boundary", "formula"}
Ranged    == {"edge", "summary"}

----------------------------------------------------------------------------
(* Reading a map *)

Ids(s)         == {s[i].id : i \in DOMAIN s}
Pos(s, id)     == CHOOSE i \in DOMAIN s : s[i].id = id
Get(s, id)     == s[Pos(s, id)]
Children(m, p) == SelectSeq(m.nodes, LAMBDA n : n.parent = p)
Links(m)       == UNION {Ids(m.links[k]) : k \in LinkKinds}

\* A node and its descendants, depth first, in sibling order.
Preorder(m, id) ==
    LET from[d \in 0..Len(m.nodes), x \in Ids(m.nodes)] ==
            <<x>> \o IF d = 0 THEN << >>
                     ELSE LET kids == Children(m, x)
                          IN  FlattenSeq([i \in DOMAIN kids |-> from[d - 1, kids[i].id]])
    IN  from[Len(m.nodes), id]

Subtree(m, id) == ToSet(Preorder(m, id))

\* Both ends exist, are different children of one node, and stand in order.
SummaryValid(m, s) ==
    /\ {s.from, s.to} \subseteq Ids(m.nodes)
    /\ Get(m.nodes, s.from).parent # None
    /\ Get(m.nodes, s.from).parent = Get(m.nodes, s.to).parent
    /\ Pos(m.nodes, s.from) < Pos(m.nodes, s.to)

LinkValid(m, k, l) ==
    IF k = "summary" THEN SummaryValid(m, l)
    ELSE /\ {l.from, l.to} \subseteq Ids(m.nodes)
         /\ k = "edge" => l.from # l.to

AllIds(m) == [i \in DOMAIN m.nodes |-> m.nodes[i].id]
             \o FlattenSeq([k \in 1..4 |->
                    LET s == m.links[<<"edge", "summary", "boundary", "formula">>[k]]
                    IN  [i \in DOMAIN s |-> s[i].id]])

Valid(m) ==
    /\ IsInjective(AllIds(m))
    /\ \A k \in LinkKinds : \A i \in DOMAIN m.links[k] : LinkValid(m, k, m.links[k][i])
    /\ IF m.nodes = << >> THEN m.root = None
       ELSE /\ m.root \in Ids(m.nodes)
            /\ \A i \in DOMAIN m.nodes :
                 IF m.nodes[i].id = m.root THEN m.nodes[i].parent = None
                 ELSE m.nodes[i].parent \in Ids(m.nodes)
            \* acyclic: everything hangs under the root
            /\ Subtree(m, m.root) = Ids(m.nodes)

----------------------------------------------------------------------------
(* Results of a command: the new map, its inverses and the entities it names *)
(* in the change set, or a refusal                                           *)

Done(m, inv, ents) == [ok |-> TRUE, model |-> m, inv |-> inv, ents |-> ents]
Refused            == [ok |-> FALSE]

Node(id) == <<"node", id>>

\* A link, and the nodes it names unless it is an edge.
Touched(k, l) == {<<k, l.id>>} \cup IF k = "edge" THEN {} ELSE {Node(l.from), Node(l.to)}

Retargeted(k, old, new) ==
    {<<k, new.id>>} \cup IF old.from = new.from /\ old.to = new.to THEN {}
                        ELSE Touched(k, old) \cup Touched(k, new)

Without(s, ids)     == SelectSeq(s, LAMBDA x : x.id \notin ids)
InsertSeq(s, at, t) == SubSeq(s, 1, at) \o t \o SubSeq(s, at + 1, Len(s))
Clip(i, s)          == IF i > Len(s) THEN Len(s) ELSE i

\* Entries with the places (counted from 0) they had in s.
Placed(s, Test(_)) ==
    LET at == SelectSeq([i \in DOMAIN s |-> i], LAMBDA i : Test(s[i]))
    IN  [j \in DOMAIN at |-> [at |-> at[j] - 1, item |-> s[at[j]]]]

\* Where a child lands: after the whole subtree of the sibling before its index.
\* The code reads siblings[index - 1] with a saturating subtraction, so index 0
\* of a node that has children also looks at the first child.
CanInsert(m, p, index) == index <= Len(Children(m, p))
InsertionIndex(m, p, index) ==
    LET kids == Children(m, p)
        prev == IF index = 0 THEN 1 ELSE index
    IN  IF prev <= Len(kids)
        THEN CHOOSE i \in {Pos(m.nodes, x) : x \in Subtree(m, kids[prev].id)} :
                \A x \in Subtree(m, kids[prev].id) : Pos(m.nodes, x) <= i
        ELSE IF p = None THEN Len(m.nodes) ELSE Pos(m.nodes, p)

AddNodeTo(m, c) ==
    IF \/ c.id \in Ids(m.nodes)
       \/ IF c.parent = None THEN m.nodes # << >> ELSE c.parent \notin Ids(m.nodes)
       \/ ~CanInsert(m, c.parent, c.index)
    THEN Refused
    ELSE LET node == [id |-> c.id, parent |-> c.parent, data |-> 0, collapsed |-> FALSE]
         IN  Done([m EXCEPT !.nodes = InsertSeq(@, InsertionIndex(m, c.parent, c.index), <<node>>),
                            !.root  = IF c.parent = None THEN c.id ELSE @],
                  << [op |-> "RemoveNode", id |-> c.id] >>, {Node(c.id)})

\* UpdateNode, ReplaceNodeText, PatchNodeTextRange, SetNodeStyle, SetNodeSupplement
SetNodeIn(m, c) ==
    IF c.id \notin Ids(m.nodes) THEN Refused
    ELSE Done([m EXCEPT !.nodes[Pos(m.nodes, c.id)].data = c.data],
              << [op |-> "RestoreNode", node |-> Get(m.nodes, c.id)] >>, {Node(c.id)})

SetCollapsedIn(m, c) ==
    IF c.id \notin Ids(m.nodes) THEN Refused
    ELSE Done([m EXCEPT !.nodes[Pos(m.nodes, c.id)].collapsed = c.collapsed],
              << [op |-> "RestoreCollapsed", id |-> c.id,
                  collapsed |-> Get(m.nodes, c.id).collapsed] >>, {Node(c.id)})

SetSettingsIn(m, c) ==
    Done([m EXCEPT !.settings = c.data],
         << [op |-> "RestoreSettings", settings |-> m.settings] >>, {})

\* An edge is checked against the edges and the nodes; the other kinds only
\* against the ids in use, their references when the batch is validated.
AddLinkTo(m, c) ==
    IF IF c.kind = "edge"
       THEN \/ c.link.id \in Ids(m.links["edge"])
            \/ ~LinkValid(m, "edge", c.link)
       ELSE c.link.id \in Ids(m.nodes) \cup Links(m)
    THEN Refused
    ELSE Done([m EXCEPT !.links[c.kind] = Append(@, c.link)],
              << [op |-> "RemoveLink", kind |-> c.kind, link |-> c.link] >>,
              Touched(c.kind, c.link))

UpdateLinkIn(m, c) ==
    IF \/ c.link.id \notin Ids(m.links[c.kind])
       \/ c.kind = "edge" /\ ~LinkValid(m, "edge", c.link)
    THEN Refused
    ELSE Done([m EXCEPT !.links[c.kind][Pos(m.links[c.kind], c.link.id)] = c.link],
              << [op |-> "RestoreExisting", kind |-> c.kind,
                  link |-> Get(m.links[c.kind], c.link.id), new |-> c.link] >>,
              Retargeted(c.kind, Get(m.links[c.kind], c.link.id), c.link))

DeleteLinkFrom(m, c) ==
    IF c.id \notin Ids(m.links[c.kind]) THEN Refused
    ELSE Done([m EXCEPT !.links[c.kind] = Without(@, {c.id})],
              << [op |-> "RestoreLink", kind |-> c.kind, link |-> Get(m.links[c.kind], c.id),
                  at |-> Pos(m.links[c.kind], c.id) - 1] >>,
              Touched(c.kind, Get(m.links[c.kind], c.id)))

\* move_node_in_model: take the subtree out, put it back as one run of nodes.
CanMove(m, id, p) ==
    /\ id \in Ids(m.nodes)
    /\ p # None => p \in Ids(m.nodes) \ Subtree(m, id)
    /\ Get(m.nodes, id).parent = None => p = None

Detached(m, id) == [m EXCEPT !.nodes = Without(@, Subtree(m, id))]

\* Broken: the subtree goes to the end of the vector, wherever its parent is.
MoveInModelAtEnd(m, id, p, index) ==
    LET run   == Preorder(m, id)
        moved == [i \in DOMAIN run |->
                    IF i = 1 THEN [Get(m.nodes, id) EXCEPT !.parent = p]
                    ELSE Get(m.nodes, run[i])]
    IN  [m EXCEPT !.nodes = Detached(m, id).nodes \o moved]

MoveInModel(m, id, p, index) ==
    LET run  == Preorder(m, id)
        rest == Detached(m, id)
        moved == [i \in DOMAIN run |->
                    IF i = 1 THEN [Get(m.nodes, id) EXCEPT !.parent = p]
                    ELSE Get(m.nodes, run[i])]
    IN  [m EXCEPT !.nodes = InsertSeq(rest.nodes, InsertionIndex(rest, p, index), moved)]

SiblingIndex(m, id) ==
    Pos(Children(m, Get(m.nodes, id).parent), id) - 1

\* Summaries the move leaves without an ordered pair of siblings are dropped.
MoveNodeIn(m, c) ==
    IF ~CanMove(m, c.id, c.parent) THEN Refused
    ELSE IF ~CanInsert(Detached(m, c.id), c.parent, c.index) THEN Refused
    ELSE LET after == MoveInModel(m, c.id, c.parent, c.index)
             lost  == Placed(m.links["summary"], LAMBDA s : ~SummaryValid(after, s))
         IN  Done([after EXCEPT !.links["summary"] =
                        SelectSeq(@, LAMBDA s : SummaryValid(after, s))],
                  [i \in DOMAIN lost |->
                        [op |-> "RestoreLink", kind |-> "summary",
                         link |-> lost[i].item, at |-> lost[i].at]]
                  \o << [op |-> "MoveBack", id |-> c.id, parent |-> Get(m.nodes, c.id).parent,
                         index |-> SiblingIndex(m, c.id)] >>,
                  {Node(x) : x \in Subtree(m, c.id)}
                  \cup UNION {Touched("summary", lost[i].item) : i \in DOMAIN lost})

DeleteNodeFrom(m, c) ==
    IF c.id \notin Ids(m.nodes) THEN Refused
    ELSE LET gone    == Subtree(m, c.id)
             Hit(l)  == l.from \in gone \/ l.to \in gone
             Kept(l) == ~Hit(l)
             Gone(n) == n.id \in gone
         IN  Done([m EXCEPT !.root  = IF @ = c.id THEN None ELSE @,
                            !.nodes = Without(@, gone),
                            !.links = [k \in LinkKinds |-> SelectSeq(@[k], Kept)]],
                  << [op |-> "RestoreDeleted", root |-> m.root,
                      nodes |-> Placed(m.nodes, Gone),
                      links |-> [k \in LinkKinds |-> Placed(m.links[k], Hit)]] >>,
                  {Node(x) : x \in gone}
                  \cup {<<k, id>> \in LinkKinds \X Links(m) :
                          \E i \in DOMAIN m.links[k] : m.links[k][i].id = id /\ Hit(m.links[k][i])})

Apply(m, c) ==
    CASE c.op = "AddNode"      -> AddNodeTo(m, c)
      [] c.op = "SetNode"      -> SetNodeIn(m, c)
      [] c.op = "SetCollapsed" -> SetCollapsedIn(m, c)
      [] c.op = "SetSettings"  -> SetSettingsIn(m, c)
      [] c.op = "AddLink"      -> AddLinkTo(m, c)
      [] c.op = "UpdateLink"   -> UpdateLinkIn(m, c)
      [] c.op = "DeleteLink"   -> DeleteLinkFrom(m, c)
      [] c.op = "MoveNode"     -> MoveNodeIn(m, c)
      [] c.op = "DeleteNode"   -> DeleteNodeFrom(m, c)

----------------------------------------------------------------------------
(* Undo *)

\* Placed entries go back one by one, in the order they were recorded.
PutBack(s, placed) ==
    FoldLeft(LAMBDA acc, x : InsertSeq(acc, Clip(x.at, acc), <<x.item>>), s, placed)

ApplyInverse(m, v) ==
    CASE v.op = "RestoreSettings" -> [m EXCEPT !.settings = v.settings]
      [] v.op = "RemoveNode" ->
           [m EXCEPT !.nodes = Without(@, {v.id}), !.root = IF @ = v.id THEN None ELSE @]
      [] v.op = "RestoreNode" -> [m EXCEPT !.nodes[Pos(m.nodes, v.node.id)] = v.node]
      [] v.op = "RestoreCollapsed" ->
           [m EXCEPT !.nodes[Pos(m.nodes, v.id)].collapsed = v.collapsed]
      [] v.op = "RemoveLink" -> [m EXCEPT !.links[v.kind] = Without(@, {v.link.id})]
      [] v.op = "RestoreExisting" ->
           [m EXCEPT !.links[v.kind][Pos(m.links[v.kind], v.link.id)] = v.link]
      [] v.op = "RestoreLink" ->
           [m EXCEPT !.links[v.kind] = InsertSeq(@, Clip(v.at, @), <<v.link>>)]
      [] v.op = "MoveBack" -> MoveInModel(m, v.id, v.parent, v.index)
      [] v.op = "RestoreDeleted" ->
           [m EXCEPT !.root  = v.root,
                     !.nodes = PutBack(@, v.nodes),
                     !.links = [k \in LinkKinds |-> PutBack(@[k], v.links[k])]]

\* The checks an inverse makes before it changes anything.
InverseApplies(m, v) ==
    CASE v.op = "RestoreSettings" -> TRUE
      [] v.op = "RestoreNode" -> v.node.id \in Ids(m.nodes)
      [] v.op \in {"RemoveNode", "RestoreCollapsed"} -> v.id \in Ids(m.nodes)
      [] v.op = "RemoveLink" -> v.link.id \in Ids(m.links[v.kind])
      [] v.op = "RestoreExisting" -> v.link.id \in Ids(m.links[v.kind])
      [] v.op = "RestoreLink" ->
           v.link.id \notin IF v.kind = "edge" THEN Ids(m.links["edge"])
                            ELSE Ids(m.nodes) \cup Links(m)
      [] v.op = "MoveBack" ->
           /\ CanMove(m, v.id, v.parent)
           /\ CanInsert(Detached(m, v.id), v.parent, v.index)
      [] v.op = "RestoreDeleted" ->
           /\ \A i \in DOMAIN v.nodes : v.nodes[i].item.id \notin Ids(m.nodes)
           /\ \A i \in DOMAIN v.links["edge"] :
                v.links["edge"][i].item.id \notin Ids(m.links["edge"])

\* The entities the reversed mutation of a command names.
Named(v) ==
    CASE v.op = "RestoreSettings" -> {}
      [] v.op = "RestoreNode" -> {Node(v.node.id)}
      [] v.op \in {"RemoveNode", "RestoreCollapsed", "MoveBack"} -> {Node(v.id)}
      [] v.op \in {"RemoveLink", "RestoreLink"} -> Touched(v.kind, v.link)
      [] v.op = "RestoreExisting" -> Touched(v.kind, v.link) \cup Touched(v.kind, v.new)
      [] v.op = "RestoreDeleted" ->
           {Node(x.item.id) : x \in ToSet(v.nodes)}
           \cup UNION {{<<k, x.item.id>> : x \in ToSet(v.links[k])} : k \in LinkKinds}

Checked(r) == IF r.ok /\ Valid(r.model) THEN r ELSE Refused

\* What undoing an entry makes of m: a refusal leaves the map and the journal alone.
Undone(m, entry) ==
    LET Step(acc, v) == IF acc.ok /\ InverseApplies(acc.model, v)
                        THEN Done(ApplyInverse(acc.model, v), << >>, acc.ents \cup Named(v))
                        ELSE Refused
    IN  Checked(FoldLeft(Step, Done(m, << >>, {}), Reverse(entry.inverses)))

----------------------------------------------------------------------------
(* The engine *)

Init ==
    /\ model \in Imports
    /\ draft = model
    /\ cmds = << >> /\ inverses = << >> /\ undo = << >> /\ redo = << >>
    /\ changed = {}

Journalled(log) == FoldLeft(LAMBDA n, e : n + Len(e.cmds), 0, log)
Spent == Len(cmds) + Journalled(undo) + Journalled(redo)

NoBatch == cmds' = << >> /\ inverses' = << >>

\* One command of a batch: a refusal drops the copy, and the batch with it.
Fold(c) ==
    /\ Spent < MaxCommands
    /\ \E r \in {Apply(draft, c)} :
          \/ /\ r.ok
             /\ draft' = r.model
             /\ cmds' = Append(cmds, c)
             /\ inverses' = inverses \o r.inv
             /\ changed' = (IF cmds = << >> THEN {} ELSE changed) \cup r.ents
          \/ /\ ~r.ok /\ cmds # << >>
             /\ draft' = model /\ changed' = {} /\ NoBatch
    /\ UNCHANGED <<model, undo, redo>>

AddNodes == {[op |-> "AddNode", id |-> id, parent |-> p, index |-> i] :
                id \in NodeIds, p \in NodeIds \cup {None}, i \in Places}
SetNodes == {[op |-> "SetNode", id |-> id, data |-> 1] : id \in NodeIds}
Collapses == {[op |-> "SetCollapsed", id |-> id, collapsed |-> b] : id \in NodeIds, b \in BOOLEAN}
MoveNodes == {[op |-> "MoveNode", id |-> id, parent |-> p, index |-> i] :
                id \in NodeIds, p \in NodeIds \cup {None}, i \in Places}
DeleteNodes == {[op |-> "DeleteNode", id |-> id] : id \in NodeIds}

\* The commands on edges, summaries, boundaries and formulas.
Drawn(k) == {[id |-> id, from |-> e[1], to |-> IF k \in Ranged THEN e[2] ELSE e[1], data |-> 0] :
                id \in LinkIds, e \in Ends}
AddLinks    == UNION {{[op |-> "AddLink", kind |-> k, link |-> l] : l \in Drawn(k)} : k \in LinkKinds}
UpdateLinks == UNION {{[op |-> "UpdateLink", kind |-> k, link |-> [l EXCEPT !.data = 1]] :
                          l \in Drawn(k)} : k \in LinkKinds}
DeleteLinks == {[op |-> "DeleteLink", kind |-> k, id |-> id] : k \in LinkKinds, id \in LinkIds}

EditNodes == \E c \in AddNodes \cup SetNodes \cup Collapses \cup MoveNodes \cup DeleteNodes : Fold(c)
EditLinks == \E c \in AddLinks \cup UpdateLinks \cup DeleteLinks : Fold(c)
SetSettings == Fold([op |-> "SetSettings", data |-> 1])

\* The end of execute: the copy is validated and becomes the map.
Finish ==
    /\ cmds # << >>
    /\ IF Valid(draft)
       THEN /\ model' = draft
            /\ undo' = Append(undo, [cmds |-> cmds, inverses |-> inverses,
                                     before |-> model, after |-> draft])
            /\ redo' = << >>
       ELSE UNCHANGED <<model, undo, redo>>
    /\ draft' = model'
    /\ NoBatch
    /\ UNCHANGED changed

Undo ==
    /\ cmds = << >> /\ undo # << >>
    /\ \E r \in {Undone(model, Last(undo))} :
           /\ r.ok
           /\ model' = r.model
           /\ undo' = Front(undo)
           /\ redo' = Append(redo, Last(undo))
           /\ changed' = r.ents
    /\ draft' = model'
    /\ UNCHANGED <<cmds, inverses>>

\* Redo executes the commands of the entry as a batch of their own.
Redone(m, entry) ==
    LET After(acc, r)  == IF r.ok THEN Done(r.model, acc.inv \o r.inv, acc.ents \cup r.ents)
                          ELSE Refused
        Step(acc, c) == IF acc.ok THEN After(acc, Apply(acc.model, c)) ELSE acc
    IN  Checked(FoldLeft(Step, Done(m, << >>, {}), entry.cmds))

Redo ==
    /\ cmds = << >> /\ redo # << >>
    /\ \E r \in {Redone(model, Last(redo))} :
           /\ r.ok
           /\ model' = r.model
           /\ undo' = Append(undo, [Last(redo) EXCEPT !.inverses = r.inv,
                                        !.before = model, !.after = r.model])
           /\ redo' = Front(redo)
           /\ changed' = r.ents
    /\ draft' = model'
    /\ UNCHANGED <<cmds, inverses>>

Next == EditNodes \/ EditLinks \/ SetSettings \/ Finish \/ Undo \/ Redo

Spec == Init /\ [][Next]_vars

----------------------------------------------------------------------------
(* Properties *)

TypeOK ==
    /\ Valid(model)
    /\ cmds = << >> => draft = model

InPreorder(m) ==
    m.root # None => [i \in DOMAIN m.nodes |-> m.nodes[i].id] = Preorder(m, m.root)

\* Insertions, moves and deletions keep the node vector the preorder of the
\* tree, every subtree one run of nodes: the schema does not check it, the next
\* insertion and the places an undo restores count on it.
EditsKeepPreorder ==
    \A i \in DOMAIN undo : InPreorder(undo[i].before) => InPreorder(undo[i].after)

SameContent(m, n) ==
    /\ m.root = n.root /\ m.settings = n.settings
    /\ ToSet(m.nodes) = ToSet(n.nodes)
    /\ \A k \in LinkKinds : ToSet(m.links[k]) = ToSet(n.links[k])

Moves(entry) == \E i \in DOMAIN entry.inverses : entry.inverses[i].op = "MoveBack"

\* An undo that is not refused gives back every node, parent and link of the map
\* the batch started from, and unless the batch moved a node also their order.
\* What it does to the order after a move: UndoIsExact.
UndoRestores ==
    cmds = << >> /\ undo # << >> /\ model = Last(undo).after =>
        LET e == Last(undo)
        IN  \A r \in {Undone(model, e)} :
                r.ok => /\ SameContent(r.model, e.before)
                        /\ Moves(e) \/ r.model = e.before

\* The journal's comment: it stores "only touched graph entities and exact vector
\* positions".  Undoing the last batch gives back the map before it, its order too.
UndoIsExact ==
    cmds = << >> /\ undo # << >> /\ model = Last(undo).after =>
        \A r \in {Undone(model, Last(undo))} : r.ok /\ r.model = Last(undo).before

Entities(m) == {<<"node", m.nodes[i].id, m.nodes[i]>> : i \in DOMAIN m.nodes}
               \cup UNION {{<<k, m.links[k][i].id, m.links[k][i]>> : i \in DOMAIN m.links[k]} :
                            k \in LinkKinds}

\* A change set names every entity that a batch, an undo or a redo added, removed
\* or altered: clients repaint what it names and nothing else.
ChangesNamed ==
    \A e \in (Entities(model) \cup Entities(model')) \ (Entities(model) \cap Entities(model')) :
        <<e[1], e[2]>> \in changed'
ChangeSetIsComplete == [][ChangesNamed]_vars

================================================================================
