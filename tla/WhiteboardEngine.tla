---------------------------- MODULE WhiteboardEngine ----------------------------
(***************************************************************************)
(* The whiteboard engine: a scene of elements in paint order, some holding *)
(* others as children, and a camera.  A batch changes the live scene in    *)
(* place and records a mutation per command; when a command is refused or  *)
(* the scene does not validate, the mutations are taken back in reverse.   *)
(* The server gives whiteboards no undo.                                   *)
(***************************************************************************)
EXTENDS Naturals, FiniteSets, SequencesExt

CONSTANTS
    ElementIds,   \* ids the commands use
    ChildLists,   \* lists of children the commands give an element
    Scenes,       \* the scenes an engine is created with; bound: a batch starts
                  \* from one of them
    MaxCommands   \* bound: commands in the open batch

VARIABLES
    model,     \* auxiliary: the scene of the last revision
    draft,     \* the live scene
    cmds,      \* commands of the open batch
    inverses   \* mutations recorded for the open batch

vars == <<model, draft, cmds, inverses>>

Scene == [elements : Seq([id : ElementIds, children : Seq(ElementIds)]), camera : Nat]

Ids(m)     == {m.elements[i].id : i \in DOMAIN m.elements}
Pos(m, id) == CHOOSE i \in DOMAIN m.elements : m.elements[i].id = id
Get(m, id) == m.elements[Pos(m, id)]

\* Which element lists which as a child.
Edges(m) ==
    {d \in ElementIds \X ElementIds :
        \E e \in ToSet(m.elements) : e.id = d[1] /\ Contains(e.children, d[2])}

\* Ids reached from root along children, whether they exist or not.
Reach(m, root) ==
    LET after[n \in 0..Len(m.elements)] ==
            IF n = 0 THEN {root}
            ELSE LET near == after[n - 1]
                 IN  near \cup {e[2] : e \in {d \in Edges(m) : d[1] \in near}}
    IN  after[Len(m.elements)]

\* collect_subtree walks a stack: an id met twice is reported as a cycle, an id
\* without an element as missing.
SubtreeOk(m, root) ==
    LET reach == Reach(m, root)
    IN  /\ reach \subseteq Ids(m)
        /\ \A id \in reach : IsInjective(Get(m, id).children)
        /\ \A id \in reach : \A p, q \in reach :
             <<p, id>> \in Edges(m) /\ <<q, id>> \in Edges(m) => p = q
        /\ \A p \in reach : <<p, root>> \notin Edges(m)

Valid(m) ==
    /\ IsInjective([i \in DOMAIN m.elements |-> m.elements[i].id])
    /\ \A e \in ToSet(m.elements) :
         IsInjective(e.children) /\ ToSet(e.children) \subseteq Ids(m)
    \* one owner each, no cycle
    /\ \A id, p, q \in Ids(m) : <<p, id>> \in Edges(m) /\ <<q, id>> \in Edges(m) => p = q
    /\ \A id \in Ids(m) : \A c \in ToSet(Get(m, id).children) : id \notin Reach(m, c)

\* s without the elements whose ids are in gone.
Without(s, gone) ==
    LET kept[n \in 0..Len(s)] ==
            IF n = 0 THEN << >>
            ELSE IF s[n].id \in gone THEN kept[n - 1] ELSE Append(kept[n - 1], s[n])
    IN  kept[Len(s)]

InsertElement(m, at, e) ==
    [m EXCEPT !.elements = InsertAt(@, at + 1, e)]

\* Each command: whether it is refused, the scene it leaves and its mutation.
CanApply(m, c) ==
    CASE c.op = "AddElement"    -> c.element.id \notin Ids(m) /\ c.index <= Len(m.elements)
      [] c.op = "UpdateElement" -> c.element.id \in Ids(m)
      [] c.op = "DeleteElement" -> c.id \in Ids(m) /\ SubtreeOk(m, c.id)
      [] c.op = "SetCamera"     -> TRUE
      [] c.op = "ZoomCamera"    -> c.factor > 0

\* The first element that lists id as a child.
Parents(m, id) == {i \in DOMAIN m.elements : Contains(m.elements[i].children, id)}
Parent(m, id)  == CHOOSE i \in Parents(m, id) : \A j \in Parents(m, id) : i <= j

\* The elements of m, the first parent of id without it.
Disowned(m, id) ==
    IF Parents(m, id) = {} THEN m.elements
    ELSE [m.elements EXCEPT ![Parent(m, id)].children = Remove(@, id)]

Apply(m, c) ==
    CASE c.op = "AddElement"    -> InsertElement(m, c.index, c.element)
      [] c.op = "UpdateElement" -> [m EXCEPT !.elements[Pos(m, c.element.id)] = c.element]
      [] c.op = "DeleteElement" ->
           [m EXCEPT !.elements = Without(Disowned(m, c.id), Reach(m, c.id))]
      [] c.op = "SetCamera"  -> [m EXCEPT !.camera = c.camera]
      [] c.op = "ZoomCamera" -> [m EXCEPT !.camera = @ * c.factor]

Subtree(m, id) == {[position |-> Pos(m, x) - 1, element |-> Get(m, x)] : x \in Reach(m, id)}

Mutation(m, c) ==
    CASE c.op = "AddElement"    -> [op |-> "Add", id |-> c.element.id]
      [] c.op = "UpdateElement" -> [op |-> "Update", before |-> Get(m, c.element.id)]
      [] c.op = "DeleteElement" ->
           [op      |-> "Delete",
            removed |-> Subtree(m, c.id),
            \* the parent's id and children, when there is one
            parent  |-> {m.elements[i] : i \in {j \in Parents(m, c.id) : j = Parent(m, c.id)}}]
      [] c.op \in {"SetCamera", "ZoomCamera"} -> [op |-> "Camera", before |-> m.camera]

\* Each removed element goes back to the position it had, the lowest first; a
\* position past the end means the end.
PutBack(s, removed) ==
    LET At(p)     == {r \in removed : r.position = p}
        top       == Len(s) + Cardinality(removed)
        after[n \in 0..top] ==
            IF n = 0 THEN s
            ELSE LET acc == after[n - 1]
                 IN  IF At(n - 1) = {} THEN acc
                     ELSE InsertAt(acc, IF n > Len(acc) THEN Len(acc) + 1 ELSE n,
                                   (CHOOSE r \in At(n - 1) : TRUE).element)
    IN  after[top]

\* The children the parent had, if it is there.
Adopted(s, parent) ==
    [i \in DOMAIN s |->
        IF \E p \in parent : p.id = s[i].id
        THEN [s[i] EXCEPT !.children = (CHOOSE p \in parent : TRUE).children]
        ELSE s[i]]

TakeBack(m, v) ==
    CASE v.op = "Add"    -> [m EXCEPT !.elements = Without(@, {v.id})]
      [] v.op = "Update" ->
           [m EXCEPT !.elements = [i \in DOMAIN @ |->
                                     IF @[i].id = v.before.id THEN v.before ELSE @[i]]]
      [] v.op = "Delete" ->
           [m EXCEPT !.elements = PutBack(Adopted(@, v.parent), v.removed)]
      [] v.op = "Camera" -> [m EXCEPT !.camera = v.before]

TakenBack(m, list)     == FoldLeft(TakeBack, m, list)
Rollback(m, mutations) == TakenBack(m, Reverse(mutations))

----------------------------------------------------------------------------

Init ==
    /\ model \in Scenes
    /\ draft = model
    /\ cmds = << >> /\ inverses = << >>

NoBatch == cmds' = << >> /\ inverses' = << >>

Fold(c) ==
    /\ Len(cmds) < MaxCommands /\ model \in Scenes
    /\ \/ /\ CanApply(draft, c)
          /\ draft' = Apply(draft, c)
          /\ cmds' = Append(cmds, c)
          /\ inverses' = Append(inverses, Mutation(draft, c))
       \/ /\ ~CanApply(draft, c)
          /\ draft' = Rollback(draft, inverses)
          /\ NoBatch
    /\ UNCHANGED model

Element(id, kids) == [id |-> id, children |-> kids]

AddElement == \E id \in ElementIds, kids \in ChildLists, i \in 0..Len(draft.elements) :
    Fold([op |-> "AddElement", element |-> Element(id, kids), index |-> i])
UpdateElement == \E id \in ElementIds, kids \in ChildLists :
    Fold([op |-> "UpdateElement", element |-> Element(id, kids)])
DeleteElement == \E id \in ElementIds : Fold([op |-> "DeleteElement", id |-> id])
\* SetCamera and PanCamera
SetCamera  == Fold([op |-> "SetCamera", camera |-> 1])
ZoomCamera == \E f \in {0, 2} : Fold([op |-> "ZoomCamera", factor |-> f])

Finish ==
    /\ cmds # << >>
    /\ IF Valid(draft)
       THEN model' = draft /\ UNCHANGED draft
       ELSE draft' = Rollback(draft, inverses) /\ UNCHANGED model
    /\ NoBatch

Next == AddElement \/ UpdateElement \/ DeleteElement \/ SetCamera \/ ZoomCamera \/ Finish

Spec == Init /\ [][Next]_vars

----------------------------------------------------------------------------
(* Properties *)

TypeOK == Valid(model)

\* A refused batch leaves no trace: between batches the live scene is the scene
\* of the last revision, element order, children and camera included, although
\* the commands before the refusal had already changed it.
RefusedBatchLeavesNoTrace == cmds = << >> => draft = model

================================================================================
