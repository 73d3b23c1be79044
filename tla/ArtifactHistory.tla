---------------------------- MODULE ArtifactHistory ----------------------------
(***************************************************************************)
(* What an Artifact promises its editors, without handlers, locks, rows or *)
(* blobs: an append-only log of revisions, a linear undo stack, a redo     *)
(* stack that a new edit throws away, and transaction ids that take effect *)
(* at most once.  TransactionKernel implements it (KernelRefinement).      *)
(***************************************************************************)
EXTENDS Naturals, Sequences

CONSTANTS Edits, Undos, Redos, Restores

VARIABLES
    revisions,   \* content of every revision, the current one last
    undo,        \* contents an undo returns to, the next one last
    redo,        \* contents a redo returns to, the next one first
    applied      \* ids that have taken effect

vars == <<revisions, undo, redo, applied>>

Current == revisions[Len(revisions)]

Init ==
    /\ revisions = <<{}>>
    /\ undo = <<>>
    /\ redo = <<>>
    /\ applied = {}

\* A transaction id takes effect once and makes one new revision.
Becomes(t, content) ==
    /\ t \notin applied
    /\ applied' = applied \cup {t}
    /\ revisions' = Append(revisions, content)

\* A change of its own starts a new branch.
Branch ==
    /\ undo' = Append(undo, Current)
    /\ redo' = <<>>

Edit(t) == Becomes(t, Current \cup {t}) /\ Branch

\* An older revision comes back as a new one; the log is never rewound.
Restore(t) ==
    /\ \E v \in 1..(Len(revisions) - 1) : Becomes(t, revisions[v])
    /\ Branch

Undo(t) ==
    /\ undo # <<>>
    /\ Becomes(t, undo[Len(undo)])
    /\ undo' = SubSeq(undo, 1, Len(undo) - 1)
    /\ redo' = <<Current>> \o redo

Redo(t) ==
    /\ redo # <<>>
    /\ Becomes(t, Head(redo))
    /\ undo' = Append(undo, Current)
    /\ redo' = Tail(redo)

Next ==
    \/ \E t \in Edits : Edit(t)
    \/ \E t \in Restores : Restore(t)
    \/ \E t \in Undos : Undo(t)
    \/ \E t \in Redos : Redo(t)

Spec == Init /\ [][Next]_vars

================================================================================
