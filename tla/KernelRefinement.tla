--------------------------- MODULE KernelRefinement ----------------------------
(***************************************************************************)
(* The refinement mapping from TransactionKernel to ArtifactHistory.  What *)
(* the abstract specification calls content is read from the blob store,   *)
(* not from the auxiliary record of what a commit meant: a step that loses *)
(* or overwrites a stored snapshot is no step of ArtifactHistory.          *)
(***************************************************************************)
EXTENDS TransactionKernel

Revisions == [v \in 1..version |-> blobs[v]]

\* The i-th oldest of the rows.
Older(rows, e)  == {f \in rows : f.after < e.after}
Ranked(rows, i) == {e \in rows : Cardinality(Older(rows, e)) = i - 1}
Row(rows, i)    == CHOOSE e \in Ranked(rows, i) : TRUE

\* An undo returns to the content before each active row.
UndoStack == [i \in 1..Cardinality(Active) |-> blobs[Row(Active, i).before]]

\* A redo returns to the content after each undone row.
RedoStack == [i \in 1..Cardinality(Undone) |-> blobs[Row(Undone, i).after]]

Applied == {t \in TxIds : Committed(t)}

Abstract == INSTANCE ArtifactHistory WITH
    revisions <- Revisions,
    undo      <- UndoStack,
    redo      <- RedoStack,
    applied   <- Applied

\* Every step of the server's transaction path is a step of the abstract history
\* or leaves it alone: no revision is lost or changed, an undo returns to exactly
\* the content its entry started from, a redo to what was undone, a new edit ends
\* the redo branch, and an id takes effect once.
ImplementsArtifactHistory == Abstract!Spec

================================================================================
