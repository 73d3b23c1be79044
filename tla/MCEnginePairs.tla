----------------------------- MODULE MCEnginePairs -----------------------------
(***************************************************************************)
(* A deck or a mindmap, and a document beside it, each with its own        *)
(* batches: what two engines promise and neither keeps.                    *)
(***************************************************************************)
EXTENDS MCArtifactEngines

VARIABLES docModel, docDraft, docCmds, docMuts, docTold, docUndo, docRedo

docVars == <<docModel, docDraft, docCmds, docMuts, docTold, docUndo, docRedo>>

Paper == INSTANCE DocumentEngine
            WITH model <- docModel, draft <- docDraft, cmds <- docCmds, muts <- docMuts,
                 told <- docTold, undo <- docUndo, redo <- docRedo

MCInit ==
    /\ \/ kind = "presentation" /\ Presentation!Init
       \/ kind = "mindmap" /\ Mindmap!Init
    /\ Paper!Init

MCNext ==
    \/ (EditPresentation \/ EditMindmap) /\ UNCHANGED docVars
    \/ Paper!Next /\ UNCHANGED vars

MCSpec == MCInit /\ [][MCNext]_<<vars, docVars>>

\* Both engines promise that a refused batch leaves what it found: the document
\* engine that "the live model and indexes remain unchanged", the presentation
\* engine that a batch is applied "atomically".  At least one of the two keeps it:
\* less than either promises, so that one behaviour shows both broken.
ARefusalLeavesNoTrace ==
    kind = "presentation" =>
        Presentation!RefusedBatchLeavesNoTrace \/ Paper!RefusedBatchLeavesNoTrace

\* Both engines promise an exact undo: the mindmap engine by inverses of "exact
\* vector positions", the document engine by an "exact mutation journal (including
\* nested subtree records)".  At least one of the two keeps it.
AnUndoIsExact == kind = "mindmap" => Mindmap!UndoIsExact \/ Paper!UndoIsExact

================================================================================
