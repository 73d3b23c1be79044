---------------------------- MODULE ArtifactParts ----------------------------
(***************************************************************************)
(* The services around an Artifact and what is computed from its snapshots *)
(* beside them: the values its formulas come to.  As with the services,    *)
(* one is explored at a time.                                              *)
(***************************************************************************)
EXTENDS ArtifactServices

CONSTANTS Workbooks, MaxRow

VARIABLES
    \* FormulaCalculator
    book, mode, window, targets, memo, visiting, result, outcome, hits, hidden

Cells == INSTANCE FormulaCalculator

cellVars ==
    <<book, mode, window, targets, memo, visiting, result, outcome, hits, hidden>>

vars == <<serviceVars, cellVars>>

NoCells ==
    /\ book = None /\ mode = None /\ window = None /\ targets = None /\ memo = None
    /\ visiting = None /\ result = None /\ outcome = None /\ hits = None /\ hidden = None

Init ==
    \/ ServiceInit /\ NoCells
    \/ part = "cells" /\ Idle(part) /\ Cells!Init

HandleServices == ServiceNext /\ UNCHANGED cellVars
HandleCells    == part = "cells" /\ Cells!Next /\ UNCHANGED serviceVars

Next == HandleServices \/ HandleCells

Spec == Init /\ [][Next]_vars /\ Fairness

--------------------------------------------------------------------------------
\* The types of the part's state, and that a commit holds the write lock.
TypeOK ==
    /\ ServiceTypeOK
    /\ part = "cells" => Cells!TypeOK

\* A cell shows the same value and styles, whatever window it is read in.
CellsHaveTheirValue == part = "cells" => Cells!CellsHaveTheirValue

\* The formulas' functions obey the laws that tie them to each other.
FunctionsAgree == part = "cells" => Cells!FunctionsAgree

================================================================================
