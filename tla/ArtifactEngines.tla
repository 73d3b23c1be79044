---------------------------- MODULE ArtifactEngines ----------------------------
(***************************************************************************)
(* The five artifact engines side by side.  An artifact has one kind for   *)
(* good, and the kind decides which engine its commands, its undo and its  *)
(* redo go to.  All five share one shape: a batch of commands works on a   *)
(* draft (a copy, or the live model itself), keeps what takes it back, and *)
(* is committed or refused as a whole.                                     *)
(***************************************************************************)
EXTENDS Naturals

CONSTANTS
    MaxCommands,  \* bound: commands in the open batch and in the journal
    MaxScene,     \* the same bound for whiteboards, which have no journal
    None,         \* absent parent, root, layout, value
    Lost,         \* "#REF!", what a swallowed reference becomes
    \* inputs of the engines, as their modules describe them
    MapNodes, LinkIds, Ends, Places, Imports,
    ElementIds, ChildLists, Scenes,
    DeckNodes, NewIds, Selections, SlideIds, ItemIds, NewSlides, Renamings, Indices, Decks,
    SheetIds, Names, Spots, SheetRanges, Contents, Rules, Metas, Sizes, Lines, Workbooks,
    BlockIds, NewBlocks, Lengths, NewRows, NewColumns, TableRanges, NewSections, NewNotes, Documents

VARIABLES
    kind,      \* ArtifactKind
    model,     \* the artifact of the last revision
    draft,     \* what the open batch works on
    cmds,      \* the open batch
    inverses,  \* what takes it back
    undo,      \* journal
    redo,
    derived    \* mindmap, presentation: the change set; document: the change
               \* tracker of the open batch; spreadsheet: the dependency index

vars == <<kind, model, draft, cmds, inverses, undo, redo, derived>>

Mindmap      == INSTANCE MindmapEngine WITH NodeIds <- MapNodes, changed <- derived
Whiteboard   == INSTANCE WhiteboardEngine WITH MaxCommands <- MaxScene
Presentation == INSTANCE PresentationEngine WITH NodeIds <- DeckNodes, changed <- derived
Spreadsheet  == INSTANCE SpreadsheetEngine
                    WITH Ranges <- SheetRanges, muts <- inverses, index <- derived
Text         == INSTANCE DocumentEngine WITH muts <- inverses, told <- derived

\* WhiteboardEngine::new opens no scene that fails the schema.
ASSUME ScenesAssumption == \A m \in Scenes : m \in Whiteboard!Scene /\ Whiteboard!Valid(m)

Init ==
    \/ kind = "mindmap"      /\ Mindmap!Init
    \/ kind = "whiteboard"   /\ Whiteboard!Init   /\ undo = << >> /\ redo = << >> /\ derived = None
    \/ kind = "presentation" /\ Presentation!Init
    \/ kind = "spreadsheet"  /\ Spreadsheet!Init
    \/ kind = "document"     /\ Text!Init

EditMindmap      == kind = "mindmap"      /\ Mindmap!Next      /\ UNCHANGED kind
EditWhiteboard   == kind = "whiteboard"   /\ Whiteboard!Next   /\ UNCHANGED <<kind, undo, redo, derived>>
EditPresentation == kind = "presentation" /\ Presentation!Next /\ UNCHANGED kind
EditSpreadsheet  == kind = "spreadsheet"  /\ Spreadsheet!Next  /\ UNCHANGED kind
EditDocument     == kind = "document"     /\ Text!Next         /\ UNCHANGED kind

Next == EditMindmap \/ EditWhiteboard \/ EditPresentation \/ EditSpreadsheet \/ EditDocument

Spec == Init /\ [][Next]_vars

----------------------------------------------------------------------------
(* Properties *)

\* What each engine keeps valid: the committed map, scene, deck and workbook pass
\* the checks of their schema; the document's index has an entry for every block.
TypeOK ==
    /\ kind = "mindmap"      => Mindmap!TypeOK
    /\ kind = "whiteboard"   => Whiteboard!TypeOK
    /\ kind = "presentation" => Presentation!TypeOK
    /\ kind = "spreadsheet"  => Spreadsheet!TypeOK
    /\ kind = "document"     => Text!TypeOK

\* A refused batch, an undo and a redo give back the artifact they should: the
\* mindmap's nodes and links (and their order, unless something moved), the live
\* scene of a whiteboard, the deck of the last revision, the contents of a
\* workbook, and the blocks of a document at their places.  Three things stay
\* behind, and nothing else: the cell styles a refused SetTableCellStyle has
\* written, the asset a refused SetImageConfig has set, and what taking back the
\* deletion of a block with children damages (OnlyNestedRestoreDamages).  The
\* code promises otherwise: see MCEnginePairs.
EditsCanBeTakenBack ==
    /\ kind = "mindmap"      => Mindmap!UndoRestores
    /\ kind = "whiteboard"   => Whiteboard!RefusedBatchLeavesNoTrace
    /\ kind = "presentation" => Presentation!InversesRestoreTheDeck /\ Presentation!RefusedBatchLeavesOnlyStyles
    /\ kind = "spreadsheet"  => Spreadsheet!EditsCanBeTakenBack
    /\ kind = "document"     => Text!EditsCanBeTakenBack

\* A change set names all that differs after a step: the nodes and links of a
\* mindmap; the slides, layouts, masters and nodes of a deck, and every slide
\* whose thumbnail a layout or a master made stale; the sheets of a workbook; the
\* blocks of a document.
ChangeSetIsComplete ==
    [][/\ kind = "mindmap"      => Mindmap!ChangesNamed
       /\ kind = "presentation" => Presentation!ChangesNamed
       /\ kind = "spreadsheet"  => Spreadsheet!ChangesNamed
       /\ kind = "document"     => Text!ChangesNamed]_vars

\* Nodes form a forest: every command leaves the mindmap's vector in depth-first
\* order, so that a subtree is one block of it, and the nodes of a slide under groups
\* of the same slide, without a cycle.
NodesFormAForest ==
    /\ kind = "mindmap"      => Mindmap!EditsKeepPreorder
    /\ kind = "presentation" => Presentation!NodesFormAForest

\* Spans never overlap: the cells of every table of a deck tile it, and a sheet's
\* merged ranges stay disjoint through sorts, moves and line edits.
SpansNeverOverlap ==
    /\ kind = "presentation" => Presentation!TablesStayTiled
    /\ kind = "spreadsheet"  => Spreadsheet!MergesStayDisjoint

\* A formula reads the cells it read before, wherever a line edit put them.
ReferencesFollowCells == kind = "spreadsheet" => Spreadsheet!ReferencesFollowCells

\* The dependency index, patched in place, is the one built from the workbook.
IndexIsFresh == kind = "spreadsheet" => Spreadsheet!IndexIsFresh

\* Only taking back the deletion of a block with children damages the block
\* tree or its index.
OnlyNestedRestoreDamages == [][kind = "document" => Text!KeepsSound]_vars

================================================================================
