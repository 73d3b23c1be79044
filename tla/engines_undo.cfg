CONSTANTS
    r = r
    a = a
    b = b
    c = c
    g = g
    k = k
    h = h
    n = n
    l1 = l1
    l2 = l2
    a2 = a2
    b2 = b2
    g2 = g2
    k2 = k2
    m1 = m1
    u1 = u1
    s1 = s1
    s2 = s2
    A = A
    B = B
    r1 = r1
    r2 = r2
    r3 = r3
    k1 = k1
    k3 = k3
    None = None
    Lost = Lost
    MaxCommands = 1
    MaxScene = 3
    MapNodes = {r, a, b, c}
    LinkIds = {l1, l2}
    Ends <- TheEnds
    Places = {0, 1, 2}
    Imports <- TheImports
    ElementIds = {a, b, c}
    ChildLists <- TheChildLists
    Scenes = {}
    DeckNodes = {a, b, g, k}
    NewIds = {a, h}
    Selections <- TheSelections
    SlideIds = {s1, s2}
    ItemIds = {l1, m1}
    NewSlides <- TheNewSlides
    Renamings <- TheRenamings
    Indices = {0, 1}
    Decks = {}
    SheetIds = {s1}
    Names <- TheNames
    Spots <- TheSpots
    SheetRanges <- TheRanges
    Contents <- TheContents
    Rules <- TheRules
    Metas <- TheMetas
    Sizes = {0, 1}
    Lines <- TheLines
    Workbooks = {}
    BlockIds = {a, b, c, n}
    NewBlocks <- TheNewBlocks
    Lengths = {0, 1}
    NewRows = {r3}
    NewColumns = {k3}
    TableRanges <- TheTableRanges
    NewSections <- TheSections
    NewNotes <- TheNotes
    Documents <- TheDocuments
SPECIFICATION MCSpec
INVARIANT
    AnUndoIsExact
CHECK_DEADLOCK FALSE
