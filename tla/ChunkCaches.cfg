\* Two notes over three bodies, two models and two NER settings; any three of two
\* edits, two restarts and a failure.
SPECIFICATION Spec
CONSTANTS
    n1 = n1
    n2 = n2
    plain = plain
    twice = twice
    blank = blank
    small = small
    large = large
    m = m
    w = w
    A = A
    B = B
    ner = ner
    nerFine = nerFine
    None = None
    Notes = {n1, n2}
    Bodies = {plain, twice, blank}
    Metas = {m, w}
    Models = {A, B}
    Sigs = {ner, nerFine}
    Budgets = {small}
    Pieces <- MCPieces
    Suffix <- MCSuffix
    Dim <- MCDim
    Spans <- MCSpans
    MaxEdits = 2
    MaxRestarts = 2
    MaxFailures = 1
    MaxEvents = 3
SYMMETRY MCSymmetry
INVARIANTS
    RowsOfOneModel
    RowsOfTheirText
    PrintMeansRow
    EntitiesOfTheirText
CHECK_DEADLOCK FALSE
