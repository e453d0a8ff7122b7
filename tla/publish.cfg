SPECIFICATION Spec
CONSTANTS
    a1 = a1
    a2 = a2
    a3 = a3
    w1 = w1
    w2 = w2
    x = x
    y = y
    None = None
    Attempts = {a1, a2, a3}
    Workstreams = {w1, w2}
    Texts = {x, y}
    MaxAttempts = 2
    ScanLimit = 2
    Scenes <- MCScenes
SYMMETRY Symmetry
INVARIANTS JournalSound ClearPublished
PROPERTIES OutcomeFinal
CHECK_DEADLOCK FALSE
