SPECIFICATION Spec
SYMMETRY Symmetry
CHECK_DEADLOCK FALSE
CONSTANTS
    f1 = f1
    f2 = f2
    t1 = t1
    t2 = t2
    w1 = w1
    w2 = w2
    Feeds = {f1, f2}
    Workstreams = {w1, w2}
    Tools = {t1, t2}
    Units = {1, 2}
    Scenes <- AllScenes
    MaxCoverage = 8
    MaxPending = 2
    MaxRecords = 2
    NoEpoch = NoEpoch
    NoCursor = NoCursor
    NoTxn = NoTxn
    NoTool = NoTool
INVARIANTS
    ToldOnce
    LedgerHolds
    StopSparesInformedTurn
    NothingSkipped
PROPERTIES
    ReadRearmsOnce
