SPECIFICATION Spec
SYMMETRY Symmetry
CONSTANTS
    root = root
    child = child
    w1 = w1
    w2 = w2
    Root = root
    Children = {child}
    Workstreams = {w1, w2}
    Scenes <- MCScenes
    NoTurn = NoTurn
    NoUsage = NoUsage
    Unscoped = Unscoped
INVARIANTS
    FeedSound
    CheckpointSound
    MoveTurnInTarget
    OnlyBackdatedStampsDiffer
