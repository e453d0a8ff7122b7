CONSTANTS
    None = None
    Scenes <- LeftScenes
SPECIFICATION Spec
INVARIANTS
    Converges
CHECK_DEADLOCK FALSE
