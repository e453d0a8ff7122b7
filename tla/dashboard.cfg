SPECIFICATION Spec
CONSTANTS
    Workstreams = {1, 2}
    Sessions = {1, 2}
    MaxPrompts = 1
    MaxPresses = 5
    MaxRefreshes = 2
    MaxResizes = 2
    PassTicks = 2
    None = None
    Home = Home
    Scenes <- MCScenes
INVARIANTS
    ReadyCountTrue
    QuietUnlessStirred
    ResultTrue
    MotionLive
PROPERTIES
    ResultSeen
    NeverRegresses
    EveryWaitEnds
CHECK_DEADLOCK FALSE
