SPECIFICATION PagesSpec
CONSTANTS
    a = a
    b = b
    w1 = w1
    w2 = w2
    Sessions = {a, b}
    Workstreams = {w1, w2}
    Incidents = {i1}
    Claude = {b}
    Home <- MCHome
    Scenes <- MCScenes
    MaxErrors = 2
    TTL = 1
    Timeout = 1
    MaxRetries = 2
    MaxTime = 2
    MaxTurns = 2
    MaxFaults = 2
    MaxEpoch = 2
    NoScope = NoScope
    Gone = Gone
    Order <- MCOrder
    MaxStamp = 2
    MaxLines = 2
    Window = 1
    Length = 3
    None = None
INVARIANTS DeliveredOnce NothingSkipped AnswersBounded AwaitTruth WholeWhenComplete PagesAgree
PROPERTIES AwaitEnds
CHECK_DEADLOCK FALSE
