SPECIFICATION FairSpec
CHECK_DEADLOCK FALSE
CONSTANTS
    p1 = p1
    p2 = p2
    p3 = p3
    h1 = h1
    h2 = h2
    Processes = {p1, p2, p3}
    Host <- TwoHosts
    MaxAcquire = 1
    Prompt = TRUE
    PidReuse = TRUE
    NoFile = NoFile
INVARIANT TypeOK
PROPERTIES
    ExclusiveUnlessContended
    IntactUnlessContended
    AbandonedRecovered
