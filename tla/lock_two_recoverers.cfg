SPECIFICATION Spec
CHECK_DEADLOCK FALSE
CONSTANTS
    p1 = p1
    p2 = p2
    p3 = p3
    h1 = h1
    h2 = h2
    Processes = {p1, p2, p3}
    Host <- OneHost
    MaxAcquire = 1
    Prompt = TRUE
    PidReuse = FALSE
    NoFile = NoFile
INVARIANT ExclusiveDespiteReread
