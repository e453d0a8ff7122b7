SPECIFICATION Spec
CHECK_DEADLOCK FALSE
CONSTANTS
    s1 = s1
    s2 = s2
    n1 = n1
    n2 = n2
    i1 = i1
    i2 = i2
    i3 = i3
    c1 = c1
    c2 = c2
    Sessions = {s1}
    Names = {n1, n2}
    Ids = {i1, i2, i3}
    Commands = {}
    MaxPrompts = 2
    MaxStatusChanges = 0
    MaxDeaths = 0
    Unscoped = Unscoped
    None = None
PROPERTIES
    MovesInPromptOrder
