CONSTANTS
    None = None
    Scenes <- MCScenes
SPECIFICATION Spec
INVARIANTS
    ConvergesUnless
    EvidenceBacksTurns
    FollowsTheUser
CHECK_DEADLOCK FALSE
