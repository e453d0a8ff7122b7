SPECIFICATION Spec
CHECK_DEADLOCK FALSE
CONSTANTS
    Sessions <- Kinds
    MaxTurn = 2
    NoLease = NoLease
INVARIANTS
    QuietLeaseIsTrue
    RunningCallsClaimed
PROPERTIES
    NothingStaleWins
    BlocksNewestTurn
