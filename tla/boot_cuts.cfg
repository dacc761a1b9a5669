\* two upgrades, three power cuts, other programs commit too
CONSTANTS
    Empty = Empty
    MaxFw = 2
    MaxCuts = 3
    OthersCommit <- Commits
SPECIFICATION FairSpec
INVARIANTS
    ServicesFit
    Recoverable
PROPERTIES
    ImplementsSafeUpgrade
    PushSent
\* a flash.sh that failed leaves nothing behind that could run
CHECK_DEADLOCK FALSE
