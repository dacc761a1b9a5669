\* an admin edits the blacklist and switches sharing; two delayed scripts
CONSTANTS
    m1 = m1
    m2 = m2
    a1 = a1
    g1 = g1
    j1 = j1
    j2 = j2
    NoOne = NoOne
    Mac <- TwoMacs
    Spelling <- BothSpellings
    EarlyLetter <- OneLetter
    Admin <- OneAdmin
    Guest <- NoGuest
    Job <- TwoJobs
    Requests <- BlockAndSwitch
    Lists <- SomeLists
    Hasty = FALSE
    AuthTime = 0
    Timeout = 1
    MaxTime = 0
SPECIFICATION FairSpec
INVARIANTS
    TypeOK
    BlacklistApplied
    SwitchSettled
PROPERTIES
    BlockedInTheEnd
