\* an admin lets devices in and out, guests prepare, records run out
CONSTANTS
    m1 = m1
    m2 = m2
    a1 = a1
    g1 = g1
    j1 = j1
    j2 = j2
    NoOne = NoOne
    Mac <- TwoMacs
    Spelling <- CapitalsOnly
    EarlyLetter <- OneLetter
    Admin <- OneAdmin
    Guest <- OneGuest
    Job <- OneJob
    Requests <- AccessOnly
    Lists <- NoList
    Hasty = FALSE
    AuthTime = 0
    Timeout = 1
    MaxTime = 2
SPECIFICATION Spec
INVARIANTS
    AdmittedIsRecorded
