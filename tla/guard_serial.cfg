\* one starter at a time inside the guard: cron's otapredownload
CONSTANTS
    p1 = p1
    p2 = p2
    p3 = p3
    p4 = p4
    Pid <- MCPid
    NoPid = NoPid
    Overlap = FALSE
SPECIFICATION Spec
INVARIANTS
    CheckSeesHolder
PROPERTIES
    ImplementsMutex
