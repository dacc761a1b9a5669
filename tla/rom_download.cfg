\* an upgrade with cancels, and an upgrade together with the hourly one
CONSTANTS
    Task = {t1, t2}
    Rom = rom
    None = None
    Size = 1
    Limit = 1
    Errors = {"list", "job"}
    Scenarios <- Usual
    InGap = FALSE
SPECIFICATION FairSpec
INVARIANTS
    TypeOK
    DownloadsGivenBack
    NothingLeftRunning
PROPERTIES
    DownloadEnds
CHECK_DEADLOCK FALSE
