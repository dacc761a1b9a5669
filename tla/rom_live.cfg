\* every program goes on, cancels at every moment, checkupgrade.lua may die
CONSTANTS
    w1 = w1
    w2 = w2
    c1 = c1
    c2 = c2
    f1 = f1
    f2 = f2
    NoPid = NoPid
    Web <- OneWeb
    Cron <- OneCron
    Flash <- TwoFlash
    Kinds <- UpgradeAndCancel
    OtaOn = TRUE
    OtaBackground = FALSE
    LuaCrash = TRUE
    Overlap = TRUE
SPECIFICATION FairSpec
PROPERTIES
    UpgradeEnds
    NotLockedOut
    CancelUnlocks
