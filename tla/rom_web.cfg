\* two concurrent requests; otapredownload off
CONSTANTS
    w1 = w1
    w2 = w2
    c1 = c1
    c2 = c2
    f1 = f1
    f2 = f2
    NoPid = NoPid
    Web <- TwoWeb
    Cron <- TwoCron
    Flash <- TwoFlash
    Kinds <- UpgradeAndFlash
    OtaOn = FALSE
    OtaBackground = FALSE
    LuaCrash = FALSE
    Overlap = FALSE
SPECIFICATION Spec
SYMMETRY Symmetry
INVARIANTS
    TypeOK
    OneUpgrade
    UpgradeVisible
    DownloadingIsTrue
