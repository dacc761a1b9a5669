\* cron's otapredownload against requests
CONSTANTS
    w1 = w1
    w2 = w2
    c1 = c1
    c2 = c2
    f1 = f1
    f2 = f2
    NoPid = NoPid
    Web <- OneWeb
    Cron <- OneCron
    Flash <- TwoFlash
    Kinds <- AllButCancel
    OtaOn = TRUE
    OtaBackground = TRUE
    LuaCrash = FALSE
    Overlap = FALSE
SPECIFICATION Spec
SYMMETRY Symmetry
PROPERTIES
    FlashGuard
    NothingStarts
