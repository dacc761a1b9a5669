SPECIFICATION Spec
CONSTANTS
    tab1 = tab1
    tab2 = tab2
    phone = phone
    browser = browser
    mobile = mobile
    t1 = t1
    t2 = t2
    p1 = p1
    p2 = p2
    Tabs = {tab1, phone}
    DeviceOf <- MCDeviceOf
    Tokens = {t1, t2}
    Chosen = {p1, p2}
    Default = admin
    Garbage = garbage
    None = None
    SessionTime = 3
    Delay = 1
    Forms <- Kinds
    Overlaps = FALSE
    Again = FALSE
    MaxRequests = 3
    MaxTime = 2
    MaxUptime = 4
    MaxCuts = 1
SYMMETRY Sym
INVARIANTS
    DeadStays
    SessionKept
    NonceOnce
    InitedIsChosen
    CanFinish
    ToldIsSet
CHECK_DEADLOCK FALSE
