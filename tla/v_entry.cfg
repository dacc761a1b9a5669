\* wifi access point on and off, an edit, wired access point
CONSTANTS
    None = None
    Homes = {h1, h2}
    Leases = {a1, a2}
    Wans = {w1, w2}
    Factory = h1
    FactoryWan = w1
    Scenarios <- Mixed
    Hasty = FALSE
    Lags = FALSE
SPECIFICATION Spec
PROPERTIES
    EntryIsBackedUp
