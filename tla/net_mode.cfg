\* households of every sort switch to access points and back
CONSTANTS
    None = None
    Homes = {h1, h2}
    Leases = {a1, a2}
    Wans = {w1, w2}
    Factory = h1
    FactoryWan = w1
    Scenarios <- Households
    Hasty = FALSE
    Lags = FALSE
SPECIFICATION FairSpec
INVARIANTS
    RouterConfigKept
    CanGoBack
    AddressSurvives
    ToldTheAddress
PROPERTIES
    BridgeOpens
