CONSTANTS
    f1 = f1
    f2 = f2
    s1 = s1
    s2 = s2
    Flight = {f1, f2}
    Sub = {s1, s2}
    FlightOf <- MCFlightOf
    TzAware = TRUE
    Inactive = 1
    Preflight = 2
    Interval = 1
    MaxWrites = 3
    MaxFaults = 1
SPECIFICATION FairSpec
INVARIANTS
PROPERTIES
    OnlyIdleAreRemoved
    ScanIsThorough
    InactiveAreRemoved
