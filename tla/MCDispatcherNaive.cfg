CONSTANTS
    f1 = f1
    Flight = {f1}
    Sub = {s1}
    FlightOf <- MCFlightOf
    Content = {c1, c2}
    TzAware = FALSE
    Throttle = 1
    MaxWrites = 2
    MaxFaults = 0
SPECIFICATION Spec
INVARIANT NoLostChange
