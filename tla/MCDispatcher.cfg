CONSTANTS
    f1 = f1
    Flight = {f1, f2}
    Sub = {s1}
    FlightOf <- MCFlightOf
    Content = {c1, c2}
    TzAware = TRUE
    Throttle = 1
    MaxWrites = 3
    MaxFaults = 1
SPECIFICATION FairSpec
INVARIANTS
    PendingIsSignalled
    NoLostChange
    ThrottleHolds
    SavedIsSent
    NoRepeatedSnapshot
    FinalBeforeDrop
    PreviousIsLastSent
PROPERTIES
    Converges
    ImplementsWebhooks
