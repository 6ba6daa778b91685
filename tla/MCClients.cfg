CONSTANTS
    Client = {c1, c2}
    Sub = {s1}
    Browser = {b1, b2}
    Password = {p1, p2}
    Request = {r1, r2}
    None = None
    MaxSecrets = 3
    MaxFaults = 1
SYMMETRY Symmetry
SPECIFICATION Spec
INVARIANTS
    SetupPasswordWorks
    SecretIsHeld
    OnlyLiveRequestsAct
PROPERTIES
    RevokedIsFinal
CHECK_DEADLOCK FALSE
