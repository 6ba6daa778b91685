CONSTANTS
    k1 = k1
    k2 = k2
    None = None
    Unparsable = Unparsable
    Consumer = {c1}
    Flight = {f1}
    Key = {k1, k2}
    Parsed <- MCParsed
    Keyed = TRUE
    Earliest = FALSE
    MaxMessages = 2
    MaxFaults = 2
SPECIFICATION FairSpec
INVARIANTS
    CommittedIsAccounted
    FaultCostsOneMessage
    NeverOvercounts
PROPERTY EveryMessageHandled
CHECK_DEADLOCK FALSE
