CONSTANTS
    api = api
    dispatcher = dispatcher
    a1 = a1
    a2 = a2
    a3 = a3
    d1 = d1
    rows = rows
    Process = {api, dispatcher}
    Task = {a1, a2, a3, d1}
    Home <- MCHome
    Collection = {rows}
    Count <- MCCount
    Unique = {rows}
    MaxFaults = 3
SPECIFICATION FairSpec
INVARIANTS
    IndexesAreOnTheWay
    DuplicatesAreExplained
PROPERTY IndexedInTheEnd
CHECK_DEADLOCK FALSE
