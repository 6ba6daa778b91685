CONSTANTS
    Number = {n1, n2}
    Feeds <- MCFeeds
    Limit = 1
    MaxFlights = 3
    MaxWrites = 5
SYMMETRY Symmetry
SPECIFICATION Spec
INVARIANTS
    BatchAgrees
    AnswerOfAMoment
    PickIsFeedByFeed
