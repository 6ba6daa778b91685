CONSTANTS
    Sub = {s1}
    WebhookRetries = 1
    FailureLimit = 3
    MaxFanouts = 4
SPECIFICATION FairSpec
INVARIANTS
    FailingIffCounted
    CountIsStreak
    GaveUpAfterFailures
PROPERTIES
    NoResurrection
    EveryDeliveryEnds
CHECK_DEADLOCK FALSE
