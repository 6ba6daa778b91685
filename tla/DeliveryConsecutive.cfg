CONSTANTS
    Sub = {s1}
    WebhookRetries = 0
    FailureLimit = 2
    MaxFanouts = 3
SPECIFICATION Spec
INVARIANT RemovedAfterConsecutiveFailures
CHECK_DEADLOCK FALSE
