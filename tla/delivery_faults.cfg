SPECIFICATION FairSpec
CONSTANTS
    v1 = v1  v2 = v2  p1 = p1  p2 = p2  w1 = w1  w2 = w2  w3 = w3
    Event <- OneEvent
    Endpoint <- TwoEndpoints
    Worker <- TwoWorkers
    MaxAttempts = 3
    RetryDelayed <- Delayed
    Faults <- AllFaults
    MaxRedeliveries = 0
CHECK_DEADLOCK FALSE
INVARIANTS TypeOK SingleToken AttemptsBounded DeliveredIffSucceeded NothingForgotten
PROPERTIES SettledIsFinal ImplementsLifecycle EventuallySettled
