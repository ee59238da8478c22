SPECIFICATION FairSpec
CONSTANTS
    v1 = v1  v2 = v2  p1 = p1  p2 = p2  w1 = w1  w2 = w2  w3 = w3
    Event <- OneEvent
    Endpoint <- OneEndpoint
    Worker <- TwoWorkers
    MaxAttempts = 3
    RetryDelayed <- Delayed
    Faults <- NoFaults
    MaxRedeliveries = 1
CHECK_DEADLOCK FALSE
PROPERTIES SucceededIsNotResent
