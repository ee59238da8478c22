SPECIFICATION Spec
CONSTANTS
    v1 = v1  v2 = v2  p1 = p1  p2 = p2  w1 = w1  w2 = w2  w3 = w3
    Event <- OneEvent
    Endpoint <- OneEndpoint
    Worker <- ThreeWorkers
    MaxAttempts = 3
    RetryDelayed <- Delayed
    Faults <- AllFaults
    MaxRedeliveries = 2
CHECK_DEADLOCK FALSE
SYMMETRY Symmetry
INVARIANTS NeverStranded
