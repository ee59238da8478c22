SPECIFICATION Spec
CONSTANTS
    r1 = r1  r2 = r2  r3 = r3  o1 = o1  o2 = o2  k1 = k1  b1 = b1  b2 = b2
    c1 = c1  c2 = c2  c3 = c3  free = free  pro = pro
    Request <- ThreeRequests
    Owner <- OneOwner
    Plan <- OnePlan
    Key <- OneKey
    Body <- TwoBodies
    Code <- TwoCodes
    RequestData <- KeyedData
    Reserved <- ReservedCode
    Limits <- LimitThree
    MaxGenerations = 2
    TTL = 2
    MaxClock = 2
    CanCrash = TRUE
SYMMETRY Symmetry3
CHECK_DEADLOCK FALSE
INVARIANTS TypeOK OneLinkPerKey ClaimAndLinkTogether RefusedLeavesNothing
PROPERTIES ImplementsPromise
