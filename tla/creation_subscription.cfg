SPECIFICATION Spec
CONSTANTS
    r1 = r1  r2 = r2  r3 = r3  o1 = o1  o2 = o2  k1 = k1  b1 = b1  b2 = b2
    c1 = c1  c2 = c2  c3 = c3  free = free  pro = pro
    Request <- TwoRequests
    Owner <- OneOwner
    Plan <- TwoPlans
    Key <- NoKeys
    Body <- OneBody
    Code <- TwoCodes
    RequestData <- PlainOneOwner
    Reserved <- NoneReserved
    Limits <- TwoLimits
    MaxGenerations = 2
    TTL = 1
    MaxClock = 0
    CanCrash = FALSE
CHECK_DEADLOCK FALSE
INVARIANTS NoSubscriptionMeansNone
