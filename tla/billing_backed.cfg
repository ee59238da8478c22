SPECIFICATION Spec
CONSTANTS
    c1 = c1  c2 = c2  c3 = c3  h1 = h1  h2 = h2
    Checkout <- TwoCheckouts
    Handler <- TwoHandlers
    Configured = FALSE
    MaxChanges = 2
    MaxDuplicates = 1
    InOrder = FALSE
    MaxFailures = 1
CHECK_DEADLOCK FALSE
SYMMETRY Symmetry
INVARIANTS TypeOK PaidPlanIsBacked InSync
