SPECIFICATION Spec
CONSTANTS
    c1 = c1  c2 = c2  c3 = c3  h1 = h1  h2 = h2
    Checkout <- OneCheckout
    Handler <- TwoHandlers
    Configured = TRUE
    MaxChanges = 2
    MaxDuplicates = 0
    InOrder = TRUE
    MaxFailures = 0
CHECK_DEADLOCK FALSE
SYMMETRY Symmetry
INVARIANTS PastDueShown
