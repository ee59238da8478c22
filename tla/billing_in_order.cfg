SPECIFICATION FairSpec
CONSTANTS
    c1 = c1  c2 = c2  c3 = c3  h1 = h1  h2 = h2
    Checkout <- TwoCheckouts
    Handler <- OneHandler
    Configured = FALSE
    MaxChanges = 3
    MaxDuplicates = 0
    InOrder = TRUE
    MaxFailures = 0
CHECK_DEADLOCK FALSE
INVARIANTS OneOpenRow OneStripeCustomer
PROPERTIES CreatedActivates EveryEventAnswered
