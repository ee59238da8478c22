SPECIFICATION Spec
CONSTANTS
    r1 = r1  r2 = r2  r3 = r3  empty = empty  ann = ann  p1 = p1  p2 = p2  older = older
    Request <- ThreeRequests
    Loads <- MixedLoads
    Value <- TwoValues
    Blank <- empty
    Prefix <- TwoPrefixes
    Older <- older
    UserForms <- BothFields
    MaxEdits = 0
SYMMETRY Symmetry
CHECK_DEADLOCK FALSE
PROPERTIES RevokedAtKept
