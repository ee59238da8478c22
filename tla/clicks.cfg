SPECIFICATION FairSpec
CONSTANTS
    a1 = a1  a2 = a2  w1 = w1  w2 = w2
    Redirect <- TwoRedirects
    Worker <- TwoWorkers
    MaxRetries = 1
    Window = 2
    MaxDay = 2
    MaxErrors = 2
    MayLose = TRUE
CHECK_DEADLOCK FALSE
INVARIANTS TypeOK CountedOnce AnnouncedIsStored NotGivenUpEarly ReportConsistent
PROPERTIES EveryClickStored
