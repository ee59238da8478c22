SPECIFICATION Spec
CONSTANTS
    c1 = c1  c2 = c2  u1 = u1  u2 = u2  r1 = r1
    w1 = w1  w2 = w2  k1 = k1  Never = Never  Keep = Keep
    Code <- OneCode
    Url <- TwoUrls
    Reader <- OneReader
    Writer <- OneWriter
    CacheKey <- OneKey
    Fold <- OwnKeys
    Lifetime <- ShortOrNever
    Patches <- UrlOrDates
    Timeout = 2
    MissTimeout = 1
    MaxEdits = 0
    MayFail = FALSE
CHECK_DEADLOCK FALSE
INVARIANTS InvalidationHolds
