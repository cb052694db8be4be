\* Three T1s in pages of two, two slots, requests throttled, refused and late.
SPECIFICATION FairSpec
CONSTANTS
    T1s = {1, 2, 3}
    PageSize = 2
    Parallel = 2
    Pace = 1
    MaxAttempts = 3
    Backoff = 1
    RetryAfters = {0, 3}
    Timeout = 1
    MaxChanges = 2
INVARIANTS
    TypeOK
    InFlightBounded
    EveryT1Accounted
    ListingFaithful
    CancelPrompt
PROPERTIES
    QuietAfterReturn
    FetchReturns
CHECK_DEADLOCK FALSE
