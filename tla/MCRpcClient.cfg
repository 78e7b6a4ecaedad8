\* Two calls, one retry, a breaker that trips on the second failure.
SPECIFICATION FairSpec
CONSTANTS
    c1 = c1
    c2 = c2
    Calls = {c1, c2}
    MaxRetries = 1
    Threshold = 2
    RelayAllowAny = TRUE
INVARIANTS SendOnce OneProbe AnswersNeverTrip
PROPERTIES Recovers OutageTrips
