\* Safety and liveness of the request lifecycle.  The requests run out, so
\* the model may stop: no deadlock check.
SPECIFICATION FairSpec
CONSTANTS
    r1 = r1
    r2 = r2
    r3 = r3
    guarded = guarded
    metered = metered
    NoService = NoService
    Requests <- MCRequests
    Services <- MCServices
    Options <- MCOptions
    Accepts <- MCAccepts
INVARIANTS TypeOK WithinLimits InOnePlace WorkConserving
PROPERTIES InArrivalOrder StartsArePaid ImplementsReplyStream ProcessingSettles QueueDrains
CHECK_DEADLOCK FALSE
