\* A token bucket on its semaphore.  The callers run out: no deadlock check.
SPECIFICATION FairSpec
CONSTANTS
    small = small
    big = big
    huge = huge
    other = other
    s1 = s1
    NoSignal = NoSignal
    Capacity = 2
    RefillAmount = 1
    MaxLives = 2
    Callers <- MCCallers
    Tokens <- MCTokens
    Signals <- MCSignals
    Signal <- MCSignal
INVARIANTS TypeOK TokensAreConserved FirstInLineMustWait
PROPERTIES WaitersAreServed
CHECK_DEADLOCK FALSE
