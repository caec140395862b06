\* The handler that waits for a transaction id throws.
CONSTANTS
    o1 = o1
    Order <- MCOrder
    Routes <- MCRoutes
    Amount <- MCAmount
    Unit = 2
    Fee = 3
    MinAmount = 6
    MayNotName = FALSE
    MaxFaults = 1
SPECIFICATION Spec
INVARIANTS ContextComesBack
