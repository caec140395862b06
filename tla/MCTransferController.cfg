\* One order along two hops, through two faults.
CONSTANTS
    o1 = o1
    Order <- MCOrder
    Routes <- MCRoutes
    Amount <- MCAmount
    Unit = 2
    Fee = 3
    MinAmount = 6
    MayNotName = TRUE
    MaxFaults = 2
SPECIFICATION Spec
INVARIANTS TypeOK RepeatsAreFaults HopsAreConfirmed AmountsAddUp
PROPERTIES FinallySettled
