\* Claims, failover and execution of deployments.  The units may all be down.
SPECIFICATION FairSpec
CONSTANTS
    u1 = u1
    u2 = u2
    d1 = d1
    NoUnit = NoUnit
    NoDeployment = NoDeployment
    MaxFaults = 1
    MaxEdits = 1
    Unit <- MCUnit
    Deployment <- MCDeployment
    Trusted <- MCTrusted
    Policy <- MCPolicy
    Usage <- MCUsage
INVARIANTS TypeOK CurrentRunsAreOwned
PROPERTIES NoTheftFromTheKnown FinallyInPlace
CHECK_DEADLOCK FALSE
