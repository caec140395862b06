\* Head and tail jobs of two capabilities, one job at a time.
SPECIFICATION FairSpec
CONSTANTS
    c1 = c1
    c2 = c2
    x = x
    y = y
    NoCap = NoCap
    NoJob = NoJob
    MaxInflight = 1
    TailOnlyBelow = 1
    Cap <- MCCap
    Series <- MCSeries
    SeriesOf <- MCSeriesOf
    Lists <- MCLists
INVARIANTS TypeOK NoSeriesIsLost
PROPERTIES HeadsAreServed
