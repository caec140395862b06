\* A terminal's copy of the directory.  Sockets run out: the system may stop.
SPECIFICATION FairSpec
CONSTANTS
    t1 = t1
    c1 = c1
    c2 = c2
    i1 = i1
    HostTerminal = HostTerminal
    NoConn = NoConn
    Absent = Absent
    MaxSeq = 3
    MaxLate = 1
    Terminals <- MCTerminals
    Conns <- MCConns
    Infos <- MCInfos
    Owner <- MCOwner
INVARIANTS TypeOK ViewIsHistorical
PROPERTIES RefreshCatchesUp
CHECK_DEADLOCK FALSE
