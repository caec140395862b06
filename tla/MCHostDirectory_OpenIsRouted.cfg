\* The late close of a replaced socket unroutes the new one (host-manager.ts:223).
SPECIFICATION HostSpec
CONSTANTS
    t1 = t1
    t2 = t2
    c1 = c1
    c2 = c2
    c3 = c3
    i1 = i1
    i2 = i2
    HostTerminal = HostTerminal
    NoConn = NoConn
    Absent = Absent
    MaxSeq = 4
    Terminals <- MCTerminals
    Conns <- MCConns
    Infos <- MCInfos
    Owner <- MCOwner
INVARIANT OpenIsRouted
CHECK_DEADLOCK FALSE
