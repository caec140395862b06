\* Two requests, one of whose sockets closes once.
CONSTANTS
    r1 = r1
    r2 = r2
    Requests <- MCRequests
    Refusals = {"429"}
    Failures = {"504"}
    MaxMessages <- MCMessages
    MaxCuts = 1
SPECIFICATION Spec
INVARIANTS TypeOK HeardInOrder SentOnce
PROPERTIES UnsubscribeStopsWork
CHECK_DEADLOCK FALSE
