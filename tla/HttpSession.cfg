\* A client that pipelines and one that waits for its answers, on a server that keeps no session
\* without pruning: sessions freed with a handler still to run.
SPECIFICATION FairSpec
CONSTANTS
    MaxConns = 2
    Pipelining = {1}
    Limit = 0
    MaxRequests = 3
    MaxFaults = 2
INVARIANTS TypeOK OrphansTimedOut LeaksUnwritten
PROPERTIES ImplementsDialogue ConnectionsEnd
\* The connections are used up.
CHECK_DEADLOCK FALSE
