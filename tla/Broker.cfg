SPECIFICATION FairSpec
CONSTANTS
    Broker = {b1, b2}
    Client = {c1}
    MayCrash = {b1}
    MetricsHttp = {b1}
    None = None
INVARIANTS  LeavesInOrder
 
CHECK_DEADLOCK FALSE
