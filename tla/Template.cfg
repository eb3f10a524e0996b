SPECIFICATION Spec
CONSTANTS
    a = a
    b = b
    Clients = {a, b}
    Requests <- MCRequests
    Sizes <- MCSizes
    UserNames = {"edit", "shell"}
    MaxUser = 1
    MaxFaults = 1
    Hazards = {"kill", "exit"}
INVARIANTS  PanesFollowLeaves
PROPERTIES OnlyTheInitialDies 
CHECK_DEADLOCK FALSE
