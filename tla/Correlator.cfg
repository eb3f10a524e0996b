\* Three attempts that may stall and the last one, then three more commands.
CONSTANTS
    MaxSent = 11
    Bodies = {"plain", "guard"}
    Bounded = 3
    SlotCount = 2
    None = None
SPECIFICATION FairSpec
INVARIANTS NoUnsolicited
PROPERTIES EverySettles KeepsPromise
CHECK_DEADLOCK FALSE
