\* Two windows, a client, three changes and one fault.
CONSTANTS
    Window = {w1, w2}
    Initial = {w1}
    Client = {c1}
    Idle = Idle
    CycleBudget = 4
    Threshold = 80
    Events = 3
    Faults = 1
SPECIFICATION FairSpec
INVARIANTS DirtyIsServed
PROPERTIES CommitsAreClean EventuallySynced
