\* One connection at a time: connections share the pane and no other state.
CONSTANTS
    c1 = c1
    Client = {c1}
    Job = {1, 2}
    Chunks = 2
    StageCap = 2
    SubCap = 2
    Overlap = FALSE
SPECIFICATION FairSpec
INVARIANTS NoInterleave ScreenIsWhole LateHookSeesSuffix
PROPERTY HydrationsEnd
CHECK_DEADLOCK FALSE
