SPECIFICATION Spec
CONSTANTS
    Scripts <- MCScripts
    MaxControls = 1
    MaxChunk = 3
    MaxOscBuffer = 7
    MaxFrame = 20
INVARIANTS TokensAreWhole SentArrives 
CHECK_DEADLOCK FALSE
