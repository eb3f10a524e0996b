\* A writer's two calls and a reader's one, of every kind.
CONSTANTS
    a = a
    b = b
    s1 = s1
    w1 = w1
    w2 = w2
    p1 = p1
    p2 = p2
    Null = Null
    SessionIds = {s1}
    WindowIds = {w1, w2}
    PaneIds = {p1, p2}
    ClientIds = {a, b}
    Session = s1
    FirstWindow = w1
    FirstPane = p1
    Sizes = {1, 2}
    ReadOnly = {b}
    Wanted <- WriterAndReader
    Chunks <- PasteAndKey
    Boxes <- OneBox
    MaxCalls <- Two
    MaxFaults = 1
SPECIFICATION Spec
INVARIANTS ModelIsConsistent AnswersAreTrue OrderIsKept
PROPERTY VerbsSettle
CHECK_DEADLOCK FALSE
