\* Two names, two verbs, one change by others and one wrong answer of each kind.
CONSTANTS
    a = a
    b = b
    Name = {a, b}
    NoName = NoName
    MaxId = 2
    Found <- One
    c1 = c1
    c2 = c2
    Caller = {c1, c2}
    Suffixed <- AThenB
    Verbs <- MakerAndUser
    Slot = {1, 2}
    Resting = Resting
    Events = 1
    Faults = 1
    Flaps = 1
SPECIFICATION FairSpec
PROPERTIES IndexStaysRight LiveIsKnown EverythingSettles
CHECK_DEADLOCK FALSE
