\* Three connections, so that one can take over the id of another beside a third; a pane
\* that is there and one that may come.
CONSTANTS
    c1 = c1
    c2 = c2
    c3 = c3
    p1 = p1
    p2 = p2
    Client = {c1, c2, c3}
    Pane = {p1, p2}
    FirstPanes = {p2}
    Pipelined = FALSE
    None = None
SYMMETRY Symmetry
VIEW View
SPECIFICATION Spec
INVARIANTS SeqUnbroken CountIsKept  IdsAreUnique
CHECK_DEADLOCK FALSE
