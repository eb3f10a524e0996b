\* Two windows, two panes; one lost message is healed, two close the connection.
CONSTANTS
    w1 = w1
    w2 = w2
    p1 = p1
    p2 = p2
    Window = {w1, w2}
    Pane = {p1, p2}
    FirstWindow = w1
    FirstPane = p1
    Changes = 2
    TotalEdits = 3
    Others = 1
    Losses = 2
SPECIFICATION FairSpec
INVARIANTS  HookAgrees
PROPERTY GapsHeal
CHECK_DEADLOCK FALSE
