\* Two panes share two clients; less is in flight than the hysteresis.
CONSTANTS
    Pane = {p1, p2}
    Client = {c1, c2}
    High = 3
    Low = 1
    MaxChunk = 1
    Window = 1
    MaxUnread = 0
SPECIFICATION FairSpec
INVARIANTS  QuietAgreement
PROPERTY NobodyAttachedReleases
