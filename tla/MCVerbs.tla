------------------------------- MODULE MCVerbs -------------------------------
(* Verbs on small instances: two windows, two panes, a client that writes and *)
(* one that only looks.                                                       *)
EXTENDS Verbs

CONSTANTS a, b, s1, w1, w2, p1, p2

ForPane(kind, value) == [kind |-> kind, pane |-> p1, window |-> Null, value |-> value]
ForPane2(kind, value) == [kind |-> kind, pane |-> p2, window |-> Null, value |-> value]
ForWindow(kind, value) == [kind |-> kind, pane |-> Null, window |-> w1, value |-> value]
ForSession(kind, value) == [kind |-> kind, pane |-> Null, window |-> Null, value |-> value]

\* One command of each kind that takes a path of its own.
EachKind ==
    {ForPane("split-pane", TRUE), ForPane("break-pane", TRUE), ForPane2("close-pane", TRUE),
     ForPane2("set-object-policy", TRUE), ForPane("select-pane", TRUE),
     ForPane2("pane.capture", TRUE), ForWindow("kill-window", TRUE),
     ForWindow("set-synchronize-panes", TRUE), ForWindow("resize-managed-window", TRUE),
     ForSession("open-window", TRUE), ForSession("rename-session", FALSE),
     ForSession("kill-session", TRUE), ForSession("session-proxy.info", TRUE)}

\* What the reader tries.
Look == {ForPane("split-pane", TRUE), ForPane2("pane.capture", TRUE)}
WriterAndReader == (a :> EachKind) @@ (b :> Look)
PasteAndKey == (a :> {1, 2}) @@ (b :> {})
OneBox == (a :> {2}) @@ (b :> {})
Two == (a :> 2) @@ (b :> 1)
Three == (a :> 3) @@ (b :> 0)
=============================================================================
