-------------------------------- MODULE Mirror --------------------------------
(***************************************************************************)
(* One client's view of a session: the snapshot and the deltas the driver  *)
(* projects from its model (state/projection.ts), the numbered stream they *)
(* come in (runtime/serve.ts), the mirror the client keeps                 *)
(* (clients/ts/src/mirror.ts) and the renderer attached to it.             *)
(*                                                                         *)
(* A window has a name, options (synchronize-panes, the monitors) and a    *)
(* layout, 0 while tmux has not said it; a pane has its window, the facts  *)
(* every message carries (size, label, policy, dead), and a title, which   *)
(* pane.opened does not carry (nor is there a mode in it, or in a          *)
(* snapshot).  0 is what a mirror assumes of what it was not told.  The    *)
(* ids of tmux are never used again.                                       *)
(***************************************************************************)
EXTENDS Integers, Sequences, SequencesExt, Functions, TLC

CONSTANTS
    Window, Pane,
    FirstWindow, FirstPane,     \* what the session has at the start
    Changes,                    \* bound: changes of the driver's model, ...
    TotalEdits,                 \* ... and the edits in all of them together
    Others,                     \* bound: messages that are not about the model
    Losses                      \* bound: messages lost

ASSUME Start == FirstWindow \in Window /\ FirstPane \in Pane
                /\ {Changes, TotalEdits, Others, Losses} \subseteq Nat

VARIABLES
    model,      \* the driver's SessionModel, and the ids tmux has used
    changes, edits, others, losses,    \* how often the bounded actions happened
    served,     \* "no", "subscribed" or "yes", once the snapshot is sent
    nextSeq,    \* ClientState.nextSeq
    wire,       \* driver -> client
    asks,       \* resync requests under way
    mirror,     \* Mirror.#model
    lastSeq,    \* Mirror.#lastSeq, 0 before the first snapshot
    asked,      \* #resyncRequested
    healed,     \* #resyncDelivered
    open,       \* the connection
    prev,       \* prevModel of the attached hook, Nothing while there is none
    view,       \* what the calls of the hook add up to
    truth       \* history: the model that the last message applied completes

serverVars == <<model, edits, changes, others, served, nextSeq>>
mirrorVars == <<mirror, lastSeq, asked, healed, open, truth>>
hookVars == <<prev, view>>
vars == <<serverVars, losses, wire, asks, mirrorVars, hookVars>>

Nothing == [kind |-> "nothing"]
Same(f, S) == [x \in DOMAIN f \ S |-> f[x]]      \* f without the keys S

-----------------------------------------------------------------------------
(* The driver's model and its changes.  A pane's window is in the model, a  *)
(* window has a pane, and the focus is a pane of the active window.         *)

FocusOf(m) == [pane |-> m.focus, window |-> m.panes[m.focus].window]
Emptied(m, p) ==
    {m.panes[p].window} \ {m.panes[q].window : q \in DOMAIN m.panes \ {p}}
\* The model without pane p, its window too if that was its last pane.
Without(m, p) ==
    [m EXCEPT !.panes = Same(m.panes, {p}), !.windows = Same(m.windows, Emptied(m, p))]
Added(m, w, p) ==
    [m EXCEPT
        !.windows = IF w \in DOMAIN @ THEN @ ELSE (w :> [name |-> 1, opts |-> 0, layout |-> 0]) @@ @,
        !.panes = (p :> [window |-> w, facts |-> 1, title |-> 0]) @@ @,
        !.used = @ \cup {w, p}]
Moved(m, p, w) ==
    [m EXCEPT !.panes[p].window = w, !.windows = Same(m.windows, Emptied(m, p) \ {w})]

Edits(m) ==
    LET P == DOMAIN m.panes
        W == DOMAIN m.windows
    IN  {Added(m, w, p) : w \in W \cup (Window \ m.used), p \in Pane \ m.used}
        \cup UNION {{[Without(m, p) EXCEPT !.focus = q] : q \in P \ {p}} : p \in P}
        \cup {Moved(m, p, w) : p \in P, w \in W}
        \cup {[m EXCEPT !.focus = p] : p \in P}
        \cup {[m EXCEPT !.panes[p].facts = 3 - @] : p \in P}
        \cup {[m EXCEPT !.panes[p].title = 1] : p \in P}
        \cup {[m EXCEPT !.windows[w].name = 3 - @] : w \in W}
        \cup {[m EXCEPT !.windows[w].opts = 1 - @] : w \in W}
        \cup {[m EXCEPT !.windows[w].layout = IF @ = 1 THEN 2 ELSE 1] : w \in W}
\* A requery brings in what happened since the last: one edit or two.
Nexts(m, n) ==
    IF n = 1 THEN Edits(m) \ {m}
    ELSE UNION {Edits(e) : e \in Edits(m)} \ (Edits(m) \cup {m})

-----------------------------------------------------------------------------
(* Projection: a snapshot, and the deltas from one model to the next         *)

SnapshotWindow(m, w) ==
    [name |-> m.windows[w].name, opts |-> m.windows[w].opts,
     layout |-> m.windows[w].layout, active |-> FocusOf(m).window = w]
SnapshotPane(m, p) ==
    [window |-> m.panes[p].window, facts |-> m.panes[p].facts, title |-> m.panes[p].title]
Snapshot(m) ==
    [windows |-> [w \in DOMAIN m.windows |-> SnapshotWindow(m, w)],
     panes |-> [p \in DOMAIN m.panes |-> SnapshotPane(m, p)],
     focus |-> FocusOf(m)]

Delta(type, id, val) == [type |-> type, id |-> id, val |-> val]
Each(S, Message(_)) ==
    LET s == SetToSeq(S) IN [i \in DOMAIN s |-> Message(s[i])]

Stay(a, b) == DOMAIN a \cap DOMAIN b
New(a, b) == DOMAIN b \ DOMAIN a
\* A new window's layout follows its window.added, when it has one.
OnlyOldLayouts(a, b) == {w \in Stay(a, b) : b[w].layout \notin {a[w].layout, 0}}  \* mutant
Relaid(a, b) ==
    {w \in DOMAIN b : b[w].layout # 0 /\ (w \in DOMAIN a => a[w].layout # b[w].layout)}

WindowAdded(m, w) ==
    Delta("window.added", w, [name |-> m.windows[w].name, active |-> FocusOf(m).window = w])
PaneOpened(m, p) ==
    Delta("pane.opened", p, [window |-> m.panes[p].window, facts |-> m.panes[p].facts])
Openings(old, new) ==
    Each(New(old.windows, new.windows), LAMBDA w : WindowAdded(new, w))
    \o Each(New(old.panes, new.panes), LAMBDA p : PaneOpened(new, p))
Closings(old, new) ==
    Each(New(new.panes, old.panes), LAMBDA p : Delta("pane.closed", p, 0))
    \o Each(New(new.windows, old.windows), LAMBDA w : Delta("window.closed", w, 0))

\* The deltas about field f of what both models have.
FieldDeltas(type, a, b, f) ==
    Each({x \in Stay(a, b) : a[x][f] # b[x][f]}, LAMBDA x : Delta(type, x, b[x][f]))
FocusChanged(m) == Delta("focus.changed", 0, FocusOf(m))
FocusDeltas(old, new) == IF FocusOf(old) = FocusOf(new) THEN <<>> ELSE <<FocusChanged(new)>>

Diff(old, new) ==
    Openings(old, new)
    \o Each(Relaid(old.windows, new.windows),
            LAMBDA w : Delta("layout.updated", w, new.windows[w].layout))
    \o FieldDeltas("pane.moved", old.panes, new.panes, "window")
    \o FieldDeltas("pane.changed", old.panes, new.panes, "facts")
    \o FieldDeltas("pane.title-changed", old.panes, new.panes, "title")
    \o FieldDeltas("window.renamed", old.windows, new.windows, "name")
    \o FieldDeltas("window.options.changed", old.windows, new.windows, "opts")
    \o FocusDeltas(old, new)
    \o Closings(old, new)

-----------------------------------------------------------------------------
(* The mirror: applySnapshot and applyDelta *)

\* Everything is replaced.
FromSnapshot(s) ==
    [windows |-> [w \in DOMAIN s.windows |-> s.windows[w]],
     panes |-> [p \in DOMAIN s.panes |-> s.panes[p]],
     focus |-> s.focus]

Deactivated(m) == [x \in DOMAIN m.windows |-> [m.windows[x] EXCEPT !.active = FALSE]]
AddWindow(m, w, v) ==
    [m EXCEPT !.windows =
        (w :> [name |-> v.name, opts |-> 0, layout |-> 0, active |-> v.active])
        @@ (IF v.active THEN Deactivated(m) ELSE m.windows)]
OpenPane(m, p, v) ==
    [m EXCEPT !.panes =
        (p :> [window |-> v.window, facts |-> v.facts, title |-> 0]) @@ @]
Focused(m, f) ==
    [m EXCEPT !.focus = f,
              !.windows = [w \in DOMAIN m.windows |->
                              [m.windows[w] EXCEPT !.active = (w = f.window)]]]

PaneField == ("pane.moved" :> "window" @@ "pane.changed" :> "facts"
              @@ "pane.title-changed" :> "title")
WindowField == ("window.renamed" :> "name" @@ "window.options.changed" :> "opts"
                @@ "layout.updated" :> "layout")

\* What is about a pane or a window the mirror does not have changes nothing.
PaneChanged(m, d) ==
    IF d.id \in DOMAIN m.panes THEN [m EXCEPT !.panes[d.id][PaneField[d.type]] = d.val] ELSE m
WindowChanged(m, d) ==
    IF d.id \in DOMAIN m.windows THEN [m EXCEPT !.windows[d.id][WindowField[d.type]] = d.val]
    ELSE m
Apply(m, d) ==
    CASE d.type = "window.added" -> AddWindow(m, d.id, d.val)
      [] d.type = "pane.opened" -> OpenPane(m, d.id, d.val)
      [] d.type = "pane.closed" -> [m EXCEPT !.panes = Same(@, {d.id})]
      [] d.type = "window.closed" -> [m EXCEPT !.windows = Same(@, {d.id})]
      [] d.type = "focus.changed" -> Focused(m, d.val)
      [] d.type \in DOMAIN PaneField -> PaneChanged(m, d)
      [] d.type \in DOMAIN WindowField -> WindowChanged(m, d)
      [] OTHER -> m

-----------------------------------------------------------------------------
(* The hook: applyModelDiff after each change of the mirror *)

Unseen == [windows |-> <<>>, panes |-> <<>>, focus |-> [pane |-> 0, window |-> 0]]
\* prevModel keeps, of the mirror, what the hook is told about.
Remembered(m) ==
    [windows |-> [w \in DOMAIN m.windows |->
                    [name |-> m.windows[w].name, layout |-> m.windows[w].layout]],
     panes |-> [p \in DOMAIN m.panes |->
                    [window |-> m.panes[p].window, facts |-> m.panes[p].facts,
                     title |-> m.panes[p].title]],
     focus |-> m.focus]
\* onWindowAdded, Renamed, LayoutChanged and Closed; onPaneOpened (it says no
\* title), Resized, Moved, TitleChanged and Closed; onFocusChanged.
NotMoved(v, old, new) == [v EXCEPT !.facts = new.facts]     \* mutant: no onPaneMoved
PaneCalls(v, old, new) ==
    [window |-> IF old.window = new.window THEN v.window ELSE new.window,
     facts |-> IF old.facts = new.facts THEN v.facts ELSE new.facts,
     title |-> IF old.title = new.title THEN v.title ELSE new.title]
Called(v, old, m) ==
    LET new == Remembered(m)
        window(w) ==
          IF w \notin DOMAIN old.windows THEN new.windows[w]
          ELSE [f \in {"name", "layout"} |->
                  IF old.windows[w][f] = new.windows[w][f] THEN v.windows[w][f]
                  ELSE new.windows[w][f]]
        pane(p) ==
          IF p \notin DOMAIN old.panes THEN [new.panes[p] EXCEPT !.title = 0]
          ELSE PaneCalls(v.panes[p], old.panes[p], new.panes[p])
    IN  [windows |-> [w \in DOMAIN new.windows |-> window(w)],
         panes |-> [p \in DOMAIN new.panes |-> pane(p)],
         focus |-> IF old.focus = new.focus THEN v.focus ELSE new.focus]
\* #emitChange
Emits(m) ==
    IF prev = Nothing THEN UNCHANGED hookVars
    ELSE prev' = Remembered(m) /\ view' = Called(view, prev, m)

\* Mirror.attach: the mirror as it is, then onFocusChanged, then the changes.
AttachHook ==
    /\ prev = Nothing
    /\ prev' = Remembered(mirror)
    /\ view' = Called(Unseen, Unseen, mirror)
    /\ UNCHANGED <<serverVars, losses, wire, asks, mirrorVars>>

-----------------------------------------------------------------------------
(* The stream *)

Init ==
    /\ model = Added([windows |-> <<>>, panes |-> <<>>, focus |-> FirstPane, used |-> {}],
                     FirstWindow, FirstPane)
    /\ changes = 0 /\ edits = 0 /\ others = 0 /\ losses = 0
    /\ served = "no" /\ nextSeq = 1
    /\ wire = <<>> /\ asks = 0
    /\ mirror = Unseen /\ lastSeq = 0
    /\ asked = FALSE /\ healed = FALSE /\ open = TRUE
    /\ truth = Nothing
    /\ prev = Nothing /\ view = Unseen

\* A message of the stream; the last of a change completes the model `is`.
Stamped(seq, delta, is) == [seq |-> seq, msg |-> delta, is |-> is]
Stamp(deltas, m) ==
    [i \in DOMAIN deltas |->
        Stamped(nextSeq + i - 1, deltas[i], IF i = Len(deltas) THEN m ELSE Nothing)]
Sends(messages) ==
    /\ wire' = wire \o messages
    /\ nextSeq' = nextSeq + Len(messages)

\* addClient, up to the microtask in which it waits for the client's handler.
Subscribe ==
    /\ served = "no"
    /\ served' = "subscribed"
    /\ UNCHANGED <<model, edits, changes, others, nextSeq, losses, wire, asks, mirrorVars, hookVars>>
SendSnapshot ==
    /\ served = "subscribed"
    /\ served' = "yes"
    /\ Sends(<<Stamped(nextSeq, Delta("snapshot", 0, Snapshot(model)), model)>>)
    /\ UNCHANGED <<model, edits, changes, others, losses, asks, mirrorVars, hookVars>>
\* onModelChange of a client that has subscribed, and still is one.
Change ==
    /\ changes < Changes
    /\ changes' = changes + 1
    /\ \E n \in 1..2 :
          /\ edits + n <= TotalEdits
          /\ edits' = edits + n
          /\ model' \in Nexts(model, n)
    /\ IF served # "no" /\ open THEN Sends(Stamp(Diff(model, model'), model'))
       ELSE UNCHANGED <<wire, nextSeq>>
    /\ UNCHANGED <<others, served, losses, asks, mirrorVars, hookVars>>
\* pane.notify, a hydration sentinel, pane.attach.failed, client-count, command.response, error.
NotOfTheModel == Delta("other", 0, 0)
SendOther ==
    /\ others < Others /\ served # "no" /\ open
    /\ others' = others + 1
    /\ Sends(<<Stamped(nextSeq, NotOfTheModel, model)>>)
    /\ UNCHANGED <<model, edits, changes, served, losses, asks, mirrorVars, hookVars>>
\* handleResyncRequest
Resync ==
    /\ asks > 0 /\ open
    /\ asks' = asks - 1
    /\ Sends(<<Stamped(nextSeq, Delta("snapshot", 0, Snapshot(model)), model)>>)
    /\ UNCHANGED <<model, edits, changes, others, served, losses, mirrorVars, hookVars>>

\* The fault that the numbers are for: a message that is not a snapshot is
\* lost between the driver and the mirror.
Lose ==
    /\ losses < Losses
    /\ \E i \in DOMAIN wire :
          /\ wire[i].msg.type # "snapshot"
          /\ wire' = RemoveAt(wire, i)
    /\ losses' = losses + 1
    /\ UNCHANGED <<serverVars, asks, mirrorVars, hookVars>>

Arrives(type) == open /\ wire # <<>> /\ (Head(wire).msg.type = "snapshot") = (type = "snapshot")

StillAsked == asked               \* mutant: the flag is not cleared
Settled == FALSE
\* receiveSnapshot
ReceiveSnapshot ==
    /\ Arrives("snapshot")
    /\ LET s == Head(wire) IN
          /\ mirror' = FromSnapshot(s.msg.val)
          /\ lastSeq' = s.seq
          /\ truth' = s.is
          /\ Emits(mirror')
    /\ asked' = Settled
    /\ healed' = (healed \/ asked)
    /\ wire' = Tail(wire)
    /\ UNCHANGED <<serverVars, losses, asks, open>>

Gap(d) == d.seq # lastSeq + 1
FirstGap == ~asked /\ ~healed
\* receiveDelta, in order: applied, or counted if it is not about the model.
ReceiveDelta ==
    /\ Arrives("delta") /\ lastSeq # 0
    /\ ~Gap(Head(wire))
    /\ LET d == Head(wire) IN
          /\ mirror' = Apply(mirror, d.msg)
          /\ lastSeq' = d.seq
          /\ truth' = d.is
          /\ IF d.msg.type = "other" THEN UNCHANGED hookVars ELSE Emits(mirror')
    /\ wire' = Tail(wire)
    /\ UNCHANGED <<serverVars, losses, asks, asked, healed, open>>
\* ... before the first snapshot it is ignored ...
IgnoreDelta ==
    /\ Arrives("delta") /\ lastSeq = 0
    /\ wire' = Tail(wire)
    /\ UNCHANGED <<serverVars, losses, asks, mirrorVars, hookVars>>
\* ... and on a gap it is dropped: the first gap asks for a snapshot, those
\* until it comes are its consequence, one after it closes the connection.
FindGap ==
    /\ Arrives("delta") /\ lastSeq # 0
    /\ Gap(Head(wire))
    /\ wire' = Tail(wire)
    /\ \/ /\ asked
          /\ UNCHANGED <<asked, asks, open>>
       \/ /\ ~asked /\ healed
          /\ open' = FALSE
          /\ UNCHANGED <<asked, asks>>
       \/ /\ FirstGap
          /\ asked' = TRUE
          /\ asks' = asks + 1
          /\ UNCHANGED open
    /\ UNCHANGED <<serverVars, losses, mirror, lastSeq, healed, truth, hookVars>>

Receive == ReceiveSnapshot \/ ReceiveDelta \/ IgnoreDelta \/ FindGap
Next ==
    \/ Subscribe \/ SendSnapshot \/ Change \/ SendOther \/ Resync
    \/ Lose \/ Receive \/ AttachHook
Spec == Init /\ [][Next]_vars

\* The socket delivers, and the driver goes on with addClient and answers.
Fairness == WF_vars(Subscribe) /\ WF_vars(SendSnapshot) /\ WF_vars(Receive) /\ WF_vars(Resync)
FairSpec == Spec /\ Fairness

-----------------------------------------------------------------------------
(* Properties *)

\* The mirror agrees with a model of the driver, except that it may assume 0
\* for an option or a title that no message carried.
Assumes(a, b) == a = b \/ a = 0
Agree(m, d) ==
    /\ DOMAIN m.windows = DOMAIN d.windows /\ DOMAIN m.panes = DOMAIN d.panes
    /\ m.focus = FocusOf(d)
    /\ \A w \in DOMAIN d.windows :
          LET a == m.windows[w]
              b == d.windows[w]
          IN  /\ a.name = b.name /\ a.layout = b.layout
              /\ a.active = (FocusOf(d).window = w)
              /\ Assumes(a.opts, b.opts)
    /\ \A p \in DOMAIN d.panes :
          LET a == m.panes[p]
              b == d.panes[p]
          IN  /\ a.window = b.window /\ a.facts = b.facts
              /\ Assumes(a.title, b.title)

\* Type invariant; no resync is asked for twice at a time, and the numbers of
\* the stream are behind the counter.
TypeOK ==
    /\ changes \in 0..Changes /\ edits \in 0..TotalEdits /\ others \in 0..Others /\ losses \in 0..Losses
    /\ served \in {"no", "subscribed", "yes"} /\ open \in BOOLEAN
    /\ lastSeq < nextSeq /\ \A i \in DOMAIN wire : wire[i].seq < nextSeq
    /\ asks \in 0..1 /\ (asks = 1 => asked)
    /\ asked \in BOOLEAN /\ healed \in BOOLEAN

\* In the middle of a change too, a pane of the mirror is in a window of it, and
\* one window at most is the active one.
Coherent(m) ==
    /\ \A p \in DOMAIN m.panes : m.panes[p].window \in DOMAIN m.windows
    /\ \A v, w \in DOMAIN m.windows : m.windows[v].active /\ m.windows[w].active => v = w

\* Whenever a message completes a change, the mirror is the driver's model of
\* that moment: what diffModel says of any change is enough for applyDelta, and the
\* order it says it in never shows a pane without its window.
MirrorFollows == Coherent(mirror) /\ (truth # Nothing => Agree(mirror, truth))

\* What the renderer was called with adds up to the mirror, whenever it was
\* attached and whatever snapshot replaced the mirror under it (titles aside).
HookAgrees ==
    prev # Nothing =>
        /\ view.windows = Remembered(mirror).windows
        /\ view.focus = mirror.focus
        /\ DOMAIN view.panes = DOMAIN mirror.panes
        /\ \A p \in DOMAIN view.panes :
              /\ view.panes[p].window = mirror.panes[p].window
              /\ view.panes[p].facts = mirror.panes[p].facts

\* A mirror that found a gap stands still until it is whole again, or its
\* connection is closed: a lost message is never papered over for good.
GapsHeal ==
    asked ~> (~open \/ (~asked /\ truth # Nothing /\ Agree(mirror, truth)))

\* "paneTitle: the live shell window title, when this pane is replayed from the
\* snapshot already carrying one": a renderer knows the titles of the mirror.
TitlesReachTheHook ==
    prev # Nothing => \A p \in DOMAIN view.panes : view.panes[p].title = mirror.panes[p].title

===============================================================================
