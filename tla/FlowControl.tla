----------------------------- MODULE FlowControl -----------------------------
(***************************************************************************)
(* Per-pane backpressure between tmux and the attached clients             *)
(* (runtime/flow-control.ts) as wired by runtime/session-proxy.ts: every   *)
(* %output chunk is COUNTED in a per-(pane, client) ledger, then FANNED    *)
(* OUT to the transports, and a transport CREDITS the ledger back when its *)
(* socket has drained.  Crossing High closes the demux gate and tells tmux *)
(* to pause; the slowest ledger falling to Low opens it again.             *)
(*                                                                         *)
(* tmux is external: it is modelled from how the code uses it.  Commands   *)
(* and %output/%pause/%continue travel in two FIFOs.  There is one pair of *)
(* FIFOs per pane: panes share no state on the tmux side, so only their    *)
(* relative order (which nothing here depends on) is abstracted.           *)
(***************************************************************************)
EXTENDS Integers, Sequences

CONSTANTS
    Pane,       \* panes of the session
    Client,     \* transports that may attach (the FC ledger key)
    High,       \* DEFAULT_HIGH_WATER_BYTES, scaled
    Low,        \* DEFAULT_LOW_WATER_BYTES, scaled
    MaxChunk,   \* largest %output chunk
    Window,     \* bound: items tmux keeps in flight towards the driver
    MaxUnread   \* bound: commands tmux leaves unread while it keeps writing

\* The FlowController constructor throws unless Low < High.
ASSUME WaterMarks == High \in Nat /\ Low \in Nat /\ Low < High
ASSUME Bounds == MaxChunk \in Nat \ {0} /\ Window \in Nat /\ MaxUnread \in Nat

VARIABLES
    clients,    \* FlowController._clients: the attached transports
    stalled,    \* clients whose socket is backpressured (sendData -> Promise)
    ledger,     \* FlowController._buffered, 0 when the entry is absent
    owed,       \* bytes handed to a transport whose drain promise is pending
    paused,     \* FlowController._paused and the demux gate
    cmds,       \* refresh-client flow commands written, not yet read by tmux
    stream,     \* tmux -> driver, not yet parsed
    tmuxPaused  \* the pause flag tmux holds for the control client

vars == <<clients, stalled, ledger, owed, paused, cmds, stream, tmuxPaused>>
driver == <<clients, stalled, ledger, owed, paused>>

Verb == {"pause", "continue"}
Item == [kind : Verb \cup {"out"}, size : 0..MaxChunk]

\* The pane's MAX over the ledgers (_maxBuffered) is at or below low-water ...
AllDrained(led, p) == \A c \in Client : led[p][c] <= Low
\* ... or has just gone above high-water.
Crosses(led, p) == \E c \in Client : led[p][c] > High

Clamp(n, top) == IF n > top THEN top ELSE n

\* _pause / _resume append one slotted refresh-client per pane they act on.
Sending(panes, verb) ==
    [p \in Pane |-> IF p \in panes THEN Append(cmds[p], verb) ELSE cmds[p]]
Gate(panes, closed) ==
    [p \in Pane |-> IF p \in panes THEN closed ELSE paused[p]]

Init ==
    /\ clients = {}
    /\ stalled = {}
    /\ ledger = [p \in Pane |-> [c \in Client |-> 0]]
    /\ owed = [p \in Pane |-> [c \in Client |-> 0]]
    /\ paused = [p \in Pane |-> FALSE]
    /\ cmds = [p \in Pane |-> <<>>]
    /\ stream = [p \in Pane |-> <<>>]
    /\ tmuxPaused = [p \in Pane |-> FALSE]

-----------------------------------------------------------------------------
(* Clients *)

\* addClient: a client joins at zero, whatever the pane's state.
AddClient(c) ==
    /\ c \notin clients
    /\ clients' = clients \cup {c}
    /\ UNCHANGED <<stalled, ledger, owed, paused, cmds, stream, tmuxPaused>>

\* removeClient on transport close: the ledgers of the client are dropped and
\* every paused pane whose remaining MAX is low enough is resumed.
DropLedgers(c) == [p \in Pane |-> [ledger[p] EXCEPT ![c] = 0]]
NoRemoveResumes(led) == {}    \* mutant: close does not re-evaluate the MAX
RemoveResumes(led) == {p \in Pane : paused[p] /\ AllDrained(led, p)}

\* The transport's close handler: `closed` first, so the drain credits that
\* the close releases are dropped, then detach, then fc.removeClient.
RemoveClient(c) ==
    /\ c \in clients
    /\ clients' = clients \ {c}
    /\ stalled' = stalled \ {c}
    /\ owed' = [p \in Pane |-> [owed[p] EXCEPT ![c] = 0]]
    /\ ledger' = DropLedgers(c)
    /\ LET resumed == RemoveResumes(ledger')
       IN  /\ paused' = Gate(resumed, FALSE)
           /\ cmds' = Sending(resumed, "continue")
    /\ UNCHANGED <<stream, tmuxPaused>>

\* The socket of c drains: its drain promise resolves, and the deferred
\* noteDrained of every chunk behind it runs in the same microtask queue.
Debit(c) ==
    [p \in Pane |-> [ledger[p] EXCEPT ![c] =
        IF owed[p][c] > @ THEN 0 ELSE @ - owed[p][c]]]
DrainResumes(c, led) ==
    {p \in Pane : owed[p][c] > 0 /\ paused[p] /\ AllDrained(led, p)}

NoteDrained(c) ==
    /\ c \in stalled
    /\ stalled' = stalled \ {c}
    /\ owed' = [p \in Pane |-> [owed[p] EXCEPT ![c] = 0]]
    /\ ledger' = Debit(c)
    /\ LET resumed == DrainResumes(c, ledger')
       IN  /\ paused' = Gate(resumed, FALSE)
           /\ cmds' = Sending(resumed, "continue")
    /\ UNCHANGED <<clients, stream, tmuxPaused>>

-----------------------------------------------------------------------------
(* The notification stream *)

Next1(p) == Head(stream[p])
Arrives(p, kind) == stream[p] # <<>> /\ Next1(p).kind = kind
Consume(p) == stream' = [stream EXCEPT ![p] = Tail(@)]

\* onPaneBytes fans a chunk into the ledger of every registered client.
FanIn(p, n) ==
    [ledger EXCEPT ![p] = [c \in Client |-> IF c \in clients THEN @[c] + n ELSE @[c]]]
\* ... and clamps them to high-water when the chunk crosses it.
ClampedLow(led, p) ==         \* mutant: clamped to the wrong mark
    [led EXCEPT ![p] = [c \in Client |-> Clamp(@[c], Low)]]
Clamped(led, p) ==
    [led EXCEPT ![p] = [c \in Client |-> Clamp(@[c], High)]]

\* A chunk that finds the gate closed, or no client, is only stored.
PaneBytesDropped(p) ==
    /\ Arrives(p, "out")
    /\ paused[p] \/ clients = {}
    /\ Consume(p)
    /\ UNCHANGED <<driver, cmds, tmuxPaused>>

\* The crossing chunk: the gate closes before the fan-out, so no transport
\* ever sees it.
PaneBytesCrossing(p) ==
    /\ Arrives(p, "out")
    /\ ~paused[p] /\ clients # {}
    /\ Crosses(FanIn(p, Next1(p).size), p)
    /\ ledger' = Clamped(FanIn(p, Next1(p).size), p)
    /\ paused' = Gate({p}, TRUE)
    /\ cmds' = Sending({p}, "pause")
    /\ Consume(p)
    /\ UNCHANGED <<clients, stalled, owed, tmuxPaused>>

\* Any other chunk goes to every transport; a socket that took it credits at
\* once, a backpressured one (it stays so until it drains) owes it.
PaneBytesFannedOut(p) ==
    /\ Arrives(p, "out")
    /\ ~paused[p] /\ clients # {}
    /\ ~Crosses(FanIn(p, Next1(p).size), p)
    /\ \E slow \in SUBSET clients :
          /\ stalled \subseteq slow
          /\ stalled' = slow
          /\ owed' = [owed EXCEPT ![p] =
                [c \in Client |-> IF c \in slow THEN @[c] + Next1(p).size ELSE @[c]]]
          /\ ledger' = [ledger EXCEPT ![p] =
                [c \in Client |-> IF c \in slow THEN @[c] + Next1(p).size ELSE @[c]]]
    /\ Consume(p)
    /\ UNCHANGED <<clients, paused, cmds, tmuxPaused>>

\* %pause and %continue move the gate with no regard to the ledgers.
OnPauseNotification(p) ==
    /\ Arrives(p, "pause")
    /\ paused' = Gate({p}, TRUE)
    /\ Consume(p)
    /\ UNCHANGED <<clients, stalled, ledger, owed, cmds, tmuxPaused>>

IgnoreContinue(p) ==          \* mutant: only our own resume opens the gate
    /\ Arrives(p, "continue")
    /\ Consume(p)
    /\ UNCHANGED <<driver, cmds, tmuxPaused>>
OnContinueNotification(p) ==
    /\ Arrives(p, "continue")
    /\ paused' = Gate({p}, FALSE)
    /\ Consume(p)
    /\ UNCHANGED <<clients, stalled, ledger, owed, cmds, tmuxPaused>>

-----------------------------------------------------------------------------
(* tmux (external) *)

\* tmux writes a chunk of a pane that is not paused.
TmuxOutput(p) ==
    /\ ~tmuxPaused[p]
    /\ Len(stream[p]) < Window
    /\ Len(cmds[p]) <= MaxUnread
    /\ \E n \in 1..MaxChunk :
          stream' = [stream EXCEPT ![p] = Append(@, [kind |-> "out", size |-> n])]
    /\ UNCHANGED <<driver, cmds, tmuxPaused>>

\* tmux reads a flow command; it notifies only a change of the pause flag.
TmuxReads(p) ==
    /\ cmds[p] # <<>>
    /\ LET want == Head(cmds[p]) = "pause" IN
          /\ tmuxPaused' = [tmuxPaused EXCEPT ![p] = want]
          /\ stream' = IF tmuxPaused[p] = want THEN stream
                       ELSE [stream EXCEPT ![p] =
                               Append(@, [kind |-> Head(cmds[p]), size |-> 0])]
    /\ cmds' = [cmds EXCEPT ![p] = Tail(@)]
    /\ UNCHANGED driver

Parses(p) ==
    \/ PaneBytesDropped(p) \/ PaneBytesCrossing(p) \/ PaneBytesFannedOut(p)
    \/ OnPauseNotification(p) \/ OnContinueNotification(p)

Next ==
    \/ \E c \in Client : AddClient(c) \/ RemoveClient(c) \/ NoteDrained(c)
    \/ \E p \in Pane : Parses(p) \/ TmuxOutput(p) \/ TmuxReads(p)

Spec == Init /\ [][Next]_vars

\* tmux reads its stdin and the driver's read loop runs; nothing obliges a
\* client to attach, to drain or to leave, nor tmux to write.
Fairness == \A p \in Pane : WF_vars(Parses(p)) /\ WF_vars(TmuxReads(p))
FairSpec == Spec /\ Fairness

-----------------------------------------------------------------------------
(* Properties *)

\* FC-6: a ledger or a debt exists only for a registered client (the ledger's
\* keys are the client set), and only a stalled one owes.
OnlyClientsOwe ==
    /\ \A p \in Pane, c \in Client \ clients : ledger[p][c] = 0
    /\ \A p \in Pane, c \in Client \ stalled : owed[p][c] = 0

\* Type invariant, FC-6 included.
TypeOK ==
    /\ clients \subseteq Client
    /\ stalled \subseteq clients
    /\ ledger \in [Pane -> [Client -> Nat]]
    /\ owed \in [Pane -> [Client -> Nat]]
    /\ paused \in [Pane -> BOOLEAN]
    /\ cmds \in [Pane -> Seq(Verb)]
    /\ stream \in [Pane -> Seq(Item)]
    /\ tmuxPaused \in [Pane -> BOOLEAN]
    /\ OnlyClientsOwe

\* FC-1: every byte a transport still owes is counted in that client's
\* ledger, across gate drops, clamps, late joins and closes.  So a credit
\* never exceeds its ledger: the DRAIN CLAMPED tripwire cannot fire.
OwedCovered == \A p \in Pane, c \in Client : owed[p][c] <= ledger[p][c]

\* No client is ever owed more than high-water bytes of a pane, however the
\* gate was moved by stale %pause and %continue: the per-client queue bound
\* flow control exists to enforce.
QueueBounded == \A p \in Pane, c \in Client : ledger[p][c] <= High

\* All three: the ledgers of the registered clients, and no others, lie between
\* the debt and high-water, however the gate moves.
Covered == OnlyClientsOwe /\ OwedCovered /\ QueueBounded

Quiet(p) == cmds[p] = <<>> /\ stream[p] = <<>>

\* Once nothing is in flight for a pane, the driver's gate and tmux's pause
\* flag agree, although each side has moved its own on messages the other had
\* not seen (FC-2 gates before the acknowledgement, late notifications move
\* the gate back).
QuietAgreement == \A p \in Pane : Quiet(p) => paused[p] = tmuxPaused[p]

\* FC-3: the driver asks tmux to continue only when no client is above
\* low-water; one slow client keeps the pane paused for all.
SlowestGoverns ==
    [][\A p \in Pane :
         cmds'[p] = Append(cmds[p], "continue") => AllDrained(ledger', p)]_vars

\* FC-6: with nobody attached a pane does not stay paused, even when %pause
\* arrives after the last client has left.
NobodyAttachedReleases ==
    \A p \in Pane : (clients = {} /\ paused[p]) ~> (clients # {} \/ ~paused[p])

\* FC-4 and the comment in onPaneBytes: gate-dropped bytes do not pin the
\* resume edge.  A pane is not left paused with attached clients that have
\* drained everything and nothing in flight that could reopen it.
NoStrandedPause ==
    \A p \in Pane :
        (Quiet(p) /\ paused[p] /\ clients # {}) =>
            \E c \in clients : owed[p][c] > 0
=============================================================================
