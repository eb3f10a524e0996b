------------------------------ MODULE DataPlane ------------------------------
(***************************************************************************)
(* The bytes of one pane, from tmux to the terminals that show it: the     *)
(* demux (runtime/output-demux.ts), the clear-then-replay hydration of a   *)
(* client (runtime/hydration.ts) as runtime/session-proxy.ts wires them,   *)
(* and the client's stream consumer (clients/ts/src/pane-stream.ts).       *)
(*                                                                         *)
(* A byte chunk is its number in the order in which tmux wrote it, and a   *)
(* capture of the pane is how many chunks it shows.  The gate is moved by  *)
(* flow control, modelled in FlowControl; here it moves at any time.       *)
(* Panes do not share state, and a connection is never used again, so one  *)
(* pane is modelled and a client stands for one connection.                *)
(***************************************************************************)
EXTENDS Integers, Sequences, SequencesExt, FiniteSetsExt

CONSTANTS
    Client,     \* connections
    Job,        \* hydrations a connection may have (bound)
    Chunks,     \* bound: chunks tmux writes
    StageCap,   \* MAX_PENDING_BYTES_PER_PANE, in chunks
    SubCap,     \* PRE_SUB_BUFFER_CAP_BYTES, in chunks
    Overlap     \* may a client ask for a pane it is still being sent?

ASSUME Shape == Job \subseteq Nat \ {0}
                /\ {Chunks, StageCap, SubCap} \subseteq Nat /\ Overlap \in BOOLEAN

VARIABLES
    alive,      \* the pane exists in tmux
    written,    \* chunks it shows
    cmds,       \* capture-pane and the like, written and not yet read by tmux
    stream,     \* tmux -> driver, not yet parsed
    known,      \* "no", "yes" (in the model, _knownPanes) or "closed"
    staged,     \* _pendingFanout
    flush,      \* the staged chunks a microtask of notifyPaneBound will send
    gate,       \* _pausedPanes
    attached,   \* _transports
    window,     \* the clients with an entry in _hydrating ...
    queue,      \* ... and the live chunks queued in it
    job,        \* the hydrations in progress: where each one is
    seen,       \* all the client was sent, control and data, in wire order
    lost,       \* history: chunks gated, overflowed or flushed to nobody
    hooked,     \* the renderer of the client has called mirror.attach
    presub,     \* PaneStreamConsumer.#preSub
    shown       \* what the pane handler of the client was given

tmuxVars == <<alive, written, cmds, stream>>
demuxVars == <<known, staged, flush, gate, attached, window, queue>>
clientVars == <<hooked, presub, shown>>
vars == <<tmuxVars, demuxVars, clientVars, job, seen, lost>>

Live(n) == [kind |-> "live", n |-> n]
Replay(n) == [kind |-> "replay", n |-> n]
Control(kind) == [kind |-> kind, n |-> 0]
IsData(f) == f.kind \in {"live", "replay", "tail"}
Lives(s) == [i \in DOMAIN s |-> Live(s[i])]

Unused == [at |-> "unused", asked |-> FALSE, body |-> 0]
Done == [Unused EXCEPT !.at = "done"]
Busy(c) == {j \in Job : job[c][j] \notin {Unused, Done}}

Init ==
    /\ alive = TRUE /\ written = 0
    /\ cmds = <<>> /\ stream = <<>>
    /\ known = "no" /\ staged = <<>> /\ flush = <<>> /\ gate = FALSE
    /\ attached = {} /\ window = {} /\ queue = [c \in Client |-> <<>>]
    /\ job = [c \in Client |-> [j \in Job |-> Unused]]
    /\ seen = [c \in Client |-> <<>>]
    /\ lost = {}
    /\ hooked = {}
    /\ presub = [c \in Client |-> <<>>]
    /\ shown = [c \in Client |-> <<>>]

-----------------------------------------------------------------------------
(* The client end.  Control and data share one ordered socket, so what is   *)
(* written to a client is handed to its consumer in that order at once.     *)

\* The mirror of a client has the pane, so a hook that is attached listens.
Opened(frames) == \E i \in DOMAIN frames : frames[i].kind = "opened"
Closed(frames) == \E i \in DOMAIN frames : frames[i].kind = "closed"
Listens(c, frames) == c \in hooked /\ Opened(frames) /\ ~Closed(frames)

Size(f) == IF f.kind = "live" THEN 1 ELSE f.n + 1
SizeOf(s) ==
    LET sum[i \in 0..Len(s)] == IF i = 0 THEN 0 ELSE sum[i - 1] + Size(s[i])
    IN  sum[Len(s)]
\* push: a frame beyond the cap keeps its tail, older ones make room for it.
Cut(f) == IF Size(f) > SubCap THEN [kind |-> "tail", n |-> SubCap - 1] ELSE f
KeepsOldest(s) ==                 \* mutant: beyond the cap the newest make room
    SubSeq(s, 1, Min({Len(s), SubCap}))
Buffered(s) ==
    LET cut == [i \in DOMAIN s |-> Cut(s[i])]
        gone == {k \in 0..Len(s) : SizeOf(SubSeq(cut, k + 1, Len(s))) <= SubCap}
    IN  SubSeq(cut, Min(gone) + 1, Len(s))

\* The consumer of c takes the frames: what is data goes to the handler that
\* listens, the backlog first, or joins the backlog.
Consumes(c, frames) ==
    LET all == presub[c] \o SelectSeq(frames, IsData)
        on == Listens(c, seen[c] \o frames)
    IN  [held |-> IF on THEN <<>> ELSE Buffered(all),
         shown |-> IF on THEN shown[c] \o all ELSE shown[c]]

\* Writes to each attached client the frames out[c]; a transport that has
\* closed takes nothing.
Write(out) ==
    LET to(c) == IF c \in attached THEN out[c] ELSE <<>>
        after == [c \in Client |-> Consumes(c, to(c))]
    IN  /\ seen' = [c \in Client |-> seen[c] \o to(c)]
        /\ presub' = [c \in Client |-> after[c].held]
        /\ shown' = [c \in Client |-> after[c].shown]
        /\ UNCHANGED hooked
Only(c, frames) == [x \in Client |-> IF x = c THEN frames ELSE <<>>]

\* mirror.attach: onPaneOutput hands the backlog to the new handler.
HookAttaches(c) ==
    /\ c \notin hooked
    /\ hooked' = hooked \cup {c}
    /\ IF Opened(seen[c]) /\ ~Closed(seen[c])
       THEN /\ shown' = [shown EXCEPT ![c] = @ \o presub[c]]
            /\ presub' = [presub EXCEPT ![c] = <<>>]
       ELSE UNCHANGED <<shown, presub>>
    /\ UNCHANGED <<tmuxVars, demuxVars, job, seen, lost>>

-----------------------------------------------------------------------------
(* The demux *)

\* _fanOut: to every transport, or to its queue while it is being hydrated.
QueueNothing(c) == FALSE          \* mutant: live bytes pass a hydration
Queues(c) == c \in window
FanOut(chunks) ==
    /\ queue' = [c \in Client |->
          IF c \in attached /\ Queues(c) THEN queue[c] \o chunks ELSE queue[c]]
    /\ Write([c \in Client |-> IF Queues(c) THEN <<>> ELSE Lives(chunks)])

ParsesOutput == stream # <<>> /\ Head(stream).kind = "out"
\* append of a known pane.
AppendKnown ==
    /\ ParsesOutput
    /\ known = "yes" /\ ~gate
    /\ FanOut(<<Head(stream).n>>)
    /\ stream' = Tail(stream)
    /\ UNCHANGED <<alive, written, cmds, known, staged, flush, gate, attached, window,
                   job, lost>>
AppendGated ==
    /\ ParsesOutput
    /\ known = "yes" /\ gate
    /\ lost' = lost \cup {Head(stream).n}
    /\ stream' = Tail(stream)
    /\ UNCHANGED <<alive, written, cmds, demuxVars, clientVars, job, seen>>
\* append of a pane the model does not have: staged, or dropped beyond the cap.
AppendUnknown ==
    /\ ParsesOutput
    /\ known # "yes"
    /\ IF Len(staged) < StageCap
       THEN staged' = Append(staged, Head(stream).n) /\ UNCHANGED lost
       ELSE lost' = lost \cup {Head(stream).n} /\ UNCHANGED staged
    /\ stream' = Tail(stream)
    /\ UNCHANGED <<alive, written, cmds, known, flush, gate, attached, window, queue,
                   job, clientVars, seen>>

\* notifyPaneBound, then the per-client subscribers send pane.opened; what was
\* staged follows in a microtask.
FlushLater ==
    Write([c \in Client |-> <<Control("opened")>>])
    /\ flush' = staged
PaneBound ==
    /\ known = "no"
    /\ known' = "yes"
    /\ staged' = <<>>
    /\ FlushLater
    /\ UNCHANGED <<tmuxVars, gate, attached, window, queue, job, lost>>

\* The microtask; nothing but other microtasks runs before it.
FlushStaged ==
    /\ flush # <<>>
    /\ flush' = <<>>
    /\ IF known # "yes" \/ gate \/ attached = {}
       THEN lost' = lost \cup ToSet(flush) /\ UNCHANGED <<queue, seen, clientVars>>
       ELSE FanOut(flush) /\ UNCHANGED lost
    /\ UNCHANGED <<tmuxVars, known, staged, gate, attached, window, job>>

\* notifyPaneClosed once a requery no longer lists the pane; the queues go with
\* it, and the clients are told.
PaneClosed ==
    /\ ~alive /\ known = "yes"
    /\ known' = "closed"
    /\ staged' = <<>>
    /\ lost' = lost \cup ToSet(staged) \cup UNION {ToSet(queue[c]) : c \in Client}
    /\ window' = {}
    /\ queue' = [c \in Client |-> <<>>]
    /\ Write([c \in Client |-> <<Control("closed")>>])
    /\ UNCHANGED <<tmuxVars, flush, gate, attached, job>>

\* pausePane and resumePane, called by the flow controller.
GateMoves ==
    /\ gate' = ~gate
    /\ UNCHANGED <<tmuxVars, known, staged, flush, attached, window, queue, clientVars,
                   job, seen, lost>>

-----------------------------------------------------------------------------
(* Hydration *)

\* The sentinel begin: the demux queues first, then the client is told.
Begins(c, j, asked) ==
    /\ window' = window \cup {c}
    /\ job' = [job EXCEPT ![c][j] = [at |-> "capture", asked |-> asked, body |-> 0]]
    /\ cmds' = Append(cmds, [c |-> c, j |-> j, verb |-> "capture"])

\* The sentinel end: the queued chunks go out, then the client is told.
DropQueue(c) == <<>>              \* mutant: end() only closes the window
Queued(c) == IF c \in window THEN Lives(queue[c]) ELSE <<>>
Ends(c, j, found) ==
    /\ window' = window \ {c}
    /\ queue' = [queue EXCEPT ![c] = <<>>]
    /\ job' = [job EXCEPT ![c][j] = Done]
    /\ Write(Only(c, Append(Queued(c), Control("end"))
                     \o (IF job[c][j].asked /\ ~found THEN <<Control("failed")>> ELSE <<>>)))

\* No capture: the pane has gone.
LeftOpen(c, j) ==                 \* mutant: end() is not in a finally
    Write(Only(c, <<Control("failed")>>)) /\ UNCHANGED <<window, queue, job>>
Refused(c, j) == Ends(c, j, FALSE)

NextJob(c, j) == job[c][j] = Unused /\ \A i \in Job : i < j => job[c][i] # Unused

\* addClient, once the control server has sent the snapshot: the transport is
\* attached to the demux, and the panes of the model are replayed to it unless
\* it said (pullHydration) that it would ask.
Join(c, pull) ==
    /\ c \notin attached /\ seen[c] = <<>>
    /\ attached' = attached \cup {c}
    /\ LET hello == <<Control(IF known = "yes" THEN "opened" ELSE "empty")>>
           all == IF known = "yes" /\ ~pull THEN Append(hello, Control("begin")) ELSE hello
       IN  /\ seen' = [seen EXCEPT ![c] = all]
           /\ UNCHANGED clientVars
    /\ IF known = "yes" /\ ~pull
       THEN \E j \in Job : NextJob(c, j) /\ Begins(c, j, FALSE)
       ELSE UNCHANGED <<window, job, cmds>>
    /\ UNCHANGED <<alive, written, stream, known, staged, flush, gate, queue, lost>>

\* pane.attach of a pane the model has; the report of its window's size comes
\* first when it is not the one the pane has.
PaneAttach(c, j) ==
    /\ c \in attached /\ NextJob(c, j)
    /\ Overlap \/ Busy(c) = {}
    /\ known = "yes"
    /\ \/ /\ Begins(c, j, TRUE)
          /\ Write(Only(c, <<Control("begin")>>))
       \/ /\ job' = [job EXCEPT ![c][j] = [at |-> "report", asked |-> TRUE, body |-> 0]]
          /\ cmds' = Append(cmds, [c |-> c, j |-> j, verb |-> "report"])
          /\ UNCHANGED <<window, seen, clientVars>>
    /\ UNCHANGED <<alive, written, stream, known, staged, flush, gate, attached, queue, lost>>

\* ... and of one it has not: refused, without a window.
PaneAttachFails(c) ==
    /\ c \in attached /\ known # "yes"
    /\ Last(seen[c]) # Control("failed")      \* bound: one such answer in a row
    /\ Write(Only(c, <<Control("failed")>>))
    /\ UNCHANGED <<tmuxVars, demuxVars, job, lost>>

Replies(verb) ==
    stream # <<>> /\ Head(stream).kind = "reply" /\ Head(stream).verb = verb
\* The report is done, whatever tmux said: now the capture.
ReportReplied ==
    /\ Replies("report")
    /\ LET r == Head(stream) IN
          /\ Begins(r.c, r.j, TRUE)
          /\ Write(Only(r.c, <<Control("begin")>>))
    /\ stream' = Tail(stream)
    /\ UNCHANGED <<alive, written, known, staged, flush, gate, attached, queue, lost>>
CaptureReplied ==
    /\ Replies("capture")
    /\ LET r == Head(stream) IN
          IF r.ok
          THEN /\ job' = [job EXCEPT ![r.c][r.j].at = "facts", ![r.c][r.j].body = r.n]
               /\ cmds' = Append(cmds, [c |-> r.c, j |-> r.j, verb |-> "facts"])
               /\ UNCHANGED <<window, queue, seen, clientVars>>
          ELSE Refused(r.c, r.j) /\ UNCHANGED cmds
    /\ stream' = Tail(stream)
    /\ UNCHANGED <<alive, written, known, staged, flush, gate, attached, lost>>
\* _deliverReplay: with the cursor or, if tmux refused, without.
FactsReplied ==
    /\ Replies("facts")
    /\ LET r == Head(stream) IN
          /\ job' = [job EXCEPT ![r.c][r.j].at = "sent"]
          /\ Write(Only(r.c, <<Replay(job[r.c][r.j].body)>>))
    /\ stream' = Tail(stream)
    /\ UNCHANGED <<alive, written, cmds, demuxVars, lost>>
\* The socket has taken the replay.
ReplaySent(c, j) ==
    /\ job[c][j].at = "sent"
    /\ Ends(c, j, TRUE)
    /\ UNCHANGED <<tmuxVars, known, staged, flush, gate, attached, lost>>

\* The transport closes: detach() takes it out of the fan-out, and no more.
Leave(c) ==
    /\ c \in attached
    /\ attached' = attached \ {c}
    /\ UNCHANGED <<tmuxVars, known, staged, flush, gate, window, queue, clientVars,
                   job, seen, lost>>

-----------------------------------------------------------------------------
(* tmux (external) *)

TmuxWrites ==
    /\ alive /\ written < Chunks
    /\ written' = written + 1
    /\ stream' = Append(stream, [kind |-> "out", n |-> written'])
    /\ UNCHANGED <<alive, cmds, demuxVars, clientVars, job, seen, lost>>
TmuxAnswers ==
    /\ cmds # <<>>
    /\ LET m == Head(cmds) IN
          stream' = Append(stream, [kind |-> "reply", verb |-> m.verb, c |-> m.c, j |-> m.j,
                                    ok |-> alive, n |-> written])
    /\ cmds' = Tail(cmds)
    /\ UNCHANGED <<alive, written, demuxVars, clientVars, job, seen, lost>>
PaneDies ==
    /\ alive
    /\ alive' = FALSE
    /\ UNCHANGED <<written, cmds, stream, demuxVars, clientVars, job, seen, lost>>

\* A microtask runs before anything else of the driver.
Turn ==
    \/ AppendKnown \/ AppendGated \/ AppendUnknown
    \/ PaneBound \/ PaneClosed \/ GateMoves
    \/ ReportReplied \/ CaptureReplied \/ FactsReplied
    \/ \E c \in Client :
          \/ \E pull \in BOOLEAN : Join(c, pull)
          \/ Leave(c) \/ PaneAttachFails(c)
          \/ \E j \in Job : PaneAttach(c, j) \/ ReplaySent(c, j)
Next ==
    \/ flush = <<>> /\ Turn
    \/ FlushStaged
    \/ TmuxWrites \/ TmuxAnswers \/ PaneDies
    \/ \E c \in Client : HookAttaches(c)

Spec == Init /\ [][Next]_vars

\* tmux reads and answers, the driver reads what it says, microtasks run and a
\* socket takes what is written to it or closes.
Parse == flush = <<>> /\ (AppendKnown \/ AppendGated \/ AppendUnknown
                          \/ ReportReplied \/ CaptureReplied \/ FactsReplied)
Fairness ==
    /\ WF_vars(TmuxAnswers) /\ WF_vars(Parse) /\ WF_vars(FlushStaged)
    /\ \A c \in Client, j \in Job : WF_vars(flush = <<>> /\ ReplaySent(c, j))
FairSpec == Spec /\ Fairness

-----------------------------------------------------------------------------
(* Properties *)

\* Type invariant; a queue belongs to an open window, and the consumer holds
\* no more than its cap.
TypeOK ==
    /\ alive \in BOOLEAN /\ written \in 0..Chunks /\ gate \in BOOLEAN
    /\ known \in {"no", "yes", "closed"}
    /\ attached \subseteq Client /\ hooked \subseteq Client /\ window \subseteq Client
    /\ Len(staged) <= StageCap /\ Len(flush) <= StageCap
    /\ lost \subseteq 1..Chunks
    /\ \A c \in Client :
          /\ c \notin window => queue[c] = <<>>
          /\ SizeOf(presub[c]) <= SubCap
          /\ \A j \in Job : job[c][j].at \in {"unused", "report", "capture", "facts", "sent", "done"}

\* "The no-interleave property is a driver guarantee": no live byte reaches a
\* client between the begin of a hydration and its replay, whatever tmux
\* writes, binds or closes meanwhile; and none before pane.opened, although the
\* demux learns of a pane first (staged bytes are flushed a tick later).
NoInterleave ==
    \A c \in Client : \A i \in DOMAIN seen[c] :
        /\ seen[c][i].kind = "replay" =>
              LET b == Max({x \in 1..i : seen[c][x].kind = "begin"})
              IN  \A x \in b..i : seen[c][x].kind # "live"
        /\ IsData(seen[c][i]) => \E x \in 1..i : seen[c][x].kind = "opened"

\* What the terminal shows: a replay clears it, live bytes follow.
Screen(frames) ==
    LET after == {i \in DOMAIN frames :
                    \A k \in DOMAIN frames : k > i => frames[k].kind # "replay"}
    IN  {frames[i].n : i \in {x \in after : frames[x].kind = "live"}}
        \cup UNION {1..frames[i].n : i \in {x \in after : frames[x].kind = "replay"}}
\* Live bytes come in the order tmux wrote them, and once.
InOrder(frames) ==
    \A i, k \in DOMAIN frames :
        i < k /\ frames[i].kind = "live" /\ frames[k].kind = "live"
            => frames[i].n < frames[k].n
\* The client was there before the pane, or has had it replayed.
HasThePane(c) ==
    /\ c \in attached /\ known = "yes" /\ Busy(c) = {}
    /\ \E i \in DOMAIN seen[c] : seen[c][i].kind \in {"empty", "replay"}
Read == {n \in 1..written : \A i \in DOMAIN stream :
            stream[i].kind = "out" => stream[i].n # n}

\* The terminal of an attached client shows, once nothing of it is in flight,
\* every chunk the driver read but those the gate or the staging cap dropped
\* for everybody: capture, queue and live stream meet without a gap.  And no
\* live byte is sent twice or out of order, whether it was staged, queued
\* behind a hydration or sent at once.
ScreenIsWhole ==
    \A c \in Client :
        /\ InOrder(seen[c])
        /\ HasThePane(c) => Read \subseteq Screen(seen[c]) \cup lost \cup ToSet(flush)

\* A renderer that attaches late is given a contiguous suffix of the pane's
\* frames: the cap of PaneStreamConsumer takes from the front, and nothing is
\* given twice.
LateHookSeesSuffix ==
    \A c \in Client :
        LET given == shown[c] \o presub[c]
            data == SelectSeq(seen[c], IsData)
            cut(s) == [i \in DOMAIN s |-> Cut(s[i])]
        IN  ~Closed(seen[c]) => IsSuffix(cut(given), cut(data))

\* Every hydration ends, with its sentinel, so no client's bytes are queued
\* for ever: also when the pane dies, or the client leaves, under way.
HydrationsEnd ==
    \A c \in Client, j \in Job : job[c][j] # Unused ~> job[c][j] = Done

=============================================================================
