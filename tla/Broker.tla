-------------------------------- MODULE Broker --------------------------------
(***************************************************************************)
(* The life of a broker (server-proxy.ts, server-proxy-entry.ts,           *)
(* runtime-dir.ts): the bind of the socket that makes it the only one, the *)
(* watcher of tmux (tmux-south.ts), the exits it takes by itself, idle or  *)
(* when tmux is gone, the farewells it waits for, and the shutdown against *)
(* handshakes, attaches and claims under way.                              *)
(*                                                                         *)
(* A Broker is a process, a Client a connection; neither comes back.  One  *)
(* session, whose proxy is created and dies as a whole: Supervisor has the *)
(* details, ClientPlane those of the connections, SessionTable the claims. *)
(* tmux may be started again by a claim.                                   *)
(***************************************************************************)
EXTENDS Naturals, FiniteSets

CONSTANTS
    Broker, Client,
    MayCrash,           \* the brokers that may be killed
    MetricsHttp,        \* those with a metrics listener
    None

\* What server-proxy.exiting gives as the reason.
Reasons == {"idle", "tmux-gone"}

ASSUME Processes ==
    MayCrash \subseteq Broker /\ MetricsHttp \subseteq Broker
    /\ None \notin Broker \cup Client /\ None \notin Reasons

VARIABLES
    stage,      \* how far a broker has got
    tries,      \* the attempt to bind
    file,       \* the broker whose socket is at the path
    ino,        \* _boundSocketIno
    idle,       \* _idleTimer
    watcher, probe, respawn, \* _watcher, _probeInFlight, _respawnTimer
    why,        \* the reason of a self-exit
    hurried,    \* history: its drain was cut short
    proxy,      \* the session-proxy: and whether its tmux is gone
    maker,      \* history: the verb that made it
    claiming,   \* a claim is under way
    at,         \* the broker of a connection
    place,      \* where that broker is with it
    sock,       \* its socket, at the broker's end
    tmux,       \* the tmux server runs
    owed,       \* history: connections whose farewell a self-exit waits for
    cut         \* history: those of them it closed before it

watch == <<watcher, probe, respawn>>
session == <<proxy, maker, claiming>>
conns == <<at, place, sock>>
exits == <<why, hurried>>
told == <<owed, cut>>
vars == <<stage, tries, file, ino, idle, watch, exits, session, conns, tmux, told>>

Init ==
    /\ stage = [b \in Broker |-> "off"] /\ tries = [b \in Broker |-> 1]
    /\ file = None /\ ino = [b \in Broker |-> None]
    /\ idle = [b \in Broker |-> FALSE]
    /\ watcher = [b \in Broker |-> "none"]
    /\ probe = [b \in Broker |-> FALSE] /\ respawn = [b \in Broker |-> FALSE]
    /\ why = [b \in Broker |-> None] /\ hurried = [b \in Broker |-> FALSE]
    /\ proxy = [b \in Broker |-> "none"] /\ maker = [b \in Broker |-> None]
    /\ claiming = [b \in Broker |-> FALSE]
    /\ at = [c \in Client |-> None] /\ place = [c \in Client |-> "off"]
    /\ sock = [c \in Client |-> "closed"]
    /\ tmux \in BOOLEAN /\ owed = {} /\ cut = {}

\* listen() has been called and close() has not.  (bind and listen are one step.)
Accepts(b) == stage[b] \in {"bound", "starting", "up", "leaving", "unbinding"}
ShuttingDown(b) == stage[b] \in {"unbinding", "closing"}
\* _started, and not _selfExited: what timers and callbacks ask first.
Started(b) == stage[b] \in {"up", "leaving", "unbinding", "closing"}
Acting(b) == Started(b) /\ why[b] = None
Conns(b) == {c \in Client : at[c] = b}
Sockets(b) == {c \in Conns(b) : sock[c] # "closed"}

-----------------------------------------------------------------------------
(* Binding the socket: _bindSocketAsOwner *)

MaxBindAttempts == 3
booted == <<idle, watch, exits, session, conns, tmux, told>>

Goes(b, s) == stage' = [stage EXCEPT ![b] = s]

Spawn(b) ==
    /\ stage[b] = "off" /\ Goes(b, "listen")
    /\ UNCHANGED <<tries, file, ino, booted>>
\* listen(), atomic in the kernel.
Listen(b) ==
    /\ stage[b] = "listen"
    /\ IF file = None
       THEN Goes(b, "bound") /\ file' = b
       ELSE Goes(b, "asking") /\ UNCHANGED file
    /\ UNCHANGED <<tries, ino, booted>>

AnythingButAlive == {"stale"}           \* mutant: a slow owner counts as a dead one
Slow == {"inconclusive"}
\* classifySocketOwner: somebody accepts; nobody does; or the answer does not come.
Verdicts ==
    Slow \cup {IF file # None /\ Accepts(file) THEN "alive" ELSE "stale"}
Classify(b) ==
    /\ stage[b] = "asking"
    /\ \E verdict \in Verdicts :
         Goes(b, IF verdict = "stale" /\ tries[b] < MaxBindAttempts THEN "stale" ELSE "out")
    /\ UNCHANGED <<tries, file, ino, booted>>
\* What was classified is removed by its name.
RemoveStale(b) ==
    /\ stage[b] = "stale" /\ Goes(b, "listen")
    /\ file' = None
    /\ tries' = [tries EXCEPT ![b] = @ + 1]
    /\ UNCHANGED <<ino, booted>>

\* restrictSocket fails if the file is gone by now; then its inode is noted, ...
OwnIt(b) ==
    /\ stage[b] = "bound"
    /\ Goes(b, IF file = None THEN "out" ELSE "starting")
    /\ ino' = [ino EXCEPT ![b] = file]
    /\ UNCHANGED <<tries, file, booted>>
\* ... and after a reconcile and the questions to tmux the broker is started.
Start(b) ==
    /\ stage[b] = "starting" /\ Goes(b, "up")
    /\ watcher' = [watcher EXCEPT ![b] = "polling"]
    /\ idle' = [idle EXCEPT ![b] = TRUE]
    /\ UNCHANGED <<tries, file, ino, probe, respawn, exits, session, conns, tmux, told>>

-----------------------------------------------------------------------------
(* Connections *)

\* _onConnectionCountChange, with what the sockets will be.
NoConnections(b) == \A c \in Conns(b) : sock'[c] = "closed"
BeforeStart(b) ==                       \* mutant: _started is not asked
    idle' = [idle EXCEPT ![b] = IF why[b] = None THEN NoConnections(b) ELSE @]
Counted(b) ==
    idle' = [idle EXCEPT ![b] = IF Acting(b) THEN NoConnections(b) ELSE @]

rest == <<stage, tries, file, ino, watch, exits, tmux>>

Connect(c) ==
    /\ place[c] = "off" /\ file # None /\ Accepts(file) /\ stage[file] # "bound"
    /\ at' = [at EXCEPT ![c] = file]
    /\ place' = [place EXCEPT ![c] = "shaking"]
    /\ sock' = [sock EXCEPT ![c] = "open"]
    /\ idle' = [idle EXCEPT ![file] = IF Acting(file) THEN FALSE ELSE @]
    /\ UNCHANGED <<rest, session, told>>

\* The connection is closed by the client, or by a timeout or an error of the broker.
Close(c) ==
    /\ sock[c] = "open"
    /\ sock' = [sock EXCEPT ![c] = "closed"]
    /\ place' = [place EXCEPT ![c] = IF @ \in {"shaking", "table", "served"} THEN "over" ELSE @]
    /\ Counted(at[c])
    /\ UNCHANGED <<rest, session, at, told>>
\* The socket of a transport that the shutdown closed.
SocketEnds(c) ==
    /\ sock[c] = "dying"
    /\ sock' = [sock EXCEPT ![c] = "closed"]
    /\ Counted(at[c])
    /\ UNCHANGED <<rest, session, at, place, told>>

\* What a continuation finds about its connection, which it leaves as it is, or closes.
Running(c) == at[c] # None /\ stage[at[c]] # "out"
Step(c, p) == place' = [place EXCEPT ![c] = p] /\ UNCHANGED <<at, sock>>
Refuse(c) ==
    /\ place' = [place EXCEPT ![c] = "over"]
    /\ sock' = [sock EXCEPT ![c] = IF @ = "open" THEN "dying" ELSE @]
    /\ UNCHANGED at

\* _handleConnection, past the handshake ...
HandshakeEnds(c) ==
    /\ Running(c) /\ place[c] = "shaking" /\ sock[c] = "open"
    /\ IF ShuttingDown(at[c]) THEN Refuse(c) ELSE Step(c, "reconciling")
    /\ UNCHANGED <<rest, idle, session, told>>
\* ... and past the reconcile.
Reconciled(c) ==
    /\ Running(c) /\ place[c] = "reconciling"
    /\ IF ShuttingDown(at[c]) THEN Refuse(c) ELSE Step(c, "table")
    /\ UNCHANGED <<rest, idle, session, told>>

\* session.attach: _handleAttach up to its reconcile, ...
Attach(c) ==
    /\ place[c] = "table" /\ sock[c] = "open"
    /\ IF ShuttingDown(at[c]) THEN Refuse(c) ELSE Step(c, "attaching")
    /\ UNCHANGED <<rest, idle, session, told>>

\* The proxy is there, or is made, which needs a session; one whose tmux has just died will do.
Ensured(b, verb) ==
    \/ proxy[b] # "none" /\ UNCHANGED <<proxy, maker>>
    \/ /\ proxy[b] = "none" /\ tmux
       /\ proxy' = [proxy EXCEPT ![b] = "up"]
       /\ maker' = [maker EXCEPT ![b] = verb]

NotChecked(c) == FALSE                  \* mutant: no second look at the shutdown
Refused(c) == ShuttingDown(at[c])
\* ... and after it: refused, without a session, or handed to the proxy.
Attached(c) ==
    /\ Running(c) /\ place[c] = "attaching"
    /\ \/ Refused(c) /\ Refuse(c) /\ UNCHANGED session
       \/ ~Refused(c) /\ proxy[at[c]] = "none" /\ Refuse(c) /\ UNCHANGED session
       \/ ~Refused(c) /\ Ensured(at[c], "attach") /\ Step(c, "served") /\ UNCHANGED claiming
    /\ UNCHANGED <<rest, idle, told>>

\* session.claim: refused in a shutdown, ...
Claim(c) ==
    /\ place[c] = "table" /\ sock[c] = "open"
    /\ ~ShuttingDown(at[c]) /\ ~claiming[at[c]]
    /\ claiming' = [claiming EXCEPT ![at[c]] = TRUE]
    /\ UNCHANGED <<rest, idle, proxy, maker, conns, told>>
\* ... but not stopped by one: new-session starts tmux where there is none, ...
CreateSession(b) ==
    /\ claiming[b] /\ ~tmux /\ tmux' = TRUE
    /\ UNCHANGED <<stage, tries, file, ino, idle, watch, exits, session, conns, told>>
\* ... and the proxy is ensured, or the claim fails.
Claimed(b) ==
    /\ claiming[b] /\ claiming' = [claiming EXCEPT ![b] = FALSE]
    /\ Ensured(b, "claim") \/ UNCHANGED <<proxy, maker>>
    /\ UNCHANGED <<rest, idle, conns, told>>

-----------------------------------------------------------------------------
(* Shutdown *)

OnlyTheTable(b) == {c \in Conns(b) : place[c] = "table"}    \* mutant: not the others accepted
Accepted(b) == Conns(b)
\* The synchronous part of _shutdownOnce: every transport is closed, the proxy is reaped,
\* the server stops.  Node may remove what is at the path.
Sweep(b) ==
    /\ Goes(b, "closing")
    /\ sock' = [c \in Client |-> IF c \in Accepted(b) /\ sock[c] = "open" THEN "dying" ELSE sock[c]]
    /\ place' = [c \in Client |-> IF c \in Accepted(b) /\ place[c] \in {"shaking", "table", "served"}
                                  THEN "over" ELSE place[c]]
    /\ cut' = cut \cup {c \in owed \cap Conns(b) :
                       place[c] = "served" /\ sock[c] = "open" /\ proxy[b] = "orphan"}
    /\ UNCHANGED owed
    /\ proxy' = [proxy EXCEPT ![b] = "none"]
    /\ file' \in {file, None}
    /\ UNCHANGED <<tries, ino, at, maker, claiming, tmux>>

\* shutdown(): a metrics listener is closed first.
Shutdown(b) ==
    /\ watcher' = [watcher EXCEPT ![b] = "none"]
    /\ respawn' = [respawn EXCEPT ![b] = FALSE]
    /\ idle' = [idle EXCEPT ![b] = FALSE]
    /\ \/ b \notin MetricsHttp /\ Sweep(b)
       \/ b \in MetricsHttp /\ Goes(b, "unbinding") /\ UNCHANGED <<tries, file, ino, conns, session, tmux, told>>
MetricsClosed(b) ==
    /\ stage[b] = "unbinding"
    /\ Sweep(b)
    /\ UNCHANGED <<idle, watch, exits>>

Unlinked(b) == IF ino[b] = file THEN None ELSE file
\* The process is gone, and all that ran in it.
Ends(b) ==
    /\ Goes(b, "out")
    /\ sock' = [c \in Client |-> IF at[c] = b THEN "closed" ELSE sock[c]]
    /\ place' = [c \in Client |-> IF at[c] = b THEN "over" ELSE place[c]]
    /\ at' = [c \in Client |-> IF at[c] = b THEN None ELSE at[c]]
    /\ proxy' = [proxy EXCEPT ![b] = "none"] /\ maker' = [maker EXCEPT ![b] = None]
    /\ claiming' = [claiming EXCEPT ![b] = FALSE]
    /\ watcher' = [watcher EXCEPT ![b] = "none"]
    /\ probe' = [probe EXCEPT ![b] = FALSE] /\ respawn' = [respawn EXCEPT ![b] = FALSE]
    /\ idle' = [idle EXCEPT ![b] = FALSE] /\ ino' = [ino EXCEPT ![b] = None]
    /\ why' = [why EXCEPT ![b] = None] /\ hurried' = [hurried EXCEPT ![b] = FALSE]
    /\ owed' = owed \ Conns(b) /\ cut' = cut \ Conns(b)
    /\ UNCHANGED <<tries, tmux>>
\* server.close() waits for the sockets; the file goes, and the entry point exits.
ServerClosed(b) ==
    /\ stage[b] = "closing" /\ Sockets(b) = {}
    /\ file' = Unlinked(b)
    /\ Ends(b)

\* SIGTERM, also while a self-exit drains.
Terminate(b) ==
    /\ stage[b] \in {"up", "leaving"}
    /\ Shutdown(b)
    /\ hurried' = [hurried EXCEPT ![b] = TRUE]
    /\ UNCHANGED <<why, probe>>
Crash(b) ==
    /\ b \in MayCrash /\ stage[b] \notin {"off", "out"}
    /\ Ends(b)
    /\ UNCHANGED file

-----------------------------------------------------------------------------
(* Exits by itself, and the watcher *)

\* _selfExit, unless a shutdown is on its way already: when tmux is gone the farewell of
\* the proxy is awaited.
unless == <<tries, file, ino, watcher, respawn, session, conns, tmux>>
Exiting(b, reason) == why' = [why EXCEPT ![b] = reason]     \* server-proxy.exiting says it
SelfExit(b, reason) ==
    /\ Exiting(b, reason)
    /\ \/ /\ ShuttingDown(b) /\ idle' = [idle EXCEPT ![b] = @ /\ reason # "idle"]
          /\ UNCHANGED <<stage, told, unless>>
       \/ /\ stage[b] = "up" /\ reason = "tmux-gone"
          /\ Goes(b, "leaving")
          /\ owed' = owed \cup {c \in Conns(b) : place[c] = "served"}
          /\ UNCHANGED <<idle, cut, unless>>
       \/ stage[b] = "up" /\ reason = "idle" /\ Shutdown(b)
    /\ UNCHANGED hurried

IdleTimer(b) ==
    /\ idle[b] /\ UNCHANGED probe
    /\ IF Acting(b) /\ Sockets(b) = {}
       THEN SelfExit(b, "idle")
       ELSE /\ idle' = [idle EXCEPT ![b] = FALSE]
            /\ UNCHANGED <<stage, tries, file, ino, watcher, respawn, exits, session, conns, tmux, told>>

TmuxDies ==
    /\ tmux /\ tmux' = FALSE
    /\ proxy' = [b \in Broker |-> IF proxy[b] = "up" THEN "orphan" ELSE proxy[b]]
    /\ UNCHANGED <<stage, tries, file, ino, idle, watch, exits, maker, claiming, conns, told>>

\* The farewell of a proxy without its tmux closes its clients.
Farewell(b) ==
    LET its == {c \in Conns(b) : place[c] = "served"} IN
    /\ proxy[b] = "orphan" /\ proxy' = [proxy EXCEPT ![b] = "none"]
    /\ place' = [c \in Client |-> IF c \in its THEN "over" ELSE place[c]]
    /\ sock' = [c \in Client |-> IF c \in its /\ sock[c] = "open" THEN "dying" ELSE sock[c]]
    /\ UNCHANGED <<rest, idle, maker, claiming, at, told>>

FarewellsSettled(b) == proxy[b] # "orphan"
Drained(b) ==
    /\ stage[b] = "leaving" /\ FarewellsSettled(b)
    /\ Shutdown(b)
    /\ UNCHANGED <<exits, probe>>
\* SELF_EXIT_FAREWELL_DRAIN_DEADLINE_MS
DrainDeadline(b) ==
    /\ stage[b] = "leaving"
    /\ Shutdown(b)
    /\ hurried' = [hurried EXCEPT ![b] = TRUE]
    /\ UNCHANGED <<why, probe>>

unwatched == <<tries, file, ino, idle, hurried, session, conns, tmux, told>>

\* createTmuxWatcher: attach where there is a session, or poll.
WatcherAttaches(b) ==
    /\ watcher[b] = "polling" /\ tmux
    /\ watcher' = [watcher EXCEPT ![b] = "attached"]
    /\ UNCHANGED <<stage, probe, respawn, why, unwatched>>
\* _onWatcherEof: tmux is gone, or only the watcher's own client.
WatcherEof(b) ==
    /\ watcher[b] = "attached"
    /\ watcher' = [watcher EXCEPT ![b] = "inert"]
    /\ probe' = [probe EXCEPT ![b] = @ \/ Acting(b)]
    /\ UNCHANGED <<stage, respawn, why, unwatched>>
\* probeTmuxLiveness may say.
Liveness == {IF tmux THEN "alive" ELSE "gone", "inconclusive"}
\* It says that tmux is gone, ...
ProbeGone(b) ==
    /\ probe[b] /\ "gone" \in Liveness
    /\ probe' = [probe EXCEPT ![b] = FALSE]
    /\ IF Acting(b) THEN SelfExit(b, "tmux-gone")
       ELSE UNCHANGED <<stage, watcher, respawn, why, unwatched>>
\* ... that tmux lives, or cannot answer.
ProbeNotGone(b) ==
    /\ probe[b] /\ Liveness # {"gone"}
    /\ probe' = [probe EXCEPT ![b] = FALSE]
    /\ respawn' = [respawn EXCEPT ![b] = @ \/ Acting(b)]
    /\ UNCHANGED <<stage, watcher, why, unwatched>>
Respawn(b) ==
    /\ respawn[b] /\ respawn' = [respawn EXCEPT ![b] = FALSE]
    /\ watcher' = [watcher EXCEPT ![b] = IF Acting(b) THEN "polling" ELSE @]
    /\ UNCHANGED <<stage, probe, why, unwatched>>

-----------------------------------------------------------------------------
Next ==
    \/ TmuxDies
    \/ \E b \in Broker :
          \/ Spawn(b) \/ Listen(b) \/ Classify(b) \/ RemoveStale(b) \/ OwnIt(b) \/ Start(b)
          \/ MetricsClosed(b) \/ ServerClosed(b) \/ Terminate(b) \/ Crash(b)
          \/ IdleTimer(b) \/ Farewell(b) \/ Drained(b) \/ DrainDeadline(b)
          \/ WatcherAttaches(b) \/ WatcherEof(b) \/ ProbeGone(b) \/ ProbeNotGone(b) \/ Respawn(b)
          \/ CreateSession(b) \/ Claimed(b)
    \/ \E c \in Client :
          \/ Connect(c) \/ Close(c) \/ SocketEnds(c) \/ HandshakeEnds(c) \/ Reconciled(c)
          \/ Attach(c) \/ Attached(c) \/ Claim(c)
Spec == Init /\ [][Next]_vars

\* Timers fire, promises settle and sockets end.
FairSpec ==
    /\ Spec
    /\ \A b \in Broker :
          /\ WF_vars(Listen(b)) /\ WF_vars(Classify(b)) /\ WF_vars(RemoveStale(b))
          /\ WF_vars(OwnIt(b)) /\ WF_vars(Start(b)) /\ WF_vars(IdleTimer(b))
          /\ WF_vars(Farewell(b)) /\ WF_vars(Drained(b)) /\ WF_vars(DrainDeadline(b))
          /\ WF_vars(MetricsClosed(b)) /\ WF_vars(ServerClosed(b))
    /\ \A c \in Client : WF_vars(SocketEnds(c))
\* The watcher's too; and a probe is not for ever without an answer.
WatchSpec ==
    /\ FairSpec
    /\ \A b \in Broker :
          /\ WF_vars(WatcherAttaches(b)) /\ WF_vars(Respawn(b)) /\ WF_vars(ProbeNotGone(b))
          /\ WF_vars(~tmux /\ WatcherEof(b)) /\ SF_vars(ProbeGone(b))

-----------------------------------------------------------------------------
(* Properties *)

\* Every variable keeps its type; a timer, a probe or a watcher is that of a started broker.
TypeOK ==
    /\ stage \in [Broker -> {"off", "listen", "asking", "stale", "bound", "starting", "up",
                             "leaving", "unbinding", "closing", "out"}]
    /\ tries \in [Broker -> 1 .. MaxBindAttempts]
    /\ file \in Broker \cup {None} /\ ino \in [Broker -> Broker \cup {None}]
    /\ idle \in [Broker -> BOOLEAN]
    /\ watcher \in [Broker -> {"none", "polling", "attached", "inert"}]
    /\ probe \in [Broker -> BOOLEAN] /\ respawn \in [Broker -> BOOLEAN]
    /\ why \in [Broker -> Reasons \cup {None}] /\ hurried \in [Broker -> BOOLEAN]
    /\ proxy \in [Broker -> {"none", "up", "orphan"}]
    /\ maker \in [Broker -> {None, "attach", "claim"}] /\ claiming \in [Broker -> BOOLEAN]
    /\ at \in [Client -> Broker \cup {None}]
    /\ place \in [Client -> {"off", "shaking", "reconciling", "table", "attaching", "served", "over"}]
    /\ sock \in [Client -> {"open", "dying", "closed"}]
    /\ tmux \in BOOLEAN /\ owed \subseteq Client /\ cut \subseteq owed
    /\ \A b \in Broker : idle[b] \/ probe[b] \/ watcher[b] # "none" => Started(b)

\* The bind is the lock that ARCHITECTURE.md and _bindSocketAsOwner make of it: one broker
\* listens, and while it starts and serves, its socket is the one a client finds.
SocketIsTheLock ==
    /\ \A a, b \in Broker : Accepts(a) /\ Accepts(b) => a = b
    /\ \A b \in Broker : stage[b] \in {"starting", "up"} => file = b

\* A broker that leaves because tmux is gone lets its proxy say so to every client first
\* (_awaitFarewellDrain), unless the deadline or a signal cuts that short; and handshakes
\* and attaches that a shutdown overtakes add nothing behind its sweep, but a claim may
\* (_handleConnection, _handleAttach, _handleCommand).
LeavesInOrder ==
    \A b \in Broker :
        /\ why[b] = "tmux-gone" /\ ~hurried[b] => cut \cap Conns(b) = {}
        /\ stage[b] = "closing" =>
              /\ proxy[b] = "none" \/ maker[b] = "claim"
              /\ \A c \in Conns(b) : place[c] \notin {"table", "served"} \/ sock[c] = "closed"

\* It is on its way up or out, or has no connections left to be up for.
Restless(b) ==
    stage[b] \notin {"off", "up", "out"} \/ (stage[b] = "up" /\ Sockets(b) = {})
\* A broker that starts comes up or goes; without connections it leaves, unless one comes;
\* and one that leaves is gone in the end, whatever connections it had.
BrokersEnd == \A b \in Broker : Restless(b) ~> ~Restless(b)

\* What _onWatcherEof says of an inconclusive probe: a genuine death of tmux is found in
\* the end.
TmuxGoneIsNoticed ==
    \A b \in Broker : stage[b] = "up" /\ watcher[b] = "attached" /\ ~tmux ~> stage[b] # "up" \/ tmux
===============================================================================
