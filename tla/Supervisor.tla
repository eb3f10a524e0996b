----------------------------- MODULE Supervisor ------------------------------
(***************************************************************************)
(* The broker's registry of in-process session-proxies                     *)
(* (session-proxy-supervisor.ts): lazy single-flight creation, reaping     *)
(* (also of a creation in flight), host death, the per-session error       *)
(* boundary with its circuit breaker, and the farewell each proxy owes its *)
(* clients.  A proxy is one call of _createSessionProxy; its name is used  *)
(* again once nothing refers to it.  An action is a macrotask with the     *)
(* microtasks it releases.                                                 *)
(***************************************************************************)
EXTENDS Integers, Sequences, FiniteSets

CONSTANTS
    Session,    \* tmux session ids
    Proxy,      \* session-proxies that may exist at once
    Caller,     \* broker connections that claim or attach
    NoProxy,    \* no registry entry
    Threshold,  \* CIRCUIT_BREAKER_TRIP_THRESHOLD
    TripWindow  \* CIRCUIT_BREAKER_WINDOW_MS, in ticks

ASSUME BreakerParameters == Threshold \in Nat \ {0} /\ TripWindow \in Nat
ASSUME NoProxyIsNone == NoProxy \notin Proxy

VARIABLES
    reg,        \* _sessionProxies
    session,    \* the session each proxy was created for
    phase,      \* how far _createSessionProxy has got
    bounded,    \* the bootstrap requery still has its timeout
    pipe,       \* the pipeline reads tmux's output
    host,       \* the tmux -CC child
    torn,       \* entry.tornDown
    reaping,    \* creations reaped in flight: torn down once they resolve
    farewell,   \* _pendingFarewells
    waiting,    \* callers awaiting the creation promise
    attached,   \* callers whose connection the proxy serves
    trips,      \* _boundaryTripLog, as ages
    quarantined \* _quarantinedSessions

registry == <<reg, session, reaping>>
proxyState == <<phase, bounded, pipe, host, torn, farewell>>
breaker == <<trips, quarantined>>
vars == <<registry, proxyState, waiting, attached, breaker>>

Phase == {"unused", "starting", "up", "failed"}
Host == {"none", "running", "stopping", "dead"}

Registered(p) == reg[session[p]] = p
Deregister(S) == [s \in Session |-> IF s \in S THEN NoProxy ELSE reg[s]]
Idle(c) == \A p \in Proxy : c \notin waiting[p] \cup attached[p]

\* Nothing refers to p any more: its name may stand for a new proxy.
Unreferenced(p) ==
    /\ phase[p] \in {"unused", "failed"} \/ host[p] = "dead"
    /\ ~Registered(p) /\ ~farewell[p]
    /\ phase[p] # "starting"
    /\ waiting[p] = {} /\ attached[p] = {}

Init ==
    /\ reg = [s \in Session |-> NoProxy]
    /\ session \in [Proxy -> Session]
    /\ phase = [p \in Proxy |-> "unused"]
    /\ bounded = [p \in Proxy |-> FALSE]
    /\ pipe = [p \in Proxy |-> FALSE]
    /\ host = [p \in Proxy |-> "none"]
    /\ torn = [p \in Proxy |-> FALSE]
    /\ reaping = {}
    /\ farewell = [p \in Proxy |-> FALSE]
    /\ waiting = [p \in Proxy |-> {}]
    /\ attached = [p \in Proxy |-> {}]
    /\ trips = [s \in Session |-> <<>>]
    /\ quarantined = {}

-----------------------------------------------------------------------------
(* ensureSessionProxy *)

\* A quarantined session rejects at once: the caller stays idle (no action).
MayAlwaysEnsure(c, s) == Idle(c)   \* mutant: the breaker is not consulted
MayEnsure(c, s) == Idle(c) /\ s \notin quarantined

\* Fast path: the caller is handed the running proxy and attaches to it.
EnsureReady(c, s) ==
    /\ MayEnsure(c, s) /\ reg[s] # NoProxy
    /\ phase[reg[s]] = "up"
    /\ attached' = [attached EXCEPT ![reg[s]] = @ \cup {c}]
    /\ UNCHANGED <<registry, proxyState, waiting, breaker>>

\* The creation is in flight: the caller shares its promise.
EnsureJoins(c, s) ==
    /\ MayEnsure(c, s) /\ reg[s] # NoProxy
    /\ phase[reg[s]] = "starting"
    /\ waiting' = [waiting EXCEPT ![reg[s]] = @ \cup {c}]
    /\ UNCHANGED <<registry, proxyState, attached, breaker>>

\* Slow path: spawn tmux -CC, start the pipeline, register the promise.
EnsureCreates(c, s, p) ==
    /\ MayEnsure(c, s) /\ reg[s] = NoProxy
    /\ Unreferenced(p)
    /\ reg' = [reg EXCEPT ![s] = p]
    /\ session' = [session EXCEPT ![p] = s]
    /\ phase' = [phase EXCEPT ![p] = "starting"]
    /\ bounded' = [bounded EXCEPT ![p] = TRUE]
    /\ pipe' = [pipe EXCEPT ![p] = TRUE]
    /\ host' = [host EXCEPT ![p] = "running"]
    /\ torn' = [torn EXCEPT ![p] = FALSE]
    /\ waiting' = [waiting EXCEPT ![p] = {c}]
    /\ UNCHANGED <<reaping, farewell, attached, breaker>>

\* stop(): the pipeline stops and tmux is asked to detach.
Stop(S) ==
    /\ pipe' = [p \in Proxy |-> IF p \in S THEN FALSE ELSE pipe[p]]
    /\ host' = [p \in Proxy |-> IF p \in S /\ host[p] = "running"
                                THEN "stopping" ELSE host[p]]

\* Only a creation still registered (or never reaped) lives on; one reaped in
\* flight is torn down by the chain the reap left behind.
ResolvedIsReaped(p) == p \in reaping

\* start() resolves: the farewell is tracked, the host handlers are wired and
\* every caller behind the promise gets the proxy.
CreationResolves(p) ==
    /\ phase[p] = "starting" /\ pipe[p] /\ host[p] = "running"
    /\ phase' = [phase EXCEPT ![p] = "up"]
    /\ bounded' = [bounded EXCEPT ![p] = FALSE]
    /\ farewell' = [farewell EXCEPT ![p] = TRUE]
    /\ attached' = [attached EXCEPT ![p] = waiting[p]]
    /\ waiting' = [waiting EXCEPT ![p] = {}]
    /\ IF ResolvedIsReaped(p)
       THEN /\ torn' = [torn EXCEPT ![p] = TRUE]
            /\ Stop({p})
            /\ reaping' = reaping \ {p}
       ELSE UNCHANGED <<torn, pipe, host, reaping>>
    /\ UNCHANGED <<reg, session, breaker>>

\* start() rejects: a spawn or protocol error, or the host found dead when a
\* bounded attempt is issued again.  The slot is cleared whoever holds it.
CreationRejects(p) ==
    /\ phase[p] = "starting"
    /\ (pipe[p] /\ host[p] = "running") \/ (bounded[p] /\ host[p] = "dead")
    /\ phase' = [phase EXCEPT ![p] = "failed"]
    /\ pipe' = [pipe EXCEPT ![p] = FALSE]
    /\ host' = [host EXCEPT ![p] = "dead"]
    /\ reg' = Deregister({session[p]})
    /\ waiting' = [waiting EXCEPT ![p] = {}]
    /\ reaping' = reaping \ {p}
    /\ UNCHANGED <<session, bounded, torn, farewell, attached, breaker>>

\* The bounded bootstrap attempts are used up (or the pipeline has stopped):
\* one last attempt runs with no timeout.
LastAttempt(p) ==
    /\ phase[p] = "starting" /\ bounded[p] /\ host[p] = "running"
    /\ bounded' = [bounded EXCEPT ![p] = FALSE]
    /\ UNCHANGED <<registry, phase, pipe, host, torn, farewell, waiting, attached, breaker>>

-----------------------------------------------------------------------------
(* Teardown *)

\* reapSessionProxy for every session of S (reapAll: all of them).  A running
\* proxy is stopped now, a creation in flight once it resolves.
Reap(S) ==
    LET gone == {p \in Proxy : session[p] \in S /\ Registered(p)}
        ready == {p \in gone : phase[p] = "up" /\ ~torn[p]}
    IN  /\ gone # {}
        /\ reg' = Deregister(S)
        /\ reaping' = reaping \cup {p \in gone : phase[p] = "starting"}
        /\ torn' = [p \in Proxy |-> torn[p] \/ p \in ready]
        /\ Stop(ready)
        /\ UNCHANGED <<session, phase, bounded, farewell, waiting, attached, breaker>>

ReapSessionProxy(s) == Reap({s})
ReapAll == Reap(Session)

\* The tmux child exits (or its pty faults).  An entry nobody tore down is
\* reaped here, if it is still the registered one.
NeverDeregisters(p) == FALSE       \* mutant: the flag is set before it is tested
DeathDeregisters(p) == ~torn[p] /\ Registered(p)
HostDies(p) ==
    /\ host[p] \in {"running", "stopping"}
    /\ host' = [host EXCEPT ![p] = "dead"]
    /\ IF phase[p] = "up"
       THEN /\ torn' = [torn EXCEPT ![p] = TRUE]
            /\ reg' = IF DeathDeregisters(p) THEN Deregister({session[p]}) ELSE reg
       ELSE UNCHANGED <<torn, reg>>
    /\ UNCHANGED <<session, reaping, phase, bounded, pipe, farewell, waiting, attached, breaker>>

\* One turn after the exit: the farewell goes out and closes every client.
SettlesWithoutClosing(p) ==   \* mutant: the farewell settles, transports stay open
    /\ host[p] = "dead" /\ farewell[p]
    /\ pipe' = [pipe EXCEPT ![p] = FALSE]
    /\ farewell' = [farewell EXCEPT ![p] = FALSE]
    /\ UNCHANGED <<registry, phase, bounded, host, torn, waiting, attached, breaker>>
Farewell(p) ==
    /\ host[p] = "dead" /\ farewell[p]
    /\ pipe' = [pipe EXCEPT ![p] = FALSE]
    /\ attached' = [attached EXCEPT ![p] = {}]
    /\ farewell' = [farewell EXCEPT ![p] = FALSE]
    /\ UNCHANGED <<registry, phase, bounded, host, torn, waiting, breaker>>

\* A client leaves by itself.
Leave(c, p) ==
    /\ c \in attached[p]
    /\ attached' = [attached EXCEPT ![p] = @ \ {c}]
    /\ UNCHANGED <<registry, proxyState, waiting, breaker>>

-----------------------------------------------------------------------------
(* The error boundary *)

\* Only the newest Threshold trips are kept, oldest first.
Recorded(log) ==
    LET all == Append(log, 0)
    IN  IF Len(all) > Threshold THEN Tail(all) ELSE all
Burst(log) == Len(log) >= Threshold /\ log[1] <= TripWindow

\* The pipeline meets an exception and stops itself; onFatalError follows.
\* It acts only on the registered entry, so not while start() is pending.
\* tornDown is set before _teardownEntry, which therefore returns at once.
BoundaryTrip(p) ==
    /\ phase[p] \in {"starting", "up"} /\ pipe[p] /\ host[p] # "dead"
    /\ pipe' = [pipe EXCEPT ![p] = FALSE]
    /\ IF phase[p] = "up" /\ Registered(p)
       THEN LET log == Recorded(trips[session[p]]) IN
            /\ torn' = [torn EXCEPT ![p] = TRUE]
            /\ reg' = Deregister({session[p]})
            /\ quarantined' = IF Burst(log) THEN quarantined \cup {session[p]}
                              ELSE quarantined
            /\ trips' = [trips EXCEPT ![session[p]] = IF Burst(log) THEN <<>> ELSE log]
       ELSE UNCHANGED <<torn, reg, breaker>>
    /\ UNCHANGED <<session, reaping, phase, bounded, host, farewell, waiting, attached>>

ClearQuarantine(s) ==
    /\ s \in quarantined \/ trips[s] # <<>>
    /\ quarantined' = quarantined \ {s}
    /\ trips' = [trips EXCEPT ![s] = <<>>]
    /\ UNCHANGED <<registry, proxyState, waiting, attached>>

\* Time passes: a trip older than the window needs no exact age.
Older(log) == [i \in 1..Len(log) |-> IF log[i] > TripWindow THEN log[i] ELSE log[i] + 1]
Tick ==
    /\ trips' = [s \in Session |-> Older(trips[s])]
    /\ trips' # trips
    /\ UNCHANGED <<registry, proxyState, waiting, attached, quarantined>>

Next ==
    \/ \E c \in Caller, s \in Session :
          \/ EnsureReady(c, s) \/ EnsureJoins(c, s)
          \/ \E p \in Proxy : EnsureCreates(c, s, p)
    \/ \E p \in Proxy :
          \/ CreationResolves(p) \/ CreationRejects(p) \/ LastAttempt(p)
          \/ HostDies(p) \/ Farewell(p) \/ BoundaryTrip(p)
          \/ \E c \in Caller : Leave(c, p)
    \/ \E s \in Session : ReapSessionProxy(s) \/ ClearQuarantine(s)
    \/ ReapAll
    \/ Tick

Spec == Init /\ [][Next]_vars

\* stop() ends in an exit (SIGKILL after 3 s) and the event loop runs the
\* farewell; nothing else is promised.
StopEnds(p) == host[p] = "stopping" /\ HostDies(p)
Fairness == \A p \in Proxy : WF_vars(StopEnds(p)) /\ WF_vars(Farewell(p))
FairSpec == Spec /\ Fairness

-----------------------------------------------------------------------------
(* Properties *)

\* Type invariant.
TypeOK ==
    /\ reg \in [Session -> Proxy \cup {NoProxy}]
    /\ session \in [Proxy -> Session]
    /\ phase \in [Proxy -> Phase]
    /\ bounded \in [Proxy -> BOOLEAN]
    /\ pipe \in [Proxy -> BOOLEAN]
    /\ host \in [Proxy -> Host]
    /\ torn \in [Proxy -> BOOLEAN]
    /\ reaping \subseteq Proxy
    /\ farewell \in [Proxy -> BOOLEAN]
    /\ waiting \in [Proxy -> SUBSET Caller]
    /\ attached \in [Proxy -> SUBSET Caller]
    /\ trips \in [Session -> Seq(0..(TripWindow + 1))]
    /\ quarantined \subseteq Session
    /\ \A p \in Proxy : waiting[p] # {} => phase[p] = "starting"

\* What the registry hands out was created for that session and nobody has
\* begun to tear it down: neither a late reap, a host death, a boundary trip
\* nor the resolution of a reaped creation leaves a dying proxy registered, and an
\* open breaker leaves nothing registered, a creation in flight included.
RegisteredIsWhole ==
    \A s \in Session : reg[s] # NoProxy =>
        /\ session[reg[s]] = s
        /\ phase[reg[s]] \in {"starting", "up"}
        /\ ~torn[reg[s]] /\ reg[s] \notin reaping
        /\ s \notin quarantined

\* Settled farewells mean that everybody was told: while a client is attached
\* to a proxy whose tmux is gone, its farewell is pending, so the broker's
\* tmux-gone exit (whenFarewellsSettled) still waits for it.
NobodyLeftUntold ==
    \A p \in Proxy : (attached[p] # {} /\ host[p] = "dead") => farewell[p]

\* A client of a proxy that is being stopped, or whose tmux is gone, is
\* released: it does not hang on a connection nobody serves.
TeardownReleasesClients ==
    \A p \in Proxy :
        (attached[p] # {} /\ host[p] \in {"stopping", "dead"}) ~> (attached[p] = {})

\* "Tear down: stop the session-proxy (detach -CC client, 3 s then SIGKILL)":
\* an entry marked tornDown has had its tmux client stopped or lost.
TornIsStopped == \A p \in Proxy : torn[p] => host[p] # "running"
=============================================================================
