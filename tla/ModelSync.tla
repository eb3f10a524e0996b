------------------------------ MODULE ModelSync ------------------------------
(***************************************************************************)
(* How a session-proxy keeps its model and its clients' mirrors in step    *)
(* with tmux: the dirty-bit coalescer (state/coalescer.ts), the requery    *)
(* engine (state/requery.ts), and the pipeline's two ways of publishing a  *)
(* change, a committed requery and a direct patch (runtime/pipeline.ts).   *)
(* tmux's control stream is one FIFO each way.  A window has one pane; the *)
(* only window option is synchronize-panes, the only overlay the clients'  *)
(* binding intent.  An action is a macrotask with the microtasks that only *)
(* its own promises release.                                               *)
(***************************************************************************)
EXTENDS Integers, Sequences, FiniteSets

CONSTANTS
    Window,      \* window ids; tmux never uses one twice
    Initial,     \* the windows the driver finds
    Client,      \* client identities, one connection each
    Idle,        \* no requery call in flight
    CycleBudget, \* CYCLE_BUDGET
    Threshold,   \* teardownThreshold, in percent
    Events,      \* bound: windows created or killed, options set, connections
    Faults       \* bound: %error and garbage replies

ASSUME SessionHasWindows == Initial \in (SUBSET Window) \ {{}} /\ IsFiniteSet(Initial)
ASSUME Budgets == CycleBudget \in Nat \ {0} /\ Threshold \in 1..100
ASSUME Bounds == Events \in Nat /\ Faults \in Nat

VARIABLES
    truth,     \* tmux's own state
    told,      \* the option value last sent by the sync-watch subscription
    toTmux,    \* commands written and not yet executed
    toDriver,  \* replies and notifications not yet read
    model,     \* the engine's _model
    dirty,     \* the engine's _dirty
    call,      \* the requery call in flight
    trailing,  \* the trailing-edge timer is armed
    cooling,   \* less than ceilingMs since the last call started
    resting,   \* a heartbeat interval has not yet been spent since a call
    baseline,  \* lastBroadcastModel
    live,      \* the bootstrap cycle is over
    buffered,  \* topology notifications held during bootstrap
    stage,     \* how far each client's addClient is
    view,      \* each client's mirror
    left       \* what remains of the two bounds

tmux == <<truth, told>>
wire == <<toTmux, toDriver>>
engine == <<model, dirty, call>>
timers == <<trailing, cooling, resting>>
clients == <<stage, view>>
vars == <<tmux, wire, engine, timers, baseline, live, buffered, clients, left>>

(***************************************************************************)
(* Models, the diff between two of them, and what a client makes of it     *)
(***************************************************************************)

\* win, sync: windows, those with synchronize-panes on; pane: windows whose pane is
\* known; bound: per-pane overlay, as <<window, client>>
Model == [win : SUBSET Window, pane : SUBSET Window, sync : SUBSET Window,
          bound : SUBSET (Window \X Client)]
emptyModel == [win |-> {}, pane |-> {}, sync |-> {}, bound |-> {}]

\* panes that name an unknown window are skipped
buildInitialModel(windows, panes) ==
    [win |-> windows.win, pane |-> panes.win \cap windows.win,
     sync |-> windows.sync, bound |-> {}]

carryForwardOverlays(prev, candidate) ==
    [candidate EXCEPT !.bound =
        {b \in prev.bound : b[1] \in prev.pane \cap candidate.pane}]

\* the percentage of old that new has lost reaches the threshold
Loses(old, new) ==
    old # {} /\ 100 * Cardinality(old \ new) >= Threshold * Cardinality(old)
wouldTeardown(prev, candidate) ==
    Loses(prev.win, candidate.win) \/ Loses(prev.pane, candidate.pane)

paneBoundFor(m, c) == {w \in m.pane : <<w, c>> \in m.bound}

\* What projectSnapshot gives client c.
Snapshot(m, c) == [win |-> m.win, pane |-> m.pane, sync |-> m.sync,
                   bound |-> paneBoundFor(m, c)]
NoView == [win |-> {}, pane |-> {}, sync |-> {}, bound |-> {}]

\* The flag set of kept objects after "changed" messages: flipped values are stated.
Restated(flags, kept, old, new) ==
    (flags \cup ((new \ old) \cap kept)) \ (old \ new)

\* A mirror's window or pane set after the added and closed messages.
Restructured(S, old, new) == (S \cup (new \ old)) \ (old \ new)

\* Mirror v of client c after the messages of diffModel(prev, next).  window.added says
\* nothing of synchronize-panes and the mirror starts it off; pane.opened carries bound.
ApplyDiff(v, c, prev, next) ==
    LET wins == Restructured(v.win, prev.win, next.win)
        panes == Restructured(v.pane, prev.pane, next.pane)
    IN [win |-> wins,
        pane |-> panes,
        sync |-> wins \cap Restated(v.sync \ (next.win \ prev.win), prev.win \cap next.win,
                                    prev.sync, next.sync),
        bound |-> panes \cap Restated(v.bound, panes, paneBoundFor(prev, c), paneBoundFor(next, c))]

\* _emitModelChange: every subscribed client is sent the diff.
Emit(next, prev) ==
    view' = [c \in Client |-> IF stage[c] = "on" THEN ApplyDiff(view[c], c, prev, next)
                              ELSE view[c]]

\* patchModel: the engine's model moves, the requery's broadcast baseline does not.
patchModel(next) == model' = next /\ Emit(next, model)

SetIn(S, x, on) == IF on THEN S \cup {x} ELSE S \ {x}
SyncPatch(m, w, on) ==
    IF w \in m.win THEN [m EXCEPT !.sync = SetIn(@, w, on)] ELSE m
BoundPatch(m, w, c, on) ==
    IF w \in m.pane THEN [m EXCEPT !.bound = SetIn(@, <<w, c>>, on)] ELSE m

(***************************************************************************)
(* The control stream                                                      *)
(***************************************************************************)

None == [kind |-> "none"]
Request(k) == [kind |-> k]
ListCommands == <<Request("windows"), Request("panes")>>
Write(cmd) == toTmux' = Append(toTmux, cmd)
Notify(tok) == toDriver' = Append(toDriver, tok)
Spend(b) == left[b] > 0 /\ left' = [left EXCEPT ![b] = @ - 1]

Fresh(m) == [start |-> m, attempt |-> 1, held |-> FALSE, windows |-> None, panes |-> None]
\* The next cycle of the same requery() call.
NextCycle(held) == [call EXCEPT !.attempt = @ + 1, !.held = held,
                                !.windows = None, !.panes = None]

Init ==
    /\ truth = [win |-> Initial, used |-> Initial, sync |-> {}, bound |-> {}]
    /\ told = [w \in Window |-> FALSE]
    /\ toTmux = ListCommands /\ toDriver = <<>>
    /\ model = emptyModel /\ dirty = FALSE
    /\ call = Fresh(emptyModel)
    /\ trailing = FALSE /\ cooling = FALSE /\ resting = FALSE
    /\ baseline = emptyModel
    /\ live = FALSE /\ buffered = 0
    /\ stage = [c \in Client |-> "off"]
    /\ view = [c \in Client |-> NoView]
    /\ left = [event |-> Events, fault |-> Faults]

-----------------------------------------------------------------------------
(* tmux *)

driverState == <<engine, timers, baseline, live, buffered, clients>>

\* %window-add, %window-close: the window and its pane come and go together.
CreateWindow(w) ==
    /\ Spend("event") /\ w \notin truth.used
    /\ truth' = [truth EXCEPT !.win = @ \cup {w}, !.used = @ \cup {w}]
    /\ Notify(Request("topology"))
    /\ UNCHANGED <<told, toTmux, driverState>>

KillWindow(w) ==
    /\ Spend("event") /\ w \in truth.win /\ truth.win # {w}
    /\ truth' = [truth EXCEPT !.win = @ \ {w}, !.sync = @ \ {w},
                              !.bound = {b \in @ : b[1] # w}]
    /\ Notify(Request("topology"))
    /\ UNCHANGED <<told, toTmux, driverState>>

\* Another tmux client flips the option: no notification.
ToggleElsewhere(w) ==
    /\ Spend("event") /\ w \in truth.win
    /\ truth' = [truth EXCEPT !.sync = SetIn(@, w, w \notin @)]
    /\ UNCHANGED <<told, wire, driverState>>

\* The subscription's one-second check of a window: a changed value is reported.  (The
\* first report of an option that is off is left out.)
SyncWatch(w) ==
    /\ live /\ w \in truth.win
    /\ told[w] # (w \in truth.sync)
    /\ told' = [told EXCEPT ![w] = ~@]
    /\ Notify([kind |-> "sync", win |-> w, on |-> ~told[w]])
    /\ UNCHANGED <<truth, toTmux, driverState, left>>

Reply(tok) == toTmux' = Tail(toTmux) /\ Notify(tok)
IsListing(cmd) == cmd.kind \in {"windows", "panes"}

\* tmux runs the next command and replies.
ServeListing ==
    /\ toTmux # <<>> /\ IsListing(Head(toTmux))
    /\ Reply([kind |-> Head(toTmux).kind, ok |-> TRUE, win |-> truth.win,
              sync |-> IF Head(toTmux).kind = "windows" THEN truth.sync ELSE {}])
    /\ UNCHANGED <<tmux, driverState, left>>

\* A listing fails with %error, or is answered by a body without rows.
ServeListingBadly ==
    /\ toTmux # <<>> /\ IsListing(Head(toTmux)) /\ Spend("fault")
    /\ \E ok \in BOOLEAN :
         Reply([kind |-> Head(toTmux).kind, ok |-> ok, win |-> {}, sync |-> {}])
    /\ UNCHANGED <<tmux, driverState>>

\* set-option of one of our clients; %error when the window is gone.
ServeSet ==
    /\ toTmux # <<>> /\ Head(toTmux).kind \in {"setSync", "setBound"}
    /\ LET cmd == Head(toTmux)
           ok == cmd.win \in truth.win
       IN /\ Reply([kind |-> "result", ok |-> ok, undo |-> cmd.undo])
          /\ truth' = CASE ~ok -> truth
                        [] ok /\ cmd.kind = "setSync" ->
                             [truth EXCEPT !.sync = SetIn(@, cmd.win, cmd.on)]
                        [] ok /\ cmd.kind = "setBound" ->
                             [truth EXCEPT !.bound = SetIn(@, <<cmd.win, cmd.client>>, cmd.on)]
    /\ UNCHANGED <<told, driverState, left>>

\* The listing of one client's binding options.
ServeBinding ==
    /\ toTmux # <<>> /\ Head(toTmux).kind = "binding"
    /\ LET c == Head(toTmux).client
       IN Reply([kind |-> "binding", client |-> c,
                 panes |-> {w \in truth.win : <<w, c>> \in truth.bound}])
    /\ UNCHANGED <<tmux, driverState, left>>

-----------------------------------------------------------------------------
(* The coalescer *)

\* _runRequery: a call starts from the engine's model and writes both listings.
RunRequery(m, stillDirty) ==
    /\ call' = Fresh(m)
    /\ toTmux' = toTmux \o ListCommands
    /\ cooling' = TRUE
    /\ dirty' = stillDirty

\* markDirty, then _maybeFire: mid-call the engine's own dirty bit has it; an armed timer
\* will pick it up; a quiet coalescer fires; otherwise the trailing timer is armed.
LeadingEdge == call = Idle /\ ~trailing /\ ~cooling
notify ==
    IF LeadingEdge
    THEN RunRequery(model, FALSE) /\ UNCHANGED trailing
    ELSE /\ dirty' = TRUE
         /\ trailing' = (trailing \/ call = Idle)
         /\ UNCHANGED <<call, cooling, toTmux>>

\* ceilingMs have passed since the last call started.
CeilingPasses ==
    /\ cooling /\ cooling' = FALSE
    /\ UNCHANGED <<tmux, wire, engine, trailing, resting, baseline, live, buffered, clients, left>>

TrailingFires ==
    /\ trailing /\ ~cooling
    /\ trailing' = FALSE
    /\ RunRequery(model, FALSE)
    /\ UNCHANGED <<tmux, toDriver, model, resting, baseline, live, buffered, clients, left>>

\* The heartbeat interval is far longer than a call: at most one beat between two calls.
Heartbeat ==
    /\ live /\ resting
    /\ resting' = FALSE
    /\ notify
    /\ UNCHANGED <<tmux, toDriver, model, baseline, live, buffered, clients, left>>

-----------------------------------------------------------------------------
(* The pipeline reads the control stream *)

Receives(k) ==
    /\ toDriver # <<>> /\ Head(toDriver).kind = k
    /\ toDriver' = Tail(toDriver)

\* During bootstrap an event waits for the drain.
Buffer == buffered' = buffered + 1 /\ UNCHANGED <<toTmux, dirty, call, trailing, cooling>>

\* A topology notification is a dirty bit.
ReceiveTopology ==
    /\ Receives("topology")
    /\ IF live THEN notify /\ UNCHANGED buffered ELSE Buffer
    /\ UNCHANGED <<tmux, model, resting, baseline, live, clients, left>>

ReceiveListing ==
    /\ \/ Receives("windows") /\ call' = [call EXCEPT !.windows = Head(toDriver)]
       \/ Receives("panes") /\ call' = [call EXCEPT !.panes = Head(toDriver)]
    /\ UNCHANGED <<tmux, toTmux, model, dirty, timers, baseline, live, buffered, clients, left>>

unpatched == <<tmux, dirty, call, timers, baseline, live, buffered, stage, left>>

\* _applySyncWatchPatch
ReceiveSync ==
    /\ Receives("sync")
    /\ patchModel(SyncPatch(model, Head(toDriver).win, Head(toDriver).on))
    /\ UNCHANGED <<toTmux, unpatched>>

\* The reply to set-option: a rejection restores the value captured before the write.
ReceiveResult ==
    /\ Receives("result")
    /\ LET undo == Head(toDriver).undo
       IN patchModel(CASE Head(toDriver).ok \/ undo.kind = "none" -> model
                       [] ~Head(toDriver).ok /\ undo.kind = "sync" ->
                            SyncPatch(model, undo.win, undo.on)
                       [] ~Head(toDriver).ok /\ undo.kind = "bound" ->
                            BoundPatch(model, undo.win, undo.client, undo.on))
    /\ UNCHANGED <<toTmux, unpatched>>

-----------------------------------------------------------------------------
(* The engine resumes once both replies are in *)

Answered == call # Idle /\ call.windows # None /\ call.panes # None
candidate == carryForwardOverlays(call.start, buildInitialModel(call.windows, call.panes))

NeverTripped == FALSE          \* mutant: no teardown guard
Tripped == wouldTeardown(call.start, candidate)

Erred == ~(call.windows.ok /\ call.panes.ok)
Outdated == ~Erred /\ dirty
Clean == ~Erred /\ ~Outdated

BudgetLeft == call.attempt < CycleBudget

\* One more cycle: the candidate is outdated, or would tear down most of the model and
\* is confirmed first.
CycleAgain ==
    /\ Answered /\ BudgetLeft
    /\ Outdated \/ (Clean /\ Tripped /\ ~call.held)
    /\ call' = NextCycle(~Outdated)
    /\ dirty' = FALSE
    /\ toTmux' = toTmux \o ListCommands
    /\ UNCHANGED <<tmux, toDriver, model, timers, baseline, live, buffered, clients, left>>

\* %error, budget spent, or a teardown the confirming cycle refutes.
CallFails ==
    /\ Answered
    /\ \/ Erred
       \/ Outdated /\ ~BudgetLeft
       \/ Clean /\ Tripped /\ ~call.held /\ ~BudgetLeft
       \/ Clean /\ ~Tripped /\ call.held
Commits == Answered /\ Clean /\ (Tripped <=> call.held)

\* _scheduleRetryAfterFailure
RetryForgotten == trailing     \* mutant: the failed path leaves it to the heartbeat
RetryScheduled == TRUE
\* A settled call is followed by a heartbeat, sooner or later.
OneHeartbeat == FALSE          \* mutant: the heartbeat does not re-arm itself
Rearmed == TRUE

RequeryFails ==
    /\ live /\ CallFails
    /\ call' = Idle /\ dirty' = TRUE
    /\ trailing' = RetryScheduled /\ resting' = Rearmed
    /\ UNCHANGED <<tmux, wire, model, cooling, baseline, live, buffered, clients, left>>

\* The model moves; onDeltas publishes the step from the last requery's model.
RequeryCommits ==
    /\ live /\ Commits
    /\ model' = candidate /\ baseline' = candidate
    /\ Emit(candidate, baseline)
    /\ call' = Idle /\ resting' = Rearmed
    /\ UNCHANGED <<tmux, wire, dirty, trailing, cooling, live, buffered, stage, left>>

\* start() goes on: the buffered notifications are drained, the first of them fires.
Drain(m) ==
    /\ live' = TRUE /\ buffered' = 0 /\ resting' = TRUE
    /\ IF buffered = 0
       THEN call' = Idle /\ UNCHANGED <<toTmux, cooling>>
       ELSE RunRequery(m, buffered > 1)
    /\ UNCHANGED <<tmux, toDriver, trailing, clients, left>>

BootstrapCommits ==
    /\ ~live /\ Commits
    /\ model' = candidate /\ baseline' = candidate
    /\ Drain(candidate)
    /\ buffered = 0 => UNCHANGED dirty

\* The model stays empty; without a buffered notification the heartbeat retries.
BootstrapFails ==
    /\ ~live /\ CallFails
    /\ UNCHANGED <<model, baseline>>
    /\ Drain(model)
    /\ buffered = 0 => dirty' = TRUE

-----------------------------------------------------------------------------
(* Clients *)

undisturbed == <<tmux, dirty, call, timers, baseline, live, buffered>>

\* addClient: the client's binding options are read first (not before there is a session).
Attach(c) ==
    /\ live /\ stage[c] = "off" /\ Spend("event")
    /\ IF model.win = {}
       THEN /\ stage' = [stage EXCEPT ![c] = "on"]
            /\ view' = [view EXCEPT ![c] = Snapshot(model, c)]
            /\ UNCHANGED toTmux
       ELSE /\ stage' = [stage EXCEPT ![c] = "reading"]
            /\ Write([kind |-> "binding", client |-> c])
            /\ UNCHANGED view
    /\ UNCHANGED <<undisturbed, toDriver, model>>

\* applyClientBinding's patch reaches the others, then c subscribes and gets its snapshot.
ReceiveBinding ==
    /\ Receives("binding")
    /\ LET c == Head(toDriver).client
           theirs == {b \in model.bound : b[2] # c}
           ours == {<<w, c>> : w \in Head(toDriver).panes \cap model.pane}
           next == [model EXCEPT !.bound = theirs \cup ours]
       IN /\ model' = next
          /\ stage' = [stage EXCEPT ![c] = "on"]
          /\ view' = [view EXCEPT ![c] = Snapshot(next, c)]
    /\ UNCHANGED <<undisturbed, toTmux, left>>

Detach(c) ==
    /\ stage[c] = "on"
    /\ stage' = [stage EXCEPT ![c] = "off"]
    /\ view' = [view EXCEPT ![c] = NoView]
    /\ UNCHANGED <<undisturbed, wire, model, left>>

\* sendCommandWithReversal for set-synchronize-panes: write, then patch optimistically.
SetSync(c, w, on) ==
    /\ stage[c] = "on" /\ w \in view[c].win /\ Spend("event")
    /\ Write([kind |-> "setSync", win |-> w, on |-> on, undo |->
              IF w \in model.win THEN [kind |-> "sync", win |-> w, on |-> w \in model.sync]
              ELSE None])
    /\ patchModel(SyncPatch(model, w, on))
    /\ UNCHANGED <<undisturbed, toDriver, stage>>

\* The same for set-object-policy "bound": only the issuer's slot.
SetBound(c, w, on) ==
    /\ stage[c] = "on" /\ w \in view[c].pane /\ Spend("event")
    /\ Write([kind |-> "setBound", win |-> w, client |-> c, on |-> on, undo |->
              IF w \in model.pane
              THEN [kind |-> "bound", win |-> w, client |-> c, on |-> <<w, c>> \in model.bound]
              ELSE None])
    /\ patchModel(BoundPatch(model, w, c, on))
    /\ UNCHANGED <<undisturbed, toDriver, stage>>

-----------------------------------------------------------------------------
Tmux ==
    \/ \E w \in Window : CreateWindow(w) \/ KillWindow(w) \/ ToggleElsewhere(w) \/ SyncWatch(w)
    \/ ServeListing \/ ServeListingBadly \/ ServeSet \/ ServeBinding
Driver ==
    \/ ReceiveTopology \/ ReceiveListing \/ ReceiveSync \/ ReceiveResult \/ ReceiveBinding
    \/ CycleAgain \/ RequeryFails \/ RequeryCommits \/ BootstrapCommits \/ BootstrapFails
    \/ CeilingPasses \/ TrailingFires \/ Heartbeat
Clients ==
    \E c \in Client :
      \/ Attach(c) \/ Detach(c)
      \/ \E w \in Window, on \in BOOLEAN : SetSync(c, w, on) \/ SetBound(c, w, on)
Next == Tmux \/ Driver \/ Clients

\* tmux answers and polls, the driver reads and its timers fire; no change is promised.
Fairness ==
    /\ WF_vars(ServeListing \/ ServeListingBadly \/ ServeSet \/ ServeBinding)
    /\ \A w \in Window : WF_vars(SyncWatch(w))
    /\ WF_vars(ReceiveTopology \/ ReceiveListing \/ ReceiveSync \/ ReceiveResult \/ ReceiveBinding)
    /\ WF_vars(CycleAgain \/ RequeryFails \/ RequeryCommits \/ BootstrapCommits \/ BootstrapFails)
    /\ WF_vars(CeilingPasses) /\ WF_vars(TrailingFires) /\ WF_vars(Heartbeat)
Spec == Init /\ [][Next]_vars
FairSpec == Spec /\ Fairness

-----------------------------------------------------------------------------
(* Properties *)

Listing == {None} \cup
    [kind : {"windows", "panes"}, ok : BOOLEAN, win : SUBSET Window, sync : SUBSET Window]
Call == [start : Model, attempt : 1..CycleBudget, held : BOOLEAN,
         windows : Listing, panes : Listing]
View == [win : SUBSET Window, pane : SUBSET Window, sync : SUBSET Window, bound : SUBSET Window]
ASSUME IdleIsNoCall == Idle \notin Call

\* Every variable has its type.
TypeOK ==
    /\ truth \in [win : SUBSET Window, used : SUBSET Window, sync : SUBSET Window,
                  bound : SUBSET (Window \X Client)]
    /\ told \in [Window -> BOOLEAN]
    /\ model \in Model /\ baseline \in Model
    /\ dirty \in BOOLEAN /\ call \in {Idle} \cup Call
    /\ {trailing, cooling, resting, live} \subseteq BOOLEAN
    /\ buffered \in Nat
    /\ stage \in [Client -> {"off", "reading", "on"}]
    /\ view \in [Client -> View]

\* The dirty-bit promise of coalescer.ts: a dirty engine is never left to the heartbeat: a
\* call is in flight or the trailing timer is armed.  (A failed bootstrap is the exception.)
DirtyIsServed ==
    live /\ dirty /\ model # emptyModel => call # Idle \/ trailing

Torn(m) == m.pane # m.win

\* Most of what the model shows is still there: no genuine teardown is being confirmed,
\* which a faulty confirming listing would confirm as well.
Survivor ==
    model.win # {} /\ ~Loses(model.win, truth.win) /\ ~Loses(model.pane, truth.win)

\* "Commit only clean snapshots" (requery.ts): two listings taken at different moments, or
\* one faulty listing, never turn a coherent model into one whose windows and panes disagree,
\* and one empty listing never closes every window of a live session (the teardown guard).
CommitsAreClean ==
    [][live /\ Survivor => (~Torn(model) => ~Torn(model')) /\ model'.win # {}]_vars

Synced ==
    /\ live
    /\ model.win = truth.win /\ model.pane = truth.win /\ model.sync = truth.sync
    /\ \A c \in Client : stage[c] = "on" => view[c].win = truth.win /\ view[c].pane = truth.win

\* Once tmux and the clients are quiet, the engine's model is tmux's state and every mirror
\* has its windows and panes, whatever was patched, refuted or retried and however the
\* changes fell between the two listings.
EventuallySynced == <>[]Synced

OptionsAgree == \A c \in Client : stage[c] = "on" => view[c].sync = model.sync

\* pipeline.ts on patches: the engine's model is patched too "so the next requery diffs from
\* the patched baseline", which would keep the mirrors in step: once tmux and the clients
\* are quiet, every mirror has the options of the engine's model.
OptionsEventuallyAgree == <>[]OptionsAgree

\* carryForwardOverlays: "a requery cycle never clobbers overlay state that was [...]
\* applied optimistically": a commit leaves the overlay of a surviving pane as it is.
RequeryKeepsOverlays ==
    [][baseline' # baseline =>
         \A w \in model.pane \cap model'.pane, c \in Client :
            <<w, c>> \in model.bound <=> <<w, c>> \in model'.bound]_vars
=============================================================================
