--------------------------- MODULE ModelSyncProofs ---------------------------
(***************************************************************************)
(* Proofs about ModelSync.  A failed requery is retried by the trailing    *)
(* timer, never left to the heartbeat; and the engine's commits are clean: *)
(* the dirty bit stands for every change between the two listings of a     *)
(* cycle, and a lone faulty listing is outvoted by the confirming cycle.   *)
(* The second rests on where the replies of the current cycle are in the   *)
(* control stream, and what else is in there with them.                    *)
(***************************************************************************)
EXTENDS ModelSync, FiniteSetTheorems, SequenceTheorems, TLAPS

-----------------------------------------------------------------------------
(* What the wires carry *)

Undo == {None} \cup [kind : {"sync"}, win : Window, on : BOOLEAN]
    \cup [kind : {"bound"}, win : Window, client : Client, on : BOOLEAN]
Listings == [kind : {"windows", "panes"}, ok : BOOLEAN, win : SUBSET Window,
             sync : SUBSET Window]
Command == [kind : {"windows", "panes"}]
    \cup [kind : {"setSync"}, win : Window, on : BOOLEAN, undo : Undo]
    \cup [kind : {"setBound"}, win : Window, client : Client, on : BOOLEAN, undo : Undo]
    \cup [kind : {"binding"}, client : Client]
Token == [kind : {"topology"}] \cup Listings
    \cup [kind : {"sync"}, win : Window, on : BOOLEAN]
    \cup [kind : {"result"}, ok : BOOLEAN, undo : Undo]
    \cup [kind : {"binding"}, client : Client, panes : SUBSET Window]

TypeInv ==
    /\ TypeOK
    /\ toTmux \in Seq(Command) /\ toDriver \in Seq(Token)
    /\ left \in [event : Nat, fault : Nat]

\* While the bootstrap cycle runs there is no model and no timer; afterwards the timer is
\* armed between calls only.
BootInv ==
    /\ ~live => model = emptyModel /\ call # Idle /\ ~trailing /\ ~dirty
    /\ trailing => call = Idle

-----------------------------------------------------------------------------
(* Where the listings of the current cycle are.  A reply is at its place in *)
(* toDriver, or at 0 once it is read.                                       *)

KindAt(s, k) == {i \in DOMAIN s : s[i].kind = k}
Asked(k) == KindAt(toTmux, k)
InStream(k) == KindAt(toDriver, k)
IsRead(k) == call # Idle /\ (IF k = "windows" THEN call.windows ELSE call.panes) # None
At(k) == InStream(k) \cup (IF IsRead(k) THEN {0} ELSE {})
Heard(k, i) == IF i > 0 THEN toDriver[i]
                ELSE IF k = "windows" THEN call.windows ELSE call.panes

Kinds == {"windows", "panes"}

\* Nothing is asked or answered out of turn, each listing once.
CycleInv ==
    /\ call = Idle => \A k \in Kinds : Asked(k) = {} /\ InStream(k) = {}
    /\ \A k \in Kinds : \A i, j \in Asked(k) : i = j
    /\ \A k \in Kinds : \A i, j \in At(k) : i = j
    /\ \A k \in Kinds : Asked(k) = {} \/ At(k) = {}
    /\ \A i \in Asked("windows"), j \in Asked("panes") : i < j
    /\ Asked("windows") = {} \/ At("panes") = {}
    /\ \A i \in At("windows"), j \in At("panes") : i < j \/ (i = 0 /\ j = 0)

\* What DirtyIsServed needs besides.
ServedInv == TypeInv /\ CycleInv /\ BootInv /\ DirtyIsServed

\* tmux has reported a change, after the reply at i and before place j: it is in the
\* stream or was read and left the dirty bit.
Reported(i, j) ==
    \/ \E h \in InStream("topology") : i < h /\ h < j
    \/ i = 0 /\ dirty

Full(k, i) == Heard(k, i).win # {}

\* Two listings differ only if the change between them is reported; so does a listing from
\* tmux's present state while the other is not served.
AgreeInv ==
    live => /\ \A i \in At("windows"), j \in At("panes") :
                  Full("windows", i) /\ Full("panes", j) =>
                     \/ Heard("windows", i).win = Heard("panes", j).win
                     \/ Reported(i, j)
            /\ \A i \in At("windows") :
                  Full("windows", i) /\ At("panes") = {} =>
                     \/ Heard("windows", i).win = truth.win
                     \/ Reported(i, Len(toDriver) + 1)

\* Window ids are tmux's and are not used again; a session has a window.
TruthInv == truth.win # {} /\ truth.win \subseteq truth.used /\ IsFiniteSet(truth.used)

\* The model's windows are or were tmux's, and stay what they are during a call.
ModelInv ==
    /\ model.win \subseteq truth.used /\ model.pane \subseteq model.win
    /\ live /\ call # Idle => call.start.win = model.win /\ call.start.pane = model.pane

\* A listing with rows shows the windows of the model that are still there, and the one
\* fault makes one without rows.
HeardInv ==
    \A k \in Kinds : \A i \in At(k) :
        /\ Heard(k, i).win \subseteq truth.used
        /\ Full(k, i) => model.win \cap truth.win \subseteq Heard(k, i).win
        /\ ~Full(k, i) => left.fault = 0

\* A confirming cycle has a real teardown to confirm, or the fault is behind it.
HeldInv ==
    live /\ call # Idle /\ call.held =>
        \/ Loses(model.win, truth.win) \/ Loses(model.pane, truth.win)
        \/ left.fault = 0 /\ \A k \in Kinds : \A i \in At(k) : Full(k, i)

CleanInv ==
    /\ ServedInv /\ AgreeInv
    /\ left.fault <= 1 /\ TruthInv /\ ModelInv /\ HeardInv /\ HeldInv

-----------------------------------------------------------------------------
(* The operators on models *)

LEMMA PatchesAreModels ==
    ASSUME NEW m \in Model, NEW w \in Window, NEW c \in Client, NEW on \in BOOLEAN
    PROVE  /\ SyncPatch(m, w, on) \in Model /\ BoundPatch(m, w, c, on) \in Model
           /\ SyncPatch(m, w, on).win = m.win /\ SyncPatch(m, w, on).pane = m.pane
           /\ BoundPatch(m, w, c, on).win = m.win /\ BoundPatch(m, w, c, on).pane = m.pane
           /\ m = emptyModel => SyncPatch(m, w, on) = m /\ BoundPatch(m, w, c, on) = m
BY DEF SyncPatch, BoundPatch, SetIn, Model, emptyModel

LEMMA ViewsAreViews ==
    ASSUME NEW m \in Model, NEW n \in Model, NEW c \in Client, NEW v \in View
    PROVE  ApplyDiff(v, c, m, n) \in View /\ Snapshot(m, c) \in View /\ NoView \in View
<1>1. ApplyDiff(v, c, m, n) \in View
  BY DEF ApplyDiff, View, Model, Restructured, Restated, paneBoundFor
<1>2. Snapshot(m, c) \in View
  BY DEF Snapshot, View, Model, paneBoundFor
<1>3. NoView \in View
  BY DEF NoView, View
<1> QED BY <1>1, <1>2, <1>3

LEMMA EmitTypes ==
    ASSUME NEW m \in Model, NEW n \in Model, view \in [Client -> View], Emit(m, n)
    PROVE  view' \in [Client -> View]
BY ViewsAreViews DEF Emit

LEMMA CandidateType ==
    ASSUME call \in Call, call.windows # None, call.panes # None
    PROVE  /\ candidate \in Model
           /\ candidate.win = call.windows.win
           /\ candidate.pane = call.panes.win \cap call.windows.win
<1>1. call.windows \in Listings /\ call.panes \in Listings /\ call.start \in Model
  BY DEF Call, Listing, Listings
<1> DEFINE built == buildInitialModel(call.windows, call.panes)
<1>2. built \in Model /\ built.win = call.windows.win
        /\ built.pane = call.panes.win \cap call.windows.win
  BY <1>1 DEF buildInitialModel, Model, Listings
<1> HIDE DEF built
<1>3. ASSUME NEW p \in Model
      PROVE  /\ carryForwardOverlays(p, built) \in Model
             /\ carryForwardOverlays(p, built).win = built.win
             /\ carryForwardOverlays(p, built).pane = built.pane
  BY <1>2 DEF carryForwardOverlays, Model
<1> QED BY <1>1, <1>2, <1>3 DEF candidate, built

LEMMA CallTypes ==
    /\ None \in Listing /\ ListCommands \in Seq(Command)
    /\ \A m \in Model : Fresh(m) \in Call /\ Fresh(m) # Idle
    /\ \A on \in BOOLEAN : call \in Call /\ BudgetLeft => NextCycle(on) \in Call
<1>1. None \in Listing BY DEF Listing
<1>2. ListCommands \in Seq(Command) BY DEF ListCommands, Command, Request
<1>3. ASSUME NEW m \in Model PROVE Fresh(m) \in Call /\ Fresh(m) # Idle
  <2>1. 1 \in 1..CycleBudget BY Budgets
  <2>2. Fresh(m) \in Call BY <1>1, <2>1 DEF Fresh, Call
  <2> QED BY <2>2, IdleIsNoCall
<1>4. ASSUME NEW on \in BOOLEAN, call \in Call, BudgetLeft PROVE NextCycle(on) \in Call
  <2>1. call.attempt + 1 \in 1..CycleBudget BY <1>4, Budgets DEF Call, BudgetLeft
  <2> QED BY <1>1, <1>4, <2>1 DEF NextCycle, Call
<1> QED BY <1>1, <1>2, <1>3, <1>4

-----------------------------------------------------------------------------
(* Types *)

LEMMA InitTypes == Init => TypeInv
<1> SUFFICES ASSUME Init PROVE TypeInv OBVIOUS
<1>1. emptyModel \in Model BY DEF emptyModel, Model
<1>2. call \in Call /\ toTmux \in Seq(Command) BY <1>1, CallTypes DEF Init
<1>3. toDriver \in Seq(Token) BY DEF Init
<1>4. view \in [Client -> View] BY ViewsAreViews, <1>1 DEF Init, NoView, View
<1>5. truth \in [win : SUBSET Window, used : SUBSET Window, sync : SUBSET Window,
                 bound : SUBSET (Window \X Client)]
  BY SessionHasWindows DEF Init
<1>6. left \in [event : Nat, fault : Nat] BY Bounds DEF Init
<1> QED BY <1>1, <1>2, <1>3, <1>4, <1>5, <1>6 DEF Init, TypeInv, TypeOK

Truths == [win : SUBSET Window, used : SUBSET Window, sync : SUBSET Window,
           bound : SUBSET (Window \X Client)]

LEMMA SpendTypes ==
    ASSUME left \in [event : Nat, fault : Nat], NEW b \in {"event", "fault"}, Spend(b)
    PROVE  /\ left' \in [event : Nat, fault : Nat]
           /\ b = "event" => left'.fault = left.fault
           /\ b = "fault" => left.fault > 0 /\ left'.fault = left.fault - 1
<1>1. CASE b = "event" BY <1>1 DEF Spend
<1>2. CASE b = "fault" BY <1>2 DEF Spend
<1> QED BY <1>1, <1>2

\* What an action of tmux does to types: the truth, a told value, the wires, the bounds.
LEMMA TmuxTypes ==
    ASSUME TypeInv, UNCHANGED driverState, truth' \in Truths, told' \in [Window -> BOOLEAN],
           toTmux' \in Seq(Command), toDriver' \in Seq(Token),
           left' \in [event : Nat, fault : Nat]
    PROVE  TypeInv'
BY DEF TypeInv, TypeOK, Truths, driverState, engine, timers, clients

LEMMA NotifyTypes ==
    ASSUME TypeInv
    PROVE  /\ \A tok \in Token : Notify(tok) => toDriver' \in Seq(Token)
           /\ \A cmd \in Command : Write(cmd) => toTmux' \in Seq(Command)
           /\ toTmux # <<>> => Tail(toTmux) \in Seq(Command) /\ Head(toTmux) \in Command
           /\ toDriver # <<>> => Tail(toDriver) \in Seq(Token) /\ Head(toDriver) \in Token
           /\ toTmux \o ListCommands \in Seq(Command)
<1>1. toTmux \in Seq(Command) /\ toDriver \in Seq(Token) BY DEF TypeInv
<1>2. \A tok \in Token : Append(toDriver, tok) \in Seq(Token) BY <1>1
<1>3. \A cmd \in Command : Append(toTmux, cmd) \in Seq(Command) BY <1>1
<1>4. toTmux # <<>> => Tail(toTmux) \in Seq(Command) /\ Head(toTmux) \in Command BY <1>1
<1>5. toDriver # <<>> => Tail(toDriver) \in Seq(Token) /\ Head(toDriver) \in Token BY <1>1
<1>6. toTmux \o ListCommands \in Seq(Command) BY <1>1, CallTypes
<1> QED BY <1>2, <1>3, <1>4, <1>5, <1>6 DEF Notify, Write

LEMMA TmuxStepTypes == TypeInv /\ Tmux => TypeInv'
<1> SUFFICES ASSUME TypeInv, Tmux PROVE TypeInv' OBVIOUS
<1> USE DEF tmux, wire
<1>t. /\ truth \in Truths /\ told \in [Window -> BOOLEAN] /\ toTmux \in Seq(Command)
      /\ toDriver \in Seq(Token) /\ left \in [event : Nat, fault : Nat]
  BY DEF TypeInv, TypeOK, Truths
<1>n. Request("topology") \in Token BY DEF Request, Token
<1>1. ASSUME NEW w \in Window, CreateWindow(w) PROVE TypeInv'
  <2>1. truth' \in Truths BY <1>1, <1>t DEF CreateWindow, Truths
  <2> QED BY <1>1, <1>t, <1>n, <2>1, SpendTypes, NotifyTypes, TmuxTypes DEF CreateWindow
<1>2. ASSUME NEW w \in Window, KillWindow(w) PROVE TypeInv'
  <2>1. truth' \in Truths BY <1>2, <1>t DEF KillWindow, Truths
  <2> QED BY <1>2, <1>t, <1>n, <2>1, SpendTypes, NotifyTypes, TmuxTypes DEF KillWindow
<1>3. ASSUME NEW w \in Window, ToggleElsewhere(w) PROVE TypeInv'
  <2>1. truth' \in Truths BY <1>3, <1>t DEF ToggleElsewhere, SetIn, Truths
  <2> QED BY <1>3, <1>t, <2>1, SpendTypes, TmuxTypes DEF ToggleElsewhere
<1>4. ASSUME NEW w \in Window, SyncWatch(w) PROVE TypeInv'
  <2>1. told' \in [Window -> BOOLEAN] BY <1>4, <1>t DEF SyncWatch
  <2>2. [kind |-> "sync", win |-> w, on |-> ~told[w]] \in Token BY <1>t DEF Token
  <2> QED BY <1>4, <1>t, <2>1, <2>2, NotifyTypes, TmuxTypes DEF SyncWatch
<1>5. CASE ServeListing
  <2>1. Head(toTmux).kind \in {"windows", "panes"} BY <1>5 DEF ServeListing, IsListing
  <2>2. truth.win \in SUBSET Window /\ truth.sync \in SUBSET Window BY <1>t DEF Truths
  <2>3. [kind |-> Head(toTmux).kind, ok |-> TRUE, win |-> truth.win,
         sync |-> IF Head(toTmux).kind = "windows" THEN truth.sync ELSE {}] \in Token
    BY <2>1, <2>2 DEF Token, Listings
  <2> QED BY <1>5, <1>t, <2>3, NotifyTypes, TmuxTypes DEF ServeListing, Reply
<1>6. CASE ServeListingBadly
  <2>1. Head(toTmux).kind \in {"windows", "panes"} BY <1>6 DEF ServeListingBadly, IsListing
  <2>2. \A ok \in BOOLEAN : [kind |-> Head(toTmux).kind, ok |-> ok, win |-> {}, sync |-> {}]
                                \in Token
    BY <2>1 DEF Token, Listings
  <2>3. toDriver' \in Seq(Token) /\ toTmux' \in Seq(Command)
    BY <1>6, <2>2, NotifyTypes DEF ServeListingBadly, Reply
  <2> QED BY <1>6, <1>t, <2>3, SpendTypes, TmuxTypes DEF ServeListingBadly
<1>7. CASE ServeSet
  <2> DEFINE cmd == Head(toTmux)
             ok == cmd.win \in truth.win
  <2>1. cmd \in Command /\ cmd.kind \in {"setSync", "setBound"}
    BY <1>7, NotifyTypes DEF ServeSet
  <2>2. cmd.win \in Window /\ cmd.undo \in Undo /\ (cmd.kind = "setBound" => cmd.client \in Client)
    BY <2>1 DEF Command
  <2>3. [kind |-> "result", ok |-> ok, undo |-> cmd.undo] \in Token BY <2>2 DEF Token
  <2>4. toDriver' \in Seq(Token) /\ toTmux' \in Seq(Command)
    BY <1>7, <2>3, NotifyTypes DEF ServeSet, Reply
  <2>5. truth' \in Truths
    <3>1. CASE ~ok BY <1>7, <1>t, <3>1 DEF ServeSet
    <3>2. CASE ok /\ cmd.kind = "setSync"
      <4>1. truth' = [truth EXCEPT !.sync = SetIn(@, cmd.win, cmd.on)] BY <1>7, <3>2 DEF ServeSet
      <4> QED BY <4>1, <1>t, <2>2 DEF SetIn, Truths
    <3>3. CASE ok /\ cmd.kind = "setBound"
      <4>1. truth' = [truth EXCEPT !.bound = SetIn(@, <<cmd.win, cmd.client>>, cmd.on)]
        BY <1>7, <3>3 DEF ServeSet
      <4>2. <<cmd.win, cmd.client>> \in Window \X Client BY <2>2, <3>3
      <4> QED BY <4>1, <4>2, <1>t DEF SetIn, Truths
    <3> QED BY <3>1, <3>2, <3>3, <2>1
  <2> QED BY <1>7, <1>t, <2>4, <2>5, TmuxTypes DEF ServeSet
<1>8. CASE ServeBinding
  <2> DEFINE c == Head(toTmux).client
  <2>1. c \in Client BY <1>8, NotifyTypes DEF ServeBinding, Command
  <2>2. [kind |-> "binding", client |-> c,
         panes |-> {w \in truth.win : <<w, c>> \in truth.bound}] \in Token
    BY <2>1, <1>t DEF Token, Truths
  <2>3. toDriver' \in Seq(Token) /\ toTmux' \in Seq(Command)
    BY <1>8, <2>2, NotifyTypes DEF ServeBinding, Reply
  <2> QED BY <1>8, <1>t, <2>3, TmuxTypes DEF ServeBinding
<1> QED BY <1>1, <1>2, <1>3, <1>4, <1>5, <1>6, <1>7, <1>8 DEF Tmux

\* What an action of the driver or of a client does to types.
LEMMA DriverTypes ==
    ASSUME TypeInv, UNCHANGED tmux, model' \in Model, baseline' \in Model, dirty' \in BOOLEAN,
           call' \in {Idle} \cup Call, {trailing', cooling', resting', live'} \subseteq BOOLEAN,
           buffered' \in Nat, stage' \in [Client -> {"off", "reading", "on"}],
           view' \in [Client -> View], toTmux' \in Seq(Command), toDriver' \in Seq(Token),
           left' \in [event : Nat, fault : Nat]
    PROVE  TypeInv'
BY DEF TypeInv, TypeOK, tmux

\* A requery that starts, or the notification that may start one, keeps the types.
LEMMA NotifyKeepsTypes ==
    ASSUME TypeInv
    PROVE  /\ \A m \in Model, on \in BOOLEAN : RunRequery(m, on) =>
                 /\ call' \in Call /\ call' # Idle /\ toTmux' \in Seq(Command)
                 /\ cooling' \in BOOLEAN /\ dirty' \in BOOLEAN
           /\ notify => /\ call' \in {Idle} \cup Call /\ toTmux' \in Seq(Command)
                        /\ {cooling', dirty', trailing'} \subseteq BOOLEAN
<1>1. ASSUME NEW m \in Model, NEW on \in BOOLEAN, RunRequery(m, on)
      PROVE  /\ call' \in Call /\ call' # Idle /\ toTmux' \in Seq(Command)
             /\ cooling' \in BOOLEAN /\ dirty' \in BOOLEAN
  BY <1>1, CallTypes, NotifyTypes DEF RunRequery
<1>2. ASSUME notify
      PROVE  /\ call' \in {Idle} \cup Call /\ toTmux' \in Seq(Command)
             /\ {cooling', dirty', trailing'} \subseteq BOOLEAN
  <2>1. CASE LeadingEdge
    <3>1. RunRequery(model, FALSE) /\ trailing' = trailing BY <1>2, <2>1 DEF notify
    <3>2. model \in Model /\ trailing \in BOOLEAN BY DEF TypeInv, TypeOK
    <3> QED BY <1>1, <3>1, <3>2
  <2>2. CASE ~LeadingEdge
    BY <1>2, <2>2 DEF notify, TypeInv, TypeOK
  <2> QED BY <2>1, <2>2
<1> QED BY <1>1, <1>2

LEMMA DriverStepTypes == TypeInv /\ CycleInv /\ Driver => TypeInv'
<1> SUFFICES ASSUME TypeInv, CycleInv, Driver PROVE TypeInv' OBVIOUS
<1> USE DEF tmux, wire, engine, timers, clients
<1>t. /\ model \in Model /\ baseline \in Model /\ dirty \in BOOLEAN
      /\ call \in {Idle} \cup Call /\ {trailing, cooling, resting, live} \subseteq BOOLEAN
      /\ buffered \in Nat /\ stage \in [Client -> {"off", "reading", "on"}]
      /\ view \in [Client -> View] /\ toTmux \in Seq(Command) /\ toDriver \in Seq(Token)
      /\ left \in [event : Nat, fault : Nat]
  BY DEF TypeInv, TypeOK
<1>n. ASSUME NEW k, Receives(k)
      PROVE  /\ Head(toDriver) \in Token /\ Head(toDriver).kind = k /\ toDriver' \in Seq(Token)
  BY <1>n, NotifyTypes DEF Receives
<1>p. ASSUME NEW n \in Model, patchModel(n)
      PROVE  model' \in Model /\ view' \in [Client -> View]
  BY <1>t, <1>p, EmitTypes DEF patchModel
<1>1. CASE ReceiveTopology
  <2>1. toDriver' \in Seq(Token) BY <1>1, <1>n DEF ReceiveTopology
  <2>2. /\ call' \in {Idle} \cup Call /\ toTmux' \in Seq(Command)
        /\ {cooling', dirty', trailing'} \subseteq BOOLEAN /\ buffered' \in Nat
    BY <1>1, <1>t, NotifyKeepsTypes DEF ReceiveTopology, Buffer
  <2> QED BY <1>1, <1>t, <2>1, <2>2, DriverTypes DEF ReceiveTopology
<1>2. CASE ReceiveListing
  <2>1. PICK k \in {"windows", "panes"} : Receives(k)
    BY <1>2 DEF ReceiveListing
  <2>2. Head(toDriver) \in Listing /\ toDriver' \in Seq(Token)
    BY <1>n, <2>1 DEF Token, Listing, Listings
  <2>3. call \in Call
    <3>1. 1 \in InStream(k) BY <1>t, <2>1 DEF Receives, InStream, KindAt
    <3> QED BY <3>1, <1>t DEF CycleInv, Kinds
  <2>4. call' \in Call
    BY <1>2, <2>2, <2>3 DEF ReceiveListing, Call
  <2> QED BY <1>2, <1>t, <2>2, <2>4, DriverTypes DEF ReceiveListing
<1>3. CASE ReceiveSync
  <2> DEFINE tok == Head(toDriver)
  <2>1. tok.win \in Window /\ tok.on \in BOOLEAN /\ toDriver' \in Seq(Token)
    BY <1>3, <1>n DEF ReceiveSync, Token, Listings
  <2>3. SyncPatch(model, tok.win, tok.on) \in Model
    BY <2>1, <1>t DEF SyncPatch, SetIn, Model
  <2>4. model' \in Model /\ view' \in [Client -> View]
    BY <1>3, <1>p, <2>3 DEF ReceiveSync
  <2> QED BY <1>3, <1>t, <2>1, <2>4, DriverTypes DEF ReceiveSync, unpatched
<1>4. CASE ReceiveResult
  <2> DEFINE tok == Head(toDriver)
             undo == tok.undo
             next == CASE tok.ok \/ undo.kind = "none" -> model
                       [] ~tok.ok /\ undo.kind = "sync" -> SyncPatch(model, undo.win, undo.on)
                       [] ~tok.ok /\ undo.kind = "bound" ->
                            BoundPatch(model, undo.win, undo.client, undo.on)
  <2>1. undo \in Undo /\ tok.ok \in BOOLEAN /\ toDriver' \in Seq(Token)
    BY <1>4, <1>n DEF ReceiveResult, Token, Listings
  <2>2. next \in Model
    <3>1. CASE tok.ok \/ undo.kind = "none" BY <3>1, <1>t
    <3>2. CASE ~tok.ok /\ undo.kind = "sync"
      <4>1. undo.win \in Window /\ undo.on \in BOOLEAN BY <2>1, <3>2 DEF Undo, None
      <4>2. SyncPatch(model, undo.win, undo.on) \in Model
        BY <4>1, <1>t DEF SyncPatch, SetIn, Model
      <4> QED BY <3>2, <4>2
    <3>3. CASE ~tok.ok /\ undo.kind = "bound"
      <4>1. undo.win \in Window /\ undo.on \in BOOLEAN /\ undo.client \in Client
        BY <2>1, <3>3 DEF Undo, None
      <4> QED BY <3>3, <4>1, <1>t, PatchesAreModels
    <3>4. undo.kind \in {"none", "sync", "bound"} BY <2>1 DEF Undo, None
    <3> QED BY <3>1, <3>2, <3>3, <3>4, <2>1
  <2>3. patchModel(next) BY <1>4 DEF ReceiveResult
  <2>4. model' \in Model /\ view' \in [Client -> View]
    BY <1>p, <2>2, <2>3
  <2> QED BY <1>4, <1>t, <2>1, <2>4, DriverTypes DEF ReceiveResult, unpatched
<1>5. CASE ReceiveBinding
  <2> DEFINE c == Head(toDriver).client
             theirs == {b \in model.bound : b[2] # c}
             ours == {<<w, c>> : w \in Head(toDriver).panes \cap model.pane}
             next == [model EXCEPT !.bound = theirs \cup ours]
  <2>1. c \in Client /\ Head(toDriver).panes \in SUBSET Window /\ toDriver' \in Seq(Token)
    BY <1>5, <1>n DEF ReceiveBinding, Token, Listings
  <2>2. theirs \cup ours \subseteq Window \X Client BY <2>1, <1>t DEF Model
  <2>3. next \in Model BY <2>2, <1>t DEF Model
  <2>4. Snapshot(next, c) \in View BY <2>3 DEF Snapshot, View, Model, paneBoundFor
  <2> HIDE DEF next
  <2>5. /\ model' = next /\ stage' = [stage EXCEPT ![c] = "on"]
        /\ view' = [view EXCEPT ![c] = Snapshot(next, c)]
    BY <1>5 DEF ReceiveBinding, next
  <2>6. /\ model' \in Model /\ view' \in [Client -> View]
        /\ stage' \in [Client -> {"off", "reading", "on"}]
    BY <1>t, <2>1, <2>3, <2>4, <2>5
  <2> QED BY <1>5, <1>t, <2>1, <2>6, DriverTypes DEF ReceiveBinding, undisturbed
<1>a. ASSUME Answered PROVE call \in Call /\ candidate \in Model /\ candidate \in Model
  BY <1>a, <1>t, CandidateType DEF Answered
<1>6. CASE CycleAgain
  <2>1. call' \in Call
    BY <1>6, <1>a, CallTypes DEF CycleAgain, Outdated, Erred
  <2>2. toTmux' \in Seq(Command) BY <1>6, NotifyTypes DEF CycleAgain
  <2> QED BY <1>6, <1>t, <2>1, <2>2, DriverTypes DEF CycleAgain
<1>7. CASE RequeryFails
  BY <1>7, <1>t, DriverTypes DEF RequeryFails, RetryScheduled, Rearmed
<1>8. CASE RequeryCommits
  <2>1. candidate \in Model BY <1>8, <1>a DEF RequeryCommits, Commits
  <2> QED BY <1>8, <1>t, <2>1, EmitTypes, DriverTypes DEF RequeryCommits, Rearmed
<1>d. ASSUME NEW m \in Model, Drain(m)
      PROVE  /\ call' \in {Idle} \cup Call /\ toTmux' \in Seq(Command) /\ live' \in BOOLEAN
             /\ buffered' \in Nat /\ {cooling', resting'} \subseteq BOOLEAN
             /\ buffered # 0 => dirty' \in BOOLEAN
  <2>1. CASE buffered = 0 BY <1>d, <1>t, <2>1 DEF Drain
  <2>2. CASE buffered # 0
    <3>1. RunRequery(m, buffered > 1) /\ (buffered > 1) \in BOOLEAN BY <1>d, <2>2 DEF Drain
    <3> QED BY <1>d, <3>1, NotifyKeepsTypes DEF Drain
  <2> QED BY <2>1, <2>2
<1>9. CASE BootstrapCommits
  <2>1. candidate \in Model BY <1>9, <1>a DEF BootstrapCommits, Commits
  <2> QED BY <1>9, <1>t, <1>d, <2>1, DriverTypes DEF BootstrapCommits, Drain
<1>10. CASE BootstrapFails
  BY <1>10, <1>t, <1>d, DriverTypes DEF BootstrapFails, Drain
<1>11. CASE CeilingPasses
  BY <1>11, <1>t, DriverTypes DEF CeilingPasses
<1>12. CASE TrailingFires
  BY <1>12, <1>t, NotifyKeepsTypes, DriverTypes DEF TrailingFires
<1>13. CASE Heartbeat
  BY <1>13, <1>t, NotifyKeepsTypes, DriverTypes DEF Heartbeat
<1> QED BY <1>1, <1>2, <1>3, <1>4, <1>5, <1>6, <1>7, <1>8, <1>9, <1>10, <1>11, <1>12, <1>13
        DEF Driver

LEMMA ClientStepTypes == TypeInv /\ Clients => TypeInv'
<1> SUFFICES ASSUME TypeInv, Clients PROVE TypeInv' OBVIOUS
<1> USE DEF tmux, wire, engine, timers, clients
<1>t. /\ model \in Model /\ baseline \in Model /\ dirty \in BOOLEAN
      /\ call \in {Idle} \cup Call /\ {trailing, cooling, resting, live} \subseteq BOOLEAN
      /\ buffered \in Nat /\ stage \in [Client -> {"off", "reading", "on"}]
      /\ view \in [Client -> View] /\ toTmux \in Seq(Command) /\ toDriver \in Seq(Token)
      /\ left \in [event : Nat, fault : Nat]
  BY DEF TypeInv, TypeOK
<1>p. ASSUME NEW n \in Model, patchModel(n)
      PROVE  model' \in Model /\ view' \in [Client -> View]
  BY <1>t, <1>p, EmitTypes DEF patchModel
<1>1. ASSUME NEW c \in Client, Attach(c) PROVE TypeInv'
  <2>1. [kind |-> "binding", client |-> c] \in Command BY DEF Command
  <2>2. Snapshot(model, c) \in View BY <1>t DEF Snapshot, View, Model, paneBoundFor
  <2>3. /\ toTmux' \in Seq(Command) /\ view' \in [Client -> View]
        /\ stage' \in [Client -> {"off", "reading", "on"}]
    BY <1>1, <1>t, <2>1, <2>2, NotifyTypes DEF Attach
  <2>4. left' \in [event : Nat, fault : Nat] BY <1>1, <1>t, SpendTypes DEF Attach
  <2> QED BY <1>1, <1>t, <2>3, <2>4, DriverTypes DEF Attach, undisturbed
<1>2. ASSUME NEW c \in Client, Detach(c) PROVE TypeInv'
  <2>1. NoView \in View BY DEF NoView, View
  <2> QED BY <1>2, <1>t, <2>1, DriverTypes DEF Detach, undisturbed
<1>3. ASSUME NEW c \in Client, NEW w \in Window, NEW on \in BOOLEAN, SetSync(c, w, on)
      PROVE  TypeInv'
  <2> DEFINE undo == IF w \in model.win
                     THEN [kind |-> "sync", win |-> w, on |-> w \in model.sync] ELSE None
  <2>1. undo \in Undo BY DEF Undo
  <2>2. [kind |-> "setSync", win |-> w, on |-> on, undo |-> undo] \in Command
    BY <2>1 DEF Command
  <2>3. toTmux' \in Seq(Command) BY <1>3, <2>2, NotifyTypes DEF SetSync
  <2>4. model' \in Model /\ view' \in [Client -> View]
    BY <1>3, <1>t, <1>p, PatchesAreModels DEF SetSync
  <2>5. left' \in [event : Nat, fault : Nat] BY <1>3, <1>t, SpendTypes DEF SetSync
  <2> QED BY <1>3, <1>t, <2>3, <2>4, <2>5, DriverTypes DEF SetSync, undisturbed
<1>4. ASSUME NEW c \in Client, NEW w \in Window, NEW on \in BOOLEAN, SetBound(c, w, on)
      PROVE  TypeInv'
  <2> DEFINE undo == IF w \in model.pane
                     THEN [kind |-> "bound", win |-> w, client |-> c,
                            on |-> <<w, c>> \in model.bound]
                     ELSE None
  <2>1. undo \in Undo BY DEF Undo
  <2>2. [kind |-> "setBound", win |-> w, client |-> c, on |-> on, undo |-> undo] \in Command
    BY <2>1 DEF Command
  <2>3. toTmux' \in Seq(Command) BY <1>4, <2>2, NotifyTypes DEF SetBound
  <2>4. model' \in Model /\ view' \in [Client -> View]
    BY <1>4, <1>t, <1>p, PatchesAreModels DEF SetBound
  <2>5. left' \in [event : Nat, fault : Nat] BY <1>4, <1>t, SpendTypes DEF SetBound
  <2> QED BY <1>4, <1>t, <2>3, <2>4, <2>5, DriverTypes DEF SetBound, undisturbed
<1> QED BY <1>1, <1>2, <1>3, <1>4 DEF Clients

LEMMA StepTypes == TypeInv /\ CycleInv /\ [Next]_vars => TypeInv'
<1>1. TypeInv /\ UNCHANGED vars => TypeInv'
  BY DEF vars, tmux, wire, engine, timers, clients, TypeInv, TypeOK
<1> QED BY <1>1, TmuxStepTypes, DriverStepTypes, ClientStepTypes DEF Next

-----------------------------------------------------------------------------
(* Places in a sequence *)

LEMMA KindAppend ==
    ASSUME NEW S, NEW s \in Seq(S), NEW x \in S
    PROVE  /\ Len(Append(s, x)) = Len(s) + 1 /\ Append(s, x)[Len(s) + 1] = x
           /\ \A i \in DOMAIN s : Append(s, x)[i] = s[i]
           /\ \A k : KindAt(Append(s, x), k) =
                        KindAt(s, k) \cup (IF x.kind = k THEN {Len(s) + 1} ELSE {})
<1>1. /\ Len(Append(s, x)) = Len(s) + 1 /\ Append(s, x)[Len(s) + 1] = x
      /\ \A i \in DOMAIN s : Append(s, x)[i] = s[i]
      /\ DOMAIN s = 1..Len(s) /\ Len(s) \in Nat
      /\ DOMAIN Append(s, x) = 1..(Len(s) + 1)
  OBVIOUS
<1>2. DOMAIN Append(s, x) = DOMAIN s \cup {Len(s) + 1} /\ Len(s) + 1 \notin DOMAIN s BY <1>1
<1> HIDE <1>1
<1>3. ASSUME NEW k
      PROVE  KindAt(Append(s, x), k) =
                KindAt(s, k) \cup (IF x.kind = k THEN {Len(s) + 1} ELSE {})
  BY <1>1, <1>2 DEF KindAt
<1> QED BY <1>1, <1>3

LEMMA KindTail ==
    ASSUME NEW S, NEW s \in Seq(S), s # <<>>
    PROVE  /\ Len(Tail(s)) = Len(s) - 1 /\ Len(s) \in Nat /\ Len(s) > 0
           /\ \A i \in 1..(Len(s) - 1) : Tail(s)[i] = s[i + 1]
           /\ \A k : KindAt(Tail(s), k) = {i \in 1..(Len(s) - 1) : i + 1 \in KindAt(s, k)}
           /\ Head(s) = s[1] /\ \A k : 1 \in KindAt(s, k) <=> Head(s).kind = k
<1>1. /\ Len(Tail(s)) = Len(s) - 1 /\ Len(s) \in Nat /\ Len(s) > 0
      /\ DOMAIN Tail(s) = 1..(Len(s) - 1) /\ DOMAIN s = 1..Len(s) /\ Head(s) = s[1]
  OBVIOUS
<1>2. \A i \in 1..(Len(s) - 1) : Tail(s)[i] = s[i + 1] /\ i + 1 \in 1..Len(s) BY <1>1
<1>3. ASSUME NEW k
      PROVE  KindAt(Tail(s), k) = {i \in 1..(Len(s) - 1) : i + 1 \in KindAt(s, k)}
  BY <1>1, <1>2 DEF KindAt
<1>4. ASSUME NEW k PROVE 1 \in KindAt(s, k) <=> Head(s).kind = k
  BY <1>1 DEF KindAt
<1> QED BY <1>1, <1>2, <1>3, <1>4

LEMMA KindListCommands ==
    ASSUME NEW s \in Seq(Command)
    PROVE  LET t == s \o ListCommands
           IN  /\ KindAt(t, "windows") = KindAt(s, "windows") \cup {Len(s) + 1}
               /\ KindAt(t, "panes") = KindAt(s, "panes") \cup {Len(s) + 2}
<1> DEFINE t == s \o ListCommands
<1>1. /\ ListCommands \in Seq(Command)
      /\ Len(ListCommands) = 2 /\ ListCommands[1] = [kind |-> "windows"]
      /\ ListCommands[2] = [kind |-> "panes"]
  BY CallTypes DEF ListCommands, Request
<1>2. /\ Len(s) \in Nat /\ DOMAIN s = 1..Len(s) /\ DOMAIN t = 1..(Len(s) + 2)
      /\ \A i \in 1..Len(s) : t[i] = s[i]
      /\ t[Len(s) + 1] = [kind |-> "windows"] /\ t[Len(s) + 2] = [kind |-> "panes"]
  <2> DEFINE n == Len(s)
  <2>1. n \in Nat /\ DOMAIN s = 1..n OBVIOUS
  <2>2. /\ t \in Seq(Command) /\ Len(t) = n + 2
        /\ \A i \in 1..(n + 2) : t[i] = IF i <= n THEN s[i] ELSE ListCommands[i - n]
    <3>1. /\ t \in Seq(Command) /\ Len(t) = Len(s) + Len(ListCommands)
          /\ \A i \in 1..Len(s) + Len(ListCommands) :
                t[i] = IF i <= Len(s) THEN s[i] ELSE ListCommands[i - Len(s)]
      BY <1>1, ConcatProperties, Zenon
    <3> QED BY <1>1, <3>1, Zenon
  <2>3. DOMAIN t = 1..(n + 2) BY <2>1, <2>2
  <2> HIDE DEF n, t
  <2>4. \A i \in 1..n : t[i] = s[i] BY <2>1, <2>2
  <2>5. t[n + 1] = ListCommands[1] /\ t[n + 2] = ListCommands[2]
    <3>1. (n + 1) - n = 1 /\ (n + 2) - n = 2 /\ ~(n + 1 <= n) /\ ~(n + 2 <= n)
          /\ n + 1 \in 1..(n + 2) /\ n + 2 \in 1..(n + 2)
      BY <2>1
    <3> QED BY <2>2, <3>1, Zenon
  <2> QED BY <1>1, <2>1, <2>3, <2>4, <2>5 DEF n, t
<1> HIDE DEF t
<1>3. /\ t[Len(s) + 1].kind = "windows" /\ t[Len(s) + 2].kind = "panes"
      /\ DOMAIN t = DOMAIN s \cup {Len(s) + 1, Len(s) + 2}
      /\ Len(s) + 1 \notin DOMAIN s /\ Len(s) + 2 \notin DOMAIN s
  BY <1>2
<1>4. /\ KindAt(t, "windows") = KindAt(s, "windows") \cup {Len(s) + 1}
      /\ KindAt(t, "panes") = KindAt(s, "panes") \cup {Len(s) + 2}
  BY <1>2, <1>3 DEF KindAt
<1> QED BY <1>4 DEF t

-----------------------------------------------------------------------------
(* What a step does to the listings of the cycle *)

AskedLater == \E d \in Nat : \A k \in Kinds : \A i \in Asked(k)' : i + d \in Asked(k)
SameWindows == model'.win = model.win /\ model'.pane = model.pane

\* The reader stands still, and no listing comes in; a change of the windows is reported.
Waits ==
    /\ UNCHANGED <<call, live>> /\ SameWindows /\ AskedLater
    /\ dirty => dirty'
    /\ left'.fault = left.fault
    /\ \/ toDriver' = toDriver /\ truth'.win = truth.win /\ truth'.used = truth.used
       \/ \E tok \in Token :
            /\ tok.kind \notin Kinds /\ toDriver' = Append(toDriver, tok)
            /\ truth'.win = truth.win \/ tok.kind = "topology"
    /\ truth'.win \cap truth.used \subseteq truth.win /\ truth.used \subseteq truth'.used

\* The listing at the head of toTmux is answered: truthfully, or at the price of a fault.
Serves(k) ==
    /\ UNCHANGED <<call, live, dirty, truth, model>>
    /\ toTmux # <<>> /\ Head(toTmux).kind = k /\ toTmux' = Tail(toTmux)
    /\ \E tok \in Listings :
         /\ tok.kind = k /\ toDriver' = Append(toDriver, tok)
         /\ \/ tok.win = truth.win /\ left'.fault = left.fault
            \/ tok.win = {} /\ left.fault > 0 /\ left'.fault = left.fault - 1

\* The driver reads on: a listing is kept, a topology notification leaves the dirty bit.
Reads ==
    /\ UNCHANGED <<truth, toTmux, live>> /\ SameWindows /\ left'.fault = left.fault
    /\ toDriver # <<>> /\ toDriver' = Tail(toDriver)
    /\ LET tok == Head(toDriver)
       IN  /\ call' = CASE tok.kind = "windows" -> [call EXCEPT !.windows = tok]
                        [] tok.kind = "panes" -> [call EXCEPT !.panes = tok]
                        [] tok.kind \notin Kinds -> call
           /\ tok.kind = "topology" /\ live /\ call # Idle => dirty'
    /\ dirty => dirty'

\* A cycle begins, of a new call or of this one; while live only a commit moves the model.
Starts ==
    /\ UNCHANGED truth /\ left'.fault = left.fault
    /\ call = Idle \/ Answered
    /\ call' \in Call /\ call'.windows = None /\ call'.panes = None
    /\ toTmux' = toTmux \o ListCommands
    /\ toDriver' = toDriver \/ (toDriver # <<>> /\ toDriver' = Tail(toDriver))
    /\ SameWindows \/ (~live /\ Answered /\ model' = candidate)
    /\ \/ call'.start = model' /\ ~call'.held
       \/ /\ call'.start = call.start /\ SameWindows /\ live' = live /\ Answered
          /\ call'.held => Clean /\ Tripped

Ends ==
    /\ UNCHANGED <<truth, wire>> /\ left'.fault = left.fault
    /\ Answered /\ call' = Idle
    /\ SameWindows \/ (Commits /\ model' = candidate)

LEMMA SameAsked == TypeInv /\ toTmux' = toTmux => AskedLater
<1> SUFFICES ASSUME TypeInv, toTmux' = toTmux PROVE AskedLater OBVIOUS
<1>1. \A k \in Kinds : Asked(k)' = Asked(k) BY DEF Asked
<1>2. \A k \in Kinds : \A i \in Asked(k) : i \in Nat BY DEF Asked, KindAt, TypeInv
<1>3. \A k \in Kinds : \A i \in Asked(k)' : i + 0 \in Asked(k) BY <1>1, <1>2
<1> QED BY <1>3 DEF AskedLater

LEMMA WriteAsked ==
    ASSUME TypeInv, NEW cmd \in Command, cmd.kind \notin Kinds, Write(cmd)
    PROVE  AskedLater
<1>1. \A k \in Kinds : Asked(k)' = Asked(k)
  <2>1. toTmux \in Seq(Command) /\ toTmux' = Append(toTmux, cmd) BY DEF TypeInv, Write
  <2>2. \A k : KindAt(Append(toTmux, cmd), k) =
                KindAt(toTmux, k) \cup (IF cmd.kind = k THEN {Len(toTmux) + 1} ELSE {})
    BY <2>1, KindAppend
  <2> QED BY <2>1, <2>2 DEF Asked
<1>2. \A k \in Kinds : \A i \in Asked(k)' : i + 0 \in Asked(k)
  <2>1. \A k \in Kinds : \A i \in Asked(k) : i \in Nat BY DEF Asked, KindAt, TypeInv
  <2> QED BY <1>1, <2>1
<1> QED BY <1>2 DEF AskedLater

LEMMA TailAsked ==
    ASSUME TypeInv, toTmux # <<>>, toTmux' = Tail(toTmux)
    PROVE  AskedLater
<1>1. \A k : KindAt(Tail(toTmux), k) = {i \in 1..(Len(toTmux) - 1) : i + 1 \in KindAt(toTmux, k)}
  BY KindTail DEF TypeInv
<1>2. \A k \in Kinds : \A i \in Asked(k)' : i + 1 \in Asked(k) BY <1>1 DEF Asked
<1> QED BY <1>2 DEF AskedLater

LEMMA TmuxShape == TypeInv /\ Tmux => Waits \/ \E k \in Kinds : Serves(k)
<1> SUFFICES ASSUME TypeInv, Tmux PROVE Waits \/ \E k \in Kinds : Serves(k) OBVIOUS
<1> USE DEF tmux, wire, driverState, engine, timers, clients, SameWindows
<1>t. /\ truth \in Truths /\ told \in [Window -> BOOLEAN] /\ toTmux \in Seq(Command)
      /\ toDriver \in Seq(Token) /\ left \in [event : Nat, fault : Nat]
  BY DEF TypeInv, TypeOK, Truths
<1>n. Request("topology") \in Token /\ Request("topology").kind = "topology"
        /\ Request("topology").kind \notin Kinds
  BY DEF Request, Token, Kinds
<1>1. ASSUME NEW w \in Window, CreateWindow(w) PROVE Waits
  <2>1. truth'.win = truth.win \cup {w} /\ truth'.used = truth.used \cup {w} /\ w \notin truth.used
    BY <1>1, <1>t DEF CreateWindow, Truths
  <2> QED BY <1>1, <1>t, <1>n, <2>1, SpendTypes, SameAsked DEF CreateWindow, Waits, Notify
<1>2. ASSUME NEW w \in Window, KillWindow(w) PROVE Waits
  <2>1. truth'.win = truth.win \ {w} /\ truth'.used = truth.used
    BY <1>2, <1>t DEF KillWindow, Truths
  <2> QED BY <1>2, <1>t, <1>n, <2>1, SpendTypes, SameAsked DEF KillWindow, Waits, Notify
<1>3. ASSUME NEW w \in Window, ToggleElsewhere(w) PROVE Waits
  <2>1. truth'.win = truth.win /\ truth'.used = truth.used
    BY <1>3, <1>t DEF ToggleElsewhere, Truths
  <2> QED BY <1>3, <1>t, <2>1, SpendTypes, SameAsked DEF ToggleElsewhere, Waits
<1>4. ASSUME NEW w \in Window, SyncWatch(w) PROVE Waits
  <2> DEFINE tok == [kind |-> "sync", win |-> w, on |-> ~told[w]]
  <2>1. tok \in Token /\ tok.kind \notin Kinds BY <1>t DEF Token, Kinds
  <2>2. toDriver' = Append(toDriver, tok) BY <1>4 DEF SyncWatch, Notify
  <2> HIDE DEF tok
  <2> QED BY <1>4, <2>1, <2>2, SameAsked DEF SyncWatch, Waits
<1>5. CASE ServeListing
  <2> DEFINE k == Head(toTmux).kind
             tok == [kind |-> k, ok |-> TRUE, win |-> truth.win,
                     sync |-> IF k = "windows" THEN truth.sync ELSE {}]
  <2>1. k \in Kinds BY <1>5 DEF ServeListing, IsListing, Kinds
  <2>2. tok \in Listings /\ tok.kind = k /\ tok.win = truth.win
    BY <2>1, <1>t DEF Listings, Truths, Kinds
  <2>3. toDriver' = Append(toDriver, tok) /\ toTmux' = Tail(toTmux) /\ toTmux # <<>>
    BY <1>5 DEF ServeListing, Reply, Notify
  <2> HIDE DEF k, tok
  <2>4. k = Head(toTmux).kind BY DEF k
  <2>5. Serves(k) BY <1>5, <2>2, <2>3, <2>4 DEF ServeListing, Serves
  <2> QED BY <2>1, <2>5
<1>6. CASE ServeListingBadly
  <2> DEFINE k == Head(toTmux).kind
  <2>1. k \in Kinds BY <1>6 DEF ServeListingBadly, IsListing, Kinds
  <2>2. PICK ok \in BOOLEAN : Reply([kind |-> k, ok |-> ok, win |-> {}, sync |-> {}])
    BY <1>6 DEF ServeListingBadly
  <2> DEFINE tok == [kind |-> k, ok |-> ok, win |-> {}, sync |-> {}]
  <2>3. tok \in Listings /\ tok.kind = k /\ tok.win = {}
    BY <2>1 DEF Listings, Kinds
  <2>4. toDriver' = Append(toDriver, tok) /\ toTmux' = Tail(toTmux) /\ toTmux # <<>>
    BY <1>6, <2>2 DEF ServeListingBadly, Reply, Notify
  <2>5. left.fault > 0 /\ left'.fault = left.fault - 1
    BY <1>6, <1>t, SpendTypes DEF ServeListingBadly
  <2> HIDE DEF k, tok
  <2>6. k = Head(toTmux).kind BY DEF k
  <2>7. Serves(k) BY <1>6, <2>3, <2>4, <2>5, <2>6 DEF ServeListingBadly, Serves
  <2> QED BY <2>1, <2>7
<1>7. CASE ServeSet
  <2> DEFINE cmd == Head(toTmux)
             ok == cmd.win \in truth.win
             tok == [kind |-> "result", ok |-> ok, undo |-> cmd.undo]
  <2>1. cmd \in Command /\ cmd.kind \in {"setSync", "setBound"}
    BY <1>7, NotifyTypes DEF ServeSet
  <2>2. tok \in Token /\ tok.kind \notin Kinds
    BY <2>1 DEF Command, Token, Kinds
  <2>3. toDriver' = Append(toDriver, tok) /\ toTmux' = Tail(toTmux) /\ toTmux # <<>>
    BY <1>7 DEF ServeSet, Reply, Notify
  <2>4. truth'.win = truth.win /\ truth'.used = truth.used
    BY <1>7, <1>t, <2>1 DEF ServeSet, Truths
  <2> HIDE DEF tok
  <2> QED BY <1>7, <2>2, <2>3, <2>4, TailAsked DEF ServeSet, Waits
<1>8. CASE ServeBinding
  <2> DEFINE c == Head(toTmux).client
             tok == [kind |-> "binding", client |-> c,
                     panes |-> {w \in truth.win : <<w, c>> \in truth.bound}]
  <2>1. c \in Client BY <1>8, NotifyTypes DEF ServeBinding, Command
  <2>2. tok \in Token /\ tok.kind \notin Kinds
    BY <2>1, <1>t DEF Token, Truths, Kinds
  <2>3. toDriver' = Append(toDriver, tok) /\ toTmux' = Tail(toTmux) /\ toTmux # <<>>
    BY <1>8 DEF ServeBinding, Reply, Notify
  <2> HIDE DEF tok
  <2> QED BY <1>8, <2>2, <2>3, TailAsked DEF ServeBinding, Waits
<1> QED BY <1>1, <1>2, <1>3, <1>4, <1>5, <1>6, <1>7, <1>8 DEF Tmux

LEMMA ClientShape == TypeInv /\ Clients => Waits
<1> SUFFICES ASSUME TypeInv, Clients PROVE Waits OBVIOUS
<1> USE DEF tmux, wire, engine, timers, clients, undisturbed, SameWindows
<1>t. model \in Model /\ left \in [event : Nat, fault : Nat] /\ toTmux \in Seq(Command)
  BY DEF TypeInv, TypeOK
<1>1. ASSUME NEW c \in Client, Attach(c) PROVE Waits
  <2>1. [kind |-> "binding", client |-> c] \in Command
          /\ [kind |-> "binding", client |-> c].kind \notin Kinds
    BY DEF Command, Kinds
  <2>2. AskedLater BY <1>1, <2>1, SameAsked, WriteAsked DEF Attach
  <2> QED BY <1>1, <1>t, <2>2, SpendTypes DEF Attach, Waits
<1>2. ASSUME NEW c \in Client, Detach(c) PROVE Waits
  BY <1>2, SameAsked DEF Detach, Waits
<1>3. ASSUME NEW c \in Client, NEW w \in Window, NEW on \in BOOLEAN, SetSync(c, w, on)
      PROVE  Waits
  <2> DEFINE undo == IF w \in model.win
                     THEN [kind |-> "sync", win |-> w, on |-> w \in model.sync] ELSE None
             cmd == [kind |-> "setSync", win |-> w, on |-> on, undo |-> undo]
  <2>1. undo \in Undo BY DEF Undo
  <2>2. cmd \in Command /\ cmd.kind \notin Kinds BY <2>1 DEF Command, Kinds
  <2>3. AskedLater BY <1>3, <2>2, WriteAsked DEF SetSync
  <2>4. SameWindows BY <1>3, <1>t, PatchesAreModels DEF SetSync, patchModel
  <2> QED BY <1>3, <1>t, <2>3, <2>4, SpendTypes DEF SetSync, Waits
<1>4. ASSUME NEW c \in Client, NEW w \in Window, NEW on \in BOOLEAN, SetBound(c, w, on)
      PROVE  Waits
  <2> DEFINE undo == IF w \in model.pane
                     THEN [kind |-> "bound", win |-> w, client |-> c,
                            on |-> <<w, c>> \in model.bound]
                     ELSE None
             cmd == [kind |-> "setBound", win |-> w, client |-> c, on |-> on, undo |-> undo]
  <2>1. undo \in Undo BY DEF Undo
  <2>2. cmd \in Command /\ cmd.kind \notin Kinds BY <2>1 DEF Command, Kinds
  <2>3. AskedLater BY <1>4, <2>2, WriteAsked DEF SetBound
  <2>4. SameWindows BY <1>4, <1>t, PatchesAreModels DEF SetBound, patchModel
  <2> QED BY <1>4, <1>t, <2>3, <2>4, SpendTypes DEF SetBound, Waits
<1> QED BY <1>1, <1>2, <1>3, <1>4 DEF Clients

LEMMA DriverShape ==
    TypeInv /\ BootInv /\ CycleInv /\ Driver => Waits \/ Reads \/ Starts \/ Ends
<1> SUFFICES ASSUME TypeInv, BootInv, CycleInv, Driver PROVE Waits \/ Reads \/ Starts \/ Ends
  OBVIOUS
<1> USE DEF tmux, wire, engine, timers, clients, SameWindows
<1>t. /\ model \in Model /\ dirty \in BOOLEAN /\ call \in {Idle} \cup Call
      /\ toTmux \in Seq(Command) /\ toDriver \in Seq(Token)
      /\ left \in [event : Nat, fault : Nat] /\ buffered \in Nat
  BY DEF TypeInv, TypeOK
<1>r. ASSUME NEW m \in Model, NEW on \in BOOLEAN, RunRequery(m, on)
      PROVE  /\ call' \in Call /\ call'.windows = None /\ call'.panes = None
             /\ call'.start = m /\ ~call'.held
             /\ toTmux' = toTmux \o ListCommands
  <2>1. call' = Fresh(m) /\ toTmux' = toTmux \o ListCommands BY <1>r DEF RunRequery
  <2> QED BY <2>1, CallTypes DEF Fresh
\* a notification that is no listing is read
<1>p. ASSUME NEW k, k \notin Kinds, Receives(k),
             UNCHANGED <<truth, toTmux, live, left, dirty, call>>, SameWindows, k # "topology"
      PROVE  Reads
  BY <1>p DEF Receives, Reads, Kinds
<1>1. CASE ReceiveTopology
  <2>0. Receives("topology") /\ "topology" \notin Kinds BY <1>1 DEF ReceiveTopology, Kinds
  <2>1. CASE live /\ LeadingEdge
    <3>1. RunRequery(model, FALSE) BY <1>1, <2>1 DEF ReceiveTopology, notify
    <3>2. call = Idle BY <2>1 DEF LeadingEdge
    <3> QED BY <1>1, <1>t, <1>r, <3>1, <3>2 DEF ReceiveTopology, Receives, Starts
  <2>2. CASE live /\ ~LeadingEdge
    BY <1>1, <2>0, <2>2 DEF ReceiveTopology, notify, Receives, Reads, Kinds
  <2>3. CASE ~live
    BY <1>1, <2>0, <2>3 DEF ReceiveTopology, Buffer, Receives, Reads, Kinds
  <2> QED BY <2>1, <2>2, <2>3
<1>2. CASE ReceiveListing
  BY <1>2 DEF ReceiveListing, Receives, Reads, Kinds
<1>3. CASE ReceiveSync
  <2> DEFINE tok == Head(toDriver)
  <2>1. tok \in Token /\ tok.kind = "sync" BY <1>3, NotifyTypes DEF ReceiveSync, Receives
  <2>2. tok.win \in Window /\ tok.on \in BOOLEAN BY <2>1 DEF Token, Listings
  <2>3. model' = SyncPatch(model, tok.win, tok.on) BY <1>3 DEF ReceiveSync, patchModel
  <2>4. SameWindows BY <1>t, <2>2, <2>3 DEF SyncPatch, SetIn, Model
  <2> QED BY <1>3, <1>p, <2>4 DEF ReceiveSync, unpatched, Kinds
<1>4. CASE ReceiveResult
  <2> DEFINE tok == Head(toDriver)
             undo == tok.undo
  <2>1. tok \in Token /\ tok.kind = "result" BY <1>4, NotifyTypes DEF ReceiveResult, Receives
  <2>2. undo \in Undo /\ tok.ok \in BOOLEAN BY <2>1 DEF Token, Listings
  <2>3. model' = CASE tok.ok \/ undo.kind = "none" -> model
                    [] ~tok.ok /\ undo.kind = "sync" -> SyncPatch(model, undo.win, undo.on)
                    [] ~tok.ok /\ undo.kind = "bound" ->
                         BoundPatch(model, undo.win, undo.client, undo.on)
    BY <1>4 DEF ReceiveResult, patchModel
  <2>4. SameWindows
    <3>1. CASE tok.ok \/ undo.kind = "none" BY <3>1, <2>3
    <3>2. CASE ~tok.ok /\ undo.kind = "sync"
      <4>1. model' = SyncPatch(model, undo.win, undo.on) BY <2>3, <3>2
      <4> QED BY <4>1, <1>t DEF SyncPatch, SetIn, Model
    <3>3. CASE ~tok.ok /\ undo.kind = "bound"
      <4>1. model' = BoundPatch(model, undo.win, undo.client, undo.on) BY <2>3, <3>3
      <4> QED BY <4>1, <1>t DEF BoundPatch, SetIn, Model
    <3>4. undo.kind \in {"none", "sync", "bound"} BY <2>2 DEF Undo, None
    <3> QED BY <3>1, <3>2, <3>3, <3>4, <2>2
  <2> QED BY <1>4, <1>p, <2>4 DEF ReceiveResult, unpatched, Kinds
<1>5. CASE ReceiveBinding
  <2>1. SameWindows BY <1>5, <1>t DEF ReceiveBinding, Model
  <2> QED BY <1>5, <1>p, <2>1 DEF ReceiveBinding, undisturbed, Kinds
<1>6. CASE CycleAgain
  <2>0. Answered /\ BudgetLeft /\ call \in Call BY <1>6, <1>t DEF CycleAgain, Answered
  <2>1. call' = NextCycle(~Outdated) BY <1>6 DEF CycleAgain
  <2>2. Outdated \in BOOLEAN BY <1>t, <2>0 DEF Outdated, Erred
  <2>3. call' \in Call BY <2>0, <2>1, <2>2, CallTypes
  <2>4. call'.windows = None /\ call'.panes = None /\ call'.held = ~Outdated
          /\ call'.start = call.start
    BY <2>0, <2>1 DEF NextCycle, Call
  <2>5. call'.held => Clean /\ Tripped BY <1>6, <2>4 DEF CycleAgain
  <2> QED BY <1>6, <2>0, <2>3, <2>4, <2>5 DEF CycleAgain, Starts
<1>7. CASE RequeryFails BY <1>7 DEF RequeryFails, CallFails, Ends
<1>8. CASE RequeryCommits BY <1>8 DEF RequeryCommits, Commits, Ends
<1>d. ASSUME NEW m \in Model, Drain(m), Answered, ~live, model' = m,
             m = model \/ (m = candidate /\ Commits)
      PROVE  Starts \/ Ends
  <2>1. CASE buffered = 0 BY <1>d, <2>1 DEF Drain, Ends
  <2>2. CASE buffered # 0
    <3>1. RunRequery(m, buffered > 1) /\ (buffered > 1) \in BOOLEAN BY <1>d, <2>2 DEF Drain
    <3> QED BY <1>d, <1>r, <3>1 DEF Drain, Starts
  <2> QED BY <2>1, <2>2
<1>9. CASE BootstrapCommits
  <2>1. candidate \in Model /\ Answered
    BY <1>9, <1>t, CandidateType DEF BootstrapCommits, Commits, Answered
  <2> QED BY <1>9, <1>d, <2>1 DEF BootstrapCommits
<1>10. CASE BootstrapFails BY <1>10, <1>d, <1>t DEF BootstrapFails, CallFails
<1>11. CASE CeilingPasses BY <1>11, SameAsked DEF CeilingPasses, Waits
<1>12. CASE TrailingFires
  <2>1. call = Idle BY <1>12 DEF TrailingFires, BootInv
  <2>2. RunRequery(model, FALSE) BY <1>12 DEF TrailingFires
  <2> QED BY <1>12, <1>r, <1>t, <2>1, <2>2 DEF TrailingFires, Starts
<1>13. CASE Heartbeat
  <2>1. CASE LeadingEdge
    <3>1. RunRequery(model, FALSE) BY <1>13, <2>1 DEF Heartbeat, notify
    <3>2. call = Idle BY <2>1 DEF LeadingEdge
    <3> QED BY <1>13, <1>r, <1>t, <3>1, <3>2 DEF Heartbeat, Starts
  <2>2. CASE ~LeadingEdge
    BY <1>13, <2>2, SameAsked DEF Heartbeat, notify, Waits
  <2> QED BY <2>1, <2>2
<1> QED BY <1>1, <1>2, <1>3, <1>4, <1>5, <1>6, <1>7, <1>8, <1>9, <1>10, <1>11, <1>12, <1>13
        DEF Driver

\* Every step is of one of these shapes.
LEMMA Shape ==
    TypeInv /\ BootInv /\ CycleInv /\ [Next]_vars
    => Waits \/ (\E k \in Kinds : Serves(k)) \/ Reads \/ Starts \/ Ends
<1>1. TypeInv /\ UNCHANGED vars => Waits
  BY SameAsked DEF vars, tmux, wire, engine, timers, clients, Waits, SameWindows
<1> QED BY <1>1, TmuxShape, DriverShape, ClientShape DEF Next

-----------------------------------------------------------------------------
(* The listings after a step *)

Got(k) == IF k = "windows" THEN call.windows ELSE call.panes

LEMMA Places ==
    ASSUME TypeInv, CycleInv
    PROVE  /\ Len(toDriver) \in Nat
           /\ \A k : InStream(k) \subseteq 1..Len(toDriver)
           /\ \A k \in Kinds : At(k) \subseteq 0..Len(toDriver) /\ (call = Idle => At(k) = {})
           /\ \A k \in Kinds : \A i \in At(k) : i = 0 => IsRead(k) /\ Heard(k, i) = Got(k)
           /\ \A k \in Kinds : \A i \in At(k) :
                 i # 0 => i \in InStream(k) /\ Heard(k, i) = toDriver[i]
<1>1. Len(toDriver) \in Nat /\ DOMAIN toDriver = 1..Len(toDriver) BY DEF TypeInv
<1>2. \A k : InStream(k) \subseteq 1..Len(toDriver) BY <1>1 DEF InStream, KindAt
<1>3. \A k \in Kinds : At(k) \subseteq 0..Len(toDriver) /\ (call = Idle => At(k) = {})
  BY <1>1, <1>2 DEF At, IsRead, CycleInv
<1>4. \A k \in Kinds : \A i \in At(k) : i = 0 => IsRead(k) /\ Heard(k, i) = Got(k)
  BY <1>1, <1>2 DEF At, Heard, Got
<1>5. \A k \in Kinds : \A i \in At(k) : i # 0 => i \in InStream(k) /\ Heard(k, i) = toDriver[i]
  BY <1>1, <1>2 DEF At, Heard
<1> QED BY <1>1, <1>2, <1>3, <1>4, <1>5

LEMMA WaitsAt ==
    ASSUME TypeInv, CycleInv, Waits
    PROVE  /\ \A k \in Kinds : InStream(k)' = InStream(k) /\ At(k)' = At(k)
           /\ \A k \in Kinds : \A i \in At(k) : Heard(k, i)' = Heard(k, i)
           /\ InStream("topology") \subseteq InStream("topology")'
           /\ Len(toDriver') \in Nat /\ Len(toDriver') >= Len(toDriver)
           /\ truth'.win # truth.win =>
                 Len(toDriver) + 1 \in InStream("topology")' /\ Len(toDriver') = Len(toDriver) + 1
<1>1. toDriver \in Seq(Token) /\ call' = call BY DEF TypeInv, Waits
<1>2. \A k \in Kinds : IsRead(k)' = IsRead(k) /\ Got(k)' = Got(k) BY <1>1 DEF IsRead, Got
<1>3. CASE toDriver' = toDriver /\ truth'.win = truth.win
  <2>1. \A k : InStream(k)' = InStream(k) BY <1>3 DEF InStream
  <2>2. \A k \in Kinds : At(k)' = At(k) BY <1>2, <2>1 DEF At
  <2>3. \A k \in Kinds : \A i \in At(k) : Heard(k, i)' = Heard(k, i) BY <1>1, <1>3 DEF Heard
  <2> QED BY <1>3, <2>1, <2>2, <2>3, Places
<1>4. ASSUME NEW tok \in Token, tok.kind \notin Kinds, toDriver' = Append(toDriver, tok),
             truth'.win = truth.win \/ tok.kind = "topology"
      PROVE  /\ \A k \in Kinds : InStream(k)' = InStream(k) /\ At(k)' = At(k)
             /\ \A k \in Kinds : \A i \in At(k) : Heard(k, i)' = Heard(k, i)
             /\ InStream("topology") \subseteq InStream("topology")'
             /\ Len(toDriver') = Len(toDriver) + 1
             /\ truth'.win # truth.win => Len(toDriver) + 1 \in InStream("topology")'
  <2>1. /\ Len(toDriver') = Len(toDriver) + 1
        /\ \A i \in DOMAIN toDriver : toDriver'[i] = toDriver[i]
        /\ \A k : InStream(k)' = InStream(k) \cup (IF tok.kind = k THEN {Len(toDriver) + 1} ELSE {})
    BY <1>1, <1>4, KindAppend DEF InStream
  <2>2. \A k \in Kinds : InStream(k)' = InStream(k) BY <1>4, <2>1
  <2>3. \A k \in Kinds : At(k)' = At(k) BY <1>2, <2>2 DEF At
  <2>4. \A k \in Kinds : \A i \in At(k) : i > 0 => i \in DOMAIN toDriver
    BY Places, <1>1
  <2>5. \A k \in Kinds : \A i \in At(k) : Heard(k, i)' = Heard(k, i)
    BY <1>1, <2>1, <2>4 DEF Heard
  <2> QED BY <1>4, <2>1, <2>2, <2>3, <2>5
<1> QED BY <1>3, <1>4, Places DEF Waits

LEMMA ServesAt ==
    ASSUME TypeInv, CycleInv, NEW k \in Kinds, Serves(k)
    PROVE  /\ k = "windows" => At("panes") = {}
           /\ Asked(k)' = {} /\ \A j \in Kinds : \A i \in Asked(j)' : i + 1 \in Asked(j)
           /\ At(k) = {} /\ At(k)' = {Len(toDriver) + 1}
           /\ InStream(k)' = {Len(toDriver) + 1}
           /\ \A j \in Kinds \ {k} : InStream(j)' = InStream(j) /\ At(j)' = At(j)
           /\ \A j \in Kinds \ {k} : \A i \in At(j) : Heard(j, i)' = Heard(j, i)
           /\ InStream("topology")' = InStream("topology")
           /\ k = "panes" => Asked("windows")' = {}
           /\ Len(toDriver') = Len(toDriver) + 1
           /\ \A i \in At(k)' :
                 \/ Heard(k, i)'.win = truth.win /\ left'.fault = left.fault
                 \/ Heard(k, i)'.win = {} /\ left.fault > 0 /\ left'.fault = left.fault - 1
<1>1. /\ toDriver \in Seq(Token) /\ toTmux \in Seq(Command) /\ toTmux # <<>>
      /\ toTmux' = Tail(toTmux) /\ Head(toTmux).kind = k /\ call' = call
  BY DEF TypeInv, Serves
<1>2. PICK tok \in Listings : /\ tok.kind = k /\ toDriver' = Append(toDriver, tok)
                              /\ \/ tok.win = truth.win /\ left'.fault = left.fault
                                 \/ tok.win = {} /\ left.fault > 0 /\ left'.fault = left.fault - 1
  BY DEF Serves
<1>3. /\ 1 \in Asked(k)
      /\ \A j \in Kinds : Asked(j)' = {i \in 1..(Len(toTmux) - 1) : i + 1 \in Asked(j)}
  BY <1>1, KindTail DEF Asked
<1>4. At(k) = {} /\ InStream(k) = {} /\ ~IsRead(k) BY <1>3 DEF CycleInv, At
<1>5. Asked(k)' = {}
  <2>1. \A i \in Asked(k) : i = 1 BY <1>3 DEF CycleInv
  <2>2. \A i \in Asked(k)' : FALSE BY <1>3, <2>1
  <2> QED BY <2>2
<1>6. \A j \in Kinds : \A i \in Asked(j)' : i + 1 \in Asked(j) BY <1>3
<1>7. k = "windows" => At("panes") = {} BY <1>3 DEF CycleInv
<1>8. k = "panes" => Asked("windows")' = {}
  <2> SUFFICES ASSUME k = "panes" PROVE Asked("windows")' = {} OBVIOUS
  <2>1. \A i \in Asked("windows") : i < 1 BY <1>3 DEF CycleInv
  <2>2. \A i \in Asked("windows")' : FALSE BY <1>3, <2>1 DEF Kinds
  <2> QED BY <2>2
<1>9. /\ Len(toDriver') = Len(toDriver) + 1 /\ toDriver'[Len(toDriver) + 1] = tok
      /\ \A i \in DOMAIN toDriver : toDriver'[i] = toDriver[i]
      /\ \A j : InStream(j)' = InStream(j) \cup (IF tok.kind = j THEN {Len(toDriver) + 1} ELSE {})
  <2>1. tok \in Token BY DEF Token
  <2> QED BY <1>1, <1>2, <2>1, KindAppend DEF InStream
<1>10. \A j \in Kinds : IsRead(j)' = IsRead(j) BY <1>1 DEF IsRead
<1>11. InStream(k)' = {Len(toDriver) + 1} /\ At(k)' = {Len(toDriver) + 1}
  BY <1>2, <1>4, <1>9, <1>10 DEF At
<1>12. \A j \in Kinds \ {k} : InStream(j)' = InStream(j) /\ At(j)' = At(j)
  BY <1>2, <1>9, <1>10 DEF At
<1>13. InStream("topology")' = InStream("topology") BY <1>2, <1>9 DEF Kinds
<1>14. \A j \in Kinds \ {k} : \A i \in At(j) : Heard(j, i)' = Heard(j, i)
  <2>1. \A j \in Kinds : \A i \in At(j) : i > 0 => i \in DOMAIN toDriver
    BY Places, <1>1
  <2> QED BY <1>1, <1>9, <2>1 DEF Heard
<1>15. \A i \in At(k)' : Heard(k, i)' = tok
  <2>1. Len(toDriver) + 1 > 0 BY Places
  <2> QED BY <1>9, <1>11, <2>1 DEF Heard
<1> QED BY <1>2, <1>4, <1>5, <1>6, <1>7, <1>8, <1>9, <1>11, <1>12, <1>13, <1>14, <1>15

\* Where the reply at j is once the driver has read a token.
Onward(j) == IF j = 0 THEN 0 ELSE j - 1

LEMMA ReadsAt ==
    ASSUME TypeInv, CycleInv, Reads
    PROVE  /\ Len(toDriver') = Len(toDriver) - 1 /\ Len(toDriver) > 0
           /\ (call' = Idle) <=> (call = Idle)
           /\ call # Idle => call'.held = call.held /\ call'.start = call.start
           /\ \A k \in Kinds : InStream(k) = {} => InStream(k)' = {}
           /\ \A k \in Kinds : \A i \in At(k)' :
                 \E j \in At(k) : i = Onward(j) /\ Heard(k, i)' = Heard(k, j)
           /\ \A k \in Kinds : At(k)' = {} => At(k) = {}
           /\ \A h \in InStream("topology") :
                 IF h = 1 THEN live /\ call # Idle => dirty'
                 ELSE h - 1 \in InStream("topology")'
<1> DEFINE tok == Head(toDriver)
<1>1. /\ toDriver \in Seq(Token) /\ toDriver # <<>> /\ toDriver' = Tail(toDriver)
      /\ call \in {Idle} \cup Call
  BY DEF TypeInv, TypeOK, Reads
<1>2. /\ Len(toDriver') = Len(toDriver) - 1 /\ Len(toDriver) \in Nat /\ Len(toDriver) > 0
      /\ \A i \in 1..(Len(toDriver) - 1) : toDriver'[i] = toDriver[i + 1]
      /\ \A k : InStream(k)' = {i \in 1..(Len(toDriver) - 1) : i + 1 \in InStream(k)}
      /\ tok = toDriver[1] /\ \A k : 1 \in InStream(k) <=> tok.kind = k
  BY <1>1, KindTail DEF InStream
<1>3. call' = CASE tok.kind = "windows" -> [call EXCEPT !.windows = tok]
                [] tok.kind = "panes" -> [call EXCEPT !.panes = tok]
                [] tok.kind \notin Kinds -> call
  BY DEF Reads
<1>4. tok.kind \in Kinds => call \in Call BY <1>1, <1>2 DEF CycleInv
<1>5. tok \in Token BY <1>1
<1>6. /\ (call' = Idle) <=> (call = Idle)
      /\ call # Idle => call'.held = call.held /\ call'.start = call.start
      /\ \A k \in Kinds : IF tok.kind = k THEN Got(k)' = tok ELSE Got(k)' = Got(k)
  <2>1. CASE tok.kind = "windows"
    <3>1. call' = [call EXCEPT !.windows = tok] BY <1>3, <2>1 DEF Kinds
    <3>2. call \in Call /\ tok \in Listing BY <1>4, <1>5, <2>1 DEF Kinds, Token, Listing, Listings
    <3>3. call' \in Call BY <3>1, <3>2 DEF Call
    <3>4. call'.windows = tok /\ call'.panes = call.panes
            /\ call'.held = call.held /\ call'.start = call.start
      BY <3>1, <3>2 DEF Call
    <3> QED BY <2>1, <3>2, <3>3, <3>4, IdleIsNoCall DEF Got, Kinds
  <2>2. CASE tok.kind = "panes"
    <3>1. call' = [call EXCEPT !.panes = tok] BY <1>3, <2>2 DEF Kinds
    <3>2. call \in Call /\ tok \in Listing BY <1>4, <1>5, <2>2 DEF Kinds, Token, Listing, Listings
    <3>3. call' \in Call BY <3>1, <3>2 DEF Call
    <3>4. call'.panes = tok /\ call'.windows = call.windows
            /\ call'.held = call.held /\ call'.start = call.start
      BY <3>1, <3>2 DEF Call
    <3> QED BY <2>2, <3>2, <3>3, <3>4, IdleIsNoCall DEF Got, Kinds
  <2>3. CASE tok.kind \notin Kinds
    <3>1. call' = call BY <1>3, <2>3 DEF Kinds
    <3> QED BY <2>3, <3>1 DEF Got
  <2> QED BY <2>1, <2>2, <2>3 DEF Kinds
<1>7. \A k \in Kinds : (IsRead(k)' <=> IsRead(k) \/ tok.kind = k) /\ (tok.kind = k => ~IsRead(k))
  <2> TAKE k \in Kinds
  <2>1. IsRead(k) <=> call # Idle /\ Got(k) # None BY DEF IsRead, Got
  <2>2. IsRead(k)' <=> call' # Idle /\ Got(k)' # None BY DEF IsRead, Got
  <2>3. CASE tok.kind = k
    <3>1. tok # None BY <2>3 DEF None, Kinds
    <3>2. call # Idle BY <1>4, <2>3, IdleIsNoCall
    <3>3. 1 \in At(k) BY <1>2, <2>3 DEF At
    <3>4. ~IsRead(k)
      <4>1. IsRead(k) => 0 \in At(k) BY DEF At
      <4>2. 0 \in At(k) => 0 = 1 BY <3>3 DEF CycleInv
      <4> QED BY <4>1, <4>2
    <3> QED BY <1>6, <2>1, <2>2, <2>3, <3>1, <3>2, <3>4
  <2>4. CASE tok.kind # k BY <1>6, <2>1, <2>2, <2>4
  <2> QED BY <2>3, <2>4
<1>8. ASSUME NEW k \in Kinds, NEW i \in At(k)'
      PROVE  \E j \in At(k) : i = Onward(j) /\ Heard(k, i)' = Heard(k, j)
  <2>1. CASE i = 0 /\ tok.kind = k
    <3>1. 1 \in At(k) /\ Onward(1) = 0 BY <1>2, <2>1 DEF At, Onward
    <3>2. Heard(k, 1) = tok BY <1>2 DEF Heard
    <3>3. Heard(k, 0)' = Got(k)' BY DEF Heard, Got
    <3>4. Got(k)' = tok BY <1>6, <2>1
    <3> QED BY <2>1, <3>1, <3>2, <3>3, <3>4
  <2>2. CASE i = 0 /\ tok.kind # k
    <3>1. IsRead(k)' BY <1>2, <2>2 DEF At
    <3>2. 0 \in At(k) /\ Onward(0) = 0 BY <1>7, <2>2, <3>1 DEF At, Onward
    <3>3. Heard(k, 0)' = Got(k)' /\ Heard(k, 0) = Got(k) BY DEF Heard, Got
    <3>4. Got(k)' = Got(k) BY <1>6, <2>2
    <3> QED BY <2>2, <3>2, <3>3, <3>4
  <2>3. CASE i # 0
    <3>1. i \in InStream(k)' BY <2>3 DEF At
    <3>2. i \in 1..(Len(toDriver) - 1) /\ i + 1 \in InStream(k) BY <1>2, <3>1
    <3>3. i + 1 \in At(k) /\ Onward(i + 1) = i BY <1>2, <3>2 DEF At, Onward
    <3>4. Heard(k, i)' = toDriver'[i] /\ Heard(k, i + 1) = toDriver[i + 1]
      BY <1>2, <3>2 DEF Heard
    <3> QED BY <1>2, <3>2, <3>3, <3>4
  <2> QED BY <2>1, <2>2, <2>3
<1>9. ASSUME NEW k \in Kinds, NEW j \in At(k) PROVE At(k)' # {}
  <2>1. CASE j = 0
    <3>1. IsRead(k) BY <2>1, Places
    <3> QED BY <1>7, <3>1 DEF At
  <2>2. CASE j = 1
    <3>1. tok.kind = k BY <1>2, <2>2 DEF At
    <3> QED BY <1>7, <3>1 DEF At
  <2>3. CASE j # 0 /\ j # 1
    <3>1. j \in InStream(k) /\ j \in 1..Len(toDriver) BY <2>3, Places
    <3>2. j - 1 \in InStream(k)' BY <1>2, <2>3, <3>1
    <3> QED BY <3>2 DEF At
  <2> QED BY <2>1, <2>2, <2>3
<1>10. ASSUME NEW h \in InStream("topology")
       PROVE  IF h = 1 THEN live /\ call # Idle => dirty'
              ELSE h - 1 \in InStream("topology")'
  <2>1. CASE h = 1
    <3>1. tok.kind = "topology" BY <1>2, <2>1
    <3> QED BY <2>1, <3>1 DEF Reads
  <2>2. CASE h # 1
    <3>1. h \in 1..Len(toDriver) BY Places
    <3> QED BY <1>2, <2>2, <3>1
  <2> QED BY <2>1, <2>2
<1>11. \A k \in Kinds : InStream(k) = {} => InStream(k)' = {} BY <1>2
<1> QED BY <1>2, <1>6, <1>8, <1>9, <1>10, <1>11

LEMMA StartsAt ==
    ASSUME TypeInv, CycleInv, Starts
    PROVE  /\ call' # Idle
           /\ \A k \in Kinds : At(k)' = {}
           /\ Asked("windows")' = {Len(toTmux) + 1} /\ Asked("panes")' = {Len(toTmux) + 2}
           /\ Len(toTmux) \in Nat
<1>1. \A k \in Kinds : Asked(k) = {} /\ InStream(k) = {}
  <2>1. CASE call = Idle BY <2>1 DEF CycleInv
  <2>2. CASE Answered
    <3>1. \A k \in Kinds : 0 \in At(k) BY <2>2 DEF Answered, At, IsRead
    <3>2. \A k \in Kinds : \A i \in InStream(k) : i = 0 BY <3>1 DEF CycleInv, At
    <3>3. \A k \in Kinds : \A i \in InStream(k) : i \in 1..Len(toDriver) BY Places
    <3>4. \A k \in Kinds : Asked(k) = {} BY <3>1 DEF CycleInv
    <3> QED BY <3>2, <3>3, <3>4
  <2> QED BY <2>1, <2>2 DEF Starts
<1>2. toTmux \in Seq(Command) /\ toDriver \in Seq(Token) BY DEF TypeInv
<1>3. toTmux' = toTmux \o ListCommands BY DEF Starts
<1>4. Asked("windows")' = {Len(toTmux) + 1} /\ Asked("panes")' = {Len(toTmux) + 2}
  BY <1>1, <1>2, <1>3, KindListCommands DEF Asked, Kinds
<1>5. \A k \in Kinds : InStream(k)' = {}
  <2>1. CASE toDriver' = toDriver BY <1>1, <2>1 DEF InStream
  <2>2. CASE toDriver # <<>> /\ toDriver' = Tail(toDriver)
    BY <1>1, <1>2, <2>2, KindTail DEF InStream
  <2> QED BY <2>1, <2>2 DEF Starts
<1>6. call' # Idle /\ \A k \in Kinds : ~IsRead(k)'
  BY IdleIsNoCall DEF Starts, IsRead
<1>7. \A k \in Kinds : At(k)' = {} BY <1>5, <1>6 DEF At
<1> QED BY <1>2, <1>4, <1>6, <1>7

LEMMA EndsAt ==
    ASSUME TypeInv, CycleInv, Ends
    PROVE  \A k \in Kinds : Asked(k)' = {} /\ InStream(k)' = {} /\ At(k)' = {}
<1>1. \A k \in Kinds : 0 \in At(k) BY DEF Ends, Answered, At, IsRead
<1>2. \A k \in Kinds : \A i \in InStream(k) : i = 0 BY <1>1 DEF CycleInv, At
<1>3. \A k \in Kinds : \A i \in InStream(k) : i \in 1..Len(toDriver) BY Places
<1>4. \A k \in Kinds : Asked(k) = {} BY <1>1 DEF CycleInv
<1>5. \A k \in Kinds : Asked(k)' = {} /\ InStream(k)' = {}
  BY <1>2, <1>3, <1>4 DEF Ends, wire, Asked, InStream
<1> QED BY <1>5 DEF Ends, At, IsRead

LEMMA StepCycle == TypeInv /\ BootInv /\ CycleInv /\ [Next]_vars => CycleInv'
<1> SUFFICES ASSUME TypeInv, BootInv, CycleInv, [Next]_vars PROVE CycleInv' OBVIOUS
\* what is still asked for keeps its order
<1>a. ASSUME AskedLater
      PROVE  /\ \A k \in Kinds : Asked(k) = {} => Asked(k)' = {}
             /\ \A k \in Kinds : \A i, j \in Asked(k)' : i = j
             /\ \A i \in Asked("windows")', j \in Asked("panes")' : i < j
  <2>1. PICK d \in Nat : \A k \in Kinds : \A i \in Asked(k)' : i + d \in Asked(k)
    BY <1>a DEF AskedLater
  <2>2. \A k \in Kinds : \A i \in Asked(k)' : i \in Int
    <3>1. toTmux' \in Seq(Command) BY StepTypes DEF TypeInv
    <3> QED BY <3>1 DEF Asked, KindAt
  <2>3. \A k \in Kinds : Asked(k) = {} => Asked(k)' = {} BY <2>1
  <2>4. \A k \in Kinds : \A i, j \in Asked(k)' : i = j
    <3> SUFFICES ASSUME NEW k \in Kinds, NEW i \in Asked(k)', NEW j \in Asked(k)' PROVE i = j
      OBVIOUS
    <3>1. i + d = j + d BY <2>1 DEF CycleInv
    <3>2. i \in Int /\ j \in Int BY <2>2
    <3> QED BY <3>1, <3>2
  <2>5. \A i \in Asked("windows")', j \in Asked("panes")' : i < j
    <3>1. \A i \in Asked("windows")', j \in Asked("panes")' : i + d < j + d
      BY <2>1 DEF CycleInv, Kinds
    <3> QED BY <2>2, <3>1 DEF Kinds
  <2> QED BY <2>3, <2>4, <2>5
<1>1. CASE Waits
  <2>1. /\ \A k \in Kinds : InStream(k)' = InStream(k) /\ At(k)' = At(k)
        /\ call' = call /\ AskedLater
    BY <1>1, WaitsAt DEF Waits
  <2> QED BY <1>a, <2>1 DEF CycleInv, Kinds
<1>2. ASSUME NEW k \in Kinds, Serves(k) PROVE CycleInv'
  <2> DEFINE n == Len(toDriver) + 1
  <2>1. AskedLater
    <3>1. \A j \in Kinds : \A i \in Asked(j)' : i + 1 \in Asked(j) BY <1>2, ServesAt
    <3> QED BY <3>1 DEF AskedLater
  <2>2. /\ Asked(k)' = {} /\ At(k) = {} /\ At(k)' = {n} /\ InStream(k)' = {n}
        /\ \A j \in Kinds \ {k} : InStream(j)' = InStream(j) /\ At(j)' = At(j)
        /\ k = "windows" => At("panes") = {}
        /\ k = "panes" => Asked("windows")' = {}
    BY <1>2, ServesAt
  <2>3. call' = call /\ call # Idle
    <3>1. Asked(k) # {}
      <4>1. toTmux \in Seq(Command) /\ toTmux # <<>> /\ Head(toTmux).kind = k
        BY <1>2 DEF Serves, TypeInv
      <4>2. 1 \in Asked(k) BY <4>1, KindTail DEF Asked
      <4> QED BY <4>2
    <3> QED BY <1>2, <3>1 DEF Serves, CycleInv
  <2>4. n \in Nat /\ \A j \in Kinds : \A i \in At(j) : i \in Nat /\ i < n
    BY Places
  <2> HIDE DEF n
  <2>5. \A j \in Kinds : \A i1, i2 \in At(j)' : i1 = i2
    <3> TAKE j \in Kinds
    <3>1. CASE j = k BY <2>2, <3>1
    <3>2. CASE j # k BY <2>2, <3>2 DEF CycleInv
    <3> QED BY <3>1, <3>2
  <2>6. \A j \in Kinds : Asked(j)' = {} \/ At(j)' = {}
    <3> TAKE j \in Kinds
    <3>1. CASE j = k BY <2>2, <3>1
    <3>2. CASE j # k BY <1>a, <2>1, <2>2, <3>2 DEF CycleInv
    <3> QED BY <3>1, <3>2
  <2>7. Asked("windows")' = {} \/ At("panes")' = {}
    BY <2>2 DEF Kinds
  <2>8. \A i \in At("windows")', j \in At("panes")' : i < j \/ (i = 0 /\ j = 0)
    <3>1. CASE k = "windows" BY <2>2, <3>1 DEF Kinds
    <3>2. CASE k = "panes"
      <4>1. At("windows")' = At("windows") /\ At("panes")' = {n} BY <2>2, <3>2 DEF Kinds
      <4> QED BY <4>1, <2>4 DEF Kinds
    <3> QED BY <3>1, <3>2 DEF Kinds
  <2> QED BY <1>a, <2>1, <2>3, <2>5, <2>6, <2>7, <2>8 DEF CycleInv
<1>3. CASE Reads
  <2>1. /\ (call' = Idle) <=> (call = Idle)
        /\ \A k \in Kinds : InStream(k) = {} => InStream(k)' = {}
        /\ \A k \in Kinds : \A i \in At(k)' : \E j \in At(k) : i = Onward(j)
    BY <1>3, ReadsAt
  <2>2. \A k \in Kinds : Asked(k)' = Asked(k) BY <1>3 DEF Reads, Asked
  <2>3. \A k \in Kinds : At(k) \subseteq Nat BY Places
  <2>4. \A k \in Kinds : At(k) = {} => At(k)' = {} BY <2>1
  <2>5. \A k \in Kinds : \A i1, i2 \in At(k)' : i1 = i2
    <3> TAKE k \in Kinds
    <3> TAKE i1, i2 \in At(k)'
    <3>1. PICK j1 \in At(k) : i1 = Onward(j1) BY <2>1
    <3>2. PICK j2 \in At(k) : i2 = Onward(j2) BY <2>1
    <3>3. j1 = j2 BY DEF CycleInv
    <3> QED BY <3>1, <3>2, <3>3
  <2>6. \A i \in At("windows")', j \in At("panes")' : i < j \/ (i = 0 /\ j = 0)
    <3> TAKE i \in At("windows")', j \in At("panes")'
    <3>1. PICK i0 \in At("windows") : i = Onward(i0) BY <2>1 DEF Kinds
    <3>2. PICK j0 \in At("panes") : j = Onward(j0) BY <2>1 DEF Kinds
    <3>3. i0 < j0 \/ (i0 = 0 /\ j0 = 0) BY DEF CycleInv
    <3>4. i0 \in Nat /\ j0 \in Nat BY <2>3 DEF Kinds
    <3> QED BY <3>1, <3>2, <3>3, <3>4 DEF Onward
  <2>7. call = Idle => \A k \in Kinds : Asked(k) = {} /\ InStream(k) = {} BY DEF CycleInv
  <2>8. call' = Idle => \A k \in Kinds : Asked(k)' = {} /\ InStream(k)' = {}
    BY <2>1, <2>2, <2>7
  <2>9. /\ \A k \in Kinds : \A i, j \in Asked(k)' : i = j
        /\ \A k \in Kinds : Asked(k)' = {} \/ At(k)' = {}
        /\ \A i \in Asked("windows")', j \in Asked("panes")' : i < j
        /\ Asked("windows")' = {} \/ At("panes")' = {}
    BY <2>2, <2>4 DEF CycleInv, Kinds
  <2> QED BY <2>5, <2>6, <2>8, <2>9 DEF CycleInv
<1>4. CASE Starts
  <2>1. /\ call' # Idle /\ Len(toTmux) \in Nat
        /\ \A k \in Kinds : At(k)' = {}
        /\ Asked("windows")' = {Len(toTmux) + 1} /\ Asked("panes")' = {Len(toTmux) + 2}
    BY <1>4, StartsAt
  <2> QED BY <2>1 DEF CycleInv, Kinds
<1>5. CASE Ends
  BY <1>5, EndsAt DEF CycleInv, Kinds
<1> QED BY <1>1, <1>2, <1>3, <1>4, <1>5, Shape

StillReported(i, j) ==
    (\E h \in InStream("topology")' : i < h /\ h < j) \/ (i = 0 /\ dirty')

LEMMA AgreesStill ==
    ASSUME \A i \in At("windows")', j \in At("panes")' :
              Full("windows", i)' /\ Full("panes", j)' =>
                 Heard("windows", i)'.win = Heard("panes", j)'.win \/ StillReported(i, j),
           \A i \in At("windows")' :
              Full("windows", i)' /\ At("panes")' = {} =>
                 \/ Heard("windows", i)'.win = truth'.win
                 \/ StillReported(i, Len(toDriver') + 1)
    PROVE  AgreeInv'
BY DEF AgreeInv, Reported, StillReported

LEMMA StepAgrees ==
    TypeInv /\ BootInv /\ CycleInv /\ AgreeInv /\ [Next]_vars => AgreeInv'
<1> SUFFICES ASSUME TypeInv, BootInv, CycleInv, AgreeInv, [Next]_vars, live' PROVE AgreeInv'
  BY DEF AgreeInv
<1>p. /\ Len(toDriver) \in Nat /\ \A k : InStream(k) \subseteq 1..Len(toDriver)
      /\ \A k \in Kinds : At(k) \subseteq 0..Len(toDriver) /\ (call = Idle => At(k) = {})
  BY Places
<1>k. "windows" \in Kinds /\ "panes" \in Kinds BY DEF Kinds
<1>1. CASE Waits
  <2> DEFINE n == Len(toDriver) + 1
             n2 == Len(toDriver') + 1
  <2>0. live BY <1>1 DEF Waits
  <2>1. /\ \A k \in Kinds : At(k)' = At(k)
        /\ \A k \in Kinds : \A i \in At(k) : Heard(k, i)' = Heard(k, i)
        /\ InStream("topology") \subseteq InStream("topology")'
        /\ n2 \in Nat /\ n2 >= n
        /\ truth'.win # truth.win => n \in InStream("topology")' /\ n2 = n + 1
        /\ dirty => dirty'
    <3>1. /\ \A k \in Kinds : At(k)' = At(k)
          /\ \A k \in Kinds : \A i \in At(k) : Heard(k, i)' = Heard(k, i)
          /\ InStream("topology") \subseteq InStream("topology")'
      BY <1>1, WaitsAt
    <3>2. /\ Len(toDriver') \in Nat /\ Len(toDriver') >= Len(toDriver)
          /\ truth'.win # truth.win =>
                n \in InStream("topology")' /\ Len(toDriver') = Len(toDriver) + 1
      BY <1>1, WaitsAt
    <3>3. n2 \in Nat /\ n2 >= n /\ (truth'.win # truth.win => n2 = n + 1) BY <1>p, <3>2
    <3> QED BY <1>1, <3>1, <3>2, <3>3 DEF Waits
  <2>2. ASSUME NEW i \in At("windows"), NEW j \in Nat, NEW j2 \in Nat, j <= j2, Reported(i, j)
        PROVE  StillReported(i, j2)
    <3>1. CASE i = 0 /\ dirty BY <2>1, <3>1 DEF StillReported
    <3>2. ASSUME NEW h \in InStream("topology"), i < h, h < j PROVE StillReported(i, j2)
      <4>1. h \in InStream("topology")' /\ h < j2 BY <1>p, <2>1, <2>2, <3>2
      <4> QED BY <3>2, <4>1 DEF StillReported
    <3> QED BY <2>2, <3>1, <3>2 DEF Reported
  <2>3. ASSUME NEW i \in At("windows"), NEW j \in At("panes"),
               Full("windows", i)', Full("panes", j)'
        PROVE  Heard("windows", i)'.win = Heard("panes", j)'.win \/ StillReported(i, j)
    <3>1. /\ Full("windows", i) /\ Full("panes", j)
          /\ Heard("windows", i)' = Heard("windows", i) /\ Heard("panes", j)' = Heard("panes", j)
      BY <1>k, <2>1, <2>3 DEF Full
    <3>2. Heard("windows", i).win = Heard("panes", j).win \/ Reported(i, j)
      BY <2>0, <3>1 DEF AgreeInv
    <3>3. j \in Nat /\ j <= j BY <1>p, <1>k
    <3> QED BY <2>2, <3>1, <3>2, <3>3
  <2>4. ASSUME NEW i \in At("windows"), Full("windows", i)', At("panes") = {}
        PROVE  Heard("windows", i)'.win = truth'.win \/ StillReported(i, n2)
    <3>1. Full("windows", i) /\ Heard("windows", i)' = Heard("windows", i)
      BY <1>k, <2>1, <2>4 DEF Full
    <3>2. Heard("windows", i).win = truth.win \/ Reported(i, n)
      BY <2>0, <2>4, <3>1 DEF AgreeInv
    <3>3. n \in Nat /\ n2 \in Nat /\ n <= n2 BY <1>p, <2>1
    <3>4. CASE truth'.win = truth.win
      <4> HIDE DEF n, n2
      <4> QED BY <2>2, <3>1, <3>2, <3>3, <3>4
    <3>5. CASE truth'.win # truth.win
      <4>1. i < n /\ n < n2 BY <1>p, <1>k, <2>1, <3>3, <3>5
      <4> QED BY <2>1, <3>5, <4>1 DEF StillReported
    <3> QED BY <3>4, <3>5
  <2> QED BY <1>k, <2>1, <2>3, <2>4, AgreesStill
<1>2. ASSUME NEW k \in Kinds, Serves(k) PROVE AgreeInv'
  <2> DEFINE n == Len(toDriver) + 1
  <2>0. live /\ truth' = truth /\ dirty' = dirty BY <1>2 DEF Serves
  <2>1. /\ At(k)' = {n} /\ Len(toDriver') = n
        /\ \A j \in Kinds \ {k} : At(j)' = At(j) /\ \A i \in At(j) : Heard(j, i)' = Heard(j, i)
        /\ InStream("topology")' = InStream("topology")
        /\ k = "windows" => At("panes") = {}
        /\ \A i \in At(k)' : Heard(k, i)'.win \in {truth.win, {}}
        /\ At(k) = {}
    BY <1>2, ServesAt
  <2>2. CASE k = "windows"
    <3>1. At("panes")' = {} BY <1>k, <2>1, <2>2
    <3>2. \A i \in At("windows")' : Full("windows", i)' => Heard("windows", i)'.win = truth'.win
      BY <2>0, <2>1, <2>2 DEF Full
    <3> QED BY <3>1, <3>2, AgreesStill
  <2>3. CASE k = "panes"
    <3>1. /\ At("windows")' = At("windows") /\ At("panes") = {} /\ At("panes")' = {n}
          /\ \A i \in At("windows") : Heard("windows", i)' = Heard("windows", i)
      BY <1>k, <2>1, <2>3
    <3>3. \A j \in At("panes")' : Full("panes", j)' => Heard("panes", j)'.win = truth.win
      BY <2>1, <2>3 DEF Full
    <3>4. ASSUME NEW i \in At("windows")', NEW j \in At("panes")',
                 Full("windows", i)', Full("panes", j)'
          PROVE  Heard("windows", i)'.win = Heard("panes", j)'.win \/ StillReported(i, j)
      <4>1. j = n /\ i \in At("windows") BY <3>1
      <4>2. Heard("windows", i)'.win = truth.win \/ StillReported(i, j)
        <5>1. Full("windows", i) BY <3>1, <3>4 DEF Full
        <5>2. Heard("windows", i).win = truth.win \/ Reported(i, n)
          BY <2>0, <3>1, <5>1 DEF AgreeInv
        <5>3. Reported(i, n) => StillReported(i, n)
          BY <2>0, <2>1 DEF Reported, StillReported
        <5> QED BY <3>1, <4>1, <5>2, <5>3
      <4> QED BY <3>3, <3>4, <4>2
    <3> QED BY <3>1, <3>4, AgreesStill
  <2> QED BY <2>2, <2>3 DEF Kinds
<1>3. CASE Reads
  <2> DEFINE n == Len(toDriver) + 1
             n2 == Len(toDriver') + 1
  <2>0. live /\ truth' = truth /\ (dirty => dirty') BY <1>3 DEF Reads
  <2>1. /\ n2 = Onward(n)
        /\ \A k \in Kinds : \A i \in At(k)' :
              \E j \in At(k) : i = Onward(j) /\ Heard(k, i)' = Heard(k, j)
        /\ \A k \in Kinds : At(k)' = {} => At(k) = {}
        /\ \A h \in InStream("topology") :
              IF h = 1 THEN live /\ call # Idle => dirty'
              ELSE h - 1 \in InStream("topology")'
    BY <1>3, <1>p, ReadsAt DEF Onward
  <2>2. ASSUME NEW i \in At("windows"), NEW j \in Nat, Reported(i, j)
        PROVE  StillReported(Onward(i), Onward(j))
    <3>0. i \in Nat /\ call # Idle BY <1>p, <1>k
    <3>1. CASE i = 0 /\ dirty BY <2>0, <3>1 DEF StillReported, Onward
    <3>2. ASSUME NEW h \in InStream("topology"), i < h, h < j
          PROVE  StillReported(Onward(i), Onward(j))
      <4>1. h \in Nat /\ h > 0 BY <1>p
      <4>2. CASE h = 1
        <5>1. i = 0 /\ dirty' BY <2>0, <2>1, <3>0, <3>2, <4>2
        <5> QED BY <5>1 DEF StillReported, Onward
      <4>3. CASE h # 1
        <5>1. h - 1 \in InStream("topology")' BY <2>1, <4>3
        <5>2. Onward(i) < h - 1 /\ h - 1 < Onward(j)
          BY <3>0, <3>2, <4>1, <4>3 DEF Onward
        <5> QED BY <5>1, <5>2 DEF StillReported
      <4> QED BY <4>2, <4>3
    <3> QED BY <2>2, <3>1, <3>2 DEF Reported
  <2>3. ASSUME NEW i \in At("windows")', NEW j \in At("panes")',
               Full("windows", i)', Full("panes", j)'
        PROVE  Heard("windows", i)'.win = Heard("panes", j)'.win \/ StillReported(i, j)
    <3>1. PICK i0 \in At("windows") : i = Onward(i0) /\ Heard("windows", i)' = Heard("windows", i0)
      BY <1>k, <2>1
    <3>2. PICK j0 \in At("panes") : j = Onward(j0) /\ Heard("panes", j)' = Heard("panes", j0)
      BY <1>k, <2>1
    <3>3. Full("windows", i0) /\ Full("panes", j0) BY <2>3, <3>1, <3>2 DEF Full
    <3>4. Heard("windows", i0).win = Heard("panes", j0).win \/ Reported(i0, j0)
      BY <2>0, <3>3 DEF AgreeInv
    <3>5. j0 \in Nat BY <1>p, <1>k
    <3> QED BY <2>2, <3>1, <3>2, <3>4, <3>5
  <2>4. ASSUME NEW i \in At("windows")', Full("windows", i)', At("panes")' = {}
        PROVE  Heard("windows", i)'.win = truth'.win \/ StillReported(i, n2)
    <3>1. PICK i0 \in At("windows") : i = Onward(i0) /\ Heard("windows", i)' = Heard("windows", i0)
      BY <1>k, <2>1
    <3>2. Full("windows", i0) /\ At("panes") = {} BY <1>k, <2>1, <2>4, <3>1 DEF Full
    <3>3. Heard("windows", i0).win = truth.win \/ Reported(i0, n)
      BY <2>0, <3>2 DEF AgreeInv
    <3>4. n \in Nat BY <1>p
    <3> HIDE DEF n, n2
    <3> QED BY <2>0, <2>1, <2>2, <3>1, <3>3, <3>4
  <2> QED BY <2>3, <2>4, AgreesStill
<1>4. CASE Starts
  <2>1. \A k \in Kinds : At(k)' = {} BY <1>4, StartsAt
  <2> QED BY <1>k, <2>1 DEF AgreeInv
<1>5. CASE Ends
  <2>1. \A k \in Kinds : At(k)' = {} BY <1>5, EndsAt
  <2> QED BY <1>k, <2>1 DEF AgreeInv
<1> QED BY <1>1, <1>2, <1>3, <1>4, <1>5, Shape

-----------------------------------------------------------------------------
(* Whoever leaves the engine dirty sees to it that it is looked at again *)

LEMMA InitServed == Init => BootInv /\ DirtyIsServed /\ CycleInv /\ AgreeInv
<1> SUFFICES ASSUME Init PROVE BootInv /\ DirtyIsServed /\ CycleInv /\ AgreeInv OBVIOUS
<1>1. BootInv /\ DirtyIsServed /\ AgreeInv
  <2>1. emptyModel \in Model BY DEF emptyModel, Model
  <2>2. call # Idle BY <2>1, CallTypes DEF Init
  <2> QED BY <2>2 DEF Init, BootInv, DirtyIsServed, AgreeInv
<1>2. CycleInv
  <2>1. call # Idle /\ call.windows = None /\ call.panes = None
    <3>1. emptyModel \in Model BY DEF emptyModel, Model
    <3> QED BY <3>1, CallTypes DEF Init, Fresh
  <2>2. \A k : InStream(k) = {} BY DEF Init, InStream, KindAt
  <2>3. \A k \in Kinds : At(k) = {} BY <2>1, <2>2 DEF At, IsRead
  <2>4. <<>> \in Seq(Command) /\ toTmux = <<>> \o ListCommands /\ Len(<<>>) = 0
    BY CallTypes DEF Init
  <2>5. \A k : KindAt(<<>>, k) = {} BY DEF KindAt
  <2>6. Asked("windows") = {1} /\ Asked("panes") = {2}
    <3>1. /\ KindAt(<<>> \o ListCommands, "windows") = KindAt(<<>>, "windows") \cup {Len(<<>>) + 1}
          /\ KindAt(<<>> \o ListCommands, "panes") = KindAt(<<>>, "panes") \cup {Len(<<>>) + 2}
      BY <2>4, KindListCommands, Zenon
    <3>2. Len(<<>>) + 1 = 1 /\ Len(<<>>) + 2 = 2 BY <2>4
    <3>3. /\ KindAt(toTmux, "windows") = {Len(<<>>) + 1}
          /\ KindAt(toTmux, "panes") = {Len(<<>>) + 2}
      BY <2>4, <2>5, <3>1, Zenon
    <3> QED BY <3>2, <3>3, Zenon DEF Asked
  <2> QED BY <2>1, <2>3, <2>6 DEF CycleInv, Kinds
<1> QED BY <1>1, <1>2

\* A patch of a model without windows changes nothing.
LEMMA NothingToPatch ==
    /\ \A w, on : SyncPatch(emptyModel, w, on) = emptyModel
    /\ \A w, c, on : BoundPatch(emptyModel, w, c, on) = emptyModel
    /\ [emptyModel EXCEPT !.bound = {}] = emptyModel
BY DEF SyncPatch, BoundPatch, emptyModel

LEMMA StepServed ==
    TypeInv /\ CycleInv /\ BootInv /\ DirtyIsServed /\ [Next]_vars
    => BootInv' /\ DirtyIsServed'
<1> SUFFICES ASSUME TypeInv, CycleInv, BootInv, DirtyIsServed, [Next]_vars
             PROVE  BootInv' /\ DirtyIsServed'
  OBVIOUS
<1> USE DEF engine, timers
<1>t. /\ model \in Model /\ call \in {Idle} \cup Call /\ TypeInv'
      /\ model' \in Model /\ call' \in {Idle} \cup Call
  BY StepTypes DEF TypeInv, TypeOK
\* what is patched is not the dirty bit
<1>q. ASSUME UNCHANGED <<dirty, call, trailing, live>>, model = emptyModel => model' = emptyModel
      PROVE  BootInv' /\ DirtyIsServed'
  BY <1>q DEF BootInv, DirtyIsServed
<1>r. ASSUME NEW m \in Model, NEW on, RunRequery(m, on) PROVE call' # Idle
  BY <1>r, CallTypes DEF RunRequery
<1>c. ASSUME live, live', notify, UNCHANGED <<model>> PROVE BootInv' /\ DirtyIsServed'
  <2>1. CASE LeadingEdge
    <3>1. call' # Idle /\ trailing' = trailing /\ ~trailing
      BY <1>c, <1>r, <1>t, <2>1 DEF notify, LeadingEdge
    <3> QED BY <1>c, <3>1 DEF BootInv, DirtyIsServed
  <2>2. CASE ~LeadingEdge
    BY <1>c, <2>2 DEF notify, BootInv, DirtyIsServed
  <2> QED BY <2>1, <2>2
<1>1. CASE Tmux
  <2>1. UNCHANGED driverState
    BY <1>1 DEF Tmux, CreateWindow, KillWindow, ToggleElsewhere, SyncWatch, ServeListing,
       ServeListingBadly, ServeSet, ServeBinding
  <2> QED BY <1>q, <2>1 DEF driverState
<1>2. CASE Clients
  <2>1. UNCHANGED <<dirty, call, trailing, live>>
    BY <1>2 DEF Clients, Attach, Detach, SetSync, SetBound, undisturbed
  <2>2. model = emptyModel => model' = emptyModel
    <3>1. ASSUME NEW c \in Client, Attach(c) \/ Detach(c) PROVE model' = model
      BY <3>1 DEF Attach, Detach
    <3>2. ASSUME NEW c \in Client, NEW w \in Window, NEW on \in BOOLEAN, SetSync(c, w, on)
          PROVE  model' = SyncPatch(model, w, on)
      BY <3>2 DEF SetSync, patchModel
    <3>3. ASSUME NEW c \in Client, NEW w \in Window, NEW on \in BOOLEAN, SetBound(c, w, on)
          PROVE  model' = BoundPatch(model, w, c, on)
      BY <3>3 DEF SetBound, patchModel
    <3> QED BY <1>2, <3>1, <3>2, <3>3, NothingToPatch DEF Clients
  <2> QED BY <1>q, <2>1, <2>2
<1>3. CASE ReceiveTopology
  <2>1. CASE live BY <1>3, <1>c, <2>1 DEF ReceiveTopology
  <2>2. CASE ~live BY <1>3, <1>q, <2>2 DEF ReceiveTopology, Buffer
  <2> QED BY <2>1, <2>2
<1>4. CASE ReceiveListing
  <2>1. (call' = Idle) <=> (call = Idle)
    <3>1. Reads BY <1>4 DEF ReceiveListing, Receives, Reads, Kinds, SameWindows, tmux
    <3> QED BY <3>1, ReadsAt
  <2> QED BY <1>4, <2>1 DEF ReceiveListing, BootInv, DirtyIsServed
<1>5. CASE ReceiveSync
  BY <1>5, <1>q, NothingToPatch DEF ReceiveSync, unpatched, patchModel
<1>6. CASE ReceiveResult
  <2> DEFINE tok == Head(toDriver)
             undo == tok.undo
  <2>1. tok \in Token /\ tok.kind = "result"
    BY <1>6, NotifyTypes DEF ReceiveResult, Receives
  <2>2. undo \in Undo /\ tok.ok \in BOOLEAN BY <2>1 DEF Token, Listings
  <2>3. undo.kind \in {"none", "sync", "bound"} BY <2>2 DEF Undo, None
  <2>4. model' = CASE tok.ok \/ undo.kind = "none" -> model
                    [] ~tok.ok /\ undo.kind = "sync" -> SyncPatch(model, undo.win, undo.on)
                    [] ~tok.ok /\ undo.kind = "bound" ->
                         BoundPatch(model, undo.win, undo.client, undo.on)
    BY <1>6 DEF ReceiveResult, patchModel
  <2> HIDE DEF undo, tok
  <2>5. model = emptyModel => model' = emptyModel BY <2>2, <2>3, <2>4, NothingToPatch
  <2> QED BY <1>6, <1>q, <2>5 DEF ReceiveResult, unpatched
<1>7. CASE ReceiveBinding
  <2>1. model = emptyModel => model' = emptyModel
    <3> SUFFICES ASSUME model = emptyModel PROVE model' = emptyModel OBVIOUS
    <3>1. model.bound = {} /\ model.pane = {} BY DEF emptyModel
    <3>2. model' = [model EXCEPT !.bound = {}] BY <1>7, <3>1 DEF ReceiveBinding
    <3> QED BY <3>2, NothingToPatch
  <2> QED BY <1>7, <1>q, <2>1 DEF ReceiveBinding, undisturbed
<1>a. Answered => call # Idle BY DEF Answered
<1>8. CASE CycleAgain
  <2>0. Answered /\ BudgetLeft /\ call \in Call BY <1>8, <1>t DEF CycleAgain, Answered
  <2>1. call' # Idle
    <3>1. call' = NextCycle(~Outdated) BY <1>8 DEF CycleAgain
    <3>2. (~Outdated) \in BOOLEAN OBVIOUS
    <3>3. call' \in Call BY <2>0, <3>1, <3>2, CallTypes
    <3> QED BY <3>3, IdleIsNoCall
  <2> QED BY <1>8, <1>a, <2>1 DEF CycleAgain, BootInv, DirtyIsServed
<1>9. CASE RequeryFails
  BY <1>9 DEF RequeryFails, RetryScheduled, BootInv, DirtyIsServed
<1>10. CASE RequeryCommits
  <2>1. ~dirty BY <1>10 DEF RequeryCommits, Commits, Clean, Outdated
  <2>2. trailing' = trailing /\ call' = Idle /\ dirty' = dirty /\ live' = live
    BY <1>10 DEF RequeryCommits
  <2> QED BY <1>10, <2>1, <2>2 DEF RequeryCommits, BootInv, DirtyIsServed
<1>d. ASSUME ~live, NEW m \in Model, Drain(m),
             buffered = 0 => dirty' = FALSE \/ model' = emptyModel
      PROVE  BootInv' /\ DirtyIsServed'
  <2>1. live' /\ trailing' = FALSE BY <1>d DEF Drain, BootInv
  <2>2. CASE buffered = 0
    <3>1. call' = Idle BY <1>d, <2>2 DEF Drain
    <3> QED BY <1>d, <2>1, <2>2, <3>1 DEF BootInv, DirtyIsServed
  <2>3. CASE buffered # 0
    <3>1. call' # Idle BY <1>d, <1>r, <2>3 DEF Drain
    <3> QED BY <2>1, <3>1 DEF BootInv, DirtyIsServed
  <2> QED BY <2>2, <2>3
<1>11. CASE BootstrapCommits
  <2>1. candidate \in Model
    BY <1>11, <1>t, CandidateType DEF BootstrapCommits, Commits, Answered
  <2>2. dirty = FALSE BY <1>11 DEF BootstrapCommits, BootInv
  <2>3. buffered = 0 => dirty' = FALSE BY <1>11, <2>2 DEF BootstrapCommits
  <2> QED BY <1>11, <1>d, <2>1, <2>3 DEF BootstrapCommits
<1>12. CASE BootstrapFails
  <2>1. model' = emptyModel BY <1>12 DEF BootstrapFails, BootInv
  <2> QED BY <1>12, <1>d, <1>t, <2>1 DEF BootstrapFails
<1>13. CASE CeilingPasses
  BY <1>13, <1>q DEF CeilingPasses
<1>14. CASE TrailingFires
  <2>1. call' # Idle /\ trailing' = FALSE /\ model' = model /\ live' = live /\ live
    BY <1>14, <1>r, <1>t DEF TrailingFires, BootInv
  <2> QED BY <2>1 DEF BootInv, DirtyIsServed
<1>15. CASE Heartbeat
  BY <1>15, <1>c DEF Heartbeat
<1>16. CASE UNCHANGED vars
  BY <1>16, <1>q DEF vars
<1> QED BY <1>1, <1>2, <1>3, <1>4, <1>5, <1>6, <1>7, <1>8, <1>9, <1>10, <1>11, <1>12, <1>13,
           <1>14, <1>15, <1>16 DEF Next, Driver

\* A dirty engine is never left to the heartbeat (_scheduleRetryAfterFailure and the trailing
\* edge of coalescer.ts), however changes, failures, patches and clients interleave.
THEOREM DirtyIsAlwaysServed == Spec => []DirtyIsServed
<1>1. Init => ServedInv BY InitTypes, InitServed DEF ServedInv
<1>2. ServedInv /\ [Next]_vars => ServedInv'
  BY StepTypes, StepCycle, StepServed DEF ServedInv
<1>3. ServedInv => DirtyIsServed BY DEF ServedInv
<1> QED BY <1>1, <1>2, <1>3, PTL DEF Spec

\* Every variable keeps its type, and a listing arrives only during the call it is for.
THEOREM TypeCorrect == Spec => []TypeOK
<1>1. Init => ServedInv BY InitTypes, InitServed DEF ServedInv
<1>2. ServedInv /\ [Next]_vars => ServedInv'
  BY StepTypes, StepCycle, StepServed DEF ServedInv
<1>3. ServedInv => TypeOK BY DEF ServedInv, TypeInv
<1> QED BY <1>1, <1>2, <1>3, PTL DEF Spec

-----------------------------------------------------------------------------
(* Losing most of a set *)

\* Whoever loses enough to N loses enough to a T that has no more of it.
LEMMA LosesMore ==
    ASSUME NEW A, IsFiniteSet(A), NEW N, NEW T, A \cap T \subseteq N, Loses(A, N)
    PROVE  Loses(A, T)
<1>1. IsFiniteSet(A \ T) /\ Cardinality(A \ N) <= Cardinality(A \ T)
  <2>1. A \ T \subseteq A /\ A \ N \subseteq A \ T OBVIOUS
  <2>2. IsFiniteSet(A \ T) BY <2>1, FS_Subset
  <2> QED BY <2>1, <2>2, FS_Subset
<1>2. Cardinality(A \ N) \in Nat /\ Cardinality(A \ T) \in Nat /\ Cardinality(A) \in Nat
  <2>1. IsFiniteSet(A \ N) BY FS_Subset
  <2> QED BY <1>1, <2>1, FS_CardinalityType
<1> DEFINE lost == Cardinality(A \ N)
           lostT == Cardinality(A \ T)
           enough == Threshold * Cardinality(A)
<1>3. A # {} /\ 100 * lost >= enough BY DEF Loses
<1>4. enough \in Int BY <1>2, Budgets
<1>5. lost \in Nat /\ lostT \in Nat /\ lost <= lostT BY <1>1, <1>2
<1> HIDE DEF lost, lostT, enough
<1>6. 100 * lostT >= enough BY <1>3, <1>4, <1>5
<1> QED BY <1>3, <1>6 DEF Loses, lostT, enough

\* Whoever loses everything loses enough: the threshold is at most a hundred percent.
LEMMA LosesAll ==
    ASSUME NEW A, IsFiniteSet(A), A # {}
    PROVE  Loses(A, {})
<1> DEFINE c == Cardinality(A)
<1>1. c \in Nat BY FS_CardinalityType
<1>2. A \ {} = A OBVIOUS
<1> HIDE DEF c
<1>3. 100 * c >= Threshold * c BY <1>1, Budgets
<1> QED BY <1>2, <1>3 DEF Loses, c

-----------------------------------------------------------------------------
(* tmux's windows, and the model's *)

LEMMA StepTruth == TypeInv /\ TruthInv /\ [Next]_vars => TruthInv'
<1> SUFFICES ASSUME TypeInv, TruthInv, [Next]_vars PROVE TruthInv' OBVIOUS
<1>t. truth \in Truths BY DEF TypeInv, TypeOK, Truths
<1>s. ASSUME truth'.win = truth.win, truth'.used = truth.used PROVE TruthInv'
  BY <1>s DEF TruthInv
<1>1. ASSUME NEW w \in Window, CreateWindow(w) PROVE TruthInv'
  <2>1. truth'.win = truth.win \cup {w} /\ truth'.used = truth.used \cup {w}
    BY <1>1, <1>t DEF CreateWindow, Truths
  <2>2. IsFiniteSet(truth'.used) BY <2>1, FS_AddElement DEF TruthInv
  <2> QED BY <2>1, <2>2 DEF TruthInv
<1>2. ASSUME NEW w \in Window, KillWindow(w) PROVE TruthInv'
  <2>1. truth'.win = truth.win \ {w} /\ truth'.used = truth.used /\ truth.win # {w}
    BY <1>2, <1>t DEF KillWindow, Truths
  <2>2. truth'.win # {} BY <2>1 DEF TruthInv
  <2> QED BY <2>1, <2>2 DEF TruthInv
<1>3. ASSUME NEW w \in Window, ToggleElsewhere(w) PROVE TruthInv'
  BY <1>3, <1>s, <1>t DEF ToggleElsewhere, Truths
<1>4. CASE ServeSet
  <2>1. truth'.win = truth.win /\ truth'.used = truth.used
    BY <1>4, <1>t DEF ServeSet, Truths
  <2> QED BY <1>s, <2>1
<1>5. ASSUME UNCHANGED truth PROVE TruthInv' BY <1>5, <1>s
<1>6. CASE Driver
  <2>1. UNCHANGED truth
    BY <1>6 DEF Driver, ReceiveTopology, ReceiveListing, ReceiveSync, ReceiveResult,
       ReceiveBinding, CycleAgain, RequeryFails, RequeryCommits, BootstrapCommits,
       BootstrapFails, Drain, CeilingPasses, TrailingFires, Heartbeat, unpatched, undisturbed,
       tmux
  <2> QED BY <1>5, <2>1
<1>7. CASE Clients
  <2>1. UNCHANGED truth
    BY <1>7 DEF Clients, Attach, Detach, SetSync, SetBound, undisturbed, tmux
  <2> QED BY <1>5, <2>1
<1>8. CASE Tmux
  <2>1. ASSUME \/ \E w \in Window : SyncWatch(w)
               \/ ServeListing \/ ServeListingBadly \/ ServeBinding
        PROVE  UNCHANGED truth
    BY <2>1 DEF SyncWatch, ServeListing, ServeListingBadly, ServeBinding, tmux
  <2> QED BY <1>1, <1>2, <1>3, <1>4, <1>5, <1>8, <2>1 DEF Tmux
<1>9. CASE UNCHANGED vars BY <1>5, <1>9 DEF vars, tmux
<1> QED BY <1>6, <1>7, <1>8, <1>9 DEF Next

LEMMA AnsweredAt ==
    ASSUME TypeInv, Answered
    PROVE  /\ call \in Call /\ call # Idle
           /\ 0 \in At("windows") /\ Heard("windows", 0) = call.windows
           /\ 0 \in At("panes") /\ Heard("panes", 0) = call.panes
           /\ candidate.win = call.windows.win
           /\ candidate.pane = call.panes.win \cap call.windows.win
<1>1. call \in Call /\ call # Idle BY DEF Answered, TypeInv, TypeOK
<1>2. 0 \in At("windows") /\ 0 \in At("panes") BY DEF Answered, At, IsRead
<1>3. Heard("windows", 0) = call.windows /\ Heard("panes", 0) = call.panes BY DEF Heard
<1> QED BY <1>1, <1>2, <1>3, CandidateType DEF Answered

LEMMA StepModel ==
    TypeInv /\ CycleInv /\ BootInv /\ TruthInv /\ ModelInv /\ HeardInv /\ [Next]_vars => ModelInv'
<1> SUFFICES ASSUME TypeInv, CycleInv, BootInv, TruthInv, ModelInv, HeardInv, [Next]_vars
             PROVE  ModelInv'
  OBVIOUS
<1>a. ASSUME Answered, model' = candidate, truth' = truth
      PROVE  model'.win \subseteq truth'.used /\ model'.pane \subseteq model'.win
  <2>1. call.windows.win \subseteq truth.used BY <1>a, AnsweredAt DEF HeardInv, Kinds
  <2> QED BY <1>a, <2>1, AnsweredAt
<1>1. CASE Waits BY <1>1 DEF Waits, SameWindows, ModelInv
<1>2. ASSUME NEW k \in Kinds, Serves(k) PROVE ModelInv'
  BY <1>2 DEF Serves, ModelInv
<1>3. CASE Reads BY <1>3, ReadsAt DEF Reads, SameWindows, ModelInv
<1>4. CASE Starts
  <2>1. model'.win \subseteq truth'.used /\ model'.pane \subseteq model'.win
    BY <1>4, <1>a DEF Starts, SameWindows, ModelInv
  <2>2. live' => call'.start.win = model'.win /\ call'.start.pane = model'.pane
    BY <1>4 DEF Starts, SameWindows, ModelInv, Answered
  <2> QED BY <2>1, <2>2 DEF ModelInv
<1>5. CASE Ends
  <2>1. model'.win \subseteq truth'.used /\ model'.pane \subseteq model'.win
    BY <1>5, <1>a DEF Ends, SameWindows, ModelInv
  <2> QED BY <1>5, <2>1 DEF Ends, ModelInv
<1> QED BY <1>1, <1>2, <1>3, <1>4, <1>5, Shape

-----------------------------------------------------------------------------
(* What the listings say, and what a confirming cycle confirms *)

LEMMA StepHeard ==
    /\ TypeInv /\ CycleInv /\ BootInv /\ TruthInv /\ ModelInv /\ HeardInv /\ left.fault <= 1
    /\ [Next]_vars
    => HeardInv' /\ left'.fault <= 1
<1> SUFFICES ASSUME TypeInv, CycleInv, BootInv, TruthInv, ModelInv, HeardInv,
                    left.fault <= 1, [Next]_vars
             PROVE  HeardInv' /\ left'.fault <= 1
  OBVIOUS
<1>t. left.fault \in Nat BY DEF TypeInv
<1>1. CASE Waits
  <2>1. /\ \A k \in Kinds : At(k)' = At(k)
        /\ \A k \in Kinds : \A i \in At(k) : Heard(k, i)' = Heard(k, i)
    BY <1>1, WaitsAt
  <2>2. /\ model'.win \cap truth'.win \subseteq model.win \cap truth.win
        /\ truth.used \subseteq truth'.used /\ left'.fault = left.fault
    BY <1>1 DEF Waits, SameWindows, ModelInv
  <2>3. ASSUME NEW k \in Kinds, NEW i \in At(k)'
        PROVE  /\ Heard(k, i)'.win \subseteq truth'.used
               /\ Full(k, i)' => model'.win \cap truth'.win \subseteq Heard(k, i)'.win
               /\ ~Full(k, i)' => left'.fault = 0
    <3>1. i \in At(k) /\ Heard(k, i)' = Heard(k, i) BY <2>1
    <3>2. Full(k, i)' <=> Full(k, i) BY <3>1 DEF Full
    <3> QED BY <2>2, <3>1, <3>2 DEF HeardInv
  <2> QED BY <2>2, <2>3 DEF HeardInv
<1>2. ASSUME NEW k \in Kinds, Serves(k) PROVE HeardInv' /\ left'.fault <= 1
  <2>1. /\ \A j \in Kinds \ {k} : At(j)' = At(j) /\ \A i \in At(j) : Heard(j, i)' = Heard(j, i)
        /\ \A i \in At(k)' :
              \/ Heard(k, i)'.win = truth.win /\ left'.fault = left.fault
              \/ Heard(k, i)'.win = {} /\ left.fault > 0 /\ left'.fault = left.fault - 1
        /\ At(k)' # {}
    BY <1>2, ServesAt
  <2>2. truth' = truth /\ model' = model BY <1>2 DEF Serves
  <2>3. \/ left'.fault = left.fault
        \/ left'.fault = 0
    BY <2>1, <1>t
  <2>4. ASSUME NEW j \in Kinds, NEW i \in At(j)'
        PROVE  /\ Heard(j, i)'.win \subseteq truth'.used
               /\ Full(j, i)' => model'.win \cap truth'.win \subseteq Heard(j, i)'.win
               /\ ~Full(j, i)' => left'.fault = 0
    <3>1. CASE j = k
      <4>1. CASE Heard(k, i)'.win = truth.win
        BY <2>2, <3>1, <4>1 DEF TruthInv, Full
      <4>2. CASE Heard(k, i)'.win = {} /\ left.fault > 0 /\ left'.fault = left.fault - 1
        BY <1>t, <3>1, <4>2 DEF Full
      <4> QED BY <2>1, <3>1, <4>1, <4>2
    <3>2. CASE j # k
      <4>1. i \in At(j) /\ Heard(j, i)' = Heard(j, i) BY <2>1, <3>2
      <4>2. Full(j, i)' <=> Full(j, i) BY <4>1 DEF Full
      <4> QED BY <2>2, <2>3, <4>1, <4>2 DEF HeardInv
    <3> QED BY <3>1, <3>2
  <2> QED BY <1>t, <2>3, <2>4 DEF HeardInv
<1>3. CASE Reads
  <2>1. \A k \in Kinds : \A i \in At(k)' : \E j \in At(k) : Heard(k, i)' = Heard(k, j)
    BY <1>3, ReadsAt
  <2>2. model'.win = model.win /\ truth' = truth /\ left'.fault = left.fault
    BY <1>3 DEF Reads, SameWindows
  <2>3. ASSUME NEW k \in Kinds, NEW i \in At(k)'
        PROVE  /\ Heard(k, i)'.win \subseteq truth'.used
               /\ Full(k, i)' => model'.win \cap truth'.win \subseteq Heard(k, i)'.win
               /\ ~Full(k, i)' => left'.fault = 0
    <3>1. PICK j \in At(k) : Heard(k, i)' = Heard(k, j) BY <2>1
    <3>2. Full(k, i)' <=> Full(k, j) BY <3>1 DEF Full
    <3> QED BY <2>2, <3>1, <3>2 DEF HeardInv
  <2> QED BY <2>2, <2>3 DEF HeardInv
<1>4. CASE Starts
  <2>1. \A k \in Kinds : At(k)' = {} BY <1>4, StartsAt
  <2> QED BY <1>4, <2>1 DEF Starts, HeardInv
<1>5. CASE Ends
  <2>1. \A k \in Kinds : At(k)' = {} BY <1>5, EndsAt
  <2> QED BY <1>5, <2>1 DEF Ends, HeardInv
<1> QED BY <1>1, <1>2, <1>3, <1>4, <1>5, Shape

\* Both listings of a clean cycle have rows: they are one state of tmux, which still had
\* every window of the model that it has now.
LEMMA CleanListings ==
    ASSUME CleanInv, live, Answered, Clean, Full("windows", 0), Full("panes", 0)
    PROVE  /\ candidate.win = call.windows.win /\ candidate.pane = call.windows.win
           /\ model.win \cap truth.win \subseteq candidate.win
           /\ Tripped => Loses(model.win, truth.win) \/ Loses(model.pane, truth.win)
<1>t. TypeInv /\ CycleInv /\ ModelInv /\ TruthInv BY DEF CleanInv, ServedInv
<1>1. /\ 0 \in At("windows") /\ Heard("windows", 0) = call.windows
      /\ 0 \in At("panes") /\ Heard("panes", 0) = call.panes
      /\ candidate.win = call.windows.win
      /\ candidate.pane = call.panes.win \cap call.windows.win
      /\ call # Idle
  BY <1>t, AnsweredAt
<1>2. call.windows.win = call.panes.win
  <2>1. call.windows.win = call.panes.win \/ Reported(0, 0)
    BY <1>1 DEF CleanInv, AgreeInv
  <2>2. ~dirty BY DEF Clean, Outdated
  <2>3. \A h \in InStream("topology") : h \in Nat BY <1>t, Places
  <2>4. ~Reported(0, 0) BY <2>2, <2>3 DEF Reported
  <2> QED BY <2>1, <2>4
<1>3. model.win \cap truth.win \subseteq candidate.win
  BY <1>1 DEF CleanInv, HeardInv, Kinds
<1>4. Tripped => Loses(model.win, truth.win) \/ Loses(model.pane, truth.win)
  <2> SUFFICES ASSUME Tripped PROVE Loses(model.win, truth.win) \/ Loses(model.pane, truth.win)
    OBVIOUS
  <2>1. call.start.win = model.win /\ call.start.pane = model.pane
    BY <1>1, <1>t DEF ModelInv
  <2>2. Loses(model.win, candidate.win) \/ Loses(model.pane, candidate.pane)
    BY <2>1 DEF Tripped, wouldTeardown
  <2>3. model.pane \subseteq model.win /\ candidate.pane = candidate.win
    BY <1>1, <1>2, <1>t DEF ModelInv
  <2>4. model.pane \cap truth.win \subseteq candidate.pane BY <1>3, <2>3
  <2>5. IsFiniteSet(model.win) /\ IsFiniteSet(model.pane)
    <3>1. model.win \in SUBSET truth.used /\ model.pane \in SUBSET truth.used
      BY <1>t DEF ModelInv
    <3> QED BY <1>t, <3>1, FS_Subset DEF TruthInv
  <2>6. CASE Loses(model.win, candidate.win) BY <1>3, <2>5, <2>6, LosesMore
  <2>7. CASE Loses(model.pane, candidate.pane) BY <2>4, <2>5, <2>7, LosesMore
  <2> QED BY <2>2, <2>6, <2>7
<1> QED BY <1>1, <1>2, <1>3, <1>4

LEMMA StepHeld == CleanInv /\ [Next]_vars => HeldInv'
<1> SUFFICES ASSUME CleanInv, [Next]_vars, live', call' # Idle, call'.held
             PROVE  \/ Loses(model.win, truth.win)' \/ Loses(model.pane, truth.win)'
                    \/ left'.fault = 0 /\ \A k \in Kinds : \A i \in At(k)' : Full(k, i)'
  BY DEF HeldInv
<1>t. /\ TypeInv /\ CycleInv /\ BootInv /\ ModelInv /\ TruthInv /\ HeardInv /\ HeldInv
      /\ left.fault \in Nat
  BY DEF CleanInv, ServedInv, TypeInv
<1>f. IsFiniteSet(model.win) /\ IsFiniteSet(model.pane)
  <2>1. model.win \in SUBSET truth.used /\ model.pane \in SUBSET truth.used
    BY <1>t DEF ModelInv
  <2> QED BY <1>t, <2>1, FS_Subset DEF TruthInv
\* what is lost stays lost
<1>l. ASSUME SameWindows, truth'.win \cap truth.used \subseteq truth.win
      PROVE  /\ Loses(model.win, truth.win) => Loses(model.win, truth.win)'
             /\ Loses(model.pane, truth.win) => Loses(model.pane, truth.win)'
  <2>1. /\ model.win \cap truth'.win \subseteq truth.win
        /\ model.pane \cap truth'.win \subseteq truth.win
    BY <1>l, <1>t DEF ModelInv
  <2>2. Loses(model.win, truth.win) => Loses(model.win, truth'.win)
    BY <2>1, <1>f, LosesMore
  <2>3. Loses(model.pane, truth.win) => Loses(model.pane, truth'.win)
    BY <2>1, <1>f, LosesMore
  <2> QED BY <1>l, <2>2, <2>3 DEF SameWindows, Loses
<1>1. CASE Waits
  <2>1. /\ \A k \in Kinds : At(k)' = At(k)
        /\ \A k \in Kinds : \A i \in At(k) : Heard(k, i)' = Heard(k, i)
    BY <1>1, <1>t, WaitsAt
  <2>2. /\ live /\ call # Idle /\ call.held /\ left'.fault = left.fault
        /\ SameWindows /\ truth'.win \cap truth.used \subseteq truth.win
    BY <1>1 DEF Waits
  <2>3. ASSUME \A k \in Kinds : \A i \in At(k) : Full(k, i)
        PROVE  \A k \in Kinds : \A i \in At(k)' : Full(k, i)'
    BY <2>1, <2>3 DEF Full
  <2> QED BY <1>l, <1>t, <2>2, <2>3 DEF HeldInv
<1>2. ASSUME NEW k \in Kinds, Serves(k)
      PROVE  \/ Loses(model.win, truth.win)' \/ Loses(model.pane, truth.win)'
             \/ left'.fault = 0 /\ \A j \in Kinds : \A i \in At(j)' : Full(j, i)'
  <2>1. /\ \A j \in Kinds \ {k} : At(j)' = At(j) /\ \A i \in At(j) : Heard(j, i)' = Heard(j, i)
        /\ \A i \in At(k)' :
              \/ Heard(k, i)'.win = truth.win /\ left'.fault = left.fault
              \/ Heard(k, i)'.win = {} /\ left.fault > 0 /\ left'.fault = left.fault - 1
        /\ At(k)' # {}
    BY <1>2, <1>t, ServesAt
  <2>2. live /\ call # Idle /\ call.held /\ SameWindows /\ truth' = truth
    BY <1>2 DEF Serves, SameWindows
  <2>3. ASSUME left.fault = 0, \A j \in Kinds : \A i \in At(j) : Full(j, i)
        PROVE  left'.fault = 0 /\ \A j \in Kinds : \A i \in At(j)' : Full(j, i)'
    <3>1. left'.fault = 0 /\ \A i \in At(k)' : Heard(k, i)'.win = truth.win BY <2>1, <2>3
    <3>2. ASSUME NEW j \in Kinds, NEW i \in At(j)' PROVE Full(j, i)'
      <4>1. CASE j = k BY <1>t, <3>1, <4>1 DEF Full, TruthInv
      <4>2. CASE j # k
        <5>1. i \in At(j) /\ Heard(j, i)' = Heard(j, i) BY <2>1, <4>2
        <5> QED BY <2>3, <5>1 DEF Full
      <4> QED BY <4>1, <4>2
    <3> QED BY <3>1, <3>2
  <2> QED BY <1>l, <1>t, <2>2, <2>3 DEF HeldInv
<1>3. CASE Reads
  <2>1. /\ \A k \in Kinds : \A i \in At(k)' : \E j \in At(k) : Heard(k, i)' = Heard(k, j)
        /\ call # Idle /\ call.held
    BY <1>3, <1>t, ReadsAt
  <2>2. live /\ SameWindows /\ truth' = truth /\ left'.fault = left.fault
    BY <1>3 DEF Reads
  <2>3. ASSUME \A k \in Kinds : \A i \in At(k) : Full(k, i)
        PROVE  \A k \in Kinds : \A i \in At(k)' : Full(k, i)'
    <3> SUFFICES ASSUME NEW k \in Kinds, NEW i \in At(k)' PROVE Full(k, i)' OBVIOUS
    <3>1. PICK j \in At(k) : Heard(k, i)' = Heard(k, j) BY <2>1
    <3> QED BY <2>3, <3>1 DEF Full
  <2> QED BY <1>l, <1>t, <2>1, <2>2, <2>3 DEF HeldInv
<1>4. CASE Starts
  <2>1. \A k \in Kinds : At(k)' = {} BY <1>4, <1>t, StartsAt
  <2>2. Clean /\ Tripped /\ SameWindows /\ live /\ Answered /\ truth' = truth
          /\ left'.fault = left.fault
    BY <1>4 DEF Starts
  <2>3. 0 \in At("windows") /\ 0 \in At("panes") BY <1>t, <2>2, AnsweredAt
  <2>4. CASE left.fault = 0 BY <2>1, <2>2, <2>4
  <2>5. CASE left.fault # 0
    <3>1. Full("windows", 0) /\ Full("panes", 0) BY <1>t, <2>3, <2>5 DEF HeardInv, Kinds
    <3>2. Loses(model.win, truth.win) \/ Loses(model.pane, truth.win)
      BY <2>2, <3>1, CleanListings
    <3> QED BY <1>l, <2>2, <3>2
  <2> QED BY <2>4, <2>5
<1>5. CASE Ends BY <1>5 DEF Ends
<1> QED BY <1>1, <1>2, <1>3, <1>4, <1>5, <1>t, Shape

LEMMA InitClean == ASSUME Faults <= 1 PROVE Init => CleanInv
<1> SUFFICES ASSUME Init PROVE CleanInv OBVIOUS
<1>1. ServedInv /\ AgreeInv BY InitTypes, InitServed DEF ServedInv
<1>2. TruthInv BY SessionHasWindows DEF Init, TruthInv
<1>3. ~live /\ model = emptyModel /\ left.fault <= 1 BY Bounds DEF Init
<1>4. ModelInv BY <1>3 DEF ModelInv, emptyModel
<1>5. \A k \in Kinds : At(k) = {}
  <2>1. Asked("windows") # {}
    <3>1. toTmux = ListCommands BY DEF Init
    <3> QED BY <3>1 DEF ListCommands, Request, Asked, KindAt
  <2>2. Asked("panes") # {}
    <3>1. toTmux = ListCommands BY DEF Init
    <3> QED BY <3>1 DEF ListCommands, Request, Asked, KindAt
  <2> QED BY <1>1, <2>1, <2>2 DEF ServedInv, CycleInv, Kinds
<1>6. HeardInv /\ HeldInv BY <1>3, <1>5 DEF HeardInv, HeldInv
<1> QED BY <1>1, <1>2, <1>3, <1>4, <1>6 DEF CleanInv

LEMMA StepClean == CleanInv /\ [Next]_vars => CleanInv'
BY StepTypes, StepCycle, StepServed, StepAgrees, StepTruth, StepModel, StepHeard, StepHeld
   DEF CleanInv, ServedInv

\* The step of CommitsAreClean, from the invariant.
LEMMA CommitIsClean ==
    ASSUME CleanInv, [Next]_vars, live, Survivor
    PROVE  (~Torn(model) => ~Torn(model')) /\ model'.win # {}
<1>t. /\ TypeInv /\ CycleInv /\ BootInv /\ ModelInv /\ TruthInv /\ HeardInv /\ HeldInv
  BY DEF CleanInv, ServedInv
<1>f. IsFiniteSet(model.win) /\ IsFiniteSet(model.pane)
  <2>1. model.win \in SUBSET truth.used /\ model.pane \in SUBSET truth.used
    BY <1>t DEF ModelInv
  <2> QED BY <1>t, <2>1, FS_Subset DEF TruthInv
<1>1. CASE SameWindows BY <1>1 DEF SameWindows, Torn, Survivor
<1>2. CASE Answered /\ Commits /\ model' = candidate
  <2>1. /\ call # Idle /\ 0 \in At("windows") /\ 0 \in At("panes")
        /\ Heard("windows", 0) = call.windows /\ Heard("panes", 0) = call.panes
        /\ candidate.win = call.windows.win
        /\ candidate.pane = call.panes.win \cap call.windows.win
    BY <1>2, <1>t, AnsweredAt
  <2>2. Clean /\ (Tripped <=> call.held) BY <1>2 DEF Commits
  <2>3. call.start.win = model.win /\ call.start.pane = model.pane
    BY <1>t, <2>1 DEF ModelInv
  <2>4. CASE call.held
    <3>1. ~Loses(model.win, truth.win) /\ ~Loses(model.pane, truth.win) BY DEF Survivor
    <3>2. Full("windows", 0) /\ Full("panes", 0) BY <1>t, <2>1, <2>4, <3>1 DEF HeldInv, Kinds
    <3> QED BY <1>2, <2>2, <2>4, <3>1, <3>2, CleanListings
  <2>5. CASE ~call.held
    <3>1. ~Loses(model.win, candidate.win) /\ ~Loses(model.pane, candidate.pane)
      BY <2>2, <2>3, <2>5 DEF Tripped, wouldTeardown
    <3>2. model.win # {} BY DEF Survivor
    <3>3. candidate.win # {} BY <1>f, <3>1, <3>2, LosesAll
    <3>4. ASSUME ~Torn(model) PROVE ~Torn(candidate)
      <4>1. model.pane # {} BY <3>2, <3>4 DEF Torn
      <4>2. candidate.pane # {} BY <1>f, <3>1, <4>1, LosesAll
      <4>3. Full("windows", 0) /\ Full("panes", 0) BY <2>1, <4>2 DEF Full
      <4>4. candidate.win = candidate.pane BY <1>2, <2>2, <4>3, CleanListings
      <4> QED BY <4>4 DEF Torn
    <3> QED BY <1>2, <3>3, <3>4
  <2> QED BY <2>4, <2>5
<1>3. Waits \/ (\E k \in Kinds : Serves(k)) \/ Reads \/ Starts \/ Ends BY <1>t, Shape
<1>4. Waits \/ Reads => SameWindows BY DEF Waits, Reads
<1>5. \A k \in Kinds : Serves(k) => SameWindows BY DEF Serves, SameWindows
<1>6. Starts => SameWindows BY DEF Starts
<1>7. Ends => SameWindows \/ (Answered /\ Commits /\ model' = candidate) BY DEF Ends
<1> QED BY <1>1, <1>2, <1>3, <1>4, <1>5, <1>6, <1>7

\* However the changes of tmux fall between and behind the two listings of a cycle, and
\* whichever listing goes wrong: as long as one listing does and no genuine teardown is being
\* confirmed, a commit leaves a whole model whole and never closes the last window ("commit
\* only clean snapshots" and the teardown guard of requery.ts).  With a second fault the
\* confirming cycle can be as wrong as the first.
THEOREM CommitsStayClean == ASSUME Faults <= 1 PROVE Spec => CommitsAreClean
<1>1. Init => CleanInv BY InitClean
<1>2. CleanInv /\ [Next]_vars => CleanInv' BY StepClean
<1>3. CleanInv /\ [Next]_vars
      => [live /\ Survivor => (~Torn(model) => ~Torn(model')) /\ model'.win # {}]_vars
  BY CommitIsClean
<1> QED BY <1>1, <1>2, <1>3, PTL DEF Spec, CommitsAreClean

=============================================================================
