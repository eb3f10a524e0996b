-------------------------------- MODULE Verbs --------------------------------
(***************************************************************************)
(* What clients ask of a session and what becomes of it: the calls of the  *)
(* client library (clients/ts/src/input.ts), the session-proxy's handling  *)
(* of a client message (runtime/session-proxy.ts), the input path that     *)
(* turns it into tmux commands (runtime/input-path.ts), the size reports   *)
(* (runtime/size-report.ts) and the answers on their way back.             *)
(*                                                                         *)
(* Commands go to tmux in one FIFO and are answered in that order, each to *)
(* the slot registered with it (module CommandReply).  The number of a     *)
(* call stands for the correlationId.  A requery is one command here,      *)
(* whose two listings fit; what happens when they do not is in ModelSync,  *)
(* and the proofs about SessionModel need no such assumption.              *)
(***************************************************************************)
EXTENDS SessionModel, Integers, Sequences, SequencesExt

CONSTANTS
    Session,            \* the one session this proxy is bound to
    FirstWindow, FirstPane,
    Sizes,              \* boxes of a viewport
    ReadOnly,           \* clients that attached with readOnly and ignoreSize
    Wanted,             \* of each client: the commands it may ask for,
    Chunks,             \* the lengths of its inputs, in commands of INPUT_CHUNK_BYTES,
    Boxes,              \* and the sizes of its viewports
    MaxCalls,           \* bound: calls of each client
    MaxFaults           \* bound: panes and clients that leave by themselves, hosts that die

ASSUME Start ==
    /\ Session \in SessionIds /\ FirstWindow \in WindowIds /\ FirstPane \in PaneIds
    /\ ReadOnly \subseteq ClientIds /\ MaxCalls \in [ClientIds -> Nat]
    /\ MaxFaults \in Nat
    /\ Null \notin ClientIds \X Nat /\ Null \notin PaneIds \X WindowIds

VARIABLES
    tmux,       \* windows and panes as tmux has them
    spent,      \* the ids tmux has used
    faults,     \* how many of MaxFaults there were
    host,       \* the control client: "runs", "exited", or its exit seen: "over"
    pipe,       \* commands written to tmux, not yet executed
    replies,    \* reply blocks and notifications on their way back
    model,      \* pipeline.getModel()
    dirty,      \* a notification has come that no requery was sent for
    chain,      \* the input messages behind inputTail, the first one under way
    ledger,     \* SizeReporter: the size last reported for a window
    participating,  \* SizeReporter: a report was made
    open,       \* the clients serve.ts has
    api,        \* the InputApi of each client
    wire,       \* messages of each client on their way to the proxy
    mail,       \* command.response messages on their way to each client
    typed,      \* history: what the panes were sent, <<message, chunk>>
    did,        \* history: what tmux did for a request
    told        \* history: what the clients were answered

tmuxVars == <<tmux, spent, faults, host>>
modelVars == <<model, ledger, participating>>
history == <<typed, did>>
vars == <<tmuxVars, pipe, replies, modelVars, dirty, chain, open, api, wire, mail,
          history, told>>

-----------------------------------------------------------------------------
(* The commands of the wire.                                                *)

OnPane == {"split-pane", "break-pane", "close-pane", "rename-pane", "set-object-policy",
           "select-pane", "pane.capture"}
OnWindow == {"kill-window", "set-synchronize-panes", "resize-managed-window",
             "rename-window", "swap-window"}
OnSession == {"open-window", "rename-session", "kill-session", "session-proxy.info"}

\* value is the option's new value, or whether the new name is not empty.
WireCommand ==
    [kind : OnPane, pane : PaneIds, window : {Null}, value : BOOLEAN]
        \cup [kind : OnWindow, pane : {Null}, window : WindowIds, value : BOOLEAN]
        \cup [kind : OnSession, pane : {Null}, window : {Null}, value : BOOLEAN]

ASSUME Commands == \A c \in ClientIds : Wanted[c] \subseteq WireCommand

Creating == {"open-window", "split-pane", "break-pane"}
Optimistic == {"set-synchronize-panes", "rename-pane", "set-object-policy"}
Acked == {"close-pane", "kill-window", "rename-window", "swap-window",
          "rename-session", "kill-session"}
Queries == {"pane.capture", "session-proxy.info"}
Silent == {"select-pane", "resize-managed-window"}

\* Commands that are answered, and the empty name that is dropped.
Answerable(cmd) ==
    /\ cmd.kind \notin Silent
    /\ cmd.kind = "rename-session" => cmd.value

-----------------------------------------------------------------------------
(* tmux: each command, and what its reply block holds.                      *)

Windows == DOMAIN tmux.windows
Panes == DOMAIN tmux.panes
PanesIn(t, w) == {p \in DOMAIN t.panes : t.panes[p].window = w}
FreshPane == AnyOf(PaneIds \ spent)
FreshWindow == AnyOf(WindowIds \ spent)

NewPaneOf(w) == [window |-> w, label |-> FALSE]
WithoutPane(t, p) ==
    LET w == t.panes[p].window
    IN  [windows |-> IF PanesIn(t, w) = {p} THEN Without(t.windows, {w}) ELSE t.windows,
         panes |-> Without(t.panes, {p})]

Sole(p) == PanesIn(tmux, tmux.panes[p].window) = {p}
Here(slot) ==
    /\ slot.pane # Null => slot.pane \in Panes
    /\ slot.window # Null => slot.window \in Windows

\* Whether tmux can do what the slot's command says.
Possible(slot) ==
    /\ Here(slot)
    /\ slot.op \in {"open-window", "split-pane"} => FreshPane # Null
    /\ (slot.op = "open-window" \/ (slot.op = "break-pane" /\ ~Sole(slot.pane)))
        => FreshWindow # Null

NewWindow(size) == [sync |-> FALSE, size |-> size]

\* tmux after the command of the slot.
Executed(slot) ==
    CASE slot.op = "open-window" ->
            [windows |-> Put(tmux.windows, FreshWindow, NewWindow(AnyOf(Sizes))),
             panes |-> Put(tmux.panes, FreshPane, NewPaneOf(FreshWindow))]
      [] slot.op = "split-pane" ->
            [tmux EXCEPT !.panes =
                Put(@, FreshPane, NewPaneOf(tmux.panes[slot.pane].window))]
      [] slot.op = "break-pane" /\ ~Sole(slot.pane) ->
            [windows |-> Put(tmux.windows, FreshWindow,
                             NewWindow(tmux.windows[tmux.panes[slot.pane].window].size)),
             panes |-> Put(tmux.panes, slot.pane,
                           [tmux.panes[slot.pane] EXCEPT !.window = FreshWindow])]
      [] slot.op = "close-pane" -> WithoutPane(tmux, slot.pane)
      [] slot.op = "kill-window" ->
            [windows |-> Without(tmux.windows, {slot.window}),
             panes |-> Without(tmux.panes, PanesIn(tmux, slot.window))]
      [] slot.op = "kill-session" -> [windows |-> None, panes |-> None]
      [] slot.op = "set-synchronize-panes" ->
            [tmux EXCEPT !.windows[slot.window].sync = slot.value]
      [] slot.op = "rename-pane" -> [tmux EXCEPT !.panes[slot.pane].label = slot.value]
      [] slot.op = "size" -> [tmux EXCEPT !.windows[slot.window].size = slot.value]
      [] OTHER -> tmux

NewIds(slot) ==
    CASE slot.op = "open-window" -> {FreshWindow, FreshPane}
      [] slot.op = "split-pane" -> {FreshPane}
      [] slot.op = "break-pane" /\ ~Sole(slot.pane) -> {FreshWindow}
      [] OTHER -> {}

\* list-windows and list-panes; which one tmux calls active matters to no one.
Listing ==
    LET w0 == AnyOf(Windows)
    IN  [windows |-> [w \in Windows |->
            [session |-> Session, active |-> w = w0, sync |-> tmux.windows[w].sync]],
         panes |-> [p \in Panes |->
            [window |-> tmux.panes[p].window, session |-> Session,
             active |-> p = AnyOf(PanesIn(tmux, tmux.panes[p].window)),
             label |-> tmux.panes[p].label]],
         layout |-> [w \in Windows |-> tmux.windows[w].size]]

\* The body of the block: effect ids (-P -F), a listing, or nothing.
Body(slot) ==
    CASE slot.op = "open-window" -> <<FreshPane, FreshWindow>>
      [] slot.op = "split-pane" -> <<FreshPane, tmux.panes[slot.pane].window>>
      [] slot.op = "break-pane" /\ ~Sole(slot.pane) -> <<slot.pane, FreshWindow>>
      [] slot.op = "list" -> Listing
      [] OTHER -> Null

-----------------------------------------------------------------------------
(* pipeline.send: a slot and a command in one step.                         *)

\* cont says what the reply is for; was is the value an option had before.
Slot(op, p, w, v, cont, id) ==
    [op |-> op, pane |-> p, window |-> w, value |-> v, cont |-> cont, id |-> id,
     was |-> Null]

ListUnderWay ==
    \/ \E i \in DOMAIN pipe : pipe[i].op = "list"
    \/ \E i \in DOMAIN replies : replies[i].slot.op = "list"

-----------------------------------------------------------------------------
(* runtime/size-report.ts.                                                  *)

NoBox == [window |-> Null, size |-> Null]

\* What flush() reports for the windows of m, box being the size declared.
Desired(m, box, w) ==
    IF w = box.window THEN box.size
    ELSE IF w \in DOMAIN ledger THEN ledger[w] ELSE m.windows[w].layout

Unreported(m, box) ==
    {w \in DOMAIN m.windows :
        /\ Desired(m, box, w) # Null
        /\ w \in DOMAIN ledger => ledger[w] # Desired(m, box, w)}

Ledger(m, box) ==
    [w \in (DOMAIN ledger \cap DOMAIN m.windows) \cup Unreported(m, box) |->
        Desired(m, box, w)]

Reports(m, box, id) ==
    LET order == SetToSeq(Unreported(m, box))
    IN  [i \in DOMAIN order |->
            Slot("size", Null, order[i], Desired(m, box, order[i]), "none", id)]

\* The model becomes m: onModelChange, if it has changed, then the writes.
ModelBecomes(m, slots) ==
    /\ model' = m
    /\ IF participating /\ m # model
       THEN /\ ledger' = Ledger(m, NoBox)
            /\ pipe' = pipe \o slots \o Reports(m, NoBox, Null)
       ELSE /\ pipe' = pipe \o slots
            /\ UNCHANGED ledger
    /\ UNCHANGED participating

Writes(slots) == ModelBecomes(model, slots)

-----------------------------------------------------------------------------
(* Answers.  serve.ts drops an answer whose client has gone.                *)

Answer(id, answer) ==
    /\ mail' = [mail EXCEPT ![id[1]] = IF id[1] \in open THEN Append(@, answer) ELSE @]
    /\ told' = told \cup {answer}

NoAnswer == UNCHANGED <<mail, told>>
Ok(id, kind, ids) == [id |-> id, kind |-> kind, ok |-> TRUE, ids |-> ids]
Failed(id, kind) == [id |-> id, kind |-> kind, ok |-> FALSE, ids |-> Null]

-----------------------------------------------------------------------------
(* The session-proxy's onControl and the input path, command by command.    *)

\* Queries are answered by the proxy, before the read-only gate.
Capture(id, cmd) ==
    /\ cmd.kind = "pane.capture"
    /\ IF cmd.pane \in DOMAIN model.panes
       THEN Writes(<<Slot(cmd.kind, cmd.pane, Null, Null, "capture", id)>>) /\ NoAnswer
       ELSE Writes(<<>>) /\ Answer(id, Failed(id, cmd.kind))

Info(id, cmd) ==
    /\ cmd.kind = "session-proxy.info"
    /\ Writes(<<>>)
    /\ Answer(id, Ok(id, cmd.kind, Null))

Refused(id, cmd) ==
    /\ id[1] \in ReadOnly /\ cmd.kind \notin Queries
    /\ Writes(<<>>)
    /\ Answer(id, Failed(id, cmd.kind))

RunCreatingVerb(id, cmd) ==
    /\ id[1] \notin ReadOnly /\ cmd.kind \in Creating
    /\ Writes(<<Slot(cmd.kind, cmd.pane, cmd.window, Null, "creating", id)>>)
    /\ NoAnswer

RunAckVerb(id, cmd) ==
    /\ id[1] \notin ReadOnly /\ cmd.kind \in Acked
    /\ cmd.kind = "rename-session" => cmd.value         \* the empty name is dropped
    /\ Writes(<<Slot(cmd.kind, cmd.pane, cmd.window, Null, "ack", id)>>)
    /\ NoAnswer

\* The optimistic events and their reversal (internal:set-*), as patches.
Patched(m, op, p, w, v, c) ==
    CASE op = "set-synchronize-panes" -> updateWindow(m, w, v)
      [] op = "rename-pane" -> updatePane(m, p, v)
      [] OTHER -> IF p \notin DOMAIN m.panes THEN m
                  ELSE updatePaneOverlay(m, p, setBoundClient(m.panes[p].boundClients, c, v))

\* The value the model has for what the command sets; Null if it is not there.
Before(op, p, w, c) ==
    CASE op = "set-synchronize-panes" ->
            IF w \in DOMAIN model.windows THEN model.windows[w].sync ELSE Null
      [] p \notin DOMAIN model.panes -> Null
      [] op = "rename-pane" -> model.panes[p].label
      [] OTHER -> c \in model.panes[p].boundClients

SendCommandWithReversal(id, cmd) ==
    /\ id[1] \notin ReadOnly /\ cmd.kind \in Optimistic
    /\ ModelBecomes(Patched(model, cmd.kind, cmd.pane, cmd.window, cmd.value, id[1]),
            <<[Slot(cmd.kind, cmd.pane, cmd.window, cmd.value, "option", id)
                EXCEPT !.was = Before(cmd.kind, cmd.pane, cmd.window, id[1])]>>)
    /\ NoAnswer

\* Written, never answered.
SelectPane(id, cmd) ==
    /\ id[1] \notin ReadOnly /\ cmd.kind = "select-pane"
    /\ Writes(<<Slot(cmd.kind, cmd.pane, Null, Null, "none", id)>>)
    /\ NoAnswer

EmptyName(id, cmd) ==
    /\ id[1] \notin ReadOnly /\ cmd.kind = "rename-session" /\ ~cmd.value
    /\ Writes(<<>>)
    /\ NoAnswer

\* The sashes of a strip: a resize-pane for each pane of the window, one batch.
Sashes(id, cmd) ==
    /\ id[1] \notin ReadOnly /\ cmd.kind = "resize-managed-window"
    /\ LET strip == SetToSeq({p \in DOMAIN model.panes : model.panes[p].windowId = cmd.window})
       IN  Writes([i \in DOMAIN strip |->
                    Slot("sash", strip[i], cmd.window, Null, "none", id)])
    /\ NoAnswer

HandleCommand(id, cmd) ==
    /\ \/ Capture(id, cmd)
       \/ Info(id, cmd)
       \/ Refused(id, cmd)
       \/ RunCreatingVerb(id, cmd)
       \/ RunAckVerb(id, cmd)
       \/ SendCommandWithReversal(id, cmd)
       \/ SelectPane(id, cmd)
       \/ EmptyName(id, cmd)
       \/ Sashes(id, cmd)
    /\ UNCHANGED chain

\* A viewport's box: dropped for ignoreSize, and for a pane that has gone.
HandleResize(id, msg) ==
    LET gone == msg.pane \notin DOMAIN model.panes
        box == [window |-> model.panes[msg.pane].windowId, size |-> msg.size]
    IN  /\ IF id[1] \in ReadOnly \/ gone
           THEN UNCHANGED <<pipe, modelVars>>
           ELSE /\ participating' = TRUE
                /\ ledger' = Ledger(model, box)
                /\ pipe' = pipe \o Reports(model, box, id)
                /\ UNCHANGED model
        /\ UNCHANGED chain
        /\ NoAnswer

\* One send-keys -H of a message; the chain's first message is the one sent.
Keys(message, n) == Slot("send-keys", message.pane, Null, n,
                         IF message.chained THEN "chunk" ELSE "none", message.id)
DirectAlways(len) == len = 1                     \* mutant: inputTail is not looked at
Direct(len) == chain = <<>> /\ len = 1
HandleInput(id, msg) ==
    LET message == [id |-> id, pane |-> msg.pane, len |-> msg.len, sent |-> 1,
                    chained |-> ~Direct(msg.len)]
    IN  /\ IF id[1] \in ReadOnly
           THEN Writes(<<>>) /\ UNCHANGED chain
           ELSE /\ chain' = IF message.chained THEN Append(chain, message) ELSE chain
                /\ Writes(IF message.chained /\ chain # <<>> THEN <<>>
                          ELSE <<Keys(message, 1)>>)
        /\ NoAnswer

\* A chunk's reply: the next chunk, or the next message.
NextKeys(ok) ==
    LET message == Head(chain)
        more == ok /\ message.sent < message.len
    IN  /\ chain' = IF more THEN <<[message EXCEPT !.sent = @ + 1]>> \o Tail(chain)
                    ELSE Tail(chain)
        /\ Writes(IF more THEN <<Keys(message, message.sent + 1)>>
                  ELSE IF Len(chain) > 1 THEN <<Keys(chain[2], 1)>> ELSE <<>>)

HandleMessage(c) ==
    /\ host # "over" /\ c \in open /\ wire[c] # <<>>
    /\ LET msg == Head(wire[c])
           id == <<c, msg.n>>
       IN  \/ msg.type = "command.request" /\ HandleCommand(id, msg.command)
           \/ msg.type = "resize.request" /\ HandleResize(id, msg)
           \/ msg.type = "input" /\ HandleInput(id, msg)
    /\ wire' = [wire EXCEPT ![c] = Tail(@)]
    /\ UNCHANGED <<tmuxVars, replies, dirty, open, api, history>>

-----------------------------------------------------------------------------
(* tmux at work.                                                            *)

Reply(slot, ok) == [slot |-> slot, ok |-> ok, body |-> IF ok THEN Body(slot) ELSE Null]
Notification == Reply(Slot("notice", Null, Null, Null, "none", Null), FALSE)

\* What tmux did, as the client's answer has to have it.
Deed(slot, ok) ==
    IF slot.id = Null \/ slot.cont \in {"none", "chunk"} THEN {}
    ELSE {[id |-> slot.id, ok |-> ok,
           ids |-> IF ok /\ slot.cont = "creating" THEN Body(slot) ELSE Null]}

\* tmux has t, and stops when that has no window; out goes to the client then
\* only if it is read before the exit.
TmuxHas(t, out) ==
    /\ tmux' = t
    /\ IF t.windows = None
       THEN host' = "exited" /\ replies' \in {replies, replies \o out}
       ELSE replies' = replies \o out /\ UNCHANGED host

Execute ==
    /\ host = "runs" /\ pipe # <<>>
    /\ LET slot == Head(pipe)
           ok == Possible(slot)
           t == IF ok THEN Executed(slot) ELSE tmux
       IN  /\ TmuxHas(t, IF t # tmux THEN <<Reply(slot, ok), Notification>>
                         ELSE <<Reply(slot, ok)>>)
           /\ spent' = IF ok THEN spent \cup NewIds(slot) ELSE spent
           /\ typed' = IF ok /\ slot.op = "send-keys"
                       THEN Append(typed, <<slot.id, slot.value>>) ELSE typed
           /\ did' = did \cup Deed(slot, ok)
    /\ pipe' = Tail(pipe)
    /\ UNCHANGED <<faults, modelVars, dirty, chain, open, api, wire, mail, told>>

Fault == faults < MaxFaults /\ faults' = faults + 1

PaneExits ==
    /\ host = "runs" /\ Fault
    /\ \E p \in Panes : TmuxHas(WithoutPane(tmux, p), <<Notification>>)
    /\ UNCHANGED <<spent, pipe, modelVars, dirty, chain, open, api, wire, mail, history, told>>

HostDies ==
    /\ host = "runs" /\ Fault
    /\ host' = "exited"
    /\ UNCHANGED <<tmux, spent, pipe, replies, modelVars, dirty, chain, open, api,
                   wire, mail, history, told>>

\* mutant: the connections are left open
SeeExitQuietly ==
    /\ host = "exited"
    /\ host' = "over"
    /\ pipe' = <<>> /\ replies' = <<>> /\ chain' = <<>>
    /\ UNCHANGED <<tmux, spent, faults, modelVars, dirty, open, api, wire, mail, history, told>>

\* onExit: the proxy closes every connection and handles nothing more.
SeeExit ==
    /\ host = "exited"
    /\ host' = "over"
    /\ open' = {} /\ pipe' = <<>> /\ replies' = <<>> /\ chain' = <<>>
    /\ UNCHANGED <<tmux, spent, faults, modelVars, dirty, api, wire, mail, history, told>>

-----------------------------------------------------------------------------
(* The proxy and what comes back.                                           *)

Notified ==
    /\ Head(replies).slot.op = "notice"
    /\ dirty' = TRUE
    /\ Writes(<<>>) /\ NoAnswer /\ UNCHANGED chain

\* mutant: the fallback of break-pane covers a refusal as well
CreatingReplyLax(slot, ok, body) ==
    /\ slot.cont = "creating"
    /\ LET still == slot.op = "break-pane" /\ slot.pane \in DOMAIN model.panes
           ids == IF body # Null THEN body
                  ELSE <<slot.pane, model.panes[slot.pane].windowId>>
       IN  Answer(slot.id, IF body # Null \/ still THEN Ok(slot.id, slot.op, ids)
                           ELSE Failed(slot.id, slot.op))
    /\ Writes(<<>>)

\* runCreatingVerb: ids, or for break-pane with nothing printed the model's.
CreatingReply(slot, ok, body) ==
    /\ slot.cont = "creating"
    /\ LET still == slot.op = "break-pane" /\ slot.pane \in DOMAIN model.panes
           ids == IF body # Null THEN body
                  ELSE <<slot.pane, model.panes[slot.pane].windowId>>
       IN  Answer(slot.id, IF ok /\ (body # Null \/ still) THEN Ok(slot.id, slot.op, ids)
                           ELSE Failed(slot.id, slot.op))
    /\ Writes(<<>>)

AckReply(slot, ok) ==
    /\ slot.cont \in {"ack", "capture"}
    /\ Answer(slot.id, IF ok THEN Ok(slot.id, slot.op, Null) ELSE Failed(slot.id, slot.op))
    /\ Writes(<<>>)

OptionReply(slot, ok) ==
    /\ slot.cont = "option"
    /\ IF ~ok /\ slot.was # Null
       THEN ModelBecomes(Patched(model, slot.op, slot.pane, slot.window, slot.was, slot.id[1]),
                         <<>>)
       ELSE Writes(<<>>)
    /\ Answer(slot.id, IF ok THEN Ok(slot.id, slot.op, Null) ELSE Failed(slot.id, slot.op))

\* The listing is committed unless a notification came while it was under way.
ListReply(slot, body) ==
    /\ slot.cont = "requery"
    /\ IF dirty THEN Writes(<<>>)
       ELSE ModelBecomes(carryForwardOverlays(model,
                buildInitialModel(body.windows, body.panes, body.layout)), <<>>)
    /\ NoAnswer

NoReply(slot) == slot.cont = "none" /\ slot.op # "notice" /\ Writes(<<>>) /\ NoAnswer

Receive ==
    /\ host # "over" /\ replies # <<>>
    /\ LET r == Head(replies)
       IN  \/ Notified
           \/ /\ \/ CreatingReply(r.slot, r.ok, r.body)
                 \/ AckReply(r.slot, r.ok)
                 \/ OptionReply(r.slot, r.ok)
                 \/ ListReply(r.slot, r.body)
                 \/ NoReply(r.slot)
              /\ UNCHANGED <<dirty, chain>>
           \/ /\ r.slot.cont = "chunk" /\ NextKeys(r.ok)
              /\ NoAnswer /\ UNCHANGED dirty
    /\ replies' = Tail(replies)
    /\ UNCHANGED <<tmuxVars, open, api, wire, history>>

Requery ==
    /\ host # "over" /\ dirty /\ ~ListUnderWay
    /\ dirty' = FALSE
    /\ Writes(<<Slot("list", Null, Null, Null, "requery", Null)>>)
    /\ UNCHANGED <<tmuxVars, replies, chain, open, api, wire, mail, history, told>>

-----------------------------------------------------------------------------
(* The client library.                                                      *)

Calls(c) == host # "over" /\ api[c].connected /\ api[c].calls < MaxCalls[c]
Number(c) == api[c].calls + 1

ClientDoes(c, a, messages) ==
    /\ api' = [api EXCEPT ![c] = a]
    /\ wire' = [wire EXCEPT ![c] = @ \o messages]
    /\ UNCHANGED <<tmux, spent, host, pipe, replies, modelVars, dirty, chain, open, mail,
                   history, told>>

ClientCalls(c, a, messages) == ClientDoes(c, a, messages) /\ UNCHANGED faults

\* Names of things the client has heard of.
HeardOf(pane, window) == pane \in spent \cup {Null} /\ window \in spent \cup {Null}

Request(c, cmd) == [type |-> "command.request", n |-> Number(c), command |-> cmd]

SendVerb(c, cmd) ==
    /\ Calls(c) /\ cmd.kind \notin Silent /\ HeardOf(cmd.pane, cmd.window)
    /\ ClientCalls(c, [api[c] EXCEPT !.calls = @ + 1,
                                    !.waiting = @ \cup {[n |-> Number(c), cmd |-> cmd]}],
                  <<Request(c, cmd)>>)

\* sendCommand flushes the pending resizes first.
SendCommand(c, cmd) ==
    /\ Calls(c) /\ cmd.kind \in Silent /\ HeardOf(cmd.pane, cmd.window)
    /\ ClientCalls(c, [api[c] EXCEPT !.calls = @ + 1, !.resizes = <<>>],
                  Append(api[c].resizes, Request(c, cmd)))

SendInput(c, p, len) ==
    /\ Calls(c) /\ HeardOf(p, Null)
    /\ ClientCalls(c, [api[c] EXCEPT !.calls = @ + 1],
                  <<[type |-> "input", n |-> Number(c), pane |-> p, len |-> len]>>)

\* Coalesced: one pending size for a pane, in the place of the first.
ResizePane(c, p, size) ==
    /\ Calls(c) /\ HeardOf(p, Null)
    /\ LET pending == api[c].resizes
           msg == [type |-> "resize.request", n |-> Number(c), pane |-> p, size |-> size]
           known == \E i \in DOMAIN pending : pending[i].pane = p
       IN  ClientCalls(c, [api[c] EXCEPT
                !.calls = @ + 1,
                !.resizes = IF known
                    THEN [i \in DOMAIN @ |-> IF @[i].pane = p THEN msg ELSE @[i]]
                    ELSE Append(@, msg)], <<>>)

FlushResizes(c) ==
    /\ host # "over" /\ api[c].connected /\ api[c].resizes # <<>>
    /\ ClientCalls(c, [api[c] EXCEPT !.resizes = <<>>], api[c].resizes)

\* The verb that waits for this answer is resolved with it.
HandleCommandResponse(c) ==
    /\ api[c].connected /\ mail[c] # <<>>
    /\ api' = [api EXCEPT ![c].waiting = {v \in @ : v.n # Head(mail[c]).id[2]}]
    /\ mail' = [mail EXCEPT ![c] = Tail(@)]
    /\ UNCHANGED <<tmuxVars, pipe, replies, modelVars, dirty, chain, open, wire, history, told>>

\* disconnect(): every waiting verb is rejected, a pending resize is dropped.
Disconnect(c) ==
    /\ host # "over" /\ api[c].connected /\ Fault
    /\ ClientDoes(c, [api[c] EXCEPT !.connected = FALSE, !.waiting = {}, !.resizes = <<>>], <<>>)

\* The transport's onClose, once what came before it is read.
SeeClose(c) ==
    /\ host # "over" /\ c \in open /\ ~api[c].connected /\ wire[c] = <<>>
    /\ open' = open \ {c}
    /\ UNCHANGED <<tmuxVars, pipe, replies, modelVars, dirty, chain, api, wire, mail, history, told>>

-----------------------------------------------------------------------------
Init ==
    /\ tmux = [windows |-> [w \in {FirstWindow} |-> NewWindow(AnyOf(Sizes))],
               panes |-> [p \in {FirstPane} |-> NewPaneOf(FirstWindow)]]
    /\ spent = {FirstWindow, FirstPane}
    /\ faults = 0 /\ host = "runs" /\ pipe = <<>> /\ replies = <<>>
    /\ model = buildInitialModel(Listing.windows, Listing.panes, Listing.layout)
    /\ dirty = FALSE /\ chain = <<>> /\ ledger = None /\ participating = FALSE
    /\ open = ClientIds
    /\ api = [c \in ClientIds |->
                [calls |-> 0, waiting |-> {}, resizes |-> <<>>, connected |-> TRUE]]
    /\ wire = [c \in ClientIds |-> <<>>] /\ mail = [c \in ClientIds |-> <<>>]
    /\ typed = <<>> /\ did = {} /\ told = {}

Client(c) ==
    \/ \E cmd \in Wanted[c] : SendVerb(c, cmd) \/ SendCommand(c, cmd)
    \/ \E p \in PaneIds : (\E len \in Chunks[c] : SendInput(c, p, len))
                          \/ (\E size \in Boxes[c] : ResizePane(c, p, size))
    \/ Disconnect(c)

\* What goes on by itself, and what others do.
System ==
    \/ Execute \/ SeeExit \/ Receive \/ Requery
    \/ \E c \in ClientIds : FlushResizes(c) \/ HandleCommandResponse(c)
                            \/ HandleMessage(c) \/ SeeClose(c)
Others == PaneExits \/ HostDies \/ \E c \in ClientIds : Client(c)

Next == System \/ Others

Spec == Init /\ [][Next]_vars /\ WF_vars(System)

-----------------------------------------------------------------------------
(* Properties.                                                              *)

\* checkInvariants (model.ts:346) finds nothing in the model, whatever verbs,
\* reversals, requeries and carried overlays have made of it.
ModelIsConsistent == Consistent(model)

\* A creating verb's ids are those tmux printed, or for a break-pane of a pane
\* alone in its window that pane's; success is answered for what tmux did, and
\* failure for what it refused, never twice and never to another client
\* (input-path.ts:660-860, session-proxy.ts:1583-1616).
AnswersAreTrue ==
    /\ \A a \in told :
        LET deeds == {d \in did : d.id = a.id}
        IN  IF a.ok
            THEN \/ a.kind = "session-proxy.info"
                 \/ \E d \in deeds : d.ok /\ d.ids = a.ids
                 \/ \E d \in deeds : d.ok /\ d.ids = Null /\ a.kind = "break-pane"
            ELSE \/ a.id[1] \in ReadOnly
                 \/ deeds = {} /\ a.kind = "pane.capture"
                 \/ \E d \in deeds : ~d.ok
                 \/ \E d \in deeds : d.ids = Null /\ a.kind = "break-pane"
    /\ \A a1, a2 \in told : a1.id = a2.id => a1 = a2
    /\ \A c \in ClientIds : \A i \in DOMAIN mail[c] : mail[c][i].id[1] = c

\* The panes get of a message a prefix in one piece, and the messages of a client in
\* the order it sent them: a chunk comes right after the one before it, or it is the
\* first and nothing later of that client was typed.  So no key pressed during a paste
\* lands in its middle (input-path.ts:517-560).
KeystrokesStayWhole ==
    \A j \in DOMAIN typed :
        LET message == typed[j][1]
            chunk == typed[j][2]
        IN  IF chunk = 1
            THEN \A i \in 1..j - 1 : typed[i][1][1] = message[1] => typed[i][1][2] < message[2]
            ELSE j > 1 /\ typed[j - 1] = <<message, chunk - 1>>

\* A box a client declared before it pushed its sashes is at tmux before them,
\* or dropped: tmux would rescale the sashes (input-path.ts:1020-1024, input.ts:462).
SashesComeLast ==
    \A i \in DOMAIN pipe : pipe[i].op = "sash" =>
        LET c == pipe[i].id[1]
            before(n) == n < pipe[i].id[2]
        IN  /\ \A j \in DOMAIN pipe :
                j > i /\ pipe[j].op = "size" /\ pipe[j].id # Null /\ pipe[j].id[1] = c
                    => ~before(pipe[j].id[2])
            /\ \A j \in DOMAIN api[c].resizes : ~before(api[c].resizes[j].n)
            /\ \A j \in DOMAIN wire[c] : wire[c][j].type = "resize.request"
                                        => ~before(wire[c][j].n)

\* What one client sends keeps its order up to tmux: nobody's keystrokes are spliced into a
\* paste's chunks, and a box declared before the sashes were moved is not applied after them.
OrderIsKept == KeystrokesStayWhole /\ SashesComeLast

Waits(c, n) == \E v \in api[c].waiting : v.n = n /\ Answerable(v.cmd)
Made(c, n) == {a \in told : a.id = <<c, n>> /\ a.ok /\ a.kind \in Creating}

\* Call n of c is not answered yet, or it was with a pane the model does not show.
Due(c, n) ==
    \/ Waits(c, n) /\ c \in open
    \/ host # "over" /\ \E a \in Made(c, n) : a.ids[1] \in Panes \ DOMAIN model.panes

Unsettled == \E c \in ClientIds : \E n \in 1..MaxCalls[c] : Due(c, n)

\* A verb that is to be answered is, unless the connection ends (input.ts:480);
\* and the pane it is answered with shows in the model, unless it is gone from
\* tmux by then: a client binds by the id (session-proxy.ts:1586).  The calls are
\* finitely many, so that none stays due is that at last none is.
VerbsSettle == Unsettled ~> ~Unsettled

\* The comment at input-path.ts:1219: a break-pane that has nothing to do is
\* answered with the pane's CURRENT window.
BreakAnswersTheCurrentWindow ==
    [][\A a \in told' \ told :
        a.ok /\ a.kind = "break-pane" /\ a.ids[1] \in Panes
            => a.ids[2] = tmux.panes[a.ids[1]].window]_vars

=============================================================================
