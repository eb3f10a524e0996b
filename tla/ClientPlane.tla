----------------------------- MODULE ClientPlane -----------------------------
(***************************************************************************)
(* The connections of the clients: a connection is accepted by the broker  *)
(* (server-proxy.ts), told the table of sessions, and handed over to the   *)
(* proxy of the session it attaches to (session-proxy.ts), whose control   *)
(* server (runtime/serve.ts) sends it the model and its changes.  Each     *)
(* message carries the next number of its connection, whoever sends it.    *)
(*                                                                         *)
(* One session, up to the point where its proxy serves; what the proxy     *)
(* does to the data plane is in FlowControl and DataPlane, how the broker  *)
(* keeps its table in SessionTable, how it ends in Broker.  A connection   *)
(* is used once: who comes back is another Client.  A model change opens   *)
(* or closes one pane.                                                     *)
(***************************************************************************)
EXTENDS Integers, Sequences, SequencesExt, FiniteSets

CONSTANTS
    Client, Pane,
    FirstPanes,         \* the panes the session has at the start
    Pipelined,          \* a client may ask the broker while it attaches
    None

ASSUME Parameters ==
    FirstPanes \subseteq Pane /\ Pipelined \in BOOLEAN

VARIABLES
    place,      \* where the broker or the proxy is with a connection
    open,       \* its socket
    reconciled, \* _everReconciled
    table,      \* the broker's _clients
    tableSeq,   \* nextSeq of the broker's ClientState
    due,        \* commands to the broker that have no response yet
    clients,    \* the control server's _clients
    subs,       \* its subscriptions to the model, in the order they were made
    seq,        \* nextSeq of the control server's ClientState
    slot,       \* connectionId
    free,       \* _freeConnectionIds
    minted,     \* how many ids were made: _nextConnectionSeq - 1
    life,       \* a pane: its stage and the connection whose verb is under way
    origin,     \* the verb-origin registry, the connectionId of each entry
    cause,      \* the close-cause registry, likewise
    heard,      \* history: the last number on the socket, and if none is missing
    count,      \* history: the client count last told
    told        \* history: the origins and the causes told, per pane

brokerVars == <<reconciled, table, tableSeq, due>>
serveVars == <<clients, subs, seq, slot, free, minted, count>>
paneVars == <<life, origin, cause, told>>
vars == <<place, open, brokerVars, serveVars, paneVars, heard>>

Resting == [stage |-> "none", by |-> None, slot |-> None]

Init ==
    /\ place = [c \in Client |-> "off"] /\ open = [c \in Client |-> FALSE]
    /\ reconciled = FALSE
    /\ table = {} /\ due = [c \in Client |-> 0]
    /\ tableSeq = [c \in Client |-> 0] /\ seq = [c \in Client |-> 0]
    /\ clients = {} /\ subs = <<>>
    /\ slot = [c \in Client |-> None] /\ free = <<>> /\ minted = 0
    /\ life = [p \in Pane |-> [Resting EXCEPT !.stage = IF p \in FirstPanes THEN "here" ELSE "none"]]
    /\ origin = [p \in Pane |-> None] /\ cause = [p \in Pane |-> None]
    /\ heard = [c \in Client |-> [seq |-> 0, whole |-> TRUE]]
    /\ count = [c \in Client |-> 0]
    /\ told = [p \in Pane |-> [origins |-> {}, causes |-> {}]]

-----------------------------------------------------------------------------
(* Sending: the number is used up, and lost if the socket is closed. *)

Hear(h, n) == [seq |-> n, whole |-> h.whole /\ n = h.seq + 1]
Heard(S, number) ==
    [c \in Client |-> IF c \in S /\ open[c] THEN Hear(heard[c], number[c]) ELSE heard[c]]
Stepped(number, S) == [c \in Client |-> IF c \in S THEN number[c] + 1 ELSE number[c]]

\* One message to each of the connections S, from the broker ...
BrokerSends(S) == heard' = Heard(S, tableSeq) /\ tableSeq' = Stepped(tableSeq, S)
\* ... and from the control server.
ServerSends(S) == heard' = Heard(S, seq) /\ seq' = Stepped(seq, S)

-----------------------------------------------------------------------------
(* The broker's side of a connection *)

\* A connection is accepted, and told server-proxy.capabilities with number 1.
Connect(c) ==
    /\ place[c] = "off"
    /\ place' = [place EXCEPT ![c] = "shaking"]
    /\ open' = [open EXCEPT ![c] = TRUE]
    /\ heard' = [heard EXCEPT ![c] = Hear(@, 1)]
    /\ UNCHANGED <<brokerVars, serveVars, paneVars>>
\* The client's capabilities are those, ...
Shaken(c) ==
    /\ place[c] = "shaking"
    /\ place' = [place EXCEPT ![c] = "reconciling"]
    /\ UNCHANGED <<open, brokerVars, serveVars, paneVars, heard>>
\* ... or another message, or another version, or they do not come.
Refused(c) ==
    /\ place[c] = "shaking"
    /\ place' = [place EXCEPT ![c] = "gone"]
    /\ open' = [open EXCEPT ![c] = FALSE]
    /\ UNCHANGED <<brokerVars, serveVars, paneVars, heard>>

\* The snapshot waits for a reconcile that found tmux ...
\* ... and is number 2.  A socket closed by now makes no difference.
Admit(c) ==
    /\ place[c] = "reconciling"
    /\ reconciled' = TRUE
    /\ place' = [place EXCEPT ![c] = "table"]
    /\ table' = table \cup {c}
    /\ tableSeq' = [tableSeq EXCEPT ![c] = 3]
    /\ heard' = Heard({c}, [tableSeq EXCEPT ![c] = 2])
    /\ UNCHANGED <<open, due, serveVars, paneVars>>
\* tmux could not be asked, now and before: the connection is closed.
Unreconciled(c) ==
    /\ place[c] = "reconciling" /\ ~reconciled
    /\ place' = [place EXCEPT ![c] = "gone"]
    /\ open' = [open EXCEPT ![c] = FALSE]
    /\ UNCHANGED <<brokerVars, serveVars, paneVars, heard>>

\* A change of the session table is announced to those on the broker's plane.
Announce ==
    /\ BrokerSends(table)
    /\ UNCHANGED <<place, open, reconciled, table, due, serveVars, paneVars>>
\* command.request; the broker's handler is the one in place until the proxy's is.
Ask(c) ==
    /\ open[c] /\ due[c] = 0
    /\ \/ place[c] = "table"
       \/ Pipelined /\ place[c] \in {"attaching", "binding"}
    /\ due' = [due EXCEPT ![c] = 1]
    /\ UNCHANGED <<place, open, reconciled, table, tableSeq, serveVars, paneVars, heard>>
\* _sendResponse
Answer(c) ==
    /\ due[c] > 0
    /\ due' = [due EXCEPT ![c] = @ - 1]
    /\ BrokerSends({c})
    /\ UNCHANGED <<place, open, reconciled, table, serveVars, paneVars>>

StillThere(c) == table                  \* mutant: the broker keeps the connection
GivenUp(c) == table \ {c}
\* _handleAttach, before its first await: the number is taken over.
Attach(c) ==
    /\ place[c] = "table" /\ open[c]
    /\ Pipelined \/ due[c] = 0
    /\ place' = [place EXCEPT ![c] = "attaching"]
    /\ seq' = [seq EXCEPT ![c] = tableSeq[c]]
    /\ table' = GivenUp(c)
    /\ UNCHANGED <<open, reconciled, tableSeq, due, clients, subs, slot, free, minted, count,
                   paneVars, heard>>
\* ... after it, the session is not in the reconciled table, ...
NotFound(c) ==
    /\ place[c] = "attaching"
    /\ place' = [place EXCEPT ![c] = "gone"]
    /\ ServerSends({c})
    /\ open' = [open EXCEPT ![c] = FALSE]
    /\ UNCHANGED <<brokerVars, clients, subs, slot, free, minted, count, paneVars>>
\* ... or has no proxy: it is quarantined, or the proxy did not start, ...
NotEnsured(c) ==
    /\ place[c] = "attaching"
    /\ place' = [place EXCEPT ![c] = "gone"]
    /\ open' = [open EXCEPT ![c] = FALSE]
    /\ UNCHANGED <<brokerVars, serveVars, paneVars, heard>>

-----------------------------------------------------------------------------
(* The control server's *)

\* ... or addClient is called: up to the binding read, an id from the pool, or a new one.
Ensured(c) ==
    /\ place[c] = "attaching"
    /\ place' = [place EXCEPT ![c] = "binding"]
    /\ clients' = clients \cup {c}
    /\ IF free = <<>>
       THEN /\ minted' = minted + 1
            /\ slot' = [slot EXCEPT ![c] = minted + 1]
            /\ UNCHANGED free
       ELSE /\ slot' = [slot EXCEPT ![c] = Last(free)]
            /\ free' = Front(free)
            /\ UNCHANGED minted
    /\ UNCHANGED <<open, brokerVars, subs, seq, count, paneVars, heard>>
\* ... to the microtask it leaves the client: the subscription, and the close
\* handler, which a socket that has closed by now never calls.
Bound(c) ==
    /\ place[c] = "binding"
    /\ place' = [place EXCEPT ![c] = "subscribed"]
    /\ subs' = Append(subs, c)
    /\ UNCHANGED <<open, brokerVars, clients, seq, slot, free, minted, count, paneVars, heard>>

NobodyElse == clients \cap {}           \* mutant: the others are not told
Everybody == clients
\* ... the snapshot, with the count, which the others are told too.
SendSnapshot(c) ==
    /\ place[c] = "subscribed"
    /\ IF c \in clients
       THEN /\ place' = [place EXCEPT ![c] = "served"]
            /\ ServerSends({c} \cup Everybody)
            /\ count' = [d \in Client |->
                            IF d \in {c} \cup Everybody THEN Cardinality(clients) ELSE count[d]]
       ELSE /\ place' = [place EXCEPT ![c] = "gone"]
            /\ UNCHANGED <<seq, count, heard>>
    /\ UNCHANGED <<open, brokerVars, clients, subs, slot, free, minted, paneVars>>

FreedTwice(c) == <<slot[c], slot[c]>>   \* mutant: no look if it was cleaned up
Freed(c) == <<slot[c]>>
\* The function that onModelChange returned.
Unsubscribed(c) ==
    IF c \in ToSet(subs) THEN RemoveAt(subs, CHOOSE i \in DOMAIN subs : subs[i] = c) ELSE subs
\* _cleanupClient, which the close handlers of the server and of the proxy call.
Cleanup(c) ==
    /\ clients' = clients \ {c}
    /\ subs' = Unsubscribed(c)
    /\ free' = free \o Freed(c)
    /\ ServerSends(clients \ {c})
    /\ count' = [d \in Client |->
                    IF d \in clients \ {c} THEN Cardinality(clients) - 1 ELSE count[d]]
    /\ UNCHANGED <<slot, minted>>

\* The socket closes: the client left.  What awaits
\* something about the connection goes on.
Close(c) ==
    /\ open[c]
    /\ open' = [open EXCEPT ![c] = FALSE]
    /\ table' = table \ {c}
    /\ place' = IF place[c] \in {"shaking", "table", "served"}
                THEN [place EXCEPT ![c] = "gone"] ELSE place
    /\ IF place[c] \in {"subscribed", "served"} THEN Cleanup(c)
       ELSE UNCHANGED <<serveVars, heard>>
    /\ UNCHANGED <<reconciled, tableSeq, due, paneVars>>

\* pane.notify is for all the clients, a resync for one.
Notify ==
    /\ ServerSends(clients)
    /\ UNCHANGED <<place, open, brokerVars, clients, subs, slot, free, minted, count, paneVars>>
Resync(c) ==
    /\ place[c] = "served" /\ open[c]
    /\ ServerSends({c})
    /\ count' = [count EXCEPT ![c] = Cardinality(clients)]
    /\ UNCHANGED <<place, open, brokerVars, clients, subs, slot, free, minted, paneVars>>

-----------------------------------------------------------------------------
(* Verbs that create and close panes, and what the clients are told of them *)

Cleared(registry, p) == [registry EXCEPT ![p] = None]

Split(c, p) ==
    /\ place[c] = "served" /\ open[c] /\ life[p].stage = "none"
    /\ life' = [life EXCEPT ![p] = [stage |-> "splitting", by |-> c, slot |-> slot[c]]]
    /\ UNCHANGED <<place, open, brokerVars, serveVars, origin, cause, told, heard>>
\* tmux's answer: the effect is recorded, then the issuer is told, if it is there.
SplitAcked(p) ==
    LET c == life[p].by IN
    /\ life[p].stage \in {"splitting", "here"} /\ c # None
    /\ life' = [life EXCEPT ![p].by = None,
                            ![p].stage = IF @ = "splitting" THEN "made" ELSE @]
    /\ origin' = IF c \in clients THEN [origin EXCEPT ![p] = slot[c]] ELSE origin
    /\ ServerSends({c} \cap clients)
    /\ UNCHANGED <<place, open, brokerVars, clients, subs, slot, free, minted, count, cause, told>>

\* mutant: the origin is consumed by the first look, as a cause is
OnlyTheFirst(c, p) == IF c = Head(subs) THEN origin[p] ELSE None
OriginTold(c, p) == origin[p]

\* A requery finds the pane: made by a verb, answered or not, or by somebody else.
Opened(p) ==
    /\ life[p].stage \in {"none", "splitting", "made"}
    /\ life' = [life EXCEPT ![p].stage = "here"]
    /\ ServerSends(ToSet(subs))
    /\ told' = [told EXCEPT ![p].origins = {OriginTold(c, p) : c \in ToSet(subs)}]
    /\ UNCHANGED <<place, open, brokerVars, clients, subs, slot, free, minted, count, origin, cause>>

\* close-pane or kill-window: who asks is noted with the request, ...
Kill(c, p) ==
    /\ place[c] = "served" /\ open[c] /\ life[p].stage = "here" /\ life[p].by = None
    /\ life' = [life EXCEPT ![p] = [stage |-> "killing", by |-> c, slot |-> slot[c]]]
    /\ UNCHANGED <<place, open, brokerVars, serveVars, origin, cause, told, heard>>
\* ... and recorded with the answer, though the client may have left.
KillAcked(p) ==
    LET c == life[p].by IN
    /\ life[p].stage = "killing"
    /\ life' = [life EXCEPT ![p].stage = "killed"]
    /\ cause' = [cause EXCEPT ![p] = life[p].slot]
    /\ ServerSends({c} \cap clients)
    /\ UNCHANGED <<place, open, brokerVars, clients, subs, slot, free, minted, count, origin, told>>
\* ... unless tmux refuses.
KillRefused(p) ==
    /\ life[p].stage = "killing"
    /\ life' = [life EXCEPT ![p] = [Resting EXCEPT !.stage = "here"]]
    /\ ServerSends({life[p].by} \cap clients)
    /\ UNCHANGED <<place, open, brokerVars, clients, subs, slot, free, minted, count, origin, cause, told>>
\* A requery misses the pane.  The proxy's own subscription is the first: it
\* clears both registries.  Then each client's consumes the cause.
Closed(p) ==
    LET left == Cleared(cause, p)[p] IN
    /\ life[p].stage \in {"here", "killed"} /\ (life[p].stage = "here" => life[p].by = None)
    /\ life' = [life EXCEPT ![p].stage = "over"]
    /\ origin' = Cleared(origin, p)
    /\ cause' = Cleared(cause, p)
    /\ ServerSends(ToSet(subs))
    /\ told' = [told EXCEPT ![p].causes =
                   {IF c = Head(subs) THEN left ELSE None : c \in ToSet(subs)}]
    /\ UNCHANGED <<place, open, brokerVars, clients, subs, slot, free, minted, count>>

-----------------------------------------------------------------------------
Next ==
    \/ Announce \/ Notify
    \/ \E c \in Client :
          \/ Connect(c) \/ Shaken(c) \/ Refused(c) \/ Admit(c) \/ Unreconciled(c)
          \/ Ask(c) \/ Answer(c) \/ Attach(c) \/ NotFound(c)
          \/ NotEnsured(c) \/ Ensured(c) \/ Bound(c) \/ SendSnapshot(c)
          \/ Resync(c) \/ Close(c)
          \/ \E p \in Pane : Split(c, p) \/ Kill(c, p)
    \/ \E p \in Pane : SplitAcked(p) \/ Opened(p) \/ KillAcked(p) \/ KillRefused(p) \/ Closed(p)
Spec == Init /\ [][Next]_vars

-----------------------------------------------------------------------------
(* Properties *)

Place == {"off", "shaking", "reconciling", "table", "attaching", "binding",
          "subscribed", "served", "gone"}
Stage == {"none", "splitting", "made", "here", "killing", "killed", "over"}
ConnectionId == {None} \cup 1..Cardinality(Client)

\* Type invariant.  Its last lines: no two of the server's clients have the same
\* connectionId, and the pool holds each id that nobody has once.
TypeOK ==
    /\ place \in [Client -> Place] /\ open \in [Client -> BOOLEAN] /\ reconciled \in BOOLEAN
    /\ table \subseteq Client /\ clients \subseteq Client /\ ToSet(subs) \subseteq clients
    /\ \A p \in Pane : life[p].stage \in Stage /\ origin[p] \in ConnectionId /\ cause[p] \in ConnectionId
    /\ \A c, d \in clients : slot[c] = slot[d] => c = d
    /\ {slot[c] : c \in clients} \cap ToSet(free) = {}
    /\ Len(free) + Cardinality(clients) = minted /\ minted <= Cardinality(Client)

\* "The client mirror sees one unbroken stream across the handoff" (_handleAttach): the
\* numbers on a socket follow one another, whoever of the broker and the proxy sends,
\* whatever is announced while the connection changes hands and whoever leaves.
SeqUnbroken == \A c \in Client : heard[c].whole

\* Joins, departures and resyncs in any order leave each client with the number of
\* connections the server has, once nobody is on the way in.
CountIsKept ==
    (\A d \in clients : place[d] = "served") =>
        \A c \in clients : open[c] => count[c] = Cardinality(clients)

\* "every connected client's diffModel pass tags the same creation identically"
\* (verb-origin.ts), whenever they joined and though the issuer left.
OriginsAgree == \A p \in Pane : Cardinality(told[p].origins) <= 1

\* "slot-pooled (released on disconnect, reused on the next connect)" (serve.ts:539): no two
\* connections share a connectionId, so that an origin names one of them; and none is
\* lost, which bounds them by how many connections there were at once.
IdsAreUnique ==
    /\ \A c, d \in clients : slot[c] = slot[d] => c = d
    /\ Len(free) + Cardinality(clients) = minted

\* `cause` is "PRESENT when this pane was closed by a wire verb (close-pane /
\* kill-window)" (session-proxy-control.ts): a client told that a pane is closed which
\* a verb was acknowledged to close is told the cause.
CauseIsGiven ==
    \A p \in Pane : life[p].stage = "over" /\ life[p].by # None => None \notin told[p].causes

\* "Guard: the client may have disconnected during the read round-trip" (serve.ts): the
\* server does not go on serving a connection that has closed.
NoGhosts == \A c \in clients : place[c] = "served" => open[c]

===============================================================================
