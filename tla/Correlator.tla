----------------------------- MODULE Correlator ------------------------------
(***************************************************************************)
(* Commands to tmux and their reply blocks (parser/correlator.ts,          *)
(* parser/tokenizer.ts): replies are bound to slots by position, a slot is *)
(* registered with the write of its command, and one that was given up     *)
(* stays in its place.  The bootstrap (pipeline.ts,                        *)
(* _bootstrapRequeryWithRetry) is the client that gives up: it lists       *)
(* windows and panes, and lists them again when tmux is late.              *)
(* A command is its number in the order of sending; whether its reply is   *)
(* %end or %error is no matter here.  Lines of a block may be read one at  *)
(* a time.  Notifications go past the slots and are left out.              *)
(***************************************************************************)
EXTENDS Naturals, Sequences, FiniteSets

CONSTANTS
    MaxSent,   \* bound: commands sent
    Bodies,    \* what the bodies of replies look like, see Lines
    Bounded,   \* MAX_BOUNDED_ATTEMPTS
    SlotCount, \* BOOTSTRAP_SLOT_COUNT
    None       \* undefined, null

Body == {"plain", "guard", "transcript"}
ASSUME BootstrapParameters ==
    /\ MaxSent \in Nat /\ Bounded \in Nat
    /\ SlotCount = 2 /\ MaxSent >= SlotCount * (Bounded + 1)
    /\ Bodies \subseteq Body /\ "plain" \in Bodies
    /\ None \notin Nat /\ None \notin [num : Nat, startup : BOOLEAN]

VARIABLES
    sent,        \* commands sent
    toTmux,      \* those tmux has not read
    fromTmux,    \* its blocks that the driver has not read to the end
    read,        \* the lines read of the first of them
    inside,      \* the tokenizer's _blockState
    open,        \* the correlator's _inFlight
    pending,     \* _pending
    promise,     \* that of each command
    reply,       \* number of the block it resolved with
    unsolicited, \* correlator_unsolicited_blocks_total is no longer zero
    boot         \* the bootstrap's attempt

wire == <<toTmux, fromTmux>>
parser == <<read, inside, open>>
promises == <<promise, reply>>
vars == <<sent, wire, parser, pending, promises, unsolicited, boot>>

Command == 1..MaxSent
Startup == 0            \* the block tmux begins with answers no command
Other == MaxSent + 1    \* a number from elsewhere

Slot(c) == [cmd |-> c, expected |-> None, cancelled |-> FALSE]

\* The lines of a block that matter: its guards, and lines of a body that look like guards,
\* as when a pane that shows a control-mode transcript is captured.
Lines(b) ==
    CASE b.body = "plain"      -> <<"begin", "close">>
      [] b.body = "guard"      -> <<"begin", "like close", "close">>
      [] b.body = "transcript" -> <<"begin", "like close", "like begin", "like close", "close">>
Block(c, body) == [cmd |-> c, body |-> body]

Sending(n) ==
    /\ sent + n <= MaxSent
    /\ sent' = sent + n
    /\ toTmux' = toTmux \o [i \in 1..n |-> sent + i]
    /\ pending' = pending \o [i \in 1..n |-> Slot(sent + i)]
    /\ promise' = [c \in Command |-> IF sent < c /\ c <= sent + n THEN "waiting" ELSE promise[c]]
    /\ UNCHANGED reply

\* tmux has been started, and begins with a block of its own.
Init ==
    /\ sent = 0
    /\ toTmux = <<>> /\ fromTmux = <<Block(Startup, "plain")>>
    /\ read = 0 /\ inside = FALSE /\ open = None
    /\ pending = <<>>
    /\ promise = [c \in Command |-> "unsent"] /\ reply = [c \in Command |-> 0]
    /\ unsolicited = FALSE
    /\ boot = [attempt |-> 0, stage |-> "to list", windows |-> 0, panes |-> 0]

-----------------------------------------------------------------------------
(* Slots *)

Settled(c) == promise[c] \in {"resolved", "rejected"}

\* The attempt's Promise.all: both listings have come, or one is lost.
Listings == {boot.windows, boot.panes} \cap Command
BothHaveCome == \A c \in Listings : promise[c] = "resolved"
CycleLost == \E c \in Listings : promise[c] = "rejected"
CycleSettled == BothHaveCome \/ CycleLost

\* Continuations run before anything else is read.
Calm == boot.attempt = 0 \/ boot.stage \in {"live", "failed"} \/ ~CycleSettled

\* send, sendBatch: slots and bytes together, in live operation.
Send(n) ==
    /\ boot.stage = "live"
    /\ Sending(n)
    /\ UNCHANGED <<fromTmux, parser, unsolicited, boot>>

\* cancelOldest: the oldest live slots are rejected and stay where they are.
Live(i) == ~pending[i].cancelled
OldestLive(k) ==
    {i \in DOMAIN pending : Live(i) /\ Cardinality({j \in DOMAIN pending : j <= i /\ Live(j)}) <= k}
Placeholders(S) ==
    [i \in DOMAIN pending |-> IF i \in S THEN [pending[i] EXCEPT !.cancelled = TRUE] ELSE pending[i]]
CancelOldest(k) ==
    /\ pending' = Placeholders(OldestLive(k))
    /\ promise' = [c \in Command |->
                     IF \E i \in OldestLive(k) : pending[i].cmd = c THEN "rejected" ELSE promise[c]]
    /\ UNCHANGED reply

-----------------------------------------------------------------------------
(* Reading *)

Number(line) ==
    IF line \in {"begin", "close"} THEN fromTmux[1].cmd ELSE Other

\* The oldest slot goes, with an answer or a rejection; of a placeholder nobody hears.
Dequeued == Tail(pending)
Settles(c, how, num) ==
    /\ promise' = [promise EXCEPT ![c] = how]
    /\ reply' = [reply EXCEPT ![c] = num]
Unheard(slot) == FALSE     \* mutant: a placeholder is answered as well
Cancelled(slot) == slot.cancelled
Dequeue(how, num) ==
    /\ pending' = Dequeued
    /\ IF Cancelled(pending[1]) THEN UNCHANGED promises ELSE Settles(pending[1].cmd, how, num)

\* _rejectOldest
RejectNobody == UNCHANGED <<pending, promises>>     \* mutant: the mismatch is only noted
RejectOldest ==
    IF pending = <<>> THEN UNCHANGED <<pending, promises>> ELSE Dequeue("rejected", 0)

\* _handleBegin: the number is noted in the oldest slot, unless it is the startup block.
NoStartup(num) == FALSE     \* mutant: the startup block is a reply
IsStartup(num) == num = Startup
HandleBegin(num) ==
    /\ open' = [num |-> num, startup |-> IsStartup(num)]
    /\ pending' = IF IsStartup(num) \/ pending = <<>> THEN pending
                  ELSE [pending EXCEPT ![1].expected = num]
    /\ UNCHANGED <<promises, unsolicited>>

\* _closeBlock
Mismatch(num) == open.num # num
Wanted(num) == pending[1].expected \in {None, num}
CloseBlock(num) ==
    /\ open' = None
    /\ IF Mismatch(num) THEN RejectOldest /\ UNCHANGED unsolicited
       ELSE IF open.startup THEN UNCHANGED <<pending, promises, unsolicited>>
       ELSE IF pending = <<>> THEN unsolicited' = TRUE /\ UNCHANGED <<pending, promises>>
       ELSE /\ IF Wanted(num) THEN Dequeue("resolved", num) ELSE Dequeue("rejected", 0)
            /\ UNCHANGED unsolicited

\* Within a block only closing guards are guards, whatever their number; without, only
\* %begin is one.
ReadLine ==
    /\ Calm /\ fromTmux # <<>>
    /\ LET lines == Lines(fromTmux[1])
           line == lines[read + 1]
           last == read + 1 = Len(lines)
       IN /\ read' = IF last THEN 0 ELSE read + 1
          /\ fromTmux' = IF last THEN Tail(fromTmux) ELSE fromTmux
          /\ IF inside
             THEN IF line \in {"close", "like close"}
                  THEN inside' = FALSE /\ CloseBlock(Number(line))
                  ELSE UNCHANGED <<inside, open, pending, promises, unsolicited>>
             ELSE IF line \in {"begin", "like begin"}
                  THEN inside' = TRUE /\ HandleBegin(Number(line))
                  ELSE UNCHANGED <<inside, open, pending, promises, unsolicited>>
    /\ UNCHANGED <<sent, toTmux, boot>>

-----------------------------------------------------------------------------
(* The bootstrap *)

\* An attempt; a new one once that which stalled has settled.
BootstrapLists ==
    /\ boot.stage = "to list" /\ CycleSettled
    /\ boot' = [attempt |-> boot.attempt + 1, stage |-> "listing",
                windows |-> sent + 1, panes |-> sent + 2]
    /\ Sending(2)
    /\ UNCHANGED <<fromTmux, parser, unsolicited>>

\* bootstrapRequeryTimeoutMs; the attempt after the bounded ones has no timeout.
BootstrapStalls ==
    /\ boot.stage = "listing" /\ Calm /\ boot.attempt <= Bounded
    /\ CancelOldest(SlotCount)
    /\ boot' = [boot EXCEPT !.stage = "to list"]
    /\ UNCHANGED <<sent, wire, parser, unsolicited>>

\* The listings have come and the pipeline is live, or start() rejects.
BootstrapEnds ==
    /\ boot.stage = "listing" /\ CycleSettled
    /\ boot' = [boot EXCEPT !.stage = IF CycleLost THEN "failed" ELSE "live"]
    /\ UNCHANGED <<sent, wire, parser, pending, promises, unsolicited>>

-----------------------------------------------------------------------------
(* tmux *)

\* It answers the next command.  The rows of a listing look like nothing else.
TmuxAnswers ==
    /\ toTmux # <<>>
    /\ \E body \in Bodies :
         /\ Head(toTmux) <= boot.panes => body = "plain"
         /\ fromTmux' = Append(fromTmux, Block(Head(toTmux), body))
    /\ toTmux' = Tail(toTmux)
    /\ UNCHANGED <<sent, parser, pending, promises, unsolicited, boot>>

Next ==
    \/ \E n \in {1, 2} : Send(n)
    \/ ReadLine
    \/ BootstrapLists \/ BootstrapStalls \/ BootstrapEnds
    \/ TmuxAnswers

Spec == Init /\ [][Next]_vars
\* tmux answers in the end, and the driver reads; nobody must send anything.
FairSpec ==
    Spec /\ WF_vars(TmuxAnswers) /\ WF_vars(ReadLine)
         /\ WF_vars(BootstrapLists) /\ WF_vars(BootstrapEnds)
-----------------------------------------------------------------------------
(* Properties *)

SlotType == [cmd : Command, expected : {None} \cup Nat, cancelled : BOOLEAN]

\* Every variable has its type; the slots are those of the last commands, in order.
TypeOK ==
    /\ sent \in 0..MaxSent /\ toTmux \in Seq(Command)
    /\ fromTmux \in Seq([cmd : {Startup} \cup Command, body : Bodies])
    /\ read \in 0..4 /\ inside \in BOOLEAN
    /\ open \in {None} \cup [num : Nat, startup : BOOLEAN]
    /\ pending \in Seq(SlotType)
    /\ \A i \in DOMAIN pending : pending[i].cmd = (sent - Len(pending)) + i
    /\ promise \in [Command -> {"unsent", "waiting", "resolved", "rejected"}]
    /\ reply \in [Command -> Nat]
    /\ unsolicited \in BOOLEAN
    /\ boot \in [attempt : 0..(Bounded + 1), stage : {"to list", "listing", "live", "failed"},
                 windows : 0..MaxSent, panes : 0..MaxSent]

\* A reply is bound to the command it answers (tc-3si.1), whatever was given up, came late
\* or was cut: no promise resolves with another command's reply.
OwnReply == \A c \in Command : promise[c] = "resolved" => reply[c] = c

\* correlator_unsolicited_blocks_total is "expected-zero": no block closes without a slot.
NoUnsolicited == ~unsolicited

\* Nobody awaits a command for ever while tmux answers, and however often tmux is late the
\* pipeline becomes live: an attempt never waits for one that was given up
\* (_bootstrapRequeryWithRetry).
EverySettles ==
    /\ \A c \in Command : promise[c] = "waiting" ~> Settled(c)
    /\ <>(boot.stage = "live")

Outcome(c) == IF promise[c] = "resolved" /\ reply[c] # c THEN "misbound" ELSE promise[c]
Promise == INSTANCE CommandReply WITH outcome <- [c \in Command |-> Outcome(c)]

\* The correlator keeps its promise: answers in order, each its own and only one.
KeepsPromise == Promise!Spec
=============================================================================
