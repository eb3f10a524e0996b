------------------------------- MODULE BytePath -------------------------------
(***************************************************************************)
(* The way of a pane's bytes to a client: tmux writes them as escaped      *)
(* %output lines among replies and notifications, the driver tokenizes,    *)
(* decodes and strips them (ControlParser, TitleSniffer; pipeline.ts) and  *)
(* sends them as frames among control messages; the client takes them off  *)
(* its socket (SocketTransport).  Both streams come in any chunks.         *)
(***************************************************************************)
EXTENDS TitleSniffer, SocketTransport

CONSTANTS
    Scripts,            \* what tmux may write: [items, eol, shown], see Rendered and Shown
    MaxControls,        \* control messages that the driver sends besides
    MaxChunk            \* cells of a chunk that is not all there is

VARIABLES
    script,
    stdout,             \* cells of tmux that the driver has not read
    tokenizer, tokens,  \* and, history, all the tokens so far
    sniffer,
    tripped,            \* history: a feed() has passed its chunk instead of its result,
                        \* or has dropped a sequence of MAX_OSC_BUFFER bytes
    sent,               \* history: what went onto the socket after the capabilities
    socket,             \* cells on their way to the client
    receiver

reading == <<stdout, tokenizer, tokens, sniffer, tripped>>
vars == <<script, reading, sent, socket, receiver>>

-----------------------------------------------------------------------------
(* What tmux writes *)

Line(cells, eol) == cells \o eol
ItemCells(item, eol) ==
    CASE item.kind = "open" -> DcsIntro
      [] item.kind = "output" -> Line(<<"%output">> \o EncodeOutputPayload(item.body), eol)
      [] item.kind = "notify" -> Line(<<"%window-add">> \o item.body, eol)
      [] item.kind = "reply" -> Line(<<"%begin">>, eol) \o Line(item.body, eol) \o Line(<<"%end">>, eol)
      [] item.kind = "close" -> Line(<<"%exit">>, eol) \o <<ESC, Backslash>>
Rendered(s) == FlattenSeq([i \in 1 .. Len(s.items) |-> ItemCells(s.items[i], s.eol)])

\* The tokens those items should come to.
ItemTokens(item) ==
    CASE item.kind = "open" -> <<DcsOpen>>
      [] item.kind = "output" -> <<Notification(<<"%output">> \o EncodeOutputPayload(item.body))>>
      [] item.kind = "notify" -> <<Notification(<<"%window-add">> \o item.body)>>
      [] item.kind = "reply" -> <<BlockBegin, BlockBody(item.body), BlockEnd>>
      [] item.kind = "close" -> <<Notification(<<"%exit">>), DcsClose>>
Meant(s) == FlattenSeq([i \in 1 .. Len(s.items) |-> ItemTokens(s.items[i])])

-----------------------------------------------------------------------------
Chunks(cells) == {n \in 1 .. Len(cells) : n <= MaxChunk \/ n = Len(cells)}

Init ==
    /\ script \in Scripts
    /\ stdout = Rendered(script)
    /\ tokenizer = NewTokenizer /\ tokens = <<>>
    /\ sniffer = NewSniffer /\ tripped = FALSE
    /\ sent = <<>> /\ socket = Encode(Caps)
    /\ receiver = NewReceiver

\* The %output lines among some tokens go through the sniffer in turn (pipeline.ts).
IsOutput(token) == token.kind = "notification" /\ Keyword(token.line) = "%output"
Sniffed(r, token) ==
    LET fed == Feed(r.s, OutputBytes(token.line)) IN
    [s |-> fed.s, off |-> r.off \/ fed.dropped \/ fed.passthrough # fed.due,
     frames |-> IF fed.passthrough = <<>> THEN r.frames ELSE Append(r.frames, Data(fed.passthrough))]

Frames(msgs) == FlattenSeq([i \in 1 .. Len(msgs) |-> Encode(msgs[i])])
Read(n) ==
    LET t == PushChunk(tokenizer, SubSeq(stdout, 1, n))
        r == FoldLeft(Sniffed, [s |-> sniffer, off |-> tripped, frames |-> <<>>],
                      SelectSeq(t.out, IsOutput))
    IN /\ n \in Chunks(stdout)
       /\ stdout' = SubSeq(stdout, n + 1, Len(stdout))
       /\ tokenizer' = [t EXCEPT !.out = <<>>] /\ tokens' = tokens \o t.out
       /\ sniffer' = r.s /\ tripped' = r.off
       /\ sent' = sent \o r.frames /\ socket' = socket \o Frames(r.frames)
       /\ UNCHANGED <<script, receiver>>

\* Deltas, replies and notices of the driver.
SendControl ==
    /\ Cardinality({i \in DOMAIN sent : sent[i].plane = "control"}) < MaxControls
    /\ sent' = Append(sent, Control("delta")) /\ socket' = socket \o Encode(Control("delta"))
    /\ UNCHANGED <<script, reading, receiver>>

\* The continuation of the handshake installs the router: a microtask, before any event.
RouterInstalled ==
    /\ receiver.handler = "noop"
    /\ receiver' = [receiver EXCEPT !.handler = "routing"]
    /\ UNCHANGED <<script, reading, sent, socket>>
Turn == receiver.handler # "noop" /\ ~receiver.closed
\* A 'data' event of the client's socket, and the setImmediate.
Receive(n) ==
    /\ Turn /\ n \in Chunks(socket)
    /\ receiver' = ProcessBuffer([receiver EXCEPT !.buf = @ \o SubSeq(socket, 1, n)])
    /\ socket' = SubSeq(socket, n + 1, Len(socket))
    /\ UNCHANGED <<script, reading, sent>>
Immediate ==
    /\ Turn /\ receiver.again
    /\ receiver' = ProcessBuffer([receiver EXCEPT !.again = FALSE])
    /\ UNCHANGED <<script, reading, sent, socket>>
\* The 'close' event; what is still in the buffer is never dispatched.
Closed ==
    /\ Turn /\ receiver' = [receiver EXCEPT !.closed = TRUE]
    /\ UNCHANGED <<script, reading, sent, socket>>

Next ==
    \/ \E n \in Chunks(stdout) : Read(n)
    \/ \E n \in Chunks(socket) : Receive(n)
    \/ SendControl \/ RouterInstalled \/ Immediate \/ Closed
Spec == Init /\ [][Next]_vars

-----------------------------------------------------------------------------
(* Properties *)

\* Every variable keeps its type; the sniffer holds bytes exactly while a sequence is begun,
\* and never more than its bound (MAX_OSC_BUFFER).
TypeOK ==
    /\ script \in Scripts /\ stdout \in Seq(STRING)
    /\ tokenizer.dcs \in {"before", "intro", "inside", "maybeSt", "after"}
    /\ tokenizer.inBlock \in BOOLEAN /\ tokenizer.out = <<>>
    /\ sniffer.state \in {"IDLE", "ESC_SEEN", "OSC_PARAM", "OSC_TEXT", "IN_OSC_ESC"}
    /\ sniffer.state = "IDLE" <=> sniffer.buf = <<>>
    /\ Len(sniffer.buf) <= MaxOscBuffer /\ tripped \in BOOLEAN
    /\ receiver.handler \in {"handshake", "noop", "routing"}
    /\ receiver.again \in BOOLEAN /\ receiver.closed \in BOOLEAN

\* Notifications and replies come out as tmux wrote them, raw escapes in a reply and
\* escaped ones in an %output included (ControlTokenizer, output-codec.ts).
TokensAreWhole ==
    /\ IsPrefix(tokens, Meant(script))
    /\ stdout = <<>> => tokens = Meant(script)

\* Everything sent after the handshake reaches the client's router, in the order of both
\* planes and cut as it was sent (_processBuffer).
SentArrives ==
    /\ receiver.lost = 0 /\ IsPrefix(receiver.got, sent)
    /\ socket = <<>> /\ Turn /\ ~receiver.again => receiver.got = sent

RECURSIVE Bytes(_)
Bytes(msgs) ==
    IF msgs = <<>> THEN <<>>
    ELSE (IF Head(msgs).plane = "data" THEN Head(msgs).body ELSE <<>>) \o Bytes(Tail(msgs))
Delivered == Bytes(sent)
ShownInOrder ==
    /\ IsPrefix(Delivered, script.shown)
    /\ stdout = <<>> => Delivered = script.shown

\* Titles are taken out of the pane's output and nothing else is (OscTitleSniffer), as long
\* as no feed() has mistaken its result for its chunk and no sequence was overlong.
OnlyTitlesAreStripped == ~tripped => ShownInOrder

\* What OscSniffResult says of all other bytes: they pass unchanged.
OthersPassUnchanged == ShownInOrder
================================================================================
