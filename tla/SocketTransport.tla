---------------------------- MODULE SocketTransport ----------------------------
(***************************************************************************)
(* One end of a connection (socket-transport.ts): control messages and     *)
(* data frames (framing.ts) on one byte stream, cut out of it again        *)
(* whatever chunks it comes in, and given to the handler of the moment.    *)
(*                                                                         *)
(* A frame is its magic, the length of its payload and the payload; a      *)
(* control message its length and its body.  The messages are those of a   *)
(* client that shakes hands and then routes (handshake.ts, connection.ts). *)
(***************************************************************************)
EXTENDS Naturals, Sequences

CONSTANT MaxFrame               \* MAX_FRAME

Magic == "CC"
HeaderSize == 2
Data(bytes) == [plane |-> "data", body |-> bytes]
Control(m) == [plane |-> "control", body |-> <<m>>]
Caps == Control("capabilities")

\* encodeFrame; sendControl's length prefix, whose first byte is never the magic.
Encode(msg) ==
    IF msg.plane = "data" THEN <<Magic, Len(msg.body)>> \o msg.body
    ELSE <<"00", Len(msg.body)>> \o msg.body

NewReceiver ==
    [buf |-> <<>>,              \* _buf
     handler |-> "handshake",   \* _controlHandler: runClientHandshake's, its no-op, the router
     got |-> <<>>, lost |-> 0,
     again |-> FALSE,           \* a setImmediate is pending
     closed |-> FALSE]

\* What the handlers do with a message.  Before the router there is no data handler.
Dispatch(r, msg) ==
    CASE r.handler = "routing" -> [r EXCEPT !.got = Append(@, msg)]
      [] r.handler = "handshake" /\ msg = Caps -> [r EXCEPT !.handler = "noop"]
      [] OTHER -> [r EXCEPT !.lost = @ + 1]

GoesOn(before, after) == FALSE                  \* mutant: the rest is dispatched at once
Yields(before, after) == after.handler # before.handler /\ after.buf # <<>>
HasHeader(buf) == Len(buf) >= HeaderSize

\* _processBuffer: whole messages are taken off the front and dispatched; after one that
\* changed the handler the rest waits for a setImmediate.
RECURSIVE ProcessBuffer(_)
ProcessBuffer(r) ==
    LET total == HeaderSize + r.buf[2]
        plane == IF r.buf[1] = Magic THEN "data" ELSE "control"
        msg == [plane |-> plane, body |-> SubSeq(r.buf, HeaderSize + 1, total)]
        rest == [r EXCEPT !.buf = SubSeq(@, total + 1, Len(@))]
        next == Dispatch(rest, msg)
    IN CASE r.closed \/ r.buf = <<>> \/ ~HasHeader(r.buf) -> r
         [] plane = "data" /\ r.buf[2] > MaxFrame -> [r EXCEPT !.closed = TRUE]
         [] Len(r.buf) < total -> r
         [] plane = "control" /\ Yields(r, next) -> [next EXCEPT !.again = TRUE]
         [] OTHER -> ProcessBuffer(next)
================================================================================
