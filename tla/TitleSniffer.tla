------------------------------ MODULE TitleSniffer ------------------------------
(***************************************************************************)
(* The stripping of OSC title sequences from a pane's output               *)
(* (osc-title-sniffer.ts): a state machine that is fed one %output payload *)
(* at a time and holds an unfinished sequence back until the next.         *)
(***************************************************************************)
EXTENDS ControlParser

CONSTANT MaxOscBuffer           \* MAX_OSC_BUFFER

ASSUME BufferBound == MaxOscBuffer \in Nat \ {0}

Digits == {"0", "2", "8"}       \* the parameters of the instances
TitlePs == {<<"0">>, <<"2">>}

NewSniffer == [state |-> "IDLE", buf |-> <<>>, ps |-> <<>>, isTitle |-> FALSE]
\* One byte of a feed(): the sniffer, and what has passed through so far.
Idle(s, out) == [s |-> NewSniffer, out |-> out]
Held(s, b) == [s EXCEPT !.buf = Append(@, b)]
Next1(s, out) == [s |-> s, out |-> out]

\* A byte that finds nothing begun.
FromIdle(out, b) ==
    IF b = ESC
    THEN Next1(Held([NewSniffer EXCEPT !.state = "ESC_SEEN"], b), out)
    ELSE Idle(NewSniffer, Append(out, b))

Strips(s) == s.isTitle
\* _finishOscBEL, _finishOscST: a title is stripped, the rest passes.
Finished(s, out, terminator) ==
    Idle(s, IF Strips(s) THEN out ELSE out \o s.buf \o terminator)

InText(s, out, b) ==
    CASE b = BEL -> Finished(s, out, <<BEL>>)
      [] b = ESC -> Next1([s EXCEPT !.state = "IN_OSC_ESC"], out)
      [] OTHER -> Next1(Held([s EXCEPT !.state = "OSC_TEXT"], b), out)

NeverTooLong(s) == FALSE                        \* mutant: the buffer has no bound
TooLong(s) == Len(s.buf) >= MaxOscBuffer
Sniff(r, b) ==
    LET s == IF TooLong(r.s) THEN NewSniffer ELSE r.s
        out == r.out
    IN CASE s.state = "IDLE" -> FromIdle(out, b)
         [] s.state = "ESC_SEEN" /\ b = "]" ->
               Next1(Held([s EXCEPT !.state = "OSC_PARAM"], b), out)
         [] s.state = "ESC_SEEN" -> FromIdle(Append(out, ESC), b)
         [] s.state = "OSC_PARAM" /\ b \in Digits ->
               Next1(Held([s EXCEPT !.ps = Append(@, b)], b), out)
         [] s.state = "OSC_PARAM" /\ b = ";" ->
               Next1(Held([s EXCEPT !.state = "OSC_TEXT", !.isTitle = s.ps \in TitlePs], b), out)
         [] s.state = "OSC_PARAM" /\ b = BEL ->
               Idle(s, IF s.ps \in TitlePs THEN out ELSE out \o s.buf \o <<BEL>>)
         [] s.state = "OSC_PARAM" /\ b = ESC -> Next1([s EXCEPT !.state = "IN_OSC_ESC"], out)
         [] s.state = "OSC_PARAM" -> FromIdle(out \o s.buf, b)
         [] s.state = "OSC_TEXT" -> InText(s, out, b)
         [] s.state = "IN_OSC_ESC" /\ b = Backslash -> Finished(s, out, <<ESC, Backslash>>)
         [] s.state = "IN_OSC_ESC" -> InText(Held(s, ESC), out, b)

\* feed(): the sniffer after a chunk, what should pass and what does: a result as long as
\* the chunk is taken to be the chunk.
Feed(s, chunk) ==
    LET Before(i) == FoldLeft(Sniff, [s |-> s, out |-> <<>>], SubSeq(chunk, 1, i - 1))
        r == FoldLeft(Sniff, [s |-> s, out |-> <<>>], chunk)
    IN [s |-> r.s, due |-> r.out,
        dropped |-> \E i \in DOMAIN chunk : TooLong(Before(i).s),
        passthrough |-> IF Len(r.out) = Len(chunk) THEN chunk ELSE r.out]
=================================================================================
