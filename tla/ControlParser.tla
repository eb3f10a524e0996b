----------------------------- MODULE ControlParser -----------------------------
(***************************************************************************)
(* What the driver reads from a tmux control client: the tokenizer         *)
(* (tokenizer.ts), which cuts the bytes of the DCS envelope into           *)
(* notifications and reply blocks, and the codec of %output payloads       *)
(* (output-codec.ts).                                                      *)
(*                                                                         *)
(* A cell stands for a byte, or for bytes that are only told apart         *)
(* together: a keyword, the three octal digits of an escape, the rest of   *)
(* the DCS intro.                                                          *)
(***************************************************************************)
EXTENDS Naturals, Sequences, SequencesExt

ESC == "ESC"    BEL == "BEL"    LF == "LF"    CR == "CR"    Backslash == "\\"
DcsIntro == <<ESC, "P", "1000p">>

-----------------------------------------------------------------------------
(* The tokenizer *)

NewTokenizer == [dcs |-> "before", matched |-> 0, inBlock |-> FALSE, line |-> <<>>, out |-> <<>>]

Emit(t, token) == [t EXCEPT !.out = Append(@, token)]
Notification(line) == [kind |-> "notification", line |-> line]
BlockBegin == [kind |-> "block-begin", line |-> <<>>]
BlockBody(line) == [kind |-> "block-body", line |-> line]
BlockEnd == [kind |-> "block-end", line |-> <<>>]
DcsOpen == [kind |-> "dcs-open", line |-> <<>>]
DcsClose == [kind |-> "dcs-close", line |-> <<>>]

Keyword(line) == IF line = <<>> THEN "" ELSE line[1]
Keywords == {"%output", "%window-add", "%begin", "%end", "%error", "%exit"}

Trimmed(line) == IF line # <<>> /\ Last(line) = CR THEN Front(line) ELSE line

\* _flushLine, _parseNotificationOrBegin, _tryParseGuardLine.
FlushLine(t) ==
    LET line == Trimmed(t.line)
        u == [t EXCEPT !.line = <<>>]
    IN CASE t.inBlock /\ Keyword(line) \in {"%end", "%error"} ->
                Emit([u EXCEPT !.inBlock = FALSE], BlockEnd)
         [] t.inBlock -> Emit(u, BlockBody(line))
         [] Keyword(line) = "%begin" -> Emit([u EXCEPT !.inBlock = TRUE], BlockBegin)
         [] Keyword(line) \in Keywords \ {"%begin"} -> Emit(u, Notification(line))
         [] OTHER -> u

ScansBlocks(t) == TRUE                          \* mutant: ST is looked for in reply bodies
ScansForSt(t) == ~t.inBlock

\* _processInside, by the byte.
Inside(t, b) ==
    CASE b = LF -> FlushLine(t)
      [] b = ESC /\ ScansForSt(t) -> [t EXCEPT !.dcs = "maybeSt"]
      [] OTHER -> [t EXCEPT !.line = Append(@, b)]
\* _processBefore, _matchDcsIntro, _maybeSt.
Tokenize(t, b) ==
    CASE t.dcs = "before" /\ b = ESC -> [t EXCEPT !.dcs = "intro", !.matched = 1]
      [] t.dcs = "before" -> Inside([t EXCEPT !.dcs = "inside"], b)
      [] t.dcs = "intro" /\ b = DcsIntro[t.matched + 1] ->
            IF t.matched + 1 = Len(DcsIntro)
            THEN Emit([t EXCEPT !.dcs = "inside", !.matched = 0], DcsOpen)
            ELSE [t EXCEPT !.matched = @ + 1]
      [] t.dcs = "intro" ->
            Inside([t EXCEPT !.dcs = "inside", !.matched = 0,
                             !.line = @ \o SubSeq(DcsIntro, 1, t.matched)], b)
      [] t.dcs = "inside" -> Inside(t, b)
      [] t.dcs = "maybeSt" /\ b = Backslash ->
            Emit([(IF t.line # <<>> THEN FlushLine(t) ELSE t) EXCEPT !.dcs = "after"], DcsClose)
      [] t.dcs = "maybeSt" -> Inside([t EXCEPT !.dcs = "inside", !.line = Append(@, ESC)], b)
      [] t.dcs = "after" -> t

\* push(): the tokenizer after a chunk, with the tokens of this chunk.
PushChunk(t, chunk) == FoldLeft(Tokenize, [t EXCEPT !.out = <<>>], chunk)

-----------------------------------------------------------------------------
(* The codec *)

Octal(b) == CASE b = ESC -> "033" [] b = BEL -> "007" [] b = Backslash -> "134"
Escaped == {ESC, BEL, Backslash}
\* tmux's rule, which encodeOutputPayload mirrors.
EncodeOutputPayload(raw) ==
    FlattenSeq([i \in 1 .. Len(raw) |->
        IF raw[i] \in Escaped THEN <<Backslash, Octal(raw[i])>> ELSE <<raw[i]>>])

ShortOfTheEnd(payload, i) == i + 1 < Len(payload)   \* mutant: not the last escape
IsEscape(payload, i) == i + 1 <= Len(payload)
\* decodeOutputPayload: an escape is taken where it begins, its digits are skipped.
DecodeOutputPayload(payload) ==
    FlattenSeq([i \in 1 .. Len(payload) |->
        CASE payload[i] = Backslash /\ IsEscape(payload, i) ->
                <<CHOOSE b \in Escaped : Octal(b) = payload[i + 1]>>
          [] i > 1 /\ payload[i - 1] = Backslash /\ IsEscape(payload, i - 1) -> <<>>
          [] OTHER -> <<payload[i]>>])
\* parseOutputNotification
OutputBytes(line) == DecodeOutputPayload(Tail(line))
================================================================================
