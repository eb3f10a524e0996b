------------------------------ MODULE MCBytePath ------------------------------
(* Scripts of tmux for BytePath: the output of one pane, cut into three %output lines at   *)
(* any place, around a reply whose body holds a raw ESC \ and a notification, up to the    *)
(* end of the control mode.                                                                *)
EXTENDS BytePath, TLC

Plain == [raw |-> <<"a", "CC">>, shown |-> TRUE]
Cursor == [raw |-> <<ESC, "H">>, shown |-> TRUE]
Title == [raw |-> <<ESC, "]", "0", ";", "t", BEL>>, shown |-> FALSE]
LongTitle == [raw |-> <<ESC, "]", "2", ";", ESC, "t", ESC, Backslash>>, shown |-> FALSE]
Link == [raw |-> <<ESC, "]", "8", ";", "u", ESC, Backslash>>, shown |-> TRUE]

Overlong == [raw |-> <<ESC, "]", "0", ";", "t", "t", "t", "t", BEL>>, shown |-> FALSE]

Outputs == {<<Plain, Cursor, Plain>>, <<Cursor, Cursor, Cursor>>, <<Plain, Title, Cursor>>,
            <<LongTitle, Plain>>, <<Cursor, Link, Plain>>, <<Overlong, Plain>>}

Raw(pieces) == FlattenSeq([i \in 1 .. Len(pieces) |-> pieces[i].raw])
Visible(pieces) == FlattenSeq([i \in 1 .. Len(pieces) |-> IF pieces[i].shown THEN pieces[i].raw ELSE <<>>])

Item(kind, body) == [kind |-> kind, body |-> body]
Cut(raw, i, j) ==
    <<Item("open", <<>>), Item("output", SubSeq(raw, 1, i)),
      Item("reply", <<"%output", ESC, Backslash>>), Item("output", SubSeq(raw, i + 1, j)),
      Item("notify", <<"w">>), Item("output", SubSeq(raw, j + 1, Len(raw))), Item("close", <<>>)>>

\* The second line is two bytes long; every other script has the CR of a PTY.
ScriptsOf(outputs) ==
    UNION {LET raw == Raw(p) IN
           {[items |-> Cut(raw, i, i + 2), shown |-> Visible(p),
             eol |-> IF i % 2 = 0 THEN <<LF>> ELSE <<CR, LF>>] : i \in 1 .. Len(raw) - 3} : p \in outputs}
MCScripts == ScriptsOf(Outputs)
\* Escape sequences of two bytes only, none of them a title or too long to hold.
ShortScripts == ScriptsOf({<<Cursor, Cursor, Cursor>>})
===============================================================================
