--------------------------- MODULE MCSessionTable ----------------------------
(* SessionTable on small instances. *)
EXTENDS SessionTable, TLC

CONSTANTS a, b, c1, c2

\* One session is there, or two.
One == <<a>>
Two == <<a, b>>

\* One connection makes a session under some name, the other makes, joins, attaches, destroys.
MakerAndUser == (c1 :> {"createUnique"}) @@ (c2 :> {"create", "claim", "attach", "destroy"})
\* a, then b; a name that is nobody's base has no suffixes.
AThenB == [n \in Name |-> IF n = a THEN <<a, b>> ELSE <<n>>]
NoVerbs == [c \in Caller |-> {}]
CreateOnly == [c \in Caller |-> {"create"}]
=============================================================================
