---------------------------- MODULE CommandReply -----------------------------
(***************************************************************************)
(* What the correlator promises the rest of the driver: commands are       *)
(* answered in the order in which they were sent, each at most once and    *)
(* with its own reply, or they are given up.                               *)
(***************************************************************************)
EXTENDS Naturals

CONSTANT Command     \* commands, numbered as they are sent

VARIABLES sent,      \* how many were sent
          outcome    \* what became of each of them

Outcome == {"unsent", "waiting", "resolved", "rejected"}
Waiting == {c \in Command : outcome[c] = "waiting"}

Init ==
    /\ sent = 0
    /\ outcome = [c \in Command |-> "unsent"]

Becomes(S, what) == outcome' = [c \in Command |-> IF c \in S THEN what ELSE outcome[c]]

\* The next n commands.
Send(n) ==
    /\ sent' = sent + n
    /\ Becomes({c \in Command : sent < c /\ c <= sent + n}, "waiting")

\* The oldest that is waiting gets its reply.
Answer(c) ==
    /\ c \in Waiting /\ \A d \in Waiting : c <= d
    /\ Becomes({c}, "resolved") /\ UNCHANGED sent

GiveUp(S) ==
    /\ S \subseteq Waiting
    /\ Becomes(S, "rejected") /\ UNCHANGED sent

Next ==
    \/ \E n \in {1, 2} : Send(n)
    \/ \E c \in Command : Answer(c)
    \/ \E S \in SUBSET Command : GiveUp(S)

Spec == Init /\ [][Next]_<<sent, outcome>>
=============================================================================
