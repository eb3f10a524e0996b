---------------------------- MODULE MCClientPlane ----------------------------
(***************************************************************************)
(* ClientPlane for TLC.  The connections differ by name only; of the       *)
(* numbers only the distance of the counters from the last one on the      *)
(* socket matters, and nothing that a closed socket was last told does.    *)
(***************************************************************************)
EXTENDS ClientPlane, TLC

Symmetry == Permutations(Client)

Seen(c) ==
    IF ~open[c] THEN [place |-> IF place[c] = "table" THEN "gone" ELSE place[c], whole |-> heard[c].whole]
    ELSE [place |-> place[c], whole |-> heard[c].whole, due |-> due[c], count |-> count[c],
          broker |-> IF place[c] = "table" \/ due[c] > 0 THEN tableSeq[c] - heard[c].seq ELSE 1,
          server |-> IF place[c] \in {"shaking", "reconciling", "table"} THEN 1 ELSE seq[c] - heard[c].seq]
View ==
    <<[c \in Client |-> Seen(c)], [c \in clients |-> slot[c]], table \cap {c \in Client : open[c]},
      reconciled, subs, free, minted, paneVars>>
===============================================================================
