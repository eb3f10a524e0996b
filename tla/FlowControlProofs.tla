-------------------------- MODULE FlowControlProofs --------------------------
(***************************************************************************)
(* Proofs about FlowControl for every set of panes and clients and every   *)
(* choice of the water marks, the chunk size and the in-flight bounds.     *)
(***************************************************************************)
EXTENDS FlowControl, TLAPS

\* The two updates every gate decision makes keep their types.
LEMMA SendingType ==
    ASSUME cmds \in [Pane -> Seq(Verb)], NEW S \in SUBSET Pane, NEW v \in Verb
    PROVE  Sending(S, v) \in [Pane -> Seq(Verb)]
BY DEF Sending

LEMMA GateType ==
    ASSUME paused \in [Pane -> BOOLEAN], NEW S \in SUBSET Pane, NEW b \in BOOLEAN
    PROVE  Gate(S, b) \in [Pane -> BOOLEAN]
BY DEF Gate

\* Consuming the head of a pane's stream leaves a stream, and the head is an item.
LEMMA ConsumeType ==
    ASSUME stream \in [Pane -> Seq(Item)], NEW p \in Pane, stream[p] # <<>>, Consume(p)
    PROVE  stream' \in [Pane -> Seq(Item)] /\ Next1(p).size \in Nat
<1>1. stream[p] \in Seq(Item) OBVIOUS
<1>2. Tail(stream[p]) \in Seq(Item) /\ Head(stream[p]) \in Item BY <1>1
<1>3. Head(stream[p]).size \in Nat BY <1>2, Bounds DEF Item
<1> QED BY <1>2, <1>3 DEF Consume, Next1

-----------------------------------------------------------------------------
\* Type correctness: the code only ever keeps ledgers of registered clients
\* and debts of stalled ones, whatever is in flight.
LEMMA InitTypeOK == Init => TypeOK
BY DEF Init, TypeOK, OnlyClientsOwe

LEMMA StepTypeOK == TypeOK /\ [Next]_vars => TypeOK'
<1> SUFFICES ASSUME TypeOK, [Next]_vars PROVE TypeOK' OBVIOUS
<1> USE WaterMarks, Bounds DEF TypeOK, OnlyClientsOwe
<1>1. ASSUME NEW c \in Client, AddClient(c) PROVE TypeOK'
  BY <1>1 DEF AddClient
<1>2. ASSUME NEW c \in Client, RemoveClient(c) PROVE TypeOK'
  <2>1. /\ ledger' \in [Pane -> [Client -> Nat]]
        /\ owed' \in [Pane -> [Client -> Nat]]
    BY <1>2 DEF RemoveClient, DropLedgers
  <2>2. /\ paused' \in [Pane -> BOOLEAN]
        /\ cmds' \in [Pane -> Seq(Verb)]
    <3> DEFINE R == RemoveResumes(ledger')
    <3>1. R \in SUBSET Pane BY DEF RemoveResumes
    <3>2. paused' = Gate(R, FALSE) /\ cmds' = Sending(R, "continue")
      BY <1>2 DEF RemoveClient
    <3> HIDE DEF R
    <3> QED BY <3>1, <3>2, SendingType, GateType DEF Verb
  <2>3. \A p \in Pane, d \in Client \ clients' : ledger'[p][d] = 0
    BY <1>2 DEF RemoveClient, DropLedgers
  <2>4. \A p \in Pane, d \in Client \ stalled' : owed'[p][d] = 0
    BY <1>2 DEF RemoveClient
  <2>5. clients' \subseteq Client /\ stalled' \subseteq clients'
    BY <1>2 DEF RemoveClient
  <2>6. stream' \in [Pane -> Seq(Item)] /\ tmuxPaused' \in [Pane -> BOOLEAN]
    BY <1>2 DEF RemoveClient
  <2> QED BY <2>1, <2>2, <2>3, <2>4, <2>5, <2>6
<1>3. ASSUME NEW c \in Client, NoteDrained(c) PROVE TypeOK'
  <2>1. /\ ledger' \in [Pane -> [Client -> Nat]]
        /\ owed' \in [Pane -> [Client -> Nat]]
    BY <1>3 DEF NoteDrained, Debit
  <2>2. /\ paused' \in [Pane -> BOOLEAN]
        /\ cmds' \in [Pane -> Seq(Verb)]
    <3> DEFINE R == DrainResumes(c, ledger')
    <3>1. R \in SUBSET Pane BY DEF DrainResumes
    <3>2. paused' = Gate(R, FALSE) /\ cmds' = Sending(R, "continue")
      BY <1>3 DEF NoteDrained
    <3> HIDE DEF R
    <3> QED BY <3>1, <3>2, SendingType, GateType DEF Verb
  <2>3. \A p \in Pane, d \in Client \ clients' : ledger'[p][d] = 0
    BY <1>3 DEF NoteDrained, Debit
  <2>4. \A p \in Pane, d \in Client \ stalled' : owed'[p][d] = 0
    BY <1>3 DEF NoteDrained
  <2>5. clients' \subseteq Client /\ stalled' \subseteq clients'
    BY <1>3 DEF NoteDrained
  <2>6. stream' \in [Pane -> Seq(Item)] /\ tmuxPaused' \in [Pane -> BOOLEAN]
    BY <1>3 DEF NoteDrained
  <2> QED BY <2>1, <2>2, <2>3, <2>4, <2>5, <2>6
<1>4. ASSUME NEW p \in Pane, PaneBytesDropped(p) PROVE TypeOK'
  BY <1>4, ConsumeType DEF PaneBytesDropped, Arrives, driver
<1>5. ASSUME NEW p \in Pane, PaneBytesCrossing(p) PROVE TypeOK'
  <2>1. stream' \in [Pane -> Seq(Item)] /\ Next1(p).size \in Nat
    BY <1>5, ConsumeType DEF PaneBytesCrossing, Arrives
  <2>2. FanIn(p, Next1(p).size) \in [Pane -> [Client -> Nat]]
    BY <2>1 DEF FanIn
  <2>3. ledger' \in [Pane -> [Client -> Nat]]
    BY <1>5, <2>2 DEF PaneBytesCrossing, Clamped, Clamp
  <2>4. paused' \in [Pane -> BOOLEAN] /\ cmds' \in [Pane -> Seq(Verb)]
    BY <1>5, SendingType, GateType DEF PaneBytesCrossing, Verb
  <2>5. \A q \in Pane, d \in Client \ clients : ledger'[q][d] = 0
    BY <1>5 DEF PaneBytesCrossing, Clamped, Clamp, FanIn
  <2> QED BY <1>5, <2>1, <2>3, <2>4, <2>5 DEF PaneBytesCrossing
<1>6. ASSUME NEW p \in Pane, PaneBytesFannedOut(p) PROVE TypeOK'
  <2>1. stream' \in [Pane -> Seq(Item)] /\ Next1(p).size \in Nat
    BY <1>6, ConsumeType DEF PaneBytesFannedOut, Arrives
  <2> DEFINE n == Next1(p).size
  <2>2. PICK slow \in SUBSET clients :
          /\ stalled \subseteq slow
          /\ stalled' = slow
          /\ owed' = [owed EXCEPT ![p] =
                [c \in Client |-> IF c \in slow THEN @[c] + n ELSE @[c]]]
          /\ ledger' = [ledger EXCEPT ![p] =
                [c \in Client |-> IF c \in slow THEN @[c] + n ELSE @[c]]]
    BY <1>6 DEF PaneBytesFannedOut
  <2> HIDE DEF n
  <2>3. n \in Nat BY <2>1 DEF n
  <2>4. /\ ledger' \in [Pane -> [Client -> Nat]]
        /\ owed' \in [Pane -> [Client -> Nat]]
    BY <2>2, <2>3
  <2>5. \A q \in Pane, d \in Client \ clients : ledger'[q][d] = 0
    BY <2>2
  <2>6. \A q \in Pane, d \in Client \ stalled' : owed'[q][d] = 0
    BY <2>2
  <2> QED BY <1>6, <2>1, <2>2, <2>4, <2>5, <2>6 DEF PaneBytesFannedOut
<1>7. ASSUME NEW p \in Pane, OnPauseNotification(p) \/ OnContinueNotification(p)
      PROVE  TypeOK'
  BY <1>7, ConsumeType, GateType
  DEF OnPauseNotification, OnContinueNotification, Arrives
<1>8. ASSUME NEW p \in Pane, TmuxOutput(p) PROVE TypeOK'
  <2>1. PICK n \in 1..MaxChunk :
          stream' = [stream EXCEPT ![p] = Append(@, [kind |-> "out", size |-> n])]
    BY <1>8 DEF TmuxOutput
  <2>2. [kind |-> "out", size |-> n] \in Item BY DEF Item
  <2>3. stream' \in [Pane -> Seq(Item)] BY <2>1, <2>2
  <2> QED BY <1>8, <2>3 DEF TmuxOutput, driver
<1>9. ASSUME NEW p \in Pane, TmuxReads(p) PROVE TypeOK'
  <2>1. cmds[p] \in Seq(Verb) /\ cmds[p] # <<>> BY <1>9 DEF TmuxReads
  <2>2. Head(cmds[p]) \in Verb /\ Tail(cmds[p]) \in Seq(Verb) BY <2>1
  <2>3. cmds' \in [Pane -> Seq(Verb)] BY <1>9, <2>2 DEF TmuxReads
  <2>4. [kind |-> Head(cmds[p]), size |-> 0] \in Item BY <2>2 DEF Item
  <2>5. stream' \in [Pane -> Seq(Item)] BY <1>9, <2>4 DEF TmuxReads
  <2>6. tmuxPaused' \in [Pane -> BOOLEAN] BY <1>9 DEF TmuxReads
  <2> QED BY <1>9, <2>3, <2>5, <2>6 DEF TmuxReads, driver
<1>10. CASE UNCHANGED vars BY <1>10 DEF vars
<1> QED BY <1>1, <1>2, <1>3, <1>4, <1>5, <1>6, <1>7, <1>8, <1>9, <1>10
        DEF Next, Parses

THEOREM TypeCorrect == Spec => []TypeOK
BY InitTypeOK, StepTypeOK, PTL DEF Spec

-----------------------------------------------------------------------------
\* FC-6 is part of the types.
LEMMA OnlyClientsStep == TypeOK /\ [Next]_vars => OnlyClientsOwe'
BY StepTypeOK DEF TypeOK

\* FC-1 and the queue bound are inductive together with the types: the
\* crossing chunk only raises ledgers, the clamp cuts none below a debt
\* because no debt passes High.
LEMMA StepCovered == TypeOK /\ Covered /\ [Next]_vars => Covered'
<1> SUFFICES ASSUME TypeOK, Covered, [Next]_vars,
                    NEW q \in Pane, NEW d \in Client
             PROVE  owed'[q][d] <= ledger'[q][d] /\ ledger'[q][d] <= High
  BY OnlyClientsStep DEF Covered, OwedCovered, QueueBounded
<1>0. /\ owed[q][d] <= ledger[q][d] /\ ledger[q][d] <= High
      /\ owed[q][d] \in Nat /\ ledger[q][d] \in Nat
      /\ ledger \in [Pane -> [Client -> Nat]]
      /\ owed \in [Pane -> [Client -> Nat]]
  BY DEF TypeOK, Covered, OwedCovered, QueueBounded
<1> USE WaterMarks, Bounds
<1>1. ASSUME NEW c \in Client, RemoveClient(c)
      PROVE  owed'[q][d] <= ledger'[q][d] /\ ledger'[q][d] <= High
  BY <1>0, <1>1 DEF RemoveClient, DropLedgers
<1>2. ASSUME NEW c \in Client, NoteDrained(c)
      PROVE  owed'[q][d] <= ledger'[q][d] /\ ledger'[q][d] <= High
  BY <1>0, <1>2 DEF NoteDrained, Debit
<1>3. ASSUME NEW p \in Pane, PaneBytesCrossing(p)
      PROVE  owed'[q][d] <= ledger'[q][d] /\ ledger'[q][d] <= High
  <2>1. Next1(p).size \in Nat
    BY <1>3, ConsumeType DEF PaneBytesCrossing, Arrives, TypeOK
  <2> DEFINE L == FanIn(p, Next1(p).size)
  <2>2. L[q][d] \in Nat /\ ledger[q][d] <= L[q][d] /\ (q # p => L[q][d] = ledger[q][d])
    BY <1>0, <2>1 DEF FanIn
  <2>3. L \in [Pane -> [Client -> Nat]]
    BY <1>0, <2>1 DEF FanIn
  <2>4. ledger' = Clamped(L, p) /\ owed' = owed
    BY <1>3 DEF PaneBytesCrossing
  <2> HIDE DEF L
  <2>5. ledger'[q][d] = IF q = p THEN Clamp(L[q][d], High) ELSE L[q][d]
    BY <2>3, <2>4 DEF Clamped
  <2> QED BY <1>0, <2>2, <2>4, <2>5 DEF Clamp
<1>4. ASSUME NEW p \in Pane, PaneBytesFannedOut(p)
      PROVE  owed'[q][d] <= ledger'[q][d] /\ ledger'[q][d] <= High
  <2>1. Next1(p).size \in Nat
    BY <1>4, ConsumeType DEF PaneBytesFannedOut, Arrives, TypeOK
  <2> DEFINE n == Next1(p).size
  <2>2. PICK slow \in SUBSET clients :
          /\ owed' = [owed EXCEPT ![p] =
                [c \in Client |-> IF c \in slow THEN @[c] + n ELSE @[c]]]
          /\ ledger' = [ledger EXCEPT ![p] =
                [c \in Client |-> IF c \in slow THEN @[c] + n ELSE @[c]]]
    BY <1>4 DEF PaneBytesFannedOut
  <2>3. ~(FanIn(p, n)[p][d] > High)
    BY <1>4 DEF PaneBytesFannedOut, Crosses
  <2>4. FanIn(p, n)[p][d] = IF d \in clients THEN ledger[p][d] + n ELSE ledger[p][d]
    BY <1>0 DEF FanIn
  <2>5. ledger[p][d] \in Nat BY <1>0
  <2> HIDE DEF n
  <2>6. n \in Nat BY <2>1 DEF n
  <2>7. (d \in slow /\ q = p) => ledger[q][d] + n <= High
    BY <2>2, <2>3, <2>4, <2>5, <2>6
  <2>8. /\ owed'[q][d] = IF q = p /\ d \in slow THEN owed[q][d] + n ELSE owed[q][d]
        /\ ledger'[q][d] = IF q = p /\ d \in slow THEN ledger[q][d] + n ELSE ledger[q][d]
    BY <1>0, <2>2
  <2> QED BY <1>0, <2>6, <2>7, <2>8
<1>5. ASSUME UNCHANGED <<ledger, owed>>
      PROVE  owed'[q][d] <= ledger'[q][d] /\ ledger'[q][d] <= High
  BY <1>0, <1>5
<1> QED BY <1>1, <1>2, <1>3, <1>4, <1>5
        DEF Next, Parses, vars, driver, AddClient, PaneBytesDropped,
            OnPauseNotification, OnContinueNotification, TmuxOutput, TmuxReads

\* FC-1 holds and every client's queue stays within high-water; who has left
\* neither keeps a ledger nor owes (FC-6).
THEOREM LedgersCoverDebts == Spec => []Covered
<1>1. Init => Covered
  BY WaterMarks DEF Init, Covered, OnlyClientsOwe, OwedCovered, QueueBounded
<1> QED BY <1>1, InitTypeOK, StepTypeOK, StepCovered, PTL DEF Spec

-----------------------------------------------------------------------------
(***************************************************************************)
(* QuietAgreement is not inductive: while messages are in flight the gate  *)
(* and tmux's flag may differ.  What is kept is what the messages in       *)
(* flight will do: the last notification carries tmux's present flag, and  *)
(* with no notification in flight a run of commands that change nothing    *)
(* finds the gate where tmux is.                                           *)
(***************************************************************************)
IsNotice(it) == it.kind # "out"
NoNotice(st) == \A i \in 1..Len(st) : ~IsNotice(st[i])

LastNoticeIsFlag(st, flag) ==
    \A i \in 1..Len(st) :
        (IsNotice(st[i]) /\ \A j \in (i + 1)..Len(st) : ~IsNotice(st[j]))
            => (flag <=> st[i].kind = "pause")

IdleRunAgrees(cs, st, gate, flag) ==
    (NoNotice(st) /\ \A i \in 1..Len(cs) : (flag <=> cs[i] = "pause")) => (gate <=> flag)

InFlightAgree(cs, st, gate, flag) ==
    LastNoticeIsFlag(st, flag) /\ IdleRunAgrees(cs, st, gate, flag)

\* A gate decision moves the gate and appends the matching command.
LEMMA DecisionAgrees ==
    ASSUME NEW cs \in Seq(Verb), NEW st, NEW gate, NEW flag, NEW v \in Verb,
           InFlightAgree(cs, st, gate, flag),
           NEW to, to <=> (v = "pause")
    PROVE  InFlightAgree(Append(cs, v), st, to, flag)
<1>1. Append(cs, v)[Len(cs) + 1] = v /\ Len(Append(cs, v)) = Len(cs) + 1
  OBVIOUS
<1>2. Len(cs) + 1 \in 1..Len(Append(cs, v)) BY <1>1
<1> QED BY <1>1, <1>2 DEF InFlightAgree, LastNoticeIsFlag, IdleRunAgrees

\* Reading a command: tmux notifies exactly the changes.
LEMMA ReadAgrees ==
    ASSUME NEW cs \in Seq(Verb), cs # <<>>, NEW st \in Seq(Item),
           NEW gate \in BOOLEAN, NEW flag \in BOOLEAN,
           InFlightAgree(cs, st, gate, flag),
           NEW want \in BOOLEAN, want <=> (Head(cs) = "pause"),
           NEW st2,
           st2 = IF flag = want THEN st
                 ELSE Append(st, [kind |-> Head(cs), size |-> 0])
    PROVE  InFlightAgree(Tail(cs), st2, gate, want)
<1>0. Head(cs) \in Verb /\ Head(cs) = cs[1] /\ Tail(cs) \in Seq(Verb) /\ Len(cs) \in Nat
      /\ Len(cs) >= 1 /\ Len(Tail(cs)) = Len(cs) - 1
      /\ \A i \in 1..Len(Tail(cs)) : Tail(cs)[i] = cs[i + 1]
  OBVIOUS
<1>1. CASE flag = want
  <2>1. st2 = st BY <1>1
  <2>2. (\A i \in 1..Len(Tail(cs)) : (want <=> Tail(cs)[i] = "pause"))
          => \A i \in 1..Len(cs) : (flag <=> cs[i] = "pause")
    <3> SUFFICES ASSUME \A i \in 1..Len(Tail(cs)) : (want <=> Tail(cs)[i] = "pause"),
                        NEW i \in 1..Len(cs)
                 PROVE  flag <=> cs[i] = "pause"
      OBVIOUS
    <3>1. CASE i = 1 BY <1>0, <1>1, <3>1
    <3>2. CASE i # 1
      <4>1. i - 1 \in 1..Len(Tail(cs)) /\ Tail(cs)[i - 1] = cs[i]
        BY <1>0, <3>2
      <4> QED BY <4>1, <1>1
    <3> QED BY <3>1, <3>2
  <2> QED BY <1>1, <2>1, <2>2 DEF InFlightAgree, LastNoticeIsFlag, IdleRunAgrees
<1>2. CASE flag # want
  <2> DEFINE note == [kind |-> Head(cs), size |-> 0]
  <2>1. st2 = Append(st, note) BY <1>2
  <2>2. IsNotice(note) /\ note.kind = Head(cs) BY <1>0 DEF IsNotice, Verb
  <2> HIDE DEF note
  <2>3. Len(st2) = Len(st) + 1 /\ st2[Len(st) + 1] = note /\ Len(st) \in Nat
    BY <2>1
  <2>4. ~NoNotice(st2) BY <2>2, <2>3 DEF NoNotice
  <2>5. ASSUME NEW i \in 1..Len(st2), IsNotice(st2[i]),
               \A j \in (i + 1)..Len(st2) : ~IsNotice(st2[j])
        PROVE  want <=> st2[i].kind = "pause"
    <3>1. i = Len(st) + 1 BY <2>2, <2>3, <2>5
    <3> QED BY <3>1, <2>2, <2>3
  <2> QED BY <2>4, <2>5 DEF InFlightAgree, LastNoticeIsFlag, IdleRunAgrees
<1> QED BY <1>1, <1>2

\* tmux writing a chunk changes nothing.
LEMMA WriteAgrees ==
    ASSUME NEW cs, NEW st \in Seq(Item), NEW gate, NEW flag,
           InFlightAgree(cs, st, gate, flag), NEW it, ~IsNotice(it)
    PROVE  InFlightAgree(cs, Append(st, it), gate, flag)
<1> DEFINE st2 == Append(st, it)
<1>1. /\ Len(st2) = Len(st) + 1 /\ Len(st) \in Nat
      /\ st2[Len(st) + 1] = it
      /\ \A i \in 1..Len(st) : st2[i] = st[i]
  OBVIOUS
<1> HIDE DEF st2
<1>2. NoNotice(st2) => NoNotice(st) BY <1>1 DEF NoNotice
<1>3. ASSUME NEW i \in 1..Len(st2), IsNotice(st2[i]),
             \A j \in (i + 1)..Len(st2) : ~IsNotice(st2[j])
      PROVE  flag <=> st2[i].kind = "pause"
  <2>1. i \in 1..Len(st) BY <1>1, <1>3
  <2>2. \A j \in (i + 1)..Len(st) : ~IsNotice(st[j]) BY <1>1, <1>3, <2>1
  <2> QED BY <1>1, <1>3, <2>1, <2>2 DEF InFlightAgree, LastNoticeIsFlag
<1> QED BY <1>2, <1>3 DEF InFlightAgree, LastNoticeIsFlag, IdleRunAgrees, st2

\* Parsing the head: a chunk leaves the gate, a notification sets it.
LEMMA ParseAgrees ==
    ASSUME NEW cs, NEW st \in Seq(Item), st # <<>>, NEW gate, NEW flag,
           InFlightAgree(cs, st, gate, flag), NEW to \in BOOLEAN,
           to = IF IsNotice(Head(st)) THEN Head(st).kind = "pause" ELSE gate
    PROVE  InFlightAgree(cs, Tail(st), to, flag)
<1> DEFINE st2 == Tail(st)
<1>1. /\ Len(st) \in Nat /\ Len(st) >= 1 /\ Len(st2) = Len(st) - 1
      /\ Head(st) = st[1]
      /\ \A i \in 1..Len(st2) : st2[i] = st[i + 1]
  OBVIOUS
<1> HIDE DEF st2
<1>2. ASSUME NEW i \in 1..Len(st2), IsNotice(st2[i]),
             \A j \in (i + 1)..Len(st2) : ~IsNotice(st2[j])
      PROVE  flag <=> st2[i].kind = "pause"
  <2>1. i + 1 \in 1..Len(st) /\ st2[i] = st[i + 1] BY <1>1
  <2>2. ASSUME NEW j \in (i + 2)..Len(st) PROVE ~IsNotice(st[j])
    <3>1. j - 1 \in (i + 1)..Len(st2) /\ st2[j - 1] = st[j] BY <1>1
    <3> QED BY <1>2, <3>1
  <2>3. \A j \in ((i + 1) + 1)..Len(st) : ~IsNotice(st[j]) BY <2>2
  <2>4. IsNotice(st[i + 1]) BY <1>2, <2>1
  <2> QED BY <2>1, <2>3, <2>4 DEF InFlightAgree, LastNoticeIsFlag
<1>3. ASSUME NoNotice(st2), \A i \in 1..Len(cs) : (flag <=> cs[i] = "pause")
      PROVE  to <=> flag
  <2>1. \A j \in 2..Len(st) : ~IsNotice(st[j])
    <3> SUFFICES ASSUME NEW j \in 2..Len(st) PROVE ~IsNotice(st[j]) OBVIOUS
    <3>1. j - 1 \in 1..Len(st2) /\ st2[j - 1] = st[j] BY <1>1
    <3> QED BY <1>3, <3>1 DEF NoNotice
  <2>2. CASE IsNotice(Head(st))
    <3>1. 1 \in 1..Len(st) /\ \A j \in (1 + 1)..Len(st) : ~IsNotice(st[j])
      BY <1>1, <2>1
    <3>2. flag <=> st[1].kind = "pause"
      BY <1>1, <2>2, <3>1 DEF InFlightAgree, LastNoticeIsFlag
    <3> QED BY <1>1, <2>2, <3>2
  <2>3. CASE ~IsNotice(Head(st))
    <3>1. NoNotice(st) BY <1>1, <2>1, <2>3 DEF NoNotice
    <3> QED BY <1>3, <2>3, <3>1 DEF InFlightAgree, IdleRunAgrees
  <2> QED BY <2>2, <2>3
<1> QED BY <1>2, <1>3 DEF InFlightAgree, LastNoticeIsFlag, IdleRunAgrees, st2

AgreeInv == \A p \in Pane : InFlightAgree(cmds[p], stream[p], paused[p], tmuxPaused[p])

LEMMA StepAgree == TypeOK /\ AgreeInv /\ [Next]_vars => AgreeInv'
<1> SUFFICES ASSUME TypeOK, AgreeInv, [Next]_vars, NEW q \in Pane
             PROVE  InFlightAgree(cmds'[q], stream'[q], paused'[q], tmuxPaused'[q])
  BY DEF AgreeInv
<1> DEFINE Goal == InFlightAgree(cmds'[q], stream'[q], paused'[q], tmuxPaused'[q])
<1>0. /\ InFlightAgree(cmds[q], stream[q], paused[q], tmuxPaused[q])
      /\ cmds[q] \in Seq(Verb) /\ stream[q] \in Seq(Item)
      /\ paused[q] \in BOOLEAN /\ tmuxPaused[q] \in BOOLEAN
      /\ paused \in [Pane -> BOOLEAN] /\ stream \in [Pane -> Seq(Item)]
      /\ tmuxPaused \in [Pane -> BOOLEAN] /\ cmds \in [Pane -> Seq(Verb)]
  BY DEF TypeOK, AgreeInv
<1>1. ASSUME NEW R \in SUBSET Pane, paused' = Gate(R, FALSE),
             cmds' = Sending(R, "continue"), UNCHANGED <<stream, tmuxPaused>>
      PROVE  Goal
  <2>1. CASE q \in R
    <3>1. paused'[q] = FALSE /\ cmds'[q] = Append(cmds[q], "continue")
      BY <1>1, <2>1 DEF Gate, Sending
    <3>2. InFlightAgree(Append(cmds[q], "continue"), stream[q], FALSE, tmuxPaused[q])
      BY <1>0, DecisionAgrees DEF Verb
    <3> QED BY <1>1, <3>1, <3>2
  <2>2. CASE q \notin R
    BY <1>0, <1>1, <2>2 DEF Gate, Sending
  <2> QED BY <2>1, <2>2
<1>2. ASSUME NEW c \in Client, RemoveClient(c) \/ NoteDrained(c) PROVE Goal
  <2>1. CASE RemoveClient(c)
    BY <1>1, <2>1 DEF RemoveClient, RemoveResumes
  <2>2. CASE NoteDrained(c)
    BY <1>1, <2>2 DEF NoteDrained, DrainResumes
  <2> QED BY <1>2, <2>1, <2>2
<1>3. ASSUME NEW p \in Pane, Parses(p) PROVE Goal
  <2>1. stream[p] # <<>> /\ stream' = [stream EXCEPT ![p] = Tail(@)]
        /\ tmuxPaused' = tmuxPaused
    BY <1>3 DEF Parses, Arrives, Consume, PaneBytesDropped, PaneBytesCrossing,
       PaneBytesFannedOut, OnPauseNotification, OnContinueNotification
  <2>2. CASE q # p
    BY <1>0, <1>3, <2>1, <2>2 DEF Parses, PaneBytesDropped, PaneBytesCrossing, driver,
       PaneBytesFannedOut, OnPauseNotification, OnContinueNotification, Gate, Sending
  <2>3. CASE q = p
    <3>1. stream'[q] = Tail(stream[q]) BY <1>0, <2>1, <2>3
    <3>2. CASE PaneBytesDropped(p) \/ PaneBytesFannedOut(p)
      <4>1. ~IsNotice(Head(stream[q])) /\ paused'[q] = paused[q] /\ cmds'[q] = cmds[q]
        BY <2>3, <3>2 DEF PaneBytesDropped, PaneBytesFannedOut, Arrives, Next1,
           IsNotice, driver
      <4>2. InFlightAgree(cmds[q], Tail(stream[q]), paused[q], tmuxPaused[q])
        BY <1>0, <2>1, <2>3, <4>1, ParseAgrees
      <4> QED BY <2>1, <3>1, <4>1, <4>2
    <3>3. CASE PaneBytesCrossing(p)
      <4>1. /\ ~IsNotice(Head(stream[q])) /\ paused'[q] = TRUE
            /\ cmds'[q] = Append(cmds[q], "pause")
        BY <1>0, <2>3, <3>3 DEF PaneBytesCrossing, Arrives, Next1, IsNotice, Gate, Sending
      <4>2. InFlightAgree(cmds[q], Tail(stream[q]), paused[q], tmuxPaused[q])
        BY <1>0, <2>1, <2>3, <4>1, ParseAgrees
      <4>3. InFlightAgree(Append(cmds[q], "pause"), Tail(stream[q]), TRUE, tmuxPaused[q])
        BY <1>0, <4>2, DecisionAgrees DEF Verb
      <4> QED BY <2>1, <3>1, <4>1, <4>3
    <3>4. CASE OnPauseNotification(p)
      <4>1. IsNotice(Head(stream[q])) /\ Head(stream[q]).kind = "pause"
            /\ paused'[q] = TRUE /\ cmds'[q] = cmds[q]
        BY <2>3, <3>4 DEF OnPauseNotification, Arrives, Next1, IsNotice, Gate
      <4> QED BY <1>0, <2>1, <2>3, <3>1, <4>1, ParseAgrees
    <3>5. CASE OnContinueNotification(p)
      <4>1. IsNotice(Head(stream[q])) /\ Head(stream[q]).kind = "continue"
            /\ paused'[q] = FALSE /\ cmds'[q] = cmds[q]
        BY <2>3, <3>5 DEF OnContinueNotification, Arrives, Next1, IsNotice, Gate
      <4>2. FALSE = (Head(stream[q]).kind = "pause") BY <4>1
      <4>3. InFlightAgree(cmds[q], Tail(stream[q]), FALSE, tmuxPaused[q])
        BY <1>0, <2>1, <2>3, <4>1, <4>2, ParseAgrees
      <4> QED BY <2>1, <3>1, <4>1, <4>3
    <3> QED BY <1>3, <3>2, <3>3, <3>4, <3>5 DEF Parses
  <2> QED BY <2>2, <2>3
<1>4. ASSUME NEW p \in Pane, TmuxOutput(p) PROVE Goal
  <2>1. PICK n \in 1..MaxChunk :
          stream' = [stream EXCEPT ![p] = Append(@, [kind |-> "out", size |-> n])]
    BY <1>4 DEF TmuxOutput
  <2>2. ~IsNotice([kind |-> "out", size |-> n]) BY DEF IsNotice
  <2>3. paused' = paused /\ cmds' = cmds /\ tmuxPaused' = tmuxPaused
    BY <1>4 DEF TmuxOutput, driver
  <2>4. CASE q = p
    <3>1. stream'[q] = Append(stream[q], [kind |-> "out", size |-> n])
      BY <1>0, <2>1, <2>4
    <3> QED BY <1>0, <2>2, <2>3, <3>1, WriteAgrees
  <2>5. CASE q # p BY <1>0, <2>1, <2>3, <2>5
  <2> QED BY <2>4, <2>5
<1>5. ASSUME NEW p \in Pane, TmuxReads(p) PROVE Goal
  <2> DEFINE want == Head(cmds[p]) = "pause"
  <2>1. /\ cmds[p] # <<>>
        /\ tmuxPaused' = [tmuxPaused EXCEPT ![p] = want]
        /\ stream' = IF tmuxPaused[p] = want THEN stream
                     ELSE [stream EXCEPT ![p] =
                             Append(@, [kind |-> Head(cmds[p]), size |-> 0])]
        /\ cmds' = [cmds EXCEPT ![p] = Tail(@)]
        /\ paused' = paused
    BY <1>5 DEF TmuxReads, driver
  <2>2. want \in BOOLEAN OBVIOUS
  <2>3. CASE q = p
    <3>1. /\ cmds'[q] = Tail(cmds[q]) /\ tmuxPaused'[q] = want /\ paused'[q] = paused[q]
          /\ stream'[q] = IF tmuxPaused[q] = want THEN stream[q]
                          ELSE Append(stream[q], [kind |-> Head(cmds[q]), size |-> 0])
      BY <1>0, <2>1, <2>3
    <3>2. (want <=> Head(cmds[q]) = "pause") /\ cmds[q] # <<>> BY <2>1, <2>3
    <3> HIDE DEF want
    <3>3. InFlightAgree(Tail(cmds[q]),
                        IF tmuxPaused[q] = want THEN stream[q]
                        ELSE Append(stream[q], [kind |-> Head(cmds[q]), size |-> 0]),
                        paused[q], want)
      <4>1. /\ InFlightAgree(cmds[q], stream[q], paused[q], tmuxPaused[q])
            /\ cmds[q] \in Seq(Verb) /\ stream[q] \in Seq(Item)
            /\ paused[q] \in BOOLEAN /\ tmuxPaused[q] \in BOOLEAN
        BY <1>0
      <4> QED BY <2>2, <3>2, <4>1, ReadAgrees
    <3> QED BY <3>1, <3>3
  <2>4. CASE q # p BY <1>0, <2>1, <2>4
  <2> QED BY <2>3, <2>4
<1>6. ASSUME UNCHANGED <<paused, cmds, stream, tmuxPaused>> PROVE Goal
  BY <1>0, <1>6
<1> QED BY <1>2, <1>3, <1>4, <1>5, <1>6 DEF Next, vars, AddClient

\* Whenever nothing is in flight for a pane, the driver's gate and tmux's
\* pause flag agree (FC-2 and the two notification handlers).
THEOREM GateFollowsTmux == Spec => []QuietAgreement
<1>1. Init => AgreeInv
  <2> SUFFICES ASSUME Init, NEW p \in Pane
               PROVE  InFlightAgree(<<>>, <<>>, FALSE, FALSE)
    BY DEF Init, AgreeInv
  <2> QED BY DEF InFlightAgree, LastNoticeIsFlag, IdleRunAgrees
<1>2. TypeOK /\ AgreeInv => QuietAgreement
  <2> SUFFICES ASSUME TypeOK, AgreeInv, NEW p \in Pane, Quiet(p)
               PROVE  paused[p] = tmuxPaused[p]
    BY DEF QuietAgreement
  <2>1. paused[p] \in BOOLEAN /\ tmuxPaused[p] \in BOOLEAN BY DEF TypeOK
  <2>2. IdleRunAgrees(<<>>, <<>>, paused[p], tmuxPaused[p])
    BY DEF AgreeInv, Quiet, InFlightAgree
  <2>3. paused[p] <=> tmuxPaused[p] BY <2>2 DEF IdleRunAgrees, NoNotice
  <2> QED BY <2>1, <2>3
<1> QED BY <1>1, <1>2, InitTypeOK, StepTypeOK, StepAgree, PTL DEF Spec

-----------------------------------------------------------------------------
\* A command queue that grew by "continue" was neither left alone, nor read,
\* nor sent a pause.
LEMMA GrownByContinue ==
    ASSUME NEW cs \in Seq(Verb)
    PROVE  LET grown == Append(cs, "continue")
           IN  /\ grown # cs
               /\ cs # <<>> => grown # Tail(cs)
               /\ grown # Append(cs, "pause")
<1>1. Len(Append(cs, "continue")) = Len(cs) + 1 /\ Len(cs) \in Nat
      /\ Append(cs, "continue")[Len(cs) + 1] = "continue"
      /\ Append(cs, "pause")[Len(cs) + 1] = "pause"
  BY DEF Verb
<1>2. ASSUME cs # <<>> PROVE Len(Tail(cs)) = Len(cs) - 1
  BY <1>2
<1>3. ASSUME cs # <<>> PROVE Append(cs, "continue") # Tail(cs)
  <2>1. Len(cs) + 1 # Len(cs) - 1 BY <1>1
  <2> QED BY <1>1, <1>2, <1>3, <2>1
<1>4. Append(cs, "continue") # Append(cs, "pause") BY <1>1
<1> QED BY <1>1, <1>3, <1>4

\* FC-3: a continue is only ever sent for a pane whose every ledger is at or
\* below low-water after the step that sends it.
THEOREM ContinueOnlyWhenDrained == Spec => SlowestGoverns
<1>1. ASSUME TypeOK, [Next]_vars, NEW p \in Pane,
             cmds'[p] = Append(cmds[p], "continue")
      PROVE  AllDrained(ledger', p)
  <2>0. cmds[p] \in Seq(Verb) /\ cmds \in [Pane -> Seq(Verb)]
    BY <1>1 DEF TypeOK
  <2>1. ASSUME NEW c \in Client, RemoveClient(c) PROVE AllDrained(ledger', p)
    <3>1. p \in RemoveResumes(ledger')
      BY <1>1, <2>0, <2>1, GrownByContinue DEF RemoveClient, Sending
    <3> QED BY <3>1 DEF RemoveResumes
  <2>2. ASSUME NEW c \in Client, NoteDrained(c) PROVE AllDrained(ledger', p)
    <3>1. p \in DrainResumes(c, ledger')
      BY <1>1, <2>0, <2>2, GrownByContinue DEF NoteDrained, Sending
    <3> QED BY <3>1 DEF DrainResumes
  <2>3. ASSUME NEW q \in Pane, PaneBytesCrossing(q) PROVE FALSE
    BY <1>1, <2>0, <2>3, GrownByContinue DEF PaneBytesCrossing, Sending
  <2>4. ASSUME NEW q \in Pane, TmuxReads(q) PROVE FALSE
    <3>1. cmds[q] # <<>> /\ cmds' = [cmds EXCEPT ![q] = Tail(@)]
      BY <2>4 DEF TmuxReads
    <3>2. CASE p = q
      <4>1. cmds[p] # <<>> /\ cmds'[p] = Tail(cmds[p])
        BY <2>0, <3>1, <3>2
      <4> QED BY <1>1, <2>0, <4>1, GrownByContinue
    <3>3. CASE p # q
      <4>1. cmds'[p] = cmds[p] BY <2>0, <3>1, <3>3
      <4> QED BY <1>1, <2>0, <4>1, GrownByContinue
    <3> QED BY <3>2, <3>3
  <2>5. cmds' # cmds BY <1>1, <2>0, GrownByContinue
  <2> QED BY <1>1, <2>1, <2>2, <2>3, <2>4, <2>5
          DEF Next, Parses, vars, driver, AddClient, PaneBytesDropped,
              PaneBytesFannedOut, OnPauseNotification, OnContinueNotification, TmuxOutput
<1>2. TypeOK /\ [Next]_vars =>
        [\A p \in Pane :
          cmds'[p] = Append(cmds[p], "continue") => AllDrained(ledger', p)]_vars
  BY <1>1
<1> QED BY <1>2, InitTypeOK, StepTypeOK, PTL DEF Spec, SlowestGoverns
=============================================================================
