-------------------------- MODULE CorrelatorProofs ---------------------------
(***************************************************************************)
(* Proofs about Correlator for any number of commands and of bootstrap     *)
(* attempts: its types, and, as long as no body looks like a block of its  *)
(* own, that replies reach their commands and CommandReply is implemented. *)
(***************************************************************************)
EXTENDS Correlator, SequenceTheorems, TLAPS

\* What a queue is after more of the same kind was put behind it.
LEMMA Behind ==
    ASSUME NEW S, NEW s \in Seq(S), NEW n \in Nat, NEW f \in [1..n -> S]
    PROVE  /\ s \o f \in Seq(S)
           /\ Len(s \o f) = Len(s) + n
           /\ \A i \in 1..Len(s) : (s \o f)[i] = s[i]
           /\ \A i \in 1..n : (s \o f)[Len(s) + i] = f[i]
<1>1. f \in Seq(S) /\ Len(f) = n BY IsASeq, LenProperties
<1>2. Len(s) \in Nat BY LenProperties
<1>3. \A i \in 1..n : Len(s) + i \in 1..(Len(s) + n) /\ Len(s) + i > Len(s)
  BY <1>2
<1>4. /\ s \o f \in Seq(S) /\ Len(s \o f) = Len(s) + n
      /\ \A i \in 1..(Len(s) + n) : (s \o f)[i] = IF i <= Len(s) THEN s[i] ELSE f[i - Len(s)]
  BY <1>1, ConcatProperties
<1>5. \A i \in 1..Len(s) : i \in 1..(Len(s) + n) /\ i <= Len(s) BY <1>2
<1>6. \A i \in 1..n : (Len(s) + i) - Len(s) = i /\ ~(Len(s) + i <= Len(s)) BY <1>2
<1>7. \A i \in 1..n : (s \o f)[Len(s) + i] = f[i] BY <1>3, <1>4, <1>6
<1>8. \A i \in 1..Len(s) : (s \o f)[i] = s[i] BY <1>4, <1>5
<1> QED BY <1>4, <1>7, <1>8

\* What a queue is after its first element has gone.
LEMMA Ahead ==
    ASSUME NEW S, NEW s \in Seq(S), s # <<>>
    PROVE  /\ Tail(s) \in Seq(S) /\ Len(Tail(s)) = Len(s) - 1
           /\ Len(s) \in Nat \ {0} /\ s[1] \in S /\ Head(s) = s[1]
           /\ \A i \in 1..(Len(s) - 1) : Tail(s)[i] = s[i + 1]
BY HeadTailProperties, EmptySeq, LenProperties

-----------------------------------------------------------------------------
(* Types *)

\* A block is being read only while there is one, and not beyond its last line; the last
\* attempt does not stall.
Within ==
    /\ read # 0 => (fromTmux # <<>> /\ read < Len(Lines(fromTmux[1])))
    /\ boot.stage = "to list" => boot.attempt <= Bounded
TypeInv == TypeOK /\ Within

\* The lines of every kind of block.
LEMMA LinesType ==
    ASSUME NEW b \in [cmd : {Startup} \cup Command, body : Bodies]
    PROVE  Len(Lines(b)) \in 2..5
<1>1. b.body \in {"plain", "guard", "transcript"} BY BootstrapParameters DEF Body
<1>2. CASE b.body = "plain" BY <1>2 DEF Lines
<1>3. CASE b.body = "guard" BY <1>3 DEF Lines
<1>4. CASE b.body = "transcript" BY <1>4 DEF Lines
<1> QED BY <1>1, <1>2, <1>3, <1>4

\* TypeOK, piece by piece.
LEMMA TypeFacts ==
    ASSUME TypeOK
    PROVE  /\ MaxSent \in Nat /\ sent \in Nat /\ sent <= MaxSent
           /\ toTmux \in Seq(Command)
           /\ fromTmux \in Seq([cmd : {Startup} \cup Command, body : Bodies])
           /\ pending \in Seq(SlotType)
           /\ \A i \in DOMAIN pending : pending[i].cmd = (sent - Len(pending)) + i
           /\ promise \in [Command -> {"unsent", "waiting", "resolved", "rejected"}]
           /\ reply \in [Command -> Nat]
<1>1. MaxSent \in Nat BY BootstrapParameters
<1>2. sent \in 0..MaxSent BY DEF TypeOK
<1>3. sent \in Nat /\ sent <= MaxSent BY <1>1, <1>2
<1> QED BY <1>1, <1>3 DEF TypeOK

\* Slots and commands are queued together, whoever sends.
LEMMA SendingType ==
    ASSUME TypeOK, NEW n \in {1, 2}, Sending(n)
    PROVE  /\ sent' \in 0..MaxSent /\ sent' = sent + n
           /\ toTmux' \in Seq(Command)
           /\ pending' \in Seq(SlotType)
           /\ \A i \in DOMAIN pending' : pending'[i].cmd = (sent' - Len(pending')) + i
           /\ promise' \in [Command -> {"unsent", "waiting", "resolved", "rejected"}]
           /\ reply' \in [Command -> Nat]
<1> DEFINE cs == [i \in 1..n |-> sent + i]
           ss == [i \in 1..n |-> Slot(sent + i)]
<1>a. MaxSent \in Nat /\ sent \in Nat /\ sent <= MaxSent /\ n \in Nat
      /\ toTmux \in Seq(Command) /\ pending \in Seq(SlotType)
      /\ \A i \in DOMAIN pending : pending[i].cmd = (sent - Len(pending)) + i
      /\ promise \in [Command -> {"unsent", "waiting", "resolved", "rejected"}]
      /\ reply \in [Command -> Nat]
  BY TypeFacts
<1>b. sent + n <= MaxSent /\ sent' = sent + n /\ reply' = reply
      /\ toTmux' = toTmux \o cs /\ pending' = pending \o ss
  BY DEF Sending
<1>1. cs \in [1..n -> Command] BY <1>a, <1>b DEF Command
<1>2. ss \in [1..n -> SlotType] BY <1>a, <1>b DEF Command, SlotType, Slot
<1>c. promise' = [c \in Command |-> IF sent < c /\ c <= sent + n THEN "waiting" ELSE promise[c]]
  BY DEF Sending
<1>d. promise \in [Command -> {"unsent", "waiting", "resolved", "rejected"}] BY TypeFacts
<1>3. promise' \in [Command -> {"unsent", "waiting", "resolved", "rejected"}]
  BY <1>c, <1>d
<1> HIDE DEF cs
<1>4. toTmux' \in Seq(Command) BY <1>a, <1>b, <1>1, Behind
<1>5. \A i \in 1..n : ss[i].cmd = sent + i BY DEF Slot
<1> HIDE DEF ss
<1>6. /\ pending' \in Seq(SlotType) /\ Len(pending') = Len(pending) + n
      /\ \A i \in 1..Len(pending) : pending'[i] = pending[i]
      /\ \A i \in 1..n : pending'[Len(pending) + i] = ss[i]
  BY <1>a, <1>b, <1>2, Behind
<1>7. \A i \in DOMAIN pending' : pending'[i].cmd = (sent' - Len(pending')) + i
  <2> SUFFICES ASSUME NEW i \in DOMAIN pending'
               PROVE pending'[i].cmd = (sent' - Len(pending')) + i
    OBVIOUS
  <2>1. Len(pending) \in Nat /\ DOMAIN pending = 1..Len(pending) BY <1>a, LenProperties
  <2>2. i \in 1..(Len(pending) + n) BY <1>6, LenProperties
  <2>3. sent' - Len(pending') = sent - Len(pending) BY <1>a, <1>b, <1>6, <2>1
  <2>4. CASE i \in 1..Len(pending) BY <1>a, <1>6, <2>1, <2>3, <2>4
  <2>5. CASE i \notin 1..Len(pending)
    <3> DEFINE j == i - Len(pending)
    <3>1. j \in 1..n /\ i = Len(pending) + j BY <1>a, <2>1, <2>2, <2>5
    <3>2. pending'[i].cmd = sent + j BY <3>1, <1>5, <1>6
    <3> QED BY <3>1, <3>2, <2>1, <2>3, <1>a
  <2> QED BY <2>4, <2>5
<1>8. sent' \in 0..MaxSent /\ sent' = sent + n BY <1>a, <1>b
<1>e. reply \in [Command -> Nat] BY TypeFacts
<1>9. reply' \in [Command -> Nat] BY <1>b, <1>e
<1> QED BY <1>3, <1>4, <1>6, <1>7, <1>8, <1>9

\* Whatever becomes of the oldest slot, the queue and the promises keep their types.
LEMMA DequeueType ==
    ASSUME TypeOK, NEW how \in {"resolved", "rejected"}, NEW num \in Nat,
           pending # <<>>, Dequeue(how, num)
    PROVE  /\ pending' \in Seq(SlotType) /\ Len(pending') = Len(pending) - 1
           /\ \A i \in DOMAIN pending' : pending'[i].cmd = (sent - Len(pending')) + i
           /\ promise' \in [Command -> {"unsent", "waiting", "resolved", "rejected"}]
           /\ reply' \in [Command -> Nat]
<1>a. pending \in Seq(SlotType) /\ sent \in Nat
      /\ \A i \in DOMAIN pending : pending[i].cmd = (sent - Len(pending)) + i
      /\ promise \in [Command -> {"unsent", "waiting", "resolved", "rejected"}]
      /\ reply \in [Command -> Nat]
  BY TypeFacts
<1>b. pending' = Tail(pending) BY DEF Dequeue, Dequeued
<1>1. /\ pending' \in Seq(SlotType) /\ Len(pending') = Len(pending) - 1
      /\ Len(pending) \in Nat \ {0}
      /\ \A i \in 1..(Len(pending) - 1) : pending'[i] = pending[i + 1]
  BY <1>a, <1>b, Ahead
<1>2. DOMAIN pending' = 1..(Len(pending) - 1) /\ DOMAIN pending = 1..Len(pending)
  BY <1>a, <1>1, LenProperties
<1>3. \A i \in DOMAIN pending' : pending'[i].cmd = (sent - Len(pending')) + i
  <2> SUFFICES ASSUME NEW i \in DOMAIN pending'
               PROVE pending'[i].cmd = (sent - Len(pending')) + i
    OBVIOUS
  <2>1. i \in 1..(Len(pending) - 1) /\ i + 1 \in DOMAIN pending /\ i \in Nat BY <1>1, <1>2
  <2>2. pending'[i].cmd = (sent - Len(pending)) + (i + 1) BY <1>a, <1>1, <2>1
  <2> QED BY <1>a, <1>1, <2>1, <2>2
<1>4. promise' \in [Command -> {"unsent", "waiting", "resolved", "rejected"}]
  BY <1>a DEF Dequeue, Settles, promises
<1>5. reply' \in [Command -> Nat]
  BY <1>a DEF Dequeue, Settles, promises
<1> QED BY <1>1, <1>3, <1>4, <1>5

\* The conjuncts of TypeOK that a reply block can disturb.
SlotsTyped ==
    /\ pending \in Seq(SlotType)
    /\ \A i \in DOMAIN pending : pending[i].cmd = (sent - Len(pending)) + i
    /\ promise \in [Command -> {"unsent", "waiting", "resolved", "rejected"}]
    /\ reply \in [Command -> Nat]
    /\ unsolicited \in BOOLEAN

LEMMA RejectOldestType ==
    ASSUME TypeOK, RejectOldest, UNCHANGED <<sent, unsolicited>>
    PROVE  SlotsTyped'
<1>1. CASE pending = <<>>
  <2>1. UNCHANGED <<pending, promise, reply>> BY <1>1 DEF RejectOldest, promises
  <2> QED BY <2>1 DEF TypeOK, SlotsTyped
<1>2. CASE pending # <<>>
  <2>1. Dequeue("rejected", 0) BY <1>2 DEF RejectOldest
  <2>2. unsolicited' \in BOOLEAN /\ sent' = sent BY DEF TypeOK
  <2> QED BY <1>2, <2>1, <2>2, DequeueType DEF SlotsTyped
<1> QED BY <1>1, <1>2

LEMMA HandleBeginType ==
    ASSUME TypeOK, NEW num \in Nat, HandleBegin(num), sent' = sent
    PROVE  SlotsTyped' /\ open' \in [num : Nat, startup : BOOLEAN]
<1>1. open' \in [num : Nat, startup : BOOLEAN] BY DEF HandleBegin, IsStartup
<1>2. UNCHANGED <<promise, reply, unsolicited>> BY DEF HandleBegin, promises
<1>3. /\ pending' \in Seq(SlotType) /\ Len(pending') = Len(pending)
      /\ DOMAIN pending' = DOMAIN pending
      /\ \A i \in DOMAIN pending : pending'[i].cmd = pending[i].cmd
  <2>1. pending \in Seq(SlotType) BY TypeFacts
  <2>2. CASE pending' = pending BY <2>1, <2>2
  <2>3. CASE pending # <<>> /\ pending' = [pending EXCEPT ![1].expected = num]
    <3>1. 1 \in DOMAIN pending /\ pending[1] \in SlotType /\ DOMAIN pending = 1..Len(pending)
      BY <2>1, <2>3, Ahead, LenProperties
    <3> DEFINE slot == [pending[1] EXCEPT !.expected = num]
    <3>2. slot \in SlotType /\ slot.cmd = pending[1].cmd BY <3>1 DEF SlotType
    <3>3. pending' = [pending EXCEPT ![1] = slot] BY <2>3
    <3> HIDE DEF slot
    <3>4. pending' \in Seq(SlotType) /\ DOMAIN pending' = DOMAIN pending
          /\ \A i \in DOMAIN pending : pending'[i] = IF i = 1 THEN slot ELSE pending[i]
      BY <2>1, <3>1, <3>2, <3>3, ExceptSeq
    <3>5. Len(pending') = Len(pending) BY <2>1, <3>1, <3>2, <3>3, ExceptSeq
    <3> QED BY <3>2, <3>4, <3>5
  <2> QED BY <2>2, <2>3 DEF HandleBegin
<1>4. \A i \in DOMAIN pending' : pending'[i].cmd = (sent' - Len(pending')) + i
  BY <1>3, TypeFacts
<1>5. SlotsTyped'
  <2>1. promise' \in [Command -> {"unsent", "waiting", "resolved", "rejected"}]
        /\ reply' \in [Command -> Nat]
    BY <1>2, TypeFacts
  <2>2. unsolicited' \in BOOLEAN BY <1>2 DEF TypeOK
  <2> QED BY <1>3, <1>4, <2>1, <2>2 DEF SlotsTyped
<1> QED BY <1>1, <1>5

LEMMA CloseBlockType ==
    ASSUME TypeOK, NEW num \in Nat, CloseBlock(num), sent' = sent
    PROVE  SlotsTyped' /\ open' = None
<1>1. open' = None BY DEF CloseBlock
<1> SUFFICES SlotsTyped' BY <1>1
<1>2. CASE RejectOldest /\ UNCHANGED unsolicited
  <2>1. UNCHANGED <<sent, unsolicited>> BY <1>2
  <2> QED BY <1>2, <2>1, RejectOldestType
<1>3. CASE UNCHANGED <<pending, promise, reply>> /\ unsolicited' \in BOOLEAN
  BY <1>3, TypeFacts DEF SlotsTyped
<1>4. CASE /\ pending # <<>> /\ unsolicited' = unsolicited
           /\ \/ Dequeue("resolved", num)
              \/ Dequeue("rejected", 0)
  <2>1. unsolicited' \in BOOLEAN BY <1>4 DEF TypeOK
  <2> QED BY <1>4, <2>1, DequeueType DEF SlotsTyped
<1>5. \/ RejectOldest /\ UNCHANGED unsolicited
      \/ UNCHANGED <<pending, promise, reply>> /\ unsolicited' \in BOOLEAN
      \/ /\ pending # <<>> /\ unsolicited' = unsolicited
         /\ Dequeue("resolved", num) \/ Dequeue("rejected", 0)
  BY DEF CloseBlock, promises, TypeOK
<1> QED BY <1>2, <1>3, <1>4, <1>5

-----------------------------------------------------------------------------
(* Type correctness *)

LEMMA InitTypeInv == Init => TypeInv
<1> SUFFICES ASSUME Init PROVE TypeInv OBVIOUS
<1>1. MaxSent \in Nat /\ Bounded \in Nat /\ "plain" \in Bodies BY BootstrapParameters
<1>2. fromTmux \in Seq([cmd : {Startup} \cup Command, body : Bodies])
  <2> DEFINE B == [cmd : {Startup} \cup Command, body : Bodies]
             b == Block(Startup, "plain")
  <2>1. b \in B BY <1>1 DEF Block
  <2>2. fromTmux = <<b>> BY DEF Init
  <2> HIDE DEF b, B
  <2>3. <<b>> \in Seq(B) BY <2>1
  <2> QED BY <2>2, <2>3 DEF B
<1>3. toTmux \in Seq(Command) /\ pending \in Seq(SlotType) /\ pending = <<>>
  BY EmptySeq DEF Init
<1>4. boot \in [attempt : 0..(Bounded + 1), stage : {"to list", "listing", "live", "failed"},
                windows : 0..MaxSent, panes : 0..MaxSent]
  <2>1. 0 \in 0..(Bounded + 1) /\ 0 \in 0..MaxSent BY <1>1
  <2> QED BY <2>1 DEF Init
<1>5. promise \in [Command -> {"unsent", "waiting", "resolved", "rejected"}]
      /\ reply \in [Command -> Nat]
  BY DEF Init
<1>6. sent \in 0..MaxSent /\ read \in 0..4 /\ inside \in BOOLEAN /\ unsolicited \in BOOLEAN
      /\ open \in {None} \cup [num : Nat, startup : BOOLEAN]
  <2>1. 0 \in 0..4 /\ 0 \in 0..MaxSent BY <1>1
  <2> QED BY <2>1 DEF Init
<1>7. \A i \in DOMAIN pending : pending[i].cmd = (sent - Len(pending)) + i
  BY <1>3, EmptySeq
<1>8. Within
  <2>1. 0 <= Bounded BY <1>1
  <2>2. read = 0 /\ boot.attempt = 0 BY DEF Init
  <2> QED BY <2>1, <2>2 DEF Within
<1> QED BY <1>2, <1>3, <1>4, <1>5, <1>6, <1>7, <1>8 DEF TypeInv, TypeOK

\* The line that is read is a line of the first block.
LEMMA ReadFacts ==
    ASSUME TypeInv, ReadLine
    PROVE  /\ fromTmux # <<>> /\ fromTmux[1] \in [cmd : {Startup} \cup Command, body : Bodies]
           /\ read \in Nat /\ read < Len(Lines(fromTmux[1])) /\ Len(Lines(fromTmux[1])) \in 2..5
           /\ \A line : Number(line) \in Nat
<1>1. fromTmux # <<>> BY DEF ReadLine
<1>2. fromTmux[1] \in [cmd : {Startup} \cup Command, body : Bodies]
  BY <1>1, TypeFacts, Ahead DEF TypeInv
<1>3. Len(Lines(fromTmux[1])) \in 2..5 BY <1>2, LinesType
<1>4. read \in Nat
  <2>1. read \in 0..4 BY DEF TypeInv, TypeOK
  <2> QED BY <2>1
<1>5. read < Len(Lines(fromTmux[1]))
  <2> DEFINE n == Len(Lines(fromTmux[1]))
  <2>1. read # 0 => read < n BY DEF TypeInv, Within
  <2>2. n \in 2..5 BY <1>3
  <2> HIDE DEF n
  <2>3. read < n BY <1>4, <2>1, <2>2
  <2> QED BY <2>3 DEF n
<1>6. Startup \in Nat /\ Command \subseteq Nat /\ Other \in Nat
  BY BootstrapParameters DEF Startup, Command, Other
<1>7. \A line : Number(line) \in Nat BY <1>2, <1>6 DEF Number
<1> QED BY <1>1, <1>2, <1>3, <1>4, <1>5, <1>7

LEMMA ReadLineType == ASSUME TypeInv, ReadLine PROVE TypeInv'
<1> DEFINE lines == Lines(fromTmux[1])
           line == lines[read + 1]
<1>1. TypeOK /\ UNCHANGED <<sent, toTmux, boot>> BY DEF TypeInv, ReadLine
<1>2. /\ read' = IF read + 1 = Len(lines) THEN 0 ELSE read + 1
      /\ fromTmux' = IF read + 1 = Len(lines) THEN Tail(fromTmux) ELSE fromTmux
  BY DEF ReadLine
<1>3. read' \in 0..4 /\ Within'
  <2>1. Len(lines) \in 2..5 /\ read \in Nat /\ read < Len(lines) /\ fromTmux # <<>> BY ReadFacts
  <2>2. read' \in 0..4
    <3> DEFINE n == Len(lines)
    <3>1. read' = IF read + 1 = n THEN 0 ELSE read + 1 BY <1>2
    <3>2. n \in 2..5 /\ read \in Nat /\ read < n BY <2>1
    <3> HIDE DEF n
    <3> QED BY <3>1, <3>2
  <2>3. (read' # 0 => fromTmux' # <<>>) BY <1>2, <2>1
  <2>4. read' < Len(Lines(fromTmux'[1])) \/ fromTmux' = <<>>
    <3>1. CASE read + 1 = Len(lines) /\ fromTmux' # <<>>
      <4>1. fromTmux' \in Seq([cmd : {Startup} \cup Command, body : Bodies])
        BY <1>1, <1>2, <2>1, <3>1, TypeFacts, Ahead
      <4>2. fromTmux'[1] \in [cmd : {Startup} \cup Command, body : Bodies]
        BY <3>1, <4>1, Ahead
      <4>3. Len(Lines(fromTmux'[1])) \in 2..5 BY <4>2, LinesType
      <4>4. read' = 0 BY <1>2, <3>1
      <4> DEFINE n == Len(Lines(fromTmux'[1]))
      <4>5. n \in 2..5 BY <4>3
      <4> HIDE DEF n
      <4>6. read' < n BY <4>4, <4>5
      <4> QED BY <4>6 DEF n
    <3>2. CASE read + 1 # Len(lines)
      <4>1. read' = read + 1 /\ fromTmux' = fromTmux /\ lines = Lines(fromTmux'[1])
        BY <1>2, <3>2
      <4> HIDE DEF lines
      <4> QED BY <2>1, <3>2, <4>1
    <3> QED BY <3>1, <3>2
  <2> QED BY <1>1, <2>2, <2>3, <2>4 DEF Within, TypeInv
<1>4. SlotsTyped' /\ inside' \in BOOLEAN
      /\ open' \in {None} \cup [num : Nat, startup : BOOLEAN]
  <2>1. Number(line) \in Nat BY ReadFacts
  <2>2. \/ inside' = FALSE /\ CloseBlock(Number(line))
        \/ inside' = TRUE /\ HandleBegin(Number(line))
        \/ UNCHANGED <<inside, open, pending, promise, reply, unsolicited>>
    BY DEF ReadLine, promises
  <2>3. CASE inside' = FALSE /\ CloseBlock(Number(line))
    BY <1>1, <2>1, <2>3, CloseBlockType
  <2>4. CASE inside' = TRUE /\ HandleBegin(Number(line))
    BY <1>1, <2>1, <2>4, HandleBeginType
  <2>5. CASE UNCHANGED <<inside, open, pending, promise, reply, unsolicited>>
    <3>1. SlotsTyped' BY <1>1, <2>5, TypeFacts DEF SlotsTyped, TypeOK
    <3> QED BY <1>1, <2>5, <3>1 DEF TypeOK
  <2> QED BY <2>2, <2>3, <2>4, <2>5
<1>5. fromTmux' \in Seq([cmd : {Startup} \cup Command, body : Bodies])
  BY <1>1, <1>2, ReadFacts, TypeFacts, Ahead
<1> QED BY <1>1, <1>3, <1>4, <1>5 DEF TypeInv, TypeOK, SlotsTyped

\* A stalled attempt marks slots and rejects their promises, no more.
LEMMA CancelType ==
    ASSUME TypeOK, NEW k, CancelOldest(k), UNCHANGED <<sent, unsolicited>>
    PROVE  /\ SlotsTyped' /\ Len(pending') = Len(pending) /\ DOMAIN pending' = DOMAIN pending
           /\ \A i \in DOMAIN pending : pending'[i].cmd = pending[i].cmd
<1> DEFINE S == OldestLive(k)
<1>1. pending \in Seq(SlotType) BY TypeFacts
<1>2. pending \in [1..Len(pending) -> SlotType] /\ Len(pending) \in Nat
  BY <1>1, LenProperties
<1>3. pending' = [i \in DOMAIN pending |->
                    IF i \in S THEN [pending[i] EXCEPT !.cancelled = TRUE] ELSE pending[i]]
  BY DEF CancelOldest, Placeholders
<1> HIDE DEF S
<1>4. \A i \in DOMAIN pending : pending'[i] \in SlotType /\ pending'[i].cmd = pending[i].cmd
  BY <1>2, <1>3 DEF SlotType
<1>5. pending' \in [1..Len(pending) -> SlotType] BY <1>2, <1>3, <1>4
<1>6. pending' \in Seq(SlotType) /\ Len(pending') = Len(pending) BY <1>2, <1>5, IsASeq, LenProperties
<1>7. DOMAIN pending' = DOMAIN pending BY <1>2, <1>5
<1>8. \A i \in DOMAIN pending' : pending'[i].cmd = (sent' - Len(pending')) + i
  BY <1>4, <1>6, <1>7, TypeFacts
<1>9. promise' \in [Command -> {"unsent", "waiting", "resolved", "rejected"}]
  <2>1. promise \in [Command -> {"unsent", "waiting", "resolved", "rejected"}] BY TypeFacts
  <2>2. promise' = [c \in Command |->
                      IF \E i \in OldestLive(k) : pending[i].cmd = c THEN "rejected" ELSE promise[c]]
    BY DEF CancelOldest
  <2> QED BY <2>1, <2>2
<1>10. reply' \in [Command -> Nat] /\ unsolicited' \in BOOLEAN
  <2>1. reply' = reply /\ unsolicited' = unsolicited /\ unsolicited \in BOOLEAN
    BY DEF CancelOldest, TypeOK
  <2> QED BY <2>1, TypeFacts
<1> QED BY <1>4, <1>6, <1>7, <1>8, <1>9, <1>10 DEF SlotsTyped

\* A command that tmux has read leaves the one channel and its block enters the other.
LEMMA AnswerType ==
    ASSUME TypeOK, TmuxAnswers
    PROVE  /\ toTmux # <<>> /\ toTmux' = Tail(toTmux) /\ toTmux' \in Seq(Command)
           /\ \E body \in Bodies : fromTmux' = Append(fromTmux, Block(toTmux[1], body))
           /\ fromTmux' \in Seq([cmd : {Startup} \cup Command, body : Bodies])
<1>1. toTmux # <<>> /\ toTmux' = Tail(toTmux) BY DEF TmuxAnswers
<1>2. toTmux' \in Seq(Command) /\ toTmux[1] \in Command /\ Head(toTmux) = toTmux[1]
  BY <1>1, TypeFacts, Ahead
<1>3. PICK body \in Bodies : fromTmux' = Append(fromTmux, Block(toTmux[1], body))
  BY <1>2 DEF TmuxAnswers
<1>4. Block(toTmux[1], body) \in [cmd : {Startup} \cup Command, body : Bodies]
  BY <1>2 DEF Block
<1>5. fromTmux' \in Seq([cmd : {Startup} \cup Command, body : Bodies])
  BY <1>3, <1>4, TypeFacts, AppendProperties
<1> QED BY <1>1, <1>2, <1>3, <1>5

LEMMA StepTypeInv == TypeInv /\ [Next]_vars => TypeInv'
<1> SUFFICES ASSUME TypeInv, [Next]_vars PROVE TypeInv' OBVIOUS
<1>0. TypeOK BY DEF TypeInv
<1> DEFINE BootType == [attempt : 0..(Bounded + 1), stage : {"to list", "listing", "live", "failed"},
                        windows : 0..MaxSent, panes : 0..MaxSent]
<1>1. ASSUME NEW n \in {1, 2}, Send(n) PROVE TypeInv'
  <2>1. Sending(n) /\ UNCHANGED <<fromTmux, read, inside, open, unsolicited, boot>>
    BY <1>1 DEF Send, parser
  <2>2. /\ sent' \in 0..MaxSent /\ toTmux' \in Seq(Command) /\ pending' \in Seq(SlotType)
        /\ \A i \in DOMAIN pending' : pending'[i].cmd = (sent' - Len(pending')) + i
        /\ promise' \in [Command -> {"unsent", "waiting", "resolved", "rejected"}]
        /\ reply' \in [Command -> Nat]
    BY <1>0, <2>1, SendingType
  <2> QED BY <2>1, <2>2 DEF TypeInv, TypeOK, Within
<1>2. ASSUME BootstrapLists PROVE TypeInv'
  <2>1. /\ Sending(2) /\ UNCHANGED <<fromTmux, read, inside, open, unsolicited>>
        /\ boot.stage = "to list"
        /\ boot' = [attempt |-> boot.attempt + 1, stage |-> "listing",
                    windows |-> sent + 1, panes |-> sent + 2]
    BY <1>2 DEF BootstrapLists, parser
  <2>2. /\ sent' \in 0..MaxSent /\ toTmux' \in Seq(Command) /\ pending' \in Seq(SlotType)
        /\ \A i \in DOMAIN pending' : pending'[i].cmd = (sent' - Len(pending')) + i
        /\ promise' \in [Command -> {"unsent", "waiting", "resolved", "rejected"}]
        /\ reply' \in [Command -> Nat]
    BY <1>0, <2>1, SendingType
  <2>3. boot' \in BootType /\ boot'.stage = "listing"
    <3>1. boot.attempt \in 0..(Bounded + 1) BY <1>0 DEF TypeOK
    <3>2. boot.attempt <= Bounded BY <2>1 DEF TypeInv, Within
    <3>3. sent + 2 <= MaxSent /\ sent \in Nat /\ MaxSent \in Nat
      BY <1>0, <2>1, TypeFacts DEF Sending
    <3>4. boot.attempt + 1 \in 0..(Bounded + 1) BY <3>1, <3>2, BootstrapParameters
    <3>5. sent + 1 \in 0..MaxSent /\ sent + 2 \in 0..MaxSent BY <3>3
    <3> QED BY <2>1, <3>4, <3>5
  <2> QED BY <2>1, <2>2, <2>3 DEF TypeInv, TypeOK, Within
<1>3. ASSUME BootstrapStalls PROVE TypeInv'
  <2>1. /\ CancelOldest(SlotCount) /\ boot.attempt <= Bounded
        /\ boot' = [boot EXCEPT !.stage = "to list"]
        /\ UNCHANGED <<sent, toTmux, fromTmux, read, inside, open, unsolicited>>
    BY <1>3 DEF BootstrapStalls, wire, parser
  <2>2. SlotsTyped' BY <1>0, <2>1, CancelType
  <2>3. boot' \in BootType /\ boot'.attempt = boot.attempt
    BY <1>0, <2>1 DEF TypeOK
  <2> QED BY <2>1, <2>2, <2>3 DEF TypeInv, TypeOK, SlotsTyped, Within
<1>4. ASSUME BootstrapEnds PROVE TypeInv'
  <2>1. /\ UNCHANGED <<sent, toTmux, fromTmux, read, inside, open, pending, promise, reply, unsolicited>>
        /\ \/ boot' = [boot EXCEPT !.stage = "failed"]
           \/ boot' = [boot EXCEPT !.stage = "live"]
    BY <1>4 DEF BootstrapEnds, wire, parser, promises
  <2>2. boot' \in BootType /\ boot'.stage # "to list" BY <1>0, <2>1 DEF TypeOK
  <2> QED BY <2>1, <2>2 DEF TypeInv, TypeOK, Within
<1>5. ASSUME TmuxAnswers PROVE TypeInv'
  <2>1. UNCHANGED <<sent, read, inside, open, pending, promise, reply, unsolicited, boot>>
    BY <1>5 DEF TmuxAnswers, parser, promises
  <2>2. /\ toTmux' \in Seq(Command)
        /\ fromTmux' \in Seq([cmd : {Startup} \cup Command, body : Bodies])
    BY <1>0, <1>5, AnswerType
  <2>3. Within'
    <3>1. CASE read = 0 BY <2>1, <3>1 DEF TypeInv, Within
    <3>2. CASE read # 0
      <4>1. fromTmux # <<>> /\ read < Len(Lines(fromTmux[1])) BY <3>2 DEF TypeInv, Within
      <4>2. PICK b : fromTmux' = Append(fromTmux, b) /\ b \in [cmd : {Startup} \cup Command, body : Bodies]
        <5>1. PICK body \in Bodies : fromTmux' = Append(fromTmux, Block(toTmux[1], body))
          BY <1>0, <1>5, AnswerType
        <5>2. toTmux[1] \in Command BY <1>0, <1>5, AnswerType, TypeFacts, Ahead
        <5> QED BY <5>1, <5>2 DEF Block
      <4>3. fromTmux' # <<>> /\ fromTmux'[1] = fromTmux[1]
        <5>1. fromTmux \in Seq([cmd : {Startup} \cup Command, body : Bodies]) BY <1>0, TypeFacts
        <5>2. 1 \in 1..Len(fromTmux) BY <4>1, <5>1, Ahead
        <5> QED BY <4>2, <5>1, <5>2, AppendProperties
      <4> QED BY <2>1, <4>1, <4>3 DEF TypeInv, Within
    <3> QED BY <3>1, <3>2
  <2> QED BY <2>1, <2>2, <2>3 DEF TypeInv, TypeOK
<1>6. CASE UNCHANGED vars
  BY <1>6 DEF vars, wire, parser, promises, TypeInv, TypeOK, Within
<1> QED BY <1>1, <1>2, <1>3, <1>4, <1>5, <1>6, ReadLineType DEF Next

LEMMA TypeInvHolds == Spec => []TypeInv
<1>1. Init => TypeInv BY InitTypeInv
<1>2. TypeInv /\ [Next]_vars => TypeInv' BY StepTypeInv
<1> QED BY <1>1, <1>2, PTL DEF Spec

\* The slots are always those of the last commands, in the order of sending (tc-3si.1),
\* whatever was given up, and all variables have their types.
THEOREM TypeCorrect == Spec => []TypeOK
<1>1. TypeInv => TypeOK BY DEF TypeInv
<1> QED BY <1>1, TypeInvHolds, PTL

-----------------------------------------------------------------------------
(* Replies and their commands *)

\* No body holds what looks like a block; a closing guard it may hold.
NoTranscripts == Bodies \subseteq {"plain", "guard"}

\* Blocks that the driver has read to their end, the startup block included: the first that
\* it has not is the reply to command Done.
Done == (sent + 1) - (Len(toTmux) + Len(fromTmux))

\* Commands whose slot has gone.  A line like a closing guard takes it early.
Taken == IF Done = 0 THEN 0 ELSE IF read = 2 THEN Done ELSE Done - 1

\* Commands and blocks are on their way in the order of sending.
InOrder ==
    /\ Done \in Nat
    /\ \A i \in 1..Len(toTmux) : toTmux[i] = (sent - Len(toTmux)) + i
    /\ \A i \in 1..Len(fromTmux) : fromTmux[i].cmd = (Done + i) - 1
    /\ \A i \in 1..Len(fromTmux) : fromTmux[i].cmd = Startup => fromTmux[i].body = "plain"

\* Tokenizer and correlator agree on whether the block that is read is open.
Agree ==
    /\ read \in {0, 1, 2} /\ (read = 2 => fromTmux[1].body = "guard")
    /\ (inside <=> read = 1)
    /\ open = IF read = 1 THEN [num |-> Done, startup |-> (Done = 0)] ELSE None

\* The oldest slot is that of the block that is read or comes next.
SlotsMatch ==
    /\ Len(pending) = sent - Taken
    /\ (read = 1 /\ Done # 0) => pending[1].expected = Done

\* Promises are open exactly while a live slot waits for them.
PromisesMatch ==
    /\ \A c \in Command : c > sent => promise[c] = "unsent"
    /\ \A c \in Command : c <= Taken => Settled(c)
    /\ \A c \in Command : (Taken < c /\ c <= sent) =>
          promise[c] = IF pending[c - Taken].cancelled THEN "rejected" ELSE "waiting"

Right ==
    /\ TypeInv /\ InOrder /\ Agree /\ SlotsMatch /\ PromisesMatch
    /\ OwnReply /\ NoUnsolicited

\* The numbers and lengths of the invariant.
LEMMA Counts ==
    ASSUME Right
    PROVE  /\ TypeOK /\ sent \in Nat /\ sent <= MaxSent /\ MaxSent \in Nat
           /\ Done \in Nat /\ Taken \in Nat /\ Taken <= sent
           /\ Len(toTmux) \in Nat /\ Len(fromTmux) \in Nat
           /\ Len(pending) = sent - Taken /\ Len(pending) \in Nat
           /\ DOMAIN pending = 1..Len(pending)
           /\ Done + Len(fromTmux) = (sent + 1) - Len(toTmux)
           /\ fromTmux # <<>> => (Done <= sent /\ fromTmux[1].cmd = Done)
           /\ read \in {0, 1, 2} /\ (read # 0 => fromTmux # <<>>)
           /\ read = 2 => Done # 0
           /\ \A i \in DOMAIN pending : pending[i].cmd = Taken + i
<1>1. TypeOK /\ InOrder /\ Agree /\ SlotsMatch /\ Within BY DEF Right, TypeInv
<1>2. /\ sent \in Nat /\ sent <= MaxSent /\ MaxSent \in Nat
      /\ toTmux \in Seq(Command) /\ pending \in Seq(SlotType)
      /\ fromTmux \in Seq([cmd : {Startup} \cup Command, body : Bodies])
  BY <1>1, TypeFacts
<1>3. Len(toTmux) \in Nat /\ Len(fromTmux) \in Nat /\ Len(pending) \in Nat
      /\ DOMAIN pending = 1..Len(pending)
  BY <1>2, LenProperties
<1>4. Done \in Nat /\ Done + Len(fromTmux) = (sent + 1) - Len(toTmux)
  BY <1>1, <1>2, <1>3 DEF InOrder, Done
<1>5. fromTmux # <<>> => (Done <= sent /\ fromTmux[1].cmd = Done /\ Len(fromTmux) >= 1)
  <2> SUFFICES ASSUME fromTmux # <<>>
               PROVE  Done <= sent /\ fromTmux[1].cmd = Done /\ Len(fromTmux) >= 1
    OBVIOUS
  <2>1. Len(fromTmux) >= 1 BY <1>2, Ahead
  <2>2. fromTmux[1].cmd = (Done + 1) - 1 BY <1>1, <1>3, <2>1 DEF InOrder
  <2> QED BY <1>2, <1>3, <1>4, <2>1, <2>2
<1>6. read \in {0, 1, 2} /\ (read # 0 => fromTmux # <<>>) BY <1>1 DEF Agree, Within
<1>7. read = 2 => Done # 0
  <2> SUFFICES ASSUME read = 2, Done = 0 PROVE FALSE OBVIOUS
  <2>1. fromTmux[1].cmd = Startup /\ Len(fromTmux) >= 1 BY <1>5, <1>6 DEF Startup
  <2>2. fromTmux[1].body = "plain" BY <1>1, <1>3, <2>1 DEF InOrder
  <2> QED BY <1>1, <2>2 DEF Agree
<1>8. Taken \in Nat /\ Taken <= sent
  BY <1>2, <1>3, <1>4, <1>5, <1>6 DEF Taken
<1>9. Len(pending) = sent - Taken BY <1>1 DEF SlotsMatch
<1>10. \A i \in DOMAIN pending : pending[i].cmd = Taken + i
  <2>1. sent - Len(pending) = Taken BY <1>2, <1>3, <1>8, <1>9
  <2> QED BY <1>1, <2>1, TypeFacts
<1> QED BY <1>1, <1>2, <1>3, <1>4, <1>5, <1>6, <1>7, <1>8, <1>9, <1>10

LEMMA InitRight == Init => Right
<1> SUFFICES ASSUME Init PROVE Right OBVIOUS
<1>1. TypeInv BY InitTypeInv
<1>2. MaxSent \in Nat BY BootstrapParameters
<1>3. /\ sent = 0 /\ toTmux = <<>> /\ fromTmux = <<Block(Startup, "plain")>> /\ read = 0
      /\ inside = FALSE /\ open = None /\ pending = <<>> /\ unsolicited = FALSE
      /\ promise = [c \in Command |-> "unsent"]
  BY DEF Init
<1>4. Len(toTmux) = 0 /\ Len(pending) = 0 /\ Len(fromTmux) = 1
      /\ fromTmux[1] = Block(Startup, "plain")
  BY <1>3
<1>5. Done = 0 /\ Taken = 0 BY <1>3, <1>4 DEF Done, Taken
<1>6. InOrder
  <2>1. Block(Startup, "plain").cmd = 0 /\ Block(Startup, "plain").body = "plain"
    BY DEF Block, Startup
  <2>2. \A i \in 1..Len(fromTmux) : i = 1 BY <1>4
  <2>3. (0 + 1) - 1 = 0 OBVIOUS
  <2> QED BY <1>4, <1>5, <2>1, <2>2, <2>3 DEF InOrder
<1>7. Agree
  <2>1. read # 1 /\ read # 2 /\ read \in {0, 1, 2} BY <1>3
  <2> QED BY <1>3, <2>1 DEF Agree
<1>8. SlotsMatch BY <1>3, <1>4, <1>5 DEF SlotsMatch
<1>9. PromisesMatch
  <2>1. \A c \in Command : c > sent /\ ~(c <= Taken) /\ promise[c] = "unsent"
    BY <1>2, <1>3, <1>5 DEF Command
  <2>2. \A c \in Command : ~(c <= sent) BY <1>2, <1>3 DEF Command
  <2> QED BY <2>1, <2>2 DEF PromisesMatch
<1>10. OwnReply /\ NoUnsolicited BY <1>3 DEF OwnReply, NoUnsolicited
<1> QED BY <1>1, <1>6, <1>7, <1>8, <1>9, <1>10 DEF Right

\* Sending puts a live slot behind the others for every command put behind the others.
LEMMA SendingRight ==
    ASSUME Right, TypeInv', NEW n \in {1, 2}, Sending(n),
           UNCHANGED <<fromTmux, read, inside, open, unsolicited>>
    PROVE  Right'
<1> DEFINE cs == [i \in 1..n |-> sent + i]
           ss == [i \in 1..n |-> Slot(sent + i)]
<1>0. /\ TypeOK /\ sent \in Nat /\ sent <= MaxSent /\ MaxSent \in Nat
      /\ Done \in Nat /\ Taken \in Nat /\ Taken <= sent
      /\ Len(toTmux) \in Nat /\ Len(fromTmux) \in Nat
      /\ Len(pending) = sent - Taken /\ Len(pending) \in Nat
  BY Counts
<1>00. n \in Nat /\ n >= 1 OBVIOUS
<1>1. sent + n <= MaxSent /\ sent' = sent + n /\ reply' = reply
      /\ toTmux' = toTmux \o cs /\ pending' = pending \o ss
  BY DEF Sending
<1>2. promise' = [c \in Command |-> IF sent < c /\ c <= sent + n THEN "waiting" ELSE promise[c]]
  BY DEF Sending
<1>3. cs \in [1..n -> Command] /\ \A i \in 1..n : cs[i] = sent + i
  BY <1>0, <1>00, <1>1 DEF Command
<1>4. ss \in [1..n -> SlotType] /\ \A i \in 1..n : ss[i].cancelled = FALSE
  BY <1>0, <1>00, <1>1 DEF Command, SlotType, Slot
<1> HIDE DEF cs, ss
<1>5. /\ Len(toTmux') = Len(toTmux) + n
      /\ \A i \in 1..Len(toTmux) : toTmux'[i] = toTmux[i]
      /\ \A i \in 1..n : toTmux'[Len(toTmux) + i] = sent + i
  BY <1>0, <1>00, <1>1, <1>3, TypeFacts, Behind
<1>6. /\ Len(pending') = Len(pending) + n
      /\ \A i \in 1..Len(pending) : pending'[i] = pending[i]
      /\ \A i \in 1..n : pending'[Len(pending) + i].cancelled = FALSE
  <2>1. pending \in Seq(SlotType) BY <1>0, TypeFacts
  <2>2. /\ Len(pending \o ss) = Len(pending) + n
        /\ \A i \in 1..Len(pending) : (pending \o ss)[i] = pending[i]
        /\ \A i \in 1..n : (pending \o ss)[Len(pending) + i] = ss[i]
    BY <1>00, <1>4, <2>1, Behind
  <2> QED BY <1>1, <1>4, <2>2
<1>7. Done' = Done BY <1>0, <1>00, <1>1, <1>5 DEF Done
<1>8. Taken' = Taken BY <1>7 DEF Taken
<1>9. InOrder'
  <2>1. ASSUME NEW i \in 1..Len(toTmux') PROVE toTmux'[i] = (sent' - Len(toTmux')) + i
    <3>1. sent' - Len(toTmux') = sent - Len(toTmux) /\ i \in Nat BY <1>0, <1>00, <1>1, <1>5
    <3>2. CASE i <= Len(toTmux)
      <4>1. i \in 1..Len(toTmux) BY <1>0, <3>2
      <4>2. toTmux[i] = (sent - Len(toTmux)) + i BY <4>1 DEF Right, InOrder
      <4> QED BY <1>5, <3>1, <4>1, <4>2
    <3>3. CASE ~(i <= Len(toTmux))
      <4> DEFINE j == i - Len(toTmux)
      <4>1. j \in 1..n /\ i = Len(toTmux) + j BY <1>0, <1>00, <1>5, <3>1, <3>3
      <4>2. toTmux'[i] = sent + j BY <1>5, <4>1
      <4> QED BY <1>0, <3>1, <4>1, <4>2
    <3> QED BY <3>2, <3>3
  <2>2. UNCHANGED fromTmux OBVIOUS
  <2> QED BY <1>0, <1>7, <2>1, <2>2 DEF Right, InOrder
<1>10. Agree' BY <1>7 DEF Right, Agree
<1>11. SlotsMatch'
  <2>1. Len(pending') = sent' - Taken' BY <1>0, <1>00, <1>1, <1>6, <1>8
  <2>2. (read = 1 /\ Done # 0) => pending'[1].expected = Done
    <3> SUFFICES ASSUME read = 1, Done # 0 PROVE pending'[1].expected = Done OBVIOUS
    <3>1. Taken = Done - 1 /\ Done <= sent BY Counts DEF Taken
    <3>2. 1 \in 1..Len(pending) BY <1>0, <3>1
    <3> QED BY <1>6, <3>2 DEF Right, SlotsMatch
  <2> QED BY <1>7, <2>1, <2>2 DEF SlotsMatch
<1>12. PromisesMatch'
  <2>0. PromisesMatch /\ Command \subseteq Nat BY DEF Right, Command
  <2>1. ASSUME NEW c \in Command, c > sent' PROVE promise'[c] = "unsent"
    <3>1. c > sent /\ ~(c <= sent + n) BY <1>0, <1>00, <1>1, <2>0, <2>1
    <3> QED BY <1>2, <2>0, <3>1 DEF PromisesMatch
  <2>2. ASSUME NEW c \in Command, c <= Taken PROVE Settled(c)'
    <3>1. ~(sent < c) BY <1>0, <2>0, <2>2
    <3>2. promise'[c] = promise[c] /\ Settled(c) BY <1>2, <2>0, <2>2, <3>1 DEF PromisesMatch
    <3> QED BY <3>2 DEF Settled
  <2>3. ASSUME NEW c \in Command, Taken < c, c <= sent'
        PROVE promise'[c] = IF pending'[c - Taken].cancelled THEN "rejected" ELSE "waiting"
    <3>1. CASE c <= sent
      <4>1. ~(sent < c) /\ c - Taken \in 1..Len(pending) BY <1>0, <2>0, <2>3, <3>1
      <4>2. promise'[c] = promise[c] BY <1>2, <4>1
      <4> QED BY <1>6, <2>0, <2>3, <3>1, <4>1, <4>2 DEF PromisesMatch
    <3>2. CASE ~(c <= sent)
      <4> DEFINE j == c - sent
      <4>1. j \in 1..n /\ c - Taken = Len(pending) + j /\ sent < c /\ c <= sent + n
        BY <1>0, <1>00, <1>1, <2>0, <2>3, <3>2
      <4>2. promise'[c] = "waiting" BY <1>2, <4>1
      <4>3. pending'[c - Taken].cancelled = FALSE BY <1>6, <4>1
      <4> QED BY <4>2, <4>3
    <3> QED BY <3>1, <3>2
  <2> QED BY <1>8, <2>1, <2>2, <2>3 DEF PromisesMatch
<1>13. OwnReply' BY <1>1, <1>2 DEF Right, OwnReply
<1>14. NoUnsolicited' BY DEF Right, NoUnsolicited
<1> QED BY <1>9, <1>10, <1>11, <1>12, <1>13, <1>14 DEF Right

\* The oldest slot goes: its command is settled and those behind it keep their slots.
LEMMA DequeueRight ==
    ASSUME Right, pending # <<>>, NEW how \in {"resolved", "rejected"}, NEW num \in Nat,
           how = "resolved" => num = Taken + 1,
           Dequeue(how, num), sent' = sent, Taken' = Taken + 1
    PROVE  /\ Len(pending') = sent' - Taken' /\ PromisesMatch' /\ OwnReply'
           /\ Taken + 1 \in Command
           /\ \/ UNCHANGED promise
              \/ /\ promise[Taken + 1] = "waiting"
                 /\ promise' = [promise EXCEPT ![Taken + 1] = how]
<1> DEFINE c0 == Taken + 1
<1>0. /\ TypeOK /\ sent \in Nat /\ sent <= MaxSent /\ MaxSent \in Nat
      /\ Taken \in Nat /\ Len(pending) = sent - Taken /\ Len(pending) \in Nat
      /\ \A i \in DOMAIN pending : pending[i].cmd = Taken + i
      /\ DOMAIN pending = 1..Len(pending)
  BY Counts
<1>1. /\ Len(pending') = Len(pending) - 1 /\ Len(pending) >= 1
      /\ \A i \in 1..(Len(pending) - 1) : pending'[i] = pending[i + 1]
  <2>1. pending \in Seq(SlotType) BY <1>0, TypeFacts
  <2> QED BY <2>1, Ahead DEF Dequeue, Dequeued
<1>2. c0 \in Command /\ c0 \in Nat /\ Taken < c0 /\ c0 <= sent /\ c0 - Taken = 1
  BY <1>0, <1>1 DEF Command
<1>3. pending[1].cmd = c0 BY <1>0, <1>1
<1>4. \/ /\ pending[1].cancelled /\ UNCHANGED <<promise, reply>>
      \/ /\ ~pending[1].cancelled
         /\ promise' = [promise EXCEPT ![c0] = how] /\ reply' = [reply EXCEPT ![c0] = num]
  BY <1>3 DEF Dequeue, Cancelled, Settles, promises
<1>5. promise \in [Command -> {"unsent", "waiting", "resolved", "rejected"}]
      /\ reply \in [Command -> Nat]
  BY <1>0, TypeFacts
<1>6. PromisesMatch /\ OwnReply /\ Command \subseteq Nat BY DEF Right, Command
<1> HIDE DEF c0
<1>7. promise[c0] = IF pending[1].cancelled THEN "rejected" ELSE "waiting"
  BY <1>2, <1>6 DEF PromisesMatch
<1>8. \A c \in Command : c # c0 => promise'[c] = promise[c] /\ reply'[c] = reply[c]
  BY <1>4, <1>5
<1>9. promise'[c0] = how \/ promise'[c0] = "rejected"
  BY <1>2, <1>4, <1>5, <1>7
<1>10. PromisesMatch'
  <2>1. ASSUME NEW c \in Command, c > sent PROVE promise'[c] = "unsent"
    <3>1. c # c0 BY <1>0, <1>2, <1>6, <2>1
    <3> QED BY <1>6, <1>8, <2>1, <3>1 DEF PromisesMatch
  <2>2. ASSUME NEW c \in Command, c <= c0 PROVE Settled(c)'
    <3>1. CASE c = c0 BY <1>9, <3>1 DEF Settled
    <3>2. CASE c # c0
      <4>1. c <= Taken BY <1>0, <1>6, <2>2, <3>2 DEF c0
      <4>2. Settled(c) BY <1>6, <4>1 DEF PromisesMatch
      <4> QED BY <1>8, <3>2, <4>2 DEF Settled
    <3> QED BY <3>1, <3>2
  <2>3. ASSUME NEW c \in Command, c0 < c, c <= sent
        PROVE promise'[c] = IF pending'[c - c0].cancelled THEN "rejected" ELSE "waiting"
    <3>1. /\ c # c0 /\ Taken < c /\ c - c0 \in 1..(Len(pending) - 1)
          /\ (c - c0) + 1 = c - Taken
      BY <1>0, <1>1, <1>2, <1>6, <2>3 DEF c0
    <3>2. pending'[c - c0] = pending[c - Taken] BY <1>1, <3>1
    <3>3. promise'[c] = promise[c] BY <1>8, <3>1
    <3> QED BY <1>6, <2>3, <3>1, <3>2, <3>3 DEF PromisesMatch
  <2>4. Taken' = c0 /\ sent' = sent BY DEF c0
  <2> QED BY <2>1, <2>2, <2>3, <2>4 DEF PromisesMatch
<1>11. OwnReply'
  <2> SUFFICES ASSUME NEW c \in Command, promise'[c] = "resolved" PROVE reply'[c] = c
    BY DEF OwnReply
  <2>1. CASE c # c0 BY <1>6, <1>8, <2>1 DEF OwnReply
  <2>2. CASE c = c0
    <3>1. CASE pending[1].cancelled BY <1>4, <1>7, <2>2, <3>1
    <3>2. CASE ~pending[1].cancelled
      <4>1. promise'[c0] = how /\ reply'[c0] = num BY <1>2, <1>4, <1>5, <3>2
      <4> QED BY <2>2, <4>1 DEF c0
    <3> QED BY <3>1, <3>2
  <2> QED BY <2>1, <2>2
<1>12. Len(pending') = sent' - Taken' BY <1>0, <1>1
<1>13. \/ UNCHANGED promise
       \/ promise[c0] = "waiting" /\ promise' = [promise EXCEPT ![c0] = how]
  BY <1>4, <1>7
<1> QED BY <1>2, <1>10, <1>11, <1>12, <1>13 DEF c0

\* The first line of a block: tokenizer and correlator open it, and a reply notes its number.
\* A second closing line finds both closed.  In between the oldest slot goes.
LEMMA LinesRead ==
    ASSUME Right, NoTranscripts, ReadLine
    PROVE  /\ UNCHANGED <<sent, toTmux, boot>> /\ fromTmux # <<>>
           /\ \/ /\ read = 0 /\ read' = 1 /\ fromTmux' = fromTmux
                 /\ inside' = TRUE /\ HandleBegin(Done)
              \/ /\ read = 1 /\ read' = 0 /\ fromTmux' = Tail(fromTmux)
                 /\ inside' = FALSE /\ CloseBlock(Done)
              \/ /\ read = 1 /\ read' = 2 /\ fromTmux' = fromTmux /\ fromTmux[1].body = "guard"
                 /\ inside' = FALSE /\ CloseBlock(Other)
              \/ /\ read = 2 /\ read' = 0 /\ fromTmux' = Tail(fromTmux)
                 /\ UNCHANGED <<inside, open, pending, promise, reply, unsolicited>>
<1> DEFINE b == fromTmux[1]
           lines == Lines(b)
           line == lines[read + 1]
           n == Len(lines)
<1>1. UNCHANGED <<sent, toTmux, boot>> BY DEF ReadLine
<1>2. TypeInv /\ read \in {0, 1, 2} /\ (inside <=> read = 1) /\ (read = 2 => b.body = "guard")
  BY DEF Right, Agree
<1>3. fromTmux # <<>> /\ b.body \in {"plain", "guard"} /\ read < Len(lines) /\ b.cmd = Done
  <2>1. fromTmux # <<>> /\ b \in [cmd : {Startup} \cup Command, body : Bodies]
        /\ read < Len(lines)
    BY <1>2, ReadFacts
  <2>2. b.body \in Bodies BY <2>1
  <2> QED BY <2>1, <2>2, Counts DEF NoTranscripts
<1>4. /\ read' = IF read + 1 = n THEN 0 ELSE read + 1
      /\ fromTmux' = IF read + 1 = n THEN Tail(fromTmux) ELSE fromTmux
      /\ IF inside
         THEN IF line \in {"close", "like close"}
              THEN inside' = FALSE /\ CloseBlock(Number(line))
              ELSE UNCHANGED <<inside, open, pending, promise, reply, unsolicited>>
         ELSE IF line \in {"begin", "like begin"}
              THEN inside' = TRUE /\ HandleBegin(Number(line))
              ELSE UNCHANGED <<inside, open, pending, promise, reply, unsolicited>>
  BY DEF ReadLine, promises
<1>5. /\ b.body = "plain" => lines = <<"begin", "close">>
      /\ b.body = "guard" => lines = <<"begin", "like close", "close">>
  BY DEF Lines
<1>6. Number("begin") = Done /\ Number("close") = Done /\ Number("like close") = Other
  BY <1>3 DEF Number
<1> HIDE DEF b, lines
<1>7. b.body = "plain" => n = 2 /\ lines[1] = "begin" /\ lines[2] = "close" BY <1>5
<1>8. b.body = "guard" => n = 3 /\ lines[1] = "begin" /\ lines[2] = "like close" /\ lines[3] = "close"
  <2>1. b.body = "guard" => lines = <<"begin", "like close", "close">> BY <1>5
  <2>2. Len(<<"begin", "like close", "close">>) = 3 OBVIOUS
  <2>3. /\ <<"begin", "like close", "close">>[1] = "begin"
        /\ <<"begin", "like close", "close">>[2] = "like close"
        /\ <<"begin", "like close", "close">>[3] = "close"
    OBVIOUS
  <2> QED BY <2>1, <2>2, <2>3
<1>13. /\ read = 0 => line = lines[1] /\ read + 1 = 1
       /\ read = 1 => line = lines[2] /\ read + 1 = 2
       /\ read = 2 => line = lines[3] /\ read + 1 = 3
  <2>1. /\ read = 0 => read + 1 = 1
        /\ read = 1 => read + 1 = 2
        /\ read = 2 => read + 1 = 3
    OBVIOUS
  <2> QED BY <2>1
<1> HIDE DEF n, line
<1>9. CASE read = 0
  <2>1. line = "begin" /\ read + 1 # n /\ read + 1 = 1 BY <1>3, <1>7, <1>8, <1>9, <1>13
  <2>2. ~inside /\ inside' = TRUE /\ HandleBegin(Number(line)) BY <1>2, <1>4, <1>9, <2>1
  <2> QED BY <1>1, <1>3, <1>4, <1>6, <1>9, <2>1, <2>2
<1>10. CASE read = 1 /\ b.body = "plain"
  <2>1. line = "close" /\ read + 1 = n BY <1>7, <1>10, <1>13
  <2>2. inside' = FALSE /\ CloseBlock(Number(line)) BY <1>2, <1>4, <1>10, <2>1
  <2> QED BY <1>1, <1>3, <1>4, <1>6, <1>10, <2>1, <2>2
<1>11. CASE read = 1 /\ b.body = "guard"
  <2>1. line = "like close" /\ read + 1 # n /\ read + 1 = 2 BY <1>8, <1>11, <1>13
  <2>2. inside' = FALSE /\ CloseBlock(Number(line)) BY <1>2, <1>4, <1>11, <2>1
  <2> QED BY <1>1, <1>3, <1>4, <1>6, <1>11, <2>1, <2>2 DEF b
<1>12. CASE read = 2
  <2>1. line = "close" /\ read + 1 = n BY <1>2, <1>8, <1>12, <1>13
  <2>2. UNCHANGED <<inside, open, pending, promise, reply, unsolicited>>
    BY <1>2, <1>4, <1>12, <2>1
  <2> QED BY <1>1, <1>3, <1>4, <1>12, <2>1, <2>2
<1> QED BY <1>2, <1>3, <1>9, <1>10, <1>11, <1>12

\* Reading a line keeps the invariant, and settles at most the oldest command that waits.
LEMMA ReadLineRight ==
    ASSUME Right, NoTranscripts, ReadLine, TypeInv'
    PROVE  /\ Right' /\ sent' = sent
           /\ \/ UNCHANGED promise
              \/ \E how \in {"resolved", "rejected"} :
                   /\ Taken + 1 \in Command /\ promise[Taken + 1] = "waiting"
                   /\ promise' = [promise EXCEPT ![Taken + 1] = how]
<1>0. /\ TypeOK /\ sent \in Nat /\ sent <= MaxSent /\ MaxSent \in Nat
      /\ Done \in Nat /\ Taken \in Nat /\ Taken <= sent
      /\ Len(toTmux) \in Nat /\ Len(fromTmux) \in Nat
      /\ Len(pending) = sent - Taken /\ Len(pending) \in Nat
      /\ read = 2 => Done # 0
  BY Counts
<1>1. UNCHANGED <<sent, toTmux, boot>> /\ fromTmux # <<>> BY LinesRead
<1>2. Done <= sent BY <1>1, Counts
<1>3. PromisesMatch /\ OwnReply /\ SlotsMatch /\ Agree /\ InOrder /\ NoUnsolicited BY DEF Right
<1>4. pending \in Seq(SlotType) /\ fromTmux \in Seq([cmd : {Startup} \cup Command, body : Bodies])
  BY <1>0, TypeFacts
\* The blocks that stay are in order.
<1>5. ASSUME fromTmux' = fromTmux PROVE Done' = Done /\ InOrder'
  <2>1. Done' = Done BY <1>1, <1>5 DEF Done
  <2> QED BY <1>1, <1>3, <1>5, <2>1 DEF InOrder
<1>6. ASSUME fromTmux' = Tail(fromTmux) PROVE Done' = Done + 1 /\ InOrder'
  <2>1. /\ Len(fromTmux') = Len(fromTmux) - 1 /\ Len(fromTmux) >= 1
        /\ \A i \in 1..(Len(fromTmux) - 1) : fromTmux'[i] = fromTmux[i + 1]
    BY <1>1, <1>4, <1>6, Ahead
  <2>2. Done' = Done + 1 BY <1>0, <1>1, <2>1 DEF Done
  <2>3. ASSUME NEW i \in 1..Len(fromTmux')
        PROVE  /\ fromTmux'[i].cmd = (Done' + i) - 1
               /\ fromTmux'[i].cmd = Startup => fromTmux'[i].body = "plain"
    <3>1. i + 1 \in 1..Len(fromTmux) /\ fromTmux'[i] = fromTmux[i + 1] BY <1>0, <2>1
    <3>2. fromTmux[i + 1].cmd = (Done + (i + 1)) - 1 BY <1>3, <3>1 DEF InOrder
    <3>3. (Done + (i + 1)) - 1 = (Done' + i) - 1 BY <1>0, <2>2
    <3>4. fromTmux[i + 1].cmd = Startup => fromTmux[i + 1].body = "plain"
      BY <1>3, <3>1 DEF InOrder
    <3> QED BY <3>1, <3>2, <3>3, <3>4
  <2>4. Done' \in Nat BY <1>0, <2>2
  <2>5. \A i \in 1..Len(toTmux') : toTmux'[i] = (sent' - Len(toTmux')) + i
    BY <1>1, <1>3 DEF InOrder
  <2> QED BY <2>2, <2>3, <2>4, <2>5 DEF InOrder
\* The first line.
<1>7. CASE read = 0 /\ read' = 1 /\ fromTmux' = fromTmux /\ inside' = TRUE /\ HandleBegin(Done)
  <2>1. Done' = Done /\ InOrder' BY <1>5, <1>7
  <2>2. Taken' = Taken BY <1>7, <2>1 DEF Taken
  <2>3. Agree'
    <3>1. open' = [num |-> Done, startup |-> (Done = 0)]
      BY <1>7 DEF HandleBegin, IsStartup, Startup
    <3> QED BY <1>7, <2>1, <3>1 DEF Agree
  <2>4. UNCHANGED <<promise, reply, unsolicited>> BY <1>7 DEF HandleBegin, promises
  <2>5. /\ Len(pending') = Len(pending)
        /\ \A i \in 1..Len(pending) : pending'[i].cancelled = pending[i].cancelled
        /\ Done # 0 => pending'[1].expected = Done
    <3>1. CASE pending' = pending /\ (Done = 0 \/ pending = <<>>)
      <4>1. Done # 0 => Len(pending) >= 1 BY <1>0, <1>2, <1>7 DEF Taken
      <4>2. Done = 0 BY <1>0, <3>1, <4>1
      <4> QED BY <3>1, <4>2
    <3>2. CASE pending # <<>> /\ pending' = [pending EXCEPT ![1].expected = Done]
      <4>1. 1 \in 1..Len(pending) /\ DOMAIN pending = 1..Len(pending)
            /\ \A i \in 1..Len(pending) : pending[i] \in SlotType
        BY <1>4, <3>2, Ahead, LenProperties, ElementOfSeq
      <4> DEFINE slot == [pending[1] EXCEPT !.expected = Done]
      <4>2. slot \in SlotType /\ slot.cancelled = pending[1].cancelled /\ slot.expected = Done
        BY <1>0, <4>1 DEF SlotType
      <4>3. pending' = [pending EXCEPT ![1] = slot] BY <3>2
      <4> HIDE DEF slot
      <4>4. Len(pending') = Len(pending)
            /\ \A i \in 1..Len(pending) : pending'[i] = IF i = 1 THEN slot ELSE pending[i]
        BY <1>4, <4>1, <4>2, <4>3, ExceptSeq
      <4> QED BY <4>1, <4>2, <4>4
    <3> QED BY <1>7, <3>1, <3>2 DEF HandleBegin, IsStartup, Startup
  <2>6. SlotsMatch' BY <1>1, <1>3, <1>7, <2>1, <2>2, <2>5 DEF SlotsMatch
  <2>7. PromisesMatch'
    <3>1. ASSUME NEW c \in Command, Taken < c, c <= sent
          PROVE promise[c] = IF pending'[c - Taken].cancelled THEN "rejected" ELSE "waiting"
      <4>1. c - Taken \in 1..Len(pending) BY <1>0, <3>1 DEF Command
      <4> QED BY <1>3, <2>5, <3>1, <4>1 DEF PromisesMatch
    <3> QED BY <1>1, <1>3, <2>2, <2>4, <3>1 DEF PromisesMatch, Settled
  <2>8. OwnReply' /\ NoUnsolicited' BY <1>3, <2>4 DEF OwnReply, NoUnsolicited
  <2> QED BY <1>1, <2>1, <2>3, <2>4, <2>6, <2>7, <2>8 DEF Right
\* The line that closes the block of which it is the last.
<1>8. CASE read = 1 /\ read' = 0 /\ fromTmux' = Tail(fromTmux) /\ inside' = FALSE /\ CloseBlock(Done)
  <2>1. Done' = Done + 1 /\ InOrder' BY <1>6, <1>8
  <2>2. open = [num |-> Done, startup |-> (Done = 0)] BY <1>3, <1>8 DEF Agree
  <2>3. ~Mismatch(Done) /\ (open.startup <=> Done = 0) /\ open' = None
    BY <1>8, <2>2 DEF Mismatch, CloseBlock
  <2>4. Agree' BY <1>8, <2>3 DEF Agree
  <2>5. CASE Done = 0
    <3>1. UNCHANGED <<pending, promise, reply, unsolicited>>
      BY <1>8, <2>3, <2>5 DEF CloseBlock, promises
    <3>2. Taken' = Taken BY <1>8, <2>1, <2>5 DEF Taken
    <3>3. SlotsMatch' BY <1>1, <1>3, <1>8, <3>1, <3>2 DEF SlotsMatch
    <3>4. PromisesMatch' BY <1>1, <1>3, <3>1, <3>2 DEF PromisesMatch, Settled
    <3>5. OwnReply' /\ NoUnsolicited' BY <1>3, <3>1 DEF OwnReply, NoUnsolicited
    <3> QED BY <1>1, <2>1, <2>4, <3>1, <3>3, <3>4, <3>5 DEF Right
  <2>6. CASE Done # 0
    <3>1. Taken = Done - 1 /\ Taken' = Taken + 1 /\ Len(pending) >= 1
      BY <1>0, <1>2, <1>8, <2>1, <2>6 DEF Taken
    <3>2. pending # <<>> BY <3>1
    <3>3. pending[1].expected = Done BY <1>3, <1>8, <2>6 DEF SlotsMatch
    <3>4. Dequeue("resolved", Done) /\ unsolicited' = unsolicited
      BY <1>8, <2>3, <2>6, <3>2, <3>3 DEF CloseBlock, Wanted
    <3>5. Done = Taken + 1 BY <1>0, <3>1
    <3>6. /\ Len(pending') = sent' - Taken' /\ PromisesMatch' /\ OwnReply'
          /\ Taken + 1 \in Command
          /\ \/ UNCHANGED promise
             \/ /\ promise[Taken + 1] = "waiting"
                /\ promise' = [promise EXCEPT ![Taken + 1] = "resolved"]
      BY <1>0, <1>1, <3>1, <3>2, <3>4, <3>5, DequeueRight
    <3>7. SlotsMatch' BY <1>8, <3>6 DEF SlotsMatch
    <3>8. NoUnsolicited' BY <1>3, <3>4 DEF NoUnsolicited
    <3> QED BY <1>1, <2>1, <2>4, <3>6, <3>7, <3>8 DEF Right
  <2> QED BY <2>5, <2>6
\* A line of the body that looks like a closing guard, with another number.
<1>9. CASE /\ read = 1 /\ read' = 2 /\ fromTmux' = fromTmux /\ fromTmux[1].body = "guard"
           /\ inside' = FALSE /\ CloseBlock(Other)
  <2>1. Done' = Done /\ InOrder' BY <1>5, <1>9
  <2>2. Done # 0
    <3>1. 1 \in 1..Len(fromTmux) /\ fromTmux[1].cmd = Done BY <1>1, <1>4, Ahead, Counts
    <3> QED BY <1>3, <1>9, <3>1 DEF InOrder, Startup
  <2>3. open = [num |-> Done, startup |-> (Done = 0)] BY <1>3, <1>9 DEF Agree
  <2>4. Mismatch(Other) /\ open' = None
    <3>1. Done # Other BY <1>0, <1>2 DEF Other
    <3> QED BY <1>9, <2>3, <3>1 DEF Mismatch, CloseBlock
  <2>5. Agree' BY <1>9, <2>4 DEF Agree
  <2>6. Taken = Done - 1 /\ Taken' = Taken + 1 /\ Len(pending) >= 1
    BY <1>0, <1>2, <1>9, <2>1, <2>2 DEF Taken
  <2>7. pending # <<>> BY <2>6
  <2>8. Dequeue("rejected", 0) /\ unsolicited' = unsolicited
    BY <1>9, <2>4, <2>7 DEF CloseBlock, RejectOldest
  <2>9. /\ Len(pending') = sent' - Taken' /\ PromisesMatch' /\ OwnReply'
        /\ Taken + 1 \in Command
        /\ \/ UNCHANGED promise
           \/ /\ promise[Taken + 1] = "waiting"
              /\ promise' = [promise EXCEPT ![Taken + 1] = "rejected"]
    BY <1>0, <1>1, <2>6, <2>7, <2>8, DequeueRight
  <2>10. SlotsMatch' BY <1>9, <2>9 DEF SlotsMatch
  <2>11. NoUnsolicited' BY <1>3, <2>8 DEF NoUnsolicited
  <2> QED BY <1>1, <2>1, <2>5, <2>9, <2>10, <2>11 DEF Right
\* The real closing guard of such a block is read as a notification.
<1>10. CASE /\ read = 2 /\ read' = 0 /\ fromTmux' = Tail(fromTmux)
            /\ UNCHANGED <<inside, open, pending, promise, reply, unsolicited>>
  <2>1. Done' = Done + 1 /\ InOrder' BY <1>6, <1>10
  <2>2. Taken' = Taken BY <1>0, <1>10, <2>1 DEF Taken
  <2>3. Agree' BY <1>3, <1>10 DEF Agree
  <2>4. SlotsMatch' BY <1>1, <1>3, <1>10, <2>2 DEF SlotsMatch
  <2>5. PromisesMatch' BY <1>1, <1>3, <1>10, <2>2 DEF PromisesMatch, Settled
  <2>6. OwnReply' /\ NoUnsolicited' BY <1>3, <1>10 DEF OwnReply, NoUnsolicited
  <2> QED BY <1>1, <1>10, <2>1, <2>3, <2>4, <2>5, <2>6 DEF Right
<1> QED BY <1>7, <1>8, <1>9, <1>10, LinesRead

\* A stall leaves every slot in its place.
LEMMA StallRight ==
    ASSUME Right, BootstrapStalls, TypeInv'
    PROVE  /\ Right' /\ sent' = sent
           /\ \A c \in Command : \/ promise'[c] = promise[c]
                                 \/ promise[c] = "waiting" /\ promise'[c] = "rejected"
<1> DEFINE S == OldestLive(SlotCount)
<1>0. /\ TypeOK /\ sent \in Nat /\ Done \in Nat /\ Taken \in Nat /\ Taken <= sent
      /\ Len(pending) = sent - Taken /\ Len(pending) \in Nat
      /\ DOMAIN pending = 1..Len(pending)
      /\ \A i \in DOMAIN pending : pending[i].cmd = Taken + i
      /\ fromTmux # <<>> => Done <= sent
      /\ read # 0 => fromTmux # <<>>
  BY Counts
<1>1. /\ CancelOldest(SlotCount)
      /\ UNCHANGED <<sent, toTmux, fromTmux, read, inside, open, unsolicited>>
  BY DEF BootstrapStalls, wire, parser
<1>2. Done' = Done /\ Taken' = Taken BY <1>1 DEF Done, Taken
<1>3. PromisesMatch /\ OwnReply /\ SlotsMatch /\ Agree /\ InOrder /\ NoUnsolicited
      /\ Command \subseteq Nat
  BY DEF Right, Command
<1>4. SlotsTyped' /\ Len(pending') = Len(pending) /\ DOMAIN pending' = DOMAIN pending
  BY <1>0, <1>1, CancelType
<1>5. /\ pending' = [i \in DOMAIN pending |->
                       IF i \in S THEN [pending[i] EXCEPT !.cancelled = TRUE] ELSE pending[i]]
      /\ promise' = [c \in Command |->
                       IF \E i \in S : pending[i].cmd = c THEN "rejected" ELSE promise[c]]
      /\ reply' = reply
  BY <1>1 DEF CancelOldest, Placeholders
<1>6. S \subseteq DOMAIN pending /\ \A i \in S : ~pending[i].cancelled BY DEF OldestLive, Live
<1>7. \A i \in DOMAIN pending : pending[i] \in SlotType
  BY <1>0, TypeFacts, ElementOfSeq
<1> HIDE DEF S
<1>8. \A i \in DOMAIN pending :
        /\ pending'[i].expected = pending[i].expected
        /\ pending'[i].cancelled = (pending[i].cancelled \/ i \in S)
  BY <1>5, <1>7 DEF SlotType
<1>9. ASSUME NEW c \in Command
      PROVE  /\ (\E i \in S : pending[i].cmd = c) =>
                   (Taken < c /\ c <= sent /\ c - Taken \in S)
             /\ (Taken < c /\ c <= sent) =>
                   /\ c - Taken \in DOMAIN pending
                   /\ (c - Taken \in S => \E i \in S : pending[i].cmd = c)
  <2>1. c \in Nat BY <1>3
  <2>2. ASSUME NEW i \in S, pending[i].cmd = c PROVE Taken < c /\ c <= sent /\ c - Taken \in S
    <3>1. i \in 1..Len(pending) /\ c = Taken + i BY <1>0, <1>6, <2>2
    <3>2. Taken < c /\ c <= sent /\ c - Taken = i BY <1>0, <2>1, <3>1
    <3> QED BY <3>2
  <2>3. ASSUME Taken < c, c <= sent
        PROVE  /\ c - Taken \in DOMAIN pending
               /\ (c - Taken \in S => \E i \in S : pending[i].cmd = c)
    <3>1. c - Taken \in 1..Len(pending) /\ Taken + (c - Taken) = c BY <1>0, <2>1, <2>3
    <3>2. pending[c - Taken].cmd = c BY <1>0, <3>1
    <3> QED BY <1>0, <3>1, <3>2
  <2> QED BY <2>2, <2>3
<1>10. ASSUME NEW c \in Command
       PROVE  \/ promise'[c] = promise[c]
              \/ promise[c] = "waiting" /\ promise'[c] = "rejected"
  <2>1. CASE \E i \in S : pending[i].cmd = c
    <3>1. Taken < c /\ c <= sent /\ c - Taken \in S BY <1>9, <2>1
    <3>2. promise[c] = "waiting" BY <1>3, <1>6, <3>1 DEF PromisesMatch
    <3> QED BY <1>5, <2>1, <3>2
  <2>2. CASE ~(\E i \in S : pending[i].cmd = c) BY <1>5, <2>2
  <2> QED BY <2>1, <2>2
<1>11. PromisesMatch'
  <2>1. ASSUME NEW c \in Command, c > sent PROVE promise'[c] = "unsent"
    <3>1. promise[c] = "unsent" BY <1>3, <2>1 DEF PromisesMatch
    <3> QED BY <1>10, <3>1
  <2>2. ASSUME NEW c \in Command, c <= Taken PROVE Settled(c)'
    <3>1. Settled(c) BY <1>3, <2>2 DEF PromisesMatch
    <3> QED BY <1>10, <3>1 DEF Settled
  <2>3. ASSUME NEW c \in Command, Taken < c, c <= sent
        PROVE promise'[c] = IF pending'[c - Taken].cancelled THEN "rejected" ELSE "waiting"
    <3>1. c - Taken \in DOMAIN pending BY <1>9, <2>3
    <3>2. CASE c - Taken \in S
      <4>1. promise'[c] = "rejected" BY <1>5, <1>9, <2>3, <3>2
      <4> QED BY <1>8, <3>1, <3>2, <4>1
    <3>3. CASE c - Taken \notin S
      <4>1. promise'[c] = promise[c] BY <1>5, <1>9, <3>3
      <4>2. pending'[c - Taken] = pending[c - Taken] BY <1>5, <3>1, <3>3
      <4> QED BY <1>3, <2>3, <4>1, <4>2 DEF PromisesMatch
    <3> QED BY <3>2, <3>3
  <2> QED BY <1>1, <1>2, <2>1, <2>2, <2>3 DEF PromisesMatch
<1>12. OwnReply'
  <2> SUFFICES ASSUME NEW c \in Command, promise'[c] = "resolved" PROVE reply'[c] = c
    BY DEF OwnReply
  <2>1. promise[c] = "resolved" BY <1>10
  <2> QED BY <1>3, <1>5, <2>1 DEF OwnReply
<1>13. InOrder' BY <1>1, <1>2, <1>3 DEF InOrder
<1>14. Agree' BY <1>1, <1>2, <1>3 DEF Agree
<1>15. SlotsMatch'
  <2>1. ASSUME read = 1, Done # 0 PROVE pending'[1].expected = Done
    <3>1. Taken = Done - 1 /\ Done <= sent BY <1>0, <2>1 DEF Taken
    <3>2. 1 \in DOMAIN pending BY <1>0, <3>1
    <3> QED BY <1>3, <1>8, <2>1, <3>2 DEF SlotsMatch
  <2> QED BY <1>0, <1>1, <1>2, <1>4, <2>1 DEF SlotsMatch
<1>16. NoUnsolicited' BY <1>1, <1>3 DEF NoUnsolicited
<1> QED BY <1>1, <1>10, <1>11, <1>12, <1>13, <1>14, <1>15, <1>16 DEF Right

\* tmux answers the oldest command it has not read, behind its earlier answers.
LEMMA AnswerRight == ASSUME Right, TmuxAnswers, TypeInv' PROVE Right'
<1>0. /\ TypeOK /\ sent \in Nat /\ Done \in Nat /\ Taken \in Nat
      /\ Len(toTmux) \in Nat /\ Len(fromTmux) \in Nat
      /\ Done + Len(fromTmux) = (sent + 1) - Len(toTmux)
      /\ read # 0 => fromTmux # <<>>
  BY Counts
<1>1. UNCHANGED <<sent, read, inside, open, pending, promise, reply, unsolicited, boot>>
  BY DEF TmuxAnswers, parser, promises
<1>2. toTmux # <<>> /\ toTmux' = Tail(toTmux) BY <1>0, AnswerType
<1>3. PICK body \in Bodies : fromTmux' = Append(fromTmux, Block(toTmux[1], body))
  BY <1>0, AnswerType
<1>4. /\ toTmux \in Seq(Command)
      /\ fromTmux \in Seq([cmd : {Startup} \cup Command, body : Bodies])
  BY <1>0, TypeFacts
<1>5. /\ Len(toTmux') = Len(toTmux) - 1 /\ Len(toTmux) >= 1 /\ toTmux[1] \in Command
      /\ \A i \in 1..(Len(toTmux) - 1) : toTmux'[i] = toTmux[i + 1]
  BY <1>2, <1>4, Ahead
<1> DEFINE b == Block(toTmux[1], body)
<1>6. b \in [cmd : {Startup} \cup Command, body : Bodies] /\ b.cmd = toTmux[1] /\ b.cmd # Startup
  BY <1>5 DEF Block, Command, Startup
<1> HIDE DEF b
<1>7. /\ Len(fromTmux') = Len(fromTmux) + 1
      /\ \A i \in 1..Len(fromTmux) : fromTmux'[i] = fromTmux[i]
      /\ fromTmux'[Len(fromTmux) + 1] = b
  BY <1>3, <1>4, <1>6, AppendProperties DEF b
<1>8. Done' = Done BY <1>0, <1>1, <1>5, <1>7 DEF Done
<1>9. Taken' = Taken BY <1>1, <1>8 DEF Taken
<1>10. InOrder /\ Agree /\ SlotsMatch /\ PromisesMatch /\ OwnReply /\ NoUnsolicited BY DEF Right
<1>11. InOrder'
  <2>1. ASSUME NEW i \in 1..Len(toTmux') PROVE toTmux'[i] = (sent' - Len(toTmux')) + i
    <3>1. i \in 1..(Len(toTmux) - 1) /\ i + 1 \in 1..Len(toTmux) BY <1>0, <1>5
    <3>2. toTmux[i + 1] = (sent - Len(toTmux)) + (i + 1) BY <1>10, <3>1 DEF InOrder
    <3>3. (sent - Len(toTmux)) + (i + 1) = (sent - (Len(toTmux) - 1)) + i BY <1>0, <3>1
    <3> QED BY <1>1, <1>5, <3>1, <3>2, <3>3
  <2>2. ASSUME NEW i \in 1..Len(fromTmux')
        PROVE  /\ fromTmux'[i].cmd = (Done + i) - 1
               /\ fromTmux'[i].cmd = Startup => fromTmux'[i].body = "plain"
    <3>1. CASE i \in 1..Len(fromTmux) BY <1>7, <1>10, <3>1 DEF InOrder
    <3>2. CASE i \notin 1..Len(fromTmux)
      <4>1. i = Len(fromTmux) + 1 BY <1>0, <1>7, <3>2
      <4>2. toTmux[1] = (sent - Len(toTmux)) + 1
        <5>1. 1 \in 1..Len(toTmux) BY <1>0, <1>5
        <5> QED BY <1>10, <5>1 DEF InOrder
      <4>3. (sent - Len(toTmux)) + 1 = (Done + (Len(fromTmux) + 1)) - 1 BY <1>0
      <4> QED BY <1>6, <1>7, <4>1, <4>2, <4>3
    <3> QED BY <3>1, <3>2
  <2> QED BY <1>0, <1>8, <2>1, <2>2 DEF InOrder
<1>12. Agree'
  <2>1. read = 2 => fromTmux'[1] = fromTmux[1]
    <3> SUFFICES ASSUME read = 2 PROVE fromTmux'[1] = fromTmux[1] OBVIOUS
    <3>1. 1 \in 1..Len(fromTmux) BY <1>0, <1>4, Ahead
    <3> QED BY <1>7, <3>1
  <2> QED BY <1>1, <1>8, <1>10, <2>1 DEF Agree
<1>13. SlotsMatch' BY <1>1, <1>8, <1>9, <1>10 DEF SlotsMatch
<1>14. PromisesMatch' BY <1>1, <1>9, <1>10 DEF PromisesMatch, Settled
<1>15. OwnReply' /\ NoUnsolicited' BY <1>1, <1>10 DEF OwnReply, NoUnsolicited
<1> QED BY <1>11, <1>12, <1>13, <1>14, <1>15 DEF Right

LEMMA RestRight ==
    ASSUME Right, TypeInv', UNCHANGED <<sent, toTmux, fromTmux, read, inside, open, pending,
                                        promise, reply, unsolicited>>
    PROVE  Right'
<1>1. Done' = Done /\ Taken' = Taken BY DEF Done, Taken
<1> QED BY <1>1 DEF Right, InOrder, Agree, SlotsMatch, PromisesMatch, OwnReply, NoUnsolicited, Settled

LEMMA StepRight == Right /\ NoTranscripts /\ [Next]_vars => Right'
<1> SUFFICES ASSUME Right, NoTranscripts, [Next]_vars PROVE Right' OBVIOUS
<1>0. TypeInv' BY StepTypeInv DEF Right
<1>1. ASSUME NEW n \in {1, 2}, Send(n) PROVE Right'
  <2>1. Sending(n) /\ UNCHANGED <<fromTmux, read, inside, open, unsolicited>>
    BY <1>1 DEF Send, parser
  <2> QED BY <1>0, <2>1, SendingRight
<1>2. ASSUME BootstrapLists PROVE Right'
  <2>1. Sending(2) /\ UNCHANGED <<fromTmux, read, inside, open, unsolicited>>
    BY <1>2 DEF BootstrapLists, parser
  <2> QED BY <1>0, <2>1, SendingRight
<1>3. ASSUME BootstrapStalls PROVE Right' BY <1>0, <1>3, StallRight
<1>4. ASSUME BootstrapEnds \/ UNCHANGED vars PROVE Right'
  <2>1. UNCHANGED <<sent, toTmux, fromTmux, read, inside, open, pending, promise, reply, unsolicited>>
    BY <1>4 DEF BootstrapEnds, vars, wire, parser, promises
  <2> QED BY <1>0, <2>1, RestRight
<1>5. ASSUME TmuxAnswers PROVE Right' BY <1>0, <1>5, AnswerRight
<1>6. ASSUME ReadLine PROVE Right' BY <1>0, <1>6, ReadLineRight
<1> QED BY <1>1, <1>2, <1>3, <1>4, <1>5, <1>6 DEF Next

\* As long as no body holds a whole block: no promise resolves with another command's reply
\* (tc-3si.1), although slots are bound by position, abandoned slots stay, and a block may be
\* closed early by a line of its body.
THEOREM RepliesAreOwn == ASSUME NoTranscripts PROVE Spec => []OwnReply
<1>1. Init => Right BY InitRight
<1>2. Right /\ [Next]_vars => Right' BY StepRight
<1>3. Right => OwnReply BY DEF Right
<1> QED BY <1>1, <1>2, <1>3, PTL DEF Spec

\* Under the same condition no block closes without a slot to take, so that
\* correlator_unsolicited_blocks_total stays zero.
THEOREM NothingUnsolicited == ASSUME NoTranscripts PROVE Spec => []NoUnsolicited
<1>1. Init => Right BY InitRight
<1>2. Right /\ [Next]_vars => Right' BY StepRight
<1>3. Right => NoUnsolicited BY DEF Right
<1> QED BY <1>1, <1>2, <1>3, PTL DEF Spec

-----------------------------------------------------------------------------
(* The abstract specification *)

\* With replies bound to their commands, the outcomes are the promises.
LEMMA OutcomeIsPromise ==
    ASSUME TypeOK, OwnReply PROVE [c \in Command |-> Outcome(c)] = promise
<1>1. promise \in [Command -> {"unsent", "waiting", "resolved", "rejected"}] BY TypeFacts
<1>2. \A c \in Command : Outcome(c) = promise[c] BY DEF Outcome, OwnReply
<1> QED BY <1>1, <1>2

LEMMA InitKeeps == Init => Promise!Init
<1> SUFFICES ASSUME Init PROVE Promise!Init OBVIOUS
<1>1. promise = [c \in Command |-> "unsent"] /\ sent = 0 BY DEF Init
<1>2. \A c \in Command : Outcome(c) = "unsent" BY <1>1 DEF Outcome
<1> QED BY <1>1, <1>2 DEF Promise!Init

LEMMA StepKeeps ==
    ASSUME Right, Right', NoTranscripts, [Next]_vars
    PROVE  [Promise!Next]_<<sent, [c \in Command |-> Outcome(c)]>>
<1> DEFINE out == [c \in Command |-> Outcome(c)]
<1>1. out = promise BY OutcomeIsPromise DEF Right, TypeInv
<1>2. out' = promise'
  <2>1. TypeOK' /\ OwnReply' BY DEF Right, TypeInv
  <2>2. promise' \in [Command -> {"unsent", "waiting", "resolved", "rejected"}] BY <2>1 DEF TypeOK
  <2>3. \A c \in Command : Outcome(c)' = promise'[c] BY <2>1 DEF Outcome, OwnReply
  <2> QED BY <2>2, <2>3
<1>3. promise \in [Command -> {"unsent", "waiting", "resolved", "rejected"}]
      /\ promise' \in [Command -> {"unsent", "waiting", "resolved", "rejected"}]
  BY DEF Right, TypeInv, TypeOK
<1> HIDE DEF out
<1>4. TypeInv' BY DEF Right
<1>5. ASSUME NEW n \in {1, 2}, Sending(n) PROVE Promise!Next
  <2>1. sent' = sent + n
        /\ promise' = [c \in Command |-> IF sent < c /\ c <= sent + n THEN "waiting" ELSE promise[c]]
    BY <1>5 DEF Sending
  <2>2. out' = [c \in Command |->
                  IF c \in {d \in Command : sent < d /\ d <= sent + n} THEN "waiting" ELSE out[c]]
    BY <1>1, <1>2, <2>1
  <2>3. Promise!Send(n) BY <2>1, <2>2 DEF Promise!Send, Promise!Becomes, out
  <2> QED BY <2>3 DEF Promise!Next
<1>6. ASSUME NEW S \in SUBSET Command, \A c \in S : promise[c] = "waiting", sent' = sent,
             promise' = [c \in Command |-> IF c \in S THEN "rejected" ELSE promise[c]]
      PROVE  Promise!Next
  <2>1. out' = [c \in Command |-> IF c \in S THEN "rejected" ELSE out[c]] BY <1>1, <1>2, <1>6
  <2>2. S \subseteq {c \in Command : out[c] = "waiting"} BY <1>1, <1>6
  <2>3. Promise!GiveUp(S)
    BY <1>6, <2>1, <2>2 DEF Promise!GiveUp, Promise!Becomes, Promise!Waiting, out
  <2> QED BY <2>3 DEF Promise!Next
<1>7. ASSUME UNCHANGED <<sent, promise>> PROVE UNCHANGED <<sent, out>> BY <1>1, <1>2, <1>7
<1>8. ASSUME ReadLine PROVE Promise!Next \/ UNCHANGED <<sent, out>>
  <2>1. /\ sent' = sent
        /\ \/ UNCHANGED promise
           \/ \E how \in {"resolved", "rejected"} :
                /\ Taken + 1 \in Command /\ promise[Taken + 1] = "waiting"
                /\ promise' = [promise EXCEPT ![Taken + 1] = how]
    BY <1>4, <1>8, ReadLineRight
  <2>2. ASSUME Taken + 1 \in Command, promise[Taken + 1] = "waiting",
               promise' = [promise EXCEPT ![Taken + 1] = "rejected"]
        PROVE  Promise!Next
    <3>1. promise' = [c \in Command |-> IF c \in {Taken + 1} THEN "rejected" ELSE promise[c]]
      BY <1>3, <2>2
    <3> QED BY <1>6, <2>1, <2>2, <3>1
  <2>3. ASSUME Taken + 1 \in Command, promise[Taken + 1] = "waiting",
               promise' = [promise EXCEPT ![Taken + 1] = "resolved"]
        PROVE  Promise!Next
    <3> DEFINE c0 == Taken + 1
    <3>1. \A d \in Command : promise[d] = "waiting" => c0 <= d
      <4> SUFFICES ASSUME NEW d \in Command, promise[d] = "waiting" PROVE c0 <= d OBVIOUS
      <4>1. ~Settled(d) BY DEF Settled
      <4>2. ~(d <= Taken) BY <4>1 DEF Right, PromisesMatch
      <4>3. Taken \in Nat /\ d \in Nat BY Counts DEF Command
      <4> QED BY <4>2, <4>3
    <3> HIDE DEF c0
    <3>2. out' = [c \in Command |-> IF c \in {c0} THEN "resolved" ELSE out[c]]
      BY <1>1, <1>2, <1>3, <2>3 DEF c0
    <3>3. c0 \in {c \in Command : out[c] = "waiting"}
          /\ \A d \in {c \in Command : out[c] = "waiting"} : c0 <= d
      BY <1>1, <2>3, <3>1 DEF c0
    <3>4. Promise!Answer(c0)
      BY <2>1, <3>2, <3>3 DEF Promise!Answer, Promise!Becomes, Promise!Waiting, out
    <3> QED BY <2>3, <3>4 DEF Promise!Next, c0
  <2> QED BY <1>7, <2>1, <2>2, <2>3
<1>9. ASSUME BootstrapStalls PROVE Promise!Next
  <2> DEFINE S == {c \in Command : promise'[c] # promise[c]}
  <2>1. /\ sent' = sent
        /\ \A c \in Command : \/ promise'[c] = promise[c]
                              \/ promise[c] = "waiting" /\ promise'[c] = "rejected"
    BY <1>4, <1>9, StallRight
  <2>2. promise' = [c \in Command |-> IF c \in S THEN "rejected" ELSE promise[c]]
    BY <1>3, <2>1
  <2>3. S \in SUBSET Command /\ \A c \in S : promise[c] = "waiting" BY <2>1
  <2> HIDE DEF S
  <2> QED BY <1>6, <2>1, <2>2, <2>3
<1>10. ASSUME NEW n \in {1, 2}, Send(n) PROVE Promise!Next BY <1>5, <1>10 DEF Send
<1>11. ASSUME BootstrapLists PROVE Promise!Next BY <1>5, <1>11 DEF BootstrapLists
<1>12. ASSUME BootstrapEnds \/ TmuxAnswers \/ UNCHANGED vars PROVE UNCHANGED <<sent, out>>
  <2>1. UNCHANGED <<sent, promise>> BY <1>12 DEF BootstrapEnds, TmuxAnswers, vars, promises
  <2> QED BY <1>7, <2>1
<1>13. Promise!Next \/ UNCHANGED <<sent, out>>
  BY <1>8, <1>9, <1>10, <1>11, <1>12 DEF Next
<1> QED BY <1>13 DEF out

\* Under the same condition the correlator implements CommandReply: commands are answered in
\* the order of sending, each at most once and with its own reply, or given up.
THEOREM CorrelatorKeepsPromise == ASSUME NoTranscripts PROVE Spec => KeepsPromise
<1>1. Init => Right /\ Promise!Init BY InitRight, InitKeeps
<1>2. Right /\ [Next]_vars => Right' BY StepRight
<1>3. Right /\ Right' /\ [Next]_vars => [Promise!Next]_<<sent, [c \in Command |-> Outcome(c)]>>
  BY StepKeeps
<1> QED BY <1>1, <1>2, <1>3, PTL DEF Spec, KeepsPromise, Promise!Spec
=============================================================================
