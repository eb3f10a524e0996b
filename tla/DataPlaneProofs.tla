--------------------------- MODULE DataPlaneProofs ---------------------------
(***************************************************************************)
(* Proofs about DataPlane, for any connections, hydrations and chunks: no  *)
(* live byte reaches a client between the begin of a hydration and its     *)
(* replay, and its screen misses nothing that was not dropped for all, as  *)
(* long as a client does not ask for a pane it is still sent.  What a      *)
(* client was sent is looked at together with where its hydration is and   *)
(* which command of it is under way; the second half adds where each chunk *)
(* that was read may still be.                                             *)
(***************************************************************************)
EXTENDS DataPlane, SequenceTheorems, TLAPS

Verb == {"report", "capture", "facts"}
Frame == [kind : {"live", "replay", "opened", "closed", "empty", "begin", "end", "failed"},
          n : Int]
Order == [c : Client, j : Job, verb : Verb]
Token == [kind : {"out"}, n : Int]
    \cup [kind : {"reply"}, verb : Verb, c : Client, j : Job, ok : BOOLEAN, n : Int]
Stage == [at : Verb \cup {"unused", "sent", "done"}, asked : BOOLEAN, body : Int]

TypeInv ==
    /\ alive \in BOOLEAN /\ written \in Int
    /\ cmds \in Seq(Order) /\ stream \in Seq(Token)
    /\ known \in {"no", "yes", "closed"} /\ window \subseteq Client /\ attached \subseteq Client
    /\ staged \in Seq(Int) /\ flush \in Seq(Int) /\ queue \in [Client -> Seq(Int)]
    /\ job \in [Client -> [Job -> Stage]] /\ seen \in [Client -> Seq(Frame)]

-----------------------------------------------------------------------------
(* Whose commands are under way: of each client's one hydration at most one, *)
(* the one its stage says.                                                   *)

IsBusy(s) == s.at \notin {"unused", "done"}
OneBusy(c) == \A i, j \in Job : IsBusy(job[c][i]) /\ IsBusy(job[c][j]) => i = j
IsReply(t) == t.kind = "reply"
Asking(cm, st, jb) ==
    /\ \A i \in DOMAIN cm : jb[cm[i].c][cm[i].j].at = cm[i].verb
    /\ \A i \in DOMAIN st : IsReply(st[i]) => jb[st[i].c][st[i].j].at = st[i].verb
    /\ \A i, k \in DOMAIN cm : cm[i].c = cm[k].c => i = k
    /\ \A i, k \in DOMAIN st : IsReply(st[i]) /\ IsReply(st[k]) /\ st[i].c = st[k].c => i = k
    /\ \A i \in DOMAIN cm, k \in DOMAIN st : IsReply(st[k]) => cm[i].c # st[k].c
AskInv == Asking(cmds, stream, job)
\* Nothing of client c is under way.
Free(cm, st, c) ==
    /\ \A i \in DOMAIN cm : cm[i].c # c
    /\ \A i \in DOMAIN st : IsReply(st[i]) => st[i].c # c

-----------------------------------------------------------------------------
(* What a client was sent *)

\* A hydration has begun and neither a live byte nor another one came since.
Quiet(s) ==
    \E b \in DOMAIN s :
        /\ s[b].kind = "begin"
        /\ \A x \in DOMAIN s : x > b => s[x].kind \notin {"live", "begin"}
\* So it is before each replay.
Unmixed(s) ==
    \A i \in DOMAIN s :
        /\ s[i].kind = "replay" =>
              \E b \in 1..i : /\ s[b].kind = "begin"
                             /\ \A x \in 1..i : x > b => s[x].kind \notin {"live", "begin"}
        /\ IsData(s[i]) => \E x \in 1..i : s[x].kind = "opened"

\* While its capture is on the way live bytes are queued, or come no more; who is sent
\* any has been told that the pane is there; and a connection is not used again.
ClientInv(c) ==
    /\ Unmixed(seen[c]) /\ OneBusy(c)
    /\ c \in attached \/ (\E j \in Job : IsBusy(job[c][j])) => seen[c] # <<>>
    /\ c \in attached /\ (known = "yes" \/ \E j \in Job : IsBusy(job[c][j])) => Opened(seen[c])
    /\ \A j \in Job : job[c][j].at \in {"capture", "facts"} =>
          /\ c \in window \/ known = "closed"
          /\ c \in attached => Quiet(seen[c])
    /\ known = "closed" => queue[c] = <<>>

Inv == TypeInv /\ AskInv /\ \A c \in Client : ClientInv(c)

-----------------------------------------------------------------------------
(* Frames are appended *)

\* What becomes of the frames s when t follows them.
LEMMA Extended ==
    ASSUME NEW s \in Seq(Frame), NEW t \in Seq(Frame)
    PROVE  /\ s \o t \in Seq(Frame)
           /\ s # <<>> \/ t # <<>> => s \o t # <<>>
           /\ Opened(s) \/ Opened(t) => Opened(s \o t)
           /\ Unmixed(s) /\ (\A k \in DOMAIN t : t[k].kind # "replay")
                /\ ((\E k \in DOMAIN t : IsData(t[k])) => Opened(s)) => Unmixed(s \o t)
           /\ Quiet(s) /\ (\A k \in DOMAIN t : t[k].kind \notin {"live", "begin"})
                => Quiet(s \o t)
<1> DEFINE u == s \o t
           m == Len(s)
           n == Len(t)
<1>1. m \in Nat /\ n \in Nat /\ DOMAIN s = 1..m /\ DOMAIN t = 1..n BY LenProperties
<1>2. u \in Seq(Frame) /\ DOMAIN u = 1..(m + n) BY ConcatProperties, LenProperties
<1>3. \A i \in 1..m : u[i] = s[i] /\ i \in 1..(m + n) BY <1>1, ConcatProperties
<1>4. \A k \in 1..n : u[m + k] = t[k] /\ m + k \in 1..(m + n)
  BY <1>1, ConcatProperties
<1>5. \A i \in 1..(m + n) : i \notin 1..m => i - m \in 1..n /\ u[i] = t[i - m] /\ i > m
  BY <1>1, ConcatProperties
<1>6. s # <<>> \/ t # <<>> => u # <<>> BY ConcatProperties, EmptySeq
<1> HIDE DEF u, m, n
<1>7. Opened(s) \/ Opened(t) => Opened(u) BY <1>1, <1>2, <1>3, <1>4 DEF Opened
<1>8. ASSUME Unmixed(s), \A k \in DOMAIN t : t[k].kind # "replay",
             (\E k \in DOMAIN t : IsData(t[k])) => Opened(s)
      PROVE  Unmixed(u)
  <2> SUFFICES ASSUME NEW i \in 1..(m + n)
               PROVE  /\ u[i].kind = "replay" =>
                            \E b \in 1..i : /\ u[b].kind = "begin"
                               /\ \A x \in 1..i : x > b => u[x].kind \notin {"live", "begin"}
                      /\ IsData(u[i]) => \E x \in 1..i : u[x].kind = "opened"
    BY <1>2 DEF Unmixed
  <2>1. CASE i \in 1..m
    <3>1. \A x \in 1..i : u[x] = s[x] BY <1>1, <1>3, <2>1
    <3>2. u[i] = s[i] /\ i \in DOMAIN s BY <1>1, <1>3, <2>1
    <3> QED BY <1>8, <3>1, <3>2 DEF Unmixed
  <2>2. CASE i \notin 1..m
    <3>1. i - m \in 1..n /\ u[i] = t[i - m] /\ i > m BY <1>5, <2>2
    <3>2. u[i].kind # "replay" BY <3>1, <1>1, <1>8
    <3>3. ASSUME IsData(u[i]) PROVE \E x \in 1..i : u[x].kind = "opened"
      <4>1. Opened(s) BY <3>1, <3>3, <1>1, <1>8
      <4>2. PICK x \in 1..m : s[x].kind = "opened" BY <4>1, <1>1 DEF Opened
      <4>3. x \in 1..i /\ u[x] = s[x] BY <1>1, <1>3, <3>1, <4>2
      <4> QED BY <4>2, <4>3
    <3> QED BY <3>2, <3>3
  <2> QED BY <2>1, <2>2
<1>9. ASSUME Quiet(s), \A k \in DOMAIN t : t[k].kind \notin {"live", "begin"} PROVE Quiet(u)
  <2>1. PICK b \in 1..m : /\ s[b].kind = "begin"
                          /\ \A x \in 1..m : x > b => s[x].kind \notin {"live", "begin"}
    BY <1>1, <1>9 DEF Quiet
  <2>2. ASSUME NEW x \in 1..(m + n), x > b PROVE u[x].kind \notin {"live", "begin"}
    BY <1>1, <1>3, <1>5, <1>9, <2>1, <2>2
  <2>3. b \in DOMAIN u /\ u[b].kind = "begin" BY <1>2, <1>3, <2>1
  <2> QED BY <1>2, <2>2, <2>3 DEF Quiet
<1> QED BY <1>2, <1>6, <1>7, <1>8, <1>9 DEF u

\* The replay after its begin.
LEMMA Replayed ==
    ASSUME NEW s \in Seq(Frame), Unmixed(s), Quiet(s), Opened(s), NEW n \in Int
    PROVE  Unmixed(s \o <<Replay(n)>>)
<1> DEFINE u == s \o <<Replay(n)>>
           m == Len(s)
<1>1. m \in Nat /\ DOMAIN s = 1..m BY LenProperties
<1>2. Replay(n) \in Frame /\ Replay(n).kind = "replay" BY DEF Replay, Frame
<1>3. u = Append(s, Replay(n)) BY <1>2, AppendIsConcat
<1>4. u \in Seq(Frame) /\ Len(u) = m + 1 /\ DOMAIN u = 1..(m + 1)
  BY <1>2, <1>3, AppendProperties, LenProperties
<1>5. (\A i \in 1..m : u[i] = s[i]) /\ u[m + 1] = Replay(n) BY <1>2, <1>3, AppendProperties
<1> HIDE DEF u, m
<1>6. PICK b \in 1..m : /\ s[b].kind = "begin"
                        /\ \A x \in 1..m : x > b => s[x].kind \notin {"live", "begin"}
  BY <1>1 DEF Quiet
<1>7. ASSUME NEW i \in 1..m
      PROVE  /\ u[i].kind = "replay" =>
                   \E a \in 1..i : /\ u[a].kind = "begin"
                      /\ \A x \in 1..i : x > a => u[x].kind \notin {"live", "begin"}
             /\ IsData(u[i]) => \E x \in 1..i : u[x].kind = "opened"
  <2>1. \A x \in 1..i : u[x] = s[x] BY <1>1, <1>5
  <2>2. u[i] = s[i] /\ i \in DOMAIN s BY <1>1, <1>5
  <2> QED BY <2>1, <2>2 DEF Unmixed
<1>8. \A x \in 1..(m + 1) : x \in 1..m \/ x = m + 1 BY <1>1
<1>9. b \in 1..(m + 1) /\ u[b].kind = "begin" BY <1>1, <1>5, <1>6
<1>10. \A x \in 1..(m + 1) : x > b => u[x].kind \notin {"live", "begin"}
  BY <1>2, <1>5, <1>6, <1>8
<1>11. \E x \in 1..(m + 1) : u[x].kind = "opened"
  <2>1. PICK x \in 1..m : s[x].kind = "opened" BY <1>1 DEF Opened
  <2> QED BY <2>1, <1>1, <1>5
<1>12. \A i \in DOMAIN u : i \in 1..m \/ i = m + 1 BY <1>4, <1>8
<1> QED BY <1>7, <1>9, <1>10, <1>11, <1>12 DEF Unmixed, u

\* The begin that NoInterleave looks for is that one.
LEMMA UnmixedIsEnough ==
    ASSUME NEW s \in Seq(Frame), Unmixed(s), NEW i \in DOMAIN s, s[i].kind = "replay"
    PROVE  LET b == Max({x \in 1..i : s[x].kind = "begin"})
           IN  \A x \in b..i : s[x].kind # "live"
<1> DEFINE S == {x \in 1..i : s[x].kind = "begin"}
<1>1. i \in Nat BY LenProperties
<1>2. PICK b \in 1..i : /\ s[b].kind = "begin"
                        /\ \A x \in 1..i : x > b => s[x].kind \notin {"live", "begin"}
  BY DEF Unmixed
<1>3. b \in S /\ S \subseteq Int /\ b \in Int BY <1>1, <1>2
<1>4. \A y \in S : b >= y BY <1>1, <1>2
<1>5. Max(S) = b
  <2> HIDE DEF S
  <2>1. Max(S) \in S /\ \A y \in S : Max(S) >= y BY <1>3, <1>4 DEF Max
  <2> HIDE DEF Max
  <2>2. Max(S) \in Int BY <1>3, <2>1
  <2>3. Max(S) >= b /\ b >= Max(S) BY <1>3, <1>4, <2>1
  <2> QED BY <1>3, <2>2, <2>3
<1>6. ASSUME NEW x \in b..i PROVE s[x].kind # "live"
  <2>1. x \in 1..i /\ (x = b \/ x > b) BY <1>1, <1>2
  <2> QED BY <1>2, <2>1
<1> QED BY <1>5, <1>6

\* A begin makes quiet whatever came before.
LEMMA BegunIsQuiet ==
    ASSUME NEW s \in Seq(Frame) PROVE Quiet(s \o <<Control("begin")>>)
<1> DEFINE u == s \o <<Control("begin")>>
           m == Len(s)
<1>1. Control("begin") \in Frame /\ Control("begin").kind = "begin" BY DEF Control, Frame
<1>2. u = Append(s, Control("begin")) BY <1>1, AppendIsConcat
<1>3. m \in Nat /\ DOMAIN u = 1..(m + 1) /\ u[m + 1] = Control("begin")
  BY <1>1, <1>2, AppendProperties, LenProperties
<1> HIDE DEF u, m
<1>4. m + 1 \in DOMAIN u /\ \A x \in DOMAIN u : ~(x > m + 1) BY <1>3
<1> QED BY <1>1, <1>3, <1>4 DEF Quiet, u

LEMMA LivesAreFrames ==
    ASSUME NEW s \in Seq(Int)
    PROVE  /\ Lives(s) \in Seq(Frame)
           /\ \A k \in DOMAIN Lives(s) : Lives(s)[k].kind = "live"
           /\ s = <<>> => Lives(s) = <<>>
<1>1. Len(s) \in Nat /\ DOMAIN s = 1..Len(s) /\ \A i \in DOMAIN s : s[i] \in Int
  BY LenProperties, ElementOfSeq
<1>2. \A i \in DOMAIN s : Live(s[i]) \in Frame /\ Live(s[i]).kind = "live"
  BY <1>1 DEF Live, Frame
<1>3. Lives(s) = [i \in 1..Len(s) |-> Live(s[i])] BY <1>1 DEF Lives
<1>4. Lives(s) \in Seq(Frame) BY <1>1, <1>2, <1>3, SeqDef
<1>5. s = <<>> => Lives(s) = <<>> BY <1>3
<1> QED BY <1>1, <1>2, <1>3, <1>4, <1>5

-----------------------------------------------------------------------------
(* Commands are asked, answered and read *)

Jobs == [Client -> [Job -> Stage]]

LEMMA ReplyRead ==
    ASSUME NEW cm \in Seq(Order), NEW st \in Seq(Token), NEW jb, Asking(cm, st, jb), st # <<>>
    PROVE  /\ Asking(cm, Tail(st), jb) /\ Tail(st) \in Seq(Token) /\ Head(st) \in Token
           /\ IsReply(Head(st)) => /\ Free(cm, Tail(st), Head(st).c)
                                   /\ jb[Head(st).c][Head(st).j].at = Head(st).verb
<1> DEFINE t == Tail(st)
           n == Len(st)
<1>1. n \in Nat \ {0} /\ DOMAIN st = 1..n BY LenProperties, EmptySeq
<1>2. t \in Seq(Token) /\ DOMAIN t = 1..(n - 1) BY <1>1, HeadTailProperties, LenProperties
<1>3. \A i \in 1..(n - 1) : t[i] = st[i + 1] /\ i + 1 \in 1..n /\ i + 1 # 1
  BY <1>1, HeadTailProperties
<1>4. Head(st) = st[1] /\ 1 \in 1..n /\ Head(st) \in Token BY <1>1, HeadTailProperties
<1>5. \A i, k \in 1..(n - 1) : i + 1 = k + 1 => i = k BY <1>1
<1> HIDE DEF t, n
<1>6. Asking(cm, t, jb)
  <2>1. \A i \in DOMAIN t : IsReply(t[i]) => jb[t[i].c][t[i].j].at = t[i].verb
    BY <1>1, <1>2, <1>3 DEF Asking
  <2>2. \A i, k \in DOMAIN t : IsReply(t[i]) /\ IsReply(t[k]) /\ t[i].c = t[k].c => i = k
    <3> SUFFICES ASSUME NEW i \in 1..(n - 1), NEW k \in 1..(n - 1),
                        IsReply(t[i]), IsReply(t[k]), t[i].c = t[k].c
                 PROVE  i = k
      BY <1>2
    <3>1. t[i] = st[i + 1] /\ t[k] = st[k + 1] /\ i + 1 \in 1..n /\ k + 1 \in 1..n BY <1>3
    <3>2. \A a, b \in 1..n : IsReply(st[a]) /\ IsReply(st[b]) /\ st[a].c = st[b].c => a = b
      BY <1>1 DEF Asking
    <3>3. i + 1 = k + 1 BY <3>1, <3>2
    <3> QED BY <3>3, <1>5
  <2>3. \A i \in DOMAIN cm, k \in DOMAIN t : IsReply(t[k]) => cm[i].c # t[k].c
    BY <1>1, <1>2, <1>3 DEF Asking
  <2> QED BY <2>1, <2>2, <2>3 DEF Asking
<1>7. IsReply(Head(st)) => Free(cm, t, Head(st).c)
  <2> SUFFICES ASSUME IsReply(st[1]) PROVE Free(cm, t, st[1].c) BY <1>4
  <2>1. \A i \in DOMAIN cm : cm[i].c # st[1].c BY <1>1, <1>4 DEF Asking
  <2>2. ASSUME NEW i \in DOMAIN t, IsReply(t[i]) PROVE t[i].c # st[1].c
    <3>1. i + 1 \in 1..n /\ i + 1 # 1 /\ t[i] = st[i + 1] BY <1>2, <1>3
    <3>2. st[i + 1].c = st[1].c => i + 1 = 1 BY <1>1, <1>4, <2>2, <3>1 DEF Asking
    <3> QED BY <3>1, <3>2
  <2> QED BY <2>1, <2>2 DEF Free
<1> QED BY <1>1, <1>2, <1>4, <1>6, <1>7 DEF t, Asking

LEMMA OrderRead ==
    ASSUME NEW cm \in Seq(Order), NEW st \in Seq(Token), NEW jb, Asking(cm, st, jb), cm # <<>>
    PROVE  /\ Asking(Tail(cm), st, jb) /\ Tail(cm) \in Seq(Order) /\ Head(cm) \in Order
           /\ Free(Tail(cm), st, Head(cm).c)
           /\ jb[Head(cm).c][Head(cm).j].at = Head(cm).verb
<1> DEFINE t == Tail(cm)
           n == Len(cm)
<1>1. n \in Nat \ {0} /\ DOMAIN cm = 1..n BY LenProperties, EmptySeq
<1>2. t \in Seq(Order) /\ DOMAIN t = 1..(n - 1) BY <1>1, HeadTailProperties, LenProperties
<1>3. \A i \in 1..(n - 1) : t[i] = cm[i + 1] /\ i + 1 \in 1..n /\ i + 1 # 1
  BY <1>1, HeadTailProperties
<1>4. Head(cm) = cm[1] /\ 1 \in 1..n /\ Head(cm) \in Order BY <1>1, HeadTailProperties
<1>5. \A i, k \in 1..(n - 1) : i + 1 = k + 1 => i = k BY <1>1
<1> HIDE DEF t, n
<1>o. /\ \A i \in 1..n : jb[cm[i].c][cm[i].j].at = cm[i].verb
      /\ \A i, k \in 1..n : cm[i].c = cm[k].c => i = k
      /\ \A i \in 1..n, k \in DOMAIN st : IsReply(st[k]) => cm[i].c # st[k].c
  BY <1>1 DEF Asking
<1>6. Asking(t, st, jb)
  <2>1. \A i \in DOMAIN t : jb[t[i].c][t[i].j].at = t[i].verb
    <3> SUFFICES ASSUME NEW i \in 1..(n - 1) PROVE jb[t[i].c][t[i].j].at = t[i].verb BY <1>2
    <3>1. t[i] = cm[i + 1] /\ i + 1 \in 1..n BY <1>3
    <3> QED BY <1>o, <3>1
  <2>2. \A i, k \in DOMAIN t : t[i].c = t[k].c => i = k
    <3> SUFFICES ASSUME NEW i \in 1..(n - 1), NEW k \in 1..(n - 1), t[i].c = t[k].c
                 PROVE  i = k
      BY <1>2
    <3>1. t[i] = cm[i + 1] /\ t[k] = cm[k + 1] /\ i + 1 \in 1..n /\ k + 1 \in 1..n BY <1>3
    <3>2. i + 1 = k + 1 BY <1>o, <3>1
    <3> QED BY <3>2, <1>5
  <2>3. \A i \in DOMAIN t, k \in DOMAIN st : IsReply(st[k]) => t[i].c # st[k].c
    <3> SUFFICES ASSUME NEW i \in 1..(n - 1), NEW k \in DOMAIN st, IsReply(st[k])
                 PROVE  t[i].c # st[k].c
      BY <1>2
    <3>1. t[i] = cm[i + 1] /\ i + 1 \in 1..n BY <1>3
    <3> QED BY <1>o, <3>1
  <2> QED BY <2>1, <2>2, <2>3 DEF Asking
<1>7. Free(t, st, cm[1].c)
  <2>1. ASSUME NEW i \in DOMAIN t PROVE t[i].c # cm[1].c
    <3>1. i + 1 \in 1..n /\ i + 1 # 1 /\ t[i] = cm[i + 1] BY <1>2, <1>3
    <3>2. cm[i + 1].c = cm[1].c => i + 1 = 1 BY <1>1, <1>4, <3>1 DEF Asking
    <3> QED BY <3>1, <3>2
  <2>2. \A k \in DOMAIN st : IsReply(st[k]) => st[k].c # cm[1].c BY <1>1, <1>4 DEF Asking
  <2> QED BY <2>1, <2>2 DEF Free
<1> QED BY <1>1, <1>2, <1>4, <1>6, <1>7 DEF t, Asking

LEMMA OtherJobs ==
    ASSUME NEW cm \in Seq(Order), NEW st \in Seq(Token), NEW jb, Asking(cm, st, jb),
           NEW c, Free(cm, st, c), NEW j2, \A d \in Client : d # c => j2[d] = jb[d]
    PROVE  Asking(cm, st, j2)
<1>1. \A i \in DOMAIN cm : cm[i].c \in Client
  <2>1. \A i \in DOMAIN cm : cm[i] \in Order BY LenProperties, ElementOfSeq
  <2> QED BY <2>1 DEF Order
<1>2. \A i \in DOMAIN st : IsReply(st[i]) => st[i].c \in Client
  <2>1. \A i \in DOMAIN st : st[i] \in Token BY LenProperties, ElementOfSeq
  <2> QED BY <2>1 DEF Token, IsReply
<1> QED BY <1>1, <1>2 DEF Asking, Free

LEMMA OrderAsked ==
    ASSUME NEW cm \in Seq(Order), NEW st \in Seq(Token), NEW jb, Asking(cm, st, jb),
           NEW o \in Order, Free(cm, st, o.c), jb[o.c][o.j].at = o.verb
    PROVE  Append(cm, o) \in Seq(Order) /\ Asking(Append(cm, o), st, jb)
<1> DEFINE t == Append(cm, o)
           n == Len(cm)
<1>1. n \in Nat /\ DOMAIN cm = 1..n BY LenProperties
<1>2. t \in Seq(Order) /\ DOMAIN t = 1..(n + 1) BY AppendProperties, LenProperties
<1>3. (\A i \in 1..n : t[i] = cm[i]) /\ t[n + 1] = o BY AppendProperties
<1>4. \A i \in 1..(n + 1) : i \in 1..n \/ i = n + 1 BY <1>1
<1> HIDE DEF t, n
<1>5. Asking(t, st, jb) BY <1>1, <1>2, <1>3, <1>4 DEF Asking, Free
<1> QED BY <1>2, <1>5 DEF t

LEMMA ReplyWritten ==
    ASSUME NEW cm \in Seq(Order), NEW st \in Seq(Token), NEW jb, Asking(cm, st, jb),
           NEW r \in Token,
           IsReply(r) => Free(cm, st, r.c) /\ jb[r.c][r.j].at = r.verb
    PROVE  Append(st, r) \in Seq(Token) /\ Asking(cm, Append(st, r), jb)
<1> DEFINE t == Append(st, r)
           n == Len(st)
<1>1. n \in Nat /\ DOMAIN st = 1..n BY LenProperties
<1>2. t \in Seq(Token) /\ DOMAIN t = 1..(n + 1) BY AppendProperties, LenProperties
<1>3. (\A i \in 1..n : t[i] = st[i]) /\ t[n + 1] = r BY AppendProperties
<1>4. \A i \in 1..(n + 1) : i \in 1..n \/ i = n + 1 BY <1>1
<1> HIDE DEF t, n
<1>5. Asking(cm, t, jb)
  <2>1. \A i \in DOMAIN t : IsReply(t[i]) => jb[t[i].c][t[i].j].at = t[i].verb
    BY <1>1, <1>2, <1>3, <1>4 DEF Asking
  <2>2. \A i, k \in DOMAIN t : IsReply(t[i]) /\ IsReply(t[k]) /\ t[i].c = t[k].c => i = k
    BY <1>1, <1>2, <1>3, <1>4 DEF Asking, Free
  <2>3. \A i \in DOMAIN cm, k \in DOMAIN t : IsReply(t[k]) => cm[i].c # t[k].c
    BY <1>1, <1>2, <1>3, <1>4 DEF Asking, Free
  <2> QED BY <2>1, <2>2, <2>3 DEF Asking
<1> QED BY <1>2, <1>5 DEF t

-----------------------------------------------------------------------------
(* One client's part of a step *)

LEMMA WriteIs ==
    ASSUME TypeInv, NEW out, \A c \in Client : out[c] \in Seq(Frame), Write(out)
    PROVE  /\ seen' \in [Client -> Seq(Frame)]
           /\ \A c \in Client :
                 seen'[c] = IF c \in attached THEN seen[c] \o out[c] ELSE seen[c]
           /\ \A c \in Client : out[c] = <<>> => seen'[c] = seen[c]
<1>1. \A c \in Client : seen[c] \in Seq(Frame) /\ seen[c] \o <<>> = seen[c]
  BY ConcatEmptySeq DEF TypeInv
<1>2. \A c \in Client : seen[c] \o out[c] \in Seq(Frame) BY <1>1, ConcatProperties
<1>3. seen' = [c \in Client |-> seen[c] \o (IF c \in attached THEN out[c] ELSE <<>>)]
  BY DEF Write
<1> QED BY <1>1, <1>2, <1>3

Capturing(s) == s.at \in {"capture", "facts"}

\* It is told something other than a replay, and its hydration goes on or ends.
LEMMA ToldKeeps ==
    ASSUME TypeInv, NEW c \in Client, ClientInv(c), NEW t \in Seq(Frame),
           c \in attached' => c \in attached,
           seen'[c] = IF c \in attached THEN seen[c] \o t ELSE seen[c],
           \A k \in DOMAIN t : t[k].kind # "replay",
           c \in attached /\ (\E k \in DOMAIN t : IsData(t[k])) => Opened(seen[c]),
           \A j \in Job : IsBusy(job'[c][j]) => IsBusy(job[c][j]),
           \A j \in Job : Capturing(job'[c][j]) =>
              /\ Capturing(job[c][j]) /\ (c \in window' \/ known' = "closed")
              /\ c \in attached => \A k \in DOMAIN t : t[k].kind \notin {"live", "begin"},
           known' = "yes" => known = "yes" \/ Opened(t),
           known' = "closed" => queue'[c] = <<>>
    PROVE  ClientInv(c)'
<1>1. seen[c] \in Seq(Frame) BY DEF TypeInv
<1>2. Unmixed(seen'[c]) BY <1>1, Extended DEF ClientInv
<1>3. OneBusy(c)' BY DEF ClientInv, OneBusy
<1>4. c \in attached' \/ (\E j \in Job : IsBusy(job'[c][j])) => seen'[c] # <<>>
  BY <1>1, Extended DEF ClientInv
<1>5. c \in attached' /\ (known' = "yes" \/ \E j \in Job : IsBusy(job'[c][j])) => Opened(seen'[c])
  BY <1>1, Extended DEF ClientInv
<1>6. ASSUME NEW j \in Job, Capturing(job'[c][j])
      PROVE  (c \in window' \/ known' = "closed") /\ (c \in attached => Quiet(seen'[c]))
  <2>1. c \in attached => Quiet(seen[c]) BY <1>6 DEF ClientInv, Capturing
  <2> QED BY <1>1, <1>6, <2>1, Extended
<1> QED BY <1>2, <1>3, <1>4, <1>5, <1>6 DEF ClientInv, Capturing

LEMMA QuietKeeps ==
    ASSUME TypeInv, NEW c \in Client, ClientInv(c), c \in attached' => c \in attached,
           seen'[c] = seen[c], queue'[c] = queue[c], known' = known,
           \A j \in Job : IsBusy(job'[c][j]) => IsBusy(job[c][j]),
           \A j \in Job : Capturing(job'[c][j]) => Capturing(job[c][j]),
           c \in window => c \in window'
    PROVE  ClientInv(c)'
<1>1. OneBusy(c)' BY DEF ClientInv, OneBusy
<1> QED BY <1>1 DEF ClientInv, Capturing

\* Its hydration begins, by itself or after the report of a size.
LEMMA BegunKeeps ==
    ASSUME TypeInv, NEW c \in Client, ClientInv(c), NEW j \in Job, attached' = attached,
           seen'[c] = IF c \in attached THEN seen[c] \o <<Control("begin")>> ELSE seen[c],
           \A i \in Job : IsBusy(job[c][i]) => i = j,
           \A i \in Job : i # j => job'[c][i] = job[c][i],
           c \in attached \/ IsBusy(job[c][j]), known = "yes" \/ IsBusy(job[c][j]),
           c \in window', known' = known, queue' = queue
    PROVE  ClientInv(c)'
<1>1. seen[c] \in Seq(Frame) BY DEF TypeInv
<1>2. <<Control("begin")>> \in Seq(Frame) /\ DOMAIN <<Control("begin")>> = {1}
  BY DEF Control, Frame
<1>3. \A k \in {1} : LET f == <<Control("begin")>>[k] IN ~IsData(f) /\ f.kind # "replay"
  BY DEF Control, IsData
<1>4. Unmixed(seen'[c]) BY <1>1, <1>2, <1>3, Extended DEF ClientInv
<1>5. OneBusy(c)'
  <2>1. \A i \in Job : IsBusy(job'[c][i]) => i = j OBVIOUS
  <2> QED BY <2>1 DEF OneBusy
<1>6. seen'[c] # <<>> /\ (c \in attached => Opened(seen'[c]))
  <2>1. seen[c] # <<>> /\ (c \in attached => Opened(seen[c])) BY DEF ClientInv
  <2> QED BY <1>1, <1>2, <2>1, Extended
<1>7. c \in attached => Quiet(seen'[c]) BY <1>1, BegunIsQuiet
<1>8. known' = "closed" => queue'[c] = <<>> BY DEF ClientInv
<1> QED BY <1>4, <1>5, <1>6, <1>7, <1>8 DEF ClientInv

\* The replay: its capture was under way, and its hydration is sent.
LEMMA ReplayKeeps ==
    ASSUME TypeInv, NEW c \in Client, ClientInv(c), NEW j \in Job, attached' = attached,
           job[c][j].at = "facts", NEW n \in Int,
           seen'[c] = IF c \in attached THEN seen[c] \o <<Replay(n)>> ELSE seen[c],
           job'[c][j].at = "sent", \A i \in Job : i # j => job'[c][i] = job[c][i],
           UNCHANGED <<window, known, queue>>
    PROVE  ClientInv(c)'
<1>1. seen[c] \in Seq(Frame) BY DEF TypeInv
<1>2. <<Replay(n)>> \in Seq(Frame) BY DEF Replay, Frame
<1>3. IsBusy(job[c][j]) /\ IsBusy(job'[c][j]) BY DEF IsBusy
<1>4. seen[c] # <<>> /\ (c \in attached => Opened(seen[c]) /\ Quiet(seen[c]))
  BY <1>3 DEF ClientInv
<1>5. Unmixed(seen'[c]) BY <1>1, <1>4, Replayed DEF ClientInv
<1>6. seen'[c] # <<>> /\ (c \in attached => Opened(seen'[c])) BY <1>1, <1>2, <1>4, Extended
<1>7. OneBusy(c)' BY <1>3 DEF ClientInv, OneBusy
<1>8. \A i \in Job : job'[c][i].at \notin {"capture", "facts"}
  BY <1>3 DEF ClientInv, OneBusy, IsBusy
<1> QED BY <1>5, <1>6, <1>7, <1>8 DEF ClientInv

-----------------------------------------------------------------------------
(* What the actions share *)

LEMMA IdleIsFree ==
    ASSUME TypeInv, AskInv, NEW c \in Client, \A j \in Job : job[c][j].at \notin Verb
    PROVE  Free(cmds, stream, c)
<1>1. \A i \in DOMAIN cmds : cmds[i] \in Order BY LenProperties, ElementOfSeq DEF TypeInv
<1>2. \A i \in DOMAIN stream : stream[i] \in Token BY LenProperties, ElementOfSeq DEF TypeInv
<1>3. \A i \in DOMAIN cmds : cmds[i].j \in Job /\ cmds[i].verb \in Verb BY <1>1 DEF Order
<1>4. \A i \in DOMAIN stream : IsReply(stream[i]) => stream[i].j \in Job /\ stream[i].verb \in Verb
  BY <1>2 DEF Token, IsReply
<1> QED BY <1>3, <1>4 DEF AskInv, Asking, Free

LEMMA OnlyIs ==
    ASSUME NEW c \in Client, NEW f \in Seq(Frame)
    PROVE  /\ \A d \in Client : Only(c, f)[d] \in Seq(Frame)
           /\ Only(c, f)[c] = f /\ \A d \in Client : d # c => Only(c, f)[d] = <<>>
BY EmptySeq DEF Only

LEMMA JobSet ==
    ASSUME NEW jb \in Jobs, NEW c \in Client, NEW j \in Job, NEW s \in Stage, NEW j2,
           j2 = [jb EXCEPT ![c][j] = s]
    PROVE  /\ j2 \in Jobs /\ j2[c][j] = s /\ \A i \in Job : i # j => j2[c][i] = jb[c][i]
           /\ \A d \in Client : d # c => j2[d] = jb[d]
BY DEF Jobs

LEMMA StageSet ==
    ASSUME NEW s \in Stage, NEW v \in Verb \cup {"unused", "sent", "done"}, NEW n \in Int
    PROVE  /\ [s EXCEPT !.at = v] \in Stage /\ [s EXCEPT !.at = v].at = v
           /\ [s EXCEPT !.at = v, !.body = n] \in Stage
           /\ [s EXCEPT !.at = v, !.body = n].at = v
BY DEF Stage

LEMMA DoneIs == Done \in Stage /\ Done.at = "done"
<1>1. Unused \in Stage BY DEF Unused, Stage
<1>2. Done = [Unused EXCEPT !.at = "done"] BY DEF Done
<1> HIDE DEF Unused, Done
<1> QED BY <1>1, <1>2 DEF Stage

\* One control message.
LEMMA ControlIs ==
    ASSUME NEW kind \in {"opened", "closed", "empty", "begin", "end", "failed"}
    PROVE  LET t == <<Control(kind)>>
           IN  /\ t \in Seq(Frame) /\ DOMAIN t = {1} /\ t[1].kind = kind /\ ~IsData(t[1])
               /\ t # <<>> /\ (kind = "opened" => Opened(t))
<1>1. Control(kind) \in Frame /\ Control(kind).kind = kind /\ ~IsData(Control(kind))
  BY DEF Control, Frame, IsData
<1>2. <<Control(kind)>> \in Seq(Frame) BY <1>1
<1>3. DOMAIN <<Control(kind)>> = {1} /\ <<Control(kind)>>[1] = Control(kind) OBVIOUS
<1>4. kind = "opened" => Opened(<<Control(kind)>>) BY <1>1, <1>3 DEF Opened
<1> QED BY <1>1, <1>2, <1>3, <1>4

LEMMA FanOutKeeps ==
    ASSUME Inv, NEW chunks \in Seq(Int), known = "yes", FanOut(chunks),
           UNCHANGED <<known, attached, window, job>>
    PROVE  /\ seen' \in [Client -> Seq(Frame)] /\ queue' \in [Client -> Seq(Int)]
           /\ \A c \in Client : ClientInv(c)'
<1> DEFINE out == [c \in Client |-> IF Queues(c) THEN <<>> ELSE Lives(chunks)]
<1>1. /\ Lives(chunks) \in Seq(Frame)
      /\ \A k \in DOMAIN Lives(chunks) : Lives(chunks)[k].kind = "live"
  BY LivesAreFrames
<1>2. \A c \in Client : out[c] = IF c \in window THEN <<>> ELSE Lives(chunks) BY DEF Queues
<1>3. \A c \in Client : out[c] \in Seq(Frame) BY <1>1, <1>2
<1>4. Write(out) BY DEF FanOut
<1> HIDE DEF out
<1>5. /\ seen' \in [Client -> Seq(Frame)]
      /\ \A c \in Client :
            seen'[c] = IF c \in attached THEN seen[c] \o out[c] ELSE seen[c]
  BY <1>3, <1>4, WriteIs DEF Inv
<1>6. queue' \in [Client -> Seq(Int)]
  <2>1. \A c \in Client : queue[c] \o chunks \in Seq(Int) BY ConcatProperties DEF Inv, TypeInv
  <2> QED BY <2>1 DEF FanOut, Inv, TypeInv
<1>7. ASSUME NEW c \in Client PROVE ClientInv(c)'
  <2>1. ClientInv(c) BY DEF Inv
  <2>2. \A k \in DOMAIN out[c] : out[c][k].kind = "live" /\ c \notin window BY <1>1, <1>2
  <2>3. c \in attached => Opened(seen[c]) BY <2>1 DEF ClientInv
  <2>4. \A j \in Job : Capturing(job[c][j]) => c \in window BY <2>1 DEF ClientInv, Capturing
  <2> QED BY <1>3, <1>5, <2>1, <2>2, <2>3, <2>4, ToldKeeps DEF Inv
<1> QED BY <1>5, <1>6, <1>7

LEMMA EndsKeeps ==
    ASSUME Inv, NEW c \in Client, NEW j \in Job, NEW found \in BOOLEAN, IsBusy(job[c][j]),
           Ends(c, j, found), UNCHANGED <<known, attached>>
    PROVE  /\ seen' \in [Client -> Seq(Frame)] /\ queue' \in [Client -> Seq(Int)]
           /\ job' \in Jobs /\ window' \subseteq Client
           /\ \A d \in Client : d # c => job'[d] = job[d]
           /\ \A d \in Client : ClientInv(d)'
<1> DEFINE l == Queued(c)
           e == <<Control("end")>>
           f == IF job[c][j].asked /\ ~found THEN <<Control("failed")>> ELSE <<>>
           t == (l \o e) \o f
<1>1. l \in Seq(Frame) /\ \A k \in DOMAIN l : l[k].kind = "live"
  BY LivesAreFrames, EmptySeq DEF Queued, Inv, TypeInv
<1>2. e \in Seq(Frame) /\ \A k \in DOMAIN e : e[k].kind = "end" BY ControlIs
<1>3. f \in Seq(Frame) /\ \A k \in DOMAIN f : f[k].kind = "failed"
  BY ControlIs, EmptySeq
<1>4. Append(Queued(c), Control("end")) = l \o e
  BY <1>1, AppendIsConcat DEF Control, Frame
<1>5. Write(Only(c, t)) BY <1>4 DEF Ends
<1> HIDE DEF l, e, f
<1>6. l \o e \in Seq(Frame) /\ t \in Seq(Frame) BY <1>1, <1>2, <1>3, ConcatProperties
<1>7. \A k \in DOMAIN t : t[k].kind # "replay"
  <2>1. \A k \in DOMAIN (l \o e) : (l \o e)[k].kind # "replay"
    <3> SUFFICES ASSUME NEW k \in DOMAIN (l \o e) PROVE (l \o e)[k].kind # "replay" OBVIOUS
    <3>1. k \in 1..(Len(l) + Len(e)) /\ Len(l) \in Nat /\ Len(e) \in Nat
      BY <1>1, <1>2, <1>6, ConcatProperties, LenProperties
    <3>2. \/ k \in DOMAIN l /\ (l \o e)[k] = l[k]
          \/ k - Len(l) \in DOMAIN e /\ (l \o e)[k] = e[k - Len(l)]
      BY <1>1, <1>2, <3>1, ConcatProperties, LenProperties
    <3> QED BY <1>1, <1>2, <3>2
  <2> DEFINE g == l \o e
  <2> SUFFICES ASSUME NEW k \in DOMAIN (g \o f) PROVE (g \o f)[k].kind # "replay" OBVIOUS
  <2>2. g \in Seq(Frame) /\ g \o f \in Seq(Frame) BY <1>6
  <2>3. \A i \in DOMAIN g : g[i].kind # "replay" BY <2>1
  <2> HIDE DEF g
  <2>4. k \in 1..(Len(g) + Len(f)) /\ Len(g) \in Nat /\ Len(f) \in Nat
    BY <1>3, <2>2, ConcatProperties, LenProperties
  <2>5. \/ k \in DOMAIN g /\ (g \o f)[k] = g[k]
        \/ k - Len(g) \in DOMAIN f /\ (g \o f)[k] = f[k - Len(g)]
    BY <1>3, <2>2, <2>4, ConcatProperties, LenProperties
  <2> QED BY <1>3, <2>3, <2>5
<1> HIDE DEF t
<1>8. /\ seen' \in [Client -> Seq(Frame)]
      /\ seen'[c] = IF c \in attached THEN seen[c] \o t ELSE seen[c]
      /\ \A d \in Client : d # c => seen'[d] = seen[d]
  BY <1>5, <1>6, OnlyIs, WriteIs DEF Inv
<1>9. /\ job' \in Jobs /\ job'[c][j] = Done /\ \A i \in Job : i # j => job'[c][i] = job[c][i]
      /\ \A d \in Client : d # c => job'[d] = job[d]
  BY JobSet, DoneIs DEF Ends, Inv, TypeInv, Jobs
<1>10. /\ queue' \in [Client -> Seq(Int)] /\ queue'[c] = <<>>
       /\ \A d \in Client : d # c => queue'[d] = queue[d]
  BY EmptySeq DEF Ends, Inv, TypeInv
<1>11. window' = window \ {c} BY DEF Ends
<1>12. ClientInv(c)'
  <2>1. ClientInv(c) BY DEF Inv
  <2>2. ~IsBusy(job'[c][j]) BY <1>9 DEF IsBusy, Done, Unused
  <2>3. \A i \in Job : ~Capturing(job'[c][i])
    BY <1>9, <2>1, <2>2 DEF Capturing, IsBusy, ClientInv, OneBusy
  <2>4. c \in attached => Opened(seen[c]) BY <2>1 DEF ClientInv
  <2>5. \A i \in Job : IsBusy(job'[c][i]) => IsBusy(job[c][i]) BY <1>9, <2>2
  <2> QED BY <1>6, <1>7, <1>8, <1>10, <2>1, <2>3, <2>4, <2>5, ToldKeeps DEF Inv
<1>13. ASSUME NEW d \in Client, d # c PROVE ClientInv(d)'
  BY <1>8, <1>9, <1>10, <1>11, <1>13, QuietKeeps DEF Inv
<1> QED BY <1>8, <1>9, <1>10, <1>11, <1>12, <1>13 DEF Inv, TypeInv

LEMMA BeginsKeeps ==
    ASSUME Inv, NEW c \in Client, NEW j \in Job, NEW asked \in BOOLEAN, Begins(c, j, asked),
           Write(Only(c, <<Control("begin")>>)), UNCHANGED <<known, attached, queue>>,
           \A i \in Job : IsBusy(job[c][i]) => i = j,
           c \in attached \/ IsBusy(job[c][j]), known = "yes" \/ IsBusy(job[c][j]),
           NEW st \in Seq(Token), Asking(cmds, st, job), Free(cmds, st, c)
    PROVE  /\ seen' \in [Client -> Seq(Frame)] /\ job' \in Jobs /\ window' \subseteq Client
           /\ cmds' \in Seq(Order) /\ Asking(cmds', st, job')
           /\ \A d \in Client : ClientInv(d)'
<1>1. /\ seen' \in [Client -> Seq(Frame)]
      /\ seen'[c] = IF c \in attached THEN seen[c] \o <<Control("begin")>> ELSE seen[c]
      /\ \A d \in Client : d # c => seen'[d] = seen[d]
  <2> DEFINE b == <<Control("begin")>>
  <2>1. b \in Seq(Frame) BY ControlIs
  <2>2. Write(Only(c, b)) OBVIOUS
  <2> HIDE DEF b
  <2>3. /\ seen' \in [Client -> Seq(Frame)]
        /\ seen'[c] = IF c \in attached THEN seen[c] \o b ELSE seen[c]
        /\ \A d \in Client : d # c => seen'[d] = seen[d]
    BY <2>1, <2>2, OnlyIs, WriteIs DEF Inv
  <2> QED BY <2>3 DEF b
<1>2. /\ job' \in Jobs /\ job'[c][j].at = "capture"
      /\ \A i \in Job : i # j => job'[c][i] = job[c][i]
      /\ \A d \in Client : d # c => job'[d] = job[d]
  <2>1. [at |-> "capture", asked |-> asked, body |-> 0] \in Stage BY DEF Stage, Verb
  <2> QED BY <2>1, JobSet DEF Begins, Inv, TypeInv, Jobs
<1>3. window' = window \cup {c} BY DEF Begins
<1>4. cmds' \in Seq(Order) /\ Asking(cmds', st, job')
  <2> DEFINE o == [c |-> c, j |-> j, verb |-> "capture"]
  <2>1. o \in Order BY DEF Order, Verb
  <2>2. Asking(cmds, st, job') BY <1>2, OtherJobs DEF Inv, TypeInv
  <2>3. cmds' = Append(cmds, o) BY DEF Begins
  <2>4. o.c = c /\ o.j = j /\ o.verb = "capture" OBVIOUS
  <2> HIDE DEF o
  <2> QED BY <1>2, <2>1, <2>2, <2>3, <2>4, OrderAsked DEF Inv, TypeInv
<1>5. ClientInv(c)' BY <1>1, <1>2, <1>3, BegunKeeps DEF Inv
<1>6. ASSUME NEW d \in Client, d # c PROVE ClientInv(d)'
  BY <1>1, <1>2, <1>3, <1>6, QuietKeeps DEF Inv
<1> QED BY <1>1, <1>2, <1>3, <1>4, <1>5, <1>6 DEF Inv, TypeInv

-----------------------------------------------------------------------------
(* Every action preserves the invariant *)

LEMMA AppendStep ==
    ASSUME Inv, AppendKnown \/ AppendGated \/ AppendUnknown PROVE Inv'
<1>1. stream # <<>> /\ Head(stream) \in Token /\ Head(stream).n \in Int
      /\ Asking(cmds, Tail(stream), job) /\ Tail(stream) \in Seq(Token)
  <2>1. stream # <<>> BY DEF AppendKnown, AppendGated, AppendUnknown, ParsesOutput
  <2>2. /\ Head(stream) \in Token /\ Asking(cmds, Tail(stream), job)
        /\ Tail(stream) \in Seq(Token)
    BY <2>1, ReplyRead DEF Inv, TypeInv, AskInv
  <2>3. Head(stream).n \in Int BY <2>2 DEF Token
  <2> QED BY <2>1, <2>2, <2>3
<1>2. /\ stream' = Tail(stream)
      /\ UNCHANGED <<alive, written, cmds, known, flush, attached, window, job>>
  BY DEF AppendKnown, AppendGated, AppendUnknown, demuxVars
<1>3. AskInv' BY <1>1, <1>2 DEF AskInv
<1>4. CASE AppendKnown
  <2>1. <<Head(stream).n>> \in Seq(Int) BY <1>1
  <2>2. staged' = staged /\ known = "yes" BY <1>4 DEF AppendKnown
  <2> DEFINE ch == <<Head(stream).n>>
  <2>3. FanOut(ch) BY <1>4 DEF AppendKnown
  <2> HIDE DEF ch
  <2>4. ch \in Seq(Int) BY <2>1 DEF ch
  <2>5. /\ seen' \in [Client -> Seq(Frame)] /\ queue' \in [Client -> Seq(Int)]
        /\ \A c \in Client : ClientInv(c)'
    BY <1>2, <2>2, <2>3, <2>4, FanOutKeeps
  <2> QED BY <1>1, <1>2, <1>3, <2>2, <2>5 DEF Inv, TypeInv
<1>5. CASE AppendGated \/ AppendUnknown
  <2>1. UNCHANGED <<seen, queue>> BY <1>5 DEF AppendGated, AppendUnknown, demuxVars
  <2>2. staged' \in Seq(Int)
    <3>1. staged \in Seq(Int) /\ Append(staged, Head(stream).n) \in Seq(Int)
      BY <1>1, AppendProperties DEF Inv, TypeInv
    <3>2. staged' = staged \/ staged' = Append(staged, Head(stream).n)
      BY <1>5 DEF AppendGated, AppendUnknown, demuxVars
    <3> QED BY <3>1, <3>2
  <2>3. \A c \in Client : ClientInv(c)' BY <1>2, <2>1, QuietKeeps DEF Inv
  <2> QED BY <1>1, <1>2, <1>3, <2>1, <2>2, <2>3 DEF Inv, TypeInv
<1> QED BY <1>4, <1>5

LEMMA PaneBoundStep == ASSUME Inv, PaneBound PROVE Inv'
<1> DEFINE t == <<Control("opened")>>
           out == [c \in Client |-> t]
<1>1. t \in Seq(Frame) /\ DOMAIN t = {1} /\ t[1].kind = "opened" /\ ~IsData(t[1]) /\ Opened(t)
  BY ControlIs
<1>2. Write(out) BY DEF PaneBound, FlushLater
<1> HIDE DEF t
<1>3. \A c \in Client : out[c] \in Seq(Frame) /\ out[c] = t BY <1>1
<1> HIDE DEF out
<1>4. /\ seen' \in [Client -> Seq(Frame)]
      /\ \A c \in Client : seen'[c] = IF c \in attached THEN seen[c] \o t ELSE seen[c]
  BY <1>2, <1>3, WriteIs DEF Inv
<1>5. /\ known' = "yes" /\ flush' = staged /\ staged' = <<>>
      /\ UNCHANGED <<alive, written, cmds, stream, attached, window, queue, job>>
  BY DEF PaneBound, FlushLater, tmuxVars
<1>6. ASSUME NEW c \in Client PROVE ClientInv(c)'
  <2>1. ClientInv(c) /\ known # "closed" BY DEF Inv, PaneBound
  <2>2. \A j \in Job : Capturing(job[c][j]) => c \in window BY <2>1 DEF ClientInv, Capturing
  <2> QED BY <1>1, <1>4, <1>5, <2>1, <2>2, ToldKeeps DEF Inv
<1>7. TypeInv' BY <1>4, <1>5, EmptySeq DEF Inv, TypeInv
<1>8. AskInv' BY <1>5 DEF Inv, AskInv
<1> QED BY <1>6, <1>7, <1>8 DEF Inv

LEMMA PaneClosedStep == ASSUME Inv, PaneClosed PROVE Inv'
<1> DEFINE t == <<Control("closed")>>
           out == [c \in Client |-> t]
<1>1. t \in Seq(Frame) /\ DOMAIN t = {1} /\ t[1].kind = "closed" /\ ~IsData(t[1]) BY ControlIs
<1>2. Write(out) BY DEF PaneClosed
<1> HIDE DEF t
<1>3. \A c \in Client : out[c] \in Seq(Frame) /\ out[c] = t BY <1>1
<1> HIDE DEF out
<1>4. /\ seen' \in [Client -> Seq(Frame)]
      /\ \A c \in Client : seen'[c] = IF c \in attached THEN seen[c] \o t ELSE seen[c]
  BY <1>2, <1>3, WriteIs DEF Inv
<1>5. /\ known' = "closed" /\ staged' = <<>> /\ queue' = [c \in Client |-> <<>>] /\ window' = {}
      /\ UNCHANGED <<alive, written, cmds, stream, flush, attached, job>>
  BY DEF PaneClosed, tmuxVars
<1>6. ASSUME NEW c \in Client PROVE ClientInv(c)'
  BY <1>1, <1>4, <1>5, ToldKeeps DEF Inv
<1>7. TypeInv' BY <1>4, <1>5, EmptySeq DEF Inv, TypeInv
<1>8. AskInv' BY <1>5 DEF Inv, AskInv
<1> QED BY <1>6, <1>7, <1>8 DEF Inv

LEMMA FlushStep == ASSUME Inv, FlushStaged PROVE Inv'
<1>1. /\ flush' = <<>> /\ flush \in Seq(Int)
      /\ UNCHANGED <<alive, written, cmds, stream, known, staged, attached, window, job>>
  BY DEF FlushStaged, tmuxVars, Inv, TypeInv
<1>2. AskInv' BY <1>1 DEF Inv, AskInv
<1>3. CASE known = "yes" /\ FanOut(flush)
  <2>1. /\ seen' \in [Client -> Seq(Frame)] /\ queue' \in [Client -> Seq(Int)]
        /\ \A c \in Client : ClientInv(c)'
    BY <1>1, <1>3, FanOutKeeps
  <2> QED BY <1>1, <1>2, <2>1, EmptySeq DEF Inv, TypeInv
<1>4. CASE UNCHANGED <<queue, seen>>
  <2>1. \A c \in Client : ClientInv(c)' BY <1>1, <1>4, QuietKeeps DEF Inv
  <2> QED BY <1>1, <1>2, <1>4, <2>1, EmptySeq DEF Inv, TypeInv
<1> QED BY <1>3, <1>4 DEF FlushStaged

\* Steps that nothing the invariant looks at sees, or by which one connection ends.
LEMMA IdleStep ==
    ASSUME Inv, \/ GateMoves \/ UNCHANGED vars \/ PaneDies
                \/ \E c \in Client : HookAttaches(c) \/ Leave(c)
    PROVE  Inv'
<1>1. /\ UNCHANGED <<written, cmds, stream, known, staged, flush, window, queue, job, seen>>
      /\ attached' \subseteq attached /\ alive' \in BOOLEAN
  BY DEF GateMoves, vars, PaneDies, HookAttaches, Leave, tmuxVars, demuxVars, Inv, TypeInv
<1>2. \A c \in Client : ClientInv(c)' BY <1>1, QuietKeeps DEF Inv
<1> QED BY <1>1, <1>2 DEF Inv, TypeInv, AskInv

LEMMA TmuxWritesStep == ASSUME Inv, TmuxWrites PROVE Inv'
<1> DEFINE r == [kind |-> "out", n |-> written']
<1>1. /\ written' \in Int /\ stream' = Append(stream, r)
      /\ UNCHANGED <<alive, cmds, known, staged, flush, attached, window, queue, job, seen>>
  BY DEF TmuxWrites, demuxVars, Inv, TypeInv
<1>2. r \in Token /\ ~IsReply(r) BY <1>1 DEF Token, IsReply
<1> HIDE DEF r
<1>3. stream' \in Seq(Token) /\ AskInv'
  BY <1>1, <1>2, ReplyWritten DEF Inv, TypeInv, AskInv
<1>4. \A c \in Client : ClientInv(c)' BY <1>1, QuietKeeps DEF Inv
<1> QED BY <1>1, <1>3, <1>4 DEF Inv, TypeInv

LEMMA TmuxAnswersStep == ASSUME Inv, TmuxAnswers PROVE Inv'
<1> DEFINE m == Head(cmds)
           r == [kind |-> "reply", verb |-> m.verb, c |-> m.c, j |-> m.j, ok |-> alive,
                 n |-> written]
<1>1. /\ cmds # <<>> /\ cmds' = Tail(cmds) /\ stream' = Append(stream, r)
      /\ UNCHANGED <<alive, written, known, staged, flush, attached, window, queue, job, seen>>
  BY DEF TmuxAnswers, demuxVars
<1>2. /\ Asking(Tail(cmds), stream, job) /\ Tail(cmds) \in Seq(Order) /\ m \in Order
      /\ Free(Tail(cmds), stream, m.c) /\ job[m.c][m.j].at = m.verb
  BY <1>1, OrderRead DEF Inv, TypeInv, AskInv
<1> HIDE DEF m
<1>3. r \in Token /\ r.c = m.c /\ r.j = m.j /\ r.verb = m.verb
  BY <1>2 DEF Token, Order, Inv, TypeInv
<1> HIDE DEF r
<1>4. stream' \in Seq(Token) /\ AskInv'
  BY <1>1, <1>2, <1>3, ReplyWritten DEF Inv, TypeInv, AskInv
<1>5. \A c \in Client : ClientInv(c)' BY <1>1, QuietKeeps DEF Inv
<1> QED BY <1>1, <1>2, <1>4, <1>5 DEF Inv, TypeInv

LEMMA PaneAttachFailsStep == ASSUME Inv, NEW c \in Client, PaneAttachFails(c) PROVE Inv'
<1> DEFINE t == <<Control("failed")>>
<1>1. t \in Seq(Frame) /\ DOMAIN t = {1} /\ t[1].kind = "failed" /\ ~IsData(t[1]) BY ControlIs
<1>2. Write(Only(c, t)) BY DEF PaneAttachFails
<1> HIDE DEF t
<1>3. /\ seen' \in [Client -> Seq(Frame)]
      /\ seen'[c] = IF c \in attached THEN seen[c] \o t ELSE seen[c]
      /\ \A d \in Client : d # c => seen'[d] = seen[d]
  BY <1>1, <1>2, OnlyIs, WriteIs DEF Inv
<1>4. UNCHANGED <<tmuxVars, known, staged, flush, attached, window, queue, job>>
  BY DEF PaneAttachFails, demuxVars
<1>5. ClientInv(c)'
  <2>1. ClientInv(c) BY DEF Inv
  <2>2. \A j \in Job : Capturing(job[c][j]) => c \in window \/ known = "closed"
    BY <2>1 DEF ClientInv, Capturing
  <2>3. known = "closed" => queue[c] = <<>> BY <2>1 DEF ClientInv
  <2> QED BY <1>1, <1>3, <1>4, <2>1, <2>2, <2>3, ToldKeeps DEF Inv
<1>6. \A d \in Client : d # c => ClientInv(d)' BY <1>3, <1>4, QuietKeeps DEF Inv
<1>7. TypeInv' /\ AskInv' BY <1>3, <1>4 DEF Inv, TypeInv, AskInv, tmuxVars
<1> QED BY <1>5, <1>6, <1>7 DEF Inv

LEMMA ReplySentStep == ASSUME Inv, NEW c \in Client, NEW j \in Job, ReplaySent(c, j) PROVE Inv'
<1>1. /\ job[c][j].at = "sent" /\ Ends(c, j, TRUE)
      /\ UNCHANGED <<alive, written, cmds, stream, known, staged, flush, attached>>
  BY DEF ReplaySent, tmuxVars
<1>2. IsBusy(job[c][j]) BY <1>1 DEF IsBusy
<1>3. /\ seen' \in [Client -> Seq(Frame)] /\ queue' \in [Client -> Seq(Int)]
      /\ job' \in Jobs /\ window' \subseteq Client
      /\ \A d \in Client : d # c => job'[d] = job[d]
      /\ \A d \in Client : ClientInv(d)'
  BY <1>1, <1>2, EndsKeeps
<1>4. \A i \in Job : job[c][i].at \notin Verb
  BY <1>1, <1>2 DEF Inv, ClientInv, OneBusy, IsBusy, Verb
<1>5. AskInv'
  <2>1. Free(cmds, stream, c) BY <1>4, IdleIsFree DEF Inv
  <2>2. Asking(cmds, stream, job') BY <1>3, <2>1, OtherJobs DEF Inv, TypeInv, AskInv
  <2> QED BY <1>1, <2>2 DEF AskInv
<1> QED BY <1>1, <1>3, <1>5 DEF Inv, TypeInv, Jobs

\* A reply is the one its client's hydration waits for.
LEMMA ReplyIs ==
    ASSUME Inv, NEW verb \in Verb, Replies(verb), NEW r, r = Head(stream)
    PROVE  /\ r.c \in Client /\ r.j \in Job /\ r.n \in Int /\ r.ok \in BOOLEAN
           /\ job[r.c][r.j].at = verb /\ IsBusy(job[r.c][r.j])
           /\ \A i \in Job : IsBusy(job[r.c][i]) => i = r.j
           /\ Tail(stream) \in Seq(Token) /\ Asking(cmds, Tail(stream), job)
           /\ Free(cmds, Tail(stream), r.c)
<1>1. stream # <<>> /\ r.kind = "reply" /\ r.verb = verb BY DEF Replies
<1>2. /\ Tail(stream) \in Seq(Token) /\ Asking(cmds, Tail(stream), job) /\ r \in Token
      /\ Free(cmds, Tail(stream), r.c) /\ job[r.c][r.j].at = r.verb
  BY <1>1, ReplyRead DEF Inv, TypeInv, AskInv, IsReply
<1>3. r.c \in Client /\ r.j \in Job /\ r.n \in Int /\ r.ok \in BOOLEAN BY <1>1, <1>2 DEF Token
<1>4. IsBusy(job[r.c][r.j]) BY <1>1, <1>2 DEF IsBusy, Verb
<1>5. \A i \in Job : IsBusy(job[r.c][i]) => i = r.j BY <1>3, <1>4 DEF Inv, ClientInv, OneBusy
<1> QED BY <1>1, <1>2, <1>3, <1>4, <1>5

LEMMA ReportRepliedStep == ASSUME Inv, ReportReplied PROVE Inv'
<1> DEFINE r == Head(stream)
<1>1. /\ Replies("report") /\ Begins(r.c, r.j, TRUE) /\ Write(Only(r.c, <<Control("begin")>>))
      /\ stream' = Tail(stream)
      /\ UNCHANGED <<alive, written, known, staged, flush, attached, queue>>
  BY DEF ReportReplied
<1>2. /\ r.c \in Client /\ r.j \in Job /\ IsBusy(job[r.c][r.j])
      /\ \A i \in Job : IsBusy(job[r.c][i]) => i = r.j
      /\ Tail(stream) \in Seq(Token) /\ Asking(cmds, Tail(stream), job)
      /\ Free(cmds, Tail(stream), r.c)
  BY <1>1, ReplyIs DEF Verb
<1> HIDE DEF r
<1>3. /\ seen' \in [Client -> Seq(Frame)] /\ job' \in Jobs /\ window' \subseteq Client
      /\ cmds' \in Seq(Order) /\ Asking(cmds', Tail(stream), job')
      /\ \A d \in Client : ClientInv(d)'
  BY <1>1, <1>2, BeginsKeeps
<1> QED BY <1>1, <1>2, <1>3 DEF Inv, TypeInv, AskInv, Jobs

LEMMA CaptureRepliedStep == ASSUME Inv, CaptureReplied PROVE Inv'
<1> DEFINE r == Head(stream)
           s == [job[r.c][r.j] EXCEPT !.at = "facts", !.body = r.n]
           o == [c |-> r.c, j |-> r.j, verb |-> "facts"]
<1>1. /\ Replies("capture") /\ stream' = Tail(stream)
      /\ UNCHANGED <<alive, written, known, staged, flush, attached>>
  BY DEF CaptureReplied
<1>2. /\ r.c \in Client /\ r.j \in Job /\ r.n \in Int /\ IsBusy(job[r.c][r.j])
      /\ job[r.c][r.j].at = "capture"
      /\ Tail(stream) \in Seq(Token) /\ Asking(cmds, Tail(stream), job)
      /\ Free(cmds, Tail(stream), r.c)
  BY <1>1, ReplyIs DEF Verb
<1>3. CASE r.ok
  <2>1. /\ job' = [job EXCEPT ![r.c][r.j].at = "facts", ![r.c][r.j].body = r.n]
        /\ cmds' = Append(cmds, o) /\ UNCHANGED <<window, queue, seen>>
    BY <1>3 DEF CaptureReplied
  <2> HIDE DEF r
  <2>s. job[r.c][r.j] \in Stage BY <1>2 DEF Inv, TypeInv
  <2>2. s \in Stage /\ s.at = "facts" BY <1>2, <2>s, StageSet DEF Verb
  <2>3. job' = [job EXCEPT ![r.c][r.j] = s] BY <1>2, <2>1 DEF Inv, TypeInv, Stage
  <2>4. o \in Order /\ o.c = r.c /\ o.j = r.j /\ o.verb = "facts" BY <1>2 DEF Order, Verb
  <2> HIDE DEF s, o
  <2>5. /\ job' \in Jobs /\ job'[r.c][r.j] = s
        /\ \A i \in Job : i # r.j => job'[r.c][i] = job[r.c][i]
        /\ \A d \in Client : d # r.c => job'[d] = job[d]
    BY <1>2, <2>2, <2>3, JobSet DEF Inv, TypeInv, Jobs
  <2>6. Asking(cmds, Tail(stream), job') BY <1>2, <2>5, OtherJobs DEF Inv, TypeInv
  <2>7. cmds' \in Seq(Order) /\ Asking(cmds', Tail(stream), job')
    BY <1>2, <2>1, <2>2, <2>4, <2>5, <2>6, OrderAsked DEF Inv, TypeInv
  <2>8. ASSUME NEW c \in Client PROVE ClientInv(c)'
    <3>1. \A j \in Job : IsBusy(job'[c][j]) => IsBusy(job[c][j]) BY <1>2, <2>5
    <3>2. \A j \in Job : Capturing(job'[c][j]) => Capturing(job[c][j])
      BY <1>2, <2>5 DEF Capturing
    <3> QED BY <1>1, <2>1, <3>1, <3>2, QuietKeeps DEF Inv
  <2> QED BY <1>1, <1>2, <2>1, <2>5, <2>7, <2>8 DEF Inv, TypeInv, AskInv, Jobs
<1>4. CASE ~r.ok
  <2>1. Ends(r.c, r.j, FALSE) /\ UNCHANGED cmds BY <1>4 DEF CaptureReplied, Refused
  <2> HIDE DEF r
  <2>2. /\ seen' \in [Client -> Seq(Frame)] /\ queue' \in [Client -> Seq(Int)]
        /\ job' \in Jobs /\ window' \subseteq Client
        /\ \A d \in Client : d # r.c => job'[d] = job[d]
        /\ \A d \in Client : ClientInv(d)'
    BY <1>1, <1>2, <2>1, EndsKeeps
  <2>3. Asking(cmds, Tail(stream), job') BY <1>2, <2>2, OtherJobs DEF Inv, TypeInv
  <2> QED BY <1>1, <1>2, <2>1, <2>2, <2>3 DEF Inv, TypeInv, AskInv, Jobs
<1> QED BY <1>3, <1>4

LEMMA FactsRepliedStep == ASSUME Inv, FactsReplied PROVE Inv'
<1> DEFINE r == Head(stream)
           s == [job[r.c][r.j] EXCEPT !.at = "sent"]
           f == <<Replay(job[r.c][r.j].body)>>
<1>1. /\ Replies("facts") /\ stream' = Tail(stream)
      /\ job' = [job EXCEPT ![r.c][r.j].at = "sent"] /\ Write(Only(r.c, f))
      /\ UNCHANGED <<alive, written, cmds, known, staged, flush, attached, window, queue>>
  BY DEF FactsReplied, demuxVars
<1>2. /\ r.c \in Client /\ r.j \in Job /\ job[r.c][r.j].at = "facts"
      /\ Tail(stream) \in Seq(Token) /\ Asking(cmds, Tail(stream), job)
      /\ Free(cmds, Tail(stream), r.c)
  BY <1>1, ReplyIs DEF Verb
<1> HIDE DEF r
<1>3. s \in Stage /\ s.at = "sent" /\ job[r.c][r.j].body \in Int
  <2>1. job[r.c][r.j] \in Stage BY <1>2 DEF Inv, TypeInv
  <2>2. job[r.c][r.j].body \in Int BY <2>1 DEF Stage
  <2> QED BY <2>1, <2>2, StageSet
<1>4. job' = [job EXCEPT ![r.c][r.j] = s] BY <1>1, <1>2 DEF Inv, TypeInv, Stage
<1> HIDE DEF s
<1>5. /\ job' \in Jobs /\ job'[r.c][r.j] = s
      /\ \A i \in Job : i # r.j => job'[r.c][i] = job[r.c][i]
      /\ \A d \in Client : d # r.c => job'[d] = job[d]
  BY <1>2, <1>3, <1>4, JobSet DEF Inv, TypeInv, Jobs
<1>6. Asking(cmds, Tail(stream), job') BY <1>2, <1>5, OtherJobs DEF Inv, TypeInv
<1>7. f \in Seq(Frame) BY <1>3 DEF Replay, Frame
<1> HIDE DEF f
<1>8. /\ seen' \in [Client -> Seq(Frame)]
      /\ seen'[r.c] = IF r.c \in attached THEN seen[r.c] \o f ELSE seen[r.c]
      /\ \A d \in Client : d # r.c => seen'[d] = seen[d]
  BY <1>1, <1>2, <1>7, OnlyIs, WriteIs DEF Inv
<1>9. ASSUME NEW c \in Client, c = r.c PROVE ClientInv(c)'
  <2> DEFINE n == job[c][r.j].body
  <2>1. seen'[c] = IF c \in attached THEN seen[c] \o <<Replay(n)>> ELSE seen[c]
    BY <1>8, <1>9 DEF f
  <2>2. n \in Int BY <1>3, <1>9
  <2>3. PICK j \in Job : j = r.j BY <1>2
  <2>4. /\ job[c][j].at = "facts" /\ job'[c][j].at = "sent"
        /\ \A i \in Job : i # j => job'[c][i] = job[c][i]
    BY <1>2, <1>3, <1>5, <1>9, <2>3
  <2> HIDE DEF n
  <2> QED BY <1>1, <2>1, <2>2, <2>4, ReplayKeeps DEF Inv
<1>10. \A d \in Client : d # r.c => ClientInv(d)' BY <1>1, <1>5, <1>8, QuietKeeps DEF Inv
<1>11. TypeInv' BY <1>1, <1>2, <1>5, <1>8 DEF Inv, TypeInv, Jobs
<1>12. AskInv' BY <1>1, <1>6 DEF AskInv
<1> QED BY <1>9, <1>10, <1>11, <1>12 DEF Inv

LEMMA PaneAttachStep ==
    ASSUME ~Overlap, Inv, NEW c \in Client, NEW j \in Job, PaneAttach(c, j) PROVE Inv'
<1>1. /\ c \in attached /\ known = "yes" /\ Busy(c) = {}
      /\ UNCHANGED <<alive, written, stream, known, staged, flush, attached, queue>>
  BY DEF PaneAttach
<1>2. \A i \in Job : ~IsBusy(job[c][i]) /\ job[c][i].at \notin Verb
  <2>1. \A i \in Job : job[c][i] \in {Unused, Done} BY <1>1 DEF Busy
  <2>2. Unused.at = "unused" BY DEF Unused
  <2> QED BY <2>1, <2>2, DoneIs DEF IsBusy, Verb
<1>3. Free(cmds, stream, c) BY <1>2, IdleIsFree DEF Inv
<1>4. CASE Begins(c, j, TRUE) /\ Write(Only(c, <<Control("begin")>>))
  <2>1. /\ seen' \in [Client -> Seq(Frame)] /\ job' \in Jobs /\ window' \subseteq Client
        /\ cmds' \in Seq(Order) /\ Asking(cmds', stream, job')
        /\ \A d \in Client : ClientInv(d)'
    BY <1>1, <1>2, <1>3, <1>4, BeginsKeeps DEF Inv, TypeInv, AskInv
  <2> QED BY <1>1, <2>1 DEF Inv, TypeInv, AskInv, Jobs
<1>5. CASE /\ job' = [job EXCEPT ![c][j] = [at |-> "report", asked |-> TRUE, body |-> 0]]
           /\ cmds' = Append(cmds, [c |-> c, j |-> j, verb |-> "report"])
           /\ UNCHANGED <<window, seen, clientVars>>
  <2> DEFINE s == [at |-> "report", asked |-> TRUE, body |-> 0]
             o == [c |-> c, j |-> j, verb |-> "report"]
  <2>1. s \in Stage /\ s.at = "report" /\ o \in Order /\ o.c = c /\ o.j = j /\ o.verb = "report"
    BY DEF Stage, Order, Verb
  <2>2. job' = [job EXCEPT ![c][j] = s] /\ cmds' = Append(cmds, o) BY <1>5
  <2> HIDE DEF s, o
  <2>3. /\ job' \in Jobs /\ job'[c][j] = s
        /\ \A i \in Job : i # j => job'[c][i] = job[c][i]
        /\ \A d \in Client : d # c => job'[d] = job[d]
    BY <2>1, <2>2, JobSet DEF Inv, TypeInv, Jobs
  <2>4. Asking(cmds, stream, job') BY <1>3, <2>3, OtherJobs DEF Inv, TypeInv, AskInv
  <2>5. cmds' \in Seq(Order) /\ Asking(cmds', stream, job')
    <3>1. Free(cmds, stream, o.c) /\ job'[o.c][o.j].at = o.verb BY <1>3, <2>1, <2>3
    <3>2. cmds \in Seq(Order) /\ stream \in Seq(Token) /\ o \in Order BY <2>1 DEF Inv, TypeInv
    <3> QED BY <2>2, <2>4, <3>1, <3>2, OrderAsked
  <2>6. ClientInv(c)'
    <3>1. \A i \in Job : ~Capturing(job'[c][i])
      BY <1>2, <2>1, <2>3 DEF Capturing, Verb
    <3>2. OneBusy(c)' BY <1>2, <2>3 DEF OneBusy
    <3> QED BY <1>1, <1>5, <3>1, <3>2 DEF Inv, ClientInv, Capturing
  <2>7. \A d \in Client : d # c => ClientInv(d)' BY <1>1, <1>5, <2>3, QuietKeeps DEF Inv
  <2> QED BY <1>1, <1>5, <2>3, <2>5, <2>6, <2>7 DEF Inv, TypeInv, AskInv, Jobs
<1> QED BY <1>4, <1>5 DEF PaneAttach

LEMMA JoinStep ==
    ASSUME Inv, NEW c \in Client, NEW pull \in BOOLEAN, Join(c, pull) PROVE Inv'
<1> DEFINE k == IF known = "yes" THEN "opened" ELSE "empty"
           h == <<Control(k)>>
           b == <<Control("begin")>>
<1>1. /\ c \notin attached /\ seen[c] = <<>> /\ attached' = attached \cup {c}
      /\ UNCHANGED <<alive, written, stream, known, staged, flush, queue>>
  BY DEF Join
<1>2. ClientInv(c) /\ \A i \in Job : ~IsBusy(job[c][i]) BY <1>1 DEF Inv, ClientInv
<1>3. \A i \in Job : job[c][i].at \notin Verb /\ ~Capturing(job[c][i])
  BY <1>2 DEF IsBusy, Verb, Capturing
<1>4. /\ h \in Seq(Frame) /\ h # <<>> /\ ~IsData(h[1]) /\ h[1].kind # "replay" /\ DOMAIN h = {1}
      /\ known = "yes" => Opened(h)
  BY ControlIs
<1>5. Unmixed(h) BY <1>4 DEF Unmixed
<1>6. known = "closed" => queue'[c] = <<>> BY <1>1, <1>2 DEF ClientInv
<1>7. CASE ~(known = "yes" /\ ~pull)
  <2>1. seen' = [seen EXCEPT ![c] = h] /\ UNCHANGED <<window, job, cmds>> BY <1>7 DEF Join
  <2> HIDE DEF h
  <2>2. ClientInv(c)'
    <3>1. seen'[c] = h BY <2>1 DEF Inv, TypeInv
    <3>2. OneBusy(c)' BY <2>1, <1>2 DEF ClientInv, OneBusy
    <3> QED BY <1>1, <1>2, <1>3, <1>4, <1>5, <1>6, <2>1, <3>1, <3>2 DEF ClientInv, Capturing
  <2>3. \A d \in Client : d # c => ClientInv(d)' BY <1>1, <2>1, QuietKeeps DEF Inv, TypeInv
  <2> QED BY <1>1, <1>4, <2>1, <2>2, <2>3 DEF Inv, TypeInv, AskInv
<1>8. CASE known = "yes" /\ ~pull
  <2>1. seen' = [seen EXCEPT ![c] = Append(h, Control("begin"))] BY <1>8 DEF Join
  <2>2. PICK j \in Job : Begins(c, j, FALSE) BY <1>8 DEF Join
  <2>3. Control("begin") \in Frame BY DEF Control, Frame
  <2> HIDE DEF h
  <2>4. Append(h, Control("begin")) = h \o b BY <1>4, <2>3, AppendIsConcat
  <2>5. b \in Seq(Frame) /\ DOMAIN b = {1} /\ ~IsData(b[1]) /\ b[1].kind # "replay" BY ControlIs
  <2>6. Quiet(h \o b) BY <1>4, BegunIsQuiet
  <2> HIDE DEF b
  <2>7. /\ h \o b \in Seq(Frame) /\ h \o b # <<>> /\ Opened(h \o b) /\ Unmixed(h \o b)
    BY <1>4, <1>5, <1>8, <2>5, Extended
  <2>8. seen' \in [Client -> Seq(Frame)] /\ seen'[c] = h \o b
        /\ \A d \in Client : d # c => seen'[d] = seen[d]
    BY <2>1, <2>4, <2>7 DEF Inv, TypeInv
  <2> DEFINE s == [at |-> "capture", asked |-> FALSE, body |-> 0]
             o == [c |-> c, j |-> j, verb |-> "capture"]
  <2>9. /\ s \in Stage /\ s.at = "capture" /\ o \in Order
        /\ o.c = c /\ o.j = j /\ o.verb = "capture"
    BY DEF Stage, Order, Verb
  <2>10. job' = [job EXCEPT ![c][j] = s] /\ cmds' = Append(cmds, o) /\ window' = window \cup {c}
    BY <2>2 DEF Begins
  <2> HIDE DEF s, o
  <2>11. /\ job' \in Jobs /\ job'[c][j] = s
         /\ \A i \in Job : i # j => job'[c][i] = job[c][i]
         /\ \A d \in Client : d # c => job'[d] = job[d]
    BY <2>9, <2>10, JobSet DEF Inv, TypeInv, Jobs
  <2>12. Free(cmds, stream, c) BY <1>3, IdleIsFree DEF Inv
  <2>13. Asking(cmds, stream, job') BY <2>11, <2>12, OtherJobs DEF Inv, TypeInv, AskInv
  <2>14. cmds' \in Seq(Order) /\ Asking(cmds', stream, job')
    <3>1. Free(cmds, stream, o.c) /\ job'[o.c][o.j].at = o.verb BY <2>9, <2>11, <2>12
    <3>2. cmds \in Seq(Order) /\ stream \in Seq(Token) /\ o \in Order BY <2>9 DEF Inv, TypeInv
    <3> QED BY <2>10, <2>13, <3>1, <3>2, OrderAsked
  <2>15. ClientInv(c)'
    <3>1. OneBusy(c)' BY <1>2, <2>11 DEF OneBusy
    <3> QED BY <1>1, <1>6, <1>8, <2>6, <2>7, <2>8, <2>10, <3>1 DEF ClientInv
  <2>16. \A d \in Client : d # c => ClientInv(d)'
    BY <1>1, <2>8, <2>10, <2>11, QuietKeeps DEF Inv
  <2>17. TypeInv' BY <1>1, <2>8, <2>10, <2>11, <2>14 DEF Inv, TypeInv, Jobs
  <2>18. AskInv' BY <1>1, <2>14 DEF AskInv
  <2> QED BY <2>15, <2>16, <2>17, <2>18 DEF Inv
<1> QED BY <1>7, <1>8

LEMMA InitInv == Init => Inv
<1> SUFFICES ASSUME Init PROVE Inv OBVIOUS
<1>1. Unused \in Stage /\ Unused.at = "unused" BY DEF Unused, Stage
<1>2. TypeInv BY <1>1, EmptySeq DEF Init, TypeInv
<1>3. AskInv BY DEF Init, AskInv, Asking
<1>4. ASSUME NEW c \in Client PROVE ClientInv(c)
  <2>1. seen[c] = <<>> /\ attached = {} /\ known = "no" BY DEF Init
  <2>2. \A j \in Job : job[c][j].at = "unused" BY <1>1 DEF Init
  <2>3. Unmixed(seen[c]) BY <2>1 DEF Unmixed
  <2> QED BY <2>1, <2>2, <2>3 DEF ClientInv, OneBusy, IsBusy
<1> QED BY <1>2, <1>3, <1>4 DEF Inv

LEMMA StepInv == ASSUME ~Overlap, Inv, [Next]_vars PROVE Inv'
<1>1. ASSUME Turn PROVE Inv'
  BY <1>1, AppendStep, PaneBoundStep, PaneClosedStep, IdleStep, ReportRepliedStep,
     CaptureRepliedStep, FactsRepliedStep, JoinStep, PaneAttachFailsStep, PaneAttachStep,
     ReplySentStep DEF Turn
<1> QED BY <1>1, FlushStep, TmuxWritesStep, TmuxAnswersStep, IdleStep DEF Next

\* "The no-interleave property is a driver guarantee" (runtime/hydration.ts), for clients
\* that ask for a pane once at a time: overlapping hydrations share one window.
THEOREM NothingInterleaves == ASSUME ~Overlap PROVE Spec => []NoInterleave
<1>1. Inv /\ [Next]_vars => Inv' BY StepInv
<1>2. Inv => NoInterleave
  <2> SUFFICES ASSUME Inv, NEW c \in Client, NEW i \in DOMAIN seen[c]
               PROVE  /\ seen[c][i].kind = "replay" =>
                            LET b == Max({x \in 1..i : seen[c][x].kind = "begin"})
                            IN  \A x \in b..i : seen[c][x].kind # "live"
                      /\ IsData(seen[c][i]) => \E x \in 1..i : seen[c][x].kind = "opened"
    BY DEF NoInterleave
  <2>1. seen[c] \in Seq(Frame) /\ Unmixed(seen[c]) BY DEF Inv, TypeInv, ClientInv
  <2>2. seen[c][i].kind = "replay" =>
            LET b == Max({x \in 1..i : seen[c][x].kind = "begin"})
            IN  \A x \in b..i : seen[c][x].kind # "live"
    BY <2>1, UnmixedIsEnough
  <2> QED BY <2>1, <2>2 DEF Unmixed
<1> QED BY InitInv, <1>1, <1>2, PTL DEF Spec

-----------------------------------------------------------------------------
(* What the terminal of a client shows *)

Rising(s) == \A i, k \in DOMAIN s : i < k => s[i] < s[k]
HasLive(s, n) == \E i \in DOMAIN s : s[i].kind = "live" /\ s[i].n = n
\* The client was there before the pane, or has had it replayed.
HadIt(s) == \E i \in DOMAIN s : s[i].kind \in {"empty", "replay"}
\* Live bytes were sent in order, and what is queued comes after them.
Ordered(s, q) ==
    /\ InOrder(s) /\ Rising(q)
    /\ \A a, b \in Int : HasLive(s, a) /\ b \in ToSet(q) => a < b

Out(t) == t.kind = "out"
\* What is read and neither lost nor on its way to the client.
Missing(c) == Read \ (lost \cup ToSet(flush) \cup ToSet(queue[c]))

\* What tmux wrote is read in order.
StreamInv ==
    /\ written \in Nat
    /\ \A i \in DOMAIN stream : Out(stream[i]) => stream[i].n \in 1..written
    /\ \A i, k \in DOMAIN stream :
          i < k /\ Out(stream[i]) /\ Out(stream[k]) => stream[i].n < stream[k].n
    /\ \A n \in Read, i \in DOMAIN stream : Out(stream[i]) => n < stream[i].n

\* What is staged goes out before anything else of the pane.
StageInv ==
    /\ Rising(staged) /\ ToSet(staged) \subseteq Read
    /\ Rising(flush) /\ ToSet(flush) \subseteq Read
    /\ flush # <<>> => known = "yes"
    /\ known = "no" => Read \subseteq ToSet(staged) \cup lost
    /\ known = "no" \/ flush # <<>> =>
          \A c \in Client : queue[c] = <<>> /\ \A n \in Int : ~HasLive(seen[c], n)

\* A window is open as long as a hydration of its client is under way.
WindowInv(c) ==
    /\ c \notin window => queue[c] = <<>>
    /\ c \in window => \E j \in Job : job[c][j].at \in {"capture", "facts", "sent"}

OrderInv(c) ==
    /\ Ordered(seen[c], queue[c])
    /\ ToSet(queue[c]) \subseteq Read
    /\ \A n \in Int : HasLive(seen[c], n) => n \in Read

\* What the screen of an attached client misses is queued for it; and what the
\* capture on its way does not show will be.
IsBody(t, c) == IsReply(t) /\ t.verb = "capture" /\ t.ok /\ t.c = c
WholeInv(c) ==
    known = "yes" /\ c \in attached =>
        /\ HadIt(seen[c]) => Missing(c) \subseteq Screen(seen[c])
        /\ \A j \in Job : job[c][j].at = "facts" => \A n \in Missing(c) : n <= job[c][j].body
        /\ \A i \in DOMAIN stream : IsBody(stream[i], c) =>
              \A n \in Missing(c) : n <= stream[i].n

DrawInv ==
    /\ StreamInv /\ StageInv
    /\ \A c \in Client : WindowInv(c) /\ OrderInv(c) /\ WholeInv(c)

-----------------------------------------------------------------------------
(* Frames and chunks are appended *)

\* The positions of u are those of s and, after them, those of t, which are at[k].
Splices(s, t, u, at) ==
    /\ at \in [DOMAIN t -> Nat]
    /\ \A i \in DOMAIN s : i \in DOMAIN u /\ u[i] = s[i] /\ i \in Nat
    /\ \A k \in DOMAIN t : at[k] \in DOMAIN u /\ u[at[k]] = t[k]
    /\ \A i \in DOMAIN u : i \in DOMAIN s \/ \E k \in DOMAIN t : i = at[k]
    /\ \A i \in DOMAIN s, k \in DOMAIN t : i < at[k]
    /\ \A k, l \in DOMAIN t : at[k] < at[l] => k < l

LEMMA Spliced ==
    ASSUME NEW S, NEW s \in Seq(S), NEW t \in Seq(S), NEW u, u = s \o t
    PROVE  u \in Seq(S) /\ \E at : Splices(s, t, u, at)
<1> DEFINE m == Len(s)
           n == Len(t)
           at == [k \in DOMAIN t |-> m + k]
<1>1. m \in Nat /\ n \in Nat /\ DOMAIN s = 1..m /\ DOMAIN t = 1..n BY LenProperties
<1>2. u \in Seq(S) /\ DOMAIN u = 1..(m + n) BY ConcatProperties, LenProperties
<1>3. \A i \in 1..m : u[i] = s[i] BY <1>1, ConcatProperties
<1>4. \A k \in 1..n : u[m + k] = t[k] BY <1>1, ConcatProperties
<1>5. \A i \in 1..(m + n) : i \in 1..m \/ \E k \in 1..n : i = m + k
  <2> SUFFICES ASSUME NEW i \in 1..(m + n), i \notin 1..m PROVE \E k \in 1..n : i = m + k
    OBVIOUS
  <2>1. i - m \in 1..n /\ i = m + (i - m) BY <1>1
  <2> QED BY <2>1
<1> HIDE DEF m, n
<1>6. at \in [DOMAIN t -> Nat] /\ \A k \in DOMAIN t : at[k] = m + k BY <1>1
<1> HIDE DEF at
<1>7. \A i \in DOMAIN s : i \in DOMAIN u /\ u[i] = s[i] /\ i \in Nat BY <1>1, <1>2, <1>3
<1>8. \A k \in DOMAIN t : at[k] \in DOMAIN u /\ u[at[k]] = t[k]
  BY <1>1, <1>2, <1>4, <1>6
<1>9. \A i \in DOMAIN u : i \in DOMAIN s \/ \E k \in DOMAIN t : i = at[k]
  BY <1>1, <1>2, <1>5, <1>6
<1>10. \A i \in DOMAIN s, k \in DOMAIN t : i < at[k] BY <1>1, <1>6
<1>11. \A k, l \in DOMAIN t : at[k] < at[l] => k < l BY <1>1, <1>6
<1>12. Splices(s, t, u, at) BY <1>6, <1>7, <1>8, <1>9, <1>10, <1>11 DEF Splices
<1> QED BY <1>2, <1>12

\* Chunks that rise, followed by later ones that rise.
LEMMA RisingJoined ==
    ASSUME NEW q \in Seq(Int), NEW r \in Seq(Int), NEW u, u = q \o r
    PROVE  /\ u \in Seq(Int) /\ ToSet(u) = ToSet(q) \cup ToSet(r)
           /\ Rising(q) /\ Rising(r) /\ (\A a \in ToSet(q), b \in ToSet(r) : a < b) => Rising(u)
<1>s. u \in Seq(Int) BY Spliced
<1>p. PICK at : Splices(q, r, u, at) BY Spliced
<1>1. /\ at \in [DOMAIN r -> Nat]
      /\ \A i \in DOMAIN q : i \in DOMAIN u /\ u[i] = q[i] /\ i \in Nat
      /\ \A k \in DOMAIN r : at[k] \in DOMAIN u /\ u[at[k]] = r[k]
      /\ \A i \in DOMAIN u : i \in DOMAIN q \/ \E k \in DOMAIN r : i = at[k]
      /\ \A i \in DOMAIN q, k \in DOMAIN r : i < at[k]
      /\ \A k, l \in DOMAIN r : at[k] < at[l] => k < l
  BY <1>p DEF Splices
<1>2. ToSet(u) = ToSet(q) \cup ToSet(r)
  <2>1. ToSet(u) \subseteq ToSet(q) \cup ToSet(r) BY <1>1 DEF ToSet
  <2>2. ToSet(q) \subseteq ToSet(u) BY <1>1 DEF ToSet
  <2>3. ToSet(r) \subseteq ToSet(u) BY <1>1 DEF ToSet
  <2> QED BY <2>1, <2>2, <2>3
<1>3. ASSUME Rising(q), Rising(r), \A a \in ToSet(q), b \in ToSet(r) : a < b PROVE Rising(u)
  <2> SUFFICES ASSUME NEW i \in DOMAIN u, NEW k \in DOMAIN u, i < k PROVE u[i] < u[k]
    BY DEF Rising
  <2>1. CASE i \in DOMAIN q /\ k \in DOMAIN q BY <1>1, <1>3, <2>1 DEF Rising
  <2>2. ASSUME i \in DOMAIN q, NEW y \in DOMAIN r, k = at[y] PROVE u[i] < u[k]
    BY <1>1, <1>3, <2>2 DEF ToSet
  <2>3. ASSUME NEW x \in DOMAIN r, i = at[x], NEW y \in DOMAIN r, k = at[y] PROVE u[i] < u[k]
    <3>1. x < y /\ u[i] = r[x] /\ u[k] = r[y] BY <1>1, <2>3
    <3> QED BY <1>3, <3>1 DEF Rising
  <2>4. ASSUME NEW x \in DOMAIN r, i = at[x], k \in DOMAIN q PROVE FALSE
    <3>1. k < i /\ k \in Nat /\ i \in Nat BY <1>1, <2>4
    <3> QED BY <3>1
  <2> QED BY <1>1, <2>1, <2>2, <2>3, <2>4
<1> QED BY <1>s, <1>2, <1>3

\* Frames none of which clears the screen or says that there is no pane.
Plain(t) == \A k \in DOMAIN t : t[k].kind \notin {"replay", "empty"}

\* A frame that no replay follows is on the screen.
LEMMA ScreenIs ==
    ASSUME NEW u
    PROVE  /\ \A i \in DOMAIN u : (\A k \in DOMAIN u : k > i => u[k].kind # "replay") =>
                 /\ u[i].kind = "live" => u[i].n \in Screen(u)
                 /\ u[i].kind = "replay" => 1..u[i].n \subseteq Screen(u)
           /\ \A n \in Screen(u) : \E i \in DOMAIN u :
                 /\ \A k \in DOMAIN u : k > i => u[k].kind # "replay"
                 /\ \/ u[i].kind = "live" /\ n = u[i].n
                    \/ u[i].kind = "replay" /\ n \in 1..u[i].n
<1> DEFINE after == {i \in DOMAIN u : \A k \in DOMAIN u : k > i => u[k].kind # "replay"}
           live == {x \in after : u[x].kind = "live"}
           replay == {x \in after : u[x].kind = "replay"}
<1>1. Screen(u) = {u[i].n : i \in live} \cup UNION {1..u[i].n : i \in replay} BY DEF Screen
<1>2. \A i \in live : u[i].n \in Screen(u) BY <1>1
<1>3. \A i \in replay : 1..u[i].n \subseteq Screen(u) BY <1>1
<1>4. \A n \in Screen(u) : \/ \E i \in live : n = u[i].n
                           \/ \E i \in replay : n \in 1..u[i].n
  BY <1>1
<1> QED BY <1>2, <1>3, <1>4

LEMMA Drawn ==
    ASSUME NEW s \in Seq(Frame), NEW t \in Seq(Frame), Plain(t), NEW u, u = s \o t
    PROVE  /\ u \in Seq(Frame)
           /\ \A n : HasLive(u, n) <=> HasLive(s, n) \/ HasLive(t, n)
           /\ InOrder(s) /\ InOrder(t)
                /\ (\A a, b \in Int : HasLive(s, a) /\ HasLive(t, b) => a < b) => InOrder(u)
           /\ HadIt(u) => HadIt(s)
           /\ Plain(s) => Plain(u)
           /\ Screen(s) \subseteq Screen(u)
           /\ \A n : HasLive(t, n) => n \in Screen(u)
<1>s. u \in Seq(Frame) BY Spliced
<1>p. PICK at : Splices(s, t, u, at) BY Spliced
<1>1. /\ at \in [DOMAIN t -> Nat]
      /\ \A i \in DOMAIN s : i \in DOMAIN u /\ u[i] = s[i] /\ i \in Nat
      /\ \A k \in DOMAIN t : at[k] \in DOMAIN u /\ u[at[k]] = t[k]
      /\ \A i \in DOMAIN u : i \in DOMAIN s \/ \E k \in DOMAIN t : i = at[k]
      /\ \A i \in DOMAIN s, k \in DOMAIN t : i < at[k]
      /\ \A k, l \in DOMAIN t : at[k] < at[l] => k < l
  BY <1>p DEF Splices
<1>a. \A i \in DOMAIN u : u[i].n \in Int 
  <2>1. \A i \in DOMAIN u : u[i] \in Frame BY <1>s, LenProperties, ElementOfSeq
  <2> QED BY <2>1 DEF Frame
<1>2. \A n : HasLive(u, n) <=> HasLive(s, n) \/ HasLive(t, n)
  <2> SUFFICES ASSUME NEW n PROVE HasLive(u, n) <=> HasLive(s, n) \/ HasLive(t, n) OBVIOUS
  <2>1. HasLive(s, n) => HasLive(u, n) BY <1>1 DEF HasLive
  <2>2. HasLive(t, n) => HasLive(u, n)
    <3> SUFFICES ASSUME NEW k \in DOMAIN t, t[k].kind = "live", t[k].n = n PROVE HasLive(u, n)
      BY DEF HasLive
    <3>1. at[k] \in DOMAIN u /\ u[at[k]] = t[k] BY <1>1
    <3> QED BY <3>1 DEF HasLive
  <2>3. HasLive(u, n) => HasLive(s, n) \/ HasLive(t, n)
    <3> SUFFICES ASSUME NEW i \in DOMAIN u, u[i].kind = "live", u[i].n = n
                 PROVE  HasLive(s, n) \/ HasLive(t, n)
      BY DEF HasLive
    <3>1. CASE i \in DOMAIN s BY <1>1, <3>1 DEF HasLive
    <3>2. CASE i \notin DOMAIN s
      <4>1. PICK k \in DOMAIN t : i = at[k] BY <1>1, <3>2
      <4>2. t[k] = u[i] BY <1>1, <4>1
      <4> QED BY <4>2 DEF HasLive
    <3> QED BY <3>1, <3>2
  <2> QED BY <2>1, <2>2, <2>3
<1>3. ASSUME InOrder(s), InOrder(t), \A a, b \in Int : HasLive(s, a) /\ HasLive(t, b) => a < b,
             NEW i \in DOMAIN u, NEW k \in DOMAIN u, i < k, u[i].kind = "live", u[k].kind = "live"
      PROVE  u[i].n < u[k].n
  <2>1. CASE i \in DOMAIN s /\ k \in DOMAIN s BY <1>1, <1>3, <2>1 DEF InOrder
  <2>2. CASE i \in DOMAIN s /\ \E y \in DOMAIN t : k = at[y]
    <3>1. HasLive(s, u[i].n) /\ HasLive(t, u[k].n) BY <1>1, <1>3, <2>2 DEF HasLive
    <3> QED BY <1>3, <1>a, <3>1
  <2>3. CASE (\E x \in DOMAIN t : i = at[x]) /\ \E y \in DOMAIN t : k = at[y]
    BY <1>1, <1>3, <2>3 DEF InOrder
  <2>4. CASE (\E x \in DOMAIN t : i = at[x]) /\ k \in DOMAIN s
    <3>1. PICK x \in DOMAIN t : i = at[x] BY <2>4
    <3>2. k < i /\ k \in Nat /\ i \in Nat BY <1>1, <2>4, <3>1
    <3> QED BY <1>3, <3>2
  <2> QED BY <1>1, <2>1, <2>2, <2>3, <2>4
<1>4. HadIt(u) => HadIt(s) BY <1>1 DEF HadIt, Plain
<1>5. Plain(s) => Plain(u) BY <1>1 DEF Plain
<1>6. \A i \in DOMAIN u : u[i].kind = "replay" => i \in DOMAIN s BY <1>1 DEF Plain
<1>7. \A n : HasLive(t, n) => n \in Screen(u)
  <2> SUFFICES ASSUME NEW k \in DOMAIN t, t[k].kind = "live" PROVE t[k].n \in Screen(u)
    BY DEF HasLive
  <2>1. \A x \in DOMAIN u : x > at[k] => u[x].kind # "replay"
    <3> SUFFICES ASSUME NEW x \in DOMAIN u, x > at[k], u[x].kind = "replay" PROVE FALSE OBVIOUS
    <3>1. x < at[k] /\ x \in Nat /\ at[k] \in Nat BY <1>1, <1>6
    <3> QED BY <3>1
  <2>2. at[k] \in DOMAIN u /\ u[at[k]] = t[k] BY <1>1
  <2> QED BY <2>1, <2>2, ScreenIs
<1>8. Screen(s) \subseteq Screen(u)
  <2> SUFFICES ASSUME NEW n \in Screen(s) PROVE n \in Screen(u) OBVIOUS
  <2>1. PICK i \in DOMAIN s : /\ \A k \in DOMAIN s : k > i => s[k].kind # "replay"
                              /\ \/ s[i].kind = "live" /\ n = s[i].n
                                 \/ s[i].kind = "replay" /\ n \in 1..s[i].n
    BY ScreenIs
  <2>2. \A x \in DOMAIN u : x > i => u[x].kind # "replay"
    <3> SUFFICES ASSUME NEW x \in DOMAIN u, x > i, u[x].kind = "replay" PROVE FALSE OBVIOUS
    <3>1. x \in DOMAIN s /\ s[x] = u[x] BY <1>1, <1>6
    <3> QED BY <2>1, <3>1
  <2>3. i \in DOMAIN u /\ u[i] = s[i] BY <1>1
  <2>4. /\ u[i].kind = "live" => u[i].n \in Screen(u)
        /\ u[i].kind = "replay" => 1..u[i].n \subseteq Screen(u)
    BY <2>2, <2>3, ScreenIs
  <2>5. CASE s[i].kind = "live" /\ n = s[i].n BY <2>3, <2>4, <2>5
  <2>6. CASE s[i].kind = "replay" /\ n \in 1..s[i].n BY <2>3, <2>4, <2>6
  <2> QED BY <2>1, <2>5, <2>6
<1>9. ASSUME InOrder(s), InOrder(t), \A a, b \in Int : HasLive(s, a) /\ HasLive(t, b) => a < b
      PROVE  InOrder(u)
  BY <1>3, <1>9 DEF InOrder
<1> QED BY <1>s, <1>2, <1>4, <1>5, <1>7, <1>8, <1>9

\* A replay shows what its capture does, and is no live byte.
LEMMA Redrawn ==
    ASSUME NEW s \in Seq(Frame), NEW b \in Int, NEW u, u = s \o <<Replay(b)>>
    PROVE  /\ u \in Seq(Frame) /\ 1..b \subseteq Screen(u)
           /\ \A n : HasLive(u, n) => HasLive(s, n)
           /\ InOrder(s) => InOrder(u)
<1> DEFINE t == <<Replay(b)>>
<1>1. Replay(b) \in Frame /\ Replay(b).kind = "replay" /\ Replay(b).n = b BY DEF Replay, Frame
<1>2. t \in Seq(Frame) /\ DOMAIN t = {1} /\ t[1] = Replay(b) BY <1>1
<1> HIDE DEF t
<1>s. u \in Seq(Frame) BY <1>2, Spliced DEF t
<1>p. PICK at : Splices(s, t, u, at) BY <1>2, Spliced DEF t
<1>3. /\ at \in [DOMAIN t -> Nat]
      /\ \A i \in DOMAIN s : i \in DOMAIN u /\ u[i] = s[i] /\ i \in Nat
      /\ \A k \in DOMAIN t : at[k] \in DOMAIN u /\ u[at[k]] = t[k]
      /\ \A i \in DOMAIN u : i \in DOMAIN s \/ \E k \in DOMAIN t : i = at[k]
      /\ \A i \in DOMAIN s, k \in DOMAIN t : i < at[k]
  BY <1>p DEF Splices
<1>4. at[1] \in DOMAIN u /\ u[at[1]] = Replay(b) /\ \A x \in DOMAIN u : ~(x > at[1])
  BY <1>2, <1>3
<1>5. 1..b \subseteq Screen(u) BY <1>1, <1>4, ScreenIs
<1>6. \A i \in DOMAIN u : u[i].kind = "live" => i \in DOMAIN s BY <1>1, <1>2, <1>3
<1>7. \A n : HasLive(u, n) => HasLive(s, n) BY <1>3, <1>6 DEF HasLive
<1>8. InOrder(s) => InOrder(u) BY <1>3, <1>6 DEF InOrder
<1> QED BY <1>s, <1>5, <1>7, <1>8

\* The live chunks of a queue, as they are sent.
LEMMA LivesDrawn ==
    ASSUME NEW q \in Seq(Int), NEW t, t = Lives(q)
    PROVE  /\ t \in Seq(Frame) /\ Plain(t) /\ (Rising(q) => InOrder(t))
           /\ \A n : HasLive(t, n) <=> n \in ToSet(q)
<1>1. t \in Seq(Frame) /\ \A k \in DOMAIN t : t[k].kind = "live" BY LivesAreFrames
<1>2. DOMAIN t = DOMAIN q /\ \A k \in DOMAIN q : t[k].n = q[k] BY DEF Lives, Live
<1> QED BY <1>1, <1>2 DEF Plain, InOrder, Rising, HasLive, ToSet

\* What is sent when a window closes: its queue, and that it closes.
LEMMA ControlDrawn ==
    ASSUME NEW kind \in {"opened", "closed", "begin", "end", "failed"}, NEW t,
           t = <<Control(kind)>>
    PROVE  t \in Seq(Frame) /\ Plain(t) /\ InOrder(t) /\ \A n : ~HasLive(t, n)
<1>1. t \in Seq(Frame) /\ DOMAIN t = {1} /\ t[1].kind = kind BY ControlIs
<1> QED BY <1>1 DEF Plain, InOrder, HasLive

-----------------------------------------------------------------------------
(* What tmux writes is read in order *)

\* Of a stream it is read from, or nothing is.
LEMMA ReadIs ==
    /\ Read \subseteq 1..written
    /\ \A n \in 1..written : n \notin Read =>
          \E i \in DOMAIN stream : Out(stream[i]) /\ stream[i].n = n
    /\ \A n \in Read, i \in DOMAIN stream : Out(stream[i]) => stream[i].n # n
BY DEF Read, Out

LEMMA TokenRead ==
    ASSUME TypeInv, StreamInv, stream # <<>>, stream' = Tail(stream), written' = written
    PROVE  /\ StreamInv'
           /\ Out(Head(stream)) => /\ Read' = Read \cup {Head(stream).n}
                                   /\ Head(stream).n \in Int
                                   /\ \A r \in Read : r < Head(stream).n
           /\ ~Out(Head(stream)) => Read' = Read
           /\ \A i \in DOMAIN stream' : \E k \in DOMAIN stream : stream'[i] = stream[k]
<1> DEFINE t == Tail(stream)
           m == Len(stream)
           h == Head(stream)
<1>1. m \in Nat \ {0} /\ DOMAIN stream = 1..m BY LenProperties, EmptySeq DEF TypeInv
<1>2. DOMAIN t = 1..(m - 1) BY <1>1, HeadTailProperties, LenProperties DEF TypeInv
<1>3. \A i \in 1..(m - 1) : t[i] = stream[i + 1] /\ i + 1 \in 1..m /\ i \in Int /\ 1 < i + 1
  BY <1>1, HeadTailProperties DEF TypeInv
<1>4. h = stream[1] /\ 1 \in 1..m BY <1>1, HeadTailProperties DEF TypeInv
<1>5. \A k \in 1..m : k = 1 \/ \E i \in 1..(m - 1) : k = i + 1
  <2> SUFFICES ASSUME NEW k \in 1..m, k # 1 PROVE \E i \in 1..(m - 1) : k = i + 1 OBVIOUS
  <2>1. k - 1 \in 1..(m - 1) /\ k = (k - 1) + 1 BY <1>1
  <2> QED BY <2>1
<1>6. \A i, k \in 1..(m - 1) : i < k => i + 1 < k + 1 BY <1>1
<1> HIDE DEF t, m, h
<1>7. stream' = t BY DEF t
<1>8. /\ written \in Nat
      /\ \A i \in 1..m : Out(stream[i]) => stream[i].n \in 1..written
      /\ \A i, k \in 1..m :
            i < k /\ Out(stream[i]) /\ Out(stream[k]) => stream[i].n < stream[k].n
      /\ \A n \in Read, i \in 1..m : Out(stream[i]) => n < stream[i].n
  BY <1>1 DEF StreamInv
<1>9. \A k \in 1..(m - 1) : Out(t[k]) => t[k].n \in 1..written BY <1>3, <1>8
<1>10. \A i, k \in 1..(m - 1) : i < k /\ Out(t[i]) /\ Out(t[k]) => t[i].n < t[k].n
  <2> SUFFICES ASSUME NEW i \in 1..(m - 1), NEW k \in 1..(m - 1), i < k, Out(t[i]), Out(t[k])
               PROVE  t[i].n < t[k].n
    OBVIOUS
  <2>1. i + 1 < k + 1 /\ i + 1 \in 1..m /\ k + 1 \in 1..m BY <1>3, <1>6
  <2>2. t[i] = stream[i + 1] /\ t[k] = stream[k + 1] BY <1>3
  <2> QED BY <1>8, <2>1, <2>2
<1>11. \A k \in 1..(m - 1) : Out(h) /\ Out(t[k]) => h.n < t[k].n
  <2> SUFFICES ASSUME NEW k \in 1..(m - 1), Out(h), Out(t[k]) PROVE h.n < t[k].n OBVIOUS
  <2>1. 1 < k + 1 /\ k + 1 \in 1..m /\ t[k] = stream[k + 1] BY <1>3
  <2> QED BY <1>4, <1>8, <2>1
<1>12. \A n : n \in Read' <=> n \in 1..written /\ \A k \in 1..(m - 1) : Out(t[k]) => t[k].n # n
  BY <1>2, <1>7 DEF Read, Out
<1>13. \A n : n \in Read <=> n \in 1..written /\ \A k \in 1..m : Out(stream[k]) => stream[k].n # n
  BY <1>1 DEF Read, Out
<1>14. ASSUME NEW n \in Read PROVE n \in Read'
  BY <1>3, <1>12, <1>13, <1>14
<1>15. ASSUME NEW n \in Read', n \notin Read PROVE Out(h) /\ n = h.n
  <2>1. PICK k \in 1..m : Out(stream[k]) /\ stream[k].n = n BY <1>12, <1>13, <1>15
  <2>2. ASSUME NEW i \in 1..(m - 1), k = i + 1 PROVE FALSE
    <3>1. t[i] = stream[k] BY <1>3, <2>2
    <3> QED BY <1>12, <1>15, <2>1, <3>1
  <2>3. k = 1 BY <1>5, <2>2
  <2> QED BY <1>4, <2>1, <2>3
<1>16. ASSUME Out(h) PROVE h.n \in Read' /\ h.n \in Int
  <2>1. h.n \in 1..written BY <1>4, <1>8, <1>16
  <2>2. \A k \in 1..(m - 1) : Out(t[k]) => t[k].n # h.n
    <3> SUFFICES ASSUME NEW k \in 1..(m - 1), Out(t[k]), t[k].n = h.n PROVE FALSE OBVIOUS
    <3>1. h.n < t[k].n BY <1>11, <1>16
    <3> QED BY <2>1, <3>1
  <2> QED BY <1>12, <2>1, <2>2
<1>17. ASSUME NEW n \in Read', NEW k \in 1..(m - 1), Out(t[k]) PROVE n < t[k].n
  <2>1. CASE n \in Read BY <1>3, <1>8, <1>17, <2>1
  <2>2. CASE n \notin Read BY <1>11, <1>15, <1>17, <2>2
  <2> QED BY <2>1, <2>2
<1>18. StreamInv'
  <2>1. written' \in Nat BY <1>8
  <2>2. (\A i \in DOMAIN stream : Out(stream[i]) => stream[i].n \in 1..written)'
    BY <1>2, <1>7, <1>9
  <2>3. (\A i, k \in DOMAIN stream :
            i < k /\ Out(stream[i]) /\ Out(stream[k]) => stream[i].n < stream[k].n)'
    BY <1>2, <1>7, <1>10
  <2>4. (\A n \in Read, i \in DOMAIN stream : Out(stream[i]) => n < stream[i].n)'
    BY <1>2, <1>7, <1>17
  <2> QED BY <2>1, <2>2, <2>3, <2>4 DEF StreamInv
<1>19. Out(h) => \A r \in Read : r < h.n BY <1>4, <1>8
<1>20. Out(h) => Read' = Read \cup {h.n} BY <1>14, <1>15, <1>16
<1>21. ~Out(h) => Read' = Read BY <1>14, <1>15
<1>22. \A i \in DOMAIN stream' : \E k \in DOMAIN stream : stream'[i] = stream[k]
  BY <1>1, <1>2, <1>3, <1>7
<1> QED BY <1>16, <1>18, <1>19, <1>20, <1>21, <1>22 DEF h

\* What tmux appends is not read yet.
LEMMA TokenWritten ==
    ASSUME TypeInv, StreamInv, NEW x \in Token, stream' = Append(stream, x),
           \/ Out(x) /\ written' = written + 1 /\ x.n = written'
           \/ ~Out(x) /\ written' = written
    PROVE  /\ StreamInv' /\ Read' = Read
           /\ \A i \in DOMAIN stream' : stream'[i] = x \/ \E k \in DOMAIN stream : stream'[i] = stream[k]
<1> DEFINE t == Append(stream, x)
           m == Len(stream)
<1>1. m \in Nat /\ DOMAIN stream = 1..m BY LenProperties DEF TypeInv
<1>2. DOMAIN t = 1..(m + 1) BY <1>1, AppendProperties, LenProperties DEF TypeInv
<1>3. (\A i \in 1..m : t[i] = stream[i] /\ i \in 1..(m + 1)) /\ t[m + 1] = x
  BY <1>1, AppendProperties DEF TypeInv
<1>4. \A i \in 1..(m + 1) : i \in 1..m \/ i = m + 1 BY <1>1
<1>5. \A i, k \in 1..(m + 1) : i < k => i \in 1..m BY <1>1
<1>6. m + 1 \in 1..(m + 1) BY <1>1
<1> HIDE DEF t, m
<1>7. stream' = t BY DEF t
<1>8. /\ written \in Nat
      /\ \A i \in 1..m : Out(stream[i]) => stream[i].n \in 1..written
      /\ \A i, k \in 1..m :
            i < k /\ Out(stream[i]) /\ Out(stream[k]) => stream[i].n < stream[k].n
      /\ \A n \in Read, i \in 1..m : Out(stream[i]) => n < stream[i].n
  BY <1>1 DEF StreamInv
<1>9. written' \in Nat /\ (\A n \in 1..written : n \in 1..written' /\ n < written + 1)
      /\ written + 1 \in 1..(written + 1)
  BY <1>8
<1>10. Out(x) => x.n = written + 1 /\ x.n \in 1..written' BY <1>9
<1>11. \A n : n \in Read' <=> n \in 1..written' /\ \A k \in 1..(m + 1) : Out(t[k]) => t[k].n # n
  BY <1>2, <1>7 DEF Read, Out
<1>12. \A n : n \in Read <=> n \in 1..written /\ \A k \in 1..m : Out(stream[k]) => stream[k].n # n
  BY <1>1 DEF Read, Out
<1>13. ASSUME NEW n \in Read PROVE n \in Read'
  <2>1. n \in 1..written /\ n \in 1..written' /\ (Out(x) => x.n # n) BY <1>9, <1>10, <1>12
  <2>2. \A k \in 1..(m + 1) : Out(t[k]) => t[k].n # n BY <1>3, <1>4, <1>12, <2>1
  <2> QED BY <1>11, <2>1, <2>2
<1>14. ASSUME NEW n \in Read' PROVE n \in Read
  <2>1. Out(x) => x.n # n BY <1>3, <1>6, <1>11
  <2>2. n \in 1..written BY <1>8, <1>10, <1>11, <2>1
  <2> QED BY <1>3, <1>11, <1>12, <2>2
<1>15. Read' = Read BY <1>13, <1>14
<1>16. StreamInv'
  <2>1. \A i \in 1..(m + 1) : Out(t[i]) => t[i].n \in 1..written'
    BY <1>3, <1>4, <1>8, <1>9, <1>10
  <2>2. \A i \in 1..(m + 1), k \in 1..(m + 1) :
            i < k /\ Out(t[i]) /\ Out(t[k]) => t[i].n < t[k].n
    <3> SUFFICES ASSUME NEW i \in 1..(m + 1), NEW k \in 1..(m + 1), i < k, Out(t[i]), Out(t[k])
                 PROVE  t[i].n < t[k].n
      OBVIOUS
    <3>1. i \in 1..m /\ t[i] = stream[i] BY <1>3, <1>5
    <3>2. CASE k \in 1..m BY <1>3, <1>8, <3>1, <3>2
    <3>3. CASE k = m + 1 BY <1>3, <1>8, <1>9, <1>10, <3>1, <3>3
    <3> QED BY <1>4, <3>2, <3>3
  <2>3. \A n \in Read, k \in 1..(m + 1) : Out(t[k]) => n < t[k].n
    <3> SUFFICES ASSUME NEW n \in Read, NEW k \in 1..(m + 1), Out(t[k]) PROVE n < t[k].n OBVIOUS
    <3>1. CASE k \in 1..m BY <1>3, <1>8, <3>1
    <3>2. CASE k = m + 1 BY <1>3, <1>9, <1>10, <1>12, <3>2
    <3> QED BY <1>4, <3>1, <3>2
  <2>4. (\A i \in DOMAIN stream : Out(stream[i]) => stream[i].n \in 1..written)'
    BY <1>2, <1>7, <2>1
  <2>5. (\A i, k \in DOMAIN stream :
            i < k /\ Out(stream[i]) /\ Out(stream[k]) => stream[i].n < stream[k].n)'
    BY <1>2, <1>7, <2>2
  <2>6. (\A n \in Read, i \in DOMAIN stream : Out(stream[i]) => n < stream[i].n)'
    BY <1>2, <1>7, <1>15, <2>3
  <2> QED BY <1>9, <2>4, <2>5, <2>6 DEF StreamInv
<1>17. \A i \in DOMAIN stream' : stream'[i] = x \/ \E k \in DOMAIN stream : stream'[i] = stream[k]
  BY <1>1, <1>2, <1>3, <1>4, <1>7
<1> QED BY <1>15, <1>16, <1>17

\* Without a capture of its own on the way, no client waits for a body.
LEMMA NoBody ==
    ASSUME NEW cm, NEW st \in Seq(Token), NEW jb, Asking(cm, st, jb), NEW c \in Client,
           \A j \in Job : ~Capturing(jb[c][j])
    PROVE  \A i \in DOMAIN st : ~IsBody(st[i], c)
<1>1. \A i \in DOMAIN st : st[i] \in Token BY LenProperties, ElementOfSeq
<1>2. \A i \in DOMAIN st : IsReply(st[i]) => st[i].j \in Job BY <1>1 DEF Token, IsReply
<1> QED BY <1>2 DEF Asking, IsBody, Capturing

-----------------------------------------------------------------------------
(* One client's screen in a step *)

\* It is sent t, or nothing, and its queue changes.
LEMMA OrderKeeps ==
    ASSUME TypeInv, NEW c \in Client, OrderInv(c), NEW t \in Seq(Frame), Plain(t), InOrder(t),
           seen'[c] = seen[c] \/ seen'[c] = seen[c] \o t, Rising(queue'[c]),
           Read \subseteq Read', ToSet(queue'[c]) \subseteq Read',
           \A a \in Int : HasLive(t, a) => a \in Read',
           \A a, b \in Int : /\ HasLive(seen[c], a) /\ HasLive(t, b) => a < b
                             /\ HasLive(seen[c], a) /\ b \in ToSet(queue'[c]) => a < b
                             /\ HasLive(t, a) /\ b \in ToSet(queue'[c]) => a < b
    PROVE  OrderInv(c)'
<1> DEFINE s == seen'[c]
           q == queue'[c]
<1>1. seen[c] \in Seq(Frame) BY DEF TypeInv
<1>2. InOrder(seen[c]) /\ \A a \in Int : HasLive(seen[c], a) => a \in Read
  BY DEF OrderInv, Ordered
<1> HIDE DEF s, q
<1>3. InOrder(s) /\ \A a \in Int : HasLive(s, a) => HasLive(seen[c], a) \/ HasLive(t, a)
  <2>1. CASE s = seen[c] BY <1>2, <2>1
  <2>2. CASE s = seen[c] \o t BY <1>1, <1>2, <2>2, Drawn
  <2> QED BY <2>1, <2>2 DEF s
<1>4. Ordered(s, q) BY <1>3 DEF Ordered, q
<1>5. \A a \in Int : HasLive(s, a) => a \in Read' BY <1>2, <1>3
<1> QED BY <1>4, <1>5 DEF OrderInv, s, q

\* What it misses it missed before, or it is now sent.
LEMMA WholeKeeps ==
    ASSUME TypeInv, NEW c \in Client, WholeInv(c), NEW t \in Seq(Frame), Plain(t),
           seen'[c] = seen[c] \/ seen'[c] = seen[c] \o t,
           known' = "yes" /\ c \in attached' => known = "yes" /\ c \in attached,
           known = "yes" /\ c \in attached => \A n \in Missing(c)' :
               n \in Missing(c) \/ (HasLive(t, n) /\ seen'[c] = seen[c] \o t),
           known = "yes" /\ c \in attached =>
               \/ /\ \A j \in Job : job'[c][j].at # "facts"
                  /\ \A i \in DOMAIN stream' : ~IsBody(stream'[i], c)
               \/ /\ Missing(c)' \subseteq Missing(c)
                  /\ \A j \in Job : job'[c][j].at = "facts" =>
                        \/ job'[c][j] = job[c][j]
                        \/ \A n \in Missing(c) : n <= job'[c][j].body
                  /\ \A i \in DOMAIN stream' : IsBody(stream'[i], c) =>
                        \/ \E k \in DOMAIN stream : stream'[i] = stream[k]
                        \/ \A n \in Missing(c) : n <= stream'[i].n
    PROVE  WholeInv(c)'
<1> SUFFICES ASSUME known' = "yes", c \in attached'
             PROVE  (/\ HadIt(seen[c]) => Missing(c) \subseteq Screen(seen[c])
                     /\ \A j \in Job : job[c][j].at = "facts" =>
                           \A n \in Missing(c) : n <= job[c][j].body
                     /\ \A i \in DOMAIN stream : IsBody(stream[i], c) =>
                           \A n \in Missing(c) : n <= stream[i].n)'
  BY DEF WholeInv
<1>1. known = "yes" /\ c \in attached /\ seen[c] \in Seq(Frame) BY DEF TypeInv
<1>2. /\ HadIt(seen[c]) => Missing(c) \subseteq Screen(seen[c])
      /\ \A j \in Job : job[c][j].at = "facts" => \A n \in Missing(c) : n <= job[c][j].body
      /\ \A i \in DOMAIN stream : IsBody(stream[i], c) => \A n \in Missing(c) : n <= stream[i].n
  BY <1>1 DEF WholeInv
<1> DEFINE s == seen'[c]
           M == Missing(c)'
<1>3. ASSUME HadIt(s), NEW n \in M PROVE n \in Screen(s)
  <2> HIDE DEF s, M
  <2>1. s = seen[c] \/ s = seen[c] \o t BY DEF s
  <2>2. n \in Missing(c) \/ (HasLive(t, n) /\ s = seen[c] \o t) BY <1>1, <1>3 DEF s, M
  <2>3. CASE s = seen[c] \o t
    <3>1. HadIt(seen[c]) /\ Screen(seen[c]) \subseteq Screen(s)
          /\ (HasLive(t, n) => n \in Screen(s))
      BY <1>1, <1>3, <2>3, Drawn
    <3> QED BY <1>2, <2>2, <3>1
  <2>4. CASE s = seen[c]
    <3>1. CASE n \in Missing(c) BY <1>2, <1>3, <2>4, <3>1
    <3>2. CASE n \notin Missing(c) BY <2>2, <2>3, <3>2
    <3> QED BY <3>1, <3>2
  <2> QED BY <2>1, <2>3, <2>4
<1> HIDE DEF s, M
<1>4. ASSUME NEW j \in Job, job'[c][j].at = "facts", NEW n \in M PROVE n <= job'[c][j].body
  BY <1>1, <1>2, <1>4 DEF M
<1>5. ASSUME NEW i \in DOMAIN stream', IsBody(stream'[i], c), NEW n \in M PROVE n <= stream'[i].n
  BY <1>1, <1>2, <1>5 DEF M
<1> QED BY <1>3, <1>4, <1>5 DEF s, M

LEMMA NothingDrawn ==
    /\ <<>> \in Seq(Frame) /\ Plain(<<>>) /\ InOrder(<<>>) /\ Rising(<<>>)
    /\ ToSet(<<>>) = {} /\ \A n : ~HasLive(<<>>, n)
BY EmptySeq DEF Plain, InOrder, HasLive, Rising, ToSet

\* It is told something, or nothing, and its queue stays.
LEMMA ToldDraws ==
    ASSUME TypeInv, NEW c \in Client, OrderInv(c), WholeInv(c), NEW t \in Seq(Frame), Plain(t),
           InOrder(t), \A n : ~HasLive(t, n),
           seen'[c] = seen[c] \/ seen'[c] = seen[c] \o t, queue'[c] = queue[c],
           Read \subseteq Read', Missing(c)' \subseteq Missing(c),
           known' = "yes" /\ c \in attached' => known = "yes" /\ c \in attached,
           known = "yes" /\ c \in attached =>
               /\ \A j \in Job : job'[c][j].at = "facts" =>
                     \/ job'[c][j] = job[c][j]
                     \/ \A n \in Missing(c) : n <= job'[c][j].body
               /\ \A i \in DOMAIN stream' : IsBody(stream'[i], c) =>
                     \/ \E k \in DOMAIN stream : stream'[i] = stream[k]
                     \/ \A n \in Missing(c) : n <= stream'[i].n
    PROVE  OrderInv(c)' /\ WholeInv(c)'
<1>1. OrderInv(c)'
  <2>1. Ordered(seen[c], queue[c]) /\ ToSet(queue[c]) \subseteq Read BY DEF OrderInv
  <2>2. Rising(queue'[c]) /\ ToSet(queue'[c]) \subseteq Read' BY <2>1 DEF Ordered
  <2>3. \A a, b \in Int : HasLive(seen[c], a) /\ b \in ToSet(queue'[c]) => a < b
    BY <2>1 DEF Ordered
  <2> QED BY <2>2, <2>3, OrderKeeps
<1>2. WholeInv(c)' BY WholeKeeps
<1> QED BY <1>1, <1>2

\* Nothing of it changes but what it was told.
LEMMA AsideDraws ==
    ASSUME TypeInv, NEW c \in Client, OrderInv(c), WholeInv(c), NEW t \in Seq(Frame), Plain(t),
           InOrder(t), \A n : ~HasLive(t, n),
           seen'[c] = seen[c] \/ seen'[c] = seen[c] \o t, queue'[c] = queue[c],
           Read' = Read, known' = known, c \in attached' => c \in attached,
           UNCHANGED <<lost, flush>>,
           \A j \in Job : job'[c][j].at = "facts" => job'[c][j] = job[c][j],
           \A i \in DOMAIN stream' : \E k \in DOMAIN stream : stream'[i] = stream[k]
    PROVE  OrderInv(c)' /\ WholeInv(c)'
<1>1. Missing(c)' = Missing(c) BY DEF Missing
<1> QED BY <1>1, ToldDraws

\* Live chunks are fanned out: they are the newest.
LEMMA FanOutDraws ==
    ASSUME Inv, Inv', DrawInv, NEW r \in Seq(Int), Rising(r), known = "yes", FanOut(r),
           UNCHANGED <<known, attached, window, job, lost>>, flush' = <<>>,
           ToSet(flush) \subseteq ToSet(r), Read \subseteq Read', ToSet(r) \subseteq Read',
           Read' \subseteq Read \cup ToSet(r),
           \A c \in Client : \A a \in Int, b \in ToSet(r) :
               HasLive(seen[c], a) \/ a \in ToSet(queue[c]) => a < b,
           \A i \in DOMAIN stream' : \E k \in DOMAIN stream : stream'[i] = stream[k],
           NEW c \in Client
    PROVE  WindowInv(c)' /\ OrderInv(c)' /\ WholeInv(c)'
<1> DEFINE t == Lives(r)
           out == [d \in Client |-> IF Queues(d) THEN <<>> ELSE t]
<1>1. /\ t \in Seq(Frame) /\ Plain(t) /\ InOrder(t) /\ \A n : HasLive(t, n) <=> n \in ToSet(r)
  BY LivesDrawn
<1>2. \A d \in Client : out[d] = IF d \in window THEN <<>> ELSE t BY DEF Queues
<1>3. \A d \in Client : out[d] \in Seq(Frame) BY <1>1, <1>2, EmptySeq
<1>4. Write(out) BY DEF FanOut
<1> HIDE DEF out, t
<1>5. /\ seen'[c] = IF c \in attached THEN seen[c] \o out[c] ELSE seen[c]
      /\ out[c] = <<>> => seen'[c] = seen[c]
  BY <1>3, <1>4, WriteIs DEF Inv
<1>6. queue'[c] = IF c \in attached /\ c \in window THEN queue[c] \o r ELSE queue[c]
  BY DEF FanOut, Queues
<1>7. /\ OrderInv(c) /\ WholeInv(c) /\ WindowInv(c) /\ queue[c] \in Seq(Int)
      /\ seen[c] \in Seq(Frame) /\ Rising(queue[c]) /\ ToSet(queue[c]) \subseteq Read
      /\ \A a, b \in Int : HasLive(seen[c], a) /\ b \in ToSet(queue[c]) => a < b
  BY DEF DrawInv, Inv, TypeInv, OrderInv, Ordered
<1>8. \A a \in ToSet(queue[c]) \cup ToSet(r) : a \in Int
  BY <1>7, LenProperties, ElementOfSeq DEF ToSet
<1>t. TypeInv BY DEF Inv
<1>m. \A n \in Missing(c)' : /\ n \in Missing(c) \/ n \in ToSet(r)
                             /\ n \notin ToSet(queue'[c]) /\ n \in Read'
  <2> SUFFICES ASSUME NEW n \in Missing(c)'
               PROVE  /\ n \in Missing(c) \/ n \in ToSet(r)
                      /\ n \notin ToSet(queue'[c]) /\ n \in Read'
    OBVIOUS
  <2>1. n \in Read' /\ n \notin lost /\ n \notin ToSet(queue'[c]) BY DEF Missing
  <2>2. n \notin ToSet(queue[c])
    <3>1. CASE queue'[c] = queue[c] BY <2>1, <3>1
    <3>2. CASE queue'[c] = queue[c] \o r
      <4>1. ToSet(queue[c] \o r) = ToSet(queue[c]) \cup ToSet(r) BY <1>7, RisingJoined
      <4> QED BY <2>1, <3>2, <4>1
    <3> QED BY <1>6, <3>1, <3>2
  <2> QED BY <2>1, <2>2 DEF Missing
<1>9. WindowInv(c)' BY <1>6, <1>7 DEF WindowInv
<1>10. CASE c \in window /\ c \in attached
  <2>1. queue'[c] = queue[c] \o r /\ seen'[c] = seen[c] BY <1>2, <1>5, <1>6, <1>10
  <2>2. /\ ToSet(queue'[c]) = ToSet(queue[c]) \cup ToSet(r)
        /\ Rising(queue'[c])
    <3>1. \A a \in ToSet(queue[c]), b \in ToSet(r) : a < b BY <1>8
    <3> QED BY <1>7, <2>1, <3>1, RisingJoined
  <2>3. OrderInv(c)'
    <3>1. \A a, b \in Int : HasLive(seen[c], a) /\ b \in ToSet(queue'[c]) => a < b
      BY <1>7, <2>2
    <3>2. ToSet(queue'[c]) \subseteq Read' BY <1>7, <2>2
    <3> QED BY <1>7, <1>t, <2>1, <2>2, <3>1, <3>2, NothingDrawn, OrderKeeps
  <2>4. Missing(c)' \subseteq Missing(c) BY <1>m, <2>2
  <2>5. WholeInv(c)' BY <1>7, <1>t, <2>1, <2>4, NothingDrawn, WholeKeeps
  <2> QED BY <1>9, <2>3, <2>5
<1>11. CASE c \notin window
  <2>1. /\ queue'[c] = queue[c] /\ ToSet(queue'[c]) = {}
        /\ seen'[c] = IF c \in attached THEN seen[c] \o t ELSE seen[c]
    BY <1>2, <1>5, <1>6, <1>7, <1>11, NothingDrawn DEF WindowInv
  <2>2. OrderInv(c)'
    <3>1. \A a, b \in Int : HasLive(seen[c], a) /\ HasLive(t, b) => a < b BY <1>1
    <3>2. \A a \in Int : HasLive(t, a) => a \in Read' BY <1>1
    <3> QED BY <1>1, <1>7, <1>t, <2>1, <3>1, <3>2, OrderKeeps
  <2>3. \A j \in Job : ~Capturing(job'[c][j])
    BY <1>11 DEF Inv, ClientInv, Capturing
  <2>4. \A i \in DOMAIN stream' : ~IsBody(stream'[i], c)
    BY <2>3, NoBody DEF Inv, TypeInv, AskInv
  <2>5. \A j \in Job : job'[c][j].at # "facts" BY <2>3 DEF Capturing
  <2>6. c \in attached => \A n \in Missing(c)' :
            n \in Missing(c) \/ (HasLive(t, n) /\ seen'[c] = seen[c] \o t)
    BY <1>1, <1>m, <2>1
  <2>7. WholeInv(c)' BY <1>1, <1>7, <1>t, <2>1, <2>4, <2>5, <2>6, WholeKeeps
  <2> QED BY <1>9, <2>2, <2>7
<1>12. CASE c \in window /\ c \notin attached
  <2>1. queue'[c] = queue[c] /\ seen'[c] = seen[c] BY <1>5, <1>6, <1>12
  <2>2. OrderInv(c)' BY <1>7, <1>t, <2>1, NothingDrawn, OrderKeeps
  <2>3. WholeInv(c)' BY <1>12 DEF WholeInv
  <2> QED BY <1>9, <2>2, <2>3
<1> QED BY <1>10, <1>11, <1>12

\* A hydration ends: what was queued is shown.
LEMMA EndsDraws ==
    ASSUME Inv, Inv', DrawInv, NEW c \in Client, NEW j \in Job, NEW found \in BOOLEAN,
           IsBusy(job[c][j]), Ends(c, j, found), UNCHANGED <<known, attached, lost, flush>>,
           Read' = Read, \A i \in DOMAIN stream' : \E k \in DOMAIN stream : stream'[i] = stream[k],
           NEW d \in Client
    PROVE  /\ WindowInv(d)' /\ OrderInv(d)' /\ WholeInv(d)'
           /\ queue[d] = <<>> => queue'[d] = <<>>
           /\ \A n : HasLive(seen'[d], n) => HasLive(seen[d], n) \/ n \in ToSet(queue[d])
<1> DEFINE l == Queued(c)
           e == <<Control("end")>>
           f == IF job[c][j].asked /\ ~found THEN <<Control("failed")>> ELSE <<>>
           t == (l \o e) \o f
<1>t. TypeInv BY DEF Inv
<1>w. \A x \in Client : /\ OrderInv(x) /\ WholeInv(x) /\ WindowInv(x) /\ queue[x] \in Seq(Int)
                        /\ Rising(queue[x]) /\ ToSet(queue[x]) \subseteq Read
                        /\ seen[x] \in Seq(Frame)
                        /\ \A a, b \in Int : HasLive(seen[x], a) /\ b \in ToSet(queue[x]) => a < b
  BY DEF DrawInv, Inv, TypeInv, OrderInv, Ordered
<1>1. l \in Seq(Frame) /\ Plain(l) /\ InOrder(l) /\ \A n : HasLive(l, n) <=> n \in ToSet(queue[c])
  <2>1. CASE c \in window BY <1>w, <2>1, LivesDrawn DEF Queued
  <2>2. CASE c \notin window BY <1>w, <2>2, NothingDrawn DEF Queued, WindowInv
  <2> QED BY <2>1, <2>2
<1>2. e \in Seq(Frame) /\ Plain(e) /\ InOrder(e) /\ \A n : ~HasLive(e, n) BY ControlDrawn
<1>3. f \in Seq(Frame) /\ Plain(f) /\ InOrder(f) /\ \A n : ~HasLive(f, n)
  BY ControlDrawn, NothingDrawn
<1>4. Append(Queued(c), Control("end")) = l \o e
  BY <1>1, AppendIsConcat DEF Control, Frame
<1>5. Write(Only(c, t)) BY <1>4 DEF Ends
<1> HIDE DEF l, e, f
<1>6. /\ l \o e \in Seq(Frame) /\ Plain(l \o e) /\ InOrder(l \o e)
      /\ \A n : HasLive(l \o e, n) <=> n \in ToSet(queue[c])
  BY <1>1, <1>2, Drawn
<1>7. t \in Seq(Frame) /\ Plain(t) /\ InOrder(t) /\ \A n : HasLive(t, n) <=> n \in ToSet(queue[c])
  <2> DEFINE g == l \o e
  <2>1. /\ g \in Seq(Frame) /\ Plain(g) /\ InOrder(g)
        /\ \A n : HasLive(g, n) <=> n \in ToSet(queue[c])
    BY <1>6
  <2>2. t = g \o f OBVIOUS
  <2> HIDE DEF g, t
  <2> QED BY <1>3, <2>1, <2>2, Drawn
<1> HIDE DEF t
<1>8. /\ seen'[c] = IF c \in attached THEN seen[c] \o t ELSE seen[c]
      /\ d # c => seen'[d] = seen[d]
  BY <1>5, <1>7, <1>t, OnlyIs, WriteIs
<1>9. /\ job'[c][j] = Done /\ \A i \in Job : i # j => job'[c][i] = job[c][i]
      /\ d # c => job'[d] = job[d]
  BY JobSet, DoneIs DEF Ends, Inv, TypeInv, Jobs
<1>10. queue'[c] = <<>> /\ (d # c => queue'[d] = queue[d]) /\ window' = window \ {c}
  BY DEF Ends, Inv, TypeInv
<1>11. CASE d # c
  <2>1. WindowInv(d)' BY <1>9, <1>10, <1>11, <1>w DEF WindowInv
  <2>2. OrderInv(d)' /\ WholeInv(d)'
    BY <1>8, <1>9, <1>10, <1>11, <1>t, <1>w, NothingDrawn, AsideDraws
  <2> QED BY <1>8, <1>10, <1>11, <2>1, <2>2
<1>12. CASE d = c
  <2>1. WindowInv(c)' BY <1>10 DEF WindowInv
  <2>2. OrderInv(c)'
    <3>1. Rising(queue'[c]) /\ ToSet(queue'[c]) = {} BY <1>10, NothingDrawn
    <3>2. \A a, b \in Int : HasLive(seen[c], a) /\ HasLive(t, b) => a < b BY <1>7, <1>w
    <3>3. \A a \in Int : HasLive(t, a) => a \in Read' BY <1>7, <1>w
    <3> QED BY <1>7, <1>8, <1>t, <1>w, <3>1, <3>2, <3>3, OrderKeeps
  <2>3. \A i \in Job : ~Capturing(job'[c][i])
    <3>1. ~Capturing(job'[c][j]) BY <1>9, DoneIs DEF Capturing
    <3>2. \A i \in Job : i # j => ~Capturing(job[c][i])
      BY DEF Inv, ClientInv, OneBusy, IsBusy, Capturing
    <3> QED BY <1>9, <3>1, <3>2
  <2>4. \A i \in DOMAIN stream' : ~IsBody(stream'[i], c)
    BY <2>3, NoBody DEF Inv, TypeInv, AskInv
  <2>5. \A i \in Job : job'[c][i].at # "facts" BY <2>3 DEF Capturing
  <2>6. c \in attached => \A n \in Missing(c)' :
            n \in Missing(c) \/ (HasLive(t, n) /\ seen'[c] = seen[c] \o t)
    <3>1. \A n \in Missing(c)' : n \in Missing(c) \/ n \in ToSet(queue[c]) BY DEF Missing
    <3> QED BY <1>7, <1>8, <3>1
  <2>7. WholeInv(c)' BY <1>7, <1>8, <1>t, <1>w, <2>4, <2>5, <2>6, WholeKeeps
  <2>8. \A n : HasLive(seen'[c], n) => HasLive(seen[c], n) \/ n \in ToSet(queue[c])
    BY <1>7, <1>8, <1>w, Drawn
  <2> QED BY <1>10, <1>12, <2>1, <2>2, <2>7, <2>8
<1> QED BY <1>11, <1>12

-----------------------------------------------------------------------------
(* Every action keeps the screens *)

\* The chunks parsed next are newer than all there are.
LEMMA NewestIs ==
    ASSUME Inv, DrawInv, NEW n \in Int, \A r \in Read : r < n, NEW c \in Client, NEW a \in Int
    PROVE  HasLive(seen[c], a) \/ a \in ToSet(queue[c]) => a < n
BY DEF DrawInv, OrderInv

\* What is staged is appended to, or left.
LEMMA AppendDraws ==
    ASSUME Inv, Inv', DrawInv, flush = <<>>, AppendKnown \/ AppendGated \/ AppendUnknown
    PROVE  DrawInv'
<1> DEFINE h == Head(stream).n
<1>1. /\ stream # <<>> /\ Out(Head(stream)) /\ stream' = Tail(stream)
      /\ UNCHANGED <<alive, written, cmds, known, flush, attached, window, job>>
  BY DEF AppendKnown, AppendGated, AppendUnknown, ParsesOutput, demuxVars, Out
<1>2. /\ StreamInv' /\ Read' = Read \cup {h} /\ h \in Int /\ \A r \in Read : r < h
      /\ \A i \in DOMAIN stream' : \E k \in DOMAIN stream : stream'[i] = stream[k]
  BY <1>1, TokenRead DEF DrawInv, Inv
<1> HIDE DEF h
<1>s. /\ StageInv /\ staged \in Seq(Int) /\ Rising(staged) /\ ToSet(staged) \subseteq Read
  BY DEF DrawInv, StageInv, Inv, TypeInv
<1>f. ToSet(flush') = {} /\ Rising(flush') BY <1>1, NothingDrawn
<1>t. TypeInv BY DEF Inv
<1>3. CASE AppendKnown
  <2> DEFINE r == <<h>>
  <2>1. known = "yes" /\ staged' = staged /\ lost' = lost BY <1>3 DEF AppendKnown
  <2>2. FanOut(r) BY <1>3 DEF AppendKnown, h
  <2>3. r \in Seq(Int) /\ Rising(r) /\ ToSet(r) = {h} BY <1>2 DEF Rising, ToSet
  <2> HIDE DEF r
  <2>4. \A c \in Client : \A a \in Int, b \in ToSet(r) :
            HasLive(seen[c], a) \/ a \in ToSet(queue[c]) => a < b
    BY <1>2, <2>3, NewestIs
  <2>5. ASSUME NEW c \in Client PROVE WindowInv(c)' /\ OrderInv(c)' /\ WholeInv(c)'
    BY <1>1, <1>2, <1>f, <2>1, <2>2, <2>3, <2>4, FanOutDraws
  <2>6. StageInv' BY <1>1, <1>2, <1>f, <1>s, <2>1 DEF StageInv
  <2> QED BY <1>2, <2>5, <2>6 DEF DrawInv
<1>4. CASE AppendGated \/ AppendUnknown
  <2>1. UNCHANGED <<seen, queue>> BY <1>4 DEF AppendGated, AppendUnknown, demuxVars
  <2>2. AppendGated => lost' = lost \cup {h} /\ staged' = staged /\ known = "yes"
    BY DEF AppendGated, demuxVars, h
  <2>3. AppendUnknown => /\ known # "yes"
                         /\ \/ staged' = Append(staged, h) /\ lost' = lost
                            \/ lost' = lost \cup {h} /\ staged' = staged
    BY DEF AppendUnknown, h
  <2>4. /\ Append(staged, h) \in Seq(Int) /\ Rising(Append(staged, h))
        /\ ToSet(Append(staged, h)) = ToSet(staged) \cup {h}
    <3> DEFINE r == <<h>>
    <3>1. Append(staged, h) = staged \o r BY <1>2, <1>s, AppendIsConcat
    <3>2. r \in Seq(Int) /\ Rising(r) /\ ToSet(r) = {h} BY <1>2 DEF Rising, ToSet
    <3> HIDE DEF r
    <3>3. \A a \in ToSet(staged), b \in ToSet(r) : a < b BY <1>2, <1>s, <3>2
    <3>4. /\ staged \o r \in Seq(Int) /\ Rising(staged \o r)
          /\ ToSet(staged \o r) = ToSet(staged) \cup ToSet(r)
      BY <1>s, <3>2, <3>3, RisingJoined
    <3> QED BY <3>1, <3>2, <3>4
  <2>5. StageInv'
    <3>1. Rising(staged') /\ ToSet(staged') \subseteq Read'
      BY <1>2, <1>4, <1>s, <2>2, <2>3, <2>4
    <3>2. known' = "no" => Read' \subseteq ToSet(staged') \cup lost'
      <4> SUFFICES ASSUME known' = "no" PROVE Read' \subseteq ToSet(staged') \cup lost' OBVIOUS
      <4>1. Read \subseteq ToSet(staged) \cup lost BY <1>1, <1>s DEF StageInv
      <4>2. CASE staged' = Append(staged, h) /\ lost' = lost BY <1>2, <2>4, <4>1, <4>2
      <4>3. CASE lost' = lost \cup {h} /\ staged' = staged BY <1>2, <4>1, <4>3
      <4> QED BY <1>4, <2>2, <2>3, <4>2, <4>3
    <3>3. known' = "no" \/ flush' # <<>> => known = "no" \/ flush # <<>> BY <1>1
    <3>4. known' = "no" \/ flush' # <<>> =>
              \A c \in Client : queue'[c] = <<>> /\ \A n \in Int : ~HasLive(seen'[c], n)
      BY <1>s, <2>1, <3>3 DEF StageInv
    <3> QED BY <1>1, <1>f, <1>s, <3>1, <3>2, <3>4 DEF StageInv
  <2>6. ASSUME NEW c \in Client PROVE WindowInv(c)' /\ OrderInv(c)' /\ WholeInv(c)'
    <3>1. WindowInv(c) /\ OrderInv(c) /\ WholeInv(c) BY DEF DrawInv
    <3>2. WindowInv(c)' BY <1>1, <2>1, <3>1 DEF WindowInv
    <3>3. OrderInv(c)' BY <1>2, <2>1, <3>1 DEF OrderInv
    <3>4. CASE AppendGated
      <4>1. Missing(c)' \subseteq Missing(c) BY <1>1, <1>2, <2>1, <2>2, <3>4 DEF Missing
      <4>2. Read \subseteq Read' BY <1>2
      <4>3. OrderInv(c)' /\ WholeInv(c)'
        BY <1>1, <1>2, <1>t, <2>1, <3>1, <4>1, <4>2, NothingDrawn, ToldDraws
      <4> QED BY <3>2, <4>3
    <3>5. CASE AppendUnknown
      <4>1. WholeInv(c)' BY <1>1, <2>3, <3>5 DEF WholeInv
      <4> QED BY <3>2, <3>3, <4>1
    <3> QED BY <1>4, <3>4, <3>5
  <2> QED BY <1>2, <2>5, <2>6 DEF DrawInv
<1> QED BY <1>3, <1>4

LEMMA FlushDraws == ASSUME Inv, Inv', DrawInv, FlushStaged PROVE DrawInv'
<1>1. /\ flush # <<>> /\ flush' = <<>> /\ flush \in Seq(Int) /\ known = "yes"
      /\ UNCHANGED <<alive, written, cmds, stream, known, staged, attached, window, job>>
  BY DEF FlushStaged, tmuxVars, Inv, TypeInv, DrawInv, StageInv
<1>2. Read' = Read BY <1>1 DEF Read
<1>3. StreamInv' BY <1>1, <1>2 DEF StreamInv, DrawInv
<1>s. /\ StageInv /\ Rising(flush) /\ ToSet(flush) \subseteq Read
      /\ \A c \in Client : queue[c] = <<>> /\ \A n \in Int : ~HasLive(seen[c], n)
  BY <1>1 DEF DrawInv, StageInv
<1>4. StageInv' BY <1>1, <1>2, <1>s, NothingDrawn DEF StageInv
<1>5. \A i \in DOMAIN stream' : \E k \in DOMAIN stream : stream'[i] = stream[k] BY <1>1
<1>t. TypeInv BY DEF Inv
<1>6. CASE FanOut(flush) /\ lost' = lost
  <2>1. \A c \in Client : \A a \in Int, b \in ToSet(flush) :
            HasLive(seen[c], a) \/ a \in ToSet(queue[c]) => a < b
    BY <1>s, NothingDrawn
  <2>2. ASSUME NEW c \in Client PROVE WindowInv(c)' /\ OrderInv(c)' /\ WholeInv(c)'
    BY <1>1, <1>2, <1>5, <1>6, <1>s, <2>1, FanOutDraws
  <2> QED BY <1>3, <1>4, <2>2 DEF DrawInv
<1>7. CASE lost' = lost \cup ToSet(flush) /\ UNCHANGED <<queue, seen>>
  <2>1. ASSUME NEW c \in Client PROVE WindowInv(c)' /\ OrderInv(c)' /\ WholeInv(c)'
    <3>1. WindowInv(c) /\ OrderInv(c) /\ WholeInv(c) BY DEF DrawInv
    <3>2. Missing(c)' \subseteq Missing(c) BY <1>1, <1>2, <1>7 DEF Missing
    <3>3. OrderInv(c)' /\ WholeInv(c)'
      BY <1>1, <1>2, <1>5, <1>7, <1>t, <3>1, <3>2, NothingDrawn, ToldDraws
    <3> QED BY <1>1, <1>7, <3>1, <3>3 DEF WindowInv
  <2> QED BY <1>3, <1>4, <2>1 DEF DrawInv
<1> QED BY <1>6, <1>7 DEF FlushStaged

\* All that was read is staged, or was lost: it is the flush.
LEMMA PaneBoundDraws == ASSUME Inv, Inv', DrawInv, flush = <<>>, PaneBound PROVE DrawInv'
<1> DEFINE t == <<Control("opened")>>
           out == [c \in Client |-> t]
<1>1. t \in Seq(Frame) /\ Plain(t) /\ InOrder(t) /\ \A n : ~HasLive(t, n) BY ControlDrawn
<1>2. Write(out) BY DEF PaneBound, FlushLater
<1> HIDE DEF t
<1>3. \A c \in Client : out[c] \in Seq(Frame) /\ out[c] = t BY <1>1
<1> HIDE DEF out
<1>4. \A c \in Client : seen'[c] = IF c \in attached THEN seen[c] \o t ELSE seen[c]
  BY <1>2, <1>3, WriteIs DEF Inv
<1>5. /\ known = "no" /\ known' = "yes" /\ flush' = staged /\ staged' = <<>>
      /\ UNCHANGED <<alive, written, cmds, stream, attached, window, queue, job, lost>>
  BY DEF PaneBound, FlushLater, tmuxVars
<1>6. Read' = Read BY <1>5 DEF Read
<1>7. StreamInv' BY <1>5, <1>6 DEF StreamInv, DrawInv
<1>s. /\ StageInv /\ Rising(staged) /\ ToSet(staged) \subseteq Read
      /\ Read \subseteq ToSet(staged) \cup lost
      /\ \A c \in Client : queue[c] = <<>> /\ \A n \in Int : ~HasLive(seen[c], n)
  BY <1>5 DEF DrawInv, StageInv
<1>8. \A c \in Client : \A n \in Int : ~HasLive(seen'[c], n)
  <2> SUFFICES ASSUME NEW c \in Client PROVE \A n \in Int : ~HasLive(seen'[c], n) OBVIOUS
  <2>1. seen[c] \in Seq(Frame) BY DEF Inv, TypeInv
  <2>2. \A n \in Int : ~HasLive(seen[c] \o t, n) BY <1>1, <1>s, <2>1, Drawn
  <2> QED BY <1>4, <1>s, <2>2
<1>9. StageInv' BY <1>5, <1>6, <1>8, <1>s, NothingDrawn DEF StageInv
<1>10. ASSUME NEW c \in Client PROVE WindowInv(c)' /\ OrderInv(c)' /\ WholeInv(c)'
  <2>1. WindowInv(c) /\ OrderInv(c) /\ TypeInv BY DEF DrawInv, Inv
  <2>2. WindowInv(c)' BY <1>5, <2>1 DEF WindowInv
  <2>3. OrderInv(c)'
    <3>1. ToSet(queue'[c]) = {} /\ Rising(queue'[c]) BY <1>5, <1>s, NothingDrawn
    <3> QED BY <1>1, <1>4, <1>6, <2>1, <3>1, OrderKeeps
  <2>4. Missing(c)' = {} BY <1>5, <1>6, <1>s DEF Missing
  <2>5. WholeInv(c)' BY <2>4 DEF WholeInv
  <2> QED BY <2>2, <2>3, <2>5
<1> QED BY <1>7, <1>9, <1>10 DEF DrawInv

LEMMA PaneClosedDraws == ASSUME Inv, Inv', DrawInv, flush = <<>>, PaneClosed PROVE DrawInv'
<1> DEFINE t == <<Control("closed")>>
           out == [c \in Client |-> t]
<1>1. t \in Seq(Frame) /\ Plain(t) /\ InOrder(t) /\ \A n : ~HasLive(t, n) BY ControlDrawn
<1>2. Write(out) BY DEF PaneClosed
<1> HIDE DEF t
<1>3. \A c \in Client : out[c] \in Seq(Frame) /\ out[c] = t BY <1>1
<1> HIDE DEF out
<1>4. \A c \in Client : seen'[c] = IF c \in attached THEN seen[c] \o t ELSE seen[c]
  BY <1>2, <1>3, WriteIs DEF Inv
<1>5. /\ known' = "closed" /\ staged' = <<>> /\ queue' = [c \in Client |-> <<>>] /\ window' = {}
      /\ UNCHANGED <<alive, written, cmds, stream, flush, attached, job>>
  BY DEF PaneClosed, tmuxVars
<1>6. Read' = Read BY <1>5 DEF Read
<1>7. StreamInv' BY <1>5, <1>6 DEF StreamInv, DrawInv
<1>8. StageInv' BY <1>5, NothingDrawn DEF StageInv
<1>9. ASSUME NEW c \in Client PROVE WindowInv(c)' /\ OrderInv(c)' /\ WholeInv(c)'
  <2>1. OrderInv(c) /\ TypeInv BY DEF DrawInv, Inv
  <2>2. WindowInv(c)' BY <1>5 DEF WindowInv
  <2>3. OrderInv(c)'
    <3>1. ToSet(queue'[c]) = {} /\ Rising(queue'[c]) BY <1>5, NothingDrawn
    <3> QED BY <1>1, <1>4, <1>6, <2>1, <3>1, OrderKeeps
  <2>4. WholeInv(c)' BY <1>5 DEF WholeInv
  <2> QED BY <2>2, <2>3, <2>4
<1> QED BY <1>7, <1>8, <1>9 DEF DrawInv

\* Of the demux and the streams nothing moves but what is said here.
LEMMA StillDraws ==
    ASSUME Inv, DrawInv, Read' = Read, StreamInv',
           UNCHANGED <<known, staged, flush, lost, queue>>,
           NEW t \in Seq(Frame), Plain(t), InOrder(t), \A n : ~HasLive(t, n),
           \A c \in Client : seen'[c] = seen[c] \/ seen'[c] = seen[c] \o t,
           \A c \in Client : WindowInv(c)',
           \A c \in Client : c \in attached' => c \in attached,
           \A c \in Client, j \in Job : job'[c][j].at = "facts" =>
               \/ job'[c][j] = job[c][j]
               \/ known = "yes" /\ c \in attached => \A n \in Missing(c) : n <= job'[c][j].body,
           \A i \in DOMAIN stream' : \/ \E k \in DOMAIN stream : stream'[i] = stream[k]
                                     \/ \A n \in Read : IsReply(stream'[i]) => n <= stream'[i].n
    PROVE  DrawInv'
<1>1. StageInv'
  <2>1. StageInv BY DEF DrawInv
  <2>2. ASSUME known' = "no" \/ flush' # <<>>, NEW c \in Client, NEW n \in Int
        PROVE  queue'[c] = <<>> /\ ~HasLive(seen'[c], n)
    <3>1. seen[c] \in Seq(Frame) /\ queue[c] = <<>> /\ ~HasLive(seen[c], n)
      BY <2>1, <2>2 DEF StageInv, Inv, TypeInv
    <3>2. ~HasLive(seen[c] \o t, n) BY <3>1, Drawn
    <3> QED BY <3>1, <3>2
  <2> QED BY <2>1, <2>2 DEF StageInv
<1>2. ASSUME NEW c \in Client PROVE WindowInv(c)' /\ OrderInv(c)' /\ WholeInv(c)'
  <2>1. OrderInv(c) /\ WholeInv(c) /\ TypeInv BY DEF DrawInv, Inv
  <2>2. Missing(c)' = Missing(c) /\ Missing(c) \subseteq Read BY DEF Missing
  <2>3. \A i \in DOMAIN stream' : IsBody(stream'[i], c) =>
            \/ \E k \in DOMAIN stream : stream'[i] = stream[k]
            \/ \A n \in Missing(c) : n <= stream'[i].n
    BY <2>2 DEF IsBody
  <2>4. OrderInv(c)' /\ WholeInv(c)' BY <2>1, <2>2, <2>3, ToldDraws
  <2> QED BY <2>4
<1> QED BY <1>1, <1>2 DEF DrawInv

\* The queue of a window that closes was empty if the pane is not bound, or only just.
LEMMA EndedStage ==
    ASSUME DrawInv, UNCHANGED <<known, staged, flush, lost>>, Read' = Read,
           \A d \in Client : /\ queue[d] = <<>> => queue'[d] = <<>>
                             /\ \A n : HasLive(seen'[d], n) =>
                                   HasLive(seen[d], n) \/ n \in ToSet(queue[d])
    PROVE  StageInv'
<1>1. StageInv BY DEF DrawInv
<1>2. ASSUME known' = "no" \/ flush' # <<>>, NEW d \in Client, NEW n \in Int
      PROVE  queue'[d] = <<>> /\ ~HasLive(seen'[d], n)
  <2>1. queue[d] = <<>> /\ ~HasLive(seen[d], n) BY <1>1, <1>2 DEF StageInv
  <2>2. ToSet(queue[d]) = {} BY <2>1, NothingDrawn
  <2> QED BY <2>1, <2>2
<1> QED BY <1>1, <1>2 DEF StageInv

\* A hydration begins: live bytes are queued from now on.
LEMMA BeginsDraws ==
    ASSUME Inv, DrawInv, NEW c \in Client, NEW j \in Job, NEW asked \in BOOLEAN,
           Begins(c, j, asked), Write(Only(c, <<Control("begin")>>)),
           UNCHANGED <<known, staged, flush, lost, queue, attached>>, Read' = Read, StreamInv',
           \A i \in DOMAIN stream' : \E k \in DOMAIN stream : stream'[i] = stream[k]
    PROVE  DrawInv'
<1> DEFINE t == <<Control("begin")>>
<1>1. t \in Seq(Frame) /\ Plain(t) /\ InOrder(t) /\ \A n : ~HasLive(t, n) BY ControlDrawn
<1>2. Write(Only(c, t)) OBVIOUS
<1> HIDE DEF t
<1>3. \A d \in Client : seen'[d] = seen[d] \/ seen'[d] = seen[d] \o t
  <2>1. /\ seen'[c] = IF c \in attached THEN seen[c] \o t ELSE seen[c]
        /\ \A d \in Client : d # c => seen'[d] = seen[d]
    BY <1>1, <1>2, OnlyIs, WriteIs DEF Inv
  <2> QED BY <2>1
<1> DEFINE s == [at |-> "capture", asked |-> asked, body |-> 0]
<1>4. s \in Stage /\ s.at = "capture" /\ job' = [job EXCEPT ![c][j] = s] /\ window' = window \cup {c}
  BY DEF Stage, Verb, Begins
<1> HIDE DEF s
<1>5. /\ job' \in Jobs /\ job'[c][j] = s /\ \A i \in Job : i # j => job'[c][i] = job[c][i]
      /\ \A d \in Client : d # c => job'[d] = job[d]
  BY <1>4, JobSet DEF Inv, TypeInv, Jobs
<1>6. \A d \in Client : WindowInv(d)'
  <2> SUFFICES ASSUME NEW d \in Client PROVE WindowInv(d)' OBVIOUS
  <2>1. WindowInv(d) BY DEF DrawInv
  <2> QED BY <1>4, <1>5, <2>1 DEF WindowInv
<1>7. \A d \in Client, i \in Job : job'[d][i].at = "facts" => job'[d][i] = job[d][i]
  BY <1>4, <1>5
<1> QED BY <1>1, <1>3, <1>6, <1>7, StillDraws

LEMMA ReportRepliedDraws == ASSUME Inv, DrawInv, ReportReplied PROVE DrawInv'
<1> DEFINE r == Head(stream)
<1>1. /\ Replies("report") /\ Begins(r.c, r.j, TRUE) /\ Write(Only(r.c, <<Control("begin")>>))
      /\ stream' = Tail(stream) /\ stream # <<>> /\ ~Out(r)
      /\ UNCHANGED <<written, known, staged, flush, attached, queue, lost>>
  BY DEF ReportReplied, Replies, Out
<1>2. r.c \in Client /\ r.j \in Job BY <1>1, ReplyIs DEF Verb
<1>3. /\ StreamInv' /\ Read' = Read
      /\ \A i \in DOMAIN stream' : \E k \in DOMAIN stream : stream'[i] = stream[k]
  BY <1>1, TokenRead DEF DrawInv, Inv
<1> HIDE DEF r
<1> QED BY <1>1, <1>2, <1>3, BeginsDraws

\* Two fields of a stage set at once.
SetsTwo(g, f, c, j, x, y) == g = [f EXCEPT ![c][j].at = x, ![c][j].body = y]
SetsOne(g, f, c, j, x) == g = [f EXCEPT ![c][j] = x]
LEMMA TwoFields ==
    ASSUME NEW C, NEW J, NEW S, NEW f \in [C -> [J -> S]], NEW c \in C, NEW j \in J,
           NEW x, NEW y, NEW s, s = [f[c][j] EXCEPT !.at = x, !.body = y],
           NEW g, SetsTwo(g, f, c, j, x, y)
    PROVE  SetsOne(g, f, c, j, s)
<1> DEFINE a == [f[c][j] EXCEPT !.at = x]
           F == [f[c] EXCEPT ![j] = a]
           h == [f EXCEPT ![c] = F]
           b == [a EXCEPT !.body = y]
<1>1. h[c] = F /\ F[j] = a OBVIOUS
<1>2. h[c][j] = a BY <1>1
<1>3. s = b OBVIOUS
<1>4. g = [h EXCEPT ![c] = [h[c] EXCEPT ![j] = [h[c][j] EXCEPT !.body = y]]]
  BY DEF SetsTwo
<1>5. g = [h EXCEPT ![c] = [F EXCEPT ![j] = b]]
  <2> HIDE DEF h, F, a
  <2> QED BY <1>1, <1>2, <1>4
<1>6. [F EXCEPT ![j] = b] = [f[c] EXCEPT ![j] = b]
  <2> HIDE DEF b, a
  <2> QED OBVIOUS
<1> DEFINE G == [f[c] EXCEPT ![j] = b]
<1>7. g = [h EXCEPT ![c] = G] BY <1>5, <1>6
<1>8. [h EXCEPT ![c] = G] = [f EXCEPT ![c] = G]
  <2> HIDE DEF G, F
  <2> QED OBVIOUS
<1> QED BY <1>3, <1>7, <1>8 DEF SetsOne

\* The capture shows all that was read when tmux answered; what was read since is queued.
LEMMA CaptureRepliedDraws == ASSUME Inv, Inv', DrawInv, flush = <<>>, CaptureReplied PROVE DrawInv'
<1> DEFINE r == Head(stream)
           s == [job[r.c][r.j] EXCEPT !.at = "facts", !.body = r.n]
<1>1. /\ Replies("capture") /\ stream' = Tail(stream) /\ stream # <<>> /\ ~Out(r)
      /\ r.kind = "reply" /\ r.verb = "capture"
      /\ UNCHANGED <<alive, written, known, staged, flush, attached, lost>>
  BY DEF CaptureReplied, Replies, Out
<1>2. /\ r.c \in Client /\ r.j \in Job /\ r.n \in Int /\ r.ok \in BOOLEAN
      /\ job[r.c][r.j].at = "capture" /\ IsBusy(job[r.c][r.j])
  BY <1>1, ReplyIs DEF Verb
<1>3. /\ StreamInv' /\ Read' = Read
      /\ \A i \in DOMAIN stream' : \E k \in DOMAIN stream : stream'[i] = stream[k]
  BY <1>1, TokenRead DEF DrawInv, Inv
<1>4. CASE r.ok
  <2>1. /\ job' = [job EXCEPT ![r.c][r.j].at = "facts", ![r.c][r.j].body = r.n]
        /\ UNCHANGED <<window, queue, seen>>
    BY <1>4 DEF CaptureReplied
  <2>b. known = "yes" /\ r.c \in attached => \A n \in Missing(r.c) : n <= r.n
    <3> SUFFICES ASSUME known = "yes", r.c \in attached PROVE \A n \in Missing(r.c) : n <= r.n
      OBVIOUS
    <3>1. 1 \in DOMAIN stream /\ stream[1] = r
      BY <1>1, HeadTailProperties, LenProperties, EmptySeq DEF Inv, TypeInv
    <3>2. IsBody(r, r.c) BY <1>1, <1>4 DEF IsBody, IsReply
    <3>3. WholeInv(r.c) BY <1>2 DEF DrawInv
    <3> HIDE DEF r
    <3> QED BY <3>1, <3>2, <3>3 DEF WholeInv
  <2> HIDE DEF r
  <2>s. job[r.c][r.j] \in Stage BY <1>2 DEF Inv, TypeInv
  <2>2. s \in Stage /\ s.at = "facts" /\ s.body = r.n
    <3>1. s \in Stage /\ s.at = "facts" BY <1>2, <2>s DEF Stage, Verb
    <3>2. s.body = r.n BY <2>s DEF Stage
    <3> QED BY <3>1, <3>2
  <2>3. job' = [job EXCEPT ![r.c][r.j] = s]
    <3>1. job \in [Client -> [Job -> Stage]] BY DEF Inv, TypeInv
    <3>2. s = [job[r.c][r.j] EXCEPT !.at = "facts", !.body = r.n] OBVIOUS
    <3>3. SetsTwo(job', job, r.c, r.j, "facts", r.n) BY <2>1 DEF SetsTwo
    <3> HIDE DEF r, s
    <3>4. SetsOne(job', job, r.c, r.j, s) BY <1>2, <3>1, <3>2, <3>3, TwoFields
    <3> QED BY <3>4 DEF SetsOne
  <2> HIDE DEF s
  <2>5. /\ job' \in Jobs /\ job'[r.c][r.j] = s
        /\ \A i \in Job : i # r.j => job'[r.c][i] = job[r.c][i]
        /\ \A d \in Client : d # r.c => job'[d] = job[d]
    BY <1>2, <2>2, <2>3, JobSet, SMTT(30) DEF Inv, TypeInv, Jobs
  <2>6. \A d \in Client : WindowInv(d)'
    <3> SUFFICES ASSUME NEW d \in Client PROVE WindowInv(d)' OBVIOUS
    <3>1. WindowInv(d) BY DEF DrawInv
    <3>2. CASE d = r.c
      <4>1. job'[d][r.j].at = "facts" /\ r.j \in Job BY <1>2, <2>2, <2>5, <3>2
      <4> QED BY <2>1, <3>1, <4>1 DEF WindowInv
    <3>3. CASE d # r.c BY <2>1, <2>5, <3>1, <3>3 DEF WindowInv
    <3> QED BY <3>2, <3>3
  <2>7. \A d \in Client, i \in Job : job'[d][i].at = "facts" =>
            \/ job'[d][i] = job[d][i]
            \/ known = "yes" /\ d \in attached => \A n \in Missing(d) : n <= job'[d][i].body
    BY <2>2, <2>5, <2>b
  <2> QED BY <1>1, <1>3, <2>1, <2>6, <2>7, NothingDrawn, StillDraws
<1>5. CASE ~r.ok
  <2>1. Ends(r.c, r.j, FALSE) BY <1>5 DEF CaptureReplied, Refused
  <2> HIDE DEF r
  <2>2. \A d \in Client :
            /\ WindowInv(d)' /\ OrderInv(d)' /\ WholeInv(d)'
            /\ queue[d] = <<>> => queue'[d] = <<>>
            /\ \A n : HasLive(seen'[d], n) => HasLive(seen[d], n) \/ n \in ToSet(queue[d])
    BY <1>1, <1>2, <1>3, <2>1, EndsDraws
  <2>3. StageInv' BY <1>1, <1>3, <2>2, EndedStage
  <2> QED BY <1>3, <2>2, <2>3 DEF DrawInv
<1> QED BY <1>2, <1>4, <1>5

\* The replay shows what the capture did, so nothing is missing that is not queued.
LEMMA FactsRepliedDraws == ASSUME Inv, Inv', DrawInv, FactsReplied PROVE DrawInv'
<1> DEFINE r == Head(stream)
           b == job[r.c][r.j].body
           f == <<Replay(job[r.c][r.j].body)>>
           s == [job[r.c][r.j] EXCEPT !.at = "sent"]
<1>1. /\ Replies("facts") /\ stream' = Tail(stream) /\ stream # <<>> /\ ~Out(r)
      /\ job' = [job EXCEPT ![r.c][r.j].at = "sent"] /\ Write(Only(r.c, f))
      /\ UNCHANGED <<written, known, staged, flush, attached, window, queue, lost>>
  BY DEF FactsReplied, demuxVars, Replies, Out
<1>2. /\ r.c \in Client /\ r.j \in Job /\ job[r.c][r.j].at = "facts"
      /\ \A i \in Job : IsBusy(job[r.c][i]) => i = r.j
  BY <1>1, ReplyIs DEF Verb
<1>3. /\ StreamInv' /\ Read' = Read
      /\ \A i \in DOMAIN stream' : \E k \in DOMAIN stream : stream'[i] = stream[k]
  BY <1>1, TokenRead DEF DrawInv, Inv
<1> HIDE DEF r
<1>4. s \in Stage /\ s.at = "sent" /\ b \in Int
  <2>1. job[r.c][r.j] \in Stage BY <1>2 DEF Inv, TypeInv
  <2>2. b \in Int BY <2>1 DEF Stage
  <2> QED BY <2>1, <2>2, StageSet
<1>5. job' = [job EXCEPT ![r.c][r.j] = s] BY <1>1, <1>2 DEF Inv, TypeInv, Stage
<1> HIDE DEF s
<1>6. /\ job' \in Jobs /\ job'[r.c][r.j] = s
      /\ \A i \in Job : i # r.j => job'[r.c][i] = job[r.c][i]
      /\ \A d \in Client : d # r.c => job'[d] = job[d]
  BY <1>2, <1>4, <1>5, JobSet DEF Inv, TypeInv, Jobs
<1>c. PICK c \in Client : c = r.c BY <1>2
<1>7. f \in Seq(Frame) BY <1>4 DEF Replay, Frame
<1>7f. f = <<Replay(b)>> OBVIOUS
<1> HIDE DEF f, b
<1>8. /\ seen'[c] = IF c \in attached THEN seen[c] \o f ELSE seen[c]
      /\ \A d \in Client : d # c => seen'[d] = seen[d]
  BY <1>1, <1>c, <1>7, OnlyIs, WriteIs DEF Inv
<1>9. /\ \A d \in Client : OrderInv(d) /\ WholeInv(d) /\ WindowInv(d)
      /\ TypeInv /\ StageInv /\ \A d \in Client : seen[d] \in Seq(Frame)
  BY DEF DrawInv, Inv, TypeInv
<1> DEFINE u == seen[c] \o f
<1>r. /\ 1..b \subseteq Screen(u) /\ \A n : HasLive(u, n) => HasLive(seen[c], n)
      /\ InOrder(seen[c]) => InOrder(u)
  <2>1. seen[c] \in Seq(Frame) /\ u = seen[c] \o <<Replay(b)>> BY <1>7f, <1>9
  <2> HIDE DEF u
  <2>2. PICK y \in Int : y = b BY <1>4
  <2>3. u = seen[c] \o <<Replay(y)>> BY <2>1, <2>2
  <2>4. 1..y \subseteq Screen(u) BY <2>1, <2>3, Redrawn
  <2>5. \A n : HasLive(u, n) => HasLive(seen[c], n) BY <2>1, <2>3, Redrawn
  <2>6. InOrder(seen[c]) => InOrder(u) BY <2>1, <2>3, Redrawn
  <2> QED BY <2>2, <2>4, <2>5, <2>6
<1>10. \A d \in Client : /\ \A n \in Int : HasLive(seen'[d], n) => HasLive(seen[d], n)
                         /\ InOrder(seen[d]) => InOrder(seen'[d])
  BY <1>8, <1>r
<1>11. StageInv' BY <1>1, <1>3, <1>9, <1>10 DEF StageInv
<1>12. \A d \in Client : Missing(d)' = Missing(d) BY <1>1, <1>3 DEF Missing
<1>13. ASSUME NEW d \in Client PROVE WindowInv(d)' /\ OrderInv(d)' /\ WholeInv(d)'
  <2>1. WindowInv(d)'
    <3>1. CASE d = r.c
      <4>1. job'[d][r.j].at = "sent" /\ r.j \in Job BY <1>2, <1>4, <1>6, <3>1
      <4> QED BY <1>1, <1>9, <4>1 DEF WindowInv
    <3>2. CASE d # r.c BY <1>1, <1>6, <1>9, <3>2 DEF WindowInv
    <3> QED BY <3>1, <3>2
  <2>2. OrderInv(d)'
    <3>1. OrderInv(d) BY <1>9
    <3> QED BY <1>1, <1>3, <1>10, <3>1 DEF OrderInv, Ordered
  <2>3. WholeInv(d)'
    <3>1. CASE d # c
      <4>1. \A j \in Job : job'[d][j].at = "facts" => job'[d][j] = job[d][j] BY <1>6, <1>c, <3>1
      <4> QED BY <1>1, <1>3, <1>8, <1>9, <3>1, <4>1, NothingDrawn, AsideDraws
    <3>2. CASE d = c
      <4> SUFFICES ASSUME known = "yes", c \in attached PROVE WholeInv(c)'
        BY <1>1, <3>2 DEF WholeInv
      <4>1. \A n \in Missing(c) : n <= b BY <1>2, <1>c, <1>9 DEF WholeInv, b
      <4>2. \A n \in Missing(c) : n \in 1..b
        <5> SUFFICES ASSUME NEW n \in Missing(c) PROVE n \in 1..b OBVIOUS
        <5>1. n \in 1..written BY ReadIs DEF Missing
        <5>2. n \in Int /\ 1 <= n BY <5>1
        <5> QED BY <1>4, <4>1, <5>2 DEF b
      <4>3. Missing(c)' \subseteq Screen(seen'[c]) BY <1>8, <1>12, <1>r, <4>2
      <4>4. \A j \in Job : ~Capturing(job'[c][j])
        <5> SUFFICES ASSUME NEW j \in Job, Capturing(job'[c][j]) PROVE FALSE OBVIOUS
        <5>1. j # r.j BY <1>4, <1>6, <1>c DEF Capturing
        <5>2. job'[c][j] = job[c][j] BY <1>6, <1>c, <5>1
        <5> QED BY <1>2, <1>c, <5>1, <5>2 DEF Capturing, IsBusy
      <4>5. \A i \in DOMAIN stream' : ~IsBody(stream'[i], c)
        BY <4>4, NoBody DEF Inv, TypeInv, AskInv
      <4>6. \A j \in Job : job'[c][j].at # "facts" BY <4>4 DEF Capturing
      <4> QED BY <4>3, <4>5, <4>6 DEF WholeInv
    <3> QED BY <3>1, <3>2
  <2> QED BY <2>1, <2>2, <2>3
<1> QED BY <1>3, <1>11, <1>13 DEF DrawInv

LEMMA ReplySentDraws ==
    ASSUME Inv, Inv', DrawInv, flush = <<>>, NEW c \in Client, NEW j \in Job, ReplaySent(c, j)
    PROVE  DrawInv'
<1>1. /\ job[c][j].at = "sent" /\ Ends(c, j, TRUE)
      /\ UNCHANGED <<alive, written, cmds, stream, known, staged, flush, attached, lost>>
  BY DEF ReplaySent, tmuxVars
<1>2. IsBusy(job[c][j]) BY <1>1 DEF IsBusy
<1>3. Read' = Read BY <1>1 DEF Read
<1>4. StreamInv' BY <1>1, <1>3 DEF StreamInv, DrawInv
<1>5. \A d \in Client :
          /\ WindowInv(d)' /\ OrderInv(d)' /\ WholeInv(d)'
          /\ queue[d] = <<>> => queue'[d] = <<>>
          /\ \A n : HasLive(seen'[d], n) => HasLive(seen[d], n) \/ n \in ToSet(queue[d])
  BY <1>1, <1>2, <1>3, EndsDraws
<1>6. StageInv' BY <1>1, <1>3, <1>5, EndedStage
<1> QED BY <1>4, <1>5, <1>6 DEF DrawInv

LEMMA IdleDraws ==
    ASSUME Inv, DrawInv, \/ GateMoves \/ UNCHANGED vars \/ PaneDies
                         \/ \E c \in Client : HookAttaches(c) \/ Leave(c)
    PROVE  DrawInv'
<1>1. /\ UNCHANGED <<written, cmds, stream, known, staged, flush, window, queue, job, seen, lost>>
      /\ attached' \subseteq attached
  BY DEF GateMoves, vars, PaneDies, HookAttaches, Leave, tmuxVars, demuxVars
<1>2. Read' = Read BY <1>1 DEF Read
<1>3. StreamInv' BY <1>1, <1>2 DEF StreamInv, DrawInv
<1>4. \A c \in Client : WindowInv(c)' BY <1>1 DEF WindowInv, DrawInv
<1> QED BY <1>1, <1>2, <1>3, <1>4, NothingDrawn, StillDraws

LEMMA TmuxWritesDraws == ASSUME Inv, DrawInv, TmuxWrites PROVE DrawInv'
<1> DEFINE x == [kind |-> "out", n |-> written']
<1>1. /\ written' = written + 1 /\ stream' = Append(stream, x)
      /\ UNCHANGED <<cmds, known, staged, flush, attached, window, queue, job, seen, lost>>
  BY DEF TmuxWrites, demuxVars
<1>2. x \in Token /\ Out(x) /\ x.n = written' /\ ~IsReply(x)
  <2>1. written' \in Int BY <1>1 DEF DrawInv, StreamInv
  <2> QED BY <2>1 DEF Token, Out, IsReply
<1> HIDE DEF x
<1>3. /\ StreamInv' /\ Read' = Read
      /\ \A i \in DOMAIN stream' : stream'[i] = x \/ \E k \in DOMAIN stream : stream'[i] = stream[k]
  BY <1>1, <1>2, TokenWritten DEF DrawInv, Inv
<1>4. \A c \in Client : WindowInv(c)' BY <1>1 DEF WindowInv, DrawInv
<1>5. \A i \in DOMAIN stream' : \/ \E k \in DOMAIN stream : stream'[i] = stream[k]
                                \/ \A n \in Read : IsReply(stream'[i]) => n <= stream'[i].n
  BY <1>2, <1>3
<1> QED BY <1>1, <1>3, <1>4, <1>5, NothingDrawn, StillDraws

\* A capture shows all that tmux wrote before it.
LEMMA TmuxAnswersDraws == ASSUME Inv, DrawInv, TmuxAnswers PROVE DrawInv'
<1> DEFINE m == Head(cmds)
           x == [kind |-> "reply", verb |-> m.verb, c |-> m.c, j |-> m.j, ok |-> alive,
                 n |-> written]
<1>1. /\ cmds # <<>> /\ stream' = Append(stream, x)
      /\ UNCHANGED <<alive, written, known, staged, flush, attached, window, queue, job, seen,
                     lost>>
  BY DEF TmuxAnswers, demuxVars
<1>2. m \in Order BY <1>1, OrderRead DEF Inv, TypeInv, AskInv
<1> HIDE DEF m
<1>3. x \in Token /\ ~Out(x) /\ x.n = written
  BY <1>2 DEF Token, Order, Inv, TypeInv, Out
<1> HIDE DEF x
<1>4. /\ StreamInv' /\ Read' = Read
      /\ \A i \in DOMAIN stream' : stream'[i] = x \/ \E k \in DOMAIN stream : stream'[i] = stream[k]
  BY <1>1, <1>3, TokenWritten DEF DrawInv, Inv
<1>5. \A n \in Read : n <= written
  <2>1. written \in Nat BY DEF DrawInv, StreamInv
  <2> QED BY <2>1, ReadIs
<1>6. \A i \in DOMAIN stream' : \/ \E k \in DOMAIN stream : stream'[i] = stream[k]
                                \/ \A n \in Read : IsReply(stream'[i]) => n <= stream'[i].n
  BY <1>3, <1>4, <1>5
<1>7. \A c \in Client : WindowInv(c)' BY <1>1 DEF WindowInv, DrawInv
<1> QED BY <1>1, <1>4, <1>6, <1>7, NothingDrawn, StillDraws

LEMMA PaneAttachFailsDraws ==
    ASSUME Inv, DrawInv, NEW c \in Client, PaneAttachFails(c) PROVE DrawInv'
<1> DEFINE t == <<Control("failed")>>
<1>1. t \in Seq(Frame) /\ Plain(t) /\ InOrder(t) /\ \A n : ~HasLive(t, n) BY ControlDrawn
<1>2. Write(Only(c, t)) BY DEF PaneAttachFails
<1> HIDE DEF t
<1>3. \A d \in Client : seen'[d] = seen[d] \/ seen'[d] = seen[d] \o t
  <2>1. /\ seen'[c] = IF c \in attached THEN seen[c] \o t ELSE seen[c]
        /\ \A d \in Client : d # c => seen'[d] = seen[d]
    BY <1>1, <1>2, OnlyIs, WriteIs DEF Inv
  <2> QED BY <2>1
<1>4. /\ UNCHANGED <<written, stream, known, staged, flush, attached, window, queue, job, lost>>
  BY DEF PaneAttachFails, demuxVars, tmuxVars
<1>5. Read' = Read BY <1>4 DEF Read
<1>6. StreamInv' BY <1>4, <1>5 DEF StreamInv, DrawInv
<1>7. \A d \in Client : WindowInv(d)' BY <1>4 DEF WindowInv, DrawInv
<1> QED BY <1>1, <1>3, <1>4, <1>5, <1>6, <1>7, StillDraws

LEMMA PaneAttachDraws ==
    ASSUME Inv, DrawInv, NEW c \in Client, NEW j \in Job, PaneAttach(c, j) PROVE DrawInv'
<1>1. UNCHANGED <<alive, written, stream, known, staged, flush, attached, queue, lost>>
  BY DEF PaneAttach
<1>2. Read' = Read BY <1>1 DEF Read
<1>3. StreamInv' BY <1>1, <1>2 DEF StreamInv, DrawInv
<1>4. \A i \in DOMAIN stream' : \E k \in DOMAIN stream : stream'[i] = stream[k] BY <1>1
<1>5. CASE Begins(c, j, TRUE) /\ Write(Only(c, <<Control("begin")>>))
  BY <1>1, <1>2, <1>3, <1>4, <1>5, BeginsDraws
<1>6. CASE /\ job' = [job EXCEPT ![c][j] = [at |-> "report", asked |-> TRUE, body |-> 0]]
           /\ UNCHANGED <<window, seen>>
  <2> DEFINE s == [at |-> "report", asked |-> TRUE, body |-> 0]
  <2>1. s \in Stage /\ s.at = "report" /\ job' = [job EXCEPT ![c][j] = s]
    BY <1>6 DEF Stage, Verb
  <2> HIDE DEF s
  <2>2. /\ job' \in Jobs /\ job'[c][j] = s /\ \A i \in Job : i # j => job'[c][i] = job[c][i]
        /\ \A d \in Client : d # c => job'[d] = job[d]
    BY <2>1, JobSet DEF Inv, TypeInv, Jobs
  <2>3. NextJob(c, j) BY DEF PaneAttach
  <2>4. job[c][j].at = "unused" BY <2>3 DEF NextJob, Unused
  <2>5. \A d \in Client : WindowInv(d)'
    <3> SUFFICES ASSUME NEW d \in Client PROVE WindowInv(d)' OBVIOUS
    <3>1. WindowInv(d) BY DEF DrawInv
    <3>2. \A i \in Job : job[d][i].at \in {"capture", "facts", "sent"} => job'[d][i] = job[d][i]
      BY <2>2, <2>4
    <3> QED BY <1>1, <1>6, <3>1, <3>2 DEF WindowInv
  <2>6. \A d \in Client, i \in Job : job'[d][i].at = "facts" => job'[d][i] = job[d][i]
    BY <2>1, <2>2
  <2> QED BY <1>1, <1>2, <1>3, <1>4, <1>6, <2>5, <2>6, NothingDrawn, StillDraws
<1> QED BY <1>5, <1>6 DEF PaneAttach, clientVars

\* Who joins has seen nothing, and waits for a replay if the pane is there.
LEMMA JoinDraws ==
    ASSUME Inv, Inv', DrawInv, NEW c \in Client, NEW pull \in BOOLEAN, Join(c, pull) PROVE DrawInv'
<1> DEFINE k == IF known = "yes" THEN "opened" ELSE "empty"
           h == <<Control(k)>>
           e == <<Control("begin")>>
<1>1. /\ c \notin attached /\ seen[c] = <<>> /\ attached' = attached \cup {c}
      /\ UNCHANGED <<alive, written, stream, known, staged, flush, queue, lost>>
  BY DEF Join
<1>2. Read' = Read BY <1>1 DEF Read
<1>3. StreamInv' BY <1>1, <1>2 DEF StreamInv, DrawInv
<1>4. \A i \in DOMAIN stream' : \E x \in DOMAIN stream : stream'[i] = stream[x] BY <1>1
<1>w. \A d \in Client : /\ OrderInv(d) /\ WholeInv(d) /\ WindowInv(d)
                        /\ Ordered(seen[d], queue[d]) /\ ToSet(queue[d]) \subseteq Read
  BY DEF DrawInv, OrderInv
<1>t. TypeInv /\ StageInv BY DEF Inv, DrawInv
<1>5. \A i \in Job : ~Capturing(job[c][i]) BY <1>1 DEF Inv, ClientInv, Capturing, IsBusy
<1>6. /\ h \in Seq(Frame) /\ InOrder(h) /\ (\A n : ~HasLive(h, n)) /\ (known = "yes" => ~HadIt(h))
  <2>1. h \in Seq(Frame) /\ DOMAIN h = {1} /\ h[1].kind = k BY ControlIs
  <2> QED BY <2>1 DEF InOrder, HasLive, HadIt
<1>7. e \in Seq(Frame) /\ Plain(e) /\ InOrder(e) /\ \A n : ~HasLive(e, n) BY ControlDrawn
<1>8. Append(h, Control("begin")) = h \o e
  BY <1>6, AppendIsConcat DEF Control, Frame
<1> HIDE DEF h, e
<1>9. /\ InOrder(h \o e) /\ (\A n : ~HasLive(h \o e, n)) /\ (known = "yes" => ~HadIt(h \o e))
      /\ h \o e \in Seq(Frame)
  BY <1>6, <1>7, Drawn
<1>10. /\ seen' = [seen EXCEPT ![c] = h] \/ seen' = [seen EXCEPT ![c] = h \o e]
       /\ \/ UNCHANGED <<window, job>>
          \/ \E j \in Job : Begins(c, j, FALSE)
  BY <1>8 DEF Join, h
<1>11. /\ seen'[c] = h \/ seen'[c] = h \o e
       /\ \A d \in Client : d # c => seen'[d] = seen[d]
  BY <1>10, <1>t DEF TypeInv
<1>12. /\ InOrder(seen'[c]) /\ (\A n : ~HasLive(seen'[c], n))
       /\ (known = "yes" => ~HadIt(seen'[c]))
  BY <1>6, <1>9, <1>11
<1>13. /\ \A d \in Client : WindowInv(d)'
       /\ \A d \in Client, i \in Job : job'[d][i].at = "facts" => job'[d][i] = job[d][i]
  <2>1. CASE UNCHANGED <<window, job>> BY <1>1, <1>w, <2>1 DEF WindowInv
  <2>2. ASSUME NEW j \in Job, Begins(c, j, FALSE)
        PROVE  /\ \A d \in Client : WindowInv(d)'
               /\ \A d \in Client, i \in Job : job'[d][i].at = "facts" => job'[d][i] = job[d][i]
    <3> DEFINE s == [at |-> "capture", asked |-> FALSE, body |-> 0]
    <3>1. s \in Stage /\ s.at = "capture" /\ job' = [job EXCEPT ![c][j] = s]
          /\ window' = window \cup {c}
      BY <2>2 DEF Stage, Verb, Begins
    <3> HIDE DEF s
    <3>2. /\ job' \in Jobs /\ job'[c][j] = s /\ \A i \in Job : i # j => job'[c][i] = job[c][i]
          /\ \A d \in Client : d # c => job'[d] = job[d]
      BY <3>1, <1>t, JobSet DEF TypeInv, Jobs
    <3>3. ASSUME NEW d \in Client PROVE WindowInv(d)'
      BY <1>1, <1>w, <3>1, <3>2 DEF WindowInv
    <3> QED BY <3>1, <3>2, <3>3
  <2> QED BY <1>10, <2>1, <2>2
<1>14. StageInv'
  <2>1. known' = "no" \/ flush' # <<>> =>
            \A d \in Client : queue'[d] = <<>> /\ \A n \in Int : ~HasLive(seen'[d], n)
    BY <1>1, <1>11, <1>12, <1>t DEF StageInv
  <2> QED BY <1>1, <1>2, <1>t, <2>1 DEF StageInv
<1>15. ASSUME NEW d \in Client PROVE OrderInv(d)' /\ WholeInv(d)'
  <2>1. CASE d = c
    <3>1. OrderInv(c)'
      <4>1. Ordered(seen'[c], queue'[c]) BY <1>1, <1>12, <1>w DEF Ordered
      <4> QED BY <1>1, <1>2, <1>12, <1>w, <4>1 DEF OrderInv
    <3>2. \A i \in DOMAIN stream : ~IsBody(stream[i], c)
      BY <1>5, <1>t, NoBody DEF Inv, AskInv, TypeInv
    <3>3. \A i \in Job : job'[c][i].at # "facts" BY <1>5, <1>13 DEF Capturing
    <3>4. WholeInv(c)' BY <1>1, <1>12, <3>2, <3>3 DEF WholeInv
    <3> QED BY <2>1, <3>1, <3>4
  <2>2. CASE d # c
    <3>1. d \in attached' => d \in attached BY <1>1, <2>2
    <3> QED BY <1>1, <1>2, <1>4, <1>11, <1>13, <1>t, <1>w, <2>2, <3>1, NothingDrawn, AsideDraws
  <2> QED BY <2>1, <2>2
<1> QED BY <1>3, <1>13, <1>14, <1>15 DEF DrawInv

LEMMA InitDraws == Init => DrawInv
<1> SUFFICES ASSUME Init PROVE DrawInv OBVIOUS
<1>1. Read = {} BY DEF Init, Read
<1>2. StreamInv BY <1>1 DEF Init, StreamInv
<1>3. StageInv BY <1>1, NothingDrawn DEF Init, StageInv
<1>4. ASSUME NEW c \in Client PROVE WindowInv(c) /\ OrderInv(c) /\ WholeInv(c)
  <2>1. seen[c] = <<>> /\ queue[c] = <<>> /\ window = {} /\ known = "no" BY DEF Init
  <2> QED BY <1>1, <2>1, NothingDrawn DEF WindowInv, OrderInv, Ordered, WholeInv
<1> QED BY <1>2, <1>3, <1>4 DEF DrawInv

LEMMA StepDraws == ASSUME ~Overlap, Inv, DrawInv, [Next]_vars PROVE DrawInv'
<1>1. Inv' BY StepInv
<1>2. ASSUME Turn, flush = <<>> PROVE DrawInv'
  <2>1. CASE AppendKnown \/ AppendGated \/ AppendUnknown BY <1>1, <1>2, <2>1, AppendDraws
  <2>2. CASE PaneBound \/ PaneClosed BY <1>1, <1>2, <2>2, PaneBoundDraws, PaneClosedDraws
  <2>3. CASE ReportReplied \/ CaptureReplied \/ FactsReplied
    BY <1>1, <1>2, <2>3, ReportRepliedDraws, CaptureRepliedDraws, FactsRepliedDraws
  <2>4. CASE GateMoves \/ \E c \in Client : Leave(c) BY <2>4, IdleDraws
  <2>5. CASE \E c \in Client : \/ \E pull \in BOOLEAN : Join(c, pull)
                               \/ PaneAttachFails(c)
                               \/ \E j \in Job : PaneAttach(c, j) \/ ReplaySent(c, j)
    BY <1>1, <1>2, <2>5, JoinDraws, PaneAttachFailsDraws, PaneAttachDraws, ReplySentDraws
  <2> QED BY <1>2, <2>1, <2>2, <2>3, <2>4, <2>5 DEF Turn
<1>3. CASE FlushStaged BY <1>1, <1>3, FlushDraws
<1>4. CASE TmuxWrites \/ TmuxAnswers BY <1>4, TmuxWritesDraws, TmuxAnswersDraws
<1>5. CASE PaneDies \/ UNCHANGED vars \/ \E c \in Client : HookAttaches(c) BY <1>5, IdleDraws
<1> QED BY <1>2, <1>3, <1>4, <1>5 DEF Next

\* Capture, queue and live stream of a hydration meet without a gap, and no live byte is sent
\* twice or out of order (runtime/output-demux.ts, runtime/hydration.ts): for clients that ask
\* for a pane once at a time.
THEOREM ScreensStayWhole == ASSUME ~Overlap PROVE Spec => []ScreenIsWhole
<1>1. Init => Inv /\ DrawInv BY InitInv, InitDraws
<1>2. (Inv /\ DrawInv) /\ [Next]_vars => (Inv /\ DrawInv)' BY StepInv, StepDraws
<1>3. Inv /\ DrawInv => ScreenIsWhole
  <2> SUFFICES ASSUME Inv, DrawInv, NEW c \in Client
               PROVE  /\ InOrder(seen[c])
                      /\ HasThePane(c) =>
                            Read \subseteq Screen(seen[c]) \cup lost \cup ToSet(flush)
    BY DEF ScreenIsWhole
  <2>1. InOrder(seen[c]) /\ WindowInv(c) /\ WholeInv(c) BY DEF DrawInv, OrderInv, Ordered
  <2>2. ASSUME HasThePane(c) PROVE Read \subseteq Screen(seen[c]) \cup lost \cup ToSet(flush)
    <3>1. c \in attached /\ known = "yes" /\ Busy(c) = {} /\ HadIt(seen[c])
      BY <2>2 DEF HasThePane, HadIt
    <3>2. \A j \in Job : job[c][j].at \notin {"capture", "facts", "sent"}
      <4>1. \A j \in Job : job[c][j] \in {Unused, Done} BY <3>1 DEF Busy
      <4>2. Unused.at = "unused" BY DEF Unused
      <4> QED BY <4>1, <4>2, DoneIs
    <3>3. ToSet(queue[c]) = {} BY <2>1, <3>2, NothingDrawn DEF WindowInv
    <3>4. Missing(c) \subseteq Screen(seen[c]) BY <2>1, <3>1 DEF WholeInv
    <3> QED BY <3>3, <3>4 DEF Missing
  <2> QED BY <2>1, <2>2
<1> QED BY <1>1, <1>2, <1>3, PTL DEF Spec
=============================================================================
