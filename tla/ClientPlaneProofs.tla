-------------------------- MODULE ClientPlaneProofs --------------------------
(***************************************************************************)
(* Proofs about ClientPlane, for any connections and panes.  The numbers   *)
(* of a connection follow one another across its hand-over from the broker *)
(* to the proxy, provided that nobody asks the broker while it attaches;   *)
(* connection ids are unique; everybody knows how many there are; and all  *)
(* who are told of a pane are told the same origin.                        *)
(***************************************************************************)
EXTENDS ClientPlane, SequenceTheorems, FiniteSetTheorems, TLAPS

TypeInv ==
    /\ place \in [Client -> Place] /\ open \in [Client -> BOOLEAN]
    /\ tableSeq \in [Client -> Int] /\ seq \in [Client -> Int] /\ due \in [Client -> Int]
    /\ heard \in [Client -> [seq : Int, whole : BOOLEAN]]
    /\ subs \in Seq(Client)

\* Whose the connection is, by where it is: the broker's up to its attach, then the
\* server's; the next number of whoever has it follows the last one on the socket.
AtBroker == {"shaking", "reconciling", "table"}
AtServer == {"binding", "subscribed", "served"}
Numbered(c) ==
    /\ heard[c].whole
    /\ place[c] = "off" => heard[c].seq = 0
    /\ open[c] =>
         /\ place[c] \in {"shaking", "reconciling"} => heard[c].seq = 1
         /\ place[c] = "table" => tableSeq[c] = heard[c].seq + 1
         /\ place[c] \in {"attaching"} \cup AtServer => seq[c] = heard[c].seq + 1
Owned(c) ==
    /\ open[c] =>
         /\ c \in table => place[c] = "table"
         /\ due[c] > 0 => place[c] = "table"
         /\ c \in clients <=> place[c] \in AtServer
         /\ c \in ToSet(subs) => c \in clients
    /\ place[c] = "off" => c \notin table \cup clients \cup ToSet(subs) /\ ~(due[c] > 0)
Inv == TypeInv /\ \A c \in Client : Numbered(c) /\ Owned(c)

-----------------------------------------------------------------------------
(* Sequences of subscriptions *)

LEMMA RemovedIsSubset ==
    ASSUME NEW s \in Seq(Client), NEW i \in DOMAIN s
    PROVE  RemoveAt(s, i) \in Seq(Client) /\ ToSet(RemoveAt(s, i)) \subseteq ToSet(s)
<1> DEFINE l == SubSeq(s, 1, i - 1)
           r == SubSeq(s, i + 1, Len(s))
<1>1. i \in 1..Len(s) /\ Len(s) \in Nat OBVIOUS
<1>2. l \in Seq(Client) /\ Len(l) = i - 1 /\ \A k \in 1..(i - 1) : l[k] = s[k]
  BY <1>1
<1>3. r \in Seq(Client) /\ Len(r) = Len(s) - i /\ \A k \in 1..(Len(s) - i) : r[k] = s[i + k]
  BY <1>1
<1> HIDE DEF l, r
<1>4. /\ l \o r \in Seq(Client) /\ Len(l \o r) = Len(l) + Len(r)
      /\ \A k \in 1..(Len(l) + Len(r)) : (l \o r)[k] = IF k <= Len(l) THEN l[k] ELSE r[k - Len(l)]
  BY <1>2, <1>3, ConcatProperties
<1>5. ASSUME NEW k \in DOMAIN (l \o r) PROVE \E j \in DOMAIN s : (l \o r)[k] = s[j]
  <2>1. k \in 1..(Len(l) + Len(r)) BY <1>4
  <2>2. CASE k <= Len(l)
    <3>1. k \in 1..(i - 1) /\ k \in DOMAIN s BY <2>1, <2>2, <1>1, <1>2
    <3>2. (l \o r)[k] = s[k] BY <2>1, <2>2, <3>1, <1>2, <1>4
    <3> QED BY <3>1, <3>2
  <2>3. CASE ~(k <= Len(l))
    <3> DEFINE j == k - Len(l)
    <3>1. j \in 1..(Len(s) - i) /\ i + j \in DOMAIN s
      <4> DEFINE n == Len(s)
      <4>1. n \in Nat /\ i \in 1..n BY <1>1
      <4>2. k \in 1..((i - 1) + (n - i)) BY <2>1, <1>2, <1>3
      <4>3. ~(k <= i - 1) /\ j = k - (i - 1) BY <2>3, <1>2
      <4>4. DOMAIN s = 1..n OBVIOUS
      <4> HIDE DEF n, j
      <4>5. j \in 1..(n - i) /\ i + j \in 1..n BY <4>1, <4>2, <4>3
      <4> QED BY <4>4, <4>5 DEF n
    <3>2. (l \o r)[k] = r[j] BY <2>1, <2>3, <1>4
    <3> HIDE DEF j
    <3>3. r[j] = s[i + j] BY <3>1, <1>3
    <3> QED BY <3>1, <3>2, <3>3
  <2> QED BY <2>2, <2>3
<1>6. RemoveAt(s, i) = l \o r BY DEF RemoveAt, l, r
<1> QED BY <1>4, <1>5, <1>6 DEF ToSet

LEMMA UnsubscribedIsSubset ==
    ASSUME subs \in Seq(Client), NEW c
    PROVE  Unsubscribed(c) \in Seq(Client) /\ ToSet(Unsubscribed(c)) \subseteq ToSet(subs)
<1>1. CASE c \in ToSet(subs)
  <2> DEFINE i == CHOOSE j \in DOMAIN subs : subs[j] = c
  <2>1. i \in DOMAIN subs BY <1>1 DEF ToSet
  <2> QED BY <1>1, <2>1, RemovedIsSubset DEF Unsubscribed
<1>2. CASE c \notin ToSet(subs) BY <1>2 DEF Unsubscribed
<1> QED BY <1>1, <1>2

LEMMA AppendedIsOneMore ==
    ASSUME NEW s \in Seq(Client), NEW c \in Client
    PROVE  Append(s, c) \in Seq(Client) /\ ToSet(Append(s, c)) = ToSet(s) \cup {c}
<1> DEFINE n == Append(s, c)
<1>1. /\ n \in Seq(Client) /\ Len(n) = Len(s) + 1 /\ n[Len(s) + 1] = c
      /\ \A i \in 1..Len(s) : n[i] = s[i]
  BY AppendProperties
<1>2. DOMAIN n = 1..(Len(s) + 1) /\ DOMAIN s = 1..Len(s) /\ Len(s) \in Nat BY <1>1
<1> HIDE DEF n
<1>3. \A i \in DOMAIN n : i \in DOMAIN s \/ i = Len(s) + 1 BY <1>2
<1>4. Len(s) + 1 \in DOMAIN n /\ \A i \in DOMAIN s : i \in DOMAIN n BY <1>2
<1>5. \A i \in DOMAIN s : n[i] = s[i] BY <1>1, <1>2
<1>6. ToSet(n) = ToSet(s) \cup {c} BY <1>1, <1>3, <1>4, <1>5 DEF ToSet
<1> QED BY <1>1, <1>6 DEF n

-----------------------------------------------------------------------------
(* What sending does to the numbers *)

Heeds(c, number) == heard'[c].whole /\ number'[c] = heard'[c].seq + 1

LEMMA ServerSendsWell ==
    ASSUME TypeInv, NEW S, ServerSends(S),
           \A c \in Client \cap S : open[c] => heard[c].whole /\ seq[c] = heard[c].seq + 1
    PROVE  /\ heard' \in [Client -> [seq : Int, whole : BOOLEAN]] /\ seq' \in [Client -> Int]
           /\ \A c \in Client : c \in S /\ open[c] => Heeds(c, seq)
           /\ \A c \in Client : c \notin S => heard'[c] = heard[c] /\ seq'[c] = seq[c]
           /\ \A c \in Client : ~open[c] => heard'[c] = heard[c]
BY DEF TypeInv, ServerSends, Heard, Hear, Stepped, Heeds

LEMMA BrokerSendsWell ==
    ASSUME TypeInv, NEW S, BrokerSends(S),
           \A c \in Client \cap S : open[c] => heard[c].whole /\ tableSeq[c] = heard[c].seq + 1
    PROVE  /\ heard' \in [Client -> [seq : Int, whole : BOOLEAN]] /\ tableSeq' \in [Client -> Int]
           /\ \A c \in Client : c \in S /\ open[c] => Heeds(c, tableSeq)
           /\ \A c \in Client : c \notin S => heard'[c] = heard[c] /\ tableSeq'[c] = tableSeq[c]
           /\ \A c \in Client : ~open[c] => heard'[c] = heard[c]
BY DEF TypeInv, BrokerSends, Heard, Hear, Stepped, Heeds

\* A message to connections that are the server's changes nothing but their numbers.
LEMMA ServerSendsKeeps ==
    ASSUME Inv, NEW S, ServerSends(S),
           \A c \in Client \cap S : open[c] => place[c] \in AtServer,
           UNCHANGED <<place, open, table, tableSeq, due, clients, subs>>
    PROVE  Inv'
<1>1. \A c \in Client \cap S : open[c] => heard[c].whole /\ seq[c] = heard[c].seq + 1
  BY DEF Inv, Numbered
<1>2. /\ heard' \in [Client -> [seq : Int, whole : BOOLEAN]] /\ seq' \in [Client -> Int]
      /\ \A c \in Client : c \in S /\ open[c] => Heeds(c, seq)
      /\ \A c \in Client : c \notin S => heard'[c] = heard[c] /\ seq'[c] = seq[c]
      /\ \A c \in Client : ~open[c] => heard'[c] = heard[c]
  BY <1>1, ServerSendsWell DEF Inv
<1>3. TypeInv' BY <1>2 DEF Inv, TypeInv
<1>4. ASSUME NEW c \in Client PROVE Numbered(c)' /\ Owned(c)'
  <2>1. Numbered(c) /\ Owned(c) BY DEF Inv
  <2>2. Owned(c)' BY <2>1 DEF Owned
  <2>3. ASSUME ~open[c] \/ c \notin S PROVE Numbered(c)' BY <2>1, <2>3, <1>2 DEF Numbered, AtServer
  <2>4. ASSUME open[c] /\ c \in S PROVE Numbered(c)' BY <2>1, <2>4, <1>2 DEF Numbered, AtServer, Heeds
  <2> QED BY <2>2, <2>3, <2>4
<1> QED BY <1>3, <1>4 DEF Inv

\* Likewise one to connections that are the broker's.
LEMMA BrokerSendsKeeps ==
    ASSUME Inv, NEW S, BrokerSends(S),
           \A c \in Client \cap S : open[c] => place[c] = "table",
           \A c \in Client : due'[c] > 0 => due[c] > 0, due' \in [Client -> Int],
           UNCHANGED <<place, open, table, seq, clients, subs>>
    PROVE  Inv'
<1>1. \A c \in Client \cap S : open[c] => heard[c].whole /\ tableSeq[c] = heard[c].seq + 1
  BY DEF Inv, Numbered
<1>2. /\ heard' \in [Client -> [seq : Int, whole : BOOLEAN]] /\ tableSeq' \in [Client -> Int]
      /\ \A c \in Client : c \in S /\ open[c] => Heeds(c, tableSeq)
      /\ \A c \in Client : c \notin S => heard'[c] = heard[c] /\ tableSeq'[c] = tableSeq[c]
      /\ \A c \in Client : ~open[c] => heard'[c] = heard[c]
  BY <1>1, BrokerSendsWell DEF Inv
<1>3. TypeInv' BY <1>2 DEF Inv, TypeInv
<1>4. ASSUME NEW c \in Client PROVE Numbered(c)' /\ Owned(c)'
  <2>1. Numbered(c) /\ Owned(c) BY DEF Inv
  <2>2. Owned(c)' BY <2>1 DEF Owned
  <2>3. ASSUME ~open[c] \/ c \notin S PROVE Numbered(c)' BY <2>1, <2>3, <1>2 DEF Numbered, AtServer
  <2>4. ASSUME open[c] /\ c \in S PROVE Numbered(c)' BY <2>1, <2>4, <1>2 DEF Numbered, AtServer, Heeds
  <2> QED BY <2>2, <2>3, <2>4
<1> QED BY <1>3, <1>4 DEF Inv

-----------------------------------------------------------------------------
(* The actions of one connection *)

LEMMA ConnectKeeps == ASSUME Inv, NEW c \in Client, Connect(c) PROVE Inv'
<1>1. TypeInv' BY DEF Connect, Hear, Inv, TypeInv, Place, brokerVars, serveVars
<1>2. ASSUME NEW d \in Client PROVE Numbered(d)' /\ Owned(d)'
  <2>1. Numbered(d) /\ Owned(d) /\ Numbered(c) /\ Owned(c) /\ TypeInv BY DEF Inv
  <2>2. Numbered(d)' BY <2>1 DEF Connect, Hear, TypeInv, Numbered, Owned, AtServer, brokerVars, serveVars
  <2>3. Owned(d)' BY <2>1 DEF Connect, Hear, TypeInv, Owned, AtServer, brokerVars, serveVars
  <2> QED BY <2>2, <2>3
<1> QED BY <1>1, <1>2 DEF Inv

LEMMA ShakenKeeps == ASSUME Inv, NEW c \in Client, Shaken(c) PROVE Inv'
<1>1. TypeInv' BY DEF Shaken, Inv, TypeInv, Place, brokerVars, serveVars
<1>2. ASSUME NEW d \in Client PROVE Numbered(d)' /\ Owned(d)'
  <2>1. Numbered(d) /\ Owned(d) /\ Numbered(c) /\ Owned(c) /\ TypeInv BY DEF Inv
  <2>2. Numbered(d)' BY <2>1 DEF Shaken, TypeInv, Numbered, Owned, AtServer, brokerVars, serveVars
  <2>3. Owned(d)' BY <2>1 DEF Shaken, TypeInv, Owned, AtServer, brokerVars, serveVars
  <2> QED BY <2>2, <2>3
<1> QED BY <1>1, <1>2 DEF Inv

LEMMA RefusedKeeps == ASSUME Inv, NEW c \in Client, Refused(c) PROVE Inv'
<1>1. TypeInv' BY DEF Refused, Inv, TypeInv, Place, brokerVars, serveVars
<1>2. ASSUME NEW d \in Client PROVE Numbered(d)' /\ Owned(d)'
  <2>1. Numbered(d) /\ Owned(d) /\ Numbered(c) /\ Owned(c) /\ TypeInv BY DEF Inv
  <2>2. Numbered(d)' BY <2>1 DEF Refused, TypeInv, Numbered, Owned, AtServer, brokerVars, serveVars
  <2>3. Owned(d)' BY <2>1 DEF Refused, TypeInv, Owned, AtServer, brokerVars, serveVars
  <2> QED BY <2>2, <2>3
<1> QED BY <1>1, <1>2 DEF Inv

LEMMA AdmitKeeps == ASSUME Inv, NEW c \in Client, Admit(c) PROVE Inv'
<1>1. TypeInv' BY DEF Admit, Heard, Hear, Inv, TypeInv, Place, brokerVars, serveVars
<1>2. ASSUME NEW d \in Client PROVE Numbered(d)' /\ Owned(d)'
  <2>1. Numbered(d) /\ Owned(d) /\ Numbered(c) /\ Owned(c) /\ TypeInv BY DEF Inv
  <2>2. Numbered(d)' BY <2>1 DEF Admit, Heard, Hear, TypeInv, Numbered, Owned, AtServer, brokerVars, serveVars
  <2>3. Owned(d)' BY <2>1 DEF Admit, Heard, Hear, TypeInv, Owned, AtServer, brokerVars, serveVars
  <2> QED BY <2>2, <2>3
<1> QED BY <1>1, <1>2 DEF Inv

LEMMA UnreconciledKeeps == ASSUME Inv, NEW c \in Client, Unreconciled(c) PROVE Inv'
<1>1. TypeInv' BY DEF Unreconciled, Inv, TypeInv, Place, brokerVars, serveVars
<1>2. ASSUME NEW d \in Client PROVE Numbered(d)' /\ Owned(d)'
  <2>1. Numbered(d) /\ Owned(d) /\ Numbered(c) /\ Owned(c) /\ TypeInv BY DEF Inv
  <2>2. Numbered(d)' BY <2>1 DEF Unreconciled, TypeInv, Numbered, Owned, AtServer, brokerVars, serveVars
  <2>3. Owned(d)' BY <2>1 DEF Unreconciled, TypeInv, Owned, AtServer, brokerVars, serveVars
  <2> QED BY <2>2, <2>3
<1> QED BY <1>1, <1>2 DEF Inv

LEMMA AskKeeps == ASSUME Inv, NEW c \in Client, Ask(c), ~Pipelined PROVE Inv'
<1>1. TypeInv' BY DEF Ask, Inv, TypeInv, Place, brokerVars, serveVars
<1>2. ASSUME NEW d \in Client PROVE Numbered(d)' /\ Owned(d)'
  <2>1. Numbered(d) /\ Owned(d) /\ Numbered(c) /\ Owned(c) /\ TypeInv BY DEF Inv
  <2>2. Numbered(d)' BY <2>1 DEF Ask, TypeInv, Numbered, Owned, AtServer, brokerVars, serveVars
  <2>3. Owned(d)' BY <2>1 DEF Ask, TypeInv, Owned, AtServer, brokerVars, serveVars
  <2> QED BY <2>2, <2>3
<1> QED BY <1>1, <1>2 DEF Inv

LEMMA AttachKeeps == ASSUME Inv, NEW c \in Client, Attach(c), ~Pipelined PROVE Inv'
<1>1. TypeInv' BY DEF Attach, GivenUp, Inv, TypeInv, Place, brokerVars, serveVars
<1>2. ASSUME NEW d \in Client PROVE Numbered(d)' /\ Owned(d)'
  <2>1. Numbered(d) /\ Owned(d) /\ Numbered(c) /\ Owned(c) /\ TypeInv BY DEF Inv
  <2>2. Numbered(d)' BY <2>1 DEF Attach, GivenUp, TypeInv, Numbered, Owned, AtServer, brokerVars, serveVars
  <2>3. Owned(d)' BY <2>1 DEF Attach, GivenUp, TypeInv, Owned, AtServer, brokerVars, serveVars
  <2> QED BY <2>2, <2>3
<1> QED BY <1>1, <1>2 DEF Inv

LEMMA NotEnsuredKeeps == ASSUME Inv, NEW c \in Client, NotEnsured(c) PROVE Inv'
<1>1. TypeInv' BY DEF NotEnsured, Inv, TypeInv, Place, brokerVars, serveVars
<1>2. ASSUME NEW d \in Client PROVE Numbered(d)' /\ Owned(d)'
  <2>1. Numbered(d) /\ Owned(d) /\ Numbered(c) /\ Owned(c) /\ TypeInv BY DEF Inv
  <2>2. Numbered(d)' BY <2>1 DEF NotEnsured, TypeInv, Numbered, Owned, AtServer, brokerVars, serveVars
  <2>3. Owned(d)' BY <2>1 DEF NotEnsured, TypeInv, Owned, AtServer, brokerVars, serveVars
  <2> QED BY <2>2, <2>3
<1> QED BY <1>1, <1>2 DEF Inv

LEMMA EnsuredKeeps == ASSUME Inv, NEW c \in Client, Ensured(c) PROVE Inv'
<1>1. TypeInv' BY DEF Ensured, Inv, TypeInv, Place, brokerVars, serveVars
<1>2. ASSUME NEW d \in Client PROVE Numbered(d)' /\ Owned(d)'
  <2>1. Numbered(d) /\ Owned(d) /\ Numbered(c) /\ Owned(c) /\ TypeInv BY DEF Inv
  <2>2. Numbered(d)' BY <2>1 DEF Ensured, TypeInv, Numbered, Owned, AtServer, brokerVars, serveVars
  <2>3. Owned(d)' BY <2>1 DEF Ensured, TypeInv, Owned, AtServer, brokerVars, serveVars
  <2> QED BY <2>2, <2>3
<1> QED BY <1>1, <1>2 DEF Inv

LEMMA NotFoundKeeps == ASSUME Inv, NEW c \in Client, NotFound(c) PROVE Inv'
<1>1. \A d \in Client \cap {c} : open[d] => heard[d].whole /\ seq[d] = heard[d].seq + 1
  BY DEF Inv, Numbered, NotFound
<1>2. /\ heard' \in [Client -> [seq : Int, whole : BOOLEAN]] /\ seq' \in [Client -> Int]
      /\ \A d \in Client : d \in {c} /\ open[d] => Heeds(d, seq)
      /\ \A d \in Client : d \notin {c} => heard'[d] = heard[d] /\ seq'[d] = seq[d]
      /\ \A d \in Client : ~open[d] => heard'[d] = heard[d]
  BY <1>1, ServerSendsWell DEF Inv, NotFound
<1>3. TypeInv' BY <1>2 DEF NotFound, Inv, TypeInv, Place, brokerVars
<1>4. ASSUME NEW d \in Client PROVE Numbered(d)' /\ Owned(d)'
  <2>1. Numbered(d) /\ Owned(d) /\ TypeInv BY DEF Inv
  <2>2. ASSUME d = c PROVE Numbered(d)'
    <3>1. place'[d] = "gone" /\ open'[d] = FALSE BY <2>1, <2>2 DEF NotFound, TypeInv
    <3>2. (heard[d].whole /\ seq[d] = heard[d].seq + 1) \/ ~open[d]
      BY <2>2, <1>1
    <3>3. heard'[d].whole BY <2>1, <2>2, <3>2, <1>2 DEF Heeds, Numbered
    <3> QED BY <3>1, <3>3 DEF Numbered
  <2>3. ASSUME d # c PROVE Numbered(d)'
    <3>1. place'[d] = place[d] /\ open'[d] = open[d] /\ tableSeq' = tableSeq
      BY <2>1, <2>3 DEF NotFound, TypeInv, brokerVars
    <3>2. heard'[d] = heard[d] /\ seq'[d] = seq[d] BY <2>3, <1>2
    <3> QED BY <2>1, <3>1, <3>2 DEF Numbered, AtServer
  <2>4. Owned(d)' BY <2>1 DEF NotFound, TypeInv, Owned, AtServer, brokerVars
  <2> QED BY <2>2, <2>3, <2>4
<1> QED BY <1>3, <1>4 DEF Inv

LEMMA BoundKeeps == ASSUME Inv, NEW c \in Client, Bound(c) PROVE Inv'
<1>1. subs' \in Seq(Client) /\ ToSet(subs') = ToSet(subs) \cup {c}
  BY AppendedIsOneMore DEF Bound, Inv, TypeInv
<1>2. TypeInv' BY <1>1 DEF Bound, Inv, TypeInv, Place, brokerVars
<1>3. ASSUME NEW d \in Client PROVE Numbered(d)' /\ Owned(d)'
  <2>1. Numbered(d) /\ Owned(d) /\ TypeInv BY DEF Inv
  <2>2. Numbered(d)' BY <2>1 DEF Bound, TypeInv, Numbered, AtServer, brokerVars
  <2>3. Owned(d)' BY <2>1, <1>1 DEF Bound, TypeInv, Owned, AtServer, brokerVars
  <2> QED BY <2>2, <2>3
<1> QED BY <1>2, <1>3 DEF Inv

LEMMA SendSnapshotKeeps == ASSUME Inv, NEW c \in Client, SendSnapshot(c) PROVE Inv'
<1> DEFINE S == {c} \cup Everybody
<1>1. CASE c \in clients
  <2>1. \A d \in Client \cap S : open[d] => place[d] \in AtServer
    BY <1>1 DEF Everybody, Inv, Owned
  <2>2. \A d \in Client \cap S : open[d] => heard[d].whole /\ seq[d] = heard[d].seq + 1
    BY <2>1 DEF Inv, Numbered
  <2>3. ServerSends(S) BY <1>1 DEF SendSnapshot
  <2>4. /\ heard' \in [Client -> [seq : Int, whole : BOOLEAN]] /\ seq' \in [Client -> Int]
        /\ \A d \in Client : d \in S /\ open[d] => Heeds(d, seq)
        /\ \A d \in Client : d \notin S => heard'[d] = heard[d] /\ seq'[d] = seq[d]
        /\ \A d \in Client : ~open[d] => heard'[d] = heard[d]
    BY <2>2, <2>3, ServerSendsWell DEF Inv
  <2> HIDE DEF S
  <2>5. place' = [place EXCEPT ![c] = "served"] /\ place[c] = "subscribed"
    BY <1>1 DEF SendSnapshot
  <2>6. UNCHANGED <<open, table, tableSeq, due, clients, subs>>
    BY DEF SendSnapshot, brokerVars
  <2>7. TypeInv' BY <2>4, <2>5, <2>6 DEF Inv, TypeInv, Place
  <2>8. ASSUME NEW d \in Client PROVE Numbered(d)' /\ Owned(d)'
    <3>1. Numbered(d) /\ Owned(d) /\ TypeInv BY DEF Inv
    <3>2. ASSUME ~open[d] \/ d \notin S PROVE Numbered(d)'
      BY <3>1, <3>2, <2>4, <2>5, <2>6 DEF TypeInv, Numbered, AtServer
    <3>3. ASSUME open[d] /\ d \in S PROVE Numbered(d)'
      BY <3>1, <3>3, <2>1, <2>4, <2>5, <2>6 DEF TypeInv, Numbered, AtServer, Heeds
    <3>4. Owned(d)' BY <3>1, <2>5, <2>6 DEF TypeInv, Owned, AtServer
    <3> QED BY <3>2, <3>3, <3>4
  <2> QED BY <2>7, <2>8 DEF Inv
<1>2. CASE c \notin clients
  <2>1. TypeInv' BY <1>2 DEF SendSnapshot, Inv, TypeInv, Place, brokerVars
  <2>2. ASSUME NEW d \in Client PROVE Numbered(d)' /\ Owned(d)'
    <3>1. Numbered(d) /\ Owned(d) /\ Owned(c) /\ TypeInv BY DEF Inv
    <3>2. Numbered(d)' BY <1>2, <3>1 DEF SendSnapshot, TypeInv, Numbered, AtServer, brokerVars
    <3>3. Owned(d)' BY <1>2, <3>1 DEF SendSnapshot, TypeInv, Owned, AtServer, brokerVars
    <3> QED BY <3>2, <3>3
  <2> QED BY <2>1, <2>2 DEF Inv
<1> QED BY <1>1, <1>2

\* Whoever leaves is told nothing more, and the others are told as before.
LEMMA CloseKeeps == ASSUME Inv, NEW c \in Client, Close(c) PROVE Inv'
<1>1. CASE place[c] \in {"subscribed", "served"}
  <2> DEFINE S == clients \ {c}
  <2>1. ServerSends(S) /\ clients' = S /\ subs' = Unsubscribed(c) BY <1>1 DEF Close, Cleanup
  <2>2. \A d \in Client \cap S : open[d] => place[d] \in AtServer BY DEF Inv, Owned
  <2>3. \A d \in Client \cap S : open[d] => heard[d].whole /\ seq[d] = heard[d].seq + 1
    BY <2>2 DEF Inv, Numbered
  <2>4. /\ heard' \in [Client -> [seq : Int, whole : BOOLEAN]] /\ seq' \in [Client -> Int]
        /\ \A d \in Client : d \in S /\ open[d] => Heeds(d, seq)
        /\ \A d \in Client : d \notin S => heard'[d] = heard[d] /\ seq'[d] = seq[d]
        /\ \A d \in Client : ~open[d] => heard'[d] = heard[d]
    BY <2>1, <2>3, ServerSendsWell DEF Inv
  <2>5. subs' \in Seq(Client) /\ ToSet(subs') \subseteq ToSet(subs)
    BY <2>1, UnsubscribedIsSubset DEF Inv, TypeInv
  <2>6. /\ open' = [open EXCEPT ![c] = FALSE] /\ table' = table \ {c}
        /\ place' = IF place[c] \in {"shaking", "table", "served"}
                    THEN [place EXCEPT ![c] = "gone"] ELSE place
        /\ UNCHANGED <<tableSeq, due>>
    BY DEF Close
  <2>7. TypeInv' BY <2>4, <2>5, <2>6 DEF Inv, TypeInv, Place
  <2>8. ASSUME NEW d \in Client PROVE Numbered(d)' /\ Owned(d)'
    <3>1. Numbered(d) /\ Owned(d) /\ TypeInv BY DEF Inv
    <3>2. CASE d = c
      <4>1. ~open'[d] /\ heard'[d] = heard[d] /\ place'[d] # "off"
        BY <1>1, <2>4, <2>6, <3>1, <3>2 DEF TypeInv
      <4>2. Numbered(d)' BY <3>1, <4>1 DEF Numbered
      <4>3. Owned(d)' BY <4>1 DEF Owned
      <4> QED BY <4>2, <4>3
    <3>3. CASE d # c
      <4>1. open'[d] = open[d] /\ place'[d] = place[d] /\ (d \in table' <=> d \in table)
        BY <2>6, <3>1, <3>3 DEF TypeInv
      <4>2. d \in clients' <=> d \in clients BY <2>1, <3>3
      <4>3. ASSUME ~open[d] \/ d \notin S PROVE Numbered(d)'
        BY <3>1, <4>1, <4>3, <2>4, <2>6 DEF Numbered, AtServer
      <4>4. ASSUME open[d] /\ d \in S PROVE Numbered(d)'
        BY <3>1, <4>1, <4>4, <2>2, <2>4 DEF Numbered, AtServer, Heeds
      <4>5. Owned(d)' BY <3>1, <4>1, <4>2, <2>5, <2>6 DEF Owned
      <4> QED BY <4>3, <4>4, <4>5
    <3> QED BY <3>2, <3>3
  <2> QED BY <2>7, <2>8 DEF Inv
<1>2. CASE place[c] \notin {"subscribed", "served"}
  <2>1. TypeInv' BY <1>2 DEF Close, Inv, TypeInv, Place, serveVars
  <2>2. ASSUME NEW d \in Client PROVE Numbered(d)' /\ Owned(d)'
    <3>1. Numbered(d) /\ Owned(d) /\ TypeInv BY DEF Inv
    <3>2. Numbered(d)' BY <1>2, <3>1 DEF Close, TypeInv, Numbered, AtServer, serveVars
    <3>3. Owned(d)' BY <1>2, <3>1 DEF Close, TypeInv, Owned, AtServer, serveVars
    <3> QED BY <3>2, <3>3
  <2> QED BY <2>1, <2>2 DEF Inv
<1> QED BY <1>1, <1>2

-----------------------------------------------------------------------------
(* The theorem *)

LEMMA InitInv == Init => Inv
<1> SUFFICES ASSUME Init PROVE Inv OBVIOUS
<1>1. TypeInv BY DEF Init, TypeInv, Place
<1>2. \A c \in Client : Numbered(c) /\ Owned(c) BY DEF Init, Numbered, Owned, AtServer, ToSet
<1> QED BY <1>1, <1>2 DEF Inv

\* Who is subscribed and open is the server's.
LEMMA SubscribersAreServed ==
    ASSUME Inv PROVE \A c \in Client \cap ToSet(subs) : open[c] => place[c] \in AtServer
BY DEF Inv, Owned
LEMMA ClientsAreServed ==
    ASSUME Inv PROVE \A c \in Client \cap clients : open[c] => place[c] \in AtServer
BY DEF Inv, Owned

LEMMA StepInv == ASSUME ~Pipelined, Inv, [Next]_vars PROVE Inv'
<1>1. CASE Announce
  <2>1. \A c \in Client \cap table : open[c] => place[c] = "table" BY DEF Inv, Owned
  <2> QED BY <1>1, <2>1, BrokerSendsKeeps DEF Announce, Inv, TypeInv, serveVars
<1>2. CASE Notify
  BY <1>2, ClientsAreServed, ServerSendsKeeps DEF Notify, brokerVars
<1>3. ASSUME NEW c \in Client, Answer(c) PROVE Inv'
  <2>1. open[c] => place[c] = "table" BY <1>3 DEF Answer, Inv, Owned
  <2>2. due' \in [Client -> Int] /\ \A d \in Client : due'[d] > 0 => due[d] > 0
    BY <1>3 DEF Answer, Inv, TypeInv
  <2> QED BY <1>3, <2>1, <2>2, BrokerSendsKeeps DEF Answer, serveVars
<1>4. ASSUME NEW c \in Client, Resync(c) PROVE Inv'
  <2>1. \A d \in Client \cap {c} : open[d] => place[d] \in AtServer BY <1>4 DEF Resync, AtServer
  <2> QED BY <1>4, <2>1, ServerSendsKeeps DEF Resync, brokerVars
<1>5. ASSUME NEW c \in Client,
             Connect(c) \/ Shaken(c) \/ Refused(c) \/ Admit(c) \/ Unreconciled(c) \/ Ask(c)
      PROVE  Inv'
  BY <1>5, ConnectKeeps, ShakenKeeps, RefusedKeeps, AdmitKeeps, UnreconciledKeeps, AskKeeps
<1>6. ASSUME NEW c \in Client,
             \/ Attach(c) \/ NotFound(c) \/ NotEnsured(c) \/ Ensured(c) \/ Bound(c)
             \/ SendSnapshot(c) \/ Close(c)
      PROVE  Inv'
  BY <1>6, AttachKeeps, NotFoundKeeps, NotEnsuredKeeps, EnsuredKeeps, BoundKeeps,
     SendSnapshotKeeps, CloseKeeps
<1>7. ASSUME UNCHANGED <<place, open, table, tableSeq, due, clients, subs, seq, heard>> PROVE Inv'
  BY <1>7 DEF Inv, TypeInv, Numbered, Owned
<1>8. ASSUME NEW c \in Client, NEW p \in Pane, Split(c, p) \/ Kill(c, p) PROVE Inv'
  BY <1>7, <1>8 DEF Split, Kill, brokerVars, serveVars
<1>9. ASSUME NEW p \in Pane, SplitAcked(p) \/ KillAcked(p) \/ KillRefused(p) PROVE Inv'
  <2>1. ServerSends({life[p].by} \cap clients) BY <1>9 DEF SplitAcked, KillAcked, KillRefused
  <2>2. UNCHANGED <<place, open, table, tableSeq, due, clients, subs>>
    BY <1>9 DEF SplitAcked, KillAcked, KillRefused, brokerVars
  <2>3. \A c \in Client \cap ({life[p].by} \cap clients) : open[c] => place[c] \in AtServer
    BY ClientsAreServed
  <2> QED BY <2>1, <2>2, <2>3, ServerSendsKeeps
<1>10. ASSUME NEW p \in Pane, Opened(p) \/ Closed(p) PROVE Inv'
  <2>1. ServerSends(ToSet(subs)) BY <1>10 DEF Opened, Closed
  <2>2. UNCHANGED <<place, open, table, tableSeq, due, clients, subs>>
    BY <1>10 DEF Opened, Closed, brokerVars
  <2> QED BY <2>1, <2>2, SubscribersAreServed, ServerSendsKeeps
<1>11. CASE UNCHANGED vars BY <1>7, <1>11 DEF vars, brokerVars, serveVars
<1> QED BY <1>1, <1>2, <1>3, <1>4, <1>5, <1>6, <1>8, <1>9, <1>10, <1>11 DEF Next

\* _handleAttach (server-proxy.ts:1809) hands the number of a connection over before its
\* first await and takes the connection out of the broker's table in the same turn, so no
\* number is used twice or skipped on any socket, however many connections announce,
\* answer, attach, resync and close.  A client that asks the broker during its attach is
\* excepted: its answer would carry a number of the broker's.
THEOREM NumbersAreUnbroken == ASSUME ~Pipelined PROVE Spec => []SeqUnbroken
<1>1. Inv /\ [Next]_vars => Inv' BY StepInv
<1>2. Inv => SeqUnbroken BY DEF Inv, Numbered, SeqUnbroken
<1> QED BY InitInv, <1>1, <1>2, PTL DEF Spec

-----------------------------------------------------------------------------
(* The count of the connections.  It needs no assumption on Pipelined. *)

Registered ==
    /\ place \in [Client -> Place] /\ open \in [Client -> BOOLEAN]
    /\ clients \subseteq Client /\ IsFiniteSet(clients) /\ count \in [Client -> Nat]
    /\ \A c \in clients : place[c] \in AtServer
    /\ \A c \in Client : open[c] /\ place[c] \in AtServer => c \in clients
CountInv == Registered /\ CountIsKept

\* One connection moves on its way, or closes; the server's clients stay the same.
LEMMA MoveKeepsCounts ==
    ASSUME CountInv, NEW c \in Client, NEW pl \in Place, NEW o \in BOOLEAN,
           place' = [place EXCEPT ![c] = pl], open' = [open EXCEPT ![c] = o],
           UNCHANGED <<clients, count>>,
           o => open[c] \/ c \notin clients,
           o /\ pl \in AtServer => c \in clients,
           c \in clients => pl \in AtServer /\ (pl = "served" => place[c] = "served")
    PROVE  CountInv'
<1>1. Registered' BY DEF CountInv, Registered
<1>2. ASSUME \A d \in clients' : place'[d] = "served"
      PROVE  \A d \in clients' : open'[d] => count'[d] = Cardinality(clients')
  <2>1. \A d \in clients : place[d] = "served" /\ (open'[d] => open[d])
    BY <1>2 DEF CountInv, Registered
  <2> QED BY <2>1 DEF CountInv, CountIsKept
<1> QED BY <1>1, <1>2 DEF CountInv, CountIsKept

LEMMA EnsuredKeepsCounts == ASSUME CountInv, NEW c \in Client, Ensured(c) PROVE CountInv'
<1>1. /\ place[c] = "attaching" /\ place' = [place EXCEPT ![c] = "binding"]
      /\ clients' = clients \cup {c} /\ UNCHANGED <<open, count>>
  BY DEF Ensured
<1>2. IsFiniteSet(clients') BY <1>1, FS_AddElement DEF CountInv, Registered
<1>3. Registered' BY <1>1, <1>2 DEF CountInv, Registered, AtServer, Place
<1>4. place'[c] # "served" /\ c \in clients' BY <1>1 DEF CountInv, Registered
<1> QED BY <1>3, <1>4 DEF CountInv, CountIsKept

LEMMA SendSnapshotKeepsCounts ==
    ASSUME CountInv, NEW c \in Client, SendSnapshot(c) PROVE CountInv'
<1>1. CASE c \in clients
  <2>1. /\ place' = [place EXCEPT ![c] = "served"] /\ UNCHANGED <<open, clients>>
        /\ count' = [d \in Client |->
                        IF d \in {c} \cup clients THEN Cardinality(clients) ELSE count[d]]
    BY <1>1 DEF SendSnapshot, Everybody
  <2>2. Cardinality(clients) \in Nat BY FS_CardinalityType DEF CountInv, Registered
  <2>3. Registered' BY <1>1, <2>1, <2>2 DEF CountInv, Registered, AtServer, Place
  <2>4. \A d \in clients : count'[d] = Cardinality(clients) BY <2>1 DEF CountInv, Registered
  <2> QED BY <2>1, <2>3, <2>4 DEF CountInv, CountIsKept
<1>2. CASE c \notin clients
  <2>1. /\ place' = [place EXCEPT ![c] = "gone"] /\ open' = [open EXCEPT ![c] = open[c]]
        /\ UNCHANGED <<clients, count>>
    BY <1>2 DEF SendSnapshot, CountInv, Registered
  <2>2. "gone" \in Place /\ "gone" \notin AtServer BY DEF Place, AtServer
  <2>3. open[c] \in BOOLEAN BY DEF CountInv, Registered
  <2> QED BY <1>2, <2>1, <2>2, <2>3, MoveKeepsCounts
<1> QED BY <1>1, <1>2

LEMMA CloseKeepsCounts == ASSUME CountInv, NEW c \in Client, Close(c) PROVE CountInv'
<1>1. /\ open[c] /\ open' = [open EXCEPT ![c] = FALSE]
      /\ place' = IF place[c] \in {"shaking", "table", "served"}
                  THEN [place EXCEPT ![c] = "gone"] ELSE place
  BY DEF Close
<1>2. CASE place[c] \in {"subscribed", "served"}
  <2>1. /\ clients' = clients \ {c}
        /\ count' = [d \in Client |->
                        IF d \in clients \ {c} THEN Cardinality(clients) - 1 ELSE count[d]]
    BY <1>2 DEF Close, Cleanup
  <2>2. c \in clients BY <1>1, <1>2 DEF CountInv, Registered, AtServer
  <2>3. /\ IsFiniteSet(clients') /\ Cardinality(clients') = Cardinality(clients) - 1
        /\ Cardinality(clients') \in Nat
    BY <2>1, <2>2, FS_RemoveElement, FS_CardinalityType DEF CountInv, Registered
  <2>4. Registered' BY <1>1, <1>2, <2>1, <2>3 DEF CountInv, Registered, AtServer, Place
  <2>5. \A d \in clients' : count'[d] = Cardinality(clients')
    BY <2>1, <2>3 DEF CountInv, Registered
  <2> QED BY <2>4, <2>5 DEF CountInv, CountIsKept
<1>3. CASE place[c] \notin {"subscribed", "served"}
  <2> DEFINE pl == IF place[c] \in {"shaking", "table"} THEN "gone" ELSE place[c]
  <2>1. place' = [place EXCEPT ![c] = pl] /\ pl \in Place
    BY <1>1, <1>3 DEF CountInv, Registered, Place
  <2>2. UNCHANGED <<clients, count>> BY <1>3 DEF Close, serveVars
  <2>3. c \in clients => pl \in AtServer /\ pl = place[c]
    BY DEF CountInv, Registered, AtServer
  <2> HIDE DEF pl
  <2> QED BY <1>1, <2>1, <2>2, <2>3, MoveKeepsCounts
<1> QED BY <1>2, <1>3

LEMMA ResyncKeepsCounts == ASSUME CountInv, NEW c \in Client, Resync(c) PROVE CountInv'
<1>1. count' = [count EXCEPT ![c] = Cardinality(clients)] /\ UNCHANGED <<place, open, clients>>
  BY DEF Resync
<1>2. Cardinality(clients) \in Nat BY FS_CardinalityType DEF CountInv, Registered
<1>3. Registered' BY <1>1, <1>2 DEF CountInv, Registered
<1> QED BY <1>1, <1>3 DEF CountInv, Registered, CountIsKept

LEMMA InitCounts == Init => CountInv
BY FS_EmptySet DEF Init, CountInv, Registered, CountIsKept, Place, AtServer

LEMMA StepCounts == ASSUME CountInv, [Next]_vars PROVE CountInv'
<1>1. ASSUME UNCHANGED <<place, open, clients, count>> PROVE CountInv'
  BY <1>1 DEF CountInv, Registered, CountIsKept
<1>2. ASSUME NEW c \in Client,
             \/ Connect(c) \/ Shaken(c) \/ Refused(c) \/ Admit(c) \/ Unreconciled(c)
             \/ Attach(c) \/ NotFound(c) \/ NotEnsured(c)
      PROVE  CountInv'
  <2>1. PICK pl \in {"shaking", "reconciling", "table", "attaching", "gone"}, o \in BOOLEAN :
           place' = [place EXCEPT ![c] = pl] /\ open' = [open EXCEPT ![c] = o]
    BY <1>2 DEF Connect, Shaken, Refused, Admit, Unreconciled, Attach, NotFound, NotEnsured,
                CountInv, Registered
  <2>2. place[c] \in {"off", "shaking", "reconciling", "table", "attaching"}
    BY <1>2 DEF Connect, Shaken, Refused, Admit, Unreconciled, Attach, NotFound, NotEnsured
  <2>3. c \notin clients BY <2>2 DEF CountInv, Registered, AtServer
  <2>4. UNCHANGED <<clients, count>>
    BY <1>2 DEF Connect, Shaken, Refused, Admit, Unreconciled, Attach, NotFound, NotEnsured,
                serveVars
  <2>5. pl \in Place /\ pl \notin AtServer BY DEF Place, AtServer
  <2> QED BY <2>1, <2>3, <2>4, <2>5, MoveKeepsCounts
<1>3. ASSUME NEW c \in Client, Bound(c) PROVE CountInv'
  <2>1. /\ place[c] = "binding" /\ place' = [place EXCEPT ![c] = "subscribed"]
        /\ open' = [open EXCEPT ![c] = open[c]] /\ UNCHANGED <<clients, count>>
    BY <1>3 DEF Bound, CountInv, Registered
  <2>2. open[c] \in BOOLEAN /\ (open[c] => c \in clients)
    BY <2>1 DEF CountInv, Registered, AtServer
  <2>3. "subscribed" \in Place /\ "subscribed" \in AtServer BY DEF Place, AtServer
  <2> QED BY <2>1, <2>2, <2>3, MoveKeepsCounts
<1>4. ASSUME NEW c \in Client, Ensured(c) \/ SendSnapshot(c) \/ Close(c) \/ Resync(c)
      PROVE  CountInv'
  BY <1>4, EnsuredKeepsCounts, SendSnapshotKeepsCounts, CloseKeepsCounts, ResyncKeepsCounts
<1>5. ASSUME \/ Announce \/ Notify \/ UNCHANGED vars
             \/ \E c \in Client : Ask(c) \/ Answer(c)
             \/ \E c \in Client, p \in Pane : Split(c, p) \/ Kill(c, p)
             \/ \E p \in Pane :
                   SplitAcked(p) \/ Opened(p) \/ KillAcked(p) \/ KillRefused(p) \/ Closed(p)
      PROVE  CountInv'
  <2>1. UNCHANGED <<place, open, clients, count>>
    BY <1>5 DEF Announce, Notify, Ask, Answer, Split, Kill, SplitAcked, Opened, KillAcked,
                KillRefused, Closed, vars, serveVars
  <2> QED BY <1>1, <2>1
<1> QED BY <1>2, <1>3, <1>4, <1>5 DEF Next

\* Whoever joins, leaves or asks for a resync, and in whatever order (_cleanupClient,
\* _broadcastClientCount of serve.ts): once nobody is on the way in, each open
\* connection was last told how many connections the server has.
THEOREM CountsAreKept == Spec => []CountIsKept
<1>1. CountInv /\ [Next]_vars => CountInv' BY StepCounts
<1>2. CountInv => CountIsKept BY DEF CountInv
<1> QED BY InitCounts, <1>1, <1>2, PTL DEF Spec

-----------------------------------------------------------------------------
(* The pool of connection ids *)

PoolInv ==
    /\ minted \in Nat /\ free \in Seq(Nat) /\ slot \in [Client -> {None} \cup Nat]
    /\ \A i \in 1..Len(free) : free[i] \in 1..minted
    /\ \A i, j \in 1..Len(free) : free[i] = free[j] => i = j
    /\ \A c \in clients : slot[c] \in 1..minted
    /\ \A c \in clients : \A i \in 1..Len(free) : free[i] # slot[c]
    /\ IdsAreUnique

\* _mintConnectionId takes an id that nobody has, from the pool or a new one.
LEMMA EnsuredKeepsPool ==
    ASSUME CountInv, PoolInv, NEW c \in Client, Ensured(c) PROVE PoolInv'
<1>1. c \notin clients /\ clients' = clients \cup {c} /\ IsFiniteSet(clients)
  BY DEF Ensured, CountInv, Registered, AtServer
<1>2. Cardinality(clients') = Cardinality(clients) + 1 BY <1>1, FS_AddElement
<1>3. Cardinality(clients) \in Nat BY <1>1, FS_CardinalityType
<1>4. CASE free = <<>>
  <2>1. minted' = minted + 1 /\ slot' = [slot EXCEPT ![c] = minted + 1] /\ free' = free
    BY <1>4 DEF Ensured
  <2>2. Len(free) = 0 BY <1>4
  <2>3. \A d \in clients' : slot'[d] = IF d = c THEN minted + 1 ELSE slot[d]
    BY <1>1, <2>1 DEF PoolInv, CountInv, Registered
  <2>4. IdsAreUnique'
    <3>1. \A d \in clients : slot[d] # minted + 1 BY DEF PoolInv
    <3>2. \A d, e \in clients' : slot'[d] = slot'[e] => d = e
      BY <1>1, <2>3, <3>1 DEF PoolInv, IdsAreUnique
    <3>3. Len(free') + Cardinality(clients') = minted'
      BY <1>2, <1>3, <2>1, <2>2 DEF PoolInv, IdsAreUnique
    <3> QED BY <3>2, <3>3 DEF IdsAreUnique
  <2>5. minted' \in Nat /\ slot' \in [Client -> {None} \cup Nat] BY <2>1 DEF PoolInv
  <2>6. \A d \in clients' : slot'[d] \in 1..minted' BY <1>1, <2>1, <2>3 DEF PoolInv
  <2> QED BY <2>1, <2>2, <2>4, <2>5, <2>6 DEF PoolInv
<1>5. CASE free # <<>>
  <2> DEFINE n == Len(free)
  <2>1. free' = SubSeq(free, 1, n - 1) /\ slot' = [slot EXCEPT ![c] = free[n]] /\ minted' = minted
    BY <1>5 DEF Ensured, Front, Last
  <2>2. free \in Seq(Nat) BY DEF PoolInv
  <2>3. n \in Nat \ {0} BY <1>5, <2>2, EmptySeq
  <2>4. \A i \in 1..(n - 1) : i \in 1..n /\ i # n
    <3> HIDE DEF n
    <3> QED BY <2>3
  <2>5. free' \in Seq(Nat) /\ Len(free') = n - 1 /\ \A i \in 1..(n - 1) : free'[i] = free[i]
    <3> DEFINE f == SubSeq(free, 1, n - 1)
    <3>1. \A i \in 1..(n - 1) : free[i] \in Nat BY <2>2, <2>4
    <3>2. n - 1 \in Int /\ n - 1 - 1 + 1 = n - 1 /\ (~(1 <= n - 1) => n - 1 = 0)
      <4> HIDE DEF n
      <4> QED BY <2>3
    <3> HIDE DEF n
    <3>3. /\ f \in Seq(Nat) /\ Len(f) = IF 1 <= n - 1 THEN n - 1 - 1 + 1 ELSE 0
          /\ \A i \in 1..(n - 1 - 1 + 1) : f[i] = free[1 + i - 1]
      BY <3>1, <3>2, SubSeqProperties
    <3>4. \A i \in 1..(n - 1) : 1 + i - 1 = i BY <2>3
    <3>5. f \in Seq(Nat) /\ Len(f) = n - 1 /\ \A i \in 1..(n - 1) : f[i] = free[i]
      BY <3>2, <3>3, <3>4
    <3> QED BY <2>1, <3>5
  <2>6. free[n] \in 1..minted BY <2>3 DEF PoolInv
  <2>7. \A d \in clients' : slot'[d] = IF d = c THEN free[n] ELSE slot[d]
    BY <1>1, <2>1 DEF PoolInv, CountInv, Registered
  <2>8. IdsAreUnique'
    <3>1. \A d \in clients : slot[d] # free[n] BY <2>3 DEF PoolInv
    <3>2. \A d, e \in clients' : slot'[d] = slot'[e] => d = e
      BY <1>1, <2>7, <3>1 DEF PoolInv, IdsAreUnique
    <3>3. n + Cardinality(clients) = minted BY DEF PoolInv, IdsAreUnique
    <3> HIDE DEF n
    <3>4. minted' = minted BY <2>1
    <3>5. Len(free') + Cardinality(clients') = minted'
      BY <1>2, <1>3, <2>3, <2>5, <3>3, <3>4
    <3> QED BY <3>2, <3>5 DEF IdsAreUnique
  <2>9. \A d \in clients' : \A i \in 1..(n - 1) : free'[i] # slot'[d]
    <3>1. \A i \in 1..(n - 1) : free[i] # free[n] BY <2>3, <2>4 DEF PoolInv
    <3>2. \A d \in clients : \A i \in 1..(n - 1) : free[i] # slot[d] BY <2>4 DEF PoolInv
    <3> HIDE DEF n
    <3> QED BY <1>1, <2>5, <2>7, <3>1, <3>2
  <2>10. \A d \in clients' : slot'[d] \in 1..minted' BY <1>1, <2>1, <2>6, <2>7 DEF PoolInv
  <2>11. /\ \A i \in 1..(n - 1) : free'[i] \in 1..minted'
         /\ \A i, j \in 1..(n - 1) : free'[i] = free'[j] => i = j
    <3>1. /\ \A i \in 1..(n - 1) : free[i] \in 1..minted
          /\ \A i, j \in 1..(n - 1) : free[i] = free[j] => i = j
      BY <2>4 DEF PoolInv
    <3> HIDE DEF n
    <3> QED BY <2>1, <2>5, <3>1
  <2>12. slot' \in [Client -> {None} \cup Nat] /\ minted' \in Nat BY <2>1, <2>6 DEF PoolInv
  <2> HIDE DEF n
  <2> QED BY <2>5, <2>8, <2>9, <2>10, <2>11, <2>12 DEF PoolInv
<1> QED BY <1>4, <1>5

\* _cleanupClient returns the id of a client it had, once.
LEMMA CloseKeepsPool ==
    ASSUME CountInv, PoolInv, NEW c \in Client, Close(c) PROVE PoolInv'
<1>1. CASE place[c] \in {"subscribed", "served"}
  <2> DEFINE n == Len(free)
  <2>1. clients' = clients \ {c} /\ free' = free \o <<slot[c]>> /\ UNCHANGED <<slot, minted>>
    BY <1>1 DEF Close, Cleanup, Freed
  <2>2. c \in clients BY <1>1 DEF Close, CountInv, Registered, AtServer
  <2>3. free \in Seq(Nat) /\ n \in Nat /\ slot[c] \in Nat BY <2>2 DEF PoolInv
  <2>4. /\ free' \in Seq(Nat) /\ Len(free') = n + 1 /\ free'[n + 1] = slot[c]
        /\ \A i \in 1..n : free'[i] = free[i]
    <3>1. free' = Append(free, slot[c]) BY <2>1, <2>3, AppendIsConcat
    <3> QED BY <2>3, <3>1, AppendProperties
  <2>5. Cardinality(clients') = Cardinality(clients) - 1 /\ Cardinality(clients) \in Nat
    BY <2>1, <2>2, FS_RemoveElement, FS_CardinalityType DEF CountInv, Registered
  <2>6. IdsAreUnique'
    <3>1. n + Cardinality(clients) = minted BY DEF PoolInv, IdsAreUnique
    <3>2. \A d, e \in clients' : slot'[d] = slot'[e] => d = e BY <2>1 DEF PoolInv, IdsAreUnique
    <3> HIDE DEF n
    <3>3. Len(free') + Cardinality(clients') = minted' BY <2>1, <2>3, <2>4, <2>5, <3>1
    <3> QED BY <3>2, <3>3 DEF IdsAreUnique
  <2>7. \A i \in 1..(n + 1) : i \in 1..n \/ i = n + 1 BY <2>3
  <2>8. \A i \in 1..(n + 1) : free'[i] \in 1..minted'
    BY <2>1, <2>2, <2>4, <2>7 DEF PoolInv
  <2>9. \A i, j \in 1..(n + 1) : free'[i] = free'[j] => i = j
    <3>1. \A i \in 1..n : free[i] # slot[c] BY <2>2 DEF PoolInv
    <3>2. \A i, j \in 1..n : free[i] = free[j] => i = j BY DEF PoolInv
    <3> HIDE DEF n
    <3> QED BY <2>4, <2>7, <3>1, <3>2
  <2>10. \A d \in clients' : \A i \in 1..(n + 1) : free'[i] # slot'[d]
    <3>1. \A d \in clients' : slot[d] # slot[c] BY <2>1, <2>2 DEF PoolInv, IdsAreUnique
    <3>2. \A d \in clients' : \A i \in 1..n : free[i] # slot[d] BY <2>1 DEF PoolInv
    <3> HIDE DEF n
    <3> QED BY <2>1, <2>4, <2>7, <3>1, <3>2
  <2>11. /\ \A d \in clients' : slot'[d] \in 1..minted'
         /\ slot' \in [Client -> {None} \cup Nat] /\ minted' \in Nat
    BY <2>1 DEF PoolInv
  <2> HIDE DEF n
  <2> QED BY <2>4, <2>6, <2>8, <2>9, <2>10, <2>11 DEF PoolInv
<1>2. CASE place[c] \notin {"subscribed", "served"}
  <2>1. UNCHANGED <<clients, slot, free, minted>> BY <1>2 DEF Close, serveVars
  <2> QED BY <2>1 DEF PoolInv, IdsAreUnique
<1> QED BY <1>1, <1>2

LEMMA InitPool == Init => PoolInv
<1> SUFFICES ASSUME Init PROVE PoolInv OBVIOUS
<1>1. /\ clients = {} /\ free = <<>> /\ minted = 0 /\ slot = [c \in Client |-> None]
  BY DEF Init
<1>2. free \in Seq(Nat) /\ Len(free) = 0 BY <1>1
<1>3. IdsAreUnique BY <1>1, <1>2, FS_EmptySet DEF IdsAreUnique
<1> QED BY <1>1, <1>2, <1>3 DEF PoolInv

LEMMA StepPool == ASSUME CountInv, PoolInv, [Next]_vars PROVE PoolInv'
<1>1. ASSUME UNCHANGED <<clients, slot, free, minted>> PROVE PoolInv'
  BY <1>1 DEF PoolInv, IdsAreUnique
<1>2. ASSUME NEW c \in Client, Ensured(c) \/ Close(c) PROVE PoolInv'
  BY <1>2, EnsuredKeepsPool, CloseKeepsPool
<1>3. ASSUME NEW c \in Client,
             \/ Connect(c) \/ Shaken(c) \/ Refused(c) \/ Admit(c) \/ Unreconciled(c)
             \/ Ask(c) \/ Answer(c) \/ Attach(c) \/ NotFound(c) \/ NotEnsured(c)
             \/ Bound(c) \/ SendSnapshot(c) \/ Resync(c)
      PROVE  PoolInv'
  BY <1>1, <1>3 DEF Connect, Shaken, Refused, Admit, Unreconciled, Ask, Answer, Attach,
     NotFound, NotEnsured, Bound, SendSnapshot, Resync, serveVars
<1>4. ASSUME \/ Announce \/ Notify \/ UNCHANGED vars
             \/ \E c \in Client, p \in Pane : Split(c, p) \/ Kill(c, p)
             \/ \E p \in Pane :
                   SplitAcked(p) \/ Opened(p) \/ KillAcked(p) \/ KillRefused(p) \/ Closed(p)
      PROVE  PoolInv'
  BY <1>1, <1>4 DEF Announce, Notify, Split, Kill, SplitAcked, Opened, KillAcked, KillRefused,
     Closed, vars, serveVars
<1> QED BY <1>2, <1>3, <1>4 DEF Next

\* The connection ids (serve.ts:548) of the clients differ at all times and none is lost,
\* though a close handler of the server and one of the proxy both clean up, and some
\* connections close before they have either.
THEOREM ConnectionIdsAreUnique == Spec => []IdsAreUnique
<1>1. Init => CountInv /\ PoolInv BY InitCounts, InitPool
<1>2. CountInv /\ PoolInv /\ [Next]_vars => (CountInv /\ PoolInv)' BY StepCounts, StepPool
<1>3. PoolInv => IdsAreUnique BY DEF PoolInv
<1> QED BY <1>1, <1>2, <1>3, PTL DEF Spec

-----------------------------------------------------------------------------
(* What the clients are told of a pane's origin *)

\* One origin or nobody was told.
Agreed ==
    /\ DOMAIN told = Pane
    /\ \A p \in Pane : DOMAIN told[p] = {"origins", "causes"}
    /\ \A p \in Pane : \E o : told[p].origins \subseteq {o}

LEMMA StepAgreed == ASSUME Agreed, [Next]_vars PROVE Agreed'
<1>1. ASSUME UNCHANGED told PROVE Agreed' BY <1>1 DEF Agreed
<1>2. ASSUME NEW p \in Pane, Opened(p) PROVE Agreed'
  <2>1. told' = [told EXCEPT ![p].origins = {origin[p] : c \in ToSet(subs)}]
    BY <1>2 DEF Opened, OriginTold
  <2>2. told'[p].origins \subseteq {origin[p]} BY <2>1 DEF Agreed
  <2>3. \A q \in Pane : q # p => told'[q] = told[q] BY <2>1 DEF Agreed
  <2>4. DOMAIN told' = Pane /\ DOMAIN told'[p] = {"origins", "causes"} BY <2>1 DEF Agreed
  <2> QED BY <2>2, <2>3, <2>4 DEF Agreed
<1>3. ASSUME NEW p \in Pane, Closed(p) PROVE Agreed'
  <2>1. \A q \in Pane : told'[q].origins = told[q].origins BY <1>3 DEF Closed, Agreed
  <2>2. DOMAIN told' = Pane /\ \A q \in Pane : DOMAIN told'[q] = {"origins", "causes"}
    BY <1>3 DEF Closed, Agreed
  <2> QED BY <2>1, <2>2 DEF Agreed
<1>4. ASSUME NEW c \in Client,
             \/ Connect(c) \/ Shaken(c) \/ Refused(c) \/ Admit(c) \/ Unreconciled(c)
             \/ Ask(c) \/ Answer(c) \/ Attach(c) \/ NotFound(c) \/ NotEnsured(c) \/ Ensured(c)
             \/ Bound(c) \/ SendSnapshot(c) \/ Resync(c) \/ Close(c)
      PROVE  Agreed'
  BY <1>1, <1>4 DEF Connect, Shaken, Refused, Admit, Unreconciled, Ask, Answer, Attach,
     NotFound, NotEnsured, Ensured, Bound, SendSnapshot, Resync, Close, paneVars
<1>5. ASSUME \/ Announce \/ Notify \/ UNCHANGED vars
             \/ \E c \in Client, p \in Pane : Split(c, p) \/ Kill(c, p)
             \/ \E p \in Pane : SplitAcked(p) \/ KillAcked(p) \/ KillRefused(p)
      PROVE  Agreed'
  BY <1>1, <1>5 DEF Announce, Notify, Split, Kill, SplitAcked, KillAcked, KillRefused, vars,
     paneVars
<1> QED BY <1>2, <1>3, <1>4, <1>5 DEF Next

\* The diffs of all clients of one change look the origin up in one registry
\* (verb-origin.ts:119), so they are told one origin.
THEOREM OriginsAreOne == Spec => []OriginsAgree
<1>1. Init => Agreed
  <2> SUFFICES ASSUME Init PROVE Agreed OBVIOUS
  <2>1. DOMAIN told = Pane /\ \A p \in Pane : told[p] = [origins |-> {}, causes |-> {}]
    BY DEF Init
  <2>2. \A p \in Pane : told[p].origins \subseteq {None} BY <2>1
  <2> QED BY <2>1, <2>2 DEF Agreed
<1>2. Agreed /\ [Next]_vars => Agreed' BY StepAgreed
<1>3. Agreed => OriginsAgree
  <2> SUFFICES ASSUME Agreed, NEW p \in Pane PROVE Cardinality(told[p].origins) <= 1
    BY DEF OriginsAgree
  <2>1. PICK o : told[p].origins \subseteq {o} BY DEF Agreed
  <2>2. IsFiniteSet({o}) /\ Cardinality({o}) = 1 BY FS_Singleton
  <2> QED BY <2>1, <2>2, FS_Subset
<1> QED BY <1>1, <1>2, <1>3, PTL DEF Spec
===============================================================================
