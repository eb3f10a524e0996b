----------------------------- MODULE BrokerProofs -----------------------------
(***************************************************************************)
(* Proofs about Broker.  How one leaves, for any brokers and clients; and  *)
(* that the socket is the lock when two contend, which is as far as it     *)
(* goes: with three, two may take one path for stale (Broker_owners.cfg).  *)
(***************************************************************************)
EXTENDS Broker, TLAPS

Stages == {"off", "listen", "asking", "stale", "bound", "starting", "up", "leaving",
           "unbinding", "closing", "out"}
Places == {"off", "shaking", "reconciling", "table", "attaching", "served", "over"}

TypeInv ==
    /\ stage \in [Broker -> Stages]
    /\ why \in [Broker -> Reasons \cup {None}] /\ hurried \in [Broker -> BOOLEAN]
    /\ proxy \in [Broker -> {"none", "up", "orphan"}]
    /\ maker \in [Broker -> {None, "attach", "claim"}]
    /\ at \in [Client -> Broker \cup {None}]
    /\ place \in [Client -> Places] /\ sock \in [Client -> {"open", "dying", "closed"}]
    /\ tmux \in BOOLEAN /\ owed \subseteq Client /\ cut \subseteq owed

\* Who is served has a proxy, and one that is up has a tmux.
ServedByProxy ==
    /\ \A b \in Broker : proxy[b] = "up" => tmux
    /\ \A c \in Client : place[c] = "served" => at[c] \in Broker /\ proxy[at[c]] # "none"
\* A farewell is owed by a broker that leaves because tmux is gone; to whom it has not
\* been said, is still served by the proxy whose tmux has gone, not by one made since.
OwedIsOrphaned ==
    \A c \in owed :
        /\ at[c] \in Broker /\ why[at[c]] = "tmux-gone"
        /\ place[c] \in {"served", "over"}
        /\ place[c] = "served" => proxy[at[c]] = "orphan"
\* When the drain ends by itself, it is said to all: also while a metrics listener closes.
SaidWhenDrained ==
    \A b \in Broker : stage[b] = "unbinding" /\ why[b] = "tmux-gone" /\ ~hurried[b] =>
        \A c \in owed : at[c] = b => place[c] # "served"

LeaveInv == TypeInv /\ ServedByProxy /\ OwedIsOrphaned /\ SaidWhenDrained /\ LeavesInOrder

-----------------------------------------------------------------------------
(* The socket *)

Past == Stages \ {"off", "listen", "asking", "stale"}
\* Whoever accepts is the one at the path.  Of two, one that asks has met the other
\* listening or later; one that takes the path for stale has met it when it was done.
LockInv ==
    /\ stage \in [Broker -> Stages]
    /\ file \in Broker \cup {None} /\ ino \in [Broker -> Broker \cup {None}]
    /\ \A b \in Broker : Accepts(b) => file = b
    /\ file # None => stage[file] \in Past
    /\ \A b \in Broker : stage[b] \in Past \ {"bound", "out"} => ino[b] = b
    /\ \A a, b \in Broker : a # b /\ stage[b] \in {"asking", "stale"} => stage[a] \in Past
    /\ \A a, b \in Broker : a # b /\ stage[b] = "stale" => stage[a] \in {"closing", "out"}

AtMostTwo == \A a, b, c \in Broker : a = b \/ b = c \/ a = c

\* One that has listened, or goes, takes nothing from the path but its own socket.
LEMMA LaterKeepsLock ==
    ASSUME LockInv, NEW b \in Broker, NEW s \in Past, NEW i \in {b, None},
           stage' = [stage EXCEPT ![b] = s], ino' = [ino EXCEPT ![b] = i],
           s = "out" \/ i = b, stage[b] # "off",
           stage[b] \in {"closing", "out"} => s \in {"closing", "out"},
           Accepts(b)' => Accepts(b),
           file' = file \/ (file = b /\ file' = None /\ ~Accepts(b)')
    PROVE  LockInv'
<1>1. \A a \in Broker : stage'[a] = IF a = b THEN s ELSE stage[a] BY DEF LockInv
<1>2. \A a \in Broker : ino'[a] = IF a = b THEN i ELSE ino[a] BY DEF LockInv
<1>3. stage' \in [Broker -> Stages] BY DEF LockInv, Past
<1>4. file' \in Broker \cup {None} /\ ino' \in [Broker -> Broker \cup {None}] BY DEF LockInv
<1>5. ASSUME NEW a \in Broker, Accepts(a)' PROVE file' = a
  <2>1. Accepts(a) BY <1>1, <1>5 DEF Accepts
  <2>2. file = a BY <2>1 DEF LockInv
  <2> QED BY <1>5, <2>2
<1>6. file' # None => stage'[file'] \in Past BY <1>1, Processes DEF LockInv
<1>7. \A a \in Broker : stage'[a] \in Past \ {"bound", "out"} => ino'[a] = a
  BY <1>1, <1>2 DEF LockInv
<1>8. \A a, d \in Broker : a # d /\ stage'[d] \in {"asking", "stale"} => stage'[a] \in Past
  BY <1>1 DEF LockInv, Past, Stages
<1>9. \A a, d \in Broker : a # d /\ stage'[d] = "stale" => stage'[a] \in {"closing", "out"}
  <2>1. SUFFICES ASSUME NEW a \in Broker, NEW d \in Broker, a # d, stage'[d] = "stale"
                 PROVE  stage'[a] \in {"closing", "out"}
    OBVIOUS
  <2>2. d # b BY <1>1, <2>1 DEF Past
  <2>3. stage[d] = "stale" BY <1>1, <2>1, <2>2
  <2>4. stage[a] \in {"closing", "out"} BY <2>1, <2>3 DEF LockInv
  <2> QED BY <1>1, <2>4
<1> QED BY <1>3, <1>4, <1>5, <1>6, <1>7, <1>8, <1>9 DEF LockInv

LEMMA SpawnKeepsLock == ASSUME LockInv, NEW b \in Broker, Spawn(b) PROVE LockInv'
<1>1. stage[b] = "off" /\ stage' = [stage EXCEPT ![b] = "listen"] /\ UNCHANGED <<file, ino>>
  BY DEF Spawn, Goes
<1>2. \A a \in Broker : stage'[a] = IF a = b THEN "listen" ELSE stage[a] BY <1>1 DEF LockInv
<1>3. \A a \in Broker : Accepts(a)' => Accepts(a) BY <1>2 DEF Accepts
<1>4. \A d \in Broker : stage'[d] \in {"asking", "stale"} => d # b /\ stage[d] = stage'[d] BY <1>2
<1>5. "off" \notin Past /\ "listen" \notin Past /\ "listen" \in Stages BY DEF Past, Stages
<1>6. file' # None => stage'[file'] \in Past BY <1>1, <1>2, <1>5 DEF LockInv
<1>7. \A a, d \in Broker : a # d /\ stage'[d] \in {"asking", "stale"} => stage'[a] \in Past
  BY <1>1, <1>2, <1>4, <1>5 DEF LockInv
<1>8. \A a, d \in Broker : a # d /\ stage'[d] = "stale" => stage'[a] \in {"closing", "out"}
  BY <1>1, <1>2, <1>4 DEF LockInv
<1> QED BY <1>1, <1>2, <1>3, <1>5, <1>6, <1>7, <1>8 DEF LockInv

LEMMA ListenKeepsLock ==
    ASSUME AtMostTwo, LockInv, NEW b \in Broker, Listen(b) PROVE LockInv'
<1>1. stage[b] = "listen" /\ UNCHANGED ino BY DEF Listen
<1>2. "listen" \notin Past /\ "bound" \in Past /\ "asking" \in Stages \ Past BY DEF Past, Stages
<1>3. CASE file = None
  <2>1. stage' = [stage EXCEPT ![b] = "bound"] /\ file' = b BY <1>3 DEF Listen, Goes
  <2>2. \A a \in Broker : stage'[a] = IF a = b THEN "bound" ELSE stage[a] BY <2>1 DEF LockInv
  <2>3. \A a \in Broker : ~Accepts(a) BY <1>3, Processes DEF LockInv
  <2>4. \A a \in Broker : Accepts(a)' => file' = a BY <2>1, <2>2, <2>3 DEF Accepts
  <2>5. stage'[file'] \in Past BY <1>2, <2>1, <2>2
  <2>6. stage' \in [Broker -> Stages] /\ file' \in Broker BY <1>2, <2>1 DEF LockInv, Past
  <2>7. \A a, d \in Broker : a # d /\ stage'[d] \in {"asking", "stale"} => stage'[a] \in Past
    BY <1>2, <2>2 DEF LockInv
  <2>8. \A a, d \in Broker : a # d /\ stage'[d] = "stale" => stage'[a] \in {"closing", "out"}
    <3>1. SUFFICES ASSUME NEW d \in Broker, d # b, stage[d] = "stale" PROVE FALSE
      BY <2>2 DEF LockInv
    <3> QED BY <1>1, <1>2, <3>1 DEF LockInv
  <2> QED BY <1>1, <2>2, <2>4, <2>5, <2>6, <2>7, <2>8 DEF LockInv
<1>4. CASE file # None
  <2>1. stage' = [stage EXCEPT ![b] = "asking"] /\ file' = file BY <1>4 DEF Listen, Goes
  <2>2. \A a \in Broker : stage'[a] = IF a = b THEN "asking" ELSE stage[a] BY <2>1 DEF LockInv
  <2>3. \A a \in Broker : Accepts(a)' => Accepts(a) BY <2>2 DEF Accepts
  <2>4. file \in Broker /\ file # b /\ stage[file] \in Past BY <1>1, <1>2, <1>4 DEF LockInv
  <2>5. \A a \in Broker : a # b => a = file BY <2>4 DEF AtMostTwo
  <2>6. \A a, d \in Broker : a # d /\ stage'[d] \in {"asking", "stale"} => stage'[a] \in Past
    <3>1. \A d \in Broker : d # b => stage[d] \notin {"asking", "stale"}
      BY <2>4, <2>5 DEF Past
    <3> QED BY <2>2, <2>4, <2>5, <3>1
  <2>7. \A a, d \in Broker : a # d /\ stage'[d] = "stale" => stage'[a] \in {"closing", "out"}
    BY <2>2, <2>4, <2>5 DEF Past
  <2>8. stage' \in [Broker -> Stages] BY <1>2, <2>1 DEF LockInv
  <2>9. \A a \in Broker : stage'[a] \in Past => stage'[a] = stage[a] BY <1>2, <2>2
  <2> QED BY <1>1, <2>1, <2>2, <2>3, <2>4, <2>6, <2>7, <2>8, <2>9 DEF LockInv
<1> QED BY <1>3, <1>4

LEMMA ClassifyKeepsLock ==
    ASSUME AtMostTwo, LockInv, NEW b \in Broker, Classify(b) PROVE LockInv'
<1>1. stage[b] = "asking" /\ UNCHANGED <<file, ino>> BY DEF Classify
<1>2. PICK verdict \in Verdicts :
         stage' = [stage EXCEPT ![b] = IF verdict = "stale" /\ tries[b] < MaxBindAttempts
                                       THEN "stale" ELSE "out"]
  BY DEF Classify, Goes
<1>3. CASE verdict = "stale" /\ tries[b] < MaxBindAttempts
  <2>1. \A a \in Broker : stage'[a] = IF a = b THEN "stale" ELSE stage[a]
    BY <1>2, <1>3 DEF LockInv
  <2>2. file = None \/ ~Accepts(file) BY <1>3 DEF Verdicts, Slow
  <2>3. \A a \in Broker : ~Accepts(a) BY <2>2, Processes DEF LockInv
  <2>4. \A a \in Broker : a # b => stage[a] \in Past BY <1>1 DEF LockInv
  <2>5. \A a \in Broker : a # b => stage[a] \in {"closing", "out"}
    BY <2>3, <2>4 DEF Past, Stages, Accepts
  <2>6. "stale" \in Stages \ Past /\ "asking" \notin Past BY DEF Past, Stages
  <2>7. \A a \in Broker : Accepts(a)' => Accepts(a) BY <2>1 DEF Accepts
  <2>8. stage' \in [Broker -> Stages] BY <1>2, <1>3, <2>6 DEF LockInv
  <2>9. file # None => file # b BY <1>1, <2>6 DEF LockInv
  <2>10. \A a \in Broker : stage'[a] \in Past => stage'[a] = stage[a] BY <2>1, <2>6
  <2>11. file' # None => stage'[file'] \in Past BY <1>1, <2>1, <2>9 DEF LockInv
  <2>12. \A a, d \in Broker : a # d /\ stage'[d] \in {"asking", "stale"} => stage'[a] \in Past
    <3>1. \A d \in Broker : d # b => stage[d] \notin {"asking", "stale"} BY <2>5
    <3> QED BY <2>1, <2>4, <3>1
  <2>13. \A a, d \in Broker : a # d /\ stage'[d] = "stale" => stage'[a] \in {"closing", "out"}
    BY <2>1, <2>5
  <2> QED BY <1>1, <2>1, <2>3, <2>7, <2>8, <2>10, <2>11, <2>12, <2>13 DEF LockInv
<1>4. CASE ~(verdict = "stale" /\ tries[b] < MaxBindAttempts)
  <2>1. stage' = [stage EXCEPT ![b] = "out"] BY <1>2, <1>4
  <2>2. ino' = [ino EXCEPT ![b] = ino[b]] BY <1>1 DEF LockInv
  <2> QED BY <1>1, <2>1 DEF LockInv, Past, Stages, Accepts
<1> QED BY <1>3, <1>4

\* What it removes is nobody's any more.
LEMMA RemoveStaleKeepsLock ==
    ASSUME AtMostTwo, LockInv, NEW b \in Broker, RemoveStale(b) PROVE LockInv'
<1>1. /\ stage[b] = "stale" /\ stage' = [stage EXCEPT ![b] = "listen"]
      /\ file' = None /\ UNCHANGED ino
  BY DEF RemoveStale, Goes
<1>2. \A a \in Broker : stage'[a] = IF a = b THEN "listen" ELSE stage[a] BY <1>1 DEF LockInv
<1>3. \A a \in Broker : a # b => stage[a] \in {"closing", "out"} BY <1>1 DEF LockInv
<1>4. \A a \in Broker : ~Accepts(a)' BY <1>2, <1>3 DEF Accepts
<1>5. "listen" \in Stages \ Past BY DEF Past, Stages
<1>6. \A a \in Broker : stage'[a] \notin {"asking", "stale"} BY <1>2, <1>3
<1>7. stage' \in [Broker -> Stages] BY <1>1, <1>5 DEF LockInv
<1>8. \A a \in Broker : stage'[a] \in Past => stage'[a] = stage[a] BY <1>2, <1>5
<1> QED BY <1>1, <1>4, <1>6, <1>7, <1>8 DEF LockInv

LEMMA OwnItKeepsLock == ASSUME LockInv, NEW b \in Broker, OwnIt(b) PROVE LockInv'
<1>1. stage[b] = "bound" /\ file = b BY DEF OwnIt, LockInv, Accepts
<1>2. /\ stage' = [stage EXCEPT ![b] = "starting"] /\ ino' = [ino EXCEPT ![b] = b]
      /\ file' = file
  BY <1>1, Processes DEF OwnIt, Goes
<1>3. "starting" \in Past BY DEF Past, Stages
<1> QED BY <1>1, <1>2, <1>3, LaterKeepsLock DEF Accepts

\* The steps by which one that owns the socket goes on, still its owner.
LEMMA GoingOnKeepsLock ==
    ASSUME LockInv, NEW b \in Broker, Accepts(b), stage[b] # "bound",
           NEW s \in Past \ {"out"}, Goes(b, s), UNCHANGED ino, file' \in {file, None},
           file' = None => s = "closing"
    PROVE  LockInv'
<1>1. stage[b] \in Past \ {"bound", "out"} BY DEF Accepts, Past, Stages
<1>2. file = b /\ ino[b] = b BY <1>1 DEF LockInv
<1>3. ino' = [ino EXCEPT ![b] = b] BY <1>2 DEF LockInv
<1>4. stage'[b] = s /\ stage' = [stage EXCEPT ![b] = s] BY DEF Goes, LockInv
<1>5. file' = file \/ (file = b /\ file' = None /\ ~Accepts(b)')
  BY <1>2, <1>4 DEF Accepts
<1>6. stage[b] \notin {"off", "closing", "out"} BY DEF Accepts
<1> QED BY <1>3, <1>4, <1>5, <1>6, LaterKeepsLock

LEMMA ShutdownKeepsLock ==
    ASSUME LockInv, NEW b \in Broker, stage[b] \in {"up", "leaving"}, Shutdown(b)
    PROVE  LockInv'
<1>1. Accepts(b) /\ stage[b] # "bound" BY DEF Accepts
<1>2. "closing" \in Past \ {"out"} /\ "unbinding" \in Past \ {"out"} BY DEF Past, Stages
<1>3. CASE Sweep(b)
  <2>1. Goes(b, "closing") /\ UNCHANGED ino /\ file' \in {file, None} BY <1>3 DEF Sweep
  <2> QED BY <1>1, <1>2, <2>1, GoingOnKeepsLock
<1>4. CASE Goes(b, "unbinding") /\ UNCHANGED <<file, ino>>
  <2>1. CASE file = None BY <1>1, <2>1, Processes DEF LockInv
  <2>2. CASE file # None BY <1>1, <1>2, <1>4, <2>2, GoingOnKeepsLock
  <2> QED BY <2>1, <2>2
<1> QED BY <1>3, <1>4 DEF Shutdown

LEMMA SelfExitKeepsLock ==
    ASSUME LockInv, NEW b \in Broker, NEW r \in Reasons, SelfExit(b, r)
    PROVE  LockInv'
<1>1. CASE UNCHANGED <<stage, file, ino>> BY <1>1 DEF LockInv, Accepts
<1>2. CASE stage[b] = "up" /\ Goes(b, "leaving") /\ UNCHANGED <<file, ino>>
  <2>1. Accepts(b) /\ stage[b] # "bound" BY <1>2 DEF Accepts
  <2>2. "leaving" \in Past \ {"out"} BY DEF Past, Stages
  <2>3. file # None BY <2>1, Processes DEF LockInv
  <2> QED BY <1>2, <2>1, <2>2, <2>3, GoingOnKeepsLock
<1>3. CASE stage[b] = "up" /\ Shutdown(b) BY <1>3, ShutdownKeepsLock
<1> QED BY <1>1, <1>2, <1>3 DEF SelfExit, unless

LEMMA EndsKeepLock ==
    ASSUME LockInv, NEW b \in Broker, Ends(b), stage[b] # "off",
           file' = file \/ (file = b /\ file' = None)
    PROVE  LockInv'
<1>1. stage' = [stage EXCEPT ![b] = "out"] /\ ino' = [ino EXCEPT ![b] = None]
  BY DEF Ends, Goes
<1>2. ~Accepts(b)' BY <1>1 DEF Accepts, LockInv
<1>3. "out" \in Past BY DEF Past, Stages
<1> QED BY <1>1, <1>2, <1>3, LaterKeepsLock

LEMMA InitLock == Init => LockInv
BY Processes DEF Init, LockInv, Stages, Past, Accepts

LEMMA StepLock == AtMostTwo /\ LockInv /\ [Next]_vars => LockInv'
<1> SUFFICES ASSUME AtMostTwo, LockInv, [Next]_vars PROVE LockInv'
  OBVIOUS
<1>u. ASSUME UNCHANGED <<stage, file, ino>> PROVE LockInv' BY <1>u DEF LockInv, Accepts
<1>1. CASE UNCHANGED vars BY <1>1, <1>u DEF vars
<1>2. CASE TmuxDies BY <1>2, <1>u DEF TmuxDies
<1>3. ASSUME NEW b \in Broker,
             Spawn(b) \/ Listen(b) \/ Classify(b) \/ RemoveStale(b) \/ OwnIt(b) \/ Start(b)
      PROVE  LockInv'
  <2>1. CASE Start(b)
    <3>1. stage[b] = "starting" /\ Goes(b, "up") /\ UNCHANGED <<file, ino>> BY <2>1 DEF Start
    <3>2. Accepts(b) /\ stage[b] # "bound" BY <3>1 DEF Accepts
    <3>3. "up" \in Past \ {"out"} BY DEF Past, Stages
    <3>4. file # None BY <3>2, Processes DEF LockInv
    <3> QED BY <3>1, <3>2, <3>3, <3>4, GoingOnKeepsLock
  <2> QED BY <1>3, <2>1, SpawnKeepsLock, ListenKeepsLock, ClassifyKeepsLock,
             RemoveStaleKeepsLock, OwnItKeepsLock
<1>4. ASSUME NEW b \in Broker, MetricsClosed(b) PROVE LockInv'
  <2>1. Accepts(b) /\ stage[b] # "bound" BY <1>4 DEF MetricsClosed, Accepts
  <2>2. Goes(b, "closing") /\ UNCHANGED ino /\ file' \in {file, None}
    BY <1>4 DEF MetricsClosed, Sweep
  <2>3. "closing" \in Past \ {"out"} BY DEF Past, Stages
  <2> QED BY <2>1, <2>2, <2>3, GoingOnKeepsLock
<1>5. ASSUME NEW b \in Broker, ServerClosed(b) PROVE LockInv'
  <2>1. stage[b] = "closing" /\ file' = Unlinked(b) /\ Ends(b) BY <1>5 DEF ServerClosed
  <2>2. ino[b] = b BY <2>1 DEF LockInv, Past, Stages
  <2> QED BY <2>1, <2>2, EndsKeepLock DEF Unlinked
<1>6. ASSUME NEW b \in Broker, Crash(b) PROVE LockInv'
  BY <1>6, EndsKeepLock DEF Crash
<1>7. ASSUME NEW b \in Broker, Terminate(b) \/ Drained(b) \/ DrainDeadline(b) PROVE LockInv'
  BY <1>7, ShutdownKeepsLock DEF Terminate, Drained, DrainDeadline
<1>8. ASSUME NEW b \in Broker, IdleTimer(b) PROVE LockInv'
  BY <1>8, <1>u, SelfExitKeepsLock DEF IdleTimer, Reasons
<1>9. ASSUME NEW b \in Broker, ProbeGone(b) PROVE LockInv'
  BY <1>9, <1>u, SelfExitKeepsLock DEF ProbeGone, Reasons, unwatched
<1>10. ASSUME NEW b \in Broker,
              \/ Farewell(b) \/ WatcherAttaches(b) \/ WatcherEof(b) \/ ProbeNotGone(b)
              \/ Respawn(b) \/ CreateSession(b) \/ Claimed(b)
       PROVE  LockInv'
  BY <1>10, <1>u DEF Farewell, WatcherAttaches, WatcherEof, ProbeNotGone, Respawn,
     CreateSession, Claimed, rest, unwatched
<1>11. ASSUME NEW c \in Client,
              \/ Connect(c) \/ Close(c) \/ SocketEnds(c) \/ HandshakeEnds(c) \/ Reconciled(c)
              \/ Attach(c) \/ Attached(c) \/ Claim(c)
       PROVE  LockInv'
  BY <1>11, <1>u DEF Connect, Close, SocketEnds, HandshakeEnds, Reconciled, Attach, Attached,
     Claim, rest
<1> QED BY <1>1, <1>2, <1>3, <1>4, <1>5, <1>6, <1>7, <1>8, <1>9, <1>10, <1>11 DEF Next

\* Of two brokers that contend for the socket, whatever becomes of either, one listens at
\* a time, and the one that starts or serves is the one at the path (_bindSocketAsOwner,
\* the inode in _shutdownOnce).
THEOREM TwoShareOneLock == ASSUME AtMostTwo PROVE Spec => []SocketIsTheLock
<1>1. LockInv => SocketIsTheLock BY DEF LockInv, SocketIsTheLock, Accepts
<1>2. Init => LockInv BY InitLock
<1>3. LockInv /\ [Next]_vars => LockInv' BY StepLock
<1> QED BY <1>1, <1>2, <1>3, PTL DEF Spec

-----------------------------------------------------------------------------
(* The leaves *)

leaving == <<stage, exits, proxy, maker, conns, tmux, told>>

LEMMA NothingKeepsLeave == ASSUME LeaveInv, UNCHANGED leaving PROVE LeaveInv'
BY DEF LeaveInv, TypeInv, ServedByProxy, OwedIsOrphaned, SaidWhenDrained, LeavesInOrder,
   Conns, leaving, exits, conns, told

\* A step of a broker that does not shut down, and leaves the rest as it is.
LEMMA StageKeepsLeave ==
    ASSUME LeaveInv, NEW b \in Broker, NEW s \in Stages \ {"unbinding", "closing"},
           Goes(b, s), UNCHANGED <<exits, proxy, maker, conns, tmux, told>>
    PROVE  LeaveInv'
<1>1. \A a \in Broker : stage'[a] = IF a = b THEN s ELSE stage[a]
  BY DEF Goes, LeaveInv, TypeInv
<1>2. TypeInv' BY DEF LeaveInv, TypeInv, Goes, exits, conns, told
<1>3. ServedByProxy' /\ OwedIsOrphaned'
  BY DEF LeaveInv, ServedByProxy, OwedIsOrphaned, exits, conns, told
<1>4. SaidWhenDrained' BY <1>1 DEF LeaveInv, SaidWhenDrained, exits, conns, told
<1>5. LeavesInOrder' BY <1>1 DEF LeaveInv, LeavesInOrder, Conns, exits, conns, told
<1> QED BY <1>2, <1>3, <1>4, <1>5 DEF LeaveInv

\* A step of one connection, that is not yet one to serve.
LEMMA ConnKeepsLeave ==
    ASSUME LeaveInv, NEW c \in Client, NEW p \in Places, NEW s \in {"open", "dying", "closed"},
           place' = [place EXCEPT ![c] = p], sock' = [sock EXCEPT ![c] = s],
           UNCHANGED <<stage, exits, proxy, maker, at, tmux, told>>,
           p = "served" => place[c] = "served",
           c \in owed => p \in {place[c], "over"},
           p = "table" => place[c] = "table" \/ at[c] \notin Broker \/ ~ShuttingDown(at[c]),
           sock[c] = "closed" => s = "closed"
    PROVE  LeaveInv'
<1>1. \A d \in Client : /\ place'[d] = IF d = c THEN p ELSE place[d]
                        /\ sock'[d] = IF d = c THEN s ELSE sock[d]
  BY DEF LeaveInv, TypeInv
<1>2. TypeInv' BY DEF LeaveInv, TypeInv, exits, told
<1>3. ServedByProxy' BY <1>1 DEF LeaveInv, ServedByProxy
<1>4. OwedIsOrphaned'
  <2>1. owed \subseteq Client BY DEF LeaveInv, TypeInv
  <2> QED BY <1>1, <2>1 DEF LeaveInv, OwedIsOrphaned, exits, told
<1>5. SaidWhenDrained'
  <2>1. owed \subseteq Client BY DEF LeaveInv, TypeInv
  <2> QED BY <1>1, <2>1 DEF LeaveInv, SaidWhenDrained, exits, told
<1>6. LeavesInOrder'
  <2>1. SUFFICES ASSUME NEW b \in Broker, stage[b] = "closing", NEW d \in Client, at[d] = b
                 PROVE  place'[d] \notin {"table", "served"} \/ sock'[d] = "closed"
    BY DEF LeaveInv, LeavesInOrder, Conns, exits, told
  <2>2. place[d] \notin {"table", "served"} \/ sock[d] = "closed"
    BY <2>1 DEF LeaveInv, LeavesInOrder, Conns
  <2>3. ShuttingDown(b) BY <2>1 DEF ShuttingDown
  <2> QED BY <1>1, <2>1, <2>2, <2>3
<1> QED BY <1>2, <1>3, <1>4, <1>5, <1>6 DEF LeaveInv

LEMMA RefuseKeepsLeave ==
    ASSUME LeaveInv, NEW c \in Client, Refuse(c),
           UNCHANGED <<stage, exits, proxy, maker, tmux, told>>
    PROVE  LeaveInv'
<1> DEFINE s == IF sock[c] = "open" THEN "dying" ELSE sock[c]
<1>1. place' = [place EXCEPT ![c] = "over"] /\ sock' = [sock EXCEPT ![c] = s] /\ UNCHANGED at
  BY DEF Refuse
<1>2. s \in {"open", "dying", "closed"} /\ (sock[c] = "closed" => s = "closed")
  BY DEF LeaveInv, TypeInv
<1>3. "over" \in Places BY DEF Places
<1> HIDE DEF s
<1> QED BY <1>1, <1>2, <1>3, ConnKeepsLeave

LEMMA StepKeepsLeave ==
    ASSUME LeaveInv, NEW c \in Client, NEW p \in Places \ {"served"}, Step(c, p),
           UNCHANGED <<stage, exits, proxy, maker, tmux, told>>,
           place[c] \notin {"served", "over"},
           p = "table" => place[c] = "table" \/ at[c] \notin Broker \/ ~ShuttingDown(at[c])
    PROVE  LeaveInv'
<1>1. place' = [place EXCEPT ![c] = p] /\ UNCHANGED <<at, sock>> BY DEF Step
<1>2. sock[c] \in {"open", "dying", "closed"} /\ sock' = [sock EXCEPT ![c] = sock[c]]
  BY <1>1 DEF LeaveInv, TypeInv
<1>3. c \notin owed BY DEF LeaveInv, OwedIsOrphaned
<1> QED BY <1>1, <1>2, <1>3, ConnKeepsLeave

\* The proxy is made, by a claim or before any shutdown: none that is owed a farewell is
\* served where there was no proxy.
LEMMA EnsuredKeepsLeave ==
    ASSUME LeaveInv, NEW b \in Broker, NEW verb \in {"attach", "claim"}, Ensured(b, verb),
           verb = "claim" \/ ~ShuttingDown(b),
           UNCHANGED <<stage, exits, conns, tmux, told>>
    PROVE  LeaveInv' /\ proxy'[b] # "none"
<1>1. CASE proxy[b] # "none" /\ UNCHANGED <<proxy, maker>>
  BY <1>1, NothingKeepsLeave DEF leaving
<1>2. CASE proxy[b] = "none" /\ tmux /\ proxy' = [proxy EXCEPT ![b] = "up"]
           /\ maker' = [maker EXCEPT ![b] = verb]
  <2>1. \A a \in Broker : /\ proxy'[a] = IF a = b THEN "up" ELSE proxy[a]
                          /\ maker'[a] = IF a = b THEN verb ELSE maker[a]
    BY <1>2 DEF LeaveInv, TypeInv
  <2>2. TypeInv' BY <1>2 DEF LeaveInv, TypeInv, exits, conns, told
  <2>3. ServedByProxy' BY <1>2, <2>1 DEF LeaveInv, ServedByProxy, conns
  <2>4. OwedIsOrphaned' BY <1>2, <2>1 DEF LeaveInv, OwedIsOrphaned, conns, exits, told
  <2>5. SaidWhenDrained' BY DEF LeaveInv, SaidWhenDrained, conns, exits, told
  <2>6. LeavesInOrder'
    BY <2>1 DEF LeaveInv, LeavesInOrder, Conns, ShuttingDown, conns, exits, told
  <2> QED BY <1>2, <2>1, <2>2, <2>3, <2>4, <2>5, <2>6 DEF LeaveInv
<1> QED BY <1>1, <1>2 DEF Ensured

LEMMA ConnectKeepsLeave == ASSUME LeaveInv, NEW c \in Client, Connect(c), file \in Broker
                           PROVE  LeaveInv'
<1>1. /\ place[c] = "off" /\ at' = [at EXCEPT ![c] = file]
      /\ place' = [place EXCEPT ![c] = "shaking"] /\ sock' = [sock EXCEPT ![c] = "open"]
      /\ UNCHANGED <<stage, exits, proxy, maker, tmux, told>>
  BY DEF Connect, rest, session
<1>2. \A d \in Client : /\ at'[d] = IF d = c THEN file ELSE at[d]
                        /\ place'[d] = IF d = c THEN "shaking" ELSE place[d]
                        /\ sock'[d] = IF d = c THEN "open" ELSE sock[d]
  BY <1>1 DEF LeaveInv, TypeInv
<1>3. owed \subseteq Client /\ cut \subseteq owed /\ c \notin owed
  BY <1>1 DEF LeaveInv, TypeInv, OwedIsOrphaned
<1>4. TypeInv' BY <1>1 DEF LeaveInv, TypeInv, exits, told, Places
<1>5. ServedByProxy' BY <1>1, <1>2 DEF LeaveInv, ServedByProxy
<1>6. OwedIsOrphaned' BY <1>1, <1>2, <1>3 DEF LeaveInv, OwedIsOrphaned, exits, told
<1>7. SaidWhenDrained' BY <1>1, <1>2, <1>3 DEF LeaveInv, SaidWhenDrained, exits, told
<1>8. LeavesInOrder' BY <1>1, <1>2, <1>3 DEF LeaveInv, LeavesInOrder, Conns, exits, told
<1> QED BY <1>4, <1>5, <1>6, <1>7, <1>8 DEF LeaveInv

\* Handed to the proxy past the second look at the shutdown.
LEMMA AttachedKeepsLeave == ASSUME LeaveInv, NEW c \in Client, Attached(c) PROVE LeaveInv'
<1>1. Running(c) /\ place[c] = "attaching" /\ UNCHANGED <<stage, exits, tmux, told>>
  BY DEF Attached, rest
<1>2. CASE Refuse(c) /\ UNCHANGED session BY <1>1, <1>2, RefuseKeepsLeave DEF session
<1>3. CASE ~Refused(c) /\ Ensured(at[c], "attach") /\ Step(c, "served")
  <2> DEFINE b == at[c]
  <2>1. b \in Broker /\ ~ShuttingDown(b)
    BY <1>1, <1>3 DEF Running, Refused, LeaveInv, TypeInv
  <2>3. place' = [place EXCEPT ![c] = "served"] /\ UNCHANGED <<at, sock>> BY <1>3 DEF Step
  <2>4. \A d \in Client : place'[d] = IF d = c THEN "served" ELSE place[d]
    BY <2>3 DEF LeaveInv, TypeInv
  <2>5. \/ proxy[b] # "none" /\ UNCHANGED <<proxy, maker>>
        \/ /\ proxy[b] = "none" /\ tmux
           /\ proxy' = [proxy EXCEPT ![b] = "up"] /\ maker' = [maker EXCEPT ![b] = "attach"]
    BY <1>3 DEF Ensured
  <2>6. /\ proxy'[b] # "none" /\ (proxy'[b] = "up" => tmux)
        /\ \A a \in Broker : a # b => proxy'[a] = proxy[a] /\ maker'[a] = maker[a]
        /\ proxy[b] # "none" => proxy'[b] = proxy[b]
    BY <2>1, <2>5 DEF LeaveInv, TypeInv, ServedByProxy
  <2>7. owed \subseteq Client /\ cut \subseteq owed /\ c \notin owed
    BY <1>1 DEF LeaveInv, TypeInv, OwedIsOrphaned
  <2>8. stage[b] # "closing" BY <2>1 DEF ShuttingDown
  <2> HIDE DEF b
  <2>9. TypeInv' BY <1>1, <2>3, <2>5 DEF LeaveInv, TypeInv, exits, told, Places
  <2>10. ServedByProxy'
    <3>1. \A a \in Broker : proxy'[a] = "up" => tmux' BY <1>1, <2>6 DEF LeaveInv, ServedByProxy
    <3>2. ASSUME NEW d \in Client, place'[d] = "served"
          PROVE  at'[d] \in Broker /\ proxy'[at'[d]] # "none"
      <4>1. CASE d = c BY <2>1, <2>3, <2>6, <4>1 DEF b
      <4>2. CASE d # c
        <5>1. at[d] \in Broker /\ proxy[at[d]] # "none"
          BY <2>4, <3>2, <4>2 DEF LeaveInv, ServedByProxy
        <5> QED BY <2>3, <2>6, <5>1
      <4> QED BY <4>1, <4>2
    <3> QED BY <3>1, <3>2 DEF ServedByProxy
  <2>11. OwedIsOrphaned'
    <3>1. ASSUME NEW d \in owed
          PROVE  /\ at'[d] \in Broker /\ why'[at'[d]] = "tmux-gone"
                 /\ place'[d] \in {"served", "over"}
                 /\ place'[d] = "served" => proxy'[at'[d]] = "orphan"
      <4>1. /\ at[d] \in Broker /\ why[at[d]] = "tmux-gone" /\ place[d] \in {"served", "over"}
            /\ place[d] = "served" => proxy[at[d]] = "orphan"
        BY DEF LeaveInv, OwedIsOrphaned
      <4>2. place'[d] = place[d] BY <2>4, <2>7
      <4> QED BY <1>1, <2>3, <2>6, <4>1, <4>2 DEF exits
    <3> QED BY <1>1, <3>1 DEF OwedIsOrphaned, told
  <2>12. SaidWhenDrained'
    BY <1>1, <2>3, <2>4, <2>7 DEF LeaveInv, SaidWhenDrained, exits, told
  <2>13. LeavesInOrder'
    <3>1. ASSUME NEW a \in Broker, why[a] = "tmux-gone" /\ ~hurried[a]
          PROVE  cut \cap Conns(a) = {}
      BY <3>1 DEF LeaveInv, LeavesInOrder
    <3>2. ASSUME NEW a \in Broker, stage[a] = "closing"
          PROVE  proxy'[a] = "none" \/ maker'[a] = "claim"
      BY <2>6, <2>8, <3>2 DEF LeaveInv, LeavesInOrder
    <3>3. ASSUME NEW a \in Broker, stage[a] = "closing", NEW d \in Client, at[d] = a
          PROVE  place'[d] \notin {"table", "served"} \/ sock[d] = "closed"
      <4>1. d # c BY <2>8, <3>3 DEF b
      <4> QED BY <2>4, <3>3, <4>1 DEF LeaveInv, LeavesInOrder, Conns
    <3> QED BY <1>1, <2>3, <3>1, <3>2, <3>3 DEF LeavesInOrder, Conns, exits, told
  <2> QED BY <2>9, <2>10, <2>11, <2>12, <2>13 DEF LeaveInv
<1> QED BY <1>2, <1>3 DEF Attached, session

\* What a broker that goes may note of it: the reason, when it is idle, and that it is hurried.
Leaving(b) ==
    /\ why' \in [Broker -> Reasons \cup {None}] /\ hurried' \in [Broker -> BOOLEAN]
    /\ \A a \in Broker : a # b => why'[a] = why[a] /\ hurried'[a] = hurried[a]
    /\ why'[b] = why[b] \/ (why[b] = None /\ why'[b] = "idle")
    /\ hurried[b] => hurried'[b]

\* The sweep closes everybody, and reaps the proxy: in time, unless hurried.
LEMMA SweepKeepsLeave ==
    ASSUME LeaveInv, NEW b \in Broker, Sweep(b), Leaving(b),
           why'[b] = "tmux-gone" /\ ~hurried'[b] =>
              \A c \in owed : at[c] = b => place[c] # "served" \/ proxy[b] # "orphan"
    PROVE  LeaveInv'
<1>1. /\ stage' = [stage EXCEPT ![b] = "closing"] /\ proxy' = [proxy EXCEPT ![b] = "none"]
      /\ UNCHANGED <<at, maker, tmux, owed>>
  BY DEF Sweep, Goes
<1>2. \A d \in Client :
        /\ sock'[d] = IF at[d] = b /\ sock[d] = "open" THEN "dying" ELSE sock[d]
        /\ place'[d] = IF at[d] = b /\ place[d] \in {"shaking", "table", "served"}
                       THEN "over" ELSE place[d]
  BY DEF Sweep, Accepted, Conns
<1>3. cut' = cut \cup {c \in owed \cap Conns(b) :
                       place[c] = "served" /\ sock[c] = "open" /\ proxy[b] = "orphan"}
  BY DEF Sweep
<1>4. owed \subseteq Client /\ cut \subseteq owed BY DEF LeaveInv, TypeInv
<1>5. \A a \in Broker : /\ stage'[a] = IF a = b THEN "closing" ELSE stage[a]
                        /\ proxy'[a] = IF a = b THEN "none" ELSE proxy[a]
  BY <1>1 DEF LeaveInv, TypeInv
<1>e. \A a \in Broker : /\ why'[a] = "tmux-gone" <=> why[a] = "tmux-gone"
                        /\ ~hurried'[a] => ~hurried[a]
  BY Processes DEF Leaving, Reasons
<1>6. TypeInv'
  <2>1. stage' \in [Broker -> Stages] /\ proxy' \in [Broker -> {"none", "up", "orphan"}]
    BY <1>1 DEF LeaveInv, TypeInv, Stages
  <2>2. \A d \in Client : sock[d] \in {"open", "dying", "closed"} /\ place[d] \in Places
    BY DEF LeaveInv, TypeInv
  <2>3. place' \in [Client -> Places] /\ sock' \in [Client -> {"open", "dying", "closed"}]
    BY <2>2 DEF Sweep, Places
  <2>4. owed' \subseteq Client /\ cut' \subseteq owed' BY <1>1, <1>3, <1>4
  <2> QED BY <1>1, <2>1, <2>3, <2>4 DEF LeaveInv, TypeInv, Leaving
<1>7. ServedByProxy' BY <1>1, <1>2, <1>5 DEF LeaveInv, ServedByProxy
<1>8. OwedIsOrphaned'
  <2>1. ASSUME NEW d \in owed
        PROVE  /\ at[d] \in Broker /\ why[at[d]] = "tmux-gone" /\ place'[d] \in {"served", "over"}
               /\ place'[d] = "served" => proxy'[at[d]] = "orphan"
    <3>1. /\ at[d] \in Broker /\ why[at[d]] = "tmux-gone" /\ place[d] \in {"served", "over"}
          /\ place[d] = "served" => proxy[at[d]] = "orphan"
      BY DEF LeaveInv, OwedIsOrphaned
    <3> QED BY <1>2, <1>4, <1>5, <3>1
  <2> QED BY <1>1, <1>e, <2>1 DEF OwedIsOrphaned
<1>9. SaidWhenDrained'
  <2>1. ASSUME NEW a \in Broker, stage'[a] = "unbinding", why[a] = "tmux-gone", ~hurried'[a],
               NEW d \in owed, at[d] = a
        PROVE  place'[d] # "served"
    <3>1. a # b /\ stage[a] = "unbinding" /\ ~hurried[a] BY <1>5, <1>e, <2>1
    <3>2. place[d] # "served" BY <2>1, <3>1 DEF LeaveInv, SaidWhenDrained
    <3> QED BY <1>2, <1>4, <3>2
  <2> QED BY <1>1, <1>e, <2>1 DEF SaidWhenDrained
<1>10. LeavesInOrder'
  <2>1. ASSUME NEW a \in Broker, why[a] = "tmux-gone", ~hurried'[a], NEW d \in cut', at[d] = a
        PROVE  FALSE
    <3>1. ~hurried[a] BY <1>e, <2>1
    <3>2. d \notin cut BY <1>4, <2>1, <3>1 DEF LeaveInv, LeavesInOrder, Conns
    <3>3. d \in owed /\ at[d] = b /\ place[d] = "served" /\ proxy[b] = "orphan"
      BY <1>3, <2>1, <3>2 DEF Conns
    <3> QED BY <1>e, <2>1, <3>3
  <2>2. ASSUME NEW a \in Broker, stage'[a] = "closing"
        PROVE  proxy'[a] = "none" \/ maker[a] = "claim"
    BY <1>5, <2>2 DEF LeaveInv, LeavesInOrder
  <2>3. ASSUME NEW a \in Broker, stage'[a] = "closing", NEW d \in Client, at[d] = a
        PROVE  place'[d] \notin {"table", "served"} \/ sock'[d] = "closed"
    <3>1. CASE a = b BY <1>2, <2>3, <3>1
    <3>2. CASE a # b
      <4>1. place[d] \notin {"table", "served"} \/ sock[d] = "closed"
        BY <1>5, <2>3, <3>2 DEF LeaveInv, LeavesInOrder, Conns
      <4> QED BY <1>2, <2>3, <3>2, <4>1
    <3> QED BY <3>1, <3>2
  <2> QED BY <1>1, <1>e, <2>1, <2>2, <2>3 DEF LeavesInOrder, Conns
<1> QED BY <1>6, <1>7, <1>8, <1>9, <1>10 DEF LeaveInv

\* The shutdown, at once or when the metrics listener has closed.
LEMMA ShutdownKeepsLeave ==
    ASSUME LeaveInv, NEW b \in Broker, Shutdown(b), Leaving(b),
           why'[b] = "tmux-gone" /\ ~hurried'[b] => proxy[b] # "orphan"
    PROVE  LeaveInv'
<1>1. CASE Sweep(b) BY <1>1, SweepKeepsLeave
<1>2. CASE Goes(b, "unbinding") /\ UNCHANGED <<conns, session, tmux, told>>
  <2>1. \A a \in Broker : stage'[a] = IF a = b THEN "unbinding" ELSE stage[a]
    BY <1>2 DEF Goes, LeaveInv, TypeInv
  <2>2. \A a \in Broker : /\ why'[a] = "tmux-gone" <=> why[a] = "tmux-gone"
                          /\ ~hurried'[a] => ~hurried[a]
    BY Processes DEF Leaving, Reasons
  <2>3. TypeInv'
    BY <1>2 DEF LeaveInv, TypeInv, Leaving, Goes, Stages, conns, session, told
  <2>4. ServedByProxy' BY <1>2 DEF LeaveInv, ServedByProxy, conns, session
  <2>5. OwedIsOrphaned' BY <1>2, <2>2 DEF LeaveInv, OwedIsOrphaned, conns, session, told
  <2>6. SaidWhenDrained'
    <3>1. ASSUME NEW d \in owed, at[d] = b, proxy[b] # "orphan" PROVE place[d] # "served"
      BY <3>1 DEF LeaveInv, OwedIsOrphaned
    <3> QED BY <1>2, <2>1, <2>2, <3>1 DEF LeaveInv, SaidWhenDrained, conns, told
  <2>7. LeavesInOrder'
    BY <1>2, <2>1, <2>2 DEF LeaveInv, LeavesInOrder, Conns, conns, session, told
  <2> QED BY <2>3, <2>4, <2>5, <2>6, <2>7 DEF LeaveInv
<1> QED BY <1>1, <1>2 DEF Shutdown

\* It leaves because tmux is gone: whom it serves, a proxy without its tmux serves.
LEMMA SelfExitKeepsLeave ==
    ASSUME LeaveInv, NEW b \in Broker, NEW r \in Reasons, SelfExit(b, r), Acting(b),
           r = "tmux-gone" => ~tmux
    PROVE  LeaveInv'
<1>1. why[b] = None /\ why' = [why EXCEPT ![b] = r] /\ UNCHANGED hurried
  BY DEF Acting, SelfExit, Exiting
<1>2. \A a \in Broker : why'[a] = IF a = b THEN r ELSE why[a] BY <1>1 DEF LeaveInv, TypeInv
<1>3. \A d \in owed : at[d] \in Broker \ {b}
  BY <1>1, Processes DEF LeaveInv, OwedIsOrphaned, Reasons
<1>4. why' \in [Broker -> Reasons \cup {None}] BY <1>1 DEF LeaveInv, TypeInv
<1>5. owed \subseteq Client /\ cut \subseteq owed BY DEF LeaveInv, TypeInv
<1>6. CASE ShuttingDown(b) /\ UNCHANGED <<stage, proxy, maker, conns, tmux, told>>
  <2>1. TypeInv' BY <1>1, <1>4, <1>6 DEF LeaveInv, TypeInv, conns, told
  <2>2. ServedByProxy' BY <1>6 DEF LeaveInv, ServedByProxy, conns
  <2>3. OwedIsOrphaned' BY <1>2, <1>3, <1>6 DEF LeaveInv, OwedIsOrphaned, conns, told
  <2>4. SaidWhenDrained' BY <1>1, <1>2, <1>3, <1>6 DEF LeaveInv, SaidWhenDrained, conns, told
  <2>5. LeavesInOrder'
    BY <1>1, <1>2, <1>3, <1>5, <1>6 DEF LeaveInv, LeavesInOrder, Conns, conns, told
  <2> QED BY <2>1, <2>2, <2>3, <2>4, <2>5 DEF LeaveInv
<1>7. CASE /\ stage[b] = "up" /\ r = "tmux-gone" /\ Goes(b, "leaving")
           /\ owed' = owed \cup {c \in Conns(b) : place[c] = "served"}
           /\ UNCHANGED <<cut, proxy, maker, conns, tmux>>
  <2>1. \A a \in Broker : stage'[a] = IF a = b THEN "leaving" ELSE stage[a]
    BY <1>7 DEF Goes, LeaveInv, TypeInv
  <2>2. owed' \subseteq Client /\ cut' \subseteq owed' BY <1>5, <1>7 DEF Conns
  <2>3. TypeInv' BY <1>1, <1>4, <1>7, <2>2 DEF LeaveInv, TypeInv, Goes, Stages, conns
  <2>4. ServedByProxy' BY <1>7 DEF LeaveInv, ServedByProxy, conns
  <2>5. \A c \in Client : at[c] = b /\ place[c] = "served" => proxy[b] = "orphan"
    <3>1. proxy[b] # "up" BY <1>7 DEF LeaveInv, ServedByProxy
    <3>2. proxy[b] \in {"none", "up", "orphan"} BY DEF LeaveInv, TypeInv
    <3> QED BY <3>1, <3>2 DEF LeaveInv, ServedByProxy
  <2>6. OwedIsOrphaned'
    <3>1. ASSUME NEW d \in owed'
          PROVE  /\ at[d] \in Broker /\ why'[at[d]] = "tmux-gone"
                 /\ place[d] \in {"served", "over"}
                 /\ place[d] = "served" => proxy[at[d]] = "orphan"
      <4>1. CASE d \in owed BY <1>2, <1>3, <4>1 DEF LeaveInv, OwedIsOrphaned
      <4>2. CASE d \in Conns(b) /\ place[d] = "served"
        BY <1>2, <1>7, <2>5, <4>2 DEF Conns
      <4> QED BY <1>7, <4>1, <4>2
    <3> QED BY <1>7, <3>1 DEF OwedIsOrphaned, conns
  <2>7. SaidWhenDrained'
    <3>1. ASSUME NEW a \in Broker, stage'[a] = "unbinding", why'[a] = "tmux-gone", ~hurried[a],
                 NEW d \in owed', at[d] = a
          PROVE  place[d] # "served"
      <4>1. a # b /\ stage[a] = "unbinding" /\ why[a] = "tmux-gone" BY <1>2, <2>1, <3>1
      <4>2. d \in owed BY <1>7, <3>1, <4>1 DEF Conns
      <4> QED BY <3>1, <4>1, <4>2 DEF LeaveInv, SaidWhenDrained
    <3> QED BY <1>1, <1>7, <3>1 DEF SaidWhenDrained, conns
  <2>8. LeavesInOrder'
    BY <1>1, <1>2, <1>3, <1>5, <1>7, <2>1 DEF LeaveInv, LeavesInOrder, Conns, conns
  <2> QED BY <2>3, <2>4, <2>6, <2>7, <2>8 DEF LeaveInv
<1>8. CASE stage[b] = "up" /\ r = "idle" /\ Shutdown(b)
  <2>1. Leaving(b) BY <1>1, <1>2, <1>4, <1>8 DEF Leaving, LeaveInv, TypeInv
  <2> QED BY <1>2, <1>8, <2>1, ShutdownKeepsLeave
<1> QED BY <1>6, <1>7, <1>8 DEF SelfExit, unless, session, told

LEMMA EndsKeepsLeave == ASSUME LeaveInv, NEW b \in Broker, Ends(b) PROVE LeaveInv'
<1>1. \A d \in Client : /\ at'[d] = IF at[d] = b THEN None ELSE at[d]
                        /\ place'[d] = IF at[d] = b THEN "over" ELSE place[d]
                        /\ sock'[d] = IF at[d] = b THEN "closed" ELSE sock[d]
  BY DEF Ends
<1>2. \A a \in Broker \ {b} : /\ stage'[a] = stage[a] /\ proxy'[a] = proxy[a]
                              /\ maker'[a] = maker[a] /\ why'[a] = why[a]
                              /\ hurried'[a] = hurried[a]
  BY DEF Ends, Goes, LeaveInv, TypeInv
<1>3. stage'[b] = "out" /\ why'[b] = None /\ proxy'[b] = "none"
  BY DEF Ends, Goes, LeaveInv, TypeInv
<1>4. owed' = owed \ Conns(b) /\ cut' = cut \ Conns(b) /\ tmux' = tmux BY DEF Ends
<1>5. owed \subseteq Client /\ cut \subseteq owed BY DEF LeaveInv, TypeInv
<1>6. \A d \in owed' : d \in owed /\ at[d] # b /\ at'[d] = at[d] /\ place'[d] = place[d]
  BY <1>1, <1>4, <1>5 DEF Conns
<1>7. b # None BY Processes
<1>8. \A d \in Client : at'[d] # b BY <1>1, <1>7
<1>9. TypeInv'
  <2>1. /\ stage' \in [Broker -> Stages] /\ why' \in [Broker -> Reasons \cup {None}]
        /\ hurried' \in [Broker -> BOOLEAN] /\ proxy' \in [Broker -> {"none", "up", "orphan"}]
        /\ maker' \in [Broker -> {None, "attach", "claim"}]
    BY DEF Ends, Goes, LeaveInv, TypeInv, Stages
  <2>2. \A d \in Client : /\ at[d] \in Broker \cup {None} /\ place[d] \in Places
                          /\ sock[d] \in {"open", "dying", "closed"}
    BY DEF LeaveInv, TypeInv
  <2>3. /\ at' \in [Client -> Broker \cup {None}] /\ place' \in [Client -> Places]
        /\ sock' \in [Client -> {"open", "dying", "closed"}]
    BY <2>2 DEF Ends, Places
  <2>4. owed' \subseteq Client /\ cut' \subseteq owed' BY <1>4, <1>5
  <2> QED BY <1>4, <2>1, <2>3, <2>4 DEF LeaveInv, TypeInv
<1>10. ServedByProxy'
  <2>1. ASSUME NEW d \in Client, place'[d] = "served"
        PROVE  at'[d] \in Broker /\ proxy'[at'[d]] # "none"
    <3>1. at[d] # b /\ at'[d] = at[d] /\ place[d] = "served" BY <1>1, <2>1
    <3>2. at[d] \in Broker /\ proxy[at[d]] # "none" BY <3>1 DEF LeaveInv, ServedByProxy
    <3> QED BY <1>2, <3>1, <3>2
  <2>2. \A a \in Broker : proxy'[a] = "up" => tmux'
    BY <1>2, <1>3, <1>4 DEF LeaveInv, ServedByProxy
  <2> QED BY <2>1, <2>2 DEF ServedByProxy
<1>11. OwedIsOrphaned' BY <1>2, <1>6 DEF LeaveInv, OwedIsOrphaned
<1>12. SaidWhenDrained'
  <2>1. ASSUME NEW a \in Broker, stage'[a] = "unbinding", why'[a] = "tmux-gone", ~hurried'[a],
               NEW d \in owed', at'[d] = a
        PROVE  place'[d] # "served"
    <3>1. a # b BY <1>3, <2>1
    <3> QED BY <1>2, <1>6, <2>1, <3>1 DEF LeaveInv, SaidWhenDrained
  <2> QED BY <2>1 DEF SaidWhenDrained
<1>13. LeavesInOrder'
  <2>1. ASSUME NEW a \in Broker, a # b,
               why'[a] = "tmux-gone" /\ ~hurried'[a] PROVE cut' \cap Conns(a)' = {}
    <3>1. cut \cap Conns(a) = {} BY <1>2, <2>1 DEF LeaveInv, LeavesInOrder
    <3> QED BY <1>1, <1>4, <1>5, <1>7, <2>1, <3>1 DEF Conns
  <2>2. cut' \cap Conns(b)' = {} BY <1>8 DEF Conns
  <2>3. ASSUME NEW a \in Broker, stage'[a] = "closing"
        PROVE  /\ proxy'[a] = "none" \/ maker'[a] = "claim"
               /\ \A d \in Conns(a)' : place'[d] \notin {"table", "served"} \/ sock'[d] = "closed"
    <3>1. a # b BY <1>3, <2>3
    <3>2. a # None BY Processes
    <3>3. \A d \in Conns(a)' : d \in Conns(a) /\ place'[d] = place[d] /\ sock'[d] = sock[d]
      BY <1>1, <3>1, <3>2 DEF Conns
    <3> QED BY <1>2, <2>3, <3>1, <3>3 DEF LeaveInv, LeavesInOrder
  <2> QED BY <2>1, <2>2, <2>3 DEF LeavesInOrder
<1> QED BY <1>9, <1>10, <1>11, <1>12, <1>13 DEF LeaveInv

LEMMA TmuxDiesKeepsLeave == ASSUME LeaveInv, TmuxDies PROVE LeaveInv'
<1>1. /\ tmux' = FALSE /\ UNCHANGED <<stage, exits, maker, conns, told>>
      /\ \A a \in Broker : proxy'[a] = IF proxy[a] = "up" THEN "orphan" ELSE proxy[a]
  BY DEF TmuxDies
<1>2. proxy' \in [Broker -> {"none", "up", "orphan"}] BY DEF TmuxDies, LeaveInv, TypeInv
<1>3. TypeInv' BY <1>1, <1>2 DEF LeaveInv, TypeInv, exits, conns, told
<1>4. ServedByProxy' BY <1>1 DEF LeaveInv, ServedByProxy, conns
<1>5. OwedIsOrphaned' BY <1>1 DEF LeaveInv, OwedIsOrphaned, exits, conns, told
<1>6. SaidWhenDrained' BY <1>1 DEF LeaveInv, SaidWhenDrained, exits, conns, told
<1>7. LeavesInOrder' BY <1>1 DEF LeaveInv, LeavesInOrder, Conns, exits, conns, told
<1> QED BY <1>3, <1>4, <1>5, <1>6, <1>7 DEF LeaveInv

LEMMA FarewellKeepsLeave == ASSUME LeaveInv, NEW b \in Broker, Farewell(b) PROVE LeaveInv'
<1>1. /\ proxy[b] = "orphan" /\ proxy' = [proxy EXCEPT ![b] = "none"]
      /\ UNCHANGED <<stage, exits, maker, at, tmux, told>>
  BY DEF Farewell, rest
<1>2. \A d \in Client :
        /\ place'[d] = IF at[d] = b /\ place[d] = "served" THEN "over" ELSE place[d]
        /\ sock'[d] = IF at[d] = b /\ place[d] = "served" /\ sock[d] = "open" THEN "dying"
                      ELSE sock[d]
  BY DEF Farewell, Conns
<1>3. \A a \in Broker : proxy'[a] = IF a = b THEN "none" ELSE proxy[a]
  BY <1>1 DEF LeaveInv, TypeInv
<1>4. owed \subseteq Client BY DEF LeaveInv, TypeInv
<1>5. TypeInv'
  <2>1. \A d \in Client : place[d] \in Places /\ sock[d] \in {"open", "dying", "closed"}
    BY DEF LeaveInv, TypeInv
  <2>2. place' \in [Client -> Places] /\ sock' \in [Client -> {"open", "dying", "closed"}]
    BY <2>1 DEF Farewell, Places
  <2> QED BY <1>1, <2>2 DEF LeaveInv, TypeInv, exits, told
<1>6. ServedByProxy' BY <1>1, <1>2, <1>3 DEF LeaveInv, ServedByProxy
<1>7. OwedIsOrphaned'
  <2>1. ASSUME NEW d \in owed
        PROVE  /\ at[d] \in Broker /\ why[at[d]] = "tmux-gone" /\ place'[d] \in {"served", "over"}
               /\ place'[d] = "served" => proxy'[at[d]] = "orphan"
    BY <1>2, <1>3, <1>4 DEF LeaveInv, OwedIsOrphaned
  <2> QED BY <1>1, <2>1 DEF OwedIsOrphaned, exits, told
<1>8. SaidWhenDrained' BY <1>1, <1>2, <1>4 DEF LeaveInv, SaidWhenDrained, exits, told
<1>9. LeavesInOrder' BY <1>1, <1>2, <1>3 DEF LeaveInv, LeavesInOrder, Conns, exits, told
<1> QED BY <1>5, <1>6, <1>7, <1>8, <1>9 DEF LeaveInv

\* What is at the path is the socket of a broker.
FileType == file \in Broker \cup {None}

LEMMA InitLeave == Init => LeaveInv
BY Processes DEF Init, LeaveInv, TypeInv, ServedByProxy, OwedIsOrphaned, SaidWhenDrained,
   LeavesInOrder, Conns, Stages, Places, Reasons

LEMMA StepLeave == LeaveInv /\ FileType /\ [Next]_vars => LeaveInv'
<1> SUFFICES ASSUME LeaveInv, FileType, [Next]_vars PROVE LeaveInv'
  OBVIOUS
<1>1. CASE UNCHANGED vars
  BY <1>1, NothingKeepsLeave DEF vars, leaving, session, exits, conns, told
<1>2. CASE TmuxDies BY <1>2, TmuxDiesKeepsLeave
<1>3. ASSUME NEW b \in Broker,
             Spawn(b) \/ Listen(b) \/ Classify(b) \/ RemoveStale(b) \/ OwnIt(b) \/ Start(b)
      PROVE  LeaveInv'
  <2>1. UNCHANGED <<exits, proxy, maker, conns, tmux, told>>
    BY <1>3 DEF Spawn, Listen, Classify, RemoveStale, OwnIt, Start, booted, session
  <2>2. PICK s \in Stages \ {"unbinding", "closing"} : Goes(b, s)
    <3>1. \E s \in {"listen", "bound", "asking", "stale", "out", "starting", "up"} : Goes(b, s)
      BY <1>3 DEF Spawn, Listen, Classify, RemoveStale, OwnIt, Start
    <3> QED BY <3>1 DEF Stages
  <2> QED BY <2>1, <2>2, StageKeepsLeave
<1>4. ASSUME NEW b \in Broker, MetricsClosed(b) PROVE LeaveInv'
  <2>1. stage[b] = "unbinding" /\ Sweep(b) /\ UNCHANGED exits BY <1>4 DEF MetricsClosed
  <2>2. Leaving(b) BY <2>1 DEF Leaving, exits, LeaveInv, TypeInv
  <2>3. why'[b] = "tmux-gone" /\ ~hurried'[b] =>
            \A c \in owed : at[c] = b => place[c] # "served" \/ proxy[b] # "orphan"
    BY <2>1 DEF exits, LeaveInv, SaidWhenDrained
  <2> QED BY <2>1, <2>2, <2>3, SweepKeepsLeave
<1>5. ASSUME NEW b \in Broker, ServerClosed(b) \/ Crash(b) PROVE LeaveInv'
  BY <1>5, EndsKeepsLeave DEF ServerClosed, Crash
<1>6. ASSUME NEW b \in Broker, Terminate(b) \/ DrainDeadline(b) PROVE LeaveInv'
  <2>1. Shutdown(b) /\ UNCHANGED why /\ hurried' = [hurried EXCEPT ![b] = TRUE]
    BY <1>6 DEF Terminate, DrainDeadline
  <2>2. Leaving(b) /\ hurried'[b] BY <2>1 DEF Leaving, LeaveInv, TypeInv
  <2> QED BY <2>1, <2>2, ShutdownKeepsLeave
<1>7. ASSUME NEW b \in Broker, Drained(b) PROVE LeaveInv'
  <2>1. Shutdown(b) /\ UNCHANGED exits /\ proxy[b] # "orphan" BY <1>7 DEF Drained, FarewellsSettled
  <2>2. Leaving(b) BY <2>1 DEF Leaving, exits, LeaveInv, TypeInv
  <2> QED BY <2>1, <2>2, ShutdownKeepsLeave
<1>8. ASSUME NEW b \in Broker, IdleTimer(b) PROVE LeaveInv'
  <2>1. CASE Acting(b) /\ SelfExit(b, "idle") BY <2>1, SelfExitKeepsLeave DEF Reasons
  <2>2. CASE UNCHANGED <<stage, exits, session, conns, tmux, told>>
    BY <2>2, NothingKeepsLeave DEF leaving, session
  <2> QED BY <1>8, <2>1, <2>2 DEF IdleTimer
<1>9. ASSUME NEW b \in Broker, ProbeGone(b) PROVE LeaveInv'
  <2>1. ~tmux BY <1>9 DEF ProbeGone, Liveness
  <2>2. CASE Acting(b) /\ SelfExit(b, "tmux-gone") BY <2>1, <2>2, SelfExitKeepsLeave DEF Reasons
  <2>3. CASE UNCHANGED <<stage, why, unwatched>>
    BY <2>3, NothingKeepsLeave DEF leaving, unwatched, exits, session
  <2> QED BY <1>9, <2>2, <2>3 DEF ProbeGone
<1>10. ASSUME NEW b \in Broker,
              WatcherAttaches(b) \/ WatcherEof(b) \/ ProbeNotGone(b) \/ Respawn(b)
       PROVE  LeaveInv'
  BY <1>10, NothingKeepsLeave DEF WatcherAttaches, WatcherEof, ProbeNotGone, Respawn, leaving,
     unwatched, exits, session
<1>11. ASSUME NEW b \in Broker, Farewell(b) PROVE LeaveInv' BY <1>11, FarewellKeepsLeave
<1>12. ASSUME NEW b \in Broker, CreateSession(b) PROVE LeaveInv'
  <2>1. tmux' = TRUE /\ UNCHANGED <<stage, exits, session, conns, told>> BY <1>12 DEF CreateSession
  <2> QED BY <2>1 DEF LeaveInv, TypeInv, ServedByProxy, OwedIsOrphaned, SaidWhenDrained,
              LeavesInOrder, Conns, exits, session, conns, told
<1>13. ASSUME NEW b \in Broker, Claimed(b) PROVE LeaveInv'
  <2>1. UNCHANGED <<stage, exits, conns, tmux, told>> BY <1>13 DEF Claimed, rest
  <2>2. CASE Ensured(b, "claim") BY <2>1, <2>2, EnsuredKeepsLeave
  <2>3. CASE UNCHANGED <<proxy, maker>> BY <2>1, <2>3, NothingKeepsLeave DEF leaving
  <2> QED BY <1>13, <2>2, <2>3 DEF Claimed
<1>14. ASSUME NEW c \in Client, Connect(c) PROVE LeaveInv'
  BY <1>14, ConnectKeepsLeave DEF Connect, FileType
<1>15. ASSUME NEW c \in Client, Close(c) \/ SocketEnds(c) PROVE LeaveInv'
  <2> DEFINE p == IF Close(c) /\ place[c] \in {"shaking", "table", "served"}
                  THEN "over" ELSE place[c]
  <2>1. /\ sock' = [sock EXCEPT ![c] = "closed"]
        /\ UNCHANGED <<stage, exits, proxy, maker, at, tmux, told>>
    BY <1>15 DEF Close, SocketEnds, rest, session
  <2>2. place' = [place EXCEPT ![c] = p]
    BY <1>15 DEF Close, SocketEnds, LeaveInv, TypeInv
  <2>3. p \in Places /\ (p = place[c] \/ p = "over") BY DEF LeaveInv, TypeInv, Places
  <2> HIDE DEF p
  <2> QED BY <2>1, <2>2, <2>3, ConnKeepsLeave
<1>16. ASSUME NEW c \in Client,
              HandshakeEnds(c) \/ Reconciled(c) \/ Attach(c)
       PROVE  LeaveInv'
  <2>1. UNCHANGED <<stage, exits, proxy, maker, tmux, told>>
    BY <1>16 DEF HandshakeEnds, Reconciled, Attach, rest, session
  <2>2. CASE Refuse(c) BY <2>1, <2>2, RefuseKeepsLeave
  <2>3. CASE ~Refuse(c)
    <3>1. PICK p \in {"reconciling", "table", "attaching"} :
              Step(c, p) /\ ~ShuttingDown(at[c]) /\ place[c] \in {"shaking", "reconciling", "table"}
      BY <1>16, <2>3 DEF HandshakeEnds, Reconciled, Attach
    <3>2. p \in Places \ {"served"} BY DEF Places
    <3> QED BY <2>1, <3>1, <3>2, StepKeepsLeave
  <2> QED BY <2>2, <2>3
<1>17. ASSUME NEW c \in Client, Attached(c) PROVE LeaveInv' BY <1>17, AttachedKeepsLeave
<1>18. ASSUME NEW c \in Client, Claim(c) PROVE LeaveInv'
  BY <1>18, NothingKeepsLeave DEF Claim, rest, leaving
<1> QED BY <1>1, <1>2, <1>3, <1>4, <1>5, <1>6, <1>7, <1>8, <1>9, <1>10, <1>11, <1>12, <1>13,
           <1>14, <1>15, <1>16, <1>17, <1>18 DEF Next

-----------------------------------------------------------------------------
(* The types, of what starts a broker and what watches tmux too *)

ClockTypes ==
    /\ tries \in [Broker -> 1 .. MaxBindAttempts]
    /\ FileType /\ ino \in [Broker -> Broker \cup {None}]
    /\ idle \in [Broker -> BOOLEAN]
    /\ watcher \in [Broker -> {"none", "polling", "attached", "inert"}]
    /\ probe \in [Broker -> BOOLEAN] /\ respawn \in [Broker -> BOOLEAN]
    /\ claiming \in [Broker -> BOOLEAN]
StartedClocks == \A b \in Broker : idle[b] \/ probe[b] \/ watcher[b] # "none" => Started(b)
\* Who is about to try again has an attempt left.
AttemptLeft == \A b \in Broker : stage[b] = "stale" => tries[b] < MaxBindAttempts
ClockInv == stage \in [Broker -> Stages] /\ ClockTypes /\ StartedClocks /\ AttemptLeft

LEMMA ClockUntouched ==
    ASSUME ClockInv, UNCHANGED <<stage, tries, file, ino, idle, watch, claiming>> PROVE ClockInv'
BY DEF ClockInv, ClockTypes, StartedClocks, AttemptLeft, FileType, Started, watch

\* The clocks of a broker that stays started, or stops them all, or has none.
LEMMA ClockStep ==
    ASSUME ClockInv, NEW b \in Broker, NEW s \in Stages, Goes(b, s), ClockTypes',
           \A a \in Broker : a # b =>
              idle'[a] = idle[a] /\ probe'[a] = probe[a] /\ watcher'[a] = watcher[a],
           UNCHANGED tries \/ s = "listen",
           \A a \in Broker : a # b => tries'[a] = tries[a],
           s = "stale" => tries[b] < MaxBindAttempts,
           \/ s \in {"up", "leaving", "unbinding", "closing"}
           \/ ~idle'[b] /\ ~probe'[b] /\ watcher'[b] = "none"
    PROVE  ClockInv'
<1>1. \A a \in Broker : stage'[a] = IF a = b THEN s ELSE stage[a] BY DEF Goes, ClockInv
<1>2. stage' \in [Broker -> Stages] BY DEF Goes, ClockInv
<1>3. StartedClocks' BY <1>1 DEF ClockInv, StartedClocks, Started
<1>4. AttemptLeft' BY <1>1 DEF ClockInv, AttemptLeft
<1> QED BY <1>2, <1>3, <1>4 DEF ClockInv

\* Only a started broker has its connections counted.
LEMMA CountStep ==
    ASSUME ClockInv, NEW b \in Broker, NEW i \in BOOLEAN,
           idle' = [idle EXCEPT ![b] = IF Acting(b) THEN i ELSE @],
           UNCHANGED <<stage, tries, file, ino, watch, claiming>>
    PROVE  ClockInv'
<1>1. Acting(b) => Started(b) BY DEF Acting
<1>2. \A a \in Broker : idle'[a] => idle[a] \/ Started(a)
  BY <1>1 DEF ClockInv, ClockTypes
<1>3. ClockTypes' BY DEF ClockInv, ClockTypes, FileType, watch
<1>4. StartedClocks' BY <1>2 DEF ClockInv, StartedClocks, Started, watch
<1> QED BY <1>3, <1>4 DEF ClockInv, AttemptLeft

LEMMA ShutdownKeepsClock ==
    ASSUME ClockInv, NEW b \in Broker, Shutdown(b), probe' \in [Broker -> BOOLEAN],
           \A a \in Broker : a # b => probe'[a] = probe[a]
    PROVE  ClockInv'
<1>1. PICK s \in {"unbinding", "closing"} : Goes(b, s) BY DEF Shutdown, Sweep
<1>2. file' \in {file, None} /\ UNCHANGED <<tries, ino, claiming>> BY DEF Shutdown, Sweep, session
<1>3. /\ watcher' = [watcher EXCEPT ![b] = "none"] /\ respawn' = [respawn EXCEPT ![b] = FALSE]
      /\ idle' = [idle EXCEPT ![b] = FALSE]
  BY DEF Shutdown
<1>4. ClockTypes' BY <1>2, <1>3 DEF ClockInv, ClockTypes, FileType
<1>5. \A a \in Broker : a # b => idle'[a] = idle[a] /\ watcher'[a] = watcher[a]
  BY <1>3 DEF ClockInv, ClockTypes
<1>6. s \in Stages BY <1>1 DEF Stages
<1> QED BY <1>1, <1>2, <1>4, <1>5, <1>6, ClockStep

LEMMA SelfExitKeepsClock ==
    ASSUME ClockInv, NEW b \in Broker, NEW r \in Reasons, SelfExit(b, r),
           probe' \in [Broker -> BOOLEAN], \A a \in Broker : a # b => probe'[a] = probe[a]
    PROVE  ClockInv'
<1>1. CASE stage[b] = "up" /\ Shutdown(b) BY <1>1, ShutdownKeepsClock
<1>2. CASE /\ \/ stage' = stage /\ ShuttingDown(b)
              \/ stage[b] = "up" /\ Goes(b, "leaving")
           /\ idle' = [idle EXCEPT ![b] = @ /\ r # "idle"] \/ idle' = idle
           /\ UNCHANGED <<tries, file, ino, watcher, respawn, claiming>>
  <2>1. ClockTypes' BY <1>2 DEF ClockInv, ClockTypes, FileType
  <2>2. \A a \in Broker : a # b => idle'[a] = idle[a] /\ watcher'[a] = watcher[a]
    BY <1>2 DEF ClockInv, ClockTypes
  <2>3. PICK s \in {"up", "leaving", "unbinding", "closing"} : Goes(b, s)
    BY <1>2 DEF Goes, ShuttingDown, ClockInv
  <2>4. s \in Stages BY <2>3 DEF Stages
  <2> QED BY <1>2, <2>1, <2>2, <2>3, <2>4, ClockStep
<1> QED BY <1>1, <1>2 DEF SelfExit, unless, session

LEMMA InitClock == Init => ClockInv
BY DEF Init, ClockInv, ClockTypes, StartedClocks, AttemptLeft, FileType, Stages, MaxBindAttempts

LEMMA StepClock == ClockInv /\ [Next]_vars => ClockInv'
<1> SUFFICES ASSUME ClockInv, [Next]_vars PROVE ClockInv'
  OBVIOUS
<1>1. CASE UNCHANGED vars BY <1>1, ClockUntouched DEF vars, session
<1>2. CASE TmuxDies BY <1>2, ClockUntouched DEF TmuxDies
<1>3. ASSUME NEW b \in Broker,
             Spawn(b) \/ Listen(b) \/ Classify(b) \/ RemoveStale(b) \/ OwnIt(b)
      PROVE  ClockInv'
  <2>1. UNCHANGED <<idle, watch, claiming>>
    BY <1>3 DEF Spawn, Listen, Classify, RemoveStale, OwnIt, booted, session
  <2>2. stage[b] \in {"off", "listen", "asking", "stale", "bound"}
    BY <1>3 DEF Spawn, Listen, Classify, RemoveStale, OwnIt
  <2>3. ~idle[b] /\ ~probe[b] /\ watcher[b] = "none"
    BY <2>2 DEF ClockInv, StartedClocks, Started
  <2>4. PICK s \in {"listen", "bound", "asking", "stale", "out", "starting"} : Goes(b, s)
    BY <1>3 DEF Spawn, Listen, Classify, RemoveStale, OwnIt
  <2>5. FileType' BY <1>3 DEF Spawn, Listen, Classify, RemoveStale, OwnIt, ClockInv, ClockTypes, FileType
  <2>6. ino' \in [Broker -> Broker \cup {None}]
    BY <1>3 DEF Spawn, Listen, Classify, RemoveStale, OwnIt, ClockInv, ClockTypes, FileType
  <2>7. tries' \in [Broker -> 1 .. MaxBindAttempts]
    <3>1. CASE RemoveStale(b)
      <4>1. tries[b] + 1 \in 1 .. MaxBindAttempts
        <5>1. tries[b] < MaxBindAttempts /\ tries[b] \in 1 .. MaxBindAttempts
          BY <3>1 DEF RemoveStale, ClockInv, ClockTypes, AttemptLeft
        <5> QED BY <5>1 DEF MaxBindAttempts
      <4>2. tries' = [tries EXCEPT ![b] = tries[b] + 1] BY <3>1 DEF RemoveStale
      <4> QED BY <4>1, <4>2 DEF ClockInv, ClockTypes
    <3>2. CASE UNCHANGED tries BY <3>2 DEF ClockInv, ClockTypes
    <3> QED BY <1>3, <3>1, <3>2 DEF Spawn, Listen, Classify, OwnIt
  <2>8. ClockTypes' BY <2>1, <2>5, <2>6, <2>7 DEF ClockInv, ClockTypes, watch
  <2>9. s \in Stages BY <2>4 DEF Stages
  <2>10. UNCHANGED tries \/ s = "listen"
    <3>1. CASE RemoveStale(b)
      <4>1. Goes(b, "listen") BY <3>1 DEF RemoveStale
      <4> QED BY <2>4, <4>1 DEF Goes, ClockInv
    <3> QED BY <1>3, <3>1 DEF Spawn, Listen, Classify, OwnIt
  <2>11. \A a \in Broker : a # b => tries'[a] = tries[a]
    BY <1>3 DEF Spawn, Listen, Classify, RemoveStale, OwnIt, ClockInv, ClockTypes
  <2>12. s = "stale" => tries[b] < MaxBindAttempts
    <3>1. SUFFICES ASSUME s = "stale" PROVE tries[b] < MaxBindAttempts
      OBVIOUS
    <3>2. stage'[b] = "stale" BY <2>4, <3>1 DEF Goes, ClockInv
    <3>3. CASE Classify(b) BY <3>2, <3>3 DEF Classify, Goes, ClockInv
    <3> QED BY <1>3, <3>2, <3>3 DEF Spawn, Listen, RemoveStale, OwnIt, Goes, ClockInv
  <2> QED BY <2>1, <2>3, <2>4, <2>8, <2>9, <2>10, <2>11, <2>12, ClockStep DEF watch
<1>4. ASSUME NEW b \in Broker, Start(b) PROVE ClockInv'
  <2>1. Goes(b, "up") /\ UNCHANGED <<tries, file, ino, probe, respawn, claiming>>
    BY <1>4 DEF Start, session
  <2>2. ClockTypes' BY <1>4, <2>1 DEF Start, ClockInv, ClockTypes, FileType
  <2>3. \A a \in Broker : a # b => idle'[a] = idle[a] /\ watcher'[a] = watcher[a]
    BY <1>4 DEF Start, ClockInv, ClockTypes
  <2>4. "up" \in Stages BY DEF Stages
  <2> QED BY <2>1, <2>2, <2>3, <2>4, ClockStep
<1>5. ASSUME NEW b \in Broker, MetricsClosed(b) PROVE ClockInv'
  <2>1. /\ Goes(b, "closing") /\ file' \in {file, None}
        /\ UNCHANGED <<tries, ino, idle, watch, claiming>>
    BY <1>5 DEF MetricsClosed, Sweep
  <2>2. ClockTypes' BY <2>1 DEF ClockInv, ClockTypes, FileType, watch
  <2>3. "closing" \in Stages BY DEF Stages
  <2> QED BY <2>1, <2>2, <2>3, ClockStep DEF watch
<1>6. ASSUME NEW b \in Broker, ServerClosed(b) \/ Crash(b) PROVE ClockInv'
  <2>1. Ends(b) /\ file' \in {file, None}
    BY <1>6 DEF ServerClosed, Crash, Unlinked
  <2>2. /\ Goes(b, "out") /\ UNCHANGED tries
        /\ watcher' = [watcher EXCEPT ![b] = "none"] /\ probe' = [probe EXCEPT ![b] = FALSE]
        /\ respawn' = [respawn EXCEPT ![b] = FALSE] /\ idle' = [idle EXCEPT ![b] = FALSE]
        /\ ino' = [ino EXCEPT ![b] = None] /\ claiming' = [claiming EXCEPT ![b] = FALSE]
    BY <2>1 DEF Ends
  <2>3. ClockTypes' BY <2>1, <2>2 DEF ClockInv, ClockTypes, FileType
  <2>4. \A a \in Broker : a # b =>
           idle'[a] = idle[a] /\ probe'[a] = probe[a] /\ watcher'[a] = watcher[a]
    BY <2>2 DEF ClockInv, ClockTypes
  <2>5. ~idle'[b] /\ ~probe'[b] /\ watcher'[b] = "none" BY <2>2 DEF ClockInv, ClockTypes
  <2>6. "out" \in Stages BY DEF Stages
  <2> QED BY <2>2, <2>3, <2>4, <2>5, <2>6, ClockStep
<1>7. ASSUME NEW b \in Broker, Terminate(b) \/ Drained(b) \/ DrainDeadline(b) PROVE ClockInv'
  BY <1>7, ShutdownKeepsClock DEF Terminate, Drained, DrainDeadline, ClockInv, ClockTypes
<1>8. ASSUME NEW b \in Broker, IdleTimer(b) PROVE ClockInv'
  <2>1. UNCHANGED probe BY <1>8 DEF IdleTimer
  <2>2. CASE SelfExit(b, "idle")
    BY <2>1, <2>2, SelfExitKeepsClock DEF Reasons, ClockInv, ClockTypes
  <2>3. CASE /\ idle' = [idle EXCEPT ![b] = FALSE]
             /\ UNCHANGED <<stage, tries, file, ino, watcher, respawn, session>>
    <3>1. ClockTypes' BY <2>1, <2>3 DEF ClockInv, ClockTypes, FileType, session
    <3>2. \A a \in Broker : idle'[a] => idle[a] BY <2>3 DEF ClockInv, ClockTypes
    <3> QED BY <2>1, <2>3, <3>1, <3>2 DEF ClockInv, StartedClocks, AttemptLeft, Started
  <2> QED BY <1>8, <2>2, <2>3 DEF IdleTimer
<1>9. ASSUME NEW b \in Broker, ProbeGone(b) PROVE ClockInv'
  <2>1. probe' = [probe EXCEPT ![b] = FALSE] BY <1>9 DEF ProbeGone
  <2>2. probe' \in [Broker -> BOOLEAN] /\ \A a \in Broker : a # b => probe'[a] = probe[a]
    BY <2>1 DEF ClockInv, ClockTypes
  <2>3. CASE SelfExit(b, "tmux-gone") BY <2>2, <2>3, SelfExitKeepsClock DEF Reasons
  <2>4. CASE UNCHANGED <<stage, tries, file, ino, idle, watcher, respawn, session>>
    <3>1. ClockTypes' BY <2>2, <2>4 DEF ClockInv, ClockTypes, FileType, session
    <3>2. \A a \in Broker : probe'[a] => probe[a] BY <2>1 DEF ClockInv, ClockTypes
    <3> QED BY <2>4, <3>1, <3>2 DEF ClockInv, StartedClocks, AttemptLeft, Started
  <2> QED BY <1>9, <2>3, <2>4 DEF ProbeGone, unwatched
<1>10. ASSUME NEW b \in Broker,
              WatcherAttaches(b) \/ WatcherEof(b) \/ ProbeNotGone(b) \/ Respawn(b)
       PROVE  ClockInv'
  <2>1. UNCHANGED <<stage, tries, file, ino, idle, claiming>>
    BY <1>10 DEF WatcherAttaches, WatcherEof, ProbeNotGone, Respawn, unwatched, session
  <2>2. watcher' \in [Broker -> {"none", "polling", "attached", "inert"}]
    BY <1>10 DEF WatcherAttaches, WatcherEof, ProbeNotGone, Respawn, ClockInv, ClockTypes
  <2>3. probe' \in [Broker -> BOOLEAN] /\ respawn' \in [Broker -> BOOLEAN]
    <3>1. Acting(b) \in BOOLEAN BY DEF Acting, Started
    <3> QED BY <1>10, <3>1 DEF WatcherAttaches, WatcherEof, ProbeNotGone, Respawn, ClockInv,
               ClockTypes
  <2>4. \A a \in Broker : probe'[a] \/ watcher'[a] # "none" =>
           probe[a] \/ watcher[a] # "none" \/ Started(a)
    BY <1>10 DEF WatcherAttaches, WatcherEof, ProbeNotGone, Respawn, ClockInv, ClockTypes, Acting
  <2>5. ClockTypes' BY <2>1, <2>2, <2>3 DEF ClockInv, ClockTypes, FileType
  <2>6. StartedClocks' BY <2>1, <2>4 DEF ClockInv, StartedClocks, Started
  <2> QED BY <2>1, <2>5, <2>6 DEF ClockInv, AttemptLeft
<1>11. ASSUME NEW b \in Broker, Farewell(b) \/ CreateSession(b) PROVE ClockInv'
  BY <1>11, ClockUntouched DEF Farewell, CreateSession, rest, session
<1>12. ASSUME NEW b \in Broker, Claimed(b) PROVE ClockInv'
  <2>1. /\ claiming' = [claiming EXCEPT ![b] = FALSE]
        /\ UNCHANGED <<stage, tries, file, ino, idle, watch>>
    BY <1>12 DEF Claimed, rest
  <2> QED BY <2>1 DEF ClockInv, ClockTypes, StartedClocks, AttemptLeft, FileType, Started, watch
<1>13. ASSUME NEW c \in Client, Claim(c) PROVE ClockInv'
  <2>1. /\ claiming' = [claiming EXCEPT ![at[c]] = TRUE]
        /\ UNCHANGED <<stage, tries, file, ino, idle, watch>>
    BY <1>13 DEF Claim, rest
  <2> QED BY <2>1 DEF ClockInv, ClockTypes, StartedClocks, AttemptLeft, FileType, Started, watch
<1>14. ASSUME NEW c \in Client, Connect(c) PROVE ClockInv'
  <2>1. file \in Broker BY <1>14 DEF Connect, ClockInv, ClockTypes, FileType
  <2>2. /\ idle' = [idle EXCEPT ![file] = IF Acting(file) THEN FALSE ELSE @]
        /\ UNCHANGED <<stage, tries, file, ino, watch, claiming>>
    BY <1>14 DEF Connect, rest, session
  <2> QED BY <2>1, <2>2, CountStep
<1>15. ASSUME NEW c \in Client, Close(c) \/ SocketEnds(c) PROVE ClockInv'
  <2>1. /\ idle' = [idle EXCEPT ![at[c]] = IF Acting(at[c]) THEN NoConnections(at[c]) ELSE @]
        /\ UNCHANGED <<stage, tries, file, ino, watch, claiming>>
    BY <1>15 DEF Close, SocketEnds, Counted, rest, session
  <2>2. CASE at[c] \in Broker BY <2>1, <2>2, CountStep DEF NoConnections
  <2>3. CASE at[c] \notin Broker
    <3>1. idle' = idle BY <2>1, <2>3 DEF ClockInv, ClockTypes
    <3> QED BY <2>1, <3>1, ClockUntouched
  <2> QED BY <2>2, <2>3
<1>16. ASSUME NEW c \in Client,
              HandshakeEnds(c) \/ Reconciled(c) \/ Attach(c) \/ Attached(c)
       PROVE  ClockInv'
  BY <1>16, ClockUntouched DEF HandshakeEnds, Reconciled, Attach, Attached, rest, session
<1> QED BY <1>1, <1>2, <1>3, <1>4, <1>5, <1>6, <1>7, <1>8, <1>9, <1>10, <1>11, <1>12, <1>13,
           <1>14, <1>15, <1>16 DEF Next

-----------------------------------------------------------------------------
\* Every variable keeps its type, and a timer, a probe or a watcher is that of a broker
\* that start() has brought up (_started), however brokers and clients interleave.
THEOREM TypeCorrect == Spec => []TypeOK
<1>1. LeaveInv /\ ClockInv => TypeOK
  <2> SUFFICES ASSUME LeaveInv, ClockInv PROVE TypeOK
    OBVIOUS
  <2>1. TypeInv BY DEF LeaveInv
  <2> QED BY <2>1 DEF ClockInv, ClockTypes, StartedClocks, FileType, TypeOK, TypeInv, Stages,
              Places
<1>2. ClockInv => FileType BY DEF ClockInv, ClockTypes
<1> QED BY <1>1, <1>2, InitLeave, InitClock, StepLeave, StepClock, PTL DEF Spec

\* However many brokers and clients there are: a broker whose drain nothing cut short has
\* said farewell to every client its dead tmux took away before it closes them
\* (_awaitFarewellDrain), and past the sweep no handshake and no attach adds a proxy or a
\* served connection (the looks at the shutdown in _handleConnection and _handleAttach).
THEOREM LeavesAreOrderly == Spec => []LeavesInOrder
<1>1. LeaveInv => LeavesInOrder BY DEF LeaveInv
<1>2. ClockInv => FileType BY DEF ClockInv, ClockTypes
<1> QED BY <1>1, <1>2, InitLeave, InitClock, StepLeave, StepClock, PTL DEF Spec

=============================================================================
