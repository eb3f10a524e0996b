--------------------------- MODULE SupervisorProofs ---------------------------
(***************************************************************************)
(* Proofs about Supervisor, for any sessions, proxies, callers and breaker *)
(* parameters.  What the registry hands out is whole because a proxy is    *)
(* registered only for the session it was created for, and whatever begins *)
(* to tear it down takes it out in the same turn; that everybody attached  *)
(* is told needs to know when a farewell is owed.                          *)
(***************************************************************************)
EXTENDS Supervisor, SequenceTheorems, TLAPS

\* A creation is reaped in flight only while it is in flight, so a proxy that
\* is up is never torn down a second time by the chain a reap left behind.
ReapedAreStarting == \A p \in reaping : phase[p] = "starting"

\* A farewell is owed from the creation to the end of tmux; then the entry is torn.
FarewellOwed ==
    \A p \in Proxy :
        /\ attached[p] # {} => farewell[p]
        /\ phase[p] = "up" /\ host[p] # "dead" => farewell[p]
        /\ phase[p] = "up" /\ host[p] = "dead" => torn[p]

IInv == TypeOK /\ RegisteredIsWhole /\ ReapedAreStarting /\ FarewellOwed

-----------------------------------------------------------------------------
(* Types *)

LEMMA RecordedType ==
    ASSUME NEW log \in Seq(0..(TripWindow + 1)) PROVE Recorded(log) \in Seq(0..(TripWindow + 1))
<1> DEFINE Age == 0..(TripWindow + 1)
           all == Append(log, 0)
<1>1. 0 \in Age BY BreakerParameters
<1>2. log \in Seq(Age) OBVIOUS
<1> HIDE DEF Age
<1>3. all \in Seq(Age) /\ all # <<>> BY <1>1, <1>2, AppendProperties
<1>4. Tail(all) \in Seq(Age) BY <1>3, HeadTailProperties
<1>5. Recorded(log) \in Seq(Age) BY <1>3, <1>4 DEF Recorded
<1> QED BY <1>5 DEF Age

LEMMA OlderType ==
    ASSUME NEW log \in Seq(0..(TripWindow + 1)) PROVE Older(log) \in Seq(0..(TripWindow + 1))
<1> DEFINE Age == 0..(TripWindow + 1)
           n == Len(log)
           older == [i \in 1..n |-> IF log[i] > TripWindow THEN log[i] ELSE log[i] + 1]
<1>1. n \in Nat /\ \A i \in 1..n : log[i] \in Age BY LenProperties, ElementOfSeq
<1>2. TripWindow \in Nat BY BreakerParameters
<1> HIDE DEF n
<1>3. \A i \in 1..n : (IF log[i] > TripWindow THEN log[i] ELSE log[i] + 1) \in Age BY <1>1, <1>2
<1> HIDE DEF Age
<1>4. older \in [1..n -> Age] BY <1>3
<1> HIDE DEF older
<1>5. older \in Seq(Age) BY <1>1, <1>4, SeqDef
<1> QED BY <1>5 DEF Older, older, n, Age

LEMMA DeregisterType ==
    ASSUME TypeOK, NEW S PROVE Deregister(S) \in [Session -> Proxy \cup {NoProxy}]
BY DEF Deregister, TypeOK

-----------------------------------------------------------------------------
(* Every action preserves the invariant *)

LEMMA EnsureReadyKeeps ==
    ASSUME IInv, NEW c \in Caller, NEW s \in Session, EnsureReady(c, s) PROVE IInv'
<1>1. TypeOK' BY DEF EnsureReady, IInv, TypeOK, Phase, Host, registry, proxyState, breaker
<1>2. RegisteredIsWhole'
  BY DEF EnsureReady, IInv, TypeOK, RegisteredIsWhole, registry, proxyState, breaker
<1>3. ReapedAreStarting'
  BY DEF EnsureReady, IInv, TypeOK, ReapedAreStarting, registry, proxyState, breaker
<1>4. FarewellOwed'
  <2>1. farewell[reg[s]]
    BY DEF EnsureReady, IInv, TypeOK, RegisteredIsWhole, FarewellOwed
  <2>2. \A q \in Proxy : attached'[q] # {} => q = reg[s] \/ attached[q] # {}
    BY DEF EnsureReady, IInv, TypeOK
  <2>3. UNCHANGED <<phase, host, farewell, torn>> BY DEF EnsureReady, proxyState
  <2> QED BY <2>1, <2>2, <2>3 DEF IInv, FarewellOwed
<1> QED BY <1>1, <1>2, <1>3, <1>4 DEF IInv

LEMMA EnsureJoinsKeeps ==
    ASSUME IInv, NEW c \in Caller, NEW s \in Session, EnsureJoins(c, s) PROVE IInv'
<1>1. TypeOK' BY DEF EnsureJoins, IInv, TypeOK, Phase, Host, registry, proxyState, breaker
<1>2. RegisteredIsWhole'
  BY DEF EnsureJoins, IInv, TypeOK, RegisteredIsWhole, registry, proxyState, breaker
<1>3. ReapedAreStarting'
  BY DEF EnsureJoins, IInv, TypeOK, ReapedAreStarting, registry, proxyState, breaker
<1>4. FarewellOwed' BY DEF EnsureJoins, IInv, TypeOK, FarewellOwed, registry, proxyState, breaker
<1> QED BY <1>1, <1>2, <1>3, <1>4 DEF IInv

LEMMA EnsureCreatesKeeps ==
    ASSUME IInv, NEW c \in Caller, NEW s \in Session, NEW p \in Proxy, EnsureCreates(c, s, p) PROVE IInv'
<1>1. TypeOK'
  BY DEF EnsureCreates, IInv, TypeOK, Phase, Host, registry, proxyState, breaker, MayEnsure, Unreferenced, Registered, ReapedAreStarting
<1>2. RegisteredIsWhole'
  BY DEF EnsureCreates, IInv, TypeOK, RegisteredIsWhole, registry, proxyState, breaker, MayEnsure, Unreferenced, Registered, ReapedAreStarting
<1>3. ReapedAreStarting'
  BY DEF EnsureCreates, IInv, TypeOK, ReapedAreStarting, registry, proxyState, breaker, MayEnsure, Unreferenced, Registered, ReapedAreStarting
<1>4. FarewellOwed'
  BY DEF EnsureCreates, IInv, TypeOK, FarewellOwed, registry, proxyState, breaker, MayEnsure, Unreferenced, Registered, ReapedAreStarting
<1> QED BY <1>1, <1>2, <1>3, <1>4 DEF IInv

LEMMA CreationResolvesKeeps == ASSUME IInv, NEW p \in Proxy, CreationResolves(p) PROVE IInv'
<1>1. /\ phase[p] = "starting" /\ host[p] = "running"
      /\ phase' = [phase EXCEPT ![p] = "up"] /\ bounded' = [bounded EXCEPT ![p] = FALSE]
      /\ farewell' = [farewell EXCEPT ![p] = TRUE]
      /\ attached' = [attached EXCEPT ![p] = waiting[p]]
      /\ waiting' = [waiting EXCEPT ![p] = {}]
      /\ UNCHANGED <<reg, session, trips, quarantined>>
  BY DEF CreationResolves, breaker
<1>2. CASE p \in reaping
  <2>1. /\ torn' = [torn EXCEPT ![p] = TRUE] /\ reaping' = reaping \ {p}
        /\ pipe' = [q \in Proxy |-> IF q \in {p} THEN FALSE ELSE pipe[q]]
        /\ host' = [q \in Proxy |-> IF q \in {p} /\ host[q] = "running"
                                    THEN "stopping" ELSE host[q]]
    BY <1>2 DEF CreationResolves, ResolvedIsReaped, Stop
  <2>2. TypeOK' BY <1>1, <2>1 DEF IInv, TypeOK, Phase, Host
  <2>3. RegisteredIsWhole' BY <1>1, <1>2, <2>1 DEF IInv, TypeOK, RegisteredIsWhole
  <2>4. ReapedAreStarting' BY <1>1, <2>1 DEF IInv, TypeOK, ReapedAreStarting
  <2>5. FarewellOwed' BY <1>1, <2>1 DEF IInv, TypeOK, FarewellOwed
  <2> QED BY <2>2, <2>3, <2>4, <2>5 DEF IInv
<1>3. CASE p \notin reaping
  <2>1. UNCHANGED <<torn, pipe, host, reaping>>
    BY <1>3 DEF CreationResolves, ResolvedIsReaped
  <2>2. TypeOK' BY <1>1, <2>1 DEF IInv, TypeOK, Phase, Host
  <2>3. RegisteredIsWhole' BY <1>1, <1>3, <2>1 DEF IInv, TypeOK, RegisteredIsWhole
  <2>4. ReapedAreStarting' BY <1>1, <1>3, <2>1 DEF IInv, TypeOK, ReapedAreStarting
  <2>5. FarewellOwed' BY <1>1, <2>1 DEF IInv, TypeOK, FarewellOwed
  <2> QED BY <2>2, <2>3, <2>4, <2>5 DEF IInv
<1> QED BY <1>2, <1>3

LEMMA CreationRejectsKeeps == ASSUME IInv, NEW p \in Proxy, CreationRejects(p) PROVE IInv'
<1>1. TypeOK'
  BY DEF CreationRejects, IInv, TypeOK, Phase, Host, registry, proxyState, breaker, Deregister
<1>2. RegisteredIsWhole'
  BY DEF CreationRejects, IInv, TypeOK, RegisteredIsWhole, registry, proxyState, breaker, Deregister
<1>3. ReapedAreStarting'
  BY DEF CreationRejects, IInv, TypeOK, ReapedAreStarting, registry, proxyState, breaker, Deregister
<1>4. FarewellOwed'
  BY DEF CreationRejects, IInv, TypeOK, FarewellOwed, registry, proxyState, breaker, Deregister
<1> QED BY <1>1, <1>2, <1>3, <1>4 DEF IInv

LEMMA LastAttemptKeeps == ASSUME IInv, NEW p \in Proxy, LastAttempt(p) PROVE IInv'
<1>1. TypeOK' BY DEF LastAttempt, IInv, TypeOK, Phase, Host, registry, proxyState, breaker
<1>2. RegisteredIsWhole'
  BY DEF LastAttempt, IInv, TypeOK, RegisteredIsWhole, registry, proxyState, breaker
<1>3. ReapedAreStarting'
  BY DEF LastAttempt, IInv, TypeOK, ReapedAreStarting, registry, proxyState, breaker
<1>4. FarewellOwed' BY DEF LastAttempt, IInv, TypeOK, FarewellOwed, registry, proxyState, breaker
<1> QED BY <1>1, <1>2, <1>3, <1>4 DEF IInv

LEMMA ReapKeeps == ASSUME IInv, NEW S, Reap(S) PROVE IInv'
<1>1. TypeOK'
  BY DEF Reap, IInv, TypeOK, Phase, Host, registry, proxyState, breaker, Stop, Deregister, Registered
<1>2. RegisteredIsWhole'
  BY DEF Reap, IInv, TypeOK, RegisteredIsWhole, registry, proxyState, breaker, Stop, Deregister, Registered
<1>3. ReapedAreStarting'
  BY DEF Reap, IInv, TypeOK, ReapedAreStarting, registry, proxyState, breaker, Stop, Deregister, Registered
<1>4. FarewellOwed'
  BY DEF Reap, IInv, TypeOK, FarewellOwed, registry, proxyState, breaker, Stop, Deregister, Registered
<1> QED BY <1>1, <1>2, <1>3, <1>4 DEF IInv

LEMMA HostDiesKeeps == ASSUME IInv, NEW p \in Proxy, HostDies(p) PROVE IInv'
<1>1. /\ host[p] \in {"running", "stopping"} /\ host' = [host EXCEPT ![p] = "dead"]
      /\ UNCHANGED <<session, reaping, phase, bounded, pipe, farewell, waiting, attached,
                     trips, quarantined>>
  BY DEF HostDies, breaker
<1>2. ReapedAreStarting' BY <1>1 DEF IInv, ReapedAreStarting
<1>3. CASE phase[p] = "up"
  <2>1. /\ torn' = [torn EXCEPT ![p] = TRUE]
        /\ reg' = IF ~torn[p] /\ Registered(p) THEN Deregister({session[p]}) ELSE reg
    BY <1>3 DEF HostDies, DeathDeregisters
  <2>2. reg' \in [Session -> Proxy \cup {NoProxy}] BY <2>1, DeregisterType DEF IInv, TypeOK
  <2>3. TypeOK' BY <1>1, <2>1, <2>2 DEF IInv, TypeOK, Host
  <2>4. \A s \in Session : reg'[s] = NoProxy \/ (reg'[s] = reg[s] /\ reg[s] # p)
    <3>1. TAKE s \in Session
    <3>2. CASE Registered(p)
      <4>1. ~torn[p] BY <3>2, NoProxyIsNone DEF Registered, IInv, TypeOK, RegisteredIsWhole
      <4>2. reg' = Deregister({session[p]}) BY <2>1, <3>2, <4>1
      <4> QED BY <4>2, NoProxyIsNone DEF Deregister, IInv, TypeOK, RegisteredIsWhole
    <3>3. CASE ~Registered(p)
      <4>1. reg' = reg BY <2>1, <3>3
      <4> QED BY <3>3, <4>1, NoProxyIsNone DEF Registered, IInv, TypeOK, RegisteredIsWhole
    <3> QED BY <3>2, <3>3
  <2>5. RegisteredIsWhole'
    <3>1. SUFFICES ASSUME NEW s \in Session, reg'[s] # NoProxy
                   PROVE  /\ session'[reg'[s]] = s /\ phase'[reg'[s]] \in {"starting", "up"}
                          /\ ~torn'[reg'[s]] /\ reg'[s] \notin reaping' /\ s \notin quarantined'
      BY DEF RegisteredIsWhole
    <3>2. reg'[s] = reg[s] /\ reg[s] # p /\ reg[s] # NoProxy /\ reg[s] \in Proxy
      BY <2>4, <3>1 DEF IInv, TypeOK
    <3>3. torn'[reg[s]] = torn[reg[s]] BY <2>1, <3>2 DEF IInv, TypeOK
    <3> QED BY <1>1, <3>2, <3>3 DEF IInv, RegisteredIsWhole
  <2>6. FarewellOwed' BY <1>1, <2>1 DEF IInv, TypeOK, FarewellOwed
  <2> QED BY <1>2, <2>3, <2>5, <2>6 DEF IInv
<1>4. CASE phase[p] # "up"
  <2>1. UNCHANGED <<torn, reg>> BY <1>4 DEF HostDies
  <2>2. TypeOK' BY <1>1, <2>1 DEF IInv, TypeOK, Host
  <2>3. RegisteredIsWhole' BY <1>1, <2>1 DEF IInv, RegisteredIsWhole
  <2>4. FarewellOwed' BY <1>1, <1>4, <2>1 DEF IInv, TypeOK, FarewellOwed
  <2> QED BY <1>2, <2>2, <2>3, <2>4 DEF IInv
<1> QED BY <1>3, <1>4

LEMMA FarewellKeeps == ASSUME IInv, NEW p \in Proxy, Farewell(p) PROVE IInv'
<1>1. TypeOK' BY DEF Farewell, IInv, TypeOK, Phase, Host, registry, proxyState, breaker
<1>2. RegisteredIsWhole'
  BY DEF Farewell, IInv, TypeOK, RegisteredIsWhole, registry, proxyState, breaker
<1>3. ReapedAreStarting'
  BY DEF Farewell, IInv, TypeOK, ReapedAreStarting, registry, proxyState, breaker
<1>4. FarewellOwed' BY DEF Farewell, IInv, TypeOK, FarewellOwed, registry, proxyState, breaker
<1> QED BY <1>1, <1>2, <1>3, <1>4 DEF IInv

LEMMA LeaveKeeps == ASSUME IInv, NEW c \in Caller, NEW p \in Proxy, Leave(c, p) PROVE IInv'
<1>1. TypeOK' BY DEF Leave, IInv, TypeOK, Phase, Host, registry, proxyState, breaker
<1>2. RegisteredIsWhole'
  BY DEF Leave, IInv, TypeOK, RegisteredIsWhole, registry, proxyState, breaker
<1>3. ReapedAreStarting'
  BY DEF Leave, IInv, TypeOK, ReapedAreStarting, registry, proxyState, breaker
<1>4. FarewellOwed' BY DEF Leave, IInv, TypeOK, FarewellOwed, registry, proxyState, breaker
<1> QED BY <1>1, <1>2, <1>3, <1>4 DEF IInv

LEMMA BoundaryTripKeeps == ASSUME IInv, NEW p \in Proxy, BoundaryTrip(p) PROVE IInv'
<1>1. /\ host[p] # "dead" /\ pipe' = [pipe EXCEPT ![p] = FALSE]
      /\ UNCHANGED <<session, reaping, phase, bounded, host, farewell, waiting, attached>>
  BY DEF BoundaryTrip
<1>2. ReapedAreStarting' BY <1>1 DEF IInv, ReapedAreStarting
<1>3. CASE phase[p] = "up" /\ Registered(p)
  <2> DEFINE log == Recorded(trips[session[p]])
  <2>1. /\ torn' = [torn EXCEPT ![p] = TRUE] /\ reg' = Deregister({session[p]})
        /\ quarantined' = IF Burst(log) THEN quarantined \cup {session[p]} ELSE quarantined
        /\ trips' = [trips EXCEPT ![session[p]] = IF Burst(log) THEN <<>> ELSE log]
    BY <1>3 DEF BoundaryTrip
  <2>2. session[p] \in Session /\ trips[session[p]] \in Seq(0..(TripWindow + 1)) BY DEF IInv, TypeOK
  <2>3. log \in Seq(0..(TripWindow + 1)) /\ <<>> \in Seq(0..(TripWindow + 1)) BY <2>2, RecordedType
  <2> HIDE DEF log
  <2>4. trips' \in [Session -> Seq(0..(TripWindow + 1))] BY <2>1, <2>3 DEF IInv, TypeOK
  <2>5. quarantined' \subseteq Session BY <2>1, <2>2 DEF IInv, TypeOK
  <2>6. reg' \in [Session -> Proxy \cup {NoProxy}] BY <2>1, DeregisterType DEF IInv
  <2>7. TypeOK' BY <1>1, <2>1, <2>4, <2>5, <2>6 DEF IInv, TypeOK
  <2>8. \A s \in Session : reg'[s] = NoProxy \/ (reg'[s] = reg[s] /\ s # session[p])
    BY <2>1 DEF Deregister
  <2>9. \A s \in Session : reg'[s] # NoProxy => reg'[s] # p
    BY <2>8, NoProxyIsNone DEF IInv, RegisteredIsWhole
  <2>10. RegisteredIsWhole'
    <3>1. SUFFICES ASSUME NEW s \in Session, reg'[s] # NoProxy
                   PROVE  /\ session'[reg'[s]] = s /\ phase'[reg'[s]] \in {"starting", "up"}
                          /\ ~torn'[reg'[s]] /\ reg'[s] \notin reaping' /\ s \notin quarantined'
      BY DEF RegisteredIsWhole
    <3>2. reg'[s] = reg[s] /\ s # session[p] /\ reg[s] # p /\ reg[s] # NoProxy /\ reg[s] \in Proxy
      BY <2>8, <2>9, <3>1 DEF IInv, TypeOK
    <3>3. torn'[reg[s]] = torn[reg[s]] BY <2>1, <3>2 DEF IInv, TypeOK
    <3>4. s \notin quarantined => s \notin quarantined' BY <2>1, <3>2
    <3> QED BY <1>1, <3>2, <3>3, <3>4 DEF IInv, RegisteredIsWhole
  <2>11. FarewellOwed' BY <1>1, <2>1 DEF IInv, TypeOK, FarewellOwed
  <2> QED BY <1>2, <2>7, <2>10, <2>11 DEF IInv
<1>4. CASE ~(phase[p] = "up" /\ Registered(p))
  <2>1. UNCHANGED <<torn, reg, trips, quarantined>> BY <1>4 DEF BoundaryTrip, breaker
  <2>2. TypeOK' BY <1>1, <2>1 DEF IInv, TypeOK
  <2>3. RegisteredIsWhole' BY <1>1, <2>1 DEF IInv, RegisteredIsWhole
  <2>4. FarewellOwed' BY <1>1, <2>1 DEF IInv, FarewellOwed
  <2> QED BY <1>2, <2>2, <2>3, <2>4 DEF IInv
<1> QED BY <1>3, <1>4

LEMMA ClearQuarantineKeeps == ASSUME IInv, NEW s \in Session, ClearQuarantine(s) PROVE IInv'
<1>1. TypeOK' BY DEF ClearQuarantine, IInv, TypeOK, Phase, Host, registry, proxyState, breaker
<1>2. RegisteredIsWhole'
  BY DEF ClearQuarantine, IInv, TypeOK, RegisteredIsWhole, registry, proxyState, breaker
<1>3. ReapedAreStarting'
  BY DEF ClearQuarantine, IInv, TypeOK, ReapedAreStarting, registry, proxyState, breaker
<1>4. FarewellOwed'
  BY DEF ClearQuarantine, IInv, TypeOK, FarewellOwed, registry, proxyState, breaker
<1> QED BY <1>1, <1>2, <1>3, <1>4 DEF IInv

LEMMA TickKeeps == ASSUME IInv, Tick PROVE IInv'
<1>1. TypeOK' BY OlderType DEF Tick, IInv, TypeOK, Phase, Host, registry, proxyState, breaker
<1>2. RegisteredIsWhole' BY DEF Tick, IInv, TypeOK, RegisteredIsWhole, registry, proxyState, breaker
<1>3. ReapedAreStarting' BY DEF Tick, IInv, TypeOK, ReapedAreStarting, registry, proxyState, breaker
<1>4. FarewellOwed' BY DEF Tick, IInv, TypeOK, FarewellOwed, registry, proxyState, breaker
<1> QED BY <1>1, <1>2, <1>3, <1>4 DEF IInv

-----------------------------------------------------------------------------
(* The theorems *)

LEMMA InitIInv == Init => IInv
BY EmptySeq DEF Init, IInv, TypeOK, RegisteredIsWhole, ReapedAreStarting, FarewellOwed, Phase, Host

LEMMA StepIInv == ASSUME IInv, [Next]_vars PROVE IInv'
<1>1. ASSUME NEW c \in Caller, NEW s \in Session, EnsureReady(c, s) \/ EnsureJoins(c, s)
      PROVE  IInv'
  BY <1>1, EnsureReadyKeeps, EnsureJoinsKeeps
<1>2. ASSUME NEW c \in Caller, NEW s \in Session, NEW p \in Proxy, EnsureCreates(c, s, p)
      PROVE  IInv'
  BY <1>2, EnsureCreatesKeeps
<1>3. ASSUME NEW p \in Proxy, CreationResolves(p) \/ CreationRejects(p) \/ LastAttempt(p)
      PROVE  IInv'
  BY <1>3, CreationResolvesKeeps, CreationRejectsKeeps, LastAttemptKeeps
<1>4. ASSUME NEW p \in Proxy, HostDies(p) \/ Farewell(p) \/ BoundaryTrip(p) PROVE IInv'
  BY <1>4, HostDiesKeeps, FarewellKeeps, BoundaryTripKeeps
<1>5. ASSUME NEW p \in Proxy, NEW c \in Caller, Leave(c, p) PROVE IInv'
  BY <1>5, LeaveKeeps
<1>6. ASSUME NEW s \in Session, ReapSessionProxy(s) PROVE IInv'
  BY <1>6, ReapKeeps DEF ReapSessionProxy
<1>7. ASSUME NEW s \in Session, ClearQuarantine(s) PROVE IInv'
  BY <1>7, ClearQuarantineKeeps
<1>8. CASE ReapAll BY <1>8, ReapKeeps DEF ReapAll
<1>9. CASE Tick BY <1>9, TickKeeps
<1>10. CASE UNCHANGED vars
  BY <1>10 DEF vars, registry, proxyState, breaker, IInv, TypeOK, RegisteredIsWhole,
               ReapedAreStarting, FarewellOwed
<1> QED BY <1>1, <1>2, <1>3, <1>4, <1>5, <1>6, <1>7, <1>8, <1>9, <1>10 DEF Next

\* The registry, the phases and the trip logs keep their types, and callers wait only
\* for a creation in flight, whatever is reaped, dies or trips meanwhile.
THEOREM TypeCorrect == Spec => []TypeOK
<1>1. IInv /\ [Next]_vars => IInv' BY StepIInv
<1>2. IInv => TypeOK BY DEF IInv
<1> QED BY InitIInv, <1>1, <1>2, PTL DEF Spec

\* ensureSessionProxy (session-proxy-supervisor.ts:414) never hands out a proxy of
\* another session, one that is being torn down or a creation reaped in flight, and none
\* of a quarantined session is registered: for any callers, sessions and proxies.
THEOREM RegistryStaysWhole == Spec => []RegisteredIsWhole
<1>1. IInv /\ [Next]_vars => IInv' BY StepIInv
<1>2. IInv => RegisteredIsWhole BY DEF IInv
<1> QED BY InitIInv, <1>1, <1>2, PTL DEF Spec

\* Whoever is attached to a proxy whose tmux is gone has its farewell still to come, so
\* whenFarewellsSettled (536) does not resolve before everybody was told.
THEOREM FarewellsAreOwed == Spec => []NobodyLeftUntold
<1>1. IInv /\ [Next]_vars => IInv' BY StepIInv
<1>2. IInv => NobodyLeftUntold BY DEF IInv, FarewellOwed, NobodyLeftUntold
<1> QED BY InitIInv, <1>1, <1>2, PTL DEF Spec
===============================================================================
