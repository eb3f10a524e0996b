---------------------------- MODULE SessionTable -----------------------------
(***************************************************************************)
(* The broker's session table and how it is reconciled with tmux           *)
(* (server-proxy.ts, claim-session.ts): the coalesced reconciles, their    *)
(* confirmed removals, the verbs claim, create, createUnique, attach and   *)
(* destroy that read and change the table between their awaits, and what   *)
(* the clients are told of it.  tmux sessions come, go and are renamed     *)
(* under it; only coming and going is announced (%sessions-changed).       *)
(* Session ids and tmux ids are one and the same.                          *)
(* An action is a macrotask, or a promise continuation where the order of  *)
(* continuations matters: nothing else runs in the driver before they have *)
(* all run.                                                                *)
(***************************************************************************)
EXTENDS Integers, Sequences, FiniteSets, SequencesExt

CONSTANTS
    Name,    \* session names
    NoName,  \* no session
    MaxId,   \* bound: sessions tmux ever makes, it numbers them
    Found,   \* the names of the sessions there when the broker starts
    Suffixed, \* the names a createUnique tries: the base, base-2, ...
    Caller,  \* connections, one verb each
    Verbs,   \* bound: the verbs each of them may send
    Slot,    \* bound: reconciles that can be told apart
    Resting, \* no reconcile
    Events,  \* bound: sessions created, killed or renamed by others
    Faults,  \* bound: failures, and listings that leave a session out
    Flaps    \* bound: has-session calling a live session absent

ASSUME NamesAndBounds ==
    /\ NoName \notin Name
    /\ MaxId \in Nat /\ Found \in Seq(Name) /\ Len(Found) <= MaxId
    /\ Suffixed \in [Name -> Seq(Name)]
    /\ Verbs \in [Caller -> SUBSET {"claim", "create", "createUnique", "attach", "destroy"}]
    /\ 0 \notin Slot /\ Resting \notin Slot

VARIABLES
    live,    \* tmux: the name of each session
    next,    \* tmux: the next session id
    changed, \* a %sessions-changed is on its way
    table,   \* _sessions
    name,    \* the name in a session's entry; kept when the entry leaves the table
    byName,  \* _byName
    told,    \* the list of a client that has heard every delta
    proxy,   \* the supervisor's registry
    run,     \* the reconciles under way
    current, \* _refreshInFlight
    behind,  \* _refreshPending: the reconcile it waits for
    due,     \* that reconcile has ended, the follow-up has not begun
    caller,  \* the verbs under way
    await,   \* what each verb awaits of the reconciles
    left     \* what remains of the three bounds

tmux == <<live, next, changed>>
\* SessionEntry: the counts, the marker and the options of a session are left out.
entries == <<table, name, byName, told>>
reconciles == <<run, current, behind, due>>
verbs == <<caller, await>>
vars == <<tmux, entries, proxy, reconciles, verbs, left>>

Id == 1..MaxId
NoId == 0
Live(s) == live[s] # NoName
Taken(n) == \E s \in Id : live[s] = n
Spend(b) == left[b] > 0 /\ left' = [left EXCEPT ![b] = @ - 1]

Final == {"ok", "refused", "rejected"}
Awaiting == {"create?", "unique?", "claim", "again", "attach"}
Stage == {"off", "creating", "created", "taken", "mark", "ensure", "joined",
          "killing", "killed"} \cup Awaiting \cup Final

NoAwait == [on |-> NoId, woken |-> FALSE, first |-> FALSE]
NewRun == [phase |-> "listing", rows |-> [s \in Id |-> NoName],
           seen |-> {}, suspects |-> {}, asking |-> NoId]

Init ==
    /\ next = Len(Found) + 1
    /\ live = [s \in Id |-> IF s < next THEN Found[s] ELSE NoName]
    /\ changed = FALSE
    /\ table = {} /\ name = [s \in Id |-> NoName] /\ byName = [n \in Name |-> NoId]
    /\ told = [s \in Id |-> NoName]
    /\ proxy = [s \in Id |-> "none"]
    /\ current = CHOOSE r \in Slot : TRUE
    /\ run = [r \in Slot |-> IF r = current THEN NewRun ELSE Resting]
    /\ behind = NoId /\ due = FALSE
    /\ caller = [c \in Caller |-> [stage |-> "off"]]
    /\ await = [c \in Caller |-> NoAwait]
    /\ left = [event |-> Events, fault |-> Faults, flap |-> Flaps]

-----------------------------------------------------------------------------
(* Coalescing: _refreshSessions and _startRefresh *)

\* No continuation is waiting to run.
Calm == ~due /\ \A c \in Caller : ~await[c].woken

Free == CHOOSE r \in Slot : run[r] = Resting
StartRefresh ==
    /\ \E r \in Slot : run[r] = Resting     \* bound
    /\ run' = [run EXCEPT ![Free] = NewRun]
    /\ current' = Free

\* A request starts a reconcile, or shares the one follow-up.
SharesFollowUp == behind' = IF behind = NoId THEN current ELSE behind
Refresh ==
    IF current = NoId
    THEN StartRefresh /\ UNCHANGED behind
    ELSE SharesFollowUp /\ UNCHANGED <<run, current>>

\* The same, awaited by c: the one who starts a reconcile awaits it, the others its follow-up.
Awaited == [NoAwait EXCEPT !.on = IF current = NoId THEN Free
                                  ELSE IF behind' = NoId THEN current ELSE NoId,
                           !.first = (current = NoId)]
RefreshFor(c) ==
    /\ Refresh
    /\ await' = [await EXCEPT ![c] = Awaited]

\* Reconcile r is over: its awaiters and the follow-up are due.
EndRun(r) ==
    /\ run' = [run EXCEPT ![r] = Resting]
    /\ current' = IF current = r THEN NoId ELSE current
    /\ due' = (due \/ behind = r)
    /\ await' = [c \in Caller |-> IF await[c].on = r THEN [await[c] EXCEPT !.on = NoId, !.woken = TRUE]
                                  ELSE await[c]]
    /\ UNCHANGED behind

InRefresh(c) == caller[c].stage \in Awaiting

\* The follow-up: it comes after the continuation of whoever started the reconcile, which
\* had subscribed to it first.  All who share it now await the new reconcile.
HandedOver ==
    await' = [c \in Caller |->
                 IF InRefresh(c) /\ await[c] = NoAwait THEN [NoAwait EXCEPT !.on = Free]
                 ELSE await[c]]
StartFollowUp ==
    /\ due /\ \A c \in Caller : ~(await[c].woken /\ await[c].first)
    /\ StartRefresh /\ behind' = NoId /\ due' = FALSE
    /\ HandedOver
    /\ UNCHANGED <<tmux, entries, proxy, caller, left>>

\* The watcher reads %sessions-changed.
WatcherNotices ==
    /\ Calm /\ changed /\ changed' = FALSE
    /\ Refresh
    /\ UNCHANGED <<live, next, entries, proxy, due, verbs, left>>

-----------------------------------------------------------------------------
(* One reconcile: _doRefreshSessions *)

unlisted == <<tmux, proxy, caller>>

\* list-sessions answers; or it leaves out live sessions.
ListSessions(r) ==
    /\ Calm /\ run[r] # Resting /\ run[r].phase = "listing"
    /\ \E rows \in {live} \cup {[live EXCEPT ![s] = NoName] : s \in Id} :
         /\ run' = [run EXCEPT ![r].phase = "checking", ![r].rows = rows]
         /\ IF rows = live THEN UNCHANGED left ELSE Spend("fault")
    /\ UNCHANGED <<unlisted, entries, current, behind, due, await>>

\* It fails, which changes nothing and is not retried.
ListFails(r) ==
    /\ Calm /\ run[r] # Resting /\ run[r].phase = "listing"
    /\ Spend("fault")
    /\ EndRun(r)
    /\ UNCHANGED <<unlisted, entries>>

\* has-session: a churning server may call a live session absent, or not answer at all.
SaysAbsent(s) ==
    \/ ~Live(s) /\ UNCHANGED left
    \/ Live(s) /\ Spend("flap")
SaysNot(s) ==
    \/ Live(s) /\ UNCHANGED left
    \/ Spend("fault")

\* The sessions it lists.
Listed(r) == {s \in Id : run[r].rows[s] # NoName}

Unseen(r) == (table \ run[r].seen) \ Listed(r)

\* The next tracked session that the listing lacks: a proxy, or anything but "absent", keeps it.
CheckPresence(r, s) ==
    /\ Calm /\ run[r] # Resting /\ run[r].phase = "checking" /\ s \in Unseen(r)
    /\ \/ /\ (proxy[s] # "none" /\ UNCHANGED left) \/ (proxy[s] = "none" /\ SaysNot(s))
          /\ run' = [run EXCEPT ![r].seen = @ \cup {s}]
       \/ /\ proxy[s] = "none" /\ SaysAbsent(s)
          /\ run' = [run EXCEPT ![r].seen = @ \cup {s}, ![r].suspects = @ \cup {s}]
    /\ UNCHANGED <<unlisted, entries, current, behind, due, await>>

\* SESSION_ABSENCE_RECONFIRM_MS have passed.
Settle(r) ==
    /\ Calm /\ run[r] # Resting /\ run[r].phase = "checking"
    /\ Unseen(r) = {} /\ run[r].suspects # {}
    /\ run' = [run EXCEPT ![r].phase = "confirming", ![r].seen = {}]
    /\ UNCHANGED <<unlisted, entries, current, behind, due, await, left>>

\* Each suspect is looked at again unless it has a proxy by now ...
LookAgain(r, s) ==
    /\ Calm /\ run[r] # Resting /\ run[r].phase = "confirming"
    /\ run[r].asking = NoId /\ s \in run[r].suspects
    /\ run' = [run EXCEPT ![r].suspects = @ \ {s},
                          ![r].asking = IF s \in table /\ proxy[s] = "none" THEN s ELSE NoId]
    /\ UNCHANGED <<unlisted, entries, current, behind, due, await, left>>

\* ... and removed, with the proxy it may have got meanwhile, if it is still called absent.
\* What a client does with each of the three deltas.
BroadcastAdded(list, s, n) == [list EXCEPT ![s] = n]
BroadcastRemoved(list, s) == [list EXCEPT ![s] = NoName]
BroadcastRenamed(list, s, n) == [list EXCEPT ![s] = n]
OneLookIsEnough(s) == UNCHANGED left     \* mutant: no second look
StillAbsent(s) == SaysAbsent(s)
Removed(s) ==
    /\ table' = table \ {s}
    /\ byName' = [byName EXCEPT ![name[s]] = NoId]
    /\ told' = BroadcastRemoved(told, s)
    /\ UNCHANGED name
ConfirmAbsence(r, s) ==
    /\ Calm /\ run[r] # Resting /\ run[r].asking = s
    /\ run' = [run EXCEPT ![r].asking = NoId]
    /\ \/ SaysNot(s) /\ UNCHANGED <<entries, proxy>>
       \/ StillAbsent(s) /\ Removed(s) /\ proxy' = [proxy EXCEPT ![s] = "none"]
    /\ UNCHANGED <<tmux, caller, current, behind, due, await>>

\* Additions and renames, row by row.  (tmux's order is left open.)
KeyKept(idx, n) == idx     \* mutant: a rename leaves the old key behind
KeyDropped(idx, n) == [idx EXCEPT ![n] = NoId]
TakeRow(t, row) ==
    IF row[1] \notin t.table
    THEN [t EXCEPT !.table = @ \cup {row[1]}, !.name[row[1]] = row[2], !.byName[row[2]] = row[1],
                   !.told = BroadcastAdded(@, row[1], row[2])]
    ELSE IF t.name[row[1]] = row[2] THEN t
    ELSE [t EXCEPT !.name[row[1]] = row[2],
                   !.byName = [KeyDropped(@, t.name[row[1]]) EXCEPT ![row[2]] = row[1]],
                   !.told = BroadcastRenamed(@, row[1], row[2])]

Decided(r) ==
    \/ run[r].phase = "checking" /\ Unseen(r) = {} /\ run[r].suspects = {}
    \/ run[r].phase = "confirming" /\ run[r].suspects = {} /\ run[r].asking = NoId
ApplyRows(r) ==
    /\ Calm /\ run[r] # Resting /\ Decided(r)
    /\ \E order \in SetToSeqs({<<s, run[r].rows[s]>> : s \in Listed(r)}) :
         LET t == FoldLeft(TakeRow, [table |-> table, name |-> name, byName |-> byName,
                                  told |-> told], order)
         IN table' = t.table /\ name' = t.name /\ byName' = t.byName /\ told' = t.told
    /\ EndRun(r)
    /\ UNCHANGED <<unlisted, left>>

-----------------------------------------------------------------------------
(* Verbs *)

Became(c, fields) == caller' = [caller EXCEPT ![c] = fields]
\* A verb goes on, or it ends and its locals are gone.
Goes(c, stage) ==
    IF stage \in Final THEN Became(c, [stage |-> stage])
    ELSE caller' = [caller EXCEPT ![c].stage = stage]

\* claimLocks: a claim for n is under way.
Claiming(c, n) == caller[c].stage \in
    {"claim", "creating", "created", "taken", "again", "mark", "ensure"}
        /\ caller[c].name = n
InFlight(n) == \E c \in Caller : Claiming(c, n)

\* A claim is over: those who joined it end as it does, its own verb goes on.
Joined(c) == {d \in Caller : caller[d].stage = "joined" /\ c \in caller[d].peer}
ClaimEnds(c, outcome, fields) ==
    caller' = [d \in Caller |-> IF d \in Joined(c) THEN [stage |-> outcome]
                               ELSE IF d = c THEN fields ELSE caller[d]]

\* "must" says what a claim does if it made no session: nothing, fail, or try another name;
\* "made" is the session it made, created:true.
Verb(stage, n, s) == [stage |-> stage, name |-> n, id |-> s, peer |-> {},
                      must |-> FALSE, rest |-> <<>>, made |-> NoId]
Begin(c, v) == Calm /\ caller[c].stage = "off" /\ v \in Verbs[c]

\* session.claim: joins the claim in flight for the name, or starts one.
Claim(c, n) ==
    /\ Begin(c, "claim")
    /\ IF InFlight(n)
       THEN /\ Became(c, [Verb("joined", n, NoId) EXCEPT
                             !.peer = {d \in Caller : Claiming(d, n)}])
            /\ UNCHANGED <<reconciles, await>>
       ELSE Became(c, Verb("claim", n, NoId)) /\ RefreshFor(c) /\ UNCHANGED due
    /\ UNCHANGED <<tmux, entries, proxy, left>>

\* session.create
Create(c, n) ==
    /\ Begin(c, "create")
    /\ Became(c, [Verb("create?", n, NoId) EXCEPT !.must = TRUE]) /\ RefreshFor(c)
    /\ UNCHANGED <<tmux, entries, proxy, due, left>>

\* session.createUnique: only its first attempt refreshes.
CreateUnique(c, n) ==
    /\ Begin(c, "createUnique")
    /\ Became(c, [Verb("unique?", n, NoId) EXCEPT !.must = TRUE, !.rest = Suffixed[n]])
    /\ RefreshFor(c)
    /\ UNCHANGED <<tmux, entries, proxy, due, left>>

\* session.attach, of a session that is or was there.
Attach(c, s) ==
    /\ Begin(c, "attach") /\ s < next
    /\ Became(c, Verb("attach", NoName, s)) /\ RefreshFor(c)
    /\ UNCHANGED <<tmux, entries, proxy, due, left>>

\* An awaited reconcile has ended.  Whoever started it goes first, then the follow-up
\* starts, then those who shared it go on.
Woken(c) ==
    /\ await[c].woken
    /\ await[c].first \/ (~due /\ \A d \in Caller : ~(await[d].woken /\ await[d].first))
Continue(c, stage) ==
    /\ caller[c].stage = stage /\ Woken(c)
Done(c) == await' = [await EXCEPT ![c] = NoAwait]

\* ensureSessionProxy: the registry has the creation at once.
Ensuring(s) == proxy' = [proxy EXCEPT ![s] = IF @ = "none" THEN "starting" ELSE @]

\* create: a name in the table or being claimed is taken; else it claims, and refreshes again.
CreateChecks(c) ==
    /\ Continue(c, "create?")
    /\ IF byName[caller[c].name] # NoId \/ InFlight(caller[c].name)
       THEN Goes(c, "refused") /\ Done(c) /\ UNCHANGED <<run, current, behind>>
       ELSE Goes(c, "claim") /\ RefreshFor(c)
    /\ UNCHANGED <<tmux, entries, proxy, due, left>>

\* createUnique claims the next of its names that is neither in the table nor being claimed;
\* those it passes over it does not come back to.  (It never runs out of names; the model
\* does, which is a bound.)
TriesNext(c) ==
    LET rest == caller[c].rest
        free == {i \in DOMAIN rest : byName[rest[i]] = NoId /\ ~InFlight(rest[i])}
    IN  IF free = {} THEN [stage |-> "refused"]
        ELSE [caller[c] EXCEPT !.stage = "claim", !.name = rest[Min(free)],
                               !.rest = SubSeq(rest, Min(free) + 1, Len(rest))]
RefreshIfTrying(c, fields) ==
    IF fields.stage = "claim" THEN RefreshFor(c) ELSE Done(c) /\ UNCHANGED <<run, current, behind>>
UniqueChecks(c) ==
    /\ Continue(c, "unique?")
    /\ Became(c, TriesNext(c)) /\ RefreshIfTrying(c, TriesNext(c))
    /\ UNCHANGED <<tmux, entries, proxy, due, left>>

\* doClaimSession after its refresh: the name is found, or new-session is sent; after a
\* lost race it must be found.
ClaimLooksUp(c) ==
    \E stage \in {"claim", "again"} :
        /\ Continue(c, stage)
        /\ LET s == byName[caller[c].name]
           IN IF s # NoId THEN caller' = [caller EXCEPT ![c].stage = "mark", ![c].id = s]
              ELSE IF stage = "claim" THEN Goes(c, "creating")
              ELSE ClaimEnds(c, "refused", [stage |-> "refused"])
        /\ Done(c)
        /\ UNCHANGED <<tmux, entries, proxy, reconciles, left>>

\* The attach-only decision point: an unknown session is refused.
AttachLooksUp(c) ==
    /\ Continue(c, "attach")
    /\ IF caller[c].id \in table THEN Goes(c, "ensure") /\ Ensuring(caller[c].id)
       ELSE Goes(c, "refused") /\ UNCHANGED proxy
    /\ Done(c)
    /\ UNCHANGED <<tmux, entries, reconciles, left>>

\* tmux runs new-session.
TmuxCreates(c) ==
    /\ caller[c].stage = "creating"
    /\ IF Taken(caller[c].name)
       THEN Goes(c, "taken") /\ UNCHANGED tmux
       ELSE /\ next <= MaxId
            /\ live' = [live EXCEPT ![next] = caller[c].name]
            /\ next' = next + 1 /\ changed' = TRUE
            /\ caller' = [caller EXCEPT ![c].stage = "created", ![c].id = next]
    /\ UNCHANGED <<entries, proxy, reconciles, await, left>>

CreateFails(c) ==
    /\ caller[c].stage = "creating"
    /\ IF next > MaxId THEN UNCHANGED left ELSE Spend("fault")     \* bound
    /\ ClaimEnds(c, "refused", [stage |-> "refused"])
    /\ UNCHANGED <<tmux, entries, proxy, reconciles, await>>

\* The new session is registered unless a reconcile has seen the name before.
Registers(s, n) ==
    /\ table' = table \cup {s}
    /\ name' = [name EXCEPT ![s] = n]
    /\ byName' = [byName EXCEPT ![n] = s]
    /\ told' = BroadcastAdded(told, s, n)
CreateReturns(c) ==
    /\ Calm /\ caller[c].stage = "created"
    /\ LET n == caller[c].name
           s == caller[c].id
       IN IF byName[n] # NoId
          THEN /\ caller' = [caller EXCEPT ![c].stage = "mark", ![c].id = byName[n], ![c].made = s]
               /\ UNCHANGED entries
          ELSE /\ caller' = [caller EXCEPT ![c].stage = "mark", ![c].made = s]
               /\ Registers(s, n)
    /\ UNCHANGED <<tmux, proxy, reconciles, await, left>>

\* The name was taken meanwhile: refresh and look again.
CreateLost(c) ==
    /\ Calm /\ caller[c].stage = "taken"
    /\ Goes(c, "again") /\ RefreshFor(c)
    /\ UNCHANGED <<tmux, entries, proxy, due, left>>

\* The markers are set; a proxy is ensured.
Marked(c) ==
    /\ Calm /\ caller[c].stage = "mark"
    /\ Goes(c, "ensure") /\ Ensuring(caller[c].id)
    /\ UNCHANGED <<tmux, entries, reconciles, await, left>>

\* What a verb makes of its claim: a create that made nothing says name-taken, a createUnique
\* goes on to its next name.  (Sessions and proxies it came upon stay.)
Settled(c) ==
    IF ~caller[c].must \/ caller[c].made # NoId THEN [stage |-> "ok"] ELSE TriesNext(c)

\* The proxy is up, or it could not attach; reaped meanwhile, it may be either.
ProxyReady(c) ==
    /\ Calm /\ caller[c].stage = "ensure"
    /\ LET s == caller[c].id
       IN \/ /\ proxy[s] = "none" \/ Live(s) \/ proxy[s] = "up"
             /\ proxy' = [proxy EXCEPT ![s] = IF @ = "starting" THEN "up" ELSE @]
             /\ ClaimEnds(c, "ok", Settled(c)) /\ RefreshIfTrying(c, Settled(c))
             /\ UNCHANGED left
          \/ /\ proxy[s] # "up"
             /\ proxy' = [proxy EXCEPT ![s] = "none"]
             /\ ClaimEnds(c, "rejected", [stage |-> "rejected"])
             /\ UNCHANGED <<run, current, behind, await>>
             /\ IF Live(s) THEN Spend("fault") ELSE UNCHANGED left
    /\ UNCHANGED <<tmux, entries, due>>

\* session.destroy: reap, kill-session, then the table.
Destroy(c, s) ==
    /\ Begin(c, "destroy") /\ s \in table
    /\ proxy' = [proxy EXCEPT ![s] = "none"]
    /\ Became(c, Verb("killing", NoName, s))
    /\ UNCHANGED <<tmux, entries, reconciles, await, left>>

TmuxKills(c) ==
    /\ caller[c].stage = "killing"
    /\ IF Live(caller[c].id)
       THEN /\ live' = [live EXCEPT ![caller[c].id] = NoName]
            /\ changed' = TRUE /\ UNCHANGED next
            /\ Goes(c, "killed")
       ELSE Goes(c, "rejected") /\ UNCHANGED tmux
    /\ UNCHANGED <<entries, proxy, reconciles, await, left>>

DestroyReturns(c) ==
    /\ Calm /\ caller[c].stage = "killed"
    /\ Removed(caller[c].id)
    /\ Goes(c, "ok")
    /\ UNCHANGED <<tmux, proxy, reconciles, await, left>>

\* onCrash: the host of a ready proxy is gone, by itself or with its session.
Unnoticed == UNCHANGED <<run, current, behind>>     \* mutant: no reconcile on a crash
CrashHandled == Refresh
HostDies(s) ==
    /\ Calm /\ proxy[s] = "up"
    /\ IF Live(s) THEN Spend("fault") ELSE UNCHANGED left
    /\ proxy' = [proxy EXCEPT ![s] = "none"]
    /\ CrashHandled
    /\ UNCHANGED <<tmux, entries, due, verbs>>

-----------------------------------------------------------------------------
(* Other tmux clients *)

untouched == <<entries, proxy, reconciles, verbs>>

Appears(n) ==
    /\ Spend("event") /\ ~Taken(n) /\ next <= MaxId
    /\ live' = [live EXCEPT ![next] = n]
    /\ next' = next + 1 /\ changed' = TRUE
    /\ UNCHANGED untouched

Disappears(s) ==
    /\ Spend("event") /\ Live(s)
    /\ live' = [live EXCEPT ![s] = NoName] /\ changed' = TRUE
    /\ UNCHANGED <<next, untouched>>

\* rename-session is announced to its own clients only.
IsRenamed(s, n) ==
    /\ Spend("event") /\ Live(s) /\ ~Taken(n)
    /\ live' = [live EXCEPT ![s] = n]
    /\ UNCHANGED <<next, changed, untouched>>

-----------------------------------------------------------------------------
Begins ==
    \E c \in Caller :
      \/ \E n \in Name : Claim(c, n) \/ Create(c, n) \/ CreateUnique(c, n)
      \/ \E s \in Id : Attach(c, s) \/ Destroy(c, s)
Others ==
    \/ \E n \in Name : Appears(n)
    \/ \E s \in Id : Disappears(s) \/ \E n \in Name : IsRenamed(s, n)
Reconciling ==
    \/ StartFollowUp \/ WatcherNotices
    \/ \E r \in Slot :
         \/ ListSessions(r) \/ ListFails(r) \/ Settle(r) \/ ApplyRows(r)
         \/ \E s \in Id : CheckPresence(r, s) \/ LookAgain(r, s) \/ ConfirmAbsence(r, s)
Serving ==
    \/ \E c \in Caller :
         \/ CreateChecks(c) \/ UniqueChecks(c) \/ ClaimLooksUp(c) \/ AttachLooksUp(c)
         \/ TmuxCreates(c) \/ CreateFails(c) \/ CreateReturns(c) \/ CreateLost(c)
         \/ Marked(c) \/ ProxyReady(c) \/ TmuxKills(c) \/ DestroyReturns(c)
    \/ \E s \in Id : HostDies(s)
Next == Begins \/ Others \/ Reconciling \/ Serving

Spec == Init /\ [][Next]_vars
\* What is under way goes on; nobody must begin anything.
FairSpec == Spec /\ WF_vars(Reconciling \/ Serving)
-----------------------------------------------------------------------------
(* Properties *)

Run == [phase : {"listing", "checking", "confirming"}, rows : [Id -> Name \cup {NoName}],
        seen : SUBSET Id, suspects : SUBSET Id, asking : Id \cup {NoId}]

\* Every variable has its type; an entry of _sessions has a name.
TypeOK ==
    /\ live \in [Id -> Name \cup {NoName}] /\ next \in 1..(MaxId + 1) /\ changed \in BOOLEAN
    /\ table \in SUBSET {s \in Id : name[s] # NoName} /\ name \in [Id -> Name \cup {NoName}]
    /\ byName \in [Name -> Id \cup {NoId}] /\ told \in [Id -> Name \cup {NoName}]
    /\ proxy \in [Id -> {"none", "starting", "up"}]
    /\ \A r \in Slot : run[r] = Resting \/ run[r] \in Run
    /\ current \in Slot \cup {NoId} /\ behind \in Slot \cup {NoId} /\ due \in BOOLEAN
    /\ \A c \in Caller : caller[c].stage \in Stage

NamesLeadRight ==
    \A n \in Name : byName[n] # NoId => byName[n] \in table /\ name[byName[n]] = n
\* A created session is registered although a reconcile had found it, under another name.
RegisteredTwice ==
    \E c \in Caller : caller[c].stage = "created" /\ caller[c].id \in table /\ caller' # caller

\* A name leads to the session that the table has under that name, whatever reconciles,
\* renames, registrations and destroys interleave, so that a claim never gets a session of
\* another name.  Only a rename between new-session and its answer breaks it.
IndexStaysRight == [][NamesLeadRight /\ ~RegisteredTwice => NamesLeadRight']_vars

\* "removed" means confirmed absent (_doRefreshSessions): one listing that leaves a session
\* out and one wrong has-session together do not drop a live session.  And while tmux
\* answers, an attach is refused only if the session was not there for the whole of it, so
\* one created just before is admitted (_refreshSessions).  And as long as nobody else makes,
\* renames or ends sessions, a create or createUnique that says "ok" answers with the session
\* that tmux made for it, never with one that another verb made or found.
LiveIsKnown ==
    /\ [][\A s \in table \ table' : ~Live(s)]_vars
    /\ [][\A c \in Caller :
            /\ left.fault = Faults
            /\ caller[c].stage = "attach" /\ caller'[c].stage = "refused"
            => ~Live(caller[c].id)]_vars
    /\ [][\A c \in Caller :
            /\ left.fault = Faults /\ left.event = Events
            /\ caller[c].stage = "ensure" /\ caller[c].must /\ caller'[c].stage = "ok"
            => caller[c].id = caller[c].made]_vars

\* D6, "at most one reconcile runs at a time" (_refreshSessions).
OneReconcile == \A r, q \in Slot : run[r] # Resting /\ run[q] # Resting => r = q

Told == {s \in Id : told[s] # NoName}

\* While reconciles do not overlap, tmux answers, and neither a proxy fails to start nor a
\* destroy to kill, the table comes to hold exactly tmux's sessions, and so does the list of a
\* client that has heard every delta: every coming and going is announced by the watcher, a
\* dying proxy or a destroy, in whatever order they arrive.
Undisturbed ==
    OneReconcile /\ left.fault = Faults /\ \A c \in Caller : caller[c].stage # "rejected"
TableConverges == []Undisturbed => <>[](table = {s \in Id : Live(s)} /\ Told = table)

\* A verb that began ends, as the chain of coalesced reconciles never loses an awaiter, and
\* the table converges.
EverythingSettles ==
    /\ \A c \in Caller : caller[c].stage # "off" ~> caller[c].stage \in Final
    /\ TableConverges

\* "The server-proxy reaps the sessionProxy (if any) bound to this session before emitting
\* sessions.removed" (server-proxy-control.ts): a client that hears it need not reckon with a
\* proxy of that session any more.  A destroy that is overtaken by an attach breaks it.
RemovedIsReaped ==
    [][\A s \in Id : told[s] # NoName /\ told'[s] = NoName => proxy'[s] = "none"]_vars

\* lookupByName "returns `undefined` when the session is not in the server-proxy table"
\* (claim-session.ts), and only then: a session that the table has under the name tmux
\* gives it is found by that name.
TableIsIndexed == \A s \in table : live[s] = name[s] => byName[name[s]] # NoId
=============================================================================
