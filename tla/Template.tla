------------------------------- MODULE Template -------------------------------
(* Session templates of the broker: a template is compiled to windows and panes in         *)
(* creation order (template/compile.ts), diffed against a live session by window name      *)
(* (template/diff.ts) and applied command by command over the session-proxy's correlated   *)
(* path (template/apply.ts), while other clients and the panes' own commands change the    *)
(* same session.  Nothing is rolled back: an apply that tmux refuses half-way answers with *)
(* what it has created so far.                                                             *)
(*                                                                                         *)
(* Layout carries the pure part, down to the layout string select-layout is given.  tmux   *)
(* runs a command when it is sent; what an apply does next it decides from the reply, with *)
(* any step of the others in between.                                                      *)
EXTENDS Layout

CONSTANTS Clients,    \* connections of the broker that send a template
          Requests,   \* Requests[c]: the records [verb, template] client c may send, in turn
          Sizes,      \* the window sizes <<cols, rows>> a dimensions query may read
          UserNames,  \* the names a user gives to a window
          MaxUser,    \* bound on the steps of users
          MaxFaults,  \* bound on the commands that tmux refuses for a reason of its own
          Hazards     \* what else happens: "kill", "exit", "blind" (see below)

ASSUME TemplateAssumption ==
    /\ MaxUser \in Nat /\ MaxFaults \in Nat
    /\ Hazards \subseteq {"kill", "exit", "blind"}

VARIABLES windows,    \* the session in tmux, in index order; <<>> when there is none
          specOf,     \* what each pane was started with
          stamp,      \* the session's @tmuxcc-template option
          job,        \* each client's request in the broker
          sent,       \* how many requests each client has sent
          minted,     \* every id tmux created for a client's current request (history)
          lost,       \* somebody else has closed a window or a pane (history)
          next, users, faults

vars == <<windows, specOf, stamp, job, sent, minted, lost, next, users, faults>>

Unnamed == "unnamed"
WindowTemplate(name, geometry) == [name |-> name, geometry |-> geometry]
SessionTemplate(name, ws) == [name |-> name, windows |-> ws]
\* A default shell in the session's directory, and a window of one such pane.
NoSpec == PaneSpec(Omitted, Omitted)
NoGeometry == [TemplatePane(NoSpec) EXCEPT !.kind = "omitted"]
NoTemplate == SessionTemplate(Unnamed, <<>>)

-------------------------------------------------------------------------------
(* Compiling.                                                                              *)

\* A split has two children or more, and weights that are parallel to them and positive.
RECURSIVE Sound(_)
Sound(node) ==
    \/ node.kind = "pane"
    \/ /\ Len(node.children) >= 2
       /\ node.sizes = <<>> \/ Len(node.sizes) = Len(node.children)
       /\ \A i \in DOMAIN node.sizes : node.sizes[i] > 0
       /\ \A i \in DOMAIN node.children : Sound(node.children[i])

\* The leaves in the order layout_assign will fill them: depth first.
RECURSIVE CollectLeaves(_)
CollectLeaves(node) ==
    IF node.kind = "pane" THEN <<node.spec>>
    ELSE FlattenSeq([i \in DOMAIN node.children |-> CollectLeaves(node.children[i])])

CompileWindow(w) ==
    LET panes == IF w.geometry = NoGeometry THEN <<NoSpec>> ELSE CollectLeaves(w.geometry)
    IN  [name |-> w.name, panes |-> panes,
         geometry |-> IF Len(panes) > 1 THEN w.geometry ELSE NoGeometry]

Valid(template) ==
    /\ template.windows /= <<>>
    /\ \A i \in DOMAIN template.windows :
         template.windows[i].geometry = NoGeometry \/ Sound(template.windows[i].geometry)

CompileTemplate(template) ==
    [i \in DOMAIN template.windows |-> CompileWindow(template.windows[i])]

\* The windows to create: those with no name, and those whose name no live window has.
TemplateDiff(template, liveNames) ==
    SelectSeq(template.windows, LAMBDA w : w.name = Unnamed \/ w.name \notin liveNames)

(* Freezing: list-windows gives the names and the visible layouts, list-panes the           *)
(* directories, and the session may have changed between the two calls.  A window always     *)
(* keeps its geometry, a pane that has gone in between only loses its directory.             *)
ListSessionForFreeze(listed, cwdNow) ==
    [rows |-> [i \in DOMAIN listed |-> [name |-> listed[i].name, root |-> listed[i].root]],
     cwdOf |-> cwdNow]
BuildFrozenTemplate(data, name) ==
    SessionTemplate(name, [i \in DOMAIN data.rows |->
        WindowTemplate(data.rows[i].name, ActualToDesiredNode(data.rows[i].root, data.cwdOf))])

-------------------------------------------------------------------------------
(* tmux, as far as an apply reaches it.                                                    *)

Ids == {windows[i].id : i \in DOMAIN windows}
IndexOf(id) == CHOOSE i \in DOMAIN windows : windows[i].id = id
WindowOf(pane) == CHOOSE i \in DOMAIN windows : Contains(windows[i].panes, pane)
LivePanes == UNION {Range(windows[i].panes) : i \in DOMAIN windows}
LiveNames == {windows[i].name : i \in DOMAIN windows}

NewWindow(owner, name, id, pane) ==
    [id |-> id, name |-> name, panes |-> <<pane>>, owner |-> owner, layout |-> <<>>,
     touched |-> FALSE]

\* kill-window: by id, whoever made it.
KillWindow(id) == SelectSeq(windows, LAMBDA w : w.id /= id)

\* split-window puts the new pane right after its target in the window's list.
After(panes, target, pane) ==
    LET k == CHOOSE j \in DOMAIN panes : panes[j] = target IN InsertAt(panes, k + 1, pane)

(* What tmux reads out of the string that select-layout is given, for every geometry and    *)
(* size of an instance: the cells, and whether the string passes its checksum and           *)
(* layout_check.                                                                           *)
Geometries ==
    UNION {UNION {{w.geometry : w \in Range(r.template.windows)} : r \in Range(Requests[c])}
             : c \in Clients} \ {NoGeometry}
Drawable == {g \in Geometries : Sound(g)}
Rendered ==
    [g \in Drawable, size \in Sizes |->
        LET parsed == ParseLayout(SerializeGeometry(g, size[1], size[2]))
        IN  [cells |-> LeavesOf(parsed.root),
             sound |-> parsed.ok /\ parsed.checksum = parsed.computed /\ LayoutCheck(parsed.root)]]

\* layout_assign: the window's panes take the cells by position; more panes than cells is
\* an error, spare cells are dropped.
Assigned(panes, drawn) == [i \in DOMAIN panes |-> [drawn.cells[i] EXCEPT !.pane = panes[i]]]
LayoutFits(panes, drawn) == drawn.sound /\ Len(panes) <= Len(drawn.cells)

Without(s, x) == SelectSeq(s, LAMBDA y : y /= x)

-------------------------------------------------------------------------------
(* A request in the broker.  "pc" is the command it sends next; an answered request keeps  *)
(* what it answered.                                                                       *)

Idle == [pc |-> "idle", verb |-> "none", template |-> NoTemplate, todo |-> <<>>, panes |-> <<>>,
         first |-> 0, last |-> 0, size |-> <<0, 0>>, initial |-> 0, created |-> <<>>,
         ok |-> FALSE, windows |-> <<>>]

Init ==
    /\ windows = <<>> /\ specOf = <<>> /\ stamp = Unnamed
    /\ job = [c \in Clients |-> Idle]
    /\ sent = [c \in Clients |-> 0]
    /\ minted = [c \in Clients |-> {}]
    /\ lost = FALSE /\ next = 1 /\ users = 0 /\ faults = 0

Request(c) == Requests[c][sent[c] + 1]
\* A client sends its next request when the last one has been answered.
MaySend(c) == job[c].pc \in {"idle", "answered"} /\ sent[c] < Len(Requests[c])

Set(c, r) == job' = [job EXCEPT ![c] = r]
\* Mutant: an error that nothing catches.
AnswerOkOnly(c, ok) == Set(c, [job[c] EXCEPT !.pc = IF ok THEN "answered" ELSE "thrown", !.ok = ok])
\* The catch of _handleCommand: result.ok = false, with the topology created so far.
Answer(c, ok) == Set(c, [job[c] EXCEPT !.pc = "answered", !.ok = ok])

Begun(c, pc, ws) ==
    [Idle EXCEPT !.pc = pc, !.verb = Request(c).verb, !.template = Request(c).template,
                 !.windows = ws]
Start(c, r) ==
    /\ Set(c, r)
    /\ sent' = [sent EXCEPT ![c] = @ + 1]
    /\ minted' = [minted EXCEPT ![c] = {}]

(* session.claim with a template: the claim that mints the session applies it, and no      *)
(* other; a template that does not compile fails before any command, the session stays.    *)
Claim(c) ==
    /\ MaySend(c) /\ Request(c).verb = "claim"
    /\ next = 1 \/ windows /= <<>>
    /\ IF windows = <<>>
       THEN /\ windows' = <<NewWindow("initial", Unnamed, next, next + 1)>>
            /\ specOf' = specOf @@ (next + 1 :> NoSpec)
            /\ next' = next + 2
            /\ Start(c, IF Valid(Request(c).template)
                        THEN [Begun(c, "list-windows", Request(c).template.windows)
                                EXCEPT !.todo = CompileTemplate(Request(c).template)]
                        ELSE [Begun(c, "answered", <<>>) EXCEPT !.ok = FALSE])
       ELSE /\ Start(c, [Begun(c, "answered", <<>>) EXCEPT !.ok = TRUE])
            /\ UNCHANGED <<windows, specOf, next>>
    /\ UNCHANGED <<stamp, lost, users, faults>>

(* session.applyTemplate: the topology query, the diff and the preview.  A query that fails *)
(* ("blind": the session may well be alive) counts as a session with no windows.           *)
ApplyTemplateLive(c) ==
    /\ MaySend(c) /\ Request(c).verb \in {"apply", "preview"}
    /\ windows /= <<>>
    /\ \E live \in {LiveNames} \cup (IF "blind" \in Hazards THEN {{}} ELSE {}) :
         LET missing == TemplateDiff(Request(c).template, live)
             sub == [Request(c).template EXCEPT !.windows = missing]
         IN  Start(c, IF Request(c).verb = "preview" \/ missing = <<>>
                      THEN [Begun(c, "answered", missing) EXCEPT !.ok = TRUE]
                      ELSE IF ~Valid(sub) THEN Begun(c, "answered", <<>>)
                      ELSE [Begun(c, "set-option", missing) EXCEPT !.todo = CompileTemplate(sub)])
    /\ UNCHANGED <<windows, specOf, stamp, lost, next, users, faults>>

(* Every command may be refused for tmux's own reasons (no space, a failing shell, a dead  *)
(* control client); "refused" adds the reasons the model knows.                            *)
Refused(c, pc, refused) ==
    /\ job[c].pc = pc
    /\ refused \/ faults < MaxFaults
    /\ faults' = IF refused THEN faults ELSE faults + 1
    /\ Answer(c, FALSE)
    /\ UNCHANGED <<windows, specOf, stamp, sent, minted, lost, next, users>>

Accepted(c, pc, refused) == job[c].pc = pc /\ ~refused
Gone == windows = <<>>

\* Mutant: the last line instead.
LastWindow == windows[Len(windows)].id
\* The first line of list-windows, read before any window of the template exists.
FirstWindow == windows[1].id
ListInitial(c) ==
    \/ Refused(c, "list-windows", Gone)
    \/ /\ Accepted(c, "list-windows", Gone)
       /\ Set(c, [job[c] EXCEPT !.pc = "set-option", !.initial = FirstWindow])
       /\ UNCHANGED <<windows, specOf, stamp, sent, minted, lost, next, users, faults>>

\* set-option -t <name> @tmuxcc-template
Stamped(name) == IF name /= Unnamed THEN name ELSE stamp
\* Awareness first, and only for a template that has a name.
SetTemplateOption(c) ==
    \/ job[c].template.name /= Unnamed /\ Refused(c, "set-option", Gone)
    \/ /\ Accepted(c, "set-option", Gone /\ job[c].template.name /= Unnamed)
       /\ stamp' = Stamped(job[c].template.name)
       /\ Set(c, [job[c] EXCEPT !.pc = "new-window"])
       /\ UNCHANGED <<windows, specOf, sent, minted, lost, next, users, faults>>

\* Where an apply goes when a window is done, and when its panes are.
WindowDone(r) ==
    IF Len(r.todo) > 1 THEN [r EXCEPT !.pc = "new-window", !.todo = Tail(@)]
    ELSE IF r.verb = "claim" THEN [r EXCEPT !.pc = "kill-window", !.todo = <<>>]
    ELSE [r EXCEPT !.pc = "refresh", !.todo = <<>>]
PaneDone(r) ==
    IF r.panes /= <<>> THEN [r EXCEPT !.pc = "split-window"]
    ELSE IF Head(r.todo).geometry /= NoGeometry THEN [r EXCEPT !.pc = "display-message"]
    ELSE WindowDone(r)

\* The created-so-far list names a window as soon as tmux has made it.
ReportWindow(created, id, pane, name) ==
    Append(created, [window |-> id, panes |-> <<pane>>, name |-> name])
\* Mutant: only the first pane of a window is listed.
ReportFirstOnly(created, pane) == created
ReportPane(created, pane) ==
    [created EXCEPT ![Len(created)].panes = Append(@, pane)]

OpenWindow(c) ==
    \/ Refused(c, "new-window", Gone)
    \/ LET w == Head(job[c].todo)
       IN  /\ Accepted(c, "new-window", Gone)
           /\ windows' = Append(windows, NewWindow(c, w.name, next, next + 1))
           /\ specOf' = specOf @@ (next + 1 :> w.panes[1])
           /\ minted' = [minted EXCEPT ![c] = @ \cup {next, next + 1}]
           /\ next' = next + 2
           /\ Set(c, PaneDone([job[c] EXCEPT !.panes = Tail(w.panes),
                  !.first = next + 1, !.last = next + 1,
                  !.created = ReportWindow(@, next, next + 1, w.name)]))
           /\ UNCHANGED <<stamp, sent, lost, users, faults>>

\* Mutant: every split targets the window's first pane.
SplitFirst(r) == r.first
\* Each further leaf splits the pane created last, so the window's list keeps leaf order.
SplitTarget(r) == r.last
SplitPane(c) ==
    LET gone == SplitTarget(job[c]) \notin LivePanes
    IN  \/ Refused(c, "split-window", gone)
        \/ LET k == WindowOf(SplitTarget(job[c]))
           IN  /\ Accepted(c, "split-window", gone)
               /\ windows' = [windows EXCEPT ![k].panes = After(@, SplitTarget(job[c]), next)]
               /\ specOf' = specOf @@ (next :> Head(job[c].panes))
               /\ minted' = [minted EXCEPT ![c] = @ \cup {next}]
               /\ next' = next + 1
               /\ Set(c, PaneDone([job[c] EXCEPT !.panes = Tail(@), !.last = next,
                                                 !.created = ReportPane(@, next)]))
               /\ UNCHANGED <<stamp, sent, lost, users, faults>>

QuerySize(c) ==
    LET gone == job[c].first \notin LivePanes
    IN  \/ Refused(c, "display-message", gone)
        \/ /\ Accepted(c, "display-message", gone)
           /\ \E size \in Sizes :
                Set(c, [job[c] EXCEPT !.pc = "select-layout", !.size = size])
           /\ UNCHANGED <<windows, specOf, stamp, sent, minted, lost, next, users, faults>>

SelectLayout(c) ==
    LET r == job[c]
        id == Last(r.created).window
        drawn == Rendered[Head(r.todo).geometry, r.size]
        unfit == id \notin Ids \/ (id \in Ids /\ ~LayoutFits(windows[IndexOf(id)].panes, drawn))
    IN  /\ r.pc = "select-layout"
        /\ \/ Refused(c, "select-layout", unfit)
           \/ /\ Accepted(c, "select-layout", unfit)
              /\ windows' = [windows EXCEPT ![IndexOf(id)].layout =
                               Assigned(windows[IndexOf(id)].panes, drawn)]
              /\ Set(c, WindowDone(r))
              /\ UNCHANGED <<specOf, stamp, sent, minted, lost, next, users, faults>>

\* Last, when the session has the template's windows: the window the session was born with.
KillInitial(c) ==
    LET gone == job[c].initial \notin Ids
    IN  \/ Refused(c, "kill-window", gone)
        \/ /\ Accepted(c, "kill-window", gone)
           /\ windows' = KillWindow(job[c].initial)
           /\ Set(c, [job[c] EXCEPT !.pc = "refresh"])
           /\ UNCHANGED <<specOf, stamp, sent, minted, lost, next, users, faults>>

\* The broker's table is refreshed, and the answer goes out.
Refresh(c) ==
    /\ job[c].pc = "refresh"
    /\ Answer(c, TRUE)
    /\ UNCHANGED <<windows, specOf, stamp, sent, minted, lost, next, users, faults>>

Apply(c) ==
    \/ ListInitial(c) \/ SetTemplateOption(c) \/ OpenWindow(c) \/ SplitPane(c)
    \/ QuerySize(c) \/ SelectLayout(c) \/ KillInitial(c) \/ Refresh(c)

-------------------------------------------------------------------------------
(* Users of the same session: attached clients of the session-proxy, plain tmux clients,   *)
(* and the programs in the panes, which end when they like.                                *)

UserStep ==
    /\ windows /= <<>> /\ users < MaxUser
    /\ users' = users + 1
    /\ UNCHANGED <<stamp, job, sent, minted, faults>>

UserOpens ==
    /\ UserStep
    /\ \E name \in UserNames :
         windows' = Append(windows, NewWindow("user", name, next, next + 1))
    /\ specOf' = specOf @@ (next + 1 :> NoSpec)
    /\ next' = next + 2
    /\ UNCHANGED lost

UserSplits ==
    /\ UserStep
    /\ \E p \in LivePanes :
         windows' = [windows EXCEPT ![WindowOf(p)].panes = After(@, p, next),
                                    ![WindowOf(p)].touched = TRUE]
    /\ specOf' = specOf @@ (next :> NoSpec)
    /\ next' = next + 1
    /\ UNCHANGED lost

UserRenames ==
    /\ UserStep
    /\ \E i \in DOMAIN windows, name \in UserNames : windows' = [windows EXCEPT ![i].name = name]
    /\ UNCHANGED <<specOf, lost, next>>

UserKills ==
    /\ "kill" \in Hazards
    /\ UserStep
    /\ \E id \in Ids : windows' = KillWindow(id)
    /\ lost' = TRUE
    /\ UNCHANGED <<specOf, next>>

\* A pane whose command has ended is closed, and with its last pane the window.
PaneExits ==
    /\ "exit" \in Hazards
    /\ UserStep
    /\ \E p \in LivePanes :
         LET k == WindowOf(p)
         IN  windows' = IF Len(windows[k].panes) = 1
                        THEN KillWindow(windows[k].id)
                        ELSE [windows EXCEPT ![k].panes = Without(@, p), ![k].touched = TRUE]
    /\ lost' = TRUE
    /\ UNCHANGED <<specOf, next>>

Next ==
    \/ \E c \in Clients : Claim(c) \/ ApplyTemplateLive(c) \/ Apply(c)
    \/ UserOpens \/ UserSplits \/ UserRenames \/ UserKills \/ PaneExits

\* tmux answers every command (or its death fails it), and the broker goes on.
Fairness == \A c \in Clients : WF_vars(Apply(c))
Spec == Init /\ [][Next]_vars /\ Fairness

-------------------------------------------------------------------------------
(* Properties.                                                                             *)

Pcs == {"idle", "answered", "list-windows", "set-option", "new-window", "split-window",
        "display-message", "select-layout", "kill-window", "refresh"}

(* Every live pane belongs to one window, and every request is at a step it has. *)
TypeOK ==
    /\ \A c \in Clients : job[c].pc \in Pcs /\ sent[c] \in 0 .. Len(Requests[c])
    /\ LivePanes \subseteq DOMAIN specOf
    /\ \A i, j \in DOMAIN windows :
         i /= j => Range(windows[i].panes) \cap Range(windows[j].panes) = {}

Reported(r) ==
    UNION {{r.created[i].window} \cup Range(r.created[i].panes) : i \in DOMAIN r.created}
NamesOf(ws) == [i \in DOMAIN ws |-> ws[i].name]

(* Nothing an apply made in tmux goes unreported (apply.ts, TemplateApplyError and the eager *)
(* push of applyWindow): whatever command fails, the created-so-far list names exactly the   *)
(* windows and panes tmux minted for the request, and an apply that succeeds answers with    *)
(* the windows it created and no others. *)
NothingUnreported ==
    \A c \in Clients :
        /\ Reported(job[c]) = minted[c]
        /\ job[c].pc = "answered" /\ job[c].ok /\ minted[c] /= {}
             => NamesOf(job[c].created) = NamesOf(job[c].windows)

LayoutOf(id) == windows[IndexOf(id)].layout

(* Positional assignment puts every program into its own cell (collectLeaves, the split of  *)
(* the last pane, layout_assign): once an apply has succeeded, a window nobody else split    *)
(* has one cell per leaf of the template, and cell i runs leaf i. *)
PanesFollowLeaves ==
    \A c \in Clients : job[c].pc = "answered" /\ job[c].ok =>
        \A i \in DOMAIN job[c].created :
            LET made == job[c].created[i]
                plan == CompileWindow(job[c].windows[i])
            IN  made.window \in Ids /\ ~windows[IndexOf(made.window)].touched =>
                    /\ [k \in DOMAIN made.panes |-> specOf[made.panes[k]]] = plan.panes
                    /\ Len(plan.panes) > 1 =>
                         [k \in DOMAIN LayoutOf(made.window) |-> specOf[LayoutOf(made.window)[k].pane]]
                           = plan.panes

(* The only window an apply destroys is the one the session was born with, and never the    *)
(* last one (apply.ts, "the session already has a template window, so it is never emptied"): *)
(* as long as nobody kills windows and no program ends, a user's window survives. *)
OnlyTheInitialDies ==
    [][\A c \in Clients : KillInitial(c) /\ ~lost =>
         /\ windows' /= <<>>
         /\ \A i \in DOMAIN windows : windows[i].id \notin {windows'[k].id : k \in DOMAIN windows'}
                => windows[i].owner = "initial"]_vars

Unanswered == {c \in Clients : job[c].pc \notin {"answered", "idle"}}
(* Every request is answered, whatever is refused and whoever interferes: the requests are   *)
(* finitely many, so that none stays unanswered is that at last none is. *)
AppliesEnd == Unanswered /= {} ~> Unanswered = {}

(* Two windows of one name never come from one template: a re-apply creates what is missing *)
(* and no more (diff.ts, "the idempotent safe direction").  It does not hold when two        *)
(* applies overlap, or when the topology query fails on a live session. *)
NoTwins ==
    \A i, j \in DOMAIN windows :
        i /= j /\ {windows[i].owner, windows[j].owner} \subseteq Clients
          => windows[i].name = Unnamed \/ windows[i].name /= windows[j].name

===============================================================================
