----------------------------- MODULE SessionModel -----------------------------
(***************************************************************************)
(* The driver's model of tmux (state/model.ts) as a data type: what it     *)
(* holds, the helpers that change it, the consistency its checker asks for *)
(* (invariants I1 to I7) and the builder that makes it from the listings   *)
(* of windows and panes (state/bootstrap.ts).  A model is a value; the     *)
(* modules that have one keep it in a variable.                            *)
(*                                                                         *)
(* The lists of ids are sets here and "the first of them" is any of them:  *)
(* nothing in the model depends on which.  Names are left out.  The label  *)
(* stands for the fields of a pane that come from a row as they are, and   *)
(* sync for the options of a window; a layout is its size, Null while it   *)
(* cannot be parsed, so I9 (off in the code too) is not stated.            *)
(***************************************************************************)
EXTENDS Functions, FiniteSets

CONSTANTS SessionIds, WindowIds, PaneIds, ClientIds, Null

ASSUME NullIsNoId == Null \notin SessionIds \cup WindowIds \cup PaneIds \cup ClientIds

NoFocus == [paneId |-> Null, windowId |-> Null, sessionId |-> Null]
None == [x \in {} |-> Null]             \* the map without entries

emptyModel == [sessions |-> None, windows |-> None, panes |-> None, focus |-> NoFocus]

Put(f, k, v) == [x \in DOMAIN f \cup {k} |-> IF x = k THEN v ELSE f[x]]
Without(f, K) == Restrict(f, DOMAIN f \ K)
AnyOf(S) == IF S = {} THEN Null ELSE CHOOSE x \in S : TRUE

-----------------------------------------------------------------------------
(* The checker: I1 to I7.                                                   *)

OwnersExist(m) ==
    /\ \A p \in DOMAIN m.panes : m.panes[p].windowId \in DOMAIN m.windows
    /\ \A w \in DOMAIN m.windows : m.windows[w].sessionId \in DOMAIN m.sessions

MembersExist(m) ==
    /\ \A w \in DOMAIN m.windows : m.windows[w].paneIds \subseteq DOMAIN m.panes
    /\ \A s \in DOMAIN m.sessions : m.sessions[s].windowIds \subseteq DOMAIN m.windows

ActiveIsMember(m) ==
    /\ \A w \in DOMAIN m.windows :
        LET win == m.windows[w]
        IN  win.paneIds # {} => win.activePaneId \in win.paneIds
    /\ \A s \in DOMAIN m.sessions :
        LET sess == m.sessions[s]
        IN  sess.windowIds # {} => sess.activeWindowId \in sess.windowIds

FocusIsActive(m) ==
    \/ m.focus = NoFocus
    \/ LET f == m.focus
       IN  /\ f.paneId \in DOMAIN m.panes
           /\ f.windowId \in DOMAIN m.windows
           /\ f.sessionId \in DOMAIN m.sessions
           /\ f.paneId \in m.windows[f.windowId].paneIds
           /\ f.paneId = m.windows[f.windowId].activePaneId
           /\ f.windowId \in m.sessions[f.sessionId].windowIds
           /\ f.windowId = m.sessions[f.sessionId].activeWindowId

\* checkInvariants finds nothing to report.
Consistent(m) ==
    OwnersExist(m) /\ MembersExist(m) /\ ActiveIsMember(m) /\ FocusIsActive(m)

-----------------------------------------------------------------------------
(* The helpers.                                                             *)

addSession(m, s) ==
    [m EXCEPT !.sessions = Put(@, s, [windowIds |-> {}, activeWindowId |-> Null])]

removeSession(m, s) ==
    LET wins == m.sessions[s].windowIds
    IN  IF s \notin DOMAIN m.sessions THEN m
        ELSE [sessions |-> Without(m.sessions, {s}),
              windows |-> Without(m.windows, wins),
              panes |-> Without(m.panes,
                            UNION {m.windows[w].paneIds : w \in wins \cap DOMAIN m.windows}),
              focus |-> IF m.focus.sessionId = s THEN NoFocus ELSE m.focus]

addWindow(m, w, win) ==
    IF win.sessionId \notin DOMAIN m.sessions THEN m
    ELSE [m EXCEPT
            !.windows = Put(@, w, win),
            !.sessions[win.sessionId] =
                [windowIds |-> @.windowIds \cup {w},
                 activeWindowId |-> IF @.activeWindowId = Null THEN w ELSE @.activeWindowId]]

removeWindow(m, w) ==
    LET s == m.windows[w].sessionId
        left == m.sessions[s].windowIds \ {w}
        active == m.sessions[s].activeWindowId
    IN  IF w \notin DOMAIN m.windows THEN m
        ELSE [sessions |->
                IF s \notin DOMAIN m.sessions THEN m.sessions
                ELSE Put(m.sessions, s,
                         [windowIds |-> left,
                          activeWindowId |-> IF active = w THEN AnyOf(left) ELSE active]),
              windows |-> Without(m.windows, {w}),
              panes |-> Without(m.panes, m.windows[w].paneIds),
              focus |-> IF m.focus.windowId = w THEN NoFocus ELSE m.focus]

addPane(m, p, pane) ==
    LET w == pane.windowId
        win == m.windows[w]
    IN  IF w \notin DOMAIN m.windows THEN m
        ELSE [m EXCEPT
                !.panes = Put(@, p, pane),
                !.windows = Put(@, w, [win EXCEPT
                    !.paneIds = @ \cup {p},
                    !.activePaneId = IF @ = Null THEN p ELSE @])]

removePane(m, p) ==
    LET w == m.panes[p].windowId
        win == m.windows[w]
        left == win.paneIds \ {p}
    IN  IF p \notin DOMAIN m.panes THEN m
        ELSE [m EXCEPT
                !.panes = Without(@, {p}),
                !.windows =
                    IF w \notin DOMAIN m.windows THEN @
                    ELSE Put(@, w, [win EXCEPT
                            !.paneIds = left,
                            !.activePaneId = IF @ = p THEN AnyOf(left) ELSE @]),
                !.focus = IF @.paneId = p THEN NoFocus ELSE @]

\* updatePane, updatePaneOverlay, updateWindow: one field, if it is there.
updatePane(m, p, label) ==
    IF p \notin DOMAIN m.panes THEN m
    ELSE [m EXCEPT !.panes = Put(@, p, [m.panes[p] EXCEPT !.label = label])]

updatePaneOverlay(m, p, clients) ==
    IF p \notin DOMAIN m.panes THEN m
    ELSE [m EXCEPT !.panes = Put(@, p, [m.panes[p] EXCEPT !.boundClients = clients])]

setBoundClient(current, c, bound) == IF bound THEN current \cup {c} ELSE current \ {c}

updateWindow(m, w, sync) ==
    IF w \notin DOMAIN m.windows THEN m
    ELSE [m EXCEPT !.windows = Put(@, w, [m.windows[w] EXCEPT !.sync = sync])]

-----------------------------------------------------------------------------
(* buildInitialModel: rows are functions of the ids, for tmux lists each    *)
(* window and each pane of a session once.  The two listings are answers to *)
(* two commands and need not fit: a pane of a window not listed is skipped. *)

WindowRow == [session : SessionIds, active : BOOLEAN, sync : BOOLEAN]
PaneRow == [window : WindowIds, session : SessionIds, active : BOOLEAN, label : BOOLEAN]

ActiveRows(rows, S) == {x \in S : rows[x].active}
ActiveAnywhere(rows, S) == AnyOf(ActiveRows(rows, DOMAIN rows))  \* mutant: of any window
ActiveAmong(rows, S) ==
    IF ActiveRows(rows, S) # {} THEN AnyOf(ActiveRows(rows, S)) ELSE AnyOf(S)

WindowsOf(wr, s) == {w \in DOMAIN wr : wr[w].session = s}
PanesOf(pr, w) == {p \in DOMAIN pr : pr[p].window = w}

\* Step 5: a session with an active row whose window has an active pane.
Focusable(wr, pr) ==
    {w \in DOMAIN wr : wr[w].active /\ PanesOf(pr, w) # {}
                       /\ w = ActiveAmong(wr, WindowsOf(wr, wr[w].session))}

FocusTriple(wr, pr) ==
    LET w == AnyOf(Focusable(wr, pr))
    IN  IF Focusable(wr, pr) = {} THEN NoFocus
        ELSE [paneId |-> ActiveAmong(pr, PanesOf(pr, w)),
              windowId |-> w, sessionId |-> wr[w].session]

buildInitialModel(wr, pr, layout) ==
    [sessions |-> [s \in {wr[w].session : w \in DOMAIN wr} |->
                    [windowIds |-> WindowsOf(wr, s),
                     activeWindowId |-> ActiveAmong(wr, WindowsOf(wr, s))]],
     windows |-> [w \in DOMAIN wr |->
                    [sessionId |-> wr[w].session, paneIds |-> PanesOf(pr, w),
                     activePaneId |-> ActiveAmong(pr, PanesOf(pr, w)),
                     sync |-> wr[w].sync, layout |-> layout[w]]],
     panes |-> [p \in {q \in DOMAIN pr : pr[q].window \in DOMAIN wr} |->
                    [windowId |-> pr[p].window, sessionId |-> pr[p].session,
                     label |-> pr[p].label, boundClients |-> {}]],
     focus |-> FocusTriple(wr, pr)]

\* carryForwardOverlays (state/requery.ts): the panes that stay keep theirs.
carryForwardOverlays(prev, m) ==
    [m EXCEPT !.panes = [p \in DOMAIN m.panes |->
        [m.panes[p] EXCEPT !.boundClients =
            IF p \in DOMAIN prev.panes THEN prev.panes[p].boundClients ELSE @]]]

=============================================================================
