----------------------------- MODULE VerbsProofs -----------------------------
(***************************************************************************)
(* Proofs about SessionModel, for any ids and any listings: what the       *)
(* builder makes is consistent even when the two listings do not fit, and  *)
(* the updates of the live driver and the helpers that add and remove keep *)
(* it so.  Then about Verbs: the driver's model stays consistent whatever  *)
(* clients ask, tmux does and lists, and in whatever order the answers     *)
(* come, for any clients, commands and bounds.  Then that every answer     *)
(* given is true, at most one for a call and to the client that called:    *)
(* the number of a call is in one place at a time, on the wire, in the     *)
(* pipe, among the replies or answered, and what tmux did for it is known  *)
(* from when its reply is on the way.  And that what one client sends      *)
(* keeps its order up to tmux: what it types arrives whole and in order,   *)
(* and no box it declared before it moved its sashes is applied after.     *)
(***************************************************************************)
EXTENDS Verbs, TLAPS, FiniteSetTheorems

\* A model, its windows and its panes have these fields and no others.
IsPane(pane) == pane = [windowId |-> pane.windowId, sessionId |-> pane.sessionId,
                        label |-> pane.label, boundClients |-> pane.boundClients]
IsWindow(win) == win = [sessionId |-> win.sessionId, paneIds |-> win.paneIds,
                        activePaneId |-> win.activePaneId, sync |-> win.sync,
                        layout |-> win.layout]
IsSession(sess) == sess = [windowIds |-> sess.windowIds,
                           activeWindowId |-> sess.activeWindowId]
IsModel(m) ==
    /\ m = [sessions |-> m.sessions, windows |-> m.windows,
            panes |-> m.panes, focus |-> m.focus]
    /\ \A s \in DOMAIN m.sessions : IsSession(m.sessions[s])
    /\ \A w \in DOMAIN m.windows : IsWindow(m.windows[w])
    /\ \A p \in DOMAIN m.panes : IsPane(m.panes[p])

\* The first of a list is one of it.
LEMMA AnyIsOne == ASSUME NEW S, S # {} PROVE AnyOf(S) \in S
BY DEF AnyOf

LEMMA ActiveIsOne ==
    ASSUME NEW rows, NEW S, S # {} PROVE ActiveAmong(rows, S) \in S
<1>1. CASE ActiveRows(rows, S) # {}
  <2>1. AnyOf(ActiveRows(rows, S)) \in ActiveRows(rows, S) BY <1>1, AnyIsOne
  <2> QED BY <1>1, <2>1 DEF ActiveAmong, ActiveRows
<1>2. CASE ActiveRows(rows, S) = {}
  BY <1>2, AnyIsOne DEF ActiveAmong
<1> QED BY <1>1, <1>2

-----------------------------------------------------------------------------
(* The builder.                                                             *)

LEMMA FocusBuilt ==
    ASSUME NEW wr, NEW pr, Focusable(wr, pr) # {},
           NEW w, w = AnyOf(Focusable(wr, pr))
    PROVE  /\ w \in DOMAIN wr
           /\ ActiveAmong(pr, PanesOf(pr, w)) \in PanesOf(pr, w)
           /\ w = ActiveAmong(wr, WindowsOf(wr, wr[w].session))
           /\ FocusTriple(wr, pr) =
                [paneId |-> ActiveAmong(pr, PanesOf(pr, w)),
                 windowId |-> w, sessionId |-> wr[w].session]
<1>1. w \in Focusable(wr, pr) BY AnyIsOne
<1>2. /\ w \in DOMAIN wr /\ PanesOf(pr, w) # {}
      /\ w = ActiveAmong(wr, WindowsOf(wr, wr[w].session))
  BY <1>1 DEF Focusable
<1> QED BY <1>2, ActiveIsOne DEF FocusTriple

LEMMA BuildIsModel ==
    ASSUME NEW wr, NEW pr, NEW layout
    PROVE  IsModel(buildInitialModel(wr, pr, layout))
BY DEF buildInitialModel, IsModel, IsSession, IsWindow, IsPane

\* buildInitialModel (bootstrap.ts:490) of any listings satisfies what
\* checkInvariants asks, also when a pane's window is not listed.
THEOREM BuildIsConsistent ==
    ASSUME NEW wr, NEW pr, NEW layout
    PROVE  Consistent(buildInitialModel(wr, pr, layout))
<1> DEFINE m == buildInitialModel(wr, pr, layout)
<1>1. /\ DOMAIN m.sessions = {wr[w].session : w \in DOMAIN wr}
      /\ DOMAIN m.windows = DOMAIN wr
      /\ DOMAIN m.panes = {q \in DOMAIN pr : pr[q].window \in DOMAIN wr}
      /\ m.focus = FocusTriple(wr, pr)
  BY DEF buildInitialModel
<1>2. \A s \in DOMAIN m.sessions :
        /\ m.sessions[s].windowIds = WindowsOf(wr, s)
        /\ m.sessions[s].activeWindowId = ActiveAmong(wr, WindowsOf(wr, s))
  BY DEF buildInitialModel
<1>3. \A w \in DOMAIN m.windows :
        /\ m.windows[w].sessionId = wr[w].session
        /\ m.windows[w].paneIds = PanesOf(pr, w)
        /\ m.windows[w].activePaneId = ActiveAmong(pr, PanesOf(pr, w))
  BY DEF buildInitialModel
<1>4. \A p \in DOMAIN m.panes : m.panes[p].windowId = pr[p].window
  BY DEF buildInitialModel
<1> HIDE DEF m
<1>5. OwnersExist(m) BY <1>1, <1>3, <1>4 DEF OwnersExist
<1>6. MembersExist(m)
  <2>1. \A w \in DOMAIN m.windows : m.windows[w].paneIds \subseteq DOMAIN m.panes
    <3>1. TAKE w \in DOMAIN m.windows
    <3>2. m.windows[w].paneIds = PanesOf(pr, w) /\ w \in DOMAIN wr BY <1>1, <1>3
    <3>3. PanesOf(pr, w) \subseteq {q \in DOMAIN pr : pr[q].window \in DOMAIN wr}
      BY <3>2 DEF PanesOf
    <3> QED BY <1>1, <3>2, <3>3
  <2>2. \A s \in DOMAIN m.sessions : m.sessions[s].windowIds \subseteq DOMAIN m.windows
    BY <1>1, <1>2 DEF WindowsOf
  <2> QED BY <2>1, <2>2 DEF MembersExist
<1>7. ActiveIsMember(m) BY <1>2, <1>3, ActiveIsOne DEF ActiveIsMember
<1>8. FocusIsActive(m)
  <2>1. CASE Focusable(wr, pr) = {} BY <1>1, <2>1 DEF FocusTriple, FocusIsActive
  <2>2. CASE Focusable(wr, pr) # {}
    <3> DEFINE w == AnyOf(Focusable(wr, pr))
               p == ActiveAmong(pr, PanesOf(pr, w))
               s == wr[w].session
    <3>1. /\ w \in DOMAIN wr /\ p \in PanesOf(pr, w) /\ w = ActiveAmong(wr, WindowsOf(wr, s))
          /\ FocusTriple(wr, pr) = [paneId |-> p, windowId |-> w, sessionId |-> s]
      BY <2>2, FocusBuilt
    <3> HIDE DEF w, p
    <3>2. w \in WindowsOf(wr, s) BY <3>1 DEF WindowsOf
    <3>3. s \in DOMAIN m.sessions /\ w \in DOMAIN m.windows BY <1>1, <3>1
    <3>4. p \in DOMAIN m.panes BY <1>1, <3>1 DEF PanesOf
    <3>5. m.windows[w].paneIds = PanesOf(pr, w) /\ m.windows[w].activePaneId = p
      BY <1>3, <3>3 DEF p
    <3>6. m.sessions[s].windowIds = WindowsOf(wr, s) /\ m.sessions[s].activeWindowId = w
      BY <1>2, <3>1, <3>3
    <3>7. m.focus = [paneId |-> p, windowId |-> w, sessionId |-> s] BY <1>1, <3>1
    <3> QED BY <3>1, <3>2, <3>3, <3>4, <3>5, <3>6, <3>7 DEF FocusIsActive
  <2> QED BY <2>1, <2>2
<1> QED BY <1>5, <1>6, <1>7, <1>8 DEF Consistent, m

-----------------------------------------------------------------------------
(* The updates of a live model.                                             *)

\* The same model as far as its consistency goes.
Alike(m, n) ==
    /\ n.sessions = m.sessions /\ n.focus = m.focus
    /\ DOMAIN n.windows = DOMAIN m.windows /\ DOMAIN n.panes = DOMAIN m.panes
    /\ \A w \in DOMAIN m.windows :
        /\ n.windows[w].sessionId = m.windows[w].sessionId
        /\ n.windows[w].paneIds = m.windows[w].paneIds
        /\ n.windows[w].activePaneId = m.windows[w].activePaneId
    /\ \A p \in DOMAIN m.panes : n.panes[p].windowId = m.panes[p].windowId

LEMMA AlikeIsConsistent ==
    ASSUME NEW m, NEW n, Alike(m, n), Consistent(m)
    PROVE  Consistent(n)
<1>1. OwnersExist(n) BY DEF Alike, Consistent, OwnersExist
<1>2. MembersExist(n) BY DEF Alike, Consistent, MembersExist
<1>3. ActiveIsMember(n) BY DEF Alike, Consistent, ActiveIsMember
<1>4. FocusIsActive(n) BY DEF Alike, Consistent, FocusIsActive
<1> QED BY <1>1, <1>2, <1>3, <1>4 DEF Consistent

\* internal:set-window-sync (model.ts:845).
LEMMA UpdateWindowKeeps ==
    ASSUME NEW m, IsModel(m), Consistent(m), NEW w, NEW sync
    PROVE  IsModel(updateWindow(m, w, sync)) /\ Consistent(updateWindow(m, w, sync))
<1>1. CASE w \notin DOMAIN m.windows BY <1>1 DEF updateWindow
<1>2. CASE w \in DOMAIN m.windows
  <2> DEFINE n == updateWindow(m, w, sync)
             win == [m.windows[w] EXCEPT !.sync = sync]
  <2>1. /\ n.sessions = m.sessions /\ n.panes = m.panes /\ n.focus = m.focus
        /\ n.windows = [x \in DOMAIN m.windows |-> IF x = w THEN win ELSE m.windows[x]]
        /\ n = [sessions |-> n.sessions, windows |-> n.windows,
                panes |-> n.panes, focus |-> n.focus]
    BY <1>2 DEF updateWindow, Put, IsModel
  <2>2. /\ IsWindow(win) /\ win.sessionId = m.windows[w].sessionId
        /\ win.paneIds = m.windows[w].paneIds
        /\ win.activePaneId = m.windows[w].activePaneId
    BY <1>2 DEF IsModel, IsWindow
  <2> HIDE DEF n, win
  <2>3. Alike(m, n) BY <1>2, <2>1, <2>2 DEF Alike
  <2>4. IsModel(n) BY <1>2, <2>1, <2>2 DEF IsModel
  <2> QED BY <2>3, <2>4, AlikeIsConsistent DEF n
<1> QED BY <1>1, <1>2

\* A pane takes another label or other overlays.
LEMMA PutPaneKeeps ==
    ASSUME NEW m, IsModel(m), Consistent(m), NEW p \in DOMAIN m.panes, NEW pane,
           IsPane(pane), pane.windowId = m.panes[p].windowId
    PROVE  LET n == [m EXCEPT !.panes = Put(@, p, pane)] IN IsModel(n) /\ Consistent(n)
<1> DEFINE n == [m EXCEPT !.panes = Put(@, p, pane)]
<1>1. /\ n.sessions = m.sessions /\ n.windows = m.windows /\ n.focus = m.focus
      /\ n.panes = [x \in DOMAIN m.panes |-> IF x = p THEN pane ELSE m.panes[x]]
      /\ n = [sessions |-> n.sessions, windows |-> n.windows,
              panes |-> n.panes, focus |-> n.focus]
  BY DEF Put, IsModel
<1> HIDE DEF n
<1>2. Alike(m, n) BY <1>1 DEF Alike
<1>3. IsModel(n) BY <1>1 DEF IsModel
<1>4. IsModel(n) /\ Consistent(n) BY <1>2, <1>3, AlikeIsConsistent
<1> QED BY <1>4 DEF n

\* internal:set-pane-label and the like (model.ts:752).
LEMMA UpdatePaneKeeps ==
    ASSUME NEW m, IsModel(m), Consistent(m), NEW p, NEW label
    PROVE  IsModel(updatePane(m, p, label)) /\ Consistent(updatePane(m, p, label))
<1>1. CASE p \notin DOMAIN m.panes BY <1>1 DEF updatePane
<1>2. CASE p \in DOMAIN m.panes
  <2> DEFINE pane == [m.panes[p] EXCEPT !.label = label]
  <2>1. IsPane(pane) /\ pane.windowId = m.panes[p].windowId
    BY <1>2 DEF IsModel, IsPane
  <2> HIDE DEF pane
  <2>2. LET n == [m EXCEPT !.panes = Put(@, p, pane)] IN IsModel(n) /\ Consistent(n)
    BY <1>2, <2>1, PutPaneKeeps
  <2>3. updatePane(m, p, label) = [m EXCEPT !.panes = Put(@, p, pane)]
    BY <1>2 DEF updatePane, pane, IsModel
  <2> QED BY <2>2, <2>3
<1> QED BY <1>1, <1>2

\* The bound clients of a pane (model.ts:795).
LEMMA UpdatePaneOverlayKeeps ==
    ASSUME NEW m, IsModel(m), Consistent(m), NEW p, NEW clients
    PROVE  /\ IsModel(updatePaneOverlay(m, p, clients))
           /\ Consistent(updatePaneOverlay(m, p, clients))
<1>1. CASE p \notin DOMAIN m.panes BY <1>1 DEF updatePaneOverlay
<1>2. CASE p \in DOMAIN m.panes
  <2> DEFINE pane == [m.panes[p] EXCEPT !.boundClients = clients]
  <2>1. IsPane(pane) /\ pane.windowId = m.panes[p].windowId
    BY <1>2 DEF IsModel, IsPane
  <2> HIDE DEF pane
  <2>2. LET n == [m EXCEPT !.panes = Put(@, p, pane)] IN IsModel(n) /\ Consistent(n)
    BY <1>2, <2>1, PutPaneKeeps
  <2>3. updatePaneOverlay(m, p, clients) = [m EXCEPT !.panes = Put(@, p, pane)]
    BY <1>2 DEF updatePaneOverlay, pane, IsModel
  <2> QED BY <2>2, <2>3
<1> QED BY <1>1, <1>2

\* What a requery carries over from the model it replaces (requery.ts:253).
LEMMA CarryForwardKeeps ==
    ASSUME NEW prev, NEW m, IsModel(m), Consistent(m)
    PROVE  /\ IsModel(carryForwardOverlays(prev, m))
           /\ Consistent(carryForwardOverlays(prev, m))
<1> DEFINE n == carryForwardOverlays(prev, m)
           pane(p) == [m.panes[p] EXCEPT !.boundClients =
                        IF p \in DOMAIN prev.panes THEN prev.panes[p].boundClients ELSE @]
<1>1. /\ n.sessions = m.sessions /\ n.windows = m.windows /\ n.focus = m.focus
      /\ n.panes = [p \in DOMAIN m.panes |-> pane(p)]
      /\ n = [sessions |-> n.sessions, windows |-> n.windows,
              panes |-> n.panes, focus |-> n.focus]
  BY DEF carryForwardOverlays, IsModel
<1>2. ASSUME NEW p \in DOMAIN m.panes
      PROVE  IsPane(pane(p)) /\ pane(p).windowId = m.panes[p].windowId
  BY DEF IsModel, IsPane
<1> HIDE DEF n, pane
<1>3. DOMAIN n.panes = DOMAIN m.panes /\ \A p \in DOMAIN m.panes : n.panes[p] = pane(p)
  BY <1>1
<1>4. Alike(m, n) BY <1>1, <1>2, <1>3 DEF Alike
<1>5. IsModel(n) BY <1>1, <1>2, <1>3 DEF IsModel
<1> QED BY <1>4, <1>5, AlikeIsConsistent DEF n

-----------------------------------------------------------------------------
(* The helpers that add and remove.  Consistent alone is not enough for     *)
(* them: a pane that its window does not list would stay when the window is *)
(* removed.  Whole says that the lists are exactly the things that name     *)
(* their owner, and that something is active whenever there is something.   *)

ListsAreWhole(m) ==
    /\ \A w \in DOMAIN m.windows :
        m.windows[w].paneIds = {p \in DOMAIN m.panes : m.panes[p].windowId = w}
    /\ \A s \in DOMAIN m.sessions :
        m.sessions[s].windowIds = {w \in DOMAIN m.windows : m.windows[w].sessionId = s}

ActiveIsSet(m) ==
    /\ \A w \in DOMAIN m.windows :
        LET win == m.windows[w]
        IN  IF win.paneIds = {} THEN win.activePaneId = Null
            ELSE win.activePaneId \in win.paneIds
    /\ \A s \in DOMAIN m.sessions :
        LET sess == m.sessions[s]
        IN  IF sess.windowIds = {} THEN sess.activeWindowId = Null
            ELSE sess.activeWindowId \in sess.windowIds

Whole(m) ==
    /\ IsModel(m) /\ OwnersExist(m) /\ FocusIsActive(m)
    /\ ListsAreWhole(m) /\ ActiveIsSet(m)
    /\ Null \notin DOMAIN m.windows \cup DOMAIN m.panes

LEMMA WholeIsConsistent == ASSUME NEW m, Whole(m) PROVE Consistent(m)
BY DEF Whole, Consistent, MembersExist, ActiveIsMember, ListsAreWhole, ActiveIsSet

LEMMA EmptyIsWhole == Whole(emptyModel)
BY DEF Whole, IsModel, OwnersExist, FocusIsActive, ListsAreWhole, ActiveIsSet,
       emptyModel, None

\* The builder makes whole models, so the helpers may be used on them.
LEMMA BuildIsWhole ==
    ASSUME NEW wr, NEW pr, NEW layout, Null \notin DOMAIN wr \cup DOMAIN pr
    PROVE  Whole(buildInitialModel(wr, pr, layout))
<1> DEFINE m == buildInitialModel(wr, pr, layout)
<1>1. /\ DOMAIN m.sessions = {wr[w].session : w \in DOMAIN wr}
      /\ DOMAIN m.windows = DOMAIN wr
      /\ DOMAIN m.panes = {q \in DOMAIN pr : pr[q].window \in DOMAIN wr}
      /\ \A s \in DOMAIN m.sessions :
            /\ m.sessions[s].windowIds = WindowsOf(wr, s)
            /\ m.sessions[s].activeWindowId = ActiveAmong(wr, WindowsOf(wr, s))
      /\ \A w \in DOMAIN m.windows :
            /\ m.windows[w].sessionId = wr[w].session
            /\ m.windows[w].paneIds = PanesOf(pr, w)
            /\ m.windows[w].activePaneId = ActiveAmong(pr, PanesOf(pr, w))
      /\ \A p \in DOMAIN m.panes : m.panes[p].windowId = pr[p].window
  BY DEF buildInitialModel
<1>2. IsModel(m) /\ OwnersExist(m) /\ FocusIsActive(m)
  BY BuildIsModel, BuildIsConsistent DEF Consistent
<1> HIDE DEF m
<1>3. ListsAreWhole(m)
  <2>1. ASSUME NEW w \in DOMAIN m.windows
        PROVE  m.windows[w].paneIds = {p \in DOMAIN m.panes : m.panes[p].windowId = w}
    <3>1. ASSUME NEW p
          PROVE  p \in PanesOf(pr, w) <=> p \in DOMAIN m.panes /\ m.panes[p].windowId = w
      BY <2>1, <1>1 DEF PanesOf
    <3>2. m.windows[w].paneIds = PanesOf(pr, w) BY <2>1, <1>1
    <3> QED BY <3>1, <3>2
  <2>2. ASSUME NEW s \in DOMAIN m.sessions
        PROVE  m.sessions[s].windowIds = {w \in DOMAIN m.windows : m.windows[w].sessionId = s}
    <3>1. ASSUME NEW w
          PROVE  w \in WindowsOf(wr, s) <=> w \in DOMAIN m.windows /\ m.windows[w].sessionId = s
      BY <2>2, <1>1 DEF WindowsOf
    <3>2. m.sessions[s].windowIds = WindowsOf(wr, s) BY <2>2, <1>1
    <3> QED BY <3>1, <3>2
  <2> QED BY <2>1, <2>2 DEF ListsAreWhole
<1>4. ASSUME NEW rows PROVE ActiveAmong(rows, {}) = Null
  <2>1. ActiveRows(rows, {}) = {} BY DEF ActiveRows
  <2> QED BY <2>1 DEF ActiveAmong, AnyOf
<1>5. ActiveIsSet(m)
  <2>1. ASSUME NEW rows, NEW S
        PROVE  IF S = {} THEN ActiveAmong(rows, S) = Null ELSE ActiveAmong(rows, S) \in S
    BY <1>4, ActiveIsOne
  <2> QED BY <1>1, <2>1 DEF ActiveIsSet
<1> QED BY <1>1, <1>2, <1>3, <1>5 DEF Whole, m

\* addSession (model.ts:640) of a session that is new.
LEMMA AddSessionKeeps ==
    ASSUME NEW m, Whole(m), NEW s, s \notin DOMAIN m.sessions
    PROVE  Whole(addSession(m, s))
<1> DEFINE n == addSession(m, s)
<1>1. /\ n.windows = m.windows /\ n.panes = m.panes /\ n.focus = m.focus
      /\ DOMAIN n.sessions = DOMAIN m.sessions \cup {s}
      /\ n.sessions[s] = [windowIds |-> {}, activeWindowId |-> Null]
      /\ \A x \in DOMAIN m.sessions : n.sessions[x] = m.sessions[x]
      /\ n = [sessions |-> n.sessions, windows |-> n.windows,
              panes |-> n.panes, focus |-> n.focus]
  BY DEF addSession, Put, Whole, IsModel
<1> HIDE DEF n
<1>2. IsModel(n) BY <1>1 DEF Whole, IsModel, IsSession
<1>3. OwnersExist(n) BY <1>1 DEF Whole, OwnersExist
<1>4. FocusIsActive(n) BY <1>1 DEF Whole, FocusIsActive
<1>5. ListsAreWhole(n) BY <1>1 DEF Whole, ListsAreWhole, OwnersExist
<1>6. ActiveIsSet(n) BY <1>1 DEF Whole, ActiveIsSet
<1> QED BY <1>1, <1>2, <1>3, <1>4, <1>5, <1>6 DEF Whole, n

\* addWindow (model.ts:674) of a window that is new and has no pane yet.
LEMMA AddWindowKeeps ==
    ASSUME NEW m, Whole(m), NEW w, w \notin DOMAIN m.windows, w # Null,
           NEW win, IsWindow(win), win.paneIds = {}, win.activePaneId = Null
    PROVE  Whole(addWindow(m, w, win))
<1> DEFINE n == addWindow(m, w, win)
           s == win.sessionId
<1>1. CASE s \notin DOMAIN m.sessions BY <1>1 DEF addWindow
<1>2. CASE s \in DOMAIN m.sessions
  <2> DEFINE old == m.sessions[s]
             new == [windowIds |-> old.windowIds \cup {w},
                     activeWindowId |-> IF old.activeWindowId = Null THEN w
                                        ELSE old.activeWindowId]
  <2>1. /\ n.panes = m.panes /\ n.focus = m.focus
        /\ DOMAIN n.windows = DOMAIN m.windows \cup {w}
        /\ n.windows[w] = win
        /\ \A x \in DOMAIN m.windows : n.windows[x] = m.windows[x]
        /\ DOMAIN n.sessions = DOMAIN m.sessions
        /\ n.sessions[s] = new
        /\ \A x \in DOMAIN m.sessions \ {s} : n.sessions[x] = m.sessions[x]
        /\ n = [sessions |-> n.sessions, windows |-> n.windows,
                panes |-> n.panes, focus |-> n.focus]
    BY <1>2 DEF addWindow, Put, Whole, IsModel
  <2>2. IF old.windowIds = {} THEN old.activeWindowId = Null
        ELSE old.activeWindowId \in old.windowIds /\ old.activeWindowId # Null
    BY <1>2 DEF Whole, ActiveIsSet, ListsAreWhole
  <2>3. /\ new.windowIds = old.windowIds \cup {w} /\ new.activeWindowId \in new.windowIds
        /\ IsSession(new)
        /\ old.windowIds # {} => new.activeWindowId = old.activeWindowId
    BY <2>2 DEF IsSession
  <2> HIDE DEF n, new
  <2>4. IsModel(n) BY <2>1, <2>3 DEF Whole, IsModel
  <2>5. OwnersExist(n) BY <1>2, <2>1 DEF Whole, OwnersExist
  <2>6. FocusIsActive(n) BY <1>2, <2>1, <2>3 DEF Whole, FocusIsActive
  <2>7. ListsAreWhole(n)
    <3>1. \A x \in DOMAIN n.windows :
            n.windows[x].paneIds = {p \in DOMAIN n.panes : n.panes[p].windowId = x}
      BY <2>1 DEF Whole, ListsAreWhole, OwnersExist
    <3>2. ASSUME NEW x \in DOMAIN n.sessions
          PROVE  n.sessions[x].windowIds
                    = {y \in DOMAIN n.windows : n.windows[y].sessionId = x}
      BY <1>2, <2>1, <2>3 DEF Whole, ListsAreWhole
    <3> QED BY <3>1, <3>2 DEF ListsAreWhole
  <2>8. ActiveIsSet(n) BY <2>1, <2>3 DEF Whole, ActiveIsSet
  <2> QED BY <2>1, <2>4, <2>5, <2>6, <2>7, <2>8 DEF Whole, n
<1> QED BY <1>1, <1>2

\* A window with other panes and another active one.
LEMMA WindowExcept ==
    ASSUME NEW win, IsWindow(win), NEW ps, NEW active
    PROVE  [win EXCEPT !.paneIds = ps, !.activePaneId = active] =
                [sessionId |-> win.sessionId, paneIds |-> ps, activePaneId |-> active,
                 sync |-> win.sync, layout |-> win.layout]
<1> DEFINE mid == [win EXCEPT !.paneIds = ps]
<1>1. mid = [sessionId |-> win.sessionId, paneIds |-> ps, activePaneId |-> win.activePaneId,
             sync |-> win.sync, layout |-> win.layout]
  BY DEF IsWindow
<1> HIDE DEF mid
<1>2. [mid EXCEPT !.activePaneId = active] =
                [sessionId |-> win.sessionId, paneIds |-> ps, activePaneId |-> active,
                 sync |-> win.sync, layout |-> win.layout]
  BY <1>1
<1> QED BY <1>2 DEF mid

\* addPane (model.ts:716) of a pane that is new.
LEMMA AddPaneKeeps ==
    ASSUME NEW m, Whole(m), NEW p, p \notin DOMAIN m.panes, p # Null,
           NEW pane, IsPane(pane)
    PROVE  Whole(addPane(m, p, pane))
<1> DEFINE n == addPane(m, p, pane)
           w == pane.windowId
<1>1. CASE w \notin DOMAIN m.windows BY <1>1 DEF addPane
<1>2. CASE w \in DOMAIN m.windows
  <2> DEFINE old == m.windows[w]
             new == [old EXCEPT !.paneIds = @ \cup {p},
                                !.activePaneId = IF @ = Null THEN p ELSE @]
  <2>1. /\ n.sessions = m.sessions /\ n.focus = m.focus
        /\ DOMAIN n.panes = DOMAIN m.panes \cup {p}
        /\ n.panes[p] = pane
        /\ \A x \in DOMAIN m.panes : n.panes[x] = m.panes[x]
        /\ DOMAIN n.windows = DOMAIN m.windows
        /\ n.windows[w] = new
        /\ \A x \in DOMAIN m.windows \ {w} : n.windows[x] = m.windows[x]
        /\ n = [sessions |-> n.sessions, windows |-> n.windows,
                panes |-> n.panes, focus |-> n.focus]
    BY <1>2 DEF addPane, Put, Whole, IsModel
  <2>2. IF old.paneIds = {} THEN old.activePaneId = Null
        ELSE old.activePaneId \in old.paneIds /\ old.activePaneId # Null
    BY <1>2 DEF Whole, ActiveIsSet, ListsAreWhole
  <2>0. IsWindow(old) BY <1>2 DEF Whole, IsModel
  <2>3. /\ new.paneIds = old.paneIds \cup {p} /\ new.activePaneId \in new.paneIds
        /\ IsWindow(new) /\ new.sessionId = old.sessionId
        /\ old.paneIds # {} => new.activePaneId = old.activePaneId
    <3> DEFINE active == IF old.activePaneId = Null THEN p ELSE old.activePaneId
    <3>1. new = [sessionId |-> old.sessionId, paneIds |-> old.paneIds \cup {p},
                 activePaneId |-> active, sync |-> old.sync, layout |-> old.layout]
      BY <2>0, WindowExcept
    <3> HIDE DEF new
    <3> QED BY <2>2, <3>1 DEF IsWindow
  <2> HIDE DEF n, new
  <2>4. IsModel(n) BY <2>1, <2>3 DEF Whole, IsModel
  <2>5. OwnersExist(n) BY <1>2, <2>1, <2>3 DEF Whole, OwnersExist
  <2>6. FocusIsActive(n) BY <1>2, <2>1, <2>3 DEF Whole, FocusIsActive
  <2>7. ListsAreWhole(n)
    <3>1. ASSUME NEW x \in DOMAIN n.windows
          PROVE  n.windows[x].paneIds = {q \in DOMAIN n.panes : n.panes[q].windowId = x}
      BY <1>2, <2>1, <2>3 DEF Whole, ListsAreWhole
    <3>2. \A x \in DOMAIN n.windows : n.windows[x].sessionId = m.windows[x].sessionId
      BY <2>1, <2>3
    <3>3. ASSUME NEW x \in DOMAIN n.sessions
          PROVE  n.sessions[x].windowIds
                    = {y \in DOMAIN n.windows : n.windows[y].sessionId = x}
      BY <2>1, <3>2 DEF Whole, ListsAreWhole
    <3> QED BY <3>1, <3>3 DEF ListsAreWhole
  <2>8. ActiveIsSet(n) BY <2>1, <2>3 DEF Whole, ActiveIsSet
  <2> QED BY <2>1, <2>4, <2>5, <2>6, <2>7, <2>8 DEF Whole, n
<1> QED BY <1>1, <1>2

\* removePane (model.ts:738).
LEMMA RemovePaneKeeps ==
    ASSUME NEW m, Whole(m), NEW p
    PROVE  Whole(removePane(m, p))
<1> DEFINE n == removePane(m, p)
           w == m.panes[p].windowId
<1>1. CASE p \notin DOMAIN m.panes BY <1>1 DEF removePane
<1>2. CASE p \in DOMAIN m.panes
  <2> DEFINE old == m.windows[w]
             left == old.paneIds \ {p}
             active == IF old.activePaneId = p THEN AnyOf(left) ELSE old.activePaneId
             new == [old EXCEPT !.paneIds = left,
                                !.activePaneId = IF @ = p THEN AnyOf(left) ELSE @]
  <2>0. w \in DOMAIN m.windows /\ IsWindow(old) BY <1>2 DEF Whole, OwnersExist, IsModel
  <2>1. new = [sessionId |-> old.sessionId, paneIds |-> left,
               activePaneId |-> active, sync |-> old.sync, layout |-> old.layout]
    BY <2>0, WindowExcept
  <2>2. /\ n.sessions = m.sessions
        /\ n.focus = IF m.focus.paneId = p THEN NoFocus ELSE m.focus
        /\ n.panes = Without(m.panes, {p})
        /\ n.windows = Put(m.windows, w, new)
        /\ n = [sessions |-> n.sessions, windows |-> n.windows,
                panes |-> n.panes, focus |-> n.focus]
    BY <1>2, <2>0 DEF removePane, Whole, IsModel
  <2> HIDE DEF n, new
  <2>3. /\ DOMAIN n.panes = DOMAIN m.panes \ {p}
        /\ \A x \in DOMAIN m.panes \ {p} : n.panes[x] = m.panes[x]
        /\ DOMAIN n.windows = DOMAIN m.windows
        /\ n.windows[w] = new
        /\ \A x \in DOMAIN m.windows \ {w} : n.windows[x] = m.windows[x]
    BY <2>0, <2>2 DEF Without, Restrict, Put
  <2>4. /\ IsWindow(new) /\ new.sessionId = old.sessionId
        /\ new.paneIds = left /\ new.activePaneId = active
    BY <2>1 DEF IsWindow
  <2>5. IF left = {} THEN active = Null ELSE active \in left
    <3>1. CASE old.activePaneId = p BY <3>1, AnyIsOne DEF AnyOf
    <3>2. CASE old.activePaneId # p BY <1>2, <2>0, <3>2 DEF Whole, ActiveIsSet, ListsAreWhole
    <3> QED BY <3>1, <3>2
  <2> HIDE DEF left, active
  <2>6. IsModel(n) BY <2>2, <2>3, <2>4 DEF Whole, IsModel
  <2>7. OwnersExist(n) BY <2>2, <2>3, <2>4 DEF Whole, OwnersExist
  <2>8. ListsAreWhole(n)
    <3>1. ASSUME NEW x \in DOMAIN n.windows
          PROVE  n.windows[x].paneIds = {q \in DOMAIN n.panes : n.panes[q].windowId = x}
      BY <1>2, <2>0, <2>3, <2>4 DEF Whole, ListsAreWhole, left
    <3>2. \A x \in DOMAIN n.windows : n.windows[x].sessionId = m.windows[x].sessionId
      BY <2>3, <2>4
    <3>3. ASSUME NEW x \in DOMAIN n.sessions
          PROVE  n.sessions[x].windowIds
                    = {y \in DOMAIN n.windows : n.windows[y].sessionId = x}
      BY <2>2, <2>3, <3>2 DEF Whole, ListsAreWhole
    <3> QED BY <3>1, <3>3 DEF ListsAreWhole
  <2>9. ActiveIsSet(n) BY <2>2, <2>3, <2>4, <2>5 DEF Whole, ActiveIsSet
  <2>10. FocusIsActive(n)
    <3>1. CASE n.focus = NoFocus BY <3>1 DEF FocusIsActive
    <3>2. CASE n.focus # NoFocus
      <4> DEFINE f == m.focus
      <4>1. n.focus = f /\ f # NoFocus /\ f.paneId # p BY <2>2, <3>2
      <4>2. /\ f.paneId \in DOMAIN m.panes /\ f.windowId \in DOMAIN m.windows
            /\ f.sessionId \in DOMAIN m.sessions
            /\ f.paneId \in m.windows[f.windowId].paneIds
            /\ f.paneId = m.windows[f.windowId].activePaneId
            /\ f.windowId \in m.sessions[f.sessionId].windowIds
            /\ f.windowId = m.sessions[f.sessionId].activeWindowId
        BY <4>1 DEF Whole, FocusIsActive
      <4>3. /\ f.paneId \in n.windows[f.windowId].paneIds
            /\ f.paneId = n.windows[f.windowId].activePaneId
        BY <2>3, <2>4, <4>1, <4>2 DEF left, active
      <4> QED BY <2>2, <2>3, <4>1, <4>2, <4>3 DEF FocusIsActive
    <3> QED BY <3>1, <3>2
  <2>11. Null \notin DOMAIN n.windows \cup DOMAIN n.panes BY <2>3 DEF Whole
  <2> QED BY <2>6, <2>7, <2>8, <2>9, <2>10, <2>11 DEF Whole, n
<1> QED BY <1>1, <1>2

\* removeWindow (model.ts:696): the window goes with its panes.
LEMMA RemoveWindowKeeps ==
    ASSUME NEW m, Whole(m), NEW w
    PROVE  Whole(removeWindow(m, w))
<1> DEFINE n == removeWindow(m, w)
           s == m.windows[w].sessionId
<1>1. CASE w \notin DOMAIN m.windows BY <1>1 DEF removeWindow
<1>2. CASE w \in DOMAIN m.windows
  <2> DEFINE old == m.sessions[s]
             left == old.windowIds \ {w}
             active == IF old.activeWindowId = w THEN AnyOf(left) ELSE old.activeWindowId
             gone == m.windows[w].paneIds
  <2>0. s \in DOMAIN m.sessions BY <1>2 DEF Whole, OwnersExist
  <2>1. /\ n.sessions = Put(m.sessions, s, [windowIds |-> left, activeWindowId |-> active])
        /\ n.windows = Without(m.windows, {w})
        /\ n.panes = Without(m.panes, gone)
        /\ n.focus = IF m.focus.windowId = w THEN NoFocus ELSE m.focus
        /\ n = [sessions |-> n.sessions, windows |-> n.windows,
                panes |-> n.panes, focus |-> n.focus]
    BY <1>2, <2>0 DEF removeWindow
  <2>2. IF left = {} THEN active = Null ELSE active \in left
    <3>1. CASE old.activeWindowId = w BY <3>1, AnyIsOne DEF AnyOf
    <3>2. CASE old.activeWindowId # w BY <1>2, <2>0, <3>2 DEF Whole, ActiveIsSet, ListsAreWhole
    <3> QED BY <3>1, <3>2
  <2> HIDE DEF n, left, active
  <2>3. /\ DOMAIN n.windows = DOMAIN m.windows \ {w}
        /\ \A x \in DOMAIN m.windows \ {w} : n.windows[x] = m.windows[x]
        /\ DOMAIN n.panes = DOMAIN m.panes \ gone
        /\ \A x \in DOMAIN m.panes \ gone : n.panes[x] = m.panes[x]
        /\ DOMAIN n.sessions = DOMAIN m.sessions
        /\ n.sessions[s] = [windowIds |-> left, activeWindowId |-> active]
        /\ \A x \in DOMAIN m.sessions \ {s} : n.sessions[x] = m.sessions[x]
    BY <2>0, <2>1 DEF Without, Restrict, Put
  <2>4. gone = {p \in DOMAIN m.panes : m.panes[p].windowId = w}
    BY <1>2 DEF Whole, ListsAreWhole
  <2> HIDE DEF gone
  <2>5. IsModel(n) BY <2>1, <2>3 DEF Whole, IsModel, IsSession
  <2>6. OwnersExist(n) BY <2>3, <2>4 DEF Whole, OwnersExist
  <2>7. ListsAreWhole(n)
    <3>1. ASSUME NEW x \in DOMAIN n.windows
          PROVE  n.windows[x].paneIds = {q \in DOMAIN n.panes : n.panes[q].windowId = x}
      BY <2>3, <2>4 DEF Whole, ListsAreWhole
    <3>2. ASSUME NEW x \in DOMAIN n.sessions
          PROVE  n.sessions[x].windowIds
                    = {y \in DOMAIN n.windows : n.windows[y].sessionId = x}
      BY <1>2, <2>0, <2>3 DEF Whole, ListsAreWhole, left
    <3> QED BY <3>1, <3>2 DEF ListsAreWhole
  <2>8. ActiveIsSet(n) BY <2>2, <2>3 DEF Whole, ActiveIsSet
  <2>9. FocusIsActive(n)
    <3>1. CASE n.focus = NoFocus BY <3>1 DEF FocusIsActive
    <3>2. CASE n.focus # NoFocus
      <4> DEFINE f == m.focus
      <4>1. n.focus = f /\ f # NoFocus /\ f.windowId # w BY <2>1, <3>2
      <4>2. /\ f.paneId \in DOMAIN m.panes /\ f.windowId \in DOMAIN m.windows
            /\ f.sessionId \in DOMAIN m.sessions
            /\ f.paneId \in m.windows[f.windowId].paneIds
            /\ f.paneId = m.windows[f.windowId].activePaneId
            /\ f.windowId \in m.sessions[f.sessionId].windowIds
            /\ f.windowId = m.sessions[f.sessionId].activeWindowId
        BY <4>1 DEF Whole, FocusIsActive
      <4>3. f.paneId \in DOMAIN n.panes
        <5>1. m.panes[f.paneId].windowId = f.windowId BY <4>2 DEF Whole, ListsAreWhole
        <5>2. f.paneId \notin gone BY <2>4, <4>1, <5>1
        <5> QED BY <2>3, <4>2, <5>2
      <4>4. /\ f.windowId \in n.sessions[f.sessionId].windowIds
            /\ f.windowId = n.sessions[f.sessionId].activeWindowId
        <5>1. CASE f.sessionId = s
          <6>1. f.windowId \in left /\ f.windowId = active
            BY <4>1, <4>2, <5>1 DEF left, active
          <6> QED BY <2>3, <5>1, <6>1
        <5>2. CASE f.sessionId # s
          <6>1. n.sessions[f.sessionId] = m.sessions[f.sessionId] BY <2>3, <4>2, <5>2
          <6> QED BY <4>2, <6>1
        <5> QED BY <5>1, <5>2
      <4> HIDE DEF f
      <4> QED BY <2>3, <4>1, <4>2, <4>3, <4>4 DEF FocusIsActive
    <3> QED BY <3>1, <3>2
  <2>10. Null \notin DOMAIN n.windows \cup DOMAIN n.panes BY <2>3 DEF Whole
  <2> QED BY <2>5, <2>6, <2>7, <2>8, <2>9, <2>10 DEF Whole, n
<1> QED BY <1>1, <1>2

\* removeSession (model.ts:652): the session goes with its windows and panes.
LEMMA RemoveSessionKeeps ==
    ASSUME NEW m, Whole(m), NEW s
    PROVE  Whole(removeSession(m, s))
<1> DEFINE n == removeSession(m, s)
<1>1. CASE s \notin DOMAIN m.sessions BY <1>1 DEF removeSession
<1>2. CASE s \in DOMAIN m.sessions
  <2> DEFINE wins == m.sessions[s].windowIds
             gone == UNION {m.windows[w].paneIds : w \in wins \cap DOMAIN m.windows}
  <2>1. /\ n.sessions = Without(m.sessions, {s})
        /\ n.windows = Without(m.windows, wins)
        /\ n.panes = Without(m.panes, gone)
        /\ n.focus = IF m.focus.sessionId = s THEN NoFocus ELSE m.focus
        /\ n = [sessions |-> n.sessions, windows |-> n.windows,
                panes |-> n.panes, focus |-> n.focus]
    BY <1>2 DEF removeSession
  <2>2. wins = {w \in DOMAIN m.windows : m.windows[w].sessionId = s}
    BY <1>2 DEF Whole, ListsAreWhole
  <2>3. gone = {p \in DOMAIN m.panes : m.panes[p].windowId \in wins}
    BY <2>2 DEF Whole, ListsAreWhole, OwnersExist
  <2> HIDE DEF n, wins, gone
  <2>4. /\ DOMAIN n.windows = DOMAIN m.windows \ wins
        /\ \A x \in DOMAIN m.windows \ wins : n.windows[x] = m.windows[x]
        /\ DOMAIN n.panes = DOMAIN m.panes \ gone
        /\ \A x \in DOMAIN m.panes \ gone : n.panes[x] = m.panes[x]
        /\ DOMAIN n.sessions = DOMAIN m.sessions \ {s}
        /\ \A x \in DOMAIN m.sessions \ {s} : n.sessions[x] = m.sessions[x]
    BY <2>1 DEF Without, Restrict
  <2>5. IsModel(n) BY <2>1, <2>4 DEF Whole, IsModel
  <2>6. OwnersExist(n) BY <2>2, <2>3, <2>4 DEF Whole, OwnersExist
  <2>7. ListsAreWhole(n)
    <3>1. ASSUME NEW x \in DOMAIN n.windows
          PROVE  n.windows[x].paneIds = {q \in DOMAIN n.panes : n.panes[q].windowId = x}
      BY <2>3, <2>4 DEF Whole, ListsAreWhole
    <3>2. ASSUME NEW x \in DOMAIN n.sessions
          PROVE  n.sessions[x].windowIds
                    = {y \in DOMAIN n.windows : n.windows[y].sessionId = x}
      BY <2>2, <2>4 DEF Whole, ListsAreWhole
    <3> QED BY <3>1, <3>2 DEF ListsAreWhole
  <2>8. ActiveIsSet(n) BY <2>4 DEF Whole, ActiveIsSet
  <2>9. FocusIsActive(n)
    <3>1. CASE n.focus = NoFocus BY <3>1 DEF FocusIsActive
    <3>2. CASE n.focus # NoFocus
      <4> DEFINE f == m.focus
      <4>1. n.focus = f /\ f # NoFocus /\ f.sessionId # s BY <2>1, <3>2
      <4>2. /\ f.paneId \in DOMAIN m.panes /\ f.windowId \in DOMAIN m.windows
            /\ f.sessionId \in DOMAIN m.sessions
            /\ f.paneId \in m.windows[f.windowId].paneIds
            /\ f.paneId = m.windows[f.windowId].activePaneId
            /\ f.windowId \in m.sessions[f.sessionId].windowIds
            /\ f.windowId = m.sessions[f.sessionId].activeWindowId
        BY <4>1 DEF Whole, FocusIsActive
      <4>3. f.windowId \in DOMAIN n.windows
        <5>1. m.windows[f.windowId].sessionId = f.sessionId BY <4>2 DEF Whole, ListsAreWhole
        <5>2. f.windowId \notin wins BY <2>2, <4>1, <5>1
        <5> QED BY <2>4, <4>2, <5>2
      <4>4. f.paneId \in DOMAIN n.panes
        <5>1. m.panes[f.paneId].windowId = f.windowId BY <4>2 DEF Whole, ListsAreWhole
        <5>2. f.paneId \notin gone BY <2>3, <2>4, <4>3, <5>1
        <5> QED BY <2>4, <4>2, <5>2
      <4>5. /\ n.sessions[f.sessionId] = m.sessions[f.sessionId]
            /\ n.windows[f.windowId] = m.windows[f.windowId]
            /\ f.sessionId \in DOMAIN n.sessions
        <5> HIDE DEF f
        <5> QED BY <2>4, <4>1, <4>2, <4>3
      <4> HIDE DEF f
      <4> QED BY <4>1, <4>2, <4>3, <4>4, <4>5 DEF FocusIsActive
    <3> QED BY <3>1, <3>2
  <2>10. Null \notin DOMAIN n.windows \cup DOMAIN n.panes BY <2>4 DEF Whole
  <2> QED BY <2>5, <2>6, <2>7, <2>8, <2>9, <2>10 DEF Whole, n
<1> QED BY <1>1, <1>2

\* From a whole model every helper of model.ts leads to a whole model, which
\* checkInvariants accepts: nothing is left behind by a cascade, nothing is
\* active or focused that has gone.
THEOREM HelpersKeepWhole ==
    ASSUME NEW m, Whole(m)
    PROVE  /\ Consistent(m)
           /\ \A s : s \notin DOMAIN m.sessions => Whole(addSession(m, s))
           /\ \A w, win : /\ w \notin DOMAIN m.windows /\ w # Null /\ IsWindow(win)
                          /\ win.paneIds = {} /\ win.activePaneId = Null
                        => Whole(addWindow(m, w, win))
           /\ \A p, pane : p \notin DOMAIN m.panes /\ p # Null /\ IsPane(pane)
                        => Whole(addPane(m, p, pane))
           /\ \A x : /\ Whole(removePane(m, x)) /\ Whole(removeWindow(m, x))
                    /\ Whole(removeSession(m, x))
BY WholeIsConsistent, AddSessionKeeps, AddWindowKeeps, AddPaneKeeps, RemovePaneKeeps,
   RemoveWindowKeeps, RemoveSessionKeeps

-----------------------------------------------------------------------------
(* The steps of Verbs *)

\* The model has its fields, so that an update of one leaves the others.
Inv == IsModel(model) /\ Consistent(model)

LEMMA InitInv == Init => Inv
BY BuildIsModel, BuildIsConsistent DEF Init, Inv

LEMMA PatchedKeeps ==
    ASSUME NEW m, IsModel(m), Consistent(m), NEW op, NEW p, NEW w, NEW v, NEW c
    PROVE  IsModel(Patched(m, op, p, w, v, c)) /\ Consistent(Patched(m, op, p, w, v, c))
<1> DEFINE n == Patched(m, op, p, w, v, c)
<1>1. CASE op = "set-synchronize-panes"
  BY <1>1, UpdateWindowKeeps DEF Patched
<1>2. CASE op = "rename-pane"
  <2>1. n = updatePane(m, p, v) BY <1>2 DEF Patched
  <2> QED BY <2>1, UpdatePaneKeeps
<1>3. CASE op # "set-synchronize-panes" /\ op # "rename-pane"
  <2> DEFINE clients == setBoundClient(m.panes[p].boundClients, c, v)
  <2>1. n = IF p \notin DOMAIN m.panes THEN m ELSE updatePaneOverlay(m, p, clients)
    BY <1>3 DEF Patched
  <2>2. /\ IsModel(updatePaneOverlay(m, p, clients))
        /\ Consistent(updatePaneOverlay(m, p, clients))
    BY UpdatePaneOverlayKeeps
  <2> QED BY <2>1, <2>2
<1> QED BY <1>1, <1>2, <1>3

\* Whatever is written with it, the model becomes what it is said to become.
LEMMA BecomesKeeps ==
    ASSUME NEW m, IsModel(m), Consistent(m), NEW slots, ModelBecomes(m, slots)
    PROVE  Inv'
BY DEF ModelBecomes, Inv

LEMMA WritesKeep ==
    ASSUME Inv, NEW slots, Writes(slots) PROVE Inv'
BY BecomesKeeps DEF Writes, Inv

LEMMA HandleCommandKeeps ==
    ASSUME Inv, NEW id, NEW cmd, HandleCommand(id, cmd) PROVE Inv'
<1>1. CASE \E slots : Writes(slots) BY <1>1, WritesKeep
<1>2. CASE SendCommandWithReversal(id, cmd)
  BY <1>2, PatchedKeeps, BecomesKeeps DEF SendCommandWithReversal, Inv
<1>3. Capture(id, cmd) => \E slots : Writes(slots) BY DEF Capture
<1>4. Sashes(id, cmd) => \E slots : Writes(slots) BY DEF Sashes
<1>5. \/ \E slots : Writes(slots)
      \/ SendCommandWithReversal(id, cmd)
  BY <1>3, <1>4 DEF HandleCommand, Info, Refused, RunCreatingVerb, RunAckVerb, SelectPane,
                    EmptyName
<1> QED BY <1>1, <1>2, <1>5

LEMMA HandleMessageKeeps ==
    ASSUME Inv, NEW c, HandleMessage(c) PROVE Inv'
<1> DEFINE msg == Head(wire[c])
           id == <<c, msg.n>>
<1>1. HandleCommand(id, msg.command) \/ HandleResize(id, msg) \/ HandleInput(id, msg)
  BY DEF HandleMessage
<1> HIDE DEF msg, id
<1>2. CASE HandleCommand(id, msg.command) BY <1>2, HandleCommandKeeps
<1>3. CASE HandleResize(id, msg) BY <1>3 DEF HandleResize, modelVars, Inv
<1>4. CASE HandleInput(id, msg)
  <2>1. \E slots : Writes(slots) BY <1>4 DEF HandleInput
  <2> QED BY <2>1, WritesKeep
<1> QED BY <1>1, <1>2, <1>3, <1>4

\* The requery builds a model and carries the overlays of the present one over.
LEMMA ListReplyKeeps ==
    ASSUME Inv, NEW slot, NEW body, ListReply(slot, body) PROVE Inv'
<1> DEFINE built == buildInitialModel(body.windows, body.panes, body.layout)
           m == carryForwardOverlays(model, built)
<1>1. IsModel(built) /\ Consistent(built) BY BuildIsModel, BuildIsConsistent
<1> HIDE DEF built
<1>2. IsModel(m) /\ Consistent(m) BY <1>1, CarryForwardKeeps
<1>3. Writes(<<>>) \/ ModelBecomes(m, <<>>) BY DEF ListReply, built
<1> HIDE DEF m
<1> QED BY <1>2, <1>3, WritesKeep, BecomesKeeps

LEMMA OptionReplyKeeps ==
    ASSUME Inv, NEW slot, NEW ok, OptionReply(slot, ok) PROVE Inv'
<1> DEFINE m == Patched(model, slot.op, slot.pane, slot.window, slot.was, slot.id[1])
<1>1. IsModel(m) /\ Consistent(m) BY PatchedKeeps DEF Inv
<1>2. Writes(<<>>) \/ ModelBecomes(m, <<>>) BY DEF OptionReply
<1> HIDE DEF m
<1> QED BY <1>1, <1>2, WritesKeep, BecomesKeeps

LEMMA ReceiveKeeps == ASSUME Inv, Receive PROVE Inv'
<1> DEFINE r == Head(replies)
<1>1. \/ OptionReply(r.slot, r.ok) \/ ListReply(r.slot, r.body)
      \/ CreatingReply(r.slot, r.ok, r.body) \/ AckReply(r.slot, r.ok) \/ NoReply(r.slot)
      \/ NextKeys(r.ok) \/ Notified
  BY DEF Receive
<1> HIDE DEF r
<1>2. CASE OptionReply(r.slot, r.ok) BY <1>2, OptionReplyKeeps
<1>3. CASE ListReply(r.slot, r.body) BY <1>3, ListReplyKeeps
<1>4. CASE \/ CreatingReply(r.slot, r.ok, r.body) \/ AckReply(r.slot, r.ok)
           \/ NoReply(r.slot) \/ NextKeys(r.ok) \/ Notified
  <2>1. \E slots : Writes(slots)
    BY <1>4 DEF CreatingReply, AckReply, NoReply, NextKeys, Notified
  <2> QED BY <2>1, WritesKeep
<1> QED BY <1>1, <1>2, <1>3, <1>4

LEMMA StepInv == Inv /\ [Next]_vars => Inv'
<1> SUFFICES ASSUME Inv, [Next]_vars PROVE Inv'
  OBVIOUS
<1>1. CASE Receive BY <1>1, ReceiveKeeps
<1>2. CASE Requery
  <2>1. \E slots : Writes(slots) BY <1>2 DEF Requery
  <2> QED BY <2>1, WritesKeep
<1>3. ASSUME NEW c, HandleMessage(c) PROVE Inv' BY <1>3, HandleMessageKeeps
<1>4. CASE UNCHANGED model BY <1>4 DEF Inv
<1>5. CASE Execute \/ SeeExit \/ PaneExits \/ HostDies
  BY <1>4, <1>5 DEF Execute, SeeExit, PaneExits, HostDies, modelVars
<1>6. ASSUME NEW c, \/ FlushResizes(c) \/ HandleCommandResponse(c) \/ SeeClose(c)
      PROVE  Inv'
  BY <1>4, <1>6 DEF FlushResizes, HandleCommandResponse, SeeClose, ClientCalls, ClientDoes,
                    modelVars
<1>7. ASSUME NEW c, Client(c) PROVE Inv'
  <2>1. UNCHANGED modelVars
    BY <1>7 DEF Client, SendVerb, SendCommand, SendInput, ResizePane, Disconnect, ClientCalls,
                ClientDoes
  <2> QED BY <1>4, <2>1 DEF modelVars
<1>8. CASE UNCHANGED vars BY <1>4, <1>8 DEF vars, modelVars
<1> QED BY <1>1, <1>2, <1>3, <1>5, <1>6, <1>7, <1>8 DEF Next, System, Others

\* No run of the driver reaches a model that checkInvariants (model.ts:346) would
\* reject: not by verbs and their reversals, not by a requery that replaces the
\* model under them.
THEOREM ModelStaysConsistent == Spec => []ModelIsConsistent
<1>1. Inv => ModelIsConsistent BY DEF Inv, ModelIsConsistent
<1> QED BY InitInv, StepInv, <1>1, PTL DEF Spec

-----------------------------------------------------------------------------
(* Sequences of whatever is in them.                                        *)

IsSeq(s) == \E S : s \in Seq(S)

\* The domain of a sequence is the numbers up to its length.
LEMMA SeqIs ==
    ASSUME NEW s, IsSeq(s)
    PROVE  Len(s) \in Nat /\ DOMAIN s = 1..Len(s) /\ (s = <<>> <=> Len(s) = 0)
BY DEF IsSeq

\* The empty sequence.
LEMMA EmptyIsSeq == IsSeq(<<>>) /\ Len(<<>>) = 0 /\ DOMAIN <<>> = {}
<1>1. <<>> \in Seq({}) OBVIOUS
<1> QED BY <1>1 DEF IsSeq

\* A sequence of one.
LEMMA OneIsSeq ==
    ASSUME NEW x
    PROVE  /\ IsSeq(<<x>>) /\ Len(<<x>>) = 1 /\ DOMAIN <<x>> = {1}
           /\ <<x>>[1] = x
<1>1. <<x>> \in Seq({x}) OBVIOUS
<1>2. IsSeq(<<x>>) BY <1>1 DEF IsSeq
<1>3. Len(<<x>>) = 1 /\ <<x>>[1] = x OBVIOUS
<1>4. DOMAIN <<x>> = 1..1 OBVIOUS
<1> QED BY <1>2, <1>3, <1>4

\* A sequence of two.
LEMMA TwoIsSeq ==
    ASSUME NEW x, NEW y
    PROVE  /\ IsSeq(<<x, y>>) /\ DOMAIN <<x, y>> = {1, 2}
           /\ <<x, y>>[1] = x /\ <<x, y>>[2] = y
<1>1. <<x, y>> \in Seq({x, y}) OBVIOUS
<1>2. IsSeq(<<x, y>>) BY <1>1 DEF IsSeq
<1>3. <<x, y>>[1] = x /\ <<x, y>>[2] = y OBVIOUS
<1>4. DOMAIN <<x, y>> = 1..2 OBVIOUS
<1> QED BY <1>2, <1>3, <1>4

\* The tail of a sequence has what comes after its first.
LEMMA TailIsSeq ==
    ASSUME NEW s, IsSeq(s), s # <<>>
    PROVE  /\ IsSeq(Tail(s)) /\ Len(Tail(s)) = Len(s) - 1
           /\ DOMAIN Tail(s) = 1..Len(s) - 1
           /\ \A i \in DOMAIN Tail(s) : Tail(s)[i] = s[i + 1]
           /\ 1 \in DOMAIN s /\ Head(s) = s[1]
<1> PICK S : s \in Seq(S) BY DEF IsSeq
<1>1. Tail(s) \in Seq(S) OBVIOUS
<1> QED BY <1>1 DEF IsSeq

\* Two sequences, one after the other.
LEMMA CatIsSeq ==
    ASSUME NEW s, NEW t, IsSeq(s), IsSeq(t)
    PROVE  /\ IsSeq(s \o t) /\ Len(s \o t) = Len(s) + Len(t)
           /\ DOMAIN (s \o t) = 1..Len(s) + Len(t)
           /\ \A i \in DOMAIN s : (s \o t)[i] = s[i]
           /\ \A i \in 1..Len(s) + Len(t) : i > Len(s) => (s \o t)[i] = t[i - Len(s)]
<1> PICK S : s \in Seq(S) BY DEF IsSeq
<1> PICK T : t \in Seq(T) BY DEF IsSeq
<1> DEFINE U == S \cup T
<1>1. s \in Seq(U) /\ t \in Seq(U) OBVIOUS
<1> HIDE DEF U
<1>2. s \o t \in Seq(U) BY <1>1
<1> QED BY <1>1, <1>2 DEF IsSeq

\* A sequence and one more.
LEMMA AppendIsSeq ==
    ASSUME NEW s, NEW x, IsSeq(s)
    PROVE  /\ IsSeq(Append(s, x)) /\ Len(Append(s, x)) = Len(s) + 1
           /\ DOMAIN Append(s, x) = 1..Len(s) + 1
           /\ \A i \in DOMAIN s : Append(s, x)[i] = s[i]
           /\ Append(s, x)[Len(s) + 1] = x
<1> PICK S : s \in Seq(S) BY DEF IsSeq
<1> DEFINE U == S \cup {x}
<1>1. s \in Seq(U) /\ x \in U OBVIOUS
<1> HIDE DEF U
<1>2. Append(s, x) \in Seq(U) BY <1>1
<1> QED BY <1>1, <1>2 DEF IsSeq

\* Nothing appended changes nothing.
LEMMA CatEmpty == ASSUME NEW s, IsSeq(s) PROVE s \o <<>> = s
BY DEF IsSeq

\* Appending is associative.
LEMMA CatAssoc ==
    ASSUME NEW r, NEW s, NEW t, IsSeq(r), IsSeq(s), IsSeq(t)
    PROVE  (r \o s) \o t = r \o (s \o t)
<1> PICK R : r \in Seq(R) BY DEF IsSeq
<1> PICK S : s \in Seq(S) BY DEF IsSeq
<1> PICK T : t \in Seq(T) BY DEF IsSeq
<1> DEFINE U == R \cup S \cup T
<1>1. r \in Seq(U) /\ s \in Seq(U) /\ t \in Seq(U) OBVIOUS
<1> HIDE DEF U
<1> QED BY <1>1

\* A function on the first n numbers is a sequence.
LEMMA FunctionIsSeq ==
    ASSUME NEW n \in Nat, NEW f, f = [i \in 1..n |-> f[i]]
    PROVE  IsSeq(f) /\ Len(f) = n
<1> DEFINE U == {f[i] : i \in 1..n}
<1>1. f \in [1..n -> U] OBVIOUS
<1> HIDE DEF U
<1>2. f \in Seq(U) BY <1>1
<1>3. DOMAIN f = 1..n BY <1>1
<1> QED BY <1>2, <1>3 DEF IsSeq

\* SetToSeq lists a finite set from 1.
LEMMA ListedFromOne ==
    ASSUME NEW S, IsFiniteSet(S)
    PROVE  \E n \in Nat : DOMAIN SetToSeq(S) = 1..n
<1> DEFINE n == Cardinality(S)
<1>1. n \in Nat BY FS_CardinalityType
<1>2. PICK f : f \in Bijection(1..n, S)
  BY FS_CardinalityType DEF ExistsBijection
<1>3. f \in [1..n -> S] /\ IsInjective(f) BY <1>2 DEF Bijection, Injection
<1>4. SetToSeq(S) \in [1..n -> S] BY <1>3 DEF SetToSeq
<1> QED BY <1>1, <1>4

-----------------------------------------------------------------------------
(* What is under way for a call.                                            *)

Answering(slot) == slot.cont \in {"creating", "ack", "capture", "option"}
IsRequest(msg) == msg.type = "command.request"

InWire == UNION {{<<c, wire[c][i].n>> : i \in {k \in DOMAIN wire[c] : IsRequest(wire[c][k])}}
                    : c \in ClientIds}
InPipe == {pipe[i].id : i \in {k \in DOMAIN pipe : Answering(pipe[k])}}
InReplies == {replies[i].slot.id : i \in {k \in DOMAIN replies : Answering(replies[k].slot)}}
Done == {d.id : d \in did}
Told == {a.id : a \in told}

\* What a slot may be, a call being numbered by a client and a number.
IsSlot(slot) ==
    /\ slot.cont \in {"creating", "ack", "capture", "option", "none", "chunk", "requery"}
    /\ slot.cont = "creating" => slot.op \in Creating
    /\ slot.op \in {"split-pane", "break-pane", "close-pane"} => slot.pane # Null
    /\ slot.cont = "requery" => slot.op = "list" /\ slot.pane = Null /\ slot.window = Null
                                /\ slot.id = Null
    /\ Answering(slot) => slot.id \in ClientIds \X Nat

\* A reply to a call comes with what tmux did for it; ids are missing only
\* where break-pane had nothing to do.
IsReply(r, D) ==
    /\ IsSlot(r.slot)
    /\ Answering(r.slot) =>
        \E d \in D : /\ d.id = r.slot.id /\ d.ok = r.ok
                     /\ d.ids = IF r.slot.cont = "creating" THEN r.body ELSE Null
    /\ r.slot.cont = "creating" /\ r.slot.op # "break-pane" /\ r.ok => r.body # Null
    /\ r.slot.cont = "requery" => /\ IsFiniteSet(DOMAIN r.body.windows)
                                  /\ IsFiniteSet(DOMAIN r.body.panes)

IsApi(a) ==
    /\ DOMAIN a = {"calls", "waiting", "resizes", "connected"}
    /\ a.calls \in Nat
    /\ IsSeq(a.resizes)
    /\ \A i \in DOMAIN a.resizes : a.resizes[i].type = "resize.request"

IsTmux(t) ==
    /\ t = [windows |-> t.windows, panes |-> t.panes]
    /\ DOMAIN t.windows \subseteq WindowIds /\ IsFiniteSet(DOMAIN t.windows)
    /\ DOMAIN t.panes \subseteq PaneIds /\ IsFiniteSet(DOMAIN t.panes)
    /\ \A p \in DOMAIN t.panes :
        /\ t.panes[p].window \in DOMAIN t.windows
        /\ t.panes[p] = [window |-> t.panes[p].window, label |-> t.panes[p].label]
TmuxInv == IsTmux(tmux)
ModelInv ==
    /\ Inv
    /\ IsFiniteSet(DOMAIN model.windows) /\ IsFiniteSet(DOMAIN model.panes)
WireInv ==
    /\ api = [c \in ClientIds |-> api[c]] /\ wire = [c \in ClientIds |-> wire[c]]
    /\ \A c \in ClientIds :
        /\ IsApi(api[c]) /\ IsSeq(wire[c])
        /\ \A i \in DOMAIN wire[c] : IsRequest(wire[c][i]) =>
            /\ wire[c][i].n \in 1..api[c].calls
            /\ wire[c][i].command \in WireCommand
        /\ \A i, j \in DOMAIN wire[c] :
            i # j /\ IsRequest(wire[c][i]) /\ IsRequest(wire[c][j])
                => wire[c][i].n # wire[c][j].n
MailInv ==
    /\ mail = [c \in ClientIds |-> mail[c]]
    /\ \A c \in ClientIds :
        IsSeq(mail[c]) /\ \A i \in DOMAIN mail[c] : mail[c][i].id[1] = c
PipeInv ==
    /\ IsSeq(pipe)
    /\ \A i \in DOMAIN pipe : IsSlot(pipe[i])
    /\ \A i, j \in DOMAIN pipe :
        i # j /\ Answering(pipe[i]) /\ Answering(pipe[j]) => pipe[i].id # pipe[j].id
RepliesInv ==
    /\ IsSeq(replies)
    /\ \A i \in DOMAIN replies : IsReply(replies[i], did)
    /\ \A i, j \in DOMAIN replies :
        i # j /\ Answering(replies[i].slot) /\ Answering(replies[j].slot)
            => replies[i].slot.id # replies[j].slot.id
\* A call is at one place, and its number is used up.
PlaceInv ==
    /\ \A c \in ClientIds, n \in Nat :
        <<c, n>> \in InPipe \cup InReplies \cup Done \cup Told => n \in 1..api[c].calls
    /\ InWire \cap (InPipe \cup InReplies \cup Done \cup Told) = {}
    /\ InPipe \cap (InReplies \cup Told) = {}
    /\ InReplies \cap Told = {}
\* What AnswersAreTrue says of one answer.
IsTrue(a) ==
    IF a.ok
    THEN \/ a.kind = "session-proxy.info"
         \/ \E d \in did : d.id = a.id /\ d.ok /\ d.ids = a.ids
         \/ \E d \in did : d.id = a.id /\ d.ok /\ d.ids = Null /\ a.kind = "break-pane"
    ELSE \/ a.id[1] \in ReadOnly
         \/ a.kind = "pane.capture" /\ \A d \in did : d.id # a.id
         \/ \E d \in did : d.id = a.id /\ ~d.ok
         \/ \E d \in did : d.id = a.id /\ d.ids = Null /\ a.kind = "break-pane"
ToldInv ==
    /\ \A a \in told : IsTrue(a)
    /\ \A a1, a2 \in told : a1.id = a2.id => a1 = a2
AnswerInv ==
    /\ TmuxInv /\ ModelInv /\ WireInv /\ MailInv /\ PipeInv /\ RepliesInv /\ PlaceInv
    /\ ToldInv

\* A patch leaves the windows and panes that are there.
LEMMA PatchedDomains ==
    ASSUME NEW m, IsModel(m), NEW op, NEW p, NEW w, NEW v, NEW c
    PROVE  /\ DOMAIN Patched(m, op, p, w, v, c).windows = DOMAIN m.windows
           /\ DOMAIN Patched(m, op, p, w, v, c).panes = DOMAIN m.panes
<1>1. \/ Patched(m, op, p, w, v, c) = m
      \/ w \in DOMAIN m.windows /\ \E win : Patched(m, op, p, w, v, c)
                                        = [m EXCEPT !.windows = Put(@, w, win)]
      \/ p \in DOMAIN m.panes /\ \E pane : Patched(m, op, p, w, v, c)
                                        = [m EXCEPT !.panes = Put(@, p, pane)]
  BY DEF Patched, updateWindow, updatePane, updatePaneOverlay
<1>2. \A x, y : x \in DOMAIN m.windows => DOMAIN Put(m.windows, x, y) = DOMAIN m.windows
  BY DEF Put
<1>3. \A x, y : x \in DOMAIN m.panes => DOMAIN Put(m.panes, x, y) = DOMAIN m.panes
  BY DEF Put
<1>4. ASSUME NEW W PROVE /\ [m EXCEPT !.windows = W].windows = W
                         /\ [m EXCEPT !.windows = W].panes = m.panes
                         /\ [m EXCEPT !.panes = W].panes = W
                         /\ [m EXCEPT !.panes = W].windows = m.windows
  BY DEF IsModel
<1> DEFINE n == Patched(m, op, p, w, v, c)
<1>5. CASE w \in DOMAIN m.windows /\ \E win : n = [m EXCEPT !.windows = Put(@, w, win)]
  <2> PICK win : n = [m EXCEPT !.windows = Put(m.windows, w, win)] BY <1>5
  <2>1. n.windows = Put(m.windows, w, win) /\ n.panes = m.panes
    BY <1>4
  <2> QED BY <1>2, <1>5, <2>1
<1>6. CASE p \in DOMAIN m.panes /\ \E pane : n = [m EXCEPT !.panes = Put(@, p, pane)]
  <2> PICK pane : n = [m EXCEPT !.panes = Put(m.panes, p, pane)] BY <1>6
  <2>1. n.windows = m.windows /\ n.panes = Put(m.panes, p, pane)
    BY <1>4
  <2> QED BY <1>3, <1>6, <2>1
<1> QED BY <1>1, <1>5, <1>6

-----------------------------------------------------------------------------
(* What is written is appended.                                             *)

\* The pipe takes slots for the calls in X and no other call.
PipeTakes(X) ==
    /\ PipeInv'
    /\ InPipe' = InPipe \cup X

\* A batch of reports of sizes.
AreReports(more) ==
    /\ IsSeq(more)
    /\ \A i \in DOMAIN more :
        more[i].cont = "none" /\ more[i].op = "size" /\ more[i].id = Null

\* The pipe is longer by slots, and by reports of sizes.
LEMMA BecomesAppends ==
    ASSUME PipeInv, NEW m, IsFiniteSet(DOMAIN m.windows), NEW slots, IsSeq(slots),
           ModelBecomes(m, slots)
    PROVE  \E more : AreReports(more) /\ pipe' = (pipe \o slots) \o more
<1> DEFINE more == Reports(m, NoBox, Null)
<1>1. CASE pipe' = pipe \o slots
  <2>1. pipe' = (pipe \o slots) \o <<>>
    BY <1>1, CatIsSeq, CatEmpty DEF PipeInv
  <2>2. AreReports(<<>>) BY EmptyIsSeq DEF AreReports
  <2> QED BY <2>1, <2>2
<1>2. CASE pipe' = (pipe \o slots) \o more
  <2>1. IsFiniteSet(Unreported(m, NoBox))
    <3>1. Unreported(m, NoBox) \in SUBSET DOMAIN m.windows BY DEF Unreported
    <3> QED BY <3>1, FS_Subset
  <2>2. PICK n \in Nat : DOMAIN SetToSeq(Unreported(m, NoBox)) = 1..n
    BY <2>1, ListedFromOne
  <2>3. more = [i \in 1..n |-> more[i]] BY <2>2 DEF Reports
  <2>4. \A i \in 1..n : more[i].cont = "none" /\ more[i].op = "size" /\ more[i].id = Null
    BY <2>2 DEF Reports, Slot
  <2> HIDE DEF more
  <2>5. IsSeq(more) /\ DOMAIN more = 1..n BY <2>3, FunctionIsSeq
  <2>6. AreReports(more) BY <2>4, <2>5 DEF AreReports
  <2> QED BY <1>2, <2>6
<1>3. \/ pipe' = pipe \o slots
      \/ pipe' = (pipe \o slots) \o more
  <2>1. pipe \o slots \o more = (pipe \o slots) \o more OBVIOUS
  <2> QED BY <2>1 DEF ModelBecomes
<1> QED BY <1>1, <1>2, <1>3

\* A batch in which nothing is for a call.
LEMMA QuietAppend ==
    ASSUME PipeInv, NEW more, IsSeq(more),
           pipe' = pipe \o more, \A i \in DOMAIN more : IsSlot(more[i]) /\ ~Answering(more[i])
    PROVE  PipeTakes({})
<1>1. /\ IsSeq(pipe') /\ DOMAIN pipe' = 1..Len(pipe) + Len(more)
      /\ DOMAIN pipe = 1..Len(pipe) /\ DOMAIN more = 1..Len(more)
      /\ Len(pipe) \in Nat /\ Len(more) \in Nat
      /\ \A i \in DOMAIN pipe : pipe'[i] = pipe[i]
      /\ \A i \in DOMAIN pipe' : i > Len(pipe) => pipe'[i] = more[i - Len(pipe)]
  BY CatIsSeq, SeqIs DEF PipeInv
<1>2. \A i \in DOMAIN pipe' :
        \/ i \in DOMAIN pipe /\ pipe'[i] = pipe[i]
        \/ i > Len(pipe) /\ IsSlot(pipe'[i]) /\ ~Answering(pipe'[i])
  <2> TAKE i \in DOMAIN pipe'
  <2>1. CASE i \in DOMAIN pipe BY <1>1, <2>1
  <2>2. CASE i \notin DOMAIN pipe
    <3>1. i > Len(pipe) /\ i - Len(pipe) \in DOMAIN more BY <1>1, <2>2
    <3> QED BY <1>1, <3>1
  <2> QED BY <2>1, <2>2
<1>3. PipeInv'
  <2>1. \A i \in DOMAIN pipe' : IsSlot(pipe'[i]) BY <1>2 DEF PipeInv
  <2>2. ASSUME NEW i \in DOMAIN pipe', NEW j \in DOMAIN pipe', i # j,
               Answering(pipe'[i]), Answering(pipe'[j])
        PROVE  pipe'[i].id # pipe'[j].id
    BY <1>2, <2>2 DEF PipeInv
  <2>3. /\ IsSeq(pipe)'
        /\ (\A i \in DOMAIN pipe : IsSlot(pipe[i]))'
        /\ (\A i, j \in DOMAIN pipe :
              i # j /\ Answering(pipe[i]) /\ Answering(pipe[j]) => pipe[i].id # pipe[j].id)'
    BY <1>1, <2>1, <2>2
  <2> QED BY <2>3 DEF PipeInv
<1>4. InPipe' = InPipe
  BY <1>1, <1>2 DEF InPipe, Answering
<1> QED BY <1>3, <1>4 DEF PipeTakes

\* One slot for a call that the pipe has none for, and nothing else for a call.
LEMMA OneAppend ==
    ASSUME PipeInv, NEW slot, IsSlot(slot), Answering(slot), slot.id \notin InPipe,
           NEW more, IsSeq(more), \A i \in DOMAIN more : IsSlot(more[i]) /\ ~Answering(more[i]),
           pipe' = (pipe \o <<slot>>) \o more
    PROVE  PipeTakes({slot.id})
<1> DEFINE n == Len(pipe)
           p == pipe \o <<slot>>
<1>1. /\ IsSeq(p) /\ Len(p) = n + 1 /\ DOMAIN p = 1..n + 1
      /\ n \in Nat /\ DOMAIN pipe = 1..n
      /\ p[n + 1] = slot
      /\ \A i \in DOMAIN pipe : p[i] = pipe[i]
  BY CatIsSeq, SeqIs, OneIsSeq DEF PipeInv
<1> HIDE DEF p
<1>2. /\ IsSeq(pipe') /\ DOMAIN pipe' = 1..n + 1 + Len(more)
      /\ DOMAIN more = 1..Len(more) /\ Len(more) \in Nat
      /\ \A i \in DOMAIN p : pipe'[i] = p[i]
      /\ \A i \in DOMAIN pipe' : i > n + 1 => pipe'[i] = more[i - (n + 1)]
  BY <1>1, CatIsSeq, SeqIs DEF p
<1> HIDE DEF n
<1>3. \A i \in DOMAIN pipe' :
        \/ i \in DOMAIN pipe /\ pipe'[i] = pipe[i]
        \/ i = n + 1 /\ pipe'[i] = slot
        \/ i > n + 1 /\ IsSlot(pipe'[i]) /\ ~Answering(pipe'[i])
  <2> TAKE i \in DOMAIN pipe'
  <2>1. CASE i \in 1..n + 1 BY <1>1, <1>2, <2>1
  <2>2. CASE i \notin 1..n + 1
    <3>1. i > n + 1 /\ i - (n + 1) \in DOMAIN more BY <1>1, <1>2, <2>2
    <3> QED BY <1>2, <3>1
  <2> QED BY <2>1, <2>2
<1>4. \A i \in DOMAIN pipe : Answering(pipe[i]) => pipe[i].id # slot.id
  BY DEF InPipe
<1>5. PipeInv'
  <2>1. \A i \in DOMAIN pipe' : IsSlot(pipe'[i]) BY <1>3 DEF PipeInv
  <2>2. ASSUME NEW i \in DOMAIN pipe', NEW j \in DOMAIN pipe', i # j,
               Answering(pipe'[i]), Answering(pipe'[j])
        PROVE  pipe'[i].id # pipe'[j].id
    BY <1>3, <1>4, <2>2 DEF PipeInv
  <2>3. /\ IsSeq(pipe)'
        /\ (\A i \in DOMAIN pipe : IsSlot(pipe[i]))'
        /\ (\A i, j \in DOMAIN pipe :
              i # j /\ Answering(pipe[i]) /\ Answering(pipe[j]) => pipe[i].id # pipe[j].id)'
    BY <1>2, <2>1, <2>2
  <2> QED BY <2>3 DEF PipeInv
<1>6. InPipe' = InPipe \cup {slot.id}
  <2>1. ASSUME NEW x \in InPipe' PROVE x \in InPipe \cup {slot.id}
    <3>1. PICK i \in DOMAIN pipe' : Answering(pipe'[i]) /\ x = pipe'[i].id
      BY DEF InPipe, Answering
    <3>2. CASE i \in DOMAIN pipe /\ pipe'[i] = pipe[i] BY <3>1, <3>2 DEF InPipe
    <3>3. CASE pipe'[i] = slot BY <3>1, <3>3
    <3> QED BY <1>3, <3>1, <3>2, <3>3
  <2>2. \A x \in InPipe : x \in InPipe'
    BY <1>1, <1>2 DEF InPipe, Answering
  <2>3. slot.id \in InPipe'
    <3>1. n + 1 \in DOMAIN p /\ n + 1 \in DOMAIN pipe' BY <1>1, <1>2
    <3>2. pipe'[n + 1] = slot BY <1>1, <1>2, <3>1
    <3> QED BY <3>1, <3>2 DEF InPipe, Answering
  <2> QED BY <2>1, <2>2, <2>3
<1> QED BY <1>5, <1>6 DEF PipeTakes

\* A new model with a batch in which nothing is for a call.
LEMMA BecomesQuiet ==
    ASSUME PipeInv, NEW m, IsFiniteSet(DOMAIN m.windows), NEW slots, IsSeq(slots),
           \A i \in DOMAIN slots : IsSlot(slots[i]) /\ ~Answering(slots[i]),
           ModelBecomes(m, slots)
    PROVE  PipeTakes({})
<1>1. PICK more : AreReports(more) /\ pipe' = (pipe \o slots) \o more
  BY BecomesAppends
<1> DEFINE all == slots \o more
<1>2. pipe' = pipe \o all BY <1>1, CatAssoc DEF PipeInv, AreReports
<1>3. IsSeq(all) /\ \A i \in DOMAIN all : IsSlot(all[i]) /\ ~Answering(all[i])
  <2>1. \A i \in DOMAIN more : IsSlot(more[i]) /\ ~Answering(more[i])
    BY <1>1 DEF AreReports, IsSlot, Answering
  <2>2. /\ IsSeq(all) /\ DOMAIN all = 1..Len(slots) + Len(more)
        /\ DOMAIN slots = 1..Len(slots) /\ DOMAIN more = 1..Len(more)
        /\ Len(slots) \in Nat /\ Len(more) \in Nat
        /\ \A i \in DOMAIN slots : all[i] = slots[i]
        /\ \A i \in DOMAIN all : i > Len(slots) => all[i] = more[i - Len(slots)]
    BY <1>1, CatIsSeq, SeqIs DEF AreReports
  <2> HIDE DEF all
  <2>3. ASSUME NEW i \in DOMAIN all PROVE IsSlot(all[i]) /\ ~Answering(all[i])
    <3>1. CASE i \in DOMAIN slots BY <2>2, <3>1
    <3>2. CASE i \notin DOMAIN slots
      <4>1. i > Len(slots) /\ i - Len(slots) \in DOMAIN more BY <2>2, <3>2
      <4> QED BY <2>1, <2>2, <4>1
    <3> QED BY <3>1, <3>2
  <2> QED BY <2>2, <2>3
<1> HIDE DEF all
<1> QED BY <1>2, <1>3, QuietAppend

\* A new model with one slot for a call that the pipe has none for.
LEMMA BecomesOne ==
    ASSUME PipeInv, NEW m, IsFiniteSet(DOMAIN m.windows), NEW slot, IsSlot(slot),
           Answering(slot), slot.id \notin InPipe, ModelBecomes(m, <<slot>>)
    PROVE  PipeTakes({slot.id})
<1>1. PICK more : AreReports(more) /\ pipe' = (pipe \o <<slot>>) \o more
  <2> DEFINE s == <<slot>>
  <2>1. IsSeq(s) /\ ModelBecomes(m, s) BY OneIsSeq
  <2> HIDE DEF s
  <2>2. \E more : AreReports(more) /\ pipe' = (pipe \o s) \o more
    BY <2>1, BecomesAppends
  <2> QED BY <2>2 DEF s
<1>2. \A i \in DOMAIN more : IsSlot(more[i]) /\ ~Answering(more[i])
  BY <1>1 DEF AreReports, IsSlot, Answering
<1>3. IsSeq(more) BY <1>1 DEF AreReports
<1> QED BY <1>1, <1>2, <1>3, OneAppend

\* pipeline.send of nothing.
LEMMA WritesNothing ==
    ASSUME PipeInv, ModelInv, Writes(<<>>) PROVE PipeTakes({})
BY BecomesQuiet, EmptyIsSeq DEF Writes, ModelInv

\* pipeline.send of one command that is for no call.
LEMMA WritesQuietOne ==
    ASSUME PipeInv, ModelInv, NEW slot, IsSlot(slot), ~Answering(slot), Writes(<<slot>>)
    PROVE  PipeTakes({})
BY BecomesQuiet, OneIsSeq DEF Writes, ModelInv

\* pipeline.send of the command of a call that the pipe has none for.
LEMMA WritesForCall ==
    ASSUME PipeInv, ModelInv, NEW slot, IsSlot(slot), Answering(slot), slot.id \notin InPipe,
           Writes(<<slot>>)
    PROVE  PipeTakes({slot.id})
BY BecomesOne DEF Writes, ModelInv

-----------------------------------------------------------------------------
(* Answers.                                                                 *)

\* True answers, one for a call and in the right mail, are AnswersAreTrue.
LEMMA InvIsEnough == MailInv /\ ToldInv => AnswersAreTrue
<1> SUFFICES ASSUME MailInv, ToldInv PROVE AnswersAreTrue
  OBVIOUS
<1>1. ASSUME NEW x \in told
      PROVE  IF x.ok
             THEN \/ x.kind = "session-proxy.info"
                  \/ \E d \in {e \in did : e.id = x.id} : d.ok /\ d.ids = x.ids
                  \/ \E d \in {e \in did : e.id = x.id} :
                        d.ok /\ d.ids = Null /\ x.kind = "break-pane"
             ELSE \/ x.id[1] \in ReadOnly
                  \/ {e \in did : e.id = x.id} = {} /\ x.kind = "pane.capture"
                  \/ \E d \in {e \in did : e.id = x.id} : ~d.ok
                  \/ \E d \in {e \in did : e.id = x.id} :
                        d.ids = Null /\ x.kind = "break-pane"
  <2>1. IsTrue(x) BY DEF ToldInv
  <2>2. CASE x.ok BY <2>1, <2>2 DEF IsTrue
  <2>3. CASE ~x.ok
    <3>1. CASE x.kind = "pane.capture" /\ \A d \in did : d.id # x.id BY <2>3, <3>1
    <3> QED BY <2>1, <2>3, <3>1 DEF IsTrue
  <2> QED BY <2>2, <2>3
<1> QED BY <1>1 DEF AnswersAreTrue, MailInv, ToldInv

\* A deed for another call changes no answer's truth.
LEMMA TrueStays ==
    ASSUME NEW a, IsTrue(a), NEW X, did' = did \cup X, \A d \in X : d.id # a.id
    PROVE  IsTrue(a)'
<1>1. CASE a.ok BY <1>1 DEF IsTrue
<1>2. CASE ~a.ok BY <1>2 DEF IsTrue
<1> QED BY <1>1, <1>2

\* A true answer to a call not answered yet.
LEMMA AnswerKeeps ==
    ASSUME MailInv, ToldInv, NEW id, id[1] \in ClientIds, NEW a, Answer(id, a), a.id = id,
           id \notin Told, IsTrue(a), UNCHANGED did
    PROVE  MailInv' /\ ToldInv' /\ Told' = Told \cup {id}
<1>1. told' = told \cup {a} BY DEF Answer
<1>2. \A x : IsTrue(x) => IsTrue(x)' BY DEF IsTrue
<1>3. ToldInv'
  <2>1. \A x \in told' : IsTrue(x)' BY <1>1, <1>2 DEF ToldInv
  <2>2. \A x, y \in told' : x.id = y.id => x = y BY <1>1 DEF ToldInv, Told
  <2> QED BY <2>1, <2>2 DEF ToldInv
<1>4. Told' = Told \cup {id} BY <1>1 DEF Told
<1>5. MailInv'
  <2>1. ASSUME NEW c \in ClientIds
        PROVE  mail'[c] = mail[c] \/ (c = id[1] /\ mail'[c] = Append(mail[c], a))
    <3> DEFINE k == id[1]
               new == IF k \in open THEN Append(mail[k], a) ELSE mail[k]
    <3>1. mail' = [mail EXCEPT ![k] = new] BY DEF Answer
    <3>2. c \in DOMAIN mail BY DEF MailInv
    <3>3. mail'[c] = IF c = k THEN new ELSE mail[c]
      <4> HIDE DEF k, new
      <4> QED BY <3>1, <3>2
    <3> QED BY <3>3
  <2>2. mail' = [c \in ClientIds |-> mail'[c]] BY DEF Answer, MailInv
  <2>3. ASSUME NEW c \in ClientIds
        PROVE  IsSeq(mail'[c]) /\ \A i \in DOMAIN mail'[c] : mail'[c][i].id[1] = c
    <3>1. CASE mail'[c] = mail[c] BY <3>1 DEF MailInv
    <3>2. CASE c = id[1] /\ mail'[c] = Append(mail[c], a)
      <4> DEFINE m == mail[c]
      <4>1. IsSeq(m) /\ DOMAIN m = 1..Len(m) /\ Len(m) \in Nat BY SeqIs DEF MailInv
      <4>2. \A i \in DOMAIN m : m[i].id[1] = c BY DEF MailInv
      <4> HIDE DEF m
      <4>3. /\ IsSeq(Append(m, a)) /\ DOMAIN Append(m, a) = 1..Len(m) + 1
            /\ \A i \in DOMAIN m : Append(m, a)[i] = m[i]
            /\ Append(m, a)[Len(m) + 1] = a
        BY <4>1, AppendIsSeq
      <4>4. \A i \in DOMAIN Append(m, a) : Append(m, a)[i].id[1] = c
        BY <3>2, <4>1, <4>2, <4>3
      <4> QED BY <3>2, <4>3, <4>4 DEF m
    <3> QED BY <2>1, <3>1, <3>2
  <2> QED BY <2>2, <2>3 DEF MailInv
<1> QED BY <1>3, <1>4, <1>5

\* Without an answer the mail and what was told stay.
LEMMA NoAnswerKeeps ==
    ASSUME MailInv, ToldInv, NoAnswer, UNCHANGED did
    PROVE  MailInv' /\ ToldInv' /\ Told' = Told
BY DEF NoAnswer, MailInv, ToldInv, Told, IsTrue

\* What a step makes of call id: nothing, a slot, or a true answer.
Outcome(id) ==
    \/ PipeTakes({}) /\ NoAnswer
    \/ PipeTakes({id}) /\ NoAnswer
    \/ PipeTakes({}) /\ \E a : Answer(id, a) /\ a.id = id /\ IsTrue(a)

\* Every message of a command.
LEMMA CommandOutcome ==
    ASSUME PipeInv, ModelInv, NEW id \in ClientIds \X Nat, NEW cmd \in WireCommand,
           HandleCommand(id, cmd), id \notin InPipe \cup Done
    PROVE  Outcome(id)
<1>1. CASE Capture(id, cmd)
  <2> DEFINE slot == Slot(cmd.kind, cmd.pane, Null, Null, "capture", id)
             a == Failed(id, cmd.kind)
  <2>1. CASE cmd.pane \in DOMAIN model.panes
    <3>1. IsSlot(slot) /\ Answering(slot) /\ slot.id = id
      BY <1>1 DEF Capture, Slot, IsSlot, Answering
    <3>2. Writes(<<slot>>) /\ NoAnswer BY <1>1, <2>1 DEF Capture
    <3> HIDE DEF slot
    <3> QED BY <3>1, <3>2, WritesForCall DEF Outcome
  <2>2. CASE cmd.pane \notin DOMAIN model.panes
    <3>1. Writes(<<>>) /\ Answer(id, a) BY <1>1, <2>2 DEF Capture
    <3>2. a.id = id /\ a.kind = "pane.capture" /\ ~a.ok BY <1>1 DEF Capture, Failed
    <3>3. IsTrue(a) BY <3>2 DEF IsTrue, Done
    <3> HIDE DEF a
    <3> QED BY <3>1, <3>2, <3>3, WritesNothing DEF Outcome
  <2> QED BY <2>1, <2>2
<1>2. CASE Info(id, cmd)
  <2> DEFINE a == Ok(id, cmd.kind, Null)
  <2>1. Writes(<<>>) /\ Answer(id, a) BY <1>2 DEF Info
  <2>2. a.id = id /\ a.kind = "session-proxy.info" /\ a.ok BY <1>2 DEF Info, Ok
  <2>3. IsTrue(a) BY <2>2 DEF IsTrue
  <2> HIDE DEF a
  <2> QED BY <2>1, <2>2, <2>3, WritesNothing DEF Outcome
<1>3. CASE Refused(id, cmd)
  <2> DEFINE a == Failed(id, cmd.kind)
  <2>1. Writes(<<>>) /\ Answer(id, a) BY <1>3 DEF Refused
  <2>2. a.id = id /\ ~a.ok /\ a.id[1] \in ReadOnly BY <1>3 DEF Refused, Failed
  <2>3. IsTrue(a) BY <2>2 DEF IsTrue
  <2> HIDE DEF a
  <2> QED BY <2>1, <2>2, <2>3, WritesNothing DEF Outcome
<1>4. CASE RunCreatingVerb(id, cmd)
  <2> DEFINE slot == Slot(cmd.kind, cmd.pane, cmd.window, Null, "creating", id)
  <2>1. cmd.kind \in {"split-pane", "break-pane"} => cmd.pane # Null
    BY NullIsNoId DEF WireCommand, OnPane, OnWindow, OnSession
  <2>2. IsSlot(slot) /\ Answering(slot) /\ slot.id = id
    BY <1>4, <2>1 DEF RunCreatingVerb, Creating, Slot, IsSlot, Answering
  <2>3. Writes(<<slot>>) /\ NoAnswer BY <1>4 DEF RunCreatingVerb
  <2> HIDE DEF slot
  <2> QED BY <2>2, <2>3, WritesForCall DEF Outcome
<1>5. CASE RunAckVerb(id, cmd)
  <2> DEFINE slot == Slot(cmd.kind, cmd.pane, cmd.window, Null, "ack", id)
  <2>0. cmd.kind = "close-pane" => cmd.pane # Null
    BY NullIsNoId DEF WireCommand, OnPane, OnWindow, OnSession
  <2>1. IsSlot(slot) /\ Answering(slot) /\ slot.id = id
    BY <1>5, <2>0 DEF RunAckVerb, Acked, Slot, IsSlot, Answering
  <2>2. Writes(<<slot>>) /\ NoAnswer BY <1>5 DEF RunAckVerb
  <2> HIDE DEF slot
  <2> QED BY <2>1, <2>2, WritesForCall DEF Outcome
<1>6. CASE SendCommandWithReversal(id, cmd)
  <2> DEFINE slot == [Slot(cmd.kind, cmd.pane, cmd.window, cmd.value, "option", id)
                        EXCEPT !.was = Before(cmd.kind, cmd.pane, cmd.window, id[1])]
             m == Patched(model, cmd.kind, cmd.pane, cmd.window, cmd.value, id[1])
  <2>1. IsSlot(slot) /\ Answering(slot) /\ slot.id = id
    BY <1>6 DEF SendCommandWithReversal, Optimistic, Slot, IsSlot, Answering
  <2>2. ModelBecomes(m, <<slot>>) /\ NoAnswer BY <1>6 DEF SendCommandWithReversal
  <2>3. IsFiniteSet(DOMAIN m.windows) BY PatchedDomains DEF ModelInv, Inv
  <2> HIDE DEF slot, m
  <2> QED BY <2>1, <2>2, <2>3, BecomesOne DEF Outcome
<1>7. CASE SelectPane(id, cmd)
  <2> DEFINE slot == Slot(cmd.kind, cmd.pane, Null, Null, "none", id)
  <2>1. IsSlot(slot) /\ ~Answering(slot) BY <1>7 DEF SelectPane, Slot, IsSlot, Answering
  <2>2. Writes(<<slot>>) /\ NoAnswer BY <1>7 DEF SelectPane
  <2> HIDE DEF slot
  <2> QED BY <2>1, <2>2, WritesQuietOne DEF Outcome
<1>8. CASE EmptyName(id, cmd) BY <1>8, WritesNothing DEF EmptyName, Outcome
<1>9. CASE Sashes(id, cmd)
  <2> DEFINE S == {p \in DOMAIN model.panes : model.panes[p].windowId = cmd.window}
             strip == SetToSeq(S)
             slots == [i \in DOMAIN strip |->
                        Slot("sash", strip[i], cmd.window, Null, "none", id)]
  <2>1. IsFiniteSet(S)
    <3>1. S \in SUBSET DOMAIN model.panes OBVIOUS
    <3> QED BY <3>1, FS_Subset DEF ModelInv
  <2>2. PICK n \in Nat : DOMAIN strip = 1..n BY <2>1, ListedFromOne
  <2>3. slots = [i \in 1..n |-> slots[i]] BY <2>2
  <2>4. \A i \in 1..n : IsSlot(slots[i]) /\ ~Answering(slots[i])
    BY <2>2 DEF Slot, IsSlot, Answering
  <2>5. Writes(slots) /\ NoAnswer BY <1>9 DEF Sashes
  <2>6. DOMAIN slots = 1..n BY <2>3
  <2> HIDE DEF slots
  <2>7. IsSeq(slots) BY <2>3, FunctionIsSeq
  <2> QED BY <2>4, <2>5, <2>6, <2>7, BecomesQuiet DEF Writes, ModelInv, Outcome
<1> QED BY <1>1, <1>2, <1>3, <1>4, <1>5, <1>6, <1>7, <1>8, <1>9 DEF HandleCommand

-----------------------------------------------------------------------------
(* The steps.                                                               *)

\* A message is read from a connection.
LEMMA MessageRead ==
    ASSUME WireInv, NEW c \in ClientIds, wire[c] # <<>>, UNCHANGED api,
           wire' = [wire EXCEPT ![c] = Tail(@)]
    PROVE  /\ WireInv'
           /\ InWire' \subseteq InWire
           /\ IsRequest(Head(wire[c])) =>
                LET n == Head(wire[c]).n
                IN  /\ n \in 1..api[c].calls /\ <<c, n>> \in InWire /\ <<c, n>> \notin InWire'
                    /\ Head(wire[c]).command \in WireCommand
<1> DEFINE w == wire[c]
<1>1. /\ IsSeq(w) /\ w # <<>> /\ DOMAIN w = 1..Len(w) /\ Len(w) \in Nat
      /\ \A i \in DOMAIN w : IsRequest(w[i]) =>
            w[i].n \in 1..api[c].calls /\ w[i].command \in WireCommand
      /\ \A i, j \in DOMAIN w : i # j /\ IsRequest(w[i]) /\ IsRequest(w[j]) => w[i].n # w[j].n
  BY SeqIs DEF WireInv
<1>2. /\ wire' = [x \in ClientIds |-> wire'[x]]
      /\ wire'[c] = Tail(w)
      /\ \A x \in ClientIds : x # c => wire'[x] = wire[x]
  <2>1. DOMAIN wire = ClientIds BY DEF WireInv
  <2> HIDE DEF w
  <2>2. wire' = [wire EXCEPT ![c] = Tail(w)] BY DEF w
  <2> QED BY <2>1, <2>2
<1> HIDE DEF w
<1>3. /\ IsSeq(Tail(w)) /\ DOMAIN Tail(w) = 1..Len(w) - 1
      /\ \A i \in DOMAIN Tail(w) : Tail(w)[i] = w[i + 1]
      /\ 1 \in DOMAIN w /\ Head(w) = w[1]
  BY <1>1, TailIsSeq
<1> DEFINE t == Tail(w)
<1>4. \A i \in DOMAIN t : i + 1 \in DOMAIN w /\ t[i] = w[i + 1] /\ i \in Nat /\ i >= 1
  BY <1>1, <1>3
<1> HIDE DEF t
<1>5. /\ IsSeq(t)
      /\ \A i \in DOMAIN t : IsRequest(t[i]) =>
            t[i].n \in 1..api[c].calls /\ t[i].command \in WireCommand
      /\ \A i, j \in DOMAIN t : i # j /\ IsRequest(t[i]) /\ IsRequest(t[j]) => t[i].n # t[j].n
  <2>1. IsSeq(t) BY <1>3 DEF t
  <2>2. ASSUME NEW i \in DOMAIN t, IsRequest(t[i])
        PROVE  t[i].n \in 1..api[c].calls /\ t[i].command \in WireCommand
    BY <1>1, <1>4, <2>2
  <2>3. ASSUME NEW i \in DOMAIN t, NEW j \in DOMAIN t, i # j, IsRequest(t[i]), IsRequest(t[j])
        PROVE  t[i].n # t[j].n
    <3>1. i + 1 # j + 1 BY <1>4, <2>3
    <3> QED BY <1>1, <1>4, <2>3, <3>1
  <2> QED BY <2>1, <2>2, <2>3
<1>6. WireInv'
  <2>1. ASSUME NEW x \in ClientIds
        PROVE  /\ IsApi(api'[x]) /\ IsSeq(wire'[x])
               /\ \A i \in DOMAIN wire'[x] : IsRequest(wire'[x][i]) =>
                    /\ wire'[x][i].n \in 1..api'[x].calls
                    /\ wire'[x][i].command \in WireCommand
               /\ \A i, j \in DOMAIN wire'[x] :
                    i # j /\ IsRequest(wire'[x][i]) /\ IsRequest(wire'[x][j])
                        => wire'[x][i].n # wire'[x][j].n
    <3>1. CASE x = c
      <4>1. wire'[x] = t /\ api'[x] = api[c] BY <1>2, <3>1 DEF t
      <4>2. IsApi(api[c]) BY DEF WireInv
      <4>3. IsApi(api'[x]) /\ IsSeq(wire'[x]) BY <1>5, <4>1, <4>2
      <4>4. \A i \in DOMAIN wire'[x] : IsRequest(wire'[x][i]) =>
                /\ wire'[x][i].n \in 1..api'[x].calls
                /\ wire'[x][i].command \in WireCommand
        BY <1>5, <4>1
      <4>5. \A i, j \in DOMAIN wire'[x] :
                i # j /\ IsRequest(wire'[x][i]) /\ IsRequest(wire'[x][j])
                    => wire'[x][i].n # wire'[x][j].n
        <5> DEFINE u == wire'[x]
        <5>1. u = t BY <4>1
        <5> HIDE DEF u
        <5>2. \A i, j \in DOMAIN u :
                i # j /\ IsRequest(u[i]) /\ IsRequest(u[j]) => u[i].n # u[j].n
          BY <1>5, <5>1
        <5> QED BY <5>2 DEF u
      <4> QED BY <4>3, <4>4, <4>5
    <3>2. CASE x # c
      <4>1. wire'[x] = wire[x] /\ api'[x] = api[x] BY <1>2, <3>2
      <4> QED BY <4>1 DEF WireInv
    <3> QED BY <3>1, <3>2
  <2>2. api' = [x \in ClientIds |-> api'[x]] BY DEF WireInv
  <2> QED BY <1>2, <2>1, <2>2 DEF WireInv
<1>7. ASSUME NEW y \in InWire'
      PROVE  y \in InWire /\ (IsRequest(w[1]) => y # <<c, w[1].n>>)
  <2>1. PICK x \in ClientIds : \E i \in DOMAIN wire'[x] :
            IsRequest(wire'[x][i]) /\ y = <<x, wire'[x][i].n>>
    BY DEF InWire, IsRequest
  <2> PICK i \in DOMAIN wire'[x] : IsRequest(wire'[x][i]) /\ y = <<x, wire'[x][i].n>>
    BY <2>1
  <2>2. CASE x = c
    <3>0. wire'[x] = t BY <1>2, <2>2 DEF t
    <3>1. /\ IsRequest(w[i + 1]) /\ y = <<c, w[i + 1].n>>
          /\ i + 1 \in DOMAIN w /\ i + 1 # 1
      BY <1>4, <2>2, <3>0
    <3>2. y \in InWire BY <3>1 DEF InWire, w
    <3>3. IsRequest(w[1]) => y # <<c, w[1].n>> BY <1>1, <1>3, <3>1
    <3> QED BY <3>2, <3>3
  <2>3. CASE x # c
    <3>1. wire'[x] = wire[x] BY <1>2, <2>3
    <3> QED BY <2>3, <3>1 DEF InWire
  <2> QED BY <2>2, <2>3
<1>8. IsRequest(w[1]) => <<c, w[1].n>> \in InWire
  BY <1>3 DEF InWire, w
<1> QED BY <1>1, <1>3, <1>6, <1>7, <1>8 DEF w

\* The reports of sizes are for no call.
LEMMA ReportsQuiet ==
    ASSUME ModelInv, NEW box, NEW id
    PROVE  /\ IsSeq(Reports(model, box, id))
           /\ \A i \in DOMAIN Reports(model, box, id) :
                /\ IsSlot(Reports(model, box, id)[i])
                /\ ~Answering(Reports(model, box, id)[i])
<1> DEFINE more == Reports(model, box, id)
<1>1. IsFiniteSet(Unreported(model, box))
  <2>1. Unreported(model, box) \in SUBSET DOMAIN model.windows BY DEF Unreported
  <2> QED BY <2>1, FS_Subset DEF ModelInv
<1>2. PICK n \in Nat : DOMAIN SetToSeq(Unreported(model, box)) = 1..n
  BY <1>1, ListedFromOne
<1>3. more = [i \in 1..n |-> more[i]] BY <1>2 DEF Reports
<1>4. \A i \in 1..n : IsSlot(more[i]) /\ ~Answering(more[i])
  BY <1>2 DEF Reports, Slot, IsSlot, Answering
<1>5. DOMAIN more = 1..n BY <1>3
<1>6. IsSeq(more)
  <2> HIDE DEF more
  <2> QED BY <1>3, FunctionIsSeq
<1> QED BY <1>4, <1>5, <1>6

\* A step that writes nothing at all.
LEMMA SamePipe == ASSUME PipeInv, UNCHANGED pipe PROVE PipeTakes({})
BY DEF PipeTakes, PipeInv, InPipe

\* A message is either one call, of which there is an outcome, or for no call.
LEMMA MessageOutcome ==
    ASSUME AnswerInv, NEW c \in ClientIds, HandleMessage(c)
    PROVE  IF IsRequest(Head(wire[c])) THEN Outcome(<<c, Head(wire[c]).n>>)
           ELSE PipeTakes({}) /\ NoAnswer
<1> DEFINE msg == Head(wire[c])
           id == <<c, msg.n>>
<1>1. \/ IsRequest(msg) /\ HandleCommand(id, msg.command)
      \/ ~IsRequest(msg) /\ HandleResize(id, msg)
      \/ ~IsRequest(msg) /\ HandleInput(id, msg)
  BY DEF HandleMessage, IsRequest
<1>2. PipeInv /\ ModelInv /\ PlaceInv /\ WireInv BY DEF AnswerInv
<1>3. IsRequest(msg) => /\ msg.n \in 1..api[c].calls /\ id \in InWire
                        /\ msg.command \in WireCommand
  BY <1>2, MessageRead DEF HandleMessage
<1>4. api[c].calls \in Nat BY <1>2 DEF WireInv, IsApi
<1> HIDE DEF msg
<1>5. CASE IsRequest(msg) /\ HandleCommand(id, msg.command)
  <2>1. id \in ClientIds \X Nat BY <1>3, <1>4, <1>5
  <2>2. id \notin InPipe \cup Done BY <1>2, <1>3, <1>5 DEF PlaceInv
  <2> HIDE DEF id
  <2>3. Outcome(id) BY <1>2, <1>3, <1>5, <2>1, <2>2, CommandOutcome
  <2> QED BY <1>5, <2>3 DEF id, msg
<1>6. CASE ~IsRequest(msg) /\ HandleResize(id, msg)
  <2>1. NoAnswer BY <1>6 DEF HandleResize
  <2>2. \/ UNCHANGED pipe
        \/ \E box : pipe' = pipe \o Reports(model, box, id)
    BY <1>6 DEF HandleResize
  <2> HIDE DEF id
  <2>3. PipeTakes({}) BY <1>2, <2>2, SamePipe, QuietAppend, ReportsQuiet
  <2> QED BY <1>6, <2>1, <2>3 DEF msg
<1>7. CASE ~IsRequest(msg) /\ HandleInput(id, msg)
  <2>1. NoAnswer BY <1>7 DEF HandleInput
  <2>2. \/ Writes(<<>>)
        \/ \E m : Writes(<<Keys(m, 1)>>)
    BY <1>7 DEF HandleInput
  <2>3. \A m : IsSlot(Keys(m, 1)) /\ ~Answering(Keys(m, 1))
    BY DEF Keys, Slot, IsSlot, Answering
  <2>4. PipeTakes({}) BY <1>2, <2>2, <2>3, WritesNothing, WritesQuietOne
  <2> QED BY <1>7, <2>1, <2>4 DEF msg
<1> QED BY <1>1, <1>5, <1>6, <1>7

\* All that is not about tmux or the model.
CallsInv == WireInv /\ MailInv /\ PipeInv /\ RepliesInv /\ PlaceInv /\ ToldInv

\* A step that leaves the replies and the deeds alone.
LEMMA SameReplies ==
    ASSUME RepliesInv, UNCHANGED <<replies, did>>
    PROVE  RepliesInv' /\ InReplies' = InReplies /\ Done' = Done
BY DEF RepliesInv, InReplies, Done, IsReply

\* The call of a message moves from the wire to the pipe, or is answered.
LEMMA HandleMessageAnswers ==
    ASSUME AnswerInv, NEW c \in ClientIds, HandleMessage(c)
    PROVE  CallsInv'
<1> DEFINE n == Head(wire[c]).n
           id == <<c, n>>
           asks == IsRequest(Head(wire[c]))
<1>1. /\ WireInv /\ MailInv /\ PipeInv /\ RepliesInv /\ PlaceInv /\ ToldInv
      /\ wire[c] # <<>> /\ UNCHANGED <<api, replies, did>>
      /\ wire' = [wire EXCEPT ![c] = Tail(@)]
  BY DEF AnswerInv, HandleMessage, history
<1>2. /\ WireInv' /\ InWire' \subseteq InWire
      /\ asks => n \in 1..api[c].calls /\ id \in InWire /\ id \notin InWire'
  BY <1>1, MessageRead
<1>3. RepliesInv' /\ InReplies' = InReplies /\ Done' = Done BY <1>1, SameReplies
<1>4. IF asks THEN Outcome(id) ELSE PipeTakes({}) /\ NoAnswer BY MessageOutcome
<1>5. api[c].calls \in Nat BY <1>1 DEF WireInv, IsApi
<1> HIDE DEF n, asks
<1>6. asks => id \notin InPipe \cup InReplies \cup Done \cup Told
  BY <1>1, <1>2 DEF PlaceInv
<1>7. CASE PipeTakes({}) /\ NoAnswer
  <2>1. MailInv' /\ ToldInv' /\ Told' = Told BY <1>1, <1>7, NoAnswerKeeps
  <2>2. PipeInv' /\ InPipe' = InPipe BY <1>7 DEF PipeTakes
  <2>3. PlaceInv' BY <1>1, <1>2, <1>3, <2>1, <2>2 DEF PlaceInv
  <2> QED BY <1>2, <1>3, <2>1, <2>2, <2>3 DEF CallsInv
<1>8. CASE asks /\ PipeTakes({id}) /\ NoAnswer
  <2>1. MailInv' /\ ToldInv' /\ Told' = Told BY <1>1, <1>8, NoAnswerKeeps
  <2>2. PipeInv' /\ InPipe' = InPipe \cup {id} BY <1>8 DEF PipeTakes
  <2>3. PlaceInv'
    BY <1>1, <1>2, <1>3, <1>5, <1>6, <1>8, <2>1, <2>2 DEF PlaceInv
  <2> QED BY <1>2, <1>3, <2>1, <2>2, <2>3 DEF CallsInv
<1>9. CASE asks /\ PipeTakes({}) /\ \E a : Answer(id, a) /\ a.id = id /\ IsTrue(a)
  <2>1. id[1] \in ClientIds /\ id \notin Told BY <1>6, <1>9
  <2>2. MailInv' /\ ToldInv' /\ Told' = Told \cup {id}
    <3> HIDE DEF id
    <3> QED BY <1>1, <1>9, <2>1, AnswerKeeps
  <2>3. PipeInv' /\ InPipe' = InPipe BY <1>9 DEF PipeTakes
  <2>4. PlaceInv'
    BY <1>1, <1>2, <1>3, <1>5, <1>6, <1>9, <2>2, <2>3 DEF PlaceInv
  <2> QED BY <1>2, <1>3, <2>2, <2>3, <2>4 DEF CallsInv
<1>10. \/ PipeTakes({}) /\ NoAnswer
       \/ asks /\ PipeTakes({id}) /\ NoAnswer
       \/ asks /\ PipeTakes({}) /\ \E a : Answer(id, a) /\ a.id = id /\ IsTrue(a)
  BY <1>4 DEF Outcome
<1> QED BY <1>7, <1>8, <1>9, <1>10

\* A reply is read.
LEMMA ReplyRead ==
    ASSUME RepliesInv, replies # <<>>, replies' = Tail(replies), UNCHANGED did
    PROVE  LET r == Head(replies)
           IN  /\ RepliesInv' /\ InReplies' \subseteq InReplies /\ Done' = Done
               /\ IsReply(r, did)
               /\ Answering(r.slot) => r.slot.id \in InReplies /\ r.slot.id \notin InReplies'
<1>1. /\ DOMAIN replies = 1..Len(replies) /\ Len(replies) \in Nat
      /\ IsSeq(replies') /\ DOMAIN replies' = 1..Len(replies) - 1
      /\ \A i \in DOMAIN replies' : replies'[i] = replies[i + 1]
      /\ 1 \in DOMAIN replies /\ Head(replies) = replies[1]
  BY SeqIs, TailIsSeq DEF RepliesInv
<1>2. \A i \in DOMAIN replies' : /\ i + 1 \in DOMAIN replies /\ replies'[i] = replies[i + 1]
                                 /\ i \in Nat /\ i >= 1
  BY <1>1
<1>4. RepliesInv'
  <2>0. \A i \in DOMAIN replies' : IsReply(replies'[i], did) BY <1>2 DEF RepliesInv
  <2>1. (\A i \in DOMAIN replies : IsReply(replies[i], did))' BY <2>0
  <2>2. ASSUME NEW i \in DOMAIN replies', NEW j \in DOMAIN replies', i # j,
               Answering(replies'[i].slot), Answering(replies'[j].slot)
        PROVE  replies'[i].slot.id # replies'[j].slot.id
    <3>1. i + 1 # j + 1 BY <1>2, <2>2
    <3> QED BY <1>2, <2>2, <3>1 DEF RepliesInv
  <2>3. /\ IsSeq(replies)'
        /\ (\A i \in DOMAIN replies : IsReply(replies[i], did))'
        /\ (\A i, j \in DOMAIN replies :
              i # j /\ Answering(replies[i].slot) /\ Answering(replies[j].slot)
                  => replies[i].slot.id # replies[j].slot.id)'
    BY <1>1, <2>1, <2>2
  <2> QED BY <2>3 DEF RepliesInv
<1>5. ASSUME NEW x \in InReplies'
      PROVE  x \in InReplies /\ (Answering(replies[1].slot) => x # replies[1].slot.id)
  <2>1. PICK i \in DOMAIN replies' : Answering(replies'[i].slot) /\ x = replies'[i].slot.id
    BY DEF InReplies, Answering
  <2>2. /\ i + 1 \in DOMAIN replies /\ i + 1 # 1
        /\ Answering(replies[i + 1].slot) /\ x = replies[i + 1].slot.id
    BY <1>2, <2>1
  <2>3. x \in InReplies BY <2>2 DEF InReplies
  <2>4. Answering(replies[1].slot) => x # replies[1].slot.id BY <1>1, <2>2 DEF RepliesInv
  <2> QED BY <2>3, <2>4
<1>6. Answering(replies[1].slot) => replies[1].slot.id \in InReplies BY <1>1 DEF InReplies
<1>7. IsReply(replies[1], did) BY <1>1 DEF RepliesInv
<1> QED BY <1>1, <1>4, <1>5, <1>6, <1>7 DEF Done

\* What becomes of a reply: only one to a call has an answer, which is true.
LEMMA ReplyOutcome ==
    ASSUME PipeInv, ModelInv, Receive, IsReply(Head(replies), did)
    PROVE  LET slot == Head(replies).slot
           IN  /\ PipeTakes({})
               /\ \/ NoAnswer
                  \/ /\ Answering(slot)
                     /\ \E a : Answer(slot.id, a) /\ a.id = slot.id /\ IsTrue(a)
<1> DEFINE r == Head(replies)
           slot == r.slot
<1>0. IsReply(r, did) OBVIOUS
<1>1. \/ Notified
      \/ CreatingReply(slot, r.ok, r.body) \/ AckReply(slot, r.ok) \/ OptionReply(slot, r.ok)
      \/ ListReply(slot, r.body) \/ NoReply(slot)
      \/ NextKeys(r.ok) /\ NoAnswer
  BY DEF Receive
<1> HIDE DEF r
<1>2. CASE Notified BY <1>2, WritesNothing DEF Notified, r
<1>3. CASE CreatingReply(slot, r.ok, r.body)
  <2> DEFINE still == slot.op = "break-pane" /\ slot.pane \in DOMAIN model.panes
             ids == IF r.body # Null THEN r.body
                    ELSE <<slot.pane, model.panes[slot.pane].windowId>>
             a == IF r.ok /\ (r.body # Null \/ still) THEN Ok(slot.id, slot.op, ids)
                  ELSE Failed(slot.id, slot.op)
  <2>1. Answer(slot.id, a) /\ Writes(<<>>) /\ slot.cont = "creating"
    BY <1>3 DEF CreatingReply
  <2>2. Answering(slot) BY <2>1 DEF Answering
  <2>3. PICK d \in did : d.id = slot.id /\ d.ok = r.ok /\ d.ids = r.body
    BY <1>0, <2>1, <2>2 DEF IsReply
  <2>4. r.ok /\ slot.op # "break-pane" => r.body # Null BY <1>0, <2>1 DEF IsReply
  <2>5. a.id = slot.id BY DEF Ok, Failed
  <2>6. IsTrue(a)
    <3>1. CASE r.ok /\ r.body # Null
      <4>1. a.ok /\ a.ids = d.ids BY <2>3, <3>1 DEF Ok
      <4> QED BY <2>3, <2>5, <3>1, <4>1 DEF IsTrue
    <3>2. CASE r.ok /\ r.body = Null
      <4>1. a.kind = "break-pane" /\ d.ids = Null /\ d.ok BY <2>3, <2>4, <3>2 DEF Ok, Failed
      <4> HIDE DEF a
      <4> QED BY <2>3, <2>5, <4>1 DEF IsTrue
    <3>3. CASE ~r.ok
      <4>1. ~a.ok /\ ~d.ok BY <2>3, <3>3 DEF Failed
      <4> HIDE DEF a
      <4> QED BY <2>3, <2>5, <4>1 DEF IsTrue
    <3> QED BY <3>1, <3>2, <3>3
  <2>7. PipeTakes({}) BY <2>1, WritesNothing
  <2> HIDE DEF a
  <2> QED BY <2>1, <2>2, <2>5, <2>6, <2>7 DEF r
<1>4. CASE AckReply(slot, r.ok) \/ OptionReply(slot, r.ok)
  <2> DEFINE a == IF r.ok THEN Ok(slot.id, slot.op, Null) ELSE Failed(slot.id, slot.op)
  <2>1. Answer(slot.id, a) /\ slot.cont \in {"ack", "capture", "option"}
    BY <1>4 DEF AckReply, OptionReply
  <2>2. Answering(slot) BY <2>1 DEF Answering
  <2>3. PICK d \in did : d.id = slot.id /\ d.ok = r.ok /\ d.ids = Null
    BY <1>0, <2>1, <2>2 DEF IsReply
  <2>4. a.id = slot.id BY DEF Ok, Failed
  <2>5. IsTrue(a)
    <3>1. CASE r.ok
      <4>1. a.ok /\ a.ids = d.ids BY <2>3, <3>1 DEF Ok
      <4> QED BY <2>3, <2>4, <3>1, <4>1 DEF IsTrue
    <3>2. CASE ~r.ok
      <4>1. ~a.ok /\ ~d.ok BY <2>3, <3>2 DEF Failed
      <4> HIDE DEF a
      <4> QED BY <2>3, <2>4, <4>1 DEF IsTrue
    <3> QED BY <3>1, <3>2
  <2>6. PipeTakes({})
    <3> DEFINE m == Patched(model, slot.op, slot.pane, slot.window, slot.was, slot.id[1])
    <3>1. Writes(<<>>) \/ ModelBecomes(m, <<>>) BY <1>4 DEF AckReply, OptionReply
    <3>2. IsFiniteSet(DOMAIN m.windows) BY PatchedDomains DEF ModelInv, Inv
    <3> HIDE DEF m
    <3> QED BY <3>1, <3>2, WritesNothing, BecomesQuiet, EmptyIsSeq
  <2> HIDE DEF a
  <2> QED BY <2>1, <2>2, <2>4, <2>5, <2>6 DEF r
<1>5. CASE ListReply(slot, r.body)
  <2> DEFINE m == carryForwardOverlays(model,
                    buildInitialModel(r.body.windows, r.body.panes, r.body.layout))
  <2>1. Writes(<<>>) \/ ModelBecomes(m, <<>>) BY <1>5 DEF ListReply
  <2>2. NoAnswer BY <1>5 DEF ListReply
  <2>3. IsFiniteSet(DOMAIN m.windows)
    <3>1. DOMAIN m.windows = DOMAIN r.body.windows
      BY DEF carryForwardOverlays, buildInitialModel
    <3>2. slot.cont = "requery" BY <1>5 DEF ListReply
    <3> QED BY <1>0, <3>1, <3>2 DEF IsReply
  <2> HIDE DEF m
  <2>4. PipeTakes({}) BY <2>1, <2>3, WritesNothing, BecomesQuiet, EmptyIsSeq
  <2> QED BY <2>2, <2>4 DEF r
<1>6. CASE NoReply(slot) BY <1>6, WritesNothing DEF NoReply, r
<1>7. CASE NextKeys(r.ok) /\ NoAnswer
  <2>1. Writes(<<>>) \/ \E m, k : Writes(<<Keys(m, k)>>) BY <1>7 DEF NextKeys
  <2>2. \A m, k : IsSlot(Keys(m, k)) /\ ~Answering(Keys(m, k))
    BY DEF Keys, Slot, IsSlot, Answering
  <2>3. PipeTakes({}) BY <2>1, <2>2, WritesNothing, WritesQuietOne
  <2> QED BY <1>7, <2>3 DEF r
<1> QED BY <1>1, <1>2, <1>3, <1>4, <1>5, <1>6, <1>7

\* The call of a reply moves from the replies to the answered.
LEMMA ReceiveAnswers ==
    ASSUME AnswerInv, Receive
    PROVE  CallsInv'
<1> DEFINE slot == Head(replies).slot
<1>1. /\ WireInv /\ MailInv /\ PipeInv /\ RepliesInv /\ PlaceInv /\ ToldInv /\ ModelInv
      /\ replies # <<>> /\ replies' = Tail(replies) /\ UNCHANGED <<api, wire, did>>
  BY DEF AnswerInv, Receive, history
<1>2. /\ RepliesInv' /\ InReplies' \subseteq InReplies /\ Done' = Done
      /\ IsReply(Head(replies), did)
      /\ Answering(slot) => slot.id \in InReplies /\ slot.id \notin InReplies'
  BY <1>1, ReplyRead
<1>3. /\ PipeTakes({})
      /\ \/ NoAnswer
         \/ Answering(slot) /\ \E a : Answer(slot.id, a) /\ a.id = slot.id /\ IsTrue(a)
  BY <1>1, <1>2, ReplyOutcome
<1>4. Answering(slot) => slot.id \in ClientIds \X Nat BY <1>2 DEF IsReply, IsSlot
<1> DEFINE id == slot.id
<1> HIDE DEF slot
<1>5. PipeInv' /\ InPipe' = InPipe BY <1>3 DEF PipeTakes
<1>6. WireInv' /\ InWire' = InWire BY <1>1 DEF WireInv, InWire
<1>7. CASE NoAnswer
  <2>1. MailInv' /\ ToldInv' /\ Told' = Told BY <1>1, <1>7, NoAnswerKeeps
  <2>2. PlaceInv' BY <1>1, <1>2, <1>5, <1>6, <2>1 DEF PlaceInv
  <2> QED BY <1>2, <1>5, <1>6, <2>1, <2>2 DEF CallsInv
<1>8. CASE Answering(slot) /\ \E a : Answer(id, a) /\ a.id = id /\ IsTrue(a)
  <2>1. id \in InReplies /\ id \notin InReplies' /\ id[1] \in ClientIds BY <1>2, <1>4, <1>8
  <2>2. id \notin Told /\ id \notin InPipe /\ id \notin InWire BY <1>1, <2>1 DEF PlaceInv
  <2> HIDE DEF id
  <2>3. MailInv' /\ ToldInv' /\ Told' = Told \cup {id} BY <1>1, <1>8, <2>1, <2>2, AnswerKeeps
  <2>4. PlaceInv' BY <1>1, <1>2, <1>5, <1>6, <2>1, <2>2, <2>3 DEF PlaceInv
  <2> QED BY <1>2, <1>5, <1>6, <2>3, <2>4 DEF CallsInv
<1> QED BY <1>3, <1>7, <1>8

\* The replies are longer by out, of which at most the first is for a call.
LEMMA RepliesGrow ==
    ASSUME RepliesInv, NEW out, IsSeq(out), replies' = replies \o out, did \subseteq did',
           \A i \in DOMAIN out :
                /\ IsReply(out[i], did')
                /\ Answering(out[i].slot) => i = 1 /\ out[i].slot.id \notin InReplies
    PROVE  /\ RepliesInv'
           /\ \A x \in InReplies' : \/ x \in InReplies
                                    \/ \E i \in DOMAIN out :
                                         Answering(out[i].slot) /\ x = out[i].slot.id
<1> DEFINE n == Len(replies)
<1>1. /\ IsSeq(replies') /\ DOMAIN replies' = 1..n + Len(out)
      /\ DOMAIN replies = 1..n /\ DOMAIN out = 1..Len(out)
      /\ n \in Nat /\ Len(out) \in Nat
      /\ \A i \in DOMAIN replies : replies'[i] = replies[i]
      /\ \A i \in DOMAIN replies' : i > n => replies'[i] = out[i - n]
  BY CatIsSeq, SeqIs DEF RepliesInv
<1> HIDE DEF n
<1>2. \A i \in DOMAIN replies' :
        \/ i \in DOMAIN replies /\ replies'[i] = replies[i]
        \/ i > n /\ i - n \in DOMAIN out /\ replies'[i] = out[i - n]
  <2> TAKE i \in DOMAIN replies'
  <2>1. CASE i \in DOMAIN replies BY <1>1, <2>1
  <2>2. CASE i \notin DOMAIN replies
    <3>1. i > n /\ i - n \in DOMAIN out BY <1>1, <2>2
    <3> QED BY <1>1, <3>1
  <2> QED BY <2>1, <2>2
<1>3. \A r : IsReply(r, did) => IsReply(r, did') BY DEF IsReply
<1>4. RepliesInv'
  <2>1. \A i \in DOMAIN replies' : IsReply(replies'[i], did') BY <1>2, <1>3 DEF RepliesInv
  <2>2. ASSUME NEW i \in DOMAIN replies', NEW j \in DOMAIN replies', i # j,
               Answering(replies'[i].slot), Answering(replies'[j].slot)
        PROVE  replies'[i].slot.id # replies'[j].slot.id
    <3>1. CASE i \in DOMAIN replies /\ j \in DOMAIN replies
      BY <1>1, <2>2, <3>1 DEF RepliesInv
    <3>2. CASE i \in DOMAIN replies /\ j \notin DOMAIN replies
      <4>1. replies'[j].slot.id \notin InReplies BY <1>2, <2>2, <3>2
      <4>2. replies'[i].slot.id \in InReplies BY <1>1, <2>2, <3>2 DEF InReplies
      <4> QED BY <4>1, <4>2
    <3>3. CASE i \notin DOMAIN replies /\ j \in DOMAIN replies
      <4>1. replies'[i].slot.id \notin InReplies BY <1>2, <2>2, <3>3
      <4>2. replies'[j].slot.id \in InReplies BY <1>1, <2>2, <3>3 DEF InReplies
      <4> QED BY <4>1, <4>2
    <3>4. CASE i \notin DOMAIN replies /\ j \notin DOMAIN replies
      <4>1. i - n = 1 /\ j - n = 1 BY <1>2, <2>2, <3>4
      <4>2. i \in Nat /\ j \in Nat BY <1>1
      <4> QED BY <1>1, <2>2, <4>1, <4>2
    <3> QED BY <3>1, <3>2, <3>3, <3>4
  <2>3. /\ IsSeq(replies)'
        /\ (\A i \in DOMAIN replies : IsReply(replies[i], did))'
        /\ (\A i, j \in DOMAIN replies :
              i # j /\ Answering(replies[i].slot) /\ Answering(replies[j].slot)
                  => replies[i].slot.id # replies[j].slot.id)'
    BY <1>1, <2>1, <2>2
  <2> QED BY <2>3 DEF RepliesInv
<1>5. ASSUME NEW x \in InReplies'
      PROVE  x \in InReplies \/ \E i \in DOMAIN out : Answering(out[i].slot) /\ x = out[i].slot.id
  <2>1. PICK i \in DOMAIN replies' : Answering(replies'[i].slot) /\ x = replies'[i].slot.id
    BY DEF InReplies, Answering
  <2>2. CASE i \in DOMAIN replies /\ replies'[i] = replies[i] BY <2>1, <2>2 DEF InReplies
  <2>3. CASE i - n \in DOMAIN out /\ replies'[i] = out[i - n] BY <2>1, <2>3
  <2> QED BY <1>2, <2>2, <2>3
<1> QED BY <1>4, <1>5

\* tmux has t, and says out unless it stops before.
LEMMA TmuxSays ==
    ASSUME RepliesInv, NEW t, NEW out, TmuxHas(t, out), IsSeq(out), did \subseteq did',
           \A i \in DOMAIN out :
                /\ IsReply(out[i], did')
                /\ Answering(out[i].slot) => i = 1 /\ out[i].slot.id \notin InReplies
    PROVE  /\ RepliesInv' /\ tmux' = t
           /\ \A x \in InReplies' : \/ x \in InReplies
                                    \/ \E i \in DOMAIN out :
                                         Answering(out[i].slot) /\ x = out[i].slot.id
<1>1. tmux' = t /\ (replies' = replies \/ replies' = replies \o out) BY DEF TmuxHas
<1>2. CASE replies' = replies
  <2>1. \A r : IsReply(r, did) => IsReply(r, did') BY DEF IsReply
  <2> QED BY <1>1, <1>2, <2>1 DEF RepliesInv, InReplies
<1>3. CASE replies' = replies \o out BY <1>1, <1>3, RepliesGrow
<1> QED BY <1>1, <1>2, <1>3

\* An id that tmux has not used yet.
LEMMA FreshIsNew ==
    /\ FreshPane # Null => FreshPane \in PaneIds
    /\ FreshWindow # Null => FreshWindow \in WindowIds
BY DEF FreshPane, FreshWindow, AnyOf

\* One entry more.
LEMMA PutIsFinite ==
    ASSUME NEW f, NEW k, NEW v, IsFiniteSet(DOMAIN f)
    PROVE  DOMAIN Put(f, k, v) = DOMAIN f \cup {k} /\ IsFiniteSet(DOMAIN Put(f, k, v))
<1>1. DOMAIN Put(f, k, v) = DOMAIN f \cup {k} BY DEF Put
<1> QED BY <1>1, FS_AddElement

\* Some entries less.
LEMMA WithoutIsFinite ==
    ASSUME NEW f, NEW K, IsFiniteSet(DOMAIN f)
    PROVE  DOMAIN Without(f, K) = DOMAIN f \ K /\ IsFiniteSet(DOMAIN Without(f, K))
<1>1. DOMAIN Without(f, K) = DOMAIN f \ K BY DEF Without, Restrict
<1>2. DOMAIN f \ K \in SUBSET DOMAIN f OBVIOUS
<1> QED BY <1>1, <1>2, FS_Subset

\* tmux without one of its panes.
LEMMA WithoutPaneKeeps ==
    ASSUME NEW t, IsTmux(t), NEW p \in DOMAIN t.panes
    PROVE  IsTmux(WithoutPane(t, p))
<1> DEFINE w == t.panes[p].window
           n == WithoutPane(t, p)
<1>1. /\ n = [windows |-> n.windows, panes |-> n.panes]
      /\ n.panes = Without(t.panes, {p})
      /\ n.windows = IF PanesIn(t, w) = {p} THEN Without(t.windows, {w}) ELSE t.windows
  BY DEF WithoutPane
<1> HIDE DEF n
<1>2. /\ DOMAIN n.panes = DOMAIN t.panes \ {p} /\ IsFiniteSet(DOMAIN n.panes)
      /\ \A x \in DOMAIN n.panes : n.panes[x] = t.panes[x]
  <2>1. IsFiniteSet(DOMAIN t.panes) BY DEF IsTmux
  <2>2. DOMAIN n.panes = DOMAIN t.panes \ {p} BY <1>1, <2>1, WithoutIsFinite
  <2>3. IsFiniteSet(DOMAIN n.panes) BY <1>1, <2>1, WithoutIsFinite
  <2>4. \A x \in DOMAIN n.panes : n.panes[x] = t.panes[x] BY <1>1, <2>2 DEF Without, Restrict
  <2> QED BY <2>2, <2>3, <2>4
<1>3. CASE PanesIn(t, w) = {p}
  <2>1. DOMAIN n.windows = DOMAIN t.windows \ {w} /\ IsFiniteSet(DOMAIN n.windows)
    <3>1. IsFiniteSet(DOMAIN t.windows) BY DEF IsTmux
    <3> QED BY <1>1, <1>3, <3>1, WithoutIsFinite
  <2>2. \A x \in DOMAIN n.panes : t.panes[x].window # w BY <1>2, <1>3 DEF PanesIn
  <2> QED BY <1>1, <1>2, <2>1, <2>2 DEF IsTmux, n
<1>4. CASE PanesIn(t, w) # {p}
  <2>1. n.windows = t.windows BY <1>1, <1>4
  <2> QED BY <1>1, <1>2, <2>1 DEF IsTmux, n
<1> QED BY <1>3, <1>4

\* tmux after a command that it can do: every pane has its window.
LEMMA ExecutedKeeps ==
    ASSUME TmuxInv, NEW slot, IsSlot(slot), Possible(slot)
    PROVE  IsTmux(Executed(slot))
<1> DEFINE n == Executed(slot)
           fw == FreshWindow
           fp == FreshPane
<1>0. /\ slot.pane # Null => slot.pane \in DOMAIN tmux.panes
      /\ slot.op \in {"open-window", "split-pane"} => fp # Null
      /\ slot.op = "open-window" => fw # Null
      /\ slot.op = "break-pane" /\ ~Sole(slot.pane) => fw # Null
  BY DEF Possible, Here, Panes
<1>a. /\ fp # Null => fp \in PaneIds
      /\ fw # Null => fw \in WindowIds
  BY FreshIsNew
<1> HIDE DEF fw, fp
<1>1. CASE slot.op = "open-window"
  <2>1. PICK size : n = [windows |-> Put(tmux.windows, fw, NewWindow(size)),
                         panes |-> Put(tmux.panes, fp, NewPaneOf(fw))]
    BY <1>1 DEF Executed, fw, fp
  <2> DEFINE ws == Put(tmux.windows, fw, NewWindow(size))
             ps == Put(tmux.panes, fp, NewPaneOf(fw))
  <2>2. /\ DOMAIN ws = DOMAIN tmux.windows \cup {fw} /\ IsFiniteSet(DOMAIN ws)
        /\ DOMAIN ps = DOMAIN tmux.panes \cup {fp} /\ IsFiniteSet(DOMAIN ps)
        /\ ps[fp] = NewPaneOf(fw)
        /\ \A x \in DOMAIN tmux.panes : x # fp => ps[x] = tmux.panes[x]
    <3>1. IsFiniteSet(DOMAIN tmux.windows) /\ IsFiniteSet(DOMAIN tmux.panes)
      BY DEF TmuxInv, IsTmux
    <3>2. \A x \in DOMAIN tmux.panes : x # fp => ps[x] = tmux.panes[x] BY DEF Put
    <3>3. DOMAIN ps = DOMAIN tmux.panes \cup {fp} /\ IsFiniteSet(DOMAIN ps)
      BY <3>1, PutIsFinite
    <3>4. ps[fp] = NewPaneOf(fw) BY DEF Put
    <3>5. DOMAIN ws = DOMAIN tmux.windows \cup {fw} /\ IsFiniteSet(DOMAIN ws)
      BY <3>1, PutIsFinite
    <3> QED BY <3>2, <3>3, <3>4, <3>5
  <2>3. n = [windows |-> ws, panes |-> ps] BY <2>1
  <2> HIDE DEF n, ws, ps
  <2>4. /\ n = [windows |-> n.windows, panes |-> n.panes] /\ n.windows = ws /\ n.panes = ps
    BY <2>3
  <2>5. \A x \in DOMAIN ps : /\ ps[x].window \in DOMAIN ws
                             /\ ps[x] = [window |-> ps[x].window, label |-> ps[x].label]
    BY <2>2 DEF NewPaneOf, TmuxInv, IsTmux
  <2>6. DOMAIN ws \subseteq WindowIds /\ DOMAIN ps \subseteq PaneIds
    BY <1>0, <1>a, <1>1, <2>2 DEF TmuxInv, IsTmux
  <2> QED BY <2>2, <2>4, <2>5, <2>6 DEF IsTmux, n
<1>2. CASE slot.op = "split-pane"
  <2> DEFINE w == tmux.panes[slot.pane].window
             ps == Put(tmux.panes, fp, NewPaneOf(w))
  <2>1. n = [tmux EXCEPT !.panes = ps] BY <1>2 DEF Executed, fp
  <2>2. slot.pane \in DOMAIN tmux.panes BY <1>0, <1>2 DEF IsSlot
  <2>3. w \in DOMAIN tmux.windows BY <2>2 DEF TmuxInv, IsTmux
  <2> HIDE DEF w
  <2>4. /\ DOMAIN ps = DOMAIN tmux.panes \cup {fp} /\ IsFiniteSet(DOMAIN ps)
        /\ ps[fp] = NewPaneOf(w)
        /\ \A x \in DOMAIN tmux.panes : x # fp => ps[x] = tmux.panes[x]
    <3>1. IsFiniteSet(DOMAIN tmux.windows) /\ IsFiniteSet(DOMAIN tmux.panes)
      BY DEF TmuxInv, IsTmux
    <3>2. \A x \in DOMAIN tmux.panes : x # fp => ps[x] = tmux.panes[x] BY DEF Put
    <3>3. DOMAIN ps = DOMAIN tmux.panes \cup {fp} /\ IsFiniteSet(DOMAIN ps)
      BY <3>1, PutIsFinite
    <3>4. ps[fp] = NewPaneOf(w) BY DEF Put
    <3> QED BY <3>2, <3>3, <3>4
  <2> HIDE DEF n, ps
  <2>5. /\ n = [windows |-> n.windows, panes |-> n.panes] /\ n.windows = tmux.windows
        /\ n.panes = ps
    BY <2>1 DEF TmuxInv, IsTmux
  <2>6. \A x \in DOMAIN ps : /\ ps[x].window \in DOMAIN tmux.windows
                             /\ ps[x] = [window |-> ps[x].window, label |-> ps[x].label]
    BY <2>3, <2>4 DEF NewPaneOf, TmuxInv, IsTmux
  <2>7. DOMAIN ps \subseteq PaneIds
    BY <1>0, <1>a, <1>2, <2>4 DEF TmuxInv, IsTmux
  <2> QED BY <2>4, <2>5, <2>6, <2>7 DEF IsTmux, TmuxInv, n
<1>3. CASE slot.op = "break-pane" /\ ~Sole(slot.pane)
  <2>1. slot.pane \in DOMAIN tmux.panes BY <1>0, <1>3 DEF IsSlot
  <2> DEFINE p == slot.pane
             new == [tmux.panes[p] EXCEPT !.window = fw]
             ps == Put(tmux.panes, p, new)
  <2>2. PICK size : n = [windows |-> Put(tmux.windows, fw, NewWindow(size)), panes |-> ps]
    BY <1>3 DEF Executed, fw
  <2> DEFINE ws == Put(tmux.windows, fw, NewWindow(size))
  <2>3. n = [windows |-> ws, panes |-> ps] BY <2>2
  <2>4. new = [window |-> fw, label |-> tmux.panes[p].label]
    BY <2>1 DEF TmuxInv, IsTmux
  <2> HIDE DEF new, n
  <2>5. /\ DOMAIN ws = DOMAIN tmux.windows \cup {fw} /\ IsFiniteSet(DOMAIN ws)
        /\ DOMAIN ps = DOMAIN tmux.panes \cup {p} /\ IsFiniteSet(DOMAIN ps)
        /\ ps[p] = new
        /\ \A x \in DOMAIN tmux.panes : x # p => ps[x] = tmux.panes[x]
    <3>1. IsFiniteSet(DOMAIN tmux.windows) /\ IsFiniteSet(DOMAIN tmux.panes)
      BY DEF TmuxInv, IsTmux
    <3>2. \A x \in DOMAIN tmux.panes : x # p => ps[x] = tmux.panes[x] BY DEF Put
    <3>3. DOMAIN ps = DOMAIN tmux.panes \cup {p} /\ IsFiniteSet(DOMAIN ps)
      BY <3>1, PutIsFinite
    <3>4. ps[p] = new BY DEF Put
    <3>5. DOMAIN ws = DOMAIN tmux.windows \cup {fw} /\ IsFiniteSet(DOMAIN ws)
      BY <3>1, PutIsFinite
    <3> QED BY <3>2, <3>3, <3>4, <3>5
  <2> HIDE DEF ws, ps, p
  <2>6. /\ n = [windows |-> n.windows, panes |-> n.panes] /\ n.windows = ws /\ n.panes = ps
    BY <2>3
  <2>7. \A x \in DOMAIN ps : /\ ps[x].window \in DOMAIN ws
                             /\ ps[x] = [window |-> ps[x].window, label |-> ps[x].label]
    BY <2>4, <2>5 DEF TmuxInv, IsTmux
  <2>8. DOMAIN ws \subseteq WindowIds /\ DOMAIN ps \subseteq PaneIds
    BY <1>0, <1>a, <1>3, <2>1, <2>5 DEF TmuxInv, IsTmux, p
  <2> QED BY <2>5, <2>6, <2>7, <2>8 DEF IsTmux, n
<1>4. CASE slot.op = "close-pane"
  <2>1. slot.pane \in DOMAIN tmux.panes BY <1>0, <1>4 DEF IsSlot
  <2>2. n = WithoutPane(tmux, slot.pane) BY <1>4 DEF Executed
  <2> QED BY <2>1, <2>2, WithoutPaneKeeps DEF TmuxInv
<1>5. CASE slot.op = "kill-window"
  <2> DEFINE w == slot.window
             ws == Without(tmux.windows, {w})
             ps == Without(tmux.panes, PanesIn(tmux, w))
  <2>1. n = [windows |-> ws, panes |-> ps] BY <1>5 DEF Executed
  <2>2. /\ DOMAIN ws = DOMAIN tmux.windows \ {w} /\ IsFiniteSet(DOMAIN ws)
        /\ DOMAIN ps = DOMAIN tmux.panes \ PanesIn(tmux, w) /\ IsFiniteSet(DOMAIN ps)
        /\ \A x \in DOMAIN ps : ps[x] = tmux.panes[x]
    <3>1. IsFiniteSet(DOMAIN tmux.windows) /\ IsFiniteSet(DOMAIN tmux.panes)
      BY DEF TmuxInv, IsTmux
    <3>2. \A x \in DOMAIN ps : ps[x] = tmux.panes[x] BY DEF Without, Restrict
    <3>3. DOMAIN ws = DOMAIN tmux.windows \ {w} /\ IsFiniteSet(DOMAIN ws)
      BY <3>1, WithoutIsFinite
    <3>4. DOMAIN ps = DOMAIN tmux.panes \ PanesIn(tmux, w) /\ IsFiniteSet(DOMAIN ps)
      BY <3>1, WithoutIsFinite
    <3> QED BY <3>2, <3>3, <3>4
  <2> HIDE DEF n, ws, ps, w
  <2>3. /\ n = [windows |-> n.windows, panes |-> n.panes] /\ n.windows = ws /\ n.panes = ps
    BY <2>1
  <2>4. \A x \in DOMAIN ps : /\ ps[x].window \in DOMAIN ws
                             /\ ps[x] = [window |-> ps[x].window, label |-> ps[x].label]
    BY <2>2 DEF TmuxInv, IsTmux, PanesIn
  <2> QED BY <2>2, <2>3, <2>4 DEF TmuxInv, IsTmux, n
<1>6. CASE slot.op = "kill-session"
  <2>1. n = [windows |-> None, panes |-> None] BY <1>6 DEF Executed
  <2>2. DOMAIN None = {} BY DEF None
  <2> HIDE DEF n
  <2>3. /\ n = [windows |-> n.windows, panes |-> n.panes]
        /\ DOMAIN n.windows = {} /\ DOMAIN n.panes = {}
    BY <2>1, <2>2
  <2> QED BY <2>3, FS_EmptySet DEF IsTmux, n
<1>7. CASE slot.op \in {"set-synchronize-panes", "size"}
  <2>1. PICK new : n = [tmux EXCEPT !.windows = [tmux.windows EXCEPT ![slot.window] = new]]
    BY <1>7 DEF Executed
  <2> HIDE DEF n
  <2>2. /\ n = [windows |-> n.windows, panes |-> n.panes] /\ n.panes = tmux.panes
        /\ DOMAIN n.windows = DOMAIN tmux.windows
    BY <2>1 DEF TmuxInv, IsTmux
  <2> QED BY <2>2 DEF TmuxInv, IsTmux, n
<1>8. CASE slot.op = "rename-pane"
  <2> DEFINE p == slot.pane
             new == [tmux.panes[p] EXCEPT !.label = slot.value]
             ps == [tmux.panes EXCEPT ![p] = new]
  <2>1. n = [tmux EXCEPT !.panes = ps] BY <1>8 DEF Executed
  <2>2. p \in DOMAIN tmux.panes => new = [window |-> tmux.panes[p].window, label |-> slot.value]
    BY DEF TmuxInv, IsTmux
  <2> HIDE DEF n, new
  <2>3. /\ DOMAIN ps = DOMAIN tmux.panes
        /\ \A x \in DOMAIN ps : ps[x] = IF x = p THEN new ELSE tmux.panes[x]
    OBVIOUS
  <2> HIDE DEF ps, p
  <2>4. /\ n = [windows |-> n.windows, panes |-> n.panes] /\ n.windows = tmux.windows
        /\ n.panes = ps
    BY <2>1 DEF TmuxInv, IsTmux
  <2>5. \A x \in DOMAIN ps : /\ ps[x].window \in DOMAIN tmux.windows
                             /\ ps[x] = [window |-> ps[x].window, label |-> ps[x].label]
    BY <2>2, <2>3 DEF TmuxInv, IsTmux
  <2> QED BY <2>3, <2>4, <2>5 DEF TmuxInv, IsTmux, n
<1>9. CASE /\ slot.op \notin {"open-window", "split-pane", "close-pane", "kill-window",
                              "kill-session", "set-synchronize-panes", "rename-pane", "size"}
           /\ ~(slot.op = "break-pane" /\ ~Sole(slot.pane))
  <2>1. n = tmux BY <1>9 DEF Executed
  <2> QED BY <2>1 DEF TmuxInv
<1> QED BY <1>1, <1>2, <1>3, <1>4, <1>5, <1>6, <1>7, <1>8, <1>9

\* A command leaves the pipe.
LEMMA CommandTaken ==
    ASSUME PipeInv, pipe # <<>>, pipe' = Tail(pipe)
    PROVE  LET slot == Head(pipe)
           IN  /\ PipeInv' /\ InPipe' \subseteq InPipe /\ IsSlot(slot)
               /\ Answering(slot) => slot.id \in InPipe /\ slot.id \notin InPipe'
<1>1. /\ DOMAIN pipe = 1..Len(pipe) /\ Len(pipe) \in Nat
      /\ IsSeq(pipe') /\ DOMAIN pipe' = 1..Len(pipe) - 1
      /\ \A i \in DOMAIN pipe' : pipe'[i] = pipe[i + 1]
      /\ 1 \in DOMAIN pipe /\ Head(pipe) = pipe[1]
  BY SeqIs, TailIsSeq DEF PipeInv
<1>2. \A i \in DOMAIN pipe' : /\ i + 1 \in DOMAIN pipe /\ pipe'[i] = pipe[i + 1]
                              /\ i \in Nat /\ i >= 1
  BY <1>1
<1>3. PipeInv'
  <2>1. \A i \in DOMAIN pipe' : IsSlot(pipe'[i]) BY <1>2 DEF PipeInv
  <2>2. ASSUME NEW i \in DOMAIN pipe', NEW j \in DOMAIN pipe', i # j,
               Answering(pipe'[i]), Answering(pipe'[j])
        PROVE  pipe'[i].id # pipe'[j].id
    <3>1. i + 1 # j + 1 BY <1>2, <2>2
    <3> QED BY <1>2, <2>2, <3>1 DEF PipeInv
  <2>3. /\ IsSeq(pipe)'
        /\ (\A i \in DOMAIN pipe : IsSlot(pipe[i]))'
        /\ (\A i, j \in DOMAIN pipe :
              i # j /\ Answering(pipe[i]) /\ Answering(pipe[j]) => pipe[i].id # pipe[j].id)'
    BY <1>1, <2>1, <2>2
  <2> QED BY <2>3 DEF PipeInv
<1>4. ASSUME NEW x \in InPipe'
      PROVE  x \in InPipe /\ (Answering(pipe[1]) => x # pipe[1].id)
  <2>1. PICK i \in DOMAIN pipe' : Answering(pipe'[i]) /\ x = pipe'[i].id
    BY DEF InPipe, Answering
  <2>2. /\ i + 1 \in DOMAIN pipe /\ i + 1 # 1
        /\ Answering(pipe[i + 1]) /\ x = pipe[i + 1].id
    BY <1>2, <2>1
  <2>3. x \in InPipe BY <2>2 DEF InPipe
  <2>4. Answering(pipe[1]) => x # pipe[1].id BY <1>1, <2>2 DEF PipeInv
  <2> QED BY <2>3, <2>4
<1>5. Answering(pipe[1]) => pipe[1].id \in InPipe BY <1>1 DEF InPipe
<1>6. IsSlot(pipe[1]) BY <1>1 DEF PipeInv
<1> QED BY <1>1, <1>3, <1>4, <1>5, <1>6

\* The deed of a slot: one for a call, and none for anything else.
LEMMA DeedIs ==
    ASSUME NEW slot, IsSlot(slot), NEW ok
    PROVE  Deed(slot, ok) =
             IF Answering(slot)
             THEN {[id |-> slot.id, ok |-> ok,
                    ids |-> IF ok /\ slot.cont = "creating" THEN Body(slot) ELSE Null]}
             ELSE {}
<1>1. Answering(slot) => slot.id # Null /\ slot.cont \notin {"none", "chunk"}
  BY Start DEF IsSlot, Answering
<1>2. ~Answering(slot) => slot.cont \in {"none", "chunk"} \/ slot.id = Null
  BY DEF IsSlot, Answering
<1> QED BY <1>1, <1>2 DEF Deed

\* The reply of a command, once its deed is done.
LEMMA ReplyIs ==
    ASSUME TmuxInv, NEW slot, IsSlot(slot), NEW ok, ok = Possible(slot),
           NEW D, Deed(slot, ok) \subseteq D
    PROVE  IsReply(Reply(slot, ok), D) /\ Reply(slot, ok).slot = slot
<1> DEFINE r == Reply(slot, ok)
<1>1. r.slot = slot /\ r.ok = ok /\ r.body = IF ok THEN Body(slot) ELSE Null
  BY DEF Reply
<1> HIDE DEF r
<1>2. Answering(slot) =>
        \E d \in D : /\ d.id = slot.id /\ d.ok = ok
                     /\ d.ids = IF slot.cont = "creating" THEN r.body ELSE Null
  <2> SUFFICES ASSUME Answering(slot)
               PROVE  \E d \in D : /\ d.id = slot.id /\ d.ok = ok
                                   /\ d.ids = IF slot.cont = "creating" THEN r.body ELSE Null
    OBVIOUS
  <2> DEFINE d == [id |-> slot.id, ok |-> ok,
                   ids |-> IF ok /\ slot.cont = "creating" THEN Body(slot) ELSE Null]
  <2>1. d \in D BY DeedIs
  <2>2. d.id = slot.id /\ d.ok = ok
        /\ d.ids = IF slot.cont = "creating" THEN r.body ELSE Null
    BY <1>1
  <2> HIDE DEF d
  <2> QED BY <2>1, <2>2
<1>3. ASSUME slot.cont = "creating", slot.op # "break-pane", ok PROVE Body(slot) # Null
  <2>1. slot.op \in {"open-window", "split-pane"} BY <1>3 DEF IsSlot, Creating
  <2>2. FreshPane \in PaneIds BY <1>3, <2>1, FreshIsNew DEF Possible
  <2>3. CASE slot.op = "open-window"
    <3>1. FreshWindow \in WindowIds BY <1>3, <2>3, FreshIsNew DEF Possible
    <3>2. Body(slot) = <<FreshPane, FreshWindow>> BY <2>3 DEF Body
    <3>3. Body(slot) \in PaneIds \X WindowIds BY <2>2, <3>1, <3>2
    <3> QED BY <3>3, Start
  <2>4. CASE slot.op = "split-pane"
    <3>1. slot.pane \in DOMAIN tmux.panes BY <1>3, <2>4 DEF IsSlot, Possible, Here, Panes
    <3>2. tmux.panes[slot.pane].window \in WindowIds BY <3>1 DEF TmuxInv, IsTmux
    <3>3. Body(slot) = <<FreshPane, tmux.panes[slot.pane].window>> BY <2>4 DEF Body
    <3>4. Body(slot) \in PaneIds \X WindowIds BY <2>2, <3>2, <3>3
    <3> QED BY <3>4, Start
  <2> QED BY <2>1, <2>3, <2>4
<1>4. ASSUME slot.cont = "requery"
      PROVE  IsFiniteSet(DOMAIN r.body.windows) /\ IsFiniteSet(DOMAIN r.body.panes)
  <2>1. slot.op = "list" /\ slot.pane = Null /\ slot.window = Null BY <1>4 DEF IsSlot
  <2>2. ok BY <2>1 DEF Possible, Here
  <2>3. Body(slot) = Listing BY <2>1 DEF Body
  <2>4. DOMAIN Listing.windows = Windows /\ DOMAIN Listing.panes = Panes BY DEF Listing
  <2> QED BY <1>1, <2>2, <2>3, <2>4 DEF Windows, Panes, TmuxInv, IsTmux
<1>5. IsReply(r, D) BY <1>1, <1>2, <1>3, <1>4 DEF IsReply
<1> QED BY <1>1, <1>5 DEF r

\* A notification is a reply for no call.
LEMMA NoticeIs == ASSUME NEW D PROVE IsReply(Notification, D) /\ ~Answering(Notification.slot)
BY DEF Notification, Reply, Slot, IsReply, IsSlot, Answering

\* The call of a command moves from the pipe to the replies and the deeds.
LEMMA ExecuteAnswers ==
    ASSUME AnswerInv, Execute
    PROVE  CallsInv' /\ TmuxInv'
<1> DEFINE slot == Head(pipe)
           ok == Possible(slot)
           t == IF ok THEN Executed(slot) ELSE tmux
           r == Reply(slot, ok)
           out == IF t # tmux THEN <<r, Notification>> ELSE <<r>>
           id == slot.id
<1>1. /\ WireInv /\ MailInv /\ PipeInv /\ RepliesInv /\ PlaceInv /\ ToldInv /\ TmuxInv
      /\ pipe # <<>> /\ pipe' = Tail(pipe) /\ UNCHANGED <<api, wire, mail, told>>
      /\ TmuxHas(t, out) /\ did' = did \cup Deed(slot, ok)
  BY DEF AnswerInv, Execute
<1>2. /\ PipeInv' /\ InPipe' \subseteq InPipe /\ IsSlot(slot)
      /\ Answering(slot) => id \in InPipe /\ id \notin InPipe'
  BY <1>1, CommandTaken
<1> HIDE DEF slot
<1>3. IsReply(r, did') /\ r.slot = slot BY <1>1, <1>2, ReplyIs
<1>4. Deed(slot, ok) = {} \/ (Answering(slot) /\ \A d \in Deed(slot, ok) : d.id = id)
  BY <1>2, DeedIs
<1> HIDE DEF ok
<1>5. Answering(slot) => id \notin InReplies \cup Told \cup InWire
  BY <1>1, <1>2 DEF PlaceInv
<1>6. /\ IsSeq(out)
      /\ \A i \in DOMAIN out :
            /\ IsReply(out[i], did')
            /\ Answering(out[i].slot) => i = 1 /\ out[i] = r
  <2>1. IsReply(Notification, did') /\ ~Answering(Notification.slot) BY NoticeIs
  <2> HIDE DEF r, t
  <2>2. CASE out = <<r>>
    <3>1. IsSeq(out) /\ DOMAIN out = {1} /\ out[1] = r BY <2>2, OneIsSeq
    <3> HIDE DEF out
    <3> QED BY <1>3, <3>1
  <2>3. CASE out = <<r, Notification>>
    <3>1. IsSeq(out) /\ DOMAIN out = {1, 2} /\ out[1] = r /\ out[2] = Notification
      BY <2>3, TwoIsSeq
    <3> HIDE DEF out
    <3> QED BY <1>3, <2>1, <3>1
  <2> QED BY <2>2, <2>3
<1> HIDE DEF out, r
<1>7. /\ RepliesInv' /\ tmux' = t
      /\ \A x \in InReplies' : x \in InReplies \/ (Answering(slot) /\ x = id)
  <2>1. \A i \in DOMAIN out :
            /\ IsReply(out[i], did')
            /\ Answering(out[i].slot) => i = 1 /\ out[i].slot.id \notin InReplies
    <3> SUFFICES ASSUME NEW i \in DOMAIN out, Answering(out[i].slot)
                 PROVE  i = 1 /\ out[i].slot.id \notin InReplies
      BY <1>6
    <3>1. i = 1 /\ out[i].slot = slot BY <1>3, <1>6
    <3> QED BY <1>5, <3>1
  <2>2. /\ RepliesInv' /\ tmux' = t
        /\ \A x \in InReplies' : \/ x \in InReplies
                                 \/ \E i \in DOMAIN out :
                                       Answering(out[i].slot) /\ x = out[i].slot.id
    <3> HIDE DEF t
    <3> QED BY <1>1, <1>6, <2>1, TmuxSays
  <2>3. ASSUME NEW i \in DOMAIN out, Answering(out[i].slot)
        PROVE  Answering(slot) /\ out[i].slot.id = id
    <3>1. out[i].slot = slot BY <1>3, <1>6, <2>3
    <3> QED BY <2>3, <3>1
  <2> QED BY <2>2, <2>3
<1>8. TmuxInv'
  <2>1. IsTmux(t) BY <1>1, <1>2, ExecutedKeeps DEF TmuxInv, ok
  <2> QED BY <1>7, <2>1 DEF TmuxInv
<1>9. ToldInv' /\ Told' = Told
  <2>1. ASSUME NEW x \in told PROVE IsTrue(x)'
    <3>1. x.id \in Told BY DEF Told
    <3>2. \A d \in Deed(slot, ok) : d.id # x.id BY <1>4, <1>5, <3>1
    <3>3. IsTrue(x) BY <1>1 DEF ToldInv
    <3> QED BY <1>1, <3>2, <3>3, TrueStays
  <2> QED BY <1>1, <2>1 DEF ToldInv, Told
<1>10. \A x \in Done' : x \in Done \/ (Answering(slot) /\ x = id)
  BY <1>1, <1>4 DEF Done
<1>11. MailInv' /\ WireInv' /\ InWire' = InWire BY <1>1 DEF MailInv, WireInv, InWire
<1> HIDE DEF id
<1>12. PlaceInv'
  BY <1>1, <1>2, <1>5, <1>7, <1>9, <1>10, <1>11 DEF PlaceInv
<1> QED BY <1>2, <1>7, <1>8, <1>9, <1>11, <1>12 DEF CallsInv

\* A pane that exits by itself is no call.
LEMMA PaneExitsAnswers ==
    ASSUME AnswerInv, PaneExits
    PROVE  CallsInv' /\ TmuxInv'
<1>1. PICK p \in Panes : TmuxHas(WithoutPane(tmux, p), <<Notification>>) BY DEF PaneExits
<1>2. /\ WireInv /\ MailInv /\ PipeInv /\ RepliesInv /\ PlaceInv /\ ToldInv /\ TmuxInv
      /\ UNCHANGED <<pipe, api, wire, mail, did, told>>
  BY DEF AnswerInv, PaneExits, history
<1> DEFINE out == <<Notification>>
<1>3. /\ IsSeq(out)
      /\ \A i \in DOMAIN out : IsReply(out[i], did') /\ ~Answering(out[i].slot)
  <2>1. IsSeq(out) /\ DOMAIN out = {1} /\ out[1] = Notification BY OneIsSeq
  <2> HIDE DEF out
  <2> QED BY <2>1, NoticeIs
<1>4. TmuxHas(WithoutPane(tmux, p), out) /\ did \subseteq did' BY <1>1, <1>2
<1> HIDE DEF out
<1>5. RepliesInv' /\ tmux' = WithoutPane(tmux, p) /\ InReplies' \subseteq InReplies
  BY <1>2, <1>3, <1>4, TmuxSays
<1>6. TmuxInv' BY <1>2, <1>5, WithoutPaneKeeps DEF TmuxInv, Panes
<1>7. /\ WireInv' /\ MailInv' /\ PipeInv' /\ ToldInv'
      /\ InWire' = InWire /\ InPipe' = InPipe /\ Done' = Done /\ Told' = Told
  BY <1>2 DEF WireInv, MailInv, PipeInv, ToldInv, InWire, InPipe, Done, Told, IsTrue
<1>8. PlaceInv' BY <1>2, <1>5, <1>7 DEF PlaceInv
<1> QED BY <1>5, <1>6, <1>7, <1>8 DEF CallsInv

\* A client writes; at most the last of its messages asks, and has a new number.
LEMMA ClientWrites ==
    ASSUME AnswerInv, NEW c \in ClientIds, NEW a, NEW messages, ClientDoes(c, a, messages),
           IsApi(a), a.calls >= api[c].calls, IsSeq(messages),
           \A i \in DOMAIN messages : IsRequest(messages[i]) =>
                /\ i = Len(messages) /\ messages[i].command \in WireCommand
                /\ messages[i].n = Number(c) /\ a.calls = Number(c)
    PROVE  CallsInv'
<1>1. /\ WireInv /\ MailInv /\ PipeInv /\ RepliesInv /\ PlaceInv /\ ToldInv
      /\ UNCHANGED <<pipe, replies, mail, did, told>>
      /\ api' = [api EXCEPT ![c] = a] /\ wire' = [wire EXCEPT ![c] = @ \o messages]
  BY DEF AnswerInv, ClientDoes, history
<1> DEFINE w == wire[c]
           k == api[c].calls
           u == w \o messages
<1>2. /\ api' = [x \in ClientIds |-> api'[x]] /\ wire' = [x \in ClientIds |-> wire'[x]]
      /\ api'[c] = a /\ wire'[c] = u
      /\ \A x \in ClientIds : x # c => api'[x] = api[x] /\ wire'[x] = wire[x]
  <2>1. DOMAIN wire = ClientIds /\ DOMAIN api = ClientIds BY <1>1 DEF WireInv
  <2> HIDE DEF u
  <2>2. wire' = [wire EXCEPT ![c] = u] BY <1>1 DEF u
  <2> QED BY <1>1, <2>1, <2>2
<1>3. /\ k \in Nat /\ a.calls \in Nat /\ a.calls >= k /\ Number(c) = k + 1
      /\ IsSeq(w) /\ DOMAIN w = 1..Len(w) /\ Len(w) \in Nat
      /\ DOMAIN messages = 1..Len(messages) /\ Len(messages) \in Nat
  BY <1>1, SeqIs DEF WireInv, IsApi, Number
<1>4. \A i \in DOMAIN w : IsRequest(w[i]) => w[i].n \in 1..k /\ w[i].command \in WireCommand
  BY <1>1 DEF WireInv
<1>5. \A i, j \in DOMAIN w : i # j /\ IsRequest(w[i]) /\ IsRequest(w[j]) => w[i].n # w[j].n
  BY <1>1 DEF WireInv
<1> HIDE DEF w, k
<1>6. /\ IsSeq(u) /\ DOMAIN u = 1..Len(w) + Len(messages)
      /\ \A i \in DOMAIN w : u[i] = w[i]
      /\ \A i \in DOMAIN u : i > Len(w) => u[i] = messages[i - Len(w)]
  BY <1>3, CatIsSeq
<1> HIDE DEF u
<1> DEFINE end == Len(w) + Len(messages)
<1>7. \A i \in DOMAIN u : IsRequest(u[i]) =>
        \/ i \in DOMAIN w /\ u[i] = w[i]
        \/ /\ i \notin DOMAIN w /\ i = end /\ u[i].n = k + 1 /\ a.calls = k + 1
           /\ u[i].command \in WireCommand
  <2> SUFFICES ASSUME NEW i \in DOMAIN u, IsRequest(u[i]), i \notin DOMAIN w
               PROVE  /\ i = end /\ u[i].n = k + 1 /\ a.calls = k + 1
                      /\ u[i].command \in WireCommand
    BY <1>6
  <2> DEFINE j == i - Len(w)
  <2>1. i \in Nat /\ i > Len(w) /\ j \in DOMAIN messages BY <1>3, <1>6
  <2>2. u[i] = messages[j] BY <1>6, <2>1
  <2>3. IsRequest(messages[j]) BY <2>2
  <2>4. j = Len(messages) BY <2>1, <2>3
  <2>5. messages[j].n = k + 1 /\ a.calls = k + 1 /\ messages[j].command \in WireCommand
    BY <1>3, <2>1, <2>3
  <2>6. i = end BY <1>3, <2>1, <2>4
  <2> QED BY <2>2, <2>5, <2>6
<1> HIDE DEF end
<1>8. WireInv'
  <2>1. ASSUME NEW i \in DOMAIN u, IsRequest(u[i])
        PROVE  u[i].n \in 1..a.calls /\ u[i].command \in WireCommand
    <3>1. CASE i \in DOMAIN w /\ u[i] = w[i] BY <1>3, <1>4, <2>1, <3>1
    <3>2. CASE u[i].n = k + 1 /\ a.calls = k + 1 /\ u[i].command \in WireCommand
      BY <1>3, <3>2
    <3> QED BY <1>7, <2>1, <3>1, <3>2
  <2>2. ASSUME NEW i \in DOMAIN u, NEW j \in DOMAIN u, i # j, IsRequest(u[i]), IsRequest(u[j])
        PROVE  u[i].n # u[j].n
    <3>1. \A x \in DOMAIN w : IsRequest(w[x]) => w[x].n # k + 1 BY <1>3, <1>4
    <3> QED BY <1>5, <1>7, <2>2, <3>1
  <2>3. ASSUME NEW x \in ClientIds
        PROVE  /\ IsApi(api'[x]) /\ IsSeq(wire'[x])
               /\ \A i \in DOMAIN wire'[x] : IsRequest(wire'[x][i]) =>
                    /\ wire'[x][i].n \in 1..api'[x].calls
                    /\ wire'[x][i].command \in WireCommand
               /\ \A i, j \in DOMAIN wire'[x] :
                    i # j /\ IsRequest(wire'[x][i]) /\ IsRequest(wire'[x][j])
                        => wire'[x][i].n # wire'[x][j].n
    <3>1. CASE x = c
      <4> DEFINE z == wire'[x]
      <4>1. z = u /\ api'[x] = a BY <1>2, <3>1
      <4> HIDE DEF z
      <4>2. /\ IsSeq(z)
            /\ \A i \in DOMAIN z : IsRequest(z[i]) =>
                    z[i].n \in 1..api'[x].calls /\ z[i].command \in WireCommand
            /\ \A i, j \in DOMAIN z :
                    i # j /\ IsRequest(z[i]) /\ IsRequest(z[j]) => z[i].n # z[j].n
        BY <1>6, <2>1, <2>2, <4>1
      <4> QED BY <4>1, <4>2 DEF z
    <3>2. CASE x # c
      <4> DEFINE z == wire'[x]
      <4>1. z = wire[x] /\ api'[x] = api[x] BY <1>2, <3>2
      <4> HIDE DEF z
      <4>2. /\ IsApi(api'[x]) /\ IsSeq(z)
            /\ \A i \in DOMAIN z : IsRequest(z[i]) =>
                    z[i].n \in 1..api'[x].calls /\ z[i].command \in WireCommand
            /\ \A i, j \in DOMAIN z :
                    i # j /\ IsRequest(z[i]) /\ IsRequest(z[j]) => z[i].n # z[j].n
        BY <1>1, <4>1 DEF WireInv
      <4> QED BY <4>2 DEF z
    <3> QED BY <3>1, <3>2
  <2> QED BY <1>2, <2>3 DEF WireInv
<1>9. \A y \in InWire' : y \in InWire \/ y = <<c, k + 1>>
  <2> TAKE y \in InWire'
  <2>1. PICK x \in ClientIds : \E i \in DOMAIN wire'[x] :
            IsRequest(wire'[x][i]) /\ y = <<x, wire'[x][i].n>>
    BY DEF InWire, IsRequest
  <2> PICK i \in DOMAIN wire'[x] : IsRequest(wire'[x][i]) /\ y = <<x, wire'[x][i].n>>
    BY <2>1
  <2>2. CASE x = c
    <3>1. wire'[x] = u BY <1>2, <2>2
    <3>2. CASE i \in DOMAIN w /\ u[i] = w[i]
      BY <2>2, <3>1, <3>2 DEF InWire, w
    <3>3. CASE u[i].n = k + 1 BY <2>2, <3>1, <3>3
    <3> QED BY <1>7, <3>1, <3>2, <3>3
  <2>3. CASE x # c
    <3>1. wire'[x] = wire[x] BY <1>2, <2>3
    <3> QED BY <2>3, <3>1 DEF InWire
  <2> QED BY <2>2, <2>3
<1>10. /\ MailInv' /\ PipeInv' /\ ToldInv' /\ RepliesInv'
       /\ InPipe' = InPipe /\ InReplies' = InReplies /\ Done' = Done /\ Told' = Told
  BY <1>1, SameReplies DEF MailInv, PipeInv, ToldInv, InPipe, Told, IsTrue
<1>11. PlaceInv'
  <2>1. <<c, k + 1>> \notin InPipe \cup InReplies \cup Done \cup Told
    BY <1>1, <1>3 DEF PlaceInv, k
  <2>2. ASSUME NEW x \in ClientIds, NEW n \in Nat,
               <<x, n>> \in InPipe' \cup InReplies' \cup Done' \cup Told'
        PROVE  n \in 1..api'[x].calls
    <3>1. n \in 1..api[x].calls BY <1>1, <1>10, <2>2 DEF PlaceInv
    <3>2. CASE x = c BY <1>2, <1>3, <3>1, <3>2 DEF k
    <3>3. CASE x # c BY <1>2, <3>1, <3>3
    <3> QED BY <3>2, <3>3
  <2> QED BY <1>1, <1>9, <1>10, <2>1, <2>2 DEF PlaceInv
<1> QED BY <1>8, <1>10, <1>11 DEF CallsInv

\* The fields of an InputApi that a step leaves alone.
ApiBecomes(b, a, n, R) == DOMAIN b = DOMAIN a /\ b.calls = n /\ b.resizes = R

\* An InputApi stays one if its number and its resizes are replaced.
LEMMA ApiChanges ==
    ASSUME NEW a, IsApi(a), NEW n \in Nat, NEW R, NEW b, ApiBecomes(b, a, n, R), IsSeq(R),
           \A i \in DOMAIN R : R[i].type = "resize.request"
    PROVE  IsApi(b) /\ b.calls = n
BY DEF IsApi, ApiBecomes

\* What each step of the client library replaces.
LEMMA ApiExcept ==
    ASSUME NEW a, IsApi(a), NEW n, NEW W, NEW R, NEW x
    PROVE  /\ ApiBecomes([a EXCEPT !.calls = n], a, n, a.resizes)
           /\ ApiBecomes([a EXCEPT !.calls = n, !.waiting = W], a, n, a.resizes)
           /\ ApiBecomes([a EXCEPT !.calls = n, !.resizes = R], a, n, R)
           /\ ApiBecomes([a EXCEPT !.resizes = R], a, a.calls, R)
           /\ ApiBecomes([a EXCEPT !.waiting = W], a, a.calls, a.resizes)
           /\ ApiBecomes([a EXCEPT !.connected = x, !.waiting = W, !.resizes = R],
                         a, a.calls, R)
<1>0. DOMAIN a = {"calls", "waiting", "resizes", "connected"} BY DEF IsApi
<1>1. ApiBecomes([a EXCEPT !.calls = n], a, n, a.resizes) BY <1>0 DEF ApiBecomes
<1>2. ApiBecomes([a EXCEPT !.calls = n, !.waiting = W], a, n, a.resizes)
  BY <1>0 DEF ApiBecomes
<1>3. ApiBecomes([a EXCEPT !.calls = n, !.resizes = R], a, n, R) BY <1>0 DEF ApiBecomes
<1>4. ApiBecomes([a EXCEPT !.resizes = R], a, a.calls, R) BY <1>0 DEF ApiBecomes
<1>5. ApiBecomes([a EXCEPT !.waiting = W], a, a.calls, a.resizes) BY <1>0 DEF ApiBecomes
<1>6. ApiBecomes([a EXCEPT !.connected = x, !.waiting = W, !.resizes = R], a, a.calls, R)
  BY <1>0 DEF ApiBecomes
<1> QED BY <1>1, <1>2, <1>3, <1>4, <1>5, <1>6

\* What is pending for a flush asks nothing.
LEMMA ResizesAreNoRequests ==
    ASSUME NEW a, IsApi(a)
    PROVE  IsSeq(a.resizes) /\ \A i \in DOMAIN a.resizes : ~IsRequest(a.resizes[i])
BY DEF IsApi, IsRequest

\* Every step of a client: a new number for what it asks.
LEMMA ClientAnswers ==
    ASSUME AnswerInv, NEW c \in ClientIds, Client(c) \/ FlushResizes(c)
    PROVE  CallsInv'
<1> DEFINE a == api[c]
           n == a.calls + 1
<1>1. /\ IsApi(a) /\ n = Number(c) /\ a.calls \in Nat /\ n \in Nat /\ n >= a.calls
      /\ IsSeq(a.resizes) /\ \A i \in DOMAIN a.resizes : a.resizes[i].type = "resize.request"
  BY DEF AnswerInv, WireInv, IsApi, Number
<1>2. ASSUME NEW cmd \in Wanted[c], SendVerb(c, cmd)
      PROVE  CallsInv'
  <2> DEFINE more == a.waiting \cup {[n |-> Number(c), cmd |-> cmd]}
             b == [a EXCEPT !.calls = n, !.waiting = more]
             ms == <<Request(c, cmd)>>
  <2>1. ClientDoes(c, b, ms) BY <1>2 DEF SendVerb, ClientCalls
  <2>2. ApiBecomes(b, a, n, a.resizes)
    <3> HIDE DEF a, more
    <3> QED BY <1>1, ApiExcept DEF more
  <2> HIDE DEF b
  <2>3. IsApi(b) /\ b.calls = n BY <1>1, <2>2, ApiChanges
  <2>4. /\ IsSeq(ms) /\ Len(ms) = 1 /\ DOMAIN ms = {1} /\ ms[1] = Request(c, cmd)
    BY OneIsSeq
  <2> HIDE DEF ms
  <2>5. cmd \in WireCommand BY Commands
  <2>6. Request(c, cmd).n = n /\ Request(c, cmd).command = cmd BY <1>1 DEF Request
  <2> QED BY <1>1, <2>1, <2>3, <2>4, <2>5, <2>6, ClientWrites
<1>3. ASSUME NEW cmd \in Wanted[c], SendCommand(c, cmd)
      PROVE  CallsInv'
  <2> DEFINE b == [a EXCEPT !.calls = n, !.resizes = <<>>]
             ms == Append(a.resizes, Request(c, cmd))
  <2>1. ClientDoes(c, b, ms) BY <1>3 DEF SendCommand, ClientCalls
  <2>2. ApiBecomes(b, a, n, <<>>)
    <3> HIDE DEF a
    <3> QED BY <1>1, ApiExcept
  <2> HIDE DEF b
  <2>3. IsApi(b) /\ b.calls = n BY <1>1, <2>2, EmptyIsSeq, ApiChanges
  <2>4. /\ IsSeq(ms) /\ Len(ms) = Len(a.resizes) + 1
        /\ Len(a.resizes) \in Nat /\ DOMAIN ms = 1..Len(a.resizes) + 1
        /\ DOMAIN a.resizes = 1..Len(a.resizes)
        /\ \A i \in DOMAIN a.resizes : ms[i] = a.resizes[i]
        /\ ms[Len(a.resizes) + 1] = Request(c, cmd)
    BY <1>1, AppendIsSeq, SeqIs
  <2> HIDE DEF ms
  <2>5. cmd \in WireCommand BY Commands
  <2>6. Request(c, cmd).n = n /\ Request(c, cmd).command = cmd BY <1>1 DEF Request
  <2>7. ASSUME NEW i \in DOMAIN ms, IsRequest(ms[i])
        PROVE  i = Len(ms) /\ ms[i] = Request(c, cmd)
    <3>1. i \notin DOMAIN a.resizes BY <1>1, <2>4, <2>7 DEF IsRequest
    <3> QED BY <2>4, <3>1
  <2> QED BY <1>1, <2>1, <2>3, <2>4, <2>5, <2>6, <2>7, ClientWrites
<1>4. ASSUME NEW p, NEW len, SendInput(c, p, len)
      PROVE  CallsInv'
  <2> DEFINE b == [a EXCEPT !.calls = n]
             m == [type |-> "input", n |-> Number(c), pane |-> p, len |-> len]
             ms == <<m>>
  <2>1. ClientDoes(c, b, ms) BY <1>4 DEF SendInput, ClientCalls
  <2>2. ApiBecomes(b, a, n, a.resizes)
    <3> HIDE DEF a
    <3> QED BY <1>1, ApiExcept
  <2> HIDE DEF b
  <2>3. IsApi(b) /\ b.calls = n BY <1>1, <2>2, ApiChanges
  <2>4. ~IsRequest(m) BY DEF IsRequest
  <2> HIDE DEF m
  <2>5. IsSeq(ms) /\ DOMAIN ms = {1} /\ ms[1] = m BY OneIsSeq
  <2> HIDE DEF ms
  <2> QED BY <1>1, <2>1, <2>3, <2>4, <2>5, ClientWrites
<1>5. ASSUME NEW p, NEW size, ResizePane(c, p, size)
      PROVE  CallsInv'
  <2> DEFINE pending == a.resizes
             msg == [type |-> "resize.request", n |-> Number(c), pane |-> p, size |-> size]
             known == \E i \in DOMAIN pending : pending[i].pane = p
             placed == [i \in DOMAIN pending |-> IF pending[i].pane = p THEN msg ELSE pending[i]]
             new == IF known THEN placed ELSE Append(pending, msg)
             b == [a EXCEPT !.calls = n, !.resizes = new]
  <2>1. ClientDoes(c, b, <<>>) BY <1>5 DEF ResizePane, ClientCalls
  <2>2. ApiBecomes(b, a, n, new)
    <3> HIDE DEF a, new
    <3> QED BY <1>1, ApiExcept
  <2>3. msg.type = "resize.request" OBVIOUS
  <2> HIDE DEF b, msg
  <2>4. IsSeq(new) /\ \A i \in DOMAIN new : new[i].type = "resize.request"
    <3>1. DOMAIN pending = 1..Len(pending) /\ Len(pending) \in Nat BY <1>1, SeqIs
    <3>2. CASE known
      <4>1. placed = [i \in 1..Len(pending) |-> placed[i]] BY <3>1
      <4>2. \A i \in DOMAIN placed : placed[i].type = "resize.request" BY <1>1, <2>3
      <4> HIDE DEF placed
      <4>3. IsSeq(placed) BY <3>1, <4>1, FunctionIsSeq
      <4> QED BY <3>2, <4>2, <4>3
    <3>3. CASE ~known
      <4> DEFINE longer == Append(pending, msg)
      <4>1. /\ IsSeq(longer) /\ DOMAIN longer = 1..Len(pending) + 1
            /\ \A i \in DOMAIN pending : longer[i] = pending[i]
            /\ longer[Len(pending) + 1] = msg
        <5>1. IsSeq(pending) BY <1>1
        <5> HIDE DEF pending
        <5> QED BY <5>1, AppendIsSeq
      <4> HIDE DEF longer
      <4>2. \A i \in DOMAIN longer : longer[i].type = "resize.request"
        BY <1>1, <2>3, <3>1, <4>1
      <4>3. new = longer BY <3>3 DEF longer
      <4> QED BY <4>1, <4>2, <4>3
    <3> QED BY <3>2, <3>3
  <2> HIDE DEF new
  <2>5. IsApi(b) /\ b.calls = n BY <1>1, <2>2, <2>4, ApiChanges
  <2> QED BY <1>1, <2>1, <2>5, EmptyIsSeq, ClientWrites
<1>6. CASE Disconnect(c)
  <2> DEFINE b == [a EXCEPT !.connected = FALSE, !.waiting = {}, !.resizes = <<>>]
  <2>1. ClientDoes(c, b, <<>>) BY <1>6 DEF Disconnect
  <2>2. ApiBecomes(b, a, a.calls, <<>>)
    <3> HIDE DEF a
    <3> QED BY <1>1, ApiExcept
  <2> HIDE DEF b
  <2>3. IsApi(b) /\ b.calls = a.calls BY <1>1, <2>2, EmptyIsSeq, ApiChanges
  <2> QED BY <1>1, <2>1, <2>3, EmptyIsSeq, ClientWrites
<1>7. CASE FlushResizes(c)
  <2> DEFINE b == [a EXCEPT !.resizes = <<>>]
  <2>1. ClientDoes(c, b, a.resizes) BY <1>7 DEF FlushResizes, ClientCalls
  <2>2. ApiBecomes(b, a, a.calls, <<>>)
    <3> HIDE DEF a
    <3> QED BY <1>1, ApiExcept
  <2> HIDE DEF b
  <2>3. IsApi(b) /\ b.calls = a.calls BY <1>1, <2>2, EmptyIsSeq, ApiChanges
  <2> QED BY <1>1, <2>1, <2>3, ResizesAreNoRequests, ClientWrites
<1> QED BY <1>2, <1>3, <1>4, <1>5, <1>6, <1>7 DEF Client

\* The verb that waits for an answer is taken off the list of those that wait.
LEMMA ResponseAnswers ==
    ASSUME AnswerInv, NEW c \in ClientIds, HandleCommandResponse(c)
    PROVE  CallsInv'
<1>1. /\ WireInv /\ MailInv /\ PipeInv /\ RepliesInv /\ PlaceInv /\ ToldInv
      /\ mail[c] # <<>> /\ mail' = [mail EXCEPT ![c] = Tail(@)]
      /\ UNCHANGED <<pipe, replies, wire, did, told>>
  BY DEF AnswerInv, HandleCommandResponse, history
<1> DEFINE a == api[c]
           W == {v \in a.waiting : v.n # Head(mail[c]).id[2]}
           b == [a EXCEPT !.waiting = W]
<1>2. api' = [api EXCEPT ![c] = b] BY DEF HandleCommandResponse
<1>3. IsApi(a) /\ DOMAIN api = ClientIds BY <1>1 DEF WireInv
<1>4. ApiBecomes(b, a, a.calls, a.resizes)
  <2> HIDE DEF a, W
  <2> QED BY <1>3, ApiExcept
<1> HIDE DEF b
<1>5. IsApi(b) /\ b.calls = api[c].calls
  <2> HIDE DEF a
  <2>1. /\ a.calls \in Nat /\ IsSeq(a.resizes)
        /\ \A i \in DOMAIN a.resizes : a.resizes[i].type = "resize.request"
    BY <1>3 DEF IsApi
  <2>2. IsApi(b) /\ b.calls = a.calls BY <1>3, <1>4, <2>1, ApiChanges
  <2> QED BY <2>2 DEF a
<1> HIDE DEF a
<1>6. /\ api' = [x \in ClientIds |-> api'[x]]
      /\ \A x \in ClientIds : IsApi(api'[x]) /\ api'[x].calls = api[x].calls
  <2>1. api' = [x \in ClientIds |-> api'[x]] BY <1>2, <1>3
  <2>2. ASSUME NEW x \in ClientIds PROVE IsApi(api'[x]) /\ api'[x].calls = api[x].calls
    <3>1. CASE x = c
      <4>1. api'[x] = b BY <1>2, <1>3, <3>1
      <4> QED BY <1>5, <3>1, <4>1
    <3>2. CASE x # c
      <4>1. api'[x] = api[x] BY <1>2, <1>3, <3>2
      <4> QED BY <1>1, <4>1 DEF WireInv
    <3> QED BY <3>1, <3>2
  <2> QED BY <2>1, <2>2
<1>7. WireInv' /\ InWire' = InWire BY <1>1, <1>6 DEF WireInv, InWire
<1>8. MailInv'
  <2>1. DOMAIN mail = ClientIds BY <1>1 DEF MailInv
  <2>2. mail' = [x \in ClientIds |-> mail'[x]] BY <1>1, <2>1
  <2>3. ASSUME NEW x \in ClientIds
        PROVE  IsSeq(mail'[x]) /\ \A i \in DOMAIN mail'[x] : mail'[x][i].id[1] = x
    <3> DEFINE z == mail'[x]
               m == mail[c]
    <3>1. CASE x = c
      <4>1. z = Tail(m) BY <1>1, <2>1, <3>1
      <4>2. /\ IsSeq(m) /\ m # <<>> /\ \A i \in DOMAIN m : m[i].id[1] = c
            /\ DOMAIN m = 1..Len(m) /\ Len(m) \in Nat
        BY <1>1, SeqIs DEF MailInv
      <4> HIDE DEF z, m
      <4>3. /\ IsSeq(z) /\ DOMAIN z = 1..Len(m) - 1
            /\ \A i \in DOMAIN z : z[i] = m[i + 1]
        BY <4>1, <4>2, TailIsSeq
      <4>4. \A i \in DOMAIN z : z[i].id[1] = c
        <5> TAKE i \in DOMAIN z
        <5>1. i + 1 \in DOMAIN m BY <4>2, <4>3
        <5> QED BY <4>2, <4>3, <5>1
      <4> QED BY <3>1, <4>3, <4>4 DEF z
    <3>2. CASE x # c
      <4>1. z = mail[x] BY <1>1, <2>1, <3>2
      <4> HIDE DEF z
      <4>2. IsSeq(z) /\ \A i \in DOMAIN z : z[i].id[1] = x BY <1>1, <4>1 DEF MailInv
      <4> QED BY <4>2 DEF z
    <3> QED BY <3>1, <3>2
  <2> QED BY <2>2, <2>3 DEF MailInv
<1>9. /\ PipeInv' /\ ToldInv' /\ RepliesInv'
      /\ InPipe' = InPipe /\ InReplies' = InReplies /\ Done' = Done /\ Told' = Told
  BY <1>1, SameReplies DEF PipeInv, ToldInv, InPipe, Told, IsTrue
<1>10. PlaceInv' BY <1>1, <1>6, <1>7, <1>9 DEF PlaceInv
<1> QED BY <1>7, <1>8, <1>9, <1>10 DEF CallsInv

\* A step that leaves the calls alone, what it writes being for none of them.
LEMMA OthersAnswer ==
    ASSUME AnswerInv, PipeTakes({}), RepliesInv', InReplies' \subseteq InReplies,
           UNCHANGED <<api, wire, mail, did, told>>
    PROVE  CallsInv'
<1>1. WireInv /\ MailInv /\ PlaceInv /\ ToldInv BY DEF AnswerInv
<1>2. PipeInv' /\ InPipe' = InPipe BY DEF PipeTakes
<1>3. /\ WireInv' /\ MailInv' /\ ToldInv'
      /\ InWire' = InWire /\ Done' = Done /\ Told' = Told
  BY <1>1 DEF WireInv, MailInv, ToldInv, InWire, Done, Told, IsTrue
<1>4. PlaceInv' BY <1>1, <1>2, <1>3 DEF PlaceInv
<1> QED BY <1>2, <1>3, <1>4 DEF CallsInv

\* A requery is for no call.
LEMMA RequeryAnswers ==
    ASSUME AnswerInv, Requery PROVE CallsInv'
<1> DEFINE slot == Slot("list", Null, Null, Null, "requery", Null)
<1>1. PipeInv /\ ModelInv /\ RepliesInv BY DEF AnswerInv
<1>2. Writes(<<slot>>) /\ UNCHANGED <<replies, api, wire, mail, did, told>>
  BY DEF Requery, history
<1>3. IsSlot(slot) /\ ~Answering(slot) BY DEF Slot, IsSlot, Answering, Creating
<1> HIDE DEF slot
<1>4. PipeTakes({}) BY <1>1, <1>2, <1>3, WritesQuietOne
<1>5. RepliesInv' /\ InReplies' = InReplies BY <1>1, <1>2, SameReplies
<1> QED BY <1>2, <1>4, <1>5, OthersAnswer

\* At its exit the host takes what it has not done, and what it has said, along.
LEMMA SeeExitAnswers ==
    ASSUME AnswerInv, SeeExit PROVE CallsInv'
<1>1. /\ WireInv /\ MailInv /\ PlaceInv /\ ToldInv
      /\ pipe' = <<>> /\ replies' = <<>> /\ UNCHANGED <<api, wire, mail, did, told>>
  BY DEF AnswerInv, SeeExit, history
<1>2. IsSeq(<<>>) /\ DOMAIN <<>> = {} BY EmptyIsSeq
<1>3. PipeInv' /\ InPipe' = {} BY <1>1, <1>2 DEF PipeInv, InPipe
<1>4. RepliesInv' /\ InReplies' = {} BY <1>1, <1>2 DEF RepliesInv, InReplies
<1>5. /\ WireInv' /\ MailInv' /\ ToldInv'
      /\ InWire' = InWire /\ Done' = Done /\ Told' = Told
  BY <1>1 DEF WireInv, MailInv, ToldInv, InWire, Done, Told, IsTrue
<1>6. PlaceInv' BY <1>1, <1>3, <1>4, <1>5 DEF PlaceInv
<1> QED BY <1>3, <1>4, <1>5, <1>6 DEF CallsInv

\* A step that leaves the calls and all on the way alone.
LEMMA SameAnswers ==
    ASSUME AnswerInv, UNCHANGED <<pipe, replies, api, wire, mail, did, told>>
    PROVE  CallsInv'
<1>1. PipeInv /\ RepliesInv BY DEF AnswerInv
<1>2. PipeTakes({}) BY <1>1, SamePipe
<1>3. RepliesInv' /\ InReplies' = InReplies BY <1>1, SameReplies
<1> QED BY <1>2, <1>3, OthersAnswer

-----------------------------------------------------------------------------
(* The model's windows and panes stay finitely many.                        *)

FiniteModel(m) == IsFiniteSet(DOMAIN m.windows) /\ IsFiniteSet(DOMAIN m.panes)

\* An optimistic event or its reversal.
LEMMA PatchedIsFinite ==
    ASSUME ModelInv, NEW op, NEW p, NEW w, NEW v, NEW c
    PROVE  FiniteModel(Patched(model, op, p, w, v, c))
<1> DEFINE m == Patched(model, op, p, w, v, c)
<1>1. DOMAIN m.windows = DOMAIN model.windows /\ DOMAIN m.panes = DOMAIN model.panes
  BY PatchedDomains DEF ModelInv, Inv
<1> HIDE DEF m
<1>2. FiniteModel(m) BY <1>1 DEF ModelInv, FiniteModel
<1> QED BY <1>2 DEF m

\* A model built from finite listings.
LEMMA BuiltIsFinite ==
    ASSUME NEW wr, NEW pr, NEW layout, IsFiniteSet(DOMAIN wr), IsFiniteSet(DOMAIN pr)
    PROVE  FiniteModel(buildInitialModel(wr, pr, layout))
<1> DEFINE m == buildInitialModel(wr, pr, layout)
<1>1. /\ DOMAIN m.windows = DOMAIN wr
      /\ DOMAIN m.panes = {q \in DOMAIN pr : pr[q].window \in DOMAIN wr}
  BY DEF buildInitialModel
<1> HIDE DEF m
<1>2. DOMAIN m.panes \in SUBSET DOMAIN pr BY <1>1
<1>3. FiniteModel(m) BY <1>1, <1>2, FS_Subset DEF FiniteModel
<1> QED BY <1>3 DEF m

\* A model that overlays were carried to.
LEMMA CarriedIsFinite ==
    ASSUME NEW prev, NEW m, IsModel(m), FiniteModel(m)
    PROVE  FiniteModel(carryForwardOverlays(prev, m))
<1> DEFINE n == carryForwardOverlays(prev, m)
<1>1. DOMAIN n.windows = DOMAIN m.windows /\ DOMAIN n.panes = DOMAIN m.panes
  BY DEF carryForwardOverlays, IsModel
<1> HIDE DEF n
<1>2. FiniteModel(n) BY <1>1 DEF FiniteModel
<1> QED BY <1>2 DEF n

\* Every step of Verbs leaves the model finite.
LEMMA ModelStaysFinite ==
    ASSUME AnswerInv, [Next]_vars
    PROVE  FiniteModel(model)'
<1>0. ModelInv /\ RepliesInv /\ FiniteModel(model) BY DEF AnswerInv, ModelInv, FiniteModel
<1>1. ASSUME NEW m, FiniteModel(m), model' = m PROVE FiniteModel(model)'
  BY <1>1 DEF FiniteModel
<1>2. CASE UNCHANGED model BY <1>0, <1>2 DEF FiniteModel
<1>3. ASSUME NEW c \in ClientIds, HandleMessage(c) PROVE FiniteModel(model)'
  <2> DEFINE msg == Head(wire[c])
             id == <<c, msg.n>>
             cmd == msg.command
  <2>1. \/ HandleCommand(id, cmd) \/ HandleResize(id, msg) \/ HandleInput(id, msg)
    BY <1>3 DEF HandleMessage
  <2> HIDE DEF msg, id, cmd
  <2>2. CASE SendCommandWithReversal(id, cmd)
    <3> DEFINE m == Patched(model, cmd.kind, cmd.pane, cmd.window, cmd.value, id[1])
    <3>1. model' = m BY <2>2 DEF SendCommandWithReversal, ModelBecomes
    <3>2. FiniteModel(m) BY <1>0, PatchedIsFinite
    <3> HIDE DEF m
    <3> QED BY <1>1, <3>1, <3>2
  <2>3. CASE HandleResize(id, msg) \/ HandleInput(id, msg)
    <3>1. UNCHANGED model
      BY <2>3 DEF HandleResize, HandleInput, Writes, ModelBecomes, modelVars
    <3> QED BY <1>2, <3>1
  <2>4. CASE HandleCommand(id, cmd) /\ ~SendCommandWithReversal(id, cmd)
    <3>1. UNCHANGED model
      BY <2>4 DEF HandleCommand, Capture, Info, Refused, RunCreatingVerb, RunAckVerb,
                  SelectPane, EmptyName, Sashes, Writes, ModelBecomes
    <3> QED BY <1>2, <3>1
  <2> QED BY <2>1, <2>2, <2>3, <2>4
<1>4. CASE Receive
  <2> DEFINE r == Head(replies)
  <2>1. \/ OptionReply(r.slot, r.ok) \/ ListReply(r.slot, r.body)
        \/ CreatingReply(r.slot, r.ok, r.body) \/ AckReply(r.slot, r.ok) \/ NoReply(r.slot)
        \/ NextKeys(r.ok) \/ Notified
    BY <1>4 DEF Receive
  <2>2. IsReply(r, did)
    <3>1. replies # <<>> BY <1>4 DEF Receive
    <3>2. 1 \in DOMAIN replies /\ r = replies[1] BY <1>0, <3>1, TailIsSeq DEF RepliesInv
    <3> QED BY <1>0, <3>2 DEF RepliesInv
  <2> HIDE DEF r
  <2>3. CASE OptionReply(r.slot, r.ok)
    <3> DEFINE s == r.slot
               m == Patched(model, s.op, s.pane, s.window, s.was, s.id[1])
    <3>1. model' = m \/ UNCHANGED model BY <2>3 DEF OptionReply, Writes, ModelBecomes
    <3>2. FiniteModel(m) BY <1>0, PatchedIsFinite
    <3> HIDE DEF m
    <3> QED BY <1>1, <1>2, <3>1, <3>2
  <2>4. CASE ListReply(r.slot, r.body)
    <3> DEFINE built == buildInitialModel(r.body.windows, r.body.panes, r.body.layout)
               m == carryForwardOverlays(model, built)
    <3>1. model' = m \/ UNCHANGED model BY <2>4 DEF ListReply, Writes, ModelBecomes
    <3>2. r.slot.cont = "requery" BY <2>4 DEF ListReply
    <3>3. IsFiniteSet(DOMAIN r.body.windows) /\ IsFiniteSet(DOMAIN r.body.panes)
      BY <2>2, <3>2 DEF IsReply
    <3>4. FiniteModel(built) BY <3>3, BuiltIsFinite
    <3>5. IsModel(built) BY BuildIsModel
    <3> HIDE DEF built
    <3>6. FiniteModel(m) BY <3>4, <3>5, CarriedIsFinite
    <3> HIDE DEF m
    <3> QED BY <1>1, <1>2, <3>1, <3>6
  <2>5. CASE \/ CreatingReply(r.slot, r.ok, r.body) \/ AckReply(r.slot, r.ok)
             \/ NoReply(r.slot) \/ NextKeys(r.ok) \/ Notified
    <3>1. UNCHANGED model
      BY <2>5 DEF CreatingReply, AckReply, NoReply, NextKeys, Notified, Writes, ModelBecomes
    <3> QED BY <1>2, <3>1
  <2> QED BY <2>1, <2>3, <2>4, <2>5
<1>5. CASE Requery
  <2>1. UNCHANGED model BY <1>5 DEF Requery, Writes, ModelBecomes
  <2> QED BY <1>2, <2>1
<1>6. CASE \/ Execute \/ SeeExit \/ PaneExits \/ HostDies
           \/ \E c \in ClientIds : HandleCommandResponse(c) \/ SeeClose(c)
  <2>1. UNCHANGED model
    BY <1>6 DEF Execute, SeeExit, PaneExits, HostDies, HandleCommandResponse, SeeClose, modelVars
  <2> QED BY <1>2, <2>1
<1>7. ASSUME NEW c \in ClientIds, Client(c) \/ FlushResizes(c) PROVE FiniteModel(model)'
  <2>1. \E a, ms : ClientDoes(c, a, ms)
    BY <1>7, Zenon DEF Client, FlushResizes, SendVerb, SendCommand, SendInput, ResizePane,
                Disconnect, ClientCalls
  <2>2. UNCHANGED model BY <2>1 DEF ClientDoes, modelVars
  <2> QED BY <1>2, <2>2
<1>8. CASE UNCHANGED vars
  <2>1. UNCHANGED model BY <1>8 DEF vars, modelVars
  <2> QED BY <1>2, <2>1
<1> QED BY <1>3, <1>4, <1>5, <1>6, <1>7, <1>8 DEF Next, System, Others

-----------------------------------------------------------------------------
(* The invariant.                                                           *)

\* At first nothing was asked.
LEMMA AnswerInit == Init => AnswerInv
<1> SUFFICES ASSUME Init PROVE AnswerInv
  OBVIOUS
<1>0. IsSeq(<<>>) /\ DOMAIN <<>> = {} BY EmptyIsSeq
<1>1. PICK size : tmux = [windows |-> [w \in {FirstWindow} |-> NewWindow(size)],
                          panes |-> [p \in {FirstPane} |-> NewPaneOf(FirstWindow)]]
  BY DEF Init
<1>2. /\ DOMAIN tmux.windows = {FirstWindow} /\ DOMAIN tmux.panes = {FirstPane}
      /\ tmux.panes[FirstPane] = NewPaneOf(FirstWindow)
      /\ tmux = [windows |-> tmux.windows, panes |-> tmux.panes]
  BY <1>1
<1>3. IsFiniteSet(DOMAIN tmux.windows) /\ IsFiniteSet(DOMAIN tmux.panes)
  BY <1>2, FS_Singleton
<1>4. TmuxInv BY <1>2, <1>3, Start DEF TmuxInv, IsTmux, NewPaneOf
<1>5. ModelInv
  <2>1. Inv BY InitInv
  <2>2. DOMAIN Listing.windows = Windows /\ DOMAIN Listing.panes = Panes BY DEF Listing
  <2>3. IsFiniteSet(DOMAIN Listing.windows) /\ IsFiniteSet(DOMAIN Listing.panes)
    BY <1>3, <2>2 DEF Windows, Panes
  <2>4. FiniteModel(model) BY <2>3, BuiltIsFinite DEF Init
  <2> QED BY <2>1, <2>4 DEF ModelInv, FiniteModel
<1>6. WireInv /\ InWire = {}
  <2>1. \A c \in ClientIds : wire[c] = <<>> /\ IsApi(api[c]) BY <1>0 DEF Init, IsApi
  <2>2. /\ api = [c \in ClientIds |-> api[c]] /\ wire = [c \in ClientIds |-> wire[c]]
    BY DEF Init
  <2> QED BY <1>0, <2>1, <2>2 DEF WireInv, InWire
<1>7. MailInv
  <2>1. \A c \in ClientIds : mail[c] = <<>> BY DEF Init
  <2>2. mail = [c \in ClientIds |-> mail[c]] BY DEF Init
  <2> QED BY <1>0, <2>1, <2>2 DEF MailInv
<1>8. PipeInv /\ InPipe = {} /\ RepliesInv /\ InReplies = {}
  BY <1>0 DEF Init, PipeInv, InPipe, RepliesInv, InReplies
<1>9. ToldInv /\ Told = {} /\ Done = {} BY DEF Init, ToldInv, Told, Done
<1>10. PlaceInv BY <1>6, <1>8, <1>9 DEF PlaceInv
<1> QED BY <1>4, <1>5, <1>6, <1>7, <1>8, <1>9, <1>10 DEF AnswerInv

\* Every step of Verbs keeps the places of the calls apart and the answers true.
LEMMA AnswerStep == AnswerInv /\ [Next]_vars => AnswerInv'
<1> SUFFICES ASSUME AnswerInv, [Next]_vars PROVE AnswerInv'
  OBVIOUS
<1>1. ModelInv'
  <2>1. Inv' BY StepInv DEF AnswerInv, ModelInv
  <2>2. FiniteModel(model)' BY ModelStaysFinite
  <2> QED BY <2>1, <2>2 DEF ModelInv, FiniteModel
<1>2. CallsInv' /\ TmuxInv'
  <2>0. ASSUME UNCHANGED tmux PROVE TmuxInv'
    BY <2>0 DEF AnswerInv, TmuxInv, IsTmux
  <2>1. CASE Execute BY <2>1, ExecuteAnswers
  <2>2. CASE PaneExits BY <2>2, PaneExitsAnswers
  <2>3. CASE Receive BY <2>0, <2>3, ReceiveAnswers DEF Receive, tmuxVars
  <2>4. CASE Requery BY <2>0, <2>4, RequeryAnswers DEF Requery, tmuxVars
  <2>5. CASE SeeExit BY <2>0, <2>5, SeeExitAnswers DEF SeeExit
  <2>6. CASE HostDies BY <2>0, <2>6, SameAnswers DEF HostDies, history
  <2>7. ASSUME NEW c \in ClientIds, HandleMessage(c) PROVE CallsInv' /\ TmuxInv'
    BY <2>0, <2>7, HandleMessageAnswers DEF HandleMessage, tmuxVars
  <2>8. ASSUME NEW c \in ClientIds, HandleCommandResponse(c) PROVE CallsInv' /\ TmuxInv'
    BY <2>0, <2>8, ResponseAnswers DEF HandleCommandResponse, tmuxVars
  <2>9. ASSUME NEW c \in ClientIds, SeeClose(c) PROVE CallsInv' /\ TmuxInv'
    BY <2>0, <2>9, SameAnswers DEF SeeClose, tmuxVars, history
  <2>10. ASSUME NEW c \in ClientIds, Client(c) \/ FlushResizes(c)
         PROVE  CallsInv' /\ TmuxInv'
    <3>1. \E a, ms : ClientDoes(c, a, ms)
      BY <2>10, Zenon DEF Client, FlushResizes, SendVerb, SendCommand, SendInput, ResizePane,
                   Disconnect, ClientCalls
    <3>2. UNCHANGED tmux BY <3>1 DEF ClientDoes
    <3> QED BY <2>0, <2>10, <3>2, ClientAnswers
  <2>11. CASE UNCHANGED vars BY <2>0, <2>11, SameAnswers DEF vars, tmuxVars, history
  <2> QED BY <2>1, <2>2, <2>3, <2>4, <2>5, <2>6, <2>7, <2>8, <2>9, <2>10, <2>11
          DEF Next, System, Others
<1> QED BY <1>1, <1>2 DEF AnswerInv, CallsInv

\* Whatever clients ask and in whatever order tmux, the panes and the connections
\* act: a creating verb's ids are those tmux printed for that very call
\* (input-path.ts:660-860), success and failure are answered as tmux did or refused
\* (session-proxy.ts:1583-1616), no call is answered twice and none to another client.
THEOREM AnswersStayTrue == Spec => []AnswersAreTrue
<1>1. AnswerInv => AnswersAreTrue BY InvIsEnough DEF AnswerInv
<1> QED BY AnswerInit, AnswerStep, <1>1, PTL DEF Spec

-----------------------------------------------------------------------------
(* What one client sends keeps its order.                                   *)

\* One call of a client comes before another of the same.
Earlier(x, y) == x[1] = y[1] => x[2] < y[2]

\* Where the calls that type are: at the panes (t), in the pipe (p) or in the chain (ch).
KeysAt(p) == {i \in DOMAIN p : p[i].op = "send-keys"}
Taken(t, p, ch) == {t[i][1] : i \in DOMAIN t} \cup {p[i].id : i \in KeysAt(p)}
                       \cup {ch[i].id : i \in DOMAIN ch}
Unheard(t, x) == \A i \in DOMAIN t : Earlier(t[i][1], x)
LastIs(t, x, n) == t # <<>> /\ t[Len(t)] = <<x, n>>

\* The chunk that the chain's first message waits for.
UnderWay(ch, slot) ==
    /\ ch # <<>> /\ slot.op = "send-keys"
    /\ slot.id = ch[1].id /\ slot.value = ch[1].sent

\* A key in the pipe is a first chunk, or alone there and the next one to be typed.
KeyFits(t, p, i) ==
    IF p[i].value = 1 THEN Unheard(t, p[i].id)
    ELSE KeysAt(p) = {i} /\ LastIs(t, p[i].id, p[i].value - 1)

\* Of the keys in the pipe, at most the last is a chunk that is waited for.
KeysFit(t, p, ch) ==
    /\ \A i \in KeysAt(p) :
        /\ p[i].cont \in {"none", "chunk"}
        /\ p[i].cont = "none" => p[i].value = 1
        /\ KeyFits(t, p, i)
    /\ \A i, j \in KeysAt(p) : i < j => p[i].cont = "none" /\ Earlier(p[i].id, p[j].id)
    /\ \A i \in DOMAIN p : p[i].cont = "chunk" => UnderWay(ch, p[i])

\* Once a chunk is executed no key is in the pipe, until its reply is read.
ChunksFit(t, p, r, ch) ==
    /\ \A i \in DOMAIN r : r[i].slot.cont = "chunk" =>
        /\ UnderWay(ch, r[i].slot) /\ KeysAt(p) = {}
        /\ r[i].ok => LastIs(t, r[i].slot.id, r[i].slot.value)
    /\ \A i, j \in DOMAIN r : r[i].slot.cont = "chunk" /\ r[j].slot.cont = "chunk" => i = j

\* The messages behind the chain's first have sent nothing.
IsMessage(m) ==
    /\ DOMAIN m = {"id", "pane", "len", "sent", "chained"}
    /\ m.sent \in Nat \ {0} /\ m.chained = TRUE
ChainFits(t, p, ch) ==
    /\ \A i \in DOMAIN ch :
        /\ IsMessage(ch[i])
        /\ i > 1 => /\ ch[i].sent = 1 /\ Unheard(t, ch[i].id)
                    /\ \A k \in KeysAt(p) : Earlier(p[k].id, ch[i].id)
    /\ \A i, j \in DOMAIN ch : i < j => Earlier(ch[i].id, ch[j].id)

Ordered(t, p, r, ch) ==
    /\ IsSeq(t) /\ IsSeq(ch)
    /\ KeysFit(t, p, ch) /\ ChunksFit(t, p, r, ch) /\ ChainFits(t, p, ch)

\* What a client has on the wire (w) is later than all that is not (T).
InputsLate(c, T, w, calls) ==
    \A i \in DOMAIN w : w[i].type = "input" =>
        /\ w[i].n \in 1..calls
        /\ \A x \in T : Earlier(x, <<c, w[i].n>>)
        /\ \A j \in DOMAIN w : j > i /\ w[j].type = "input" => w[i].n < w[j].n
Called(x, A) == x \in ClientIds \X Nat /\ x[2] <= A[x[1]].calls
Late(T, w, A) ==
    /\ \A x \in T : Called(x, A)
    /\ \A c \in ClientIds : InputsLate(c, T, w[c], A[c].calls)

\* No box in s was declared before call n.
NoneBefore(s, n) == \A j \in DOMAIN s : s[j].type = "resize.request" => ~(s[j].n < n)

\* A client's sashes go out after the boxes it declared before, on the wire (w) as well
\* as those that are pending (s), and in the pipe.
IsSash(msg) == IsRequest(msg) /\ msg.command.kind = "resize-managed-window"
SashesSent(w, s) ==
    \A i \in DOMAIN w : IsSash(w[i]) =>
        /\ NoneBefore(s, w[i].n)
        /\ \A j \in DOMAIN w : j > i /\ w[j].type = "resize.request" => ~(w[j].n < w[i].n)
SashFits(x, p, i, w, A) ==
    /\ Called(x, A)
    /\ NoneBefore(A[x[1]].resizes, x[2]) /\ NoneBefore(w[x[1]], x[2])
    /\ \A j \in DOMAIN p : j > i /\ p[j].op = "size" /\ p[j].id # Null /\ p[j].id[1] = x[1]
                            => ~(p[j].id[2] < x[2])
SashesFit(p, w, A) == \A i \in DOMAIN p : p[i].op = "sash" => SashFits(p[i].id, p, i, w, A)

OrderInv ==
    /\ KeystrokesStayWhole /\ Ordered(typed, pipe, replies, chain)
    /\ Late(Taken(typed, pipe, chain), wire, api)
    /\ SashesFit(pipe, wire, api) /\ \A c \in ClientIds : SashesSent(wire[c], api[c].resizes)

\* A slot whose place among the others no client can tell.
Plain(slot) ==
    /\ slot.op \notin {"send-keys", "sash"} /\ slot.cont # "chunk"
    /\ slot.op = "size" => slot.id = Null

\* A slot that is no key.
Keyless(slot) == slot.op # "send-keys" /\ slot.cont # "chunk"

\* The pipe q is p from its d-th on, with plain slots besides (PipeFollows) or others
\* that are no keys (KeysGo); so is r2 of the replies r.
PipeFollows(p, q, d) ==
    \A i \in DOMAIN q : i \in Int /\ (Plain(q[i]) \/ (i + d \in DOMAIN p /\ q[i] = p[i + d]))
KeysGo(p, q, d) ==
    \A i \in DOMAIN q : i \in Int /\ (Keyless(q[i]) \/ (i + d \in DOMAIN p /\ q[i] = p[i + d]))
RepliesFollow(r, r2, d) ==
    \A i \in DOMAIN r2 :
        i \in Int /\ (r2[i].slot.cont # "chunk" \/ (i + d \in DOMAIN r /\ r2[i] = r[i + d]))

\* The sashes and the keys of a pipe that goes on.
LEMMA SashFollows ==
    ASSUME NEW p, NEW q, NEW d \in Int, PipeFollows(p, q, d), NEW i \in DOMAIN q, q[i].op = "sash"
    PROVE  i \in Int /\ i + d \in DOMAIN p /\ q[i] = p[i + d]
BY DEF PipeFollows, Plain

\* Of a pipe with plain slots besides, the keys go on.
LEMMA KeysFollow ==
    ASSUME NEW p, NEW q, NEW d \in Int, PipeFollows(p, q, d) PROVE KeysGo(p, q, d)
BY DEF PipeFollows, KeysGo, Plain, Keyless

\* What is shifted alike was alike.
LEMMA SameShift == \A i, j, d \in Int : i + d = j + d => i = j
OBVIOUS

\* The keys keep their order at the panes if no key is written or executed.
LEMMA OrderFollows ==
    ASSUME NEW t, NEW p, NEW r, NEW ch, Ordered(t, p, r, ch),
           NEW q, NEW d \in Int, KeysGo(p, q, d),
           NEW r2, NEW e \in Int, RepliesFollow(r, r2, e)
    PROVE  Ordered(t, q, r2, ch) /\ Taken(t, q, ch) \subseteq Taken(t, p, ch)
<1>0. KeysFit(t, p, ch) /\ ChunksFit(t, p, r, ch) /\ ChainFits(t, p, ch) BY DEF Ordered
<1>1. /\ \A i \in KeysAt(q) : i \in Int /\ i + d \in KeysAt(p) /\ q[i] = p[i + d]
      /\ \A i \in DOMAIN q : q[i].cont = "chunk" => i + d \in DOMAIN p /\ q[i] = p[i + d]
  BY DEF KeysGo, Keyless, KeysAt
<1>2. KeysFit(t, q, ch)
  <2>1. ASSUME NEW i \in KeysAt(q)
        PROVE  /\ q[i].cont \in {"none", "chunk"}
               /\ q[i].cont = "none" => q[i].value = 1
               /\ KeyFits(t, q, i)
    <3>1. /\ q[i].cont \in {"none", "chunk"} /\ KeyFits(t, p, i + d)
          /\ q[i].cont = "none" => q[i].value = 1
      BY <1>0, <1>1 DEF KeysFit
    <3>2. CASE q[i].value = 1 BY <1>1, <3>1, <3>2 DEF KeyFits
    <3>3. CASE q[i].value # 1
      <4>1. KeysAt(p) = {i + d} /\ LastIs(t, q[i].id, q[i].value - 1)
        BY <1>1, <3>1, <3>3 DEF KeyFits
      <4>2. ASSUME NEW k \in KeysAt(q) PROVE k = i
        <5>1. k + d = i + d /\ k \in Int /\ i \in Int BY <1>1, <4>1
        <5> QED BY <5>1
      <4>3. KeysAt(q) = {i} BY <4>2
      <4> QED BY <3>1, <3>3, <4>1, <4>3 DEF KeyFits
    <3> QED BY <3>1, <3>2, <3>3
  <2>2. ASSUME NEW i \in KeysAt(q), NEW j \in KeysAt(q), i < j
        PROVE  q[i].cont = "none" /\ Earlier(q[i].id, q[j].id)
    <3>1. i + d < j + d BY <1>1, <2>2
    <3>2. \A x, y \in KeysAt(p) : x < y => p[x].cont = "none" /\ Earlier(p[x].id, p[y].id)
      BY <1>0 DEF KeysFit
    <3> QED BY <1>1, <3>1, <3>2
  <2>3. \A i \in DOMAIN q : q[i].cont = "chunk" => UnderWay(ch, q[i])
    BY <1>0, <1>1 DEF KeysFit
  <2> QED BY <2>1, <2>2, <2>3 DEF KeysFit
<1>3. ChunksFit(t, q, r2, ch)
  <2>1. \A i \in DOMAIN r2 : r2[i].slot.cont = "chunk" =>
            i \in Int /\ i + e \in DOMAIN r /\ r2[i] = r[i + e]
    BY DEF RepliesFollow
  <2>2. ASSUME NEW i \in DOMAIN r2, r2[i].slot.cont = "chunk"
        PROVE  /\ UnderWay(ch, r2[i].slot) /\ KeysAt(q) = {}
               /\ r2[i].ok => LastIs(t, r2[i].slot.id, r2[i].slot.value)
    <3>1. /\ UnderWay(ch, r2[i].slot) /\ KeysAt(p) = {}
          /\ r2[i].ok => LastIs(t, r2[i].slot.id, r2[i].slot.value)
      BY <1>0, <2>1, <2>2 DEF ChunksFit
    <3> QED BY <1>1, <3>1
  <2>3. ASSUME NEW i \in DOMAIN r2, NEW j \in DOMAIN r2,
               r2[i].slot.cont = "chunk", r2[j].slot.cont = "chunk"
        PROVE  i = j
    <3>1. i \in Int /\ j \in Int /\ i + e \in DOMAIN r /\ j + e \in DOMAIN r
          /\ r[i + e].slot.cont = "chunk" /\ r[j + e].slot.cont = "chunk"
      BY <2>1, <2>3
    <3>2. i + e = j + e BY <1>0, <3>1 DEF ChunksFit
    <3> QED BY <3>1, <3>2, SameShift
  <2> QED BY <2>2, <2>3 DEF ChunksFit
<1>4. ChainFits(t, q, ch)
  <2>1. \A x : (\A k \in KeysAt(p) : Earlier(p[k].id, x))
                    => \A k \in KeysAt(q) : Earlier(q[k].id, x)
    BY <1>1
  <2> QED BY <1>0, <2>1 DEF ChainFits
<1>5. Taken(t, q, ch) \subseteq Taken(t, p, ch)
  <2>1. \A i \in KeysAt(q) : \E k \in KeysAt(p) : q[i].id = p[k].id BY <1>1
  <2> QED BY <2>1 DEF Taken
<1> QED BY <1>2, <1>3, <1>4, <1>5 DEF Ordered

\* A pipe with a batch appended.
Joined(p, more, q) ==
    /\ IsSeq(q)
    /\ \A i \in DOMAIN p : i \in Nat /\ i \in DOMAIN q /\ q[i] = p[i]
    /\ \A i \in DOMAIN q : i \in Nat /\ (\/ i \in DOMAIN p /\ q[i] = p[i]
                                         \/ /\ \E k \in DOMAIN more : q[i] = more[k]
                                            /\ \A j \in DOMAIN p : j < i)

\* A pipe and a batch written to it.
LEMMA Appended ==
    ASSUME NEW p, IsSeq(p), NEW more, IsSeq(more), NEW q, q = p \o more
    PROVE  Joined(p, more, q)
<1>1. /\ IsSeq(q) /\ DOMAIN q = 1..Len(p) + Len(more)
      /\ \A i \in DOMAIN p : q[i] = p[i]
      /\ \A i \in 1..Len(p) + Len(more) : i > Len(p) => q[i] = more[i - Len(p)]
  BY CatIsSeq
<1>2. /\ DOMAIN p = 1..Len(p) /\ Len(p) \in Nat
      /\ DOMAIN more = 1..Len(more) /\ Len(more) \in Nat
  BY SeqIs
<1>3. \A i \in DOMAIN p : i \in Nat /\ i \in DOMAIN q /\ q[i] = p[i] BY <1>1, <1>2
<1>4. ASSUME NEW i \in DOMAIN q, i \notin DOMAIN p
      PROVE  (\E k \in DOMAIN more : q[i] = more[k]) /\ \A j \in DOMAIN p : j < i
  <2>1. i \in Nat /\ i > Len(p) /\ i - Len(p) \in DOMAIN more BY <1>1, <1>2, <1>4
  <2>2. q[i] = more[i - Len(p)] BY <1>1, <2>1
  <2>3. \A j \in DOMAIN p : j < i BY <1>2, <2>1
  <2> QED BY <2>1, <2>2, <2>3
<1>5. \A i \in DOMAIN q : i \in Nat BY <1>1, <1>2
<1> QED BY <1>1, <1>3, <1>4, <1>5 DEF Joined

\* A pipe with plain slots appended goes on from its first, its tail from the second.
LEMMA PlainAppended ==
    ASSUME NEW p, IsSeq(p), NEW more, IsSeq(more), \A k \in DOMAIN more : Plain(more[k]),
           NEW q, q = p \o more
    PROVE  PipeFollows(p, q, 0)
<1>1. \A i \in DOMAIN q : i \in Nat /\ (\/ i \in DOMAIN p /\ q[i] = p[i]
                                        \/ \E k \in DOMAIN more : q[i] = more[k])
  <2>1. Joined(p, more, q) BY Appended
  <2> QED BY <2>1 DEF Joined
<1>2. \A i \in DOMAIN q : i \in Int /\ i + 0 = i BY <1>1
<1> QED BY <1>1, <1>2 DEF PipeFollows

\* Without its first, a pipe goes on from its second.
LEMMA PipeTail ==
    ASSUME NEW p, IsSeq(p), p # <<>>
    PROVE  PipeFollows(p, Tail(p), 1)
<1>1. \A i \in DOMAIN Tail(p) : /\ i \in Int /\ i + 1 \in DOMAIN p /\ Tail(p)[i] = p[i + 1]
  <2>1. /\ DOMAIN Tail(p) = 1..Len(p) - 1 /\ DOMAIN p = 1..Len(p) /\ Len(p) \in Nat
        /\ \A i \in DOMAIN Tail(p) : Tail(p)[i] = p[i + 1]
    BY TailIsSeq, SeqIs
  <2> QED BY <2>1
<1> QED BY <1>1 DEF PipeFollows

\* So do the replies.
LEMMA RepliesTail ==
    ASSUME NEW p, IsSeq(p), p # <<>>
    PROVE  RepliesFollow(p, Tail(p), 1)
<1>1. \A i \in DOMAIN Tail(p) : /\ i \in Int /\ i + 1 \in DOMAIN p /\ Tail(p)[i] = p[i + 1]
  <2>1. /\ DOMAIN Tail(p) = 1..Len(p) - 1 /\ DOMAIN p = 1..Len(p) /\ Len(p) \in Nat
        /\ \A i \in DOMAIN Tail(p) : Tail(p)[i] = p[i + 1]
    BY TailIsSeq, SeqIs
  <2> QED BY <2>1
<1> QED BY <1>1 DEF RepliesFollow

\* Another reply, of no chunk, comes last.
LEMMA RepliesAppended ==
    ASSUME NEW p, IsSeq(p), NEW more, IsSeq(more),
           \A k \in DOMAIN more : more[k].slot.cont # "chunk", NEW q, q = p \o more
    PROVE  RepliesFollow(p, q, 0)
<1>1. \A i \in DOMAIN q : i \in Nat /\ (\/ i \in DOMAIN p /\ q[i] = p[i]
                                        \/ \E k \in DOMAIN more : q[i] = more[k])
  <2>1. Joined(p, more, q) BY Appended
  <2> QED BY <2>1 DEF Joined
<1>2. \A i \in DOMAIN q : i \in Int /\ i + 0 = i BY <1>1
<1> QED BY <1>1, <1>2 DEF RepliesFollow

\* What stays goes on from its first.
LEMMA SameFollows ==
    ASSUME NEW p, IsSeq(p)
    PROVE  PipeFollows(p, p, 0) /\ RepliesFollow(p, p, 0)
<1>1. \A i \in DOMAIN p : i \in Int /\ i + 0 = i BY SeqIs
<1> QED BY <1>1 DEF PipeFollows, RepliesFollow

\* A key k that may be written while none is waited for, and what comes of it.
KeyNext(t, p, r2, ch2, k) ==
    /\ \A i \in DOMAIN p : p[i].cont # "chunk"
    /\ \A i \in DOMAIN r2 : r2[i].slot.cont # "chunk"
    /\ k.op = "send-keys"
    /\ \/ k.cont = "none" /\ k.value = 1
       \/ k.cont = "chunk" /\ UnderWay(ch2, k)
    /\ \/ k.value = 1 /\ Unheard(t, k.id)
       \/ k.value # 1 /\ KeysAt(p) = {} /\ LastIs(t, k.id, k.value - 1)
    /\ \A i \in KeysAt(p) : Earlier(p[i].id, k.id)
KeyIsIn(t, p, r2, ch2, k, q) ==
    /\ KeysFit(t, q, ch2) /\ ChunksFit(t, q, r2, ch2)
    /\ \A i \in KeysAt(q) : q[i] = k \/ (i \in KeysAt(p) /\ q[i] = p[i])

\* With that key the order is kept.
LEMMA KeyWritten ==
    ASSUME NEW t, NEW p, IsSeq(p), NEW r2, NEW ch, NEW ch2, KeysFit(t, p, ch),
           NEW k, KeyNext(t, p, r2, ch2, k), NEW q, q = p \o <<k>>
    PROVE  KeyIsIn(t, p, r2, ch2, k, q)
<1>0. /\ \A i \in DOMAIN p : p[i].cont # "chunk"
      /\ \A i \in DOMAIN r2 : r2[i].slot.cont # "chunk"
      /\ k.op = "send-keys"
      /\ (k.cont = "none" /\ k.value = 1) \/ (k.cont = "chunk" /\ UnderWay(ch2, k))
      /\ \/ k.value = 1 /\ Unheard(t, k.id)
         \/ k.value # 1 /\ KeysAt(p) = {} /\ LastIs(t, k.id, k.value - 1)
      /\ \A i \in KeysAt(p) : Earlier(p[i].id, k.id)
  BY DEF KeyNext
<1>q. q = Append(p, k) BY DEF IsSeq
<1>1. /\ IsSeq(q) /\ DOMAIN q = 1..Len(p) + 1 /\ DOMAIN p = 1..Len(p) /\ Len(p) \in Nat
      /\ \A i \in DOMAIN p : q[i] = p[i]
      /\ q[Len(p) + 1] = k
  <2>1. /\ IsSeq(Append(p, k)) /\ DOMAIN Append(p, k) = 1..Len(p) + 1
        /\ \A i \in DOMAIN p : Append(p, k)[i] = p[i]
        /\ Append(p, k)[Len(p) + 1] = k
    BY AppendIsSeq
  <2>2. DOMAIN p = 1..Len(p) /\ Len(p) \in Nat BY SeqIs
  <2> QED BY <1>q, <2>1, <2>2
<1> DEFINE e == Len(p) + 1
<1>2. /\ e \notin DOMAIN p /\ e \in DOMAIN q /\ q[e] = k
      /\ \A i \in DOMAIN q : i = e \/ (i \in DOMAIN p /\ q[i] = p[i])
      /\ \A i \in DOMAIN p : i \in DOMAIN q /\ q[i] = p[i] /\ i < e /\ ~(e < i)
      /\ ~(e < e)
  BY <1>1
<1> HIDE DEF e
<1>3. KeysAt(q) = KeysAt(p) \cup {e} BY <1>0, <1>2 DEF KeysAt
<1>4. \A i \in KeysAt(p) : i # e /\ q[i] = p[i] /\ i \in DOMAIN p /\ i < e BY <1>2 DEF KeysAt
<1>5. \A i \in KeysAt(p) : /\ p[i].cont = "none" /\ p[i].value = 1 /\ Unheard(t, p[i].id)
  BY <1>0, <1>4 DEF KeysFit, KeyFits
<1>6. KeyFits(t, q, e)
  <2>1. CASE k.value = 1 /\ Unheard(t, k.id) BY <1>2, <2>1 DEF KeyFits
  <2>2. CASE k.value # 1 /\ KeysAt(p) = {} /\ LastIs(t, k.id, k.value - 1)
    <3>1. KeysAt(q) = {e} BY <1>3, <2>2
    <3> QED BY <1>2, <2>2, <3>1 DEF KeyFits
  <2> QED BY <1>0, <2>1, <2>2
<1>7. KeysFit(t, q, ch2)
  <2>1. \A i \in KeysAt(q) : /\ q[i].cont \in {"none", "chunk"}
                             /\ q[i].cont = "none" => q[i].value = 1
                             /\ KeyFits(t, q, i)
    <3>1. \A i \in KeysAt(p) : KeyFits(t, q, i) BY <1>4, <1>5 DEF KeyFits
    <3>2. \A i \in KeysAt(p) : q[i].cont = "none" /\ q[i].value = 1 BY <1>4, <1>5
    <3>3. q[e].cont \in {"none", "chunk"} /\ (q[e].cont = "none" => q[e].value = 1)
      BY <1>0, <1>2
    <3> QED BY <1>3, <1>6, <3>1, <3>2, <3>3
  <2>2. ASSUME NEW i \in KeysAt(q), NEW j \in KeysAt(q), i < j
        PROVE  q[i].cont = "none" /\ Earlier(q[i].id, q[j].id)
    <3>1. i # e BY <1>2, <1>3, <1>4, <2>2
    <3>2. i \in KeysAt(p) /\ q[i] = p[i] /\ p[i].cont = "none" BY <1>3, <1>4, <1>5, <3>1
    <3>3. CASE j = e BY <1>0, <1>2, <3>2, <3>3
    <3>4. CASE j # e
      <4>1. j \in KeysAt(p) /\ q[j] = p[j] BY <1>3, <1>4, <3>4
      <4> QED BY <2>2, <3>2, <4>1 DEF KeysFit
    <3> QED BY <3>3, <3>4
  <2>3. \A i \in DOMAIN q : q[i].cont = "chunk" => UnderWay(ch2, q[i]) BY <1>0, <1>2
  <2> QED BY <2>1, <2>2, <2>3 DEF KeysFit
<1>8. ChunksFit(t, q, r2, ch2) BY <1>0 DEF ChunksFit
<1>9. \A i \in KeysAt(q) : q[i] = k \/ (i \in KeysAt(p) /\ q[i] = p[i])
  BY <1>2, <1>3, <1>4
<1> QED BY <1>7, <1>8, <1>9 DEF KeyIsIn

-----------------------------------------------------------------------------
(* Sashes.                                                                  *)

\* What comes later of the client of a call is still none before it.
Calm(w, A, w2, A2) ==
    \A x : Called(x, A) =>
        /\ Called(x, A2)
        /\ NoneBefore(A[x[1]].resizes, x[2]) /\ NoneBefore(w[x[1]], x[2])
            => NoneBefore(A2[x[1]].resizes, x[2]) /\ NoneBefore(w2[x[1]], x[2])

\* Sashes keep their place if none are written, and no boxes.
LEMMA SashesFollow ==
    ASSUME NEW p, NEW q, NEW d \in Int, PipeFollows(p, q, d), \A i \in DOMAIN p : i \in Int,
           NEW w, NEW A, NEW w2, NEW A2, Calm(w, A, w2, A2), SashesFit(p, w, A)
    PROVE  SashesFit(q, w2, A2)
<1> SUFFICES ASSUME NEW i \in DOMAIN q, q[i].op = "sash"
             PROVE  SashFits(q[i].id, q, i, w2, A2)
  BY DEF SashesFit
<1> DEFINE x == q[i].id
<1>1. i \in Int /\ i + d \in DOMAIN p /\ q[i] = p[i + d] BY SashFollows
<1>2. SashFits(x, p, i + d, w, A) BY <1>1 DEF SashesFit
<1> HIDE DEF x
<1>3. /\ Called(x, A2) /\ NoneBefore(A2[x[1]].resizes, x[2]) /\ NoneBefore(w2[x[1]], x[2])
  BY <1>2 DEF SashFits, Calm
<1>4. ASSUME NEW j \in DOMAIN q, j > i, q[j].op = "size", q[j].id # Null, q[j].id[1] = x[1]
      PROVE  ~(q[j].id[2] < x[2])
  <2>1. j \in Int /\ j + d \in DOMAIN p /\ q[j] = p[j + d] BY <1>4 DEF PipeFollows, Plain
  <2>2. j + d > i + d BY <1>1, <1>4, <2>1
  <2> QED BY <1>2, <1>4, <2>1, <2>2 DEF SashFits
<1> QED BY <1>3, <1>4 DEF SashFits, x

\* A batch of the sashes, or the boxes, of one call.
SashesOf(more, x) == \A k \in DOMAIN more : more[k].op = "sash" /\ more[k].id = x
BoxesOf(more, x) == \A k \in DOMAIN more : more[k].op = "size" /\ more[k].id = x

\* The sashes in the pipe are of earlier calls.
SashesBefore(p, c, n) ==
    \A i \in DOMAIN p : p[i].op = "sash" /\ p[i].id[1] = c => ~(n < p[i].id[2])

\* The boxes a message makes come after the sashes of calls before it.
LEMMA BoxesWritten ==
    ASSUME NEW p, IsSeq(p), NEW more, IsSeq(more), NEW q, q = p \o more,
           NEW w, NEW A, NEW w2, NEW A2, Calm(w, A, w2, A2), SashesFit(p, w, A),
           NEW c, NEW n, SashesBefore(p, c, n), BoxesOf(more, <<c, n>>)
    PROVE  SashesFit(q, w2, A2)
<1>1. /\ \A i \in DOMAIN p : i \in Nat /\ i \in DOMAIN q /\ q[i] = p[i]
      /\ \A i \in DOMAIN q : i \in Nat /\ (\/ i \in DOMAIN p /\ q[i] = p[i]
                                           \/ \E k \in DOMAIN more : q[i] = more[k])
  <2>1. Joined(p, more, q) BY Appended
  <2> QED BY <2>1 DEF Joined
<1> SUFFICES ASSUME NEW i \in DOMAIN q, q[i].op = "sash"
             PROVE  SashFits(q[i].id, q, i, w2, A2)
  BY DEF SashesFit
<1> DEFINE x == q[i].id
<1>2. i \in DOMAIN p /\ q[i] = p[i] BY <1>1 DEF BoxesOf
<1>3. SashFits(x, p, i, w, A) /\ (x[1] = c => ~(n < x[2])) BY <1>2 DEF SashesFit, SashesBefore
<1> HIDE DEF x
<1>4. /\ Called(x, A2) /\ NoneBefore(A2[x[1]].resizes, x[2]) /\ NoneBefore(w2[x[1]], x[2])
  BY <1>3 DEF SashFits, Calm
<1>5. ASSUME NEW j \in DOMAIN q, j > i, q[j].op = "size", q[j].id # Null, q[j].id[1] = x[1]
      PROVE  ~(q[j].id[2] < x[2])
  <2>1. CASE j \in DOMAIN p /\ q[j] = p[j] BY <1>3, <1>5, <2>1 DEF SashFits
  <2>2. CASE \E k \in DOMAIN more : q[j] = more[k]
    <3>1. q[j].id = <<c, n>> BY <2>2 DEF BoxesOf
    <3>2. q[j].id[1] = c /\ q[j].id[2] = n BY <3>1
    <3> QED BY <1>3, <1>5, <3>2
  <2> QED BY <1>1, <2>1, <2>2
<1> QED BY <1>4, <1>5 DEF SashFits, x

\* The sashes a message makes come after the boxes of calls before it.
LEMMA SashesWritten ==
    ASSUME NEW p, IsSeq(p), NEW more, IsSeq(more), NEW q, q = p \o more,
           NEW w, NEW A, NEW w2, NEW A2, Calm(w, A, w2, A2), SashesFit(p, w, A),
           NEW x, Called(x, A2), NoneBefore(A2[x[1]].resizes, x[2]), NoneBefore(w2[x[1]], x[2]),
           SashesOf(more, x)
    PROVE  SashesFit(q, w2, A2)
<1>1. /\ \A i \in DOMAIN p : i \in Nat /\ i \in DOMAIN q /\ q[i] = p[i]
      /\ \A i \in DOMAIN q : i \in Nat /\ (\/ i \in DOMAIN p /\ q[i] = p[i]
                                           \/ /\ \E k \in DOMAIN more : q[i] = more[k]
                                              /\ \A j \in DOMAIN p : j < i)
  <2>1. Joined(p, more, q) BY Appended
  <2> QED BY <2>1 DEF Joined
<1>2. \A j \in DOMAIN q : q[j].op = "size" => j \in DOMAIN p /\ q[j] = p[j]
  BY <1>1 DEF SashesOf
<1> SUFFICES ASSUME NEW i \in DOMAIN q, q[i].op = "sash"
             PROVE  SashFits(q[i].id, q, i, w2, A2)
  BY DEF SashesFit
<1>3. CASE i \in DOMAIN p /\ q[i] = p[i]
  <2> DEFINE y == q[i].id
  <2>1. SashFits(y, p, i, w, A) BY <1>3 DEF SashesFit
  <2> HIDE DEF y
  <2>2. /\ Called(y, A2) /\ NoneBefore(A2[y[1]].resizes, y[2]) /\ NoneBefore(w2[y[1]], y[2])
    BY <2>1 DEF SashFits, Calm
  <2>3. \A j \in DOMAIN q : j > i /\ q[j].op = "size" /\ q[j].id # Null /\ q[j].id[1] = y[1]
                                => ~(q[j].id[2] < y[2])
    BY <1>2, <2>1 DEF SashFits
  <2> QED BY <2>2, <2>3 DEF SashFits, y
<1>4. CASE (\E k \in DOMAIN more : q[i] = more[k]) /\ \A j \in DOMAIN p : j < i
  <2>1. q[i].id = x BY <1>4 DEF SashesOf
  <2>2. \A j \in DOMAIN q : q[j].op = "size" => ~(j > i) BY <1>1, <1>2, <1>4
  <2> QED BY <2>1, <2>2 DEF SashFits
<1> QED BY <1>1, <1>3, <1>4

\* A client that reads and writes nothing on the wire is calm.
LEMMA SameIsCalm == ASSUME NEW w, NEW A PROVE Calm(w, A, w, A)
BY DEF Calm

-----------------------------------------------------------------------------
(* The wire of a client.                                                    *)

\* A message is read.
LEMMA WireTail ==
    ASSUME NEW w, IsSeq(w), w # <<>>, NEW v, v = Tail(w), NEW h, h = Head(w)
    PROVE  /\ \A n : NoneBefore(w, n) => NoneBefore(v, n)
           /\ \A s : SashesSent(w, s) =>
                /\ SashesSent(v, s)
                /\ IsSash(h) => NoneBefore(s, h.n) /\ NoneBefore(v, h.n)
           /\ \A c, T, k : InputsLate(c, T, w, k) =>
                /\ InputsLate(c, T, v, k)
                /\ h.type = "input" => /\ h.n \in 1..k /\ \A x \in T : Earlier(x, <<c, h.n>>)
                                       /\ InputsLate(c, T \cup {<<c, h.n>>}, v, k)
<1>1. /\ \A i \in DOMAIN v : /\ i \in Int /\ i >= 1 /\ i + 1 \in DOMAIN w /\ v[i] = w[i + 1]
                             /\ i + 1 > 1
      /\ 1 \in DOMAIN w /\ h = w[1]
  <2>1. /\ DOMAIN v = 1..Len(w) - 1 /\ DOMAIN w = 1..Len(w) /\ Len(w) \in Nat
        /\ \A i \in DOMAIN v : v[i] = w[i + 1]
        /\ 1 \in DOMAIN w /\ h = w[1]
    BY TailIsSeq, SeqIs
  <2> QED BY <2>1
<1>2. \A n : NoneBefore(w, n) => NoneBefore(v, n) BY <1>1 DEF NoneBefore
<1>3. ASSUME NEW s, SashesSent(w, s)
      PROVE  /\ SashesSent(v, s)
             /\ IsSash(h) => NoneBefore(s, h.n) /\ NoneBefore(v, h.n)
  <2>1. ASSUME NEW i \in DOMAIN v, IsSash(v[i])
        PROVE  /\ NoneBefore(s, v[i].n)
               /\ \A j \in DOMAIN v : j > i /\ v[j].type = "resize.request" => ~(v[j].n < v[i].n)
    <3>1. \A j \in DOMAIN v : j > i => j + 1 > i + 1 BY <1>1
    <3> QED BY <1>1, <1>3, <2>1, <3>1 DEF SashesSent
  <2>2. ASSUME IsSash(h) PROVE NoneBefore(s, h.n) /\ NoneBefore(v, h.n)
    BY <1>1, <1>3, <2>2 DEF SashesSent, NoneBefore
  <2> QED BY <2>1, <2>2 DEF SashesSent
<1>4. ASSUME NEW c, NEW T, NEW k, InputsLate(c, T, w, k)
      PROVE  /\ InputsLate(c, T, v, k)
             /\ h.type = "input" => /\ h.n \in 1..k /\ \A x \in T : Earlier(x, <<c, h.n>>)
                                    /\ InputsLate(c, T \cup {<<c, h.n>>}, v, k)
  <2>1. ASSUME NEW i \in DOMAIN v, v[i].type = "input"
        PROVE  /\ v[i].n \in 1..k /\ \A x \in T : Earlier(x, <<c, v[i].n>>)
               /\ \A j \in DOMAIN v : j > i /\ v[j].type = "input" => v[i].n < v[j].n
               /\ h.type = "input" => h.n < v[i].n
    <3>1. \A j \in DOMAIN v : j > i => j + 1 > i + 1 BY <1>1
    <3> QED BY <1>1, <1>4, <2>1, <3>1 DEF InputsLate
  <2>2. InputsLate(c, T, v, k) BY <2>1 DEF InputsLate
  <2>3. h.type = "input" => h.n \in 1..k /\ \A x \in T : Earlier(x, <<c, h.n>>)
    BY <1>1, <1>4 DEF InputsLate
  <2>4. ASSUME h.type = "input" PROVE InputsLate(c, T \cup {<<c, h.n>>}, v, k)
    <3>1. \A i \in DOMAIN v : v[i].type = "input" => Earlier(<<c, h.n>>, <<c, v[i].n>>)
      BY <2>1, <2>4 DEF Earlier
    <3> QED BY <2>1, <3>1 DEF InputsLate
  <2> QED BY <2>2, <2>3, <2>4
<1> QED BY <1>2, <1>3, <1>4

\* What a client with k calls sends and keeps: its pending boxes, or its next call last.
Sends(ms, s, s2, k) ==
    /\ \A i \in DOMAIN ms : \/ ms[i].type = "resize.request" /\ \E j \in DOMAIN s : ms[i] = s[j]
                            \/ /\ ms[i].type # "resize.request"
                               /\ i = Len(ms) /\ ms[i].n = k + 1
                               /\ IsSash(ms[i]) => s2 = <<>>
    /\ \A j \in DOMAIN s2 : s2[j].n = k + 1 \/ \E i \in DOMAIN s : s2[j] = s[i]

\* And what becomes of its wire by that.
SentOn(w, ms, v, s, s2, k) ==
    /\ \A n \in Nat : n <= k /\ NoneBefore(s, n) /\ NoneBefore(w, n) =>
                            NoneBefore(s2, n) /\ NoneBefore(v, n)
    /\ SashesSent(w, s) /\ (\A i \in DOMAIN w : IsSash(w[i]) => w[i].n \in 1..k)
            => SashesSent(v, s2)
    /\ \A c, T : InputsLate(c, T, w, k) /\ (\A x \in T : x[1] = c => x[2] \in Nat /\ x[2] <= k)
            => InputsLate(c, T, v, k + 1)
               /\ ((\A i \in DOMAIN ms : ms[i].type # "input") => InputsLate(c, T, v, k))

\* What is sent comes last on the wire, and in the order of the calls.
LEMMA WireGrows ==
    ASSUME NEW w, IsSeq(w), NEW ms, IsSeq(ms), NEW v, v = w \o ms, NEW k \in Nat,
           NEW s, \A j \in DOMAIN s : s[j].type = "resize.request", NEW s2, Sends(ms, s, s2, k)
    PROVE  SentOn(w, ms, v, s, s2, k)
<1>1. /\ IsSeq(v) /\ DOMAIN v = 1..Len(w) + Len(ms)
      /\ \A i \in DOMAIN w : v[i] = w[i]
      /\ \A i \in 1..Len(w) + Len(ms) : i > Len(w) => v[i] = ms[i - Len(w)]
  BY CatIsSeq
<1>2. /\ DOMAIN w = 1..Len(w) /\ Len(w) \in Nat
      /\ DOMAIN ms = 1..Len(ms) /\ Len(ms) \in Nat
  BY SeqIs
<1>3. \A i \in DOMAIN w : i \in DOMAIN v /\ v[i] = w[i] BY <1>1, <1>2
<1>4. ASSUME NEW i \in DOMAIN v, i \notin DOMAIN w
      PROVE  /\ \A j \in DOMAIN w : ~(j > i)
             /\ \E e \in DOMAIN ms : v[i] = ms[e]
             /\ \/ v[i].type = "resize.request" /\ \E j \in DOMAIN s : v[i] = s[j]
                \/ /\ v[i].type # "resize.request"
                   /\ \A j \in DOMAIN v : ~(j > i)
                   /\ v[i].n = k + 1
                   /\ IsSash(v[i]) => s2 = <<>>
  <2> DEFINE e == i - Len(w)
  <2>1. i \in Nat /\ i > Len(w) /\ e \in DOMAIN ms /\ i = Len(w) + e BY <1>1, <1>2, <1>4
  <2>2. v[i] = ms[e] BY <1>1, <2>1
  <2>3. e = Len(ms) => \A j \in DOMAIN v : ~(j > i) BY <1>1, <1>2, <2>1
  <2>4. \A j \in DOMAIN w : ~(j > i) BY <1>2, <2>1
  <2> HIDE DEF e
  <2> QED BY <2>1, <2>2, <2>3, <2>4 DEF Sends
<1>5. ASSUME NEW n \in Nat, n <= k, NoneBefore(s, n) PROVE NoneBefore(s2, n)
  <2>1. ~(k + 1 < n) BY <1>5
  <2> QED BY <1>5, <2>1 DEF NoneBefore, Sends
<1>6. ASSUME NEW n \in Nat, NoneBefore(s, n), NoneBefore(w, n) PROVE NoneBefore(v, n)
  <2> SUFFICES ASSUME NEW i \in DOMAIN v, v[i].type = "resize.request" PROVE ~(v[i].n < n)
    BY DEF NoneBefore
  <2>1. CASE i \in DOMAIN w BY <1>3, <1>6, <2>1 DEF NoneBefore
  <2>2. CASE i \notin DOMAIN w
    <3>1. PICK j \in DOMAIN s : v[i] = s[j] BY <1>4, <2>2
    <3> QED BY <1>6, <3>1 DEF NoneBefore
  <2> QED BY <2>1, <2>2
<1>7. ASSUME SashesSent(w, s), \A i \in DOMAIN w : IsSash(w[i]) => w[i].n \in 1..k
      PROVE  SashesSent(v, s2)
  <2> SUFFICES ASSUME NEW i \in DOMAIN v, IsSash(v[i])
               PROVE  /\ NoneBefore(s2, v[i].n)
                      /\ \A j \in DOMAIN v :
                            j > i /\ v[j].type = "resize.request" => ~(v[j].n < v[i].n)
    BY DEF SashesSent
  <2>1. CASE i \in DOMAIN w
    <3>1. v[i] = w[i] /\ v[i].n \in Nat /\ v[i].n <= k BY <1>3, <1>7, <2>1
    <3>2. NoneBefore(s, v[i].n) BY <1>7, <2>1, <3>1 DEF SashesSent
    <3>3. NoneBefore(s2, v[i].n) BY <1>5, <3>1, <3>2
    <3>4. ASSUME NEW j \in DOMAIN v, j > i, v[j].type = "resize.request"
          PROVE  ~(v[j].n < v[i].n)
      <4>1. CASE j \in DOMAIN w BY <1>3, <1>7, <2>1, <3>1, <3>4, <4>1 DEF SashesSent
      <4>2. CASE j \notin DOMAIN w
        <5>1. PICK e \in DOMAIN s : v[j] = s[e] BY <1>4, <3>4, <4>2
        <5> QED BY <3>2, <5>1 DEF NoneBefore
      <4> QED BY <4>1, <4>2
    <3> QED BY <3>3, <3>4
  <2>2. CASE i \notin DOMAIN w
    <3>1. v[i].type # "resize.request" BY DEF IsSash, IsRequest
    <3>2. (\A j \in DOMAIN v : ~(j > i)) /\ s2 = <<>> BY <1>4, <2>2, <3>1
    <3> QED BY <3>2, EmptyIsSeq DEF NoneBefore
  <2> QED BY <2>1, <2>2
<1>8. ASSUME NEW c, NEW T, InputsLate(c, T, w, k),
             \A x \in T : x[1] = c => x[2] \in Nat /\ x[2] <= k
      PROVE  InputsLate(c, T, v, k + 1)
             /\ ((\A i \in DOMAIN ms : ms[i].type # "input") => InputsLate(c, T, v, k))
  <2>1. ASSUME NEW i \in DOMAIN v, v[i].type = "input"
        PROVE  /\ v[i].n \in 1..k + 1 /\ (i \in DOMAIN w => v[i].n \in 1..k)
               /\ \A x \in T : Earlier(x, <<c, v[i].n>>)
               /\ \A j \in DOMAIN v : j > i /\ v[j].type = "input" => v[i].n < v[j].n
    <3>1. CASE i \in DOMAIN w
      <4>1. /\ v[i] = w[i] /\ v[i].n \in 1..k /\ \A x \in T : Earlier(x, <<c, v[i].n>>)
        BY <1>3, <1>8, <2>1, <3>1 DEF InputsLate
      <4>2. ASSUME NEW j \in DOMAIN v, j > i, v[j].type = "input" PROVE v[i].n < v[j].n
        <5>1. CASE j \in DOMAIN w BY <1>3, <1>8, <2>1, <3>1, <4>1, <4>2, <5>1 DEF InputsLate
        <5>2. CASE j \notin DOMAIN w
          <6>1. v[j].n = k + 1 BY <1>4, <4>2, <5>2
          <6> QED BY <4>1, <6>1
        <5> QED BY <5>1, <5>2
      <4>3. v[i].n \in 1..k + 1 BY <4>1
      <4> QED BY <4>1, <4>2, <4>3
    <3>2. CASE i \notin DOMAIN w
      <4>1. v[i].n = k + 1 /\ \A j \in DOMAIN v : ~(j > i) BY <1>4, <2>1, <3>2
      <4>2. \A x \in T : x[1] = c => x[2] < k + 1 BY <1>8
      <4>3. \A x \in T : Earlier(x, <<c, k + 1>>) BY <4>2 DEF Earlier
      <4>4. k + 1 \in 1..k + 1 OBVIOUS
      <4>5. v[i].n \in 1..k + 1 /\ \A x \in T : Earlier(x, <<c, v[i].n>>) BY <4>1, <4>3, <4>4
      <4> QED BY <3>2, <4>1, <4>5
    <3> QED BY <3>1, <3>2
  <2>2. InputsLate(c, T, v, k + 1) BY <2>1 DEF InputsLate
  <2>3. ASSUME \A i \in DOMAIN ms : ms[i].type # "input" PROVE InputsLate(c, T, v, k)
    <3>1. \A i \in DOMAIN v : v[i].type = "input" => i \in DOMAIN w BY <1>4, <2>3
    <3> QED BY <2>1, <3>1 DEF InputsLate
  <2> QED BY <2>2, <2>3
<1> QED BY <1>5, <1>6, <1>7, <1>8 DEF SentOn

-----------------------------------------------------------------------------
(* The steps of a client.                                                   *)

\* A client calls, flushes or leaves.
LEMMA ClientDoesOrder ==
    ASSUME AnswerInv, OrderInv, NEW c \in ClientIds, NEW a, NEW ms, IsSeq(ms),
           ClientDoes(c, a, ms), Sends(ms, api[c].resizes, a.resizes, api[c].calls),
           \/ a.calls = api[c].calls + 1
           \/ a.calls = api[c].calls /\ \A i \in DOMAIN ms : ms[i].type # "input"
    PROVE  OrderInv'
<1> DEFINE T == Taken(typed, pipe, chain)
           w == wire[c]
           v == w \o ms
           s == api[c].resizes
           k == api[c].calls
<1>1. /\ UNCHANGED <<typed, pipe, replies, chain>>
      /\ api' = [api EXCEPT ![c] = a] /\ wire' = [wire EXCEPT ![c] = v]
  BY DEF ClientDoes, history
<1>2. WireInv /\ PipeInv BY DEF AnswerInv
<1>3. /\ DOMAIN wire = ClientIds /\ DOMAIN api = ClientIds
      /\ k \in Nat /\ IsSeq(w) /\ \A j \in DOMAIN s : s[j].type = "resize.request"
      /\ \A i \in DOMAIN w : IsSash(w[i]) => w[i].n \in 1..k
  BY <1>2 DEF WireInv, IsApi, IsSash
<1>4. /\ Late(T, wire, api) /\ SashesFit(pipe, wire, api)
      /\ \A d \in ClientIds : SashesSent(wire[d], api[d].resizes)
  BY DEF OrderInv
<1>5. /\ \A n \in Nat : n <= k /\ NoneBefore(s, n) /\ NoneBefore(w, n) =>
                            NoneBefore(a.resizes, n) /\ NoneBefore(v, n)
      /\ SashesSent(w, s) => SashesSent(v, a.resizes)
      /\ \A d, X : InputsLate(d, X, w, k) /\ (\A x \in X : x[1] = d => x[2] \in Nat /\ x[2] <= k)
                => InputsLate(d, X, v, k + 1)
                   /\ ((\A i \in DOMAIN ms : ms[i].type # "input") => InputsLate(d, X, v, k))
  <2> HIDE DEF w, v, s, k
  <2>1. v = w \o ms BY DEF v
  <2>2. Sends(ms, s, a.resizes, k) BY DEF s, k
  <2>3. SentOn(w, ms, v, s, a.resizes, k) BY <1>3, <2>1, <2>2, WireGrows
  <2> QED BY <1>3, <2>3 DEF SentOn
<1> HIDE DEF T, v
<1>6. /\ wire'[c] = v /\ api'[c] = a
      /\ \A d \in ClientIds : d # c => wire'[d] = wire[d] /\ api'[d] = api[d]
  BY <1>1, <1>3
<1>7. a.calls \in Nat /\ k <= a.calls BY <1>3
<1>8. \A x : Called(x, api) => Called(x, api')
  <2> SUFFICES ASSUME NEW x, Called(x, api) PROVE Called(x, api') OBVIOUS
  <2>1. x[1] \in ClientIds /\ x[2] \in Nat BY DEF Called
  <2>2. CASE x[1] = c BY <1>3, <1>6, <1>7, <2>1, <2>2 DEF Called
  <2>3. CASE x[1] # c BY <1>6, <2>1, <2>3 DEF Called
  <2> QED BY <2>2, <2>3
<1>9. Calm(wire, api, wire', api')
  <2> SUFFICES ASSUME NEW x, Called(x, api), NoneBefore(api[x[1]].resizes, x[2]),
                      NoneBefore(wire[x[1]], x[2])
               PROVE  NoneBefore(api'[x[1]].resizes, x[2]) /\ NoneBefore(wire'[x[1]], x[2])
    BY <1>8 DEF Calm
  <2>1. x[1] \in ClientIds /\ x[2] \in Nat /\ x[2] <= api[x[1]].calls BY DEF Called
  <2>2. CASE x[1] = c BY <1>5, <1>6, <2>1, <2>2
  <2>3. CASE x[1] # c BY <1>6, <2>1, <2>3
  <2> QED BY <2>2, <2>3
<1>10. SashesFit(pipe, wire', api')
  <2>1. IsSeq(pipe) BY <1>2 DEF PipeInv
  <2>2. PipeFollows(pipe, pipe, 0) BY <2>1, SameFollows
  <2>3. \A i \in DOMAIN pipe : i \in Int BY <2>1, SeqIs
  <2> QED BY <1>4, <1>9, <2>2, <2>3, SashesFollow
<1>11. \A d \in ClientIds : SashesSent(wire'[d], api'[d].resizes)
  BY <1>4, <1>5, <1>6
<1>12. Late(T, wire', api')
  <2>1. \A x \in T : Called(x, api') BY <1>4, <1>8 DEF Late
  <2>2. InputsLate(c, T, w, k) /\ \A x \in T : x[1] = c => x[2] \in Nat /\ x[2] <= k
    BY <1>4 DEF Late, Called
  <2>3. InputsLate(c, T, v, a.calls) BY <1>5, <2>2
  <2>4. ASSUME NEW d \in ClientIds PROVE InputsLate(d, T, wire'[d], api'[d].calls)
    <3>1. CASE d = c BY <1>6, <2>3, <3>1
    <3>2. CASE d # c BY <1>4, <1>6, <3>2 DEF Late
    <3> QED BY <3>1, <3>2
  <2> QED BY <2>1, <2>4 DEF Late
<1>13. T = Taken(typed', pipe', chain') BY <1>1 DEF T
<1>14. KeystrokesStayWhole' BY <1>1 DEF OrderInv, KeystrokesStayWhole
<1>15. Ordered(typed', pipe', replies', chain') BY <1>1 DEF OrderInv
<1>16. SashesFit(pipe', wire', api') BY <1>1, <1>10
<1>17. Late(Taken(typed', pipe', chain'), wire', api') BY <1>12, <1>13
<1> QED BY <1>11, <1>14, <1>15, <1>16, <1>17 DEF OrderInv

\* Every step of a client sends what is pending before its next call.
LEMMA ClientOrder ==
    ASSUME AnswerInv, OrderInv, NEW c \in ClientIds, Client(c) \/ FlushResizes(c)
    PROVE  OrderInv'
<1> DEFINE a == api[c]
           k == a.calls
           R == a.resizes
<1>1. /\ IsApi(a) /\ k \in Nat /\ Number(c) = k + 1
      /\ IsSeq(R) /\ \A i \in DOMAIN R : R[i].type = "resize.request"
  BY DEF AnswerInv, WireInv, IsApi, Number
<1>e. IsSeq(<<>>) /\ DOMAIN <<>> = {} BY EmptyIsSeq
<1> HIDE DEF a
<1>2. ASSUME NEW cmd, SendVerb(c, cmd) PROVE OrderInv'
  <2> DEFINE more == a.waiting \cup {[n |-> Number(c), cmd |-> cmd]}
             b == [a EXCEPT !.calls = k + 1, !.waiting = more]
             m == Request(c, cmd)
  <2>1. ClientDoes(c, b, <<m>>) /\ cmd.kind \notin Silent
    BY <1>1, <1>2 DEF SendVerb, ClientCalls, a, Number
  <2>2. b.calls = k + 1 /\ b.resizes = R
    <3> HIDE DEF more
    <3> QED BY <1>1, ApiExcept DEF ApiBecomes
  <2>3. m.type = "command.request" /\ m.n = k + 1 /\ ~IsSash(m)
    BY <1>1, <2>1 DEF Request, IsSash, Silent
  <2> HIDE DEF b, m
  <2>4. IsSeq(<<m>>) /\ Len(<<m>>) = 1 /\ DOMAIN <<m>> = {1} /\ <<m>>[1] = m BY OneIsSeq
  <2>5. Sends(<<m>>, R, b.resizes, k) BY <2>2, <2>3, <2>4 DEF Sends
  <2> QED BY <2>1, <2>2, <2>4, <2>5, ClientDoesOrder DEF a
<1>3. ASSUME NEW cmd, SendCommand(c, cmd) PROVE OrderInv'
  <2> DEFINE b == [a EXCEPT !.calls = k + 1, !.resizes = <<>>]
             m == Request(c, cmd)
             ms == Append(R, m)
  <2>1. ClientDoes(c, b, ms) BY <1>1, <1>3 DEF SendCommand, ClientCalls, a, Number
  <2>2. b.calls = k + 1 /\ b.resizes = <<>> BY <1>1, ApiExcept DEF ApiBecomes
  <2>3. m.type = "command.request" /\ m.n = k + 1 BY <1>1 DEF Request
  <2>4. /\ IsSeq(ms) /\ Len(ms) = Len(R) + 1 /\ DOMAIN ms = 1..Len(R) + 1
        /\ \A i \in DOMAIN R : ms[i] = R[i]
        /\ ms[Len(R) + 1] = m
    <3> HIDE DEF m
    <3> QED BY <1>1, AppendIsSeq
  <2>5. DOMAIN R = 1..Len(R) /\ Len(R) \in Nat BY <1>1, SeqIs
  <2> HIDE DEF b, m, ms, R
  <2>6. \A i \in DOMAIN ms : (i \in DOMAIN R /\ ms[i] = R[i]) \/ (i = Len(ms) /\ ms[i] = m)
    BY <2>4, <2>5
  <2>7. Sends(ms, R, b.resizes, k) BY <1>1, <1>e, <2>2, <2>3, <2>6 DEF Sends
  <2> QED BY <2>1, <2>2, <2>4, <2>7, ClientDoesOrder DEF a, R
<1>4. ASSUME NEW p, NEW len, SendInput(c, p, len) PROVE OrderInv'
  <2> DEFINE b == [a EXCEPT !.calls = k + 1]
             m == [type |-> "input", n |-> Number(c), pane |-> p, len |-> len]
  <2>1. ClientDoes(c, b, <<m>>) BY <1>1, <1>4 DEF SendInput, ClientCalls, a, Number
  <2>2. b.calls = k + 1 /\ b.resizes = R BY <1>1, ApiExcept DEF ApiBecomes
  <2>3. m.type = "input" /\ m.n = k + 1 /\ ~IsSash(m) BY <1>1 DEF IsSash, IsRequest
  <2> HIDE DEF b, m
  <2>4. IsSeq(<<m>>) /\ Len(<<m>>) = 1 /\ DOMAIN <<m>> = {1} /\ <<m>>[1] = m BY OneIsSeq
  <2>5. Sends(<<m>>, R, b.resizes, k) BY <2>2, <2>3, <2>4 DEF Sends
  <2> QED BY <2>1, <2>2, <2>4, <2>5, ClientDoesOrder DEF a
<1>5. ASSUME NEW p, NEW size, ResizePane(c, p, size) PROVE OrderInv'
  <2> DEFINE msg == [type |-> "resize.request", n |-> Number(c), pane |-> p, size |-> size]
             known == \E i \in DOMAIN R : R[i].pane = p
             S == IF known THEN [i \in DOMAIN R |-> IF R[i].pane = p THEN msg ELSE R[i]]
                  ELSE Append(R, msg)
             b == [a EXCEPT !.calls = k + 1, !.resizes = S]
  <2>1. ClientDoes(c, b, <<>>) BY <1>1, <1>5 DEF ResizePane, ClientCalls, a, Number
  <2>2. b.calls = k + 1 /\ b.resizes = S
    <3> HIDE DEF S
    <3> QED BY <1>1, ApiExcept DEF ApiBecomes
  <2>3. msg.n = k + 1 BY <1>1
  <2> HIDE DEF msg, b, R
  <2>4. \A j \in DOMAIN S : S[j].n = k + 1 \/ \E i \in DOMAIN R : S[j] = R[i]
    <3>1. CASE known BY <2>3, <3>1
    <3>2. CASE ~known
      <4>1. S = Append(R, msg) BY <3>2
      <4>2. /\ DOMAIN Append(R, msg) = 1..Len(R) + 1 /\ Append(R, msg)[Len(R) + 1] = msg
            /\ \A i \in DOMAIN R : Append(R, msg)[i] = R[i]
        BY <1>1, AppendIsSeq
      <4>3. DOMAIN R = 1..Len(R) /\ Len(R) \in Nat BY <1>1, SeqIs
      <4> HIDE DEF S
      <4>4. \A i \in DOMAIN Append(R, msg) : i \in DOMAIN R \/ i = Len(R) + 1 BY <4>2, <4>3
      <4> QED BY <2>3, <4>1, <4>2, <4>4
    <3> QED BY <3>1, <3>2
  <2> HIDE DEF S
  <2>5. Sends(<<>>, R, b.resizes, k) BY <1>e, <2>2, <2>4 DEF Sends
  <2> QED BY <1>e, <2>1, <2>2, <2>5, ClientDoesOrder DEF a, R
<1>6. ASSUME FlushResizes(c) PROVE OrderInv'
  <2> DEFINE b == [a EXCEPT !.resizes = <<>>]
  <2>1. ClientDoes(c, b, R) BY <1>6 DEF FlushResizes, ClientCalls, a
  <2>2. b.calls = k /\ b.resizes = <<>> BY <1>1, ApiExcept DEF ApiBecomes
  <2> HIDE DEF b
  <2>3. Sends(R, R, b.resizes, k) BY <1>1, <1>e, <2>2 DEF Sends
  <2> QED BY <1>1, <2>1, <2>2, <2>3, ClientDoesOrder DEF a
<1>7. ASSUME Disconnect(c) PROVE OrderInv'
  <2> DEFINE b == [a EXCEPT !.connected = FALSE, !.waiting = {}, !.resizes = <<>>]
  <2>1. ClientDoes(c, b, <<>>) BY <1>7 DEF Disconnect, a
  <2>2. b.calls = k /\ b.resizes = <<>> BY <1>1, ApiExcept DEF ApiBecomes
  <2> HIDE DEF b
  <2>3. Sends(<<>>, R, b.resizes, k) BY <1>e, <2>2 DEF Sends
  <2> QED BY <1>e, <2>1, <2>2, <2>3, ClientDoesOrder DEF a
<1> QED BY <1>2, <1>3, <1>4, <1>5, <1>6, <1>7 DEF Client

-----------------------------------------------------------------------------
(* tmux at work.                                                            *)

\* KeystrokesStayWhole of what was typed.
TypedWhole(t) ==
    \A j \in DOMAIN t :
        IF t[j][2] = 1 THEN \A i \in 1..j - 1 : Earlier(t[i][1], t[j][1])
        ELSE j > 1 /\ t[j - 1] = <<t[j][1], t[j][2] - 1>>

\* TypedWhole says KeystrokesStayWhole of what was typed.
LEMMA WholeIs == KeystrokesStayWhole <=> TypedWhole(typed)
BY DEF KeystrokesStayWhole, TypedWhole, Earlier

\* The replies r2 are those of r, but for one of the chunk k.
KeyReplies(r, r2, e, k, ok) ==
    \A i \in DOMAIN r2 : r2[i].slot.cont = "chunk" =>
        \/ i \in DOMAIN r /\ r2[i] = r[i]
        \/ i = e /\ r2[i].slot = k /\ r2[i].ok = ok

\* The pipe q is p without its first, which was typed or refused.
KeyGone(t, p, ch, t2, q, r2) ==
    /\ Ordered(t2, q, r2, ch) /\ TypedWhole(t2)
    /\ Taken(t2, q, ch) \subseteq Taken(t, p, ch)

\* The first key in the pipe is typed, or refused.
LEMMA KeyTyped ==
    ASSUME NEW t, NEW p, IsSeq(p), p # <<>>, NEW r, NEW ch, Ordered(t, p, r, ch), TypedWhole(t),
           NEW k, k = Head(p), k.op = "send-keys", NEW ok \in BOOLEAN,
           NEW t2, t2 = IF ok THEN Append(t, <<k.id, k.value>>) ELSE t,
           NEW q, q = Tail(p), NEW r2, NEW e, KeyReplies(r, r2, e, k, ok)
    PROVE  KeyGone(t, p, ch, t2, q, r2)
<1>0. /\ IsSeq(t) /\ IsSeq(ch)
      /\ KeysFit(t, p, ch) /\ ChunksFit(t, p, r, ch) /\ ChainFits(t, p, ch)
  BY DEF Ordered
<1>1. /\ \A i \in DOMAIN q : /\ i \in Nat /\ i + 1 \in DOMAIN p /\ q[i] = p[i + 1]
                             /\ 1 < i + 1 /\ i + 1 # 1
      /\ 1 \in DOMAIN p /\ k = p[1]
  <2>1. /\ DOMAIN q = 1..Len(p) - 1 /\ DOMAIN p = 1..Len(p) /\ Len(p) \in Nat
        /\ \A i \in DOMAIN q : q[i] = p[i + 1]
        /\ 1 \in DOMAIN p /\ k = p[1]
    BY TailIsSeq, SeqIs
  <2> QED BY <2>1
<1>2. 1 \in KeysAt(p) /\ \A i \in KeysAt(q) : i \in Nat /\ i + 1 \in KeysAt(p) /\ q[i] = p[i + 1]
  BY <1>1 DEF KeysAt
<1>3. /\ k.cont \in {"none", "chunk"} /\ KeyFits(t, p, 1)
      /\ k.cont = "chunk" => UnderWay(ch, k)
  BY <1>0, <1>1, <1>2 DEF KeysFit
<1>4. \A i \in KeysAt(q) : /\ k.cont = "none" /\ Earlier(k.id, q[i].id)
                           /\ q[i].cont \in {"none", "chunk"} /\ q[i].value = 1 /\ Unheard(t, q[i].id)
  <2> SUFFICES ASSUME NEW i \in KeysAt(q)
               PROVE  /\ k.cont = "none" /\ Earlier(k.id, q[i].id)
                      /\ q[i].cont \in {"none", "chunk"} /\ q[i].value = 1 /\ Unheard(t, q[i].id)
    OBVIOUS
  <2>1. i + 1 \in KeysAt(p) /\ q[i] = p[i + 1] /\ 1 < i + 1 /\ i + 1 # 1 BY <1>1, <1>2 DEF KeysAt
  <2>2. KeyFits(t, p, i + 1) /\ q[i].cont \in {"none", "chunk"} BY <1>0, <2>1 DEF KeysFit
  <2>3. k.cont = "none" /\ Earlier(k.id, q[i].id) BY <1>0, <1>1, <1>2, <2>1 DEF KeysFit
  <2>4. KeysAt(p) # {i + 1} BY <1>2, <2>1
  <2> QED BY <2>1, <2>2, <2>3, <2>4 DEF KeyFits
<1>5. /\ IsSeq(t2)
      /\ t2 = t \/ /\ DOMAIN t2 = 1..Len(t) + 1 /\ DOMAIN t = 1..Len(t) /\ Len(t) \in Nat
                   /\ Len(t2) = Len(t) + 1 /\ t2 # <<>>
                   /\ \A i \in DOMAIN t : t2[i] = t[i]
                   /\ t2[Len(t) + 1] = <<k.id, k.value>>
      /\ ok => t2 # <<>> /\ t2[Len(t2)] = <<k.id, k.value>>
  <2> DEFINE y == <<k.id, k.value>>
  <2>1. /\ IsSeq(Append(t, y)) /\ DOMAIN Append(t, y) = 1..Len(t) + 1
        /\ Len(Append(t, y)) = Len(t) + 1
        /\ \A i \in DOMAIN t : Append(t, y)[i] = t[i]
        /\ Append(t, y)[Len(t) + 1] = y
    <3> HIDE DEF y
    <3> QED BY <1>0, AppendIsSeq
  <2>2. DOMAIN t = 1..Len(t) /\ Len(t) \in Nat BY <1>0, SeqIs
  <2> HIDE DEF y
  <2>3. Append(t, y) # <<>>
    <3>1. Len(Append(t, y)) # 0 BY <2>1, <2>2
    <3> QED BY <3>1, EmptyIsSeq
  <2>4. t2 = t \/ t2 = Append(t, y) BY DEF y
  <2>5. ok => t2 = Append(t, y) BY DEF y
  <2>6. CASE t2 = t BY <1>0, <2>1, <2>3, <2>5, <2>6 DEF y
  <2>7. CASE t2 = Append(t, y) BY <2>1, <2>2, <2>3, <2>7 DEF y
  <2> QED BY <2>4, <2>6, <2>7
<1>6. \A i \in DOMAIN t2 : t2[i][1] = k.id \/ (i \in DOMAIN t /\ t2[i] = t[i])
  <2>1. CASE t2 = t BY <2>1
  <2>2. CASE t2 # t
    <3>1. \A i \in DOMAIN t2 : i \in DOMAIN t \/ i = Len(t) + 1 BY <1>5, <2>2
    <3> QED BY <1>5, <2>2, <3>1
  <2> QED BY <2>1, <2>2
<1>7. \A x : Unheard(t, x) /\ Earlier(k.id, x) => Unheard(t2, x) BY <1>6 DEF Unheard
<1>8. KeysFit(t2, q, ch)
  <2>1. \A i \in KeysAt(q) : KeyFits(t2, q, i) BY <1>4, <1>7 DEF KeyFits
  <2>2. \A i \in KeysAt(q) : /\ q[i].cont \in {"none", "chunk"}
                             /\ q[i].cont = "none" => q[i].value = 1
    BY <1>4
  <2>3. ASSUME NEW i \in KeysAt(q), NEW j \in KeysAt(q), i < j
        PROVE  q[i].cont = "none" /\ Earlier(q[i].id, q[j].id)
    <3>1. i + 1 < j + 1 BY <1>2, <2>3
    <3> QED BY <1>0, <1>2, <3>1 DEF KeysFit
  <2>4. \A i \in DOMAIN q : q[i].cont = "chunk" => UnderWay(ch, q[i])
    BY <1>0, <1>1 DEF KeysFit
  <2> QED BY <2>1, <2>2, <2>3, <2>4 DEF KeysFit
<1>9. ChunksFit(t2, q, r2, ch)
  <2>1. \A i \in DOMAIN r : r[i].slot.cont # "chunk" BY <1>0, <1>2 DEF ChunksFit
  <2>2. ASSUME NEW i \in DOMAIN r2, r2[i].slot.cont = "chunk"
        PROVE  i = e /\ r2[i].slot = k /\ r2[i].ok = ok
    BY <2>1, <2>2 DEF KeyReplies
  <2>3. ASSUME NEW i \in DOMAIN r2, r2[i].slot.cont = "chunk"
        PROVE  /\ UnderWay(ch, r2[i].slot) /\ KeysAt(q) = {}
               /\ r2[i].ok => LastIs(t2, r2[i].slot.id, r2[i].slot.value)
    <3>1. r2[i].slot = k /\ r2[i].ok = ok /\ k.cont = "chunk" BY <2>2, <2>3
    <3>2. KeysAt(q) = {} BY <1>4, <3>1
    <3>3. ok => LastIs(t2, k.id, k.value) BY <1>5 DEF LastIs
    <3> QED BY <1>3, <3>1, <3>2, <3>3
  <2> QED BY <2>2, <2>3 DEF ChunksFit
<1>10. ChainFits(t2, q, ch)
  <2>1. \A x : (\A i \in KeysAt(p) : Earlier(p[i].id, x)) =>
                    Earlier(k.id, x) /\ \A i \in KeysAt(q) : Earlier(q[i].id, x)
    BY <1>1, <1>2
  <2> QED BY <1>0, <1>7, <2>1 DEF ChainFits
<1>11. TypedWhole(t2)
  <2>1. CASE t2 = t BY <2>1
  <2>2. CASE t2 # t
    <3> DEFINE n == Len(t)
    <3>1. /\ DOMAIN t2 = 1..n + 1 /\ DOMAIN t = 1..n /\ n \in Nat
          /\ \A i \in DOMAIN t : t2[i] = t[i]
          /\ t2[n + 1] = <<k.id, k.value>>
      BY <1>5, <2>2
    <3>l. t # <<>> => n > 0 BY <1>0, SeqIs
    <3>f. KeyFits(t, p, 1) /\ k = p[1] BY <1>1, <1>3
    <3>e. LastIs(t, k.id, k.value - 1) => t # <<>> /\ t[n] = <<k.id, k.value - 1>> BY DEF LastIs
    <3> HIDE DEF n
    <3> SUFFICES ASSUME NEW j \in DOMAIN t2
                 PROVE  IF t2[j][2] = 1 THEN \A i \in 1..j - 1 : Earlier(t2[i][1], t2[j][1])
                        ELSE j > 1 /\ t2[j - 1] = <<t2[j][1], t2[j][2] - 1>>
      BY DEF TypedWhole
    <3>2. CASE j \in DOMAIN t
      <4>1. /\ t2[j] = t[j] /\ \A i \in 1..j - 1 : i \in DOMAIN t /\ t2[i] = t[i]
            /\ j > 1 => j - 1 \in DOMAIN t
        BY <3>1, <3>2
      <4>2. IF t[j][2] = 1 THEN \A i \in 1..j - 1 : Earlier(t[i][1], t[j][1])
            ELSE j > 1 /\ t[j - 1] = <<t[j][1], t[j][2] - 1>>
        BY <3>2 DEF TypedWhole
      <4>3. CASE t[j][2] = 1 BY <4>1, <4>2, <4>3
      <4>4. CASE t[j][2] # 1 BY <3>1, <4>1, <4>2, <4>4
      <4> QED BY <4>3, <4>4
    <3>3. CASE j \notin DOMAIN t
      <4>1. j = n + 1 /\ j - 1 = n BY <3>1, <3>3
      <4>2. t2[j][1] = k.id /\ t2[j][2] = k.value BY <3>1, <4>1
      <4>3. CASE k.value = 1
        <5>1. Unheard(t, k.id) BY <3>f, <4>3 DEF KeyFits
        <5>2. \A i \in 1..n : Earlier(t2[i][1], k.id) BY <3>1, <5>1 DEF Unheard
        <5> QED BY <4>1, <4>2, <4>3, <5>2
      <4>4. CASE k.value # 1
        <5>1. t # <<>> /\ t[n] = <<k.id, k.value - 1>> BY <3>e, <3>f, <4>4 DEF KeyFits
        <5>2. n > 0 /\ n \in DOMAIN t BY <3>1, <3>l, <5>1
        <5>3. j > 1 /\ t2[j - 1] = <<k.id, k.value - 1>> BY <3>1, <4>1, <5>1, <5>2
        <5> QED BY <4>2, <4>4, <5>3
      <4> QED BY <4>3, <4>4
    <3> QED BY <3>2, <3>3
  <2> QED BY <2>1, <2>2
<1>12. Taken(t2, q, ch) \subseteq Taken(t, p, ch)
  <2> DEFINE T == Taken(t, p, ch)
  <2>1. \A i \in DOMAIN t2 : t2[i][1] \in T
    <3>1. k.id \in T BY <1>1, <1>2 DEF Taken
    <3>2. \A i \in DOMAIN t : t[i][1] \in T BY DEF Taken
    <3> HIDE DEF T
    <3> QED BY <1>6, <3>1, <3>2
  <2>2. \A i \in KeysAt(q) : q[i].id \in T BY <1>2 DEF Taken
  <2>3. \A i \in DOMAIN ch : ch[i].id \in T BY DEF Taken
  <2> HIDE DEF T
  <2>4. Taken(t2, q, ch) \subseteq T BY <2>1, <2>2, <2>3 DEF Taken
  <2> QED BY <2>4 DEF T
<1> QED BY <1>0, <1>5, <1>8, <1>9, <1>10, <1>11, <1>12 DEF Ordered, KeyGone

-----------------------------------------------------------------------------
(* Steps that neither write nor execute a key.                              *)

\* Reading the wire or an answer puts nothing out of its order.
Reads(w, A, w2, A2) ==
    /\ Calm(w, A, w2, A2)
    /\ \A T : Late(T, w, A) => Late(T, w2, A2)
    /\ (\A c \in ClientIds : SashesSent(w[c], A[c].resizes))
            => \A c \in ClientIds : SashesSent(w2[c], A2[c].resizes)

\* Reading nothing is no matter.
LEMMA SameReads == ASSUME NEW w, NEW A PROVE Reads(w, A, w, A)
BY SameIsCalm DEF Reads

\* Of fewer calls the wire is later still.
LEMMA LateOfLess ==
    ASSUME NEW T, NEW S, S \subseteq T, NEW w, NEW A, Late(T, w, A)
    PROVE  Late(S, w, A)
BY DEF Late, InputsLate

\* The order is kept if the pipe and the replies only go on.
LEMMA QuietOrder ==
    ASSUME AnswerInv, OrderInv, UNCHANGED <<typed, chain>>, Reads(wire, api, wire', api'),
           NEW d \in Int, PipeFollows(pipe, pipe', d),
           NEW e \in Int, RepliesFollow(replies, replies', e)
    PROVE  OrderInv'
<1>1. /\ KeystrokesStayWhole /\ Ordered(typed, pipe, replies, chain)
      /\ Late(Taken(typed, pipe, chain), wire, api)
      /\ SashesFit(pipe, wire, api) /\ \A c \in ClientIds : SashesSent(wire[c], api[c].resizes)
  BY DEF OrderInv
<1>2. KeystrokesStayWhole' BY <1>1 DEF KeystrokesStayWhole
<1>3. /\ Ordered(typed, pipe', replies', chain)
      /\ Taken(typed, pipe', chain) \subseteq Taken(typed, pipe, chain)
  BY <1>1, KeysFollow, OrderFollows
<1>4. Late(Taken(typed, pipe', chain), wire, api) BY <1>1, <1>3, LateOfLess
<1>5. Late(Taken(typed, pipe', chain), wire', api') BY <1>4 DEF Reads
<1>6. \A i \in DOMAIN pipe : i \in Int BY SeqIs DEF AnswerInv, PipeInv
<1>7. SashesFit(pipe', wire', api') BY <1>1, <1>6, SashesFollow DEF Reads
<1>8. \A c \in ClientIds : SashesSent(wire'[c], api'[c].resizes) BY <1>1 DEF Reads
<1>9. Ordered(typed', pipe', replies', chain') BY <1>3
<1>10. Late(Taken(typed', pipe', chain'), wire', api') BY <1>5
<1> QED BY <1>2, <1>7, <1>8, <1>9, <1>10 DEF OrderInv

\* A new model is written with reports of sizes, which are for no client.
LEMMA BecomesLonger ==
    ASSUME PipeInv, NEW m, IsFiniteSet(DOMAIN m.windows), NEW slots, IsSeq(slots),
           ModelBecomes(m, slots)
    PROVE  \E more : /\ IsSeq(more) /\ \A k \in DOMAIN more : Plain(more[k])
                     /\ pipe' = (pipe \o slots) \o more
<1> DEFINE p == pipe \o slots
<1>1. \E more : AreReports(more) /\ pipe' = p \o more
  BY BecomesAppends, ZenonT(30)
<1> HIDE DEF p
<1>2. PICK more : AreReports(more) /\ pipe' = p \o more
  BY <1>1
<1>3. IsSeq(more) /\ \A k \in DOMAIN more : Plain(more[k]) BY <1>2 DEF AreReports, Plain
<1>4. \E s : IsSeq(s) /\ (\A k \in DOMAIN s : Plain(s[k])) /\ pipe' = p \o s
  BY <1>2, <1>3
<1> QED BY <1>4 DEF p

\* A new model and plain slots.
LEMMA BecomesPlain ==
    ASSUME PipeInv, NEW m, IsFiniteSet(DOMAIN m.windows), NEW slots, IsSeq(slots),
           \A k \in DOMAIN slots : Plain(slots[k]), ModelBecomes(m, slots)
    PROVE  PipeFollows(pipe, pipe', 0)
<1>1. PICK more : /\ IsSeq(more) /\ \A k \in DOMAIN more : Plain(more[k])
                  /\ pipe' = (pipe \o slots) \o more
  BY BecomesLonger
<1> DEFINE all == slots \o more
<1>2. pipe' = pipe \o all BY <1>1, CatAssoc DEF PipeInv
<1>3. IsSeq(all) BY <1>1, CatIsSeq
<1>4. \A k \in DOMAIN all : Plain(all[k])
  <2> HIDE DEF all
  <2>1. Joined(slots, more, all) BY <1>1, Appended DEF all
  <2> QED BY <1>1, <2>1 DEF Joined
<1> HIDE DEF all
<1> QED BY <1>2, <1>3, <1>4, PlainAppended DEF PipeInv

\* A plain slot is written.
LEMMA WritesPlain ==
    ASSUME PipeInv, ModelInv, NEW slot, Plain(slot), Writes(<<slot>>)
    PROVE  PipeFollows(pipe, pipe', 0)
<1>1. IsSeq(<<slot>>) /\ DOMAIN <<slot>> = {1} /\ <<slot>>[1] = slot BY OneIsSeq
<1> DEFINE s == <<slot>>
<1>2. IsSeq(s) /\ (\A k \in DOMAIN s : Plain(s[k])) /\ ModelBecomes(model, s)
  BY <1>1 DEF Writes
<1> HIDE DEF s
<1> QED BY <1>2, BecomesPlain DEF ModelInv

\* Nothing is written.
LEMMA WritesNone ==
    ASSUME PipeInv, ModelInv, Writes(<<>>)
    PROVE  PipeFollows(pipe, pipe', 0)
BY EmptyIsSeq, BecomesPlain DEF Writes, ModelInv

\* The first message of a client is read.
LEMMA MessageReads ==
    ASSUME WireInv, NEW c \in ClientIds, wire[c] # <<>>, wire' = [wire EXCEPT ![c] = Tail(@)]
    PROVE  Reads(wire, api, wire', api)
<1> DEFINE w == wire[c]
           v == Tail(w)
           h == Head(w)
<1>1. /\ IsSeq(w) /\ wire'[c] = v
      /\ \A d \in ClientIds : d # c => wire'[d] = wire[d]
  BY DEF WireInv
<1>2. /\ \A n : NoneBefore(w, n) => NoneBefore(v, n)
      /\ \A s : SashesSent(w, s) => SashesSent(v, s)
      /\ \A d, T, k : InputsLate(d, T, w, k) => InputsLate(d, T, v, k)
  <2> HIDE DEF w, v, h
  <2>1. /\ IsSeq(w) /\ w # <<>> /\ v = Tail(w) /\ h = Head(w) BY <1>1 DEF w, v, h
  <2> QED BY <2>1, WireTail
<1> HIDE DEF v
<1>3. Calm(wire, api, wire', api)
  <2> SUFFICES ASSUME NEW x, Called(x, api), NoneBefore(api[x[1]].resizes, x[2]),
                      NoneBefore(wire[x[1]], x[2])
               PROVE  NoneBefore(wire'[x[1]], x[2])
    BY DEF Calm
  <2>1. x[1] \in ClientIds BY DEF Called
  <2>2. CASE x[1] = c BY <1>1, <1>2, <2>2
  <2>3. CASE x[1] # c BY <1>1, <2>1, <2>3
  <2> QED BY <2>2, <2>3
<1>4. ASSUME NEW T, Late(T, wire, api) PROVE Late(T, wire', api)
  <2>1. ASSUME NEW d \in ClientIds PROVE InputsLate(d, T, wire'[d], api[d].calls)
    <3>1. InputsLate(d, T, wire[d], api[d].calls) BY <1>4 DEF Late
    <3>2. CASE d = c BY <1>1, <1>2, <3>1, <3>2
    <3>3. CASE d # c BY <1>1, <3>1, <3>3
    <3> QED BY <3>2, <3>3
  <2> QED BY <1>4, <2>1 DEF Late
<1>5. ASSUME \A d \in ClientIds : SashesSent(wire[d], api[d].resizes)
      PROVE  \A d \in ClientIds : SashesSent(wire'[d], api[d].resizes)
  <2> TAKE d \in ClientIds
  <2>1. SashesSent(wire[d], api[d].resizes) BY <1>5
  <2>2. CASE d = c BY <1>1, <1>2, <2>1, <2>2
  <2>3. CASE d # c BY <1>1, <2>1, <2>3
  <2> QED BY <2>2, <2>3
<1> QED BY <1>3, <1>4, <1>5 DEF Reads

\* And what is known of it then.
LEMMA MessageHead ==
    ASSUME AnswerInv, OrderInv, NEW c \in ClientIds, wire[c] # <<>>,
           wire' = [wire EXCEPT ![c] = Tail(@)], NEW h, h = Head(wire[c]),
           NEW x, x = <<c, h.n>>, NEW T, T = Taken(typed, pipe, chain)
    PROVE  /\ IsSash(h) => /\ Called(x, api)
                           /\ NoneBefore(api[c].resizes, h.n) /\ NoneBefore(wire'[c], h.n)
           /\ h.type = "input" => (\A y \in T : Earlier(y, x)) /\ Late(T \cup {x}, wire', api)
           /\ h.type = "resize.request" => SashesBefore(pipe, c, h.n)
<1> DEFINE w == wire[c]
           v == Tail(w)
           s == api[c].resizes
           k == api[c].calls
<1>0. WireInv BY DEF AnswerInv
<1>1. /\ IsSeq(w) /\ w # <<>> /\ wire'[c] = v /\ k \in Nat
      /\ 1 \in DOMAIN w /\ h = w[1]
      /\ IsRequest(h) => h.n \in 1..k
  <2>1. IsSeq(w) /\ w # <<>> /\ wire'[c] = v /\ k \in Nat BY <1>0 DEF WireInv, IsApi
  <2>2. 1 \in DOMAIN w /\ h = w[1] BY <2>1, TailIsSeq
  <2> QED BY <1>0, <2>1, <2>2 DEF WireInv
<1>2. /\ Late(T, wire, api) /\ SashesFit(pipe, wire, api) /\ SashesSent(w, s)
  BY DEF OrderInv
<1>3. Late(T, wire', api) BY <1>0, <1>2, MessageReads DEF Reads
<1>4. /\ \A S : SashesSent(w, S) => (IsSash(h) => NoneBefore(S, h.n) /\ NoneBefore(v, h.n))
      /\ \A d, X, n : InputsLate(d, X, w, n) =>
                (h.type = "input" => /\ h.n \in 1..n /\ \A y \in X : Earlier(y, <<d, h.n>>)
                                     /\ InputsLate(d, X \cup {<<d, h.n>>}, v, n))
  <2>1. h = Head(w) OBVIOUS
  <2>2. v = Tail(w) OBVIOUS
  <2> HIDE DEF w, v
  <2> QED BY <1>1, <2>1, <2>2, WireTail
<1> HIDE DEF v, w
<1>5. ASSUME IsSash(h)
      PROVE  Called(x, api) /\ NoneBefore(s, h.n) /\ NoneBefore(wire'[c], h.n)
  <2>1. h.n \in 1..k BY <1>1, <1>5 DEF IsSash
  <2>2. Called(x, api) BY <1>1, <2>1 DEF Called
  <2> QED BY <1>1, <1>2, <1>4, <1>5, <2>2
<1>6. ASSUME h.type = "input"
      PROVE  (\A y \in T : Earlier(y, x)) /\ Late(T \cup {x}, wire', api)
  <2>0. InputsLate(c, T, w, k) BY <1>2 DEF Late, w
  <2>1. /\ h.n \in 1..k /\ \A y \in T : Earlier(y, x)
        /\ InputsLate(c, T \cup {x}, v, k)
    BY <1>4, <1>6, <2>0
  <2>2. Called(x, api) BY <1>1, <2>1 DEF Called
  <2>3. ASSUME NEW d \in ClientIds PROVE InputsLate(d, T \cup {x}, wire'[d], api[d].calls)
    <3>1. CASE d = c BY <1>1, <2>1, <3>1
    <3>2. CASE d # c
      <4>1. InputsLate(d, T, wire'[d], api[d].calls) BY <1>3 DEF Late
      <4>2. \A n : Earlier(x, <<d, n>>) BY <3>2 DEF Earlier
      <4> QED BY <4>1, <4>2 DEF InputsLate
    <3> QED BY <3>1, <3>2
  <2>4. \A y \in T \cup {x} : Called(y, api) BY <1>2, <2>2 DEF Late
  <2> QED BY <2>1, <2>3, <2>4 DEF Late
<1>7. ASSUME h.type = "resize.request", NEW i \in DOMAIN pipe,
             pipe[i].op = "sash", pipe[i].id[1] = c
      PROVE  ~(h.n < pipe[i].id[2])
  <2>1. NoneBefore(w, pipe[i].id[2]) BY <1>2, <1>7 DEF SashesFit, SashFits, w
  <2> QED BY <1>1, <1>7, <2>1 DEF NoneBefore
<1> QED BY <1>5, <1>6, <1>7 DEF SashesBefore

\* A client reads an answer.
LEMMA ResponseReads ==
    ASSUME WireInv, NEW c \in ClientIds, HandleCommandResponse(c)
    PROVE  Reads(wire, api, wire', api')
<1>1. /\ wire' = wire
      /\ \A d \in ClientIds : api'[d].calls = api[d].calls /\ api'[d].resizes = api[d].resizes
  <2> DEFINE a == api[c]
             W == {v \in a.waiting : v.n # Head(mail[c]).id[2]}
             b == [a EXCEPT !.waiting = W]
  <2>1. api' = [api EXCEPT ![c] = b] /\ wire' = wire BY DEF HandleCommandResponse
  <2>2. DOMAIN api = ClientIds /\ IsApi(a) BY DEF WireInv
  <2>3. b.calls = a.calls /\ b.resizes = a.resizes
    <3> HIDE DEF a, W
    <3> QED BY <2>2, ApiExcept DEF ApiBecomes
  <2> HIDE DEF b
  <2>4. api'[c] = b /\ \A d \in ClientIds : d # c => api'[d] = api[d] BY <2>1, <2>2
  <2> QED BY <2>1, <2>3, <2>4
<1>2. Calm(wire, api, wire', api') BY <1>1 DEF Calm, Called
<1>3. \A T : Late(T, wire, api) => Late(T, wire', api') BY <1>1 DEF Late, Called
<1> QED BY <1>1, <1>2, <1>3 DEF Reads

-----------------------------------------------------------------------------
(* The steps of tmux and of the host.                                       *)

\* A step that leaves the wire and the chain alone, at the first of the pipe.
LEMMA ExecuteOrder == ASSUME AnswerInv, OrderInv, Execute PROVE OrderInv'
<1> DEFINE slot == Head(pipe)
           ok == Possible(slot)
           t == IF ok THEN Executed(slot) ELSE tmux
           r == Reply(slot, ok)
           out == IF t # tmux THEN <<r, Notification>> ELSE <<r>>
<1>1. /\ pipe # <<>> /\ pipe' = Tail(pipe) /\ UNCHANGED <<chain, wire, api>>
      /\ typed' = IF ok /\ slot.op = "send-keys" THEN Append(typed, <<slot.id, slot.value>>)
                  ELSE typed
      /\ replies' = replies \/ replies' = replies \o out
  BY DEF Execute, TmuxHas
<1>2. /\ KeystrokesStayWhole /\ Ordered(typed, pipe, replies, chain)
      /\ Late(Taken(typed, pipe, chain), wire, api)
      /\ SashesFit(pipe, wire, api) /\ \A c \in ClientIds : SashesSent(wire[c], api[c].resizes)
  BY DEF OrderInv
<1>3. IsSeq(pipe) /\ IsSeq(replies) /\ \A i \in DOMAIN pipe : i \in Int
  BY SeqIs DEF AnswerInv, PipeInv, RepliesInv
<1>4. 1 \in DOMAIN pipe /\ slot = pipe[1] BY <1>1, <1>3, TailIsSeq
<1>5. ok \in BOOLEAN BY DEF Possible
<1>6. r.slot = slot /\ r.ok = ok BY DEF Reply
<1>7. Notification.slot.cont # "chunk" BY DEF Notification, Reply, Slot
<1> HIDE DEF slot, ok, t, r
<1>8. IsSeq(out) /\ \A k \in DOMAIN out : out[k].slot.cont = "chunk" => k = 1 /\ out[k] = r
  <2>1. CASE out = <<r>>
    <3>1. IsSeq(out) /\ DOMAIN out = {1} /\ out[1] = r BY <2>1, OneIsSeq
    <3> HIDE DEF out
    <3> QED BY <3>1
  <2>2. CASE out = <<r, Notification>>
    <3>1. IsSeq(out) /\ DOMAIN out = {1, 2} /\ out[1] = r /\ out[2] = Notification
      BY <2>2, TwoIsSeq
    <3> HIDE DEF out
    <3> QED BY <1>7, <3>1
  <2> QED BY <2>1, <2>2
<1> HIDE DEF out
<1>9. PipeFollows(pipe, pipe', 1) BY <1>1, <1>3, PipeTail
<1>10. CASE slot.op # "send-keys"
  <2>1. slot.cont # "chunk" BY <1>2, <1>4, <1>10 DEF Ordered, KeysFit, UnderWay
  <2>2. \A k \in DOMAIN out : out[k].slot.cont # "chunk" BY <1>6, <1>8, <2>1
  <2>3. RepliesFollow(replies, replies', 0)
    <3>1. CASE replies' = replies BY <1>3, <3>1, SameFollows
    <3>2. CASE replies' = replies \o out BY <1>3, <1>8, <2>2, <3>2, RepliesAppended
    <3> QED BY <1>1, <3>1, <3>2
  <2>4. typed' = typed BY <1>1, <1>10
  <2>5. Reads(wire, api, wire', api') BY <1>1, SameReads
  <2> QED BY <1>1, <1>9, <2>3, <2>4, <2>5, QuietOrder
<1>11. CASE slot.op = "send-keys"
  <2> DEFINE e == Len(replies) + 1
  <2>1. ASSUME NEW i \in DOMAIN replies', replies'[i].slot.cont = "chunk"
        PROVE  \/ i \in DOMAIN replies /\ replies'[i] = replies[i]
               \/ i = e /\ replies'[i].slot = slot /\ replies'[i].ok = ok
    <3>1. CASE replies' = replies BY <2>1, <3>1
    <3>2. CASE replies' = replies \o out
      <4>1. /\ DOMAIN replies' = 1..Len(replies) + Len(out)
            /\ \A j \in DOMAIN replies : replies'[j] = replies[j]
            /\ \A j \in 1..Len(replies) + Len(out) :
                    j > Len(replies) => replies'[j] = out[j - Len(replies)]
        BY <1>3, <1>8, <3>2, CatIsSeq
      <4>2. /\ DOMAIN replies = 1..Len(replies) /\ Len(replies) \in Nat
            /\ DOMAIN out = 1..Len(out) /\ Len(out) \in Nat
        BY <1>3, <1>8, SeqIs
      <4>3. CASE i \in DOMAIN replies BY <4>1, <4>3
      <4>4. CASE i \notin DOMAIN replies
        <5>1. i > Len(replies) /\ i - Len(replies) \in DOMAIN out /\ i \in Nat BY <4>1, <4>2, <4>4
        <5>2. replies'[i] = out[i - Len(replies)] BY <4>1, <5>1
        <5>3. i - Len(replies) = 1 /\ replies'[i] = r BY <1>8, <2>1, <5>1, <5>2
        <5>4. i = e BY <4>2, <5>1, <5>3
        <5> QED BY <1>6, <5>3, <5>4
      <4> QED BY <4>3, <4>4
    <3> QED BY <1>1, <3>1, <3>2
  <2>2. typed' = IF ok THEN Append(typed, <<slot.id, slot.value>>) ELSE typed BY <1>1, <1>11
  <2>3. TypedWhole(typed) BY <1>2, WholeIs
  <2>4. slot = Head(pipe) BY DEF slot
  <2> HIDE DEF e
  <2>5. /\ Ordered(typed', pipe', replies', chain) /\ TypedWhole(typed')
        /\ Taken(typed', pipe', chain) \subseteq Taken(typed, pipe, chain)
    <3> DEFINE t2 == typed'
               q == pipe'
               r2 == replies'
    <3>1. /\ t2 = IF ok THEN Append(typed, <<slot.id, slot.value>>) ELSE typed
          /\ q = Tail(pipe)
      BY <1>1, <2>2
    <3>2. pipe # <<>> /\ IsSeq(pipe) /\ Ordered(typed, pipe, replies, chain) BY <1>1, <1>2, <1>3
    <3>3. KeyReplies(replies, r2, e, slot, ok) BY <2>1 DEF KeyReplies
    <3> HIDE DEF t2, q, r2
    <3>4. KeyGone(typed, pipe, chain, t2, q, r2)
      BY <1>5, <1>11, <2>3, <2>4, <3>1, <3>2, <3>3, KeyTyped
    <3> QED BY <3>4 DEF KeyGone, t2, q, r2
  <2>6. KeystrokesStayWhole' BY <2>5 DEF TypedWhole, KeystrokesStayWhole, Earlier
  <2>7. Late(Taken(typed', pipe', chain'), wire', api') BY <1>1, <1>2, <2>5, LateOfLess
  <2>8. SashesFit(pipe', wire', api')
    <3>1. Calm(wire, api, wire', api') BY <1>1, SameIsCalm
    <3> QED BY <1>2, <1>3, <1>9, <3>1, SashesFollow
  <2>9. Ordered(typed', pipe', replies', chain') BY <1>1, <2>5
  <2>10. \A c \in ClientIds : SashesSent(wire'[c], api'[c].resizes) BY <1>1, <1>2
  <2> QED BY <2>6, <2>7, <2>8, <2>9, <2>10 DEF OrderInv
<1> QED BY <1>10, <1>11

\* A pane exits by itself.
LEMMA PaneExitsOrder == ASSUME AnswerInv, OrderInv, PaneExits PROVE OrderInv'
<1> DEFINE out == <<Notification>>
<1>1. /\ UNCHANGED <<typed, chain, pipe, wire, api>>
      /\ replies' = replies \/ replies' = replies \o out
  BY DEF PaneExits, TmuxHas, history
<1>2. IsSeq(pipe) /\ IsSeq(replies) BY DEF AnswerInv, PipeInv, RepliesInv
<1>3. IsSeq(out) /\ \A k \in DOMAIN out : out[k].slot.cont # "chunk"
  <2>1. IsSeq(out) /\ DOMAIN out = {1} /\ out[1] = Notification BY OneIsSeq
  <2> HIDE DEF out
  <2> QED BY <2>1 DEF Notification, Reply, Slot
<1> HIDE DEF out
<1>4. RepliesFollow(replies, replies', 0)
  <2>1. CASE replies' = replies BY <1>2, <2>1, SameFollows
  <2>2. CASE replies' = replies \o out BY <1>2, <1>3, <2>2, RepliesAppended
  <2> QED BY <1>1, <2>1, <2>2
<1>5. PipeFollows(pipe, pipe', 0) BY <1>1, <1>2, SameFollows
<1>6. Reads(wire, api, wire', api') BY <1>1, SameReads
<1> QED BY <1>1, <1>4, <1>5, <1>6, QuietOrder

\* The exit takes along what is in the pipe, the replies and the chain.
LEMMA SeeExitOrder == ASSUME OrderInv, SeeExit PROVE OrderInv'
<1>1. /\ UNCHANGED <<typed, wire, api>> /\ pipe' = <<>> /\ replies' = <<>> /\ chain' = <<>>
  BY DEF SeeExit, history
<1>2. IsSeq(<<>>) /\ DOMAIN <<>> = {} BY EmptyIsSeq
<1>3. Ordered(typed', pipe', replies', chain')
  <2>1. IsSeq(typed) BY DEF OrderInv, Ordered
  <2>2. Ordered(typed, <<>>, <<>>, <<>>)
    BY <1>2, <2>1 DEF Ordered, KeysFit, ChunksFit, ChainFits, KeysAt
  <2> QED BY <1>1, <2>2
<1>4. Late(Taken(typed', pipe', chain'), wire', api')
  <2>1. Taken(typed, <<>>, <<>>) \subseteq Taken(typed, pipe, chain)
    BY <1>2 DEF Taken, KeysAt
  <2>2. Late(Taken(typed, <<>>, <<>>), wire, api) BY <2>1, LateOfLess DEF OrderInv
  <2> QED BY <1>1, <2>2
<1>5. KeystrokesStayWhole' BY <1>1 DEF OrderInv, KeystrokesStayWhole
<1>6. SashesFit(pipe', wire', api') BY <1>1, <1>2 DEF SashesFit
<1>7. \A c \in ClientIds : SashesSent(wire'[c], api'[c].resizes) BY <1>1 DEF OrderInv
<1> QED BY <1>3, <1>4, <1>5, <1>6, <1>7 DEF OrderInv

\* A requery is a plain slot.
LEMMA RequeryOrder == ASSUME AnswerInv, OrderInv, Requery PROVE OrderInv'
<1> DEFINE slot == Slot("list", Null, Null, Null, "requery", Null)
<1>1. Writes(<<slot>>) /\ UNCHANGED <<typed, replies, chain, api, wire>> BY DEF Requery, history
<1>2. Plain(slot) BY DEF Plain, Slot
<1>3. PipeInv /\ ModelInv /\ IsSeq(replies) BY DEF AnswerInv, RepliesInv
<1> HIDE DEF slot
<1>4. PipeFollows(pipe, pipe', 0) BY <1>1, <1>2, <1>3, WritesPlain
<1>5. RepliesFollow(replies, replies', 0) BY <1>1, <1>3, SameFollows
<1>6. Reads(wire, api, wire', api') BY <1>1, SameReads
<1> QED BY <1>1, <1>4, <1>5, <1>6, QuietOrder

\* A step that leaves all this alone, or reads an answer.
LEMMA SameOrder ==
    ASSUME AnswerInv, OrderInv, UNCHANGED <<typed, pipe, replies, chain>>,
           Reads(wire, api, wire', api')
    PROVE  OrderInv'
<1>1. IsSeq(pipe) /\ IsSeq(replies) BY DEF AnswerInv, PipeInv, RepliesInv
<1>2. PipeFollows(pipe, pipe', 0) /\ RepliesFollow(replies, replies', 0) BY <1>1, SameFollows
<1> QED BY <1>2, QuietOrder

-----------------------------------------------------------------------------
(* Replies.                                                                 *)

\* The reply of a chunk is the only one, and no key is in the pipe then.
ChunkRead(t, p, r, ch) ==
    /\ ch # <<>> /\ IsSeq(ch) /\ KeysAt(p) = {}
    /\ \A i \in DOMAIN p : p[i].cont # "chunk"
    /\ \A i \in DOMAIN Tail(r) : Tail(r)[i].slot.cont # "chunk"
    /\ Head(r).ok => LastIs(t, ch[1].id, ch[1].sent)

\* So says the order of it.
LEMMA ChunkIsRead ==
    ASSUME NEW t, NEW p, NEW r, IsSeq(r), r # <<>>, NEW ch, Ordered(t, p, r, ch),
           Head(r).slot.cont = "chunk"
    PROVE  ChunkRead(t, p, r, ch)
<1>1. /\ IsSeq(ch) /\ KeysFit(t, p, ch) /\ ChunksFit(t, p, r, ch) BY DEF Ordered
<1>2. /\ 1 \in DOMAIN r /\ Head(r) = r[1]
      /\ \A i \in DOMAIN Tail(r) : i + 1 \in DOMAIN r /\ Tail(r)[i] = r[i + 1] /\ i + 1 # 1
  <2>1. /\ DOMAIN Tail(r) = 1..Len(r) - 1 /\ DOMAIN r = 1..Len(r) /\ Len(r) \in Nat
        /\ \A i \in DOMAIN Tail(r) : Tail(r)[i] = r[i + 1]
        /\ 1 \in DOMAIN r /\ Head(r) = r[1]
    BY TailIsSeq, SeqIs
  <2> QED BY <2>1
<1>3. /\ UnderWay(ch, r[1].slot) /\ KeysAt(p) = {}
      /\ r[1].ok => LastIs(t, r[1].slot.id, r[1].slot.value)
  BY <1>1, <1>2 DEF ChunksFit
<1>4. \A i \in DOMAIN p : p[i].cont # "chunk" BY <1>1, <1>3 DEF KeysFit, UnderWay, KeysAt
<1>5. \A i \in DOMAIN Tail(r) : Tail(r)[i].slot.cont # "chunk" BY <1>1, <1>2 DEF ChunksFit
<1>6. ch # <<>> /\ r[1].slot.id = ch[1].id /\ r[1].slot.value = ch[1].sent
  BY <1>3 DEF UnderWay
<1> QED BY <1>1, <1>2, <1>3, <1>4, <1>5, <1>6 DEF ChunkRead

\* The chain without its first, or with another at its place.
LEMMA ChainTail ==
    ASSUME NEW ch, IsSeq(ch), ch # <<>>
    PROVE  /\ IsSeq(Tail(ch)) /\ 1 \in DOMAIN ch /\ Head(ch) = ch[1]
           /\ \A i \in DOMAIN Tail(ch) : i \in Nat /\ i + 1 \in DOMAIN ch /\ i + 1 > 1
                                         /\ Tail(ch)[i] = ch[i + 1]
           /\ Len(ch) > 1 => 2 \in DOMAIN ch /\ Tail(ch) # <<>> /\ Tail(ch)[1] = ch[2]
           /\ ~(Len(ch) > 1) => Tail(ch) = <<>>
<1>1. /\ IsSeq(Tail(ch)) /\ Len(Tail(ch)) = Len(ch) - 1
      /\ DOMAIN Tail(ch) = 1..Len(ch) - 1 /\ DOMAIN ch = 1..Len(ch) /\ Len(ch) \in Nat
      /\ \A i \in DOMAIN Tail(ch) : Tail(ch)[i] = ch[i + 1]
      /\ 1 \in DOMAIN ch /\ Head(ch) = ch[1]
  BY TailIsSeq, SeqIs
<1>2. Tail(ch) = <<>> <=> Len(Tail(ch)) = 0 BY <1>1, SeqIs
<1>3. Len(ch) > 1 => 2 \in DOMAIN ch /\ 1 \in DOMAIN Tail(ch) BY <1>1
<1> QED BY <1>1, <1>2, <1>3

\* The chain ch2 is ch with m for its first.
ChainAfter(ch, m, ch2) ==
    /\ IsSeq(ch2) /\ ch2 # <<>> /\ ch2[1] = m /\ 1 \in DOMAIN ch
    /\ \A i \in DOMAIN ch2 : i = 1 \/ (i > 1 /\ i \in DOMAIN ch /\ ch2[i] = ch[i])

\* Such is the chain with its first replaced.
LEMMA ChainFirst ==
    ASSUME NEW ch, IsSeq(ch), ch # <<>>, NEW m
    PROVE  ChainAfter(ch, m, <<m>> \o Tail(ch))
<1>1. /\ IsSeq(Tail(ch)) /\ Len(Tail(ch)) = Len(ch) - 1
      /\ DOMAIN Tail(ch) = 1..Len(ch) - 1 /\ DOMAIN ch = 1..Len(ch) /\ Len(ch) \in Nat
      /\ \A i \in DOMAIN Tail(ch) : Tail(ch)[i] = ch[i + 1]
      /\ 1 \in DOMAIN ch
  BY TailIsSeq, SeqIs
<1> DEFINE s == <<m>>
           v == Tail(ch)
           ch2 == s \o v
<1>2. IsSeq(s) /\ Len(s) = 1 /\ DOMAIN s = {1} /\ s[1] = m BY OneIsSeq
<1>v. IsSeq(v) /\ Len(v) = Len(ch) - 1 /\ \A i \in 1..Len(ch) - 1 : v[i] = ch[i + 1] BY <1>1
<1>4. /\ IsSeq(ch2) /\ DOMAIN ch2 = 1..1 + Len(v)
      /\ \A i \in DOMAIN s : ch2[i] = s[i]
      /\ \A i \in 1..1 + Len(v) : i > 1 => ch2[i] = v[i - 1]
  <2>1. IsSeq(s) /\ IsSeq(v) BY <1>2, <1>v
  <2> HIDE DEF s, v
  <2>2. /\ IsSeq(ch2) /\ DOMAIN ch2 = 1..Len(s) + Len(v)
        /\ \A i \in DOMAIN s : ch2[i] = s[i]
        /\ \A i \in 1..Len(s) + Len(v) : i > Len(s) => ch2[i] = v[i - Len(s)]
    BY <2>1, CatIsSeq
  <2> HIDE DEF ch2
  <2> QED BY <1>2, <2>2
<1> HIDE DEF s, v, ch2
<1>5. ch2[1] = m BY <1>2, <1>4
<1>6. ch2 # <<>> BY <1>1, <1>v, <1>4, EmptyIsSeq
<1>7. ASSUME NEW i \in DOMAIN ch2, i # 1 PROVE i > 1 /\ i \in DOMAIN ch /\ ch2[i] = ch[i]
  <2>1. i \in Nat /\ i > 1 /\ i - 1 \in 1..Len(ch) - 1 /\ i \in DOMAIN ch /\ (i - 1) + 1 = i
    BY <1>1, <1>v, <1>4, <1>7
  <2>2. ch2[i] = v[i - 1] BY <1>4, <2>1
  <2>3. v[i - 1] = ch[(i - 1) + 1] BY <1>v, <2>1
  <2> QED BY <2>1, <2>2, <2>3
<1>8. ChainAfter(ch, m, ch2) BY <1>1, <1>4, <1>5, <1>6, <1>7 DEF ChainAfter
<1> QED BY <1>8 DEF ch2, s, v

\* A message and its keys.
MessageAfter(m, m2) == IsMessage(m2) /\ m2.id = m.id /\ m2.sent = m.sent + 1

\* A message that has sent one more chunk.
LEMMA MessageFields ==
    ASSUME NEW m, IsMessage(m)
    PROVE  MessageAfter(m, [m EXCEPT !.sent = @ + 1])
<1> DEFINE m2 == [m EXCEPT !.sent = @ + 1]
<1>1. /\ m2.id = m.id /\ m2.chained = m.chained /\ m2.sent = m.sent + 1
      /\ DOMAIN m2 = DOMAIN m
  BY DEF IsMessage
<1> HIDE DEF m2
<1>2. MessageAfter(m, m2) BY <1>1 DEF IsMessage, MessageAfter
<1> QED BY <1>2 DEF m2

\* The n-th chunk of the message m.
KeyOf(m, n, k) ==
    /\ k.op = "send-keys" /\ k.id = m.id /\ k.value = n
    /\ k.cont = IF m.chained THEN "chunk" ELSE "none"

\* It is the slot that Keys makes.
LEMMA KeysOf == ASSUME NEW m, NEW n PROVE KeyOf(m, n, Keys(m, n))
BY DEF Keys, Slot, KeyOf

\* The keys and the chain after the reply of a chunk.
ChainGoesOn(t, p, r, ch, q, ch2) ==
    Ordered(t, q, Tail(r), ch2) /\ Taken(t, q, ch2) \subseteq Taken(t, p, ch)

\* After a chunk's reply: the next chunk, ...
LEMMA NextChunk ==
    ASSUME NEW t, NEW p, IsSeq(p), NEW r, NEW ch, Ordered(t, p, r, ch), ChunkRead(t, p, r, ch),
           NEW m, m = Head(ch), Head(r).ok, NEW m2, IsMessage(m) => MessageAfter(m, m2),
           NEW ch2, ChainAfter(ch, m2, ch2), NEW k, KeyOf(m, m.sent + 1, k),
           NEW q, q = p \o <<k>>
    PROVE  ChainGoesOn(t, p, r, ch, q, ch2)
<1>0. IsSeq(t) /\ IsSeq(ch) /\ ch # <<>> /\ KeysFit(t, p, ch) /\ ChainFits(t, p, ch)
  BY DEF Ordered, ChunkRead
<1>1. /\ IsSeq(ch2) /\ ch2 # <<>> /\ ch2[1] = m2 /\ 1 \in DOMAIN ch
      /\ \A i \in DOMAIN ch2 : i = 1 \/ (i > 1 /\ i \in DOMAIN ch /\ ch2[i] = ch[i])
  BY DEF ChainAfter
<1>2. m = ch[1] /\ IsMessage(m) BY <1>0, <1>1, ChainTail DEF ChainFits
<1>3. IsMessage(m2) /\ m2.id = m.id /\ m2.sent = m.sent + 1 BY <1>2 DEF MessageAfter
<1>4. k.op = "send-keys" /\ k.id = m.id /\ k.value = m.sent + 1 /\ k.cont = "chunk"
  <2>1. m.chained BY <1>2 DEF IsMessage
  <2> QED BY <2>1 DEF KeyOf
<1>5. KeyNext(t, p, Tail(r), ch2, k)
  <2>1. UnderWay(ch2, k) BY <1>1, <1>3, <1>4 DEF UnderWay
  <2>2. k.value # 1 /\ k.value - 1 = m.sent BY <1>2, <1>4 DEF IsMessage
  <2>3. LastIs(t, k.id, k.value - 1) BY <1>2, <1>4, <2>2 DEF ChunkRead
  <2> QED BY <1>4, <2>1, <2>2, <2>3 DEF KeyNext, ChunkRead
<1>6. /\ KeysFit(t, q, ch2) /\ ChunksFit(t, q, Tail(r), ch2)
      /\ \A i \in KeysAt(q) : q[i] = k
  <2>1. KeyIsIn(t, p, Tail(r), ch2, k, q) BY <1>0, <1>5, KeyWritten
  <2> QED BY <2>1 DEF KeyIsIn, ChunkRead
<1>7. ChainFits(t, q, ch2)
  <2>1. ASSUME NEW i \in DOMAIN ch2
        PROVE  /\ IsMessage(ch2[i])
               /\ i > 1 => /\ ch2[i].sent = 1 /\ Unheard(t, ch2[i].id)
                           /\ \A x \in KeysAt(q) : Earlier(q[x].id, ch2[i].id)
    <3>1. CASE i = 1 BY <1>1, <1>3, <3>1
    <3>2. CASE i > 1 /\ i \in DOMAIN ch /\ ch2[i] = ch[i]
      <4>1. Earlier(m.id, ch[i].id) BY <1>0, <1>1, <1>2, <3>2 DEF ChainFits
      <4> QED BY <1>0, <1>4, <1>6, <3>2, <4>1 DEF ChainFits
    <3> QED BY <1>1, <3>1, <3>2
  <2>2. ASSUME NEW i \in DOMAIN ch2, NEW j \in DOMAIN ch2, i < j
        PROVE  Earlier(ch2[i].id, ch2[j].id)
    <3>1. \A x \in DOMAIN ch2 : x \in DOMAIN ch /\ ch2[x].id = ch[x].id BY <1>1, <1>2, <1>3
    <3> QED BY <1>0, <2>2, <3>1 DEF ChainFits
  <2> QED BY <2>1, <2>2 DEF ChainFits
<1>8. Taken(t, q, ch2) \subseteq Taken(t, p, ch)
  <2> DEFINE T == Taken(t, p, ch)
  <2>1. \A i \in DOMAIN t : t[i][1] \in T BY DEF Taken
  <2>2. \A i \in DOMAIN ch : ch[i].id \in T BY DEF Taken
  <2> HIDE DEF T
  <2>3. \A i \in DOMAIN ch2 : ch2[i].id \in T BY <1>1, <1>2, <1>3, <2>2
  <2>k. k.id \in T BY <1>1, <1>2, <1>4, <2>2
  <2>4. \A i \in KeysAt(q) : q[i].id \in T BY <1>6, <2>k
  <2>5. Taken(t, q, ch2) \subseteq T BY <2>1, <2>3, <2>4 DEF Taken
  <2> QED BY <2>5 DEF T
<1> QED BY <1>0, <1>1, <1>6, <1>7, <1>8 DEF Ordered, ChainGoesOn

\* ... or the first of the next message, ...
LEMMA NextMessage ==
    ASSUME NEW t, NEW p, IsSeq(p), NEW r, NEW ch, Ordered(t, p, r, ch), ChunkRead(t, p, r, ch),
           Len(ch) > 1, NEW ch2, ch2 = Tail(ch), NEW k, KeyOf(ch[2], 1, k),
           NEW q, q = p \o <<k>>
    PROVE  ChainGoesOn(t, p, r, ch, q, ch2)
<1>0. IsSeq(t) /\ IsSeq(ch) /\ ch # <<>> /\ KeysFit(t, p, ch) /\ ChainFits(t, p, ch)
  BY DEF Ordered, ChunkRead
<1>1. /\ IsSeq(ch2) /\ ch2 # <<>> /\ ch2[1] = ch[2] /\ 2 \in DOMAIN ch
      /\ \A i \in DOMAIN ch2 : i \in Nat /\ i + 1 \in DOMAIN ch /\ i + 1 > 1 /\ ch2[i] = ch[i + 1]
  BY <1>0, ChainTail
<1>2. IsMessage(ch[2]) /\ ch[2].sent = 1 /\ Unheard(t, ch[2].id) BY <1>0, <1>1 DEF ChainFits
<1>4. k.op = "send-keys" /\ k.id = ch[2].id /\ k.value = 1 /\ k.cont = "chunk"
  <2>1. ch[2].chained BY <1>2 DEF IsMessage
  <2> QED BY <2>1 DEF KeyOf
<1>5. KeyNext(t, p, Tail(r), ch2, k)
  <2>1. UnderWay(ch2, k) BY <1>1, <1>2, <1>4 DEF UnderWay
  <2> QED BY <1>2, <1>4, <2>1 DEF KeyNext, ChunkRead
<1>6. /\ KeysFit(t, q, ch2) /\ ChunksFit(t, q, Tail(r), ch2)
      /\ \A i \in KeysAt(q) : q[i] = k
  <2>1. KeyIsIn(t, p, Tail(r), ch2, k, q) BY <1>0, <1>5, KeyWritten
  <2> QED BY <2>1 DEF KeyIsIn, ChunkRead
<1>7. ChainFits(t, q, ch2)
  <2>1. ASSUME NEW i \in DOMAIN ch2
        PROVE  /\ IsMessage(ch2[i])
               /\ i > 1 => /\ ch2[i].sent = 1 /\ Unheard(t, ch2[i].id)
                           /\ \A x \in KeysAt(q) : Earlier(q[x].id, ch2[i].id)
    <3>1. IsMessage(ch[i + 1]) /\ ch[i + 1].sent = 1 /\ Unheard(t, ch[i + 1].id)
      BY <1>0, <1>1 DEF ChainFits
    <3>2. i > 1 => 2 < i + 1 BY <1>1
    <3>3. i > 1 => Earlier(ch[2].id, ch[i + 1].id) BY <1>0, <1>1, <3>2 DEF ChainFits
    <3> QED BY <1>1, <1>4, <1>6, <3>1, <3>3
  <2>2. ASSUME NEW i \in DOMAIN ch2, NEW j \in DOMAIN ch2, i < j
        PROVE  Earlier(ch2[i].id, ch2[j].id)
    <3>1. i + 1 < j + 1 BY <1>1, <2>2
    <3> QED BY <1>0, <1>1, <3>1 DEF ChainFits
  <2> QED BY <2>1, <2>2 DEF ChainFits
<1>8. Taken(t, q, ch2) \subseteq Taken(t, p, ch)
  <2> DEFINE T == Taken(t, p, ch)
  <2>1. \A i \in DOMAIN t : t[i][1] \in T BY DEF Taken
  <2>2. \A i \in DOMAIN ch : ch[i].id \in T BY DEF Taken
  <2> HIDE DEF T
  <2>3. \A i \in DOMAIN ch2 : ch2[i].id \in T BY <1>1, <2>2
  <2>4. \A i \in KeysAt(q) : q[i].id \in T BY <1>1, <1>4, <1>6, <2>2
  <2>5. Taken(t, q, ch2) \subseteq T BY <2>1, <2>3, <2>4 DEF Taken
  <2> QED BY <2>5 DEF T
<1> QED BY <1>0, <1>1, <1>6, <1>7, <1>8 DEF Ordered, ChainGoesOn

\* ... or nothing.
LEMMA NextNothing ==
    ASSUME NEW t, NEW p, NEW r, NEW ch, Ordered(t, p, r, ch), ChunkRead(t, p, r, ch),
           ~(Len(ch) > 1), NEW ch2, ch2 = Tail(ch)
    PROVE  ChainGoesOn(t, p, r, ch, p, ch2)
<1>1. IsSeq(t) /\ IsSeq(ch2) /\ DOMAIN ch2 = {}
  <2>1. IsSeq(t) /\ IsSeq(ch) /\ ch # <<>> BY DEF Ordered, ChunkRead
  <2>2. ch2 = <<>> BY <2>1, ChainTail
  <2> QED BY <2>1, <2>2, EmptyIsSeq
<1>2. KeysFit(t, p, ch2) BY DEF ChunkRead, KeysFit
<1>3. ChunksFit(t, p, Tail(r), ch2) BY DEF ChunkRead, ChunksFit
<1>4. ChainFits(t, p, ch2) BY <1>1 DEF ChainFits
<1>5. Taken(t, p, ch2) \subseteq Taken(t, p, ch) BY <1>1 DEF Taken
<1> QED BY <1>1, <1>2, <1>3, <1>4, <1>5 DEF Ordered, ChainGoesOn

\* Keys among the sashes are no matter.
LEMMA SashesStay ==
    ASSUME NEW p, IsSeq(p), NEW more, IsSeq(more), NEW q, q = p \o more,
           NEW w, NEW A, SashesFit(p, w, A),
           \A k \in DOMAIN more : more[k].op = "send-keys"
    PROVE  SashesFit(q, w, A)
<1>1. \A i \in DOMAIN q : (i \in DOMAIN p /\ q[i] = p[i]) \/ q[i].op = "send-keys"
  <2>1. Joined(p, more, q) BY Appended
  <2> QED BY <2>1 DEF Joined
<1>2. ASSUME NEW i \in DOMAIN q, q[i].op = "sash" PROVE SashFits(q[i].id, q, i, w, A)
  <2>1. i \in DOMAIN p /\ q[i] = p[i] BY <1>1, <1>2
  <2>2. SashFits(p[i].id, p, i, w, A) BY <1>2, <2>1 DEF SashesFit
  <2>3. \A j \in DOMAIN q : q[j].op = "size" => j \in DOMAIN p /\ q[j] = p[j] BY <1>1
  <2> QED BY <2>1, <2>2, <2>3 DEF SashFits
<1> QED BY <1>2 DEF SashesFit

\* So they are when the pipe goes on and has one key more.
LEMMA SashesGoOn ==
    ASSUME NEW p, IsSeq(p), NEW q, PipeFollows(p, q, 0),
           NEW w, NEW A, NEW w2, NEW A2, Calm(w, A, w2, A2), SashesFit(p, w, A)
    PROVE  SashesFit(q, w2, A2)
<1>1. \A i \in DOMAIN p : i \in Int BY SeqIs
<1> QED BY <1>1, SashesFollow

\* Keys are written, and all that is in order with them stays so.
LEMMA KeysOrder ==
    ASSUME AnswerInv, OrderInv, UNCHANGED typed, Reads(wire, api, wire', api'),
           NEW slots, IsSeq(slots), \A k \in DOMAIN slots : slots[k].op = "send-keys",
           Writes(slots), IsSeq(replies'), NEW q, q = pipe \o slots,
           Ordered(typed, q, replies', chain'), Late(Taken(typed, q, chain'), wire', api')
    PROVE  OrderInv'
<1>1. PipeInv /\ ModelInv /\ IsSeq(pipe) BY DEF AnswerInv, PipeInv
<1>2. PICK more : /\ IsSeq(more) /\ \A k \in DOMAIN more : Plain(more[k])
                  /\ pipe' = q \o more
  BY <1>1, BecomesLonger DEF Writes, ModelInv
<1>3. IsSeq(q) BY <1>1, CatIsSeq
<1>4. PipeFollows(q, pipe', 0) BY <1>2, <1>3, PlainAppended
<1>5. SashesFit(pipe', wire', api')
  <2>1. SashesFit(q, wire, api) BY <1>1, SashesStay DEF OrderInv
  <2>2. Calm(wire, api, wire', api') BY DEF Reads
  <2> QED BY <1>3, <1>4, <2>1, <2>2, SashesGoOn
<1>6. RepliesFollow(replies', replies', 0) BY SameFollows
<1>7. /\ Ordered(typed, pipe', replies', chain')
      /\ Taken(typed, pipe', chain') \subseteq Taken(typed, q, chain')
  BY <1>4, <1>6, KeysFollow, OrderFollows
<1>8. Late(Taken(typed, pipe', chain'), wire', api') BY <1>7, LateOfLess
<1>9. Ordered(typed', pipe', replies', chain') BY <1>7
<1>10. Late(Taken(typed', pipe', chain'), wire', api') BY <1>8
<1>11. KeystrokesStayWhole' BY DEF OrderInv, KeystrokesStayWhole
<1>12. \A c \in ClientIds : SashesSent(wire'[c], api'[c].resizes) BY DEF OrderInv, Reads
<1> QED BY <1>5, <1>9, <1>10, <1>11, <1>12 DEF OrderInv

\* A chunk's reply is read.
LEMMA NextKeysOrder ==
    ASSUME AnswerInv, OrderInv, replies # <<>>, replies' = Tail(replies),
           UNCHANGED <<typed, wire, api>>, Head(replies).slot.cont = "chunk",
           NextKeys(Head(replies).ok)
    PROVE  OrderInv'
<1> DEFINE m == Head(chain)
           ok == Head(replies).ok
           more == ok /\ m.sent < m.len
           m2 == [m EXCEPT !.sent = @ + 1]
           k == Keys(m, m.sent + 1)
           k1 == Keys(chain[2], 1)
           slots == IF more THEN <<k>> ELSE IF Len(chain) > 1 THEN <<k1>> ELSE <<>>
           q == pipe \o slots
<1>1. /\ chain' = IF more THEN <<m2>> \o Tail(chain) ELSE Tail(chain)
      /\ Writes(slots)
  BY DEF NextKeys
<1>2. /\ IsSeq(pipe) /\ IsSeq(replies) /\ Ordered(typed, pipe, replies, chain)
      /\ Late(Taken(typed, pipe, chain), wire, api)
  BY DEF AnswerInv, PipeInv, RepliesInv, OrderInv
<1>3. ChunkRead(typed, pipe, replies, chain) BY <1>2, ChunkIsRead
<1>4. IsSeq(chain) /\ chain # <<>> BY <1>3 DEF ChunkRead
<1>5. /\ KeyOf(m, m.sent + 1, k) /\ KeyOf(chain[2], 1, k1)
      /\ IsMessage(m) => MessageAfter(m, m2)
      /\ ChainAfter(chain, m2, <<m2>> \o Tail(chain))
  <2>1. KeyOf(m, m.sent + 1, k) /\ KeyOf(chain[2], 1, k1) BY KeysOf
  <2>2. IsMessage(m) => MessageAfter(m, m2) BY MessageFields
  <2> HIDE DEF m2
  <2> QED BY <1>4, <2>1, <2>2, ChainFirst
<1>6. IsSeq(slots) /\ \A i \in DOMAIN slots : slots[i].op = "send-keys"
  <2>1. k.op = "send-keys" /\ k1.op = "send-keys" BY <1>5 DEF KeyOf
  <2> HIDE DEF k, k1, more
  <2>2. /\ IsSeq(<<k>>) /\ DOMAIN <<k>> = {1} /\ <<k>>[1] = k
        /\ IsSeq(<<k1>>) /\ DOMAIN <<k1>> = {1} /\ <<k1>>[1] = k1
        /\ IsSeq(<<>>) /\ DOMAIN <<>> = {}
    BY OneIsSeq, EmptyIsSeq
  <2>3. slots = <<k>> \/ slots = <<k1>> \/ slots = <<>> OBVIOUS
  <2> HIDE DEF slots
  <2> QED BY <2>1, <2>2, <2>3
<1>7. ChainGoesOn(typed, pipe, replies, chain, q, chain')
  <2>1. CASE more
    <3>1. chain' = <<m2>> \o Tail(chain) /\ q = pipe \o <<k>> BY <1>1, <2>1
    <3>2. ChainAfter(chain, m2, chain') BY <1>5, <3>1
    <3>3. m = Head(chain) /\ ok BY <2>1
    <3> HIDE DEF m, m2, k, q, more, slots
    <3> QED BY <1>2, <1>3, <1>5, <3>1, <3>2, <3>3, NextChunk
  <2>2. CASE ~more /\ Len(chain) > 1
    <3>1. chain' = Tail(chain) /\ q = pipe \o <<k1>> BY <1>1, <2>2
    <3> HIDE DEF m, m2, k1, q, more, slots
    <3> QED BY <1>2, <1>3, <1>5, <2>2, <3>1, NextMessage
  <2>3. CASE ~more /\ ~(Len(chain) > 1)
    <3>1. chain' = Tail(chain) /\ q = pipe \o <<>> BY <1>1, <2>3
    <3>2. q = pipe BY <1>2, <3>1, CatEmpty
    <3>3. ChainGoesOn(typed, pipe, replies, chain, pipe, chain')
      BY <1>2, <1>3, <2>3, <3>1, NextNothing
    <3> QED BY <3>2, <3>3
  <2> QED BY <2>1, <2>2, <2>3
<1> HIDE DEF q, slots
<1>8. /\ Ordered(typed, q, replies', chain')
      /\ Taken(typed, q, chain') \subseteq Taken(typed, pipe, chain)
  BY <1>7 DEF ChainGoesOn
<1>9. Late(Taken(typed, q, chain'), wire', api') BY <1>2, <1>8, LateOfLess
<1>10. Reads(wire, api, wire', api') BY SameReads
<1>11. IsSeq(replies') BY <1>2, TailIsSeq
<1> QED BY <1>1, <1>6, <1>8, <1>9, <1>10, <1>11, KeysOrder DEF q

\* Every other reply writes nothing but reports.
LEMMA ReplyWrites ==
    ASSUME AnswerInv, Receive, IsReply(Head(replies), did)
    PROVE  \/ UNCHANGED chain /\ PipeFollows(pipe, pipe', 0)
           \/ Head(replies).slot.cont = "chunk" /\ NextKeys(Head(replies).ok)
<1> DEFINE r == Head(replies)
           slot == r.slot
<1>0. IsReply(r, did) /\ PipeInv /\ ModelInv BY DEF AnswerInv
<1>1. \/ Notified
      \/ /\ \/ CreatingReply(slot, r.ok, r.body) \/ AckReply(slot, r.ok) \/ OptionReply(slot, r.ok)
            \/ ListReply(slot, r.body) \/ NoReply(slot)
         /\ UNCHANGED chain
      \/ slot.cont = "chunk" /\ NextKeys(r.ok)
  BY DEF Receive
<1> HIDE DEF r
<1>2. CASE Notified BY <1>0, <1>2, WritesNone DEF Notified
<1>3. CASE /\ UNCHANGED chain
           /\ CreatingReply(slot, r.ok, r.body) \/ AckReply(slot, r.ok) \/ NoReply(slot)
  <2>1. Writes(<<>>) BY <1>3 DEF CreatingReply, AckReply, NoReply
  <2> QED BY <1>0, <1>3, <2>1, WritesNone
<1>4. CASE UNCHANGED chain /\ OptionReply(slot, r.ok)
  <2> DEFINE m == Patched(model, slot.op, slot.pane, slot.window, slot.was, slot.id[1])
  <2>1. Writes(<<>>) \/ ModelBecomes(m, <<>>) BY <1>4 DEF OptionReply
  <2>2. IsFiniteSet(DOMAIN m.windows) BY <1>0, PatchedDomains DEF ModelInv, Inv
  <2> HIDE DEF m
  <2>3. PipeFollows(pipe, pipe', 0)
    <3>1. IsSeq(<<>>) /\ \A i \in DOMAIN <<>> : Plain(<<>>[i]) BY EmptyIsSeq
    <3> QED BY <1>0, <2>1, <2>2, <3>1, WritesNone, BecomesPlain
  <2> QED BY <1>4, <2>3
<1>5. CASE UNCHANGED chain /\ ListReply(slot, r.body)
  <2> DEFINE m == carryForwardOverlays(model,
                    buildInitialModel(r.body.windows, r.body.panes, r.body.layout))
  <2>1. Writes(<<>>) \/ ModelBecomes(m, <<>>) BY <1>5 DEF ListReply
  <2>2. IsFiniteSet(DOMAIN m.windows)
    <3>1. DOMAIN m.windows = DOMAIN r.body.windows
      BY DEF carryForwardOverlays, buildInitialModel
    <3>2. slot.cont = "requery" BY <1>5 DEF ListReply
    <3> QED BY <1>0, <3>1, <3>2 DEF IsReply
  <2> HIDE DEF m
  <2>3. PipeFollows(pipe, pipe', 0)
    <3>1. IsSeq(<<>>) /\ \A i \in DOMAIN <<>> : Plain(<<>>[i]) BY EmptyIsSeq
    <3> QED BY <1>0, <2>1, <2>2, <3>1, WritesNone, BecomesPlain
  <2> QED BY <1>5, <2>3
<1>6. CASE slot.cont = "chunk" /\ NextKeys(r.ok) BY <1>6 DEF r
<1> QED BY <1>1, <1>2, <1>3, <1>4, <1>5, <1>6

\* A reply is read.
LEMMA ReceiveOrder == ASSUME AnswerInv, OrderInv, Receive PROVE OrderInv'
<1>1. /\ replies # <<>> /\ replies' = Tail(replies) /\ UNCHANGED <<typed, wire, api>>
  BY DEF Receive, history
<1>2. RepliesInv /\ IsSeq(replies) BY DEF AnswerInv, RepliesInv
<1>3. IsReply(Head(replies), did) BY <1>1, <1>2, TailIsSeq DEF RepliesInv
<1>4. CASE UNCHANGED chain /\ PipeFollows(pipe, pipe', 0)
  <2>1. RepliesFollow(replies, replies', 1) BY <1>1, <1>2, RepliesTail
  <2>2. Reads(wire, api, wire', api') BY <1>1, SameReads
  <2> QED BY <1>1, <1>4, <2>1, <2>2, QuietOrder
<1>5. CASE Head(replies).slot.cont = "chunk" /\ NextKeys(Head(replies).ok)
  BY <1>1, <1>5, NextKeysOrder
<1> QED BY <1>3, <1>4, <1>5, ReplyWrites

-----------------------------------------------------------------------------
(* Input.                                                                   *)

\* A new call x types: what is in order stays so, with x taken.
InputIn(t, p, r, ch, x, q, ch2) ==
    Ordered(t, q, r, ch2) /\ Taken(t, q, ch2) \subseteq Taken(t, p, ch) \cup {x}

\* While the chain is empty its first key is written at once.
LEMMA InputStarts ==
    ASSUME NEW t, NEW p, IsSeq(p), NEW r, NEW ch, ch = <<>>, Ordered(t, p, r, ch),
           NEW x, \A y \in Taken(t, p, ch) : Earlier(y, x),
           NEW m, m.id = x, m.sent = 1, NEW ch2, IsSeq(ch2), NEW k, KeyOf(m, 1, k),
           \/ m.chained = FALSE /\ ch2 = ch
           \/ IsMessage(m) /\ DOMAIN ch2 = {1} /\ ch2[1] = m,
           NEW q, q = p \o <<k>>
    PROVE  InputIn(t, p, r, ch, x, q, ch2)
<1>0. IsSeq(t) /\ KeysFit(t, p, ch) /\ ChunksFit(t, p, r, ch) BY DEF Ordered
<1>1. /\ \A i \in DOMAIN p : p[i].cont # "chunk"
      /\ \A i \in DOMAIN r : r[i].slot.cont # "chunk"
  BY <1>0 DEF KeysFit, ChunksFit, UnderWay
<1>2. Unheard(t, x) /\ \A i \in KeysAt(p) : Earlier(p[i].id, x) BY DEF Unheard, Taken
<1>3. DOMAIN ch = {} BY EmptyIsSeq
<1>4. /\ k.op = "send-keys" /\ k.id = x /\ k.value = 1
      /\ k.cont = IF m.chained THEN "chunk" ELSE "none"
  BY DEF KeyOf
<1>5. k.cont = "none" \/ (k.cont = "chunk" /\ UnderWay(ch2, k))
  <2>1. CASE m.chained = FALSE BY <1>4, <2>1
  <2>2. CASE IsMessage(m) /\ DOMAIN ch2 = {1} /\ ch2[1] = m
    <3>1. k.cont = "chunk" BY <1>4, <2>2 DEF IsMessage
    <3>2. ch2 # <<>> BY <2>2, EmptyIsSeq
    <3> QED BY <1>4, <2>2, <3>1, <3>2 DEF UnderWay
  <2> QED BY <2>1, <2>2
<1>6. KeyNext(t, p, r, ch2, k) BY <1>1, <1>2, <1>4, <1>5 DEF KeyNext
<1>7. KeyIsIn(t, p, r, ch2, k, q) BY <1>0, <1>6, KeyWritten
<1>8. ChainFits(t, q, ch2)
  <2>1. CASE ch2 = ch BY <1>3, <2>1 DEF ChainFits
  <2>2. CASE IsMessage(m) /\ DOMAIN ch2 = {1} /\ ch2[1] = m
    <3>1. ~(1 > 1) /\ ~(1 < 1) OBVIOUS
    <3> QED BY <2>2, <3>1 DEF ChainFits
  <2> QED BY <2>1, <2>2
<1>9. Taken(t, q, ch2) \subseteq Taken(t, p, ch) \cup {x}
  <2> DEFINE T == Taken(t, p, ch) \cup {x}
  <2>1. \A i \in DOMAIN t : t[i][1] \in T BY DEF Taken
  <2>2. \A i \in KeysAt(p) : p[i].id \in T BY DEF Taken
  <2>x. x \in T OBVIOUS
  <2> HIDE DEF T
  <2>3. \A i \in KeysAt(q) : q[i].id \in T BY <1>4, <1>7, <2>2, <2>x DEF KeyIsIn
  <2>4. \A i \in DOMAIN ch2 : ch2[i].id \in T
    <3>1. CASE ch2 = ch BY <1>3, <3>1
    <3>2. CASE DOMAIN ch2 = {1} /\ ch2[1] = m BY <2>x, <3>2
    <3> QED BY <3>1, <3>2
  <2>5. Taken(t, q, ch2) \subseteq T BY <2>1, <2>3, <2>4 DEF Taken
  <2> QED BY <2>5 DEF T
<1> QED BY <1>0, <1>7, <1>8, <1>9 DEF InputIn, Ordered, KeyIsIn

\* Otherwise it waits as the chain's last.
ChainLonger(ch, m, ch2) ==
    /\ IsSeq(ch2) /\ ch2 # <<>> /\ 1 \in DOMAIN ch /\ ch2[1] = ch[1]
    /\ \A i \in DOMAIN ch2 : \/ i \in DOMAIN ch /\ ch2[i] = ch[i]
                             \/ /\ i \notin DOMAIN ch /\ i > 1 /\ ch2[i] = m
                                /\ \A j \in DOMAIN ch2 : ~(i < j)

\* So it is with a message appended.
LEMMA ChainAppended ==
    ASSUME NEW ch, IsSeq(ch), ch # <<>>, NEW m
    PROVE  ChainLonger(ch, m, Append(ch, m))
<1> DEFINE ch2 == Append(ch, m)
<1>1. /\ IsSeq(ch2) /\ DOMAIN ch2 = 1..Len(ch) + 1
      /\ \A i \in DOMAIN ch : ch2[i] = ch[i]
      /\ ch2[Len(ch) + 1] = m
  BY AppendIsSeq
<1>2. DOMAIN ch = 1..Len(ch) /\ Len(ch) \in Nat /\ Len(ch) # 0 BY SeqIs
<1> HIDE DEF ch2
<1>3. ch2 # <<>> BY <1>1, <1>2, EmptyIsSeq
<1>4. 1 \in DOMAIN ch /\ ch2[1] = ch[1] BY <1>1, <1>2
<1>5. ASSUME NEW i \in DOMAIN ch2, i \notin DOMAIN ch
      PROVE  i > 1 /\ ch2[i] = m /\ \A j \in DOMAIN ch2 : ~(i < j)
  <2>1. i = Len(ch) + 1 BY <1>1, <1>2, <1>5
  <2> QED BY <1>1, <1>2, <2>1
<1>6. ChainLonger(ch, m, ch2) BY <1>1, <1>3, <1>4, <1>5 DEF ChainLonger
<1> QED BY <1>6 DEF ch2

\* The order is kept with that message.
LEMMA InputWaits ==
    ASSUME NEW t, NEW p, NEW r, NEW ch, Ordered(t, p, r, ch),
           NEW x, \A y \in Taken(t, p, ch) : Earlier(y, x),
           NEW m, m.id = x, IsMessage(m), m.sent = 1, NEW ch2, ChainLonger(ch, m, ch2)
    PROVE  InputIn(t, p, r, ch, x, p, ch2)
<1>0. /\ IsSeq(t) /\ KeysFit(t, p, ch) /\ ChunksFit(t, p, r, ch) /\ ChainFits(t, p, ch)
      /\ IsSeq(ch2) /\ ch2 # <<>> /\ 1 \in DOMAIN ch /\ ch2[1] = ch[1]
      /\ \A i \in DOMAIN ch2 : \/ i \in DOMAIN ch /\ ch2[i] = ch[i]
                               \/ /\ i \notin DOMAIN ch /\ i > 1 /\ ch2[i] = m
                                  /\ \A j \in DOMAIN ch2 : ~(i < j)
  BY DEF Ordered, ChainLonger
<1>1. \A s : UnderWay(ch, s) => UnderWay(ch2, s) BY <1>0 DEF UnderWay
<1>2. KeysFit(t, p, ch2) BY <1>0, <1>1 DEF KeysFit
<1>3. ChunksFit(t, p, r, ch2) BY <1>0, <1>1 DEF ChunksFit
<1>4. /\ Unheard(t, x) /\ \A i \in KeysAt(p) : Earlier(p[i].id, x)
      /\ \A i \in DOMAIN ch : Earlier(ch[i].id, x)
  BY DEF Unheard, Taken
<1>5. ChainFits(t, p, ch2)
  <2>1. ASSUME NEW i \in DOMAIN ch2
        PROVE  /\ IsMessage(ch2[i])
               /\ i > 1 => /\ ch2[i].sent = 1 /\ Unheard(t, ch2[i].id)
                           /\ \A z \in KeysAt(p) : Earlier(p[z].id, ch2[i].id)
    <3>1. CASE i \in DOMAIN ch /\ ch2[i] = ch[i] BY <1>0, <3>1 DEF ChainFits
    <3>2. CASE ch2[i] = m BY <1>4, <3>2
    <3> QED BY <1>0, <3>1, <3>2
  <2>2. ASSUME NEW i \in DOMAIN ch2, NEW j \in DOMAIN ch2, i < j
        PROVE  Earlier(ch2[i].id, ch2[j].id)
    <3>1. i \in DOMAIN ch /\ ch2[i] = ch[i] BY <1>0, <2>2
    <3>2. CASE j \in DOMAIN ch /\ ch2[j] = ch[j] BY <1>0, <2>2, <3>1, <3>2 DEF ChainFits
    <3>3. CASE ch2[j] = m BY <1>4, <3>1, <3>3
    <3> QED BY <1>0, <3>2, <3>3
  <2> QED BY <2>1, <2>2 DEF ChainFits
<1>6. Taken(t, p, ch2) \subseteq Taken(t, p, ch) \cup {x}
  <2> DEFINE T == Taken(t, p, ch) \cup {x}
  <2>1. \A i \in DOMAIN t : t[i][1] \in T BY DEF Taken
  <2>2. \A i \in KeysAt(p) : p[i].id \in T BY DEF Taken
  <2>3. \A i \in DOMAIN ch : ch[i].id \in T BY DEF Taken
  <2>x. x \in T OBVIOUS
  <2> HIDE DEF T
  <2>4. \A i \in DOMAIN ch2 : ch2[i].id \in T BY <1>0, <2>3, <2>x
  <2>5. Taken(t, p, ch2) \subseteq T BY <2>1, <2>2, <2>4 DEF Taken
  <2> QED BY <2>5 DEF T
<1> QED BY <1>0, <1>2, <1>3, <1>5, <1>6 DEF InputIn, Ordered

\* An input message is handled.
LEMMA HandleInputOrder ==
    ASSUME AnswerInv, OrderInv, UNCHANGED <<typed, replies, api>>, Reads(wire, api, wire', api),
           NEW msg, NEW x, HandleInput(x, msg),
           \A y \in Taken(typed, pipe, chain) : Earlier(y, x),
           Late(Taken(typed, pipe, chain) \cup {x}, wire', api)
    PROVE  OrderInv'
<1> DEFINE direct == Direct(msg.len)
           m == [id |-> x, pane |-> msg.pane, len |-> msg.len, sent |-> 1, chained |-> ~direct]
           k == Keys(m, 1)
           wait == m.chained /\ chain # <<>>
           slots == IF wait THEN <<>> ELSE <<k>>
           q == pipe \o slots
<1>1. \/ Writes(<<>>) /\ UNCHANGED chain
      \/ /\ chain' = IF m.chained THEN Append(chain, m) ELSE chain
         /\ Writes(slots)
  BY DEF HandleInput
<1>2. /\ PipeInv /\ ModelInv /\ IsSeq(pipe) /\ IsSeq(replies)
      /\ Ordered(typed, pipe, replies, chain) /\ IsSeq(chain)
  BY DEF AnswerInv, PipeInv, RepliesInv, OrderInv, Ordered
<1>3. Reads(wire, api, wire', api') /\ Late(Taken(typed, pipe, chain) \cup {x}, wire', api')
  OBVIOUS
<1>4. CASE Writes(<<>>) /\ UNCHANGED chain
  <2>1. PipeFollows(pipe, pipe', 0) BY <1>2, <1>4, WritesNone
  <2>2. RepliesFollow(replies, replies', 0) BY <1>2, SameFollows
  <2> QED BY <1>3, <1>4, <2>1, <2>2, QuietOrder
<1>5. CASE /\ chain' = IF m.chained THEN Append(chain, m) ELSE chain
           /\ Writes(slots)
  <2>1. /\ m.id = x /\ m.sent = 1 /\ m.chained = ~direct /\ (m.chained => IsMessage(m))
        /\ DOMAIN m = {"id", "pane", "len", "sent", "chained"}
    <3>1. 1 \in Nat \ {0} OBVIOUS
    <3> QED BY <3>1 DEF IsMessage
  <2>2. direct \in BOOLEAN /\ (direct => chain = <<>>) BY DEF Direct
  <2>3. KeyOf(m, 1, k) BY KeysOf
  <2> HIDE DEF direct, m, k
  <2>4. IsSeq(slots) /\ \A i \in DOMAIN slots : slots[i].op = "send-keys"
    <3>1. /\ IsSeq(<<k>>) /\ DOMAIN <<k>> = {1} /\ <<k>>[1] = k
          /\ IsSeq(<<>>) /\ DOMAIN <<>> = {}
      BY OneIsSeq, EmptyIsSeq
    <3>2. slots = <<k>> \/ slots = <<>> OBVIOUS
    <3> HIDE DEF slots
    <3> QED BY <2>3, <3>1, <3>2 DEF KeyOf
  <2>5. InputIn(typed, pipe, replies, chain, x, q, chain')
    <3>1. CASE wait
      <4>1. chain' = Append(chain, m) /\ q = pipe \o <<>> /\ chain # <<>> BY <1>5, <3>1
      <4>2. q = pipe BY <1>2, <4>1, CatEmpty
      <4>3. ChainLonger(chain, m, chain') BY <1>2, <4>1, ChainAppended
      <4>4. IsMessage(m) BY <2>1, <3>1
      <4> HIDE DEF q, slots, wait
      <4>5. InputIn(typed, pipe, replies, chain, x, pipe, chain')
        BY <1>2, <2>1, <4>3, <4>4, InputWaits
      <4> QED BY <4>2, <4>5
    <3>2. CASE ~wait
      <4>1. q = pipe \o <<k>> /\ chain = <<>> BY <2>1, <2>2, <3>2
      <4>2. IsSeq(chain') /\ (\/ m.chained = FALSE /\ chain' = chain
                              \/ IsMessage(m) /\ DOMAIN chain' = {1} /\ chain'[1] = m)
        <5>1. CASE direct BY <1>2, <1>5, <2>1, <5>1
        <5>2. CASE ~direct
          <6>1. m.chained /\ IsMessage(m) /\ chain' = Append(chain, m) BY <1>5, <2>1, <2>2, <5>2
          <6>2. /\ IsSeq(Append(chain, m)) /\ DOMAIN Append(chain, m) = 1..Len(chain) + 1
                /\ Append(chain, m)[Len(chain) + 1] = m
            BY <1>2, AppendIsSeq
          <6>3. Len(chain) = 0 /\ 1..0 + 1 = {1} BY <4>1, EmptyIsSeq
          <6>4. Len(chain) + 1 = 1 BY <6>3
          <6> QED BY <6>1, <6>2, <6>3, <6>4
        <5> QED BY <2>2, <5>1, <5>2
      <4> HIDE DEF q, slots, wait
      <4> DEFINE ch2 == chain'
      <4>3. IsSeq(ch2) /\ (\/ m.chained = FALSE /\ ch2 = chain
                           \/ IsMessage(m) /\ DOMAIN ch2 = {1} /\ ch2[1] = m)
        BY <4>2
      <4> HIDE DEF ch2
      <4>4. InputIn(typed, pipe, replies, chain, x, q, ch2)
        BY <1>2, <2>1, <2>3, <4>1, <4>3, InputStarts
      <4> QED BY <4>4 DEF ch2
    <3> QED BY <3>1, <3>2
  <2>6. q = pipe \o slots OBVIOUS
  <2> HIDE DEF q, slots
  <2>7. /\ Ordered(typed, q, replies', chain')
        /\ Taken(typed, q, chain') \subseteq Taken(typed, pipe, chain) \cup {x}
    BY <2>5 DEF InputIn
  <2>8. Late(Taken(typed, q, chain'), wire', api') BY <1>3, <2>7, LateOfLess
  <2>9. Writes(slots) /\ IsSeq(replies') BY <1>2, <1>5
  <2> QED BY <1>3, <2>4, <2>6, <2>7, <2>8, <2>9, KeysOrder
<1> QED BY <1>1, <1>4, <1>5

-----------------------------------------------------------------------------
(* Boxes, sashes and the other commands.                                    *)

\* Slots that are no keys are appended.
LEMMA KeylessAppended ==
    ASSUME NEW p, IsSeq(p), NEW more, IsSeq(more), \A k \in DOMAIN more : Keyless(more[k]),
           NEW q, q = p \o more
    PROVE  KeysGo(p, q, 0)
<1>1. \A i \in DOMAIN q : i \in Nat /\ (\/ i \in DOMAIN p /\ q[i] = p[i]
                                        \/ \E k \in DOMAIN more : q[i] = more[k])
  <2>1. Joined(p, more, q) BY Appended
  <2> QED BY <2>1 DEF Joined
<1>2. \A i \in DOMAIN q : i \in Int /\ i + 0 = i BY <1>1
<1> QED BY <1>1, <1>2 DEF KeysGo

\* If the sashes fit, and no key is written, all stays in order.
LEMMA KeylessOrder ==
    ASSUME AnswerInv, OrderInv, UNCHANGED <<typed, chain, replies>>, Reads(wire, api, wire', api'),
           KeysGo(pipe, pipe', 0), SashesFit(pipe', wire', api')
    PROVE  OrderInv'
<1>1. RepliesFollow(replies, replies', 0) BY SameFollows DEF AnswerInv, RepliesInv
<1>2. /\ Ordered(typed, pipe', replies', chain)
      /\ Taken(typed, pipe', chain) \subseteq Taken(typed, pipe, chain)
  BY <1>1, OrderFollows DEF OrderInv
<1>3. Late(Taken(typed, pipe', chain), wire, api) BY <1>2, LateOfLess DEF OrderInv
<1>4. Late(Taken(typed, pipe', chain), wire', api') BY <1>3 DEF Reads
<1>5. Late(Taken(typed', pipe', chain'), wire', api') BY <1>4
<1>6. Ordered(typed', pipe', replies', chain') BY <1>2
<1>7. \A c \in ClientIds : SashesSent(wire'[c], api'[c].resizes) BY DEF OrderInv, Reads
<1>8. KeystrokesStayWhole' BY DEF OrderInv, KeystrokesStayWhole
<1> QED BY <1>5, <1>6, <1>7, <1>8 DEF OrderInv

\* The sashes of a strip are written.
LEMMA SashesOrder ==
    ASSUME AnswerInv, OrderInv, UNCHANGED <<typed, replies, chain, api>>,
           Reads(wire, api, wire', api), NEW x, NEW cmd, Sashes(x, cmd), Called(x, api),
           NoneBefore(api[x[1]].resizes, x[2]), NoneBefore(wire'[x[1]], x[2])
    PROVE  OrderInv'
<1> DEFINE P == {p \in DOMAIN model.panes : model.panes[p].windowId = cmd.window}
           strip == SetToSeq(P)
           slots == [i \in DOMAIN strip |-> Slot("sash", strip[i], cmd.window, Null, "none", x)]
           q == pipe \o slots
<1>1. PipeInv /\ ModelInv /\ IsSeq(pipe) BY DEF AnswerInv, PipeInv
<1>2. Writes(slots) BY DEF Sashes
<1>3. IsSeq(slots) /\ \A k \in DOMAIN slots :
        slots[k].op = "sash" /\ slots[k].id = x /\ slots[k].cont = "none"
  <2>1. IsFiniteSet(P)
    <3>1. P \in SUBSET DOMAIN model.panes OBVIOUS
    <3> HIDE DEF P
    <3> QED BY <1>1, <3>1, FS_Subset DEF ModelInv
  <2> HIDE DEF P
  <2>2. PICK n \in Nat : DOMAIN strip = 1..n BY <2>1, ListedFromOne
  <2> HIDE DEF strip
  <2>3. slots = [i \in 1..n |-> slots[i]] /\ DOMAIN slots = 1..n BY <2>2
  <2>4. \A i \in 1..n : slots[i].op = "sash" /\ slots[i].id = x /\ slots[i].cont = "none"
    BY <2>2 DEF Slot
  <2> HIDE DEF slots
  <2>5. IsSeq(slots) BY <2>3, FunctionIsSeq
  <2> QED BY <2>3, <2>4, <2>5
<1> HIDE DEF slots
<1>4. PICK more : /\ IsSeq(more) /\ \A k \in DOMAIN more : Plain(more[k])
                  /\ pipe' = q \o more
  BY <1>1, <1>2, <1>3, BecomesLonger DEF Writes, ModelInv
<1>5. IsSeq(q) BY <1>1, <1>3, CatIsSeq
<1>6. SashesFit(q, wire', api')
  <2>1. q = pipe \o slots OBVIOUS
  <2>2. SashesOf(slots, x) BY <1>3 DEF SashesOf
  <2> DEFINE w2 == wire'
             A2 == api'
  <2>3. /\ Calm(wire, api, w2, A2) /\ Called(x, A2)
        /\ NoneBefore(A2[x[1]].resizes, x[2]) /\ NoneBefore(w2[x[1]], x[2])
    BY DEF Reads
  <2>4. SashesFit(pipe, wire, api) BY DEF OrderInv
  <2> HIDE DEF q, w2, A2
  <2>5. SashesFit(q, w2, A2) BY <1>1, <1>3, <2>1, <2>2, <2>3, <2>4, SashesWritten
  <2> QED BY <2>5 DEF w2, A2
<1> DEFINE all == slots \o more
<1>7. pipe' = pipe \o all BY <1>1, <1>3, <1>4, CatAssoc
<1>8. IsSeq(all) /\ \A k \in DOMAIN all : Keyless(all[k])
  <2>1. IsSeq(all) BY <1>3, <1>4, CatIsSeq
  <2>2. Joined(slots, more, all) BY <1>3, <1>4, Appended
  <2> HIDE DEF all
  <2>3. \A k \in DOMAIN more : Keyless(more[k]) BY <1>4 DEF Plain, Keyless
  <2>4. \A k \in DOMAIN slots : Keyless(slots[k]) BY <1>3 DEF Keyless
  <2> QED BY <2>1, <2>2, <2>3, <2>4 DEF Joined
<1> HIDE DEF q, all
<1>9. KeysGo(pipe, pipe', 0) BY <1>1, <1>7, <1>8, KeylessAppended
<1>10. SashesFit(pipe', wire', api')
  <2>1. PipeFollows(q, pipe', 0) BY <1>4, <1>5, PlainAppended
  <2>2. Calm(wire', api', wire', api') BY SameIsCalm
  <2> QED BY <1>5, <1>6, <2>1, <2>2, SashesGoOn
<1>11. Reads(wire, api, wire', api') OBVIOUS
<1> QED BY <1>9, <1>10, <1>11, KeylessOrder

\* A client's box is handled.
LEMMA HandleResizeOrder ==
    ASSUME AnswerInv, OrderInv, UNCHANGED <<typed, replies, api>>, Reads(wire, api, wire', api),
           NEW c, NEW msg, HandleResize(<<c, msg.n>>, msg), SashesBefore(pipe, c, msg.n)
    PROVE  OrderInv'
<1> DEFINE x == <<c, msg.n>>
           box == [window |-> model.panes[msg.pane].windowId, size |-> msg.size]
           more == Reports(model, box, x)
<1>1. UNCHANGED chain /\ (UNCHANGED pipe \/ pipe' = pipe \o more) BY DEF HandleResize
<1>2. ModelInv /\ IsSeq(pipe) /\ IsSeq(replies) BY DEF AnswerInv, PipeInv, RepliesInv
<1>3. Reads(wire, api, wire', api') OBVIOUS
<1>4. CASE UNCHANGED pipe
  <2>1. PipeFollows(pipe, pipe', 0) /\ RepliesFollow(replies, replies', 0)
    BY <1>2, <1>4, SameFollows
  <2> QED BY <1>1, <1>3, <2>1, QuietOrder
<1>5. CASE pipe' = pipe \o more
  <2>1. IsSeq(more)
    <3> HIDE DEF box, x
    <3> QED BY <1>2, ReportsQuiet
  <2>2. \A k \in DOMAIN more : more[k].op = "size" /\ more[k].id = <<c, msg.n>> /\ Keyless(more[k])
    BY DEF Reports, Slot, Keyless
  <2> HIDE DEF more
  <2>3. KeysGo(pipe, pipe', 0) BY <1>2, <1>5, <2>1, <2>2, KeylessAppended
  <2>4. SashesFit(pipe', wire', api')
    <3> DEFINE w2 == wire'
               A2 == api'
               q == pipe'
               n == msg.n
    <3>1. /\ Calm(wire, api, w2, A2) /\ SashesFit(pipe, wire, api) /\ q = pipe \o more
      BY <1>5 DEF OrderInv, Reads
    <3>2. SashesBefore(pipe, c, n) /\ BoxesOf(more, <<c, n>>) BY <2>2 DEF BoxesOf
    <3> HIDE DEF w2, A2, q, n
    <3>4. SashesFit(q, w2, A2) BY <1>2, <2>1, <3>1, <3>2, BoxesWritten
    <3> QED BY <3>4 DEF q, w2, A2
  <2> QED BY <1>1, <1>3, <2>3, <2>4, KeylessOrder
<1> QED BY <1>1, <1>4, <1>5

\* Every command but the sashes is one plain slot, or none.
LEMMA CommandWrites ==
    ASSUME AnswerInv, NEW x, NEW cmd, HandleCommand(x, cmd), ~Sashes(x, cmd)
    PROVE  UNCHANGED chain /\ PipeFollows(pipe, pipe', 0)
<1>0. PipeInv /\ ModelInv BY DEF AnswerInv
<1>1. UNCHANGED chain BY DEF HandleCommand
<1>2. CASE Capture(x, cmd)
  <2>1. Plain(Slot(cmd.kind, cmd.pane, Null, Null, "capture", x)) BY <1>2 DEF Capture, Plain, Slot
  <2> QED BY <1>0, <1>1, <1>2, <2>1, WritesPlain, WritesNone DEF Capture
<1>3. CASE Info(x, cmd) \/ Refused(x, cmd) \/ EmptyName(x, cmd)
  <2>1. Writes(<<>>) BY <1>3 DEF Info, Refused, EmptyName
  <2> QED BY <1>0, <1>1, <2>1, WritesNone
<1>4. CASE RunCreatingVerb(x, cmd)
  <2> DEFINE s == Slot(cmd.kind, cmd.pane, cmd.window, Null, "creating", x)
  <2>1. Writes(<<s>>) /\ Plain(s) BY <1>4 DEF RunCreatingVerb, Creating, Plain, Slot
  <2> HIDE DEF s
  <2> QED BY <1>0, <1>1, <2>1, WritesPlain
<1>5. CASE RunAckVerb(x, cmd)
  <2> DEFINE s == Slot(cmd.kind, cmd.pane, cmd.window, Null, "ack", x)
  <2>1. Writes(<<s>>) /\ Plain(s) BY <1>5 DEF RunAckVerb, Acked, Plain, Slot
  <2> HIDE DEF s
  <2> QED BY <1>0, <1>1, <2>1, WritesPlain
<1>6. CASE SendCommandWithReversal(x, cmd)
  <2> DEFINE m == Patched(model, cmd.kind, cmd.pane, cmd.window, cmd.value, x[1])
             s == [Slot(cmd.kind, cmd.pane, cmd.window, cmd.value, "option", x)
                        EXCEPT !.was = Before(cmd.kind, cmd.pane, cmd.window, x[1])]
             slots == <<s>>
  <2>1. ModelBecomes(m, slots) BY <1>6 DEF SendCommandWithReversal
  <2>2. Plain(s) BY <1>6 DEF SendCommandWithReversal, Optimistic, Plain, Slot
  <2>3. IsFiniteSet(DOMAIN m.windows) BY <1>0, PatchedDomains DEF ModelInv, Inv
  <2> HIDE DEF s, m
  <2>4. IsSeq(slots) /\ \A i \in DOMAIN slots : Plain(slots[i])
    <3>1. IsSeq(slots) /\ DOMAIN slots = {1} /\ slots[1] = s BY OneIsSeq
    <3> HIDE DEF slots
    <3> QED BY <2>2, <3>1
  <2> HIDE DEF slots
  <2> QED BY <1>0, <1>1, <2>1, <2>3, <2>4, BecomesPlain
<1>7. CASE SelectPane(x, cmd)
  <2> DEFINE s == Slot(cmd.kind, cmd.pane, Null, Null, "none", x)
  <2>1. Writes(<<s>>) /\ Plain(s) BY <1>7 DEF SelectPane, Plain, Slot
  <2> HIDE DEF s
  <2> QED BY <1>0, <1>1, <2>1, WritesPlain
<1> QED BY <1>2, <1>3, <1>4, <1>5, <1>6, <1>7 DEF HandleCommand

\* A message of a client is handled.
LEMMA HandleMessageOrder ==
    ASSUME AnswerInv, OrderInv, NEW c \in ClientIds, HandleMessage(c)
    PROVE  OrderInv'
<1> DEFINE h == Head(wire[c])
           x == <<c, h.n>>
           T == Taken(typed, pipe, chain)
<1>1. /\ wire[c] # <<>> /\ wire' = [wire EXCEPT ![c] = Tail(@)]
      /\ UNCHANGED <<typed, replies, api>>
      /\ \/ h.type = "command.request" /\ HandleCommand(x, h.command)
         \/ h.type = "resize.request" /\ HandleResize(x, h)
         \/ h.type = "input" /\ HandleInput(x, h)
  BY DEF HandleMessage, history
<1>2. Reads(wire, api, wire', api) BY <1>1, MessageReads DEF AnswerInv
<1>3. /\ IsSash(h) => /\ Called(x, api)
                      /\ NoneBefore(api[c].resizes, h.n) /\ NoneBefore(wire'[c], h.n)
      /\ h.type = "input" => (\A y \in T : Earlier(y, x)) /\ Late(T \cup {x}, wire', api)
      /\ h.type = "resize.request" => SashesBefore(pipe, c, h.n)
  BY <1>1, MessageHead
<1>4. x[1] = c /\ x[2] = h.n OBVIOUS
<1> HIDE DEF h
<1>5. CASE h.type = "input" /\ HandleInput(x, h)
  <2> HIDE DEF x
  <2> QED BY <1>1, <1>2, <1>3, <1>5, HandleInputOrder DEF T
<1>6. CASE h.type = "resize.request" /\ HandleResize(x, h)
  BY <1>1, <1>2, <1>3, <1>6, HandleResizeOrder
<1>7. CASE h.type = "command.request" /\ Sashes(x, h.command)
  <2>1. IsSash(h) BY <1>7 DEF IsSash, IsRequest, Sashes
  <2>2. UNCHANGED chain BY <1>1, <1>7 DEF HandleCommand
  <2>3. /\ Called(x, api) /\ NoneBefore(api[x[1]].resizes, x[2])
        /\ NoneBefore(wire'[x[1]], x[2])
    BY <1>3, <1>4, <2>1
  <2> HIDE DEF x
  <2> QED BY <1>1, <1>2, <1>7, <2>2, <2>3, SashesOrder
<1>8. CASE h.type = "command.request" /\ HandleCommand(x, h.command) /\ ~Sashes(x, h.command)
  <2> HIDE DEF x
  <2>1. UNCHANGED chain /\ PipeFollows(pipe, pipe', 0) BY <1>8, CommandWrites
  <2>2. RepliesFollow(replies, replies', 0) BY <1>1, SameFollows DEF AnswerInv, RepliesInv
  <2>3. Reads(wire, api, wire', api') BY <1>1, <1>2
  <2> QED BY <1>1, <2>1, <2>2, <2>3, QuietOrder
<1> QED BY <1>1, <1>5, <1>6, <1>7, <1>8

-----------------------------------------------------------------------------
(* The invariant, and what it says.                                         *)

\* At first nothing is on its way.
LEMMA OrderInit == Init => OrderInv
<1> SUFFICES ASSUME Init PROVE OrderInv
  OBVIOUS
<1>0. IsSeq(<<>>) /\ DOMAIN <<>> = {} BY EmptyIsSeq
<1>1. /\ typed = <<>> /\ pipe = <<>> /\ replies = <<>> /\ chain = <<>>
      /\ \A c \in ClientIds : wire[c] = <<>> /\ api[c].resizes = <<>>
  BY DEF Init
<1>2. KeystrokesStayWhole BY <1>0, <1>1 DEF KeystrokesStayWhole
<1>3. Ordered(typed, pipe, replies, chain)
  BY <1>0, <1>1 DEF Ordered, KeysFit, ChunksFit, ChainFits, KeysAt
<1>4. Late(Taken(typed, pipe, chain), wire, api)
  <2>1. Taken(typed, pipe, chain) = {} BY <1>0, <1>1 DEF Taken, KeysAt
  <2> QED BY <1>0, <1>1, <2>1 DEF Late, InputsLate
<1>5. SashesFit(pipe, wire, api) BY <1>0, <1>1 DEF SashesFit
<1>6. \A c \in ClientIds : SashesSent(wire[c], api[c].resizes) BY <1>0, <1>1 DEF SashesSent
<1> QED BY <1>2, <1>3, <1>4, <1>5, <1>6 DEF OrderInv

\* Every step of Verbs keeps what a client sends in order.
LEMMA OrderStep == AnswerInv /\ OrderInv /\ [Next]_vars => OrderInv'
<1> SUFFICES ASSUME AnswerInv, OrderInv, [Next]_vars PROVE OrderInv'
  OBVIOUS
<1>1. CASE Execute BY <1>1, ExecuteOrder
<1>2. CASE PaneExits BY <1>2, PaneExitsOrder
<1>3. CASE Receive BY <1>3, ReceiveOrder
<1>4. CASE Requery BY <1>4, RequeryOrder
<1>5. CASE SeeExit BY <1>5, SeeExitOrder
<1>6. CASE HostDies \/ (\E c \in ClientIds : SeeClose(c)) \/ UNCHANGED vars
  <2>1. UNCHANGED <<typed, pipe, replies, chain, wire, api>>
    BY <1>6 DEF HostDies, SeeClose, vars, history
  <2>2. Reads(wire, api, wire', api') BY <2>1, SameReads
  <2> QED BY <2>1, <2>2, SameOrder
<1>7. ASSUME NEW c \in ClientIds, HandleMessage(c) PROVE OrderInv'
  BY <1>7, HandleMessageOrder
<1>8. ASSUME NEW c \in ClientIds, HandleCommandResponse(c) PROVE OrderInv'
  <2>1. UNCHANGED <<typed, pipe, replies, chain>> BY <1>8 DEF HandleCommandResponse, history
  <2>2. Reads(wire, api, wire', api') BY <1>8, ResponseReads DEF AnswerInv
  <2> QED BY <2>1, <2>2, SameOrder
<1>9. ASSUME NEW c \in ClientIds, Client(c) \/ FlushResizes(c) PROVE OrderInv'
  BY <1>9, ClientOrder
<1> QED BY <1>1, <1>2, <1>3, <1>4, <1>5, <1>6, <1>7, <1>8, <1>9 DEF Next, System, Others

\* What fits comes last.
LEMMA OrderIsEnough == AnswerInv /\ OrderInv => OrderIsKept
<1> SUFFICES ASSUME AnswerInv, OrderInv PROVE OrderIsKept
  OBVIOUS
<1>1. KeystrokesStayWhole BY DEF OrderInv
<1>2. ASSUME NEW i \in DOMAIN pipe, pipe[i].op = "sash", NEW c, c = pipe[i].id[1]
      PROVE  /\ \A j \in DOMAIN pipe :
                    j > i /\ pipe[j].op = "size" /\ pipe[j].id # Null /\ pipe[j].id[1] = c
                        => ~(pipe[j].id[2] < pipe[i].id[2])
             /\ \A j \in DOMAIN api[c].resizes : ~(api[c].resizes[j].n < pipe[i].id[2])
             /\ \A j \in DOMAIN wire[c] : wire[c][j].type = "resize.request"
                                            => ~(wire[c][j].n < pipe[i].id[2])
  <2>1. SashFits(pipe[i].id, pipe, i, wire, api) BY <1>2 DEF OrderInv, SashesFit
  <2>2. c \in ClientIds BY <1>2, <2>1 DEF SashFits, Called
  <2>3. \A j \in DOMAIN api[c].resizes : api[c].resizes[j].type = "resize.request"
    BY <2>2 DEF AnswerInv, WireInv, IsApi
  <2> QED BY <1>2, <2>1, <2>3 DEF SashFits, NoneBefore
<1>3. SashesComeLast BY <1>2 DEF SashesComeLast
<1> QED BY <1>1, <1>3 DEF OrderIsKept

\* Whatever clients type, paste, drag and resize, and however tmux, the panes and the
\* connections act meanwhile: what the panes get of a message is a prefix of it in one
\* piece, the messages of a client come in its order (input-path.ts:517-560), and no box
\* it declared before it moved its sashes is applied after them (input.ts:462).
THEOREM OrderStaysKept == Spec => []OrderIsKept
BY AnswerInit, AnswerStep, OrderInit, OrderStep, OrderIsEnough, PTL DEF Spec

=============================================================================
