---------------------------- MODULE TerminalTabs ----------------------------
(***************************************************************************)
(* The tabs of a window and their terminals (apps/desktop/src/renderer:    *)
(* terminal-tabs.ts, terminal-tab-view.tsx, the handlers of App.tsx and of *)
(* the session list).                                                      *)
(*                                                                         *)
(* A tab either creates a session or is attached to one.  Its view becomes *)
(* ready later, and its controller is disposed of by calls that the main   *)
(* process answers later still; meanwhile tabs open, close and move.  What *)
(* the events of a session say reaches the tabs at once (Renderer has the  *)
(* channel); names and titles are left out.                                *)
(***************************************************************************)
EXTENDS Naturals, Sequences, FiniteSets, SequencesExt

CONSTANTS Ids,      \* tabs ever opened, and the sessions that they create, by the same name
          NoTab

VARIABLES
    tabs,       \* the tabs, in order
    activeTab,  \* activeTabId
    status,     \* TerminalUiStatus of each tab
    attached,   \* the session of each attached tab; itself: the tab creates one
    unread,     \* tabs with hasUnreadBell
    view,       \* "none", "starting", "open" or "gone"
    session,    \* external: "none", "running", "exiting", "exited" or "removed"
    disposals,  \* controllers being disposed of: [tab, by, final]
    hidden,     \* sessions that the human has hidden
    refused,    \* sessions whose termination was refused or timed out
    pressed,    \* tabs that their close button has closed
    window      \* "open" or "closed"

vars == <<tabs, activeTab, status, attached, unread, view, session, disposals, hidden,
          refused, pressed, window>>

IsOpen(t) == t \in ToSet(tabs)
Live == {"running", "exiting", "exited"}

\* The tabs by their sessionId, which a tab that creates a session does not know before its
\* view is there; and the first of them, if there is one.
Named(s) == {t \in ToSet(tabs) : attached[t] = s /\ (t # s \/ view[t] = "open")}
TabOf(s) ==
    LET i == SelectInSeq(tabs, LAMBDA t : t \in Named(s)) IN IF i = 0 THEN NoTab ELSE tabs[i]

-----------------------------------------------------------------------------
\* terminal-tabs.ts

\* selectTerminalTab
Select(t) == activeTab' = t /\ unread' = unread \ {t}

\* The neighbour that becomes active: the one before, or else the first.
Successor(t) ==
    LET rest == RemoveFirst(tabs, t) IN
    IF rest = <<>> THEN NoTab
    ELSE IF activeTab # t THEN activeTab
    ELSE rest[IF Head(tabs) = t THEN 1 ELSE SelectInSeq(tabs, LAMBDA u : u = t) - 1]

\* closeTerminalTab.  The view of a closed tab unmounts: a controller that is still there
\* detaches, and a view that is still starting will find that it is disposed.
CloseTerminalTab(t) ==
    /\ tabs' = RemoveFirst(tabs, t)
    /\ activeTab' = IF IsOpen(t) THEN Successor(t) ELSE activeTab
    /\ view' = [view EXCEPT ![t] = IF @ = "open" THEN "gone" ELSE @]

\* addTerminalTab and addAttachedTerminalTab
AddTab(t, s, initial, activate) ==
    /\ view[t] = "none" /\ session[t] = "none"
    /\ tabs' = Append(tabs, t)
    /\ activeTab' = IF activate THEN t ELSE activeTab
    /\ status' = [status EXCEPT ![t] = initial]
    /\ attached' = [attached EXCEPT ![t] = s]
    /\ view' = [view EXCEPT ![t] = "starting"]
    /\ UNCHANGED <<unread, session, disposals, hidden, refused, pressed, window>>

\* The session has a tab already.
UpdateTab(t, activate) ==
    /\ status' = [status EXCEPT ![t] = session[attached[t]]]
    /\ unread' = unread \ {t}
    /\ activeTab' = IF activate THEN t ELSE activeTab
    /\ UNCHANGED <<tabs, attached, view, session, disposals, hidden, refused, pressed, window>>

Attach(s, activate) ==
    IF TabOf(s) # NoTab THEN UpdateTab(TabOf(s), activate)
    ELSE \E t \in Ids : AddTab(t, s, session[s], activate)

-----------------------------------------------------------------------------
\* What the human and the main process ask of the window.

\* openNewHumanTerminal, unless the preference is headless
NewTab(t) == \E activate \in BOOLEAN : AddTab(t, t, "starting", activate)

\* reveal in the list of sessions
Reveal(s) == session[s] \in Live /\ Attach(s, TRUE)

\* openPresentation in the background: a tab with a controller gives way to another.
OpenPresentation(s) ==
    /\ session[s] \in Live
    /\ IF TabOf(s) # NoTab /\ view[TabOf(s)] = "open"
       THEN LET others == RemoveFirst(tabs, TabOf(s)) IN
            /\ activeTab = TabOf(s) /\ others # <<>>
            /\ Select(Head(others))
            /\ UNCHANGED <<tabs, status, attached, view, session, disposals, hidden,
                           refused, pressed, window>>
       ELSE Attach(s, FALSE)

\* A click, focusPresentation, or the next or previous tab.
SelectTab(t) ==
    /\ IsOpen(t) /\ activeTab # t
    /\ Select(t)
    /\ UNCHANGED <<tabs, status, attached, view, session, disposals, hidden, refused, pressed, window>>

\* headlessly created by the human or an agent
CreatedElsewhere(s) ==
    /\ session[s] = "none" /\ view[s] = "none"
    /\ session' = [session EXCEPT ![s] = "running"]
    /\ UNCHANGED <<tabs, activeTab, status, attached, unread, view, disposals, hidden,
                   refused, pressed, window>>

-----------------------------------------------------------------------------
\* The view of a tab.

\* createSession is answered.
SessionCreated(t) ==
    /\ view[t] = "starting" /\ attached[t] = t /\ session[t] = "none"
    /\ session' = [session EXCEPT ![t] = "running"]
    /\ UNCHANGED <<tabs, activeTab, status, attached, unread, view, disposals, hidden,
                   refused, pressed, window>>

Dispose(t, by, final) == disposals' = disposals \cup {[tab |-> t, by |-> by, final |-> final]}

\* Mutant of ViewReady: a view that nobody wants any more is only detached.
ViewReadyDetached(t) ==
    /\ view[t] = "starting" /\ session[attached[t]] \in Live
    /\ IF IsOpen(t)
       THEN /\ view' = [view EXCEPT ![t] = "open"]
            /\ status' = [status EXCEPT ![t] = session[attached[t]]]
       ELSE view' = [view EXCEPT ![t] = "gone"] /\ UNCHANGED status
    /\ UNCHANGED <<tabs, activeTab, attached, unread, session, disposals, hidden, refused, pressed, window>>

\* createTerminalSession returns.  A view whose tab was closed in the meantime is disposed
\* of, together with the session that it has created.
ViewReady(t) ==
    /\ view[t] = "starting" /\ session[attached[t]] \in Live
    /\ view' = [view EXCEPT ![t] = IF IsOpen(t) \/ attached[t] = t THEN "open" ELSE "gone"]
    /\ IF IsOpen(t)
       THEN status' = [status EXCEPT ![t] = session[attached[t]]] /\ UNCHANGED disposals
       ELSE /\ UNCHANGED status
            /\ IF attached[t] = t THEN Dispose(t, "orphan", FALSE) ELSE UNCHANGED disposals
    /\ UNCHANGED <<tabs, activeTab, attached, unread, session, hidden, refused, pressed, window>>

\* A call has failed.  The session that was created is closed, whatever the answer.
ViewFailed(t) ==
    /\ view[t] = "starting"
    /\ view' = [view EXCEPT ![t] = "gone"]
    /\ status' = IF IsOpen(t) THEN [status EXCEPT ![t] = "failed"] ELSE status
    /\ IF attached[t] # t THEN UNCHANGED <<session, refused>>
       ELSE IF session[t] = "none"
       THEN session' = [session EXCEPT ![t] = "removed"] /\ UNCHANGED refused
       ELSE \/ session' = [session EXCEPT ![t] = "removed"] /\ UNCHANGED refused
            \/ refused' = refused \cup {t} /\ UNCHANGED session
    /\ UNCHANGED <<tabs, activeTab, attached, unread, disposals, hidden, pressed, window>>

-----------------------------------------------------------------------------
\* Events of the sessions.

Shown(s) == {t \in ToSet(tabs) : attached[t] = s /\ view[t] = "open"}

\* session.updated: close requested, kill undone, or exited.  A session that is gone says
\* nothing more.
SessionUpdated(s, next) ==
    /\ <<session[s], next>> \in {<<"running", "exiting">>, <<"exiting", "running">>,
                                  <<"running", "exited">>, <<"exiting", "exited">>}
    /\ session' = [session EXCEPT ![s] = next]
    /\ status' = [t \in Ids |-> IF Shown(s) # {} /\ t \in Named(s) THEN next ELSE status[t]]
    /\ UNCHANGED <<tabs, activeTab, attached, unread, view, disposals, hidden, refused, pressed, window>>

\* Mutant of AfterOutput: output is taken for a sign of life.
AfterOutputRunning(current) == "running"

\* nextTerminalStatus of session.output
AfterOutput(current) == IF current = "starting" THEN "running" ELSE current

\* Output may still trail the exit.
SessionOutput(s) ==
    /\ session[s] \in Live
    /\ status' = [t \in Ids |-> IF t \in Shown(s) THEN AfterOutput(status[t]) ELSE status[t]]
    /\ UNCHANGED <<tabs, activeTab, attached, unread, view, session, disposals, hidden,
                   refused, pressed, window>>

\* markTabBell
SessionBell(s) ==
    /\ session[s] \in Live
    /\ unread' = unread \cup (Shown(s) \ {activeTab})
    /\ UNCHANGED <<tabs, activeTab, status, attached, view, session, disposals, hidden,
                   refused, pressed, window>>

\* session.removed, whoever has closed the session: its tab closes.
SessionRemoved(s) ==
    /\ session[s] \in Live
    /\ session' = [session EXCEPT ![s] = "removed"]
    /\ IF TabOf(s) # NoTab THEN CloseTerminalTab(TabOf(s))
       ELSE UNCHANGED <<tabs, activeTab, view>>
    /\ UNCHANGED <<status, attached, unread, disposals, hidden, refused, pressed, window>>

-----------------------------------------------------------------------------
\* Closing.

\* onClose of closeTab: the number of tabs was looked at when the close was asked for.
OnClose(t, final) ==
    /\ pressed' = pressed \cup {t}
    /\ IF final THEN window' = "closed" /\ UNCHANGED <<tabs, activeTab, view>>
       ELSE CloseTerminalTab(t) /\ UNCHANGED window

\* closeTabByPolicy, confirmed where it has to be.
CloseTab(t) ==
    /\ IsOpen(t)
    /\ LET final == Len(tabs) = 1 IN
       IF view[t] = "open"
       THEN Dispose(t, "button", final) /\ UNCHANGED <<tabs, activeTab, view, pressed, window>>
       ELSE OnClose(t, final) /\ UNCHANGED disposals
    /\ UNCHANGED <<status, attached, unread, session, hidden, refused>>

\* hideSession, and removePresentation of the main process
HideSession(s) ==
    /\ TabOf(s) # NoTab
    /\ LET t == TabOf(s) IN
       IF view[t] = "open"
       THEN Dispose(t, "hide", FALSE) /\ UNCHANGED <<tabs, activeTab, view>>
       ELSE CloseTerminalTab(t) /\ UNCHANGED disposals
    /\ hidden' = hidden \cup {s}
    /\ UNCHANGED <<status, attached, unread, session, refused, pressed, window>>

\* terminateSession in the list of sessions, of a session that has a tab
TerminateSession(s) ==
    /\ TabOf(s) # NoTab /\ session[s] \in Live
    /\ Dispose(TabOf(s), "list", FALSE)
    /\ UNCHANGED <<tabs, activeTab, status, attached, unread, view, session, hidden, refused,
                   pressed, window>>

\* closeView is answered, after close unless the tab was only hidden.
Disposed(d) ==
    /\ d.by = "hide" \/ session[attached[d.tab]] = "removed"
    /\ disposals' = disposals \ {d}
    /\ CASE d.by = "button" -> OnClose(d.tab, d.final)
         [] d.by = "orphan" -> /\ view' = [view EXCEPT ![d.tab] = "gone"]
                               /\ UNCHANGED <<tabs, activeTab, pressed, window>>
         [] OTHER -> CloseTerminalTab(d.tab) /\ UNCHANGED <<pressed, window>>
    /\ UNCHANGED <<status, attached, unread, session, hidden, refused>>

\* close is pending or has failed, or closeView has: the tab stays.
NotDisposed(d) ==
    /\ disposals' = disposals \ {d}
    /\ refused' = IF d.by = "hide" THEN refused ELSE refused \cup {attached[d.tab]}
    /\ UNCHANGED <<tabs, activeTab, status, attached, unread, view, session, hidden, pressed,
                   window>>

-----------------------------------------------------------------------------
\* The configuration has come: createInitialTerminalTabs.
Init ==
    \E t \in Ids :
        /\ tabs = <<t>> /\ activeTab = t
        /\ status = [i \in Ids |-> "starting"]
        /\ attached = [i \in Ids |-> i]
        /\ unread = {}
        /\ view = [i \in Ids |-> IF i = t THEN "starting" ELSE "none"]
        /\ session = [i \in Ids |-> "none"]
        /\ disposals = {} /\ hidden = {} /\ refused = {} /\ pressed = {}
        /\ window = "open"

Next ==
    /\ window = "open"
    /\ \/ \E t \in Ids :
            \/ NewTab(t) \/ SelectTab(t) \/ SessionCreated(t) \/ ViewReady(t) \/ ViewFailed(t)
            \/ CloseTab(t)
       \/ \E s \in Ids :
            \/ Reveal(s) \/ OpenPresentation(s) \/ CreatedElsewhere(s) \/ HideSession(s)
            \/ \E next \in Live : SessionUpdated(s, next)
            \/ SessionOutput(s) \/ SessionBell(s) \/ SessionRemoved(s) \/ TerminateSession(s)
       \/ \E d \in disposals : Disposed(d) \/ NotDisposed(d)

Spec == Init /\ [][Next]_vars

-----------------------------------------------------------------------------
\* Correctness.

TypeOK ==
    /\ tabs \in Seq(Ids) /\ activeTab \in Ids \cup {NoTab}
    /\ status \in [Ids -> {"none", "starting", "failed", "removed"} \cup Live]
    /\ attached \in [Ids -> Ids]
    /\ view \in [Ids -> {"none", "starting", "open", "gone"}]
    /\ session \in [Ids -> {"none", "removed"} \cup Live]
    /\ disposals \subseteq [tab : Ids, by : {"button", "hide", "list", "orphan"}, final : BOOLEAN]
    /\ {unread, hidden, refused, pressed} \subseteq SUBSET Ids
    /\ window \in {"open", "closed"}

\* "Session status shown in the UI should follow session lifecycle events without
\* regressing": what an open tab says of its session is so, whichever came first of its
\* view, the exit and the output that trails it (terminal-status.ts, terminal-tabs.ts).
StatusIsActual ==
    \A t \in ToSet(tabs) :
        view[t] = "open" /\ session[attached[t]] \in Live => status[t] = session[attached[t]]

\* A session that a tab has created does not go on unseen when the tab was closed before
\* its terminal was there: it is closed, hidden by the human, or about to be closed, unless
\* its termination was refused (terminal-tab-view.tsx).
NoneAbandoned ==
    \A t \in Ids :
        attached[t] = t /\ view[t] = "gone" /\ session[t] \in {"running", "exiting"} =>
            t \in hidden \cup refused

\* renderer-app-shell.md:76: "Closing the final tab from the tab close button closes the app
\* window".  A window whose tabs were all closed by their buttons is closed.
FinalTabClosesWindow ==
    tabs = <<>> /\ {t \in Ids : view[t] # "none"} \subseteq pressed => window = "closed"
=============================================================================
