---------------------------- MODULE Presentation ----------------------------
(***************************************************************************)
(* How terminal sessions are shown (apps/desktop/src/main): the            *)
(* presentation controller, which moves a session between headless,        *)
(* background and foreground by commands to a renderer; the registry of    *)
(* the views, which renderers open and close by themselves as well; the    *)
(* windows, which load, crash and close; and the renderer's handling of    *)
(* the commands.                                                           *)
(*                                                                         *)
(* The main process and each renderer are threads of their own.  An action *)
(* is what one of them does with one message, timer or event: what follows *)
(* by promise continuations alone belongs to it.  A session runs the       *)
(* presentations it is set to in its operation queue, which other work can *)
(* hold up: `updates` is that queue, and whoever set one waits for it.     *)
(***************************************************************************)
EXTENDS Naturals, Sequences, FiniteSets, SequencesExt, FiniteSetsExt

CONSTANTS Sessions, Windows,
          NoWindow,
          MaxCommands,   \* bound: commands alive together are named 1..MaxCommands
          Bounds         \* bounds of a behaviour: setPresentation requests for each
                         \* session, and all that agents and the human do besides

ASSUME NoWindowAssumption == NoWindow \notin Windows
ASSUME BoundsAssumption ==
    /\ MaxCommands \in Nat \ {0}
    /\ Bounds \subseteq [requests : [Sessions -> Nat], others : [Sessions -> Nat]]

VARIABLES
    window,       \* external: "unborn", "loading", "usable", "crashed", "destroyed"
    live,         \* external: the sessions in the session manager
    presentation, \* session.presentation.state
    updates,      \* presentations queued in the session, and who awaits each
    registry,     \* rendererBySession
    ready,        \* readyRenderers: their loss is noticed
    creation,     \* pendingWindowCreation
    transition,   \* the transition of each session in progress
    requests,     \* the requests chained behind it
    closer,       \* an agent's close: idle, closing the view, closing the session
    pending,      \* pendingCommands
    inbox,        \* commands on their way to each renderer
    acks,         \* acknowledgements on their way back
    view,         \* each renderer's tab of each session, and its controller
    orphan,       \* a view that is still starting though its tab is gone
    pendingOpen,  \* pendingOpenCommands of each renderer (0: none)
    disposing,    \* commands that wait for the controller to be disposed
    budget        \* what is left of the bounds; the sessions disturbed, and those
                  \* of which a command was given up

mainVars == <<presentation, updates, registry, ready, creation, transition,
              requests, closer, pending>>
rendererVars == <<inbox, acks, view, orphan, pendingOpen, disposing>>
vars == <<window, live, mainVars, rendererVars, budget>>

Requested == {"headless", "background", "foreground"}
States == Requested \cup {"opening", "unavailable"}
Views == {"none", "starting", "asking", "answered", "open", "closing", "closed", "failed"}
Waiters == {"nobody", "transition", "view", "orphan", "closing"}

Update(state, by, w) == [state |-> state, by |-> by, window |-> w]

\* isUsableWindow: a window whose page still loads counts.
Usable(w) == w # NoWindow /\ window[w] \in {"loading", "usable"}

-----------------------------------------------------------------------------
\* What one step does to a session's transition and queue, as a record, so that a
\* step can do it after its own effects.

Idle == [stage |-> "idle", wanted |-> "headless", owner |-> NoWindow, window |-> NoWindow]

\* The ids of commands that somebody still remembers.
AliveIds ==
    {p.id : p \in pending} \cup {m.id : m \in acks}
    \cup (UNION {{inbox[w][i].id : i \in DOMAIN inbox[w]} : w \in Windows})
    \cup {pendingOpen[w][s] : w \in Windows, s \in Sessions}
    \cup (UNION {disposing[w][s] : w \in Windows, s \in Sessions})

\* createCommandId: unlike every id that is still alive.
FreshIds == {i \in 1..MaxCommands : i \notin AliveIds}
FreshId == CHOOSE i \in FreshIds : TRUE

Queue(s, u) == [updates EXCEPT ![s] = IF s \in live THEN Append(@, u) ELSE @]

\* requestRenderer: register the command and send it.  Others of `pending` stay.
Send(others, s, w, action, by) ==
    LET id == FreshId IN
    /\ FreshIds # {}    \* bound
    /\ pending' = others \cup {[id |-> id, window |-> w, session |-> s, action |-> action, by |-> by]}
    /\ inbox' = [inbox EXCEPT ![w] = Append(@, [id |-> id, session |-> s, action |-> action])]

\* The transition t of s goes on to `stage` with a command to w.
Command(s, t, others, w, action, stage) ==
    /\ Send(others, s, w, action, "transition")
    /\ transition' = [transition EXCEPT ![s] = [t EXCEPT !.stage = stage, !.window = w]]

\* The last sessions.setPresentation of a transition; `queue` are the session's
\* updates.  It throws for a session that is gone, and the transition rejects.
Settle(s, queue, state) ==
    IF s \in live
    THEN /\ updates' = [updates EXCEPT ![s] = Append(queue, Update(state, "transition", NoWindow))]
         /\ transition' = [transition EXCEPT ![s] = [@ EXCEPT !.stage = "settling"]]
    ELSE /\ updates' = [updates EXCEPT ![s] = queue]
         /\ transition' = [transition EXCEPT ![s] = Idle]

Nothing(others) == pending' = others /\ inbox' = inbox

\* Mutant of Fail: the error is rethrown, and the session stays as it is.
FailRethrown(s, queue, others) ==
    /\ updates' = [updates EXCEPT ![s] = queue]
    /\ transition' = [transition EXCEPT ![s] = Idle]
    /\ Nothing(others)

\* The catch of setPresentation: the session becomes unavailable.
Fail(s, queue, others) == Settle(s, queue, "unavailable") /\ Nothing(others)

\* waitForRenderer has resolved.
Present(s, t, queue, w) ==
    IF t.owner # NoWindow /\ t.wanted = "foreground"
    THEN Command(s, t, pending, w, "focus", "focusing") /\ updates' = [updates EXCEPT ![s] = queue]
    ELSE Command(s, t, pending, w, "open", "showing") /\ updates' = [updates EXCEPT ![s] = queue]

\* waitForRenderer
AwaitReady(s, t, queue, w) ==
    IF w \in ready THEN Present(s, t, queue, w)
    ELSE /\ transition' = [transition EXCEPT ![s] = [t EXCEPT !.stage = "readying", !.window = w]]
         /\ updates' = [updates EXCEPT ![s] = queue]
         /\ Nothing(pending)

UsableWindows == {w \in Windows : Usable(w)}

UnbornWindows == {w \in Windows : window[w] = "unborn"}

NextWindow == CHOOSE w \in UnbornWindows : TRUE

Await(s, queue, w) ==
    /\ transition' = [transition EXCEPT ![s] = [@ EXCEPT !.stage = "creating", !.window = w]]
    /\ updates' = [updates EXCEPT ![s] = queue]
    /\ Nothing(pending)

\* ensureRendererWindow.  When the bound leaves no window to create, createWindow
\* fails, as it may.
EnsureWindow(s, t, queue) ==
    \/ \E w \in UsableWindows : AwaitReady(s, t, queue, w) /\ UNCHANGED <<window, creation>>
    \/ /\ UsableWindows = {} /\ creation # NoWindow
       /\ Await(s, queue, creation) /\ UNCHANGED <<window, creation>>
    \/ /\ UsableWindows = {} /\ creation = NoWindow /\ UnbornWindows # {}
       /\ window' = [window EXCEPT ![NextWindow] = "loading"]
       /\ creation' = NextWindow
       /\ Await(s, queue, NextWindow)
    \/ /\ UsableWindows = {} /\ creation = NoWindow /\ UnbornWindows = {}
       /\ Fail(s, queue, pending) /\ UNCHANGED <<window, creation>>

\* The session is "opening": the transition goes on with the owner it read before.
Proceed(s, queue) ==
    LET t == transition[s] IN
    \/ /\ t.wanted = "headless" /\ t.owner = NoWindow
       /\ Settle(s, queue, "headless") /\ Nothing(pending) /\ UNCHANGED <<window, creation>>
    \/ /\ t.owner # NoWindow /\ ~Usable(t.owner)
       /\ Fail(s, queue, pending) /\ UNCHANGED <<window, creation>>
    \/ /\ t.wanted = "headless" /\ Usable(t.owner)
       /\ Command(s, t, pending, t.owner, "hide", "hiding")
       /\ updates' = [updates EXCEPT ![s] = queue] /\ UNCHANGED <<window, creation>>
    \/ /\ t.wanted # "headless" /\ Usable(t.owner)
       /\ AwaitReady(s, t, queue, t.owner) /\ UNCHANGED <<window, creation>>
    \/ /\ t.wanted # "headless" /\ t.owner = NoWindow
       /\ EnsureWindow(s, t, queue)

\* A command of the transition was acknowledged as completed.
Acknowledged(s, others) ==
    LET t == transition[s]  opened == IF t.owner = NoWindow THEN registry[s] ELSE t.window IN
    \/ /\ t.stage = "showing" /\ ~Usable(opened)
       /\ Fail(s, updates[s], others)
    \/ /\ t.stage = "showing" /\ Usable(opened) /\ t.wanted = "foreground"
       /\ Command(s, t, others, opened, "focus", "focusing") /\ UNCHANGED updates
    \/ /\ t.stage = "showing" /\ Usable(opened) /\ t.wanted = "background"
       /\ Settle(s, updates[s], "background") /\ Nothing(others)
    \/ /\ t.stage \in {"focusing", "hiding"}
       /\ Settle(s, updates[s], t.wanted) /\ Nothing(others)

-----------------------------------------------------------------------------
\* Requests and closes by agents.

\* Bound: what else befalls a session.  `disturbed` remembers the sessions that somebody
\* else moved behind the controller's back: an agent that closes them,
Disturb(s) ==
    /\ budget.others[s] > 0
    /\ budget' = [budget EXCEPT !.others[s] = @ - 1, !.disturbed = @ \cup {s}]

\* and renderers that by themselves open or close a view in the middle of a transition.
Interfere(s) ==
    /\ budget.others[s] > 0
    /\ budget' = [budget EXCEPT !.others[s] = @ - 1,
                                !.disturbed = IF transition[s] = Idle THEN @ ELSE @ \cup {s}]

\* No renderer is opening or closing a view of s.
AtRest(s) == \A w \in Windows : view[w][s] \in {"none", "open", "failed"} /\ orphan[w][s] = "none"

\* setPresentation: chained behind the session's other transitions.
RequestPresentation(s, wanted) ==
    /\ s \in live /\ budget.requests[s] > 0
    /\ budget' = [budget EXCEPT !.requests[s] = @ - 1]
    /\ requests' = [requests EXCEPT ![s] = Append(@, wanted)]
    /\ UNCHANGED <<window, live, presentation, updates, registry, ready, creation,
                   transition, closer, pending, rendererVars>>

\* It returns at once: the session has gone, or is in the state already.
NothingToDo(s, wanted) ==
    \/ s \notin live
    \/ wanted = "headless" /\ presentation[s] = "headless" /\ registry[s] = NoWindow
    \/ wanted = "background" /\ presentation[s] = "background" /\ registry[s] # NoWindow

BeginTransition(s) ==
    /\ transition[s] = Idle /\ requests[s] # <<>>
    /\ requests' = [requests EXCEPT ![s] = Tail(@)]
    /\ LET wanted == Head(requests[s]) IN
       \/ NothingToDo(s, wanted) /\ UNCHANGED <<transition, updates, budget>>
       \/ /\ ~NothingToDo(s, wanted)
          /\ transition' = [transition EXCEPT ![s] =
                 [stage |-> "opening", wanted |-> wanted, owner |-> registry[s], window |-> NoWindow]]
          /\ updates' = Queue(s, Update("opening", "transition", NoWindow))
          /\ budget' = [budget EXCEPT !.disturbed = IF AtRest(s) THEN @ ELSE @ \cup {s}]
    /\ UNCHANGED <<window, live, presentation, registry, ready, creation, closer,
                   pending, rendererVars>>

\* close of the agent terminal service: closeView, then the session.
CloseBegun(s) ==
    /\ s \in live /\ closer[s] = "idle" /\ Disturb(s)
    /\ \/ /\ Usable(registry[s])
          /\ Send(pending, s, registry[s], "close", "closer")
          /\ closer' = [closer EXCEPT ![s] = "view"] /\ UNCHANGED registry
       \/ /\ ~Usable(registry[s])
          /\ closer' = [closer EXCEPT ![s] = "session"]
          /\ registry' = [registry EXCEPT ![s] = NoWindow] /\ UNCHANGED <<pending, inbox>>
    /\ UNCHANGED <<window, live, presentation, updates, ready, creation, transition,
                   requests, acks, view, orphan, pendingOpen, disposing>>

\* The process exits in time, or not.
CloseReturned(s) ==
    /\ closer[s] = "session"
    /\ closer' = [closer EXCEPT ![s] = "idle"]
    /\ live' = live \ {s} \/ live' = live
    /\ UNCHANGED <<window, presentation, updates, registry, ready, creation,
                   transition, requests, pending, rendererVars, budget>>

\* Closed by the human, whose renderer asks for it, or by an expiry.
SessionClosed(s, by) ==
    /\ s \in live /\ Disturb(s)
    /\ live' = live \ {s}
    /\ registry' = [registry EXCEPT ![s] = IF by = "human" THEN NoWindow ELSE @]
    /\ UNCHANGED <<window, presentation, updates, ready, creation, transition,
                   requests, closer, pending, rendererVars>>

-----------------------------------------------------------------------------
\* The session's queue, and who goes on when one of its updates is applied.

RegistryWithout(s, w) == [registry EXCEPT ![s] = IF @ = w THEN NoWindow ELSE @]
Replies(w, ids, status) == {[id |-> i, window |-> w, status |-> status] : i \in ids \ {0}}

AppliedForTransition(s, rest) ==
    /\ \/ transition[s].stage = "opening" /\ Proceed(s, rest)
       \/ /\ transition[s].stage = "settling"
          /\ transition' = [transition EXCEPT ![s] = Idle]
          /\ updates' = [updates EXCEPT ![s] = rest]
          /\ Nothing(pending) /\ UNCHANGED <<window, creation>>
    /\ UNCHANGED <<registry, acks, view, orphan, pendingOpen, disposing>>

\* openView: the bootstrap of a session that is gone fails, and the view with it.
AppliedForView(s, w) ==
    IF s \in live
    THEN /\ view' = [view EXCEPT ![w][s] = IF @ = "asking" THEN "answered" ELSE @]
         /\ UNCHANGED <<registry, acks, pendingOpen>>
    ELSE /\ registry' = RegistryWithout(s, w)
         /\ view' = [view EXCEPT ![w][s] = IF @ = "asking" THEN "failed" ELSE @]
         /\ acks' = acks \cup Replies(w, {pendingOpen[w][s]}, "failed")
         /\ pendingOpen' = [pendingOpen EXCEPT ![w][s] = 0]

AppliedForOrphan(s, w) ==
    IF s \in live
    THEN /\ orphan' = [orphan EXCEPT ![w][s] = IF @ = "asking" THEN "answered" ELSE @]
         /\ UNCHANGED registry
    ELSE /\ orphan' = [orphan EXCEPT ![w][s] = IF @ = "asking" THEN "none" ELSE @]
         /\ registry' = RegistryWithout(s, w)

\* The controller is disposed: the tab goes, and commands that waited are answered.
AppliedForClosing(s, w) ==
    /\ view' = [view EXCEPT ![w][s] = IF @ \in {"closing", "closed"} THEN "none" ELSE @]
    /\ acks' = acks \cup Replies(w, disposing[w][s], "completed")
    /\ disposing' = [disposing EXCEPT ![w][s] = {}]

Apply(s) ==
    /\ updates[s] # <<>>
    /\ LET u == Head(updates[s])  w == u.window  rest == Tail(updates[s]) IN
       /\ presentation' = [presentation EXCEPT ![s] = u.state]
       /\ \/ u.by = "transition" /\ AppliedForTransition(s, rest)
          \/ /\ u.by # "transition"
             /\ updates' = [updates EXCEPT ![s] = rest]
             /\ \/ u.by = "nobody" /\ UNCHANGED <<registry, acks, view, orphan, pendingOpen, disposing>>
                \/ u.by = "view" /\ AppliedForView(s, w) /\ UNCHANGED <<orphan, disposing>>
                \/ u.by = "orphan" /\ AppliedForOrphan(s, w)
                   /\ UNCHANGED <<acks, view, pendingOpen, disposing>>
                \/ u.by = "closing" /\ AppliedForClosing(s, w)
                   /\ UNCHANGED <<registry, orphan, pendingOpen>>
             /\ UNCHANGED <<window, creation, transition, pending, inbox>>
    /\ UNCHANGED <<live, ready, requests, closer, budget>>

-----------------------------------------------------------------------------
\* The controller is answered, or gives up.

controllerRest == <<window, live, presentation, registry, ready, creation, requests,
                    closer, acks, view, orphan, pendingOpen, disposing, budget>>

\* A resolved readiness waiter.
ReadyResumed(s) ==
    LET t == transition[s] IN
    /\ t.stage = "readying" /\ t.window \in ready
    /\ Present(s, t, updates[s], t.window)
    /\ UNCHANGED controllerRest

ReadyTimedOut(s) ==
    /\ transition[s].stage = "readying" /\ transition[s].window \notin ready
    /\ Fail(s, updates[s], pending)
    /\ UNCHANGED controllerRest

\* createWindow has settled, or its window is not usable.
CreationResumed(s) ==
    LET t == transition[s] IN
    /\ t.stage = "creating" /\ window[t.window] # "loading"
    /\ creation' = IF creation = t.window THEN NoWindow ELSE creation
    /\ \/ Usable(t.window) /\ AwaitReady(s, t, updates[s], t.window)
       \/ ~Usable(t.window) /\ Fail(s, updates[s], pending)
    /\ UNCHANGED <<window, live, presentation, registry, ready, requests,
                   closer, acks, view, orphan, pendingOpen, disposing, budget>>

\* closeView's catch.
CloseViewGivenUp(s) ==
    /\ closer' = [closer EXCEPT ![s] = "session"]
    /\ registry' = [registry EXCEPT ![s] = NoWindow]

\* A command was completed or refused, has timed out, or its renderer is lost.
Settled(p, completed) ==
    \/ /\ p.by = "transition"
       /\ \/ completed /\ Acknowledged(p.session, pending \ {p})
          \/ ~completed /\ Fail(p.session, updates[p.session], pending \ {p})
       /\ UNCHANGED <<closer, registry>>
    \/ /\ p.by = "closer"
       /\ \/ /\ completed /\ closer' = [closer EXCEPT ![p.session] = "session"]
             /\ UNCHANGED registry
          \/ ~completed /\ CloseViewGivenUp(p.session)
       /\ Nothing(pending \ {p})
       /\ UNCHANGED <<transition, updates>>

\* An acknowledgement that comes too late finds no command.
Acknowledge(m) ==
    /\ acks' = acks \ {m}
    /\ \/ \E p \in pending : p.id = m.id /\ p.window = m.window /\ Settled(p, m.status = "completed")
       \/ /\ \A p \in pending : p.id # m.id
          /\ UNCHANGED <<transition, updates, pending, inbox, closer, registry>>
    /\ UNCHANGED <<window, live, presentation, ready, creation, requests, view,
                   orphan, pendingOpen, disposing, budget>>

\* requestRenderer's timeout.
CommandFailed(p) ==
    /\ Settled(p, FALSE)
    /\ budget' = [budget EXCEPT !.givenUp = @ \cup {p.session}]
    /\ UNCHANGED <<window, live, presentation, ready, creation, requests, acks, view,
                   orphan, pendingOpen, disposing>>

-----------------------------------------------------------------------------
\* The renderer.  A tab is starting, then asks for its view, and is open when the
\* controller is registered.

mainRest == <<window, live, presentation, registry, ready, creation, transition, requests,
              closer, pending>>

Ack(w, id, status) == acks' = acks \cup Replies(w, {id}, status)
SetView(w, s, v) == view' = [view EXCEPT ![w][s] = v]
HasController(w, s) == view[w][s] \in {"open", "closing", "closed"}

\* What a starting view waits for in a queue, once its tab is gone.
Orphaned(queue, w) ==
    [i \in DOMAIN queue |->
        IF queue[i].by = "view" /\ queue[i].window = w THEN Update(queue[i].state, "orphan", w)
        ELSE queue[i]]

\* The tab goes before its controller exists; the start goes on without a tab.
TabGone(w, s) ==
    /\ orphan[w][s] = "none"       \* bound: one such start for each tab
    /\ orphan' = [orphan EXCEPT ![w][s] = view[w][s]]
    /\ SetView(w, s, "none")
    /\ updates' = [updates EXCEPT ![s] = Orphaned(@, w)]

\* openPresentation
OpenReceived(w, m) ==
    LET s == m.session IN
    /\ \/ s \notin live /\ Ack(w, m.id, "failed") /\ UNCHANGED <<view, pendingOpen>>
       \/ s \in live /\ HasController(w, s)
          /\ Ack(w, m.id, "completed") /\ UNCHANGED <<view, pendingOpen>>
       \/ /\ s \in live /\ ~HasController(w, s)
          /\ pendingOpen' = [pendingOpen EXCEPT ![w][s] = m.id]
          /\ SetView(w, s, IF view[w][s] = "none" THEN "starting" ELSE view[w][s])
          /\ UNCHANGED acks
    /\ UNCHANGED <<orphan, disposing, updates>>

\* focusPresentation
FocusReceived(w, m) ==
    /\ Ack(w, m.id, IF HasController(w, m.session) THEN "completed" ELSE "failed")
    /\ UNCHANGED <<view, orphan, pendingOpen, disposing, updates>>

\* removePresentation
RemoveReceived(w, m) ==
    LET s == m.session IN
    /\ \/ /\ view[w][s] \in {"none", "failed"}
          /\ SetView(w, s, "none") /\ Ack(w, m.id, "completed")
          /\ UNCHANGED <<orphan, disposing, updates>>
       \/ /\ view[w][s] \in {"starting", "asking", "answered"}
          /\ TabGone(w, s) /\ Ack(w, m.id, "completed") /\ UNCHANGED disposing
       \/ /\ view[w][s] \in {"open", "closing"}
          /\ SetView(w, s, "closing")
          /\ disposing' = [disposing EXCEPT ![w][s] = @ \cup {m.id}]
          /\ UNCHANGED <<acks, orphan, updates>>
       \/ /\ view[w][s] = "closed"         \* its own session.closeView changes nothing
          /\ SetView(w, s, "none") /\ Ack(w, m.id, "completed")
          /\ UNCHANGED <<orphan, disposing, updates>>
    /\ UNCHANGED pendingOpen

CommandReceived(w) ==
    /\ window[w] = "usable" /\ inbox[w] # <<>>
    /\ LET m == Head(inbox[w]) IN
       /\ inbox' = [inbox EXCEPT ![w] = Tail(@)]
       /\ \/ m.action = "open" /\ OpenReceived(w, m)
          \/ m.action = "focus" /\ FocusReceived(w, m)
          \/ m.action \in {"hide", "close"} /\ RemoveReceived(w, m)
    /\ UNCHANGED <<mainRest, budget>>

\* session.openView reaches the main process.
ViewRequested(w, s) ==
    /\ view[w][s] = "starting"
    /\ \/ /\ registry[s] \in {NoWindow, w} /\ s \in live
          /\ registry' = [registry EXCEPT ![s] = w]
          /\ updates' = Queue(s, Update("background", "view", w))
          /\ SetView(w, s, "asking") /\ UNCHANGED <<acks, pendingOpen>>
       \/ /\ registry[s] \notin {NoWindow, w} \/ s \notin live
          /\ registry' = RegistryWithout(s, w)
          /\ SetView(w, s, "failed")
          /\ Ack(w, pendingOpen[w][s], "failed")
          /\ pendingOpen' = [pendingOpen EXCEPT ![w][s] = 0]
          /\ UNCHANGED updates
    /\ UNCHANGED <<window, live, presentation, ready, creation, transition, requests, closer,
                   pending, inbox, orphan, disposing, budget>>

OrphanRequested(w, s) ==
    /\ orphan[w][s] = "starting"
    /\ \/ /\ registry[s] \in {NoWindow, w} /\ s \in live
          /\ registry' = [registry EXCEPT ![s] = w]
          /\ updates' = Queue(s, Update("background", "orphan", w))
          /\ orphan' = [orphan EXCEPT ![w][s] = "asking"]
       \/ /\ registry[s] \notin {NoWindow, w} \/ s \notin live
          /\ registry' = RegistryWithout(s, w)
          /\ orphan' = [orphan EXCEPT ![w][s] = "none"]
          /\ UNCHANGED updates
    /\ UNCHANGED <<window, live, presentation, ready, creation, transition, requests, closer,
                   pending, inbox, acks, view, pendingOpen, disposing, budget>>

\* registerController: an open command that waited is answered.
ViewOpened(w, s) ==
    /\ view[w][s] = "answered"
    /\ SetView(w, s, "open")
    /\ Ack(w, pendingOpen[w][s], "completed")
    /\ pendingOpen' = [pendingOpen EXCEPT ![w][s] = 0]
    /\ UNCHANGED <<mainRest, updates, inbox, orphan, disposing, budget>>

\* session.closeView: who does not own the view changes nothing.
CloseViewReceived(w, s, by) ==
    /\ registry' = RegistryWithout(s, w)
    /\ updates' = IF registry[s] = w THEN Queue(s, Update("headless", by, w)) ELSE updates

\* The start of a tab that is gone ends with the disposal of its controller.
OrphanDisposed(w, s) ==
    /\ orphan[w][s] = "answered"
    /\ orphan' = [orphan EXCEPT ![w][s] = "none"]
    /\ CloseViewReceived(w, s, "nobody")
    /\ UNCHANGED <<window, live, presentation, ready, creation, transition, requests, closer,
                   pending, inbox, acks, view, pendingOpen, disposing, budget>>

CloseViewServed(w, s) ==
    /\ view[w][s] = "closing"
    /\ CloseViewReceived(w, s, "closing")
    /\ \/ /\ registry[s] = w /\ s \in live
          /\ SetView(w, s, "closed") /\ UNCHANGED <<acks, disposing>>
       \/ /\ registry[s] # w \/ s \notin live
          /\ AppliedForClosing(s, w)
    /\ UNCHANGED <<window, live, presentation, ready, creation, transition, requests, closer,
                   pending, inbox, orphan, pendingOpen, budget>>

\* The session list reveals, hides, or has lost a session; so does closing a tab.
Reveal(w, s) ==
    /\ window[w] = "usable" /\ w \in ready
    /\ s \in live /\ view[w][s] = "none" /\ Interfere(s)
    /\ SetView(w, s, "starting")
    /\ UNCHANGED <<mainRest, updates, inbox, acks, orphan, pendingOpen, disposing>>

Hide(w, s) ==
    /\ \/ s \notin live /\ UNCHANGED budget
       \/ /\ s \in live /\ Interfere(s)
    /\ \/ view[w][s] \in {"starting", "asking", "answered"} /\ TabGone(w, s)
       \/ /\ view[w][s] \in {"failed", "open"}
          /\ SetView(w, s, IF view[w][s] = "open" THEN "closing" ELSE "none")
          /\ UNCHANGED <<orphan, updates>>
    /\ UNCHANGED <<mainRest, inbox, acks, pendingOpen, disposing>>

\* session.reportViewFocus, refused from a renderer that does not own the view: sent when
\* the view has opened, and whenever its tab or its window gets or loses the focus, until
\* the controller is disposed.
ReportFocus(w, s, focused) ==
    /\ view[w][s] \in {"open", "closing"} /\ registry[s] = w
    /\ \A i \in DOMAIN updates[s] : updates[s][i].by # "nobody"     \* bound: one waits
    /\ updates' = Queue(s, Update(IF focused THEN "foreground" ELSE "background", "nobody", w))
    /\ UNCHANGED <<mainRest, inbox, acks, view, orphan, pendingOpen, disposing, budget>>

-----------------------------------------------------------------------------
\* Windows.  A window that is closed or has failed to load is not used again.

rest == <<live, presentation, updates, registry, transition, requests, closer, pending,
          rendererVars, budget>>

\* The application starts, or is activated without a window.
WindowRequested(w) ==
    /\ window[w] = "unborn" /\ w = NextWindow
    /\ \A v \in Windows : window[v] \in {"unborn", "destroyed"}
    /\ window' = [window EXCEPT ![w] = "loading"]
    /\ UNCHANGED <<ready, creation, rest>>

LoadEnded(w) ==
    /\ window[w] = "loading"
    /\ \E state \in {"usable", "destroyed"} : window' = [window EXCEPT ![w] = state]
    /\ UNCHANGED <<ready, creation, rest>>

\* presentationReady
RendererReady(w) ==
    /\ window[w] = "usable" /\ w \notin ready
    /\ ready' = ready \cup {w}
    /\ UNCHANGED <<window, creation, rest>>

\* The sessions whose closers wait for w; that command is rejected, and closeView's catch
\* forgets the view.
ClosedBy(w) == {s \in Sessions : \E p \in pending : p.by = "closer" /\ p.session = s /\ p.window = w}

\* Mutant of LostByRegistry: the views of the renderer stay registered.
ViewsStayRegistered(w) ==
    registry' = [s \in Sessions |-> IF s \in ClosedBy(w) THEN NoWindow ELSE registry[s]]

LostByRegistry(w) ==
    registry' = [s \in Sessions |->
        IF registry[s] = w \/ s \in ClosedBy(w) THEN NoWindow ELSE registry[s]]

\* Mutant of Rejected: only those who wait for a ready renderer are told.
WaitersRejected(s, w) == transition[s].window = w /\ transition[s].stage = "readying"

\* cleanup: the commands and waiters of the renderer are rejected, whose handlers
\* run after its views have become headless.
Rejected(s, w) ==
    /\ transition[s].window = w
    /\ transition[s].stage \in {"readying", "showing", "focusing", "hiding"}

\* Mutant of HeadlessUpdate: only the registry forgets the view.
NoHeadlessUpdate(s, w) == <<>>

HeadlessUpdate(s, w) == IF registry[s] = w THEN <<Update("headless", "nobody", w)>> ELSE <<>>

RendererUnavailable(w) ==
    /\ ready' = ready \ {w}
    /\ LostByRegistry(w)
    /\ pending' = {p \in pending : p.window # w}
    /\ closer' = [s \in Sessions |-> IF s \in ClosedBy(w) THEN "session" ELSE closer[s]]
    /\ updates' = [s \in Sessions |-> IF s \notin live THEN updates[s] ELSE updates[s]
          \o HeadlessUpdate(s, w)
          \o (IF Rejected(s, w) THEN <<Update("unavailable", "transition", NoWindow)>> ELSE <<>>)]
    /\ transition' = [s \in Sessions |->
          IF ~Rejected(s, w) THEN transition[s]
          ELSE IF s \in live THEN [transition[s] EXCEPT !.stage = "settling"] ELSE Idle]

\* The renderer crashes, or its window is closed.
Lost(w, state) ==
    /\ window[w] = "usable" \/ (window[w] \in {"loading", "crashed"} /\ state = "destroyed")
    /\ window' = [window EXCEPT ![w] = state]
    /\ \/ w \in ready /\ RendererUnavailable(w)
       \/ /\ w \notin ready
          /\ UNCHANGED <<ready, registry, pending, closer, updates, transition>>
    /\ inbox' = [inbox EXCEPT ![w] = <<>>]
    /\ acks' = {m \in acks : m.window # w}
    /\ view' = [view EXCEPT ![w] = [s \in Sessions |-> "none"]]
    /\ orphan' = [orphan EXCEPT ![w] = [s \in Sessions |-> "none"]]
    /\ pendingOpen' = [pendingOpen EXCEPT ![w] = [s \in Sessions |-> 0]]
    /\ disposing' = [disposing EXCEPT ![w] = [s \in Sessions |-> {}]]
    /\ UNCHANGED <<live, presentation, creation, requests, budget>>

-----------------------------------------------------------------------------
Init ==
    /\ window = [w \in Windows |-> "unborn"] /\ live = Sessions
    /\ presentation = [s \in Sessions |-> "headless"]
    /\ updates = [s \in Sessions |-> <<>>]
    /\ registry = [s \in Sessions |-> NoWindow]
    /\ ready = {} /\ creation = NoWindow
    /\ transition = [s \in Sessions |-> Idle]
    /\ requests = [s \in Sessions |-> <<>>]
    /\ closer = [s \in Sessions |-> "idle"] /\ pending = {}
    /\ inbox = [w \in Windows |-> <<>>] /\ acks = {}
    /\ view = [w \in Windows |-> [s \in Sessions |-> "none"]]
    /\ orphan = [w \in Windows |-> [s \in Sessions |-> "none"]]
    /\ pendingOpen = [w \in Windows |-> [s \in Sessions |-> 0]]
    /\ disposing = [w \in Windows |-> [s \in Sessions |-> {}]]
    /\ \E b \in Bounds : budget = [requests |-> b.requests, others |-> b.others,
                                   disturbed |-> {}, givenUp |-> {}]

SessionNext(s) ==
    \/ \E wanted \in Requested : RequestPresentation(s, wanted)
    \/ BeginTransition(s) \/ Apply(s)
    \/ CloseBegun(s) \/ CloseReturned(s) \/ \E by \in {"human", "expiry"} : SessionClosed(s, by)
    \/ ReadyResumed(s) \/ ReadyTimedOut(s) \/ CreationResumed(s)

ViewNext(w, s) ==
    \/ ViewRequested(w, s) \/ ViewOpened(w, s) \/ CloseViewServed(w, s)
    \/ OrphanRequested(w, s) \/ OrphanDisposed(w, s)
    \/ Reveal(w, s) \/ Hide(w, s) \/ \E focused \in BOOLEAN : ReportFocus(w, s, focused)

WindowNext(w) ==
    \/ CommandReceived(w) \/ WindowRequested(w) \/ LoadEnded(w) \/ RendererReady(w)
    \/ \E state \in {"crashed", "destroyed"} : Lost(w, state)

Next ==
    \/ \E s \in Sessions : SessionNext(s)
    \/ \E w \in Windows, s \in Sessions : ViewNext(w, s)
    \/ \E w \in Windows : WindowNext(w)
    \/ \E m \in acks : Acknowledge(m)
    \/ \E p \in pending : CommandFailed(p)

\* Promises settle, timers fire, pages load or fail.  A renderer owes nothing.
Fairness ==
    /\ \A s \in Sessions :
          WF_vars(Apply(s)) /\ WF_vars(ReadyResumed(s) \/ ReadyTimedOut(s)) /\ WF_vars(CreationResumed(s))
    /\ \A w \in Windows : WF_vars(LoadEnded(w))
    /\ \A s \in Sessions : WF_vars(\E p \in pending : p.session = s /\ CommandFailed(p))

Spec == Init /\ [][Next]_vars /\ Fairness

-----------------------------------------------------------------------------
\* Properties.

Owners == Windows \cup {NoWindow}
WindowStates == {"unborn", "loading", "usable", "crashed", "destroyed"}
Stages == {"idle", "opening", "creating", "readying", "showing", "focusing", "hiding", "settling"}
Actions == {"open", "focus", "hide", "close"}
Ids == 1..MaxCommands

Updates == [state : States, by : {"transition"}, window : {NoWindow}]
           \cup [state : States, by : Waiters \ {"transition"}, window : Windows]
Transitions == [stage : Stages, wanted : Requested, owner : Owners, window : Owners]
Commands == [id : Ids, window : Windows, session : Sessions, action : Actions,
             by : {"transition", "closer"}]
Messages == [id : Ids, session : Sessions, action : Actions]
Acknowledgements == [id : Ids, window : Windows, status : {"completed", "failed"}]
Budgets == [requests : [Sessions -> Nat], others : [Sessions -> Nat],
            disturbed : SUBSET Sessions, givenUp : SUBSET Sessions]

TypeOK ==
    /\ window \in [Windows -> WindowStates] /\ live \subseteq Sessions
    /\ presentation \in [Sessions -> States] /\ updates \in [Sessions -> Seq(Updates)]
    /\ registry \in [Sessions -> Owners] /\ ready \subseteq Windows /\ creation \in Owners
    /\ transition \in [Sessions -> Transitions] /\ requests \in [Sessions -> Seq(Requested)]
    /\ closer \in [Sessions -> {"idle", "view", "session"}] /\ pending \subseteq Commands
    /\ inbox \in [Windows -> Seq(Messages)] /\ acks \subseteq Acknowledgements
    /\ view \in [Windows -> [Sessions -> Views]]
    /\ orphan \in [Windows -> [Sessions -> {"none", "starting", "asking", "answered"}]]
    /\ pendingOpen \in [Windows -> [Sessions -> Ids \cup {0}]]
    /\ disposing \in [Windows -> [Sessions -> SUBSET Ids]]
    /\ budget \in Budgets

\* A session is never left "opening": a transition or a queued update still works on
\* it, whatever fails, is lost or comes late (presentation-controller.ts, setPresentation).
NeverLeftOpening ==
    \A s \in live : presentation[s] = "opening" => transition[s] # Idle \/ updates[s] # <<>>

\* A registered view exists, or is about to, in a renderer that lives: the registry
\* follows every crash and every view that goes (presentation-registry.ts).
RegisteredHasView ==
    \A s \in Sessions : LET w == registry[s] IN w # NoWindow =>
        /\ window[w] = "usable"
        /\ \/ view[w][s] \in {"asking", "answered", "open", "closing"}
           \/ orphan[w][s] \in {"asking", "answered"}

\* Nothing is under way for a session, nor was anything behind the controller's back.
Quiet(s) ==
    /\ s \notin budget.disturbed
    /\ transition[s] = Idle /\ updates[s] = <<>> /\ closer[s] = "idle" /\ requests[s] = <<>>
    /\ AtRest(s) /\ \A w \in Windows : inbox[w] = <<>>

Presented(s) == presentation[s] \in {"background", "foreground"}

\* When all is quiet, a session that is said to be presented has an open view that is
\* registered: with views that the controller or the human opens, hides and opens again,
\* the focus that they report, and renderers that crash or fail to load; unless a command
\* to one of them was given up, or the human came between the steps of a transition, or an
\* agent closed the session in vain (ipc.ts, setHeadlessIfPresent; presentation-controller.ts,
\* setPresentation; terminal-command-handler.ts, session.reportViewFocus).
PresentedHasView ==
    \A s \in live \ budget.givenUp : Quiet(s) /\ Presented(s) =>
        registry[s] # NoWindow /\ view[registry[s]][s] = "open"

\* What a presented session is said to be (agent-terminal-interface-design.md): "A
\* renderer window and terminal tab exist."  It fails when a command that was given up
\* is carried out late.
PresentedHasTab ==
    \A s \in live : Quiet(s) /\ Presented(s) => \E w \in Windows : view[w][s] = "open"

\* Every transition settles: renderers that do not answer, that crash, or whose page
\* does not load are given up, and the next transition of the session can begin
\* (presentation-controller.ts, waitForRenderer and requestRenderer).
TransitionsSettle == \A s \in Sessions : transition[s] # Idle ~> transition[s] = Idle

=============================================================================
