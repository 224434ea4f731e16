------------------------------ MODULE Renderer ------------------------------
(***************************************************************************)
(* What a renderer shows (apps/desktop/src/renderer) and what it follows   *)
(* of the main process: the list of sessions and of agent control, the     *)
(* permission prompts of the broker, and the output of one terminal.       *)
(*                                                                         *)
(* Events and replies of the main process reach a renderer in one order,   *)
(* `channel`.  Each of the three mirrors subscribes first, asks for a      *)
(* snapshot next, and holds back the events that come before the answer.   *)
(* The broker's prompts are requested by the agent gateway and settled by  *)
(* the human, a timeout, an abort, or the loss of the last renderer.       *)
(***************************************************************************)
EXTENDS Naturals, Sequences, FiniteSets, SequencesExt

CONSTANTS Sessions,
          Viewed,        \* the session that the terminal shows
          Prompts,
          MaxPending,    \* maximumPendingPermissions
          Bounds         \* bounds of a behaviour: what still happens of each kind

ASSUME ViewedAssumption == Viewed \in Sessions
ASSUME MaxPendingAssumption == MaxPending \in Nat \ {0}

Traffic == {"updates", "controls", "prompts", "decisions", "outputs", "views", "losses"}

ASSUME BoundsAssumption == Bounds \subseteq [Traffic -> Nat]

VARIABLES
    manager,      \* version of each session's summary; 0: no such session
    removed,      \* sessions that have been removed
    running,      \* the viewed session has not exited
    control,      \* what the gateway says of each session
    prompts,      \* the outcome of each prompt
    queue,        \* the broker's pending prompts, in order
    outputs,      \* what became of the query in each chunk of the viewed session
    answers,      \* how often each chunk's query was answered
    window,       \* "none", "loading" or "mounted"
    channel,      \* events and replies on their way to the renderer
    asked,        \* requests on their way to the main process
    list,         \* useSessionCollaboration
    dialog,       \* useAgentPermissions
    tab,          \* createTerminalSession
    budget

mainVars == <<manager, removed, running, control, prompts, queue, outputs, answers>>
rendererVars == <<list, dialog, tab>>
vars == <<mainVars, window, channel, asked, rendererVars, budget>>

Spend(kind) == budget[kind] > 0 /\ budget' = [budget EXCEPT ![kind] = @ - 1]

\* Requests of the renderer without parameters, and messages of the main process.
Ask(kind) == [kind |-> kind]

Updated(s, v, r) == [type |-> "updated", session |-> s, version |-> v, running |-> r]
Removed(s) == [type |-> "removed", session |-> s]
Control(s, c) == [type |-> "control", session |-> s, state |-> c]
Requested(p) == [type |-> "requested", prompt |-> p]
Resolved(p) == [type |-> "resolved", prompt |-> p]
Output(n, q) == [type |-> "output", sequence |-> n, query |-> q]
Reply(to, value) == [type |-> "reply", to |-> to, value |-> value]
Failure(to) == [type |-> "failure", to |-> to]

\* broadcastRendererEvent: a page that still loads hears nothing.
Emit(messages) == channel' = IF window = "mounted" THEN channel \o messages ELSE channel

-----------------------------------------------------------------------------
\* The list of sessions.

ListEvents == {"updated", "removed", "control"}

EmptyList == [booting |-> TRUE, replies |-> {}, buffer |-> <<>>, complete |-> FALSE,
              sessions |-> [s \in Sessions |-> 0], controls |-> [s \in Sessions |-> "detached"]]

\* applySessionListEvent
ApplyListEvent(l, m) ==
    CASE m.type = "updated" -> [l EXCEPT !.sessions[m.session] = m.version]
      [] m.type = "removed" -> [l EXCEPT !.sessions[m.session] = 0, !.controls[m.session] = "detached"]
      [] m.type = "control" -> [l EXCEPT !.controls[m.session] = m.state]

\* Mutant of ListBooted: the events held back are dropped.
ListBootedFromSnapshot(l) == [l EXCEPT !.booting = FALSE, !.buffer = <<>>]

ListBooted(l) ==
    LET applied[n \in 0..Len(l.buffer)] ==
            IF n = 0 THEN [l EXCEPT !.booting = FALSE, !.buffer = <<>>]
            ELSE ApplyListEvent(applied[n - 1], l.buffer[n])
    IN applied[Len(l.buffer)]

\* Both snapshots have come: createSessionListState replaces what was there.
Snapshots(l, m) ==
    LET replies == l.replies \union {m}
        Value(to) == (CHOOSE r \in replies : r.to = to).value IN
    IF {r.to : r \in replies} # {"sessions", "controls"} THEN [l EXCEPT !.replies = replies]
    ELSE ListBooted([l EXCEPT !.replies = {}, !.complete = TRUE,
                              !.sessions = Value("sessions"), !.controls = Value("controls")])

ListReceives(l, m) ==
    CASE m.type \in ListEvents /\ l.booting -> [l EXCEPT !.buffer = Append(@, m)]
      [] m.type \in ListEvents /\ ~l.booting -> ApplyListEvent(l, m)
      [] m.type = "reply" /\ m.to = "change" -> ApplyListEvent(l, m.value)
      [] m.type = "reply" /\ m.to \in {"sessions", "controls"} /\ l.booting -> Snapshots(l, m)
      [] m.type = "failure" /\ m.to \in {"sessions", "controls"} /\ l.booting -> ListBooted(l)
      [] OTHER -> l

-----------------------------------------------------------------------------
\* The permission prompts.

EmptyDialog == [booting |-> TRUE, buffer |-> <<>>, complete |-> FALSE, shown |-> <<>>]

\* A prompt is pending, or shown, once.
Without(seq, p) == RemoveFirst(seq, p)

\* createPermissionQueue: the newest prompts are kept.
Newest(seq) == IF Len(seq) <= MaxPending THEN seq ELSE SubSeq(seq, Len(seq) - MaxPending + 1, Len(seq))

\* applyPermissionEvent
ApplyPromptEvent(d, m) ==
    [d EXCEPT !.shown = IF m.type = "requested" THEN Newest(Append(Without(@, m.prompt), m.prompt))
                        ELSE Without(@, m.prompt)]

DialogBooted(d, shown) ==
    LET applied[n \in 0..Len(d.buffer)] ==
            IF n = 0 THEN [d EXCEPT !.booting = FALSE, !.buffer = <<>>, !.shown = shown]
            ELSE ApplyPromptEvent(applied[n - 1], d.buffer[n])
    IN applied[Len(d.buffer)]

\* When the snapshot fails, the updater that applies the buffer may run only after
\* the buffer has been emptied.
DialogReceives(d, m) ==
    CASE m.type \in {"requested", "resolved"} /\ d.booting -> {[d EXCEPT !.buffer = Append(@, m)]}
      [] m.type \in {"requested", "resolved"} /\ ~d.booting -> {ApplyPromptEvent(d, m)}
      [] m.type = "reply" /\ m.to = "prompts" ->
             {[DialogBooted(d, Newest(m.value)) EXCEPT !.complete = TRUE]}
      [] m.type = "failure" /\ m.to = "prompts" ->
             {DialogBooted(d, d.shown), DialogBooted([d EXCEPT !.buffer = <<>>], d.shown)}
      [] m.type = "reply" /\ m.to = "resolve" -> {[d EXCEPT !.shown = Without(@, m.value)]}
      [] OTHER -> {d}

-----------------------------------------------------------------------------
\* The terminal.  Its stages: none, creating (the session), opening (the view),
\* writing (the screen as it was), open, failed, disposed.

Starting == {"creating", "opening", "writing"}

NoTab == [stage |-> "none", created |-> FALSE, closed |-> FALSE, buffer |-> <<>>, last |-> 0,
          running |-> FALSE, start |-> 0, writes |-> <<>>, shown |-> <<>>]

\* Mutant of ProcessEvent: output that the screen already shows is written again.
ProcessEventAgain(t, m) ==
    CASE m.type = "output" -> [t EXCEPT !.last = m.sequence, !.writes = Append(@, m)]
      [] m.type = "updated" -> [t EXCEPT !.running = m.running]
      [] OTHER -> t

\* processEvent
ProcessEvent(t, m) ==
    CASE m.type = "output" /\ m.sequence > t.last ->
             [t EXCEPT !.last = m.sequence, !.writes = Append(@, m)]
      [] m.type = "updated" -> [t EXCEPT !.running = m.running]
      [] OTHER -> t

\* The events that were held back.
Followed(t, events) ==
    LET processed[n \in 0..Len(events)] ==
            IF n = 0 THEN t ELSE ProcessEvent(processed[n - 1], events[n])
    IN processed[Len(events)]

\* eventMatchesSession, for the events that change what is shown
Concerns(m) == m.type = "output" \/ (m.type \in {"updated", "removed"} /\ m.session = Viewed)

\* A removed session takes its tab away, which ends a controller that is there and
\* marks one that is still being made.
TabReceives(t, m) ==
    CASE m.type \in {"output", "updated"} /\ Concerns(m) /\ t.stage \in Starting ->
             [t EXCEPT !.buffer = Append(@, m)]
      [] m.type \in {"output", "updated"} /\ Concerns(m) /\ t.stage = "open" -> ProcessEvent(t, m)
      [] m.type = "removed" /\ Concerns(m) /\ t.stage \in Starting -> [t EXCEPT !.closed = @ \/ ~t.created]
      [] m.type = "reply" /\ m.to \in {"create", "attach"} ->
             [t EXCEPT !.stage = "opening", !.created = m.to = "create"]
      [] m.type = "reply" /\ m.to = "view" ->
             [t EXCEPT !.stage = "writing", !.start = m.value.sequence, !.running = m.value.running]
      [] m.type = "failure" /\ m.to \in {"create", "attach", "view"} -> [t EXCEPT !.stage = "failed"]
      [] m.type = "reply" /\ m.to = "closeView" -> [t EXCEPT !.stage = "disposed"]
      [] OTHER -> t

\* What the renderer asks for next: a session that it made but cannot show is closed,
\* and a view is closed after its session.
TabAsks(t, m) ==
    CASE m.type = "reply" /\ m.to \in {"create", "attach"} -> {Ask("view")}
      [] m.type = "failure" /\ m.to = "view" /\ t.created -> {Ask("close")}
      [] m.type = "removed" /\ Concerns(m) /\ t.stage = "open" -> {Ask("closeView")}
      [] m.type = "reply" /\ m.to = "close" /\ m.value /\ t.stage = "open" -> {Ask("closeView")}
      [] OTHER -> {}

-----------------------------------------------------------------------------
\* The main process.

Init ==
    /\ manager = [s \in Sessions |-> 0] /\ removed = {} /\ running = FALSE
    /\ control = [s \in Sessions |-> "detached"]
    /\ prompts = [p \in Prompts |-> "idle"] /\ queue = <<>>
    /\ outputs = <<>> /\ answers = <<>>
    /\ window = "none" /\ channel = <<>> /\ asked = {}
    /\ list = EmptyList /\ dialog = EmptyDialog /\ tab = NoTab
    /\ budget \in Bounds

SessionCreated(s) ==
    /\ Spend("updates") /\ manager[s] = 0 /\ s \notin removed
    /\ s = Viewed => Ask("create") \notin asked
    /\ manager' = [manager EXCEPT ![s] = 1]
    /\ running' = (running \/ s = Viewed)
    /\ Emit(<<Updated(s, 1, TRUE)>>)
    /\ UNCHANGED <<removed, control, prompts, queue, outputs, answers, window, asked, rendererVars>>

\* A title, a presentation or the lifecycle of a session changes.
SessionUpdated(s) ==
    /\ Spend("updates") /\ manager[s] > 0
    /\ manager' = [manager EXCEPT ![s] = @ + 1]
    /\ \E r \in {running, FALSE} :
           /\ s # Viewed => r = running
           /\ running' = r
           /\ Emit(<<Updated(s, manager[s] + 1, r)>>)
    /\ UNCHANGED <<removed, control, prompts, queue, outputs, answers, window, asked, rendererVars>>

\* The gateway forgets the control of a session before its removal is broadcast.
Gone(s) ==
    (IF control[s] = "detached" THEN <<>> ELSE <<Control(s, "detached")>>) \o <<Removed(s)>>

Forget(s) ==
    /\ manager' = [manager EXCEPT ![s] = 0]
    /\ removed' = removed \union {s}
    /\ control' = [control EXCEPT ![s] = "detached"]

SessionRemoved(s) ==
    /\ Spend("updates") /\ manager[s] > 0
    /\ s = Viewed => ~running
    /\ Forget(s)
    /\ Emit(Gone(s))
    /\ UNCHANGED <<running, prompts, queue, outputs, answers, window, asked, rendererVars>>

\* An agent attaches or detaches.
ControlChanged(s) ==
    /\ Spend("controls") /\ manager[s] > 0 /\ control[s] # "revoked"
    /\ \E c \in {"detached", "attached"} \ {control[s]} :
           /\ control' = [control EXCEPT ![s] = c]
           /\ Emit(<<Control(s, c)>>)
    /\ UNCHANGED <<manager, removed, running, prompts, queue, outputs, answers, window, asked, rendererVars>>

\* One chunk of the viewed session, with a query the session answers, or whose
\* answer its PTY refuses.
OutputWritten ==
    /\ Spend("outputs") /\ running
    /\ \E q \in {"plain", "returned", "failed"} :
           /\ outputs' = Append(outputs, q)
           /\ answers' = Append(answers, IF q = "returned" THEN 1 ELSE 0)
           /\ Emit(<<Output(Len(outputs) + 1, q)>>)
    /\ UNCHANGED <<manager, removed, running, control, prompts, queue, window, asked, rendererVars>>

\* settle
Settle(p, outcome) ==
    /\ prompts' = [prompts EXCEPT ![p] = outcome]
    /\ queue' = Without(queue, p)

\* requestPermission: no renderer, or a full broker, cancels at once; so does a
\* request that has been aborted, whose end is broadcast nevertheless.
PromptRequested(p) ==
    /\ Spend("prompts") /\ prompts[p] = "idle"
    /\ \/ /\ window = "none" \/ Len(queue) >= MaxPending
          /\ prompts' = [prompts EXCEPT ![p] = "cancelled"]
          /\ UNCHANGED <<queue, channel>>
       \/ /\ window # "none" /\ Len(queue) < MaxPending
          /\ prompts' = [prompts EXCEPT ![p] = "pending"]
          /\ queue' = Append(queue, p)
          /\ Emit(<<Requested(p)>>)
       \/ /\ window # "none" /\ Len(queue) < MaxPending
          /\ Settle(p, "cancelled")
          /\ Emit(<<Resolved(p)>>)
    /\ UNCHANGED <<manager, removed, running, control, outputs, answers, window, asked, rendererVars>>

\* Mutant of PromptEnded: the end is not broadcast.
PromptEndedUnheard(p) ==
    /\ prompts[p] = "pending"
    /\ \E outcome \in {"timeout", "cancelled"} : Settle(p, outcome)
    /\ UNCHANGED <<manager, removed, running, control, outputs, answers, window, channel, asked, rendererVars, budget>>

\* The timeout of a prompt, or the end of the request that asked for it.
PromptEnded(p) ==
    /\ prompts[p] = "pending"
    /\ \E outcome \in {"timeout", "cancelled"} : Settle(p, outcome)
    /\ Emit(<<Resolved(p)>>)
    /\ UNCHANGED <<manager, removed, running, control, outputs, answers, window, asked, rendererVars, budget>>

-----------------------------------------------------------------------------
\* The commands of the renderer, as the main process serves them.

Answered(request) == asked' = asked \ {request}

\* Snapshots are taken in the order in which they were asked for.
InTurn(request) ==
    /\ request.kind \in {"controls", "prompts"} => Ask("sessions") \notin asked
    /\ request.kind = "prompts" => Ask("controls") \notin asked

ServeSnapshot(request) ==
    /\ request.kind \in {"sessions", "controls", "prompts"}
    /\ Answered(request)
    /\ Emit(<<Reply(request.kind, CASE request.kind = "sessions" -> manager
                                    [] request.kind = "controls" -> control
                                    [] OTHER -> queue)>>)
    /\ UNCHANGED <<mainVars, budget>>

\* revokeSessionControl and allowSessionControl, which leaves an attached session as it is.
ControlSet(s, state) == IF state = "detached" /\ control[s] = "attached" THEN "attached" ELSE state

ServeControl(request) ==
    /\ request.kind = "change"
    /\ Answered(request)
    /\ LET s == request.session
           state == ControlSet(s, request.state)
           event == Control(s, state) IN
       \/ /\ manager[s] > 0
          /\ control' = [control EXCEPT ![s] = state]
          /\ Emit((IF control[s] = state THEN <<>> ELSE <<event>>) \o <<Reply("change", event)>>)
       \/ /\ manager[s] = 0
          /\ Emit(<<Failure("change")>>)
          /\ UNCHANGED control
    /\ UNCHANGED <<manager, removed, running, prompts, queue, outputs, answers, budget>>

\* An answer that comes after the prompt has ended changes nothing.
ServeResolve(request) ==
    /\ request.kind = "resolve"
    /\ Answered(request)
    /\ IF prompts[request.prompt] = "pending"
       THEN /\ Settle(request.prompt, "answered")
            /\ Emit(<<Resolved(request.prompt), Reply("resolve", request.prompt)>>)
       ELSE /\ Emit(<<Reply("resolve", request.prompt)>>)
            /\ UNCHANGED <<prompts, queue>>
    /\ UNCHANGED <<manager, removed, running, control, outputs, answers, budget>>

ServeCreate(request) ==
    /\ request.kind = "create" /\ manager[Viewed] = 0 /\ Viewed \notin removed
    /\ Answered(request)
    /\ manager' = [manager EXCEPT ![Viewed] = 1]
    /\ running' = TRUE
    /\ Emit(<<Updated(Viewed, 1, TRUE), Reply("create", TRUE)>>)
    /\ UNCHANGED <<removed, control, prompts, queue, outputs, answers, budget>>

\* getSession, and openView with its bootstrap
ServeView(request) ==
    /\ request.kind \in {"attach", "view"}
    /\ Answered(request)
    /\ Emit(<<IF manager[Viewed] > 0
              THEN Reply(request.kind, [sequence |-> Len(outputs), running |-> running])
              ELSE Failure(request.kind)>>)
    /\ UNCHANGED <<mainVars, budget>>

\* A close either ends the session, which is removed, or gives up waiting.
ServeClose(request) ==
    /\ request.kind = "close"
    /\ Answered(request)
    /\ \/ /\ manager[Viewed] > 0
          /\ running' = FALSE
          /\ Forget(Viewed)
          /\ Emit((IF running THEN <<Updated(Viewed, manager[Viewed] + 1, FALSE)>> ELSE <<>>)
                  \o Gone(Viewed) \o <<Reply("close", TRUE)>>)
          /\ UNCHANGED <<prompts, queue, outputs, answers, budget>>
       \/ /\ manager[Viewed] > 0 /\ running
          /\ Spend("losses")
          /\ Emit(<<Reply("close", FALSE)>>)
          /\ UNCHANGED mainVars
       \/ /\ manager[Viewed] = 0
          /\ Emit(<<Failure("close")>>)
          /\ UNCHANGED <<mainVars, budget>>

ServeCloseView(request) ==
    /\ request.kind = "closeView"
    /\ Answered(request)
    /\ Emit(<<Reply("closeView", TRUE)>>)
    /\ UNCHANGED <<mainVars, budget>>

\* input: the answer of the renderer's terminal to a query
ServeInput(request) ==
    /\ request.kind = "input"
    /\ Answered(request)
    /\ answers' = [answers EXCEPT ![request.chunk] = IF running THEN @ + 1 ELSE @]
    /\ UNCHANGED <<manager, removed, running, control, prompts, queue, outputs, channel, budget>>

\* A command that fails before it has changed anything.
ServeFails(request) ==
    /\ request.kind # "input" /\ Spend("losses")
    /\ Answered(request)
    /\ Emit(<<Failure(request.kind)>>)
    /\ UNCHANGED mainVars

Serve ==
    /\ \E request \in asked :
        /\ InTurn(request)
        /\ \/ ServeSnapshot(request) \/ ServeControl(request) \/ ServeResolve(request)
           \/ ServeCreate(request) \/ ServeView(request) \/ ServeClose(request)
           \/ ServeCloseView(request) \/ ServeInput(request) \/ ServeFails(request)
    /\ UNCHANGED <<window, rendererVars>>

-----------------------------------------------------------------------------
\* The renderer.

WindowCreated ==
    /\ window = "none" /\ window' = "loading"
    /\ UNCHANGED <<mainVars, channel, asked, rendererVars, budget>>

\* The effects of the first render: listeners, and the requests of the snapshots.
Mounted ==
    /\ window = "loading" /\ window' = "mounted"
    /\ asked' = {Ask("sessions"), Ask("controls"), Ask("prompts")}
    /\ UNCHANGED <<mainVars, channel, rendererVars, budget>>

\* Every listener of the renderer sees an event; a reply goes to who asked.
Deliver ==
    /\ channel # <<>>
    /\ channel' = Tail(channel)
    /\ LET m == Head(channel) IN
       /\ list' = ListReceives(list, m)
       /\ dialog' \in DialogReceives(dialog, m)
       /\ tab' = TabReceives(tab, m)
       /\ asked' = asked \union TabAsks(tab, m)
    /\ UNCHANGED <<mainVars, window, budget>>

\* A tab is opened on a new session, or on one of the list.
TabStarted ==
    /\ Spend("views") /\ window = "mounted" /\ tab.stage = "none"
    /\ \E kind \in {"create", "attach"} :
           /\ IF kind = "create" THEN manager[Viewed] = 0 /\ Viewed \notin removed
                                 ELSE list.sessions[Viewed] > 0
           /\ tab' = [tab EXCEPT !.stage = "creating"]
           /\ asked' = asked \union {Ask(kind)}
    /\ UNCHANGED <<mainVars, window, channel, list, dialog>>

\* The screen has been written: createTerminalSession goes over the events that it
\* held back.  Of a tab that has gone meanwhile the controller is disposed of.
ScreenWritten ==
    /\ tab.stage = "writing"
    /\ tab' = Followed([tab EXCEPT !.stage = "open", !.last = tab.start, !.buffer = <<>>,
                                   !.shown = [i \in 1..tab.start |-> i]],
                       tab.buffer)
    /\ asked' = asked \union (IF ~tab.closed THEN {}
                              ELSE {Ask(IF tab.created THEN "close" ELSE "closeView")})
    /\ UNCHANGED <<mainVars, window, channel, list, dialog, budget>>

\* Mutant of Consumed: the terminal answers what the session has answered.
NeverConsumed(m) == m.query = "plain"

\* The response coordinator: a query that has been answered is swallowed.
Consumed(m) == m.query \in {"plain", "returned"}

\* xterm parses a chunk, and its own answer to a query becomes input.
ChunkParsed ==
    /\ tab.stage = "open" /\ tab.writes # <<>>
    /\ LET m == Head(tab.writes) IN
       /\ tab' = [tab EXCEPT !.writes = Tail(@), !.shown = Append(@, m.sequence)]
       /\ asked' = IF Consumed(m) \/ ~tab.running THEN asked
                   ELSE asked \union {[kind |-> "input", chunk |-> m.sequence]}
    /\ UNCHANGED <<mainVars, window, channel, list, dialog, budget>>

\* The tab is unmounted while it starts, hidden, or closed with its session.
TabClosed ==
    /\ Spend("views")
    /\ \/ /\ tab.stage \in Starting /\ ~tab.closed
          /\ tab' = [tab EXCEPT !.closed = TRUE]
          /\ UNCHANGED asked
       \/ /\ tab.stage = "open" /\ ~tab.closed /\ {Ask("close"), Ask("closeView")} \cap asked = {}
          /\ \E kind \in {"close", "closeView"} : asked' = asked \union {Ask(kind)}
          /\ UNCHANGED tab
    /\ UNCHANGED <<mainVars, window, channel, list, dialog>>

\* The human revokes or allows agent control of a session of the list.
ControlAsked(s) ==
    /\ Spend("controls") /\ list.sessions[s] > 0
    /\ \E c \in {"revoked", "detached"} :
           asked' = asked \union {[kind |-> "change", session |-> s, state |-> c]}
    /\ UNCHANGED <<mainVars, window, channel, rendererVars>>

\* The human decides on a prompt of the dialog.
PromptDecided(p) ==
    /\ Spend("decisions") /\ p \in ToSet(dialog.shown)
    /\ asked' = asked \union {[kind |-> "resolve", prompt |-> p]}
    /\ UNCHANGED <<mainVars, window, channel, rendererVars>>

\* The window closes or its page crashes.  The cleanup was registered by its first
\* command: of a page that never sent one, nothing is cleaned up.
RendererLost ==
    /\ Spend("losses") /\ window # "none" /\ window' = "none"
    /\ IF window = "mounted"
       THEN /\ prompts' = [p \in Prompts |-> IF prompts[p] = "pending" THEN "cancelled" ELSE prompts[p]]
            /\ queue' = <<>>
       ELSE UNCHANGED <<prompts, queue>>
    /\ channel' = <<>> /\ asked' = {}
    /\ list' = EmptyList /\ dialog' = EmptyDialog /\ tab' = NoTab
    /\ UNCHANGED <<manager, removed, running, control, outputs, answers>>

Next ==
    \/ \E s \in Sessions : \/ SessionCreated(s) \/ SessionUpdated(s) \/ SessionRemoved(s)
                           \/ ControlChanged(s) \/ ControlAsked(s)
    \/ OutputWritten
    \/ \E p \in Prompts : PromptRequested(p) \/ PromptEnded(p) \/ PromptDecided(p)
    \/ Serve \/ WindowCreated \/ Mounted \/ Deliver
    \/ TabStarted \/ ScreenWritten \/ ChunkParsed \/ TabClosed
    \/ RendererLost

Spec == Init /\ [][Next]_vars

-----------------------------------------------------------------------------
\* Properties.

ControlStates == {"detached", "attached", "revoked"}
Queries == {"plain", "returned", "failed"}
Plain == {"sessions", "controls", "prompts", "create", "attach", "view", "close", "closeView"}

Requests ==
    [kind : Plain] \cup [kind : {"change"}, session : Sessions, state : ControlStates]
    \cup [kind : {"resolve"}, prompt : Prompts] \cup [kind : {"input"}, chunk : Nat]

Chunks == [type : {"output"}, sequence : Nat, query : Queries]

Events ==
    Chunks \cup [type : {"updated"}, session : Sessions, version : Nat, running : BOOLEAN]
    \cup [type : {"removed"}, session : Sessions]
    \cup [type : {"control"}, session : Sessions, state : ControlStates]
    \cup [type : {"requested", "resolved"}, prompt : Prompts]

Replies ==
    [type : {"reply"}, to : {"sessions"}, value : [Sessions -> Nat]]
    \cup [type : {"reply"}, to : {"controls"}, value : [Sessions -> ControlStates]]
    \cup [type : {"reply"}, to : {"prompts"}, value : Seq(Prompts)]
    \cup [type : {"reply"}, to : {"change"},
          value : [type : {"control"}, session : Sessions, state : ControlStates]]
    \cup [type : {"reply"}, to : {"resolve"}, value : Prompts]
    \cup [type : {"reply"}, to : {"attach", "view"}, value : [sequence : Nat, running : BOOLEAN]]
    \cup [type : {"reply"}, to : {"create", "close", "closeView"}, value : BOOLEAN]

Messages == Events \cup Replies \cup [type : {"failure"}, to : Plain \cup {"change", "resolve"}]

TypeOK ==
    /\ manager \in [Sessions -> Nat] /\ removed \subseteq Sessions /\ running \in BOOLEAN
    /\ control \in [Sessions -> ControlStates]
    /\ prompts \in [Prompts -> {"idle", "pending", "answered", "timeout", "cancelled"}]
    /\ queue \in Seq(Prompts) /\ outputs \in Seq(Queries) /\ answers \in Seq(Nat)
    /\ window \in {"none", "loading", "mounted"}
    /\ channel \in Seq(Messages) /\ asked \subseteq Requests
    /\ list \in [booting : BOOLEAN, replies : SUBSET Replies, buffer : Seq(Events),
                 complete : BOOLEAN, sessions : [Sessions -> Nat],
                 controls : [Sessions -> ControlStates]]
    /\ dialog \in [booting : BOOLEAN, buffer : Seq(Events), complete : BOOLEAN,
                   shown : Seq(Prompts)]
    /\ tab \in [stage : Starting \cup {"none", "open", "failed", "disposed"}, created : BOOLEAN,
                closed : BOOLEAN, buffer : Seq(Events), last : Nat, running : BOOLEAN,
                start : Nat, writes : Seq(Chunks), shown : Seq(Nat)]
    /\ budget \in [Traffic -> Nat]

\* No request of the renderer and no message to it is on its way.
Quiet == window = "mounted" /\ channel = <<>> /\ asked = {}

\* Once both snapshots and every event have come, the list of a renderer is what the
\* main process has: nothing that happened while the snapshots were on their way was
\* lost, or undone by an older snapshot (use-session-collaboration.ts, handleEvent).
ListConverges ==
    Quiet /\ list.complete => list.sessions = manager /\ list.controls = control

\* The dialog of a renderer shows prompts that the broker waits for, each once and in their
\* order, and none that has ended: in particular after a late answer, a timeout during the
\* start of the page, and a crash.  It shows all of them while no more were ever asked for
\* than it has room for, and lacks the oldest otherwise (use-agent-permissions.ts).
DialogConverges ==
    Quiet /\ dialog.complete =>
        /\ \E lost \in 0..Len(queue) : dialog.shown = SubSeq(queue, lost + 1, Len(queue))
        /\ dialog.shown # queue => Cardinality({p \in Prompts : prompts[p] # "idle"}) > MaxPending

\* implementation-plan.md:239: "Expose pending requests to newly opened renderer windows".
\* The prompts that the broker waits for are in the dialog of a page that has started.
PendingAreExposed == Quiet /\ dialog.complete => ToSet(queue) \subseteq ToSet(dialog.shown)

\* What the terminal shows is the output of the session, each chunk once and in order,
\* whether it was part of the screen as written, held back or followed; and when all
\* has come, all of it is shown (terminal-controller.ts, createTerminalSession).
ShownExactly ==
    /\ tab.shown = [i \in 1..Len(tab.shown) |-> i]
    /\ Quiet /\ tab.stage = "open" /\ tab.writes = <<>> => Len(tab.shown) = Len(outputs)

\* A query of a program is answered by its session or, when that failed, by the
\* renderer, never by both and never twice (terminal-response-coordinator.ts).
AnsweredOnce == \A n \in DOMAIN answers : answers[n] <= 1

=============================================================================
