# ProContext Terminal: specification, model checking and proofs

This directory holds TLA+ specifications of the parts of the terminal whose
correctness depends on the order in which things happen, the TLC configurations
that check them on small instances, and TLAPS proofs of the main safety
properties for every instance. Sources are under `src/`; `PROJECT.json` maps each
definition to the lines it models.

## 1. The system

ProContext Terminal is an Electron application. Its main process runs terminal
sessions (`packages/session-core` over `packages/pty-host`), shows them in
renderer windows, and lets AI agents use them over a local WebSocket
(`packages/agent-gateway`). The main process is one Node thread, each renderer
another: code between two `await`s is atomic, and all the difficulty is in what
happens during an `await`, or while a message is on its way.

| Component | State it keeps | Operations | Hard behaviour | What makes it correct |
|---|---|---|---|---|
| **Agent gateway** | connections, `attachedSessionIds` of each, attachment registry, `revokedSessionIds`, `operationSessions`, access key, requests in flight | authenticate, a dozen commands, disconnect, rotate key, stop; revoke / allow by the human; session and operation removal by the managers | commands wait for a permission prompt and for a service call, and everything above can happen meanwhile | exclusive control; nothing done on an ownership that has ended; replies and announcements are true |
| **Managed session, session manager** | operation queue, lifecycle, version, exit and observation waiters, recording status; sessions map, startup files | create, input, resize, presentation, observe, recording, close; PTY output and exit; shutdown | queue with awaits, close timeout racing the exit, overlapping closes, preparation, spawn, `kill` and recorder failing | handles of running processes never lost, files go with their session, nobody waits for ever |
| **File recorder** | recorded sessions, the file and its pending writes | start, stop, record, export | writes that fail half-way, an export beside a write | an export is complete and in order, or fails |
| **Captured operations** | process, status, version, closers, observers, record, expiry timer | run, output, exit, observe, close, expire, shutdown | exit against kill, timeout, expiry and retry; shells that leave descendants | a record stays until the process is gone and not for ever |
| **Output journals** | entries, byte count, truncation mark | append, read since a version | trimming on character boundaries | newest output kept, loss always reported |
| **Temporary PTY operations** | operation and session index, expiry timers | run, monitor, expire, close | expiry against a view that opens | presented operations stay, others go |
| **PTY host** | child, ConPTY handshake, output before the first subscriber | write, resize, kill, output, exit | a query cut by chunks | output complete, query answered once |
| **Shell integration** | hooks' variables in the shell; tracker's status, command, directory | hooks at prompt and command, markers, timeout | markers late, lost or malformed, four shells with different hooks | what is reported is what the shell does |
| **Policy engine** | none (the configured modes) | authorize | | ownership and authentication rules |
| **Permission broker** | pending prompts | request, resolve, time out, abort, lose the last renderer | the ways to settle race, a dialog may be starting | settles once, the dialog shows what is pending |
| **Access key store** | credential, file | load, regenerate, copy | crash between persisting and activating, start of the gateway | file, store and gateway agree |
| **Presentation controller, registry** | transitions per session, pending commands, ready renderers, view owners | setPresentation, closeView, acknowledge, renderer lost | renderers crash, answer late or never; one window is created for several | the state shown is the view that exists |
| **Configuration persistence** | current configuration, queue, file | load, save | failing writes, crash | a successful mutation is kept |
| **Main process** | managers, windows, gateway, geometry | start, IPC, windows, quit, shutdown | start against quit, order of shutdown | children are closed before quitting, nothing promised is lost |
| **Renderer: lists and prompts** | session list, control, permission dialog | bootstrap, events, answers | events overtake the snapshot, renderers crash | follows the main process |
| **Renderer: terminals and tabs** | tabs, statuses, controllers, response owner | open, create, hide, reveal, close | views start and are disposed of while sessions exit | screen exact, queries answered once, no session abandoned |
| **App logger** | `main.log` and rotated files | log, rotate | a rotation cut off in the middle | newest records kept without a gap |
| **Protocol, preload, links, shortcuts, settings dialog** | almost none | parsing, forwarding, forms | | pure functions |

Interaction: the gateway calls the managers through `AgentTerminalService`; the
managers emit session events, and on `session.removed` and on the removal of an
operation the main process calls the gateway back
(`collaboration-services.ts:80`, `index.ts:109`). The gateway asks the permission
broker, which asks a renderer. Renderers send commands over IPC and receive
replies and events. The session calls the recorder and the PTY, and reads the
markers of its shell. The hazards of each component, with lines, are the
`hazards` of `PROJECT.json`.

## 2. Modules

```
SessionControl     abstract: who controls each session
   ^ implements
AgentGateway       <- MCAgentGateway      run gateway_control
   ^               <- AgentGatewayProofs
MainProcess        <- MCMainProcess       runs main_process, access_key   (extends AgentGateway)
   ^               <- MainProcessProofs    (extends AgentGatewayProofs)
TerminalSession    <- MCTerminalSession   run session_recording
   ^               <- TerminalSessionProofs
MCSessions         <- SessionsProofs      run sessions
                   extends TerminalSession, with instances of
                   TemporaryOperation and SessionManager
MCOutput           <- OutputProofs        run output   (ShellIntegration: bash_commands)
                   extends CapturedOperation, with instances of OutputJournal,
                   StartupHandshake, ShellIntegration, FileRecorder and AppLogger
Presentation       <- MCPresentation      runs presentation, presentation_late
                   <- PresentationProofs
MCRenderer         <- RendererProofs      runs renderer, dialog_lost   (TerminalTabs: final_tab)
                   extends Renderer, with an instance of TerminalTabs
SequenceLemmas     facts about naturals and sequences, for OutputProofs and RendererProofs
```

An MC module that hosts several modules has a variable `subject`: each behaviour
exercises one of them and leaves the variables of the others alone, so that the
run checks each as a run of its own would. The theorems about a module that is
an instance are about its own specification (`Journals!Spec`, `Manager!Spec`, ...).

What a proof needs of a definition has shaped some of them: recursion over data is
written as a recursive function or with the folds of the community modules, never as
a `RECURSIVE` operator.

### AgentGateway

Variables have the names of `gateway.ts`. `socket` merges the connection map and
the state of the socket: `"removed"` is a connection that key rotation or `stop`
took out of the map and told to close, whose messages can still arrive. A slot
of `Connections` is reused only for a new connection object.

A command is a `request` at one of three stages: idle, `"prompt"` (waiting in
`requestAgentPermission`), `"service"` (waiting in `dispatchAgentCommand`). An
action is the code from one such wait to the next: `ReceiveAllowed` and
`ReceiveAsk` (`handleMessage` up to its first await), `PermissionAllowed` and
`PermissionRefused`, and one action for each way a service call can return:
`AttachServed`, `AttachFailed`, `CreateServed`, `RunServed`, `CreatingEnded`,
`CloseServed`, `CloseOperationServed`, `Served`. `Attach`, `Detach`, `Release`,
`RemoveConnections` are the updates that the handlers share.

The return of a service call and the continuation in the gateway are one step:
only promise continuations lie between, no event can. The broker settles an
aborted prompt as cancelled (`permission-broker.ts:61-73`), so an aborted
request is never allowed. The service of an attach fails only when the session
is gone (`agent-terminal-service.ts:22-31`: `getSession` throws). `input` stands
for the six commands that are authorized alike and change no gateway state.
Denials, `list`, `get` and observing an operation change no state and are left
out; so are remote connections, which the policy rejects.

Sessions and operations are external: `lifecycle` and `operations` change by
actions of their own, each with the callback it causes. A temporary session's
operation has the name of its session. Once a session is removed
`removeSessionControl` runs in the same turn; the operation record goes later.

History variables: `announced` (the last `onControlChanged` of each session),
`granted` (what a success reply of the last step claimed), `presented` (the key a
connection authenticated with). No guard reads them.

### MainProcess

Extends `AgentGateway`, every step of which it takes while the gateway runs, with
what surrounds it: start, quit, crash and restart of the app; `AgentAccessKeyStore`
with its regeneration queue and its file; the configuration with its queue and its
file; the geometry of the primary window, debounced and written through that queue.
Files are replaced by a rename, between the steps around which a crash can fall. A
failure of a write leaves the file as it was.

Left out, though the code allows it: a quit during the start can leave a gateway
started after `shutdownApp`; a rejected `agentGateway.stop()` skips the shutdown of
operations and sessions; a settings file that cannot be read gives defaults, which
the next save writes over it; a failed creation of the first window.

### TerminalSession

`queue` is `operationQueue` with the operation at its head in progress, `stage`
the await it has reached. `Quiet` says that no promise continuation is ready;
calls, PTY events, timers and finished I/O only happen then, since Node drains
its microtasks first. When a queued operation resolves, its caller resumes
before the next operation starts if it has nothing more to await (`"resumed"`);
the continuation of a `close` in the manager is one promise further away, and
may come before or after (`"finalized"`).

A call of `Calls` is made once and can be any operation; a `close` is the
human's, an agent's, the expiry's or the shutdown's. `recorder.stop` never waits:
each append is awaited in the queue, so no write is pending. The file recorder
does not reject a stop; the `TerminalRecorder` interface allows it, and the model
lets it. Assumed of node-pty: it reports no output after the exit. Left out: titles,
scrollback, the answers of the terminal parser; the recorded data and its export,
which are `FileRecorder`'s.

### SessionManager

The manager's side of several sessions until the end of the application: creation
with the preparation of startup files, spawn, and the recording started by default;
closes by several callers; and `shutdownApp`, which closes first the operations,
then the sessions, and counts what it left. The queue of a session is cut down to
what creation, exit and close need of it. A preparation that fails while it writes
leaves its directory (`"stuck"`, `launch.ts`), as does a removal that fails. An
update queued behind a finalization, which can be emitted after `session.removed`,
is outside the model.

### TemporaryOperation

One temporary operation of `temporary-pty-operations.ts`. `record` is its entry in
`operations` (and in `operationIdsBySession`), `timer` its entry in
`expiryTimers`, with a value for an entry whose timer has fired: it stays until
`remove` or a reconciliation deletes it, and keeps a second timer from being set.
`expiring` counts the `expire` calls that wait for `sessions.close`.

The session, its manager and its presentation are external and change by actions
of their own, each with what the `session.updated` listener does. A close is two
steps, since the session's queue can be held up by the recording file; whether
the caller knows the operation is read before the wait. Whatever follows an event
by promise continuations alone is part of the event's step: `monitor` and
`waitForExit` resume with the exit. That a run registers its operation before a
close of its exited session returns was found by counting those continuations.

Assumed: the close of an exited session succeeds (`FileTerminalRecorder.stop`
does not reject). The model shows, and no property denies, that a view that opens
while the expiry's close waits does not keep the operation, and that an operation
stays on record, without a session, when `closeSession` ran before its registration
and a view was open at the end.

### CapturedOperation

One captured run, from `run` having made its record. `process` tells the exit of
the shell (`"left"`: the host knows an exit code, and `kill` does nothing any
more) from the end of its output (`"ended"`: the child's `close` event, when the
operation completes), because descendants can hold the output open. Node answers
a spawn in the next tick, so nothing interleaves with a pending spawn. A client
learns the operation's id from the result of its run; the shutdown finds it in
the manager's map.

### OutputJournal, StartupHandshake, ShellIntegration, FileRecorder, AppLogger

*OutputJournal*: `bounded-output-journal.ts` with characters that know their
position and width, and the two journals of an operation under one version counter.
`Trim` finds how many entries go whole and how many characters of the next, where the
loop of the code takes entry by entry; `Newer` is what `readSince` returns.
`produced` is the untrimmed history that the properties compare with.

*StartupHandshake*: the ConPTY handshake over sequences of characters, with the
query (`Query`) and the scan limit as parameters, and the buffer for output that comes before
the session subscribes, compared with a definition on the whole output.

*ShellIntegration*: the hooks that `scripts.ts` installs in Bash, Zsh, Fish and
PowerShell, as what their user makes them do; the markers, which come one by one,
late, or not at all when a program garbles one; and `tracker.ts` with its timeout,
`Applied` being the tracker that has accepted a marker.
That PSReadLine validates every command of a line is knowledge from outside; a
`PROMPT_COMMAND` or DEBUG trap of the user's own is not modelled.

*FileRecorder*: the file of one recording, line by line. A write is the steps of
`append` and `ensureHeader`, any of which can fail, a write after a part of its
line (`EventLines` are the events that a reader finds); what is appended to a broken line is broken with it. An export waits for the
operations queued when it is asked for and for the write pending then, and reads
beside later ones. The operations of the session do not overlap, as
`TerminalSession` has it.

*AppLogger*: `main.log` and its predecessors. A record is written in one turn, but
each step of `rotateIfNeeded` can throw or be the last of the process.

### Presentation

The controller's transitions, one per session, with the requests chained behind
each; the commands to a renderer and its acknowledgements, each late or never; the
creation of a window that several transitions share; the registry; and the
renderer's side of a command: its tab, its controller, and the disposal of both.
Windows load, fail, crash and close at any time, agents close sessions, the human
opens and closes views. `updates` is the presentations queued in the session, whose
queue other work holds up. The id of a command (`FreshId`) is unlike those that anybody
remembers, and names are used again, so that a bound on those alive together is enough.

A view that is open reports its focus by itself (`terminal-tab-view.tsx:145`), again
whenever its window or its tab gets or loses it (`:216-222`), and until its controller is
disposed of: `ReportFocus` can happen at any time from "open" to the end of "closing", any
number of times, and only the number that wait in the session's queue is bounded (one).
It is refused from a renderer that does not own the view.

`PresentedHasView` is about a session for which nothing is under way (`Quiet`): if it is
said to be in the background or the foreground, its view is registered and open. Views
that report their focus, views that the human opens and hides while no transition runs,
crashes, lost windows and pages that fail to load, before and after the session is shown,
are all included. Three things are excepted, and remembered in `budget`. A command to the
session's renderer was given up (`givenUp`): the renderer may still carry it out, late,
against a later transition (finding 5). The human opened or closed a view in the middle of
a transition, or a transition began while such a view was still opening or closing
(`disturbed`): a view may then be registered for a headless session, and hiding and
revealing one whose view is not registered yet can open two tabs. An agent closes the
session (`disturbed` too): when its view does not answer the registry forgets it, though
the session may not close in time either. The other three properties have no exceptions.

`OpenReceived` takes the renderer's read of the session, an await that changes nothing
(`presentation-commands.ts:77`), together with what follows it.

### Renderer and TerminalTabs

*Renderer*: the three mirrors of the main process. Each subscribes, asks for a
snapshot and holds back events until the answer: the list of sessions and of agent
control (`use-session-collaboration.ts`), the permission prompts
(`use-agent-permissions.ts`, with the broker's limit, timeouts and aborts), and the
screen of one terminal (`terminal-controller.ts`, with the coordinator of terminal
responses). Replies and events reach a renderer in one ordered `channel`, which is
what Electron's IPC gives; the renderer is lost and reloaded. Replaying the held-back
events on a snapshot, and following the terminal's output chunk by chunk (`Followed`), are
recursive functions. No update of a session
comes after its removal. A window that dies before its first command is not tracked
by the main process (`ipc.ts:138-171`) and not by the model.

*TerminalTabs*: the tabs of one window, in order, from each of the ways to open one
(create, attach, reveal) to each of the ways to close it (its button, with
"Terminate?" or detaching, hiding, removal of the session, a failed start), with the
controller that starts and is disposed of meanwhile.

## 3. Runs

| Run | Instance | States | Shows |
|---|---|---|---|
| `gateway_control` | 2 connections, 2 sessions, 2 requests, 2 keys, symmetry | 1.2 M | control is exclusive, truly reported and announced, and implements `SessionControl`; a request that loses its session is aborted |
| `session_recording` | violation | | a recording starts after the finalization (finding 1) |
| `output` | six subjects, see below | 438 K | captured operations stay and go as they should and their calls settle; journals, handshake, shell integration, recording file and log files give what went in |
| `bash_commands` | violation | | the prompt hook is taken for a command (finding 2) |
| `presentation` | 2 sessions, 2 windows, up to 5 commands | 846 K | a session said to be presented has an open view (exceptions: section 2), nothing is left opening, transitions settle |
| `presentation_late` | violation, 1 window | | a hide that was given up is carried out late (finding 5) |
| `renderer` | 2 sessions, 3 prompts of which 2 can be pending, 2 tabs | 4.6 M | lists, dialog, screen and tabs converge on the main process; no session is abandoned |
| `main_process` | 1 connection, 1 session, 1 request, 3 keys, start to restart | 675 K | key, settings and geometry survive; authority is current; abandoned requests end |
| `access_key` | violation, the same instance | | a key regenerated while the gateway starts (finding 3) |
| `dialog_lost` | violation, 3 prompts | | a pending prompt that no window shows (finding 6) |
| `sessions` | a temporary operation; one session; two sessions up to the end of the app | 177 K | removal after exit, no missed wakeup, true announcements, retention, expiry, startup files, shutdown, settling calls |
| `final_tab` | violation, 2 tabs | | the last two tabs close one after the other (finding 4) |

Every property of a passing run has in `PROJECT.json` a mutant of the code that
violates it under the same configuration.

**Why the bounds are enough.**
*gateway_control*: an error of control needs a command that waits and a rival: two
connections, two requests. A second session tells operations on one session from
those on all. The constraint of the instance (`MCAgentGateway`) lets at most one of
the two sessions be a temporary operation's, and once the key is rotated at most one
command be in flight and no operation exist: rotation acts on connections only, and
operations differ from sessions only in what their close releases.
*sessions*, one session: two calls are a close that waits and another call behind it, one
chunk is output on its way when the process exits; for more of both there are the theorems.
*output*: two clients and the shutdown with a retry each make every pair of closes of a
captured operation overlap with a timeout in between. Journals of capacity 4 with widths 1 and 3 let the excess fall inside a
character, inside an entry, and across entries of both streams. The handshake's query
`eec` has a proper prefix that is also found after a false start, and the scan limit
of 4 within 8 characters lets a query begin before, at and after it. Two lines in a
shell let a hook of the first be late for the second. Seven records in files of at
most two fill all three rotated files and drop the oldest. Four events let a recording
stop, start again and fail between exports.
*presentation*: `MCBounds` gives one request for a session whose views the human opens or
closes twice, or that is closed; three requests for one that is left alone; or one for each
of two that share a window's creation. Focus reports, crashes and lost windows come in all
of them. The second window replaces the first or is the human's.
*renderer*: `MCBounds` lists the mixes: updates with control, up to three prompts
against a limit of two, output with responses and views; in three of the five the
renderer is lost and comes back. A third tab would only be a second neighbour.
*main_process*: four mixes of traffic (agents with a regeneration; two regenerations, a
failure and a restart; three saves, a failure and a restart; moves with a save and a
failure). Three keys are the first and two regenerated; what happens to control
inside the gateway is checked by `gateway_control`.
*sessions*, the others: two closers and two expiries give every overlap of a close that knows the
operation, one that does not, and an expiry that starts again after a view came and
went. Two sessions at the shutdown let one fail or be slow while the other is not.

**Symmetry** is used in `gateway_control` and `session_recording`,
over interchangeable slots, with no temporal property but a refinement (safety only).

**Deadlock** is checked for the gateway. The other systems really stop: the process
has exited, the calls are used up, or the application has ended.

**Fairness.** In `MainProcess`, the broker's abort handler and the observation
waiter's abort handler run while the process is up; no service call is assumed to
return, nor any human to answer. A session's queue advances (the terminal parser and
the file system answer) and a call's continuation or timer runs. In `SessionManager`,
a session's preparation, spawn, queue and close timeout make progress, and so do
continuations. A captured operation's spawn is answered, its kill settles, its timers
fire; a temporary operation's timers fire and the close of an exited session returns.
In `Presentation`, a session's queued updates apply, waiters for a window resume or
time out, page loads end, and a command fails by its timeout unless it is answered:
every wait in `presentation-controller.ts` has a timer. Nothing is assumed of any
process, agent or human: a shell may run, or hold its output, for ever.

## 4. Findings

Each is a run that is expected to find the violation.

1. `session_recording`. `terminal-session-manager.md:60-61` "Active recording is
   finalized before the record is released." A `startRecording` queued behind a
   close's finalization starts a recording that outlives the record
   (`managed-session.ts:300`).
2. `bash_commands`. `agent-terminal-interface-design.md:829-830` says that the shell
   integration knows when a submitted command starts and ends. In Bash the DEBUG trap
   also runs before the prompt hook, whose guard is not yet set: at the first prompt
   and after an empty line, a command is reported that nobody ran (`scripts.ts:75`).
3. `access_key`. `agent-access-key-store.md:73-74` "Concurrent regeneration requests
   cannot activate a key different from the final persisted key." A key regenerated
   while the gateway starts is activated on no gateway (`index.ts:343`, `:420`).
4. `final_tab`. `renderer-app-shell.md:76-77` "Closing the final tab from the tab close
   button closes the app window". The decision uses the number of tabs at the press
   of the button and is executed after the termination (`App.tsx:254`).

5. `presentation_late`. `agent-terminal-interface-design.md:905` says of a background
   presentation "A renderer window and terminal tab exist." A hide that the controller
   has given up is carried out later, together with the open of the next transition: the
   session settles as presented while its tab goes (`presentation-commands.ts:79`).
   `PresentedHasView` therefore excepts the sessions of which a command was given up.
6. `dialog_lost`. `implementation-plan.md:239-240` "Expose pending requests to newly
   opened renderer windows". A page that starts replays events on a snapshot that
   reflects them; a prompt that is over comes back for as long as that takes, and when
   the snapshot is full the oldest pending prompt is cut for it
   (`use-agent-permissions.ts:41`). `DialogConverges` says what the dialog has then: the
   newest of the pending prompts, and all of them while no more were ever asked for than
   it has room for.

Observed while modelling, and stated by no run; the models behave as the code does:

- A `kill` that throws takes a session from exiting back to running, a way the
  lifecycle diagram lacks (`managed-session.ts:286-291`).
- Closing a captured operation whose shell has exited while a descendant holds its
  output signals nothing (`captured-process-host.ts:88`), while
  `terminal-operation-manager.md:90` says "Close terminates active work".
- Where `base64` is missing, the first prompt marker of a Bash or Zsh has an empty
  payload, is invalid, and takes the advertised capabilities away
  (`scripts.ts:33-35`, `markers.ts:84-87`).
- `closeTerminalTab` activates a neighbour without clearing its bell
  (`terminal-tabs.ts:120-149`), while `renderer-app-shell.md` says "activating the tab
  clears the unread indicator".
- Confirming "Terminate?" for an attached tab whose view still starts only detaches.
- A session whose `dispose` throws is counted by the shutdown as terminated and as
  timed out. Startup files stay behind when the app quits with sessions that timed
  out, and a directory stays when writing them fails.
- While renaming `main.log` keeps failing, each failing write shifts the rotated files
  and drops the oldest (`logger.ts`, `rotateIfNeeded`; `app-logger.md:55`, `:80`).
- An export that reads beside a later write, or waits for one that fails, marks the
  recording failed although it goes on (`session-recording.ts:66-82`); a torn line
  makes every later export fail.
- A view that opens while the expiry's close waits does not keep a temporary operation.

## 5. Proofs

The theorems hold for any number of connections, sessions, requests, keys, calls,
observers, windows, tabs, prompts, records and chunks, and any bound. Every safety
invariant that a passing run checks is a theorem.

**Assumed.** Markers such as `NoConnection`, `NoSession`, `NoCall`, `NoWindow` and `NoId`
are none of what they stand beside; the bounds are natural numbers (of keys, expiries,
retries, log files, pending prompts and commands alive together, at least 1); clients and
shutdowns are disjoint; characters have a width (`WidthsAssumption`); the handshake's
query is a sequence of characters and not empty. The code has constants in all these
places that satisfy them, and TLC evaluates the assumptions in the runs. Nothing is
assumed of the state or of the environment that the models do not say.

**SequenceLemmas.** The library's induction theorems take a predicate as a parameter,
which the provers cannot instantiate. `NatSetInduction` states induction of a *set* of
naturals instead, and follows from the well-foundedness of finite intervals under strict
inclusion; a proof applies it to the set of the lengths, or positions, that have the
property in question. With it the recursive functions of the models can be reasoned
about after all: first that they exist (they are a `CHOOSE`), then what they compute.
`SeqSetInduction` is the same for sequences, and gives `FlattenSeq`. `Path(R, seq, a, b)`
says that the messages of `seq` lead from `a` to `b`, each as the relation `R` allows: the
way all proofs about queues of messages go. `Before` and `Latest` speak of the order of
sequences without repetition.

**AgentGateway** (`AgentGatewayProofs`). `TypeCorrect` needs more than `TypeOK`: a
request's session is a session whenever its command is a session command
(`WellFormed`), otherwise `attachments[request[r].session]` has no type. `TypeInv`
is `TypeOK` with that, proved action by action.
Every step of `Next` has one of a few *effects* on
control (attach, detach, release, remove connections, allow, none): `StepEffect`.
`ControlInv` (agreement of registry and connections, and only active, unrevoked
controllers; inductive together, neither is alone) is preserved by each effect, and
each effect is a step of `SessionControl` or a stutter: `ControlSafe` and
`Implementation`. `OwnershipSafe` cannot go through effects alone, since it relates
requests to control: it is proved by action from `ControlInv`, which says that whoever
loses a session was in the map, so that the abort reached its requests.
What is claimed is so: authority rests on the current key
(`AuthoritySafe`), the renderer's last word on a session is its control
(`AnnouncementsTrue`), a success reply is true when it is sent (`GrantsSafe`), and
`operationSessions` holds no operation whose record is gone (`IndexSafe`).

**MainProcess** (`MainProcessProofs`). `StoreAndFileAgree`: `KeyInv` adds that a
regeneration exists only with a store and that at its end the file holds its key, so
that store and file can differ in that stage only. `AnsweredStaysSaved`: `SaveInv`
orders by age, for each field, what was answered, what is current, what the file
holds, and the values in the queue (`AgeInv`, `QueueInv`). The order of the geometry's
writes is not the queue's doing: they come from the window, which captures bounds in
an array of its own, at most one of them being queued (`WindowInv`, `GeometryInv`).
`FlushedGeometryIsSaved`: `FlushInv` follows the captured bounds from `Quit` to the
file, as the write that is awaited last. It takes `SaveInv`, since only ordered
writes keep a later one from bringing back older bounds.
`GatewayHolds` carries the gateway's theorems over to the process around it. Every step of
`MainNext` is a step of `Next` or leaves the gateway alone (`GatewaySteps`), except the end of
a process, which leaves an initial state, and `GatewayStarted`, which puts in a key that is
not a later one than the active one by any rule of the gateway, and drops nobody. It keeps
`AuthorityIsCurrent` for a reason that is the main process's: before it, nobody can have
connected (`StartedInv`; `NoneConnects`). `ControlHolds` says the same of the implementation of
`SessionControl`: only the end of the process takes control away in any other way, as it takes
all of it at once, withheld sessions included.

**TerminalSession** (`TerminalSessionProofs`). `IInv` strengthens the properties by
`FinalizedOnlyExited` (a close whose finalization is queued, running or done is of
an exited session; this is what makes `RemovedOnlyExited` inductive),
`AnnouncedButExit` (the published lifecycle is the actual one except in the middle
of the exit operation) and `RecorderAheadOfStatus` (recording status and recorder
agree except in the middle of a start). Theorems `TypeCorrect`, `RemovalSafe`,
`AnnouncementsTrue`, `ExitFinal`. `ObserversAwake` has an invariant of its own,
`WakeupPending`: an observer is behind only while an operation that will notify it is
being recorded.

**TemporaryOperation and SessionManager** (`SessionsProofs`). `OperationInv` adds
`Registration` (a timer, an expiry or a close that found the operation comes after its
registration, and expiries are of exited sessions) and `Entries` (an entry of a timer that
has fired stays no longer than an expiry takes: without it a reconciliation could find
one and set no timer): `RemovalExact`, `RetentionSafe`.
`ManagerInv` adds to the tables what ties them together. `Origin`: process and lifecycle
begin with a spawn that succeeds, and a session that has not exited is in the map:
`ReachSafe` and `FilesSafe`. `OwnCalls` and `ShutdownCovers`: the shutdown
closes each session by a call of its own, and as long as it has met no timeout a session
that is still there still has its call, whatever other closes do with it: `ShutdownSafe`.

**CapturedOperation** (`OutputProofs`, as the rest of `MCOutput`). `IInv` adds
`EndIsCompletion`: the operation is completed exactly when its process has ended, and
only a completed one has a closing call that resumes: `RecordsSafe`, `RemovalExact`,
`ObserversAwake`.

**ShellIntegration.** `ReportInv` says what the tracker will say when all markers on their
way have been applied, from the shell's state at the time of each: a path of markers from
the tracker to one that `Agrees` with the shell. Each hook of each shell appends markers
that keep this, or makes the integration unavailable: `ReportSafe`.

**StartupHandshake.** `HandshakeInv`: all output the scan has consumed holds no early
query, and none that could still become one has begun in it except in what is held back.
A query that is cut anywhere by chunks is then found where the
definition on the whole output finds it: `HandshakeSafe`, for every query, also those that
overlap with themselves.

**FileRecorder.** Claims about the recording itself are not inductive, because a failed
write can leave any part of a line. `RecorderInv` says of the file, and of what an export
*might read* between now and its end, that it is `Sound`: complete and ascending, or
unreadable, and once unreadable always so: `ExportSafe`.

**AppLogger.** The files are intervals of record numbers, each ending where the newer one
begins (`Numbered`): every step of a rotation, also the last before a crash, moves an
interval or empties one. `Gapless` says, as long as no rotation was cut off, where the gap
of the current one is. `LogSafe`.

**OutputJournal.** `JournalInv` (`Matches`) has the entries in order of version
(`Ordered`), as an end of what was produced to which no further character would fit
(`Newest`), and compares journal and history through the view of *each* client version,
also those before the truncation mark, of which something is missing (`Exact`): trimming
takes something from every view older than the version it reaches and nothing from the
others. It takes lemmas on sums of widths, on `FlattenSeq` of the pieces, and on where
`Trim` cuts. Theorems `NewestSafe`, `ExactSafe`.

**Presentation** (`PresentationProofs`). Whatever the controller does for a session takes
its transition one stage on (`Progressed`), shown once for each of its operators.
`OpeningInv` adds which updates and commands a transition can have outstanding in each
stage (`QueuesOK`, `PendingOK`): `OpeningSafe`. `ViewInv` adds which renderers can have
views at all (`ViewsOK`), and, for every renderer that works, in which order a view's
opening and closing can be in the session's queue (`QueuesFit`): a closing that is applied
late must not take the registration of the view that was opened since. `ViewsSafe`.
`PresentedSafe` is about the sessions whose transitions are the controller's own (`Mine`):
nobody else moves them meanwhile, and it gave up none of their commands. `PresentedInv` adds
that a command is in one place at most, on its way, waited with by a view, or answered
(`Sole`), so that a renderer whose answer has come does nothing more for it; that between
transitions no command to a renderer is on its way (`Untold`), whatever views the human opens
and hides then, and that during one renderers work on such a session only for a command that
is pending (`Calm`); what the transition knows of the view meanwhile, so that it can rely on
an owner that it has read long ago (`Steady`); and that what is said last of the session, in
its queue or else in its state, is "background" or "foreground" only while its view is
registered (`Spoken`). A focus report keeps that because the registry refuses it from anyone
but the owner, and a crash because its "headless" is queued behind every report made before.
With `RegisteredHasView`, and no view opening or closing, the registered view is open. Each
step moves one session, or only such as are not the controller's own, and the others keep all
that (`MineFrame`, `MineFrames`). That nothing was given up is needed: finding 5 is what
happens otherwise.

**TerminalTabs** (`RendererProofs`, as the next). `TabsInv`: the controllers that are being
disposed of belong to views that were started, and a hidden tab to a session that the human
has hidden: `StatusSafe`, `AbandonedSafe`.

**Renderer.** The main process emits, in one step, the messages that tell what the step has
changed (`News`); each of its actions is shown once to do so, and the mirrors need only that.
*The list*: `ListInv` splits by session and field. The last message on its way about it
tells what is so (`Told`), and the mirror does when there is none (`ListKnows`). While it
starts, the held-back events take the place of the mirror, and a snapshot is of the moment
that its place among the events tells (`ListBoots`), so that replaying them on it undoes
nothing: `ListSafe`.
*The screen*: `Screen` numbers the output by a path that runs through what is held back,
the snapshot and the channel. `Tokens` has at most one request of each kind on its way:
`ShownSafe`.
*The answers*: `Answers` has it that a query whose answer was given or is on its way has been
passed by the terminal, so that no snapshot shows it as new: `AnswersSafe`.
*The dialog*: `DialogInv` has a point `h` that the dialog has heard of, from which the messages
on their way lead to the broker's prompts, and `Mirrored` compares the dialog with it. The
events held back begin at an earlier point than the snapshot, so their replay is not a path;
`Replayed` says what it amounts to (of the prompts the events touch, those pending; of the
others, the newest of the snapshot), using that prompts come in order and never twice
(`Later`): `DialogSafe`.

**With TLC only.** Liveness (`CallsSettle`, `RecordsAreReclaimed`, `CompletedExpire`,
`ExitReachesWaiters`, `ShutdownReturns`, `TransitionsSettle`, `AbandonedRequestsEnd`): fairness
and `ENABLED` are out of the prover's reach.

## 6. Not modelled

- Protocol validation, the preload bridge, links, shortcuts, search, the settings
  dialog and window chrome: functions and views without state that others depend on.
- Parsing of the configuration and of the credential, redaction and the legacy format
  of recordings, log levels and formatting, scrollback and titles: data on which no
  control depends.
- node-pty, Electron, the operating system's processes and the single-instance lock:
  outside the repository, modelled by what `src/` relies on.
- The managers' synchronous `dispose`: the application never calls it, and shuts
  down asynchronously.

Behaviour that the code allows and the models leave out:

- A `session.updated` that follows its session's `session.removed`: an update queued
  behind a finalization. `Renderer` assumes that there is none.
- The lazy updater of React when the snapshot of the dialog fails.
- A revocation while there is no gateway is answered as if it had revoked
  (`collaboration-services.ts:57-62`).
- A quit in the middle of the start; a `stop` of the gateway that rejects, after which
  operations and sessions are not shut down; a window that is closed while its
  geometry is being written and the app quit before that is done; an `onPersisted`
  that throws, after which a mutation is reported as failed although it was saved.
