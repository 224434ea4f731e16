-------------------------- MODULE TerminalSession ---------------------------
(***************************************************************************)
(* One managed terminal session (packages/session-core/src/managed-        *)
(* session.ts), its place in the session manager, its recording and the    *)
(* file recorder behind it.                                                *)
(*                                                                         *)
(* Every operation on a session goes through one promise queue: the PTY's  *)
(* output and exit, and the calls of the human, of agents and of the       *)
(* manager.  An operation runs without interruption up to an await that    *)
(* waits for the terminal parser or for the recording file.  Continuations *)
(* that are ready run before the next event of the process is looked at,   *)
(* so events (calls, PTY events, timers, finished I/O) wait for Quiet.     *)
(*                                                                         *)
(* Each call is made at most once; which operation it is, is open.         *)
(***************************************************************************)
EXTENDS Naturals, Sequences

CONSTANTS Calls,      \* calls that can be made on the session
          Observers,  \* clients that wait for a new observation
          MaxOutput,  \* bound: chunks of output the PTY produces
          NoCall

ASSUME MaxOutputAssumption == MaxOutput \in Nat
ASSUME NoCallAssumption == NoCall \notin Calls

VARIABLES
    pty,            \* external: "running", "killed" (kill was requested), "exited"
    emitted,        \* chunks of output the PTY has handed to acceptOutput
    queue,          \* operationQueue: operations that have not finished
    stage,          \* of the first one: "ready", "writing" (terminal parser),
                    \* "append" (recording.append), "starting" (recorder.start)
    lifecycle,      \* model.currentLifecycle
    version,        \* model.version
    sequence,       \* chunks of output processed
    integration,    \* shell integration: "initializing" or "settled"
    recording,      \* model.currentRecording.state
    enabled,        \* the session is in the recorder's enabledSessions
    call,           \* the calls
    waiting,        \* observation waiters: <<observer, afterVersion>>
    present,        \* the session is in the manager's map
    published       \* the lifecycles in session.updated events: the latest one
                    \* before the last step, and those of the last step

vars == <<pty, emitted, queue, stage, lifecycle, version, sequence, integration,
          recording, enabled, call, waiting, present, published>>

-----------------------------------------------------------------------------
\* scroll stands for scroll and reportViewport, await for waitForExit.
QueuedKinds == {"input", "resize", "scroll", "presentation", "start", "stop", "close"}
Kinds == QueuedKinds \cup {"await"}
Operations == QueuedKinds \cup {"output", "exit", "finalize"}

Lifecycles == {"running", "exiting", "exited"}

\* requireRunning and requireRunningOrExited.
AllowedIn(op) ==
    CASE op \in {"input", "resize"} -> {"running"}
      [] op \in {"scroll", "start"} -> {"running", "exited"}
      [] OTHER -> Lifecycles

\* phase: "queued" in the operation queue; "waiting" in exitWaiters; "resumed" and
\* "finalized": a close whose continuation is ready.
Unused == [kind |-> "await", phase |-> "unused", result |-> "none"]
CallRecord == [kind : Kinds,
               phase : {"unused", "queued", "waiting", "resumed", "finalized", "done"},
               result : {"none", "ok", "rejected", "closed", "pending"}]

\* The first operation starts.  The caller of the one before it resumes earlier.
Ready(op) ==
    /\ queue # <<>> /\ stage = "ready" /\ Head(queue).op = op
    /\ \A c \in Calls : call[c].phase # "resumed"

Resuming == \E c \in Calls : call[c].phase \in {"resumed", "finalized"}

\* The recorder ignores an event of a session that it does not record.
Instant == stage = "append" /\ ~enabled

Quiet == ~Resuming /\ ~Instant /\ (stage = "ready" => queue = <<>>)

-----------------------------------------------------------------------------
\* Effects that operations share.

Enqueue(op, c) == queue' = Append(queue, [op |-> op, call |-> c])

Done(c, result) == [call EXCEPT ![c].phase = "done", ![c].result = result]

\* What becomes of the caller of an operation that succeeded.
Succeeded(op, c) ==
    IF c = NoCall THEN call
    ELSE CASE op = "close" -> [call EXCEPT ![c].phase = "resumed"]
           [] op = "finalize" -> [call EXCEPT ![c].phase = "finalized"]
           [] OTHER -> Done(c, "ok")

\* Mutant of Leave: an operation that rejects takes those behind it along.
LeaveDroppingRest(outcome) ==
    LET first == Head(queue) IN
    /\ queue' = IF outcome = "ok" THEN Tail(queue) ELSE <<>>
    /\ stage' = "ready"
    /\ call' = IF outcome = "ok" THEN Succeeded(first.op, first.call)
                                 ELSE Done(first.call, "rejected")

\* The first operation settles; the queue goes on whether it rejected or not.
Leave(outcome) ==
    LET first == Head(queue) IN
    /\ queue' = Tail(queue)
    /\ stage' = "ready"
    /\ call' = IF outcome = "ok" THEN Succeeded(first.op, first.call)
                                 ELSE Done(first.call, "rejected")

Latest == published[Len(published)]

\* notifyState, once for each lifecycle in states.
Publish(states) == published' = <<Latest>> \o states

\* waiters.notify, after the version and the lifecycle have changed.
NotifyWaiters ==
    waiting' = {w \in waiting : version' <= w[2] /\ lifecycle' # "exited"}

\* One more version, announced to the renderer and to the observers.
Announce == version' = version + 1 /\ Publish(<<lifecycle>>) /\ NotifyWaiters
Silent == UNCHANGED <<version, published, waiting>>

\* SessionRecording.failure: the status has a new version unless the recording has
\* failed with the same error before.
RecordingFails ==
    /\ recording' = "failed"
    /\ version' = version + 1 \/ (recording = "failed" /\ version' = version)

-----------------------------------------------------------------------------
\* Operations of the queue.

Reject(op) ==
    /\ Ready(op) /\ lifecycle \notin AllowedIn(op)
    /\ Leave("rejected")
    /\ UNCHANGED <<pty, emitted, lifecycle, version, sequence, integration, recording,
                   enabled, waiting, present, published>>

\* The viewport may have to return to the bottom; pty.write may throw.
Input ==
    /\ Ready("input") /\ lifecycle \in AllowedIn("input")
    /\ Announce \/ Silent
    /\ \/ Leave("rejected")
       \/ stage' = "append" /\ UNCHANGED <<queue, call>>
    /\ UNCHANGED <<pty, emitted, lifecycle, sequence, integration, recording, enabled, present>>

\* pty.resize may throw; the same dimensions make no new version.
Resize ==
    /\ Ready("resize") /\ lifecycle \in AllowedIn("resize")
    /\ \/ Leave("rejected") /\ UNCHANGED version
       \/ stage' = "append" /\ version' \in {version, version + 1} /\ UNCHANGED <<queue, call>>
    /\ UNCHANGED <<pty, emitted, lifecycle, sequence, integration, recording, enabled, waiting,
                   present, published>>

\* A viewport event carries no lifecycle.
Scroll ==
    /\ Ready("scroll") /\ lifecycle \in AllowedIn("scroll")
    /\ \/ version' = version + 1 /\ NotifyWaiters
       \/ UNCHANGED <<version, waiting>>
    /\ Leave("ok")
    /\ UNCHANGED <<pty, emitted, lifecycle, sequence, integration, recording, enabled, present,
                   published>>

SetPresentation ==
    /\ Ready("presentation")
    /\ Announce \/ Silent
    /\ Leave("ok")
    /\ UNCHANGED <<pty, emitted, lifecycle, sequence, integration, recording, enabled, present>>

OutputBegun ==
    /\ Ready("output")
    /\ stage' = "writing"
    /\ UNCHANGED <<pty, emitted, queue, lifecycle, version, sequence, integration, recording,
                   enabled, call, waiting, present, published>>

OutputWritten ==
    /\ Quiet /\ stage = "writing"
    /\ stage' = "append"
    /\ version' = version + 1
    /\ sequence' = sequence + 1
    /\ integration' \in {integration, "settled"}
    /\ UNCHANGED <<pty, emitted, queue, lifecycle, recording, enabled, call, waiting, present,
                   published>>

ExitBegun ==
    /\ Ready("exit")
    /\ stage' = "append"
    /\ integration' = "settled"
    /\ lifecycle' = "exited"
    /\ version' = version + 1
    /\ UNCHANGED <<pty, emitted, queue, sequence, recording, enabled, call, waiting, present,
                   published>>

\* Mutant of AppendReturned's notifications: output tells no observer.
NotifyingButOutput == {"resize", "exit"}

\* Mutant of Publishing: the exit is not published.
PublishingButExit == {"resize"}

\* What the first operation announces after its append.
Publishing == {"resize", "exit"}
Notifying == {"resize", "output", "exit"}

\* Mutant of ResolveExitWaiters: nobody is told.
ResolveNoExitWaiters == call

\* exitWaiters are resolved.
ResolveExitWaiters ==
    [c \in Calls |->
        IF call[c].phase # "waiting" THEN call[c]
        ELSE IF call[c].kind = "close" THEN [call[c] EXCEPT !.phase = "resumed"]
        ELSE [call[c] EXCEPT !.phase = "done", !.result = "ok"]]

\* recording.append has returned; a failure marks the recording as failed.
AppendReturned(failed) ==
    LET op == Head(queue).op IN
    /\ stage = "append" /\ ~Resuming
    /\ failed => enabled
    /\ IF failed THEN RecordingFails ELSE UNCHANGED <<recording, version>>
    /\ IF failed \/ op \in Publishing THEN Publish(<<lifecycle>>) ELSE UNCHANGED published
    /\ UNCHANGED <<pty, emitted, lifecycle, sequence, integration, enabled, present>>
    /\ IF failed \/ op \in Notifying THEN NotifyWaiters ELSE UNCHANGED waiting
    /\ IF op = "exit"
       THEN queue' = Tail(queue) /\ stage' = "ready" /\ call' = ResolveExitWaiters
       ELSE Leave("ok")

\* recording.start: the recorder lists the session before it writes.
StartBegun ==
    /\ Ready("start") /\ lifecycle \in AllowedIn("start")
    /\ \/ recording = "active" /\ Leave("ok") /\ UNCHANGED enabled
       \/ recording # "active" /\ enabled' = TRUE /\ stage' = "starting"
          /\ UNCHANGED <<queue, call>>
    /\ UNCHANGED <<pty, emitted, lifecycle, version, sequence, integration, recording, waiting,
                   present, published>>

StartReturned(ok) ==
    /\ Quiet /\ stage = "starting"
    /\ UNCHANGED <<pty, emitted, lifecycle, sequence, integration, present>>
    /\ enabled' = ok
    /\ IF ok THEN recording' = "active" /\ version' = version + 1 ELSE RecordingFails
    /\ Publish(<<lifecycle>>) /\ NotifyWaiters
    /\ Leave(IF ok THEN "ok" ELSE "rejected")

\* recording.stop and recording.finalize.  No write is pending in the recorder: each
\* append is awaited in the queue.  A recorder may still reject.
StopOrFinalize(op) ==
    /\ Ready(op)
    /\ UNCHANGED <<pty, emitted, lifecycle, sequence, integration, present>>
    /\ \/ /\ recording = "inactive"
          /\ Leave("ok") /\ Silent /\ UNCHANGED <<recording, enabled>>
       \/ /\ recording # "inactive"
          /\ recording' = "inactive" /\ enabled' = FALSE
          /\ Leave("ok") /\ Announce
       \/ /\ recording # "inactive"
          /\ RecordingFails /\ UNCHANGED enabled
          /\ Publish(<<lifecycle>>) /\ NotifyWaiters
          /\ Leave("rejected")

\* The operation close enqueues first.  kill does nothing once the process has
\* exited or kill was requested, and can throw otherwise.
CloseOperation ==
    /\ Ready("close")
    /\ \/ /\ lifecycle # "running"
          /\ Leave("ok") /\ Silent /\ UNCHANGED <<pty, lifecycle>>
       \/ /\ lifecycle = "running"
          /\ lifecycle' = "exiting"
          /\ pty' = IF pty = "running" THEN "killed" ELSE pty
          /\ version' = version + 1 /\ Publish(<<"exiting">>) /\ NotifyWaiters
          /\ Leave("ok")
       \/ /\ lifecycle = "running" /\ pty = "running"
          /\ version' = version + 2 /\ Publish(<<"exiting", "running">>) /\ NotifyWaiters
          /\ Leave("rejected")
          /\ UNCHANGED <<pty, lifecycle>>
    /\ UNCHANGED <<emitted, sequence, integration, recording, enabled, present>>

-----------------------------------------------------------------------------
\* Continuations of close.

\* Mutant of CloseResumed: a session that is still exiting is finalized.
CloseResumedEarly(c) ==
    /\ call[c].phase = "resumed"
    /\ Enqueue("finalize", c)
    /\ call' = [call EXCEPT ![c].phase = "queued"]
    /\ UNCHANGED <<pty, emitted, stage, lifecycle, version, sequence, integration, recording,
                   enabled, waiting, present, published>>

\* After the close operation, or when the exit waiter has resolved.
CloseResumed(c) ==
    /\ call[c].phase = "resumed"
    /\ \/ lifecycle = "exiting"
          /\ call' = [call EXCEPT ![c].phase = "waiting"] /\ UNCHANGED queue
       \/ lifecycle = "running"
          /\ call' = Done(c, "pending") /\ UNCHANGED queue
       \/ lifecycle = "exited"
          /\ Enqueue("finalize", c)
          /\ call' = [call EXCEPT ![c].phase = "queued"]
    /\ UNCHANGED <<pty, emitted, stage, lifecycle, version, sequence, integration, recording,
                   enabled, waiting, present, published>>

\* The manager disposes of the closed session; the waiters reject.
CloseFinalized(c) ==
    /\ call[c].phase = "finalized"
    /\ call' = Done(c, "closed")
    /\ present' = FALSE
    /\ waiting' = {}
    /\ integration' = "settled"
    /\ UNCHANGED <<pty, emitted, queue, stage, lifecycle, version, sequence, recording, enabled,
                   published>>

\* The close timeout.
CloseTimedOut(c) ==
    /\ Quiet
    /\ call[c].phase = "waiting" /\ call[c].kind = "close"
    /\ call' = Done(c, "pending")
    /\ UNCHANGED <<pty, emitted, queue, stage, lifecycle, version, sequence, integration,
                   recording, enabled, waiting, present, published>>

-----------------------------------------------------------------------------
\* Events.

\* A call on the session, as long as the manager knows it.
MakeCall(c, kind) ==
    /\ Quiet /\ present
    /\ call[c].phase = "unused"
    /\ \/ /\ kind \in QueuedKinds
          /\ Enqueue(kind, c)
          /\ call' = [call EXCEPT ![c] = [kind |-> kind, phase |-> "queued", result |-> "none"]]
       \/ /\ kind = "await" /\ lifecycle # "exited"
          /\ call' = [call EXCEPT ![c] = [kind |-> kind, phase |-> "waiting", result |-> "none"]]
          /\ UNCHANGED queue
       \/ /\ kind = "await" /\ lifecycle = "exited"
          /\ call' = [call EXCEPT ![c] = [kind |-> kind, phase |-> "done", result |-> "ok"]]
          /\ UNCHANGED queue
    /\ UNCHANGED <<pty, emitted, stage, lifecycle, version, sequence, integration, recording,
                   enabled, waiting, present, published>>

\* observe for what comes after the present version; otherwise it answers at once.
Observe(o) ==
    /\ Quiet /\ present /\ lifecycle # "exited"
    /\ \A w \in waiting : w[1] # o
    /\ waiting' = waiting \cup {<<o, version>>}
    /\ UNCHANGED <<pty, emitted, queue, stage, lifecycle, version, sequence, integration,
                   recording, enabled, call, present, published>>

\* An observation times out or is aborted.
ObserveEnds(o) ==
    /\ Quiet
    /\ \E w \in waiting : w[1] = o
    /\ waiting' = {w \in waiting : w[1] # o}
    /\ UNCHANGED <<pty, emitted, queue, stage, lifecycle, version, sequence, integration,
                   recording, enabled, call, present, published>>

PtyOutput ==
    /\ Quiet
    /\ pty # "exited" /\ emitted < MaxOutput
    /\ emitted' = emitted + 1
    /\ Enqueue("output", NoCall)
    /\ UNCHANGED <<pty, stage, lifecycle, version, sequence, integration, recording, enabled,
                   call, waiting, present, published>>

\* The process exits, by itself or because it was killed.
PtyExit ==
    /\ Quiet
    /\ pty # "exited"
    /\ pty' = "exited"
    /\ Enqueue("exit", NoCall)
    /\ UNCHANGED <<emitted, stage, lifecycle, version, sequence, integration, recording,
                   enabled, call, waiting, present, published>>

\* The shell integration timer is not queued.
IntegrationTimedOut ==
    /\ Quiet
    /\ integration = "initializing"
    /\ integration' = "settled"
    /\ Announce
    /\ UNCHANGED <<pty, emitted, queue, stage, lifecycle, sequence, recording, enabled, call,
                   present>>

-----------------------------------------------------------------------------
Init ==
    /\ pty = "running" /\ emitted = 0
    /\ queue = <<>> /\ stage = "ready"
    /\ lifecycle = "running" /\ version = 1 /\ sequence = 0
    /\ integration \in {"initializing", "settled"}
    /\ recording = "inactive" /\ enabled = FALSE
    /\ call = [c \in Calls |-> Unused]
    /\ waiting = {}
    /\ present = TRUE
    /\ published = <<"running">>

QueueStep ==
    \/ \E op \in QueuedKinds : Reject(op)
    \/ Input \/ Resize \/ Scroll \/ SetPresentation
    \/ OutputBegun \/ OutputWritten \/ ExitBegun
    \/ \E failed \in BOOLEAN : AppendReturned(failed)
    \/ StartBegun \/ \E ok \in BOOLEAN : StartReturned(ok)
    \/ \E op \in {"stop", "finalize"} : StopOrFinalize(op)
    \/ CloseOperation

CallStep(c) == CloseResumed(c) \/ CloseFinalized(c) \/ CloseTimedOut(c)

Next ==
    \/ QueueStep
    \/ \E c \in Calls : CallStep(c) \/ \E kind \in Kinds : MakeCall(c, kind)
    \/ \E o \in Observers : Observe(o) \/ ObserveEnds(o)
    \/ PtyOutput \/ PtyExit \/ IntegrationTimedOut

Spec == Init /\ [][Next]_vars

\* Operations run, the parser and the file system answer, timers fire.  Nothing is
\* assumed of the process behind the PTY.
FairSpec == Spec /\ WF_vars(QueueStep) /\ \A c \in Calls : WF_vars(CallStep(c))

-----------------------------------------------------------------------------
\* Correctness.

TypeOK ==
    /\ pty \in {"running", "killed", "exited"}
    /\ emitted \in 0..MaxOutput /\ sequence \in Nat
    /\ queue \in Seq([op : Operations, call : Calls \cup {NoCall}])
    /\ stage \in {"ready", "writing", "append", "starting"}
    /\ stage # "ready" => queue # <<>>
    /\ lifecycle \in Lifecycles
    /\ version \in Nat
    /\ integration \in {"initializing", "settled"}
    /\ recording \in {"inactive", "active", "failed"} /\ enabled \in BOOLEAN
    /\ call \in [Calls -> CallRecord]
    /\ waiting \subseteq Observers \X Nat
    /\ present \in BOOLEAN
    /\ published \in Seq(Lifecycles) /\ published # <<>>

\* The manager forgets a session only after its exit: a close that times out, fails
\* or overlaps with other closes never loses the handle of a running process.
RemovedOnlyExited == ~present => lifecycle = "exited"

\* Once exited, a session stays exited, whatever calls are still queued behind the
\* exit.
ExitedIsFinal == [][lifecycle = "exited" => lifecycle' = "exited"]_vars

\* No observer is left waiting for a version that exists, nor after the exit, once
\* the operation that made it has finished.
NoMissedWakeup ==
    stage = "ready" => \A w \in waiting : version <= w[2] /\ lifecycle # "exited"

\* The renderer, which follows session.updated events, shows the lifecycle that the
\* session has, once the operation that changed it has finished.
PublishedIsActual == stage = "ready" => Latest = lifecycle

\* The session's recording status and the recorder's list agree when no operation is
\* under way: what is shown as active is recorded, and nothing is recorded of a
\* session that shows no recording.
RecorderAgrees ==
    stage = "ready" =>
        /\ recording = "active" => enabled
        /\ recording = "inactive" => ~enabled

\* Every call but a wait for the exit settles, whatever the process does and
\* whichever operations before it reject.
CallsSettle ==
    \A c \in Calls :
        call[c].phase # "unused" /\ call[c].kind # "await" ~> call[c].phase = "done"

\* When the process has exited, everyone who waits for that is told.
ExitReachesWaiters ==
    \A c \in Calls : call[c].phase = "waiting" /\ pty = "exited" ~> call[c].phase = "done"

\* terminal-session-manager.md: "Active recording is finalized before the record is
\* released."  Nothing is recorded of a session that the manager has released.
RecordingFinalizedBeforeRelease == ~present => recording # "active"

=============================================================================
