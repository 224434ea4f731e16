--------------------------- MODULE SessionManager ---------------------------
(***************************************************************************)
(* The sessions of the application from their creation to the end of the   *)
(* application: packages/session-core/src/session-manager.ts, the startup  *)
(* files of packages/shell-integration/src/launch.ts, and the shutdown of  *)
(* operation-manager.ts and apps/desktop/src/main/index.ts.                *)
(*                                                                         *)
(* The queue of a session is cut down to what creation, exit and close     *)
(* need of it: nothing runs while a recording that was started with the    *)
(* session opens its file (TerminalSession has the rest).  A spawn settles *)
(* at once, and what follows a settled promise by continuations alone is   *)
(* part of the same step.                                                  *)
(***************************************************************************)
EXTENDS Naturals, FiniteSets

CONSTANTS Ids,        \* sessions ever asked for
          Closers     \* callers of close: renderers, agents, the expiry of operations;
                      \* none is in Ids, which name the calls of the shutdown

VARIABLES
    creation,      \* "none"; "recording": startRecordingByDefault awaits the file;
                   \* "created" or "rejected"
    kind,          \* "shell" (a shell with an integration), "plain" (without), "command"
                   \* (a temporary operation)
    startupFiles,  \* "none", "present", "removed", or "stuck": writing or removing failed
    process,       \* external: "none", "alive" or "dead"
    lifecycle,     \* "running", "exiting" or "exited"; "none" before
    sessions,      \* the manager's map
    calls,         \* of the closers, and of the shutdown for each session
    ending         \* shutdownApp: its stage, and the results of sessionManager.shutdown

vars == <<creation, kind, startupFiles, process, lifecycle, sessions, calls, ending>>

Kinds == {"shell", "plain", "command"}

\* The shutdown closes every session in a call of its own, named by the session.
Callers == Closers \cup Ids

\* phase: "queued" behind what the session does; "waiting" for the exit.
Idle == [phase |-> "idle"]
Call(s, phase) == [phase |-> phase, session |-> s]

-----------------------------------------------------------------------------
\* Creation.

\* resolveShell throws, or ptyHost.spawn rejects before there are files.
CreationRejected(s, k) ==
    /\ creation' = [creation EXCEPT ![s] = "rejected"]
    /\ kind' = [kind EXCEPT ![s] = k]
    /\ UNCHANGED <<startupFiles, process, lifecycle, sessions>>

\* prepareShellIntegrationLaunch throws when a file cannot be written: nobody has the
\* path of the directory yet.
PreparationFailed(s) ==
    /\ creation' = [creation EXCEPT ![s] = "rejected"]
    /\ kind' = [kind EXCEPT ![s] = "shell"]
    /\ startupFiles' = [startupFiles EXCEPT ![s] = "stuck"]
    /\ UNCHANGED <<process, lifecycle, sessions>>

\* Mutant of SpawnFailed: createSession does not catch.
SpawnFailedUncaught(s) ==
    /\ creation' = [creation EXCEPT ![s] = "rejected"]
    /\ kind' = [kind EXCEPT ![s] = "shell"]
    /\ startupFiles' = [startupFiles EXCEPT ![s] = "present"]
    /\ UNCHANGED <<process, lifecycle, sessions>>

\* The spawn rejects: createSession removes the files, or fails to.
SpawnFailed(s) ==
    /\ creation' = [creation EXCEPT ![s] = "rejected"]
    /\ kind' = [kind EXCEPT ![s] = "shell"]
    /\ \E outcome \in {"removed", "stuck"} : startupFiles' = [startupFiles EXCEPT ![s] = outcome]
    /\ UNCHANGED <<process, lifecycle, sessions>>

\* spawnSession up to startRecording, or to its end.
Spawned(s, k) ==
    /\ \E next \in {"recording", "created"} : creation' = [creation EXCEPT ![s] = next]
    /\ kind' = [kind EXCEPT ![s] = k]
    /\ startupFiles' = [startupFiles EXCEPT ![s] = IF k = "shell" THEN "present" ELSE "none"]
    /\ process' = [process EXCEPT ![s] = "alive"]
    /\ lifecycle' = [lifecycle EXCEPT ![s] = "running"]
    /\ sessions' = sessions \cup {s}

\* The shutdown has stopped the gateway and taken down the IPC handlers first.
Create(s) ==
    /\ creation[s] = "none" /\ ending.stage = "none"
    /\ \/ \E k \in Kinds : CreationRejected(s, k) \/ Spawned(s, k)
       \/ PreparationFailed(s) \/ SpawnFailed(s)
    /\ UNCHANGED <<calls, ending>>

\* Mutant of RecordingStarted: its failure fails the creation, which cleans up.
RecordingStartedOrRejected(s) ==
    /\ creation[s] = "recording"
    /\ \E next \in {"created", "rejected"} : creation' = [creation EXCEPT ![s] = next]
    /\ UNCHANGED <<kind, startupFiles, process, lifecycle, sessions, calls, ending>>

\* The recording runs or has failed, which is only reported.
RecordingStarted(s) ==
    /\ creation[s] = "recording"
    /\ creation' = [creation EXCEPT ![s] = "created"]
    /\ UNCHANGED <<kind, startupFiles, process, lifecycle, sessions, calls, ending>>

-----------------------------------------------------------------------------
\* The process.

ProcessExits(s) ==
    /\ process[s] = "alive"
    /\ process' = [process EXCEPT ![s] = "dead"]
    /\ UNCHANGED <<creation, kind, startupFiles, lifecycle, sessions, calls, ending>>

\* The queue comes to acceptExit.
ExitCommitted(s) ==
    /\ process[s] = "dead" /\ lifecycle[s] \in {"running", "exiting"}
    /\ creation[s] # "recording"
    /\ lifecycle' = [lifecycle EXCEPT ![s] = "exited"]
    /\ UNCHANGED <<creation, kind, startupFiles, process, sessions, calls, ending>>

-----------------------------------------------------------------------------
\* A close.  Each of its steps ends the call with an outcome or moves it on.

\* The queue comes to the close.  kill throws, is not repeated for an exiting session,
\* or is a request that the process may follow.
Signalled(s, phase) ==
    /\ creation[s] # "recording"
    /\ IF lifecycle[s] = "running"
       THEN \/ phase = "waiting" /\ lifecycle' = [lifecycle EXCEPT ![s] = "exiting"]
            \/ phase = "rejected" /\ UNCHANGED lifecycle
       ELSE phase = "waiting" /\ UNCHANGED lifecycle
    /\ UNCHANGED <<startupFiles, sessions>>

\* Mutant of CloseTimedOut: the exit is awaited for ever.
CloseUntimed(s, phase) == FALSE /\ UNCHANGED <<lifecycle, startupFiles, sessions>>

CloseTimedOut(s, phase) ==
    /\ lifecycle[s] # "exited" /\ phase = "pending"
    /\ UNCHANGED <<lifecycle, startupFiles, sessions>>

\* The exited session is finalized, disposed of and forgotten.  When the directory
\* cannot be removed, dispose throws, and the session stays.
Released(s, phase) ==
    /\ lifecycle[s] = "exited"
    /\ \/ /\ phase = "closed"
          /\ startupFiles' = [startupFiles EXCEPT ![s] = IF @ = "none" THEN @ ELSE "removed"]
          /\ sessions' = sessions \ {s}
       \/ /\ phase = "rejected" /\ startupFiles[s] = "present"
          /\ UNCHANGED <<startupFiles, sessions>>
    /\ UNCHANGED lifecycle

CloseStep(c, phase) ==
    LET s == calls[c].session IN
    \/ calls[c].phase = "queued" /\ Signalled(s, phase)
    \/ calls[c].phase = "waiting" /\ (CloseTimedOut(s, phase) \/ Released(s, phase))

-----------------------------------------------------------------------------
\* Clients.

Close(c, s) ==
    /\ calls[c] = Idle /\ s \in sessions
    /\ calls' = [calls EXCEPT ![c] = Call(s, "queued")]
    /\ UNCHANGED <<creation, kind, startupFiles, process, lifecycle, sessions, ending>>

CloseProceeds(c) ==
    /\ \E phase \in {"waiting", "closed", "pending", "rejected"} :
         /\ CloseStep(c, phase)
         /\ calls' = [calls EXCEPT ![c] = IF phase = "waiting" THEN Call(@.session, phase) ELSE Idle]
    /\ UNCHANGED <<creation, kind, process, ending>>

-----------------------------------------------------------------------------
\* The end of the application.

\* shutdown: all sessions of a stage are closed side by side.
Begin(stage, ids) ==
    /\ ending' = [ending EXCEPT !.stage = stage]
    /\ calls' = [c \in Callers |-> IF c \in ids THEN Call(c, "queued") ELSE calls[c]]
    /\ UNCHANGED <<creation, kind, startupFiles, process, lifecycle, sessions>>

\* operationManager.shutdown: the temporary operations on record.
OperationsShutdown ==
    /\ ending.stage = "none"
    /\ Begin("operations", {s \in sessions : kind[s] = "command" /\ creation[s] = "created"})

\* Whatever became of the operations, sessionManager.shutdown follows.
SessionsShutdown ==
    /\ ending.stage = "operations" /\ \A s \in Ids : calls[s] = Idle
    /\ Begin("sessions", sessions)

\* Mutant of Tally: a close that fails is not counted.
TallyWithoutFailures(s, phase) ==
    CASE phase = "closed" -> [ending EXCEPT !.terminated = @ + 1]
      [] phase = "pending" -> [ending EXCEPT !.timedOut = @ + 1]
      [] OTHER -> ending

\* terminated is counted before dispose, timedOut when anything has thrown.
Tally(s, phase) ==
    CASE phase = "closed" -> [ending EXCEPT !.terminated = @ + 1]
      [] phase = "rejected" /\ lifecycle[s] = "exited" ->
             [ending EXCEPT !.terminated = @ + 1, !.timedOut = @ + 1]
      [] phase \in {"pending", "rejected"} -> [ending EXCEPT !.timedOut = @ + 1]
      [] OTHER -> ending

ShutdownProceeds(s) ==
    /\ \E phase \in {"waiting", "closed", "pending", "rejected"} :
         /\ CloseStep(s, phase)
         /\ calls' = [calls EXCEPT ![s] = IF phase = "waiting" THEN Call(s, phase) ELSE Idle]
         /\ ending' = IF ending.stage = "sessions" THEN Tally(s, phase) ELSE ending
    /\ UNCHANGED <<creation, kind, process>>

ShutdownReturned ==
    /\ ending.stage = "sessions" /\ \A s \in Ids : calls[s] = Idle
    /\ ending' = [ending EXCEPT !.stage = "returned"]
    /\ UNCHANGED <<creation, kind, startupFiles, process, lifecycle, sessions, calls>>

-----------------------------------------------------------------------------
Init ==
    /\ creation = [s \in Ids |-> "none"] /\ kind = [s \in Ids |-> "plain"]
    /\ startupFiles = [s \in Ids |-> "none"]
    /\ process = [s \in Ids |-> "none"] /\ lifecycle = [s \in Ids |-> "none"]
    /\ sessions = {}
    /\ calls = [c \in Callers |-> Idle]
    /\ ending = [stage |-> "none", terminated |-> 0, timedOut |-> 0]

SessionNext(s) ==
    \/ Create(s) \/ RecordingStarted(s) \/ ProcessExits(s) \/ ExitCommitted(s)
    \/ ShutdownProceeds(s)

CloserNext(c) == CloseProceeds(c) \/ \E s \in Ids : Close(c, s)

EndingNext == OperationsShutdown \/ SessionsShutdown \/ ShutdownReturned

Next == (\E s \in Ids : SessionNext(s)) \/ (\E c \in Closers : CloserNext(c)) \/ EndingNext

\* The recording file opens or fails, queues come to their operations, and closes have
\* a timeout.  Nothing is assumed of processes and clients.
Progress(s) == RecordingStarted(s) \/ ShutdownProceeds(s)
Continuation == SessionsShutdown \/ ShutdownReturned
Spec ==
    /\ Init /\ [][Next]_vars
    /\ \A s \in Ids : WF_vars(Progress(s))
    /\ WF_vars(Continuation)

-----------------------------------------------------------------------------
\* Correctness.

TypeOK ==
    /\ creation \in [Ids -> {"none", "recording", "created", "rejected"}]
    /\ kind \in [Ids -> Kinds]
    /\ startupFiles \in [Ids -> {"none", "present", "removed", "stuck"}]
    /\ process \in [Ids -> {"none", "alive", "dead"}]
    /\ lifecycle \in [Ids -> {"none", "running", "exiting", "exited"}]
    /\ sessions \subseteq Ids
    /\ calls \in [Callers -> {Idle} \cup [phase : {"queued", "waiting"}, session : Ids]]
    /\ ending \in [stage : {"none", "operations", "sessions", "returned"},
                   terminated : Nat, timedOut : Nat]

\* "Shutdown does not orphan or forget active PTYs": a process that lives can still be
\* reached through the manager by the caller that asked for it, whatever failed or timed
\* out since (terminal-session-manager.md:83).
NothingForgotten ==
    \A s \in Ids : process[s] = "alive" => s \in sessions /\ creation[s] # "rejected"

\* "Generated startup files ... are removed after spawn failure or session disposal"
\* (shell-integration.md:99): they are there as long as the session that needs them is,
\* however many closes of it overlap and whichever of them fail.  A directory whose
\* preparation, or removal after a failed spawn, threw is "stuck": it may stay.
FilesAreReclaimed ==
    \A s \in Ids : startupFiles[s] = "present" <=> s \in sessions /\ kind[s] = "shell"

\* A shutdown that reports no timeout has left no process and no session behind, although
\* clients close the same sessions at the same time and a session may still be in the
\* middle of its creation when the shutdown comes.
ShutdownIsTruthful ==
    ending.stage = "returned" /\ ending.timedOut = 0 =>
        sessions = {} /\ \A s \in Ids : process[s] # "alive"

\* The application ends: no process, recording or failing close holds up the shutdown.
ShutdownReturns == ending.stage = "operations" ~> ending.stage = "returned"
=============================================================================
