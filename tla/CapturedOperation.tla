------------------------- MODULE CapturedOperation --------------------------
(***************************************************************************)
(* One captured operation (packages/session-core: operation-manager.ts,    *)
(* captured-operation.ts, captured-process-host.ts): a child process whose *)
(* output is journalled, the run call that started it, the calls that      *)
(* close it, its observers, and its expiry once completed.                 *)
(*                                                                         *)
(* Nothing is queued here: process events, timers and calls change the     *)
(* operation directly.  A continuation that is ready runs before the next  *)
(* event (Quiet); so does the answer to a spawn, which Node gives in the   *)
(* next tick.                                                              *)
(***************************************************************************)
EXTENDS Naturals

CONSTANTS Clients,    \* calls that close the operation by its id
          Shutdowns,  \* calls that close it because the application ends
          Observers,  \* clients that wait for a new observation
          MaxOutput,  \* bound: chunks of output of the process
          MaxRetries  \* bound: attempts of each closing call

ASSUME MaxOutputAssumption == MaxOutput \in Nat
ASSUME MaxRetriesAssumption == MaxRetries \in Nat \ {0}
ASSUME CallsAssumption == Clients \cap Shutdowns = {}

VARIABLES
    process,    \* external: "spawning", "failed" (never started), "running",
                \* "left" (the shell has exited, a descendant still holds its
                \* output), "ended" (the output is closed, too)
    signalled,  \* the process group was told to terminate
    status,     \* "running" or "completed"
    version,
    run,        \* the run call: "spawning", "waiting", and its results "running",
                \* "completed", "failed"
    closing,    \* the closing calls: "idle"; "killing" (kill not settled);
                \* "waiting" in exitWaiters; "resumed"; results "closed",
                \* "pending", "rejected"
    attempts,   \* attempts each closing call has made
    waiting,    \* observation waiters: <<observer, afterVersion>>
    recorded,   \* the operation is in capturedOperations
    expiry,     \* an expiry timer is armed
    notices     \* calls of onOperationRemoved

vars == <<process, signalled, status, version, run, closing, attempts, waiting, recorded,
          expiry, notices>>

Calls == Clients \cup Shutdowns
Settled == {"closed", "pending", "rejected"}

Quiet == process # "spawning" /\ run # "resumed" /\ \A c \in Calls : closing[c] # "resumed"

\* A waiter is resolved by a later version or the completion.
Notify == waiting' = {w \in waiting : version' <= w[2] /\ status' = "running"}

\* removeCaptured: the timer, the waiters and the record go.
RemoveCaptured ==
    /\ recorded' = FALSE /\ expiry' = FALSE /\ waiting' = {}
    /\ notices' = IF recorded THEN notices + 1 ELSE notices

Kept == UNCHANGED <<recorded, expiry, waiting, notices>>

-----------------------------------------------------------------------------
\* The child process.

\* The spawn promise resolves; run attaches the process and waits.
SpawnSucceeded ==
    /\ process = "spawning"
    /\ process' = "running"
    /\ run' = "waiting"
    /\ UNCHANGED <<signalled, status, version, closing, attempts>> /\ Kept

\* Mutant of SpawnFailed: the record stays.
SpawnFailedRecorded ==
    /\ process = "spawning"
    /\ process' = "failed" /\ run' = "failed"
    /\ UNCHANGED <<signalled, status, version, closing, attempts>> /\ Kept

SpawnFailed ==
    /\ process = "spawning"
    /\ process' = "failed" /\ run' = "failed"
    /\ RemoveCaptured
    /\ UNCHANGED <<signalled, status, version, closing, attempts>>

\* The record is there and the operation runs as long as its process does.
AcceptOutput ==
    /\ Quiet /\ process \in {"running", "left"} /\ version < MaxOutput
    /\ version' = version + 1
    /\ UNCHANGED status /\ Notify
    /\ UNCHANGED <<process, signalled, run, closing, attempts, recorded, expiry, notices>>

\* The host knows the exit code; the operation is told when the output closes.
ShellExits ==
    /\ Quiet /\ process = "running"
    /\ process' = "left"
    /\ UNCHANGED <<signalled, status, version, run, closing, attempts>> /\ Kept

\* acceptExit: completion, the observers and exit waiters, then onCompleted.
AcceptExit ==
    /\ Quiet /\ process = "left"
    /\ process' = "ended"
    /\ status' = "completed" /\ version' = version + 1
    /\ Notify
    /\ run' = IF run = "waiting" THEN "resumed" ELSE run
    /\ closing' = [c \in Calls |-> IF closing[c] = "waiting" THEN "resumed" ELSE closing[c]]
    /\ expiry' = TRUE
    /\ UNCHANGED <<signalled, attempts, recorded, notices>>

-----------------------------------------------------------------------------
\* The run call.

RunResumed ==
    /\ run = "resumed"
    /\ run' = status
    /\ UNCHANGED <<process, signalled, status, version, closing, attempts>> /\ Kept

\* Mutant of RunTimedOut: a silent operation does not time out.
RunTimedOutWithOutput ==
    /\ Quiet /\ run = "waiting" /\ version > 0
    /\ run' = "running"
    /\ UNCHANGED <<process, signalled, status, version, closing, attempts>> /\ Kept

\* The operation outlives the wait for its initial result.
RunTimedOut ==
    /\ Quiet /\ run = "waiting"
    /\ run' = "running"
    /\ UNCHANGED <<process, signalled, status, version, closing, attempts>> /\ Kept

-----------------------------------------------------------------------------
\* Closing.

\* A client knows the id from the result of the run; a shutdown finds the record.
MayClose(c) ==
    /\ closing[c] \in {"idle", "pending", "rejected"} /\ attempts[c] < MaxRetries
    /\ recorded
    /\ c \in Clients => run \in {"running", "completed"}

\* close up to its first await.  kill does nothing once the shell has exited.
Close(c) ==
    /\ Quiet /\ MayClose(c)
    /\ attempts' = [attempts EXCEPT ![c] = @ + 1]
    /\ closing' = [closing EXCEPT ![c] = IF status = "completed" THEN "resumed"
                                         ELSE IF process \in {"spawning", "running"} THEN "killing"
                                         ELSE "waiting"]
    /\ signalled' = (signalled \/ process = "running")
    /\ UNCHANGED <<process, status, version, run>> /\ Kept

\* kill has settled: the exit may have come first.
Killed(c) ==
    /\ Quiet /\ closing[c] = "killing"
    /\ closing' = [closing EXCEPT ![c] = IF status = "completed" THEN "resumed" ELSE "waiting"]
    /\ UNCHANGED <<process, signalled, status, version, run, attempts>> /\ Kept

\* The process could not be signalled, or taskkill failed, or could not even be run: in that
\* case the shell may have exited meanwhile.
KillFailed(c) ==
    /\ Quiet /\ closing[c] = "killing"
    /\ closing' = [closing EXCEPT ![c] = "rejected"]
    /\ UNCHANGED <<process, signalled, status, version, run, attempts>> /\ Kept

\* Mutant of CloseTimedOut: a close that timed out counts as closed.
CloseTimedOutClosed(c) ==
    /\ Quiet /\ closing[c] = "waiting"
    /\ closing' = [closing EXCEPT ![c] = "resumed"]
    /\ UNCHANGED <<process, signalled, status, version, run, attempts>> /\ Kept

CloseTimedOut(c) ==
    /\ Quiet /\ closing[c] = "waiting"
    /\ closing' = [closing EXCEPT ![c] = "pending"]
    /\ UNCHANGED <<process, signalled, status, version, run, attempts>> /\ Kept

\* close returns closed, and the manager removes the record.
CloseResumed(c) ==
    /\ closing[c] = "resumed"
    /\ closing' = [closing EXCEPT ![c] = "closed"]
    /\ RemoveCaptured
    /\ UNCHANGED <<process, signalled, status, version, run, attempts>>

Expire ==
    /\ Quiet /\ expiry
    /\ RemoveCaptured
    /\ UNCHANGED <<process, signalled, status, version, run, closing, attempts>>

-----------------------------------------------------------------------------
\* Observation.

Observe(o) ==
    /\ Quiet /\ recorded /\ run = "running"
    /\ status = "running"
    /\ \A w \in waiting : w[1] # o
    /\ waiting' = waiting \cup {<<o, version>>}
    /\ UNCHANGED <<process, signalled, status, version, run, closing, attempts, recorded, expiry,
                   notices>>

\* An observation times out or is aborted.
ObserveEnds(o) ==
    /\ Quiet
    /\ \E w \in waiting : w[1] = o
    /\ waiting' = {w \in waiting : w[1] # o}
    /\ UNCHANGED <<process, signalled, status, version, run, closing, attempts, recorded, expiry,
                   notices>>

-----------------------------------------------------------------------------
\* run has recorded the operation and waits for the process to be spawned.
Init ==
    /\ process = "spawning" /\ signalled = FALSE
    /\ status = "running" /\ version = 0
    /\ run = "spawning"
    /\ closing = [c \in Calls |-> "idle"]
    /\ attempts = [c \in Calls |-> 0]
    /\ waiting = {}
    /\ recorded = TRUE /\ expiry = FALSE /\ notices = 0

CloseStep(c) == Killed(c) \/ KillFailed(c) \/ CloseTimedOut(c) \/ CloseResumed(c)
RunStep == RunResumed \/ RunTimedOut

Next ==
    \/ SpawnSucceeded \/ SpawnFailed \/ AcceptOutput \/ ShellExits \/ AcceptExit
    \/ RunStep
    \/ \E c \in Calls : Close(c) \/ CloseStep(c)
    \/ Expire
    \/ \E o \in Observers : Observe(o) \/ ObserveEnds(o)

Spec == Init /\ [][Next]_vars

\* The operating system answers a spawn, kill settles, timers fire.  Nothing is
\* assumed of the process.
FairSpec ==
    /\ Spec
    /\ WF_vars(SpawnSucceeded \/ SpawnFailed) /\ WF_vars(RunStep) /\ WF_vars(Expire)
    /\ \A c \in Calls : WF_vars(CloseStep(c))

-----------------------------------------------------------------------------
\* Correctness.

TypeOK ==
    /\ process \in {"spawning", "failed", "running", "left", "ended"}
    /\ signalled \in BOOLEAN
    /\ status \in {"running", "completed"}
    /\ version \in 0..(MaxOutput + 1)
    /\ run \in {"spawning", "waiting", "resumed", "running", "completed", "failed"}
    /\ closing \in [Calls -> {"idle", "killing", "waiting", "resumed"} \cup Settled]
    /\ attempts \in [Calls -> 0..MaxRetries]
    /\ waiting \subseteq Observers \X (0..MaxOutput)
    /\ recorded \in BOOLEAN /\ expiry \in BOOLEAN
    /\ notices \in Nat

\* The record of an operation whose process or descendants may still run is kept,
\* however many closes time out, fail or overlap, and whenever the expiry timer fires.
RemovedOnlyEnded == ~recorded => process \in {"failed", "ended"}

\* A completed operation on record has its expiry timer armed, so none is kept for
\* ever, and no other operation has one.
ExpiryIsArmed == expiry <=> (recorded /\ status = "completed")

\* The removal of a record is notified once, even when a close and the expiry, or two
\* closes, remove it: the gateway's index follows these notices.
RemovedOnce == notices = IF recorded THEN 0 ELSE 1

\* No observer waits for a version that exists, for a completed operation, or for a
\* record that is gone.
NoMissedWakeup == \A w \in waiting : version <= w[2] /\ status = "running" /\ recorded

\* The run and every close settle, whatever the process does.
CallsSettle ==
    /\ <>(run \in {"running", "completed", "failed"})
    /\ \A c \in Calls : closing[c] # "idle" ~> closing[c] \in Settled

\* A completed operation or a failed spawn leaves no record for ever.
RecordsAreReclaimed == process \in {"failed", "ended"} ~> ~recorded

=============================================================================
