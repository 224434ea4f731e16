------------------------- MODULE TemporaryOperation -------------------------
(***************************************************************************)
(* One temporary PTY operation (packages/session-core/src/temporary-pty-   *)
(* operations.ts): the run that makes it, its record and expiry, and the   *)
(* closes of the operation and of its session.                             *)
(*                                                                         *)
(* The session and its manager are external: the session exits, views of   *)
(* it open and close, and a close of it is two steps, between which any    *)
(* event may come (TerminalSession has the detail: the session's queue can *)
(* be held up by the recording file).  What follows an event by promise    *)
(* continuations alone is part of its step: monitor resumes with the exit. *)
(***************************************************************************)
EXTENDS Naturals

CONSTANTS Closers,      \* clients that close the operation or its session
          MaxExpiring   \* bound: expiries under way at the same time

VARIABLES
    lifecycle,   \* external: "unborn", "running", "exited"
    inManager,   \* external: the session is in the session manager's map
    presented,   \* external: isPresented(session)
    record,      \* the operation in operations: "none", "recorded", "removed";
                 \* operationIdsBySession has its session as long
    timer,       \* its entry in expiryTimers: "none", "armed", or "fired": still
                 \* there though the timer has fired
    expiring,    \* expire calls that wait for their close
    run,         \* the run: "creating" (createCommandSession), "presenting"
                 \* (onSessionCreated), "waiting" (waitForExit), or its result
    closer,      \* close calls, and whether they found the operation
    notified     \* onOperationRemoved calls

external == <<lifecycle, inManager, presented>>
vars == <<external, record, timer, expiring, run, closer, notified>>

Kinds == {"operation", "session"}

-----------------------------------------------------------------------------
\* reconcileRetention: the timer entry of an operation on record.
Reconciled(life, shown) ==
    IF life # "exited" \/ shown THEN "none"
    ELSE IF timer = "none" THEN "armed" ELSE timer

\* remove: only the removal of an operation on record is notified.
Remove ==
    /\ record' = "removed" /\ timer' = "none"
    /\ notified' = IF record = "recorded" THEN notified + 1 ELSE notified

Retain == UNCHANGED <<record, timer, notified>>

-----------------------------------------------------------------------------
\* The run.

SessionSpawned ==
    /\ run = "creating" /\ lifecycle = "unborn"
    /\ lifecycle' = "running" /\ inManager' = TRUE
    /\ UNCHANGED <<presented, record, timer, expiring, run, closer, notified>>

SpawnFailed ==
    /\ run = "creating" /\ lifecycle = "unborn"
    /\ run' = "rejected"
    /\ UNCHANGED <<external, record, timer, expiring, closer, notified>>

\* Mutant of Registered: monitor does not look at a session that has exited.
RegisteredUnmonitored ==
    /\ run = "creating" /\ lifecycle # "unborn"
    /\ record' = "recorded" /\ timer' = "none"
    /\ run' = "presenting"
    /\ UNCHANGED <<external, expiring, closer, notified>>

\* createCommandSession has returned; the recording it started may have taken long
\* enough for the session to exit.
Registered ==
    /\ run = "creating" /\ lifecycle # "unborn"
    /\ record' = "recorded"
    /\ timer' = Reconciled(lifecycle, presented)
    /\ run' = "presenting"
    /\ UNCHANGED <<external, expiring, closer, notified>>

\* onSessionCreated settles; waitForExit throws when the session is gone.
PresentationSettled ==
    /\ run = "presenting"
    /\ run' = IF ~inManager THEN "rejected"
              ELSE IF lifecycle = "exited" THEN "completed" ELSE "waiting"
    /\ UNCHANGED <<external, record, timer, expiring, closer, notified>>

RunTimedOut ==
    /\ run = "waiting"
    /\ run' = "running"
    /\ UNCHANGED <<external, record, timer, expiring, closer, notified>>

-----------------------------------------------------------------------------
\* The session.

\* The session.updated listener and monitor reconcile; waitForExit resolves.
SessionExited ==
    /\ lifecycle = "running"
    /\ lifecycle' = "exited"
    /\ timer' = IF record = "recorded" THEN Reconciled("exited", presented) ELSE timer
    /\ run' = IF run = "waiting" THEN "completed" ELSE run
    /\ UNCHANGED <<inManager, presented, record, expiring, closer, notified>>

\* A view opens or closes, whoever asked for it.
PresentationChanged ==
    /\ inManager
    /\ presented' = ~presented
    /\ timer' = IF record = "recorded" THEN Reconciled(lifecycle, presented') ELSE timer
    /\ UNCHANGED <<lifecycle, inManager, record, expiring, run, closer, notified>>

-----------------------------------------------------------------------------
\* Closing.

\* closeOperation and closeSession up to sessions.close.
CloseBegun(c, kind) ==
    /\ closer[c].stage = "idle" /\ inManager
    /\ kind = "operation" => record = "recorded"
    /\ closer' = [closer EXCEPT ![c] = [stage |-> "closing", found |-> record = "recorded"]]
    /\ UNCHANGED <<external, record, timer, expiring, run, notified>>

\* The close timeout, or kill has thrown.
CloseUnfinished(c) ==
    /\ closer[c].stage = "closing" /\ lifecycle = "running"
    /\ closer' = [closer EXCEPT ![c].stage = "idle"]
    /\ UNCHANGED <<external, record, timer, expiring, run, notified>>

\* The exited session is finalized and forgotten.  The continuations of a run that
\* is making it are fewer than those of a close, so the run registers it first.
CloseReturned(c) ==
    /\ closer[c].stage = "closing" /\ lifecycle = "exited" /\ run # "creating"
    /\ inManager' = FALSE
    /\ IF closer[c].found THEN Remove ELSE Retain
    /\ closer' = [closer EXCEPT ![c].stage = "idle"]
    /\ UNCHANGED <<lifecycle, presented, expiring, run>>

-----------------------------------------------------------------------------
\* Expiry.

\* Mutant of Expire: the operation of a session that is gone is kept.
ExpireIgnoringMissing ==
    /\ timer = "armed" /\ expiring < MaxExpiring
    /\ timer' = "fired" /\ UNCHANGED <<record, notified>>
    /\ expiring' = IF inManager THEN expiring + 1 ELSE expiring
    /\ UNCHANGED <<external, run, closer>>

\* The timer fires: expire up to sessions.close.
Expire ==
    /\ timer = "armed" /\ expiring < MaxExpiring
    /\ IF ~inManager
       THEN Remove /\ UNCHANGED expiring
       ELSE /\ timer' = IF lifecycle = "exited" /\ ~presented THEN "fired" ELSE "none"
            /\ expiring' = IF timer' = "fired" THEN expiring + 1 ELSE expiring
            /\ UNCHANGED <<record, notified>>
    /\ UNCHANGED <<external, run, closer>>

\* The close of an exited session succeeds: the file recorder's stop does not reject.
ExpiryClosed ==
    /\ expiring > 0
    /\ expiring' = expiring - 1
    /\ inManager' = FALSE
    /\ Remove
    /\ UNCHANGED <<lifecycle, presented, run, closer>>

-----------------------------------------------------------------------------
Init ==
    /\ lifecycle = "unborn" /\ inManager = FALSE /\ presented = FALSE
    /\ record = "none" /\ timer = "none" /\ expiring = 0
    /\ run = "creating"
    /\ closer = [c \in Closers |-> [stage |-> "idle", found |-> FALSE]]
    /\ notified = 0

Next ==
    \/ SessionSpawned \/ SpawnFailed \/ Registered \/ PresentationSettled \/ RunTimedOut
    \/ SessionExited \/ PresentationChanged
    \/ \E c \in Closers :
         \/ \E kind \in Kinds : CloseBegun(c, kind)
         \/ CloseUnfinished(c) \/ CloseReturned(c)
    \/ Expire \/ ExpiryClosed

\* Timers fire, and closes of exited sessions return.  Nothing is assumed of the
\* process, of views or of clients.
Spec == Init /\ [][Next]_vars /\ WF_vars(Expire) /\ WF_vars(ExpiryClosed)

-----------------------------------------------------------------------------
\* Correctness.

TypeOK ==
    /\ lifecycle \in {"unborn", "running", "exited"}
    /\ inManager \in BOOLEAN /\ presented \in BOOLEAN
    /\ record \in {"none", "recorded", "removed"}
    /\ timer \in {"none", "armed", "fired"}
    /\ expiring \in 0..MaxExpiring
    /\ run \in {"creating", "presenting", "waiting", "running", "completed", "rejected"}
    /\ closer \in [Closers -> [stage : {"idle", "closing"}, found : BOOLEAN]]
    /\ notified \in Nat

\* Those who index the operation are told exactly once that it is gone, however many
\* closes and expiries of it overlap.
RemovedOnce == notified = IF record = "removed" THEN 1 ELSE 0

\* No timer runs for an operation that is active or has a view, and a completed
\* operation without a view is always on its way out: its timer runs or an expiry is
\* closing it, although exit, registration, views and the stale entry of a timer that
\* has fired all touch the timer.
RetentionExact ==
    record = "recorded" /\ inManager =>
        /\ timer = "armed" => lifecycle = "exited" /\ ~presented
        /\ lifecycle = "exited" /\ ~presented /\ expiring = 0 => timer = "armed"

\* A completed operation whose view is closed, or was never open, is removed, even if
\* its session was closed by a client that did not know of the operation.
CompletedExpire ==
    []<>~(record = "recorded" /\ lifecycle = "exited" /\ ~presented)
=============================================================================
