----------------------------- MODULE MCSessions -----------------------------
(* The life of sessions: one temporary operation, the queue of one session, or *)
(* the sessions of the manager until the end of the application.  A behaviour  *)
(* exercises one of the three, under the fairness of its module.               *)
EXTENDS TerminalSession

CONSTANTS Closers, MaxExpiring, Ids

ASSUME MaxExpiringAssumption == MaxExpiring \in Nat \ {0}

\* A close of a client and a close of the shutdown have different names.
ASSUME CallersAssumption == Closers \cap Ids = {}

VARIABLES subject,
          operationLifecycle, inManager, presented, record, timer, expiring, run, closer, notified,
          creation, kind, startupFiles, process, lifecycles, sessions, calls, ending

operationVars == <<operationLifecycle, inManager, presented, record, timer, expiring, run, closer,
                   notified>>
managerVars == <<creation, kind, startupFiles, process, lifecycles, sessions, calls, ending>>
mcvars == <<subject, vars, operationVars, managerVars>>

Operation == INSTANCE TemporaryOperation WITH lifecycle <- operationLifecycle
Manager == INSTANCE SessionManager WITH lifecycle <- lifecycles

MCInit ==
    /\ Init /\ Operation!Init /\ Manager!Init
    /\ subject \in {"operation", "session", "manager"}
    /\ subject # "session" => integration = "settled"

MCNext ==
    \/ subject = "session" /\ Next /\ UNCHANGED <<subject, operationVars, managerVars>>
    \/ subject = "operation" /\ Operation!Next /\ UNCHANGED <<subject, vars, managerVars>>
    \/ subject = "manager" /\ Manager!Next /\ UNCHANGED <<subject, vars, operationVars>>

MCSpec ==
    /\ MCInit /\ [][MCNext]_mcvars
    /\ WF_mcvars(QueueStep /\ UNCHANGED <<subject, operationVars, managerVars>>)
    /\ \A c \in Calls : WF_mcvars(CallStep(c) /\ UNCHANGED <<subject, operationVars, managerVars>>)
    /\ WF_mcvars(Operation!Expire /\ UNCHANGED <<subject, vars, managerVars>>)
    /\ WF_mcvars(Operation!ExpiryClosed /\ UNCHANGED <<subject, vars, managerVars>>)
    /\ \A s \in Ids : WF_mcvars(Manager!Progress(s) /\ UNCHANGED <<subject, vars, operationVars>>)
    /\ WF_mcvars(Manager!Continuation /\ UNCHANGED <<subject, vars, operationVars>>)

\* A timer runs, or an expiry closes the session, exactly for completed operations without
\* a view (temporary-pty-operations.ts, reconcileRetention).
RetentionExact == Operation!RetentionExact

\* A completed operation without a view is removed in the end (temporary-pty-operations.ts,
\* expire).
CompletedExpire == Operation!CompletedExpire

\* A process that lives can be reached through the manager, whatever failed or timed out
\* since it was spawned (session-manager.ts, spawnSession and close).
NothingForgotten == Manager!NothingForgotten

\* The startup files of a shell are there as long as its session is; one that could not
\* be prepared, or removed after a failed spawn, may stay (session-manager.ts, createSession;
\* managed-session.ts, dispose).
FilesAreReclaimed == Manager!FilesAreReclaimed

\* A shutdown that reports no timeout has left neither a process nor a session
\* (session-manager.ts, shutdown).
ShutdownIsTruthful == Manager!ShutdownIsTruthful

\* The shutdown of the application ends (index.ts, shutdownApp).
ShutdownReturns == Manager!ShutdownReturns
=============================================================================
