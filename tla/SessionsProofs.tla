--------------------------- MODULE SessionsProofs ---------------------------
(***************************************************************************)
(* Safety of the life of sessions: of a temporary operation, for any       *)
(* number of closers and expiries, and of the sessions of the manager, for *)
(* any sessions and callers.                                               *)
(***************************************************************************)
EXTENDS MCSessions, TLAPS

\* An operation has a timer or an expiry only after its registration, its session
\* exists by then, and expiries are of exited sessions.
Registration ==
    /\ record = "none" => timer = "none" /\ expiring = 0
    /\ record # "none" => operationLifecycle # "unborn" /\ run # "creating"
    /\ operationLifecycle = "unborn" => ~inManager
    /\ operationLifecycle = "running" => inManager
    /\ expiring > 0 => operationLifecycle = "exited"
    /\ \A c \in Closers : closer[c].found => record # "none"

\* The entry of a timer that has fired stays no longer than an expiry takes.
Entries ==
    /\ timer = "fired" => expiring > 0
    /\ record = "removed" => timer = "none"

OperationInv == Operation!TypeOK /\ Operation!RemovedOnce /\ Operation!RetentionExact /\ Registration /\ Entries

LEMMA OperationInit == Operation!Init => OperationInv
<1> SUFFICES ASSUME Operation!Init PROVE OperationInv
  OBVIOUS
<1>1. expiring = 0 /\ expiring \in 0..MaxExpiring /\ notified = 0 /\ notified \in Nat
  BY MaxExpiringAssumption DEF Operation!Init
<1>2. closer \in [Closers -> [stage : {"idle", "closing"}, found : BOOLEAN]]
      /\ \A c \in Closers : ~closer[c].found
  BY DEF Operation!Init
<1>3. Operation!TypeOK
  BY <1>1, <1>2 DEF Operation!Init, Operation!TypeOK
<1>4. Operation!RemovedOnce /\ Operation!RetentionExact /\ Registration /\ Entries
  BY <1>1, <1>2 DEF Operation!Init, Operation!RemovedOnce, Operation!RetentionExact, Registration,
                    Entries
<1>5. QED BY <1>3, <1>4 DEF OperationInv

\* Whatever removes the operation, and however often.
LEMMA RemoveIsExact ==
  ASSUME OperationInv, Operation!Remove, record # "none"
  PROVE  record' = "removed" /\ timer' = "none" /\ Operation!RemovedOnce' /\ notified' \in Nat
BY DEF OperationInv, Operation!TypeOK, Operation!RemovedOnce, Operation!Remove

\* A session.updated event keeps the timer exact.
LEMMA ReconciledIsExact ==
  ASSUME OperationInv, NEW life \in {"running", "exited"}, NEW shown \in BOOLEAN,
         expiring > 0 => life = "exited"
  PROVE  /\ Operation!Reconciled(life, shown) \in {"none", "armed", "fired"}
         /\ Operation!Reconciled(life, shown) = "armed" => life = "exited" /\ ~shown
         /\ Operation!Reconciled(life, shown) = "fired" => expiring > 0
         /\ life = "exited" /\ ~shown /\ expiring = 0 => Operation!Reconciled(life, shown) = "armed"
BY DEF OperationInv, Operation!TypeOK, Operation!RetentionExact, Registration, Entries,
       Operation!Reconciled

LEMMA CloserStep ==
  ASSUME OperationInv, NEW c \in Closers,
         \/ \E k \in Operation!Kinds : Operation!CloseBegun(c, k)
         \/ Operation!CloseUnfinished(c) \/ Operation!CloseReturned(c)
  PROVE  OperationInv'
<1> USE DEF OperationInv, Operation!TypeOK, Operation!RemovedOnce, Operation!RetentionExact,
            Registration, Entries, Operation!external
<1>1. CASE \E k \in Operation!Kinds : Operation!CloseBegun(c, k)
  BY <1>1 DEF Operation!CloseBegun
<1>2. CASE Operation!CloseUnfinished(c)
  BY <1>2 DEF Operation!CloseUnfinished
<1>3. CASE Operation!CloseReturned(c)
  <2>1. closer' \in [Closers -> [stage : {"idle", "closing"}, found : BOOLEAN]]
        /\ \A k \in Closers : closer'[k].found = closer[k].found
    BY <1>3 DEF Operation!CloseReturned
  <2>2. CASE closer[c].found
    <3>1. record' = "removed" /\ timer' = "none" /\ Operation!RemovedOnce' /\ notified' \in Nat
      BY <1>3, <2>2, RemoveIsExact DEF Operation!CloseReturned
    <3>2. QED BY <1>3, <2>1, <3>1 DEF Operation!CloseReturned
  <2>3. CASE ~closer[c].found
    BY <1>3, <2>1, <2>3 DEF Operation!CloseReturned, Operation!Retain
  <2>4. QED BY <2>2, <2>3
<1>4. QED BY <1>1, <1>2, <1>3

LEMMA SessionStep ==
  ASSUME OperationInv, Operation!SessionExited \/ Operation!PresentationChanged \/ Operation!Registered
  PROVE  OperationInv'
<1>1. CASE record = "recorded" /\ Operation!SessionExited
  BY <1>1, ReconciledIsExact
     DEF Operation!SessionExited, OperationInv, Operation!TypeOK, Operation!RemovedOnce,
         Operation!RetentionExact, Registration, Entries
<1>2. CASE record = "recorded" /\ Operation!PresentationChanged
  <2>1. operationLifecycle \in {"running", "exited"} /\ presented' \in BOOLEAN
    BY <1>2 DEF Operation!PresentationChanged, OperationInv, Operation!TypeOK, Registration
  <2>2. timer' = Operation!Reconciled(operationLifecycle, presented') /\ (expiring > 0 => operationLifecycle = "exited")
    BY <1>2 DEF Operation!PresentationChanged, OperationInv, Registration
  <2>3. QED
    BY <1>2, <2>1, <2>2, ReconciledIsExact
       DEF Operation!PresentationChanged, OperationInv, Operation!TypeOK, Operation!RemovedOnce,
           Operation!RetentionExact, Registration, Entries
<1>4. CASE record # "recorded" /\ Operation!SessionExited
  BY <1>4
     DEF Operation!SessionExited, OperationInv, Operation!TypeOK, Operation!RemovedOnce,
         Operation!RetentionExact, Registration, Entries
<1>5. CASE record # "recorded" /\ Operation!PresentationChanged
  <2>1. presented' \in BOOLEAN
        /\ UNCHANGED <<operationLifecycle, inManager, record, timer, expiring, run, closer, notified>>
    BY <1>5 DEF Operation!PresentationChanged, OperationInv, Operation!TypeOK
  <2>2. QED
    BY <1>5, <2>1 DEF OperationInv, Operation!TypeOK, Operation!RemovedOnce,
                      Operation!RetentionExact, Registration, Entries
<1>3. CASE Operation!Registered
  BY <1>3, ReconciledIsExact
     DEF Operation!Registered, Operation!external, OperationInv, Operation!TypeOK,
         Operation!RemovedOnce, Operation!RetentionExact, Registration, Entries
<1>6. QED BY <1>1, <1>2, <1>3, <1>4, <1>5

LEMMA OperationStep ==
  ASSUME OperationInv, [Operation!Next]_Operation!vars
  PROVE  OperationInv'
<1> USE DEF OperationInv, Operation!TypeOK, Operation!RemovedOnce, Operation!RetentionExact,
            Registration, Entries, Operation!external
<1>1. CASE Operation!SessionSpawned
  BY <1>1 DEF Operation!SessionSpawned
<1>2. CASE Operation!SpawnFailed
  BY <1>2 DEF Operation!SpawnFailed
<1>3. CASE Operation!PresentationSettled
  BY <1>3 DEF Operation!PresentationSettled
<1>4. CASE Operation!RunTimedOut
  BY <1>4 DEF Operation!RunTimedOut
<1>5. CASE Operation!Expire
  BY <1>5, MaxExpiringAssumption DEF Operation!Expire, Operation!Remove
<1>6. CASE Operation!ExpiryClosed
  <2>1. expiring' \in 0..MaxExpiring /\ expiring > 0
    BY <1>6, MaxExpiringAssumption DEF Operation!ExpiryClosed
  <2>2. record # "none" /\ run # "creating" /\ operationLifecycle = "exited"
    BY <2>1
  <2>3. record' = "removed" /\ timer' = "none" /\ Operation!RemovedOnce' /\ notified' \in Nat
    BY <1>6, <2>2, RemoveIsExact DEF Operation!ExpiryClosed
  <2>4. UNCHANGED <<operationLifecycle, presented, run, closer>> /\ inManager' = FALSE
    BY <1>6 DEF Operation!ExpiryClosed
  <2>5. Operation!TypeOK'
    BY <2>1, <2>3, <2>4
  <2>6. (Operation!RetentionExact /\ Registration /\ Entries)'
    BY <2>2, <2>3, <2>4
  <2>7. QED BY <2>3, <2>5, <2>6
<1>7. CASE UNCHANGED Operation!vars
  BY <1>7 DEF Operation!vars
<1>8. QED
  BY <1>1, <1>2, <1>3, <1>4, <1>5, <1>6, <1>7, CloserStep, SessionStep DEF Operation!Next

\* Every reachable state is well-typed.
THEOREM OperationTypeCorrect == Operation!Spec => []Operation!TypeOK
<1>1. OperationInv => Operation!TypeOK
  BY DEF OperationInv
<1>2. QED BY <1>1, OperationInit, OperationStep, PTL DEF Operation!Spec

\* The removal of an operation is notified once, however many closes and expiries
\* of it overlap.
THEOREM RemovalExact == Operation!Spec => []Operation!RemovedOnce
<1>1. OperationInv => Operation!RemovedOnce
  BY DEF OperationInv
<1>2. QED BY <1>1, OperationInit, OperationStep, PTL DEF Operation!Spec

\* A timer runs, or an expiry closes the session, exactly for completed operations
\* without a view.
THEOREM RetentionSafe == Operation!Spec => []RetentionExact
<1>1. OperationInv => RetentionExact
  BY DEF OperationInv, RetentionExact
<1>2. QED BY <1>1, OperationInit, OperationStep, PTL DEF Operation!Spec

-----------------------------------------------------------------------------
(* The sessions of the manager. *)

\* Every session of the manager has come from a spawn, and leaves the manager only after
\* its exit: a process that lives has a session that has not exited.
Origin ==
    \A s \in Ids :
        /\ creation[s] = "none" => startupFiles[s] = "none" /\ kind[s] # "shell"
        /\ creation[s] \in {"none", "rejected"} <=> lifecycles[s] = "none"
        /\ process[s] = "none" <=> lifecycles[s] = "none"
        /\ lifecycles[s] = "none" => s \notin sessions
        /\ lifecycles[s] = "exited" => process[s] = "dead"
        /\ lifecycles[s] \in {"running", "exiting"} => s \in sessions

\* The shutdown closes each session by a call of its own, and as long as it has met no
\* timeout a session that is still there still has its call.
OwnCalls == \A s \in Ids : calls[s] = Manager!Idle \/ calls[s].session = s

ShutdownCovers ==
    ending.timedOut = 0 =>
        /\ ending.stage = "sessions" => \A s \in sessions : calls[s] # Manager!Idle
        /\ ending.stage = "returned" => sessions = {}

Tables == Origin /\ NothingForgotten /\ FilesAreReclaimed

ManagerInv == Manager!TypeOK /\ Tables /\ OwnCalls /\ ShutdownCovers

\* A session that waits to be created has no other part yet.
LEMMA Unborn ==
  ASSUME ManagerInv, NEW s \in Ids, creation[s] = "none"
  PROVE  /\ startupFiles[s] = "none" /\ process[s] = "none" /\ lifecycles[s] = "none"
         /\ s \notin sessions
BY DEF ManagerInv, Tables, Origin

LEMMA ManagerInit == Manager!Init => ManagerInv
<1> SUFFICES ASSUME Manager!Init PROVE ManagerInv
  OBVIOUS
<1>1. Manager!TypeOK
  BY DEF Manager!Init, Manager!TypeOK, Manager!Kinds
<1>2. Tables
  BY DEF Manager!Init, Tables, Origin, NothingForgotten, FilesAreReclaimed,
         Manager!NothingForgotten, Manager!FilesAreReclaimed
<1>3. OwnCalls /\ ShutdownCovers
  BY DEF Manager!Init, OwnCalls, ShutdownCovers, Manager!Callers
<1>4. QED BY <1>1, <1>2, <1>3 DEF ManagerInv

\* Whatever a creation comes to: it concerns no other session, and no shutdown has begun.
LEMMA CreateStep ==
  ASSUME ManagerInv, NEW s \in Ids, Manager!Create(s)
  PROVE  ManagerInv'
<1> USE DEF ManagerInv
<1>1. /\ creation[s] = "none" /\ ending.stage = "none"
      /\ calls' = calls /\ ending' = ending
      /\ sessions' \in {sessions, sessions \cup {s}}
  BY DEF Manager!Create, Manager!CreationRejected, Manager!PreparationFailed,
         Manager!SpawnFailed, Manager!Spawned
<1>2. (OwnCalls /\ ShutdownCovers)'
  BY <1>1 DEF OwnCalls, ShutdownCovers
<1>3. Manager!TypeOK' /\ Tables'
  <2>1. CASE \E k \in Manager!Kinds : Manager!CreationRejected(s, k)
    BY <1>1, <2>1, Unborn
       DEF Manager!CreationRejected, Manager!TypeOK, Tables, Origin, NothingForgotten,
           FilesAreReclaimed, Manager!NothingForgotten, Manager!FilesAreReclaimed
  <2>2. CASE Manager!PreparationFailed(s)
    BY <1>1, <2>2, Unborn
       DEF Manager!PreparationFailed, Manager!TypeOK, Manager!Kinds, Tables, Origin,
           NothingForgotten, FilesAreReclaimed, Manager!NothingForgotten,
           Manager!FilesAreReclaimed
  <2>3. CASE Manager!SpawnFailed(s)
    BY <1>1, <2>3, Unborn
       DEF Manager!SpawnFailed, Manager!TypeOK, Manager!Kinds, Tables, Origin,
           NothingForgotten, FilesAreReclaimed, Manager!NothingForgotten,
           Manager!FilesAreReclaimed
  <2>4. CASE \E k \in Manager!Kinds : Manager!Spawned(s, k)
    <3> PICK k \in Manager!Kinds : Manager!Spawned(s, k)
      BY <2>4
    <3>1. Manager!TypeOK'
      BY <1>1 DEF Manager!Spawned, Manager!TypeOK
    <3>2. Tables'
      BY <1>1, Unborn
         DEF Manager!Spawned, Manager!TypeOK, Tables, Origin, NothingForgotten,
             FilesAreReclaimed, Manager!NothingForgotten, Manager!FilesAreReclaimed
    <3>3. QED BY <3>1, <3>2
  <2>5. QED BY <2>1, <2>2, <2>3, <2>4 DEF Manager!Create
<1>4. QED BY <1>2, <1>3

\* The recording, the process and the queue of one session.
LEMMA ExitStep ==
  ASSUME ManagerInv, NEW s \in Ids,
         Manager!RecordingStarted(s) \/ Manager!ProcessExits(s) \/ Manager!ExitCommitted(s)
  PROVE  ManagerInv'
<1> USE DEF ManagerInv
<1>1. sessions' = sessions /\ calls' = calls /\ ending' = ending
  BY DEF Manager!RecordingStarted, Manager!ProcessExits, Manager!ExitCommitted
<1>2. (OwnCalls /\ ShutdownCovers)'
  BY <1>1 DEF OwnCalls, ShutdownCovers
<1>3. CASE Manager!RecordingStarted(s)
  BY <1>2, <1>3
     DEF Manager!RecordingStarted, Manager!TypeOK, Tables, Origin, NothingForgotten,
         FilesAreReclaimed, Manager!NothingForgotten, Manager!FilesAreReclaimed
<1>4. CASE Manager!ProcessExits(s)
  BY <1>2, <1>4
     DEF Manager!ProcessExits, Manager!TypeOK, Tables, Origin, NothingForgotten,
         FilesAreReclaimed, Manager!NothingForgotten, Manager!FilesAreReclaimed
<1>5. CASE Manager!ExitCommitted(s)
  BY <1>2, <1>5
     DEF Manager!ExitCommitted, Manager!TypeOK, Tables, Origin, NothingForgotten,
         FilesAreReclaimed, Manager!NothingForgotten, Manager!FilesAreReclaimed
<1>6. QED BY <1>3, <1>4, <1>5

\* A call that is not idle is on a session.
LEMMA CallOnSession ==
  ASSUME ManagerInv, NEW c \in Manager!Callers, calls[c].phase \in {"queued", "waiting"}
  PROVE  calls[c] # Manager!Idle /\ calls[c].session \in Ids
BY DEF ManagerInv, Manager!TypeOK, Manager!Idle

\* One step of a close, whoever's: the tables stay right, and only a close that succeeds
\* takes its session, which has exited, out of the manager.
LEMMA CloseTables ==
  ASSUME ManagerInv, NEW c \in Manager!Callers,
         NEW phase \in {"waiting", "closed", "pending", "rejected"},
         Manager!CloseStep(c, phase), UNCHANGED <<creation, kind, process>>
  PROVE  /\ calls[c] # Manager!Idle /\ calls[c].session \in Ids
         /\ Tables' /\ sessions' \subseteq Ids
         /\ startupFiles' \in [Ids -> {"none", "present", "removed", "stuck"}]
         /\ lifecycles' \in [Ids -> {"none", "running", "exiting", "exited"}]
         /\ sessions' = IF phase = "closed" THEN sessions \ {calls[c].session} ELSE sessions
<1> DEFINE s == calls[c].session
<1> USE DEF ManagerInv
<1>1. calls[c] # Manager!Idle /\ s \in Ids
  BY CallOnSession DEF Manager!CloseStep
<1>2. CASE calls[c].phase = "queued" /\ Manager!Signalled(s, phase)
  <2> HIDE DEF s
  <2>1. s \in Ids /\ phase # "closed"
        /\ UNCHANGED <<creation, kind, process, startupFiles, sessions>>
        /\ \/ lifecycles' = lifecycles
           \/ lifecycles[s] = "running" /\ lifecycles' = [lifecycles EXCEPT ![s] = "exiting"]
    BY <1>1, <1>2 DEF Manager!Signalled
  <2>2. lifecycles' \in [Ids -> {"none", "running", "exiting", "exited"}]
        /\ \A t \in Ids : lifecycles'[t] # lifecycles[t] =>
             lifecycles[t] = "running" /\ lifecycles'[t] = "exiting"
    BY <2>1 DEF Manager!TypeOK
  <2>4. Tables'
    BY <2>1, <2>2
       DEF Manager!TypeOK, Tables, Origin, NothingForgotten, FilesAreReclaimed,
           Manager!NothingForgotten, Manager!FilesAreReclaimed
  <2>3. QED BY <1>1, <2>1, <2>2, <2>4 DEF Manager!TypeOK, s
<1>3. CASE calls[c].phase = "waiting" /\ Manager!CloseTimedOut(s, phase)
  BY <1>1, <1>3
     DEF Manager!CloseTimedOut, Manager!TypeOK, Tables, Origin, NothingForgotten,
         FilesAreReclaimed, Manager!NothingForgotten, Manager!FilesAreReclaimed
<1>4. CASE calls[c].phase = "waiting" /\ Manager!Released(s, phase)
  <2> HIDE DEF s
  <2>1. CASE phase = "closed"
    <3>1. /\ s \in Ids /\ lifecycles[s] = "exited" /\ sessions' = sessions \ {s}
          /\ startupFiles' = [startupFiles EXCEPT ![s] = IF @ = "none" THEN @ ELSE "removed"]
          /\ UNCHANGED <<creation, kind, process, lifecycles>>
      BY <1>1, <1>4, <2>1 DEF Manager!Released
    <3>2. Tables' /\ startupFiles' \in [Ids -> {"none", "present", "removed", "stuck"}]
      BY <3>1
         DEF Manager!TypeOK, Tables, Origin, NothingForgotten, FilesAreReclaimed,
             Manager!NothingForgotten, Manager!FilesAreReclaimed
    <3>3. QED BY <1>1, <2>1, <3>1, <3>2 DEF Manager!TypeOK, s
  <2>2. CASE phase # "closed"
    <3>1. UNCHANGED <<creation, kind, process, startupFiles, lifecycles, sessions>>
      BY <1>4, <2>2 DEF Manager!Released
    <3>2. Tables'
      BY <3>1
         DEF Tables, Origin, NothingForgotten, FilesAreReclaimed,
             Manager!NothingForgotten, Manager!FilesAreReclaimed
    <3>3. QED BY <1>1, <2>2, <3>1, <3>2 DEF Manager!TypeOK, s
  <2>3. QED BY <2>1, <2>2
<1>5. QED BY <1>2, <1>3, <1>4 DEF Manager!CloseStep

\* The close of a client takes no call of the shutdown away.
LEMMA CloseByClient ==
  ASSUME ManagerInv, NEW c \in Closers,
         Manager!CloseProceeds(c) \/ \E s \in Ids : Manager!Close(c, s)
  PROVE  ManagerInv'
<1> USE DEF ManagerInv
<1>0. c \in Manager!Callers /\ \A s \in Ids : s # c
  BY CallersAssumption DEF Manager!Callers
<1>1. CASE \E s \in Ids : Manager!Close(c, s)
  <2> PICK s \in Ids : Manager!Close(c, s)
    BY <1>1
  <2>1. /\ calls' = [calls EXCEPT ![c] = [phase |-> "queued", session |-> s]]
        /\ UNCHANGED <<creation, kind, startupFiles, process, lifecycles, sessions, ending>>
    BY DEF Manager!Close, Manager!Call
  <2>2. Manager!TypeOK'
    BY <2>1, <1>0 DEF Manager!TypeOK
  <2>3. Tables'
    BY <2>1
       DEF Tables, Origin, NothingForgotten, FilesAreReclaimed,
           Manager!NothingForgotten, Manager!FilesAreReclaimed
  <2>4. \A t \in Ids : calls'[t] = calls[t]
    BY <2>1, <1>0 DEF Manager!TypeOK, Manager!Callers
  <2>5. (OwnCalls /\ ShutdownCovers)'
    BY <2>1, <2>4 DEF OwnCalls, ShutdownCovers, Manager!TypeOK
  <2>6. QED BY <2>2, <2>3, <2>5
<1>2. CASE Manager!CloseProceeds(c)
  <2> PICK phase \in {"waiting", "closed", "pending", "rejected"} :
        /\ Manager!CloseStep(c, phase)
        /\ calls' = [calls EXCEPT ![c] = IF phase = "waiting"
                       THEN Manager!Call(calls[c].session, phase) ELSE Manager!Idle]
    BY <1>2 DEF Manager!CloseProceeds
  <2>1. UNCHANGED <<creation, kind, process, ending>>
    BY <1>2 DEF Manager!CloseProceeds
  <2>2. /\ calls[c].session \in Ids
        /\ Tables' /\ sessions' \subseteq Ids
        /\ startupFiles' \in [Ids -> {"none", "present", "removed", "stuck"}]
        /\ lifecycles' \in [Ids -> {"none", "running", "exiting", "exited"}]
        /\ sessions' \subseteq sessions
    BY <1>0, <2>1, CloseTables
  <2>3. Manager!TypeOK'
    BY <1>0, <2>1, <2>2 DEF Manager!TypeOK, Manager!Call
  <2>4. \A t \in Ids : calls'[t] = calls[t]
    BY <1>0 DEF Manager!TypeOK, Manager!Callers
  <2>5. (OwnCalls /\ ShutdownCovers)'
    BY <2>1, <2>2, <2>4 DEF OwnCalls, ShutdownCovers, Manager!TypeOK
  <2>6. QED BY <2>2, <2>3, <2>5
<1>3. QED BY <1>1, <1>2

LEMMA CallFields ==
  ASSUME NEW s \in Ids, NEW phase \in {"queued", "waiting"}
  PROVE  /\ Manager!Call(s, phase).session = s /\ Manager!Call(s, phase) # Manager!Idle
         /\ Manager!Call(s, phase) \in [phase : {"queued", "waiting"}, session : Ids]
BY DEF Manager!Call, Manager!Idle

\* What the shutdown counts: an end of a call that does not take the session away counts
\* as a timeout, and no count goes down.
LEMMA TallyCounts ==
  ASSUME ManagerInv, NEW s \in Ids,
         NEW phase \in {"waiting", "closed", "pending", "rejected"}
  PROVE  /\ Manager!Tally(s, phase) \in [stage : {"none", "operations", "sessions", "returned"},
                                         terminated : Nat, timedOut : Nat]
         /\ Manager!Tally(s, phase).stage = ending.stage
         /\ Manager!Tally(s, phase).timedOut = 0 =>
              ending.timedOut = 0 /\ phase \in {"waiting", "closed"}
<1>1. ending \in [stage : {"none", "operations", "sessions", "returned"},
                  terminated : Nat, timedOut : Nat]
  BY DEF ManagerInv, Manager!TypeOK
<1>2. CASE phase = "waiting"
  BY <1>1, <1>2 DEF Manager!Tally
<1>3. CASE phase = "closed"
  BY <1>1, <1>3 DEF Manager!Tally
<1>4. CASE phase = "pending"
  BY <1>1, <1>4 DEF Manager!Tally
<1>5. CASE phase = "rejected" /\ lifecycles[s] = "exited"
  BY <1>1, <1>5 DEF Manager!Tally
<1>6. CASE phase = "rejected" /\ lifecycles[s] # "exited"
  BY <1>1, <1>6 DEF Manager!Tally
<1>7. QED BY <1>2, <1>3, <1>4, <1>5, <1>6

LEMMA ShutdownCallStep ==
  ASSUME ManagerInv, NEW s \in Ids, Manager!ShutdownProceeds(s)
  PROVE  ManagerInv'
<1> USE DEF ManagerInv
<1> PICK phase \in {"waiting", "closed", "pending", "rejected"} :
      /\ Manager!CloseStep(s, phase)
      /\ calls' = [calls EXCEPT ![s] = IF phase = "waiting"
                     THEN Manager!Call(s, phase) ELSE Manager!Idle]
      /\ ending' = IF ending.stage = "sessions" THEN Manager!Tally(s, phase) ELSE ending
  BY DEF Manager!ShutdownProceeds
<1>0. s \in Manager!Callers
  BY DEF Manager!Callers
<1>1. UNCHANGED <<creation, kind, process>>
  BY DEF Manager!ShutdownProceeds
<1>2. /\ calls[s] # Manager!Idle
      /\ Tables' /\ sessions' \subseteq Ids
      /\ startupFiles' \in [Ids -> {"none", "present", "removed", "stuck"}]
      /\ lifecycles' \in [Ids -> {"none", "running", "exiting", "exited"}]
      /\ sessions' = IF phase = "closed" THEN sessions \ {calls[s].session} ELSE sessions
  BY <1>0, <1>1, CloseTables
<1>3. calls[s].session = s
  BY <1>2 DEF OwnCalls
<1>4. /\ ending' \in [stage : {"none", "operations", "sessions", "returned"},
                      terminated : Nat, timedOut : Nat]
      /\ ending'.stage = ending.stage
      /\ ending'.timedOut = 0 => ending.timedOut = 0
      /\ ending.stage = "sessions" /\ ending'.timedOut = 0 => phase \in {"waiting", "closed"}
  BY TallyCounts DEF Manager!TypeOK
<1>5. Manager!TypeOK'
  BY <1>0, <1>1, <1>2, <1>4 DEF Manager!TypeOK, Manager!Call
<1>6. /\ calls' \in [Manager!Callers -> {Manager!Idle} \cup [phase : {"queued", "waiting"}, session : Ids]]
      /\ \A t \in Ids : t # s => calls'[t] = calls[t]
      /\ calls'[s] = IF phase = "waiting" THEN Manager!Call(s, phase) ELSE Manager!Idle
  BY <1>0, <1>5 DEF Manager!TypeOK, Manager!Callers
<1>7. OwnCalls'
  BY <1>6 DEF OwnCalls, Manager!Call
<1>8. Manager!Call(s, "waiting") # Manager!Idle
  BY DEF Manager!Call, Manager!Idle
<1>9. ShutdownCovers'
  <2>1. CASE ending.stage = "sessions" /\ ending'.timedOut = 0
    <3>1. phase \in {"waiting", "closed"} /\ \A t \in sessions : calls[t] # Manager!Idle
      BY <1>4, <2>1 DEF ShutdownCovers
    <3>2. sessions' \subseteq sessions /\ (phase = "closed" => s \notin sessions')
      BY <1>2, <1>3
    <3>3. \A t \in sessions' : calls'[t] # Manager!Idle
      BY <1>2, <1>6, <1>8, <3>1, <3>2
    <3>4. QED BY <1>4, <2>1, <3>3 DEF ShutdownCovers
  <2>2. CASE ending.stage # "sessions" \/ ending'.timedOut # 0
    BY <1>2, <1>4, <2>2 DEF ShutdownCovers
  <2>3. QED BY <2>1, <2>2
<1>10. QED BY <1>2, <1>5, <1>7, <1>9

\* The stages of the shutdown.
LEMMA BeginCalls ==
  ASSUME ManagerInv, NEW name \in {"operations", "sessions"}, NEW ids, ids \subseteq sessions,
         Manager!Begin(name, ids)
  PROVE  /\ Manager!TypeOK' /\ Tables' /\ OwnCalls'
         /\ ending' = [ending EXCEPT !.stage = name] /\ sessions' = sessions
         /\ \A s \in ids : calls'[s] # Manager!Idle
<1> USE DEF ManagerInv
<1>1. /\ ending' = [ending EXCEPT !.stage = name]
      /\ calls' = [c \in Manager!Callers |->
                     IF c \in ids THEN Manager!Call(c, "queued") ELSE calls[c]]
      /\ UNCHANGED <<creation, kind, startupFiles, process, lifecycles, sessions>>
  BY DEF Manager!Begin
<1>2. ids \subseteq Ids /\ Ids \subseteq Manager!Callers
  BY DEF Manager!TypeOK, Manager!Callers
<1>3. /\ \A c \in ids : calls'[c] = Manager!Call(c, "queued")
      /\ \A c \in Manager!Callers : c \notin ids => calls'[c] = calls[c]
  BY <1>1, <1>2
<1>4. Manager!TypeOK'
  BY <1>1, <1>2 DEF Manager!TypeOK, Manager!Call
<1>5. Tables'
  BY <1>1
     DEF Tables, Origin, NothingForgotten, FilesAreReclaimed,
         Manager!NothingForgotten, Manager!FilesAreReclaimed
<1>6. OwnCalls'
  <2> SUFFICES ASSUME NEW s \in Ids
               PROVE  calls'[s] = Manager!Idle \/ calls'[s].session = s
    BY DEF OwnCalls
  <2>1. CASE s \in ids
    BY <1>3, <2>1, CallFields
  <2>2. CASE s \notin ids
    BY <1>2, <1>3, <2>2 DEF OwnCalls
  <2>3. QED BY <2>1, <2>2
<1>8. \A s \in ids : calls'[s] # Manager!Idle
  BY <1>2, <1>3, CallFields
<1>7. QED BY <1>1, <1>4, <1>5, <1>6, <1>8

LEMMA EndingStep ==
  ASSUME ManagerInv, Manager!EndingNext
  PROVE  ManagerInv'
<1> USE DEF ManagerInv
<1>1. CASE Manager!OperationsShutdown
  <2> DEFINE ids == {s \in sessions : kind[s] = "command" /\ creation[s] = "created"}
  <2>1. Manager!Begin("operations", ids) /\ ids \subseteq sessions
    BY <1>1 DEF Manager!OperationsShutdown
  <2> HIDE DEF ids
  <2>2. Manager!TypeOK' /\ Tables' /\ OwnCalls' /\ ending' = [ending EXCEPT !.stage = "operations"]
    BY <2>1, BeginCalls
  <2>3. QED BY <2>2 DEF ShutdownCovers, Manager!TypeOK
<1>2. CASE Manager!SessionsShutdown
  <2>1. Manager!TypeOK' /\ Tables' /\ OwnCalls' /\ ending' = [ending EXCEPT !.stage = "sessions"]
        /\ sessions' = sessions /\ \A s \in sessions : calls'[s] # Manager!Idle
    BY <1>2, BeginCalls DEF Manager!SessionsShutdown
  <2>2. QED BY <2>1 DEF ShutdownCovers, Manager!TypeOK
<1>3. CASE Manager!ShutdownReturned
  <2>1. /\ ending.stage = "sessions" /\ \A s \in Ids : calls[s] = Manager!Idle
        /\ ending' = [ending EXCEPT !.stage = "returned"]
        /\ UNCHANGED <<creation, kind, startupFiles, process, lifecycles, sessions, calls>>
    BY <1>3 DEF Manager!ShutdownReturned
  <2>2. ending'.timedOut = 0 => sessions = {}
    BY <2>1 DEF ShutdownCovers, Manager!TypeOK
  <2>3. (Manager!TypeOK /\ OwnCalls)'
    BY <2>1 DEF Manager!TypeOK, OwnCalls
  <2>4. Tables'
    BY <2>1
       DEF Tables, Origin, NothingForgotten, FilesAreReclaimed,
           Manager!NothingForgotten, Manager!FilesAreReclaimed
  <2>5. QED BY <2>1, <2>2, <2>3, <2>4 DEF ShutdownCovers, Manager!TypeOK
<1>4. QED BY <1>1, <1>2, <1>3 DEF Manager!EndingNext

LEMMA ManagerStep ==
  ASSUME ManagerInv, [Manager!Next]_(Manager!vars)
  PROVE  ManagerInv'
<1>1. ASSUME NEW s \in Ids, Manager!SessionNext(s) PROVE ManagerInv'
  BY <1>1, CreateStep, ExitStep, ShutdownCallStep DEF Manager!SessionNext
<1>2. ASSUME NEW c \in Closers, Manager!CloserNext(c) PROVE ManagerInv'
  BY <1>2, CloseByClient DEF Manager!CloserNext
<1>3. CASE Manager!EndingNext
  BY <1>3, EndingStep
<1>4. CASE UNCHANGED Manager!vars
  BY <1>4
     DEF Manager!vars, ManagerInv, Manager!TypeOK, Tables, Origin, OwnCalls, ShutdownCovers,
         NothingForgotten, FilesAreReclaimed, Manager!NothingForgotten,
         Manager!FilesAreReclaimed
<1>5. QED BY <1>1, <1>2, <1>3, <1>4 DEF Manager!Next

\* What the parts of the invariant say together of a shutdown without timeouts.
LEMMA TruthfulEnd == ManagerInv => ShutdownIsTruthful
BY DEF ManagerInv, ShutdownCovers, Tables, NothingForgotten, Manager!NothingForgotten,
       ShutdownIsTruthful, Manager!ShutdownIsTruthful

\* The tables of the manager stay well-typed (session-manager.ts).
THEOREM ManagerTypeCorrect == Manager!Spec => []Manager!TypeOK
<1>1. ManagerInv => Manager!TypeOK
  BY DEF ManagerInv
<1>2. QED BY <1>1, ManagerInit, ManagerStep, PTL DEF Manager!Spec

\* No process that lives is out of the manager's reach, whatever failed or timed out.
THEOREM ReachSafe == Manager!Spec => []NothingForgotten
<1>1. ManagerInv => NothingForgotten
  BY DEF ManagerInv, Tables
<1>2. QED BY <1>1, ManagerInit, ManagerStep, PTL DEF Manager!Spec

\* The startup files of a shell are there as long as its session is, those apart that are
\* "stuck".
THEOREM FilesSafe == Manager!Spec => []FilesAreReclaimed
<1>1. ManagerInv => FilesAreReclaimed
  BY DEF ManagerInv, Tables
<1>2. QED BY <1>1, ManagerInit, ManagerStep, PTL DEF Manager!Spec

\* A shutdown that reports no timeout has left no process and no session behind.
THEOREM ShutdownSafe == Manager!Spec => []ShutdownIsTruthful
<1>1. QED BY TruthfulEnd, ManagerInit, ManagerStep, PTL DEF Manager!Spec
=============================================================================
