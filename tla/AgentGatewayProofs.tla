------------------------- MODULE AgentGatewayProofs -------------------------
(***************************************************************************)
(* Proofs about AgentGateway, for any number of connections, sessions,     *)
(* commands in flight and access keys: types; the control of sessions, its *)
(* implementation of SessionControl, and the commands it authorizes; and   *)
(* what the gateway relies on and tells others: the access key behind      *)
(* every connection, the operation index, the control announced to the     *)
(* renderer and the control granted to clients.                            *)
(*                                                                         *)
(* Every step has one of a few effects on the control of sessions, so the  *)
(* invariants about it are shown once per effect instead of per action.    *)
(***************************************************************************)
EXTENDS AgentGateway, TLAPS

-----------------------------------------------------------------------------
\* The inductive invariant.

\* A command in flight has a connection and, unless it creates its session,
\* names one.
WellFormed(q) ==
    q.stage # "idle" =>
        /\ q.conn \in Connections
        /\ q.command \notin CreatingCommands => q.session \in Sessions

RequestsWellFormed == \A r \in Requests : WellFormed(request[r])

TypeInv == TypeOK /\ RequestsWellFormed

-----------------------------------------------------------------------------
LEMMA IdleIsRequest == Idle \in Request /\ WellFormed(Idle)
  BY DEF Idle, Request, Commands, SessionCommands, WellFormed

\* Ending and aborting requests leaves well-formed requests.
LEMMA RequestUpdates ==
  ASSUME TypeInv
  PROVE  /\ \A r \in Requests :
              /\ End(r) \in [Requests -> Request]
              /\ \A q \in Requests : WellFormed(End(r)[q])
         /\ \A rs :
              /\ Abort(rs) \in [Requests -> Request]
              /\ \A q \in Requests : WellFormed(Abort(rs)[q])
         /\ \A rs : \A r \in Requests :
              /\ [Abort(rs) EXCEPT ![r] = Idle] \in [Requests -> Request]
              /\ \A q \in Requests : WellFormed([Abort(rs) EXCEPT ![r] = Idle][q])
<1>1. request \in [Requests -> Request] /\ \A q \in Requests : WellFormed(request[q])
  BY DEF TypeInv, TypeOK, RequestsWellFormed
<1>2. ASSUME NEW r \in Requests
      PROVE  End(r) \in [Requests -> Request] /\ \A q \in Requests : WellFormed(End(r)[q])
  BY <1>1, IdleIsRequest DEF End
<1>3. ASSUME NEW rs
      PROVE  Abort(rs) \in [Requests -> Request] /\ \A q \in Requests : WellFormed(Abort(rs)[q])
  BY <1>1 DEF Abort, Request, WellFormed
<1>4. ASSUME NEW rs, NEW r \in Requests
      PROVE  /\ [Abort(rs) EXCEPT ![r] = Idle] \in [Requests -> Request]
             /\ \A q \in Requests : WellFormed([Abort(rs) EXCEPT ![r] = Idle][q])
  BY <1>3, IdleIsRequest
<1>5. QED BY <1>2, <1>3, <1>4

\* The part of the type invariant that the control of sessions makes up.
ControlTypeOK ==
    /\ attachments \in [Sessions -> Connections \cup {NoConnection}]
    /\ attachedSessionIds \in [Connections -> SUBSET Sessions]
    /\ announced \in [Sessions -> {"detached", "attached", "revoked"}]

RequestTypeOK == request \in [Requests -> Request] /\ RequestsWellFormed

LEMMA DispatchTypeOK ==
  ASSUME TypeInv, NEW r \in Requests, NEW rq \in Request, Dispatch(r, rq),
         rq.stage = "prompt", WellFormed(rq)
  PROVE  RequestTypeOK' /\ ControlTypeOK'
<1> DEFINE served == [rq EXCEPT !.stage = "service"]
<1>1. served \in Request /\ WellFormed(served)
  BY DEF Request, WellFormed
<1>2. ASSUME request' = [request EXCEPT ![r] = served]
      PROVE  RequestTypeOK'
  BY <1>1, <1>2 DEF TypeInv, TypeOK, RequestTypeOK, RequestsWellFormed
<1>3. CASE rq.command = "attach" /\ CanAttach(rq.session, rq.conn)
  <2>1. rq.conn \in Connections /\ rq.session \in Sessions
    BY <1>3 DEF WellFormed, CreatingCommands
  <2>2. Attach(rq.session, rq.conn) /\ request' = [request EXCEPT ![r] = served]
    BY <1>3 DEF Dispatch
  <2>3. QED BY <2>1, <2>2, <1>2 DEF Attach, ControlTypeOK, TypeInv, TypeOK
<1>4. CASE rq.command = "attach" /\ ~CanAttach(rq.session, rq.conn)
  BY <1>4, RequestUpdates DEF Dispatch, controlVars, ControlTypeOK, RequestTypeOK, RequestsWellFormed, TypeInv, TypeOK
<1>5. CASE rq.command # "attach"
  BY <1>5, <1>2 DEF Dispatch, controlVars, ControlTypeOK, TypeInv, TypeOK
<1>6. QED BY <1>3, <1>4, <1>5

LEMMA ControlUpdates ==
  ASSUME TypeInv
  PROVE  /\ \A s \in Sessions, c \in Connections :
              Attach(s, c) \/ Detach(s, c) => ControlTypeOK'
         /\ \A s \in Sessions, state \in {"detached", "attached", "revoked"} :
              Release(s, state) => ControlTypeOK'
         /\ \A cs \in SUBSET Connections :
              RemoveConnections(cs) => ControlTypeOK' /\ RequestTypeOK'
         /\ UNCHANGED controlVars => ControlTypeOK'
         /\ \A s \in Sessions : ReleasedState(s) \in {"detached", "attached", "revoked"}
<1> USE DEF TypeInv, TypeOK, ControlTypeOK
<1>1. ASSUME NEW s \in Sessions, NEW c \in Connections, Attach(s, c) \/ Detach(s, c)
      PROVE  ControlTypeOK'
  BY <1>1 DEF Attach, Detach
<1>2. ASSUME NEW s \in Sessions, NEW state \in {"detached", "attached", "revoked"},
             Release(s, state)
      PROVE  ControlTypeOK'
  BY <1>2 DEF Release
<1>3. ASSUME NEW cs \in SUBSET Connections, RemoveConnections(cs)
      PROVE  ControlTypeOK' /\ RequestTypeOK'
  BY <1>3, RequestUpdates DEF RemoveConnections, RequestTypeOK, RequestsWellFormed
<1>4. UNCHANGED controlVars => ControlTypeOK'
  BY DEF controlVars
<1>5. \A s \in Sessions : ReleasedState(s) \in {"detached", "attached", "revoked"}
  BY DEF ReleasedState
<1>6. QED BY <1>1, <1>2, <1>3, <1>4, <1>5

LEMMA EndedTypeOK ==
  ASSUME TypeInv, NEW r \in Requests, request' = End(r)
  PROVE  RequestTypeOK'
  BY RequestUpdates DEF RequestTypeOK, RequestsWellFormed

\* TypeInv is RequestTypeOK, ControlTypeOK and the rest of the state.
RestTypeOK ==
    /\ socket \in [Connections -> {"open", "removed", "closed"}]
    /\ authenticated \in [Connections -> BOOLEAN]
    /\ revokedSessionIds \subseteq Sessions
    /\ operationSessions \subseteq Sessions
    /\ accessKey \in 1..MaxKey /\ stopped \in BOOLEAN
    /\ lifecycle \in [Sessions -> {"unborn", "live", "removed"}]
    /\ operations \subseteq Sessions
    /\ granted \subseteq Connections \X Sessions
    /\ presented \in [Connections -> 0..MaxKey]

LEMMA TypeInvParts ==
  /\ TypeInv <=> RequestTypeOK /\ ControlTypeOK /\ RestTypeOK
  /\ TypeInv' <=> RequestTypeOK' /\ ControlTypeOK' /\ RestTypeOK'
  BY DEF TypeInv, TypeOK, RequestTypeOK, ControlTypeOK, RestTypeOK

LEMMA TypeInvInit == Init => TypeInv
<1> SUFFICES ASSUME Init PROVE TypeInv
  OBVIOUS
<1>1. \A r \in Requests : request[r] \in Request /\ WellFormed(request[r])
  BY IdleIsRequest DEF Init
<1>2. request \in [Requests -> Request]
  BY IdleIsRequest DEF Init
<1>3. accessKey \in 1..MaxKey /\ 0 \in 0..MaxKey
  BY MaxKeyAssumption DEF Init
<1>4. ControlTypeOK /\ RestTypeOK
  BY <1>3 DEF Init, ControlTypeOK, RestTypeOK
<1>5. QED BY <1>1, <1>2, <1>4, TypeInvParts DEF RequestTypeOK, RequestsWellFormed

LEMMA ConnectionTypeInv ==
  ASSUME TypeInv, NEW c \in Connections, ConnectionNext(c)
  PROVE  TypeInv'
<1> USE DEF RestTypeOK
<1>1. RequestTypeOK /\ ControlTypeOK /\ RestTypeOK
  BY TypeInvParts
<1>2. CASE Connect(c)
  BY <1>1, <1>2, TypeInvParts
     DEF Connect, externalVars, RequestTypeOK, RequestsWellFormed, ControlTypeOK
<1>3. ASSUME NEW key \in 1..MaxKey, Authenticate(c, key)
      PROVE  TypeInv'
  <2>1. RequestTypeOK' /\ ControlTypeOK'
    BY <1>1, <1>3 DEF Authenticate, RequestTypeOK, RequestsWellFormed, ControlTypeOK
  <2>2. RestTypeOK'
    BY <1>1, <1>3 DEF Authenticate, externalVars
  <2>3. QED BY <2>1, <2>2, TypeInvParts
<1>4. CASE SocketClosed(c)
  <2>1. RequestTypeOK' /\ ControlTypeOK'
    BY <1>4, ControlUpdates DEF SocketClosed, OpenConnections
  <2>2. RestTypeOK'
    BY <1>1, <1>4, MaxKeyAssumption DEF SocketClosed, externalVars
  <2>3. QED BY <2>1, <2>2, TypeInvParts
<1>5. QED BY <1>2, <1>3, <1>4 DEF ConnectionNext

LEMMA DropTypeInv ==
  ASSUME TypeInv, RotateAccessKey \/ Stop
  PROVE  TypeInv'
<1>1. RequestTypeOK' /\ ControlTypeOK'
  BY ControlUpdates DEF RotateAccessKey, Stop, DropOpenConnections, OpenConnections
<1>2. authenticated' \in [Connections -> BOOLEAN]
  BY TypeInvParts DEF RestTypeOK, RotateAccessKey, Stop
<1>3. accessKey' \in 1..MaxKey
  BY TypeInvParts, MaxKeyAssumption DEF RestTypeOK, RotateAccessKey, Stop
<1>4. socket' \in [Connections -> {"open", "removed", "closed"}]
  BY TypeInvParts DEF RestTypeOK, RotateAccessKey, Stop, DropOpenConnections
<1>5. stopped' \in BOOLEAN /\ granted' = {} /\ UNCHANGED <<revokedSessionIds, operationSessions, lifecycle, operations, presented>>
  BY TypeInvParts DEF RestTypeOK, RotateAccessKey, Stop, externalVars
<1>6. RestTypeOK'
  BY <1>2, <1>3, <1>4, <1>5, TypeInvParts DEF RestTypeOK
<1>7. QED BY <1>1, <1>6, TypeInvParts

LEMMA SessionTypeInv ==
  ASSUME TypeInv, NEW s \in Sessions, SessionNext(s)
  PROVE  TypeInv'
<1>1. RequestTypeOK /\ ControlTypeOK /\ RestTypeOK
  BY TypeInvParts
<1> USE <1>1 DEF RestTypeOK
<1>2. CASE Revoke(s)
  <2>1. ControlTypeOK'
    BY <1>2, ControlUpdates DEF Revoke, ControlTypeOK
  <2>2. RequestTypeOK'
    <3> DEFINE marked(q) == [request[q] EXCEPT !.aborted = TRUE, !.controlRevoked = TRUE]
    <3>1. \A q \in Requests : request[q] \in Request /\ WellFormed(request[q])
      BY <1>1 DEF RequestTypeOK, RequestsWellFormed
    <3>2. ASSUME NEW q \in Requests PROVE marked(q) \in Request /\ WellFormed(marked(q))
      <4> HIDE <1>1 DEF RestTypeOK
      <4>1. request[q] \in Request /\ WellFormed(request[q])
        BY <3>1
      <4>2. QED BY <4>1 DEF Request, WellFormed
    <3>3. request' = [q \in Requests |-> IF q \in RequestsOn(s) THEN marked(q) ELSE request[q]]
      BY <1>2 DEF Revoke
    <3> HIDE <1>1 DEF marked, RestTypeOK
    <3>4. QED BY <3>1, <3>2, <3>3 DEF RequestTypeOK, RequestsWellFormed
  <2>3. RestTypeOK'
    BY <1>2 DEF Revoke, Elsewhere, externalVars
  <2>4. QED BY <2>1, <2>2, <2>3, TypeInvParts
<1>3. CASE Allow(s)
  <2>1. ControlTypeOK' /\ RequestTypeOK'
    BY <1>3 DEF Allow, ControlTypeOK, RequestTypeOK, RequestsWellFormed
  <2>2. RestTypeOK'
    BY <1>3 DEF Allow, Elsewhere, externalVars
  <2>3. QED BY <2>1, <2>2, TypeInvParts
<1>4. CASE HumanCreate(s)
  <2>1. ControlTypeOK' /\ RequestTypeOK'
    BY <1>4 DEF HumanCreate, gatewayVars, ControlTypeOK, RequestTypeOK, RequestsWellFormed
  <2>2. RestTypeOK'
    BY <1>4 DEF HumanCreate, gatewayVars
  <2>3. QED BY <2>1, <2>2, TypeInvParts
<1>5. CASE RemoveSession(s)
  <2>1. ControlTypeOK' /\ RequestTypeOK'
    BY <1>5, ControlUpdates, RequestUpdates DEF RemoveSession, RequestTypeOK, RequestsWellFormed
  <2>2. RestTypeOK'
    BY <1>5 DEF RemoveSession
  <2>3. QED BY <2>1, <2>2, TypeInvParts
<1>6. CASE RemoveOperation(s)
  <2>1. ControlTypeOK'
    BY <1>6, ControlUpdates DEF RemoveOperation, ReleaseOperation
  <2>2. RequestTypeOK'
    BY <1>6, RequestUpdates DEF RemoveOperation, AbortedByRelease, RequestTypeOK, RequestsWellFormed
  <2>3. RestTypeOK'
    BY <1>6 DEF RemoveOperation, ReleaseOperation
  <2>4. QED BY <2>1, <2>2, <2>3, TypeInvParts
<1>7. QED BY <1>2, <1>3, <1>4, <1>5, <1>6 DEF SessionNext

LEMMA ReceiveTypeInv ==
  ASSUME TypeInv, NEW r \in Requests, ReceiveCommand(r)
  PROVE  TypeInv'
<1>1. RequestTypeOK /\ ControlTypeOK /\ RestTypeOK
  BY TypeInvParts
<1>2. PICK c \in Connections, command \in Commands, s \in Sessions \cup {NoSession} :
        ReceiveAllowed(r, c, command, s) \/ ReceiveAsk(r, c, command, s)
  BY DEF ReceiveCommand
<1> DEFINE rq == Received(c, command, s)
<1>3. rq \in Request /\ rq.stage = "prompt" /\ WellFormed(rq)
  <2>1. command \notin CreatingCommands => s \in Sessions
    BY <1>2, <1>1 DEF ReceiveAllowed, ReceiveAsk, Acceptable, Addressed, RestTypeOK
  <2>2. QED BY <2>1 DEF Received, Request, WellFormed
<1>4. CASE ReceiveAllowed(r, c, command, s)
  <2>1. RequestTypeOK' /\ ControlTypeOK'
    BY <1>3, <1>4, DispatchTypeOK DEF ReceiveAllowed
  <2>2. RestTypeOK'
    BY <1>1, <1>4 DEF ReceiveAllowed, Elsewhere, externalVars, RestTypeOK
  <2>3. QED BY <2>1, <2>2, TypeInvParts
<1>5. CASE ReceiveAsk(r, c, command, s)
  <2>1. RequestTypeOK'
    BY <1>1, <1>3, <1>5 DEF ReceiveAsk, RequestTypeOK, RequestsWellFormed
  <2>2. ControlTypeOK' /\ RestTypeOK'
    BY <1>1, <1>5, ControlUpdates DEF ReceiveAsk, Elsewhere, externalVars, RestTypeOK
  <2>3. QED BY <2>1, <2>2, TypeInvParts
<1>6. QED BY <1>2, <1>4, <1>5

\* The answers to permission prompts and the returns of service calls.
LEMMA PermissionTypeInv ==
  ASSUME TypeInv, NEW r \in Requests, PermissionAllowed(r) \/ PermissionRefused(r)
  PROVE  TypeInv'
<1>1. RequestTypeOK /\ ControlTypeOK /\ RestTypeOK
  BY TypeInvParts
<1>2. request[r] \in Request /\ WellFormed(request[r])
  BY <1>1 DEF RequestTypeOK, RequestsWellFormed
<1>3. RequestTypeOK' /\ ControlTypeOK'
  BY <1>2, DispatchTypeOK, EndedTypeOK, ControlUpdates DEF PermissionAllowed, PermissionRefused
<1>4. RestTypeOK'
  BY <1>1 DEF PermissionAllowed, PermissionRefused, Elsewhere, externalVars, RestTypeOK
<1>5. QED BY <1>3, <1>4, TypeInvParts

LEMMA InServiceFacts ==
  ASSUME TypeInv, NEW r \in Requests, request[r].stage = "service"
  PROVE  /\ request[r].conn \in Connections
         /\ request[r].session \in Sessions \cup {NoSession}
         /\ request[r].command \notin CreatingCommands => request[r].session \in Sessions
<1>1. request[r] \in Request /\ WellFormed(request[r])
  BY DEF TypeInv, TypeOK, RequestsWellFormed
<1>2. QED BY <1>1 DEF Request, WellFormed

\* Returns that give control back or leave it alone.
LEMMA EndingTypeInv ==
  ASSUME TypeInv, NEW r \in Requests,
         \/ AttachServed(r) \/ AttachFailed(r) \/ CreatingEnded(r) \/ Served(r)
         \/ CloseServed(r) \/ CloseOperationServed(r)
  PROVE  TypeInv'
<1>1. RequestTypeOK /\ ControlTypeOK /\ RestTypeOK
  BY TypeInvParts
<1> DEFINE c == request[r].conn  s == request[r].session
<1>2. /\ c \in Connections
      /\ request[r].command \notin CreatingCommands => s \in Sessions
  BY InServiceFacts DEF AttachServed, AttachFailed, CreatingEnded, Served, CloseServed,
     CloseOperationServed, InService
<1>3. CASE AttachServed(r)
  <2>1. s \in Sessions
    BY <1>2, <1>3 DEF AttachServed, InService, CreatingCommands
  <2>2. RequestTypeOK' /\ ControlTypeOK'
    BY <1>3, EndedTypeOK, ControlUpdates DEF AttachServed
  <2>3. RestTypeOK'
    BY <1>1, <1>2, <1>3, <2>1 DEF AttachServed, Reply, Elsewhere, externalVars, RestTypeOK
  <2>4. QED BY <2>2, <2>3, TypeInvParts
<1>4. CASE AttachFailed(r) \/ CloseServed(r)
  <2>1. s \in Sessions
    BY <1>2, <1>4 DEF AttachFailed, CloseServed, InService, CreatingCommands
  <2>2. RequestTypeOK'
    BY <1>4, RequestUpdates DEF AttachFailed, CloseServed, RequestTypeOK, RequestsWellFormed
  <2>3. ControlTypeOK'
    BY <1>2, <1>4, <2>1, ControlUpdates DEF AttachFailed, CloseServed
  <2>4. RestTypeOK'
    BY <1>1, <1>4 DEF AttachFailed, CloseServed, Elsewhere, externalVars, RestTypeOK
  <2>5. QED BY <2>2, <2>3, <2>4, TypeInvParts
<1>5. CASE CloseOperationServed(r)
  <2>1. s \in Sessions
    BY <1>2, <1>5 DEF CloseOperationServed, InService, CreatingCommands
  <2>2. RequestTypeOK'
    BY <1>5, RequestUpdates
       DEF CloseOperationServed, AbortedByRelease, End, RequestTypeOK, RequestsWellFormed
  <2>3. ControlTypeOK'
    BY <1>5, <2>1, ControlUpdates DEF CloseOperationServed, ReleaseOperation
  <2>4. RestTypeOK'
    BY <1>1, <1>5 DEF CloseOperationServed, ReleaseOperation, Elsewhere, externalVars, RestTypeOK
  <2>5. QED BY <2>2, <2>3, <2>4, TypeInvParts
<1>6. CASE CreatingEnded(r) \/ Served(r)
  <2>1. RequestTypeOK' /\ ControlTypeOK'
    BY <1>6, EndedTypeOK, ControlUpdates DEF CreatingEnded, Served
  <2>2. RestTypeOK'
    BY <1>1, <1>6 DEF CreatingEnded, Served, Elsewhere, externalVars, RestTypeOK
  <2>3. QED BY <2>1, <2>2, TypeInvParts
<1>7. QED BY <1>3, <1>4, <1>5, <1>6

\* The steps of create and run.
LEMMA CreatingTypeInv ==
  ASSUME TypeInv, NEW r \in Requests,
         \/ \E s \in Sessions : SessionSpawned(r, s)
         \/ CreateServed(r)
         \/ \E status \in {"running", "completed"} : RunServed(r, status)
  PROVE  TypeInv'
<1>1. RequestTypeOK /\ ControlTypeOK /\ RestTypeOK
  BY TypeInvParts
<1>2. request[r] \in Request /\ WellFormed(request[r])
  BY <1>1 DEF RequestTypeOK, RequestsWellFormed
<1>3. ASSUME NEW s \in Sessions, SessionSpawned(r, s)
      PROVE  TypeInv'
  <2>1. /\ [request[r] EXCEPT !.session = s] \in Request
        /\ WellFormed([request[r] EXCEPT !.session = s])
    BY <1>2 DEF Request, WellFormed
  <2>2. request' = [request EXCEPT ![r] = [request[r] EXCEPT !.session = s]]
    BY <1>3 DEF SessionSpawned
  <2>3. RequestTypeOK'
    BY <1>1, <2>1, <2>2 DEF RequestTypeOK, RequestsWellFormed
  <2>4. ControlTypeOK'
    BY <1>3, ControlUpdates DEF SessionSpawned
  <2>5. RestTypeOK'
    BY <1>1, <1>3 DEF SessionSpawned, RestTypeOK
  <2>6. QED BY <2>3, <2>4, <2>5, TypeInvParts
<1>4. ASSUME CreateServed(r) \/ \E status \in {"running", "completed"} : RunServed(r, status)
      PROVE  TypeInv'
  <2> DEFINE c == request[r].conn  s == request[r].session
  <2>1. c \in Connections /\ s \in Sessions
    BY <1>4, InServiceFacts DEF CreateServed, RunServed, InService
  <2>2. request' = End(r)
    BY <1>4 DEF CreateServed, RunServed
  <2>3. Attach(s, c) \/ UNCHANGED controlVars
    BY <1>4 DEF CreateServed, RunServed, AttachMade
  <2>4. RequestTypeOK' /\ ControlTypeOK'
    BY <2>1, <2>2, <2>3, EndedTypeOK, ControlUpdates
  <2>5. granted' \subseteq Connections \X Sessions
    BY <1>4, <2>1 DEF CreateServed, RunServed, AttachMade, Reply
  <2>6. operationSessions' \subseteq Sessions
    BY <1>1, <1>4, <2>1 DEF CreateServed, RunServed, RestTypeOK
  <2>7. RestTypeOK'
    BY <1>1, <1>4, <2>5, <2>6 DEF CreateServed, RunServed, Elsewhere, externalVars, RestTypeOK
  <2>8. QED BY <2>4, <2>7, TypeInvParts
<1>5. QED BY <1>3, <1>4

LEMMA TypeInvStep == TypeInv /\ [Next]_vars => TypeInv'
<1> SUFFICES ASSUME TypeInv, [Next]_vars PROVE TypeInv'
  OBVIOUS
<1>1. ASSUME NEW r \in Requests, RequestNext(r) PROVE TypeInv'
  BY <1>1, ReceiveTypeInv, PermissionTypeInv, EndingTypeInv, CreatingTypeInv DEF RequestNext
<1>2. CASE UNCHANGED vars
  BY <1>2 DEF vars, gatewayVars, externalVars, observerVars, TypeInv, TypeOK, RequestsWellFormed
<1>3. QED BY <1>1, <1>2, ConnectionTypeInv, DropTypeInv, SessionTypeInv DEF Next

\* The state always has its type, and every command in flight has a connection
\* and, unless it creates its session, a session.
THEOREM TypeCorrect == Spec => []TypeOK
<1>1. TypeInv => TypeOK
  BY DEF TypeInv
<1>2. QED BY TypeInvInit, TypeInvStep, <1>1, PTL DEF Spec

-----------------------------------------------------------------------------
\* The effects of a step on the control of sessions.

SameConnections == UNCHANGED <<socket, authenticated>>

AttachEffect(s, c) ==
    /\ CanAttach(s, c) /\ Attach(s, c)
    /\ SameConnections /\ revokedSessionIds' = revokedSessionIds

DetachEffect(s, c) ==
    /\ Detach(s, c)
    /\ SameConnections /\ revokedSessionIds' = revokedSessionIds

\* The attachments and sets part of Release.
ReleaseEffect(s) ==
    /\ attachments' = [attachments EXCEPT ![s] = NoConnection]
    /\ attachedSessionIds' =
           [c \in Connections |-> IF socket[c] = "open" THEN attachedSessionIds[c] \ {s}
                                                       ELSE attachedSessionIds[c]]
    /\ SameConnections
    /\ \/ revokedSessionIds' = revokedSessionIds
       \/ revokedSessionIds' = revokedSessionIds \cup {s}
       \/ revokedSessionIds' = revokedSessionIds \ {s}

RemoveEffect(cs) ==
    /\ RemoveConnections(cs)
    /\ \A c \in Connections \ cs : ConnectionActive(c) => ConnectionActive(c)'
    /\ revokedSessionIds' = revokedSessionIds

NoEffect ==
    /\ UNCHANGED <<attachments, attachedSessionIds>>
    /\ \A c \in Connections : ConnectionActive(c) => ConnectionActive(c)'
    /\ \/ revokedSessionIds' = revokedSessionIds
       \/ \E s \in revokedSessionIds : revokedSessionIds' = revokedSessionIds \ {s}

Effect ==
    \/ \E s \in Sessions, c \in Connections : AttachEffect(s, c) \/ DetachEffect(s, c)
    \/ \E s \in Sessions : ReleaseEffect(s)
    \/ \E cs \in SUBSET Connections : RemoveEffect(cs)
    \/ NoEffect

LEMMA QuietEffect ==
  UNCHANGED controlVars /\ SameConnections /\ revokedSessionIds' = revokedSessionIds => Effect
  BY DEF controlVars, SameConnections, Effect, NoEffect, ConnectionActive

LEMMA DispatchEffect ==
  ASSUME NEW r, NEW rq \in Request, WellFormed(rq), rq.stage = "prompt",
         Dispatch(r, rq), SameConnections, revokedSessionIds' = revokedSessionIds
  PROVE  Effect
<1>1. CASE rq.command = "attach" /\ CanAttach(rq.session, rq.conn)
  <2>1. rq.conn \in Connections /\ rq.session \in Sessions
    BY <1>1 DEF WellFormed, CreatingCommands
  <2>2. AttachEffect(rq.session, rq.conn)
    BY <1>1 DEF Dispatch, AttachEffect
  <2>3. QED BY <2>1, <2>2 DEF Effect
<1>2. CASE ~(rq.command = "attach" /\ CanAttach(rq.session, rq.conn))
  <2>1. UNCHANGED controlVars
    BY <1>2 DEF Dispatch
  <2>2. QED BY <2>1, QuietEffect
<1>3. QED BY <1>1, <1>2

LEMMA ReceivedIsRequest ==
  ASSUME TypeInv, NEW r, NEW c \in Connections, NEW command \in Commands,
         NEW s \in Sessions \cup {NoSession}, Acceptable(r, c, command, s)
  PROVE  /\ Received(c, command, s) \in Request
         /\ Received(c, command, s).stage = "prompt"
         /\ WellFormed(Received(c, command, s))
<1>1. command \notin CreatingCommands => s \in Sessions
  BY DEF Acceptable, Addressed, TypeInv, TypeOK
<1>2. QED BY <1>1 DEF Received, Request, WellFormed

LEMMA RequestEffect ==
  ASSUME TypeInv, NEW r \in Requests, RequestNext(r)
  PROVE  Effect
<1>1. request[r] \in Request /\ WellFormed(request[r])
  BY DEF TypeInv, TypeOK, RequestsWellFormed
<1>2. ASSUME NEW c \in Connections, NEW command \in Commands,
             NEW s \in Sessions \cup {NoSession},
             ReceiveAllowed(r, c, command, s) \/ ReceiveAsk(r, c, command, s)
      PROVE  Effect
  <2>1. SameConnections /\ revokedSessionIds' = revokedSessionIds
    BY <1>2 DEF ReceiveAllowed, ReceiveAsk, Elsewhere, SameConnections
  <2>2. CASE ReceiveAllowed(r, c, command, s)
    BY <2>1, <2>2, ReceivedIsRequest, DispatchEffect DEF ReceiveAllowed
  <2>3. CASE ReceiveAsk(r, c, command, s)
    BY <2>1, <2>3, QuietEffect DEF ReceiveAsk
  <2>4. QED BY <1>2, <2>2, <2>3
<1>3. CASE PermissionAllowed(r)
  BY <1>1, <1>3, DispatchEffect DEF PermissionAllowed, Elsewhere, SameConnections
<1>4. CASE PermissionRefused(r) \/ AttachServed(r) \/ CreatingEnded(r) \/ Served(r)
  BY <1>4, QuietEffect
     DEF PermissionRefused, AttachServed, CreatingEnded, Served, Elsewhere, SameConnections
<1>5. ASSUME NEW s \in Sessions, SessionSpawned(r, s)
      PROVE  Effect
  BY <1>5, QuietEffect DEF SessionSpawned, SameConnections
<1> DEFINE c == request[r].conn  s == request[r].session
<1>6. CASE AttachFailed(r) \/ CloseServed(r)
  <2>1. c \in Connections /\ s \in Sessions
    BY <1>6, InServiceFacts DEF AttachFailed, CloseServed, InService, CreatingCommands
  <2>2. DetachEffect(s, c)
    BY <1>6 DEF AttachFailed, CloseServed, Elsewhere, SameConnections, DetachEffect
  <2>3. QED BY <2>1, <2>2 DEF Effect
<1>7. CASE CreateServed(r) \/ \E status \in {"running", "completed"} : RunServed(r, status)
  <2>1. c \in Connections /\ s \in Sessions
    BY <1>7, InServiceFacts DEF CreateServed, RunServed, InService
  <2>2. SameConnections /\ revokedSessionIds' = revokedSessionIds
    BY <1>7 DEF CreateServed, RunServed, Elsewhere, SameConnections
  <2>3. (CanAttach(s, c) /\ Attach(s, c)) \/ UNCHANGED controlVars
    BY <1>7 DEF CreateServed, RunServed, AttachMade
  <2>4. QED BY <2>1, <2>2, <2>3, QuietEffect DEF Effect, AttachEffect
<1>8. CASE CloseOperationServed(r)
  <2>1. s \in Sessions
    BY <1>8, InServiceFacts DEF CloseOperationServed, InService, CreatingCommands
  <2>2. SameConnections /\ revokedSessionIds' = revokedSessionIds
    BY <1>8 DEF CloseOperationServed, Elsewhere, SameConnections
  <2>3. UNCHANGED controlVars \/ Release(s, ReleasedState(s))
    BY <1>8 DEF CloseOperationServed, ReleaseOperation
  <2>4. QED BY <2>1, <2>2, <2>3, QuietEffect DEF Effect, ReleaseEffect, Release
<1>9. QED BY <1>2, <1>3, <1>4, <1>5, <1>6, <1>7, <1>8 DEF RequestNext, ReceiveCommand

LEMMA ConnectionEffect ==
  ASSUME TypeInv, NEW c \in Connections, ConnectionNext(c)
  PROVE  Effect
<1>1. socket \in [Connections -> {"open", "removed", "closed"}]
      /\ authenticated \in [Connections -> BOOLEAN]
  BY DEF TypeInv, TypeOK
<1>2. CASE Connect(c) \/ \E key \in 1..MaxKey : Authenticate(c, key)
  <2>1. \A d \in Connections : ConnectionActive(d) => ConnectionActive(d)'
    BY <1>1, <1>2 DEF Connect, Authenticate, ConnectionActive
  <2>2. QED BY <1>2, <2>1 DEF Connect, Authenticate, Effect, NoEffect
<1>3. CASE SocketClosed(c)
  <2> DEFINE cs == {c} \cap OpenConnections
  <2>1. \A d \in Connections \ cs : ConnectionActive(d) => ConnectionActive(d)'
    BY <1>1, <1>3 DEF SocketClosed, ConnectionActive, OpenConnections
  <2>2. RemoveEffect(cs)
    BY <1>3, <2>1 DEF SocketClosed, RemoveEffect
  <2>3. QED BY <2>2 DEF Effect
<1>4. QED BY <1>2, <1>3 DEF ConnectionNext

LEMMA StepEffect ==
  ASSUME TypeInv, [Next]_vars
  PROVE  Effect
<1>1. ASSUME NEW r \in Requests, RequestNext(r) PROVE Effect
  BY <1>1, RequestEffect
<1>2. ASSUME NEW c \in Connections, ConnectionNext(c) PROVE Effect
  BY <1>2, ConnectionEffect
<1>3. ASSUME NEW s \in Sessions, SessionNext(s) PROVE Effect
  <2>1. CASE Revoke(s)
    BY <2>1 DEF Revoke, Elsewhere, SameConnections, Release, ReleaseEffect, Effect
  <2>2. CASE Allow(s)
    BY <2>2 DEF Allow, Elsewhere, ConnectionActive, NoEffect, Effect
  <2>3. CASE HumanCreate(s)
    BY <2>3, QuietEffect DEF HumanCreate, gatewayVars, controlVars, SameConnections
  <2>4. CASE RemoveSession(s)
    BY <2>4 DEF RemoveSession, SameConnections, Release, ReleaseEffect, Effect
  <2>5. CASE RemoveOperation(s)
    <3>1. UNCHANGED controlVars \/ Release(s, ReleasedState(s))
      BY <2>5 DEF RemoveOperation, ReleaseOperation
    <3>2. SameConnections /\ revokedSessionIds' = revokedSessionIds
      BY <2>5 DEF RemoveOperation, SameConnections
    <3>3. QED BY <3>1, <3>2, QuietEffect DEF Release, ReleaseEffect, Effect
  <2>6. QED BY <1>3, <2>1, <2>2, <2>3, <2>4, <2>5 DEF SessionNext
<1>4. CASE RotateAccessKey \/ Stop
  <2>1. \A d \in Connections \ OpenConnections : ~ConnectionActive(d)
    BY DEF OpenConnections, ConnectionActive
  <2>2. OpenConnections \in SUBSET Connections /\ RemoveEffect(OpenConnections)
    BY <1>4, <2>1 DEF RotateAccessKey, Stop, DropOpenConnections, RemoveEffect, OpenConnections
  <2>3. QED BY <2>2 DEF Effect
<1>5. CASE UNCHANGED vars
  BY <1>5, QuietEffect DEF vars, gatewayVars, observerVars, controlVars, SameConnections
<1>6. QED BY <1>1, <1>2, <1>3, <1>4, <1>5 DEF Next

-----------------------------------------------------------------------------
\* Who controls what.

ControlInv == ControlAgrees /\ ControllersAreActive

LEMMA ControlInit == Init => ControlInv
  BY NoConnectionAssumption DEF Init, ControlInv, ControlAgrees, ControllersAreActive

LEMMA ControlStep ==
  ASSUME TypeInv, ControlInv, Effect
  PROVE  ControlInv'
<1> USE NoConnectionAssumption DEF TypeInv, TypeOK, ControlInv, ControlAgrees,
        ControllersAreActive, ConnectionActive
<1>1. ASSUME NEW s \in Sessions, NEW c \in Connections, AttachEffect(s, c)
      PROVE  ControlInv'
  BY <1>1 DEF AttachEffect, Attach, CanAttach, SameConnections
<1>2. ASSUME NEW s \in Sessions, NEW c \in Connections, DetachEffect(s, c)
      PROVE  ControlInv'
  BY <1>2 DEF DetachEffect, Detach, SameConnections
<1>3. ASSUME NEW s \in Sessions, ReleaseEffect(s)
      PROVE  ControlInv'
  BY <1>3 DEF ReleaseEffect, SameConnections
<1>4. ASSUME NEW cs \in SUBSET Connections, RemoveEffect(cs)
      PROVE  ControlInv'
  BY <1>4 DEF RemoveEffect, RemoveConnections
<1>5. CASE NoEffect
  BY <1>5 DEF NoEffect
<1>6. QED BY <1>1, <1>2, <1>3, <1>4, <1>5 DEF Effect

\* The registry and the connections' own sets agree, and only an authenticated
\* connection in the map controls a session, never a withheld one.
THEOREM ControlSafe == Spec => [](ControlAgrees /\ ControllersAreActive)
<1>1. TypeInv /\ ControlInv /\ [Next]_vars => ControlInv'
  BY StepEffect, ControlStep
<1>2. ControlInv => ControlAgrees /\ ControllersAreActive
  BY DEF ControlInv
<1>3. QED BY <1>1, <1>2, TypeInvInit, TypeInvStep, ControlInit, PTL DEF Spec

\* Each effect on control is a step of SessionControl, or none.
LEMMA EffectOnControl ==
  ASSUME TypeInv, ControlInv, Effect
  PROVE  [SC!Next]_control
<1>1. /\ attachments \in [Sessions -> Connections \cup {NoConnection}]
      /\ \A s \in Sessions : attachments[s] # NoConnection => s \notin revokedSessionIds
  BY DEF TypeInv, TypeOK, ControlInv, ControllersAreActive
<1>2. ASSUME NEW s \in Sessions, NEW c \in Connections, AttachEffect(s, c)
      PROVE  SC!Grant(s, c) \/ UNCHANGED control
  BY <1>1, <1>2, NoConnectionAssumption DEF AttachEffect, Attach, CanAttach, control, SC!Grant
<1>3. ASSUME NEW s \in Sessions, NEW c \in Connections, DetachEffect(s, c)
      PROVE  SC!Release({s}) \/ UNCHANGED control
  <2>1. CASE attachments[s] = c
    <3>1. control[s] \in Connections
      BY <1>1, <2>1, NoConnectionAssumption DEF control
    <3>2. control' = [t \in Sessions |-> IF t \in {s} THEN "detached" ELSE control[t]]
      BY <1>1, <1>3, <2>1, NoConnectionAssumption DEF DetachEffect, Detach, control
    <3>3. QED BY <3>1, <3>2 DEF SC!Release
  <2>2. CASE attachments[s] # c
    BY <1>1, <1>3, <2>2 DEF DetachEffect, Detach, control
  <2>3. QED BY <2>1, <2>2
<1>4. ASSUME NEW s \in Sessions, ReleaseEffect(s)
      PROVE  SC!Release({s}) \/ SC!Revoke(s) \/ SC!Unblock(s) \/ UNCHANGED control
  <2>1. attachments' = [attachments EXCEPT ![s] = NoConnection]
    BY <1>4 DEF ReleaseEffect
  <2>2. CASE revokedSessionIds' = revokedSessionIds /\ s \in revokedSessionIds
    BY <1>1, <2>1, <2>2 DEF control
  <2>3. CASE revokedSessionIds' = revokedSessionIds /\ s \notin revokedSessionIds
    <3>1. control' = [control EXCEPT ![s] = "detached"]
      BY <1>1, <2>1, <2>3 DEF control
    <3>2. QED BY <3>1 DEF SC!Unblock
  <2>4. CASE revokedSessionIds' = revokedSessionIds \cup {s}
    <3>1. control' = [control EXCEPT ![s] = "revoked"]
      BY <1>1, <2>1, <2>4 DEF control
    <3>2. QED BY <3>1 DEF SC!Revoke
  <2>5. CASE revokedSessionIds' = revokedSessionIds \ {s}
    <3>1. control' = [control EXCEPT ![s] = "detached"]
      BY <1>1, <2>1, <2>5 DEF control
    <3>2. QED BY <3>1 DEF SC!Unblock
  <2>6. QED BY <1>4, <2>2, <2>3, <2>4, <2>5 DEF ReleaseEffect
<1>5. ASSUME NEW cs \in SUBSET Connections, RemoveEffect(cs)
      PROVE  \E lost \in SUBSET Sessions : SC!Release(lost)
  <2> DEFINE lost == {s \in Sessions : attachments[s] \in cs}
  <2>1. \A s \in lost : control[s] \in Connections
    BY <1>1, NoConnectionAssumption DEF control
  <2>2. control' = [s \in Sessions |-> IF s \in lost THEN "detached" ELSE control[s]]
    BY <1>1, <1>5, NoConnectionAssumption DEF RemoveEffect, RemoveConnections, control
  <2>3. QED BY <2>1, <2>2 DEF SC!Release
<1>6. CASE NoEffect
  <2>1. attachments' = attachments
    BY <1>6 DEF NoEffect
  <2>2. CASE revokedSessionIds' = revokedSessionIds
    BY <2>1, <2>2 DEF control
  <2>3. ASSUME NEW s \in revokedSessionIds, revokedSessionIds' = revokedSessionIds \ {s}
        PROVE  SC!Next
    <3>1. s \in Sessions /\ attachments[s] = NoConnection
      BY <1>1 DEF TypeInv, TypeOK
    <3>2. control' = [control EXCEPT ![s] = "detached"]
      BY <1>1, <2>1, <2>3, <3>1 DEF control
    <3>3. QED BY <3>1, <3>2 DEF SC!Unblock, SC!Next
  <2>4. QED BY <1>6, <2>2, <2>3 DEF NoEffect
<1>7. QED BY <1>2, <1>3, <1>4, <1>5, <1>6 DEF Effect, SC!Next

\* Control is exclusive, passes between connections only through "detached", and
\* a revocation holds until the human allows agents or the session is removed.
THEOREM Implementation == Spec => ImplementsSessionControl
<1>1. Init => SC!Init
  BY DEF Init, SC!Init, control
<1>2. TypeInv /\ ControlInv /\ [Next]_vars => ControlInv' /\ [SC!Next]_control
  BY StepEffect, ControlStep, EffectOnControl
<1>3. QED
  BY <1>1, <1>2, TypeInvInit, TypeInvStep, ControlInit, PTL
  DEF Spec, SC!Spec, ImplementsSessionControl

-----------------------------------------------------------------------------
\* Commands authorized by ownership.

\* Command q, while some session's controllers are att, is justified.
Justified(q, att) ==
    q.stage # "idle" /\ q.command \in OwnedCommands => q.aborted \/ att[q.session] = q.conn

OwnershipInv == \A r \in Requests : Justified(request[r], attachments)

LEMMA OwnershipMeaning == UnownedRequestsAborted <=> OwnershipInv
  BY DEF UnownedRequestsAborted, OwnershipInv, Justified, InFlight

\* No session loses its controller, and each command is as before or justified.
Keeps ==
    /\ \A s \in Sessions :
          attachments[s] # NoConnection => attachments'[s] = attachments[s]
    /\ \A r \in Requests :
          request'[r] = request[r] \/ Justified(request'[r], attachments')

LEMMA OwnershipKept ==
  ASSUME TypeInv, OwnershipInv, Keeps
  PROVE  OwnershipInv'
<1>1. ASSUME NEW r \in Requests, request'[r] = request[r], ~Justified(request'[r], attachments')
      PROVE  FALSE
  <2>1. /\ request[r].stage # "idle" /\ request[r].command \in OwnedCommands
        /\ ~request[r].aborted
        /\ attachments'[request[r].session] # request[r].conn
    BY <1>1 DEF Justified
  <2>2. Justified(request[r], attachments) /\ WellFormed(request[r])
    BY DEF OwnershipInv, TypeInv, RequestsWellFormed
  <2>3. request[r].conn \in Connections /\ request[r].session \in Sessions
    BY <2>1, <2>2 DEF WellFormed, OwnedCommands, CreatingCommands
  <2>4. QED BY <2>1, <2>2, <2>3, NoConnectionAssumption DEF Justified, Keeps
<1>2. QED BY <1>1 DEF Keeps, OwnershipInv

LEMMA OwnershipDispatch ==
  ASSUME TypeInv, OwnershipInv, NEW r \in Requests, NEW rq \in Request,
         Dispatch(r, rq), rq.stage = "prompt", Justified(rq, attachments), WellFormed(rq)
  PROVE  OwnershipInv'
<1>1. request \in [Requests -> Request] /\ attachments \in [Sessions -> Connections \cup {NoConnection}]
  BY DEF TypeInv, TypeOK
<1>2. CASE rq.command = "attach" /\ CanAttach(rq.session, rq.conn)
  <2>1. rq.conn \in Connections /\ rq.session \in Sessions
    BY <1>2 DEF WellFormed, CreatingCommands
  <2>2. \A s \in Sessions : attachments[s] # NoConnection => attachments'[s] = attachments[s]
    BY <1>1, <1>2, <2>1 DEF Dispatch, CanAttach, Attach
  <2>3. request' = [request EXCEPT ![r] = [rq EXCEPT !.stage = "service"]]
    BY <1>2 DEF Dispatch
  <2>4. [rq EXCEPT !.stage = "service"].command = "attach"
    BY <1>2 DEF Request
  <2>5. \A q \in Requests : request'[q] = request[q] \/ Justified(request'[q], attachments')
    BY <1>1, <2>3, <2>4 DEF Justified, OwnedCommands
  <2>6. QED BY <2>2, <2>5, OwnershipKept DEF Keeps
<1>3. CASE rq.command # "attach"
  <2> DEFINE served == [rq EXCEPT !.stage = "service"]
  <2>1. request' = [request EXCEPT ![r] = served] /\ attachments' = attachments
    BY <1>3 DEF Dispatch, controlVars
  <2>2. Justified(served, attachments)
    BY DEF Justified, Request
  <2> HIDE DEF served
  <2>3. \A q \in Requests : request'[q] = request[q] \/ Justified(request'[q], attachments')
    BY <1>1, <2>1, <2>2
  <2>4. QED BY <2>1, <2>3, OwnershipKept DEF Keeps
<1>4. CASE rq.command = "attach" /\ ~CanAttach(rq.session, rq.conn)
  <2>1. request' = End(r) /\ attachments' = attachments
    BY <1>4 DEF Dispatch, controlVars
  <2>2. \A q \in Requests : request'[q] = request[q] \/ Justified(request'[q], attachments')
    BY <1>1, <2>1 DEF End, Idle, Justified
  <2>3. QED BY <2>1, <2>2, OwnershipKept DEF Keeps
<1>5. QED BY <1>2, <1>3, <1>4

\* Requests on a session that is released are aborted.
LEMMA OwnershipRelease ==
  ASSUME TypeInv, ControlInv, OwnershipInv, NEW s \in Sessions,
         attachments' = [attachments EXCEPT ![s] = NoConnection],
         \A r \in Requests :
            \/ request'[r].stage = "idle"
            \/ request'[r].aborted
            \/ request'[r] = request[r] /\ r \notin RequestsOn(s)
  PROVE  OwnershipInv'
<1>1. ASSUME NEW r \in Requests, request[r].stage # "idle", request[r].command \in OwnedCommands,
             r \notin RequestsOn(s), request[r].session = s, attachments[s] = request[r].conn
      PROVE  FALSE
  <2>1. request[r].conn \in Connections
    BY <1>1 DEF TypeInv, RequestsWellFormed, WellFormed
  <2>2. socket[request[r].conn] = "open"
    BY <1>1, <2>1, NoConnectionAssumption DEF ControlInv, ControllersAreActive, ConnectionActive
  <2>3. Tracks(r, s)
    BY <1>1 DEF Tracks, InFlight, SessionCommands
  <2>4. QED BY <1>1, <2>2, <2>3 DEF RequestsOn
<1>2. ASSUME NEW r \in Requests, request[r].stage # "idle", request[r].command \in OwnedCommands
      PROVE  request[r].session \in Sessions
  BY <1>2 DEF TypeInv, RequestsWellFormed, WellFormed, OwnedCommands, CreatingCommands
<1>3. attachments \in [Sessions -> Connections \cup {NoConnection}]
  BY DEF TypeInv, TypeOK
<1>4. QED BY <1>1, <1>2, <1>3 DEF OwnershipInv, Justified

\* Connection c gives s up and its requests on s are aborted.
LEMMA OwnershipDetach ==
  ASSUME TypeInv, OwnershipInv, NEW r \in Requests, NEW s \in Sessions, NEW c \in Connections,
         Detach(s, c),
         request' = [Abort({q \in RequestsOf(c) : Tracks(q, s)}) EXCEPT ![r] = Idle]
  PROVE  OwnershipInv'
<1>1. attachments \in [Sessions -> Connections \cup {NoConnection}]
      /\ request \in [Requests -> Request]
  BY DEF TypeInv, TypeOK
<1>2. ASSUME NEW q \in Requests, request[q].stage # "idle", request[q].command \in OwnedCommands
      PROVE  request[q].session \in Sessions /\ request[q].conn \in Connections
  BY <1>2 DEF TypeInv, RequestsWellFormed, WellFormed, OwnedCommands, CreatingCommands
<1>3. ASSUME NEW q \in Requests, q # r
      PROVE  \/ q \in RequestsOf(c) /\ Tracks(q, s) /\ request'[q].aborted
             \/ ~(q \in RequestsOf(c) /\ Tracks(q, s)) /\ request'[q] = request[q]
  <2>1. request[q] \in Request
    BY <1>1
  <2>2. QED BY <1>3, <2>1 DEF Abort, Request
<1>4. request'[r].stage = "idle"
  BY DEF Abort, Idle
<1>5. \A q \in Requests : request[q].stage # "idle" /\ request[q].command \in OwnedCommands
         /\ ~(q \in RequestsOf(c) /\ Tracks(q, s))
         => request[q].session # s \/ request[q].conn # c
  BY DEF RequestsOf, Tracks, InFlight, SessionCommands
<1>6. attachments' = [attachments EXCEPT ![s] = IF @ = c THEN NoConnection ELSE @]
  BY DEF Detach
<1>7. QED BY <1>1, <1>2, <1>3, <1>4, <1>5, <1>6 DEF OwnershipInv, Justified

\* Connections are removed, and their requests aborted.
LEMMA OwnershipRemove ==
  ASSUME TypeInv, OwnershipInv, NEW cs \in SUBSET Connections, RemoveConnections(cs)
  PROVE  OwnershipInv'
<1>1. attachments \in [Sessions -> Connections \cup {NoConnection}]
      /\ request \in [Requests -> Request]
  BY DEF TypeInv, TypeOK
<1>2. ASSUME NEW q \in Requests
      PROVE  \/ request'[q].aborted
             \/ request'[q] = request[q] /\ (InFlight(q) => request[q].conn \notin cs)
  <2>1. request[q] \in Request
    BY <1>1
  <2>2. QED BY <2>1 DEF RemoveConnections, Abort, RequestsOf, Request
<1>3. ASSUME NEW q \in Requests, request[q].stage # "idle", request[q].command \in OwnedCommands
      PROVE  request[q].session \in Sessions
  BY <1>3 DEF TypeInv, RequestsWellFormed, WellFormed, OwnedCommands, CreatingCommands
<1>4. \A s \in Sessions : attachments[s] \notin cs => attachments'[s] = attachments[s]
  BY DEF RemoveConnections
<1>5. QED BY <1>2, <1>3, <1>4 DEF OwnershipInv, Justified, InFlight

LEMMA OwnershipQuiet ==
  ASSUME TypeInv, OwnershipInv, attachments' = attachments,
         \A r \in Requests : request'[r] = request[r] \/ Justified(request'[r], attachments)
  PROVE  OwnershipInv'
  BY OwnershipKept DEF Keeps

LEMMA OwnershipRequest ==
  ASSUME TypeInv, ControlInv, OwnershipInv, NEW r \in Requests, RequestNext(r)
  PROVE  OwnershipInv'
<1>1. /\ request \in [Requests -> Request]
      /\ attachments \in [Sessions -> Connections \cup {NoConnection}]
  BY DEF TypeInv, TypeOK
<1>2. request[r] \in Request /\ WellFormed(request[r]) /\ Justified(request[r], attachments)
  BY <1>1 DEF TypeInv, RequestsWellFormed, OwnershipInv
<1>3. ASSUME NEW c \in Connections, NEW command \in Commands,
             NEW s \in Sessions \cup {NoSession},
             ReceiveAllowed(r, c, command, s) \/ ReceiveAsk(r, c, command, s)
      PROVE  OwnershipInv'
  <2>1. Acceptable(r, c, command, s)
    BY <1>3 DEF ReceiveAllowed, ReceiveAsk
  <2> DEFINE rq == Received(c, command, s)
  <2>2. rq \in Request /\ rq.stage = "prompt" /\ WellFormed(rq)
    BY <2>1, ReceivedIsRequest
  <2>3. Justified(rq, attachments)
    BY <2>1, <2>2 DEF Acceptable, Authorized, Received, Justified, ControlInv, ControlAgrees,
       WellFormed, OwnedCommands, CreatingCommands
  <2>4. CASE ReceiveAllowed(r, c, command, s)
    BY <2>2, <2>3, <2>4, OwnershipDispatch DEF ReceiveAllowed
  <2>5. CASE ReceiveAsk(r, c, command, s)
    <3> HIDE DEF rq
    <3>1. request' = [request EXCEPT ![r] = rq] /\ attachments' = attachments
      BY <2>5 DEF ReceiveAsk, controlVars, rq
    <3>2. QED BY <1>1, <2>3, <3>1, OwnershipQuiet
  <2>6. QED BY <1>3, <2>4, <2>5
<1>4. CASE PermissionAllowed(r)
  BY <1>2, <1>4, OwnershipDispatch DEF PermissionAllowed
<1>5. CASE PermissionRefused(r) \/ AttachServed(r) \/ CreatingEnded(r) \/ Served(r)
  <2>1. request' = End(r) /\ attachments' = attachments
    BY <1>5 DEF PermissionRefused, AttachServed, CreatingEnded, Served, controlVars
  <2>2. QED BY <1>1, <2>1, OwnershipQuiet DEF End, Idle, Justified
<1>6. ASSUME NEW s \in Sessions, SessionSpawned(r, s)
      PROVE  OwnershipInv'
  <2>1. request[r].command \notin OwnedCommands
    BY <1>6 DEF SessionSpawned, InService, OwnedCommands
  <2> DEFINE spawned == [request[r] EXCEPT !.session = s]
  <2>2. spawned.command \notin OwnedCommands
    BY <1>2, <2>1 DEF Request
  <2>3. request' = [request EXCEPT ![r] = spawned] /\ attachments' = attachments
    BY <1>6 DEF SessionSpawned, controlVars
  <2> HIDE DEF spawned
  <2>4. QED BY <1>1, <2>2, <2>3, OwnershipQuiet DEF Justified
<1> DEFINE c == request[r].conn  s == request[r].session
<1>7. CASE AttachFailed(r) \/ CloseServed(r)
  <2>1. c \in Connections /\ s \in Sessions
    BY <1>7, InServiceFacts DEF AttachFailed, CloseServed, InService, CreatingCommands
  <2>2. QED BY <1>7, <2>1, OwnershipDetach DEF AttachFailed, CloseServed
<1>8. CASE CreateServed(r) \/ \E status \in {"running", "completed"} : RunServed(r, status)
  <2>1. c \in Connections /\ s \in Sessions
    BY <1>8, InServiceFacts DEF CreateServed, RunServed, InService
  <2>2. request' = End(r)
    BY <1>8 DEF CreateServed, RunServed
  <2>3. \A q \in Requests : request'[q] = request[q] \/ Justified(request'[q], attachments')
    BY <1>1, <2>2 DEF End, Idle, Justified
  <2>4. (CanAttach(s, c) /\ Attach(s, c)) \/ UNCHANGED controlVars
    BY <1>8 DEF CreateServed, RunServed, AttachMade
  <2>5. \A t \in Sessions : attachments[t] # NoConnection => attachments'[t] = attachments[t]
    BY <1>1, <2>1, <2>4 DEF CanAttach, Attach, controlVars
  <2>6. QED BY <2>3, <2>5, OwnershipKept DEF Keeps
<1>9. CASE CloseOperationServed(r)
  <2>1. s \in Sessions
    BY <1>9, InServiceFacts DEF CloseOperationServed, InService, CreatingCommands
  <2>2. CASE s \in operationSessions
    <3>1. /\ attachments' = [attachments EXCEPT ![s] = NoConnection]
          /\ request' = [Abort(RequestsOn(s)) EXCEPT ![r] = Idle]
      BY <1>9, <2>2 DEF CloseOperationServed, ReleaseOperation, Release, AbortedByRelease
    <3>2. ASSUME NEW q \in Requests
          PROVE  \/ request'[q].stage = "idle"
                 \/ request'[q].aborted
                 \/ request'[q] = request[q] /\ q \notin RequestsOn(s)
      <4>1. request[q] \in Request
        BY <1>1
      <4>2. request'[q] = IF q = r THEN Idle ELSE Abort(RequestsOn(s))[q]
        BY <3>1 DEF Abort
      <4>3. \/ Abort(RequestsOn(s))[q].aborted
            \/ Abort(RequestsOn(s))[q] = request[q] /\ q \notin RequestsOn(s)
        BY <4>1 DEF Abort, Request
      <4>4. Idle.stage = "idle"
        BY DEF Idle
      <4>5. QED BY <4>2, <4>3, <4>4
    <3>3. QED BY <2>1, <3>1, <3>2, OwnershipRelease
  <2>3. CASE s \notin operationSessions
    <3>1. attachments' = attachments /\ request' = [request EXCEPT ![r] = Idle]
      BY <1>9, <2>3 DEF CloseOperationServed, ReleaseOperation, controlVars, AbortedByRelease
    <3>2. QED BY <1>1, <3>1, OwnershipQuiet DEF Idle, Justified
  <2>4. QED BY <2>2, <2>3
<1>10. QED BY <1>3, <1>4, <1>5, <1>6, <1>7, <1>8, <1>9 DEF RequestNext, ReceiveCommand

LEMMA OwnershipSession ==
  ASSUME TypeInv, ControlInv, OwnershipInv, NEW s \in Sessions, SessionNext(s)
  PROVE  OwnershipInv'
<1>1. \A q \in Requests : request[q] \in Request
  BY DEF TypeInv, TypeOK
<1>2. CASE Revoke(s)
  BY <1>1, <1>2, OwnershipRelease DEF Revoke, Release, Request
<1>3. CASE Allow(s) \/ HumanCreate(s)
  BY <1>3, OwnershipQuiet DEF Allow, HumanCreate, gatewayVars
<1>4. CASE RemoveSession(s)
  BY <1>1, <1>4, OwnershipRelease DEF RemoveSession, Release, Abort, Request
<1>5. CASE RemoveOperation(s) /\ s \in operationSessions
  BY <1>1, <1>5, OwnershipRelease
     DEF RemoveOperation, ReleaseOperation, AbortedByRelease, Release, Abort, Request
<1>6. CASE RemoveOperation(s) /\ s \notin operationSessions
  BY <1>6, OwnershipQuiet DEF RemoveOperation, ReleaseOperation, AbortedByRelease, controlVars
<1>7. QED BY <1>2, <1>3, <1>4, <1>5, <1>6 DEF SessionNext

LEMMA OwnershipStep ==
  ASSUME TypeInv, ControlInv, OwnershipInv, [Next]_vars
  PROVE  OwnershipInv'
<1>1. ASSUME NEW c \in Connections, ConnectionNext(c) PROVE OwnershipInv'
  <2>1. CASE Connect(c) \/ \E key \in 1..MaxKey : Authenticate(c, key)
    BY <2>1, OwnershipQuiet DEF Connect, Authenticate
  <2>2. CASE SocketClosed(c)
    BY <2>2, OwnershipRemove DEF SocketClosed, OpenConnections
  <2>3. QED BY <1>1, <2>1, <2>2 DEF ConnectionNext
<1>2. CASE RotateAccessKey \/ Stop
  BY <1>2, OwnershipRemove DEF RotateAccessKey, Stop, DropOpenConnections, OpenConnections
<1>3. CASE UNCHANGED vars
  BY <1>3, OwnershipQuiet DEF vars, gatewayVars
<1>4. QED BY <1>1, <1>2, <1>3, OwnershipRequest, OwnershipSession DEF Next

\* A command that was authorized by ownership is aborted as soon as its
\* connection loses the session, so no answer to a prompt dispatches it later.
THEOREM OwnershipSafe == Spec => []UnownedRequestsAborted
<1>1. Init => OwnershipInv
  BY DEF Init, Idle, OwnershipInv, Justified
<1>2. TypeInv /\ ControlInv /\ [Next]_vars => ControlInv'
  BY StepEffect, ControlStep
<1>3. TypeInv /\ ControlInv /\ OwnershipInv /\ [Next]_vars => OwnershipInv'
  BY OwnershipStep
<1>4. QED BY <1>1, <1>2, <1>3, OwnershipMeaning, TypeInvInit, TypeInvStep, ControlInit, PTL DEF Spec

-----------------------------------------------------------------------------
\* The access key.

\* A slot whose socket is closed belongs to nobody, so the next connection in
\* it starts without authority.
AuthorityInv ==
    /\ AuthorityIsCurrent
    /\ \A c \in Connections : socket[c] = "closed" => ~authenticated[c]

AuthorityVars == <<socket, authenticated, accessKey, presented>>

LEMMA AuthorityKept ==
  ASSUME AuthorityInv, UNCHANGED AuthorityVars
  PROVE  AuthorityInv'
BY DEF AuthorityInv, AuthorityIsCurrent, AuthorityVars, ConnectionActive

LEMMA AuthorityStep ==
  ASSUME TypeInv, AuthorityInv, [Next]_vars
  PROVE  AuthorityInv'
<1>1. /\ socket \in [Connections -> {"open", "removed", "closed"}]
      /\ authenticated \in [Connections -> BOOLEAN]
      /\ presented \in [Connections -> 0..MaxKey]
  BY DEF TypeInv, TypeOK
<1>2. ASSUME NEW r \in Requests, RequestNext(r)
      PROVE  UNCHANGED AuthorityVars
  BY <1>2 DEF RequestNext, ReceiveCommand, ReceiveAllowed, ReceiveAsk, PermissionAllowed,
     PermissionRefused, AttachServed, AttachFailed, SessionSpawned, CreateServed, RunServed,
     CreatingEnded, Served, CloseServed, CloseOperationServed, Elsewhere, AuthorityVars
<1>3. ASSUME NEW s \in Sessions, SessionNext(s)
      PROVE  UNCHANGED AuthorityVars
  BY <1>3 DEF SessionNext, Revoke, Allow, HumanCreate, RemoveSession, RemoveOperation,
     Elsewhere, gatewayVars, AuthorityVars
<1>4. ASSUME NEW c \in Connections, ConnectionNext(c)
      PROVE  AuthorityInv'
  <2>1. CASE Connect(c)
    BY <1>1, <2>1 DEF Connect, AuthorityInv, AuthorityIsCurrent, ConnectionActive
  <2>2. CASE SocketClosed(c)
    BY <1>1, <2>2 DEF SocketClosed, AuthorityInv, AuthorityIsCurrent, ConnectionActive
  <2>3. ASSUME NEW key \in 1..MaxKey, Authenticate(c, key)
        PROVE  AuthorityInv'
    BY <1>1, <2>3 DEF Authenticate, AuthorityInv, AuthorityIsCurrent, ConnectionActive
  <2>4. QED BY <1>4, <2>1, <2>2, <2>3 DEF ConnectionNext
<1>5. CASE RotateAccessKey
  BY <1>1, <1>5 DEF RotateAccessKey, DropOpenConnections, OpenConnections, AuthorityInv,
     AuthorityIsCurrent, ConnectionActive
<1>6. CASE Stop
  BY <1>1, <1>6 DEF Stop, DropOpenConnections, OpenConnections, AuthorityInv,
     AuthorityIsCurrent, ConnectionActive
<1>7. CASE UNCHANGED vars
  BY <1>7, AuthorityKept DEF vars, gatewayVars, observerVars, AuthorityVars
<1>8. QED BY <1>2, <1>3, <1>4, <1>5, <1>6, <1>7, AuthorityKept DEF Next

\* After any number of rotations, no connection in the map acts on an old key.
THEOREM AuthoritySafe == Spec => []AuthorityIsCurrent
<1>1. Init => AuthorityInv
  BY DEF Init, AuthorityInv, AuthorityIsCurrent, ConnectionActive
<1>2. TypeInv /\ AuthorityInv /\ [Next]_vars => AuthorityInv'
  BY AuthorityStep
<1>3. AuthorityInv => AuthorityIsCurrent
  BY DEF AuthorityInv
<1>4. QED BY <1>1, <1>2, <1>3, TypeInvInit, TypeInvStep, PTL DEF Spec

-----------------------------------------------------------------------------
\* What the renderer is told.

\* No removed session comes back.
LifecycleForward == \A s \in Sessions : lifecycle[s] = "removed" => lifecycle'[s] = "removed"

LEMMA AnnouncedUpdates ==
  ASSUME TypeInv, ControlInv, AnnouncedIsActual, LifecycleForward,
         revokedSessionIds' = revokedSessionIds,
         \/ \E s \in Sessions, c \in Connections :
               (CanAttach(s, c) /\ Attach(s, c)) \/ Detach(s, c)
         \/ \E s \in Sessions : Release(s, ReleasedState(s))
         \/ \E cs \in SUBSET Connections : RemoveConnections(cs)
         \/ UNCHANGED controlVars
  PROVE  AnnouncedIsActual'
<1> USE NoConnectionAssumption DEF LifecycleForward, AnnouncedIsActual, ControlState
<1>1. /\ announced \in [Sessions -> {"detached", "attached", "revoked"}]
      /\ attachments \in [Sessions -> Connections \cup {NoConnection}]
      /\ \A s \in Sessions : attachments[s] # NoConnection => s \notin revokedSessionIds
      /\ \A s \in Sessions, c \in Connections :
            s \in attachedSessionIds[c] <=> attachments[s] = c
  BY DEF TypeInv, TypeOK, ControlInv, ControlAgrees, ControllersAreActive
<1>2. ASSUME NEW s \in Sessions, NEW c \in Connections, CanAttach(s, c), Attach(s, c)
      PROVE  AnnouncedIsActual'
  BY <1>1, <1>2 DEF CanAttach, Attach
<1>3. ASSUME NEW s \in Sessions, NEW c \in Connections, Detach(s, c)
      PROVE  AnnouncedIsActual'
  BY <1>1, <1>3 DEF Detach
<1>4. ASSUME NEW s \in Sessions, Release(s, ReleasedState(s))
      PROVE  AnnouncedIsActual'
  BY <1>1, <1>4 DEF Release, ReleasedState
<1>5. ASSUME NEW cs \in SUBSET Connections, RemoveConnections(cs)
      PROVE  AnnouncedIsActual'
  BY <1>1, <1>5 DEF RemoveConnections
<1>6. CASE UNCHANGED controlVars
  BY <1>6 DEF controlVars
<1>7. QED BY <1>2, <1>3, <1>4, <1>5, <1>6

LEMMA AnnouncedRequest ==
  ASSUME TypeInv, ControlInv, AnnouncedIsActual, NEW r \in Requests, RequestNext(r)
  PROVE  AnnouncedIsActual'
<1> DEFINE c == request[r].conn  s == request[r].session
<1>1. request[r] \in Request /\ WellFormed(request[r])
  BY DEF TypeInv, TypeOK, RequestsWellFormed
<1>2. revokedSessionIds' = revokedSessionIds
  BY DEF RequestNext, ReceiveCommand, ReceiveAllowed, ReceiveAsk, PermissionAllowed,
     PermissionRefused, AttachServed, AttachFailed, SessionSpawned, CreateServed, RunServed,
     CreatingEnded, Served, CloseServed, CloseOperationServed
<1>3. LifecycleForward
  <2>1. ASSUME NEW t \in Sessions, SessionSpawned(r, t) PROVE LifecycleForward
    BY <2>1 DEF SessionSpawned, LifecycleForward, TypeInv, TypeOK
  <2>2. (\E t \in Sessions : SessionSpawned(r, t)) \/ lifecycle' = lifecycle
    BY DEF RequestNext, ReceiveCommand, ReceiveAllowed, ReceiveAsk, PermissionAllowed,
       PermissionRefused, AttachServed, AttachFailed, CreateServed, RunServed, CreatingEnded,
       Served, CloseServed, CloseOperationServed, Elsewhere, externalVars
  <2>3. QED BY <2>1, <2>2 DEF LifecycleForward
<1>4. ASSUME NEW d \in Connections, NEW command \in Commands,
             NEW t \in Sessions \cup {NoSession}, ReceiveAllowed(r, d, command, t)
      PROVE  AnnouncedIsActual'
  <2> DEFINE rq == Received(d, command, t)
  <2>1. rq \in Request /\ rq.stage = "prompt" /\ WellFormed(rq)
    BY <1>4, ReceivedIsRequest DEF ReceiveAllowed
  <2> HIDE DEF rq
  <2>2. Dispatch(r, rq)
    BY <1>4 DEF ReceiveAllowed, rq
  <2>3. QED BY <1>2, <1>3, <2>1, <2>2, AnnouncedUpdates DEF Dispatch, WellFormed, CreatingCommands
<1>5. CASE PermissionAllowed(r)
  BY <1>1, <1>2, <1>3, <1>5, AnnouncedUpdates
     DEF PermissionAllowed, Dispatch, WellFormed, CreatingCommands
<1>6. ASSUME NEW d \in Connections, NEW command \in Commands,
             NEW t \in Sessions \cup {NoSession}, ReceiveAsk(r, d, command, t)
      PROVE  AnnouncedIsActual'
  BY <1>2, <1>3, <1>6, AnnouncedUpdates DEF ReceiveAsk
<1>7. CASE \/ PermissionRefused(r) \/ AttachServed(r) \/ CreatingEnded(r) \/ Served(r)
           \/ \E t \in Sessions : SessionSpawned(r, t)
  BY <1>2, <1>3, <1>7, AnnouncedUpdates
     DEF PermissionRefused, AttachServed, CreatingEnded, Served, SessionSpawned
<1>8. CASE AttachFailed(r) \/ CloseServed(r)
  <2>1. c \in Connections /\ s \in Sessions
    BY <1>8, InServiceFacts DEF AttachFailed, CloseServed, InService, CreatingCommands
  <2>2. QED BY <1>2, <1>3, <1>8, <2>1, AnnouncedUpdates DEF AttachFailed, CloseServed
<1>9. CASE CreateServed(r) \/ \E status \in {"running", "completed"} : RunServed(r, status)
  <2>1. c \in Connections /\ s \in Sessions
    BY <1>9, InServiceFacts DEF CreateServed, RunServed, InService
  <2>2. (CanAttach(s, c) /\ Attach(s, c)) \/ UNCHANGED controlVars
    BY <1>9 DEF CreateServed, RunServed, AttachMade
  <2>3. QED BY <1>2, <1>3, <2>1, <2>2, AnnouncedUpdates
<1>10. CASE CloseOperationServed(r)
  <2>1. s \in Sessions
    BY <1>10, InServiceFacts DEF CloseOperationServed, InService, CreatingCommands
  <2>2. QED
    BY <1>2, <1>3, <1>10, <2>1, AnnouncedUpdates DEF CloseOperationServed, ReleaseOperation
<1>11. QED
  BY <1>4, <1>5, <1>6, <1>7, <1>8, <1>9, <1>10 DEF RequestNext, ReceiveCommand

LEMMA AnnouncedStep ==
  ASSUME TypeInv, ControlInv, AnnouncedIsActual, [Next]_vars
  PROVE  AnnouncedIsActual'
<1>1. ASSUME NEW c \in Connections, ConnectionNext(c) PROVE AnnouncedIsActual'
  <2>1. revokedSessionIds' = revokedSessionIds /\ LifecycleForward
    BY <1>1 DEF ConnectionNext, Connect, SocketClosed, Authenticate, externalVars,
       LifecycleForward
  <2>2. CASE SocketClosed(c)
    <3>1. ({c} \cap OpenConnections) \in SUBSET Connections
          /\ RemoveConnections({c} \cap OpenConnections)
      BY <2>2 DEF SocketClosed
    <3>2. QED BY <2>1, <3>1, AnnouncedUpdates
  <2>3. CASE Connect(c) \/ \E key \in 1..MaxKey : Authenticate(c, key)
    BY <2>1, <2>3, AnnouncedUpdates DEF Connect, Authenticate, controlVars
  <2>4. QED BY <1>1, <2>2, <2>3 DEF ConnectionNext
<1>2. CASE RotateAccessKey \/ Stop
  <2>1. revokedSessionIds' = revokedSessionIds /\ LifecycleForward
    BY <1>2 DEF RotateAccessKey, Stop, externalVars, LifecycleForward
  <2>2. OpenConnections \in SUBSET Connections /\ RemoveConnections(OpenConnections)
    BY <1>2 DEF RotateAccessKey, Stop, DropOpenConnections, OpenConnections
  <2>3. QED BY <2>1, <2>2, AnnouncedUpdates
<1>3. ASSUME NEW s \in Sessions, SessionNext(s) PROVE AnnouncedIsActual'
  <2> USE NoConnectionAssumption DEF AnnouncedIsActual, ControlState
  <2>1. /\ announced \in [Sessions -> {"detached", "attached", "revoked"}]
        /\ attachments \in [Sessions -> Connections \cup {NoConnection}]
        /\ lifecycle \in [Sessions -> {"unborn", "live", "removed"}]
        /\ \A t \in Sessions : attachments[t] # NoConnection => t \notin revokedSessionIds
    BY DEF TypeInv, TypeOK, ControlInv, ControllersAreActive
  <2>2. CASE Revoke(s)
    BY <2>1, <2>2 DEF Revoke, Elsewhere, externalVars, Release
  <2>3. CASE Allow(s)
    BY <2>1, <2>3 DEF Allow, Elsewhere, externalVars
  <2>4. CASE HumanCreate(s)
    BY <2>1, <2>4 DEF HumanCreate, gatewayVars
  <2>5. CASE RemoveSession(s)
    BY <2>1, <2>5 DEF RemoveSession, Release, ReleasedState
  <2>6. CASE RemoveOperation(s)
    <3>1. LifecycleForward /\ revokedSessionIds' = revokedSessionIds
      BY <2>6 DEF RemoveOperation, LifecycleForward
    <3>2. Release(s, ReleasedState(s)) \/ UNCHANGED controlVars
      BY <2>6 DEF RemoveOperation, ReleaseOperation
    <3>3. QED BY <3>1, <3>2, AnnouncedUpdates
  <2>7. QED BY <1>3, <2>2, <2>3, <2>4, <2>5, <2>6 DEF SessionNext
<1>4. CASE UNCHANGED vars
  BY <1>4 DEF vars, gatewayVars, externalVars, observerVars, AnnouncedIsActual, ControlState
<1>5. QED BY <1>1, <1>2, <1>3, <1>4, AnnouncedRequest DEF Next

\* The control that the renderer was last told of is the control in force.
THEOREM AnnouncementsTrue == Spec => []AnnouncedIsActual
<1>1. Init => AnnouncedIsActual
  BY DEF Init, AnnouncedIsActual, ControlState
<1>2. TypeInv /\ ControlInv /\ [Next]_vars => ControlInv'
  BY StepEffect, ControlStep
<1>3. TypeInv /\ ControlInv /\ AnnouncedIsActual /\ [Next]_vars => AnnouncedIsActual'
  BY AnnouncedStep
<1>4. QED BY <1>1, <1>2, <1>3, TypeInvInit, TypeInvStep, ControlInit, PTL DEF Spec

-----------------------------------------------------------------------------
\* The operation index and the grants: what is known of a request's session while
\* its service call is under way.

\* A run's session, once it exists, has an operation record for as long as it lives.
RunIsRecorded(q, life, ops) ==
    q.stage # "idle" /\ q.command = "run" /\ q.session # NoSession =>
        /\ q.stage = "service"
        /\ life[q.session] # "unborn"
        /\ life[q.session] = "live" => q.session \in ops

\* An attach in service that was not revoked holds its session as long as both
\* ends of it exist.
AttachHolds(q, life, att, sock) ==
    q.stage # "idle" /\ q.command = "attach" =>
        /\ life[q.session] # "unborn"
        /\ q.stage = "service" /\ ~q.controlRevoked /\ sock[q.conn] = "open"
              /\ life[q.session] = "live"
           => att[q.session] = q.conn

Sound(q) == RunIsRecorded(q, lifecycle, operations) /\ AttachHolds(q, lifecycle, attachments, socket)
SoundNext(q) ==
    RunIsRecorded(q, lifecycle', operations') /\ AttachHolds(q, lifecycle', attachments', socket')

ServiceInv ==
    /\ OperationIndexIsLive
    /\ GrantsAreTrue
    /\ \A r \in Requests : Sound(request[r])

\* Sessions go from unborn to live to removed, and a live one keeps its operation.
WorldForward ==
    /\ \A s \in Sessions : lifecycle[s] # "unborn" =>
          lifecycle'[s] # "unborn" /\ (lifecycle'[s] = "live" => lifecycle[s] = "live")
    /\ \A s \in operations : lifecycle'[s] = "live" => s \in operations'

SameRequest(q, p) ==
    /\ q.stage = p.stage /\ q.command = p.command /\ q.session = p.session /\ q.conn = p.conn
    /\ p.controlRevoked => q.controlRevoked

\* The request is as before, and so is the control that it holds.
Held(r) ==
    /\ SameRequest(request'[r], request[r])
    /\ LET q == request'[r] IN
       q.stage = "service" /\ q.command = "attach" /\ ~q.controlRevoked
             /\ socket'[q.conn] = "open" /\ lifecycle'[q.session] = "live"
             /\ lifecycle[q.session] # "unborn"
          => /\ socket[q.conn] = "open"
             /\ attachments[q.session] = q.conn => attachments'[q.session] = q.conn

LEMMA SoundKept ==
  ASSUME TypeInv, ServiceInv, WorldForward, NEW r \in Requests, Held(r)
  PROVE  SoundNext(request'[r])
<1> DEFINE q == request[r]
<1>1. q \in Request /\ WellFormed(q) /\ Sound(q)
  BY DEF TypeInv, TypeOK, RequestsWellFormed, ServiceInv
<1>2. CASE q.stage = "idle" \/ q.command \notin {"run", "attach"}
  BY <1>2 DEF Held, SameRequest, SoundNext, RunIsRecorded, AttachHolds
<1>3. CASE q.stage # "idle" /\ q.command = "run"
  <2>1. AttachHolds(request'[r], lifecycle', attachments', socket')
    BY <1>3 DEF Held, SameRequest, AttachHolds
  <2>2. CASE q.session = NoSession
    BY <2>1, <2>2 DEF Held, SameRequest, SoundNext, RunIsRecorded
  <2>3. CASE q.session # NoSession
    <3>1. q.session \in Sessions
      BY <1>1, <2>3 DEF Request
    <3>2. QED
      BY <1>1, <1>3, <2>1, <2>3, <3>1
         DEF Held, SameRequest, SoundNext, Sound, RunIsRecorded, WorldForward
  <2>4. QED BY <2>2, <2>3
<1>4. CASE q.stage # "idle" /\ q.command = "attach"
  <2>1. q.session \in Sessions
    BY <1>1, <1>4 DEF WellFormed, CreatingCommands
  <2>2. RunIsRecorded(request'[r], lifecycle', operations')
    BY <1>4 DEF Held, SameRequest, RunIsRecorded
  <2>3. QED
    BY <1>1, <1>4, <2>1, <2>2 DEF Held, SameRequest, SoundNext, Sound, AttachHolds, WorldForward
<1>5. QED BY <1>2, <1>3, <1>4

\* A request that is neither a run nor an attach, or no longer in flight.
LEMMA OtherIsSound ==
  ASSUME NEW q, q.stage = "idle" \/ q.command \notin {"run", "attach"}
  PROVE  SoundNext(q)
BY DEF SoundNext, RunIsRecorded, AttachHolds

\* Outside Connect and Revoke no socket opens, and control is lost only by a
\* connection or a session that is gone.
ControlKept ==
    /\ \A c \in Connections : socket'[c] = "open" => socket[c] = "open"
    /\ \A s \in Sessions, c \in Connections :
          socket'[c] = "open" /\ lifecycle'[s] = "live" /\ attachments[s] = c
             => attachments'[s] = c

LEMMA SameIsHeld ==
  ASSUME TypeInv, ControlKept, NEW r \in Requests, SameRequest(request'[r], request[r])
  PROVE  Held(r)
<1>1. WellFormed(request[r])
  BY DEF TypeInv, RequestsWellFormed
<1>2. QED BY <1>1 DEF Held, SameRequest, ControlKept, WellFormed, CreatingCommands

\* Ending and aborting requests disturbs no other.
LEMMA EndedOrSame ==
  ASSUME TypeInv, NEW rs,
         \/ request' = Abort(rs)
         \/ \E r \in Requests : request' = End(r) \/ request' = [Abort(rs) EXCEPT ![r] = Idle]
  PROVE  \A q \in Requests : SameRequest(request'[q], request[q]) \/ SoundNext(request'[q])
<1>1. request \in [Requests -> Request]
  BY DEF TypeInv, TypeOK
<1>2. SoundNext(Idle)
  BY OtherIsSound DEF Idle
<1>3. \A q \in Requests : SameRequest(request'[q], request[q]) \/ request'[q] = Idle
  BY <1>1 DEF Abort, End, SameRequest, Request
<1>4. QED BY <1>2, <1>3

LEMMA ServiceKept ==
  ASSUME TypeInv, ServiceInv, WorldForward, OperationIndexIsLive', GrantsAreTrue',
         \A r \in Requests : Held(r) \/ SoundNext(request'[r])
  PROVE  ServiceInv'
<1>1. \A r \in Requests : SoundNext(request'[r])
  BY SoundKept
<1>2. QED BY <1>1 DEF ServiceInv, Sound, SoundNext

\* A step that only ends or aborts requests and lets go of control.
LEMMA ServiceQuiet ==
  ASSUME TypeInv, ServiceInv, WorldForward, ControlKept, OperationIndexIsLive',
         GrantsAreTrue',
         \A q \in Requests : SameRequest(request'[q], request[q]) \/ SoundNext(request'[q])
  PROVE  ServiceInv'
BY SameIsHeld, ServiceKept

LEMMA SameWorld ==
  ASSUME UNCHANGED <<lifecycle, operations>>
  PROVE  WorldForward
BY DEF WorldForward

\* Taking control takes it from nobody.
LEMMA AttachKeeps ==
  ASSUME TypeInv, NEW s \in Sessions, NEW c \in Connections, CanAttach(s, c), Attach(s, c),
         UNCHANGED socket
  PROVE  ControlKept /\ attachments'[s] = c
BY NoConnectionAssumption DEF TypeInv, TypeOK, CanAttach, Attach, ControlKept

LEMMA ServiceDispatch ==
  ASSUME TypeInv, ServiceInv, NEW r \in Requests, NEW rq \in Request, Dispatch(r, rq),
         rq.stage = "prompt", WellFormed(rq),
         rq.command = "attach" => lifecycle[rq.session] # "unborn",
         rq.command = "run" => rq.session = NoSession,
         UNCHANGED <<Elsewhere, operationSessions>>, granted' = {}
  PROVE  ServiceInv'
<1> DEFINE served == [rq EXCEPT !.stage = "service"]
<1>1. /\ UNCHANGED <<lifecycle, operations, socket>>
      /\ WorldForward /\ OperationIndexIsLive' /\ GrantsAreTrue'
  BY SameWorld DEF Elsewhere, externalVars, ServiceInv, OperationIndexIsLive, GrantsAreTrue
<1>2. request \in [Requests -> Request]
  BY DEF TypeInv, TypeOK
<1>3. /\ served.stage = "service" /\ served.command = rq.command
      /\ served.session = rq.session /\ served.conn = rq.conn
  BY DEF Request
<1>4. ASSUME request' = [request EXCEPT ![r] = served], NEW q \in Requests, q # r
      PROVE  SameRequest(request'[q], request[q])
  BY <1>2, <1>4 DEF SameRequest
<1>5. CASE rq.command = "attach" /\ CanAttach(rq.session, rq.conn)
  <2>1. rq.conn \in Connections /\ rq.session \in Sessions
    BY <1>5 DEF WellFormed, CreatingCommands
  <2>2. Attach(rq.session, rq.conn) /\ request' = [request EXCEPT ![r] = served]
    BY <1>5 DEF Dispatch
  <2>3. ControlKept /\ attachments'[rq.session] = rq.conn
    BY <1>1, <1>5, <2>1, <2>2, AttachKeeps
  <2>4. SoundNext(served)
    BY <1>1, <1>3, <1>5, <2>3 DEF SoundNext, RunIsRecorded, AttachHolds
  <2>5. request'[r] = served
    BY <1>2, <2>2
  <2> HIDE DEF served
  <2>6. QED BY <1>1, <1>4, <2>2, <2>3, <2>4, <2>5, ServiceQuiet
<1>6. CASE rq.command = "attach" /\ ~CanAttach(rq.session, rq.conn)
  <2>1. ControlKept /\ request' = End(r)
    BY <1>1, <1>6 DEF Dispatch, controlVars, ControlKept
  <2>2. QED BY <1>1, <2>1, EndedOrSame, ServiceQuiet
<1>7. CASE rq.command # "attach"
  <2>1. ControlKept /\ request' = [request EXCEPT ![r] = served]
    BY <1>1, <1>7 DEF Dispatch, controlVars, ControlKept
  <2>2. SoundNext(served)
    BY <1>3, <1>7 DEF SoundNext, RunIsRecorded, AttachHolds
  <2>3. request'[r] = served
    BY <1>2, <2>1
  <2> HIDE DEF served
  <2>4. QED BY <1>1, <1>4, <2>1, <2>2, <2>3, ServiceQuiet
<1>8. QED BY <1>5, <1>6, <1>7

LEMMA ServiceReceive ==
  ASSUME TypeInv, ServiceInv, NEW r \in Requests, ReceiveCommand(r)
  PROVE  ServiceInv'
<1>1. PICK c \in Connections, command \in Commands, s \in Sessions \cup {NoSession} :
        ReceiveAllowed(r, c, command, s) \/ ReceiveAsk(r, c, command, s)
  BY DEF ReceiveCommand
<1> DEFINE rq == Received(c, command, s)
<1>2. rq \in Request /\ rq.stage = "prompt" /\ WellFormed(rq)
  BY <1>1, ReceivedIsRequest DEF ReceiveAllowed, ReceiveAsk
<1>3. /\ rq.command = "attach" => lifecycle[rq.session] # "unborn"
      /\ rq.command = "run" => rq.session = NoSession
  BY <1>1 DEF ReceiveAllowed, ReceiveAsk, Acceptable, Addressed, Received, SessionCommands,
     OwnedCommands, OperationCommands, CreatingCommands
<1>4. CASE ReceiveAllowed(r, c, command, s)
  <2>1. /\ Dispatch(r, rq) /\ granted' = {}
        /\ UNCHANGED <<Elsewhere, operationSessions>>
    BY <1>4 DEF ReceiveAllowed
  <2> HIDE DEF rq
  <2>2. QED BY <1>2, <1>3, <2>1, ServiceDispatch
<1>5. CASE ReceiveAsk(r, c, command, s)
  <2>1. /\ UNCHANGED <<lifecycle, operations, socket, attachments>>
        /\ request' = [request EXCEPT ![r] = rq]
    BY <1>5 DEF ReceiveAsk, Elsewhere, externalVars, controlVars
  <2>2. WorldForward /\ ControlKept /\ OperationIndexIsLive' /\ GrantsAreTrue'
    BY <1>5, <2>1 DEF ReceiveAsk, Elsewhere, externalVars, WorldForward, ControlKept,
       ServiceInv, OperationIndexIsLive, GrantsAreTrue
  <2>3. request \in [Requests -> Request]
    BY DEF TypeInv, TypeOK
  <2> HIDE DEF rq
  <2>4. SoundNext(rq)
    BY <1>2, <1>3, <2>1 DEF SoundNext, RunIsRecorded, AttachHolds
  <2>5. \A q \in Requests : SameRequest(request'[q], request[q]) \/ SoundNext(request'[q])
    BY <2>1, <2>3, <2>4 DEF SameRequest
  <2>6. QED BY <2>2, <2>5, ServiceQuiet
<1>6. QED BY <1>1, <1>4, <1>5

LEMMA ServiceRequest ==
  ASSUME TypeInv, ServiceInv, NEW r \in Requests, RequestNext(r)
  PROVE  ServiceInv'
<1> DEFINE c == request[r].conn  s == request[r].session
<1>1. request[r] \in Request /\ WellFormed(request[r]) /\ Sound(request[r])
  BY DEF TypeInv, TypeOK, RequestsWellFormed, ServiceInv
<1>2. CASE ReceiveCommand(r)
  BY <1>2, ServiceReceive
<1>3. CASE PermissionAllowed(r)
  <2>1. /\ request[r].command = "attach" => lifecycle[s] # "unborn"
        /\ request[r].command = "run" => s = NoSession
    BY <1>1, <1>3 DEF PermissionAllowed, Sound, RunIsRecorded, AttachHolds
  <2>2. QED BY <1>1, <1>3, <2>1, ServiceDispatch DEF PermissionAllowed
<1>4. CASE PermissionRefused(r) \/ CreatingEnded(r) \/ Served(r)
  <2>1. /\ WorldForward /\ ControlKept /\ OperationIndexIsLive' /\ GrantsAreTrue'
        /\ request' = End(r)
    BY <1>4 DEF PermissionRefused, CreatingEnded, Served, Elsewhere, externalVars, controlVars,
       WorldForward, ControlKept, ServiceInv, OperationIndexIsLive, GrantsAreTrue
  <2>2. QED BY <2>1, EndedOrSame, ServiceQuiet
<1>5. CASE AttachServed(r)
  <2>1. /\ WorldForward /\ ControlKept /\ OperationIndexIsLive' /\ request' = End(r)
    BY <1>5 DEF AttachServed, Elsewhere, externalVars, controlVars,
       WorldForward, ControlKept, ServiceInv, OperationIndexIsLive
  <2>2. GrantsAreTrue'
    <3>1. CASE request[r].controlRevoked \/ socket[c] # "open"
      BY <1>5, <3>1 DEF AttachServed, Reply, GrantsAreTrue
    <3>2. CASE ~request[r].controlRevoked /\ socket[c] = "open"
      <4>1. attachments[s] = c
        BY <1>1, <1>5, <3>2 DEF AttachServed, InService, Sound, AttachHolds
      <4>2. granted' = {<<c, s>>} /\ attachments' = attachments
        BY <1>5, <3>2 DEF AttachServed, Reply, controlVars
      <4>3. QED BY <4>1, <4>2 DEF GrantsAreTrue
    <3>3. QED BY <1>1, <3>1, <3>2 DEF Request
  <2>3. QED BY <2>1, <2>2, EndedOrSame, ServiceQuiet
<1>6. CASE AttachFailed(r) \/ CloseServed(r)
  <2>1. /\ Detach(s, c) /\ lifecycle[s] # "live"
        /\ request' = [Abort({q \in RequestsOf(c) : Tracks(q, s)}) EXCEPT ![r] = Idle]
    BY <1>6 DEF AttachFailed, CloseServed
  <2>2. UNCHANGED <<lifecycle, operations, socket>> /\ OperationIndexIsLive' /\ GrantsAreTrue'
    BY <1>6 DEF AttachFailed, CloseServed, Elsewhere, externalVars, ServiceInv,
       OperationIndexIsLive, GrantsAreTrue
  <2>3. ControlKept
    BY <2>1, <2>2 DEF Detach, ControlKept, TypeInv, TypeOK
  <2>4. QED BY <2>1, <2>2, <2>3, SameWorld, EndedOrSame, ServiceQuiet
<1>7. ASSUME NEW t \in Sessions, SessionSpawned(r, t)
      PROVE  ServiceInv'
  <2>1. /\ lifecycle \in [Sessions -> {"unborn", "live", "removed"}]
        /\ request \in [Requests -> Request]
    BY DEF TypeInv, TypeOK
  <2>2. WorldForward /\ ControlKept /\ OperationIndexIsLive' /\ GrantsAreTrue'
    BY <1>7, <2>1 DEF SessionSpawned, controlVars, WorldForward, ControlKept, ServiceInv,
       OperationIndexIsLive, GrantsAreTrue
  <2>3. SoundNext(request'[r])
    BY <1>7, <2>1, NoSessionAssumption
       DEF SessionSpawned, InService, SoundNext, RunIsRecorded, AttachHolds, Request
  <2>4. \A q \in Requests : q # r => SameRequest(request'[q], request[q])
    BY <1>7, <2>1 DEF SessionSpawned, SameRequest
  <2>5. QED BY <2>2, <2>3, <2>4, ServiceQuiet
<1>8. CASE CreateServed(r) \/ \E status \in {"running", "completed"} : RunServed(r, status)
  <2>1. c \in Connections /\ s \in Sessions
    BY <1>8, InServiceFacts DEF CreateServed, RunServed, InService
  <2>2. UNCHANGED <<lifecycle, operations, socket>> /\ request' = End(r)
    BY <1>8 DEF CreateServed, RunServed, Elsewhere, externalVars
  <2>3. \/ CanAttach(s, c) /\ Attach(s, c) /\ Reply(c, s)
        \/ UNCHANGED controlVars /\ granted' = {}
    BY <1>8 DEF CreateServed, RunServed, AttachMade
  <2>4. ControlKept /\ GrantsAreTrue'
    <3>1. CASE CanAttach(s, c) /\ Attach(s, c) /\ Reply(c, s)
      BY <2>1, <2>2, <3>1, AttachKeeps DEF Reply, GrantsAreTrue
    <3>2. CASE UNCHANGED controlVars /\ granted' = {}
      BY <2>2, <3>2 DEF controlVars, ControlKept, GrantsAreTrue
    <3>3. QED BY <2>3, <3>1, <3>2
  <2>5. OperationIndexIsLive'
    <3>1. CASE CreateServed(r)
      BY <2>2, <3>1 DEF CreateServed, ServiceInv, OperationIndexIsLive
    <3>2. CASE \E status \in {"running", "completed"} : RunServed(r, status)
      <4>1. s \in operations
        BY <1>1, <3>2 DEF RunServed, InService, Sound, RunIsRecorded
      <4>2. operationSessions' \subseteq operationSessions \cup {s}
        BY <3>2 DEF RunServed
      <4>3. QED BY <2>2, <4>1, <4>2 DEF ServiceInv, OperationIndexIsLive
    <3>3. QED BY <1>8, <3>1, <3>2
  <2>6. QED BY <2>2, <2>4, <2>5, SameWorld, EndedOrSame, ServiceQuiet
<1>9. CASE CloseOperationServed(r)
  <2>1. s \notin operationSessions
    BY <1>9 DEF CloseOperationServed, ServiceInv, OperationIndexIsLive
  <2>2. /\ UNCHANGED <<lifecycle, operations, socket, attachments, operationSessions>>
        /\ granted' = {} /\ request' = End(r)
    BY <1>9, <2>1 DEF CloseOperationServed, ReleaseOperation, AbortedByRelease, End,
       controlVars, Elsewhere, externalVars
  <2>3. ControlKept /\ OperationIndexIsLive' /\ GrantsAreTrue'
    BY <2>2 DEF ControlKept, ServiceInv, OperationIndexIsLive, GrantsAreTrue
  <2>4. QED BY <2>2, <2>3, SameWorld, EndedOrSame, ServiceQuiet
<1>10. QED BY <1>2, <1>3, <1>4, <1>5, <1>6, <1>7, <1>8, <1>9 DEF RequestNext

LEMMA ServiceConnection ==
  ASSUME TypeInv, ServiceInv,
         (\E c \in Connections : ConnectionNext(c)) \/ RotateAccessKey \/ Stop
  PROVE  ServiceInv'
<1>1. /\ UNCHANGED <<lifecycle, operations, operationSessions>>
      /\ OperationIndexIsLive' /\ GrantsAreTrue' /\ WorldForward
  BY SameWorld DEF ConnectionNext, Connect, SocketClosed, Authenticate, RotateAccessKey, Stop,
     externalVars, ServiceInv, OperationIndexIsLive, GrantsAreTrue
<1>2. /\ socket \in [Connections -> {"open", "removed", "closed"}]
      /\ attachments \in [Sessions -> Connections \cup {NoConnection}]
  BY DEF TypeInv, TypeOK
<1>3. ASSUME NEW c \in Connections, Connect(c) PROVE ServiceInv'
  <2>1. ASSUME NEW r \in Requests PROVE Held(r)
    <3>1. WellFormed(request[r]) /\ (request[r].stage # "idle" => request[r].conn # c)
      BY <1>3 DEF Connect, RequestsOf, InFlight, TypeInv, RequestsWellFormed
    <3>2. QED BY <1>2, <1>3, <3>1 DEF Connect, Held, SameRequest, WellFormed
  <2>2. QED BY <1>1, <2>1, ServiceKept
<1>4. ASSUME NEW c \in Connections, SocketClosed(c) PROVE ServiceInv'
  <2>1. ControlKept
    BY <1>2, <1>4 DEF SocketClosed, RemoveConnections, ControlKept
  <2>2. \E rs : request' = Abort(rs)
    BY <1>4 DEF SocketClosed, RemoveConnections
  <2>3. QED BY <1>1, <2>1, <2>2, EndedOrSame, ServiceQuiet
<1>5. ASSUME NEW c \in Connections, NEW key \in 1..MaxKey, Authenticate(c, key)
      PROVE  ServiceInv'
  BY <1>1, <1>5, ServiceQuiet DEF Authenticate, ControlKept, SameRequest
<1>6. CASE RotateAccessKey \/ Stop
  <2>1. ControlKept
    BY <1>2, <1>6 DEF RotateAccessKey, Stop, DropOpenConnections, OpenConnections, ControlKept
  <2>2. \E rs : request' = Abort(rs)
    BY <1>6 DEF RotateAccessKey, Stop, DropOpenConnections, RemoveConnections
  <2>3. QED BY <1>1, <2>1, <2>2, EndedOrSame, ServiceQuiet
<1>7. QED BY <1>3, <1>4, <1>5, <1>6 DEF ConnectionNext

LEMMA ServiceSession ==
  ASSUME TypeInv, ServiceInv, NEW s \in Sessions, SessionNext(s)
  PROVE  ServiceInv'
<1>1. /\ attachments \in [Sessions -> Connections \cup {NoConnection}]
      /\ lifecycle \in [Sessions -> {"unborn", "live", "removed"}]
      /\ request \in [Requests -> Request]
  BY DEF TypeInv, TypeOK
<1>2. WorldForward /\ UNCHANGED socket
  BY <1>1 DEF SessionNext, Revoke, Allow, HumanCreate, RemoveSession, RemoveOperation, Elsewhere,
     externalVars, gatewayVars, WorldForward
<1>3. OperationIndexIsLive' /\ GrantsAreTrue'
  BY DEF SessionNext, Revoke, Allow, HumanCreate, RemoveSession, RemoveOperation,
     ReleaseOperation, Elsewhere, externalVars, gatewayVars, ServiceInv, OperationIndexIsLive,
     GrantsAreTrue
<1>4. CASE Revoke(s)
  <2>1. ASSUME NEW r \in Requests PROVE Held(r)
    <3>1. request[r] \in Request /\ WellFormed(request[r])
      BY <1>1 DEF TypeInv, RequestsWellFormed
    <3>2. CASE r \in RequestsOn(s)
      BY <1>1, <1>4, <3>1, <3>2 DEF Revoke, Held, SameRequest, Request
    <3>3. CASE r \notin RequestsOn(s)
      <4>1. request'[r] = request[r]
        BY <1>4, <3>3 DEF Revoke
      <4>2. \A t \in Sessions : t # s => attachments'[t] = attachments[t]
        BY <1>1, <1>4 DEF Revoke, Release
      <4>3. CASE request[r].stage = "service" /\ request[r].command = "attach"
                 /\ socket[request[r].conn] = "open"
        <5>1. request[r].session \in Sessions /\ request[r].session # s
          BY <3>1, <3>3, <4>3
             DEF RequestsOn, Tracks, InFlight, SessionCommands, WellFormed, CreatingCommands
        <5>2. QED BY <1>2, <4>1, <4>2, <4>3, <5>1 DEF Held, SameRequest
      <4>4. QED BY <1>2, <4>1, <4>3 DEF Held, SameRequest
    <3>4. QED BY <3>2, <3>3
  <2>2. QED BY <1>2, <1>3, <2>1, ServiceKept
<1>5. CASE Allow(s) \/ HumanCreate(s)
  <2>1. ControlKept /\ \A r \in Requests : SameRequest(request'[r], request[r])
    BY <1>2, <1>5 DEF Allow, HumanCreate, gatewayVars, ControlKept, SameRequest
  <2>2. QED BY <1>2, <1>3, <2>1, ServiceQuiet
<1>6. CASE RemoveSession(s)
  <2>1. ControlKept
    BY <1>1, <1>2, <1>6 DEF RemoveSession, Release, ControlKept
  <2>2. request' = Abort(RequestsOn(s))
    BY <1>6 DEF RemoveSession
  <2>3. QED BY <1>2, <1>3, <2>1, <2>2, EndedOrSame, ServiceQuiet
<1>7. CASE RemoveOperation(s)
  <2>1. ControlKept
    BY <1>1, <1>2, <1>7
       DEF RemoveOperation, ReleaseOperation, Release, controlVars, ControlKept
  <2>2. \A r \in Requests : SameRequest(request'[r], request[r]) \/ SoundNext(request'[r])
    <3>1. CASE request' = request
      BY <3>1 DEF SameRequest
    <3>2. CASE request' = Abort(RequestsOn(s))
      BY <3>2, EndedOrSame
    <3>3. QED BY <1>7, <3>1, <3>2 DEF RemoveOperation, AbortedByRelease
  <2>3. QED BY <1>2, <1>3, <2>1, <2>2, ServiceQuiet
<1>8. QED BY <1>4, <1>5, <1>6, <1>7 DEF SessionNext

LEMMA ServiceStep ==
  ASSUME TypeInv, ServiceInv, [Next]_vars
  PROVE  ServiceInv'
<1>1. CASE UNCHANGED vars
  BY <1>1 DEF vars, gatewayVars, externalVars, observerVars, ServiceInv, OperationIndexIsLive,
     GrantsAreTrue, Sound
<1>2. QED BY <1>1, ServiceRequest, ServiceConnection, ServiceSession DEF Next

LEMMA ServiceInit == Init => ServiceInv
  BY DEF Init, ServiceInv, OperationIndexIsLive, GrantsAreTrue, Sound, RunIsRecorded,
     AttachHolds, Idle

\* No client is told that it controls a session that it does not control, however
\* its request interleaved with revocations, removals and other clients.
THEOREM GrantsSafe == Spec => []GrantsAreTrue
<1>1. ServiceInv => GrantsAreTrue
  BY DEF ServiceInv
<1>2. TypeInv /\ ServiceInv /\ [Next]_vars => ServiceInv'
  BY ServiceStep
<1>3. QED BY <1>1, <1>2, ServiceInit, TypeInvInit, TypeInvStep, PTL DEF Spec

\* The index of temporary operations holds no operation whose record is gone.
THEOREM IndexSafe == Spec => []OperationIndexIsLive
<1>1. ServiceInv => OperationIndexIsLive
  BY DEF ServiceInv
<1>2. TypeInv /\ ServiceInv /\ [Next]_vars => ServiceInv'
  BY ServiceStep
<1>3. QED BY <1>1, <1>2, ServiceInit, TypeInvInit, TypeInvStep, PTL DEF Spec
=============================================================================
