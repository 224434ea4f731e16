---------------------------- MODULE AgentGateway ----------------------------
(***************************************************************************)
(* The agent gateway (packages/agent-gateway): WebSocket connections,      *)
(* authentication, permission prompts, commands in flight, and the         *)
(* exclusive control of terminal sessions by agent connections, which the  *)
(* human can revoke and allow again.                                       *)
(*                                                                         *)
(* The gateway runs on one thread.  A command's handler runs without       *)
(* interruption up to its next await, so a command is one action per       *)
(* stretch: it is received, its permission prompt is answered, its service *)
(* call returns.  Everything else can happen in between.                   *)
(*                                                                         *)
(* The session and operation managers are external here: sessions and      *)
(* temporary operations come into being and go away by actions of their    *)
(* own, each with the gateway callbacks it triggers.  The operation of a   *)
(* temporary session is named by its session.                              *)
(***************************************************************************)
EXTENDS Naturals

CONSTANTS Connections,     \* WebSocket connections (one slot per live socket)
          Sessions,        \* terminal session ids
          Requests,        \* commands that can be in flight together
          MaxKey,          \* bound: access keys ever active are 1..MaxKey
          NoConnection, NoSession

ASSUME MaxKeyAssumption == MaxKey \in Nat \ {0}
ASSUME NoConnectionAssumption == NoConnection \notin Connections
ASSUME NoSessionAssumption == NoSession \notin Sessions

VARIABLES
    socket,             \* "open": in the connections map; "removed": taken out
                        \* of it but not yet closed; "closed"
    authenticated,      \* connection.authenticated
    attachedSessionIds, \* connection.attachedSessionIds
    attachments,        \* attachment registry: session -> connection
    revokedSessionIds,  \* sessions withheld from agents by the human
    operationSessions,  \* temporary operations the gateway remembers
    accessKey,          \* the active access key
    stopped,            \* stop() was called
    request,            \* the commands in flight
    lifecycle,          \* external: "unborn", "live", "removed" sessions
    operations,         \* external: temporary operations on record
    announced,          \* last onControlChanged state of each session
    granted,            \* <<connection, session>> of the control granted by
                        \* the success reply of the last step, if any
    presented           \* the key each connection last authenticated with

gatewayVars == <<socket, authenticated, attachedSessionIds, attachments,
                 revokedSessionIds, operationSessions, accessKey, stopped, request>>
externalVars == <<lifecycle, operations>>
observerVars == <<announced, granted, presented>>
vars == <<gatewayVars, externalVars, observerVars>>

-----------------------------------------------------------------------------
\* "input" stands for input, resize, scroll, setPresentation and recording.
\* list, get and observing an operation change no state here and are left out.
OwnedCommands == {"input", "observe", "close"}
SessionCommands == OwnedCommands \cup {"attach"}
OperationCommands == {"closeOperation"}
CreatingCommands == {"create", "run"}
Commands == SessionCommands \cup OperationCommands \cup CreatingCommands

Request ==
    [stage : {"idle", "prompt", "service"}, conn : Connections \cup {NoConnection},
     command : Commands, session : Sessions \cup {NoSession},
     aborted : BOOLEAN, controlRevoked : BOOLEAN]

Idle == [stage |-> "idle", conn |-> NoConnection, command |-> "attach",
         session |-> NoSession, aborted |-> FALSE, controlRevoked |-> FALSE]

InFlight(r) == request[r].stage # "idle"

\* commandSessionId(command) = s: the tracker finds the request by s.
Tracks(r, s) == InFlight(r) /\ request[r].command \in SessionCommands /\ request[r].session = s

\* The requests a set of aborted controllers belongs to.
Abort(rs) ==
    [r \in Requests |-> IF r \in rs THEN [request[r] EXCEPT !.aborted = TRUE] ELSE request[r]]

RequestsOf(c) == {r \in Requests : InFlight(r) /\ request[r].conn = c}

ConnectionActive(c) == authenticated[c] /\ socket[c] = "open"

ControlState(s) ==
    IF s \in revokedSessionIds THEN "revoked"
    ELSE IF attachments[s] # NoConnection THEN "attached" ELSE "detached"

-----------------------------------------------------------------------------
\* Updates that several handlers perform.

controlVars == <<attachments, attachedSessionIds, announced>>

\* Mutant of CanAttach: a session that another connection controls is taken over.
CanAttachThoughControlled(s, c) == ConnectionActive(c) /\ s \notin revokedSessionIds

CanAttach(s, c) ==
    /\ ConnectionActive(c)
    /\ s \notin revokedSessionIds
    /\ attachments[s] \in {NoConnection, c}

\* attachOrThrow, when it does not throw.
Attach(s, c) ==
    /\ attachments' = [attachments EXCEPT ![s] = c]
    /\ attachedSessionIds' = [attachedSessionIds EXCEPT ![c] = @ \cup {s}]
    /\ announced' = [announced EXCEPT ![s] = "attached"]

\* detach: connection c gives s up; the caller aborts c's requests on s.
Detach(s, c) ==
    /\ attachments' = [attachments EXCEPT ![s] = IF @ = c THEN NoConnection ELSE @]
    /\ attachedSessionIds' = [attachedSessionIds EXCEPT ![c] = @ \ {s}]
    /\ announced' = [announced EXCEPT ![s] = IF s \in attachedSessionIds[c] THEN "detached" ELSE @]

\* releaseSession: whoever controls s loses it; the caller aborts the requests.
Release(s, state) ==
    /\ attachments' = [attachments EXCEPT ![s] = NoConnection]
    /\ attachedSessionIds' =
           [c \in Connections |-> IF socket[c] = "open" THEN attachedSessionIds[c] \ {s}
                                                       ELSE attachedSessionIds[c]]
    /\ announced' = [announced EXCEPT ![s] = state]

\* releaseSession's default: announced only if somebody was attached.
ReleasedState(s) == IF attachments[s] = NoConnection THEN announced[s] ELSE "detached"

\* Mutant of RequestsOn: the requests of a released session run on.
RequestsOnNothing(s) == {}

\* The requests releaseSession and markControlRevoked reach.
RequestsOn(s) == {r \in Requests : Tracks(r, s) /\ socket[request[r].conn] = "open"}

\* Mutants of RemoveConnections: the renderer is not told; the connection's own
\* set is not cleared.
RemoveConnectionsSilently(cs) ==
    /\ attachments' = [s \in Sessions |-> IF attachments[s] \in cs THEN NoConnection ELSE attachments[s]]
    /\ attachedSessionIds' = [c \in Connections |-> IF c \in cs THEN {} ELSE attachedSessionIds[c]]
    /\ announced' = announced
    /\ request' = Abort(UNION {RequestsOf(c) : c \in cs})
RemoveConnectionsKeepingSets(cs) ==
    /\ attachments' = [s \in Sessions |-> IF attachments[s] \in cs THEN NoConnection ELSE attachments[s]]
    /\ attachedSessionIds' = attachedSessionIds
    /\ announced' = [s \in Sessions |-> IF attachments[s] \in cs THEN "detached" ELSE announced[s]]
    /\ request' = Abort(UNION {RequestsOf(c) : c \in cs})

\* removeConnection for every connection of cs that is in the map.
RemoveConnections(cs) ==
    /\ attachments' = [s \in Sessions |-> IF attachments[s] \in cs THEN NoConnection ELSE attachments[s]]
    /\ attachedSessionIds' = [c \in Connections |-> IF c \in cs THEN {} ELSE attachedSessionIds[c]]
    /\ announced' = [s \in Sessions |-> IF attachments[s] \in cs THEN "detached" ELSE announced[s]]
    /\ request' = Abort(UNION {RequestsOf(c) : c \in cs})

OpenConnections == {c \in Connections : socket[c] = "open"}

End(r) == [request EXCEPT ![r] = Idle]

\* The reply is sent only while the socket is open.
Reply(c, s) == granted' = IF socket[c] = "open" THEN {<<c, s>>} ELSE {}

-----------------------------------------------------------------------------
\* Connections and the access key.

Connect(c) ==
    /\ ~stopped
    /\ socket[c] = "closed" /\ RequestsOf(c) = {}
    /\ socket' = [socket EXCEPT ![c] = "open"]
    /\ granted' = {}
    /\ UNCHANGED <<authenticated, attachedSessionIds, attachments, revokedSessionIds,
                   operationSessions, accessKey, stopped, request, externalVars, announced,
                   presented>>

\* A message can still arrive on a socket that was told to close.
Authenticate(c, key) ==
    /\ socket[c] \in {"open", "removed"}
    /\ key = accessKey
    /\ authenticated' = [authenticated EXCEPT ![c] = TRUE]
    /\ presented' = [presented EXCEPT ![c] = key]
    /\ granted' = {}
    /\ UNCHANGED <<socket, attachedSessionIds, attachments, revokedSessionIds,
                   operationSessions, accessKey, stopped, request, externalVars, announced>>

\* The connection object goes with its socket; a closed slot is a fresh one.
SocketClosed(c) ==
    /\ socket[c] \in {"open", "removed"}
    /\ socket' = [socket EXCEPT ![c] = "closed"]
    /\ RemoveConnections({c} \cap OpenConnections)
    /\ authenticated' = [authenticated EXCEPT ![c] = FALSE]
    /\ presented' = [presented EXCEPT ![c] = 0]
    /\ granted' = {}
    /\ UNCHANGED <<revokedSessionIds, operationSessions, accessKey, stopped, externalVars>>

\* Taken out of the map and told to close.
DropOpenConnections ==
    /\ socket' = [c \in Connections |-> IF c \in OpenConnections THEN "removed" ELSE socket[c]]
    /\ RemoveConnections(OpenConnections)

\* Mutant of RotateAccessKey: authenticated connections are left alone.
RotateAccessKeyOnly ==
    /\ accessKey' \in (accessKey + 1)..MaxKey
    /\ granted' = {}
    /\ UNCHANGED <<socket, authenticated, controlVars, request, revokedSessionIds,
                   operationSessions, stopped, externalVars, presented>>

\* The new key is one that was never active.
RotateAccessKey ==
    /\ accessKey' \in (accessKey + 1)..MaxKey
    /\ authenticated' = [c \in Connections |-> authenticated[c] /\ c \notin OpenConnections]
    /\ DropOpenConnections
    /\ granted' = {}
    /\ UNCHANGED <<revokedSessionIds, operationSessions, stopped, externalVars, presented>>

Stop ==
    /\ ~stopped
    /\ stopped' = TRUE
    /\ DropOpenConnections
    /\ granted' = {}
    /\ UNCHANGED <<authenticated, revokedSessionIds, operationSessions, accessKey,
                   externalVars, presented>>

-----------------------------------------------------------------------------
\* A command is received: policy, then a permission prompt or the dispatch.

Authorized(c, command, s) ==
    /\ authenticated[c]
    /\ command \in OwnedCommands => s \in attachedSessionIds[c]

\* What a client can name: sessions it was told of, operations on record.
Addressed(command, s) ==
    \/ command \in SessionCommands /\ s \in Sessions /\ lifecycle[s] # "unborn"
    \/ command \in OperationCommands /\ s \in operations
    \/ command \in CreatingCommands /\ s = NoSession

\* Mutant of Received: a request begun on a dropped connection is not aborted.
ReceivedUnaborted(c, command, s) ==
    [stage |-> "prompt", conn |-> c, command |-> command, session |-> s,
     aborted |-> FALSE, controlRevoked |-> FALSE]

Received(c, command, s) ==
    [stage |-> "prompt", conn |-> c, command |-> command, session |-> s,
     aborted |-> socket[c] # "open", controlRevoked |-> FALSE]

\* dispatchAgentCommand up to its service call.  attach takes control first.
Dispatch(r, rq) ==
    \/ /\ rq.command = "attach" /\ CanAttach(rq.session, rq.conn)
       /\ Attach(rq.session, rq.conn)
       /\ request' = [request EXCEPT ![r] = [rq EXCEPT !.stage = "service"]]
    \/ /\ rq.command = "attach" /\ ~CanAttach(rq.session, rq.conn)
       /\ request' = End(r)
       /\ UNCHANGED controlVars
    \/ /\ rq.command # "attach"
       /\ request' = [request EXCEPT ![r] = [rq EXCEPT !.stage = "service"]]
       /\ UNCHANGED controlVars

\* Everything but control and the commands in flight.
Elsewhere == <<socket, authenticated, accessKey, stopped, externalVars, presented>>

Acceptable(r, c, command, s) ==
    /\ ~InFlight(r)
    /\ socket[c] \in {"open", "removed"}
    /\ Addressed(command, s)
    /\ Authorized(c, command, s)
    /\ ~(command = "attach" /\ s \in revokedSessionIds)

ReceiveAllowed(r, c, command, s) ==
    /\ Acceptable(r, c, command, s)
    /\ Dispatch(r, Received(c, command, s))
    /\ granted' = {}
    /\ UNCHANGED <<Elsewhere, revokedSessionIds, operationSessions>>

ReceiveAsk(r, c, command, s) ==
    /\ Acceptable(r, c, command, s)
    /\ request' = [request EXCEPT ![r] = Received(c, command, s)]
    /\ granted' = {}
    /\ UNCHANGED <<Elsewhere, controlVars, revokedSessionIds, operationSessions>>

\* The broker settles an aborted prompt as cancelled, so it cannot be allowed.
PermissionAllowed(r) ==
    /\ request[r].stage = "prompt" /\ ~request[r].aborted
    /\ Dispatch(r, request[r])
    /\ granted' = {}
    /\ UNCHANGED <<Elsewhere, revokedSessionIds, operationSessions>>

\* Denied, timed out or cancelled.
PermissionRefused(r) ==
    /\ request[r].stage = "prompt"
    /\ request' = End(r)
    /\ granted' = {}
    /\ UNCHANGED <<Elsewhere, controlVars, revokedSessionIds, operationSessions>>

-----------------------------------------------------------------------------
\* A service call returns.

InService(r, command) == request[r].stage = "service" /\ request[r].command = command

\* Mutant of AttachServed: a revocation during the request is not looked at.
AttachServedThoughRevoked(r) ==
    LET c == request[r].conn  s == request[r].session IN
    /\ InService(r, "attach")
    /\ lifecycle[s] = "live"
    /\ request' = End(r)
    /\ Reply(c, s)
    /\ UNCHANGED <<Elsewhere, controlVars, revokedSessionIds, operationSessions>>

AttachServed(r) ==
    LET c == request[r].conn  s == request[r].session IN
    /\ InService(r, "attach")
    /\ lifecycle[s] = "live"
    /\ request' = End(r)
    /\ IF request[r].controlRevoked THEN granted' = {} ELSE Reply(c, s)
    /\ UNCHANGED <<Elsewhere, controlVars, revokedSessionIds, operationSessions>>

\* The service fails only when the session is gone; control is given back.
AttachFailed(r) ==
    LET c == request[r].conn  s == request[r].session IN
    /\ InService(r, "attach")
    /\ lifecycle[s] # "live"
    /\ Detach(s, c)
    /\ request' = [Abort({q \in RequestsOf(c) : Tracks(q, s)}) EXCEPT ![r] = Idle]
    /\ granted' = {}
    /\ UNCHANGED <<Elsewhere, revokedSessionIds, operationSessions>>

\* create and run: the session manager has spawned the session; a run's
\* session comes with an operation record.
SessionSpawned(r, s) ==
    /\ InService(r, "create") \/ InService(r, "run")
    /\ request[r].session = NoSession
    /\ lifecycle[s] = "unborn"
    /\ lifecycle' = [lifecycle EXCEPT ![s] = "live"]
    /\ operations' = IF request[r].command = "run" THEN operations \cup {s} ELSE operations
    /\ request' = [request EXCEPT ![r].session = s]
    /\ granted' = {}
    /\ UNCHANGED <<socket, authenticated, accessKey, stopped, presented, controlVars,
                   revokedSessionIds, operationSessions>>

\* The session that a create or run request made takes its maker's control,
\* or attachOrThrow rejects the request.
AttachMade(r) ==
    LET c == request[r].conn  s == request[r].session IN
    \/ CanAttach(s, c) /\ Attach(s, c) /\ Reply(c, s)
    \/ ~CanAttach(s, c) /\ UNCHANGED controlVars /\ granted' = {}

CreateServed(r) ==
    /\ InService(r, "create")
    /\ request[r].session # NoSession /\ lifecycle[request[r].session] = "live"
    /\ AttachMade(r)
    /\ request' = End(r)
    /\ UNCHANGED <<Elsewhere, revokedSessionIds, operationSessions>>

\* A temporary PTY run: still running after the timeout, or completed.
RunServed(r, status) ==
    LET c == request[r].conn  s == request[r].session IN
    /\ InService(r, "run")
    /\ s # NoSession /\ lifecycle[s] = "live"
    /\ \/ /\ ConnectionActive(c)
          /\ operationSessions' = operationSessions \cup {s}
          /\ \/ status = "running" /\ AttachMade(r)
             \/ status = "completed" /\ UNCHANGED controlVars /\ granted' = {}
       \/ /\ ~ConnectionActive(c)
          /\ UNCHANGED <<controlVars, operationSessions>> /\ granted' = {}
    /\ request' = End(r)
    /\ UNCHANGED <<Elsewhere, revokedSessionIds>>

\* create and run: spawning failed, a captured run, or the session is gone.
CreatingEnded(r) ==
    /\ InService(r, "create") \/ InService(r, "run")
    /\ request[r].session # NoSession => lifecycle[request[r].session] # "live"
    /\ request' = End(r)
    /\ granted' = {}
    /\ UNCHANGED <<Elsewhere, controlVars, revokedSessionIds, operationSessions>>

\* Input or observation served, or a close that failed or is pending.
Served(r) ==
    /\ request[r].stage = "service"
    /\ request[r].command \in OwnedCommands \cup OperationCommands
    /\ request' = End(r)
    /\ granted' = {}
    /\ UNCHANGED <<Elsewhere, controlVars, revokedSessionIds, operationSessions>>

\* The observation waiter rejects when its signal aborts.
ObserveAborted(r) == InService(r, "observe") /\ request[r].aborted /\ Served(r)

CloseServed(r) ==
    LET c == request[r].conn  s == request[r].session IN
    /\ InService(r, "close")
    /\ lifecycle[s] = "removed" /\ s \notin operations
    /\ Detach(s, c)
    /\ request' = [Abort({q \in RequestsOf(c) : Tracks(q, s)}) EXCEPT ![r] = Idle]
    /\ operationSessions' = operationSessions \ {s}
    /\ granted' = {}
    /\ UNCHANGED <<Elsewhere, revokedSessionIds>>

\* releaseOperation for the operation of s.
ReleaseOperation(s) ==
    \/ /\ s \in operationSessions
       /\ Release(s, ReleasedState(s))
       /\ operationSessions' = operationSessions \ {s}
    \/ /\ s \notin operationSessions
       /\ UNCHANGED <<controlVars, operationSessions>>

AbortedByRelease(s) == IF s \in operationSessions THEN Abort(RequestsOn(s)) ELSE request

CloseOperationServed(r) ==
    LET s == request[r].session IN
    /\ InService(r, "closeOperation")
    /\ s \notin operations
    /\ ReleaseOperation(s)
    /\ request' = [AbortedByRelease(s) EXCEPT ![r] = Idle]
    /\ granted' = {}
    /\ UNCHANGED <<Elsewhere, revokedSessionIds>>

-----------------------------------------------------------------------------
\* The human and the managers.

\* revokeSessionControl
Revoke(s) ==
    /\ lifecycle[s] # "unborn"
    /\ revokedSessionIds' = revokedSessionIds \cup {s}
    /\ Release(s, IF s \in revokedSessionIds /\ attachments[s] = NoConnection
                     THEN announced[s] ELSE "revoked")
    /\ request' = [r \in Requests |->
                     IF r \in RequestsOn(s)
                     THEN [request[r] EXCEPT !.aborted = TRUE, !.controlRevoked = TRUE]
                     ELSE request[r]]
    /\ granted' = {}
    /\ UNCHANGED <<Elsewhere, operationSessions>>

\* allowSessionControl
Allow(s) ==
    /\ s \in revokedSessionIds
    /\ revokedSessionIds' = revokedSessionIds \ {s}
    /\ announced' = [announced EXCEPT ![s] = "detached"]
    /\ granted' = {}
    /\ UNCHANGED <<Elsewhere, attachments, attachedSessionIds, operationSessions, request>>

HumanCreate(s) ==
    /\ lifecycle[s] = "unborn"
    /\ lifecycle' = [lifecycle EXCEPT ![s] = "live"]
    /\ granted' = {}
    /\ UNCHANGED <<gatewayVars, operations, announced, presented>>

\* session.removed, and removeSessionControl in the same turn.
RemoveSession(s) ==
    /\ lifecycle[s] = "live"
    /\ lifecycle' = [lifecycle EXCEPT ![s] = "removed"]
    /\ revokedSessionIds' = revokedSessionIds \ {s}
    /\ Release(s, ReleasedState(s))
    /\ request' = Abort(RequestsOn(s))
    /\ granted' = {}
    /\ UNCHANGED <<socket, authenticated, accessKey, stopped, operations, presented,
                   operationSessions>>

\* The operation manager drops the record of a closed temporary session and
\* calls removeOperationControl.
RemoveOperation(s) ==
    /\ s \in operations /\ lifecycle[s] = "removed"
    /\ operations' = operations \ {s}
    /\ ReleaseOperation(s)
    /\ request' = AbortedByRelease(s)
    /\ granted' = {}
    /\ UNCHANGED <<socket, authenticated, accessKey, stopped, lifecycle, presented,
                   revokedSessionIds>>

-----------------------------------------------------------------------------
Init ==
    /\ socket = [c \in Connections |-> "closed"]
    /\ authenticated = [c \in Connections |-> FALSE]
    /\ attachedSessionIds = [c \in Connections |-> {}]
    /\ attachments = [s \in Sessions |-> NoConnection]
    /\ revokedSessionIds = {} /\ operationSessions = {}
    /\ accessKey = 1 /\ stopped = FALSE
    /\ request = [r \in Requests |-> Idle]
    /\ lifecycle = [s \in Sessions |-> "unborn"] /\ operations = {}
    /\ announced = [s \in Sessions |-> "detached"]
    /\ granted = {}
    /\ presented = [c \in Connections |-> 0]

ReceiveCommand(r) ==
    \E c \in Connections, command \in Commands, s \in Sessions \cup {NoSession} :
        ReceiveAllowed(r, c, command, s) \/ ReceiveAsk(r, c, command, s)

RequestNext(r) ==
    \/ ReceiveCommand(r)
    \/ PermissionAllowed(r) \/ PermissionRefused(r)
    \/ AttachServed(r) \/ AttachFailed(r)
    \/ \E s \in Sessions : SessionSpawned(r, s)
    \/ CreateServed(r) \/ \E status \in {"running", "completed"} : RunServed(r, status)
    \/ CreatingEnded(r) \/ Served(r)
    \/ CloseServed(r) \/ CloseOperationServed(r)

ConnectionNext(c) ==
    \/ Connect(c) \/ SocketClosed(c)
    \/ \E key \in 1..MaxKey : Authenticate(c, key)

SessionNext(s) ==
    \/ Revoke(s) \/ Allow(s)
    \/ HumanCreate(s) \/ RemoveSession(s) \/ RemoveOperation(s)

Next ==
    \/ \E r \in Requests : RequestNext(r)
    \/ \E c \in Connections : ConnectionNext(c)
    \/ \E s \in Sessions : SessionNext(s)
    \/ RotateAccessKey \/ Stop

Spec == Init /\ [][Next]_vars

\* The permission broker cancels an aborted prompt and the observation waiter
\* rejects on an aborted signal.  No service call is assumed to return.
PromptAborted(r) == request[r].aborted /\ PermissionRefused(r)
Fairness ==
    \A r \in Requests : WF_vars(PromptAborted(r)) /\ WF_vars(ObserveAborted(r))

FairSpec == Spec /\ Fairness

-----------------------------------------------------------------------------
\* Correctness.

TypeOK ==
    /\ socket \in [Connections -> {"open", "removed", "closed"}]
    /\ authenticated \in [Connections -> BOOLEAN]
    /\ attachedSessionIds \in [Connections -> SUBSET Sessions]
    /\ attachments \in [Sessions -> Connections \cup {NoConnection}]
    /\ revokedSessionIds \subseteq Sessions
    /\ operationSessions \subseteq Sessions
    /\ accessKey \in 1..MaxKey /\ stopped \in BOOLEAN
    /\ request \in [Requests -> Request]
    /\ lifecycle \in [Sessions -> {"unborn", "live", "removed"}]
    /\ operations \subseteq Sessions
    /\ announced \in [Sessions -> {"detached", "attached", "revoked"}]
    /\ granted \subseteq Connections \X Sessions
    /\ presented \in [Connections -> 0..MaxKey]

\* The registry and the connections' own sets, which are updated separately by
\* every handler, always name the same controller.
ControlAgrees ==
    \A c \in Connections, s \in Sessions :
        s \in attachedSessionIds[c] <=> attachments[s] = c

\* Only an authenticated connection that is still in the map controls a session,
\* and nobody controls a session that the human has withheld from agents, however
\* late an attach, create or run comes back.
ControllersAreActive ==
    \A s \in Sessions : attachments[s] # NoConnection =>
        ConnectionActive(attachments[s]) /\ s \notin revokedSessionIds

\* A session command that was authorized by ownership is aborted as soon as its
\* connection loses the session: an answer to a permission prompt can never
\* dispatch it on the strength of an ownership that has ended, and an observation
\* never outlives it.
UnownedRequestsAborted ==
    \A r \in Requests :
        LET q == request[r] IN
        InFlight(r) /\ q.command \in OwnedCommands /\ attachments[q.session] # q.conn
            => q.aborted

\* A client is told that it controls a session only when it does at that moment,
\* whatever was revoked, allowed, removed or taken over during its request.
GrantsAreTrue ==
    \A g \in granted : attachments[g[2]] = g[1]

\* What the last onControlChanged said of a session is its state: the renderer,
\* which only follows these events, shows the control that is in force.
AnnouncedIsActual ==
    \A s \in Sessions : lifecycle[s] # "removed" => announced[s] = ControlState(s)

\* A connection in the map acts on the strength of the active access key only.
AuthorityIsCurrent ==
    \A c \in Connections : ConnectionActive(c) => presented[c] = accessKey

\* The operation index holds no operation whose record is gone.
OperationIndexIsLive == operationSessions \subseteq operations

\* A prompt or an observation whose connection is gone, or no longer controls the
\* session it is for, ends: nobody is asked, and nobody waits, for a client that
\* has lost the session.
Abandoned(r) ==
    LET q == request[r] IN
    /\ q.stage = "prompt" \/ InService(r, "observe")
    /\ \/ socket[q.conn] # "open"
       \/ q.command \in OwnedCommands /\ attachments[q.session] # q.conn

AbandonedRequestsEnd ==
    \A r \in Requests : Abandoned(r) ~> ~InFlight(r)

\* Refinement: control of each session as SessionControl specifies it.
control ==
    [s \in Sessions |-> IF s \in revokedSessionIds THEN "revoked"
                       ELSE IF attachments[s] = NoConnection THEN "detached"
                       ELSE attachments[s]]
SC == INSTANCE SessionControl WITH Connections <- Connections, Sessions <- Sessions, control <- control

\* The gateway implements SessionControl: exclusive control, handed over only
\* through release, and blocked by a revocation until the human allows it.
ImplementsSessionControl == SC!Spec
=============================================================================
