----------------------------- MODULE MainProcess ----------------------------
(***************************************************************************)
(* The main process of the desktop app around its agent gateway            *)
(* (apps/desktop/src/main): start, quit, crash and restart; the store of   *)
(* the access key, which is regenerated while the gateway starts, runs and *)
(* stops; the queue of configuration writes; the geometry of the primary   *)
(* window, which is written through it.                                    *)
(*                                                                         *)
(* The gateway is module AgentGateway, with every step that it takes while *)
(* it runs.  Two files survive the process: the credential and settings.   *)
(* Both are replaced by a rename, which is where a crash can fall between. *)
(***************************************************************************)
EXTENDS AgentGateway, Sequences

CONSTANT Bounds    \* bounds of a behaviour: what still happens of each kind

Traffic == {"agents", "regenerations", "saves", "moves", "failures", "restarts"}

ASSUME BoundsAssumption == Bounds \subseteq [Traffic -> Nat]

VARIABLES
    startup,        \* where app.whenReady().then stands
    quitting,       \* where shutdownApp stands; "no": not called
    ipc,            \* registerTerminalIpc has been called
    keyFile,        \* the key in the credential file; 0: missing or invalid
    credential,     \* the key of the store; 0: there is no store
    regeneration,   \* requests of regenerate() that wait, and the one that runs
    binding,        \* the key that startAgentGateway was called with
    gateway,        \* the variable agentGateway holds a gateway
    file, config,   \* settings.json and terminalConfig: the write each field is from
    saves,          \* the queue of TerminalConfigPersistence, its head running
    saving,         \* the configuration that the head of the queue writes
    answered,       \* the last write of each field that was reported as saved
    requested,      \* number of writes asked for
    window,         \* the primary window: its geometry, the debounce, the writes
    flushed,        \* the geometry that the window had when the app was quit
    awaited,        \* the writes that the shutdown still waits for
    budget

keyVars == <<keyFile, credential, regeneration, binding>>
configVars == <<file, config, saves, saving, answered, requested>>
windowVars == <<window, flushed, awaited>>
mainVars == <<startup, quitting, ipc, keyVars, gateway, configVars, windowVars, budget>>
allVars == <<vars, mainVars>>

Spend(kind) == budget[kind] > 0 /\ budget' = [budget EXCEPT ![kind] = @ - 1]

Up == quitting # "exited"

NoRegeneration == [waiting |-> 0, stage |-> "idle", key |-> 0]

\* The fields a mutation writes; focused settings stand for every field that only
\* they write by the one they share with the theme, "terminal".
Fields == {"ui", "terminal", "agentPolicy", "windowGeometry"}
Writes == [theme |-> {"ui", "terminal"}, focused |-> {"terminal"},
           policy |-> {"agentPolicy"}, geometry |-> {"windowGeometry"}]
Defaults == [f \in Fields |-> 0]

NotSaving == [stage |-> "idle", next |-> Defaults]

\* tracked: its listeners are attached; flushing: by the shutdown.
NoWindow == [open |-> FALSE, tracked |-> FALSE, flushing |-> FALSE, geometry |-> 0, timer |-> FALSE,
             writes |-> <<>>, writing |-> FALSE]

-----------------------------------------------------------------------------
\* Start.

\* What a process has before it has loaded anything.
Blank ==
    /\ startup' = "load" /\ quitting' = "no" /\ ipc' = FALSE
    /\ credential' = 0 /\ regeneration' = NoRegeneration /\ binding' = 0 /\ gateway' = FALSE
    /\ config' = Defaults /\ saves' = <<>> /\ saving' = NotSaving
    /\ window' = NoWindow /\ flushed' = 0 /\ awaited' = 0

\* The gateway and the sessions of a process that is gone.
GatewayBlank ==
    /\ socket' = [c \in Connections |-> "closed"]
    /\ authenticated' = [c \in Connections |-> FALSE]
    /\ attachedSessionIds' = [c \in Connections |-> {}]
    /\ attachments' = [s \in Sessions |-> NoConnection]
    /\ revokedSessionIds' = {} /\ operationSessions' = {}
    /\ accessKey' = 1 /\ stopped' = FALSE
    /\ request' = [r \in Requests |-> Idle]
    /\ lifecycle' = [s \in Sessions |-> "unborn"] /\ operations' = {}
    /\ announced' = [s \in Sessions |-> "detached"]
    /\ granted' = {} /\ presented' = [c \in Connections |-> 0]

MainInit ==
    /\ Init
    /\ startup = "load" /\ quitting = "no" /\ ipc = FALSE
    /\ keyFile = 0 /\ credential = 0 /\ regeneration = NoRegeneration
    /\ binding = 0 /\ gateway = FALSE
    /\ file = Defaults /\ config = Defaults /\ saves = <<>> /\ saving = NotSaving
    /\ answered = Defaults /\ requested = 0
    /\ window = NoWindow /\ flushed = 0 /\ awaited = 0
    /\ budget \in Bounds

\* A key that no file ever held.
FreshKey(key) == key = keyFile + 1 /\ key <= MaxKey

\* createAgentAccessKeyStore: a valid credential is loaded, a missing or invalid one
\* replaced by a new one that is written first.  On a failure there is no store.
StoreCreated ==
    /\ startup = "load" /\ Up
    /\ startup' = "config"
    /\ \/ /\ keyFile > 0
          /\ credential' = keyFile
          /\ UNCHANGED <<keyFile, budget>>
       \/ /\ keyFile = 0
          /\ \E key \in 1..MaxKey : FreshKey(key) /\ keyFile' = key /\ credential' = key
          /\ UNCHANGED budget
       \/ /\ Spend("failures")
          /\ UNCHANGED <<keyFile, credential>>
    /\ UNCHANGED <<vars, quitting, ipc, regeneration, binding, gateway, configVars, windowVars>>

\* loadTerminalConfig, and registerTerminalIpc.  A file that cannot be read leaves the
\* defaults, which the next write puts in its place: what it held is then given up.
ConfigLoaded ==
    /\ startup = "config" /\ Up
    /\ startup' = "window" /\ ipc' = TRUE
    /\ \/ config' = file /\ UNCHANGED <<answered, budget>>
       \/ /\ Spend("failures")
          /\ config' = Defaults /\ answered' = Defaults
    /\ UNCHANGED <<vars, quitting, keyVars, gateway, file, saves, saving, requested, windowVars>>

\* createMainWindow: the window exists, and has listeners, before its page is loaded.
WindowShown ==
    /\ startup = "window" /\ Up
    /\ startup' = "waiting"
    /\ window' = [window EXCEPT !.open = TRUE, !.tracked = TRUE, !.geometry = config["windowGeometry"]]
    /\ UNCHANGED <<vars, quitting, ipc, keyVars, gateway, configVars, flushed, awaited, budget>>

\* waitForInitialHumanSessionSettled: a session of the human has settled, or five
\* seconds have passed.  The gateway is started with the key of this moment.
InitialSessionSettled ==
    /\ startup = "waiting" /\ Up
    /\ IF credential > 0
       THEN startup' = "binding" /\ binding' = credential
       ELSE startup' = "ready" /\ UNCHANGED binding
    /\ UNCHANGED <<vars, quitting, ipc, keyFile, credential, regeneration, gateway,
                   configVars, windowVars, budget>>

\* startAgentGateway returns, or fails: then there is none.
GatewayStarted ==
    /\ startup = "binding" /\ Up
    /\ startup' = "ready" /\ binding' = 0
    /\ \/ /\ gateway' = TRUE /\ accessKey' = binding
          /\ granted' = {}
          /\ UNCHANGED <<socket, authenticated, controlVars, request, revokedSessionIds,
                         operationSessions, stopped, externalVars, presented, budget>>
       \/ /\ Spend("failures")
          /\ UNCHANGED <<vars, gateway>>
    /\ UNCHANGED <<quitting, ipc, keyFile, credential, regeneration, configVars, windowVars>>

-----------------------------------------------------------------------------
\* The access key.

\* The human regenerates the key from the settings.
RegenerateAsked ==
    /\ Spend("regenerations") /\ Up /\ ipc /\ credential > 0
    /\ regeneration' = [regeneration EXCEPT !.waiting = @ + 1]
    /\ UNCHANGED <<vars, startup, quitting, ipc, keyFile, credential, binding, gateway,
                   configVars, windowVars>>

RegenerateBegins ==
    /\ Up /\ regeneration.stage = "idle" /\ regeneration.waiting > 0
    /\ \E key \in 1..MaxKey :
           /\ FreshKey(key)
           /\ regeneration' = [waiting |-> regeneration.waiting - 1, stage |-> "writing", key |-> key]
    /\ UNCHANGED <<vars, startup, quitting, ipc, keyFile, credential, binding, gateway,
                   configVars, windowVars, budget>>

\* writeCredential: the new file takes the place of the old one, or nothing changes
\* and regenerate rejects.
KeyWritten ==
    /\ Up /\ regeneration.stage = "writing"
    /\ \/ /\ keyFile' = regeneration.key
          /\ regeneration' = [regeneration EXCEPT !.stage = "renamed"]
          /\ UNCHANGED budget
       \/ /\ Spend("failures")
          /\ regeneration' = [regeneration EXCEPT !.stage = "idle", !.key = 0]
          /\ UNCHANGED keyFile
    /\ UNCHANGED <<vars, startup, quitting, ipc, credential, binding, gateway, configVars, windowVars>>

\* Mutant of KeyActivated: the store keeps handing out the old key.
KeyActivatedOnly ==
    /\ Up /\ regeneration.stage = "renamed"
    /\ IF gateway THEN RotateAccessKey /\ accessKey' = regeneration.key ELSE UNCHANGED vars
    /\ regeneration' = [regeneration EXCEPT !.stage = "idle", !.key = 0]
    /\ UNCHANGED <<startup, quitting, ipc, keyFile, credential, binding, gateway,
                   configVars, windowVars, budget>>

\* activateAccessKey reaches the gateway that there is.
KeyActivated ==
    /\ Up /\ regeneration.stage = "renamed"
    /\ IF gateway THEN RotateAccessKey /\ accessKey' = regeneration.key ELSE UNCHANGED vars
    /\ credential' = regeneration.key
    /\ regeneration' = [regeneration EXCEPT !.stage = "idle", !.key = 0]
    /\ UNCHANGED <<startup, quitting, ipc, keyFile, binding, gateway, configVars, windowVars, budget>>

-----------------------------------------------------------------------------
\* The configuration.

\* applyTerminalConfigMutation
Applied(base, save) == [f \in Fields |-> IF f \in Writes[save.kind] THEN save.value ELSE base[f]]

\* Mutant of NextConfig: a mutation is applied to what was current when it was asked for.
NextConfigAsAsked(save) == Applied(save.base, save)

NextConfig(save) == Applied(config, save)

Save(kind, value) == Append(saves, [kind |-> kind, value |-> value, base |-> config])

SaveAsked ==
    /\ Spend("saves") /\ Up /\ ipc
    /\ requested' = requested + 1
    /\ \E kind \in {"theme", "focused", "policy"} : saves' = Save(kind, requested + 1)
    /\ UNCHANGED <<vars, startup, quitting, ipc, keyVars, gateway, file, config, saving, answered, windowVars>>

SaveBegins ==
    /\ Up /\ saves # <<>> /\ saving.stage = "idle"
    /\ saving' = [stage |-> "writing", next |-> NextConfig(Head(saves))]
    /\ UNCHANGED <<vars, startup, quitting, ipc, keyVars, gateway, file, config, saves, answered,
                   requested, windowVars, budget>>

\* The head of the queue is done: a geometry write lets the window's next one follow.
SaveEnds ==
    /\ saves' = Tail(saves)
    /\ saving' = NotSaving
    /\ window' = IF Head(saves).kind = "geometry" /\ window.writing
                 THEN [window EXCEPT !.writes = Tail(@), !.writing = FALSE] ELSE window
    /\ awaited' = IF awaited > 0 /\ (quitting = "settings" \/ Head(saves).kind = "geometry")
                  THEN awaited - 1 ELSE awaited

\* saveTerminalConfig: the rename, or a failure, which the queue survives.
SaveWritten ==
    /\ Up /\ saving.stage = "writing"
    /\ \/ /\ file' = saving.next
          /\ saving' = [saving EXCEPT !.stage = "renamed"]
          /\ UNCHANGED <<saves, windowVars, budget>>
       \/ /\ Spend("failures")
          /\ SaveEnds
          /\ flushed' = IF Head(saves).kind = "geometry" THEN 0 ELSE flushed
          /\ UNCHANGED file
    /\ UNCHANGED <<vars, startup, quitting, ipc, keyVars, gateway, config, answered, requested>>

\* setConfig, onPersisted, and the answer.
SaveApplied ==
    /\ Up /\ saving.stage = "renamed"
    /\ config' = saving.next
    /\ answered' = Applied(answered, Head(saves))
    /\ SaveEnds
    /\ UNCHANGED <<vars, startup, quitting, ipc, keyVars, gateway, file, requested, flushed, budget>>

-----------------------------------------------------------------------------
\* The geometry of the primary window.

Moved ==
    /\ Spend("moves") /\ Up /\ window.open
    /\ requested' = requested + 1
    /\ window' = [window EXCEPT !.geometry = requested + 1, !.timer = window.tracked]
    /\ UNCHANGED <<vars, startup, quitting, ipc, keyVars, gateway, file, config, saves, saving,
                   answered, flushed, awaited>>

\* persist: the bounds are captured now, and written after the earlier ones.
Persisted == [window EXCEPT !.timer = FALSE, !.writes = Append(@, window.geometry)]

DebounceFired ==
    /\ Up /\ window.timer
    /\ window' = Persisted
    /\ UNCHANGED <<vars, startup, quitting, ipc, keyVars, gateway, configVars, flushed, awaited, budget>>

\* saveGeometry for the oldest captured bounds
GeometrySaved ==
    /\ Up /\ window.writes # <<>> /\ ~window.writing
    /\ saves' = Save("geometry", Head(window.writes))
    /\ window' = [window EXCEPT !.writing = TRUE]
    /\ UNCHANGED <<vars, startup, quitting, ipc, keyVars, gateway, file, config, saving, answered,
                   requested, flushed, awaited, budget>>

\* The window closes: its bounds are captured, and its listeners go.
WindowClosed ==
    /\ Spend("moves") /\ Up /\ window.open
    /\ window' = [IF window.tracked THEN Persisted ELSE window EXCEPT !.open = FALSE, !.tracked = FALSE]
    /\ UNCHANGED <<vars, startup, quitting, ipc, keyVars, gateway, configVars, flushed, awaited>>

-----------------------------------------------------------------------------
\* Quit, and crash.

\* Mutant of Quit: the pending debounce is dropped with the window's listeners.
QuitUnflushed ==
    /\ quitting = "no"
    /\ quitting' = "geometry"
    /\ window' = [window EXCEPT !.timer = FALSE, !.flushing = window.tracked]
    /\ flushed' = IF window.tracked THEN window.geometry ELSE 0
    /\ awaited' = Len(window.writes)
    /\ UNCHANGED <<vars, startup, ipc, keyVars, gateway, configVars, budget>>

\* before-quit, and flushPrimaryWindowGeometry up to its await.
Quit ==
    /\ quitting = "no"
    /\ quitting' = "geometry"
    /\ IF window.tracked
       THEN /\ window' = [Persisted EXCEPT !.flushing = TRUE]
            /\ flushed' = window.geometry
            /\ awaited' = Len(window'.writes)
       ELSE UNCHANGED windowVars
    /\ UNCHANGED <<vars, startup, ipc, keyVars, gateway, configVars, budget>>

\* The flushed window is listened to no more; terminalConfigPersistence.pending() is
\* the end of the queue as it is now.
GeometryFlushed ==
    /\ quitting = "geometry" /\ awaited = 0
    /\ quitting' = "settings"
    /\ awaited' = Len(saves)
    /\ window' = IF window.flushing
                 THEN [window EXCEPT !.tracked = FALSE, !.timer = FALSE, !.flushing = FALSE]
                 ELSE window
    /\ UNCHANGED <<vars, startup, ipc, keyVars, gateway, configVars, flushed, budget>>

\* The broker is disposed of, and the gateway stopped when there is one.
SettingsDrained ==
    /\ quitting = "settings" /\ awaited = 0
    /\ IF gateway THEN quitting' = "gateway" /\ Stop /\ UNCHANGED ipc
                  ELSE quitting' = "sessions" /\ ipc' = FALSE /\ UNCHANGED vars
    /\ UNCHANGED <<startup, keyVars, gateway, configVars, windowVars, budget>>

GatewayStopped ==
    /\ quitting = "gateway"
    /\ quitting' = "sessions" /\ gateway' = FALSE /\ ipc' = FALSE
    /\ UNCHANGED <<vars, startup, keyVars, configVars, windowVars, budget>>

\* The operations and the sessions have been shut down: the process ends.
Exited ==
    /\ quitting = "sessions"
    /\ quitting' = "exited" /\ gateway' = FALSE
    /\ GatewayBlank
    /\ UNCHANGED <<startup, ipc, keyVars, configVars, windowVars, budget>>

\* A start after an exit, or after a crash.
Restarted ==
    /\ Spend("restarts")
    /\ Blank /\ GatewayBlank
    /\ UNCHANGED <<keyFile, file, answered, requested>>

-----------------------------------------------------------------------------
\* Everything the gateway does, and what it is told while it exists.
Traffics == budget["agents"] > 0 /\ Up

GatewayStep ==
    /\ Traffics
    /\ \/ \E r \in Requests : RequestNext(r)
       \/ \E c \in Connections :
              \/ gateway /\ Connect(c)
              \/ SocketClosed(c)
              \/ \E key \in 1..MaxKey : Authenticate(c, key)
       \/ \E s \in Sessions :
              \/ gateway /\ ipc /\ (Revoke(s) \/ Allow(s))
              \/ HumanCreate(s) \/ RemoveSession(s) \/ RemoveOperation(s)
    /\ UNCHANGED mainVars

MainNext ==
    \/ StoreCreated \/ ConfigLoaded \/ WindowShown \/ InitialSessionSettled \/ GatewayStarted
    \/ RegenerateAsked \/ RegenerateBegins \/ KeyWritten \/ KeyActivated
    \/ SaveAsked \/ SaveBegins \/ SaveWritten \/ SaveApplied
    \/ Moved \/ DebounceFired \/ GeometrySaved \/ WindowClosed
    \/ Quit \/ GeometryFlushed \/ SettingsDrained \/ GatewayStopped \/ Exited \/ Restarted
    \/ GatewayStep

MainSpec == MainInit /\ [][MainNext]_allVars

MainFairSpec ==
    /\ MainSpec
    /\ \A r \in Requests :
           /\ WF_allVars(Up /\ PromptAborted(r) /\ UNCHANGED mainVars)
           /\ WF_allVars(Up /\ ObserveAborted(r) /\ UNCHANGED mainVars)

-----------------------------------------------------------------------------
\* Properties.

\* The store hands out the key that a restart would load, whatever was regenerated,
\* failed or crashed before; only between the rename and the activation they differ
\* (agent-access-key-store.ts, regenerate).
CredentialIsPersisted ==
    Up /\ credential > 0 /\ regeneration.stage # "renamed" => credential = keyFile

\* A write that was reported as saved is in the file and stays there, until a later
\* write of the same field: writes of other fields that were asked for meanwhile, a
\* write that failed, and a crash do not undo it (terminal-config-persistence.ts).
SavedIsKept == \A f \in Fields : answered[f] <= file[f]

\* When the app is quit with its window open, the bounds that the window has, or later
\* ones, are in the file before the settings are drained, even in the middle of a
\* debounce, unless writing them fails (index.ts, shutdownApp).
GeometrySurvivesQuit ==
    quitting \in {"settings", "gateway", "sessions", "exited"} /\ flushed > 0
        => file["windowGeometry"] >= flushed

\* The gateway that runs accepts the key that is persisted: however a regeneration and
\* the start of the gateway overlap (agent-access-key-store.md:73 "Concurrent
\* regeneration requests cannot activate a key different from the final persisted
\* key."; index.ts, app.whenReady).
GatewayKeyIsPersisted ==
    gateway /\ ~stopped /\ regeneration.stage # "renamed" => accessKey = keyFile

=============================================================================
