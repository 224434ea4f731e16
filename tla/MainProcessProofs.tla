-------------------------- MODULE MainProcessProofs --------------------------
(***************************************************************************)
(* Proofs about MainProcess, for any gateway, any number of keys and any   *)
(* bounds: the access key that the store hands out is the one a restart    *)
(* loads, what was reported as saved stays saved, and what is proved of    *)
(* the gateway alone holds of the gateways of all processes in turn.       *)
(***************************************************************************)
EXTENDS MainProcess, AgentGatewayProofs, SequenceTheorems, TLAPS

-----------------------------------------------------------------------------
\* The access key.

KeyTypeOK ==
    /\ keyFile \in Nat /\ credential \in Nat
    /\ regeneration \in [waiting : Nat, stage : {"idle", "writing", "renamed"}, key : Nat]

\* There is a regeneration only when there is a store, and only at its end are the
\* store and the file of different keys.
KeyInv ==
    /\ KeyTypeOK
    /\ startup = "load" => credential = 0
    /\ credential = 0 => regeneration = NoRegeneration
    /\ regeneration.stage # "idle" => regeneration.key > 0
    /\ regeneration.stage = "renamed" => keyFile = regeneration.key
    /\ credential > 0 /\ regeneration.stage # "renamed" => credential = keyFile

LEMMA KeyInvInit == MainInit => KeyInv
  BY DEF MainInit, KeyInv, KeyTypeOK, NoRegeneration

\* A regeneration that ends, or fails, leaves a well-typed record without a key.
LEMMA Settled ==
  ASSUME KeyTypeOK
  PROVE  LET idle == [regeneration EXCEPT !.stage = "idle", !.key = 0]
         IN  /\ idle \in [waiting : Nat, stage : {"idle", "writing", "renamed"}, key : Nat]
             /\ idle.stage = "idle"
  BY DEF KeyTypeOK

LEMMA KeyInvStep == KeyInv /\ [MainNext]_allVars => KeyInv'
<1> SUFFICES ASSUME KeyInv, [MainNext]_allVars PROVE KeyInv'
  OBVIOUS
<1> USE DEF KeyInv, KeyTypeOK
<1>1. CASE StoreCreated
  BY <1>1 DEF StoreCreated, FreshKey, NoRegeneration
<1>2. CASE RegenerateAsked
  BY <1>2 DEF RegenerateAsked, keyVars
<1>3. CASE RegenerateBegins
  BY <1>3 DEF RegenerateBegins, FreshKey, NoRegeneration
<1>4. CASE KeyWritten
  <2>1. regeneration.stage = "writing" /\ credential > 0 /\ credential = keyFile /\ startup # "load"
    BY <1>4 DEF KeyWritten, NoRegeneration
  <2>2. UNCHANGED <<startup, credential>>
    BY <1>4 DEF KeyWritten
  <2>3. CASE keyFile' = regeneration.key /\ regeneration' = [regeneration EXCEPT !.stage = "renamed"]
    BY <2>1, <2>2, <2>3
  <2>4. CASE UNCHANGED keyFile /\ regeneration' = [regeneration EXCEPT !.stage = "idle", !.key = 0]
    BY <2>1, <2>2, <2>4, Settled
  <2>5. QED BY <1>4, <2>3, <2>4 DEF KeyWritten
<1>5. CASE KeyActivated
  <2>1. regeneration.stage = "renamed" /\ credential > 0 /\ startup # "load"
    BY <1>5 DEF KeyActivated, NoRegeneration
  <2>2. /\ UNCHANGED <<startup, keyFile>> /\ credential' = regeneration.key
        /\ regeneration' = [regeneration EXCEPT !.stage = "idle", !.key = 0]
    BY <1>5 DEF KeyActivated
  <2>3. QED BY <2>1, <2>2, Settled
<1>6. CASE Restarted
  BY <1>6 DEF Restarted, Blank, NoRegeneration
<1>7. CASE ConfigLoaded \/ WindowShown \/ InitialSessionSettled \/ GatewayStarted
  BY <1>7 DEF ConfigLoaded, WindowShown, InitialSessionSettled, GatewayStarted, keyVars
<1>8. CASE SaveAsked \/ SaveBegins \/ SaveWritten \/ SaveApplied \/ Moved \/ DebounceFired
           \/ GeometrySaved \/ WindowClosed
  BY <1>8 DEF SaveAsked, SaveBegins, SaveWritten, SaveApplied, Moved, DebounceFired,
              GeometrySaved, WindowClosed, keyVars
<1>9. CASE Quit \/ GeometryFlushed \/ SettingsDrained \/ GatewayStopped \/ Exited
  BY <1>9 DEF Quit, GeometryFlushed, SettingsDrained, GatewayStopped, Exited, keyVars
<1>10. CASE GatewayStep \/ UNCHANGED allVars
  BY <1>10 DEF GatewayStep, allVars, mainVars, keyVars
<1>11. QED
  BY <1>1, <1>2, <1>3, <1>4, <1>5, <1>6, <1>7, <1>8, <1>9, <1>10 DEF MainNext

\* The store hands out the key that a restart would load, whatever was regenerated,
\* failed or crashed before, except between the rename of a new credential and its
\* activation (agent-access-key-store.ts, regenerate).
THEOREM StoreAndFileAgree == MainSpec => []CredentialIsPersisted
<1>1. KeyInv => CredentialIsPersisted
  BY DEF KeyInv, CredentialIsPersisted
<1>2. QED BY <1>1, KeyInvInit, KeyInvStep, PTL DEF MainSpec

-----------------------------------------------------------------------------
\* What was saved.

Config == [Fields -> Nat]
QueuedSave == [kind : DOMAIN Writes, value : Nat, base : Config]

SaveTypeOK ==
    /\ file \in Config /\ config \in Config /\ answered \in Config /\ requested \in Nat
    /\ saves \in Seq(QueuedSave)
    /\ saving \in [stage : {"idle", "writing", "renamed"}, next : Config]
    /\ window \in [open : BOOLEAN, tracked : BOOLEAN, flushing : BOOLEAN, geometry : Nat,
                   timer : BOOLEAN, writes : Seq(Nat), writing : BOOLEAN]

\* Nothing is asked for before the configuration is loaded, and no window is there
\* before it is shown.
StartInv ==
    /\ startup \in {"load", "config"} => saves = <<>> /\ ~ipc
    /\ startup \in {"load", "config", "window"} => window = NoWindow

\* The head of the queue is written from what is current.
SavingInv ==
    /\ saving.stage # "idle" => saves # <<>> /\ saving.next = Applied(config, Head(saves))
    /\ saving.stage = "renamed" => file = saving.next

\* No value is newer than the last one asked for; what was answered is older than
\* what is current and than what the file holds.
AgeInv ==
    \A f \in Fields :
        /\ config[f] <= requested /\ file[f] <= requested
        /\ answered[f] <= file[f]
        /\ startup \notin {"load", "config"} => answered[f] <= config[f]

\* The writes of one field are queued in the order of their age, after what is current.
QueueInv ==
    /\ \A i \in 1..Len(saves) :
           /\ saves[i].value <= requested
           /\ \A f \in Writes[saves[i].kind] : config[f] <= saves[i].value
    /\ \A i, j \in 1..Len(saves) :
           i < j /\ Writes[saves[i].kind] \cap Writes[saves[j].kind] # {}
               => saves[i].value <= saves[j].value

\* So are the bounds that the window captured, of which the oldest may be in the queue.
WindowInv ==
    /\ window.geometry <= requested
    /\ window.timer => window.tracked
    /\ window.tracked => window.open
    /\ window.open => config["windowGeometry"] <= window.geometry
    /\ \A i \in 1..Len(window.writes) :
           /\ window.writes[i] <= requested
           /\ window.open => window.writes[i] <= window.geometry
           /\ config["windowGeometry"] <= window.writes[i]
    /\ \A i, j \in 1..Len(window.writes) : i < j => window.writes[i] <= window.writes[j]

GeometryInv ==
    /\ \A i \in 1..Len(saves) :
           saves[i].kind = "geometry" =>
               window.writing /\ window.writes # <<>> /\ saves[i].value = Head(window.writes)
    /\ \A i, j \in 1..Len(saves) :
           saves[i].kind = "geometry" /\ saves[j].kind = "geometry" => i = j

SaveInv == SaveTypeOK /\ StartInv /\ SavingInv /\ AgeInv /\ QueueInv /\ WindowInv /\ GeometryInv

LEMMA DefaultsType == Defaults \in Config /\ \A f \in Fields : Defaults[f] = 0
  BY DEF Defaults, Config

\* Only the geometry is of the window, and no other mutation writes it.
LEMMA WrittenFields ==
  /\ "windowGeometry" \in Fields
  /\ Writes["geometry"] = {"windowGeometry"}
  /\ \A kind \in DOMAIN Writes : Writes[kind] \subseteq Fields
  /\ \A kind \in DOMAIN Writes : "windowGeometry" \in Writes[kind] => kind = "geometry"
  /\ {"theme", "focused", "policy", "geometry"} \subseteq DOMAIN Writes
  BY DEF Writes, Fields

LEMMA AppliedType ==
  ASSUME NEW base \in Config, NEW save \in QueuedSave
  PROVE  /\ Applied(base, save) \in Config
         /\ \A f \in Fields :
                Applied(base, save)[f] = IF f \in Writes[save.kind] THEN save.value ELSE base[f]
  BY DEF Applied, Config, QueuedSave

LEMMA SaveInvInit == MainInit => SaveInv
<1> SUFFICES ASSUME MainInit PROVE SaveInv
  OBVIOUS
<1>1. /\ file = Defaults /\ config = Defaults /\ answered = Defaults /\ requested = 0
      /\ saves = <<>> /\ saving = NotSaving /\ window = NoWindow /\ startup = "load" /\ ~ipc
  BY DEF MainInit
<1>2. Defaults \in Config /\ \A f \in Fields : Defaults[f] = 0
  BY DefaultsType
<1>3. SaveTypeOK
  BY <1>1, <1>2 DEF SaveTypeOK, NotSaving, NoWindow
<1>4. StartInv /\ SavingInv /\ AgeInv /\ QueueInv /\ GeometryInv
  BY <1>1, <1>2 DEF StartInv, SavingInv, AgeInv, QueueInv, GeometryInv, NotSaving
<1>5. WindowInv
  BY <1>1, <1>2, WrittenFields DEF WindowInv, NoWindow
<1>6. QED BY <1>3, <1>4, <1>5 DEF SaveInv

\* The types of what the state is made of.
LEMMA Values ==
  ASSUME SaveTypeOK
  PROVE  /\ requested \in Nat /\ Len(saves) \in Nat /\ Len(window.writes) \in Nat
         /\ \A f \in Fields : config[f] \in Nat /\ file[f] \in Nat /\ answered[f] \in Nat
         /\ \A i \in 1..Len(saves) :
                saves[i] \in QueuedSave /\ saves[i].value \in Nat /\ saves[i].kind \in DOMAIN Writes
         /\ window.geometry \in Nat
         /\ \A i \in 1..Len(window.writes) : window.writes[i] \in Nat
<1>1. \A i \in 1..Len(saves) : saves[i] \in QueuedSave
  BY DEF SaveTypeOK
<1>2. \A i \in 1..Len(saves) : saves[i].value \in Nat /\ saves[i].kind \in DOMAIN Writes
  BY <1>1 DEF QueuedSave
<1>3. window.writes \in Seq(Nat) /\ window.geometry \in Nat
  BY DEF SaveTypeOK
<1>4. Len(window.writes) \in Nat /\ \A i \in 1..Len(window.writes) : window.writes[i] \in Nat
  BY <1>3
<1>5. \A f \in Fields : config[f] \in Nat /\ file[f] \in Nat /\ answered[f] \in Nat
  BY DEF SaveTypeOK, Config
<1>6. requested \in Nat /\ Len(saves) \in Nat
  BY DEF SaveTypeOK
<1>7. QED BY <1>1, <1>2, <1>3, <1>4, <1>5, <1>6

\* A write that is queued last, with a value that no queued write of its field exceeds.
LEMMA QueuedLast ==
  ASSUME SaveInv, NEW save \in QueuedSave, saves' = Append(saves, save), save.value <= requested',
         requested <= requested', requested' \in Nat, UNCHANGED config,
         \A f \in Writes[save.kind] : config[f] <= save.value,
         \A i \in 1..Len(saves) : Writes[saves[i].kind] \cap Writes[save.kind] # {}
                                      => saves[i].value <= save.value
  PROVE  saves' \in Seq(QueuedSave) /\ QueueInv' /\ saves' # <<>>
         /\ (saves # <<>> => Head(saves') = Head(saves))
<1>1. /\ saves' \in Seq(QueuedSave) /\ Len(saves') = Len(saves) + 1 /\ saves' # <<>>
      /\ \A i \in 1..Len(saves) : saves'[i] = saves[i]
      /\ saves'[Len(saves) + 1] = save
  BY AppendProperties DEF SaveInv, SaveTypeOK
<1>2. Len(saves) \in Nat /\ requested \in Nat
  BY Values DEF SaveInv
<1>3. \A i \in 1..Len(saves) : saves[i].value \in Nat
  BY Values DEF SaveInv
<1>4. \A i \in 1..Len(saves') :
         /\ saves'[i].value <= requested'
         /\ \A f \in Writes[saves'[i].kind] : config'[f] <= saves'[i].value
  BY <1>1, <1>2, <1>3 DEF SaveInv, QueueInv
<1>5. ASSUME NEW i \in 1..Len(saves'), NEW j \in 1..Len(saves'), i < j,
             Writes[saves'[i].kind] \cap Writes[saves'[j].kind] # {}
      PROVE  saves'[i].value <= saves'[j].value
  <2>1. i \in 1..Len(saves) /\ saves'[i] = saves[i]
    BY <1>1, <1>2, <1>5
  <2>2. CASE j = Len(saves) + 1
    BY <1>1, <1>5, <2>1, <2>2
  <2>3. CASE j # Len(saves) + 1
    <3>1. j \in 1..Len(saves) /\ saves'[j] = saves[j]
      BY <1>1, <1>2, <2>3
    <3>2. QED BY <1>5, <2>1, <3>1 DEF SaveInv, QueueInv
  <2>4. QED BY <2>2, <2>3
<1>6. saves # <<>> => Head(saves') = Head(saves)
  BY HeadTailAppend DEF SaveInv, SaveTypeOK
<1>7. QED BY <1>1, <1>4, <1>5, <1>6 DEF QueueInv

LEMMA SaveAskedInv == SaveInv /\ SaveAsked => SaveInv'
<1> SUFFICES ASSUME SaveInv, SaveAsked PROVE SaveInv'
  OBVIOUS
<1>1. /\ requested \in Nat /\ requested' = requested + 1 /\ ipc
      /\ UNCHANGED <<startup, ipc, file, config, saving, answered, window>>
  BY DEF SaveAsked, SaveInv, SaveTypeOK, windowVars
<1>2. PICK kind \in {"theme", "focused", "policy"} :
         saves' = Append(saves, [kind |-> kind, value |-> requested + 1, base |-> config])
  BY DEF SaveAsked, Save
<1> DEFINE save == [kind |-> kind, value |-> requested + 1, base |-> config]
<1>3. /\ save \in QueuedSave /\ save.value = requested + 1 /\ save.kind = kind
  BY <1>1, WrittenFields DEF QueuedSave, SaveInv, SaveTypeOK
<1>4. \A f \in Fields : config[f] \in Nat /\ file[f] \in Nat
  BY Values DEF SaveInv
<1>5. \A i \in 1..Len(saves) : saves[i].value \in Nat /\ saves[i].value <= requested
  BY Values DEF SaveInv, QueueInv
<1>6. \A f \in Writes[save.kind] : config[f] <= save.value
  BY <1>1, <1>3, <1>4, WrittenFields DEF SaveInv, AgeInv
<1> HIDE DEF save
<1>7. saves' \in Seq(QueuedSave) /\ QueueInv' /\ saves' # <<>> /\ (saves # <<>> => Head(saves') = Head(saves))
  <2>1. saves' = Append(saves, save) /\ save.value <= requested' /\ requested <= requested' /\ requested' \in Nat
    BY <1>1, <1>2, <1>3 DEF save
  <2>2. \A i \in 1..Len(saves) : saves[i].value <= save.value
    BY <1>1, <1>3, <1>5
  <2>3. QED BY <2>1, <2>2, <1>1, <1>3, <1>6, QueuedLast
<1>8. SaveTypeOK'
  BY <1>1, <1>7 DEF SaveInv, SaveTypeOK
<1>9. StartInv' /\ SavingInv'
  BY <1>1, <1>7 DEF SaveInv, StartInv, SavingInv
<1>10. AgeInv'
  BY <1>1, <1>4 DEF SaveInv, AgeInv
<1>11. WindowInv'
  <2>1. window.geometry \in Nat /\ \A i \in 1..Len(window.writes) : window.writes[i] \in Nat
    BY Values DEF SaveInv
  <2>2. QED BY <2>1, <1>1 DEF SaveInv, WindowInv
<1>12. GeometryInv'
  <2>1. /\ Len(saves) \in Nat /\ Len(saves') = Len(saves) + 1 /\ saves'[Len(saves) + 1] = save
        /\ \A i \in 1..Len(saves) : saves'[i] = saves[i]
    BY <1>2, <1>3, AppendProperties DEF SaveInv, SaveTypeOK, save
  <2>2. save.kind # "geometry"
    BY <1>3
  <2>3. QED BY <2>1, <2>2, <1>1 DEF SaveInv, GeometryInv
<1>13. QED BY <1>7, <1>8, <1>9, <1>10, <1>11, <1>12 DEF SaveInv

LEMMA GeometrySavedInv == SaveInv /\ GeometrySaved => SaveInv'
<1> SUFFICES ASSUME SaveInv, GeometrySaved PROVE SaveInv'
  OBVIOUS
<1> DEFINE save == [kind |-> "geometry", value |-> Head(window.writes), base |-> config]
<1>1. /\ window.writes # <<>> /\ ~window.writing
      /\ saves' = Append(saves, save)
      /\ window' = [window EXCEPT !.writing = TRUE]
      /\ UNCHANGED <<startup, ipc, file, config, saving, answered, requested>>
  BY DEF GeometrySaved, Save
<1>2. /\ window.writes \in Seq(Nat) /\ Len(window.writes) \in Nat /\ Len(window.writes) >= 1
      /\ Head(window.writes) = window.writes[1] /\ Head(window.writes) \in Nat
  BY <1>1 DEF SaveInv, SaveTypeOK
<1>3. save \in QueuedSave /\ save.value = Head(window.writes) /\ save.kind = "geometry"
  BY <1>2, WrittenFields DEF QueuedSave, SaveInv, SaveTypeOK
<1>4. \A i \in 1..Len(saves) : saves[i].kind # "geometry" /\ saves[i].kind \in DOMAIN Writes
  BY <1>1, Values DEF SaveInv, GeometryInv
<1> HIDE DEF save
<1>5. /\ saves' \in Seq(QueuedSave) /\ QueueInv' /\ saves' # <<>>
      /\ saves # <<>> => Head(saves') = Head(saves)
  <2>1. save.value <= requested /\ requested \in Nat /\ config["windowGeometry"] <= save.value
    BY <1>2, <1>3, Values DEF SaveInv, WindowInv
  <2>2. \A f \in Writes[save.kind] : config[f] <= save.value
    BY <2>1, <1>3, WrittenFields
  <2>3. \A i \in 1..Len(saves) : Writes[saves[i].kind] \cap Writes[save.kind] = {}
    BY <1>3, <1>4, WrittenFields
  <2>4. QED BY <2>1, <2>2, <2>3, <1>1, <1>3, QueuedLast
<1>6. /\ window' \in [open : BOOLEAN, tracked : BOOLEAN, flushing : BOOLEAN, geometry : Nat,
                      timer : BOOLEAN, writes : Seq(Nat), writing : BOOLEAN]
      /\ window'.open = window.open /\ window'.tracked = window.tracked
      /\ window'.timer = window.timer /\ window'.geometry = window.geometry
      /\ window'.writes = window.writes /\ window'.writing
  BY <1>1 DEF SaveInv, SaveTypeOK
<1>7. SaveTypeOK'
  BY <1>1, <1>5, <1>6 DEF SaveInv, SaveTypeOK
<1>8. StartInv'
  BY <1>1 DEF SaveInv, StartInv, NoWindow
<1>9. SavingInv' /\ AgeInv'
  BY <1>1, <1>5 DEF SaveInv, SavingInv, AgeInv
<1>10. WindowInv'
  BY <1>1, <1>6 DEF SaveInv, WindowInv
<1>11. GeometryInv'
  <2>1. /\ Len(saves) \in Nat /\ Len(saves') = Len(saves) + 1 /\ saves'[Len(saves) + 1] = save
        /\ \A i \in 1..Len(saves) : saves'[i] = saves[i]
    BY <1>1, <1>3, AppendProperties DEF SaveInv, SaveTypeOK
  <2>2. \A i \in 1..Len(saves') : saves'[i].kind = "geometry" => i = Len(saves) + 1
    BY <2>1, <1>4
  <2>3. QED BY <2>1, <2>2, <1>1, <1>3, <1>6 DEF GeometryInv
<1>12. QED BY <1>5, <1>7, <1>8, <1>9, <1>10, <1>11 DEF SaveInv

LEMMA SaveBeginsInv == SaveInv /\ SaveBegins => SaveInv'
<1> SUFFICES ASSUME SaveInv, SaveBegins PROVE SaveInv'
  OBVIOUS
<1>1. /\ saves # <<>> /\ saving' = [stage |-> "writing", next |-> Applied(config, Head(saves))]
      /\ UNCHANGED <<startup, ipc, file, config, saves, answered, requested, window>>
  BY DEF SaveBegins, NextConfig, windowVars
<1>2. Applied(config, Head(saves)) \in Config
  BY <1>1, AppliedType, HeadTailProperties DEF SaveInv, SaveTypeOK
<1>3. SaveTypeOK'
  BY <1>1, <1>2 DEF SaveInv, SaveTypeOK
<1>4. StartInv' /\ SavingInv' /\ AgeInv'
  BY <1>1 DEF SaveInv, StartInv, SavingInv, AgeInv
<1>5. QueueInv' /\ WindowInv' /\ GeometryInv'
  BY <1>1 DEF SaveInv, QueueInv, WindowInv, GeometryInv
<1>6. QED BY <1>3, <1>4, <1>5 DEF SaveInv

\* The end of a write, which may have become current.
LEMMA SaveEndsInv ==
  ASSUME SaveInv, saves # <<>>, saving.stage # "idle", SaveEnds,
         config' = config \/ config' = Applied(config, Head(saves))
  PROVE  /\ saves' \in Seq(QueuedSave) /\ saving' = NotSaving
         /\ window' \in [open : BOOLEAN, tracked : BOOLEAN, flushing : BOOLEAN, geometry : Nat,
                         timer : BOOLEAN, writes : Seq(Nat), writing : BOOLEAN]
         /\ UNCHANGED requested => QueueInv' /\ WindowInv'
         /\ GeometryInv'
<1> DEFINE head == Head(saves)
<1>1. /\ head \in QueuedSave /\ head = saves[1] /\ 1 \in 1..Len(saves)
      /\ saves' \in Seq(QueuedSave) /\ Len(saves') = Len(saves) - 1
      /\ \A i \in 1..Len(saves') : saves'[i] = saves[i + 1] /\ i + 1 \in 1..Len(saves)
  <2>1. /\ saves \in Seq(QueuedSave) /\ saves # <<>> /\ saves' = Tail(saves) /\ Len(saves) \in Nat
    BY DEF SaveInv, SaveTypeOK, SaveEnds
  <2>2. head = saves[1] /\ 1 \in 1..Len(saves)
    BY <2>1
  <2>3. QED BY <2>1, <2>2, HeadTailProperties
<1>2. /\ Len(saves) \in Nat /\ requested \in Nat
      /\ \A i \in 1..Len(saves) : saves[i].value \in Nat /\ saves[i].kind \in DOMAIN Writes
      /\ \A f \in Fields : config[f] \in Nat
  BY Values DEF SaveInv
<1>3. \A f \in Fields :
         config'[f] = config[f] \/ (config'[f] = head.value /\ f \in Writes[head.kind])
  <2>1. config \in Config
    BY DEF SaveInv, SaveTypeOK
  <2>2. \A f \in Fields : Applied(config, head)[f]
                            = IF f \in Writes[head.kind] THEN head.value ELSE config[f]
    BY <1>1, <2>1, AppliedType
  <2>3. config' = config \/ config' = Applied(config, head)
    OBVIOUS
  <2>4. QED BY <2>2, <2>3
<1> HIDE DEF head
<1>4. ASSUME UNCHANGED requested PROVE QueueInv'
  <2>1. ASSUME NEW i \in 1..Len(saves')
        PROVE  /\ saves'[i].value <= requested'
               /\ \A f \in Writes[saves'[i].kind] : config'[f] <= saves'[i].value
    <3>1. /\ saves'[i] = saves[i + 1] /\ i + 1 \in 1..Len(saves) /\ 1 < i + 1
          /\ saves[i + 1].value <= requested
      BY <1>1, <2>1 DEF SaveInv, QueueInv
    <3>2. ASSUME NEW f \in Writes[saves[i + 1].kind]
          PROVE  config'[f] <= saves[i + 1].value
      <4>1. f \in Fields /\ config[f] <= saves[i + 1].value
        BY <1>2, <3>1, <3>2, WrittenFields DEF SaveInv, QueueInv
      <4>2. f \in Writes[head.kind] => head.value <= saves[i + 1].value
        BY <1>1, <3>1, <3>2 DEF SaveInv, QueueInv
      <4>3. QED BY <4>1, <4>2, <1>3
    <3>3. QED BY <1>4, <3>1, <3>2
  <2>2. ASSUME NEW i \in 1..Len(saves'), NEW j \in 1..Len(saves'), i < j,
               Writes[saves'[i].kind] \cap Writes[saves'[j].kind] # {}
        PROVE  saves'[i].value <= saves'[j].value
    <3>1. /\ saves'[i] = saves[i + 1] /\ i + 1 \in 1..Len(saves)
          /\ saves'[j] = saves[j + 1] /\ j + 1 \in 1..Len(saves) /\ i + 1 < j + 1
      BY <1>1, <2>2
    <3>2. QED BY <2>2, <3>1 DEF SaveInv, QueueInv
  <2>3. QED BY <2>1, <2>2 DEF QueueInv
\* The window's next write follows the one that has ended.
<1>5. CASE head.kind = "geometry"
  <2>1. /\ window.writing /\ window.writes # <<>> /\ head.value = Head(window.writes)
        /\ \A i \in 1..Len(saves') : saves'[i].kind # "geometry"
    <3>1. window.writing /\ window.writes # <<>> /\ head.value = Head(window.writes)
      BY <1>1, <1>5 DEF SaveInv, GeometryInv
    <3>2. ASSUME NEW i \in 1..Len(saves'), saves'[i].kind = "geometry" PROVE FALSE
      <4>1. saves[i + 1].kind = "geometry" /\ saves[1].kind = "geometry" /\ i + 1 \in 1..Len(saves)
        BY <1>1, <1>5, <3>2
      <4>2. i + 1 = 1
        BY <4>1, <1>1 DEF SaveInv, GeometryInv
      <4>3. QED BY <4>2, <1>1
    <3>3. QED BY <3>1, <3>2
  <2>2. window' = [window EXCEPT !.writes = Tail(@), !.writing = FALSE]
    BY <1>5, <2>1 DEF SaveEnds, head
  <2>3. /\ window.writes \in Seq(Nat) /\ Tail(window.writes) \in Seq(Nat)
        /\ Len(Tail(window.writes)) = Len(window.writes) - 1 /\ Len(window.writes) \in Nat
        /\ Head(window.writes) = window.writes[1] /\ 1 \in 1..Len(window.writes)
        /\ \A i \in 1..Len(Tail(window.writes)) :
               Tail(window.writes)[i] = window.writes[i + 1] /\ i + 1 \in 1..Len(window.writes)
    <3>1. window.writes \in Seq(Nat) /\ window.writes # <<>>
      BY <2>1 DEF SaveInv, SaveTypeOK
    <3>2. QED BY <3>1, HeadTailProperties
  <2>4. /\ window' \in [open : BOOLEAN, tracked : BOOLEAN, flushing : BOOLEAN, geometry : Nat,
                        timer : BOOLEAN, writes : Seq(Nat), writing : BOOLEAN]
        /\ window'.writes = Tail(window.writes) /\ window'.geometry = window.geometry
        /\ window'.timer = window.timer /\ window'.tracked = window.tracked
        /\ window'.open = window.open
    BY <2>2, <2>3 DEF SaveInv, SaveTypeOK
  <2>5. config'["windowGeometry"] = config["windowGeometry"]
        \/ config'["windowGeometry"] = window.writes[1]
    BY <1>3, <2>1, <2>3, WrittenFields
  <2>6. ASSUME UNCHANGED requested PROVE WindowInv'
    <3>1. WindowInv /\ window.geometry \in Nat /\ \A i \in 1..Len(window.writes) : window.writes[i] \in Nat
      BY Values DEF SaveInv
    <3>2. window.open => config'["windowGeometry"] <= window.geometry
      BY <2>3, <2>5, <3>1 DEF WindowInv
    <3>3. \A i \in 2..Len(window.writes) : config'["windowGeometry"] <= window.writes[i]
      BY <2>3, <2>5, <3>1 DEF WindowInv
    <3>4. \A i \in 1..Len(window'.writes) :
             /\ window'.writes[i] <= requested'
             /\ window'.open => window'.writes[i] <= window'.geometry
             /\ config'["windowGeometry"] <= window'.writes[i]
      BY <2>3, <2>4, <2>6, <3>1, <3>3 DEF WindowInv
    <3>5. ASSUME NEW i \in 1..Len(window'.writes), NEW j \in 1..Len(window'.writes), i < j
          PROVE  window'.writes[i] <= window'.writes[j]
      <4>1. /\ window'.writes[i] = window.writes[i + 1] /\ i + 1 \in 1..Len(window.writes)
            /\ window'.writes[j] = window.writes[j + 1] /\ j + 1 \in 1..Len(window.writes)
            /\ i + 1 < j + 1
        BY <2>3, <2>4, <3>5
      <4>2. QED BY <4>1, <3>1 DEF WindowInv
    <3>6. QED BY <2>4, <2>6, <3>1, <3>2, <3>4, <3>5 DEF WindowInv
  <2>7. GeometryInv'
    BY <2>1 DEF GeometryInv
  <2>8. QED BY <1>1, <1>4, <2>4, <2>6, <2>7 DEF SaveEnds
<1>6. CASE head.kind # "geometry"
  <2>1. window' = window /\ config'["windowGeometry"] = config["windowGeometry"]
    <3>1. window' = window
      BY <1>6 DEF SaveEnds, head
    <3>2. "windowGeometry" \notin Writes[head.kind]
      BY <1>1, <1>2, <1>6, WrittenFields
    <3>3. QED BY <3>1, <3>2, <1>3, WrittenFields
  <2>2. UNCHANGED requested => WindowInv'
    BY <2>1 DEF SaveInv, WindowInv
  <2>3. GeometryInv'
    <3>1. \A i \in 1..Len(saves') : saves'[i] = saves[i + 1] /\ i + 1 \in 1..Len(saves)
      BY <1>1
    <3>2. ASSUME NEW i \in 1..Len(saves'), saves'[i].kind = "geometry"
          PROVE  window'.writing /\ window'.writes # <<>> /\ saves'[i].value = Head(window'.writes)
      BY <2>1, <3>1, <3>2 DEF SaveInv, GeometryInv
    <3>3. ASSUME NEW i \in 1..Len(saves'), NEW j \in 1..Len(saves'),
                 saves'[i].kind = "geometry", saves'[j].kind = "geometry"
          PROVE  i = j
      <4>1. i + 1 = j + 1
        BY <3>1, <3>3 DEF SaveInv, GeometryInv
      <4>2. QED BY <4>1
    <3>4. QED BY <3>2, <3>3 DEF GeometryInv
  <2>4. window' \in [open : BOOLEAN, tracked : BOOLEAN, flushing : BOOLEAN, geometry : Nat,
                     timer : BOOLEAN, writes : Seq(Nat), writing : BOOLEAN]
    BY <2>1 DEF SaveInv, SaveTypeOK
  <2>5. QED BY <1>1, <1>4, <2>2, <2>3, <2>4 DEF SaveEnds
<1>7. QED BY <1>5, <1>6

LEMMA StartInvEnds ==
  ASSUME SaveInv, saves # <<>>, SaveEnds, UNCHANGED <<startup, ipc>>
  PROVE  StartInv'
<1>1. startup \notin {"load", "config"}
  BY DEF SaveInv, StartInv
<1>2. ASSUME startup = "window" PROVE window' = NoWindow
  <2>1. window = NoWindow /\ ~window.writing
    BY <1>2 DEF SaveInv, StartInv, NoWindow
  <2>2. QED BY <2>1 DEF SaveEnds
<1>3. QED BY <1>1, <1>2 DEF StartInv

LEMMA SaveWrittenInv == SaveInv /\ SaveWritten => SaveInv'
<1> SUFFICES ASSUME SaveInv, SaveWritten PROVE SaveInv'
  OBVIOUS
<1>1. /\ saving.stage = "writing" /\ saves # <<>> /\ saving.next = Applied(config, Head(saves))
      /\ UNCHANGED <<startup, ipc, config, answered, requested>>
  BY DEF SaveWritten, SaveInv, SavingInv
<1>2. CASE file' = saving.next /\ saving' = [saving EXCEPT !.stage = "renamed"] /\ UNCHANGED <<saves, window>>
  <2>1. /\ saving' \in [stage : {"idle", "writing", "renamed"}, next : Config]
        /\ saving'.next = saving.next /\ saving.next \in Config
    BY <1>2 DEF SaveInv, SaveTypeOK
  <2>2. SaveTypeOK' /\ SavingInv' /\ StartInv'
    BY <1>1, <1>2, <2>1 DEF SaveInv, SaveTypeOK, SavingInv, StartInv
  <2>3. QueueInv' /\ WindowInv' /\ GeometryInv'
    BY <1>1, <1>2 DEF SaveInv, QueueInv, WindowInv, GeometryInv
  <2>4. ASSUME NEW f \in Fields
        PROVE  file'[f] <= requested /\ answered[f] <= file'[f]
    <3>1. /\ Head(saves) \in QueuedSave /\ Head(saves) = saves[1] /\ 1 \in 1..Len(saves)
          /\ config \in Config
      BY <1>1, HeadTailProperties DEF SaveInv, SaveTypeOK
    <3>2. file'[f] = IF f \in Writes[Head(saves).kind] THEN Head(saves).value ELSE config[f]
      BY <1>1, <1>2, <3>1, AppliedType
    <3>3. /\ f \in Writes[Head(saves).kind] => config[f] <= Head(saves).value
          /\ Head(saves).value <= requested /\ Head(saves).value \in Nat
      BY <3>1, Values DEF SaveInv, QueueInv
    <3>4. config[f] <= requested /\ answered[f] <= config[f]
      BY <1>1 DEF SaveInv, AgeInv, StartInv
    <3>5. config[f] \in Nat /\ answered[f] \in Nat /\ requested \in Nat
      BY Values DEF SaveInv
    <3>6. QED BY <3>2, <3>3, <3>4, <3>5
  <2>5. AgeInv'
    BY <1>1, <2>4 DEF SaveInv, AgeInv
  <2>6. QED BY <2>2, <2>3, <2>5 DEF SaveInv
<1>3. CASE SaveEnds /\ UNCHANGED file
  <2>1. /\ saves' \in Seq(QueuedSave) /\ saving' = NotSaving
        /\ window' \in [open : BOOLEAN, tracked : BOOLEAN, flushing : BOOLEAN, geometry : Nat,
                        timer : BOOLEAN, writes : Seq(Nat), writing : BOOLEAN]
        /\ QueueInv' /\ WindowInv' /\ GeometryInv'
    BY <1>1, <1>3, SaveEndsInv
  <2>2. SaveTypeOK' /\ SavingInv' /\ AgeInv'
    BY <1>1, <1>3, <2>1, DefaultsType DEF SaveInv, SaveTypeOK, SavingInv, AgeInv, NotSaving
  <2>3. StartInv'
    BY <1>1, <1>3, StartInvEnds
  <2>4. QED BY <2>1, <2>2, <2>3 DEF SaveInv
<1>4. QED BY <1>2, <1>3 DEF SaveWritten, windowVars

LEMMA SaveAppliedInv == SaveInv /\ SaveApplied => SaveInv'
<1> SUFFICES ASSUME SaveInv, SaveApplied PROVE SaveInv'
  OBVIOUS
<1>1. /\ saving.stage = "renamed" /\ saves # <<>> /\ saving.next = Applied(config, Head(saves))
      /\ file = saving.next /\ config' = saving.next /\ answered' = Applied(answered, Head(saves))
      /\ SaveEnds /\ UNCHANGED <<startup, ipc, file, requested>>
  BY DEF SaveApplied, SaveInv, SavingInv
<1>2. /\ Head(saves) \in QueuedSave /\ answered \in Config /\ config \in Config
      /\ config' \in Config /\ answered' \in Config
  <2>1. Head(saves) \in QueuedSave /\ answered \in Config /\ config \in Config
    BY <1>1, HeadTailProperties DEF SaveInv, SaveTypeOK
  <2>2. QED BY <1>1, <2>1, AppliedType
<1>3. /\ saves' \in Seq(QueuedSave) /\ saving' = NotSaving
      /\ window' \in [open : BOOLEAN, tracked : BOOLEAN, flushing : BOOLEAN, geometry : Nat,
                      timer : BOOLEAN, writes : Seq(Nat), writing : BOOLEAN]
      /\ QueueInv' /\ WindowInv' /\ GeometryInv'
  BY <1>1, SaveEndsInv
<1>4. SaveTypeOK' /\ SavingInv'
  BY <1>1, <1>2, <1>3, DefaultsType DEF SaveInv, SaveTypeOK, SavingInv, NotSaving
<1>5. StartInv'
  BY <1>1, StartInvEnds
<1>6. ASSUME NEW f \in Fields
      PROVE  /\ config'[f] = file[f] /\ file'[f] = file[f]
             /\ answered'[f] <= file[f]
  <2>1. /\ file[f] = IF f \in Writes[Head(saves).kind] THEN Head(saves).value ELSE config[f]
        /\ answered'[f] = IF f \in Writes[Head(saves).kind] THEN Head(saves).value ELSE answered[f]
    BY <1>1, <1>2, AppliedType
  <2>2. answered[f] <= config[f]
    BY <1>1 DEF SaveInv, AgeInv, StartInv
  <2>3. file[f] \in Nat
    BY Values DEF SaveInv
  <2>4. QED BY <1>1, <2>1, <2>2, <2>3
<1>7. AgeInv'
  BY <1>1, <1>6 DEF SaveInv, AgeInv
<1>8. QED BY <1>3, <1>4, <1>5, <1>7 DEF SaveInv

-----------------------------------------------------------------------------
\* The window.

LEMMA CapturedType ==
  ASSUME window \in [open : BOOLEAN, tracked : BOOLEAN, flushing : BOOLEAN, geometry : Nat,
                     timer : BOOLEAN, writes : Seq(Nat), writing : BOOLEAN]
  PROVE  /\ Persisted \in [open : BOOLEAN, tracked : BOOLEAN, flushing : BOOLEAN, geometry : Nat,
                           timer : BOOLEAN, writes : Seq(Nat), writing : BOOLEAN]
         /\ Persisted.writes = Append(window.writes, window.geometry)
         /\ Persisted.writing = window.writing /\ Persisted.geometry = window.geometry
         /\ ~Persisted.timer /\ Persisted.open = window.open
<1>1. Append(window.writes, window.geometry) \in Seq(Nat)
  BY AppendProperties
<1>2. QED BY <1>1 DEF Persisted

\* The bounds are captured, and are then the last ones.
LEMMA Captured ==
  ASSUME SaveInv, window.tracked, UNCHANGED <<config, saves, requested>>,
         window'.writes = Append(window.writes, window.geometry), window'.writing = window.writing,
         window'.geometry = window.geometry, ~window'.timer, window'.tracked => window'.open
  PROVE  WindowInv' /\ GeometryInv'
<1>1. /\ window.writes \in Seq(Nat) /\ window.geometry \in Nat /\ Len(window.writes) \in Nat
      /\ requested \in Nat /\ config["windowGeometry"] \in Nat
      /\ \A i \in 1..Len(window.writes) : window.writes[i] \in Nat
      /\ window \in [open : BOOLEAN, tracked : BOOLEAN, flushing : BOOLEAN, geometry : Nat,
                     timer : BOOLEAN, writes : Seq(Nat), writing : BOOLEAN]
  BY Values, WrittenFields DEF SaveInv, SaveTypeOK
<1> DEFINE writes == Append(window.writes, window.geometry)
<1>2. /\ writes \in Seq(Nat) /\ Len(writes) = Len(window.writes) + 1 /\ writes # <<>>
      /\ writes[Len(window.writes) + 1] = window.geometry
      /\ \A i \in 1..Len(window.writes) : writes[i] = window.writes[i]
      /\ window.writes # <<>> => Head(writes) = Head(window.writes)
  BY <1>1, AppendProperties, HeadTailAppend
<1>3. /\ window'.writes = writes /\ window'.geometry = window.geometry /\ ~window'.timer
      /\ window'.writing = window.writing /\ (window'.tracked => window'.open)
  OBVIOUS
<1> HIDE DEF writes
<1>5. WindowInv /\ window.open /\ config["windowGeometry"] <= window.geometry /\ window.geometry <= requested
  BY DEF SaveInv, WindowInv
<1>6. ASSUME NEW i \in 1..Len(writes)
      PROVE  /\ writes[i] <= requested /\ writes[i] <= window.geometry
             /\ config["windowGeometry"] <= writes[i]
  <2>1. CASE i = Len(window.writes) + 1
    BY <1>1, <1>2, <1>5, <2>1
  <2>2. CASE i # Len(window.writes) + 1
    <3>1. i \in 1..Len(window.writes) /\ writes[i] = window.writes[i]
      BY <1>1, <1>2, <2>2
    <3>2. QED BY <3>1, <1>5 DEF WindowInv
  <2>3. QED BY <2>1, <2>2
<1>7. ASSUME NEW i \in 1..Len(writes), NEW j \in 1..Len(writes), i < j
      PROVE  writes[i] <= writes[j]
  <2>1. i \in 1..Len(window.writes) /\ writes[i] = window.writes[i]
    BY <1>1, <1>2, <1>7
  <2>2. CASE j = Len(window.writes) + 1
    BY <1>2, <1>6, <2>2
  <2>3. CASE j # Len(window.writes) + 1
    <3>1. j \in 1..Len(window.writes) /\ writes[j] = window.writes[j]
      BY <1>1, <1>2, <2>3
    <3>2. QED BY <1>7, <2>1, <3>1, <1>5 DEF WindowInv
  <2>4. QED BY <2>2, <2>3
<1>8. WindowInv'
  BY <1>3, <1>5, <1>6, <1>7 DEF WindowInv
<1>9. GeometryInv'
  BY <1>2, <1>3 DEF SaveInv, GeometryInv
<1>10. QED BY <1>8, <1>9

\* What is neither in the window nor, where it matters, in the queue.
LEMMA SaveUnchanged ==
  ASSUME SaveInv, UNCHANGED <<file, config, saves, saving, answered, requested, startup, ipc>>
  PROVE  SavingInv' /\ AgeInv' /\ QueueInv'
  BY DEF SaveInv, SavingInv, AgeInv, QueueInv

LEMMA WindowStepsInv ==
  SaveInv /\ (Moved \/ DebounceFired \/ WindowClosed \/ Quit \/ GeometryFlushed) => SaveInv'
<1> SUFFICES ASSUME SaveInv, Moved \/ DebounceFired \/ WindowClosed \/ Quit \/ GeometryFlushed
             PROVE  SaveInv'
  OBVIOUS
<1> DEFINE Window == [open : BOOLEAN, tracked : BOOLEAN, flushing : BOOLEAN, geometry : Nat,
                      timer : BOOLEAN, writes : Seq(Nat), writing : BOOLEAN]
<1>1. UNCHANGED <<startup, ipc, file, config, saves, saving, answered>>
  BY DEF Moved, DebounceFired, WindowClosed, Quit, GeometryFlushed, configVars
<1>2. window \in Window /\ requested \in Nat /\ WindowInv
  BY DEF SaveInv, SaveTypeOK
<1>3. ASSUME window' \in Window, WindowInv', GeometryInv', UNCHANGED requested,
             window' = window \/ window # NoWindow
      PROVE  SaveInv'
  <2>1. SaveTypeOK'
    BY <1>1, <1>3 DEF SaveInv, SaveTypeOK
  <2>2. StartInv'
    BY <1>1, <1>3 DEF SaveInv, StartInv, NoWindow
  <2>3. QED BY <1>1, <1>3, <2>1, <2>2, SaveUnchanged DEF SaveInv
<1>4. CASE Moved
  <2>1. /\ requested' = requested + 1 /\ window.open
        /\ window' = [window EXCEPT !.geometry = requested + 1, !.timer = window.tracked]
    BY <1>4 DEF Moved
  <2>2. /\ window' \in Window /\ window'.geometry = requested + 1 /\ window'.timer = window.tracked
        /\ window'.open = window.open /\ window'.tracked = window.tracked
        /\ window'.writes = window.writes /\ window'.writing = window.writing
    <3>1. window.tracked \in BOOLEAN /\ requested + 1 \in Nat
      BY <1>2
    <3>2. window' \in Window
      BY <1>2, <2>1, <3>1
    <3>3. QED BY <1>2, <2>1, <3>2
  <2>3. SaveTypeOK' /\ StartInv' /\ SavingInv'
    BY <1>1, <1>2, <2>1, <2>2 DEF SaveInv, SaveTypeOK, StartInv, SavingInv, NoWindow
  <2>4. AgeInv' /\ QueueInv'
    BY <1>1, <2>1, Values DEF SaveInv, AgeInv, QueueInv
  <2>5. WindowInv'
    <3>1. config["windowGeometry"] \in Nat /\ \A i \in 1..Len(window.writes) : window.writes[i] \in Nat
      BY Values, WrittenFields DEF SaveInv
    <3>2. config["windowGeometry"] <= requested
      BY WrittenFields DEF SaveInv, AgeInv
    <3>3. QED BY <3>1, <3>2, <1>1, <1>2, <2>1, <2>2 DEF WindowInv
  <2>6. GeometryInv'
    BY <1>1, <2>2 DEF SaveInv, GeometryInv
  <2>7. QED BY <2>3, <2>4, <2>5, <2>6 DEF SaveInv
<1>5. ASSUME window.tracked, UNCHANGED requested, window' \in Window,
             window'.writes = Append(window.writes, window.geometry), window'.writing = window.writing,
             window'.geometry = window.geometry, ~window'.timer, window'.tracked => window'.open
      PROVE  SaveInv'
  <2>1. WindowInv' /\ GeometryInv'
    BY <1>1, <1>5, Captured
  <2>2. window # NoWindow
    BY <1>5 DEF NoWindow
  <2>3. QED BY <2>1, <2>2, <1>3, <1>5
<1>6. ASSUME window' \in Window, UNCHANGED requested, window # NoWindow \/ window' = window,
             window'.writes = window.writes, window'.writing = window.writing,
             window'.geometry = window.geometry, window'.open => window.open,
             window'.tracked => window'.open, window'.timer => window'.tracked
      PROVE  SaveInv'
  <2>1. WindowInv'
    BY <1>1, <1>2, <1>6 DEF WindowInv
  <2>2. GeometryInv'
    BY <1>1, <1>6 DEF SaveInv, GeometryInv
  <2>3. QED BY <2>1, <2>2, <1>3, <1>6
<1>7. CASE DebounceFired
  <2>1. window' = Persisted /\ window.tracked /\ window.open /\ UNCHANGED requested
    BY <1>2, <1>7 DEF DebounceFired, configVars, WindowInv
  <2>2. /\ window' \in Window /\ window'.writes = Append(window.writes, window.geometry)
        /\ window'.writing = window.writing /\ window'.geometry = window.geometry
        /\ ~window'.timer /\ window'.open = window.open
    BY <1>2, <2>1, CapturedType
  <2>3. QED BY <2>1, <2>2, <1>5
<1>8. CASE WindowClosed
  <2>1. window.open /\ UNCHANGED requested
    BY <1>8 DEF WindowClosed, configVars
  <2>2. CASE window.tracked
    <3>1. window' = [Persisted EXCEPT !.open = FALSE, !.tracked = FALSE]
      BY <1>8, <2>2 DEF WindowClosed
    <3>2. /\ window' \in Window /\ window'.writes = Persisted.writes
          /\ window'.writing = Persisted.writing /\ window'.geometry = Persisted.geometry
          /\ ~window'.timer /\ ~window'.tracked
      BY <1>2, <3>1, CapturedType
    <3>3. QED BY <1>2, <2>1, <2>2, <3>2, <1>5, CapturedType
  <2>3. CASE ~window.tracked
    <3>1. window' = [window EXCEPT !.open = FALSE, !.tracked = FALSE]
      BY <1>8, <2>3 DEF WindowClosed
    <3>2. window.timer = FALSE
      BY <1>2, <2>3 DEF WindowInv
    <3>3. window # NoWindow
      BY <2>1 DEF NoWindow
    <3>4. QED BY <1>2, <2>1, <3>1, <3>2, <3>3, <1>6
  <2>4. QED BY <2>2, <2>3
<1>9. CASE Quit
  <2>1. CASE window.tracked
    <3>1. window' = [Persisted EXCEPT !.flushing = TRUE] /\ UNCHANGED requested /\ window.open
      BY <1>2, <1>9, <2>1 DEF Quit, configVars, WindowInv
    <3>2. /\ window' \in Window /\ window'.writes = Persisted.writes
          /\ window'.writing = Persisted.writing /\ window'.geometry = Persisted.geometry
          /\ ~window'.timer /\ window'.open = Persisted.open
      BY <1>2, <3>1, CapturedType
    <3>3. QED BY <1>2, <2>1, <3>1, <3>2, <1>5, CapturedType
  <2>2. CASE ~window.tracked
    BY <1>2, <1>9, <2>2, <1>6 DEF Quit, configVars, windowVars, WindowInv
  <2>3. QED BY <2>1, <2>2
<1>10. CASE GeometryFlushed
  <2>1. UNCHANGED requested
    BY <1>10 DEF GeometryFlushed, configVars
  <2>2. CASE window.flushing
    <3>1. window' = [window EXCEPT !.tracked = FALSE, !.timer = FALSE, !.flushing = FALSE]
      BY <1>10, <2>2 DEF GeometryFlushed
    <3>2. window # NoWindow
      BY <2>2 DEF NoWindow
    <3>3. QED BY <1>2, <2>1, <3>1, <3>2, <1>6
  <2>3. CASE ~window.flushing
    BY <1>2, <1>10, <2>1, <2>3, <1>6 DEF GeometryFlushed, WindowInv
  <2>4. QED BY <2>2, <2>3
<1>11. QED BY <1>4, <1>7, <1>8, <1>9, <1>10

-----------------------------------------------------------------------------
\* The start, and the end.

LEMMA NoWindowInv ==
  ASSUME SaveTypeOK', window' = NoWindow, saves' = <<>>
  PROVE  WindowInv' /\ GeometryInv' /\ QueueInv'
<1>1. requested' \in Nat
  BY DEF SaveTypeOK
<1>2. WindowInv'
  BY <1>1 DEF NoWindow, WindowInv
<1>3. GeometryInv' /\ QueueInv'
  BY DEF GeometryInv, QueueInv
<1>4. QED BY <1>2, <1>3

LEMMA ConfigLoadedInv == SaveInv /\ ConfigLoaded => SaveInv'
<1> SUFFICES ASSUME SaveInv, ConfigLoaded PROVE SaveInv'
  OBVIOUS
<1>1. /\ startup = "config" /\ startup' = "window" /\ saves = <<>> /\ window = NoWindow
      /\ saving.stage = "idle" /\ UNCHANGED <<file, saves, saving, requested, window>>
      /\ \/ config' = file /\ UNCHANGED answered
         \/ config' = Defaults /\ answered' = Defaults
  BY DEF ConfigLoaded, SaveInv, StartInv, SavingInv, SaveTypeOK, windowVars
<1>2. SaveTypeOK'
  BY <1>1, DefaultsType DEF SaveInv, SaveTypeOK
<1>3. WindowInv' /\ GeometryInv' /\ QueueInv'
  BY <1>1, <1>2, NoWindowInv
<1>4. StartInv' /\ SavingInv'
  BY <1>1 DEF SaveInv, StartInv, SavingInv
<1>5. ASSUME NEW f \in Fields
      PROVE  /\ config'[f] <= requested' /\ file'[f] <= requested'
             /\ answered'[f] <= file'[f] /\ answered'[f] <= config'[f]
  <2>1. file[f] \in Nat /\ answered[f] <= file[f] /\ file[f] <= requested /\ requested \in Nat
    BY Values DEF SaveInv, AgeInv
  <2>2. QED BY <1>1, <2>1, DefaultsType
<1>6. AgeInv'
  BY <1>5 DEF AgeInv
<1>7. QED BY <1>2, <1>3, <1>4, <1>6 DEF SaveInv

LEMMA WindowShownInv == SaveInv /\ WindowShown => SaveInv'
<1> SUFFICES ASSUME SaveInv, WindowShown PROVE SaveInv'
  OBVIOUS
<1>1. /\ startup = "window" /\ startup' = "waiting" /\ window = NoWindow
      /\ window' = [window EXCEPT !.open = TRUE, !.tracked = TRUE, !.geometry = config["windowGeometry"]]
      /\ UNCHANGED <<ipc, file, config, saves, saving, answered, requested>>
  BY DEF WindowShown, configVars, SaveInv, StartInv
<1>2. config["windowGeometry"] \in Nat /\ config["windowGeometry"] <= requested
  BY Values, WrittenFields DEF SaveInv, AgeInv
<1>3. /\ window' \in [open : BOOLEAN, tracked : BOOLEAN, flushing : BOOLEAN, geometry : Nat,
                      timer : BOOLEAN, writes : Seq(Nat), writing : BOOLEAN]
      /\ window'.open /\ window'.tracked /\ window'.geometry = config["windowGeometry"]
      /\ ~window'.timer /\ window'.writes = <<>>
  <2>1. window \in [open : BOOLEAN, tracked : BOOLEAN, flushing : BOOLEAN, geometry : Nat,
                    timer : BOOLEAN, writes : Seq(Nat), writing : BOOLEAN]
    BY DEF SaveInv, SaveTypeOK
  <2>2. ~window.timer /\ window.writes = <<>>
    BY <1>1 DEF NoWindow
  <2>3. /\ window' \in [open : BOOLEAN, tracked : BOOLEAN, flushing : BOOLEAN, geometry : Nat,
                        timer : BOOLEAN, writes : Seq(Nat), writing : BOOLEAN]
        /\ window'.open /\ window'.tracked /\ window'.geometry = config["windowGeometry"]
        /\ window'.timer = window.timer /\ window'.writes = window.writes
    BY <1>1, <1>2, <2>1
  <2>4. QED BY <2>2, <2>3
<1>4. SaveTypeOK'
  BY <1>1, <1>3 DEF SaveInv, SaveTypeOK
<1>5. StartInv' /\ SavingInv' /\ AgeInv' /\ QueueInv'
  BY <1>1 DEF SaveInv, StartInv, SavingInv, AgeInv, QueueInv
<1>6. WindowInv'
  BY <1>1, <1>2, <1>3 DEF WindowInv
<1>7. \A i \in 1..Len(saves) : saves[i].kind # "geometry"
  BY <1>1 DEF SaveInv, GeometryInv, NoWindow
<1>8. GeometryInv'
  BY <1>1, <1>7 DEF GeometryInv
<1>9. QED BY <1>4, <1>5, <1>6, <1>8 DEF SaveInv

LEMMA RestartedInv == SaveInv /\ Restarted => SaveInv'
<1> SUFFICES ASSUME SaveInv, Restarted PROVE SaveInv'
  OBVIOUS
<1>1. /\ startup' = "load" /\ ~ipc' /\ config' = Defaults /\ saves' = <<>> /\ saving' = NotSaving
      /\ window' = NoWindow /\ UNCHANGED <<file, answered, requested>>
  BY DEF Restarted, Blank
<1>2. SaveTypeOK'
  BY <1>1, DefaultsType DEF SaveInv, SaveTypeOK, NotSaving, NoWindow
<1>3. WindowInv' /\ GeometryInv' /\ QueueInv'
  BY <1>1, <1>2, NoWindowInv
<1>4. StartInv' /\ SavingInv'
  BY <1>1 DEF StartInv, SavingInv, NotSaving
<1>5. AgeInv'
  BY <1>1, DefaultsType, Values DEF SaveInv, AgeInv
<1>6. QED BY <1>2, <1>3, <1>4, <1>5 DEF SaveInv

\* Steps that neither ask for a write nor make one.
LEMMA OtherStepsInv ==
  ASSUME SaveInv, UNCHANGED <<configVars, windowVars>>, ipc' = ipc \/ ipc' = FALSE,
         \/ startup' = startup
         \/ startup = "load" /\ startup' = "config"
         \/ startup \in {"waiting", "binding"} /\ startup' \in {"binding", "ready"}
  PROVE  SaveInv'
<1>1. UNCHANGED <<file, config, saves, saving, answered, requested, window>>
  BY DEF configVars, windowVars
<1>2. SaveTypeOK' /\ SavingInv' /\ QueueInv' /\ WindowInv' /\ GeometryInv'
  BY <1>1 DEF SaveInv, SaveTypeOK, SavingInv, QueueInv, WindowInv, GeometryInv
<1>3. StartInv' /\ AgeInv'
  BY <1>1 DEF SaveInv, StartInv, AgeInv
<1>4. QED BY <1>2, <1>3 DEF SaveInv

LEMMA SaveInvStep == SaveInv /\ [MainNext]_allVars => SaveInv'
<1> SUFFICES ASSUME SaveInv, [MainNext]_allVars PROVE SaveInv'
  OBVIOUS
<1>1. CASE SaveAsked \/ SaveBegins \/ SaveWritten \/ SaveApplied
  BY <1>1, SaveAskedInv, SaveBeginsInv, SaveWrittenInv, SaveAppliedInv
<1>2. CASE GeometrySaved \/ Moved \/ DebounceFired \/ WindowClosed \/ Quit \/ GeometryFlushed
  BY <1>2, GeometrySavedInv, WindowStepsInv
<1>3. CASE ConfigLoaded \/ WindowShown \/ Restarted
  BY <1>3, ConfigLoadedInv, WindowShownInv, RestartedInv
<1>4. CASE StoreCreated
  BY <1>4, OtherStepsInv DEF StoreCreated
<1>5. CASE InitialSessionSettled \/ GatewayStarted
  BY <1>5, OtherStepsInv DEF InitialSessionSettled, GatewayStarted
<1>6. CASE RegenerateAsked \/ RegenerateBegins \/ KeyWritten \/ KeyActivated
  BY <1>6, OtherStepsInv DEF RegenerateAsked, RegenerateBegins, KeyWritten, KeyActivated
<1>7. CASE SettingsDrained \/ GatewayStopped \/ Exited
  BY <1>7, OtherStepsInv DEF SettingsDrained, GatewayStopped, Exited
<1>8. CASE GatewayStep \/ UNCHANGED allVars
  BY <1>8, OtherStepsInv DEF GatewayStep, allVars, mainVars
<1>9. QED BY <1>1, <1>2, <1>3, <1>4, <1>5, <1>6, <1>7, <1>8 DEF MainNext

\* A write that was reported as saved is in the file and stays there until a later
\* write of the same field, whatever was queued around it, failed or crashed
\* (terminal-config-persistence.ts, window-geometry-tracker.ts).
THEOREM AnsweredStaysSaved == MainSpec => []SavedIsKept
<1>1. SaveInv => SavedIsKept
  BY DEF SaveInv, AgeInv, SavedIsKept
<1>2. QED BY <1>1, SaveInvInit, SaveInvStep, PTL DEF MainSpec

-----------------------------------------------------------------------------
\* The bounds at the end.

\* What was flushed is the write that is awaited last, or a later one is current; what
\* is current is in the file.
FlushInv ==
    /\ awaited \in Nat /\ flushed \in Nat
    /\ \A f \in Fields : config[f] <= file[f]
    /\ startup \in {"load", "config"} \/ quitting = "no" => flushed = 0
    /\ flushed > 0 /\ (quitting # "geometry" \/ awaited = 0) => flushed <= config["windowGeometry"]
    /\ flushed > 0 /\ quitting = "geometry" /\ awaited > 0 =>
           awaited <= Len(window.writes) /\ flushed <= window.writes[awaited]

LEMMA FlushInvInit == MainInit => FlushInv
<1> SUFFICES ASSUME MainInit PROVE FlushInv
  OBVIOUS
<1>1. config = Defaults /\ file = Defaults /\ flushed = 0 /\ awaited = 0
  BY DEF MainInit
<1>2. QED BY <1>1, DefaultsType DEF FlushInv

LEMMA SaveWrittenFlush == SaveInv /\ FlushInv /\ SaveWritten => FlushInv'
<1> SUFFICES ASSUME SaveInv, FlushInv, SaveWritten PROVE FlushInv'
  OBVIOUS
<1>1. /\ saving.stage = "writing" /\ saves # <<>> /\ saving.next = Applied(config, Head(saves))
      /\ UNCHANGED <<startup, quitting, config>>
  BY DEF SaveWritten, SaveInv, SavingInv
<1>2. /\ Head(saves) \in QueuedSave /\ config \in Config
      /\ Head(saves) = saves[1] /\ 1 \in 1..Len(saves)
  BY <1>1, HeadTailProperties DEF SaveInv, SaveTypeOK
<1>3. CASE file' = saving.next /\ UNCHANGED windowVars
  <2>1. ASSUME NEW f \in Fields PROVE config[f] <= file'[f]
    <3>1. file'[f] = IF f \in Writes[Head(saves).kind] THEN Head(saves).value ELSE config[f]
      BY <1>1, <1>2, <1>3, AppliedType
    <3>2. f \in Writes[Head(saves).kind] => config[f] <= Head(saves).value
      BY <1>2 DEF SaveInv, QueueInv
    <3>3. config[f] \in Nat
      BY Values DEF SaveInv
    <3>4. QED BY <3>1, <3>2, <3>3
  <2>2. QED BY <1>1, <1>3, <2>1 DEF FlushInv, windowVars
<1>4. CASE /\ SaveEnds /\ UNCHANGED file
           /\ flushed' = IF Head(saves).kind = "geometry" THEN 0 ELSE flushed
  <2>1. CASE Head(saves).kind = "geometry"
    <3>1. awaited' \in Nat /\ flushed' = 0
      BY <1>4, <2>1 DEF FlushInv, SaveEnds
    <3>2. QED BY <1>1, <1>4, <3>1 DEF FlushInv
  <2>2. CASE Head(saves).kind # "geometry"
    <3>1. UNCHANGED <<window, flushed>>
      BY <1>4, <2>2 DEF SaveEnds
    <3>2. awaited' \in Nat /\ (quitting = "geometry" => UNCHANGED awaited)
      BY <1>4, <2>2 DEF FlushInv, SaveEnds
    <3>3. QED BY <1>1, <1>4, <3>1, <3>2 DEF FlushInv
  <2>3. QED BY <2>1, <2>2
<1>5. QED BY <1>3, <1>4 DEF SaveWritten

LEMMA SaveAppliedFlush == SaveInv /\ FlushInv /\ SaveApplied => FlushInv'
<1> SUFFICES ASSUME SaveInv, FlushInv, SaveApplied PROVE FlushInv'
  OBVIOUS
<1>1. /\ saves # <<>> /\ saving.next = Applied(config, Head(saves))
      /\ file = saving.next /\ config' = saving.next
      /\ SaveEnds /\ UNCHANGED <<startup, quitting, file, flushed>>
  BY DEF SaveApplied, SaveInv, SavingInv
<1>2. /\ Head(saves) \in QueuedSave /\ config \in Config
      /\ Head(saves) = saves[1] /\ 1 \in 1..Len(saves)
  BY <1>1, HeadTailProperties DEF SaveInv, SaveTypeOK
<1>3. \A f \in Fields : config'[f] <= file'[f]
  BY <1>1, Values DEF SaveInv
<1>4. awaited' \in Nat /\ flushed' \in Nat
  BY <1>1 DEF FlushInv, SaveEnds
<1>5. config["windowGeometry"] \in Nat
  BY Values, WrittenFields DEF SaveInv
<1>6. CASE Head(saves).kind = "geometry"
  <2>1. /\ window.writing /\ window.writes # <<>> /\ Head(saves).value = Head(window.writes)
        /\ config["windowGeometry"] <= Head(saves).value
    BY <1>2, <1>6, WrittenFields DEF SaveInv, GeometryInv, QueueInv
  <2>2. config'["windowGeometry"] = Head(saves).value
    BY <1>1, <1>2, <1>6, AppliedType, WrittenFields
  <2>3. /\ window.writes \in Seq(Nat) /\ Head(window.writes) = window.writes[1]
        /\ Head(window.writes) \in Nat
        /\ Len(Tail(window.writes)) = Len(window.writes) - 1 /\ Len(window.writes) \in Nat
        /\ \A i \in 1..Len(Tail(window.writes)) : Tail(window.writes)[i] = window.writes[i + 1]
    <3>1. window.writes \in Seq(Nat) /\ window.writes # <<>>
      BY <2>1 DEF SaveInv, SaveTypeOK
    <3>2. QED BY <3>1, HeadTailProperties
  <2>4. window'.writes = Tail(window.writes) /\ awaited' = IF awaited > 0 THEN awaited - 1 ELSE awaited
    <3>1. window' = [window EXCEPT !.writes = Tail(@), !.writing = FALSE]
      BY <1>1, <1>6, <2>1 DEF SaveEnds
    <3>2. awaited' = IF awaited > 0 THEN awaited - 1 ELSE awaited
      BY <1>1, <1>6 DEF SaveEnds
    <3>3. window \in [open : BOOLEAN, tracked : BOOLEAN, flushing : BOOLEAN, geometry : Nat,
                      timer : BOOLEAN, writes : Seq(Nat), writing : BOOLEAN]
      BY DEF SaveInv, SaveTypeOK
    <3>4. QED BY <3>1, <3>2, <3>3
  <2>5. ASSUME flushed > 0, quitting # "geometry" \/ awaited' = 0
        PROVE  flushed <= config'["windowGeometry"]
    <3>1. CASE quitting # "geometry" \/ awaited = 0
      BY <1>5, <2>1, <2>2, <2>3, <2>5, <3>1 DEF FlushInv
    <3>2. CASE quitting = "geometry" /\ awaited = 1
      BY <2>1, <2>2, <2>3, <2>5, <3>2 DEF FlushInv
    <3>3. awaited \in Nat
      BY DEF FlushInv
    <3>4. QED BY <2>4, <2>5, <3>1, <3>2, <3>3
  <2>6. ASSUME flushed > 0, quitting = "geometry", awaited' > 0
        PROVE  awaited' <= Len(window'.writes) /\ flushed <= window'.writes[awaited']
    <3>1. /\ awaited \in Nat /\ awaited > 1 /\ awaited' = awaited - 1
          /\ awaited <= Len(window.writes) /\ flushed <= window.writes[awaited]
      BY <2>4, <2>6 DEF FlushInv
    <3>2. awaited' \in 1..Len(Tail(window.writes))
      BY <2>3, <3>1
    <3>3. window'.writes[awaited'] = window.writes[awaited]
      BY <2>3, <2>4, <3>1, <3>2
    <3>4. QED BY <2>3, <2>4, <3>1, <3>2, <3>3
  <2>7. QED BY <1>1, <1>3, <1>4, <2>5, <2>6 DEF FlushInv
<1>7. CASE Head(saves).kind # "geometry"
  <2>1. config'["windowGeometry"] = config["windowGeometry"]
    BY <1>1, <1>2, <1>7, AppliedType, WrittenFields DEF QueuedSave
  <2>2. window' = window
    BY <1>1, <1>7 DEF SaveEnds
  <2>3. quitting = "geometry" => UNCHANGED awaited
    BY <1>1, <1>7 DEF SaveEnds
  <2>4. QED BY <1>1, <1>3, <1>4, <2>1, <2>2, <2>3 DEF FlushInv
<1>8. QED BY <1>6, <1>7

LEMMA FlushInvStep == SaveInv /\ FlushInv /\ [MainNext]_allVars => FlushInv'
<1> SUFFICES ASSUME SaveInv, FlushInv, [MainNext]_allVars PROVE FlushInv'
  OBVIOUS
<1>1. CASE SaveWritten \/ SaveApplied
  BY <1>1, SaveWrittenFlush, SaveAppliedFlush
<1>2. CASE ConfigLoaded
  <2>1. /\ startup = "config" /\ (config' = file \/ config' = Defaults)
        /\ UNCHANGED <<file, flushed, awaited>>
    BY <1>2 DEF ConfigLoaded, windowVars
  <2>2. \A f \in Fields : config'[f] <= file'[f]
    BY <2>1, DefaultsType, Values DEF SaveInv
  <2>3. startup = "config" /\ flushed = 0 /\ UNCHANGED <<file, flushed, awaited>>
    BY <1>2 DEF ConfigLoaded, windowVars, FlushInv
  <2>4. QED BY <2>2, <2>3 DEF FlushInv
<1>3. CASE Restarted
  <2>1. config' = Defaults /\ flushed' = 0 /\ awaited' = 0 /\ UNCHANGED file
    BY <1>3 DEF Restarted, Blank
  <2>2. QED BY <2>1, DefaultsType, Values DEF SaveInv, FlushInv
<1>4. CASE Quit
  <2>1. /\ quitting = "no" /\ quitting' = "geometry" /\ flushed = 0
        /\ UNCHANGED <<startup, file, config>>
    BY <1>4 DEF Quit, configVars, FlushInv
  <2>2. CASE window.tracked
    <3>1. /\ window' = [Persisted EXCEPT !.flushing = TRUE] /\ flushed' = window.geometry
          /\ awaited' = Len(window'.writes)
      BY <1>4, <2>2 DEF Quit
    <3>2. /\ window \in [open : BOOLEAN, tracked : BOOLEAN, flushing : BOOLEAN, geometry : Nat,
                         timer : BOOLEAN, writes : Seq(Nat), writing : BOOLEAN]
          /\ window.writes \in Seq(Nat) /\ window.geometry \in Nat
      BY DEF SaveInv, SaveTypeOK
    <3>3. window'.writes = Append(window.writes, window.geometry)
      BY <3>1, <3>2, CapturedType
    <3>4. Len(window'.writes) = Len(window.writes) + 1 /\ window'.writes[Len(window.writes) + 1] = window.geometry
      BY <3>2, <3>3, AppendProperties
    <3>5. Len(window.writes) \in Nat
      BY <3>2
    <3>6. startup \notin {"load", "config"}
      BY <2>2 DEF SaveInv, StartInv, NoWindow
    <3>7. QED BY <2>1, <3>1, <3>2, <3>4, <3>5, <3>6 DEF FlushInv
  <2>3. CASE ~window.tracked
    BY <1>4, <2>1, <2>3 DEF Quit, windowVars, FlushInv
  <2>4. QED BY <2>2, <2>3
<1>5. CASE GeometryFlushed
  <2>1. /\ quitting = "geometry" /\ quitting' = "settings" /\ awaited = 0 /\ awaited' = Len(saves)
        /\ UNCHANGED <<startup, file, config, flushed>>
    BY <1>5 DEF GeometryFlushed, configVars
  <2>2. QED BY <2>1, Values DEF SaveInv, FlushInv
<1>6. CASE DebounceFired \/ WindowClosed \/ Moved \/ WindowShown \/ GeometrySaved
  <2>1. UNCHANGED <<quitting, file, config, flushed, awaited>>
    BY <1>6 DEF DebounceFired, WindowClosed, Moved, WindowShown, GeometrySaved, configVars
  <2>2. startup' = startup \/ startup' \notin {"load", "config"}
    BY <1>6 DEF DebounceFired, WindowClosed, Moved, WindowShown, GeometrySaved
  <2>3. ASSUME NEW i \in 1..Len(window.writes)
        PROVE  i \in 1..Len(window'.writes) /\ window'.writes[i] = window.writes[i]
    <3>1. /\ window \in [open : BOOLEAN, tracked : BOOLEAN, flushing : BOOLEAN, geometry : Nat,
                         timer : BOOLEAN, writes : Seq(Nat), writing : BOOLEAN]
          /\ window.writes \in Seq(Nat) /\ window.geometry \in Nat
      BY DEF SaveInv, SaveTypeOK
    <3>2. window'.writes = window.writes \/ window'.writes = Append(window.writes, window.geometry)
      <4>1. CASE Moved \/ WindowShown \/ GeometrySaved
        BY <3>1, <4>1 DEF Moved, WindowShown, GeometrySaved
      <4>2. CASE DebounceFired
        BY <3>1, <4>2, CapturedType DEF DebounceFired
      <4>3. CASE WindowClosed
        <5>1. CASE window.tracked
          BY <3>1, <4>3, <5>1, CapturedType DEF WindowClosed
        <5>2. CASE ~window.tracked
          BY <3>1, <4>3, <5>2 DEF WindowClosed
        <5>3. QED BY <5>1, <5>2
      <4>4. QED BY <1>6, <4>1, <4>2, <4>3
    <3>3. QED BY <3>1, <3>2, AppendProperties
  <2>4. ASSUME awaited > 0, awaited <= Len(window.writes)
        PROVE  awaited <= Len(window'.writes) /\ window'.writes[awaited] = window.writes[awaited]
    <3>1. awaited \in 1..Len(window.writes)
      BY <2>4, Values DEF SaveInv, FlushInv
    <3>2. QED BY <2>3, <3>1
  <2>5. QED BY <2>1, <2>2, <2>4 DEF FlushInv
<1>7. CASE \/ StoreCreated \/ InitialSessionSettled \/ GatewayStarted \/ RegenerateAsked
           \/ RegenerateBegins \/ KeyWritten \/ KeyActivated \/ SaveAsked \/ SaveBegins
           \/ GatewayStep \/ UNCHANGED allVars
  <2>1. UNCHANGED <<quitting, file, config, window, flushed, awaited>>
    BY <1>7 DEF StoreCreated, InitialSessionSettled, GatewayStarted, RegenerateAsked,
                RegenerateBegins, KeyWritten, KeyActivated, SaveAsked, SaveBegins, GatewayStep,
                allVars, mainVars, configVars, windowVars
  <2>2. \/ startup' = startup \/ startup = "load"
        \/ startup' \notin {"load", "config"}
    BY <1>7 DEF StoreCreated, InitialSessionSettled, GatewayStarted, RegenerateAsked,
                RegenerateBegins, KeyWritten, KeyActivated, SaveAsked, SaveBegins, GatewayStep,
                allVars, mainVars
  <2>3. QED BY <2>1, <2>2 DEF FlushInv
<1>8. CASE SettingsDrained \/ GatewayStopped \/ Exited
  <2>1. /\ UNCHANGED <<startup, file, config, window, flushed, awaited>>
        /\ quitting \notin {"no", "geometry"} /\ quitting' \notin {"no", "geometry"}
    BY <1>8 DEF SettingsDrained, GatewayStopped, Exited, configVars, windowVars
  <2>2. QED BY <2>1 DEF FlushInv
<1>9. QED BY <1>1, <1>2, <1>3, <1>4, <1>5, <1>6, <1>7, <1>8 DEF MainNext

\* When the app is quit with its window open, the bounds of the window are in the file
\* before the settings are drained, even in the middle of a debounce, unless writing
\* bounds fails (index.ts, shutdownApp).
THEOREM FlushedGeometryIsSaved == MainSpec => []GeometrySurvivesQuit
<1>1. SaveInv /\ FlushInv => GeometrySurvivesQuit
  <2> SUFFICES ASSUME SaveInv, FlushInv, quitting \in {"settings", "gateway", "sessions", "exited"},
                      flushed > 0
               PROVE  file["windowGeometry"] >= flushed
    BY DEF GeometrySurvivesQuit
  <2>1. flushed <= config["windowGeometry"] /\ config["windowGeometry"] <= file["windowGeometry"]
    BY WrittenFields DEF FlushInv
  <2>2. config["windowGeometry"] \in Nat /\ file["windowGeometry"] \in Nat /\ flushed \in Nat
    BY Values, WrittenFields DEF SaveInv, FlushInv
  <2>3. QED BY <2>1, <2>2
<1>2. QED BY <1>1, SaveInvInit, SaveInvStep, FlushInvInit, FlushInvStep, PTL DEF MainSpec

-----------------------------------------------------------------------------
\* The gateway, through starts, quits, crashes and restarts.

GatewayInv ==
    /\ TypeInv /\ ControlInv /\ OwnershipInv /\ AuthorityInv
    /\ AnnouncedIsActual /\ ServiceInv

LEMMA GatewayInvInit == Init => GatewayInv
<1>1. Init => OwnershipInv
  BY DEF Init, Idle, OwnershipInv, Justified
<1>2. Init => AuthorityInv
  BY DEF Init, AuthorityInv, AuthorityIsCurrent, ConnectionActive
<1>3. Init => AnnouncedIsActual
  BY DEF Init, AnnouncedIsActual, ControlState
<1>4. QED BY <1>1, <1>2, <1>3, TypeInvInit, ControlInit, ServiceInit DEF GatewayInv

\* A new process has the gateway of an initial state.
LEMMA GatewayInvBlank == GatewayBlank => GatewayInv'
<1>1. GatewayBlank => Init'
  BY DEF GatewayBlank, Init
<1>2. Init' => GatewayInv'
  BY GatewayInvInit, PTL
<1>3. QED BY <1>1, <1>2

LEMMA GatewayInvStep ==
  ASSUME GatewayInv, [Next]_vars
  PROVE  GatewayInv'
<1>1. TypeInv' /\ Effect
  BY TypeInvStep, StepEffect DEF GatewayInv
<1>2. ControlInv' /\ OwnershipInv' /\ AuthorityInv' /\ AnnouncedIsActual' /\ ServiceInv'
  BY <1>1, ControlStep, OwnershipStep, AuthorityStep, AnnouncedStep, ServiceStep DEF GatewayInv
<1>3. QED BY <1>1, <1>2 DEF GatewayInv

\* No key is past the last one, so that the gateway is started with a key that can be
\* active; and no client has connected by then, so that none has to be dropped for it.
StartedInv ==
    /\ keyFile <= MaxKey /\ credential <= MaxKey /\ regeneration.key <= MaxKey
    /\ startup = "binding" => binding \in 1..MaxKey
    /\ startup # "ready" => ~gateway /\ \A c \in Connections : socket[c] = "closed"

StartInvs == KeyInv /\ GatewayInv /\ StartedInv

\* Every step is one of the gateway's, or leaves it alone, except those that start it
\* and those that begin a new process.
LEMMA GatewaySteps ==
  ASSUME [MainNext]_allVars
  PROVE  [Next]_vars \/ GatewayStarted \/ Exited \/ Restarted
<1>1. CASE StoreCreated \/ ConfigLoaded \/ WindowShown \/ InitialSessionSettled
  BY <1>1 DEF StoreCreated, ConfigLoaded, WindowShown, InitialSessionSettled
<1>2. CASE RegenerateAsked \/ RegenerateBegins \/ KeyWritten \/ KeyActivated
  BY <1>2 DEF RegenerateAsked, RegenerateBegins, KeyWritten, KeyActivated, Next
<1>3. CASE SaveAsked \/ SaveBegins \/ SaveWritten \/ SaveApplied \/ Moved \/ DebounceFired
           \/ GeometrySaved \/ WindowClosed
  BY <1>3 DEF SaveAsked, SaveBegins, SaveWritten, SaveApplied, Moved, DebounceFired,
              GeometrySaved, WindowClosed
<1>4. CASE Quit \/ GeometryFlushed \/ SettingsDrained \/ GatewayStopped
  BY <1>4 DEF Quit, GeometryFlushed, SettingsDrained, GatewayStopped, Next
<1>5. CASE GatewayStep
  BY <1>5 DEF GatewayStep, Next, ConnectionNext, SessionNext
<1>6. CASE UNCHANGED allVars
  BY <1>6 DEF allVars
<1>7. QED BY <1>1, <1>2, <1>3, <1>4, <1>5, <1>6 DEF MainNext

LEMMA GatewayStartedInv ==
  ASSUME StartInvs, GatewayStarted
  PROVE  GatewayInv'
<1>1. CASE UNCHANGED vars
  BY <1>1, GatewayInvStep DEF StartInvs
<1>2. CASE accessKey' = binding /\ granted' = {}
           /\ UNCHANGED <<socket, authenticated, controlVars, request, revokedSessionIds,
                          operationSessions, stopped, externalVars, presented>>
  <2>1. /\ binding \in 1..MaxKey /\ \A c \in Connections : socket[c] = "closed"
        /\ TypeInv /\ ControlInv /\ OwnershipInv /\ AuthorityInv /\ AnnouncedIsActual /\ ServiceInv
    BY DEF StartInvs, StartedInv, GatewayStarted, GatewayInv
  <2> USE DEF controlVars, externalVars
  <2>2. TypeInv'
    BY <1>2, <2>1 DEF TypeInv, TypeOK, RequestsWellFormed
  <2>3. ControlInv'
    BY <1>2, <2>1 DEF ControlInv, ControlAgrees, ControllersAreActive, ConnectionActive
  <2>4. OwnershipInv'
    BY <1>2, <2>1 DEF OwnershipInv
  <2>5. AuthorityInv'
    BY <1>2, <2>1 DEF AuthorityInv, AuthorityIsCurrent, ConnectionActive
  <2>6. AnnouncedIsActual'
    BY <1>2, <2>1 DEF AnnouncedIsActual, ControlState
  <2>7. ServiceInv'
    BY <1>2, <2>1 DEF ServiceInv, OperationIndexIsLive, GrantsAreTrue, Sound
  <2>8. QED BY <2>2, <2>3, <2>4, <2>5, <2>6, <2>7 DEF GatewayInv
<1>3. QED BY <1>1, <1>2 DEF GatewayStarted

LEMMA StartedInvInit == MainInit => StartedInv
  BY MaxKeyAssumption DEF MainInit, Init, StartedInv, NoRegeneration

\* Only where there is a gateway can a client connect.
LEMMA NoneConnects ==
  ASSUME TypeInv, GatewayStep, ~gateway, \A c \in Connections : socket[c] = "closed"
  PROVE  \A c \in Connections : socket'[c] = "closed"
<1>1. ASSUME NEW r \in Requests, RequestNext(r)
      PROVE  UNCHANGED socket
  BY <1>1 DEF RequestNext, ReceiveCommand, ReceiveAllowed, ReceiveAsk, PermissionAllowed,
     PermissionRefused, AttachServed, AttachFailed, SessionSpawned, CreateServed, RunServed,
     CreatingEnded, Served, CloseServed, CloseOperationServed, Elsewhere
<1>2. ASSUME NEW c \in Connections, SocketClosed(c) \/ \E key \in 1..MaxKey : Authenticate(c, key)
      PROVE  FALSE
  BY <1>2 DEF SocketClosed, Authenticate
<1>3. ASSUME NEW s \in Sessions, HumanCreate(s) \/ RemoveSession(s) \/ RemoveOperation(s)
      PROVE  UNCHANGED socket
  BY <1>3 DEF HumanCreate, RemoveSession, RemoveOperation, gatewayVars
<1>4. QED BY <1>1, <1>2, <1>3 DEF GatewayStep

LEMMA StartedInvStep ==
  ASSUME StartInvs, [MainNext]_allVars
  PROVE  StartedInv'
<1> USE MaxKeyAssumption DEF StartInvs, KeyInv, KeyTypeOK, StartedInv
<1>1. CASE StoreCreated
  BY <1>1 DEF StoreCreated, FreshKey, vars, gatewayVars
<1>2. CASE ConfigLoaded \/ WindowShown
  BY <1>2 DEF ConfigLoaded, WindowShown, keyVars, vars, gatewayVars
<1>3. CASE InitialSessionSettled
  BY <1>3 DEF InitialSessionSettled, vars, gatewayVars
<1>4. CASE GatewayStarted
  BY <1>4 DEF GatewayStarted
<1>5. CASE RegenerateAsked \/ RegenerateBegins
  BY <1>5 DEF RegenerateAsked, RegenerateBegins, FreshKey, vars, gatewayVars
<1>6. CASE KeyWritten
  <2>1. /\ UNCHANGED <<startup, binding, gateway, socket, credential>>
        /\ regeneration'.key \in {regeneration.key, 0}
        /\ keyFile' \in {keyFile, regeneration.key}
    BY <1>6 DEF KeyWritten, vars, gatewayVars
  <2>2. QED BY <2>1
<1>7. CASE KeyActivated
  <2>1. /\ UNCHANGED <<startup, binding, gateway, keyFile>>
        /\ regeneration'.key = 0 /\ credential' = regeneration.key
        /\ ~gateway => UNCHANGED socket
    BY <1>7 DEF KeyActivated, vars, gatewayVars
  <2>2. QED BY <2>1
<1>8. CASE SaveAsked \/ SaveBegins \/ SaveWritten \/ SaveApplied \/ Moved \/ DebounceFired
           \/ GeometrySaved \/ WindowClosed
  BY <1>8 DEF SaveAsked, SaveBegins, SaveWritten, SaveApplied, Moved, DebounceFired,
              GeometrySaved, WindowClosed, keyVars, vars, gatewayVars
<1>9. CASE Quit \/ GeometryFlushed \/ SettingsDrained \/ GatewayStopped
  BY <1>9 DEF Quit, GeometryFlushed, SettingsDrained, GatewayStopped, keyVars, vars, gatewayVars
<1>10. CASE Exited
  BY <1>10 DEF Exited, GatewayBlank, keyVars
<1>11. CASE Restarted
  BY <1>11 DEF Restarted, Blank, GatewayBlank, NoRegeneration
<1>12. CASE GatewayStep
  <2>1. UNCHANGED <<startup, binding, gateway, keyFile, credential, regeneration>>
    BY <1>12 DEF GatewayStep, mainVars, keyVars
  <2>2. startup # "ready" => \A c \in Connections : socket'[c] = "closed"
    BY <1>12, NoneConnects DEF GatewayInv
  <2>3. QED BY <2>1, <2>2
<1>13. CASE UNCHANGED allVars
  BY <1>13 DEF allVars, mainVars, keyVars, vars, gatewayVars
<1>14. QED
  BY <1>1, <1>2, <1>3, <1>4, <1>5, <1>6, <1>7, <1>8, <1>9, <1>10, <1>11, <1>12, <1>13 DEF MainNext

LEMMA StartInvsInit == MainInit => StartInvs
  BY KeyInvInit, GatewayInvInit, StartedInvInit DEF MainInit, StartInvs

LEMMA StartInvsStep == StartInvs /\ [MainNext]_allVars => StartInvs'
<1> SUFFICES ASSUME StartInvs, [MainNext]_allVars PROVE StartInvs'
  OBVIOUS
<1>1. KeyInv' /\ StartedInv'
  BY KeyInvStep, StartedInvStep DEF StartInvs
<1>2. ASSUME [Next]_vars PROVE GatewayInv'
  BY <1>2, GatewayInvStep DEF StartInvs
<1>3. ASSUME Exited \/ Restarted PROVE GatewayInv'
  BY <1>3, GatewayInvBlank DEF Exited, Restarted
<1>4. GatewayInv'
  BY <1>2, <1>3, GatewaySteps, GatewayStartedInv
<1>5. QED BY <1>1, <1>4 DEF StartInvs

\* What the gateway promises holds of the gateway of every process: its registry and its
\* connections agree, no command outlives the ownership it was authorized by, replies and
\* announcements tell what is so, and no client acts on a key that is no longer active;
\* through starts with a key that was regenerated meanwhile, quits, crashes and restarts.
THEOREM GatewayHolds ==
  MainSpec => [](/\ ControlAgrees /\ UnownedRequestsAborted /\ GrantsAreTrue
                 /\ AnnouncedIsActual /\ OperationIndexIsLive /\ AuthorityIsCurrent)
<1>1. StartInvs => /\ ControlAgrees /\ UnownedRequestsAborted /\ GrantsAreTrue
                   /\ AnnouncedIsActual /\ OperationIndexIsLive /\ AuthorityIsCurrent
  BY OwnershipMeaning DEF StartInvs, GatewayInv, ControlInv, ServiceInv, AuthorityInv
<1>2. QED BY <1>1, StartInvsInit, StartInvsStep, PTL DEF MainSpec

\* Within a process control passes as SessionControl specifies it: from client to client
\* only through "detached", and out of "revoked" only when the human allows agents or the
\* session ends.  Nothing but the end of the process, and with it of its sessions, takes
\* control away otherwise; the start of a gateway does not.
THEOREM ControlHolds ==
  MainSpec => [][SC!Next \/ Exited \/ Restarted]_control
<1>1. ASSUME StartInvs, [MainNext]_allVars
      PROVE  [SC!Next \/ Exited \/ Restarted]_control
  <2>1. ASSUME [Next]_vars PROVE [SC!Next]_control
    <3>1. TypeInv /\ ControlInv
      BY <1>1 DEF StartInvs, GatewayInv
    <3>2. QED BY <2>1, <3>1, StepEffect, EffectOnControl
  <2>2. CASE GatewayStarted
    BY <2>2 DEF GatewayStarted, controlVars, vars, gatewayVars, control
  <2>3. QED BY <1>1, <2>1, <2>2, GatewaySteps
<1>2. StartInvs /\ [MainNext]_allVars => [SC!Next \/ Exited \/ Restarted]_control
  BY <1>1
<1>3. QED BY <1>2, StartInvsInit, StartInvsStep, PTL DEF MainSpec

=============================================================================
