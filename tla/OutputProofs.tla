---------------------------- MODULE OutputProofs ----------------------------
(***************************************************************************)
(* Safety of captured operations, for every number of closing calls,       *)
(* retries, observers and chunks of output; and, each by an invariant of   *)
(* its own, of what becomes of output: the markers of a shell, for every   *)
(* number of lines and nested shells; the startup handshake, for every     *)
(* query and every division of the output into chunks; recordings, for     *)
(* every number of events and failed writes; the log files, for every      *)
(* number of files and size of records; and the output journals, for every *)
(* capacity, width of characters and number of chunks.                     *)
(***************************************************************************)
EXTENDS MCOutput, SequenceLemmas

-----------------------------------------------------------------------------
\* Captured operations.

\* Completion is the end of the process; a close continues only when the operation
\* is completed.  This is what makes a removal safe.
EndIsCompletion ==
    /\ status = "completed" <=> process = "ended"
    /\ \A c \in Calls : closing[c] = "resumed" => status = "completed"
    /\ run = "spawning" <=> process = "spawning"
    /\ status = "running" => version <= MaxOutput

IInv ==
    /\ TypeOK
    /\ EndIsCompletion
    /\ RemovedOnlyEnded
    /\ ExpiryIsArmed
    /\ RemovedOnce
    /\ NoMissedWakeup

LEMMA InitIInv == Init => IInv
<1> SUFFICES ASSUME Init PROVE IInv
  OBVIOUS
<1>1. TypeOK
  <2>1. signalled \in BOOLEAN /\ recorded \in BOOLEAN /\ expiry \in BOOLEAN
    BY Zenon DEF Init
  <2>2. version \in 0..(MaxOutput + 1) /\ attempts \in [Calls -> 0..MaxRetries]
    BY MaxOutputAssumption, MaxRetriesAssumption DEF Init
  <2> QED
    BY <2>1, <2>2 DEF Init, TypeOK
<1>2. EndIsCompletion /\ RemovedOnlyEnded /\ RemovedOnce /\ NoMissedWakeup
  BY MaxOutputAssumption DEF Init, EndIsCompletion, RemovedOnlyEnded, RemovedOnce, NoMissedWakeup
<1>3. ExpiryIsArmed
  BY Zenon DEF Init, ExpiryIsArmed
<1> QED
  BY <1>1, <1>2, <1>3 DEF IInv

\* What RemoveCaptured leaves behind, whoever calls it.
LEMMA RemovalKeepsIInv ==
    ASSUME IInv, process' \in {"failed", "ended"}, RemoveCaptured,
           process' = "ended" <=> process = "ended",
           run' \in {"spawning", "waiting", "resumed", "running", "completed", "failed"},
           run' # "spawning",
           closing' \in [Calls -> {"idle", "killing", "waiting", "resumed"} \cup Settled],
           \A c \in Calls : closing'[c] = "resumed" => closing[c] = "resumed",
           UNCHANGED <<signalled, status, version, attempts>>
    PROVE  IInv'
<1>1. TypeOK'
  <2>1. expiry' \in BOOLEAN /\ recorded' \in BOOLEAN
    BY Zenon DEF RemoveCaptured
  <2>2. waiting' \subseteq Observers \X (0..MaxOutput) /\ notices' \in Nat
    BY DEF RemoveCaptured, IInv, TypeOK
  <2> QED
    BY <2>1, <2>2 DEF IInv, TypeOK
<1>2. EndIsCompletion'
  BY DEF IInv, TypeOK, EndIsCompletion
<1>3. ~recorded' /\ ~expiry'
  BY Zenon DEF RemoveCaptured
<1>4. RemovedOnlyEnded' /\ ExpiryIsArmed'
  BY <1>3, Zenon DEF RemovedOnlyEnded, ExpiryIsArmed
<1>5. RemovedOnce'
  BY <1>3 DEF RemovedOnce, RemoveCaptured, IInv
<1>6. NoMissedWakeup'
  BY Zenon DEF RemoveCaptured, NoMissedWakeup
<1> QED
  BY <1>1, <1>2, <1>4, <1>5, <1>6 DEF IInv

LEMMA ProcessKeepsIInv ==
    IInv /\ (SpawnSucceeded \/ SpawnFailed \/ AcceptOutput \/ ShellExits \/ AcceptExit) => IInv'
<1>1. IInv /\ SpawnSucceeded => IInv'
  BY DEF IInv, TypeOK, EndIsCompletion, RemovedOnlyEnded, ExpiryIsArmed, RemovedOnce,
         NoMissedWakeup, Kept, SpawnSucceeded
<1>2. IInv /\ SpawnFailed => IInv'
  BY RemovalKeepsIInv DEF IInv, TypeOK, SpawnFailed
<1>3. IInv /\ AcceptOutput => IInv'
  BY MaxOutputAssumption
     DEF IInv, TypeOK, EndIsCompletion, RemovedOnlyEnded, ExpiryIsArmed, RemovedOnce,
         NoMissedWakeup, Notify, AcceptOutput
<1>4. IInv /\ ShellExits => IInv'
  BY DEF IInv, TypeOK, EndIsCompletion, RemovedOnlyEnded, ExpiryIsArmed, RemovedOnce,
         NoMissedWakeup, Kept, ShellExits
<1>5. ASSUME IInv, AcceptExit PROVE IInv'
  <2>1. recorded /\ version \in 0..MaxOutput /\ waiting' = {}
    <3>1. recorded
      BY <1>5 DEF AcceptExit, IInv, RemovedOnlyEnded
    <3>2. status' # "running"
      BY <1>5 DEF AcceptExit
    <3>3. waiting' = {}
      BY <1>5, <3>2 DEF AcceptExit, Notify
    <3>4. version \in 0..MaxOutput
      BY <1>5 DEF AcceptExit, IInv, TypeOK, EndIsCompletion, NoMissedWakeup
    <3> QED
      BY <3>1, <3>3, <3>4
  <2>2. TypeOK'
    <3>1. expiry' \in BOOLEAN
      BY <1>5 DEF AcceptExit
    <3>2. version' \in 0..(MaxOutput + 1)
      BY <1>5, <2>1, MaxOutputAssumption DEF AcceptExit
    <3> QED
      BY <1>5, <2>1, <3>1, <3>2 DEF AcceptExit, IInv, TypeOK
  <2>3. EndIsCompletion'
    BY <1>5 DEF AcceptExit, IInv, TypeOK, EndIsCompletion
  <2>4. RemovedOnlyEnded' /\ RemovedOnce' /\ NoMissedWakeup'
    BY <1>5, <2>1 DEF AcceptExit, IInv, RemovedOnlyEnded, RemovedOnce, NoMissedWakeup
  <2>5. ExpiryIsArmed'
    <3>1. expiry' /\ recorded'
      BY <1>5, <2>1, Zenon DEF AcceptExit
    <3> QED
      BY <1>5, <3>1, Zenon DEF AcceptExit, ExpiryIsArmed
  <2> QED
    BY <2>2, <2>3, <2>4, <2>5 DEF IInv
<1> QED
  BY <1>1, <1>2, <1>3, <1>4, <1>5

LEMMA CallsKeepIInv ==
    ASSUME IInv, NEW c \in Calls, Close(c) \/ CloseStep(c)
    PROVE  IInv'
<1> USE DEF IInv, TypeOK, EndIsCompletion
<1>1. CASE Close(c)
  BY <1>1, MaxRetriesAssumption
     DEF Close, MayClose, Kept, RemovedOnlyEnded, ExpiryIsArmed, RemovedOnce, NoMissedWakeup
<1>2. CASE Killed(c)
  BY <1>2 DEF Killed, Kept, RemovedOnlyEnded, ExpiryIsArmed, RemovedOnce, NoMissedWakeup
<1>3. CASE KillFailed(c)
  BY <1>3 DEF KillFailed, Kept, RemovedOnlyEnded, ExpiryIsArmed, RemovedOnce, NoMissedWakeup,
              Settled
<1>4. CASE CloseTimedOut(c)
  BY <1>4 DEF CloseTimedOut, Kept, RemovedOnlyEnded, ExpiryIsArmed, RemovedOnce,
              NoMissedWakeup, Settled
<1>5. CASE CloseResumed(c)
  <2>1. process = "ended" /\ run # "spawning"
    BY <1>5 DEF CloseResumed
  <2> QED
    BY <1>5, <2>1, RemovalKeepsIInv DEF CloseResumed, Settled
<1> QED
  BY <1>1, <1>2, <1>3, <1>4, <1>5 DEF CloseStep

LEMMA OthersKeepIInv ==
    ASSUME IInv, RunStep \/ Expire \/ (\E o \in Observers : Observe(o) \/ ObserveEnds(o))
    PROVE  IInv'
<1> USE DEF IInv, TypeOK, EndIsCompletion
<1>1. CASE RunResumed
  BY <1>1 DEF RunResumed, Kept, RemovedOnlyEnded, ExpiryIsArmed, RemovedOnce, NoMissedWakeup
<1>2. CASE RunTimedOut
  BY <1>2 DEF RunTimedOut, Kept, RemovedOnlyEnded, ExpiryIsArmed, RemovedOnce, NoMissedWakeup
<1>3. CASE Expire
  <2>1. process = "ended" /\ run # "spawning"
    BY <1>3 DEF Expire, ExpiryIsArmed, Quiet
  <2> QED
    BY <1>3, <2>1, RemovalKeepsIInv DEF Expire
<1>4. ASSUME NEW o \in Observers, Observe(o) PROVE IInv'
  <2>1. version \in 0..MaxOutput
    BY <1>4, MaxOutputAssumption DEF Observe
  <2> QED
    BY <1>4, <2>1
       DEF Observe, RemovedOnlyEnded, ExpiryIsArmed, RemovedOnce, NoMissedWakeup
<1>5. ASSUME NEW o \in Observers, ObserveEnds(o) PROVE IInv'
  BY <1>5 DEF ObserveEnds, RemovedOnlyEnded, ExpiryIsArmed, RemovedOnce, NoMissedWakeup
<1> QED
  BY <1>1, <1>2, <1>3, <1>4, <1>5 DEF RunStep

LEMMA NextKeepsIInv == IInv /\ [Next]_vars => IInv'
<1> SUFFICES ASSUME IInv, [Next]_vars PROVE IInv'
  OBVIOUS
<1>1. CASE UNCHANGED vars
  BY <1>1 DEF vars, IInv, TypeOK, EndIsCompletion, RemovedOnlyEnded, ExpiryIsArmed,
              RemovedOnce, NoMissedWakeup
<1>2. CASE Next
  BY <1>2, ProcessKeepsIInv, CallsKeepIInv, OthersKeepIInv DEF Next
<1> QED
  BY <1>1, <1>2

\* Every state of a captured operation is one its types describe.
THEOREM TypeCorrect == Spec => []TypeOK
<1>1. IInv => TypeOK
  BY DEF IInv
<1> QED
  BY <1>1, InitIInv, NextKeepsIInv, PTL DEF Spec

\* The record of an operation is removed only when its process and the output of its
\* descendants have ended, however many closes time out, fail, overlap or race with
\* the exit and the expiry.
THEOREM RecordsSafe == Spec => []RemovedOnlyEnded
<1>1. IInv => RemovedOnlyEnded
  BY DEF IInv
<1> QED
  BY <1>1, InitIInv, NextKeepsIInv, PTL DEF Spec

\* The gateway hears of each removal once, and an expiry timer runs exactly for the
\* completed operations on record.
THEOREM RemovalExact == Spec => [](RemovedOnce /\ ExpiryIsArmed)
<1>1. IInv => RemovedOnce /\ ExpiryIsArmed
  BY DEF IInv
<1> QED
  BY <1>1, InitIInv, NextKeepsIInv, PTL DEF Spec

\* No observer sleeps through a version, the completion or the removal.
THEOREM ObserversAwake == Spec => []NoMissedWakeup
<1>1. IInv => NoMissedWakeup
  BY DEF IInv
<1> QED
  BY <1>1, InitIInv, NextKeepsIInv, PTL DEF Spec

-----------------------------------------------------------------------------
(***************************************************************************)
(* Shell integration.  Between the shell and the tracker there is always a *)
(* channel of markers.  The invariant follows the tracker over the markers *)
(* that have been written and not yet accepted, along a path of single     *)
(* acceptances, and says of the tracker at its end what the property says  *)
(* of the tracker when the channel is empty.                               *)
(***************************************************************************)

\* The markers that the scripts write.
Finishes == [event : {"command-finish"}, id : Nat, exitCode : ExitCodes \cup {NoId}]

Markers ==
    [event : {"ready"}, capabilities : {Shell!Full, Shell!Lifecycle, Shell!PromptOnly}]
        \cup [event : {"prompt"}, cwd : Directories]
        \cup [event : {"command-start"}, id : Nat]
        \cup Finishes \cup [event : {"invalid", "foreign"}]

Commands == [state : {"unknown"}] \cup [state : {"running"}, id : Nat]
                \cup [state : {"idle"}, last : {<<>>} \cup {<<m>> : m \in Finishes}]

\* Only an available integration claims a command, and it has every capability.
Trackers ==
    {t \in [status : {"initializing", "available", "degraded"}, capabilities : SUBSET Shell!Full,
            command : Commands, cwd : Directories] :
        IF t.status = "available" THEN t.capabilities = Shell!Full ELSE t.command = Shell!Unknown}

\* A tracker, a marker, and the tracker that has accepted it.
Acceptance == {<<t, m, Shell!Applied(t, m)>> : t \in Trackers, m \in Markers}

\* A shell that waits for its first prompt has run nothing, and a prompt ends a command.
ShellOK(sh) ==
    /\ sh \in [kind : Shells, phase : Shell!Phases, cwd : Directories, encodes : BOOLEAN, sequence : Nat,
               activeId : Nat \cup {NoId}, lines : Nat,
               history : Seq(Finishes)]
    /\ sh.phase \in {"starting", "ready", "prompt"} => sh.activeId = NoId
    /\ sh.phase \in {"starting", "ready"} => sh.history = <<>>

\* What a tracker that has accepted every marker says of the shell.
Agrees(t, sh) ==
    /\ sh.phase = "starting" => t.status # "available"
    /\ sh.phase \in {"ready", "prompt", "running"} /\ t.status = "available" =>
         /\ sh.encodes
         /\ sh.phase = "ready" => t.command = Shell!Unknown
         /\ sh.phase = "running" => t.command = Shell!Running(sh.activeId)
         /\ sh.phase = "prompt" =>
              /\ t.command.state = "idle" /\ t.cwd = sh.cwd
              /\ sh.kind \in {"zsh", "fish"} =>
                   t.command.last = IF sh.history = <<>> THEN <<>> ELSE <<Last(sh.history)>>
              /\ sh.kind = "powershell" =>
                   t.command.last \in {<<>>, IF sh.history = <<>> THEN <<>> ELSE <<Last(sh.history)>>}

\* The first marker of all is the ready marker.
Initializing ==
    tracker.status = "initializing" =>
        \/ channel = <<>> /\ shell.phase \in {"starting", "exited", "closed"}
        \/ channel # <<>> /\ Head(channel).event = "ready"

\* The inductive invariant.
ReportInv ==
    /\ ShellOK(shell) /\ channel \in Seq(Markers) /\ tracker \in Trackers
    /\ shell.phase = "starting" => channel = <<>>
    /\ shell.phase = "closed" => channel = <<>> /\ tracker.command.state # "running"
    /\ Initializing
    /\ \E t \in Trackers : Path(Acceptance, channel, tracker, t) /\ Agrees(t, shell)

LEMMA Capabilities == Shell!Lifecycle # Shell!Full /\ Shell!PromptOnly # Shell!Full
                      /\ Shell!Lifecycle \subseteq Shell!Full /\ Shell!PromptOnly \subseteq Shell!Full
BY DEF Shell!Lifecycle, Shell!Full, Shell!PromptOnly

\* What a marker is, by its event.
LEMMA MarkerCases ==
  ASSUME NEW m \in Markers
  PROVE  \/ /\ m.event = "ready" /\ m = Shell!Ready(m.capabilities)
            /\ m.capabilities \in {Shell!Full, Shell!Lifecycle, Shell!PromptOnly}
         \/ m.event = "prompt" /\ m.cwd \in Directories /\ m = Shell!Prompt(m.cwd)
         \/ m.event = "command-start" /\ m.id \in Nat /\ m = Shell!CommandStart(m.id)
         \/ m.event = "command-finish" /\ m \in Finishes
         \/ m.event = "invalid"
         \/ m.event = "foreign"
BY DEF Markers, Shell!Ready, Shell!Prompt, Shell!CommandStart, Finishes

\* What the scripts write are markers.
LEMMA MarkersWritten ==
  /\ \A c \in {Shell!Full, Shell!Lifecycle, Shell!PromptOnly} : Shell!Ready(c) \in Markers
  /\ \A d \in Directories : Shell!Prompt(d) \in Markers
  /\ \A i \in Nat : Shell!CommandStart(i) \in Markers
  /\ \A i \in Nat, e \in ExitCodes \cup {NoId} : Shell!CommandFinish(i, e) \in Finishes
  /\ Finishes \subseteq Markers /\ Shell!Invalid \in Markers /\ Shell!Foreign \in Markers
BY DEF Markers, Shell!Ready, Shell!Prompt, Shell!CommandStart, Finishes, Shell!CommandFinish,
     Shell!Invalid, Shell!Foreign

\* The commands a tracker tells of.
LEMMA CommandsTold ==
  /\ Shell!Unknown \in Commands /\ Shell!IdleAfter(<<>>) \in Commands
  /\ \A i \in Nat : Shell!Running(i) \in Commands
  /\ \A m \in Finishes : Shell!IdleAfter(<<m>>) \in Commands
BY DEF Commands, Shell!Unknown, Shell!IdleAfter, Shell!Running

LEMMA CommandFacts ==
  /\ Shell!Unknown.state = "unknown"
  /\ \A i : Shell!Running(i).state = "running"
  /\ \A l : Shell!IdleAfter(l).state = "idle" /\ Shell!IdleAfter(l).last = l
  /\ \A c \in Commands : c.state \in {"unknown", "running", "idle"}
  /\ \A c \in Commands : c.state = "unknown" => c = Shell!Unknown
BY DEF Commands, Shell!Unknown, Shell!Running, Shell!IdleAfter

\* A marker takes a tracker to a tracker, and only the ready marker ends its initialization.
LEMMA AppliedTyped ==
  ASSUME NEW t \in Trackers, NEW m \in Markers
  PROVE  /\ Shell!Applied(t, m) \in Trackers
         /\ Shell!Applied(t, m).status = "initializing"
              => t.status = "initializing" /\ m.event # "ready"
<1> DEFINE R == [status : {"initializing", "available", "degraded"}, capabilities : SUBSET Shell!Full,
                 command : Commands, cwd : Directories]
<1>0. t \in R /\ IF t.status = "available" THEN t.capabilities = Shell!Full ELSE t.command = Shell!Unknown
  BY DEF Trackers
<1>1. Shell!Degraded(t) \in Trackers /\ Shell!Degraded(t).status = "degraded"
  BY <1>0, CommandsTold DEF Shell!Degraded, Trackers
<1>2. CASE m.event = "ready"
  <2> DEFINE c == m.capabilities
  <2>1. c \in {Shell!Full, Shell!Lifecycle, Shell!PromptOnly}
    BY <1>2, MarkerCases
  <2>2. Shell!Applied(t, m) = Shell!AcceptReady(t, m)
    BY <1>2 DEF Shell!Applied
  <2>3. CASE c = Shell!Full
    BY <1>0, <2>1, <2>2, <2>3 DEF Shell!AcceptReady, Trackers
  <2>4. CASE c # Shell!Full
    BY <1>0, <2>1, <2>2, <2>4, Capabilities, CommandsTold DEF Shell!AcceptReady, Trackers
  <2>5. QED BY <2>3, <2>4
<1>3. CASE m.event = "prompt"
  <2> DEFINE moved == IF "cwd" \in t.capabilities THEN [t EXCEPT !.cwd = m.cwd] ELSE t
  <2>1. m.cwd \in Directories
    BY <1>3, MarkerCases
  <2>2. Shell!Applied(t, m) = Shell!AcceptPrompt(t, m)
    BY <1>3 DEF Shell!Applied
  <2>3. moved \in Trackers /\ moved.status = t.status
    BY <1>0, <2>1, CommandsTold DEF Trackers
  <2>4. Shell!Degraded(moved) \in Trackers /\ Shell!Degraded(moved).status = "degraded"
    <3> HIDE DEF moved
    <3>1. QED BY <2>3, CommandsTold DEF Shell!Degraded, Trackers
  <2>5. t.status = "available" => [moved EXCEPT !.command = Shell!IdleAfter(<<>>)] \in Trackers
    <3> HIDE DEF moved
    <3>1. QED BY <2>3, CommandsTold DEF Trackers
  <2>6. t.status = "available" => [moved EXCEPT !.command = Shell!IdleAfter(<<>>)].status = "available"
    <3> HIDE DEF moved
    <3>1. QED BY <2>3, CommandsTold DEF Trackers
  <2>7. \/ Shell!AcceptPrompt(t, m) \in {t, moved, Shell!Degraded(moved)}
        \/ /\ t.status = "available"
           /\ Shell!AcceptPrompt(t, m) = [moved EXCEPT !.command = Shell!IdleAfter(<<>>)]
    BY <1>0 DEF Shell!AcceptPrompt
  <2> HIDE DEF moved
  <2>8. QED BY <1>3, <2>2, <2>3, <2>4, <2>5, <2>6, <2>7
<1>4. CASE m.event = "command-start"
  <2>1. m.id \in Nat
    BY <1>4, MarkerCases
  <2>2. Shell!Applied(t, m) = Shell!AcceptStart(t, m)
    BY <1>4 DEF Shell!Applied
  <2>3. t.status = "available" => [t EXCEPT !.command = Shell!Running(m.id)] \in Trackers
    BY <1>0, <2>1, CommandsTold DEF Trackers
  <2>4. QED BY <1>0, <1>1, <1>4, <2>2, <2>3 DEF Shell!AcceptStart
<1>5. CASE m.event = "command-finish"
  <2>1. m \in Finishes
    BY <1>5, MarkerCases
  <2>2. Shell!Applied(t, m) = Shell!AcceptFinish(t, m)
    BY <1>5 DEF Shell!Applied
  <2>3. Shell!IdleAfter(<<m>>) \in Commands
    BY <2>1, CommandsTold
  <2>4. t.status = "available" => [t EXCEPT !.command = Shell!IdleAfter(<<m>>)] \in Trackers
    BY <1>0, <2>3 DEF Trackers
  <2>5. QED BY <1>0, <1>1, <1>5, <2>2, <2>4 DEF Shell!AcceptFinish
<1>6. CASE m.event = "invalid"
  BY <1>1, <1>6 DEF Shell!Applied
<1>7. CASE m.event = "foreign"
  BY <1>7 DEF Shell!Applied
<1>8. QED BY <1>2, <1>3, <1>4, <1>5, <1>6, <1>7, MarkerCases

\* Where nothing is left to accept, the tracker at the end of the path is the tracker.
LEMMA PathOfNothing ==
  ASSUME NEW a, NEW b, Path(Acceptance, <<>>, a, b)
  PROVE  a = b
BY DEF Path

\* The channel, with its head apart.
LEMMA HeadTailConcat ==
  ASSUME NEW S, NEW x \in Seq(S), x # <<>>
  PROVE  x = <<Head(x)>> \o Tail(x)
OBVIOUS

LEMMA TwoMarkers ==
  ASSUME NEW x \in Markers, NEW y \in Markers
  PROVE  <<x, y>> = <<x>> \o <<y>>
<1>1. <<x>> \in Seq(Markers) /\ <<y>> \in Seq(Markers)
  OBVIOUS
<1>2. Append(<<x>>, y) = <<x>> \o <<y>>
  BY <1>1, AppendIsConcat
<1>3. Append(<<x>>, y) = <<x, y>>
  <2>1. /\ Append(<<x>>, y) \in Seq(Markers) /\ <<x, y>> \in Seq(Markers)
        /\ Len(Append(<<x>>, y)) = 2 /\ Len(<<x, y>>) = 2
        /\ Append(<<x>>, y)[1] = x /\ Append(<<x>>, y)[2] = y
    BY <1>1, AppendProperties
  <2>2. \A i \in 1..2 : i = 1 \/ i = 2
    OBVIOUS
  <2>3. \A i \in 1..2 : Append(<<x>>, y)[i] = <<x, y>>[i]
    BY <2>1, <2>2
  <2>4. QED BY <2>1, <2>3, SeqEqual
<1>4. QED BY <1>2, <1>3

\* One marker, or two, written to the channel prolong the path.
LEMMA PathOne ==
  ASSUME NEW t \in Trackers, NEW m \in Markers
  PROVE  Path(Acceptance, <<m>>, t, Shell!Applied(t, m)) /\ Shell!Applied(t, m) \in Trackers
<1>1. <<t, m, Shell!Applied(t, m)>> \in Acceptance
  BY DEF Acceptance
<1>2. Path(Acceptance, <<>>, t, t)
  BY PathEmpty
<1>3. <<>> \in Seq(Markers) /\ Append(<<>>, m) = <<m>>
  BY EmptySeq
<1>4. Path(Acceptance, Append(<<>>, m), t, Shell!Applied(t, m))
  BY <1>1, <1>2, <1>3, PathAppend
<1>5. QED BY <1>3, <1>4, AppliedTyped

LEMMA PathTwo ==
  ASSUME NEW a \in Trackers, NEW b \in Trackers, NEW c \in Trackers,
         NEW x \in Seq(Markers), NEW y \in Seq(Markers),
         Path(Acceptance, x, a, b), Path(Acceptance, y, b, c)
  PROVE  Path(Acceptance, x \o y, a, c)
BY PathConcat

\* What each marker does to a tracker of an available integration.
LEMMA StartApplied ==
  ASSUME NEW t \in Trackers, NEW i \in Nat
  PROVE  LET u == Shell!Applied(t, Shell!CommandStart(i)) IN
         /\ t.status # "available" => u = t
         /\ t.status = "available" /\ t.command.state # "running" =>
              u.status = "available" /\ u.command = Shell!Running(i)
         /\ t.status = "available" /\ t.command.state = "running" => u.status # "available"
BY DEF Shell!Applied, Shell!AcceptStart, Shell!CommandStart, Trackers, Shell!Degraded

LEMMA FinishApplied ==
  ASSUME NEW t \in Trackers, NEW m \in Finishes
  PROVE  LET u == Shell!Applied(t, m) IN
         /\ t.status # "available" => u = t
         /\ t.status = "available" /\ t.command = Shell!Running(m.id) =>
              u.status = "available" /\ u.command = Shell!IdleAfter(<<m>>)
BY DEF Shell!Applied, Shell!AcceptFinish, Finishes, Trackers

LEMMA PromptApplied ==
  ASSUME NEW t \in Trackers, NEW d \in Directories
  PROVE  LET u == Shell!Applied(t, Shell!Prompt(d)) IN
         /\ t.status # "available" => u.status # "available"
         /\ t.status = "available" /\ t.command.state # "running" =>
              /\ u.status = "available" /\ u.cwd = d
              /\ u.command = IF t.command.state = "unknown" THEN Shell!IdleAfter(<<>>) ELSE t.command
<1> DEFINE moved == IF "cwd" \in t.capabilities THEN [t EXCEPT !.cwd = d] ELSE t
<1>1. Shell!Applied(t, Shell!Prompt(d)) = Shell!AcceptPrompt(t, Shell!Prompt(d))
      /\ Shell!Prompt(d).cwd = d
  BY DEF Shell!Applied, Shell!Prompt
<1>2. "cwd" \in Shell!Full
  BY DEF Shell!Full
<1>3. moved \in Trackers /\ moved.status = t.status /\ moved.command = t.command
      /\ (t.status = "available" => moved.cwd = d)
  BY <1>2 DEF Trackers
<1>4. Shell!AcceptPrompt(t, Shell!Prompt(d)) =
        CASE t.status \in {"unavailable", "initializing"} -> t
          [] t.status = "degraded" -> moved
          [] t.status = "available" /\ t.command.state = "running" -> Shell!Degraded(moved)
          [] t.status = "available" /\ t.command.state = "unknown" ->
               [moved EXCEPT !.command = Shell!IdleAfter(<<>>)]
          [] OTHER -> moved
  BY <1>1 DEF Shell!AcceptPrompt
<1> HIDE DEF moved
<1>5. t.status \in {"initializing", "available", "degraded"}
  BY DEF Trackers
<1>6. [moved EXCEPT !.command = Shell!IdleAfter(<<>>)].status = moved.status
      /\ [moved EXCEPT !.command = Shell!IdleAfter(<<>>)].cwd = moved.cwd
      /\ [moved EXCEPT !.command = Shell!IdleAfter(<<>>)].command = Shell!IdleAfter(<<>>)
  BY <1>3 DEF Trackers
<1>7. CASE t.status = "available" /\ t.command.state # "running"
  BY <1>1, <1>3, <1>4, <1>6, <1>7
<1>8. CASE t.status # "available"
  BY <1>1, <1>3, <1>4, <1>5, <1>8
<1>9. QED BY <1>7, <1>8

LEMMA ReadyApplied ==
  ASSUME NEW t \in Trackers, NEW c \in {Shell!Full, Shell!Lifecycle, Shell!PromptOnly}
  PROVE  LET u == Shell!Applied(t, Shell!Ready(c)) IN
         IF c = Shell!Full THEN u.status = "available" /\ u.command = t.command ELSE u.status = "degraded"
BY DEF Shell!Applied, Shell!AcceptReady, Shell!Ready, Trackers

LEMMA OtherApplied ==
  ASSUME NEW t \in Trackers
  PROVE  Shell!Applied(t, Shell!Invalid).status # "available" /\ Shell!Applied(t, Shell!Foreign) = t
BY DEF Shell!Applied, Shell!Invalid, Shell!Foreign, Trackers, Shell!Degraded

\* What a tracker tells of the latest command of a shell that waits for one.
LastTold(t, sh) ==
    LET latest == IF sh.history = <<>> THEN <<>> ELSE <<Last(sh.history)>> IN
    \/ t.command = Shell!Unknown /\ (sh.kind \in {"zsh", "fish"} => sh.history = <<>>)
    \/ /\ t.command.state = "idle"
       /\ sh.kind \in {"zsh", "fish"} => t.command.last = latest
       /\ sh.kind = "powershell" => t.command.last \in {<<>>, latest}

\* The state of the tracker before a prompt with an exit code is written.
BeforePrompt(t, sh, exitCode) ==
    t.status = "available" =>
        /\ sh.encodes
        /\ sh.activeId # NoId =>
             /\ t.command = Shell!Running(sh.activeId)
             /\ sh.history # <<>> /\ Last(sh.history) = Shell!EncodedFinish(sh, exitCode)
        /\ sh.activeId = NoId => LastTold(t, sh)

\* A shell, as the hooks find it.
ShellHooked(sh) ==
    /\ sh \in [kind : Shells, phase : Shell!Phases, cwd : Directories, encodes : BOOLEAN, sequence : Nat,
               activeId : Nat \cup {NoId}, lines : Nat, history : Seq(Finishes)]

\* A shell that has written its prompt.
AfterPrompt(sh, installed) ==
    [sh EXCEPT !.phase = "prompt", !.activeId = NoId, !.encodes = installed,
               !.sequence = IF sh.kind = "bash" /\ sh.activeId = NoId THEN @ + 1 ELSE @]

\* The shell after a prompt is one its types describe.
LEMMA AfterPromptTyped ==
  ASSUME NEW sh, ShellHooked(sh), NEW installed \in BOOLEAN
  PROVE  /\ ShellOK(AfterPrompt(sh, installed))
         /\ AfterPrompt(sh, installed).kind = sh.kind /\ AfterPrompt(sh, installed).cwd = sh.cwd
         /\ AfterPrompt(sh, installed).history = sh.history
         /\ AfterPrompt(sh, installed).phase = "prompt"
         /\ AfterPrompt(sh, installed).encodes = installed
<1> DEFINE n == IF sh.kind = "bash" /\ sh.activeId = NoId THEN sh.sequence + 1 ELSE sh.sequence
<1>1. AfterPrompt(sh, installed) =
        [sh EXCEPT !.phase = "prompt", !.activeId = NoId, !.encodes = installed, !.sequence = n]
  BY DEF AfterPrompt, ShellHooked
<1>2. n \in Nat
  BY DEF ShellHooked
<1> HIDE DEF n
<1>3. /\ AfterPrompt(sh, installed) \in
            [kind : Shells, phase : Shell!Phases, cwd : Directories, encodes : BOOLEAN, sequence : Nat,
             activeId : Nat \cup {NoId}, lines : Nat, history : Seq(Finishes)]
      /\ AfterPrompt(sh, installed).kind = sh.kind /\ AfterPrompt(sh, installed).cwd = sh.cwd
      /\ AfterPrompt(sh, installed).history = sh.history /\ AfterPrompt(sh, installed).activeId = NoId
      /\ AfterPrompt(sh, installed).phase = "prompt" /\ AfterPrompt(sh, installed).encodes = installed
  BY <1>1, <1>2 DEF ShellHooked, Shell!Phases
<1>4. QED BY <1>3 DEF ShellOK

LEMMA FinishWritten ==
  ASSUME NEW sh, ShellHooked(sh), sh.activeId # NoId, NEW e \in ExitCodes
  PROVE  Shell!EncodedFinish(sh, e) \in Finishes /\ Shell!EncodedFinish(sh, e).id = sh.activeId
BY DEF ShellHooked, Shell!EncodedFinish, Shell!CommandFinish, Finishes

\* The finish of a command, where the hooks write one, leaves the tracker with the command
\* of the shell as the latest.
LEMMA FinishingPath ==
  ASSUME NEW t \in Trackers, NEW sh, ShellHooked(sh), NEW e \in ExitCodes, BeforePrompt(t, sh, e)
  PROVE  /\ Shell!Finishing(sh, e) \in Seq(Markers)
         /\ \E u \in Trackers : /\ Path(Acceptance, Shell!Finishing(sh, e), t, u)
                                /\ u.status = "available" => sh.encodes /\ LastTold(u, sh)
<1>1. CASE sh.activeId = NoId
  <2>1. Shell!Finishing(sh, e) = <<>>
    BY <1>1 DEF Shell!Finishing
  <2>2. Path(Acceptance, <<>>, t, t)
    BY PathEmpty
  <2>3. <<>> \in Seq(Markers)
    BY EmptySeq
  <2>4. QED BY <1>1, <2>1, <2>2, <2>3 DEF BeforePrompt
<1>2. CASE sh.activeId # NoId
  <2> DEFINE m == Shell!EncodedFinish(sh, e)
  <2>1. Shell!Finishing(sh, e) = <<m>>
    BY <1>2 DEF Shell!Finishing
  <2>2. m \in Finishes /\ m.id = sh.activeId /\ m \in Markers
    BY <1>2, FinishWritten, MarkersWritten
  <2>3. t.status = "available" =>
          sh.encodes /\ t.command = Shell!Running(sh.activeId) /\ sh.history # <<>>
          /\ Last(sh.history) = m
    BY <1>2 DEF BeforePrompt
  <2> HIDE DEF m
  <2>4. Path(Acceptance, <<m>>, t, Shell!Applied(t, m)) /\ Shell!Applied(t, m) \in Trackers
    BY <2>2, PathOne
  <2>5. Shell!Applied(t, m).status = "available" =>
          t.status = "available" /\ Shell!Applied(t, m).command = Shell!IdleAfter(<<m>>)
    BY <2>2, <2>3, FinishApplied
  <2>6. Shell!Applied(t, m).status = "available" => sh.encodes /\ LastTold(Shell!Applied(t, m), sh)
    BY <2>3, <2>5, CommandFacts DEF LastTold
  <2>7. <<m>> \in Seq(Markers)
    BY <2>2
  <2>8. QED BY <2>1, <2>4, <2>6, <2>7
<1>3. QED BY <1>1, <1>2

\* What a tracker that has accepted the marker of a prompt tells of it.
LEMMA PromptEnds ==
  ASSUME NEW t \in Trackers, NEW sh, ShellHooked(sh), NEW installed \in BOOLEAN,
         t.status = "available" => installed /\ LastTold(t, sh),
         sh.kind # "powershell" => sh.encodes = installed
  PROVE  /\ Shell!EncodedPrompt(sh) \in Markers
         /\ Shell!Applied(t, Shell!EncodedPrompt(sh)) \in Trackers
         /\ Path(Acceptance, <<Shell!EncodedPrompt(sh)>>, t, Shell!Applied(t, Shell!EncodedPrompt(sh)))
         /\ Agrees(Shell!Applied(t, Shell!EncodedPrompt(sh)), AfterPrompt(sh, installed))
<1> DEFINE u == Shell!Applied(t, Shell!EncodedPrompt(sh))
           after == AfterPrompt(sh, installed)
<1>0. sh.cwd \in Directories
  BY DEF ShellHooked
<1>1. Shell!EncodedPrompt(sh) \in {Shell!Prompt(sh.cwd), Shell!Invalid}
  BY DEF Shell!EncodedPrompt
<1>2. Shell!EncodedPrompt(sh) \in Markers
  BY <1>0, <1>1, MarkersWritten
<1>3. u \in Trackers /\ Path(Acceptance, <<Shell!EncodedPrompt(sh)>>, t, u)
  BY <1>2, PathOne
<1>4. /\ after.kind = sh.kind /\ after.cwd = sh.cwd /\ after.history = sh.history
      /\ after.phase = "prompt" /\ after.encodes = installed
  BY AfterPromptTyped
<1>5. u.status = "available" => t.status = "available" /\ Shell!EncodedPrompt(sh) = Shell!Prompt(sh.cwd)
  BY <1>0, <1>1, OtherApplied, PromptApplied
<1>6. ASSUME u.status = "available"
      PROVE  /\ u.cwd = sh.cwd
             /\ u.command = IF t.command.state = "unknown" THEN Shell!IdleAfter(<<>>) ELSE t.command
             /\ installed
  <2>1. t.command.state # "running"
    BY <1>5, <1>6, CommandFacts DEF LastTold
  <2>2. QED BY <1>0, <1>5, <1>6, <2>1, PromptApplied
<1>7. ASSUME u.status = "available"
      PROVE  /\ u.command.state = "idle"
             /\ sh.kind \in {"zsh", "fish"} =>
                  u.command.last = IF sh.history = <<>> THEN <<>> ELSE <<Last(sh.history)>>
             /\ sh.kind = "powershell" =>
                  u.command.last \in {<<>>, IF sh.history = <<>> THEN <<>> ELSE <<Last(sh.history)>>}
  <2>1. CASE t.command = Shell!Unknown
    <3>1. u.command = Shell!IdleAfter(<<>>)
      BY <1>6, <1>7, <2>1, CommandFacts
    <3>2. sh.kind \in {"zsh", "fish"} => sh.history = <<>>
      BY <1>5, <1>7, <2>1, CommandFacts DEF LastTold
    <3>3. QED BY <3>1, <3>2, CommandFacts
  <2>2. CASE t.command # Shell!Unknown
    BY <1>5, <1>6, <1>7, <2>2 DEF LastTold
  <2>3. QED BY <2>1, <2>2
<1> HIDE DEF u, after
<1>8. Agrees(u, after)
  BY <1>4, <1>6, <1>7 DEF Agrees
<1>9. QED BY <1>2, <1>3, <1>8 DEF u, after

\* What the hooks of a shell write before a prompt.
Written(sh, exitCode, installed) ==
    CASE sh.kind = "bash" -> Shell!BashPrompt(sh, exitCode)
      [] sh.kind = "powershell" -> Shell!PowershellPrompt(sh, exitCode, installed)
      [] OTHER -> Shell!HookPrompt(sh, exitCode)

\* What each kind of shell writes before a prompt, and what becomes of the tracker.
LEMMA HookWritten ==
  ASSUME NEW t \in Trackers, NEW sh, ShellHooked(sh), NEW e \in ExitCodes, BeforePrompt(t, sh, e),
         sh.kind # "powershell"
  PROVE  /\ Shell!HookPrompt(sh, e) \in Seq(Markers)
         /\ \E u \in Trackers : /\ Path(Acceptance, Shell!HookPrompt(sh, e), t, u)
                                /\ Agrees(u, AfterPrompt(sh, sh.encodes))
<1>0. PICK v \in Trackers : /\ Path(Acceptance, Shell!Finishing(sh, e), t, v)
                            /\ v.status = "available" => sh.encodes /\ LastTold(v, sh)
  BY FinishingPath, Zenon
<1> DEFINE p == Shell!EncodedPrompt(sh)
           f == Shell!Finishing(sh, e)
<1>1. f \in Seq(Markers)
  BY FinishingPath
<1>2. Path(Acceptance, f, t, v) /\ (v.status = "available" => sh.encodes /\ LastTold(v, sh))
  BY <1>0
<1>3. sh.encodes \in BOOLEAN
  BY DEF ShellHooked
<1>4. /\ p \in Markers /\ Shell!Applied(v, p) \in Trackers
      /\ Path(Acceptance, <<p>>, v, Shell!Applied(v, p))
      /\ Agrees(Shell!Applied(v, p), AfterPrompt(sh, sh.encodes))
  BY <1>2, <1>3, PromptEnds
<1>5. Shell!HookPrompt(sh, e) = f \o <<p>>
  BY DEF Shell!HookPrompt
<1> HIDE DEF f, p
<1>6. <<p>> \in Seq(Markers)
  BY <1>4
<1>7. Path(Acceptance, f \o <<p>>, t, Shell!Applied(v, p))
  BY <1>1, <1>2, <1>4, <1>6, PathTwo
<1>8. f \o <<p>> \in Seq(Markers)
  BY <1>1, <1>6
<1>9. QED BY <1>4, <1>5, <1>7, <1>8

LEMMA PowershellWritten ==
  ASSUME NEW t \in Trackers, NEW sh, ShellHooked(sh), NEW e \in ExitCodes, BeforePrompt(t, sh, e),
         sh.kind = "powershell", NEW installed \in BOOLEAN
  PROVE  /\ Shell!PowershellPrompt(sh, e, installed) \in Seq(Markers)
         /\ \E u \in Trackers : /\ Path(Acceptance, Shell!PowershellPrompt(sh, e, installed), t, u)
                                /\ Agrees(u, AfterPrompt(sh, installed))
<1>a. PICK v \in Trackers : /\ Path(Acceptance, Shell!Finishing(sh, e), t, v)
                            /\ v.status = "available" => sh.encodes /\ LastTold(v, sh)
  BY FinishingPath, Zenon
<1> DEFINE p == Shell!EncodedPrompt(sh)
           f == Shell!Finishing(sh, e)
           c == IF installed THEN Shell!Full ELSE Shell!PromptOnly
           r == Shell!Ready(c)
<1>0. c \in {Shell!Full, Shell!Lifecycle, Shell!PromptOnly} /\ (c = Shell!Full => installed)
  BY Capabilities
<1>1. f \in Seq(Markers)
  BY FinishingPath
<1>2. Path(Acceptance, f, t, v) /\ (v.status = "available" => sh.encodes /\ LastTold(v, sh))
  BY <1>a
<1> DEFINE x == Shell!Applied(v, r)
<1>3. Shell!PowershellPrompt(sh, e, installed) = f \o <<r, p>>
  BY DEF Shell!PowershellPrompt
<1> HIDE DEF c
<1>4. r \in Markers
  BY <1>0, MarkersWritten
<1>5. x \in Trackers /\ Path(Acceptance, <<r>>, v, x)
  BY <1>4, PathOne
<1>6. IF c = Shell!Full THEN x.status = "available" /\ x.command = v.command ELSE x.status = "degraded"
  BY <1>0, ReadyApplied
<1>7. x.status = "available" => installed /\ LastTold(x, sh)
  <2>1. v.status # "available" => v.command = Shell!Unknown
    BY DEF Trackers
  <2>2. QED BY <1>0, <1>2, <1>6, <2>1 DEF LastTold
<1> HIDE DEF r, x
<1>8. /\ p \in Markers /\ Shell!Applied(x, p) \in Trackers
      /\ Path(Acceptance, <<p>>, x, Shell!Applied(x, p))
      /\ Agrees(Shell!Applied(x, p), AfterPrompt(sh, installed))
  BY <1>5, <1>7, PromptEnds
<1> HIDE DEF f, p
<1>9. <<r>> \in Seq(Markers) /\ <<p>> \in Seq(Markers) /\ <<r, p>> = <<r>> \o <<p>>
  BY <1>4, <1>8
<1>10. Path(Acceptance, <<r>> \o <<p>>, v, Shell!Applied(x, p))
  BY <1>5, <1>8, <1>9, PathTwo
<1>11. <<r, p>> \in Seq(Markers)
  BY <1>4, <1>8
<1>12. Path(Acceptance, f \o <<r, p>>, t, Shell!Applied(x, p))
  BY <1>1, <1>2, <1>8, <1>9, <1>10, <1>11, PathTwo
<1>13. f \o <<r, p>> \in Seq(Markers)
  BY <1>1, <1>11
<1>14. QED BY <1>3, <1>8, <1>12, <1>13

\* Bash, when no command is active: the trap takes the hook for one.
LEMMA TrappedWritten ==
  ASSUME NEW t \in Trackers, NEW sh, ShellHooked(sh), NEW e \in ExitCodes, BeforePrompt(t, sh, e),
         sh.kind = "bash", sh.activeId = NoId
  PROVE  /\ Shell!BashPrompt(sh, e) \in Seq(Markers)
         /\ \E u \in Trackers : /\ Path(Acceptance, Shell!BashPrompt(sh, e), t, u)
                                /\ Agrees(u, AfterPrompt(sh, sh.encodes))
<1> DEFINE n == sh.sequence + 1
           traced == [sh EXCEPT !.activeId = n]
           s == Shell!CommandStart(n)
           m == Shell!EncodedFinish(traced, e)
           p == Shell!EncodedPrompt(sh)
           v == Shell!Applied(t, s)
           w == Shell!Applied(v, m)
<1>1. n \in Nat /\ n # NoId /\ traced.activeId = n
  BY NoIdAssumption DEF ShellHooked
<1>2. Shell!BashPrompt(sh, e) = (<<s>> \o <<m>>) \o <<p>>
  BY <1>1 DEF Shell!BashPrompt, Shell!Finishing
<1>3. m \in Finishes /\ m.id = n
  <2>1. ShellHooked(traced)
    BY <1>1 DEF ShellHooked
  <2>2. QED BY <1>1, <2>1, FinishWritten
<1> HIDE DEF n, traced, m
<1>4. s \in Markers /\ m \in Markers
  BY <1>1, <1>3, MarkersWritten
<1>5. v \in Trackers /\ Path(Acceptance, <<s>>, t, v)
  BY <1>4, PathOne
<1>6. t.status = "available" => sh.encodes /\ t.command.state # "running"
  BY CommandFacts DEF BeforePrompt, LastTold
<1>7. v.status = "available" => sh.encodes /\ v.command = Shell!Running(n)
  BY <1>1, <1>6, StartApplied
<1> HIDE DEF s, v
<1>8. w \in Trackers /\ Path(Acceptance, <<m>>, v, w)
  BY <1>4, <1>5, PathOne
<1>9. w.status = "available" => sh.encodes /\ w.command = Shell!IdleAfter(<<m>>)
  BY <1>3, <1>5, <1>7, FinishApplied
<1> HIDE DEF w
<1>10. w.status = "available" => sh.encodes /\ LastTold(w, sh)
  BY <1>9, CommandFacts DEF LastTold
<1>11. sh.encodes \in BOOLEAN
  BY DEF ShellHooked
<1>12. /\ p \in Markers /\ Shell!Applied(w, p) \in Trackers
       /\ Path(Acceptance, <<p>>, w, Shell!Applied(w, p))
       /\ Agrees(Shell!Applied(w, p), AfterPrompt(sh, sh.encodes))
  BY <1>8, <1>10, <1>11, PromptEnds
<1> HIDE DEF p
<1>13. <<s>> \in Seq(Markers) /\ <<m>> \in Seq(Markers) /\ <<p>> \in Seq(Markers)
  BY <1>4, <1>12
<1>14. Path(Acceptance, <<s>> \o <<m>>, t, w) /\ <<s>> \o <<m>> \in Seq(Markers)
  BY <1>5, <1>8, <1>13, PathTwo
<1> DEFINE q == <<s>> \o <<m>>
<1> HIDE DEF q
<1>15. q \in Seq(Markers) /\ Path(Acceptance, q, t, w) /\ Shell!BashPrompt(sh, e) = q \o <<p>>
  BY <1>2, <1>14 DEF q
<1>16. Path(Acceptance, q \o <<p>>, t, Shell!Applied(w, p))
  BY <1>8, <1>12, <1>13, <1>15, PathTwo
<1>17. q \o <<p>> \in Seq(Markers)
  BY <1>13, <1>15
<1>18. QED BY <1>12, <1>15, <1>16, <1>17

\* What is written before a prompt makes the tracker tell of it.
LEMMA PromptWritten ==
  ASSUME NEW t \in Trackers, NEW sh, ShellHooked(sh), NEW e \in ExitCodes, BeforePrompt(t, sh, e),
         NEW installed \in IF sh.kind = "powershell" THEN BOOLEAN ELSE {sh.encodes}
  PROVE  /\ Written(sh, e, installed) \in Seq(Markers)
         /\ \E u \in Trackers : /\ Path(Acceptance, Written(sh, e, installed), t, u)
                                /\ Agrees(u, AfterPrompt(sh, installed))
<1>1. CASE sh.kind = "powershell"
  BY <1>1, PowershellWritten DEF Written
<1>2. CASE sh.kind = "bash" /\ sh.activeId = NoId
  BY <1>2, TrappedWritten DEF Written
<1>3. CASE sh.kind = "bash" /\ sh.activeId # NoId
  <2>1. Shell!Finishing(sh, e) \in Seq(Markers)
    BY FinishingPath
  <2>2. <<>> \o Shell!Finishing(sh, e) = Shell!Finishing(sh, e)
    BY <2>1, ConcatEmptySeq
  <2>3. Shell!BashPrompt(sh, e) = Shell!HookPrompt(sh, e)
    BY <1>3, <2>2 DEF Shell!BashPrompt, Shell!HookPrompt
  <2>4. QED BY <1>3, <2>3, HookWritten DEF Written
<1>4. CASE sh.kind # "powershell" /\ sh.kind # "bash"
  BY <1>4, HookWritten DEF Written
<1>5. QED BY <1>1, <1>2, <1>3, <1>4

\* Initially nothing is written.
LEMMA ShellInit == Shell!Init => ReportInv
<1> SUFFICES ASSUME Shell!Init PROVE ReportInv
  OBVIOUS
<1>1. PICK kind \in Shells, cwd \in Directories :
         /\ shell = [kind |-> kind, phase |-> "starting", cwd |-> cwd, encodes |-> FALSE,
                     sequence |-> 0, activeId |-> NoId, history |-> <<>>, lines |-> 0]
         /\ tracker
              = [status |-> "initializing", capabilities |-> {}, command |-> Shell!Unknown, cwd |-> cwd]
  BY DEF Shell!Init
<1>2. channel = <<>> /\ <<>> \in Seq(Markers) /\ <<>> \in Seq(Finishes)
  BY EmptySeq DEF Shell!Init
<1>3. ShellOK(shell)
  BY <1>1, <1>2 DEF ShellOK, Shell!Phases
<1>4. tracker \in Trackers
  BY <1>1, CommandsTold DEF Trackers
<1>5. Path(Acceptance, channel, tracker, tracker)
  BY <1>2, PathEmpty
<1>6. Agrees(tracker, shell)
  BY <1>1 DEF Agrees
<1>7. QED BY <1>1, <1>2, <1>3, <1>4, <1>5, <1>6 DEF ReportInv, Initializing

\* What the shell writes after all that is on its way.
LEMMA WrittenNext ==
  ASSUME NEW w \in Seq(Markers), channel \in Seq(Markers), tracker \in Trackers,
         NEW t \in Trackers, Path(Acceptance, channel, tracker, t),
         NEW u \in Trackers, Path(Acceptance, w, t, u)
  PROVE  /\ channel \o w \in Seq(Markers)
         /\ Path(Acceptance, channel \o w, tracker, u)
         /\ channel # <<>> => channel \o w # <<>> /\ Head(channel \o w) = Head(channel)
<1>1. channel \o w \in Seq(Markers) /\ Path(Acceptance, channel \o w, tracker, u)
  BY PathTwo
<1>2. channel # <<>> => channel \o w # <<>> /\ Head(channel \o w) = Head(channel)
  <2> SUFFICES ASSUME channel # <<>> PROVE channel \o w # <<>> /\ Head(channel \o w) = Head(channel)
    OBVIOUS
  <2>1. Len(channel) > 0 /\ Len(channel) \in Nat /\ Len(w) \in Nat
    BY EmptySeq, LenProperties
  <2>2. Len(channel \o w) = Len(channel) + Len(w) /\ (channel \o w)[1] = channel[1]
    BY <2>1, ConcatProperties
  <2>3. channel \o w # <<>>
    BY <2>1, <2>2
  <2>4. QED BY <1>1, <2>2, <2>3, HeadTailProperties
<1>3. QED BY <1>1, <1>2

\* A step of the shell that writes w: it is enough that the tracker agrees after it.
LEMMA ShellWrites ==
  ASSUME ReportInv, shell.phase \in {"ready", "prompt", "running"}, UNCHANGED tracker,
         ShellOK(shell'), shell'.phase \in {"ready", "prompt", "running"},
         NEW w \in Seq(Markers), channel' = channel \o w,
         \A t \in Trackers : Agrees(t, shell) =>
             \E u \in Trackers : Path(Acceptance, w, t, u) /\ Agrees(u, shell')
  PROVE  ReportInv'
<1>1. PICK t \in Trackers : Path(Acceptance, channel, tracker, t) /\ Agrees(t, shell)
  BY DEF ReportInv
<1>2. PICK u \in Trackers : Path(Acceptance, w, t, u) /\ Agrees(u, shell')
  BY <1>1
<1>3. channel \in Seq(Markers) /\ tracker \in Trackers
  BY DEF ReportInv
<1>4. /\ channel' \in Seq(Markers) /\ Path(Acceptance, channel', tracker, u)
      /\ channel # <<>> => channel' # <<>> /\ Head(channel') = Head(channel)
  BY <1>1, <1>2, <1>3, WrittenNext
<1>5. Initializing'
  BY <1>4 DEF ReportInv, Initializing
<1>6. \E v \in Trackers : Path(Acceptance, channel', tracker', v) /\ Agrees(v, shell')
  BY <1>2, <1>4
<1>7. QED BY <1>3, <1>4, <1>5, <1>6 DEF ReportInv

\* A step of the shell that ends in a prompt preserves the invariant.
LEMMA PromptedStep ==
  ASSUME ReportInv, shell.phase \in {"ready", "prompt", "running"}, UNCHANGED tracker,
         NEW sh, ShellHooked(sh), NEW e \in ExitCodes, Shell!Prompted(sh, e),
         \A t \in Trackers : Agrees(t, shell) => BeforePrompt(t, sh, e)
  PROVE  ReportInv'
<1>1. PICK installed \in IF sh.kind = "powershell" THEN BOOLEAN ELSE {sh.encodes} :
        channel' = channel \o Written(sh, e, installed) /\ shell' = AfterPrompt(sh, installed)
  BY DEF Shell!Prompted, Written, AfterPrompt
<1>2. installed \in BOOLEAN
  BY DEF ShellHooked
<1>3. ShellOK(shell') /\ shell'.phase = "prompt"
  BY <1>1, <1>2, AfterPromptTyped
<1>4. PICK t \in Trackers : Agrees(t, shell)
  BY DEF ReportInv
<1>5. Written(sh, e, installed) \in Seq(Markers)
  BY <1>4, PromptWritten
<1>6. ASSUME NEW x \in Trackers, Agrees(x, shell)
      PROVE  \E u \in Trackers : Path(Acceptance, Written(sh, e, installed), x, u) /\ Agrees(u, shell')
  BY <1>1, <1>6, PromptWritten
<1>7. QED BY <1>1, <1>3, <1>5, <1>6, ShellWrites

LEMMA LineStep ==
  ASSUME ReportInv, Shell!FirstPrompt \/ Shell!LineWithoutCommand
  PROVE  ReportInv'
<1>0. ShellOK(shell) /\ shell.activeId = NoId /\ UNCHANGED tracker
      /\ (shell.phase = "ready" => shell.history = <<>>) /\ shell.phase \in {"ready", "prompt"}
  BY DEF ReportInv, ShellOK, Shell!FirstPrompt, Shell!LineWithoutCommand
<1>1. PICK e \in ExitCodes, n \in Nat : Shell!Prompted([shell EXCEPT !.lines = n], e)
  <2>1. CASE Shell!FirstPrompt
    <3>1. shell.lines \in Nat /\ [shell EXCEPT !.lines = shell.lines] = shell
      BY <1>0 DEF ShellOK
    <3>2. QED BY <2>1, <3>1 DEF Shell!FirstPrompt
  <2>2. CASE Shell!LineWithoutCommand
    <3>1. shell.lines + 1 \in Nat
      BY <1>0 DEF ShellOK
    <3>2. [shell EXCEPT !.lines = @ + 1] = [shell EXCEPT !.lines = shell.lines + 1]
      BY <1>0 DEF ShellOK
    <3>3. QED BY <2>2, <3>1, <3>2 DEF Shell!LineWithoutCommand
  <2>3. QED BY <2>1, <2>2
<1> DEFINE sh == [shell EXCEPT !.lines = n]
<1>2. /\ ShellHooked(sh) /\ sh.activeId = NoId /\ sh.encodes = shell.encodes
      /\ sh.history = shell.history /\ sh.kind = shell.kind
  BY <1>0 DEF ShellOK, ShellHooked
<1> HIDE DEF sh
<1>3. ASSUME NEW t \in Trackers, Agrees(t, shell) PROVE BeforePrompt(t, sh, e)
  BY <1>0, <1>2, <1>3 DEF Agrees, BeforePrompt, LastTold
<1>4. Shell!Prompted(sh, e)
  BY <1>1 DEF sh
<1>5. QED BY <1>0, <1>2, <1>3, <1>4, PromptedStep

LEMMA EndedStep ==
  ASSUME ReportInv, Shell!CommandEnded
  PROVE  ReportInv'
<1>0. ShellOK(shell) /\ shell.phase = "running" /\ UNCHANGED tracker
  BY DEF ReportInv, Shell!CommandEnded
<1>1. PICK e \in ExitCodes, d \in Directories :
        Shell!Prompted([shell EXCEPT !.cwd = d, !.history = shell.history \o Shell!Finishing(shell, e)], e)
  <2>1. PICK e \in ExitCodes, d \in Directories :
          Shell!Prompted([shell EXCEPT !.cwd = d, !.history = @ \o Shell!Finishing(shell, e)], e)
    BY DEF Shell!CommandEnded
  <2>2. [shell EXCEPT !.cwd = d, !.history = @ \o Shell!Finishing(shell, e)]
          = [shell EXCEPT !.cwd = d, !.history = shell.history \o Shell!Finishing(shell, e)]
    BY <1>0 DEF ShellOK
  <2>3. QED BY <2>1, <2>2
<1> DEFINE h == shell.history \o Shell!Finishing(shell, e)
           sh == [shell EXCEPT !.cwd = d, !.history = h]
<1>2. h \in Seq(Finishes)
      /\ (shell.activeId # NoId => h # <<>> /\ Last(h) = Shell!EncodedFinish(shell, e))
  <2>1. CASE shell.activeId = NoId
    <3>1. h = shell.history
      BY <1>0, <2>1, ConcatEmptySeq DEF ShellOK, Shell!Finishing
    <3>2. QED BY <1>0, <2>1, <3>1 DEF ShellOK
  <2>2. CASE shell.activeId # NoId
    <3> DEFINE m == Shell!EncodedFinish(shell, e)
    <3>1. m \in Finishes
      BY <1>0, <2>2, FinishWritten DEF ShellOK, ShellHooked
    <3>2. h = shell.history \o <<m>>
      BY <2>2 DEF Shell!Finishing
    <3> HIDE DEF m
    <3>3. <<m>> \in Seq(Finishes) /\ shell.history \in Seq(Finishes) /\ Len(<<m>>) = 1
      BY <1>0, <3>1 DEF ShellOK
    <3>4. /\ h \in Seq(Finishes) /\ Len(h) = Len(shell.history) + 1
          /\ h[Len(shell.history) + 1] = m /\ Len(shell.history) \in Nat
      BY <3>2, <3>3, ConcatProperties, LenProperties
    <3> HIDE DEF h
    <3>5. h # <<>>
      BY <3>4
    <3>6. QED BY <3>4, <3>5 DEF Last, m
  <2>3. QED BY <2>1, <2>2
<1> HIDE DEF h
<1>3. /\ ShellHooked(sh) /\ sh.activeId = shell.activeId /\ sh.encodes = shell.encodes
      /\ sh.history = h /\ sh.kind = shell.kind
  BY <1>0, <1>2 DEF ShellOK, ShellHooked
<1> HIDE DEF sh
<1>4. ASSUME NEW t \in Trackers, Agrees(t, shell) PROVE BeforePrompt(t, sh, e)
  <2>1. t.status = "available" => shell.encodes /\ t.command = Shell!Running(shell.activeId)
    BY <1>0, <1>4 DEF Agrees
  <2>2. t.status = "available" => shell.activeId # NoId
    <3>1. t.command \in Commands
      BY DEF Trackers
    <3>2. Shell!Running(shell.activeId).state = "running"
          /\ Shell!Running(shell.activeId).id = shell.activeId
      BY DEF Shell!Running
    <3>3. \A c \in Commands : c.state = "running" => c.id \in Nat
      BY DEF Commands
    <3>4. QED BY <2>1, <3>1, <3>2, <3>3, NoIdAssumption
  <2>3. Shell!EncodedFinish(sh, e) = Shell!EncodedFinish(shell, e)
    BY <1>3 DEF Shell!EncodedFinish
  <2>4. QED BY <1>2, <1>3, <2>1, <2>2, <2>3 DEF BeforePrompt
<1>5. Shell!Prompted(sh, e)
  BY <1>1 DEF sh, h
<1>6. QED BY <1>0, <1>3, <1>4, <1>5, PromptedStep

\* A start that is announced, or whose marker is too long.
StartOrInvalid(n, tooLong) == IF tooLong THEN Shell!Invalid ELSE Shell!CommandStart(n)

LEMMA StartOrInvalidApplied ==
  ASSUME NEW t \in Trackers, NEW n \in Nat, NEW tooLong
  PROVE  LET u == Shell!Applied(t, StartOrInvalid(n, tooLong)) IN
         /\ StartOrInvalid(n, tooLong) \in Markers /\ u \in Trackers
         /\ Path(Acceptance, <<StartOrInvalid(n, tooLong)>>, t, u)
         /\ u.status = "available" =>
              t.status = "available" /\ t.command.state # "running" /\ u.command = Shell!Running(n)
<1>1. CASE tooLong
  <2>1. StartOrInvalid(n, tooLong) = Shell!Invalid /\ Shell!Invalid \in Markers
    BY <1>1, MarkersWritten DEF StartOrInvalid
  <2>2. QED BY <2>1, PathOne, OtherApplied
<1>2. CASE ~tooLong
  <2>1. StartOrInvalid(n, tooLong) = Shell!CommandStart(n) /\ Shell!CommandStart(n) \in Markers
    BY <1>2, MarkersWritten DEF StartOrInvalid
  <2>2. Shell!Applied(t, Shell!CommandStart(n)).status = "available" =>
          /\ t.status = "available" /\ t.command.state # "running"
          /\ Shell!Applied(t, Shell!CommandStart(n)).command = Shell!Running(n)
    BY StartApplied
  <2>3. QED BY <2>1, <2>2, PathOne
<1>3. QED BY <1>1, <1>2

\* A line that starts commands: the tracker follows the first, whatever markers are too long.
LEMMA EnteredStep ==
  ASSUME ReportInv, Shell!CommandEntered
  PROVE  ReportInv'
<1>0. ShellOK(shell) /\ shell.phase = "prompt" /\ UNCHANGED tracker
      /\ shell.sequence \in Nat /\ shell.lines \in Nat /\ channel \in Seq(Markers)
  BY DEF ReportInv, Shell!CommandEntered, ShellOK
<1>1. PICK starts \in IF shell.kind # "powershell" THEN {1} ELSE IF shell.encodes THEN {1, 2} ELSE {0} :
        /\ shell'
             = [shell EXCEPT !.phase = "running", !.lines = @ + 1, !.sequence = shell.sequence + starts,
                                  !.activeId = IF starts = 0 THEN NoId ELSE shell.sequence + starts]
        /\ \E long \in SUBSET (1..starts) :
              channel' = channel \o
                  [i \in 1..starts |->
                       IF i \in long THEN Shell!Invalid ELSE Shell!CommandStart(shell.sequence + i)]
  BY DEF Shell!CommandEntered
<1>2. PICK long \in SUBSET (1..starts) :
        channel' = channel \o
            [i \in 1..starts |->
                       IF i \in long THEN Shell!Invalid ELSE Shell!CommandStart(shell.sequence + i)]
  BY <1>1
<1>3. starts \in {0, 1, 2} /\ (starts = 0 => ~shell.encodes)
  BY <1>1
<1> DEFINE n == shell.sequence + starts
           id == IF starts = 0 THEN NoId ELSE n
           k == shell.lines + 1
           x == StartOrInvalid(shell.sequence + 1, 1 \in long)
           y == StartOrInvalid(shell.sequence + 2, 2 \in long)
           w == [i \in 1..starts |->
                       IF i \in long THEN Shell!Invalid ELSE Shell!CommandStart(shell.sequence + i)]
<1>4. n \in Nat /\ id \in Nat \cup {NoId} /\ k \in Nat /\ shell.sequence + 1 \in Nat
      /\ shell.sequence + 2 \in Nat
  BY <1>0, <1>3
<1>5. shell' = [shell EXCEPT !.phase = "running", !.lines = k, !.sequence = n, !.activeId = id]
  BY <1>0, <1>1 DEF ShellOK
<1>6. w = IF starts = 0 THEN <<>> ELSE IF starts = 1 THEN <<x>> ELSE <<x, y>>
  <2>1. CASE starts = 0
    <3>1. w \in Seq({1}) /\ Len(w) = 0
      BY <2>1
    <3>2. QED BY <2>1, <3>1, EmptySeq
  <2>2. CASE starts = 1
    BY <2>2 DEF StartOrInvalid
  <2>3. CASE starts = 2
    <3>1. \A i \in 1..2 : i = 1 \/ i = 2
      OBVIOUS
    <3>2. QED BY <2>3, <3>1 DEF StartOrInvalid
  <2>4. QED BY <1>3, <2>1, <2>2, <2>3
<1>7. channel' = channel \o w
  BY <1>2
<1> HIDE DEF n, id, k, w
<1>8. /\ ShellOK(shell') /\ shell'.phase = "running" /\ shell'.activeId = id
      /\ shell'.encodes = shell.encodes
  BY <1>0, <1>4, <1>5 DEF ShellOK, Shell!Phases
<1>9. x \in Markers /\ y \in Markers
  BY <1>4, MarkersWritten DEF StartOrInvalid
<1> HIDE DEF x, y
<1>10. w \in Seq(Markers)
  BY <1>3, <1>6, <1>9
<1>11. ASSUME NEW t \in Trackers, Agrees(t, shell)
       PROVE  \E u \in Trackers : Path(Acceptance, w, t, u) /\ Agrees(u, shell')
  <2>0. t.status = "available" => shell.encodes
    BY <1>0, <1>11 DEF Agrees
  <2>1. CASE starts = 0
    <3>1. Path(Acceptance, <<>>, t, t)
      BY PathEmpty
    <3>2. Agrees(t, shell')
      BY <1>3, <1>8, <2>0, <2>1 DEF Agrees
    <3>3. QED BY <1>6, <2>1, <3>1, <3>2
  <2> DEFINE u == Shell!Applied(t, x)
  <2>2. /\ u \in Trackers /\ Path(Acceptance, <<x>>, t, u)
        /\ (u.status = "available" => t.status = "available" /\ u.command = Shell!Running(shell.sequence + 1))
    BY <1>4, StartOrInvalidApplied DEF x
  <2> HIDE DEF u
  <2>3. CASE starts = 1
    <3>1. id = shell.sequence + 1
      BY <2>3 DEF id, n
    <3>2. Agrees(u, shell')
      BY <1>8, <2>0, <2>2, <3>1 DEF Agrees
    <3>3. QED BY <1>6, <2>2, <2>3, <3>2
  <2>4. CASE starts = 2
    <3> DEFINE v == Shell!Applied(u, y)
    <3>1. /\ v \in Trackers /\ Path(Acceptance, <<y>>, u, v)
          /\ (v.status = "available" => u.status = "available" /\ u.command.state # "running")
      BY <1>4, <2>2, StartOrInvalidApplied DEF y
    <3> HIDE DEF v
    <3>2. v.status # "available"
      BY <2>2, <3>1, CommandFacts
    <3>3. Agrees(v, shell')
      BY <1>8, <3>2 DEF Agrees
    <3>4. <<x>> \in Seq(Markers) /\ <<y>> \in Seq(Markers)
      BY <1>9
    <3>5. <<x, y>> = <<x>> \o <<y>>
      BY <1>9, TwoMarkers
    <3>6. Path(Acceptance, <<x>> \o <<y>>, t, v)
      BY <2>2, <3>1, <3>4, PathTwo
    <3>7. w = <<x, y>>
      BY <1>6, <2>4
    <3>8. Path(Acceptance, w, t, v)
      BY <3>5, <3>6, <3>7
    <3>9. QED BY <3>1, <3>3, <3>8
  <2>5. QED BY <1>3, <2>1, <2>3, <2>4
<1>12. QED BY <1>0, <1>7, <1>8, <1>10, <1>11, ShellWrites

\* The other steps of the shell, and those of the tracker.
LEMMA StartedStep ==
  ASSUME ReportInv, Shell!ShellStarted
  PROVE  ReportInv'
<1>0. /\ ShellOK(shell) /\ shell.phase = "starting" /\ UNCHANGED tracker /\ tracker \in Trackers
      /\ channel = <<>>
  BY DEF ReportInv, Shell!ShellStarted
<1>1. PICK encodes \in BOOLEAN :
        /\ channel' = <<Shell!Ready(IF encodes THEN Shell!Full
                              ELSE IF shell.kind = "powershell" THEN Shell!PromptOnly ELSE Shell!Lifecycle)>>
        /\ shell' = [shell EXCEPT !.phase = "ready", !.encodes = encodes]
  BY DEF Shell!ShellStarted
<1> DEFINE c == IF encodes THEN Shell!Full
                ELSE IF shell.kind = "powershell" THEN Shell!PromptOnly ELSE Shell!Lifecycle
           m == Shell!Ready(c)
           u == Shell!Applied(tracker, m)
<1>2. c \in {Shell!Full, Shell!Lifecycle, Shell!PromptOnly} /\ (c = Shell!Full => encodes)
  BY Capabilities
<1>3. channel' = <<m>>
  BY <1>1
<1> HIDE DEF c
<1>4. m \in Markers /\ m.event = "ready"
  BY <1>2, MarkersWritten DEF Shell!Ready
<1>5. u \in Trackers /\ Path(Acceptance, <<m>>, tracker, u)
  BY <1>0, <1>4, PathOne
<1>6. tracker.status # "available" /\ tracker.command = Shell!Unknown
  <2>1. PICK t \in Trackers : Path(Acceptance, <<>>, tracker, t) /\ Agrees(t, shell)
    BY <1>0 DEF ReportInv
  <2>2. t = tracker
    BY <2>1, PathOfNothing
  <2>3. QED BY <1>0, <2>1, <2>2 DEF Agrees, Trackers
<1>7. u.status = "available" => encodes /\ u.command = Shell!Unknown
  BY <1>0, <1>2, <1>6, ReadyApplied
<1> HIDE DEF m, u
<1>8. ShellOK(shell') /\ shell'.phase = "ready" /\ shell'.encodes = encodes
  <2>1. shell' \in [kind : Shells, phase : Shell!Phases, cwd : Directories, encodes : BOOLEAN,
                    sequence : Nat, activeId : Nat \cup {NoId}, lines : Nat, history : Seq(Finishes)]
    <3>1. shell' = [shell EXCEPT !.phase = "ready", !.encodes = encodes] /\ encodes \in BOOLEAN
      BY <1>1
    <3>2. [shell EXCEPT !.phase = "ready", !.encodes = encodes] \in
             [kind : Shells, phase : Shell!Phases, cwd : Directories, encodes : BOOLEAN,
              sequence : Nat, activeId : Nat \cup {NoId}, lines : Nat, history : Seq(Finishes)]
      <4>1. "ready" \in Shell!Phases
        BY DEF Shell!Phases
      <4>2. shell \in [kind : Shells, phase : Shell!Phases, cwd : Directories, encodes : BOOLEAN,
              sequence : Nat, activeId : Nat \cup {NoId}, lines : Nat, history : Seq(Finishes)]
        BY <1>0 DEF ShellOK
      <4>3. encodes \in BOOLEAN
        BY <3>1
      <4>4. QED BY <4>1, <4>2, <4>3
    <3>3. QED BY <3>1, <3>2
  <2>2. /\ shell'.phase = "ready" /\ shell'.encodes = encodes
        /\ shell'.activeId = shell.activeId /\ shell'.history = shell.history
    BY <1>0, <1>1 DEF ShellOK
  <2>3. QED BY <1>0, <2>1, <2>2 DEF ShellOK
<1>9. Agrees(u, shell')
  BY <1>7, <1>8 DEF Agrees
<1>10. channel' \in Seq(Markers) /\ channel' # <<>> /\ Head(channel') = m
  BY <1>3, <1>4
<1>11. Initializing'
  BY <1>4, <1>10 DEF Initializing
<1>12. \E t \in Trackers : Path(Acceptance, channel', tracker', t) /\ Agrees(t, shell')
  BY <1>0, <1>3, <1>5, <1>9
<1>13. QED BY <1>0, <1>8, <1>10, <1>11, <1>12 DEF ReportInv

LEMMA NestedStep ==
  ASSUME ReportInv, Shell!NestedMarker
  PROVE  ReportInv'
<1>0. /\ ShellOK(shell) /\ shell.phase = "running" /\ UNCHANGED tracker /\ channel \in Seq(Markers)
      /\ shell.lines + 1 \in Nat
  BY DEF ReportInv, Shell!NestedMarker, ShellOK
<1>1. channel' = channel \o <<Shell!Foreign>> /\ Shell!Foreign \in Markers
      /\ <<Shell!Foreign>> \in Seq(Markers)
  BY <1>0, MarkersWritten, AppendIsConcat DEF Shell!NestedMarker
<1>2. shell' = [shell EXCEPT !.lines = shell.lines + 1]
  BY <1>0 DEF Shell!NestedMarker, ShellOK
<1>3. /\ ShellOK(shell') /\ shell'.phase = "running" /\ shell'.encodes = shell.encodes
      /\ shell'.activeId = shell.activeId
  BY <1>0, <1>2 DEF ShellOK
<1>4. ASSUME NEW t \in Trackers, Agrees(t, shell)
      PROVE  \E u \in Trackers : Path(Acceptance, <<Shell!Foreign>>, t, u) /\ Agrees(u, shell')
  <2>1. Path(Acceptance, <<Shell!Foreign>>, t, t)
    BY <1>1, PathOne, OtherApplied
  <2>2. Agrees(t, shell')
    BY <1>0, <1>3, <1>4 DEF Agrees
  <2>3. QED BY <2>1, <2>2
<1>5. QED BY <1>0, <1>1, <1>3, <1>4, ShellWrites

LEMMA ExitedStep ==
  ASSUME ReportInv, Shell!ShellExited
  PROVE  ReportInv'
<1>0. /\ ShellOK(shell) /\ shell.phase \notin {"exited", "closed"} /\ UNCHANGED <<channel, tracker>>
      /\ shell' = [shell EXCEPT !.phase = "exited"]
  BY DEF ReportInv, Shell!ShellExited
<1>1. ShellOK(shell') /\ shell'.phase = "exited"
  BY <1>0 DEF ShellOK, Shell!Phases
<1>2. Initializing'
  BY <1>0, <1>1 DEF ReportInv, Initializing
<1>3. \E t \in Trackers : Path(Acceptance, channel', tracker', t) /\ Agrees(t, shell')
  BY <1>0, <1>1 DEF ReportInv, Agrees
<1>4. QED BY <1>0, <1>1, <1>2, <1>3 DEF ReportInv

LEMMA AcceptStep ==
  ASSUME ReportInv, Shell!AcceptOsc
  PROVE  ReportInv'
<1> DEFINE m == Head(channel)
           u == Shell!Applied(tracker, m)
<1>0. /\ ShellOK(shell) /\ channel \in Seq(Markers) /\ tracker \in Trackers /\ channel # <<>>
      /\ channel' = Tail(channel) /\ tracker' = u /\ UNCHANGED shell
      /\ shell.phase \notin {"starting", "closed"}
  BY DEF ReportInv, Shell!AcceptOsc
<1>1. m \in Markers /\ Tail(channel) \in Seq(Markers)
  BY <1>0, HeadTailProperties
<1>2. u \in Trackers /\ u.status # "initializing"
  BY <1>0, <1>1, AppliedTyped DEF ReportInv, Initializing
<1>3. PICK t \in Trackers : Path(Acceptance, channel, tracker, t) /\ Agrees(t, shell)
  BY DEF ReportInv
<1>4. PICK v : <<tracker, m, v>> \in Acceptance /\ Path(Acceptance, Tail(channel), v, t)
  BY <1>0, <1>3, PathHead
<1>5. v = u
  BY <1>4 DEF Acceptance
<1> HIDE DEF m, u
<1>6. \E x \in Trackers : Path(Acceptance, channel', tracker', x) /\ Agrees(x, shell')
  BY <1>0, <1>3, <1>4, <1>5
<1>7. QED BY <1>0, <1>1, <1>2, <1>6 DEF ReportInv, Initializing

LEMMA TimedOutStep ==
  ASSUME ReportInv, Shell!InitializationTimedOut
  PROVE  ReportInv'
<1> DEFINE d == Shell!Degraded(tracker)
<1>0. /\ ShellOK(shell) /\ channel \in Seq(Markers) /\ tracker \in Trackers
      /\ UNCHANGED <<shell, channel>> /\ tracker' = d /\ tracker.status = "initializing"
      /\ shell.phase # "closed"
  BY DEF ReportInv, Shell!InitializationTimedOut
<1>1. d \in Trackers /\ d.status = "degraded"
  BY <1>0, CommandsTold DEF Shell!Degraded, Trackers
<1>2. \E x \in Trackers : Path(Acceptance, channel, d, x) /\ Agrees(x, shell)
  <2>1. CASE channel = <<>>
    <3>1. shell.phase \in {"starting", "exited"}
      BY <1>0, <2>1 DEF ReportInv, Initializing
    <3>2. Agrees(d, shell)
      BY <1>1, <3>1 DEF Agrees
    <3>3. QED BY <1>1, <2>1, <3>2, PathEmpty
  <2>2. CASE channel # <<>>
    <3> DEFINE m == Head(channel)
    <3>1. m.event = "ready" /\ m \in Markers /\ Tail(channel) \in Seq(Markers)
      BY <1>0, <2>2, HeadTailProperties DEF ReportInv, Initializing
    <3>2. PICK t \in Trackers : Path(Acceptance, channel, tracker, t) /\ Agrees(t, shell)
      BY DEF ReportInv
    <3>3. PICK v : <<tracker, m, v>> \in Acceptance /\ Path(Acceptance, Tail(channel), v, t)
      BY <1>0, <2>2, <3>2, PathHead
    <3>4. v = Shell!Applied(tracker, m)
      BY <3>3 DEF Acceptance
    <3> HIDE DEF m
    <3>5. Shell!Applied(d, m) = Shell!Applied(tracker, m)
      <4>1. tracker.command = Shell!Unknown
        BY <1>0 DEF Trackers
      <4>2. Shell!AcceptReady(d, m) = Shell!AcceptReady(tracker, m)
        <5>1. CASE m.capabilities = Shell!Full
          BY <1>0, <4>1, <5>1 DEF Shell!AcceptReady, Shell!Degraded, Trackers
        <5>2. CASE m.capabilities # Shell!Full
          BY <1>0, <4>1, <5>2 DEF Shell!AcceptReady, Shell!Degraded, Trackers
        <5>3. QED BY <5>1, <5>2
      <4>3. QED BY <3>1, <4>2 DEF Shell!Applied
    <3> HIDE DEF d
    <3>6. Path(Acceptance, <<m>>, d, v) /\ v \in Trackers
      BY <1>1, <3>1, <3>4, <3>5, PathOne
    <3>7. <<m>> \in Seq(Markers) /\ channel = <<m>> \o Tail(channel)
      BY <1>0, <2>2, <3>1, HeadTailConcat DEF m
    <3>8. Path(Acceptance, <<m>> \o Tail(channel), d, t)
      BY <1>1, <3>1, <3>2, <3>3, <3>6, <3>7, PathTwo
    <3>9. QED BY <3>2, <3>7, <3>8
  <2>3. QED BY <2>1, <2>2
<1> HIDE DEF d
<1>3. QED BY <1>0, <1>1, <1>2 DEF ReportInv, Initializing

LEMMA ClosedStep ==
  ASSUME ReportInv, Shell!MarkShellExited
  PROVE  ReportInv'
<1> DEFINE u == IF tracker.command.state = "running"
                THEN [tracker EXCEPT !.command = Shell!Unknown] ELSE tracker
<1>0. /\ ShellOK(shell) /\ channel = <<>> /\ tracker \in Trackers /\ channel \in Seq(Markers)
      /\ shell' = [shell EXCEPT !.phase = "closed"] /\ UNCHANGED channel /\ tracker' = u
  BY DEF ReportInv, Shell!MarkShellExited
<1>1. ShellOK(shell') /\ shell'.phase = "closed"
  BY <1>0 DEF ShellOK, Shell!Phases
<1>2. u \in Trackers /\ u.command.state # "running"
  BY <1>0, CommandsTold, CommandFacts DEF Trackers
<1> HIDE DEF u
<1>3. Path(Acceptance, channel', u, u) /\ Agrees(u, shell')
  BY <1>0, <1>1, PathEmpty DEF Agrees
<1>4. QED BY <1>0, <1>1, <1>2, <1>3 DEF ReportInv, Initializing

LEMMA ShellStep == ReportInv /\ [Shell!Next]_Shell!vars => ReportInv'
<1> SUFFICES ASSUME ReportInv, [Shell!Next]_Shell!vars PROVE ReportInv'
  OBVIOUS
<1>1. CASE UNCHANGED Shell!vars
  BY <1>1 DEF Shell!vars, ReportInv, Initializing
<1>2. CASE Shell!Next
  BY <1>2, StartedStep, LineStep, EnteredStep, EndedStep, NestedStep, ExitedStep, AcceptStep,
     TimedOutStep, ClosedStep DEF Shell!Next
<1>3. QED BY <1>1, <1>2

\* The invariant implies the property.
LEMMA ReportsTruly == ReportInv => Shell!ReportsShell
<1> SUFFICES ASSUME ReportInv PROVE Shell!ReportsShell
  OBVIOUS
<1>1. tracker.status # "available" => tracker.command = Shell!Unknown
  BY DEF ReportInv, Trackers
<1>2. ASSUME channel = <<>> PROVE Agrees(tracker, shell)
  BY <1>2, PathOfNothing DEF ReportInv
<1>3. shell.phase = "closed" => tracker.command.state # "running"
  BY DEF ReportInv
<1>4. ASSUME channel = <<>>, tracker.status = "available"
      PROVE  /\ shell.phase = "running" => tracker.command = Shell!Running(shell.activeId)
             /\ shell.phase = "prompt" =>
                  /\ tracker.command.state = "idle" /\ tracker.cwd = shell.cwd
                  /\ shell.kind \in {"zsh", "fish"} => tracker.command.last = Shell!LatestCommand
                  /\ shell.kind = "powershell" => tracker.command.last \in {<<>>, Shell!LatestCommand}
  BY <1>2, <1>4 DEF Agrees, Shell!LatestCommand, Last, Shell!Last
<1>5. QED BY <1>1, <1>3, <1>4 DEF Shell!ReportsShell

\* When its markers have arrived, what an available integration reports is what the shell
\* does, whatever lines are entered, nested shells started and markers lost to their length.
THEOREM ReportSafe == Shell!Spec => []ReportsShell
<1>1. Shell!Init => ReportInv
  BY ShellInit
<1>2. ReportInv /\ [Shell!Next]_Shell!vars => ReportInv'
  BY ShellStep
<1>3. ReportInv => ReportsShell
  BY ReportsTruly DEF ReportsShell
<1>4. QED BY <1>1, <1>2, <1>3, PTL DEF Shell!Spec

-----------------------------------------------------------------------------
(***************************************************************************)
(* The startup handshake.  What the scan has passed on holds no beginning  *)
(* of an early query, so that the first early query of the whole output,   *)
(* if there is one, is the first the scan finds in what it holds back      *)
(* and the next chunk.                                                     *)
(***************************************************************************)

\* The query stands at an index, from 0; it has begun there, and the data end.
Occurs(data, i) ==
    i \in Nat /\ i + Len(Query) <= Len(data) /\ \A k \in 1..Len(Query) : data[i + k] = Query[k]
Begins(data, i) ==
    /\ i \in Nat /\ i < Len(data) /\ Len(data) - i < Len(Query)
    /\ \A k \in 1..(Len(data) - i) : data[i + k] = Query[k]

LEMMA QueryLength == Len(Query) \in Nat /\ Len(Query) >= 1
BY QueryAssumption, EmptySeq, LenProperties

\* What is cut from data: its length and its characters.
LEMMA SliceIs ==
  ASSUME NEW data \in Seq(Characters), NEW from \in Nat, NEW to \in Nat, to <= Len(data)
  PROVE  /\ Handshake!Slice(data, from, to) \in Seq(Characters)
         /\ Len(Handshake!Slice(data, from, to)) = IF from <= to THEN to - from ELSE 0
         /\ \A k \in 1..(to - from) : Handshake!Slice(data, from, to)[k] = data[from + k]
<1>1. Len(data) \in Nat /\ from + 1 \in Int /\ to \in Int
  BY LenProperties
<1>2. \A k \in (from + 1)..to : data[k] \in Characters
  BY <1>1, ElementOfSeq
<1>3. /\ SubSeq(data, from + 1, to) \in Seq(Characters)
      /\ Len(SubSeq(data, from + 1, to)) = IF from + 1 <= to THEN to - (from + 1) + 1 ELSE 0
      /\ \A k \in 1..(to - (from + 1) + 1) : SubSeq(data, from + 1, to)[k] = data[from + 1 + k - 1]
  BY <1>1, <1>2, SubSeqProperties
<1>4. to - (from + 1) + 1 = to - from
  BY <1>1
<1>5. ASSUME NEW k \in 1..(to - from) PROVE SubSeq(data, from + 1, to)[k] = data[from + k]
  <2>1. from + 1 + k - 1 = from + k
    BY <1>1
  <2>2. QED BY <1>3, <1>4, <2>1
<1>6. QED BY <1>1, <1>3, <1>4, <1>5 DEF Handshake!Slice

\* The same, of the number of characters.
LEMMA SliceOf ==
  ASSUME NEW data \in Seq(Characters), NEW from \in Nat, NEW n \in Nat, from + n <= Len(data)
  PROVE  /\ Handshake!Slice(data, from, from + n) \in Seq(Characters)
         /\ Len(Handshake!Slice(data, from, from + n)) = n
         /\ \A k \in 1..n : Handshake!Slice(data, from, from + n)[k] = data[from + k]
<1> DEFINE to == from + n
<1>1. to \in Nat /\ to - from = n /\ from <= to /\ to <= Len(data)
  BY LenProperties
<1> HIDE DEF to
<1>2. /\ Handshake!Slice(data, from, to) \in Seq(Characters)
      /\ Len(Handshake!Slice(data, from, to)) = IF from <= to THEN to - from ELSE 0
      /\ \A k \in 1..(to - from) : Handshake!Slice(data, from, to)[k] = data[from + k]
  BY <1>1, SliceIs
<1>3. QED BY <1>1, <1>2 DEF to

\* The search finds the indexes at which the query stands.
LEMMA QueryIndexesAre ==
  ASSUME NEW data \in Seq(Characters), NEW i
  PROVE  i \in Handshake!QueryIndexes(data) <=> Occurs(data, i)
<1>0. Len(data) \in Nat /\ Len(Query) \in Nat /\ Len(Query) >= 1 /\ Query \in Seq(Characters)
  BY QueryLength, QueryAssumption, LenProperties
<1> DEFINE n == Len(Query)
<1> HIDE DEF n
<1>1. ASSUME NEW j \in Nat, j + n <= Len(data)
      PROVE  Handshake!Slice(data, j, j + n) = Query <=> \A k \in 1..n : data[j + k] = Query[k]
  <2>1. n \in Nat /\ j + n \in Nat /\ (j + n) - j = n
    BY <1>0 DEF n
  <2>2. /\ Handshake!Slice(data, j, j + n) \in Seq(Characters)
        /\ Len(Handshake!Slice(data, j, j + n)) = n
        /\ \A k \in 1..n : Handshake!Slice(data, j, j + n)[k] = data[j + k]
    BY <1>1, <2>1, SliceOf
  <2>3. ASSUME Handshake!Slice(data, j, j + n) = Query PROVE \A k \in 1..n : data[j + k] = Query[k]
    BY <2>2, <2>3
  <2>4. ASSUME \A k \in 1..n : data[j + k] = Query[k] PROVE Handshake!Slice(data, j, j + n) = Query
    BY <1>0, <2>2, <2>4, SeqEqual DEF n
  <2>5. QED BY <2>3, <2>4
<1>2. i \in 0..(Len(data) - n) <=> i \in Nat /\ i + n <= Len(data)
  BY <1>0 DEF n
<1>3. QED BY <1>1, <1>2 DEF Handshake!QueryIndexes, Occurs, n

\* What may be held back: the ends of the data with which a query begins early.
LEMMA PendingLengthsAre ==
  ASSUME NEW data \in Seq(Characters), NEW start \in Nat, NEW length
  PROVE  length \in Handshake!PendingLengths(data, start) <=>
           /\ length \in 1..Len(data)
           /\ Begins(data, Len(data) - length) /\ start + Len(data) - length < ScanLength
<1>0. Len(data) \in Nat /\ Len(Query) \in Nat /\ Len(Query) >= 1 /\ Query \in Seq(Characters)
  BY QueryLength, QueryAssumption, LenProperties
<1>1. ASSUME NEW l \in 1..Len(data), l < Len(Query)
      PROVE  Handshake!From(data, Len(data) - l) = Handshake!Slice(Query, 0, l)
               <=> \A k \in 1..l : data[(Len(data) - l) + k] = Query[k]
  <2>1. l \in Nat /\ Len(data) - l \in Nat /\ Len(data) - (Len(data) - l) = l /\ l - 0 = l
    BY <1>0
  <2>2. /\ Handshake!From(data, Len(data) - l) \in Seq(Characters)
        /\ Len(Handshake!From(data, Len(data) - l)) = l
        /\ \A k \in 1..l : Handshake!From(data, Len(data) - l)[k] = data[(Len(data) - l) + k]
    <3> DEFINE b == Len(data) - l
    <3>1. b + l = Len(data) /\ b \in Nat /\ l \in Nat /\ b + l <= Len(data)
      BY <1>0, <2>1
    <3> HIDE DEF b
    <3>2. /\ Handshake!Slice(data, b, b + l) \in Seq(Characters)
          /\ Len(Handshake!Slice(data, b, b + l)) = l
          /\ \A k \in 1..l : Handshake!Slice(data, b, b + l)[k] = data[b + k]
      BY <3>1, SliceOf
    <3>3. QED BY <3>1, <3>2 DEF Handshake!From, b
  <2>3. /\ Handshake!Slice(Query, 0, l) \in Seq(Characters) /\ Len(Handshake!Slice(Query, 0, l)) = l
        /\ \A k \in 1..l : Handshake!Slice(Query, 0, l)[k] = Query[0 + k]
    <3>1. 0 + l = l /\ 0 \in Nat /\ 0 + l <= Len(Query)
      BY <1>0, <1>1
    <3>2. /\ Handshake!Slice(Query, 0, 0 + l) \in Seq(Characters)
          /\ Len(Handshake!Slice(Query, 0, 0 + l)) = l
          /\ \A k \in 1..l : Handshake!Slice(Query, 0, 0 + l)[k] = Query[0 + k]
      BY <1>0, <2>1, <3>1, SliceOf
    <3>3. QED BY <3>1, <3>2
  <2>4. \A k \in 1..l : 0 + k = k
    OBVIOUS
  <2>5. ASSUME Handshake!From(data, Len(data) - l) = Handshake!Slice(Query, 0, l)
        PROVE  \A k \in 1..l : data[(Len(data) - l) + k] = Query[k]
    BY <2>2, <2>3, <2>4, <2>5
  <2>6. ASSUME \A k \in 1..l : data[(Len(data) - l) + k] = Query[k]
        PROVE  Handshake!From(data, Len(data) - l) = Handshake!Slice(Query, 0, l)
    BY <2>2, <2>3, <2>4, <2>6, SeqEqual
  <2>7. QED BY <2>5, <2>6
<1>2. ASSUME NEW l \in 1..Len(data)
      PROVE  Begins(data, Len(data) - l) <=>
               l < Len(Query) /\ \A k \in 1..l : data[(Len(data) - l) + k] = Query[k]
  <2>1. Len(data) - l \in Nat /\ Len(data) - l < Len(data) /\ Len(data) - (Len(data) - l) = l
    BY <1>0
  <2>2. QED BY <2>1 DEF Begins
<1>3. length \in 1..(Len(Query) - 1) /\ length <= Len(data)
        <=> length \in 1..Len(data) /\ length < Len(Query)
  BY <1>0
<1>4. QED BY <1>1, <1>2, <1>3 DEF Handshake!PendingLengths

\* Occurrences and beginnings in the last part of data are those of the part.
LEMMA Shifted ==
  ASSUME NEW x \in Seq(Characters), NEW y \in Seq(Characters), NEW i \in Nat
  PROVE  /\ Occurs(x \o y, Len(x) + i) <=> Occurs(y, i)
         /\ Begins(x \o y, Len(x) + i) <=> Begins(y, i)
<1>0. /\ Len(x) \in Nat /\ Len(y) \in Nat /\ Len(Query) \in Nat /\ Len(x) + i \in Nat
      /\ Len(x \o y) = Len(x) + Len(y)
      /\ \A k \in 1..(Len(x) + Len(y)) : (x \o y)[k] = IF k <= Len(x) THEN x[k] ELSE y[k - Len(x)]
  BY QueryLength, LenProperties, ConcatProperties
<1>1. ASSUME NEW k \in Nat, k >= 1, i + k <= Len(y) PROVE (x \o y)[(Len(x) + i) + k] = y[i + k]
  <2>1. /\ (Len(x) + i) + k \in 1..(Len(x) + Len(y)) /\ ~((Len(x) + i) + k <= Len(x))
        /\ (Len(x) + i) + k - Len(x) = i + k
    BY <1>0, <1>1
  <2>2. QED BY <1>0, <2>1
<1>2. Occurs(x \o y, Len(x) + i) <=> Occurs(y, i)
  <2>1. (Len(x) + i) + Len(Query) <= Len(x \o y) <=> i + Len(Query) <= Len(y)
    BY <1>0
  <2>2. ASSUME i + Len(Query) <= Len(y), NEW k \in 1..Len(Query)
        PROVE  (x \o y)[(Len(x) + i) + k] = y[i + k]
    BY <1>0, <1>1, <2>2
  <2>3. QED BY <1>0, <2>1, <2>2 DEF Occurs
<1>3. Begins(x \o y, Len(x) + i) <=> Begins(y, i)
  <2>1. /\ Len(x) + i < Len(x \o y) <=> i < Len(y)
        /\ Len(x \o y) - (Len(x) + i) = Len(y) - i
    BY <1>0
  <2>2. ASSUME i < Len(y), NEW k \in 1..(Len(y) - i)
        PROVE  (x \o y)[(Len(x) + i) + k] = y[i + k]
    <3>1. k \in Nat /\ k >= 1 /\ i + k <= Len(y)
      BY <1>0, <2>2
    <3>2. QED BY <1>1, <3>1
  <2>3. QED BY <1>0, <2>1, <2>2 DEF Begins
<1>4. QED BY <1>2, <1>3

\* What occurs in more data, and from before them, occurs in the data or begins there.
LEMMA Continued ==
  ASSUME NEW x \in Seq(Characters), NEW y \in Seq(Characters), NEW i \in Nat, i < Len(x)
  PROVE  /\ Occurs(x \o y, i) => Occurs(x, i) \/ Begins(x, i)
         /\ Begins(x \o y, i) => Begins(x, i)
         /\ Occurs(x, i) => Occurs(x \o y, i)
<1>0. /\ Len(x) \in Nat /\ Len(y) \in Nat /\ Len(Query) \in Nat
      /\ Len(x \o y) = Len(x) + Len(y)
      /\ \A k \in 1..(Len(x) + Len(y)) : (x \o y)[k] = IF k <= Len(x) THEN x[k] ELSE y[k - Len(x)]
  BY QueryLength, LenProperties, ConcatProperties
<1>1. ASSUME NEW k \in Nat, k >= 1, i + k <= Len(x) PROVE (x \o y)[i + k] = x[i + k]
  BY <1>0, <1>1
<1>2. ASSUME Occurs(x \o y, i) PROVE Occurs(x, i) \/ Begins(x, i)
  <2>1. CASE i + Len(Query) <= Len(x)
    <3>1. \A k \in 1..Len(Query) : x[i + k] = Query[k]
      BY <1>0, <1>1, <1>2, <2>1 DEF Occurs
    <3>2. QED BY <2>1, <3>1 DEF Occurs
  <2>2. CASE i + Len(Query) > Len(x)
    <3>1. Len(x) - i < Len(Query)
      BY <1>0, <2>2
    <3>2. ASSUME NEW k \in 1..(Len(x) - i) PROVE x[i + k] = Query[k]
      <4>1. k \in Nat /\ k >= 1 /\ i + k <= Len(x) /\ k \in 1..Len(Query)
        BY <1>0, <3>1
      <4>2. (x \o y)[i + k] = Query[k]
        BY <1>2, <4>1 DEF Occurs
      <4>3. QED BY <1>1, <4>1, <4>2
    <3>3. QED BY <3>1, <3>2 DEF Begins
  <2>3. QED BY <1>0, <2>1, <2>2
<1>3. ASSUME Begins(x \o y, i) PROVE Begins(x, i)
  <2>1. Len(x) - i < Len(Query)
    BY <1>0, <1>3 DEF Begins
  <2>2. ASSUME NEW k \in 1..(Len(x) - i) PROVE x[i + k] = Query[k]
    <3>1. k \in Nat /\ k >= 1 /\ i + k <= Len(x) /\ k \in 1..(Len(x \o y) - i)
      BY <1>0
    <3>2. (x \o y)[i + k] = Query[k]
      BY <1>3, <3>1 DEF Begins
    <3>3. QED BY <1>1, <3>1, <3>2
  <2>3. QED BY <2>1, <2>2 DEF Begins
<1>4. ASSUME Occurs(x, i) PROVE Occurs(x \o y, i)
  <2>1. i + Len(Query) <= Len(x \o y)
    BY <1>0, <1>4 DEF Occurs
  <2>2. ASSUME NEW k \in 1..Len(Query) PROVE (x \o y)[i + k] = Query[k]
    <3>1. k \in Nat /\ k >= 1 /\ i + k <= Len(x) /\ x[i + k] = Query[k]
      BY <1>0, <1>4 DEF Occurs
    <3>2. QED BY <1>1, <3>1
  <2>3. QED BY <2>1, <2>2 DEF Occurs
<1>5. QED BY <1>2, <1>3, <1>4

\* The first of a set of indexes.
LEMMA FirstIs ==
  ASSUME NEW I \in SUBSET Nat, I # {}
  PROVE  /\ Handshake!First(I) \in I /\ \A k \in I : Handshake!First(I) <= k
         /\ \A m \in I : (\A k \in I : m <= k) => Handshake!First(I) = m
<1>1. \E m \in I : \A k \in I : m <= k
  BY LeastNatural
<1>2. Handshake!First(I) \in I /\ \A k \in I : Handshake!First(I) <= k
  BY <1>1 DEF Handshake!First
<1>3. ASSUME NEW m \in I, \A k \in I : m <= k PROVE Handshake!First(I) = m
  <2>1. Handshake!First(I) <= m /\ m <= Handshake!First(I) /\ m \in Nat /\ Handshake!First(I) \in Nat
    BY <1>2, <1>3
  <2>2. QED BY <2>1
<1>4. QED BY <1>2, <1>3

LEMMA FrontIs ==
  ASSUME NEW x \in Seq(Characters), NEW a \in Nat, a <= Len(x)
  PROVE  /\ Handshake!Slice(x, 0, a) \in Seq(Characters) /\ Len(Handshake!Slice(x, 0, a)) = a
         /\ \A k \in 1..a : Handshake!Slice(x, 0, a)[k] = x[k]
<1> DEFINE z == 0
<1>1. z \in Nat /\ z + a = a /\ z + a <= Len(x) /\ \A k \in 1..a : z + k = k
  OBVIOUS
<1> HIDE DEF z
<1>2. /\ Handshake!Slice(x, z, z + a) \in Seq(Characters) /\ Len(Handshake!Slice(x, z, z + a)) = a
      /\ \A k \in 1..a : Handshake!Slice(x, z, z + a)[k] = x[z + k]
  BY <1>1, SliceOf
<1>3. QED BY <1>1, <1>2 DEF z

\* How data are cut, in the first of two parts and in the second.
LEMMA FrontOf ==
  ASSUME NEW x \in Seq(Characters), NEW y \in Seq(Characters), NEW a \in Nat, a <= Len(x)
  PROVE  /\ Handshake!Slice(x, 0, a) \in Seq(Characters) /\ Len(Handshake!Slice(x, 0, a)) = a
         /\ Handshake!Slice(x \o y, 0, a) = Handshake!Slice(x, 0, a)
<1>0. /\ Len(x) \in Nat /\ Len(y) \in Nat /\ x \o y \in Seq(Characters)
      /\ Len(x \o y) = Len(x) + Len(y)
      /\ \A k \in 1..(Len(x) + Len(y)) : (x \o y)[k] = IF k <= Len(x) THEN x[k] ELSE y[k - Len(x)]
  BY LenProperties, ConcatProperties
<1>1. a <= Len(x \o y)
  BY <1>0
<1>2. /\ Handshake!Slice(x, 0, a) \in Seq(Characters) /\ Len(Handshake!Slice(x, 0, a)) = a
      /\ \A k \in 1..a : Handshake!Slice(x, 0, a)[k] = x[k]
  BY FrontIs
<1>3. /\ Handshake!Slice(x \o y, 0, a) \in Seq(Characters) /\ Len(Handshake!Slice(x \o y, 0, a)) = a
      /\ \A k \in 1..a : Handshake!Slice(x \o y, 0, a)[k] = (x \o y)[k]
  BY <1>0, <1>1, FrontIs
<1>4. ASSUME NEW k \in 1..a PROVE Handshake!Slice(x, 0, a)[k] = Handshake!Slice(x \o y, 0, a)[k]
  <2>1. k \in 1..(Len(x) + Len(y)) /\ k <= Len(x)
    BY <1>0
  <2>2. QED BY <1>0, <1>2, <1>3, <2>1
<1>5. QED BY <1>2, <1>3, <1>4, SeqEqual

LEMMA FromIs ==
  ASSUME NEW x \in Seq(Characters), NEW a \in Nat, a <= Len(x)
  PROVE  /\ Handshake!From(x, a) \in Seq(Characters) /\ Len(Handshake!From(x, a)) = Len(x) - a
         /\ \A k \in 1..(Len(x) - a) : Handshake!From(x, a)[k] = x[a + k]
<1> DEFINE b == Len(x)
<1>1. b \in Nat /\ a <= b /\ b <= Len(x)
  BY LenProperties
<1> HIDE DEF b
<1>2. /\ Handshake!Slice(x, a, b) \in Seq(Characters)
      /\ Len(Handshake!Slice(x, a, b)) = IF a <= b THEN b - a ELSE 0
      /\ \A k \in 1..(b - a) : Handshake!Slice(x, a, b)[k] = x[a + k]
  BY <1>1, SliceIs
<1>3. QED BY <1>1, <1>2 DEF Handshake!From, b

\* What is cut from the first of two parts, and from the second.
LEMMA FrontFrom ==
  ASSUME NEW x \in Seq(Characters), NEW y \in Seq(Characters), NEW a \in Nat, a <= Len(x)
  PROVE  Handshake!From(x \o y, a) = Handshake!From(x, a) \o y
<1> DEFINE r == Handshake!From(x \o y, a)
           f == Handshake!From(x, a)
<1>0. /\ Len(x) \in Nat /\ Len(y) \in Nat /\ x \o y \in Seq(Characters)
      /\ Len(x \o y) = Len(x) + Len(y) /\ a <= Len(x \o y)
      /\ \A k \in 1..(Len(x) + Len(y)) : (x \o y)[k] = IF k <= Len(x) THEN x[k] ELSE y[k - Len(x)]
  BY LenProperties, ConcatProperties
<1>1. /\ f \in Seq(Characters) /\ Len(f) = Len(x) - a
      /\ \A k \in 1..(Len(x) - a) : f[k] = x[a + k]
  BY FromIs
<1>2. /\ r \in Seq(Characters) /\ Len(r) = Len(x \o y) - a
      /\ \A k \in 1..(Len(x \o y) - a) : r[k] = (x \o y)[a + k]
  BY <1>0, FromIs
<1> HIDE DEF r, f
<1>3. /\ f \o y \in Seq(Characters) /\ Len(f \o y) = Len(f) + Len(y)
      /\ \A k \in 1..(Len(f) + Len(y)) : (f \o y)[k] = IF k <= Len(f) THEN f[k] ELSE y[k - Len(f)]
  BY <1>1, ConcatProperties
<1>4. Len(r) = Len(f \o y) /\ Len(r) = (Len(x) - a) + Len(y)
  BY <1>0, <1>1, <1>2, <1>3
<1>5. ASSUME NEW k \in 1..Len(r) PROVE r[k] = (f \o y)[k]
  <2>0. k \in 1..(Len(x \o y) - a) /\ a + k \in 1..(Len(x) + Len(y)) /\ k \in 1..(Len(f) + Len(y))
    BY <1>0, <1>1, <1>4
  <2>1. CASE k <= Len(x) - a
    <3>1. a + k <= Len(x) /\ k \in 1..(Len(x) - a) /\ k <= Len(f)
      BY <1>0, <1>1, <2>0, <2>1
    <3>2. QED BY <1>0, <1>1, <1>2, <1>3, <2>0, <3>1
  <2>2. CASE k > Len(x) - a
    <3>1. ~(a + k <= Len(x)) /\ ~(k <= Len(f)) /\ (a + k) - Len(x) = k - Len(f)
      BY <1>0, <1>1, <2>0, <2>2
    <3>2. r[k] = (x \o y)[a + k] /\ (f \o y)[k] = y[k - Len(f)]
      BY <1>2, <1>3, <2>0, <3>1
    <3>3. (x \o y)[a + k] = y[(a + k) - Len(x)]
      BY <1>0, <2>0, <3>1
    <3>4. QED BY <3>1, <3>2, <3>3
  <2>3. QED BY <1>0, <2>0, <2>1, <2>2
<1>6. r = f \o y
  BY <1>2, <1>3, <1>4, <1>5, SeqEqual
<1>7. QED BY <1>6 DEF r, f

LEMMA BackFrom ==
  ASSUME NEW x \in Seq(Characters), NEW y \in Seq(Characters), NEW a \in Nat, a <= Len(y)
  PROVE  Handshake!From(x \o y, Len(x) + a) = Handshake!From(y, a)
<1>0. /\ Len(x) \in Nat /\ Len(y) \in Nat /\ x \o y \in Seq(Characters)
      /\ Len(x \o y) = Len(x) + Len(y) /\ Len(x) + a \in Nat /\ Len(x) + a <= Len(x \o y)
      /\ \A k \in 1..(Len(x) + Len(y)) : (x \o y)[k] = IF k <= Len(x) THEN x[k] ELSE y[k - Len(x)]
  BY LenProperties, ConcatProperties
<1>1. /\ Handshake!From(y, a) \in Seq(Characters) /\ Len(Handshake!From(y, a)) = Len(y) - a
      /\ \A k \in 1..(Len(y) - a) : Handshake!From(y, a)[k] = y[a + k]
  BY FromIs
<1> DEFINE b == Len(x) + a
<1> HIDE DEF b
<1>2. /\ Handshake!From(x \o y, b) \in Seq(Characters)
      /\ Len(Handshake!From(x \o y, b)) = Len(x \o y) - b
      /\ \A k \in 1..(Len(x \o y) - b) : Handshake!From(x \o y, b)[k] = (x \o y)[b + k]
  BY <1>0, FromIs DEF b
<1>3. Len(x \o y) - b = Len(y) - a
  BY <1>0 DEF b
<1>4. ASSUME NEW k \in 1..(Len(y) - a) PROVE Handshake!From(x \o y, b)[k] = Handshake!From(y, a)[k]
  <2>1. b + k \in 1..(Len(x) + Len(y)) /\ ~(b + k <= Len(x)) /\ (b + k) - Len(x) = a + k
    BY <1>0 DEF b
  <2>2. (x \o y)[b + k] = y[(b + k) - Len(x)]
    <3>1. PICK q \in 1..(Len(x) + Len(y)) : q = b + k /\ ~(q <= Len(x))
      BY <2>1
    <3>2. (x \o y)[q] = y[q - Len(x)]
      BY <1>0, <3>1
    <3>3. QED BY <3>1, <3>2
  <2>3. Handshake!From(x \o y, b)[k] = (x \o y)[b + k] /\ Handshake!From(y, a)[k] = y[a + k]
    BY <1>1, <1>2, <1>3
  <2>4. QED BY <2>1, <2>2, <2>3
<1>5. Handshake!From(x \o y, b) = Handshake!From(y, a)
  BY <1>1, <1>2, <1>3, <1>4, SeqEqual
<1>6. QED BY <1>5 DEF b

\* The two parts of what is cut are the whole.
LEMMA Halves ==
  ASSUME NEW x \in Seq(Characters), NEW a \in Nat, a <= Len(x)
  PROVE  Handshake!Slice(x, 0, a) \o Handshake!From(x, a) = x
<1> DEFINE s == Handshake!Slice(x, 0, a)
           f == Handshake!From(x, a)
<1>0. Len(x) \in Nat
  BY LenProperties
<1>1. /\ s \in Seq(Characters) /\ Len(s) = a
      /\ \A k \in 1..a : s[k] = x[k]
  BY FrontIs
<1>2. /\ f \in Seq(Characters) /\ Len(f) = Len(x) - a
      /\ \A k \in 1..(Len(x) - a) : f[k] = x[a + k]
  BY FromIs
<1> HIDE DEF s, f
<1>3. /\ s \o f \in Seq(Characters) /\ Len(s \o f) = Len(s) + Len(f)
      /\ \A k \in 1..(Len(s) + Len(f)) : (s \o f)[k] = IF k <= Len(s) THEN s[k] ELSE f[k - Len(s)]
  BY <1>1, <1>2, ConcatProperties
<1>4. Len(s) + Len(f) = Len(x)
  BY <1>0, <1>1, <1>2
<1>5. ASSUME NEW k \in 1..Len(x) PROVE (s \o f)[k] = x[k]
  <2>1. CASE k <= a
    <3>1. k \in 1..a
      BY <1>0, <2>1
    <3>2. QED BY <1>1, <1>3, <1>4, <2>1, <3>1
  <2>2. CASE k > a
    <3>1. k - a \in 1..(Len(x) - a) /\ a + (k - a) = k /\ ~(k <= a)
      BY <1>0, <2>2
    <3>2. QED BY <1>1, <1>2, <1>3, <1>4, <3>1
  <2>3. k <= a \/ k > a
    BY <1>0
  <2>4. QED BY <2>1, <2>2, <2>3
<1>6. s \o f = x
  BY <1>3, <1>4, <1>5, SeqEqual
<1>7. QED BY <1>6 DEF s, f
LEMMA BackSlice ==
  ASSUME NEW x \in Seq(Characters), NEW y \in Seq(Characters), NEW a \in Nat, a <= Len(y)
  PROVE  Handshake!Slice(x \o y, 0, Len(x) + a) = x \o Handshake!Slice(y, 0, a)
<1>0. /\ Len(x) \in Nat /\ Len(y) \in Nat /\ x \o y \in Seq(Characters)
      /\ Len(x \o y) = Len(x) + Len(y)
      /\ \A k \in 1..(Len(x) + Len(y)) : (x \o y)[k] = IF k <= Len(x) THEN x[k] ELSE y[k - Len(x)]
  BY LenProperties, ConcatProperties
<1> DEFINE b == Len(x) + a
           s == Handshake!Slice(y, 0, a)
           r == Handshake!Slice(x \o y, 0, b)
<1>1. /\ s \in Seq(Characters) /\ Len(s) = a /\ \A k \in 1..a : s[k] = y[k]
  BY FrontIs
<1>2. b \in Nat /\ b <= Len(x \o y)
  BY <1>0
<1> HIDE DEF b
<1>3. /\ r \in Seq(Characters) /\ Len(r) = b /\ \A k \in 1..b : r[k] = (x \o y)[k]
  BY <1>0, <1>2, FrontIs
<1> HIDE DEF s, r
<1>4. /\ x \o s \in Seq(Characters) /\ Len(x \o s) = Len(x) + Len(s)
      /\ \A k \in 1..(Len(x) + Len(s)) : (x \o s)[k] = IF k <= Len(x) THEN x[k] ELSE s[k - Len(x)]
  BY <1>1, ConcatProperties
<1>5. Len(x) + Len(s) = b
  BY <1>1 DEF b
<1>6. ASSUME NEW k \in 1..b PROVE r[k] = (x \o s)[k]
  <2>0. k \in 1..(Len(x) + Len(y)) /\ k \in 1..(Len(x) + Len(s))
    BY <1>0, <1>2, <1>5
  <2>1. CASE k <= Len(x)
    BY <1>0, <1>3, <1>4, <2>0, <2>1
  <2>2. CASE ~(k <= Len(x))
    <3>1. k - Len(x) \in 1..a
      BY <1>0, <2>2 DEF b
    <3>2. (x \o y)[k] = y[k - Len(x)] /\ (x \o s)[k] = s[k - Len(x)]
      BY <1>0, <1>4, <2>0, <2>2
    <3>3. QED BY <1>1, <1>3, <3>1, <3>2
  <2>3. QED BY <2>1, <2>2
<1>7. r = x \o s
  BY <1>3, <1>4, <1>5, <1>6, SeqEqual
<1>8. QED BY <1>7 DEF r, s, b

\* The early queries of data.
LEMMA EarlyAre ==
  ASSUME NEW x \in Seq(Characters), NEW i
  PROVE  /\ i \in Handshake!Early(x) <=> Occurs(x, i) /\ i < ScanLength
         /\ Handshake!Early(x) \in SUBSET Nat
         /\ i \in Handshake!Early(x) => i \in Nat /\ i + Len(Query) <= Len(x) /\ i < Len(x)
<1>1. \A k : k \in Handshake!Early(x) <=> Occurs(x, k) /\ k < ScanLength
  BY QueryIndexesAre DEF Handshake!Early
<1>2. \A k : Occurs(x, k) => k \in Nat /\ k + Len(Query) <= Len(x)
  BY DEF Occurs
<1>3. \A k \in Nat : k + Len(Query) <= Len(x) => k < Len(x)
  BY QueryLength, LenProperties
<1>4. QED BY <1>1, <1>2, <1>3

\* Once there is an early query, more data change nothing of what is expected.
LEMMA ExpectedStays ==
  ASSUME NEW x \in Seq(Characters), NEW y \in Seq(Characters), Handshake!Early(x) # {}
  PROVE  Handshake!Early(x \o y) # {} /\ Handshake!Expected(x \o y) = Handshake!Expected(x) \o y
         /\ Handshake!Expected(x) \in Seq(Characters)
<1> DEFINE f == Handshake!First(Handshake!Early(x))
           g == f + Len(Query)
<1>0. /\ Len(x) \in Nat /\ Len(y) \in Nat /\ Len(Query) \in Nat /\ Len(Query) >= 1
      /\ x \o y \in Seq(Characters)
  BY QueryLength, LenProperties, ConcatProperties
<1>1. f \in Handshake!Early(x) /\ \A k \in Handshake!Early(x) : f <= k
  BY FirstIs, EarlyAre
<1>2. Occurs(x, f) /\ f < ScanLength /\ f \in Nat /\ g <= Len(x) /\ f < Len(x)
  BY <1>1, EarlyAre
<1>3. f \in Handshake!Early(x \o y)
  BY <1>0, <1>2, Continued, EarlyAre
<1> HIDE DEF f
<1>4. ASSUME NEW j \in Handshake!Early(x \o y) PROVE f <= j
  <2>0. j \in Nat
    BY <1>0, EarlyAre
  <2> SUFFICES ASSUME j < f PROVE FALSE
    BY <1>2, <2>0
  <2>1. j \in Nat /\ Occurs(x \o y, j) /\ j < ScanLength
    BY <1>0, EarlyAre
  <2>2. j < Len(x)
    BY <1>0, <1>2, <2>1
  <2>3. Occurs(x, j) \/ Begins(x, j)
    BY <2>1, <2>2, Continued
  <2>4. ~Occurs(x, j)
    BY <1>1, <1>2, <2>1, EarlyAre
  <2>5. Len(x) - j < Len(Query)
    BY <2>3, <2>4 DEF Begins
  <2>6. QED BY <1>0, <1>2, <2>1, <2>5
<1>5. Handshake!First(Handshake!Early(x \o y)) = f
  BY <1>0, <1>3, <1>4, FirstIs, EarlyAre
<1>6. /\ Handshake!Slice(x \o y, 0, f) = Handshake!Slice(x, 0, f)
      /\ Handshake!From(x \o y, g) = Handshake!From(x, g) \o y
      /\ Handshake!Slice(x, 0, f) \in Seq(Characters) /\ Handshake!From(x, g) \in Seq(Characters)
  <2>1. g \in Nat /\ f <= Len(x)
    BY <1>0, <1>2
  <2>2. QED BY <1>2, <2>1, FrontOf, FrontFrom, FromIs
<1>7. Handshake!Expected(x) = Handshake!Slice(x, 0, f) \o Handshake!From(x, g)
  BY DEF Handshake!Expected, f
<1>8. Handshake!Expected(x \o y) = Handshake!Slice(x \o y, 0, f) \o Handshake!From(x \o y, g)
  BY <1>3, <1>5 DEF Handshake!Expected
<1> HIDE DEF g
<1>9. (Handshake!Slice(x, 0, f) \o Handshake!From(x, g)) \o y
           = Handshake!Slice(x, 0, f) \o (Handshake!From(x, g) \o y)
  BY <1>6, ConcatAssociative
<1>10. Handshake!Slice(x, 0, f) \o Handshake!From(x, g) \in Seq(Characters)
  BY <1>6, ConcatProperties
<1>11. QED BY <1>3, <1>6, <1>7, <1>8, <1>9, <1>10

\* The first early query is in the part that is scanned.
LEMMA ExpectedFound ==
  ASSUME NEW x \in Seq(Characters), NEW y \in Seq(Characters),
         \A i \in Handshake!Early(x \o y) : i >= Len(x)
  PROVE  LET q == Handshake!First(Handshake!QueryIndexes(y)) IN
         /\ Handshake!Early(x \o y) # {} <=> Handshake!QueryIndexes(y) # {} /\ Len(x) + q < ScanLength
         /\ Handshake!Early(x \o y) # {} =>
              /\ q \in Nat /\ q + Len(Query) <= Len(y)
              /\ Handshake!Expected(x \o y)
                   = x \o (Handshake!Slice(y, 0, q) \o Handshake!From(y, q + Len(Query)))
<1> DEFINE q == Handshake!First(Handshake!QueryIndexes(y))
           g == q + Len(Query)
<1>0. /\ Len(x) \in Nat /\ Len(y) \in Nat /\ Len(Query) \in Nat /\ Len(Query) >= 1
      /\ x \o y \in Seq(Characters) /\ Handshake!QueryIndexes(y) \in SUBSET Nat
      /\ Len(x \o y) = Len(x) + Len(y)
  BY QueryLength, LenProperties, ConcatProperties, QueryIndexesAre DEF Occurs
<1>1. ASSUME NEW i \in Nat
      PROVE Len(x) + i \in Handshake!Early(x \o y)
                 <=> i \in Handshake!QueryIndexes(y) /\ Len(x) + i < ScanLength
  BY <1>0, Shifted, QueryIndexesAre, EarlyAre
<1>2. ASSUME Handshake!QueryIndexes(y) # {}
      PROVE  q \in Handshake!QueryIndexes(y) /\ q \in Nat /\ \A k \in Handshake!QueryIndexes(y) : q <= k
  BY <1>0, <1>2, FirstIs
<1> HIDE DEF q
<1>3. ASSUME Handshake!QueryIndexes(y) # {}, Len(x) + q < ScanLength
      PROVE Len(x) + q \in Handshake!Early(x \o y)
  BY <1>1, <1>2, <1>3
<1>4. ASSUME Handshake!Early(x \o y) # {}
      PROVE  /\ Handshake!QueryIndexes(y) # {} /\ Len(x) + q < ScanLength
             /\ \A j \in Handshake!Early(x \o y) : Len(x) + q <= j
  <2>1. ASSUME NEW j \in Handshake!Early(x \o y)
        PROVE  Handshake!QueryIndexes(y) # {} /\ Len(x) + q <= j /\ j < ScanLength /\ j \in Nat
    <3>1. j \in Nat /\ j >= Len(x) /\ j < ScanLength
      BY <1>0, EarlyAre
    <3>2. j - Len(x) \in Nat /\ Len(x) + (j - Len(x)) = j
      BY <1>0, <3>1
    <3>3. j - Len(x) \in Handshake!QueryIndexes(y)
      BY <1>1, <3>2
    <3>4. q <= j - Len(x) /\ q \in Nat
      BY <1>2, <3>3
    <3>5. QED BY <1>0, <3>1, <3>3, <3>4
  <2>2. PICK j \in Handshake!Early(x \o y) : TRUE
    BY <1>4
  <2>3. q \in Nat
    BY <1>2, <2>1, <2>2
  <2>4. Len(x) + q < ScanLength
    BY <1>0, <2>1, <2>2, <2>3, ScanLengthAssumption
  <2>5. QED BY <2>1, <2>2, <2>4
<1>5. ASSUME Handshake!Early(x \o y) # {}
      PROVE  /\ q \in Nat /\ g <= Len(y)
             /\ Handshake!Expected(x \o y) = x \o (Handshake!Slice(y, 0, q) \o Handshake!From(y, g))
  <2>1. /\ Handshake!QueryIndexes(y) # {} /\ Len(x) + q < ScanLength
        /\ \A j \in Handshake!Early(x \o y) : Len(x) + q <= j
    BY <1>4, <1>5
  <2>2. q \in Nat /\ g <= Len(y) /\ q <= Len(y) /\ g \in Nat
    <3>1. q \in Nat /\ Occurs(y, q)
      BY <1>2, <2>1, QueryIndexesAre
    <3>2. g <= Len(y)
      BY <3>1 DEF Occurs
    <3>3. QED BY <1>0, <3>1, <3>2
  <2>3. Len(x) + q \in Handshake!Early(x \o y)
    BY <1>3, <2>1
  <2> DEFINE f == Len(x) + q
  <2>4. Handshake!First(Handshake!Early(x \o y)) = f
    BY <1>0, <2>1, <2>3, FirstIs, EarlyAre
  <2>5. f + Len(Query) = Len(x) + g
    BY <1>0, <2>2
  <2> HIDE DEF f
  <2>6. Handshake!Expected(x \o y)
             = Handshake!Slice(x \o y, 0, f) \o Handshake!From(x \o y, f + Len(Query))
    BY <1>5, <2>4 DEF Handshake!Expected
  <2> HIDE DEF g
  <2>7. Handshake!From(x \o y, f + Len(Query)) = Handshake!From(y, g)
    BY <2>2, <2>5, BackFrom
  <2>8. Handshake!Slice(x \o y, 0, f) = x \o Handshake!Slice(y, 0, q)
    BY <2>2, BackSlice DEF f
  <2>9. Handshake!Slice(y, 0, q) \in Seq(Characters) /\ Handshake!From(y, g) \in Seq(Characters)
    BY <2>2, FrontOf, FromIs
  <2>10. (x \o Handshake!Slice(y, 0, q)) \o Handshake!From(y, g)
              = x \o (Handshake!Slice(y, 0, q) \o Handshake!From(y, g))
    BY <2>9, ConcatAssociative
  <2>11. QED BY <2>2, <2>6, <2>7, <2>8, <2>10
<1>6. QED BY <1>3, <1>4, <1>5 DEF q, g

\* What is held back is the longest beginning of a query.
LEMMA HeldIs ==
  ASSUME NEW data \in Seq(Characters), NEW start \in Nat
  PROVE  LET h == Handshake!FindPendingQueryPrefixLength(data, start) IN
         h \in 0..Len(data) /\ \A n \in Handshake!PendingLengths(data, start) : n <= h
<1> DEFINE I == Handshake!PendingLengths(data, start)
           h == Handshake!FindPendingQueryPrefixLength(data, start)
<1>0. Len(data) \in Nat /\ \A n \in I : n \in 1..Len(data)
  BY LenProperties, PendingLengthsAre
<1>1. CASE I = {}
  BY <1>0, <1>1 DEF Handshake!FindPendingQueryPrefixLength
<1>2. CASE I # {}
  <2> DEFINE J == {Len(data) - n : n \in I}
  <2>1. J \in SUBSET Nat /\ J # {}
    BY <1>0, <1>2
  <2>2. PICK m \in J : \A k \in J : m <= k
    BY <2>1, LeastNatural
  <2>3. PICK n \in I : m = Len(data) - n
    OBVIOUS
  <2>4. ASSUME NEW k \in I PROVE n >= k
    <3>1. Len(data) - k \in J
      OBVIOUS
    <3>2. m <= Len(data) - k /\ n \in Nat /\ k \in Nat
      BY <1>0, <2>2, <3>1
    <3>3. QED BY <1>0, <2>3, <3>2
  <2> HIDE DEF J
  <2>5. \E e \in I : \A k \in I : e >= k
    BY <2>4
  <2>6. h \in I /\ \A k \in I : h >= k
    BY <1>2, <2>5 DEF Handshake!FindPendingQueryPrefixLength
  <2>7. QED BY <1>0, <2>6
<1>3. QED BY <1>1, <1>2

\* No query has begun that may still become an early one, but for what is held back.
NoneBegun(data, held) ==
    \A i \in Nat : Begins(data, i) /\ i < ScanLength => i >= Len(data) - held

\* The scan has seen all of the output and no early query; after it, one has been found
\* or there can be none.
HandshakeInv ==
    /\ {terminalOutput, pending, buffer, output} \subseteq Seq(Characters)
    /\ active \in BOOLEAN /\ exited \in BOOLEAN /\ subscribed \in BOOLEAN /\ receivedLength \in Nat
    /\ Handshake!OutputIsExpected
    /\ active => /\ receivedLength = Len(terminalOutput) /\ ~exited
                 /\ Handshake!Early(terminalOutput) = {} /\ NoneBegun(terminalOutput, Len(pending))
    /\ ~active => /\ pending = <<>>
                  /\ ~exited /\ Handshake!Early(terminalOutput) = {} =>
                       Len(terminalOutput) >= ScanLength /\ NoneBegun(terminalOutput, 0)

\* What is emitted comes after what was sent, to the session or to the buffer.
LEMMA Emitted ==
  ASSUME NEW data \in Seq(Characters), {buffer, output} \subseteq Seq(Characters),
         subscribed \in BOOLEAN, subscribed => buffer = <<>>, Handshake!EmitData(data)
  PROVE  /\ {buffer', output'} \subseteq Seq(Characters)
         /\ output' \o buffer' = (output \o buffer) \o data
         /\ subscribed' \in BOOLEAN /\ (subscribed' => buffer' = <<>>)
<1>1. subscribed' = subscribed
  BY DEF Handshake!EmitData
<1>2. CASE subscribed
  <2>1. output' = output \o data /\ buffer' = buffer /\ buffer = <<>>
    BY <1>2, Zenon DEF Handshake!EmitData
  <2>2. output' \in Seq(Characters) /\ output' \o <<>> = output' /\ output \o <<>> = output
    BY <2>1, ConcatProperties, ConcatEmptySeq
  <2>3. output' \o buffer' = (output \o buffer) \o data
    BY <2>1, <2>2
  <2>4. {buffer', output'} \subseteq Seq(Characters)
    BY <2>1, <2>2
  <2>5. subscribed' => buffer' = <<>>
    BY <2>1
  <2>6. QED BY <1>1, <2>3, <2>4, <2>5
<1>3. CASE ~subscribed
  <2>1. buffer' = buffer \o data /\ output' = output
    BY <1>3, Zenon DEF Handshake!EmitData
  <2>2. buffer' \in Seq(Characters) /\ output \o (buffer \o data) = (output \o buffer) \o data
    BY <2>1, ConcatProperties, ConcatAssociative
  <2>3. ~subscribed'
    BY <1>1, <1>3
  <2>4. QED BY <1>1, <2>1, <2>2, <2>3
<1>4. QED BY <1>2, <1>3

\* Initially nothing has been output.
LEMMA HandshakeInit == Handshake!Init => HandshakeInv
<1> SUFFICES ASSUME Handshake!Init PROVE HandshakeInv
  OBVIOUS
<1>1. <<>> \in Seq(Characters) /\ Len(<<>>) = 0 /\ <<>> \o <<>> = <<>>
  BY EmptySeq, ConcatEmptySeq
<1>2. Handshake!Early(<<>>) = {}
  <2>1. ASSUME NEW i \in Handshake!Early(<<>>) PROVE FALSE
    <3>1. i \in Nat /\ i < Len(<<>>)
      BY <1>1, EarlyAre
    <3>2. QED BY <1>1, <3>1
  <2>2. QED BY <2>1
<1>3. NoneBegun(<<>>, 0)
  BY <1>1 DEF NoneBegun
<1>4. active \in BOOLEAN /\ exited \in BOOLEAN /\ subscribed \in BOOLEAN /\ active /\ ~exited
      /\ ~subscribed
  BY Zenon DEF Handshake!Init
<1>5. pending = <<>> /\ buffer = <<>> /\ output = <<>> /\ terminalOutput = <<>> /\ responses = 0
      /\ receivedLength = 0
  BY DEF Handshake!Init
<1>6. Handshake!Expected(<<>>) = <<>>
  BY <1>2 DEF Handshake!Expected
<1>7. Handshake!OutputIsExpected
  BY <1>1, <1>2, <1>4, <1>5, <1>6 DEF Handshake!OutputIsExpected
<1>8. QED BY <1>1, <1>2, <1>3, <1>4, <1>5, <1>7 DEF HandshakeInv

\* After the scan, nothing of what is yet to come is removed.
LEMMA NoneLater ==
  ASSUME NEW x \in Seq(Characters), NEW y \in Seq(Characters),
         Handshake!Early(x) = {}, Len(x) >= ScanLength, NoneBegun(x, 0)
  PROVE  Handshake!Early(x \o y) = {} /\ Len(x \o y) >= ScanLength /\ NoneBegun(x \o y, 0)
<1>0. /\ Len(x) \in Nat /\ Len(y) \in Nat /\ x \o y \in Seq(Characters) /\ ScanLength \in Nat
      /\ Len(x \o y) = Len(x) + Len(y)
  BY LenProperties, ConcatProperties, ScanLengthAssumption
<1>1. ASSUME NEW i \in Nat, i < ScanLength PROVE i < Len(x) /\ ~Begins(x, i) /\ ~Occurs(x, i)
  <2>1. i < Len(x)
    BY <1>0, <1>1
  <2>2. ~Begins(x, i)
    BY <1>0, <1>1, <2>1 DEF NoneBegun
  <2>3. ~Occurs(x, i)
    BY <1>1, EarlyAre
  <2>4. QED BY <2>1, <2>2, <2>3
<1>2. ASSUME NEW i \in Nat, i < ScanLength PROVE ~Begins(x \o y, i) /\ ~Occurs(x \o y, i)
  BY <1>1, <1>2, Continued
<1>3. Handshake!Early(x \o y) = {}
  <2>1. \A i : i \notin Handshake!Early(x \o y)
    BY <1>0, <1>2, EarlyAre
  <2>2. QED BY <2>1
<1>4. QED BY <1>0, <1>2, <1>3 DEF NoneBegun

\* A chunk after the scan.
LEMMA PassedStep ==
  ASSUME HandshakeInv, NEW data \in Seq(Characters), ~exited, terminalOutput' = terminalOutput \o data,
         UNCHANGED exited, Handshake!Passed(data)
  PROVE  HandshakeInv'
<1>0. /\ {terminalOutput, pending, buffer, output} \subseteq Seq(Characters) /\ ~active
      /\ subscribed \in BOOLEAN
      /\ exited' \in BOOLEAN /\ ~exited' /\ active' \in BOOLEAN /\ ~active'
      /\ (subscribed => buffer = <<>>)
      /\ pending = <<>> /\ pending' = <<>> /\ responses' = responses /\ receivedLength' \in Nat
  BY DEF HandshakeInv, Handshake!Passed, Handshake!OutputIsExpected
<1>1. /\ {buffer', output'} \subseteq Seq(Characters) /\ output' \o buffer' = (output \o buffer) \o data
      /\ subscribed' \in BOOLEAN /\ (subscribed' => buffer' = <<>>)
  BY <1>0, Emitted DEF Handshake!Passed
<1>2. /\ output \o buffer \in Seq(Characters) /\ output' \o buffer' \in Seq(Characters)
      /\ terminalOutput' \in Seq(Characters)
  BY <1>0, <1>1, ConcatProperties
<1>3. /\ output \o buffer = Handshake!Expected(terminalOutput)
      /\ responses = IF Handshake!Early(terminalOutput) = {} THEN 0 ELSE 1
  BY <1>0, <1>2, ConcatEmptySeq DEF HandshakeInv, Handshake!OutputIsExpected
<1>4. /\ output' \o buffer' \o pending' = Handshake!Expected(terminalOutput')
      /\ responses' = IF Handshake!Early(terminalOutput') = {} THEN 0 ELSE 1
      /\ Handshake!Early(terminalOutput') = {}
           => Len(terminalOutput') >= ScanLength /\ NoneBegun(terminalOutput', 0)
  <2>1. output' \o buffer' \o pending' = Handshake!Expected(terminalOutput) \o data
    BY <1>0, <1>1, <1>2, <1>3, ConcatEmptySeq
  <2>2. CASE Handshake!Early(terminalOutput) # {}
    BY <1>0, <1>3, <2>1, <2>2, ExpectedStays
  <2>3. CASE Handshake!Early(terminalOutput) = {}
    <3>1. Len(terminalOutput) >= ScanLength /\ NoneBegun(terminalOutput, 0)
      BY <1>0, <2>3 DEF HandshakeInv
    <3>2. Handshake!Early(terminalOutput') = {} /\ Len(terminalOutput') >= ScanLength
          /\ NoneBegun(terminalOutput', 0)
      BY <1>0, <2>3, <3>1, NoneLater
    <3>3. Handshake!Expected(terminalOutput') = terminalOutput'
          /\ Handshake!Expected(terminalOutput) = terminalOutput
      BY <2>3, <3>2 DEF Handshake!Expected
    <3>4. QED BY <1>0, <1>3, <2>1, <2>3, <3>2, <3>3
  <2>4. QED BY <2>2, <2>3
<1>5. Handshake!OutputIsExpected'
  BY <1>0, <1>1, <1>4 DEF Handshake!OutputIsExpected
<1>6. QED BY <1>0, <1>1, <1>2, <1>4, <1>5 DEF HandshakeInv

\* What scanning finds in the data and what was held back, which begin after what the
\* session has received.
LEMMA ScannedParts ==
  ASSUME HandshakeInv, active, NEW data \in Seq(Characters), terminalOutput' = terminalOutput \o data
  PROVE  LET combined == pending \o data
             sent == output \o buffer
         IN /\ combined \in Seq(Characters) /\ sent \in Seq(Characters)
            /\ terminalOutput = sent \o pending /\ terminalOutput' = sent \o combined
            /\ receivedLength - Len(pending) = Len(sent)
            /\ receivedLength + Len(data) = Len(terminalOutput')
            /\ responses = 0
            /\ \A i \in Handshake!Early(terminalOutput') : i >= Len(sent)
            /\ \A i \in Nat : Begins(terminalOutput', i) /\ i < ScanLength => i >= Len(sent)
<1> DEFINE combined == pending \o data
           sent == output \o buffer
<1>0. /\ {terminalOutput, pending, buffer, output} \subseteq Seq(Characters)
      /\ receivedLength = Len(terminalOutput)
      /\ Handshake!Early(terminalOutput) = {} /\ NoneBegun(terminalOutput, Len(pending))
  BY DEF HandshakeInv
<1>1. Handshake!Expected(terminalOutput) = terminalOutput /\ responses = 0
  BY <1>0 DEF Handshake!Expected, HandshakeInv, Handshake!OutputIsExpected
<1>2. terminalOutput = sent \o pending
  BY <1>1 DEF HandshakeInv, Handshake!OutputIsExpected
<1>3. /\ sent \in Seq(Characters) /\ combined \in Seq(Characters) /\ terminalOutput' \in Seq(Characters)
      /\ Len(terminalOutput') = Len(terminalOutput) + Len(data)
  BY <1>0, ConcatProperties
<1> HIDE DEF sent
<1>4. /\ Len(terminalOutput) = Len(sent) + Len(pending) /\ Len(sent) \in Nat /\ Len(pending) \in Nat
      /\ Len(data) \in Nat /\ Len(terminalOutput) \in Nat
  BY <1>0, <1>2, <1>3, ConcatProperties, LenProperties
<1>5. terminalOutput' = sent \o combined
  BY <1>0, <1>2, <1>3, ConcatAssociative
<1>6. receivedLength - Len(pending) = Len(sent) /\ receivedLength + Len(data) = Len(terminalOutput')
  BY <1>0, <1>3, <1>4
<1>7. ASSUME NEW i \in Nat, i < ScanLength, i < Len(sent)
      PROVE  i < Len(terminalOutput) /\ ~Begins(terminalOutput, i) /\ ~Occurs(terminalOutput, i)
  <2>1. i < Len(terminalOutput) /\ Len(terminalOutput) - Len(pending) = Len(sent)
    BY <1>4, <1>7
  <2>2. ~Begins(terminalOutput, i)
    BY <1>0, <1>4, <1>7, <2>1 DEF NoneBegun
  <2>3. ~Occurs(terminalOutput, i)
    BY <1>0, <1>7, EarlyAre
  <2>4. QED BY <2>1, <2>2, <2>3
<1>8. ASSUME NEW i \in Nat, i < ScanLength, Occurs(terminalOutput', i) \/ Begins(terminalOutput', i)
      PROVE  i >= Len(sent)
  <2> SUFFICES ASSUME i < Len(sent) PROVE FALSE
    BY <1>4
  <2>1. i < Len(terminalOutput) /\ ~Begins(terminalOutput, i) /\ ~Occurs(terminalOutput, i)
    BY <1>7, <1>8
  <2>2. QED BY <1>0, <1>8, <2>1, Continued
<1>9. \A i \in Handshake!Early(terminalOutput') : i >= Len(sent)
  BY <1>3, <1>8, EarlyAre
<1>10. QED BY <1>1, <1>2, <1>3, <1>5, <1>6, <1>8, <1>9 DEF sent

\* A chunk that is scanned.
LEMMA ScannedStep ==
  ASSUME HandshakeInv, NEW data \in Seq(Characters), ~exited, terminalOutput' = terminalOutput \o data,
         UNCHANGED exited, Handshake!Scanned(data)
  PROVE  HandshakeInv'
<1> DEFINE combined == pending \o data
           sent == output \o buffer
           start == receivedLength - Len(pending)
           indexes == Handshake!QueryIndexes(combined)
           q == Handshake!First(indexes)
           held == Handshake!FindPendingQueryPrefixLength(combined, start)
           found == indexes # {} /\ Handshake!IsEarly(start + q)
<1>0. /\ {terminalOutput, pending, buffer, output} \subseteq Seq(Characters) /\ active
      /\ subscribed \in BOOLEAN
      /\ exited' \in BOOLEAN /\ ~exited' /\ (subscribed => buffer = <<>>)
      /\ receivedLength' = receivedLength + Len(data)
  BY DEF HandshakeInv, Handshake!Scanned, Handshake!OutputIsExpected
<1>1. /\ combined \in Seq(Characters) /\ sent \in Seq(Characters)
      /\ terminalOutput = sent \o pending /\ terminalOutput' = sent \o combined
      /\ start = Len(sent) /\ receivedLength + Len(data) = Len(terminalOutput')
      /\ responses = 0
      /\ \A i \in Handshake!Early(terminalOutput') : i >= Len(sent)
      /\ \A i \in Nat : Begins(terminalOutput', i) /\ i < ScanLength => i >= Len(sent)
  BY <1>0, ScannedParts
<1>2. \/ /\ found
         /\ active' = FALSE /\ pending' = <<>>
         /\ Handshake!EmitData(Handshake!Slice(combined, 0, q) \o Handshake!From(combined, q + Len(Query)))
         /\ responses' = responses + 1
      \/ /\ ~found
         /\ pending' = Handshake!From(combined, Len(combined) - held)
         /\ active' = Handshake!GoesOn(held, receivedLength')
         /\ Handshake!EmitData(Handshake!Slice(combined, 0, Len(combined) - held))
         /\ responses' = responses
  BY DEF Handshake!Scanned
<1> HIDE DEF combined, sent
<1>3. /\ Len(combined) \in Nat /\ Len(sent) \in Nat /\ ScanLength \in Nat /\ Len(Query) \in Nat
      /\ Len(terminalOutput') = Len(sent) + Len(combined) /\ terminalOutput' \in Seq(Characters)
      /\ receivedLength' = Len(terminalOutput')
  <2>1. /\ Len(combined) \in Nat /\ Len(sent) \in Nat /\ sent \o combined \in Seq(Characters)
        /\ Len(sent \o combined) = Len(sent) + Len(combined)
    BY <1>1, LenProperties, ConcatProperties
  <2>2. ScanLength \in Nat /\ Len(Query) \in Nat
    BY QueryLength, ScanLengthAssumption
  <2>3. QED BY <1>0, <1>1, <2>1, <2>2
<1>4. /\ Handshake!Early(terminalOutput') # {} <=> found
      /\ found => /\ q \in Nat /\ q + Len(Query) <= Len(combined)
                  /\ Handshake!Expected(terminalOutput')
                       = sent
                            \o (Handshake!Slice(combined, 0, q) \o Handshake!From(combined, q + Len(Query)))
  BY <1>1, ExpectedFound DEF Handshake!IsEarly
<1>5. CASE found
  <2> DEFINE rest == Handshake!Slice(combined, 0, q) \o Handshake!From(combined, q + Len(Query))
  <2>1. active' = FALSE /\ pending' = <<>> /\ Handshake!EmitData(rest) /\ responses' = 1
    BY <1>1, <1>2, <1>5
  <2>2. /\ q \in Nat /\ q <= Len(combined) /\ q + Len(Query) \in Nat /\ q + Len(Query) <= Len(combined)
        /\ Handshake!Expected(terminalOutput') = sent \o rest /\ Handshake!Early(terminalOutput') # {}
    BY <1>3, <1>4, <1>5
  <2>3. rest \in Seq(Characters)
    BY <1>1, <2>2, FrontIs, FromIs, ConcatProperties
  <2> HIDE DEF rest
  <2>4. /\ {buffer', output'} \subseteq Seq(Characters) /\ output' \o buffer' = sent \o rest
        /\ subscribed' \in BOOLEAN /\ (subscribed' => buffer' = <<>>)
    BY <1>0, <2>1, <2>3, Emitted DEF sent
  <2>5. output' \o buffer' \o pending' = Handshake!Expected(terminalOutput')
    <3>1. output' \o buffer' \in Seq(Characters)
      BY <2>4, ConcatProperties
    <3>2. QED BY <2>1, <2>2, <2>4, <3>1, ConcatEmptySeq
  <2>6. Handshake!OutputIsExpected'
    BY <1>0, <2>1, <2>2, <2>4, <2>5 DEF Handshake!OutputIsExpected
  <2>7. pending' \in Seq(Characters) /\ receivedLength' \in Nat
    BY <1>3, <2>1, EmptySeq, LenProperties
  <2>8. QED BY <1>0, <1>3, <2>1, <2>2, <2>4, <2>6, <2>7 DEF HandshakeInv
<1>6. CASE ~found
  <2> DEFINE n == Len(combined) - held
  <2>1. /\ pending' = Handshake!From(combined, n) /\ active' = Handshake!GoesOn(held, receivedLength')
        /\ Handshake!EmitData(Handshake!Slice(combined, 0, n)) /\ responses' = 0
    BY <1>1, <1>2, <1>6
  <2>2. held \in 0..Len(combined) /\ \A k \in Handshake!PendingLengths(combined, start) : k <= held
    BY <1>1, <1>3, HeldIs
  <2>3. Handshake!Early(terminalOutput') = {}
    BY <1>4, <1>6
  <2>4. NoneBegun(terminalOutput', held)
    <3> SUFFICES ASSUME NEW i \in Nat, Begins(terminalOutput', i), i < ScanLength
                 PROVE  i >= Len(terminalOutput') - held
      BY DEF NoneBegun
    <3> DEFINE j == i - Len(sent)
               length == Len(combined) - j
    <3>1. i >= Len(sent) /\ j \in Nat /\ i = Len(sent) + j
      BY <1>1, <1>3
    <3>2. Begins(combined, j)
      BY <1>1, <3>1, Shifted
    <3>3. j < Len(combined)
      BY <3>2 DEF Begins
    <3> HIDE DEF j
    <3>4. length \in 1..Len(combined) /\ Len(combined) - length = j
      BY <1>3, <3>1, <3>3
    <3>5. start + Len(combined) - length < ScanLength
      BY <1>1, <1>3, <3>1, <3>3
    <3> HIDE DEF length
    <3>6. length \in Handshake!PendingLengths(combined, start)
      BY <1>1, <1>3, <3>2, <3>4, <3>5, PendingLengthsAre
    <3>7. length <= held
      BY <2>2, <3>6
    <3>8. QED BY <1>3, <2>2, <3>1, <3>3, <3>4, <3>7
  <2> HIDE DEF held
  <2>5. n \in Nat /\ n <= Len(combined) /\ Len(combined) - n = held
    BY <1>3, <2>2
  <2> HIDE DEF n
  <2>6. /\ Handshake!Slice(combined, 0, n) \in Seq(Characters) /\ pending' \in Seq(Characters)
        /\ Len(pending') = held /\ Handshake!Slice(combined, 0, n) \o pending' = combined
    BY <1>1, <2>1, <2>5, FrontIs, FromIs, Halves
  <2>7. /\ {buffer', output'} \subseteq Seq(Characters)
        /\ output' \o buffer' = sent \o Handshake!Slice(combined, 0, n)
        /\ subscribed' \in BOOLEAN /\ (subscribed' => buffer' = <<>>)
    BY <1>0, <2>1, <2>6, Emitted DEF sent
  <2>8. output' \o buffer' \o pending' = Handshake!Expected(terminalOutput')
    <3>1. (sent \o Handshake!Slice(combined, 0, n)) \o pending'
               = sent \o (Handshake!Slice(combined, 0, n) \o pending')
      <4> DEFINE front == Handshake!Slice(combined, 0, n)
      <4>1. sent \in Seq(Characters) /\ front \in Seq(Characters) /\ pending' \in Seq(Characters)
        BY <1>1, <2>6
      <4> HIDE DEF front
      <4>2. (sent \o front) \o pending' = sent \o (front \o pending')
        BY <4>1, ConcatAssociative, Z3
      <4>3. QED BY <4>2 DEF front
    <3>2. Handshake!Expected(terminalOutput') = terminalOutput'
      BY <2>3 DEF Handshake!Expected
    <3>3. QED BY <1>1, <2>6, <2>7, <3>1, <3>2
  <2>9. Handshake!OutputIsExpected'
    BY <1>0, <2>1, <2>3, <2>7, <2>8 DEF Handshake!OutputIsExpected
  <2>10. active' \in BOOLEAN /\ (~active' => held = 0 /\ Len(terminalOutput') >= ScanLength)
    <3>1. active' <=> held > 0 \/ Len(terminalOutput') < ScanLength
      BY <1>3, <2>1 DEF Handshake!GoesOn
    <3>2. active' \in BOOLEAN
      BY <2>1, Zenon DEF Handshake!GoesOn
    <3>3. Len(terminalOutput') \in Nat /\ held \in Nat
      BY <1>3, <2>2
    <3>4. QED BY <1>3, <3>1, <3>2, <3>3
  <2>11. ~active' => pending' = <<>>
    BY <2>6, <2>10, EmptySeq, LenProperties
  <2>12. receivedLength' \in Nat
    BY <1>3, LenProperties
  <2>13. QED BY <1>0, <1>3, <2>3, <2>4, <2>6, <2>7, <2>9, <2>10, <2>11, <2>12 DEF HandshakeInv
<1>7. QED BY <1>5, <1>6

\* The exit sends what is held back.
LEMMA FinishStep ==
  ASSUME HandshakeInv, Handshake!Finish
  PROVE  HandshakeInv'
<1>0. /\ {terminalOutput, pending, buffer, output} \subseteq Seq(Characters) /\ subscribed \in BOOLEAN
      /\ (subscribed => buffer = <<>>) /\ receivedLength \in Nat
  BY DEF HandshakeInv, Handshake!OutputIsExpected
<1>1. exited' = TRUE /\ active' = FALSE
  BY Zenon DEF Handshake!Finish
<1>2. pending' = <<>> /\ Handshake!EmitData(pending)
      /\ UNCHANGED <<receivedLength, terminalOutput, responses>>
  BY DEF Handshake!Finish
<1>3. /\ {buffer', output'} \subseteq Seq(Characters)
      /\ output' \o buffer' = (output \o buffer) \o pending
      /\ subscribed' \in BOOLEAN /\ (subscribed' => buffer' = <<>>)
  BY <1>0, <1>2, Emitted
<1>4. output' \o buffer' \o pending' = Handshake!Expected(terminalOutput')
      /\ pending' \in Seq(Characters)
      /\ responses' = IF Handshake!Early(terminalOutput') = {} THEN 0 ELSE 1
  <2>1. output' \o buffer' \in Seq(Characters)
    BY <1>3, ConcatProperties
  <2>2. QED BY <1>2, <1>3, <2>1, ConcatEmptySeq, EmptySeq DEF HandshakeInv, Handshake!OutputIsExpected
<1>5. Handshake!OutputIsExpected'
  BY <1>2, <1>3, <1>4 DEF Handshake!OutputIsExpected
<1>6. QED BY <1>0, <1>1, <1>2, <1>3, <1>4, <1>5 DEF HandshakeInv

\* The session subscribes.
LEMMA SubscribedStep ==
  ASSUME HandshakeInv, Handshake!OnData
  PROVE  HandshakeInv'
<1>0. /\ {terminalOutput, pending, buffer, output} \subseteq Seq(Characters) /\ subscribed' = TRUE
      /\ buffer' = <<>> /\ output' = output \o buffer
      /\ UNCHANGED <<active, pending, receivedLength, exited, terminalOutput, responses>>
  BY DEF HandshakeInv, Handshake!OnData
<1>1. output' \in Seq(Characters) /\ buffer' \in Seq(Characters)
      /\ output' \o buffer' = output \o buffer
  BY <1>0, ConcatProperties, ConcatEmptySeq, EmptySeq
<1>2. Handshake!OutputIsExpected'
  BY <1>0, <1>1 DEF HandshakeInv, Handshake!OutputIsExpected
<1>3. QED BY <1>0, <1>1, <1>2 DEF HandshakeInv

LEMMA ChunksAre == \A data \in Handshake!Chunks : data \in Seq(Characters)
<1> SUFFICES ASSUME NEW data \in Handshake!Chunks PROVE data \in Seq(Characters)
  OBVIOUS
<1>1. PICK m \in 0..MaxCharacters : data \in [1..m -> Characters]
  BY DEF Handshake!Chunks, Handshake!SeqOf
<1>2. m \in Nat
  BY <1>1
<1>3. QED BY <1>1, <1>2, SeqDef

LEMMA HandshakeStep == HandshakeInv /\ [Handshake!Next]_Handshake!vars => HandshakeInv'
<1> SUFFICES ASSUME HandshakeInv, [Handshake!Next]_Handshake!vars PROVE HandshakeInv'
  OBVIOUS
<1>1. CASE UNCHANGED Handshake!vars
  <2>1. Handshake!OutputIsExpected'
    BY <1>1 DEF HandshakeInv, Handshake!OutputIsExpected, Handshake!vars
  <2>2. QED BY <1>1, <2>1 DEF HandshakeInv, Handshake!vars
<1>2. ASSUME NEW data \in Handshake!Chunks, Handshake!HandleProcessData(data) PROVE HandshakeInv'
  <2>1. /\ data \in Seq(Characters) /\ ~exited /\ terminalOutput' = terminalOutput \o data
        /\ UNCHANGED exited
        /\ Handshake!Passed(data) \/ Handshake!Scanned(data)
    BY <1>2, ChunksAre DEF Handshake!HandleProcessData, Handshake!Chunks
  <2>2. QED BY <2>1, PassedStep, ScannedStep
<1>3. CASE Handshake!Finish
  BY <1>3, FinishStep
<1>4. CASE Handshake!OnData
  BY <1>4, SubscribedStep
<1>5. QED BY <1>1, <1>2, <1>3, <1>4 DEF Handshake!Next

\* However the output is cut, and whenever the session subscribes, it receives all of it
\* but the first early query, which is answered once.
THEOREM HandshakeSafe == Handshake!Spec => []OutputIsExpected
<1>1. HandshakeInv => OutputIsExpected
  BY DEF HandshakeInv, OutputIsExpected
<1>2. QED BY <1>1, HandshakeInit, HandshakeStep, PTL DEF Handshake!Spec

-----------------------------------------------------------------------------
(***************************************************************************)
(* The recording file.  The invariant is about what an export would read   *)
(* at any moment: a file is sound when its events are in order and it has  *)
(* every recorded event or cannot be read at all.  A torn line makes it    *)
(* unreadable forever, so that soundness survives whatever part of a line  *)
(* a failed write leaves.                                                  *)
(***************************************************************************)

Lines == [kind : {"header", "broken"}, number : {0}] \cup [kind : {"event"}, number : Nat]

\* The events of a file are in order, and none is after the last.
Ascending(lines, last) ==
    /\ \A i \in 1..Len(lines) : lines[i].kind = "event" => lines[i].number <= last
    /\ \A i, j \in 1..Len(lines) :
          i < j /\ lines[i].kind = "event" /\ lines[j].kind = "event"
               => lines[i].number < lines[j].number

\* A file that can be read has the events that have been recorded.
Complete(lines, due) ==
    Recorder!Unreadable(lines) \/ \A n \in due : \E i \in 2..Len(lines) : lines[i] = Recorder!Event(n)

\* A line without its newline is still a line.
Files == {content \in [lines : Seq(Lines), ended : BOOLEAN] : content.ended \/ content.lines # <<>>}

\* What an export may read.
Sound(content, due, last) ==
    content \in Files /\ Ascending(content.lines, last) /\ Complete(content.lines, due)

Writes == [stage : {"idle", "ensure", "verify", "header", "append", "appending"}, starting : BOOLEAN]
Exports(due) ==
    [stage : {"idle", "queued", "pending", "reading"}, awaited : Nat, due : SUBSET due]

\* The inductive invariant.
RecorderInv ==
    /\ events \in Nat
    /\ recordWriting \in Writes /\ exporting \in Exports(recordedEvents)
    /\ Sound(file, recordedEvents, IF recordWriting.stage = "idle" THEN events ELSE events - 1)
    /\ Recorder!ExportIsFaithful

\* A torn line cannot be read, be it the header or an event.
LEMMA BrokenIsUnreadable ==
  ASSUME NEW lines \in Seq(Lines)
  PROVE  Recorder!Unreadable(Append(lines, Recorder!Broken))
<1> DEFINE all == Append(lines, Recorder!Broken)
<1>1. /\ Recorder!Broken \in Lines /\ Len(lines) \in Nat /\ all \in Seq(Lines)
      /\ Len(all) = Len(lines) + 1
      /\ all[Len(lines) + 1] = Recorder!Broken /\ Recorder!Broken # Recorder!Header
      /\ Recorder!Broken.kind = "broken"
  BY LenProperties, AppendProperties DEF Lines, Recorder!Broken, Recorder!Header
<1> HIDE DEF all
<1>2. all # <<>>
  BY <1>1
<1>3. CASE Len(lines) = 0
  <2>1. Head(all) = all[1]
    BY <1>1, <1>2, HeadTailProperties
  <2>2. QED BY <1>1, <1>2, <1>3, <2>1 DEF Recorder!Unreadable, all
<1>4. CASE Len(lines) # 0
  <2>1. Len(lines) + 1 \in 2..Len(all)
    BY <1>1, <1>4
  <2>2. QED BY <1>1, <1>2, <2>1 DEF Recorder!Unreadable, all
<1>5. QED BY <1>3, <1>4

\* Whatever part of a line a write adds to a file, the file stays sound.
LEMMA AddedIsSound ==
  ASSUME NEW due, NEW last \in Int, NEW next \in Int, last <= next, Sound(file, due, last),
         NEW line \in {Recorder!Header, Recorder!Event(next)}, line = Recorder!Event(next)
              => next \in Nat /\ last < next,
         NEW part \in Recorder!Parts
  PROVE  /\ Sound(Recorder!Added(line, part), due, next)
         /\ line = Recorder!Event(next) /\ part = "all"
              => Sound(Recorder!Added(line, part), due \cup {next}, next)
<1> DEFINE lines == file.lines
           all == due \cup {next}
<1>0. /\ lines \in Seq(Lines) /\ Len(lines) \in Nat /\ file.ended \in BOOLEAN /\ (file.ended \/ lines # <<>>)
      /\ Ascending(lines, last) /\ Complete(lines, due) /\ file \in Files
  BY LenProperties DEF Sound, Files
<1>1. /\ line \in Lines /\ Recorder!Broken \in Lines
      /\ (line.kind = "event" => line = Recorder!Event(next))
      /\ Recorder!Event(next).number = next /\ Recorder!Event(next).kind = "event"
      /\ Recorder!Broken.kind = "broken"
      /\ Recorder!Header.kind = "header"
      /\ (line.kind = "event" => last < next)
  BY DEF Lines, Recorder!Header, Recorder!Event, Recorder!Broken
<1> HIDE DEF lines
<1>2. ASSUME NEW x \in Lines, x.kind = "event" => x.number = next /\ last < next
      PROVE  Append(lines, x) \in Seq(Lines) /\ Ascending(Append(lines, x), next)
  <2> DEFINE more == Append(lines, x)
  <2>1. /\ more \in Seq(Lines) /\ Len(more) = Len(lines) + 1 /\ more[Len(lines) + 1] = x
        /\ \A i \in 1..Len(lines) : more[i] = lines[i]
    BY <1>0, AppendProperties
  <2> HIDE DEF more
  <2>2. ASSUME NEW i \in 1..Len(more), more[i].kind = "event"
        PROVE  more[i].number <= next
    <3>1. CASE i = Len(lines) + 1
      BY <1>2, <2>1, <2>2, <3>1
    <3>2. CASE i # Len(lines) + 1
      <4>1. i \in 1..Len(lines)
        BY <1>0, <2>1, <3>2
      <4>2. lines[i].number <= last /\ lines[i].number \in Nat
        BY <1>0, <2>1, <2>2, <4>1, ElementOfSeq DEF Ascending, Lines
      <4>3. QED BY <2>1, <4>1, <4>2
    <3>3. QED BY <3>1, <3>2
  <2>3. ASSUME NEW i \in 1..Len(more), NEW j \in 1..Len(more), i < j,
               more[i].kind = "event", more[j].kind = "event"
        PROVE  more[i].number < more[j].number
    <3>1. i \in 1..Len(lines) /\ more[i] = lines[i]
      BY <1>0, <2>1, <2>3
    <3>2. CASE j = Len(lines) + 1
      <4>1. lines[i].number <= last /\ lines[i].number \in Nat
        BY <1>0, <2>3, <3>1, ElementOfSeq DEF Ascending, Lines
      <4>2. QED BY <1>2, <2>1, <2>3, <3>1, <3>2, <4>1
    <3>3. CASE j # Len(lines) + 1
      <4>1. j \in 1..Len(lines) /\ more[j] = lines[j]
        BY <1>0, <2>1, <3>3
      <4>2. QED BY <1>0, <2>3, <3>1, <4>1 DEF Ascending
    <3>4. QED BY <3>2, <3>3
  <2>4. QED BY <2>1, <2>2, <2>3 DEF Ascending, more
<1>3. CASE part = "none"
  <2>1. Recorder!Added(line, part) = file
    BY <1>3 DEF Recorder!Added
  <2>2. Ascending(lines, next)
    <3>1. ASSUME NEW i \in 1..Len(lines), lines[i].kind = "event" PROVE lines[i].number <= next
      <4>1. lines[i].number <= last /\ lines[i].number \in Nat
        BY <1>0, <3>1, ElementOfSeq DEF Ascending, Lines
      <4>2. QED BY <4>1
    <3>2. QED BY <1>0, <3>1 DEF Ascending
  <2>3. QED BY <1>0, <1>3, <2>1, <2>2 DEF Sound, lines
<1>4. CASE part # "none" /\ ~file.ended
  <2> DEFINE front == Recorder!Front(lines)
  <2>1. /\ front \in Seq(Lines) /\ Len(front) = Len(lines) - 1 /\ Len(front) \in Nat
        /\ \A i \in 1..Len(front) : front[i] = lines[i]
    <3>1. Len(lines) - 1 \in Nat /\ lines # <<>>
      BY <1>0, <1>4, EmptySeq
    <3>2. \A k \in 1..(Len(lines) - 1) : lines[k] \in Lines
      BY <1>0, <3>1, ElementOfSeq
    <3> DEFINE m == Len(lines) - 1
    <3>3. m \in Nat /\ 1 \in Int /\ m \in Int /\ m - 1 + 1 = m
          /\ \A k \in 1..m : 1 + k - 1 = k
      BY <3>1
    <3>9. (IF 1 <= m THEN m - 1 + 1 ELSE 0) = m
      BY <3>3
    <3>4. \A k \in 1..m : lines[k] \in Lines
      BY <3>2
    <3> HIDE DEF m
    <3>5. /\ SubSeq(lines, 1, m) \in Seq(Lines)
          /\ Len(SubSeq(lines, 1, m)) = IF 1 <= m THEN m - 1 + 1 ELSE 0
          /\ \A k \in 1..(m - 1 + 1) : SubSeq(lines, 1, m)[k] = lines[1 + k - 1]
      BY <1>0, <3>3, <3>4, SubSeqProperties
    <3>6. front = SubSeq(lines, 1, m)
      BY DEF Recorder!Front, m
    <3> HIDE DEF front
    <3>7. front \in Seq(Lines) /\ Len(front) = m /\ \A k \in 1..m : front[k] = lines[k]
      BY <3>3, <3>9, <3>5, <3>6
    <3>8. QED BY <3>3, <3>7 DEF m
  <2> HIDE DEF front
  <2>2. Recorder!Added(line, part) = [lines |-> Append(front, Recorder!Broken), ended |-> part = "all"]
    BY <1>4 DEF Recorder!Added, front, lines
  <2>3. Ascending(Append(front, Recorder!Broken), next) /\ Append(front, Recorder!Broken) \in Seq(Lines)
    <3> DEFINE more == Append(front, Recorder!Broken)
    <3>1. /\ more \in Seq(Lines) /\ Len(more) = Len(front) + 1 /\ more[Len(front) + 1] = Recorder!Broken
          /\ \A i \in 1..Len(front) : more[i] = front[i]
      BY <1>1, <2>1, AppendProperties
    <3> HIDE DEF more
    <3>2. ASSUME NEW i \in 1..Len(more), more[i].kind = "event"
          PROVE  /\ i \in 1..Len(lines) /\ more[i] = lines[i] /\ lines[i].number <= last
                 /\ lines[i].number \in Nat
      <4>1. i # Len(front) + 1
        BY <1>1, <3>1, <3>2
      <4>2. i \in 1..Len(front) /\ i \in 1..Len(lines)
        BY <1>0, <2>1, <3>1, <4>1
      <4>3. more[i] = lines[i]
        BY <2>1, <3>1, <4>2
      <4>4. QED BY <1>0, <3>2, <4>2, <4>3, ElementOfSeq DEF Ascending, Lines
    <3>3. \A i \in 1..Len(more) : more[i].kind = "event" => more[i].number <= next
      BY <3>2
    <3>4. ASSUME NEW i \in 1..Len(more), NEW j \in 1..Len(more), i < j,
                 more[i].kind = "event", more[j].kind = "event"
          PROVE  more[i].number < more[j].number
      BY <1>0, <3>2, <3>4 DEF Ascending
    <3>5. QED BY <3>1, <3>3, <3>4 DEF Ascending, more
  <2>4. Recorder!Unreadable(Append(front, Recorder!Broken))
    BY <2>1, BrokenIsUnreadable
  <2>5. Append(front, Recorder!Broken) # <<>>
    BY <2>4 DEF Recorder!Unreadable
  <2>6. QED BY <2>2, <2>3, <2>4, <2>5 DEF Sound, Files, Complete
<1>5. CASE part = "torn" /\ file.ended
  <2>1. Recorder!Added(line, part) = [lines |-> Append(lines, Recorder!Broken), ended |-> FALSE]
    BY <1>5 DEF Recorder!Added, lines
  <2>2. Append(lines, Recorder!Broken) \in Seq(Lines) /\ Ascending(Append(lines, Recorder!Broken), next)
    BY <1>1, <1>2
  <2>3. Recorder!Unreadable(Append(lines, Recorder!Broken))
    BY <1>0, BrokenIsUnreadable
  <2>4. Append(lines, Recorder!Broken) # <<>>
    BY <2>3 DEF Recorder!Unreadable
  <2>5. Recorder!Added(line, part) \in Files
        /\ Recorder!Added(line, part).lines = Append(lines, Recorder!Broken)
    BY <2>1, <2>2, <2>4 DEF Files
  <2>6. Sound(Recorder!Added(line, part), due, next)
    BY <2>2, <2>3, <2>5 DEF Sound, Complete
  <2>7. QED BY <1>5, <2>6
<1>6. CASE part \in {"all but newline", "all"} /\ file.ended
  <2> DEFINE more == Append(lines, line)
  <2>1. Recorder!Added(line, part) = [lines |-> more, ended |-> part = "all"]
    BY <1>6 DEF Recorder!Added, lines
  <2>2. more \in Seq(Lines) /\ Ascending(more, next)
    BY <1>1, <1>2
  <2>3. /\ Len(more) = Len(lines) + 1 /\ more[Len(lines) + 1] = line
        /\ \A i \in 1..Len(lines) : more[i] = lines[i]
    BY <1>0, <1>1, AppendProperties
  <2> HIDE DEF more
  <2>4. more # <<>> /\ Head(more) = more[1]
    BY <1>0, <2>2, <2>3, HeadTailProperties, EmptySeq
  <2>5. ASSUME ~Recorder!Unreadable(more)
        PROVE  /\ \A n \in due : \E i \in 2..Len(more) : more[i] = Recorder!Event(n)
               /\ line = Recorder!Event(next) => \E i \in 2..Len(more) : more[i] = Recorder!Event(next)
    <3>1. CASE Len(lines) = 0
      <4>1. lines = <<>>
        BY <1>0, <3>1, EmptySeq
      <4>2. ~Recorder!Unreadable(lines) /\ \A i \in 2..Len(lines) : FALSE
        BY <3>1, <4>1 DEF Recorder!Unreadable
      <4>3. \A n \in due : FALSE
        BY <1>0, <4>2 DEF Complete
      <4>4. line # Recorder!Event(next)
        BY <1>1, <2>3, <2>4, <2>5, <3>1 DEF Recorder!Unreadable
      <4>5. QED BY <4>3, <4>4
    <3>2. CASE Len(lines) # 0
      <4>1. lines # <<>> /\ Head(lines) = lines[1] /\ 1 \in 1..Len(lines)
        BY <1>0, <3>2, HeadTailProperties, EmptySeq
      <4>2. Head(lines) = Recorder!Header
        BY <2>3, <2>4, <2>5, <4>1 DEF Recorder!Unreadable
      <4>3. ASSUME NEW i \in 2..Len(lines) PROVE lines[i].kind = "event"
        <5>1. i \in 2..Len(more) /\ more[i] = lines[i]
          BY <1>0, <2>3
        <5>2. QED BY <2>4, <2>5, <5>1 DEF Recorder!Unreadable
      <4>4. ~Recorder!Unreadable(lines)
        BY <4>2, <4>3 DEF Recorder!Unreadable
      <4>5. ASSUME NEW n \in due PROVE \E i \in 2..Len(more) : more[i] = Recorder!Event(n)
        <5>1. PICK i \in 2..Len(lines) : lines[i] = Recorder!Event(n)
          BY <1>0, <4>4 DEF Complete
        <5>2. i \in 2..Len(more) /\ more[i] = lines[i]
          BY <1>0, <2>3
        <5>3. QED BY <5>1, <5>2
      <4>6. Len(lines) + 1 \in 2..Len(more)
        BY <1>0, <2>3, <3>2
      <4>7. QED BY <2>3, <4>5, <4>6
    <3>3. QED BY <3>1, <3>2
  <2>6. Complete(more, due) /\ (line = Recorder!Event(next) => Complete(more, all))
    BY <2>5 DEF Complete
  <2>7. [lines |-> more, ended |-> part = "all"] \in Files
    BY <2>2, <2>4 DEF Files
  <2>8. QED BY <2>1, <2>2, <2>6, <2>7 DEF Sound
<1>7. QED BY <1>0, <1>3, <1>4, <1>5, <1>6 DEF Recorder!Parts

\* Whatever is found on disk is sound.
LEMMA OnDiskIsSound ==
  ASSUME RecorderInv, NEW content \in Recorder!OnDisk
  PROVE  Sound(content, recordedEvents, events)
<1>1. CASE recordWriting.stage = "idle"
  BY <1>1 DEF RecorderInv, Recorder!OnDisk
<1>2. CASE recordWriting.stage # "idle"
  <2> DEFINE last == events - 1
  <2>1. /\ last \in Int /\ last <= events /\ last < events /\ events \in Nat /\ events \in Int
        /\ Sound(file, recordedEvents, last)
    BY <1>2 DEF RecorderInv
  <2> HIDE DEF last
  <2>2. \A part \in Recorder!Parts : /\ Sound(Recorder!Added(Recorder!Header, part), recordedEvents, events)
                            /\ Sound(Recorder!Added(Recorder!Event(events), part), recordedEvents, events)
    BY <2>1, AddedIsSound
  <2>3. Recorder!Added(Recorder!Header, "none") = file /\ "none" \in Recorder!Parts
    BY DEF Recorder!Added, Recorder!Parts
  <2>4. QED BY <2>2, <2>3 DEF Recorder!OnDisk
<1>3. QED BY <1>1, <1>2

LEMMA RecorderInit == Recorder!Init => RecorderInv
<1> SUFFICES ASSUME Recorder!Init PROVE RecorderInv
  OBVIOUS
<1>1. /\ events = 0 /\ file.lines = <<>> /\ recordedEvents = {} /\ exporting.due = {}
      /\ exported.due = {} /\ exported.events = <<>> /\ file = [lines |-> <<>>, ended |-> TRUE]
  BY DEF Recorder!Init, Recorder!NotExporting
<1>2. <<>> \in Seq(Lines) /\ Len(<<>>) = 0
  BY EmptySeq
<1>3. file \in Files
  BY <1>1, <1>2 DEF Files
<1>4. \A last : Ascending(<<>>, last)
  BY <1>2 DEF Ascending
<1>5. Sound(file, recordedEvents, IF recordWriting.stage = "idle" THEN events ELSE events - 1)
  BY <1>1, <1>3, <1>4 DEF Sound, Complete
<1>6. Recorder!ExportIsFaithful
  BY <1>1, <1>2 DEF Recorder!ExportIsFaithful
<1>7. recordWriting \in Writes /\ exporting \in Exports(recordedEvents)
  BY DEF Recorder!Init, Recorder!NotWriting, Recorder!NotExporting, Writes, Exports
<1>8. QED BY <1>1, <1>5, <1>6, <1>7 DEF RecorderInv

\* What is exported of a sound file that can be read.
LEMMA EventsAreDue ==
  ASSUME NEW content, NEW due, NEW asked, NEW last, Sound(content, due, last), asked \subseteq due,
         ~Recorder!Unreadable(content.lines)
  PROVE  LET read == Recorder!EventLines(content.lines) IN
         /\ \A n \in asked : \E i \in DOMAIN read : read[i].number = n
         /\ \A i \in 2..Len(read) : read[i - 1].number < read[i].number
<1> DEFINE lines == content.lines
           read == Recorder!EventLines(lines)
<1>0. /\ lines \in Seq(Lines) /\ Len(lines) \in Nat /\ Ascending(lines, last)
      /\ \A n \in due : \E i \in 2..Len(lines) : lines[i] = Recorder!Event(n)
  BY LenProperties DEF Sound, Files, Complete
<1> HIDE DEF lines
<1>1. CASE lines = <<>>
  <2>1. read = <<>> /\ Len(<<>>) = 0
    BY <1>1, EmptySeq DEF Recorder!EventLines
  <2>2. \A n \in due : FALSE
    BY <1>0, <1>1, <2>1
  <2>3. QED BY <1>1, <2>1, <2>2 DEF lines
<1>2. CASE lines # <<>>
  <2>1. read = Tail(lines)
    BY <1>2 DEF Recorder!EventLines
  <2>2. /\ read \in Seq(Lines) /\ Len(read) = Len(lines) - 1
        /\ \A i \in 1..Len(read) : read[i] = lines[i + 1]
    BY <1>0, <1>2, <2>1, HeadTailProperties
  <2> HIDE DEF read
  <2>3. ASSUME NEW n \in asked PROVE \E i \in DOMAIN read : read[i].number = n
    <3>1. PICK i \in 2..Len(lines) : lines[i] = Recorder!Event(n)
      BY <1>0
    <3>2. PICK k \in 1..Len(read) : k + 1 = i
      <4>1. i - 1 \in 1..Len(read) /\ (i - 1) + 1 = i
        BY <1>0, <2>2
      <4>2. QED BY <4>1
    <3>3. read[k].number = n /\ k \in DOMAIN read
      BY <2>2, <3>1, <3>2, LenProperties DEF Recorder!Event
    <3>4. QED BY <3>3
  <2>4. ASSUME NEW i \in 2..Len(read) PROVE read[i - 1].number < read[i].number
    <3>1. /\ i \in 2..Len(lines) /\ i + 1 \in 2..Len(lines) /\ i \in 1..Len(read)
          /\ i - 1 \in 1..Len(read)
          /\ (i - 1) + 1 = i /\ i \in 1..Len(lines) /\ i + 1 \in 1..Len(lines) /\ i < i + 1
      BY <1>0, <2>2
    <3>2. lines[i].kind = "event" /\ lines[i + 1].kind = "event"
      BY <1>2, <3>1 DEF Recorder!Unreadable, lines
    <3>3. lines[i].number < lines[i + 1].number
      BY <1>0, <3>1, <3>2 DEF Ascending
    <3>4. read[i - 1] = lines[i] /\ read[i] = lines[i + 1]
      <4>1. PICK k \in 1..Len(read) : k = i - 1 /\ k + 1 = i
        BY <3>1
      <4>2. QED BY <2>2, <3>1, <4>1
    <3>5. QED BY <3>3, <3>4
  <2>5. QED BY <2>3, <2>4 DEF read, lines
<1>3. QED BY <1>1, <1>2

LEMMA RecorderStep == RecorderInv /\ [Recorder!Next]_Recorder!vars => RecorderInv'
<1> SUFFICES ASSUME RecorderInv, [Recorder!Next]_Recorder!vars PROVE RecorderInv'
  OBVIOUS
<1>0. /\ events \in Nat /\ recordWriting \in Writes /\ exporting \in Exports(recordedEvents)
      /\ Recorder!ExportIsFaithful
      /\ exporting.due \subseteq recordedEvents
      /\ recordWriting.stage = "idle" => Sound(file, recordedEvents, events)
      /\ recordWriting.stage # "idle" => Sound(file, recordedEvents, events - 1)
  BY DEF RecorderInv, Exports
<1>1. CASE UNCHANGED Recorder!vars
  BY <1>1 DEF RecorderInv, Recorder!ExportIsFaithful, Recorder!vars
<1>2. ASSUME NEW starting \in BOOLEAN, recordWriting.stage = "idle", Recorder!Enqueue(starting),
             UNCHANGED <<file, exporting, recordedEvents, exported>>
      PROVE  RecorderInv'
  <2>1. events' = events + 1 /\ recordWriting'.stage = "ensure" /\ recordWriting' \in Writes
    BY <1>2 DEF Recorder!Enqueue, Writes
  <2>2. events' \in Nat /\ events' - 1 = events
    BY <1>0, <2>1
  <2>3. Recorder!ExportIsFaithful'
    BY <1>0, <1>2 DEF Recorder!ExportIsFaithful
  <2>4. Sound(file', recordedEvents', events' - 1)
    BY <1>0, <1>2, <2>2
  <2>5. QED BY <1>0, <1>2, <2>1, <2>2, <2>3, <2>4 DEF RecorderInv
<1>3. CASE Recorder!Start
  BY <1>2, <1>3 DEF Recorder!Start
<1>4. CASE Recorder!Record
  BY <1>2, <1>4 DEF Recorder!Record
<1>5. CASE Recorder!Stop \/ Recorder!ExportRecording \/ Recorder!Export \/ Recorder!ReadFails
  <2>0. UNCHANGED <<file, recordWriting, events, recordedEvents, exported>>
    BY <1>5 DEF Recorder!Stop, Recorder!ExportRecording, Recorder!Export, Recorder!ReadFails
  <2>1. UNCHANGED <<file, recordWriting, events, recordedEvents, exported>>
        /\ exporting' \in Exports(recordedEvents)
    <3>1. CASE Recorder!Stop
      BY <1>0, <2>0, <3>1 DEF Recorder!Stop
    <3>2. CASE Recorder!ExportRecording
      BY <1>0, <2>0, <3>2 DEF Recorder!ExportRecording, Exports
    <3>3. CASE Recorder!Export
      <4>1. exporting' = [exporting EXCEPT !.stage = "pending", !.awaited = events]
              \/ exporting' = [exporting EXCEPT !.stage = "reading"]
        BY <3>3 DEF Recorder!Export
      <4>2. QED BY <1>0, <2>0, <4>1 DEF Exports
    <3>4. CASE Recorder!ReadFails
      BY <1>0, <2>0, <3>4 DEF Recorder!ReadFails, Recorder!NotExporting, Exports
    <3>5. QED BY <1>5, <3>1, <3>2, <3>3, <3>4
  <2>2. Recorder!ExportIsFaithful'
    BY <1>0, <2>1 DEF Recorder!ExportIsFaithful
  <2>3. QED BY <1>0, <2>1, <2>2 DEF RecorderInv
<1>6. CASE Recorder!WriteProceeds
  <2>1. /\ UNCHANGED <<events, exporting, recordedEvents, exported>> /\ recordWriting.stage # "idle"
        /\ recordWriting'.stage # "idle"
        /\ UNCHANGED file \/ file' = Recorder!Added(Recorder!Header, "all")
        /\ recordWriting' \in Writes
    BY <1>0, <1>6 DEF Writes, Recorder!WriteProceeds, Recorder!EnsureHeader,
         Recorder!VerifyExistingHeader
  <2>2. Recorder!ExportIsFaithful'
    BY <1>0, <2>1 DEF Recorder!ExportIsFaithful
  <2>3. CASE UNCHANGED file
    BY <1>0, <2>1, <2>2, <2>3 DEF RecorderInv
  <2>4. CASE file' = Recorder!Added(Recorder!Header, "all")
    <3> DEFINE last == events - 1
    <3>1. last \in Int /\ last <= last /\ Sound(file, recordedEvents, last) /\ "all" \in Recorder!Parts
      BY <1>0, <2>1 DEF Recorder!Parts
    <3>2. Recorder!Header # Recorder!Event(last)
      BY DEF Recorder!Header, Recorder!Event
    <3> HIDE DEF last
    <3>3. Sound(Recorder!Added(Recorder!Header, "all"), recordedEvents, last)
      BY <3>1, <3>2, AddedIsSound
    <3>4. QED BY <1>0, <2>1, <2>2, <2>4, <3>3 DEF RecorderInv, last
  <2>5. QED BY <2>1, <2>3, <2>4
<1>7. CASE Recorder!Written
  <2> DEFINE last == events - 1
  <2>1. /\ recordWriting.stage # "idle" /\ recordWriting'.stage = "idle"
        /\ file' = Recorder!Added(Recorder!Event(events), "all")
        /\ recordedEvents' = recordedEvents \cup {events} /\ UNCHANGED <<events, exporting, exported>>
        /\ recordWriting' \in Writes
    BY <1>7 DEF Recorder!Written, Recorder!NotWriting, Writes
  <2>2. /\ last \in Int /\ last <= events /\ last < events /\ events \in Nat /\ events \in Int
        /\ Sound(file, recordedEvents, last)
    BY <1>0, <2>1
  <2> HIDE DEF last
  <2>3. Sound(Recorder!Added(Recorder!Event(events), "all"), recordedEvents \cup {events}, events)
    BY <2>2, AddedIsSound DEF Recorder!Parts
  <2>4. Recorder!ExportIsFaithful'
    BY <1>0, <2>1 DEF Recorder!ExportIsFaithful
  <2>5. exporting' \in Exports(recordedEvents')
    BY <1>0, <2>1 DEF Exports
  <2>6. QED BY <1>0, <2>1, <2>3, <2>4, <2>5 DEF RecorderInv
<1>8. CASE Recorder!WriteFails
  <2>1. /\ recordWriting'.stage = "idle" /\ file' \in Recorder!OnDisk
        /\ UNCHANGED <<events, recordedEvents, exported>>
        /\ recordWriting' \in Writes /\ exporting' \in Exports(recordedEvents)
    BY <1>0, <1>8 DEF Recorder!WriteFails, Recorder!NotWriting, Recorder!NotExporting, Writes, Exports
  <2>2. Sound(file', recordedEvents, events)
    BY <2>1, OnDiskIsSound
  <2>3. Recorder!ExportIsFaithful'
    BY <1>0, <2>1 DEF Recorder!ExportIsFaithful
  <2>4. QED BY <1>0, <2>1, <2>2, <2>3 DEF RecorderInv
<1>9. CASE Recorder!ReadEvents
  <2>1. UNCHANGED <<file, recordWriting, events, recordedEvents>>
        /\ exporting' \in Exports(recordedEvents)
    BY <1>9 DEF Recorder!ReadEvents, Recorder!NotExporting, Exports
  <2>2. Recorder!ExportIsFaithful'
    <3>1. CASE UNCHANGED exported
      BY <1>0, <3>1 DEF Recorder!ExportIsFaithful
    <3>2. ASSUME NEW content \in Recorder!OnDisk, ~Recorder!Unreadable(content.lines),
                 exported' = [due |-> exporting.due, events |-> Recorder!EventLines(content.lines)]
          PROVE  Recorder!ExportIsFaithful'
      <4>1. exported'.due = exporting.due /\ exported'.events = Recorder!EventLines(content.lines)
        BY <3>2
      <4>2. Sound(content, recordedEvents, events)
        BY <3>2, OnDiskIsSound
      <4>3. QED BY <1>0, <3>2, <4>1, <4>2, EventsAreDue DEF Recorder!ExportIsFaithful
    <3>3. QED BY <1>9, <3>1, <3>2 DEF Recorder!ReadEvents
  <2>3. QED BY <1>0, <2>1, <2>2 DEF RecorderInv
<1>10. QED BY <1>1, <1>3, <1>4, <1>5, <1>6, <1>7, <1>8, <1>9 DEF Recorder!Next

\* An export that succeeds has every event whose write had succeeded when it was asked for,
\* in order and once, whatever writes and reads have failed and whatever is still written.
THEOREM ExportSafe == Recorder!Spec => []ExportIsFaithful
<1>1. RecorderInv => ExportIsFaithful
  BY DEF RecorderInv, ExportIsFaithful
<1>2. QED BY <1>1, RecorderInit, RecorderStep, PTL DEF Recorder!Spec

-----------------------------------------------------------------------------
(***************************************************************************)
(* The log files.  The numbers of the records delimit the files: every     *)
(* file holds the records between two numbers, and a rotation, wherever it *)
(* is cut off, only moves an empty interval.  As long as none has been cut *)
(* off, the files in use are the newest but for the place the rotation has *)
(* come to.                                                                *)
(***************************************************************************)
LogRecords == [number : Nat, size : Sizes]
Stages == {"idle", "rotate", "append"}

\* first[i] is the number of the first record in the files that are newer than file i - 1:
\* file i holds the records from first[i + 1] on, up to the one before first[i].
Numbered(first) ==
    /\ first \in [0..(MaxFiles + 1) -> Nat]
    /\ first[0] = appended + 1 /\ first[MaxFiles + 1] >= 1
    /\ \A i \in 0..MaxFiles :
          /\ first[i] = first[i + 1] + Len(log[i])
          /\ \A k \in 1..Len(log[i]) : log[i][k].number = first[i + 1] + k - 1

\* As long as no rotation has been cut off: the files in use are the newest, and a record
\* has gone only when all were in use.  A rotation moves the gap down to main.log.
Gapless(first) ==
    LET s == writing.index
        lost == first[MaxFiles + 1] > 1
    IN IF writing.stage # "rotate"
       THEN /\ \A i \in 1..(MaxFiles - 1) : log[i + 1] # <<>> => log[i] # <<>>
            /\ lost => log[MaxFiles] # <<>>
       ELSE /\ \A i \in 1..(MaxFiles - 1) : i # s /\ i # s + 1 /\ log[i + 1] # <<>> => log[i] # <<>>
            /\ \A i \in 2..MaxFiles : i = s + 2 /\ log[i] # <<>> => log[s] # <<>>
            /\ s + 1 = MaxFiles /\ log[MaxFiles] # <<>> => log[s] # <<>>
            /\ lost => log[MaxFiles] # <<>> \/ (s + 1 = MaxFiles /\ log[s] # <<>>)

LoggerInv ==
    /\ appended \in Nat
    /\ log \in [0..MaxFiles -> Seq(LogRecords)]
    /\ writing \in [stage : Stages, index : 0..(MaxFiles - 1), size : Sizes \cup {0}]
    /\ writing.stage # "idle" => writing.size \in Sizes
    /\ writing.stage = "rotate" => writing.index + 1 = MaxFiles \/ log[writing.index + 1] = <<>>
    /\ writing.stage = "rotate" => log[0] # <<>>
    /\ \E first : Numbered(first) /\ (~failed => Gapless(first))

LEMMA LoggerInit == Logger!Init => LoggerInv
<1> SUFFICES ASSUME Logger!Init PROVE LoggerInv
  OBVIOUS
<1>0. MaxFiles \in Nat /\ MaxFiles >= 1
  BY MaxFilesAssumption
<1>1. /\ log = [i \in 0..MaxFiles |-> <<>>] /\ appended = 0
      /\ writing = [stage |-> "idle", index |-> 0, size |-> 0]
  BY DEF Logger!Init, Logger!NotWriting
<1> DEFINE first == [i \in 0..(MaxFiles + 1) |-> 1]
<1>2. <<>> \in Seq(LogRecords) /\ Len(<<>>) = 0
  BY EmptySeq
<1>3. /\ first \in [0..(MaxFiles + 1) -> Nat] /\ \A i \in 0..(MaxFiles + 1) : first[i] = 1
  OBVIOUS
<1> HIDE DEF first
<1>4. Numbered(first)
  <2>1. 0 \in 0..(MaxFiles + 1) /\ MaxFiles + 1 \in 0..(MaxFiles + 1)
        /\ \A i \in 0..MaxFiles : i \in 0..(MaxFiles + 1) /\ i + 1 \in 0..(MaxFiles + 1)
    BY <1>0
  <2>2. QED BY <1>1, <1>2, <1>3, <2>1 DEF Numbered
<1>5. Gapless(first)
  <2>1. \A i \in 0..MaxFiles : log[i] = <<>>
    BY <1>1
  <2>2. first[MaxFiles + 1] = 1 /\ \A i \in 1..(MaxFiles - 1) : i + 1 \in 0..MaxFiles
    BY <1>0, <1>3
  <2>3. QED BY <1>1, <2>1, <2>2 DEF Gapless
<1>6. 0 \in 0..(MaxFiles - 1)
  BY <1>0
<1>7. writing \in [stage : Stages, index : 0..(MaxFiles - 1), size : Sizes \cup {0}]
  BY <1>1, <1>6 DEF Stages
<1>8. QED BY <1>1, <1>2, <1>4, <1>5, <1>7 DEF LoggerInv

LEMMA WriteStep ==
  ASSUME LoggerInv, NEW size \in Sizes, Logger!Write(size)
  PROVE  LoggerInv'
<1>0. /\ MaxFiles \in Nat /\ MaxFiles >= 1 /\ MaxFiles - 1 \in 0..(MaxFiles - 1)
      /\ MaxFiles - 1 + 1 = MaxFiles
  BY MaxFilesAssumption
<1>1. /\ writing.stage = "idle" /\ log' = log /\ appended' = appended /\ failed' = failed
      /\ \/ writing' = [stage |-> "append", index |-> MaxFiles - 1, size |-> size]
         \/ writing' = [stage |-> "rotate", index |-> MaxFiles - 1, size |-> size] /\ log[0] # <<>>
  BY DEF Logger!Write
<1>2. PICK first : Numbered(first) /\ (~failed => Gapless(first))
  BY DEF LoggerInv
<1>3. Numbered(first)'
  BY <1>1, <1>2 DEF Numbered
<1>4. ASSUME ~failed PROVE Gapless(first)'
  <2>1. /\ \A i \in 1..(MaxFiles - 1) : log[i + 1] # <<>> => log[i] # <<>>
        /\ first[MaxFiles + 1] > 1 => log[MaxFiles] # <<>>
    BY <1>1, <1>2, <1>4 DEF Gapless
  <2>2. CASE writing'.stage = "append"
    BY <1>1, <2>1, <2>2 DEF Gapless
  <2>3. CASE writing'.stage = "rotate"
    <3>1. writing'.index = MaxFiles - 1 /\ log[0] # <<>>
      BY <1>1, <2>3
    <3>2. log[MaxFiles] # <<>> => log[MaxFiles - 1] # <<>>
      <4>1. CASE MaxFiles = 1
        BY <3>1, <4>1
      <4>2. CASE MaxFiles # 1
        <5>1. MaxFiles - 1 \in 1..(MaxFiles - 1)
          BY <1>0, <4>2
        <5>2. QED BY <1>0, <2>1, <5>1
      <4>3. QED BY <4>1, <4>2
    <3>3. \A i \in 2..MaxFiles : i # (MaxFiles - 1) + 2
      BY <1>0
    <3>4. QED BY <1>0, <1>1, <2>1, <2>3, <3>1, <3>2, <3>3 DEF Gapless
  <2>4. QED BY <1>1, <2>2, <2>3
<1>5. /\ writing' \in [stage : Stages, index : 0..(MaxFiles - 1), size : Sizes \cup {0}]
      /\ writing'.stage # "idle" => writing'.size \in Sizes
      /\ writing'.stage = "rotate" => writing'.index + 1 = MaxFiles /\ log'[0] # <<>>
  BY <1>0, <1>1 DEF Stages
<1>6. \E f : Numbered(f)' /\ (~failed' => Gapless(f)')
  BY <1>1, <1>3, <1>4
<1>7. appended' \in Nat /\ log' \in [0..MaxFiles -> Seq(LogRecords)]
  BY <1>1 DEF LoggerInv
<1>8. QED BY <1>5, <1>6, <1>7 DEF LoggerInv

LEMMA AppendStep ==
  ASSUME LoggerInv, Logger!AppendRecord
  PROVE  LoggerInv'
<1> DEFINE record == [number |-> appended + 1, size |-> writing.size]
           longer == Append(log[0], record)
<1>0. /\ MaxFiles \in Nat /\ MaxFiles >= 1 /\ 0 \in 0..MaxFiles /\ 0 \in 0..(MaxFiles - 1)
      /\ appended \in Nat /\ log \in [0..MaxFiles -> Seq(LogRecords)]
  BY MaxFilesAssumption DEF LoggerInv
<1>1. /\ writing.stage = "append" /\ writing.size \in Sizes /\ appended' = appended + 1
      /\ failed' = failed
      /\ log' = [log EXCEPT ![0] = longer]
      /\ writing' = [stage |-> "idle", index |-> 0, size |-> 0]
  BY DEF Logger!AppendRecord, Logger!NotWriting, LoggerInv
<1>2. record \in LogRecords /\ record.number = appended + 1
  BY <1>0, <1>1 DEF LogRecords
<1> HIDE DEF record
<1>3. log[0] \in Seq(LogRecords) /\ Len(log[0]) \in Nat
  BY <1>0, LenProperties
<1>4. /\ longer \in Seq(LogRecords) /\ Len(longer) = Len(log[0]) + 1
      /\ longer[Len(log[0]) + 1] = record
      /\ \A k \in 1..Len(log[0]) : longer[k] = log[0][k]
  BY <1>2, <1>3, AppendProperties
<1> HIDE DEF longer
<1>5. log'[0] = longer /\ \A i \in 1..MaxFiles : log'[i] = log[i]
  BY <1>0, <1>1
<1>6. PICK first : Numbered(first) /\ (~failed => Gapless(first))
  BY DEF LoggerInv
<1> DEFINE more == [first EXCEPT ![0] = first[0] + 1]
<1>7. /\ first \in [0..(MaxFiles + 1) -> Nat] /\ more \in [0..(MaxFiles + 1) -> Nat]
      /\ more[0] = appended + 2 /\ \A i \in 1..(MaxFiles + 1) : more[i] = first[i]
      /\ first[0] = appended + 1
  BY <1>0, <1>6 DEF Numbered
<1> HIDE DEF more
<1>8. Numbered(more)'
  <2>1. ASSUME NEW i \in 0..MaxFiles
        PROVE  /\ more[i] = more[i + 1] + Len(log'[i])
               /\ \A k \in 1..Len(log'[i]) : log'[i][k].number = more[i + 1] + k - 1
    <3>0. /\ i + 1 \in 1..(MaxFiles + 1) /\ more[i + 1] = first[i + 1] /\ first[i + 1] \in Nat
          /\ first[i] = first[i + 1] + Len(log[i])
          /\ \A k \in 1..Len(log[i]) : log[i][k].number = first[i + 1] + k - 1
      <4>1. i + 1 \in 1..(MaxFiles + 1) /\ i + 1 \in 0..(MaxFiles + 1)
        BY <1>0
      <4>2. /\ first[i] = first[i + 1] + Len(log[i])
            /\ \A k \in 1..Len(log[i]) : log[i][k].number = first[i + 1] + k - 1
        BY <1>6 DEF Numbered
      <4>3. more[i + 1] = first[i + 1] /\ first[i + 1] \in Nat
        BY <1>7, <4>1
      <4>4. QED BY <4>1, <4>2, <4>3
    <3>1. CASE i = 0
      <4>1. more[0] = more[1] + Len(longer)
        <5>1. first[0] = first[1] + Len(log[0]) /\ more[1] = first[1] /\ first[1] \in Nat
          BY <3>0, <3>1
        <5>2. QED BY <1>0, <1>3, <1>4, <1>7, <5>1
      <4>2. ASSUME NEW k \in 1..Len(longer) PROVE longer[k].number = more[1] + k - 1
        <5>1. CASE k = Len(log[0]) + 1
          <6>1. longer[k].number = appended + 1
            BY <1>2, <1>4, <5>1
          <6>2. first[0] = first[1] + Len(log[0]) /\ more[1] = first[1] /\ first[1] \in Nat
            BY <3>0, <3>1
          <6>3. first[1] + (Len(log[0]) + 1) - 1 = appended + 1
            BY <1>0, <1>3, <1>7, <6>2
          <6>4. QED BY <5>1, <6>1, <6>2, <6>3
        <5>2. CASE k # Len(log[0]) + 1
          <6>1. k \in 1..Len(log[0])
            BY <1>3, <1>4, <5>2
          <6>2. longer[k] = log[0][k]
            BY <1>4, <6>1
          <6>3. log[0][k].number = first[1] + k - 1 /\ more[1] = first[1]
            BY <3>0, <3>1, <6>1
          <6>4. QED BY <6>2, <6>3
        <5>3. QED BY <5>1, <5>2
      <4>3. QED BY <1>5, <3>1, <4>1, <4>2
    <3>2. CASE i # 0
      <4>1. i \in 1..MaxFiles /\ i \in 1..(MaxFiles + 1)
        BY <1>0, <3>2
      <4>2. QED BY <1>5, <1>7, <3>0, <4>1
    <3>3. QED BY <3>1, <3>2
  <2>2. MaxFiles + 1 \in 1..(MaxFiles + 1)
    BY <1>0
  <2>3. more[0] = appended' + 1 /\ more[MaxFiles + 1] >= 1
    BY <1>0, <1>1, <1>6, <1>7, <2>2 DEF Numbered
  <2>4. QED BY <1>7, <2>1, <2>3 DEF Numbered
<1>9. ASSUME ~failed PROVE Gapless(more)'
  <2>1. /\ \A i \in 1..(MaxFiles - 1) : log[i + 1] # <<>> => log[i] # <<>>
        /\ first[MaxFiles + 1] > 1 => log[MaxFiles] # <<>>
    BY <1>1, <1>6, <1>9 DEF Gapless
  <2>2. /\ \A i \in 1..(MaxFiles - 1) : i \in 1..MaxFiles /\ i + 1 \in 1..MaxFiles
        /\ MaxFiles \in 1..MaxFiles /\ MaxFiles + 1 \in 1..(MaxFiles + 1)
    BY <1>0
  <2>3. writing'.stage # "rotate" /\ more[MaxFiles + 1] = first[MaxFiles + 1]
    BY <1>1, <1>7, <2>2
  <2>4. QED BY <1>5, <2>1, <2>2, <2>3 DEF Gapless
<1>10. /\ writing' \in [stage : Stages, index : 0..(MaxFiles - 1), size : Sizes \cup {0}]
       /\ writing'.stage = "idle"
  BY <1>0, <1>1 DEF Stages
<1>11. \E f : Numbered(f)' /\ (~failed' => Gapless(f)')
  BY <1>1, <1>8, <1>9
<1>12. appended' \in Nat /\ log' \in [0..MaxFiles -> Seq(LogRecords)]
  BY <1>0, <1>1, <1>4
<1>13. QED BY <1>10, <1>11, <1>12 DEF LoggerInv

LEMMA WriteFailsStep ==
  ASSUME LoggerInv, Logger!WriteFails
  PROVE  LoggerInv'
<1>1. /\ log' = log /\ appended' = appended /\ writing' = [stage |-> "idle", index |-> 0, size |-> 0]
  BY DEF Logger!WriteFails, Logger!NotWriting
<1>2. failed'
  BY Zenon DEF Logger!WriteFails
<1>3. PICK first : Numbered(first)
  BY DEF LoggerInv
<1>4. Numbered(first)'
  BY <1>1, <1>3 DEF Numbered
<1>5. 0 \in 0..(MaxFiles - 1)
  BY MaxFilesAssumption
<1>6. writing' \in [stage : Stages, index : 0..(MaxFiles - 1), size : Sizes \cup {0}]
  BY <1>1, <1>5 DEF Stages
<1>7. \E f : Numbered(f)' /\ (~failed' => Gapless(f)')
  BY <1>2, <1>4
<1>8. QED BY <1>1, <1>6, <1>7 DEF LoggerInv

LEMMA RotateStep ==
  ASSUME LoggerInv, Logger!Rotate
  PROVE  LoggerInv'
<1> DEFINE s == writing.index
           next == IF s = 0 THEN [writing EXCEPT !.stage = "append"]
                            ELSE [writing EXCEPT !.index = s - 1]
<1>0. /\ MaxFiles \in Nat /\ MaxFiles >= 1 /\ s \in 0..(MaxFiles - 1)
      /\ s \in 0..MaxFiles /\ s + 1 \in 1..MaxFiles /\ s + 1 \in 0..MaxFiles /\ s \in Nat
      /\ appended \in Nat /\ log \in [0..MaxFiles -> Seq(LogRecords)]
  BY MaxFilesAssumption DEF LoggerInv
<1>1. /\ writing.stage = "rotate" /\ appended' = appended /\ failed' = failed
      /\ \/ log[s] = <<>> /\ log' = log /\ writing' = next
         \/ log[s] # <<>> /\ log[s + 1] # <<>> /\ log' = [log EXCEPT ![s + 1] = <<>>] /\ writing' = writing
         \/ /\ log[s] # <<>> /\ log[s + 1] = <<>>
            /\ log' = [log EXCEPT ![s + 1] = log[s], ![s] = <<>>] /\ writing' = next
  BY DEF Logger!Rotate, Logger!NextIndex
<1>2. /\ s + 1 = MaxFiles \/ log[s + 1] = <<>>
      /\ log[0] # <<>> /\ writing.size \in Sizes
      /\ writing \in [stage : Stages, index : 0..(MaxFiles - 1), size : Sizes \cup {0}]
  BY <1>1 DEF LoggerInv
<1>3. PICK first : Numbered(first) /\ (~failed => Gapless(first))
  BY DEF LoggerInv
<1>4. /\ first \in [0..(MaxFiles + 1) -> Nat]
      /\ first[0] = appended + 1 /\ first[MaxFiles + 1] >= 1
      /\ \A i \in 0..MaxFiles :
            /\ first[i] = first[i + 1] + Len(log[i])
            /\ \A k \in 1..Len(log[i]) : log[i][k].number = first[i + 1] + k - 1
  BY <1>3 DEF Numbered
<1>5. <<>> \in Seq(LogRecords) /\ Len(<<>>) = 0 /\ \A i \in 0..MaxFiles : Len(log[i]) \in Nat
  BY <1>0, EmptySeq, LenProperties
<1>6. ASSUME ~failed
      PROVE  /\ \A i \in 1..(MaxFiles - 1) : i # s /\ i # s + 1 /\ log[i + 1] # <<>> => log[i] # <<>>
             /\ \A i \in 2..MaxFiles : i = s + 2 /\ log[i] # <<>> => log[s] # <<>>
             /\ s + 1 = MaxFiles /\ log[MaxFiles] # <<>> => log[s] # <<>>
             /\ first[MaxFiles + 1] > 1 => log[MaxFiles] # <<>> \/ (s + 1 = MaxFiles /\ log[s] # <<>>)
  BY <1>1, <1>3, <1>6 DEF Gapless
<1>7. /\ s = 0 => next = [writing EXCEPT !.stage = "append"]
      /\ s # 0 => next = [writing EXCEPT !.index = s - 1]
  OBVIOUS
<1>8. /\ next \in [stage : Stages, index : 0..(MaxFiles - 1), size : Sizes \cup {0}]
      /\ next.size \in Sizes
      /\ s = 0 => next.stage = "append"
      /\ s # 0 => next.stage = "rotate" /\ next.index = s - 1
  BY <1>0, <1>1, <1>2, <1>7 DEF Stages
<1>8a. writing.index = s
  OBVIOUS
<1> HIDE DEF next, s
<1>9. appended' \in Nat
  BY <1>0, <1>1
<1>10. CASE log[s] = <<>>
  <2>1. log' = log /\ writing' = next /\ s # 0 /\ s - 1 \in 0..(MaxFiles - 1) /\ (s - 1) + 1 = s
    BY <1>0, <1>1, <1>2, <1>10
  <2>2. Numbered(first)'
    BY <1>1, <1>3, <2>1 DEF Numbered
  <2>3. ASSUME ~failed PROVE Gapless(first)'
    <3>1. log[s + 1] = <<>>
      BY <1>2, <1>6, <1>10, <2>3
    <3>2. \A i \in 1..(MaxFiles - 1) : i = s + 1 => log[i + 1] = <<>>
      <4>1. SUFFICES ASSUME NEW i \in 1..(MaxFiles - 1), i = s + 1 PROVE log[i + 1] = <<>>
        OBVIOUS
      <4>2. i + 1 \in 2..MaxFiles /\ i + 1 = s + 2
        BY <1>0, <4>1
      <4>3. QED BY <1>6, <1>10, <2>3, <4>2
    <3>3. \A i \in 1..(MaxFiles - 1) : i # s - 1 /\ i # (s - 1) + 1 /\ log[i + 1] # <<>>
               => log[i] # <<>>
      BY <1>6, <2>1, <2>3, <3>2
    <3>4. \A i \in 2..MaxFiles : i = (s - 1) + 2 => log[i] = <<>>
      <4>1. (s - 1) + 2 = s + 1
        BY <1>0
      <4>2. QED BY <3>1, <4>1
    <3>5. s # MaxFiles
      BY <1>0
    <3>6. first[MaxFiles + 1] > 1 => log[MaxFiles] # <<>>
      BY <1>6, <1>10, <2>3
    <3>7. writing'.stage = "rotate" /\ writing'.index = s - 1
      BY <1>8, <2>1
    <3>8. QED BY <2>1, <3>3, <3>4, <3>5, <3>6, <3>7 DEF Gapless
  <2>4. \E f : Numbered(f)' /\ (~failed' => Gapless(f)')
    BY <1>1, <2>2, <2>3
  <2>5. writing'.stage = "rotate" => log'[writing'.index + 1] = <<>> /\ log'[0] # <<>>
    BY <1>2, <1>8, <1>10, <2>1
  <2>6. QED BY <1>0, <1>8, <1>9, <2>1, <2>4, <2>5 DEF LoggerInv
<1>11. CASE log[s] # <<>> /\ log[s + 1] # <<>>
  <2>1. log' = [log EXCEPT ![s + 1] = <<>>] /\ writing' = writing /\ s + 1 = MaxFiles
    BY <1>1, <1>2, <1>11
  <2>2. /\ log' \in [0..MaxFiles -> Seq(LogRecords)] /\ log'[MaxFiles] = <<>>
        /\ \A i \in 0..MaxFiles : i # MaxFiles => log'[i] = log[i]
    BY <1>0, <1>5, <2>1
  <2> DEFINE later == [first EXCEPT ![MaxFiles + 1] = first[MaxFiles]]
  <2>3. /\ MaxFiles + 1 \in 0..(MaxFiles + 1) /\ MaxFiles \in 0..(MaxFiles + 1)
        /\ 0 \in 0..(MaxFiles + 1)
        /\ 0 # MaxFiles + 1 /\ MaxFiles # MaxFiles + 1 /\ MaxFiles \in 0..MaxFiles
    BY <1>0
  <2>4. /\ later \in [0..(MaxFiles + 1) -> Nat] /\ later[MaxFiles + 1] = first[MaxFiles]
        /\ \A i \in 0..MaxFiles : later[i] = first[i]
    BY <1>0, <1>4, <2>3
  <2> HIDE DEF later
  <2>5. ASSUME NEW i \in 0..MaxFiles
        PROVE  /\ later[i] = later[i + 1] + Len(log'[i])
               /\ \A k \in 1..Len(log'[i]) : log'[i][k].number = later[i + 1] + k - 1
    <3>1. CASE i = MaxFiles
      <4>1. later[i] = first[MaxFiles] /\ later[i + 1] = first[MaxFiles] /\ log'[i] = <<>>
            /\ first[MaxFiles] \in Nat
        BY <1>4, <2>2, <2>3, <2>4, <3>1
      <4>2. QED BY <1>5, <4>1
    <3>2. CASE i # MaxFiles
      <4>1. i + 1 \in 0..MaxFiles
        BY <1>0, <3>2
      <4>2. later[i] = first[i] /\ later[i + 1] = first[i + 1] /\ log'[i] = log[i]
        BY <2>2, <2>4, <3>2, <4>1
      <4>3. QED BY <1>4, <4>2
    <3>3. QED BY <3>1, <3>2
  <2>6. later[0] = appended' + 1 /\ later[MaxFiles + 1] >= 1
    <3>1. first[MaxFiles] = first[MaxFiles + 1] + Len(log[MaxFiles]) /\ first[MaxFiles + 1] \in Nat
      BY <1>4, <2>3
    <3>2. first[MaxFiles] >= 1
      BY <1>4, <1>5, <2>3, <3>1
    <3>3. QED BY <1>0, <1>1, <1>4, <2>4, <3>2
  <2>7. Numbered(later)'
    BY <2>4, <2>5, <2>6 DEF Numbered
  <2>8. ASSUME ~failed PROVE Gapless(later)'
    <3>1. writing'.stage = "rotate" /\ writing'.index = s /\ log'[s] = log[s]
      BY <1>0, <1>1, <1>8a, <2>1, <2>2
    <3>2. \A i \in 1..(MaxFiles - 1) : i # s /\ i # s + 1 /\ log'[i + 1] # <<>> => log'[i] # <<>>
      <4>1. SUFFICES ASSUME NEW i \in 1..(MaxFiles - 1), i # s, i # s + 1, log'[i + 1] # <<>>
                     PROVE  log'[i] # <<>>
        OBVIOUS
      <4>2. i \in 0..MaxFiles /\ i # MaxFiles /\ i + 1 \in 0..MaxFiles /\ i + 1 # MaxFiles
        BY <1>0, <2>1, <4>1
      <4>3. log'[i] = log[i] /\ log'[i + 1] = log[i + 1]
        BY <2>2, <4>2
      <4>4. QED BY <1>6, <2>8, <4>1, <4>3
    <3>3. \A i \in 2..MaxFiles : i # s + 2
      BY <1>0, <2>1
    <3>4. QED BY <1>11, <2>1, <2>2, <3>1, <3>2, <3>3 DEF Gapless
  <2>9. \E f : Numbered(f)' /\ (~failed' => Gapless(f)')
    BY <1>1, <2>7, <2>8
  <2>10. log'[0] # <<>> /\ writing'.index + 1 = MaxFiles
    BY <1>0, <1>2, <1>8a, <2>1, <2>2
  <2>11. QED BY <1>2, <1>9, <2>1, <2>2, <2>9, <2>10 DEF LoggerInv
<1>12. CASE log[s] # <<>> /\ log[s + 1] = <<>>
  <2>1. log' = [log EXCEPT ![s + 1] = log[s], ![s] = <<>>] /\ writing' = next
    BY <1>1, <1>12
  <2>2. /\ log' \in [0..MaxFiles -> Seq(LogRecords)] /\ log'[s] = <<>> /\ log'[s + 1] = log[s]
        /\ \A i \in 0..MaxFiles : i # s /\ i # s + 1 => log'[i] = log[i]
    BY <1>0, <1>5, <2>1
  <2>3. /\ s \in 0..(MaxFiles + 1) /\ s + 1 \in 0..(MaxFiles + 1) /\ s + 2 \in 0..(MaxFiles + 1)
        /\ MaxFiles + 1 \in 0..(MaxFiles + 1) /\ MaxFiles + 1 # s + 1 /\ (s + 1) + 1 = s + 2
        /\ 0 \in 0..(MaxFiles + 1) /\ 0 # s + 1
    BY <1>0
  <2>4a. PICK later : later = [first EXCEPT ![s + 1] = first[s]]
    OBVIOUS
  <2>4. /\ later \in [0..(MaxFiles + 1) -> Nat] /\ later[s + 1] = first[s]
        /\ \A i \in 0..(MaxFiles + 1) : i # s + 1 => later[i] = first[i]
    BY <1>4, <2>3, <2>4a
  <2>5. first[s + 1] = first[s + 2] /\ first[s + 1] \in Nat /\ first[s + 2] \in Nat
    <3>1. first[s + 1] = first[(s + 1) + 1] + Len(log[s + 1])
      BY <1>0, <1>4
    <3>2. QED BY <1>4, <1>5, <1>12, <2>3, <3>1
  <2>6. ASSUME NEW i \in 0..MaxFiles
        PROVE  /\ later[i] = later[i + 1] + Len(log'[i])
               /\ \A k \in 1..Len(log'[i]) : log'[i][k].number = later[i + 1] + k - 1
    <3>0. i \in 0..(MaxFiles + 1) /\ i + 1 \in 0..(MaxFiles + 1)
      BY <1>0
    <3>1. CASE i = s
      <4>1. later[i] = first[s] /\ later[i + 1] = first[s] /\ log'[i] = <<>> /\ first[s] \in Nat
        BY <1>0, <1>4, <2>2, <2>3, <2>4, <3>1
      <4>2. QED BY <1>5, <4>1
    <3>2. CASE i = s + 1
      <4>1. s + 2 # s + 1 /\ i + 1 = s + 2
        BY <1>0, <3>2
      <4>2. later[i] = first[s] /\ later[i + 1] = first[s + 1] /\ log'[i] = log[s]
        BY <2>2, <2>3, <2>4, <2>5, <3>2, <4>1
      <4>3. QED BY <1>0, <1>4, <4>2
    <3>3. CASE i # s /\ i # s + 1
      <4>1. i + 1 # s + 1
        BY <1>0, <3>3
      <4>2. later[i] = first[i] /\ later[i + 1] = first[i + 1] /\ log'[i] = log[i]
        BY <2>2, <2>4, <3>0, <3>3, <4>1
      <4>3. QED BY <1>4, <4>2
    <3>4. QED BY <3>1, <3>2, <3>3
  <2>7. later[0] = appended' + 1 /\ later[MaxFiles + 1] >= 1
        /\ later[MaxFiles + 1] = first[MaxFiles + 1]
    BY <1>1, <1>4, <2>3, <2>4
  <2>8. Numbered(later)'
    BY <2>4, <2>6, <2>7 DEF Numbered
  <2>9. ASSUME ~failed PROVE Gapless(later)'
    <3>1. \A i \in 1..(MaxFiles - 1) : i # s - 1 /\ i # s /\ log'[i + 1] # <<>> => log'[i] # <<>>
      <4>1. SUFFICES ASSUME NEW i \in 1..(MaxFiles - 1), i # s - 1, i # s, log'[i + 1] # <<>>
                     PROVE  log'[i] # <<>>
        OBVIOUS
      <4>2. CASE i = s + 1
        BY <1>12, <2>2, <4>2
      <4>3. CASE i # s + 1
        <5>1. i \in 0..MaxFiles /\ i + 1 \in 0..MaxFiles /\ i + 1 # s /\ i + 1 # s + 1
          BY <1>0, <4>1
        <5>2. log'[i] = log[i] /\ log'[i + 1] = log[i + 1]
          BY <2>2, <4>1, <4>3, <5>1
        <5>3. QED BY <1>6, <2>9, <4>1, <4>3, <5>2
      <4>4. QED BY <4>2, <4>3
    <3>2. later[MaxFiles + 1] > 1 => log'[MaxFiles] # <<>>
      <4>1. CASE s + 1 = MaxFiles
        BY <1>12, <2>2, <4>1
      <4>2. CASE s + 1 # MaxFiles
        <5>1. MaxFiles \in 0..MaxFiles /\ MaxFiles # s /\ MaxFiles # s + 1
          BY <1>0, <4>2
        <5>2. log'[MaxFiles] = log[MaxFiles]
          BY <2>2, <5>1
        <5>3. QED BY <1>6, <2>7, <2>9, <4>2, <5>2
      <4>3. QED BY <4>1, <4>2
    <3>3. CASE s = 0
      <4>1. \A i \in 1..(MaxFiles - 1) : i # s - 1 /\ i # s
        BY <1>0, <3>3
      <4>2. writing'.stage # "rotate"
        BY <1>8, <2>1, <3>3
      <4>3. QED BY <3>1, <3>2, <4>1, <4>2 DEF Gapless
    <3>4. CASE s # 0
      <4>1. writing'.stage = "rotate" /\ writing'.index = s - 1 /\ (s - 1) + 1 = s
            /\ (s - 1) + 2 = s + 1
            /\ s # MaxFiles /\ s - 1 \in 0..MaxFiles /\ s - 1 # s /\ s - 1 # s + 1
        BY <1>0, <1>8, <2>1, <3>4
      <4>2. log'[s - 1] # <<>>
        <5>1. log'[s - 1] = log[s - 1]
          BY <2>2, <4>1
        <5>2. CASE s = 1
          BY <1>2, <5>1, <5>2
        <5>3. CASE s # 1
          <6>1. s - 1 \in 1..(MaxFiles - 1)
            BY <1>0, <3>4, <5>3
          <6>2. QED BY <1>6, <1>12, <2>9, <4>1, <5>1, <6>1
        <5>4. QED BY <5>2, <5>3
      <4>3. QED BY <3>1, <3>2, <4>1, <4>2 DEF Gapless
    <3>5. QED BY <3>3, <3>4
  <2>10. \E f : Numbered(f)' /\ (~failed' => Gapless(f)')
    BY <1>1, <2>8, <2>9
  <2>11. writing'.stage = "rotate" => log'[writing'.index + 1] = <<>> /\ log'[0] # <<>>
    <3>1. SUFFICES ASSUME s # 0 PROVE log'[(s - 1) + 1] = <<>> /\ log'[0] # <<>>
      BY <1>8, <2>1
    <3>2. (s - 1) + 1 = s /\ 0 # s + 1 /\ 0 \in 0..MaxFiles
      BY <1>0
    <3>3. QED BY <1>2, <2>2, <3>1, <3>2
  <2>12. QED BY <1>8, <1>9, <2>1, <2>2, <2>10, <2>11 DEF LoggerInv
<1>13. QED BY <1>10, <1>11, <1>12

LEMMA LoggerStep ==
  ASSUME LoggerInv, [Logger!Next]_Logger!vars
  PROVE  LoggerInv'
<1>1. CASE Logger!Next
  BY <1>1, WriteStep, RotateStep, AppendStep, WriteFailsStep DEF Logger!Next
<1>2. CASE UNCHANGED Logger!vars
  <2>1. log' = log /\ writing' = writing /\ appended' = appended /\ failed' = failed
    BY <1>2 DEF Logger!vars
  <2>2. PICK first : Numbered(first) /\ (~failed => Gapless(first))
    BY DEF LoggerInv
  <2>3. Numbered(first)'
    BY <2>1, <2>2 DEF Numbered
  <2>4. ~failed => Gapless(first)'
    BY <2>1, <2>2 DEF Gapless
  <2>5. \E f : Numbered(f)' /\ (~failed' => Gapless(f)')
    BY <2>1, <2>3, <2>4
  <2>6. QED BY <2>1, <2>5 DEF LoggerInv
<1>3. QED BY <1>1, <1>2

\* What the files hold, from the oldest on, is numbered without a gap up to the newest record.
LEMMA KeptNumbered ==
  ASSUME LoggerInv, NEW first, Numbered(first)
  PROVE  /\ Logger!Kept \in Seq(LogRecords) /\ Len(Logger!Kept) + first[MaxFiles + 1] = appended + 1
         /\ \A k \in 1..Len(Logger!Kept) : Logger!Kept[k].number = first[MaxFiles + 1] + k - 1
<1> DEFINE M == MaxFiles
           files == [i \in 1..(M + 1) |-> log[M + 1 - i]]
<1>0. /\ M \in Nat /\ M + 1 \in Nat /\ M + 1 >= 1
      /\ log \in [0..M -> Seq(LogRecords)]
      /\ \A i \in 1..(M + 1) : M + 1 - i \in 0..M
  BY MaxFilesAssumption DEF LoggerInv
<1>1. /\ first \in [0..(M + 1) -> Nat] /\ first[0] = appended + 1
      /\ \A i \in 0..M :
            /\ first[i] = first[i + 1] + Len(log[i])
            /\ \A k \in 1..Len(log[i]) : log[i][k].number = first[i + 1] + k - 1
  BY DEF Numbered
<1>2. /\ files \in [1..(M + 1) -> Seq(LogRecords)]
      /\ \A i \in 1..(M + 1) : files[i] = log[M + 1 - i]
  BY <1>0
<1>3. Logger!Kept = FlattenSeq(files)
  BY DEF Logger!Kept, Logger!FlattenSeq, FlattenSeq
<1> HIDE DEF files
<1>4. files \in Seq(Seq(LogRecords)) /\ Len(files) = M + 1
  <2>1. files \in Seq(Seq(LogRecords))
    BY <1>0, <1>2, SeqDef
  <2>2. DOMAIN files = 1..Len(files) /\ DOMAIN files = 1..(M + 1) /\ Len(files) \in Nat
    BY <1>2, <2>1, LenProperties
  <2>3. M + 1 \in 1..Len(files)
    BY <1>0, <2>2
  <2>4. Len(files) \in 1..(M + 1)
    BY <2>2, <2>3
  <2>5. QED BY <1>0, <2>1, <2>3, <2>4
<1>5. files # <<>>
  BY <1>0, <1>4, EmptySeq
<1>6. PICK f : Joins(f, files) /\ FlattenSeq(files) = f[M + 1]
  BY <1>4, <1>5, FlattenJoins
<1>7. f[1] = files[1] /\ \A i \in 2..(M + 1) : f[i] = f[i - 1] \o files[i]
  BY <1>4, <1>6 DEF Joins
<1> DEFINE oldest == first[M + 1]
           Right(i) == /\ f[i] \in Seq(LogRecords) /\ oldest + Len(f[i]) = first[M + 1 - i]
                       /\ \A k \in 1..Len(f[i]) : f[i][k].number = oldest + k - 1
           T == {n \in Nat : n <= M => Right(n + 1)}
<1>8. oldest \in Nat /\ \A i \in 0..(M + 1) : first[i] \in Nat
  BY <1>0, <1>1
<1>9. 0 \in T
  <2>1. f[1] = log[M] /\ M \in 0..M
    <3>1. 1 \in 1..(M + 1) /\ M + 1 - 1 = M /\ M \in 0..M
      BY <1>0
    <3>2. QED BY <1>2, <1>7, <3>1
  <2>2. Right(1)
    <3>1. M + 1 - 1 = M
      BY <1>0
    <3>2. QED BY <1>0, <1>1, <2>1, <3>1
  <2>3. 0 + 1 = 1
    OBVIOUS
  <2>4. QED BY <2>2, <2>3
<1>10. ASSUME NEW n \in Nat, n \in T PROVE n + 1 \in T
  <2> SUFFICES ASSUME n + 1 <= M PROVE Right((n + 1) + 1)
    OBVIOUS
  <2>0. PICK i : i = n + 1
    OBVIOUS
  <2>1. /\ i \in Nat /\ i + 1 \in 2..(M + 1) /\ i + 1 \in 1..(M + 1) /\ (i + 1) - 1 = i
        /\ M - i \in 0..M /\ M + 1 - (i + 1) = M - i /\ (M - i) + 1 = M + 1 - i
        /\ M - i \in 0..(M + 1) /\ M + 1 - i \in 0..(M + 1)
    BY <1>0, <2>0
  <2>2. Right(i)
    BY <1>10, <2>0, <1>0
  <2> DEFINE aFile == log[M - i]
             older == f[i]
  <2>3. f[i + 1] = older \o aFile
    BY <1>2, <1>7, <2>1
  <2>4. /\ aFile \in Seq(LogRecords) /\ first[M - i] = first[M + 1 - i] + Len(aFile)
        /\ \A k \in 1..Len(aFile) : aFile[k].number = first[M + 1 - i] + k - 1
    BY <1>0, <1>1, <2>1
  <2>5. /\ older \in Seq(LogRecords) /\ oldest + Len(older) = first[M + 1 - i]
        /\ \A k \in 1..Len(older) : older[k].number = oldest + k - 1
    BY <2>2
  <2>6. first[M - i] \in Nat /\ first[M + 1 - i] \in Nat
    BY <1>8, <2>1
  <2> HIDE DEF aFile, older, oldest
  <2> DEFINE both == older \o aFile
  <2>7. /\ both \in Seq(LogRecords) /\ Len(both) = Len(older) + Len(aFile)
        /\ Len(older) \in Nat /\ Len(aFile) \in Nat
        /\ \A k \in 1..Len(both) : both[k] = IF k <= Len(older) THEN older[k] ELSE aFile[k - Len(older)]
    BY <2>4, <2>5, ConcatProperties, LenProperties
  <2> HIDE DEF both
  <2>8. ASSUME NEW k \in 1..Len(both) PROVE both[k].number = oldest + k - 1
    <3>1. CASE k <= Len(older)
      <4>1. k \in 1..Len(older)
        BY <2>7, <3>1
      <4>2. QED BY <2>5, <2>7, <3>1, <4>1
    <3>2. CASE ~(k <= Len(older))
      <4>1. k - Len(older) \in 1..Len(aFile)
        BY <2>7, <3>2
      <4>2. both[k].number = first[M + 1 - i] + (k - Len(older)) - 1
        BY <2>4, <2>7, <3>2, <4>1
      <4>3. first[M + 1 - i] + (k - Len(older)) - 1 = oldest + k - 1
        BY <1>8, <2>5, <2>6, <2>7
      <4>4. QED BY <4>2, <4>3
    <3>3. QED BY <3>1, <3>2
  <2>9. oldest + Len(both) = first[M - i]
    BY <1>8, <2>4, <2>5, <2>6, <2>7
  <2>10. Right(i + 1)
    BY <2>1, <2>3, <2>7, <2>8, <2>9 DEF both, oldest
  <2>11. QED BY <2>0, <2>10
<1> HIDE DEF T
<1>11. Nat \subseteq T
  BY <1>9, <1>10, NatSetInduction
<1>12. Right(M + 1)
  BY <1>0, <1>11 DEF T
<1>13. M + 1 - (M + 1) = 0
  BY <1>0
<1>14. Logger!Kept = f[M + 1]
  BY <1>3, <1>6
<1>15. Len(Logger!Kept) \in Nat
  BY <1>12, <1>14, LenProperties
<1>16. QED BY <1>1, <1>8, <1>12, <1>13, <1>14, <1>15

\* When the oldest file is in use and no rotation is under way, all of them are.
LEMMA AllInUse ==
  ASSUME LoggerInv, log[MaxFiles] # <<>>,
         \A i \in 1..(MaxFiles - 1) : log[i + 1] # <<>> => log[i] # <<>>
  PROVE  \A i \in 1..MaxFiles : log[i] # <<>>
<1> DEFINE T == {n \in Nat : n < MaxFiles => log[MaxFiles - n] # <<>>}
<1>0. MaxFiles \in Nat /\ MaxFiles >= 1
  BY MaxFilesAssumption
<1>1. 0 \in T
  BY <1>0
<1>2. ASSUME NEW n \in Nat, n \in T PROVE n + 1 \in T
  <2> SUFFICES ASSUME n + 1 < MaxFiles PROVE log[MaxFiles - (n + 1)] # <<>>
    OBVIOUS
  <2>1. MaxFiles - (n + 1) \in 1..(MaxFiles - 1) /\ (MaxFiles - (n + 1)) + 1 = MaxFiles - n
        /\ n < MaxFiles
    BY <1>0
  <2>2. log[MaxFiles - n] # <<>>
    BY <1>2, <2>1
  <2>3. QED BY <2>1, <2>2
<1> HIDE DEF T
<1>3. Nat \subseteq T
  BY <1>1, <1>2, NatSetInduction
<1>4. ASSUME NEW i \in 1..MaxFiles PROVE log[i] # <<>>
  <2>1. MaxFiles - i \in Nat /\ MaxFiles - i < MaxFiles /\ MaxFiles - (MaxFiles - i) = i
    BY <1>0
  <2>2. MaxFiles - i \in T
    BY <1>3, <2>1
  <2>3. QED BY <2>1, <2>2 DEF T
<1>5. QED BY <1>4

LEMMA LoggerRecent == LoggerInv => Logger!LogIsRecent
<1> SUFFICES ASSUME LoggerInv PROVE Logger!LogIsRecent
  OBVIOUS
<1>1. PICK first : Numbered(first) /\ (~failed => Gapless(first))
  BY DEF LoggerInv
<1> DEFINE oldest == first[MaxFiles + 1]
<1>2. oldest \in Nat /\ oldest >= 1 /\ appended \in Nat
  <2>1. MaxFiles + 1 \in 0..(MaxFiles + 1)
    BY MaxFilesAssumption
  <2>2. QED BY <1>1, <2>1 DEF Numbered, LoggerInv
<1>3. /\ Logger!Kept \in Seq(LogRecords) /\ Len(Logger!Kept) + oldest = appended + 1
      /\ \A k \in 1..Len(Logger!Kept) : Logger!Kept[k].number = oldest + k - 1
  BY <1>1, KeptNumbered
<1> HIDE DEF oldest
<1>4. DOMAIN Logger!Kept = 1..Len(Logger!Kept) /\ Len(Logger!Kept) \in Nat
  BY <1>3, LenProperties
<1>5. ASSUME NEW i \in DOMAIN Logger!Kept PROVE Logger!Kept[i].number = appended - Len(Logger!Kept) + i
  <2>1. i \in 1..Len(Logger!Kept)
    BY <1>4
  <2>2. oldest + i - 1 = appended - Len(Logger!Kept) + i
    <3>1. PICK n : n = Len(Logger!Kept)
      OBVIOUS
    <3>2. n \in Nat /\ n + oldest = appended + 1 /\ i \in Nat
      BY <1>3, <1>4, <2>1, <3>1
    <3>3. oldest + i - 1 = appended - n + i
      BY <1>2, <3>2
    <3>4. QED BY <3>1, <3>3
  <2>3. QED BY <1>3, <2>1, <2>2
<1>6. ASSUME ~failed, writing.stage = "idle", Len(Logger!Kept) < appended
      PROVE  \A i \in 1..MaxFiles : log[i] # <<>>
  <2>1. oldest > 1
    BY <1>2, <1>3, <1>4, <1>6
  <2>2. log[MaxFiles] # <<>> /\ \A i \in 1..(MaxFiles - 1) : log[i + 1] # <<>> => log[i] # <<>>
    BY <1>1, <1>6, <2>1 DEF Gapless, oldest
  <2>3. QED BY <2>2, AllInUse
<1>7. QED BY <1>5, <1>6 DEF Logger!LogIsRecent

\* From the oldest file on, the files hold the newest records without a gap, also after a
\* rotation that was cut off; and a record goes only when every rotated file is in use.
THEOREM LogSafe == Logger!Spec => []LogIsRecent
<1>1. LoggerInv => LogIsRecent
  BY LoggerRecent DEF LogIsRecent
<1>2. QED BY <1>1, LoggerInit, LoggerStep, PTL DEF Logger!Spec

-----------------------------------------------------------------------------
(***************************************************************************)
(* The output journals.  What a journal holds and all output of its stream *)
(* are compared as characters and as the views that clients have from the  *)
(* versions they have seen.  Trimming removes whole entries and then the   *)
(* fewest characters of the next that hold the bytes in excess: before the *)
(* version of that entry every view loses something, and from it on none.  *)
(***************************************************************************)
Chars == [at : Nat, width : Widths]
Entries == [version : Nat, data : Seq(Chars)]

\* The sums of the widths of the first n characters.
Sums(f, data) == f[0] = 0 /\ \A n \in 1..Len(data) : f[n] = f[n - 1] + data[n].width

LEMMA BytesSums ==
  ASSUME NEW data \in Seq(Chars)
  PROVE  \E f : Sums(f, data) /\ Journals!Bytes(data) = f[Len(data)]
<1> DEFINE N == Len(data)
           Sum(f, m) == [n \in 0..m |-> IF n = 0 THEN 0 ELSE f[n - 1] + data[n].width]
           T == {n \in Nat : \E f : f = Sum(f, n)}
<1>0. N \in Nat
  BY LenProperties
<1>1. 0 \in T
  <2> DEFINE g == [i \in 0..0 |-> 0]
  <2>1. \A i \in 0..0 : i = 0
    OBVIOUS
  <2>2. g = Sum(g, 0)
    BY <2>1
  <2>3. QED BY <2>2
<1>2. ASSUME NEW n \in Nat, n \in T PROVE n + 1 \in T
  <2>1. PICK g : g = Sum(g, n)
    BY <1>2
  <2> DEFINE h == [i \in 0..(n + 1) |-> IF i = n + 1 THEN g[n] + data[n + 1].width ELSE g[i]]
  <2>2. ASSUME NEW i \in 0..(n + 1)
        PROVE  h[i] = IF i = 0 THEN 0 ELSE h[i - 1] + data[i].width
    <3>1. CASE i = 0
      <4>1. 0 # n + 1 /\ 0 \in 0..n
        BY <3>1
      <4>2. h[i] = g[0] /\ g[0] = 0
        BY <2>1, <3>1, <4>1
      <4>3. QED BY <3>1, <4>2
    <3>2. CASE i # 0 /\ i # n + 1
      <4>1. i \in 0..n /\ i - 1 \in 0..(n + 1) /\ i - 1 # n + 1
        BY <3>2
      <4>2. h[i] = g[i] /\ h[i - 1] = g[i - 1]
        BY <3>2, <4>1
      <4>3. g[i] = g[i - 1] + data[i].width
        BY <2>1, <3>2, <4>1
      <4>4. QED BY <3>2, <4>2, <4>3
    <3>3. CASE i = n + 1
      <4>0. i - 1 = n /\ n \in 0..(n + 1) /\ n # n + 1 /\ i # 0
        BY <3>3
      <4>1. h[i] = g[n] + data[i].width /\ h[n] = g[n]
        BY <3>3, <4>0
      <4>2. QED BY <4>0, <4>1
    <3>4. QED BY <3>1, <3>2, <3>3
  <2>3. h = Sum(h, n + 1)
    BY <2>2
  <2> HIDE DEF h, Sum
  <2>4. n + 1 \in Nat /\ \E f : f = Sum(f, n + 1)
    BY <2>3
  <2>5. QED BY <2>4
<1>3. \A n \in Nat : n \in T
  <2> HIDE DEF T
  <2>1. QED BY <1>1, <1>2, NatSetInduction
<1>4. PICK g : g = Sum(g, N)
  BY <1>0, <1>3
<1> DEFINE sum == CHOOSE f : f = Sum(f, N)
<1>5. sum = Sum(sum, N)
  BY <1>4
<1>6. Journals!Bytes(data) = sum[N]
  BY DEF Journals!Bytes
<1> HIDE DEF sum
<1>7. Sums(sum, data)
  <2>1. 0 \in 0..N /\ \A i \in 1..N : i \in 0..N /\ i # 0
    BY <1>0
  <2>2. QED BY <1>5, <2>1 DEF Sums
<1>8. QED BY <1>6, <1>7

LEMMA SumsAgree ==
  ASSUME NEW a \in Seq(Chars), NEW b \in Seq(Chars), NEW f, NEW g, Sums(f, a), Sums(g, b),
         NEW m \in Nat, m <= Len(a), m <= Len(b), \A n \in 1..m : a[n] = b[n]
  PROVE  f[m] = g[m]
<1> DEFINE T == {n \in Nat : n <= m => f[n] = g[n]}
<1>0. Len(a) \in Nat /\ Len(b) \in Nat
  BY LenProperties
<1>1. 0 \in T
  BY DEF Sums
<1>2. ASSUME NEW n \in Nat, n \in T PROVE n + 1 \in T
  <2> SUFFICES ASSUME n + 1 <= m PROVE f[n + 1] = g[n + 1]
    OBVIOUS
  <2>1. /\ n + 1 \in 1..Len(a) /\ n + 1 \in 1..Len(b) /\ n + 1 \in 1..m /\ (n + 1) - 1 = n /\ n <= m
    BY <1>0
  <2>2. f[n] = g[n] /\ a[n + 1] = b[n + 1]
    BY <1>2, <2>1
  <2>3. f[n + 1] = f[n] + a[n + 1].width /\ g[n + 1] = g[n] + b[n + 1].width
    BY <2>1 DEF Sums
  <2>4. QED BY <2>2, <2>3
<1> HIDE DEF T
<1>3. Nat \subseteq T
  BY <1>1, <1>2, NatSetInduction
<1>4. QED BY <1>3 DEF T

LEMMA BytesEmpty == Journals!Bytes(<<>>) = 0
<1>1. <<>> \in Seq(Chars) /\ Len(<<>>) = 0
  BY EmptySeq
<1>2. PICK f : Sums(f, <<>>) /\ Journals!Bytes(<<>>) = f[0]
  BY <1>1, BytesSums
<1>3. QED BY <1>2 DEF Sums

LEMMA BytesAppend ==
  ASSUME NEW data \in Seq(Chars), NEW char \in Chars
  PROVE  Journals!Bytes(Append(data, char)) = Journals!Bytes(data) + char.width
<1> DEFINE more == Append(data, char)
<1>0. /\ Len(data) \in Nat /\ more \in Seq(Chars) /\ Len(more) = Len(data) + 1
      /\ more[Len(data) + 1] = char /\ \A i \in 1..Len(data) : more[i] = data[i]
  BY LenProperties, AppendProperties
<1> HIDE DEF more
<1>1. PICK f : Sums(f, more) /\ Journals!Bytes(more) = f[Len(more)]
  BY <1>0, BytesSums
<1>2. PICK g : Sums(g, data) /\ Journals!Bytes(data) = g[Len(data)]
  BY BytesSums
<1>3. Len(data) <= Len(more) /\ Len(data) <= Len(data) /\ Len(more) \in 1..Len(more)
      /\ Len(more) - 1 = Len(data)
  BY <1>0
<1>4. f[Len(data)] = g[Len(data)]
  BY <1>0, <1>1, <1>2, <1>3, SumsAgree
<1>5. f[Len(more)] = f[Len(data)] + more[Len(more)].width
  BY <1>1, <1>3 DEF Sums
<1>6. Journals!Bytes(more) = Journals!Bytes(data) + char.width
  BY <1>0, <1>1, <1>2, <1>4, <1>5
<1>7. QED BY <1>6 DEF more

\* Every character has at least one byte.
LEMMA BytesTyped ==
  ASSUME NEW data \in Seq(Chars)
  PROVE  Journals!Bytes(data) \in Nat /\ (data # <<>> => Journals!Bytes(data) > 0)
<1> DEFINE T == {s \in Seq(Chars) : Journals!Bytes(s) \in Nat /\ (s # <<>> => Journals!Bytes(s) > 0)}
<1>1. <<>> \in T
  BY BytesEmpty, EmptySeq
<1>2. ASSUME NEW s \in Seq(Chars), NEW x \in Chars, s \in T PROVE Append(s, x) \in T
  <2>1. Journals!Bytes(Append(s, x)) = Journals!Bytes(s) + x.width
    BY BytesAppend
  <2>2. x.width \in Nat \ {0} /\ Journals!Bytes(s) \in Nat
    BY <1>2, WidthsAssumption DEF Chars
  <2>3. Append(s, x) \in Seq(Chars)
    BY AppendProperties
  <2>4. QED BY <2>1, <2>2, <2>3
<1> HIDE DEF T
<1>3. Seq(Chars) \subseteq T
  BY <1>1, <1>2, SeqSetInduction
<1>4. QED BY <1>3 DEF T

LEMMA BytesConcat ==
  ASSUME NEW a \in Seq(Chars), NEW b \in Seq(Chars)
  PROVE  Journals!Bytes(a \o b) = Journals!Bytes(a) + Journals!Bytes(b)
<1> DEFINE T == {s \in Seq(Chars) : Journals!Bytes(a \o s) = Journals!Bytes(a) + Journals!Bytes(s)}
<1>0. Journals!Bytes(a) \in Nat
  BY BytesTyped
<1>1. <<>> \in T
  <2>1. a \o <<>> = a /\ <<>> \in Seq(Chars)
    BY ConcatEmptySeq, EmptySeq
  <2>2. QED BY <1>0, <2>1, BytesEmpty
<1>2. ASSUME NEW s \in Seq(Chars), NEW x \in Chars, s \in T PROVE Append(s, x) \in T
  <2>1. a \o Append(s, x) = Append(a \o s, x)
    BY AppendProperties, ConcatProperties, AppendIsConcat, ConcatAssociative
  <2>2. a \o s \in Seq(Chars) /\ Append(s, x) \in Seq(Chars)
    BY ConcatProperties, AppendProperties
  <2>3. Journals!Bytes(Append(a \o s, x)) = Journals!Bytes(a \o s) + x.width
        /\ Journals!Bytes(Append(s, x)) = Journals!Bytes(s) + x.width
    BY <2>2, BytesAppend
  <2>4. Journals!Bytes(s) \in Nat /\ x.width \in Nat
        /\ Journals!Bytes(a \o s) = Journals!Bytes(a) + Journals!Bytes(s)
    BY <1>2, BytesTyped, WidthsAssumption DEF Chars
  <2>5. Journals!Bytes(a \o Append(s, x)) = Journals!Bytes(a) + Journals!Bytes(Append(s, x))
    BY <1>0, <2>1, <2>3, <2>4
  <2>6. QED BY <2>2, <2>5
<1> HIDE DEF T
<1>3. Seq(Chars) \subseteq T
  BY <1>1, <1>2, SeqSetInduction
<1>4. QED BY <1>3 DEF T

\* Data and Newer of entries joined.
LEMMA DataEmpty == Journals!Data(<<>>) = <<>>
<1>1. [i \in DOMAIN <<>> |-> <<>>[i].data] = <<>>
  <2>1. DOMAIN <<>> = {}
    BY EmptySeq
  <2>2. QED BY <2>1
<1>2. QED BY <1>1, FlattenEmpty DEF Journals!Data, Journals!FlattenSeq, FlattenSeq

\* The data of each of a sequence of entries.
Pieces(entries) == [i \in DOMAIN entries |-> entries[i].data]

LEMMA PiecesTyped ==
  ASSUME NEW entries \in Seq(Entries)
  PROVE  Pieces(entries) \in Seq(Seq(Chars)) /\ Len(Pieces(entries)) = Len(entries)
<1>1. Len(entries) \in Nat /\ DOMAIN entries = 1..Len(entries)
  BY LenProperties
<1>2. \A i \in 1..Len(entries) : entries[i] \in Entries
  BY ElementOfSeq
<1>3. Pieces(entries) \in [1..Len(entries) -> Seq(Chars)]
  BY <1>1, <1>2 DEF Pieces, Entries
<1>4. Pieces(entries) \in Seq(Seq(Chars))
  BY <1>1, <1>3, SeqDef
<1>5. QED BY <1>1, <1>3, <1>4, LenProperties

LEMMA DataAppend ==
  ASSUME NEW entries \in Seq(Entries), NEW e \in Entries
  PROVE  Journals!Data(Append(entries, e)) = Journals!Data(entries) \o e.data
<1>1. Pieces(Append(entries, e)) = Append(Pieces(entries), e.data)
  <2> DEFINE more == Append(entries, e)
             p == Pieces(entries)
             q == Append(p, e.data)
  <2>0. e.data \in Seq(Chars)
    BY DEF Entries
  <2>1. /\ more \in Seq(Entries) /\ Len(more) = Len(entries) + 1 /\ Len(entries) \in Nat
        /\ more[Len(entries) + 1] = e /\ \A i \in 1..Len(entries) : more[i] = entries[i]
    BY LenProperties, AppendProperties
  <2>2. p \in Seq(Seq(Chars)) /\ Len(p) = Len(entries) /\ \A i \in 1..Len(entries) : p[i]
             = entries[i].data
    BY PiecesTyped, LenProperties DEF Pieces
  <2> HIDE DEF p, more
  <2>3. /\ q \in Seq(Seq(Chars)) /\ Len(q) = Len(p) + 1 /\ q[Len(p) + 1] = e.data
        /\ \A i \in 1..Len(p) : q[i] = p[i]
    BY <2>0, <2>2, AppendProperties
  <2> HIDE DEF q
  <2>4. Pieces(more) \in Seq(Seq(Chars)) /\ Len(Pieces(more)) = Len(more)
    BY <2>1, PiecesTyped
  <2>5. DOMAIN more = 1..Len(more)
    BY <2>1, LenProperties
  <2>6. ASSUME NEW i \in 1..Len(more) PROVE Pieces(more)[i] = q[i]
    <3>1. Pieces(more)[i] = more[i].data
      BY <2>5 DEF Pieces
    <3>2. CASE i = Len(entries) + 1
      BY <2>1, <2>2, <2>3, <3>1, <3>2
    <3>3. CASE i # Len(entries) + 1
      <4>1. i \in 1..Len(entries)
        BY <2>1, <3>3
      <4>2. QED BY <2>1, <2>2, <2>3, <3>1, <4>1
    <3>4. QED BY <3>2, <3>3
  <2>7. Len(q) = Len(more)
    BY <2>1, <2>2, <2>3
  <2>8. Pieces(more) = q
    BY <2>3, <2>4, <2>6, <2>7, SeqEqual
  <2>9. QED BY <2>8 DEF more, q, p
<1>2. Pieces(entries) \in Seq(Seq(Chars)) /\ e.data \in Seq(Chars)
  BY PiecesTyped DEF Entries
<1>3. FlattenSeq(Append(Pieces(entries), e.data)) = FlattenSeq(Pieces(entries)) \o e.data
  BY <1>2, FlattenAppend
<1>4. Journals!Data(Append(entries, e)) = FlattenSeq(Pieces(Append(entries, e)))
      /\ Journals!Data(entries) = FlattenSeq(Pieces(entries))
  BY DEF Journals!Data, Pieces, Journals!FlattenSeq, FlattenSeq
<1>5. QED BY <1>1, <1>3, <1>4

LEMMA DataTyped ==
  ASSUME NEW entries \in Seq(Entries)
  PROVE  Journals!Data(entries) \in Seq(Chars)
<1>1. Journals!Data(entries) = FlattenSeq(Pieces(entries))
  BY DEF Journals!Data, Pieces, Journals!FlattenSeq, FlattenSeq
<1>2. QED BY <1>1, PiecesTyped, FlattenTyped

\* What remains of each of a sequence of entries when the older ones are left out.
Picked(entries, after) ==
    [i \in DOMAIN entries |-> IF entries[i].version > after THEN <<entries[i]>> ELSE <<>>]

LEMMA PickedTyped ==
  ASSUME NEW entries \in Seq(Entries), NEW after
  PROVE  Picked(entries, after) \in Seq(Seq(Entries)) /\ Len(Picked(entries, after)) = Len(entries)
<1>1. Len(entries) \in Nat /\ DOMAIN entries = 1..Len(entries)
  BY LenProperties
<1>2. \A i \in 1..Len(entries) : entries[i] \in Entries
  BY ElementOfSeq
<1>3. \A x \in Entries : <<x>> \in Seq(Entries)
  OBVIOUS
<1>4. <<>> \in Seq(Entries)
  BY EmptySeq
<1>5. Picked(entries, after) \in [1..Len(entries) -> Seq(Entries)]
  BY <1>1, <1>2, <1>3, <1>4 DEF Picked
<1>6. Picked(entries, after) \in Seq(Seq(Entries))
  BY <1>1, <1>5, SeqDef
<1>7. QED BY <1>1, <1>5, <1>6, LenProperties

LEMMA NewerAppend ==
  ASSUME NEW entries \in Seq(Entries), NEW e \in Entries, NEW after
  PROVE  /\ e.version > after
              => Journals!Newer(Append(entries, e), after) = Append(Journals!Newer(entries, after), e)
         /\ ~(e.version > after)
              => Journals!Newer(Append(entries, e), after) = Journals!Newer(entries, after)
<1> DEFINE x == IF e.version > after THEN <<e>> ELSE <<>>
<1>0. x \in Seq(Entries)
  <2>1. <<e>> \in Seq(Entries) /\ <<>> \in Seq(Entries)
    BY EmptySeq
  <2>2. QED BY <2>1
<1>1. Picked(Append(entries, e), after) = Append(Picked(entries, after), x)
  <2> DEFINE more == Append(entries, e)
             p == Picked(entries, after)
             q == Append(p, x)
  <2>1. /\ more \in Seq(Entries) /\ Len(more) = Len(entries) + 1 /\ Len(entries) \in Nat
        /\ more[Len(entries) + 1] = e /\ \A i \in 1..Len(entries) : more[i] = entries[i]
    BY LenProperties, AppendProperties
  <2>2. /\ p \in Seq(Seq(Entries)) /\ Len(p) = Len(entries)
        /\ \A i \in 1..Len(entries) : p[i] = IF entries[i].version > after THEN <<entries[i]>> ELSE <<>>
    BY PickedTyped, LenProperties DEF Picked
  <2>2a. x = IF e.version > after THEN <<e>> ELSE <<>>
    OBVIOUS
  <2> HIDE DEF p, more, x
  <2>3. /\ q \in Seq(Seq(Entries)) /\ Len(q) = Len(p) + 1 /\ q[Len(p) + 1] = x
        /\ \A i \in 1..Len(p) : q[i] = p[i]
    BY <1>0, <2>2, AppendProperties
  <2> HIDE DEF q
  <2>4. Picked(more, after) \in Seq(Seq(Entries)) /\ Len(Picked(more, after)) = Len(more)
    BY <2>1, PickedTyped
  <2>5. DOMAIN more = 1..Len(more)
    BY <2>1, LenProperties
  <2>6. ASSUME NEW i \in 1..Len(more) PROVE Picked(more, after)[i] = q[i]
    <3>1. Picked(more, after)[i] = IF more[i].version > after THEN <<more[i]>> ELSE <<>>
      BY <2>5 DEF Picked
    <3>2. CASE i = Len(entries) + 1
      BY <2>1, <2>2, <2>2a, <2>3, <3>1, <3>2
    <3>3. CASE i # Len(entries) + 1
      <4>1. i \in 1..Len(entries)
        BY <2>1, <3>3
      <4>2. QED BY <2>1, <2>2, <2>3, <3>1, <4>1
    <3>4. QED BY <3>2, <3>3
  <2>7. Len(q) = Len(more)
    BY <2>1, <2>2, <2>3
  <2>8. Picked(more, after) = q
    BY <2>3, <2>4, <2>6, <2>7, SeqEqual
  <2>9. QED BY <2>8 DEF more, q, p
<1>2. Picked(entries, after) \in Seq(Seq(Entries))
  BY PickedTyped
<1>3. FlattenSeq(Append(Picked(entries, after), x)) = FlattenSeq(Picked(entries, after)) \o x
  <2> HIDE DEF x
  <2>1. QED BY <1>0, <1>2, FlattenAppend
<1>4. /\ Journals!Newer(Append(entries, e), after) = FlattenSeq(Picked(Append(entries, e), after))
      /\ Journals!Newer(entries, after) = FlattenSeq(Picked(entries, after))
  BY DEF Journals!Newer, Picked, Journals!FlattenSeq, FlattenSeq
<1>5. Journals!Newer(Append(entries, e), after) = Journals!Newer(entries, after) \o x
      /\ Journals!Newer(entries, after) \in Seq(Entries)
  BY <1>1, <1>2, <1>3, <1>4, FlattenTyped
<1>6. QED BY <1>5, AppendIsConcat, ConcatEmptySeq

LEMMA NewerEmpty == ASSUME NEW after PROVE Journals!Newer(<<>>, after) = <<>>
<1>1. [i \in DOMAIN <<>> |-> IF <<>>[i].version > after THEN <<<<>>[i]>> ELSE <<>>] = <<>>
  <2>1. DOMAIN <<>> = {}
    BY EmptySeq
  <2>2. QED BY <2>1
<1>2. QED BY <1>1, FlattenEmpty DEF Journals!Newer, Journals!FlattenSeq, FlattenSeq

LEMMA NewerTyped ==
  ASSUME NEW entries \in Seq(Entries), NEW after
  PROVE  Journals!Newer(entries, after) \in Seq(Entries)
<1>1. Journals!Newer(entries, after) = FlattenSeq(Picked(entries, after))
  BY DEF Journals!Newer, Picked, Journals!FlattenSeq, FlattenSeq
<1>2. QED BY <1>1, PickedTyped, FlattenTyped

\* What an observation reads of entries.
View(entries, after) == Journals!Data(Journals!Newer(entries, after))

LEMMA ViewEmpty == ASSUME NEW after PROVE View(<<>>, after) = <<>>
BY NewerEmpty, DataEmpty DEF View

LEMMA ViewTyped ==
  ASSUME NEW entries \in Seq(Entries), NEW after
  PROVE  View(entries, after) \in Seq(Chars)
BY NewerTyped, DataTyped DEF View

LEMMA ViewAppend ==
  ASSUME NEW entries \in Seq(Entries), NEW e \in Entries, NEW after
  PROVE  /\ e.version > after => View(Append(entries, e), after) = View(entries, after) \o e.data
         /\ ~(e.version > after) => View(Append(entries, e), after) = View(entries, after)
<1>1. Journals!Newer(entries, after) \in Seq(Entries)
  BY NewerTyped
<1>2. Journals!Data(Append(Journals!Newer(entries, after), e))
           = Journals!Data(Journals!Newer(entries, after)) \o e.data
  BY <1>1, DataAppend
<1>3. QED BY <1>2, NewerAppend DEF View

LEMMA DataConcat ==
  ASSUME NEW a \in Seq(Entries), NEW b \in Seq(Entries)
  PROVE  Journals!Data(a \o b) = Journals!Data(a) \o Journals!Data(b)
<1> DEFINE T == {s \in Seq(Entries) : Journals!Data(a \o s) = Journals!Data(a) \o Journals!Data(s)}
<1>1. <<>> \in T
  <2>1. a \o <<>> = a /\ <<>> \in Seq(Entries) /\ Journals!Data(a) \in Seq(Chars)
    BY ConcatEmptySeq, EmptySeq, DataTyped
  <2>2. Journals!Data(a) \o <<>> = Journals!Data(a)
    BY <2>1, ConcatEmptySeq
  <2>3. QED BY <2>1, <2>2, DataEmpty
<1>2. ASSUME NEW s \in Seq(Entries), NEW x \in Entries, s \in T PROVE Append(s, x) \in T
  <2>1. a \o Append(s, x) = Append(a \o s, x)
    BY AppendProperties, ConcatProperties, AppendIsConcat, ConcatAssociative
  <2>2. a \o s \in Seq(Entries) /\ Append(s, x) \in Seq(Entries)
    BY ConcatProperties, AppendProperties
  <2>3. Journals!Data(Append(a \o s, x)) = Journals!Data(a \o s) \o x.data
        /\ Journals!Data(Append(s, x)) = Journals!Data(s) \o x.data
    BY <2>2, DataAppend
  <2>4. Journals!Data(a \o s) = Journals!Data(a) \o Journals!Data(s)
    BY <1>2
  <2>5. Journals!Data(a) \in Seq(Chars) /\ Journals!Data(s) \in Seq(Chars) /\ x.data \in Seq(Chars)
    BY DataTyped DEF Entries
  <2> DEFINE u == Journals!Data(a)
             v == Journals!Data(s)
             w == x.data
  <2>6. (u \o v) \o w = u \o (v \o w)
    <3>1. u \in Seq(Chars) /\ v \in Seq(Chars) /\ w \in Seq(Chars)
      BY <2>5
    <3> HIDE DEF u, v, w
    <3>2. QED BY <3>1, ConcatAssociative
  <2>7. Journals!Data(a \o Append(s, x)) = Journals!Data(a) \o Journals!Data(Append(s, x))
    BY <2>1, <2>3, <2>4, <2>6
  <2>8. QED BY <2>2, <2>7
<1> HIDE DEF T
<1>3. Seq(Entries) \subseteq T
  BY <1>1, <1>2, SeqSetInduction
<1>4. QED BY <1>3 DEF T

LEMMA ViewConcat ==
  ASSUME NEW a \in Seq(Entries), NEW b \in Seq(Entries), NEW after
  PROVE  View(a \o b, after) = View(a, after) \o View(b, after)
<1> DEFINE T == {s \in Seq(Entries) : View(a \o s, after) = View(a, after) \o View(s, after)}
<1>1. <<>> \in T
  <2>1. a \o <<>> = a /\ <<>> \in Seq(Entries) /\ View(a, after) \in Seq(Chars)
    BY ConcatEmptySeq, EmptySeq, ViewTyped
  <2>2. View(a, after) \o <<>> = View(a, after)
    BY <2>1, ConcatEmptySeq
  <2>3. QED BY <2>1, <2>2, ViewEmpty
<1>2. ASSUME NEW s \in Seq(Entries), NEW x \in Entries, s \in T PROVE Append(s, x) \in T
  <2>1. a \o Append(s, x) = Append(a \o s, x)
    BY AppendProperties, ConcatProperties, AppendIsConcat, ConcatAssociative
  <2>2. a \o s \in Seq(Entries) /\ Append(s, x) \in Seq(Entries)
    BY ConcatProperties, AppendProperties
  <2>3. View(a \o s, after) = View(a, after) \o View(s, after)
    BY <1>2
  <2>4. View(a, after) \in Seq(Chars) /\ View(s, after) \in Seq(Chars) /\ x.data \in Seq(Chars)
    BY ViewTyped DEF Entries
  <2> DEFINE u == View(a, after)
             v == View(s, after)
             w == x.data
  <2>5. (u \o v) \o w = u \o (v \o w)
    <3>1. u \in Seq(Chars) /\ v \in Seq(Chars) /\ w \in Seq(Chars)
      BY <2>4
    <3> HIDE DEF u, v, w
    <3>2. QED BY <3>1, ConcatAssociative
  <2>6. View(Append(a \o s, x), after) = View(a, after) \o View(Append(s, x), after)
    <3>1. CASE x.version > after
      <4>1. View(Append(a \o s, x), after) = View(a \o s, after) \o x.data
        BY <2>2, <3>1, ViewAppend
      <4>2. View(Append(s, x), after) = View(s, after) \o x.data
        BY <3>1, ViewAppend
      <4>3. QED BY <2>3, <2>5, <4>1, <4>2
    <3>2. CASE ~(x.version > after)
      BY <2>2, <2>3, <3>2, ViewAppend
    <3>3. QED BY <3>1, <3>2
  <2>7. QED BY <2>1, <2>2, <2>6
<1> HIDE DEF T
<1>3. Seq(Entries) \subseteq T
  BY <1>1, <1>2, SeqSetInduction
<1>4. QED BY <1>3 DEF T

\* Nothing is newer when every entry has been seen.
LEMMA ViewNone ==
  ASSUME NEW entries \in Seq(Entries), NEW after \in Int,
         \A i \in 1..Len(entries) : entries[i].version <= after
  PROVE  View(entries, after) = <<>>
<1> DEFINE Old(s) == \A i \in 1..Len(s) : s[i].version <= after
           T == {s \in Seq(Entries) : Old(s) => View(s, after) = <<>>}
<1>1. <<>> \in T
  BY EmptySeq, ViewEmpty
<1>2. ASSUME NEW s \in Seq(Entries), NEW x \in Entries, s \in T PROVE Append(s, x) \in T
  <2>1. /\ Len(s) \in Nat /\ Append(s, x) \in Seq(Entries) /\ Len(Append(s, x)) = Len(s) + 1
        /\ Append(s, x)[Len(s) + 1] = x /\ \A i \in 1..Len(s) : Append(s, x)[i] = s[i]
    BY LenProperties, AppendProperties
  <2>2. ASSUME Old(Append(s, x)) PROVE View(Append(s, x), after) = <<>>
    <3>1. Old(s)
      BY <2>1, <2>2
    <3>2. ~(x.version > after)
      <4>1. Len(s) + 1 \in 1..Len(Append(s, x))
        BY <2>1
      <4>2. x.version <= after /\ x.version \in Nat
        BY <2>1, <2>2, <4>1 DEF Entries
      <4>3. QED BY <4>2
    <3>3. View(s, after) = <<>>
      BY <1>2, <3>1
    <3>4. QED BY <3>2, <3>3, ViewAppend
  <2>3. QED BY <2>1, <2>2
<1> HIDE DEF T
<1>3. Seq(Entries) \subseteq T
  BY <1>1, <1>2, SeqSetInduction
<1>4. QED BY <1>3 DEF T

\* The characters that go are the fewest from the left that hold the excess bytes.
LEMMA StartTrimmed ==
  ASSUME NEW data \in Seq(Chars), NEW excess \in Nat, excess > 0, excess <= Journals!Bytes(data)
  PROVE  \E cut \in Seq(Chars), char \in Chars, kept \in Seq(Chars) :
            /\ data = Append(cut, char) \o kept /\ Journals!TrimUtf8Start(data, excess) = kept
            /\ Journals!Bytes(cut) < excess /\ excess <= Journals!Bytes(Append(cut, char))
<1> DEFINE I == {n \in 0..Len(data) : Journals!Bytes(SubSeq(data, 1, n)) >= excess}
           least == CHOOSE n \in I : \A m \in I : n <= m
<1>0. Len(data) \in Nat
  BY LenProperties
<1>1. Len(data) \in I
  <2>1. SubSeq(data, 1, Len(data)) = data /\ Journals!Bytes(data) \in Nat
    BY Whole, BytesTyped
  <2>2. Journals!Bytes(SubSeq(data, 1, Len(data))) >= excess
    BY <2>1
  <2>3. Len(data) \in 0..Len(data)
    BY <1>0
  <2>4. QED BY <2>2, <2>3
<1>2. 0 \notin I
  <2>1. SubSeq(data, 1, 0) = <<>>
    BY Whole
  <2>2. Journals!Bytes(SubSeq(data, 1, 0)) = 0
    BY <2>1, BytesEmpty
  <2>2a. ~(0 >= excess)
    OBVIOUS
  <2>3. QED BY <2>2, <2>2a
<1>3. I \in SUBSET Nat /\ I # {}
  BY <1>0, <1>1
<1>4. Journals!TrimUtf8Start(data, excess) = SubSeq(data, least + 1, Len(data))
  BY DEF Journals!TrimUtf8Start
<1>5. least \in I /\ \A m \in I : least <= m
  <2> HIDE DEF I
  <2>1. \E n \in I : \A m \in I : n <= m
    BY <1>3, LeastNatural
  <2>2. QED BY <2>1
<1> HIDE DEF least
<1>6. PICK n : n = least
  OBVIOUS
<1>7. /\ n \in 1..Len(data) /\ n - 1 \in 0..Len(data) /\ n - 1 \notin I
      /\ Journals!Bytes(SubSeq(data, 1, n)) >= excess
  BY <1>0, <1>2, <1>5, <1>6
<1> DEFINE cut == SubSeq(data, 1, n - 1)
           kept == SubSeq(data, n + 1, Len(data))
<1>8. /\ cut \in Seq(Chars) /\ data[n] \in Chars /\ kept \in Seq(Chars)
      /\ SubSeq(data, 1, n) = Append(cut, data[n]) /\ data = Append(cut, data[n]) \o kept
  BY <1>7, Parted
<1>9. Journals!Bytes(cut) < excess
  <2>1. ~(Journals!Bytes(cut) >= excess)
    BY <1>7
  <2>2. Journals!Bytes(cut) \in Nat
    BY <1>8, BytesTyped
  <2>3. QED BY <2>1, <2>2
<1>10. excess <= Journals!Bytes(Append(cut, data[n]))
  <2>1. Append(cut, data[n]) \in Seq(Chars)
    BY <1>8, AppendProperties
  <2>2. QED BY <1>7, <1>8, <2>1, BytesTyped
<1>11. Journals!TrimUtf8Start(data, excess) = kept
  BY <1>4, <1>6
<1> HIDE DEF cut, kept
<1>12. QED BY <1>8, <1>9, <1>10, <1>11

JournalRecords == [entries : Seq(Entries), retainedBytes : Nat, truncatedThroughVersion : Int]

\* What trimming makes of a journal that holds too much.
LEMMA Trimmed ==
  ASSUME NEW j \in JournalRecords, j.retainedBytes > MaxBytes,
         j.retainedBytes = Journals!Bytes(Journals!Data(j.entries))
  PROVE  \E gone \in Seq(Entries), x \in Entries, rest \in Seq(Entries),
            cut \in Seq(Chars), char \in Chars, kept \in Seq(Chars) :
            /\ j.entries = Append(gone, x) \o rest /\ x.data = Append(cut, char) \o kept
            /\ Journals!Bytes(Journals!Data(gone)) + Journals!Bytes(cut) < j.retainedBytes - MaxBytes
            /\ Journals!Bytes(Journals!Data(gone)) + Journals!Bytes(Append(cut, char)) >= j.retainedBytes - MaxBytes
            /\ Journals!Trim(j).retainedBytes
                 = Journals!Bytes(kept) + Journals!Bytes(Journals!Data(rest))
            /\ Journals!Trim(j).truncatedThroughVersion = Max({j.truncatedThroughVersion, x.version})
            /\ \/ Journals!Trim(j).entries = rest /\ kept = <<>>
               \/ Journals!Trim(j).entries = <<[x EXCEPT !.data = kept]>> \o rest
            /\ Journals!Trim(j)
                 = [entries |-> Journals!Trim(j).entries, retainedBytes |-> Journals!Trim(j).retainedBytes,
                          truncatedThroughVersion |-> Journals!Trim(j).truncatedThroughVersion]
<1> DEFINE E == j.entries
           excess == j.retainedBytes - MaxBytes
           Through(n) == Journals!Bytes(Journals!Data(SubSeq(E, 1, n)))
           I == {n \in DOMAIN E : Through(n) >= excess}
           last == CHOOSE n \in I : \A m \in I : n <= m
<1>0. /\ E \in Seq(Entries) /\ Len(E) \in Nat /\ DOMAIN E = 1..Len(E)
      /\ excess \in Nat /\ excess > 0 /\ j.retainedBytes \in Nat /\ excess <= j.retainedBytes
      /\ j.truncatedThroughVersion \in Int
  BY LenProperties, JournalAssumption DEF JournalRecords
<1>1. Len(E) \in I
  <2>1. SubSeq(E, 1, Len(E)) = E
    BY <1>0, Whole
  <2>2. Through(Len(E)) >= excess
    BY <1>0, <2>1
  <2>3. Len(E) # 0
    <3>1. CASE Len(E) = 0
      <4>1. E = <<>>
        BY <1>0, <3>1, EmptySeq
      <4>2. Journals!Bytes(Journals!Data(E)) = 0
        BY <4>1, DataEmpty, BytesEmpty
      <4>3. QED BY <1>0, <4>2
    <3>2. QED BY <3>1
  <2>4. QED BY <1>0, <2>2, <2>3
<1>2. I \in SUBSET Nat /\ I # {}
  BY <1>0, <1>1
<1>3. last \in I /\ \A m \in I : last <= m
  <2> HIDE DEF I
  <2>1. \E n \in I : \A m \in I : n <= m
    BY <1>2, LeastNatural
  <2>2. QED BY <2>1
<1>4. PICK n : n = last
  OBVIOUS
<1> DEFINE gone == SubSeq(E, 1, n - 1)
           x == E[n]
           rest == SubSeq(E, n + 1, Len(E))
           kept == Journals!TrimUtf8Start(x.data, excess - Through(n - 1))
<1>5. Journals!Trim(j) = [entries |-> IF Through(n) = excess THEN rest
                             ELSE <<[x EXCEPT !.data = kept]>> \o rest,
                 retainedBytes |-> j.retainedBytes - Through(n) + Journals!Bytes(kept),
                 truncatedThroughVersion |-> Max({j.truncatedThroughVersion, x.version})]
  <2>1. ~(excess <= 0)
    BY <1>0
  <2>2. QED BY <1>4, <2>1 DEF Journals!Trim, Journals!Max, Max
<1> HIDE DEF last
<1>6. n \in 1..Len(E) /\ Through(n) >= excess
  BY <1>0, <1>3, <1>4
<1>7. /\ gone \in Seq(Entries) /\ x \in Entries /\ rest \in Seq(Entries)
      /\ SubSeq(E, 1, n) = Append(gone, x) /\ E = Append(gone, x) \o rest
  BY <1>0, <1>6, Parted
<1>8. Through(n - 1) < excess
  <2>0. Through(n - 1) \in Nat
    BY <1>7, DataTyped, BytesTyped
  <2>1. CASE n = 1
    <3>1. SubSeq(E, 1, n - 1) = <<>>
      BY <1>0, <2>1, Whole
    <3>2. QED BY <1>0, <3>1, DataEmpty, BytesEmpty
  <2>2. CASE n # 1
    <3>1. n - 1 \in 1..Len(E) /\ ~(n <= n - 1)
      BY <1>0, <1>6, <2>2
    <3>2. n - 1 \notin I
      BY <1>3, <1>4, <3>1
    <3>3. ~(Through(n - 1) >= excess)
      BY <1>0, <3>1, <3>2
    <3>4. QED BY <1>0, <2>0, <3>3
  <2>3. QED BY <2>1, <2>2
<1>9. /\ Through(n - 1) = Journals!Bytes(Journals!Data(gone))
      /\ Through(n) = Journals!Bytes(Journals!Data(Append(gone, x)))
  BY <1>7
<1> HIDE DEF gone, x, rest, Through, I
<1>10. /\ x.data \in Seq(Chars) /\ Journals!Data(gone) \in Seq(Chars)
       /\ Journals!Data(rest) \in Seq(Chars)
       /\ Journals!Bytes(x.data) \in Nat /\ Journals!Bytes(Journals!Data(gone)) \in Nat
       /\ Journals!Bytes(Journals!Data(rest)) \in Nat
  BY <1>7, DataTyped, BytesTyped DEF Entries
<1>11. Through(n) = Journals!Bytes(Journals!Data(gone)) + Journals!Bytes(x.data)
  <2>1. Journals!Data(Append(gone, x)) = Journals!Data(gone) \o x.data
    BY <1>7, DataAppend
  <2>2. QED BY <1>9, <1>10, <2>1, BytesConcat
<1>12. j.retainedBytes = Through(n) + Journals!Bytes(Journals!Data(rest))
  <2>1. Append(gone, x) \in Seq(Entries)
    BY <1>7, AppendProperties
  <2>2. Journals!Data(E) = Journals!Data(Append(gone, x)) \o Journals!Data(rest)
        /\ Journals!Data(Append(gone, x)) \in Seq(Chars)
    BY <1>7, <2>1, DataConcat, DataTyped
  <2>3. QED BY <1>9, <1>10, <2>2, BytesConcat
<1> DEFINE more == excess - Through(n - 1)
<1>13. more \in Nat /\ more > 0 /\ more <= Journals!Bytes(x.data)
  BY <1>0, <1>6, <1>8, <1>9, <1>10, <1>11
<1>14. PICK cut \in Seq(Chars), char \in Chars, k \in Seq(Chars) :
          /\ x.data = Append(cut, char) \o k /\ Journals!TrimUtf8Start(x.data, more) = k
          /\ Journals!Bytes(cut) < more /\ more <= Journals!Bytes(Append(cut, char))
  <2> HIDE DEF more
  <2>1. QED BY <1>10, <1>13, StartTrimmed
<1>15. kept = k
  BY <1>14
<1> HIDE DEF kept
<1>16. /\ Append(cut, char) \in Seq(Chars) /\ Journals!Bytes(Append(cut, char)) \in Nat
       /\ Journals!Bytes(cut) \in Nat
       /\ Journals!Bytes(k) \in Nat
       /\ Journals!Bytes(x.data) = Journals!Bytes(Append(cut, char)) + Journals!Bytes(k)
  BY <1>14, AppendProperties, BytesTyped, BytesConcat
<1>17. /\ Journals!Bytes(Journals!Data(gone)) + Journals!Bytes(cut) < excess
       /\ Journals!Bytes(Journals!Data(gone)) + Journals!Bytes(Append(cut, char)) >= excess
  BY <1>0, <1>9, <1>10, <1>14, <1>16
<1>18. Through(n) = excess => k = <<>>
  <2>1. ASSUME Through(n) = excess PROVE Journals!Bytes(k) = 0
    BY <1>0, <1>10, <1>11, <1>16, <1>17, <2>1
  <2>2. QED BY <1>14, <2>1, BytesTyped
<1>19. j.retainedBytes - Through(n) + Journals!Bytes(k)
            = Journals!Bytes(k) + Journals!Bytes(Journals!Data(rest))
  BY <1>0, <1>10, <1>11, <1>12, <1>16
<1>20. /\ Journals!Trim(j).retainedBytes = Journals!Bytes(k) + Journals!Bytes(Journals!Data(rest))
       /\ Journals!Trim(j).truncatedThroughVersion = Max({j.truncatedThroughVersion, x.version})
       /\ \/ Journals!Trim(j).entries = rest /\ k = <<>>
          \/ Journals!Trim(j).entries = <<[x EXCEPT !.data = k]>> \o rest
       /\ Journals!Trim(j)
            = [entries |-> Journals!Trim(j).entries, retainedBytes |-> Journals!Trim(j).retainedBytes,
                     truncatedThroughVersion |-> Journals!Trim(j).truncatedThroughVersion]
  BY <1>5, <1>15, <1>18, <1>19
<1>21. QED BY <1>7, <1>14, <1>17, <1>20

Ordered(entries, v) ==
    /\ \A i, k \in 1..Len(entries) : i < k => entries[i].version < entries[k].version
    /\ \A i \in 1..Len(entries) : entries[i].version <= v

\* The entries hold the end of what has been produced, and no more of it would fit.
Newest(entries, all) ==
    \E lost \in Seq(Chars) :
        /\ all = lost \o Journals!Data(entries)
        /\ \/ lost = <<>>
           \/ \E l \in Seq(Chars), c \in Chars :
                 lost = Append(l, c) /\ c.width + Journals!Bytes(Journals!Data(entries)) > MaxBytes

\* From the version of truncation on, a client misses nothing; before, it misses something.
Exact(j, p) ==
    \A after \in Int :
        /\ after >= j.truncatedThroughVersion => View(j.entries, after) = View(p, after)
        /\ after < j.truncatedThroughVersion /\ after >= -1 =>
               Len(View(j.entries, after)) < Len(View(p, after))

\* A journal, which may still have to be trimmed, and all output of its stream.
Matches(j, p, v) ==
    /\ j \in JournalRecords /\ p \in Seq(Entries) /\ j.truncatedThroughVersion >= -1
    /\ j.retainedBytes = Journals!Bytes(Journals!Data(j.entries))
    /\ Ordered(j.entries, v) /\ \A i \in 1..Len(p) : p[i].version <= v
    /\ Newest(j.entries, Journals!Data(p)) /\ Exact(j, p)

\* Concatenation of characters is associative.
LEMMA CharsAssociative ==
  ASSUME NEW a \in Seq(Chars), NEW b \in Seq(Chars), NEW c \in Seq(Chars)
  PROVE  (a \o b) \o c = a \o (b \o c)
BY ConcatAssociative

\* What trimming leaves, as data and as entries.
LEMMA TrimMatches ==
  ASSUME NEW j, NEW p, NEW v \in Nat, Matches(j, p, v)
  PROVE  Matches(Journals!Trim(j), p, v) /\ Journals!Trim(j).retainedBytes <= MaxBytes
<1>0. /\ j \in JournalRecords /\ p \in Seq(Entries) /\ j.truncatedThroughVersion >= -1
      /\ j.retainedBytes = Journals!Bytes(Journals!Data(j.entries))
      /\ Ordered(j.entries, v) /\ \A i \in 1..Len(p) : p[i].version <= v
      /\ Newest(j.entries, Journals!Data(p)) /\ Exact(j, p)
      /\ j.entries \in Seq(Entries) /\ j.retainedBytes \in Nat /\ j.truncatedThroughVersion \in Int
      /\ MaxBytes \in Nat
  BY JournalAssumption DEF Matches, JournalRecords
<1>1. CASE j.retainedBytes <= MaxBytes
  <2>1. j.retainedBytes - MaxBytes <= 0
    BY <1>0, <1>1
  <2>2. Journals!Trim(j) = j
    BY <2>1 DEF Journals!Trim
  <2>3. QED BY <1>1, <2>2
<1>2. CASE j.retainedBytes > MaxBytes
  <2>1. PICK gone \in Seq(Entries), x \in Entries, rest \in Seq(Entries),
             cut \in Seq(Chars), char \in Chars, kept \in Seq(Chars) :
            /\ j.entries = Append(gone, x) \o rest /\ x.data = Append(cut, char) \o kept
            /\ Journals!Bytes(Journals!Data(gone)) + Journals!Bytes(cut) < j.retainedBytes - MaxBytes
            /\ Journals!Bytes(Journals!Data(gone)) + Journals!Bytes(Append(cut, char)) >= j.retainedBytes - MaxBytes
            /\ Journals!Trim(j).retainedBytes
                 = Journals!Bytes(kept) + Journals!Bytes(Journals!Data(rest))
            /\ Journals!Trim(j).truncatedThroughVersion = Max({j.truncatedThroughVersion, x.version})
            /\ \/ Journals!Trim(j).entries = rest /\ kept = <<>>
               \/ Journals!Trim(j).entries = <<[x EXCEPT !.data = kept]>> \o rest
            /\ Journals!Trim(j)
                 = [entries |-> Journals!Trim(j).entries, retainedBytes |-> Journals!Trim(j).retainedBytes,
                          truncatedThroughVersion |-> Journals!Trim(j).truncatedThroughVersion]
    BY <1>0, <1>2, Trimmed
  <2>2. PICK E, F, old, t, y : /\ E = j.entries /\ F = Journals!Trim(j).entries /\ old = Append(gone, x)
                               /\ t = Journals!Trim(j).truncatedThroughVersion
                               /\ y = [x EXCEPT !.data = kept]
    OBVIOUS
  <2>3. /\ y \in Entries /\ y.version = x.version /\ y.data = kept /\ x.version \in Nat
        /\ x.data \in Seq(Chars)
    BY <2>1, <2>2 DEF Entries
  <2>4. <<y>> \in Seq(Entries) /\ Len(<<y>>) = 1 /\ <<y>>[1] = y /\ <<y>> = Append(<<>>, y)
        /\ <<>> \in Seq(Entries)
    BY <2>3, EmptySeq
  <2>5. old \in Seq(Entries) /\ E = old \o rest /\ Len(old) = Len(gone) + 1 /\ Len(gone) \in Nat
        /\ Len(rest) \in Nat /\ old[Len(gone) + 1] = x /\ \A i \in 1..Len(gone) : old[i] = gone[i]
    BY <2>1, <2>2, AppendProperties, LenProperties
  <2>5a. old \in Seq(Entries) /\ E = old \o rest /\ rest \in Seq(Entries)
    BY <2>5
  <2>6. (F = rest /\ kept = <<>>) \/ F = <<y>> \o rest
    BY <2>1, <2>2
  <2>7. F \in Seq(Entries)
    BY <2>4, <2>6, ConcatProperties
  <2>8. t \in Int /\ t >= -1 /\ t \in {j.truncatedThroughVersion, x.version}
        /\ t >= j.truncatedThroughVersion /\ t >= x.version
    <3>1. t = Max({j.truncatedThroughVersion, x.version})
      BY <2>1, <2>2
    <3>2. x.version \in Int
      BY <2>3
    <3>3. /\ t \in {j.truncatedThroughVersion, x.version}
          /\ t >= j.truncatedThroughVersion /\ t >= x.version
      BY <1>0, <3>1, <3>2, MaxOfTwo
    <3>4. QED BY <1>0, <3>2, <3>3
  \* The data.
  <2> DEFINE R == Journals!Data(rest)
             G == Journals!Data(gone)
             C == Append(cut, char)
             D == Journals!Data(F)
  <2>9. /\ R \in Seq(Chars) /\ G \in Seq(Chars) /\ C \in Seq(Chars) /\ D \in Seq(Chars)
        /\ Journals!Data(E) \in Seq(Chars) /\ Journals!Bytes(R) \in Nat /\ Journals!Bytes(G) \in Nat
        /\ Journals!Bytes(C) \in Nat
        /\ Journals!Bytes(kept) \in Nat /\ Journals!Bytes(cut) \in Nat /\ char.width \in Nat
        /\ Journals!Bytes(C) = Journals!Bytes(cut) + char.width
    BY <1>0, <2>2, <2>7, DataTyped, AppendProperties, BytesTyped, BytesAppend,
         WidthsAssumption DEF Chars
  <2>9a. R = Journals!Data(rest) /\ G = Journals!Data(gone) /\ C = Append(cut, char)
     /\ D = Journals!Data(F)
    OBVIOUS
  <2>10. Journals!Data(<<y>>) = kept
    <3>1. Journals!Data(<<y>>) = <<>> \o y.data
      BY <2>3, <2>4, DataAppend, DataEmpty
    <3>2. QED BY <2>3, <3>1, ConcatEmptySeq
  <2>11. D = kept \o R
    <3>1. CASE F = rest /\ kept = <<>>
      BY <2>9, <3>1, ConcatEmptySeq
    <3>2. CASE F = <<y>> \o rest
      BY <2>4, <2>10, <3>2, DataConcat
    <3>3. QED BY <2>6, <3>1, <3>2
  <2>12. Journals!Data(E) = (G \o x.data) \o R
    <3>1. Journals!Data(old) = G \o x.data
      BY <2>2, DataAppend
    <3>2. QED BY <2>5, <3>1, DataConcat
  <2>13. Journals!Data(E) = (G \o C) \o D
    <3>1. x.data = C \o kept
      BY <2>1
    <3> HIDE DEF G, C, D, R
    <3>a. G \in Seq(Chars) /\ C \in Seq(Chars) /\ R \in Seq(Chars) /\ kept \in Seq(Chars)
      BY <2>9
    <3>2. G \o (C \o kept) = (G \o C) \o kept /\ G \o C \in Seq(Chars)
      <4>1. G \o (C \o kept) = (G \o C) \o kept
        <5>1. \A u, w, z \in Seq(Chars) : (u \o w) \o z = u \o (w \o z)
          BY ConcatAssociative
        <5>2. QED BY <3>a, <5>1, Zenon
      <4>2. G \o C \in Seq(Chars)
        BY <3>a, ConcatProperties
      <4>3. QED BY <4>1, <4>2
    <3> DEFINE H == G \o C
    <3>b. H \in Seq(Chars)
      BY <3>2
    <3> HIDE DEF H
    <3>c. (H \o kept) \o R = H \o (kept \o R)
      BY <3>a, <3>b, ConcatAssociative
    <3>3. ((G \o C) \o kept) \o R = (G \o C) \o (kept \o R)
      BY <3>c DEF H
    <3>4. QED BY <2>11, <2>12, <3>1, <3>2, <3>3
  <2> HIDE DEF G, C, D, R
  <2>14. Journals!Bytes(D) = Journals!Bytes(kept) + Journals!Bytes(R)
    BY <2>9, <2>11, BytesConcat
  <2>15. j.retainedBytes = Journals!Bytes(G) + Journals!Bytes(C) + Journals!Bytes(D)
    <3>1. Journals!Bytes(Journals!Data(E)) = Journals!Bytes(G \o C) + Journals!Bytes(D)
          /\ Journals!Bytes(G \o C) = Journals!Bytes(G) + Journals!Bytes(C)
      BY <2>9, <2>13, BytesConcat, ConcatProperties
    <3>2. QED BY <1>0, <2>2, <3>1
  <2>16. Journals!Bytes(D) \in Nat /\ Journals!Trim(j).retainedBytes = Journals!Bytes(D)
    <3>1. Journals!Trim(j).retainedBytes = Journals!Bytes(kept) + Journals!Bytes(R)
      BY <2>1, <2>9a
    <3>2. QED BY <2>9, <2>14, <3>1
  <2>17. Journals!Bytes(D) <= MaxBytes /\ char.width + Journals!Bytes(D) > MaxBytes
    <3>1. PICK m, b, g, cb, cc, w, d :
             /\ m = MaxBytes /\ b = j.retainedBytes /\ g = Journals!Bytes(G)
             /\ cb = Journals!Bytes(cut) /\ cc = Journals!Bytes(C) /\ w = char.width
             /\ d = Journals!Bytes(D)
      OBVIOUS
    <3>2. g + cb < b - m /\ g + cc >= b - m
      BY <2>1, <2>9a, <3>1
    <3>3. /\ m \in Nat /\ b \in Nat /\ g \in Nat /\ cb \in Nat /\ cc \in Nat /\ w \in Nat /\ d \in Nat
          /\ cc = cb + w /\ b = g + cc + d
      BY <1>0, <2>9, <2>15, <2>16, <3>1
    <3>4. d <= m /\ w + d > m
      BY <3>2, <3>3
    <3>5. QED BY <3>1, <3>4
  <2>18. Newest(F, Journals!Data(p))
    <3>1. PICK lost \in Seq(Chars) : Journals!Data(p) = lost \o Journals!Data(E)
      BY <1>0, <2>2 DEF Newest
    <3> DEFINE l == lost \o (G \o cut)
               L == Append(l, char)
    <3>2. G \o cut \in Seq(Chars) /\ l \in Seq(Chars) /\ G \o C \in Seq(Chars)
      BY <2>9, ConcatProperties
    <3>3. G \o C = Append(G \o cut, char)
      <4>1. G \in Seq(Chars) /\ cut \in Seq(Chars) /\ char \in Chars
        BY <2>9
      <4>2. G \o Append(cut, char) = Append(G \o cut, char)
        BY <4>1, AppendJoined
      <4>3. QED BY <2>9a, <4>2
    <3>4. lost \o (G \o C) = L
      BY <3>2, <3>3, AppendJoined
    <3> HIDE DEF l
    <3>5. L \in Seq(Chars)
      BY <3>2, AppendProperties
    <3> HIDE DEF L
    <3>6. Journals!Data(p) = L \o D
      <4> DEFINE H == G \o C
      <4>a. H \in Seq(Chars) /\ D \in Seq(Chars) /\ lost \in Seq(Chars)
        BY <2>9, <3>2
      <4> HIDE DEF H
      <4>b. (lost \o H) \o D = lost \o (H \o D)
        BY <4>a, CharsAssociative, Zenon
      <4>1. lost \o ((G \o C) \o D) = (lost \o (G \o C)) \o D
        BY <4>b DEF H
      <4>2. QED BY <2>13, <3>1, <3>4, <4>1
    <3>7. L = Append(l, char) /\ D = Journals!Data(F)
      BY <2>9a DEF L
    <3>8. QED BY <2>17, <3>2, <3>5, <3>6, <3>7 DEF Newest
  \* The entries.
  <2>19. \E o \in Nat : Len(F) + o = Len(E) /\ \A i \in 1..Len(F) : F[i].version = E[o + i].version
    <3>1. /\ Len(E) = Len(old) + Len(rest) /\ Len(old) \in Nat
          /\ \A i \in 1..Len(old) : E[i] = old[i]
          /\ \A i \in 1..Len(rest) : E[Len(old) + i] = rest[i]
      BY <2>5a, Concats
    <3>2. CASE F = rest
      <4>1. Len(old) \in Nat /\ Len(F) + Len(old) = Len(E)
        BY <2>5, <3>1, <3>2
      <4>2. QED BY <3>1, <3>2, <4>1
    <3>3. CASE F = <<y>> \o rest
      <4> DEFINE one == <<y>>
      <4>0. one \in Seq(Entries) /\ Len(one) = 1 /\ one[1] = y /\ F = one \o rest
            /\ rest \in Seq(Entries)
        BY <2>4, <3>3
      <4> HIDE DEF one
      <4>1. /\ Len(F) = Len(one) + Len(rest) /\ \A i \in 1..Len(one) : F[i] = one[i]
            /\ \A i \in 1..Len(rest) : F[Len(one) + i] = rest[i]
        <5>1. /\ Len(one \o rest) = Len(one) + Len(rest) /\ \A i \in 1..Len(one) : (one \o rest)[i]
                   = one[i]
              /\ \A i \in 1..Len(rest) : (one \o rest)[Len(one) + i] = rest[i]
          <6>1. ASSUME NEW a \in Seq(Entries), NEW b \in Seq(Entries)
                PROVE  /\ Len(a \o b) = Len(a) + Len(b) /\ \A i \in 1..Len(a) : (a \o b)[i] = a[i]
                       /\ \A i \in 1..Len(b) : (a \o b)[Len(a) + i] = b[i]
            BY Concats
          <6>2. QED BY <4>0, <6>1, Zenon
        <5>2. QED BY <4>0, <5>1
      <4>2. Len(F) + Len(gone) = Len(E)
        BY <2>5, <3>1, <4>0, <4>1
      <4>3. ASSUME NEW i \in 1..Len(F) PROVE F[i].version = E[Len(gone) + i].version
        <5>1. CASE i = 1
          <6>1. F[i] = y /\ Len(gone) + i \in 1..Len(old) /\ Len(gone) + i = Len(gone) + 1
            BY <2>5, <4>0, <4>1, <5>1
          <6>2. E[Len(gone) + i] = x
            BY <2>5, <3>1, <6>1
          <6>3. QED BY <2>3, <6>1, <6>2
        <5>2. CASE i # 1
          <6>1. i - 1 \in 1..Len(rest) /\ Len(one) + (i - 1) = i /\ Len(old) + (i - 1) = Len(gone) + i
            BY <2>5, <4>0, <4>1, <5>2
          <6>2. F[i] = rest[i - 1] /\ E[Len(gone) + i] = rest[i - 1]
            BY <3>1, <4>1, <6>1
          <6>3. QED BY <6>2
        <5>3. QED BY <5>1, <5>2
      <4>4. QED BY <2>5, <4>2, <4>3
    <3>4. QED BY <2>6, <3>2, <3>3
  <2>20. Ordered(F, v)
    <3>1. PICK o \in Nat : Len(F) + o = Len(E) /\ \A i \in 1..Len(F) : F[i].version = E[o + i].version
      BY <2>19
    <3>2. Len(F) \in Nat /\ \A i \in 1..Len(F) : o + i \in 1..Len(E)
      BY <2>7, <3>1, LenProperties
    <3>3. /\ \A i, k \in 1..Len(E) : i < k => E[i].version < E[k].version
          /\ \A i \in 1..Len(E) : E[i].version <= v
      BY <1>0, <2>2 DEF Ordered
    <3>4. \A i, k \in 1..Len(F) : i < k => F[i].version < F[k].version
      <4>1. \A i, k \in 1..Len(F) : i < k => o + i < o + k
        BY <3>2
      <4>2. QED BY <3>1, <3>2, <3>3, <4>1
    <3>5. QED BY <3>1, <3>2, <3>3, <3>4 DEF Ordered
  \* The views.
  <2>21. ASSUME NEW after \in Int, after >= x.version
         PROVE  View(F, after) = View(E, after)
    <3>1. \A i \in 1..Len(old) : old[i].version <= after
      <4>1. SUFFICES ASSUME NEW i \in 1..Len(old) PROVE old[i].version <= after
        OBVIOUS
      <4>2. \A m \in 1..Len(old) : m \in 1..Len(E) /\ E[m] = old[m]
        BY <2>5a, Concats
      <4>2a. Len(old) \in 1..Len(old)
        BY <2>5
      <4>3. i \in 1..Len(E) /\ Len(old) \in 1..Len(E) /\ E[i] = old[i] /\ E[Len(old)] = old[Len(old)]
        BY <4>2, <4>2a
      <4>4. old[Len(old)] = x
        BY <2>5
      <4>5. E[i] \in Entries /\ E[i].version \in Nat
        <5>1. E \in Seq(Entries)
          BY <1>0, <2>2
        <5>2. E[i] \in Entries
          BY <4>3, <5>1, ElementOfSeq
        <5>3. QED BY <5>2 DEF Entries
      <4>6. i = Len(old) \/ i < Len(old)
        BY <2>5
      <4>7. i < Len(old) => E[i].version < x.version
        BY <1>0, <2>2, <4>3, <4>4 DEF Ordered
      <4>8. QED BY <2>3, <2>21, <4>3, <4>4, <4>5, <4>6, <4>7
    <3>2. View(old, after) = <<>>
      BY <2>5, <3>1, ViewNone
    <3>3. View(E, after) = View(rest, after)
      <4>1. View(E, after) = View(old, after) \o View(rest, after) /\ View(rest, after) \in Seq(Chars)
        BY <2>5a, ViewConcat, ViewTyped
      <4>2. QED BY <3>2, <4>1, ConcatEmptySeq
    <3>4. View(<<y>>, after) = <<>>
      <4>1. ~(y.version > after)
        BY <2>3, <2>21
      <4>2. View(Append(<<>>, y), after) = View(<<>>, after)
        BY <2>3, <2>4, <4>1, ViewAppend
      <4>3. QED BY <2>4, <4>2, ViewEmpty
    <3>5. F = <<y>> \o rest => View(F, after) = View(rest, after)
      <4>1. View(<<y>> \o rest, after) = View(<<y>>, after) \o View(rest, after)
            /\ View(rest, after) \in Seq(Chars)
        <5>1. <<y>> \in Seq(Entries) /\ rest \in Seq(Entries)
          BY <2>4
        <5>2. QED BY <5>1, ViewConcat, ViewTyped
      <4>2. QED BY <3>4, <4>1, ConcatEmptySeq
    <3>6. QED BY <2>6, <3>3, <3>5
  <2>22. ASSUME NEW after \in Int, after < x.version
         PROVE  Len(View(F, after)) < Len(View(E, after))
    <3>1. x.version > after /\ y.version > after
      BY <2>3, <2>22
    <3>2. View(old, after) = View(gone, after) \o x.data
      BY <2>2, <3>1, ViewAppend
    <3>3. /\ View(gone, after) \in Seq(Chars) /\ View(rest, after) \in Seq(Chars)
          /\ View(old, after) \in Seq(Chars)
      BY <2>5, ViewTyped
    <3>4. View(E, after) = View(old, after) \o View(rest, after)
      BY <2>5, ViewConcat
    <3>5. View(<<y>>, after) = kept
      <4>1. View(Append(<<>>, y), after) = View(<<>>, after) \o y.data
        BY <2>3, <2>4, <3>1, ViewAppend
      <4>2. QED BY <2>3, <2>4, <4>1, ViewEmpty, ConcatEmptySeq
    <3>6. View(F, after) = kept \o View(rest, after)
      <4>1. CASE F = rest /\ kept = <<>>
        BY <3>3, <4>1, ConcatEmptySeq
      <4>2. CASE F = <<y>> \o rest
        BY <2>4, <3>5, <4>2, ViewConcat
      <4>3. QED BY <2>6, <4>1, <4>2
    <3>7. /\ Len(View(E, after)) = Len(View(gone, after)) + Len(x.data) + Len(View(rest, after))
          /\ Len(View(F, after)) = Len(kept) + Len(View(rest, after))
          /\ Len(x.data) = (Len(cut) + 1) + Len(kept)
      <4>1. Len(View(E, after)) = Len(View(old, after)) + Len(View(rest, after))
        BY <3>3, <3>4, ConcatProperties
      <4>2. Len(View(old, after)) = Len(View(gone, after)) + Len(x.data)
        BY <2>3, <3>2, <3>3, ConcatProperties
      <4>3. Len(View(F, after)) = Len(kept) + Len(View(rest, after))
        BY <3>3, <3>6, ConcatProperties
      <4>4. Len(x.data) = Len(C) + Len(kept) /\ Len(C) = Len(cut) + 1
        <5>1. x.data = C \o kept /\ C \in Seq(Chars) /\ kept \in Seq(Chars) /\ C = Append(cut, char)
          BY <2>1, <2>9, <2>9a
        <5>2. Len(C \o kept) = Len(C) + Len(kept)
          BY <5>1, ConcatProperties
        <5>3. Len(Append(cut, char)) = Len(cut) + 1
          BY AppendProperties
        <5>4. QED BY <5>1, <5>2, <5>3
      <4>5. QED BY <4>1, <4>2, <4>3, <4>4
    <3>8. /\ Len(View(gone, after)) \in Nat /\ Len(View(rest, after)) \in Nat /\ Len(cut) \in Nat
          /\ Len(kept) \in Nat
      BY <3>3, LenProperties
    <3>9. QED BY <3>7, <3>8
  <2>23. ASSUME NEW after \in Int
         PROVE  /\ after >= t => View(F, after) = View(p, after)
                /\ after < t /\ after >= -1 => Len(View(F, after)) < Len(View(p, after))
    <3>0. /\ after >= j.truncatedThroughVersion => View(E, after) = View(p, after)
          /\ after < j.truncatedThroughVersion /\ after >= -1
               => Len(View(E, after)) < Len(View(p, after))
      BY <1>0, <2>2 DEF Exact
    <3>1. /\ Len(View(F, after)) \in Nat /\ Len(View(E, after)) \in Nat /\ Len(View(p, after)) \in Nat
      BY <1>0, <2>2, <2>7, ViewTyped, LenProperties
    <3>2. CASE after >= x.version
      <4>1. View(F, after) = View(E, after)
        BY <2>21, <3>2
      <4>2. after >= t => after >= j.truncatedThroughVersion
        BY <1>0, <2>8
      <4>3. after < t => after < j.truncatedThroughVersion
        BY <1>0, <2>3, <2>8, <3>2
      <4>4. QED BY <3>0, <4>1, <4>2, <4>3
    <3>3. CASE after < x.version
      BY <1>0, <2>3, <2>8, <2>22, <3>0, <3>1, <3>3
    <3>4. QED BY <2>3, <3>2, <3>3
  <2>24. Exact(Journals!Trim(j), p)
    BY <2>2, <2>23 DEF Exact
  <2>25. Journals!Trim(j) \in JournalRecords
    BY <2>1, <2>2, <2>7, <2>8, <2>16 DEF JournalRecords
  <2>26. /\ Journals!Trim(j).truncatedThroughVersion >= -1
         /\ Newest(Journals!Trim(j).entries, Journals!Data(p))
         /\ Ordered(Journals!Trim(j).entries, v)
         /\ Journals!Trim(j).retainedBytes = Journals!Bytes(Journals!Data(Journals!Trim(j).entries))
         /\ Journals!Trim(j).retainedBytes <= MaxBytes
    BY <2>2, <2>8, <2>9a, <2>16, <2>17, <2>18, <2>20
  <2>27. p \in Seq(Entries) /\ \A i \in 1..Len(p) : p[i].version <= v
    BY <1>0
  <2>28. QED BY <2>24, <2>25, <2>26, <2>27 DEF Matches
<1>3. QED BY <1>0, <1>1, <1>2

\* A chunk that is not empty, before the journal is trimmed.
LEMMA AppendMatches ==
  ASSUME NEW j, NEW p, NEW v \in Nat, Matches(j, p, v), NEW d \in Seq(Chars)
  PROVE  LET e == [version |-> v + 1, data |-> d]
         IN Matches([j EXCEPT !.entries = Append(j.entries, e),
                              !.retainedBytes
                                   = j.retainedBytes + Journals!Bytes(d)], Append(p, e), v + 1)
<1> DEFINE e == [version |-> v + 1, data |-> d]
<1>0. /\ j \in JournalRecords /\ p \in Seq(Entries) /\ j.truncatedThroughVersion >= -1
      /\ j.retainedBytes = Journals!Bytes(Journals!Data(j.entries))
      /\ Ordered(j.entries, v) /\ \A i \in 1..Len(p) : p[i].version <= v
      /\ Newest(j.entries, Journals!Data(p)) /\ Exact(j, p)
      /\ j.entries \in Seq(Entries) /\ j.retainedBytes \in Nat /\ j.truncatedThroughVersion \in Int
      /\ MaxBytes \in Nat /\ Journals!Bytes(d) \in Nat
  BY JournalAssumption, BytesTyped DEF Matches, JournalRecords
<1>1. e \in Entries /\ e.version = v + 1 /\ e.data = d
  BY DEF Entries
<1> HIDE DEF e
<1> DEFINE F == Append(j.entries, e)
           q == Append(p, e)
           b == j.retainedBytes + Journals!Bytes(d)
           k == [j EXCEPT !.entries = F, !.retainedBytes = b]
<1>2. F \in Seq(Entries) /\ q \in Seq(Entries) /\ b \in Nat
  BY <1>0, <1>1, AppendProperties
<1>3. /\ Len(F) = Len(j.entries) + 1 /\ Len(j.entries) \in Nat /\ F[Len(j.entries) + 1] = e
      /\ \A i \in 1..Len(j.entries) : F[i] = j.entries[i]
  BY <1>0, <1>1, AppendProperties, LenProperties
<1>4. /\ Len(q) = Len(p) + 1 /\ Len(p) \in Nat /\ q[Len(p) + 1] = e
      /\ \A i \in 1..Len(p) : q[i] = p[i]
  BY <1>0, <1>1, AppendProperties, LenProperties
<1>5. Journals!Data(F) = Journals!Data(j.entries) \o d /\ Journals!Data(q) = Journals!Data(p) \o d
  BY <1>0, <1>1, DataAppend
<1>6. Journals!Data(j.entries) \in Seq(Chars) /\ Journals!Data(p) \in Seq(Chars)
  BY <1>0, DataTyped
<1>7. b = Journals!Bytes(Journals!Data(F))
      /\ Journals!Bytes(Journals!Data(F)) >= Journals!Bytes(Journals!Data(j.entries))
      /\ Journals!Bytes(Journals!Data(j.entries)) \in Nat
  <2>1. Journals!Bytes(Journals!Data(j.entries) \o d)
             = Journals!Bytes(Journals!Data(j.entries)) + Journals!Bytes(d)
             /\ Journals!Bytes(Journals!Data(j.entries)) \in Nat
    BY <1>6, BytesConcat, BytesTyped
  <2>2. QED BY <1>0, <1>5, <2>1
<1>8. ASSUME NEW after \in Int
      PROVE  /\ after >= j.truncatedThroughVersion => View(F, after) = View(q, after)
             /\ after < j.truncatedThroughVersion /\ after >= -1 =>
                    Len(View(F, after)) < Len(View(q, after))
  <2>0. /\ after >= j.truncatedThroughVersion => View(j.entries, after) = View(p, after)
        /\ after < j.truncatedThroughVersion /\ after >= -1 =>
               Len(View(j.entries, after)) < Len(View(p, after))
    BY <1>0 DEF Exact
  <2>1. CASE e.version > after
    <3>1. View(F, after) = View(j.entries, after) \o d /\ View(q, after) = View(p, after) \o d
      BY <1>0, <1>1, <2>1, ViewAppend
    <3>2. View(j.entries, after) \in Seq(Chars) /\ View(p, after) \in Seq(Chars) /\ d \in Seq(Chars)
      BY <1>0, ViewTyped
    <3>3. /\ Len(View(j.entries, after) \o d) = Len(View(j.entries, after)) + Len(d)
          /\ Len(View(p, after) \o d) = Len(View(p, after)) + Len(d)
      BY <3>2, ConcatProperties
    <3>4. Len(View(j.entries, after)) \in Nat /\ Len(View(p, after)) \in Nat /\ Len(d) \in Nat
      BY <3>2, LenProperties
    <3>5. after >= j.truncatedThroughVersion => View(F, after) = View(q, after)
      BY <2>0, <3>1
    <3>6. Len(View(j.entries, after)) < Len(View(p, after)) => Len(View(F, after)) < Len(View(q, after))
      BY <3>1, <3>3, <3>4
    <3>7. QED BY <2>0, <3>5, <3>6
  <2>2. CASE ~(e.version > after)
    <3>1. View(F, after) = View(j.entries, after) /\ View(q, after) = View(p, after)
      BY <1>0, <1>1, <2>2, ViewAppend
    <3>2. QED BY <2>0, <3>1
  <2>3. QED BY <2>1, <2>2
<1>9. Ordered(F, v + 1)
  <2>1. /\ \A i, m \in 1..Len(j.entries) : i < m => j.entries[i].version < j.entries[m].version
        /\ \A i \in 1..Len(j.entries) : j.entries[i].version <= v
    BY <1>0 DEF Ordered
  <2>2. \A i \in 1..Len(j.entries) : j.entries[i].version \in Nat
    <3>1. \A i \in 1..Len(j.entries) : j.entries[i] \in Entries
      BY <1>0, ElementOfSeq
    <3>2. QED BY <3>1 DEF Entries
  <2>3. \A i \in 1..Len(F) : i \in 1..Len(j.entries) \/ i = Len(j.entries) + 1
    BY <1>3
  <2>4. ASSUME NEW i \in 1..Len(F) PROVE F[i].version <= v + 1
    <3>1. CASE i = Len(j.entries) + 1
      BY <1>1, <1>3, <3>1
    <3>2. CASE i \in 1..Len(j.entries)
      <4>1. j.entries[i].version <= v /\ F[i] = j.entries[i] /\ j.entries[i].version \in Nat
        BY <1>3, <2>1, <2>2, <3>2
      <4>2. QED BY <4>1
    <3>3. QED BY <2>3, <3>1, <3>2
  <2>5. ASSUME NEW i \in 1..Len(F), NEW m \in 1..Len(F), i < m PROVE F[i].version < F[m].version
    <3>1. i \in 1..Len(j.entries)
      BY <1>3, <2>5
    <3>2. CASE m = Len(j.entries) + 1
      <4>1. F[i] = j.entries[i] /\ j.entries[i].version <= v /\ j.entries[i].version \in Nat
        BY <1>3, <2>1, <2>2, <3>1
      <4>2. F[m].version = v + 1
        BY <1>1, <1>3, <3>2
      <4>3. QED BY <4>1, <4>2
    <3>3. CASE m \in 1..Len(j.entries)
      <4>1. F[i] = j.entries[i] /\ F[m] = j.entries[m]
        BY <1>3, <3>1, <3>3
      <4>2. QED BY <2>1, <2>5, <3>1, <3>3, <4>1
    <3>4. QED BY <2>3, <3>2, <3>3
  <2>6. QED BY <2>4, <2>5 DEF Ordered
<1>10. \A i \in 1..Len(q) : q[i].version <= v + 1
  <2>1. \A i \in 1..Len(p) : p[i].version \in Nat /\ p[i].version <= v
    <3>1. \A i \in 1..Len(p) : p[i] \in Entries
      BY <1>0, ElementOfSeq
    <3>2. QED BY <1>0, <3>1 DEF Entries
  <2>2. SUFFICES ASSUME NEW i \in 1..Len(q) PROVE q[i].version <= v + 1
    OBVIOUS
  <2>3. CASE i = Len(p) + 1
    BY <1>1, <1>4, <2>3
  <2>4. CASE i # Len(p) + 1
    <3>1. i \in 1..Len(p)
      BY <1>4, <2>4
    <3>2. q[i] = p[i] /\ p[i].version \in Nat /\ p[i].version <= v
      BY <1>4, <2>1, <3>1
    <3>3. QED BY <3>2
  <2>5. QED BY <2>3, <2>4
<1>11. Newest(F, Journals!Data(q))
  <2>1. PICK lost \in Seq(Chars) :
           /\ Journals!Data(p) = lost \o Journals!Data(j.entries)
           /\ \/ lost = <<>>
              \/ \E l \in Seq(Chars), c \in Chars :
                    lost = Append(l, c) /\ c.width + Journals!Bytes(Journals!Data(j.entries)) > MaxBytes
    BY <1>0 DEF Newest
  <2>2. Journals!Data(q) = lost \o Journals!Data(F)
    <3> DEFINE u == Journals!Data(j.entries)
    <3>1. u \in Seq(Chars) /\ lost \in Seq(Chars) /\ d \in Seq(Chars)
      BY <1>6
    <3> HIDE DEF u
    <3>2. (lost \o u) \o d = lost \o (u \o d)
      <4>1. \A x, y, z \in Seq(Chars) : (x \o y) \o z = x \o (y \o z)
        BY ConcatAssociative
      <4>2. QED BY <3>1, <4>1, Zenon
    <3>3. QED BY <1>5, <2>1, <3>2 DEF u
  <2>3. ASSUME lost # <<>>
        PROVE  \E l \in Seq(Chars), c \in Chars : lost
                    = Append(l, c) /\ c.width + Journals!Bytes(Journals!Data(F)) > MaxBytes
    <3>1. PICK l \in Seq(Chars), c \in Chars : lost
               = Append(l, c) /\ c.width + Journals!Bytes(Journals!Data(j.entries)) > MaxBytes
      BY <2>1, <2>3
    <3>2. c.width \in Nat /\ Journals!Bytes(Journals!Data(F)) \in Nat
      BY <1>2, <1>7, WidthsAssumption DEF Chars
    <3>3. c.width + Journals!Bytes(Journals!Data(F)) > MaxBytes
      BY <1>0, <1>7, <3>1, <3>2
    <3>4. QED BY <3>1, <3>3
  <2> HIDE DEF F, q
  <2>4. QED BY <2>2, <2>3 DEF Newest
<1> HIDE DEF F, q, b
<1>12. /\ k \in JournalRecords /\ k.entries = F /\ k.retainedBytes = b
       /\ k.truncatedThroughVersion = j.truncatedThroughVersion
  BY <1>0, <1>2 DEF JournalRecords
<1>13. Exact(k, q)
  BY <1>8, <1>12 DEF Exact
<1>14. Matches(k, q, v + 1)
  <2> HIDE DEF k
  <2>1. QED BY <1>0, <1>2, <1>7, <1>9, <1>10, <1>11, <1>12, <1>13 DEF Matches
<1>15. QED BY <1>14 DEF k, F, q, b, e

\* An empty chunk is not recorded, but takes a version.
LEMMA EmptyMatches ==
  ASSUME NEW j, NEW p, NEW v \in Nat, Matches(j, p, v)
  PROVE  Matches(j, Append(p, [version |-> v + 1, data |-> <<>>]), v + 1)
<1> DEFINE e == [version |-> v + 1, data |-> <<>>]
<1>0. /\ j \in JournalRecords /\ p \in Seq(Entries) /\ j.truncatedThroughVersion >= -1
      /\ j.retainedBytes = Journals!Bytes(Journals!Data(j.entries))
      /\ Ordered(j.entries, v) /\ \A i \in 1..Len(p) : p[i].version <= v
      /\ Newest(j.entries, Journals!Data(p)) /\ Exact(j, p)
      /\ j.entries \in Seq(Entries)
  BY DEF Matches, JournalRecords
<1>1. e \in Entries /\ e.version = v + 1 /\ e.data = <<>>
  <2>1. <<>> \in Seq(Chars)
    BY EmptySeq
  <2>2. QED BY <2>1 DEF Entries
<1> HIDE DEF e
<1> DEFINE q == Append(p, e)
<1>2. /\ q \in Seq(Entries) /\ Len(q) = Len(p) + 1 /\ Len(p) \in Nat /\ q[Len(p) + 1] = e
      /\ \A i \in 1..Len(p) : q[i] = p[i]
  BY <1>0, <1>1, AppendProperties, LenProperties
<1>3. Journals!Data(q) = Journals!Data(p)
  <2>1. Journals!Data(q) = Journals!Data(p) \o <<>> /\ Journals!Data(p) \in Seq(Chars)
    BY <1>0, <1>1, DataAppend, DataTyped
  <2>2. QED BY <2>1, ConcatEmptySeq
<1>4. ASSUME NEW after \in Int PROVE View(q, after) = View(p, after)
  <2>1. View(p, after) \in Seq(Chars)
    BY <1>0, ViewTyped
  <2>2. View(p, after) \o <<>> = View(p, after)
    BY <2>1, ConcatEmptySeq
  <2>3. CASE e.version > after
    BY <1>0, <1>1, <2>2, <2>3, ViewAppend
  <2>4. CASE ~(e.version > after)
    BY <1>0, <1>1, <2>4, ViewAppend
  <2>5. QED BY <2>3, <2>4
<1>5. Exact(j, q)
  BY <1>0, <1>4 DEF Exact
<1>6. \A i \in 1..Len(q) : q[i].version <= v + 1
  <2>1. \A i \in 1..Len(p) : p[i].version \in Nat /\ p[i].version <= v
    <3>1. \A i \in 1..Len(p) : p[i] \in Entries
      BY <1>0, ElementOfSeq
    <3>2. QED BY <1>0, <3>1 DEF Entries
  <2>2. SUFFICES ASSUME NEW i \in 1..Len(q) PROVE q[i].version <= v + 1
    OBVIOUS
  <2>3. CASE i = Len(p) + 1
    BY <1>1, <1>2, <2>3
  <2>4. CASE i # Len(p) + 1
    <3>1. i \in 1..Len(p)
      BY <1>2, <2>4
    <3>2. q[i] = p[i] /\ p[i].version \in Nat /\ p[i].version <= v
      BY <1>2, <2>1, <3>1
    <3>3. QED BY <3>2
  <2>5. QED BY <2>3, <2>4
<1>7. Ordered(j.entries, v + 1)
  <2>1. \A i \in 1..Len(j.entries) : j.entries[i].version \in Nat
    <3>1. \A i \in 1..Len(j.entries) : j.entries[i] \in Entries
      BY <1>0, ElementOfSeq
    <3>2. QED BY <3>1 DEF Entries
  <2>2. /\ \A i, m \in 1..Len(j.entries) : i < m => j.entries[i].version < j.entries[m].version
        /\ \A i \in 1..Len(j.entries) : j.entries[i].version <= v
    BY <1>0 DEF Ordered
  <2>3. \A i \in 1..Len(j.entries) : j.entries[i].version <= v + 1
    BY <2>1, <2>2
  <2>4. QED BY <2>2, <2>3 DEF Ordered
<1> HIDE DEF q
<1>8. Matches(j, q, v + 1)
  BY <1>0, <1>2, <1>3, <1>5, <1>6, <1>7 DEF Matches
<1>9. QED BY <1>8 DEF q, e

\* Other streams take versions too.
LEMMA MatchesLater ==
  ASSUME NEW j, NEW p, NEW v \in Nat, Matches(j, p, v)
  PROVE  Matches(j, p, v + 1)
<1>1. /\ j.entries \in Seq(Entries) /\ p \in Seq(Entries)
      /\ \A i, m \in 1..Len(j.entries) : i < m => j.entries[i].version < j.entries[m].version
      /\ \A i \in 1..Len(j.entries) : j.entries[i].version <= v
      /\ \A i \in 1..Len(p) : p[i].version <= v
  BY DEF Matches, JournalRecords, Ordered
<1>2. ASSUME NEW q \in Seq(Entries), NEW i \in 1..Len(q), q[i].version <= v PROVE q[i].version <= v + 1
  <2>1. q[i] \in Entries
    BY ElementOfSeq
  <2>2. q[i].version \in Nat
    BY <2>1 DEF Entries
  <2>3. QED BY <1>2, <2>2
<1>3. /\ \A i \in 1..Len(j.entries) : j.entries[i].version <= v + 1
      /\ \A i \in 1..Len(p) : p[i].version <= v + 1
  BY <1>1, <1>2
<1>4. Ordered(j.entries, v + 1)
  BY <1>1, <1>3 DEF Ordered
<1>5. QED BY <1>3, <1>4 DEF Matches

JournalInv ==
    /\ journalVersion \in Nat
    /\ journal = [s \in Streams |-> journal[s]] /\ produced = [s \in Streams |-> produced[s]]
    /\ \A s \in Streams : Matches(journal[s], produced[s], journalVersion) /\ journal[s].retainedBytes <= MaxBytes

LEMMA JournalInit == Journals!Init => JournalInv
<1> SUFFICES ASSUME Journals!Init PROVE JournalInv
  OBVIOUS
<1>1. /\ journalVersion = 0 /\ journal = [s \in Streams |-> Journals!EmptyJournal]
      /\ produced = [s \in Streams |-> <<>>]
  BY DEF Journals!Init
<1>2. /\ Journals!EmptyJournal \in JournalRecords /\ Journals!EmptyJournal.entries = <<>>
      /\ Journals!EmptyJournal.retainedBytes = 0
      /\ Journals!EmptyJournal.truncatedThroughVersion = -1 /\ <<>> \in Seq(Entries)
      /\ <<>> \in Seq(Chars)
      /\ Len(<<>>) = 0
  BY EmptySeq DEF Journals!EmptyJournal, JournalRecords
<1>3. Newest(<<>>, Journals!Data(<<>>))
  <2>1. Journals!Data(<<>>) = <<>> \o Journals!Data(<<>>)
    BY <1>2, DataEmpty, ConcatEmptySeq
  <2>2. QED BY <1>2, <2>1 DEF Newest
<1>4. Exact(Journals!EmptyJournal, <<>>)
  BY <1>2 DEF Exact
<1>5. Ordered(<<>>, 0)
  BY <1>2 DEF Ordered
<1>6. Journals!Bytes(Journals!Data(<<>>)) = 0
  BY DataEmpty, BytesEmpty
<1>7. Matches(Journals!EmptyJournal, <<>>, 0)
  <2>1. Journals!EmptyJournal.truncatedThroughVersion >= -1
    BY <1>2
  <2>2. QED BY <1>2, <1>3, <1>4, <1>5, <1>6, <2>1 DEF Matches
<1>8. 0 <= MaxBytes
  BY JournalAssumption
<1>9. \A s \in Streams : journal[s] = Journals!EmptyJournal /\ produced[s] = <<>>
  BY <1>1
<1>10. journal = [s \in Streams |-> journal[s]] /\ produced = [s \in Streams |-> produced[s]]
  BY <1>1
<1> HIDE DEF Journals!EmptyJournal
<1>11. QED BY <1>1, <1>2, <1>7, <1>8, <1>9, <1>10 DEF JournalInv

LEMMA JournalStep ==
  ASSUME JournalInv, [Journals!Next]_Journals!vars
  PROVE  JournalInv'
<1>1. CASE UNCHANGED Journals!vars
  BY <1>1 DEF JournalInv, Journals!vars
<1>2. CASE Journals!Next
  <2>1. PICK s \in Streams, widths \in Journals!Chunks : Journals!AcceptOutput(s, widths)
    BY <1>2 DEF Journals!Next
  <2> DEFINE d == Journals!Chunk(s, widths)
             e == [version |-> journalVersion + 1, data |-> d]
             j == journal[s]
             p == produced[s]
             k == [j EXCEPT !.entries = Append(j.entries, e),
                            !.retainedBytes = j.retainedBytes + Journals!Bytes(d)]
             result == IF d = <<>> THEN j ELSE Journals!Trim(k)
  <2>2. /\ journalVersion' = journalVersion + 1
        /\ journal' = [journal EXCEPT ![s] = Journals!Appended(journal[s], journalVersion + 1, d)]
        /\ produced' = [produced EXCEPT ![s] = Append(produced[s], e)]
    BY <2>1 DEF Journals!AcceptOutput
  <2>3. d \in Seq(Chars)
    <3>1. PICK m \in 0..MaxChunk : widths \in [1..m -> Widths]
      BY <2>1 DEF Journals!Chunks, Journals!SeqOf
    <3>2. m \in Nat /\ Widths \subseteq Nat
      BY JournalAssumption, WidthsAssumption
    <3>3. Journals!Data(produced[s]) \in Seq(Chars)
      BY DataTyped DEF JournalInv, Matches
    <3>4. Len(Journals!Data(produced[s])) \in Nat
      BY <3>3, LenProperties
    <3>5. \A i \in 1..m : Len(Journals!Data(produced[s])) + i \in Nat
      BY <3>2, <3>4
    <3>6. d = [i \in 1..m |-> [at |-> Len(Journals!Data(produced[s])) + i, width |-> widths[i]]]
      BY <3>1 DEF Journals!Chunk
    <3>7. d \in [1..m -> Chars]
      BY <3>1, <3>5, <3>6 DEF Chars
    <3>8. QED BY <3>2, <3>7, SeqDef
  <2>4. Journals!Appended(journal[s], journalVersion + 1, d) = result
    BY DEF Journals!Appended
  <2>5. journalVersion \in Nat /\ Matches(j, p, journalVersion) /\ j.retainedBytes <= MaxBytes
    BY DEF JournalInv
  <2>6. Matches(result, Append(p, e), journalVersion + 1) /\ result.retainedBytes <= MaxBytes
    <3>1. CASE d = <<>>
      <4>1. Matches(j, Append(p, [version |-> journalVersion + 1, data |-> <<>>]), journalVersion + 1)
        BY <2>5, EmptyMatches
      <4>2. QED BY <2>5, <3>1, <4>1
    <3>2. CASE d # <<>>
      <4>1. Matches(k, Append(p, e), journalVersion + 1)
        <5> HIDE DEF d
        <5>1. QED BY <2>3, <2>5, AppendMatches
      <4>2. journalVersion + 1 \in Nat /\ result = Journals!Trim(k)
        BY <2>5, <3>2
      <4> HIDE DEF k, result, e, d, p, j
      <4>3. QED BY <4>1, <4>2, TrimMatches
    <3>3. QED BY <3>1, <3>2
  <2>7. /\ journal = [t \in Streams |-> journal[t]] /\ produced = [t \in Streams |-> produced[t]]
    BY DEF JournalInv
  <2> HIDE DEF result, d
  <2>8. /\ journal' = [t \in Streams |-> IF t = s THEN result ELSE journal[t]]
        /\ produced' = [t \in Streams |-> IF t = s THEN Append(p, e) ELSE produced[t]]
    BY <2>2, <2>4, <2>7
  <2> HIDE DEF e, p
  <2>9. journal' = [t \in Streams |-> journal'[t]] /\ produced' = [t \in Streams |-> produced'[t]]
    BY <2>8
  <2>10. ASSUME NEW t \in Streams
         PROVE  Matches(journal'[t], produced'[t], journalVersion + 1)
                /\ journal'[t].retainedBytes <= MaxBytes
    <3>1. CASE t = s
      BY <2>6, <2>8, <3>1
    <3>2. CASE t # s
      <4>1. journal'[t] = journal[t] /\ produced'[t] = produced[t]
        BY <2>8, <3>2
      <4>2. Matches(journal[t], produced[t], journalVersion) /\ journal[t].retainedBytes <= MaxBytes
        BY DEF JournalInv
      <4>3. Matches(journal[t], produced[t], journalVersion + 1)
        BY <2>5, <4>2, MatchesLater
      <4>4. QED BY <4>1, <4>2, <4>3
    <3>3. QED BY <3>1, <3>2
  <2>11. journalVersion' \in Nat
    BY <2>2, <2>5
  <2>12. \A t \in Streams : Matches(journal[t], produced[t], journalVersion)' /\ (journal[t].retainedBytes <= MaxBytes)'
    <3>1. \A t \in Streams : Matches(journal'[t], produced'[t], journalVersion')
      BY <2>2, <2>10
    <3>2. QED BY <2>10, <3>1 DEF Matches, Exact, Newest, Ordered
  <2>13. QED BY <2>9, <2>11, <2>12 DEF JournalInv
<1>3. QED BY <1>1, <1>2

LEMMA JournalExact == JournalInv => Journals!TruncationIsExact
<1> SUFFICES ASSUME JournalInv, NEW s \in Streams, NEW after \in -1..journalVersion
             PROVE  Journals!Truncated(journal[s], after) <=>
                        Journals!Data(Journals!Newer(journal[s].entries, after))
                            # Journals!Data(Journals!Newer(produced[s], after))
  BY DEF Journals!TruncationIsExact
<1>1. Matches(journal[s], produced[s], journalVersion)
  BY DEF JournalInv
<1>2. after \in Int /\ after >= -1 /\ journal[s].truncatedThroughVersion \in Int
  BY <1>1 DEF JournalInv, Matches, JournalRecords
<1> DEFINE kept == View(journal[s].entries, after)
           all == View(produced[s], after)
<1>3. /\ after >= journal[s].truncatedThroughVersion => kept = all
      /\ after < journal[s].truncatedThroughVersion => Len(kept) < Len(all)
  BY <1>1, <1>2 DEF Matches, Exact
<1>4. kept \in Seq(Chars) /\ Len(kept) \in Nat
  <2>1. journal[s].entries \in Seq(Entries)
    BY <1>1 DEF Matches, JournalRecords
  <2>2. QED BY <2>1, ViewTyped, LenProperties
<1>5. kept = Journals!Data(Journals!Newer(journal[s].entries, after))
      /\ all = Journals!Data(Journals!Newer(produced[s], after))
  BY DEF View
<1> HIDE DEF kept, all
<1>6. Journals!Truncated(journal[s], after) <=> after < journal[s].truncatedThroughVersion
  BY DEF Journals!Truncated
<1>7. CASE after < journal[s].truncatedThroughVersion
  BY <1>3, <1>4, <1>5, <1>6, <1>7
<1>8. CASE after >= journal[s].truncatedThroughVersion
  BY <1>2, <1>3, <1>5, <1>6, <1>8
<1>9. QED BY <1>2, <1>7, <1>8

\* Less than what is kept from where the last lost character is does not fit.
LEMMA NothingMoreFits ==
  ASSUME NEW l \in Seq(Chars), NEW c \in Chars, NEW d \in Seq(Chars),
         c.width + Journals!Bytes(d) > MaxBytes, NEW n \in 0..Len(l)
  PROVE  LET all == Append(l, c) \o d IN ~(Journals!Bytes(SubSeq(all, n + 1, Len(all))) <= MaxBytes)
<1> DEFINE end == <<c>> \o d
           all == Append(l, c) \o d
           front == SubSeq(all, 1, n)
           rest == SubSeq(all, n + 1, Len(all))
           more == SubSeq(l, n + 1, Len(l))
<1>0. /\ Len(l) \in Nat /\ Journals!Bytes(d) \in Nat /\ c.width \in Nat /\ MaxBytes \in Nat
      /\ Journals!Bytes(l) \in Nat
  BY LenProperties, BytesTyped, WidthsAssumption, JournalAssumption DEF Chars
<1>1. Append(l, c) \in Seq(Chars) /\ Len(Append(l, c)) = Len(l) + 1
  BY AppendProperties
<1>2. all \in Seq(Chars) /\ Len(all) = (Len(l) + 1) + Len(d) /\ Len(d) \in Nat
  BY <1>1, ConcatProperties, LenProperties
<1>3. Journals!Bytes(all) = Journals!Bytes(l) + c.width + Journals!Bytes(d)
  <2>1. Journals!Bytes(Append(l, c)) = Journals!Bytes(l) + c.width
    BY BytesAppend
  <2>2. Journals!Bytes(all) = Journals!Bytes(Append(l, c)) + Journals!Bytes(d)
    BY <1>1, BytesConcat
  <2>3. QED BY <2>1, <2>2
<1>4. n \in 0..Len(all)
  BY <1>0, <1>2
<1> HIDE DEF all
<1>5. /\ front \in Seq(Chars) /\ rest \in Seq(Chars) /\ all = front \o rest
  BY <1>2, <1>4, BothParts
<1>6. SubSeq(l, 1, n) \in Seq(Chars) /\ more \in Seq(Chars) /\ l = SubSeq(l, 1, n) \o more
  BY BothParts
<1>7. front = SubSeq(l, 1, n)
  <2>1. CASE n = 0
    BY <1>2, <2>1, Whole
  <2>2. CASE n # 0
    <3>1. n \in 1..Len(l) /\ 1 \in 1..Len(l)
      BY <1>0, <2>2
    <3>2. <<c>> \in Seq(Chars) /\ end \in Seq(Chars)
      <4>1. <<c>> \in Seq(Chars)
        OBVIOUS
      <4>2. QED BY <4>1, ConcatProperties
    <3>3. all = l \o end
      <4> DEFINE one == <<c>>
      <4>1. one \in Seq(Chars) /\ Append(l, c) = l \o one
        BY <3>2, AppendIsConcat
      <4> HIDE DEF one
      <4>2. (l \o one) \o d = l \o (one \o d)
        <5>1. \A x, y, z \in Seq(Chars) : (x \o y) \o z = x \o (y \o z)
          BY ConcatAssociative
        <5>2. QED BY <4>1, <5>1, Zenon
      <4>3. QED BY <4>1, <4>2 DEF all, one
    <3> HIDE DEF end
    <3>4. SubSeq(l \o end, 1, n) = SubSeq(l, 1, n)
      BY <3>1, <3>2, SubSeqOfConcat1
    <3>5. QED BY <3>3, <3>4
  <2>3. QED BY <2>1, <2>2
<1> HIDE DEF front, rest, more
<1>8. /\ Journals!Bytes(all) = Journals!Bytes(front) + Journals!Bytes(rest)
      /\ Journals!Bytes(l) = Journals!Bytes(front) + Journals!Bytes(more)
      /\ Journals!Bytes(front) \in Nat /\ Journals!Bytes(rest) \in Nat /\ Journals!Bytes(more) \in Nat
  BY <1>5, <1>6, <1>7, BytesConcat, BytesTyped
<1>9. ~(Journals!Bytes(rest) <= MaxBytes)
  BY <1>0, <1>3, <1>8
<1>10. QED BY <1>9 DEF rest, all

LEMMA JournalNewest == JournalInv => Journals!RetainsNewest
<1> DEFINE All(s) == Journals!Data(produced[s])
           Fitting(s) == {n \in 0..Len(All(s)) :
                             Journals!Bytes(SubSeq(All(s), n + 1, Len(All(s)))) <= MaxBytes}
           Longest(s) == CHOOSE n \in Fitting(s) : \A m \in Fitting(s) : n <= m
<1> SUFFICES ASSUME JournalInv, NEW s \in Streams
             PROVE  Journals!Data(journal[s].entries) = SubSeq(All(s), Longest(s) + 1, Len(All(s)))
  BY DEF Journals!RetainsNewest
<1>1. /\ Matches(journal[s], produced[s], journalVersion) /\ journal[s].retainedBytes <= MaxBytes
  BY DEF JournalInv
<1> DEFINE all == All(s)
           fitting == Fitting(s)
           longest == Longest(s)
           d == Journals!Data(journal[s].entries)
<1>2. all \in Seq(Chars) /\ d \in Seq(Chars) /\ Journals!Bytes(d) <= MaxBytes
  <2>1. /\ journal[s].entries \in Seq(Entries) /\ produced[s] \in Seq(Entries)
        /\ journal[s].retainedBytes = Journals!Bytes(Journals!Data(journal[s].entries))
    BY <1>1 DEF Matches, JournalRecords
  <2>2. QED BY <1>1, <2>1, DataTyped
<1>3. PICK lost \in Seq(Chars) :
         /\ all = lost \o d
         /\ \/ lost = <<>>
            \/ \E l \in Seq(Chars), c \in Chars :
                  lost = Append(l, c) /\ c.width + Journals!Bytes(d) > MaxBytes
  BY <1>1 DEF Matches, Newest
<1>4. longest = CHOOSE n \in fitting : \A m \in fitting : n <= m
  OBVIOUS
<1>5. fitting = {n \in 0..Len(all) : Journals!Bytes(SubSeq(all, n + 1, Len(all))) <= MaxBytes}
  OBVIOUS
<1> HIDE DEF all, d, fitting, longest
<1>6. Len(lost) \in Nat /\ Len(all) \in Nat /\ Len(all) = Len(lost) + Len(d) /\ Len(d) \in Nat
  BY <1>2, <1>3, ConcatProperties, LenProperties
<1>7. SubSeq(all, Len(lost) + 1, Len(all)) = d
  BY <1>2, <1>3, <1>6, AfterConcat
<1>8. Len(lost) \in fitting
  <2>1. Len(lost) \in 0..Len(all)
    BY <1>6
  <2>2. Journals!Bytes(SubSeq(all, Len(lost) + 1, Len(all))) <= MaxBytes
    BY <1>2, <1>7
  <2>3. QED BY <1>5, <2>1, <2>2
<1>9. ASSUME NEW n \in fitting PROVE Len(lost) <= n
  <2>0. n \in 0..Len(all) /\ Journals!Bytes(SubSeq(all, n + 1, Len(all))) <= MaxBytes
    BY <1>5
  <2>1. CASE lost = <<>>
    BY <1>6, <2>0, <2>1, EmptySeq
  <2>2. CASE lost # <<>>
    <3>1. PICK l \in Seq(Chars), c \in Chars : lost
               = Append(l, c) /\ c.width + Journals!Bytes(d) > MaxBytes
      BY <1>3, <2>2
    <3>2. Len(lost) = Len(l) + 1 /\ Len(l) \in Nat /\ all = Append(l, c) \o d
      BY <1>3, <3>1, AppendProperties, LenProperties
    <3>3. ASSUME n \in 0..Len(l) PROVE FALSE
      BY <1>2, <2>0, <3>1, <3>2, <3>3, NothingMoreFits
    <3>4. QED BY <1>6, <2>0, <3>2, <3>3
  <2>3. QED BY <2>1, <2>2
<1>10. longest = Len(lost)
  <2>1. fitting \in SUBSET Nat
    BY <1>5, <1>6
  <2>2. \A n \in fitting : (\A m \in fitting : n <= m) => n = Len(lost)
    BY <1>6, <1>8, <1>9, <2>1
  <2>3. longest \in fitting /\ \A m \in fitting : longest <= m
    BY <1>4, <1>8, <1>9
  <2>4. QED BY <2>2, <2>3
<1>11. d = SubSeq(all, longest + 1, Len(all))
  BY <1>7, <1>10
<1>12. QED BY <1>11 DEF d, all, longest

\* A journal holds the newest output, as many whole characters as fit, and no more.
THEOREM NewestSafe == Journals!Spec => []RetainsNewest
<1>1. JournalInv => RetainsNewest
  BY JournalNewest DEF RetainsNewest
<1>2. QED BY <1>1, JournalInit, JournalStep, PTL DEF Journals!Spec

\* Every observation reports truncation exactly when it misses something.
THEOREM ExactSafe == Journals!Spec => []TruncationIsExact
<1>1. JournalInv => TruncationIsExact
  BY JournalExact DEF TruncationIsExact
<1>2. QED BY <1>1, JournalInit, JournalStep, PTL DEF Journals!Spec
=============================================================================
