----------------------- MODULE TerminalSessionProofs ------------------------
(***************************************************************************)
(* Safety of a managed session, for every set of calls and observers and   *)
(* every amount of output.                                                 *)
(***************************************************************************)
EXTENDS TerminalSession, TLAPS

QueueEntry == [op : Operations, call : Calls \cup {NoCall}]

\* A finalization is enqueued, and a close returns from one, only after the exit.
FinalizedOnlyExited ==
    /\ \A i \in 1..Len(queue) : queue[i].op = "finalize" => lifecycle = "exited"
    /\ \A c \in Calls : call[c].phase = "finalized" => lifecycle = "exited"

\* The lifecycle is announced but while the exit is being recorded.
AnnouncedButExit ==
    Latest = lifecycle \/ (stage = "append" /\ queue[1].op = "exit")

\* The recorder is ahead of the status only while a recording is being started.
RecorderAheadOfStatus ==
    /\ stage = "starting" => recording # "active"
    /\ recording = "active" => enabled
    /\ recording = "inactive" => ~enabled \/ stage = "starting"

IInv ==
    /\ TypeOK
    /\ FinalizedOnlyExited
    /\ AnnouncedButExit
    /\ RecorderAheadOfStatus
    /\ RemovedOnlyExited

-----------------------------------------------------------------------------
\* Facts about the effects that operations share.

LEMMA FirstFacts ==
    ASSUME TypeOK, queue # <<>>
    PROVE  /\ Head(queue) = queue[1] /\ 1 \in 1..Len(queue)
           /\ Head(queue) \in QueueEntry
           /\ Head(queue).op \in Operations /\ Head(queue).call \in Calls \cup {NoCall}
<1>1. queue \in Seq(QueueEntry)
  BY DEF TypeOK, QueueEntry
<1>2. Head(queue) = queue[1] /\ 1 \in 1..Len(queue) /\ Head(queue) \in QueueEntry
  BY <1>1
<1> QED
  BY <1>2 DEF QueueEntry

LEMMA DoneFacts ==
    ASSUME TypeOK, NEW c \in Calls \cup {NoCall},
           NEW result \in {"none", "ok", "rejected", "closed", "pending"}
    PROVE  /\ Done(c, result) \in [Calls -> CallRecord]
           /\ \A d \in Calls : Done(c, result)[d].phase = "finalized" =>
                                   call[d].phase = "finalized"
BY DEF TypeOK, Done, CallRecord

LEMMA SucceededFacts ==
    ASSUME TypeOK, NEW c \in Calls \cup {NoCall}, NEW op \in Operations
    PROVE  /\ Succeeded(op, c) \in [Calls -> CallRecord]
           /\ \A d \in Calls : Succeeded(op, c)[d].phase = "finalized" =>
                                   call[d].phase = "finalized" \/ op = "finalize"
<1>1. CASE c = NoCall
  BY <1>1 DEF Succeeded, TypeOK
<1>2. CASE c # NoCall /\ op = "close"
  BY <1>2 DEF Succeeded, TypeOK, CallRecord
<1>3. CASE c # NoCall /\ op = "finalize"
  BY <1>3 DEF Succeeded, TypeOK, CallRecord
<1>4. CASE c # NoCall /\ op \notin {"close", "finalize"}
  BY <1>4, DoneFacts DEF Succeeded
<1> QED
  BY <1>1, <1>2, <1>3, <1>4

\* The queue moves on.
LEMMA LeaveFacts ==
    ASSUME TypeOK, queue # <<>>, NEW outcome \in {"ok", "rejected"}, Leave(outcome)
    PROVE  /\ queue' \in Seq(QueueEntry)
           /\ \A i \in 1..Len(queue') : i + 1 \in 1..Len(queue) /\ queue'[i] = queue[i + 1]
           /\ stage' = "ready"
           /\ call' \in [Calls -> CallRecord]
           /\ \A c \in Calls : call'[c].phase = "finalized" =>
                  call[c].phase = "finalized" \/ queue[1].op = "finalize"
<1>1. queue' = Tail(queue) /\ stage' = "ready"
  BY DEF Leave
<1>2. queue \in Seq(QueueEntry)
  BY DEF TypeOK, QueueEntry
<1>3. queue' \in Seq(QueueEntry)
      /\ \A i \in 1..Len(queue') : i + 1 \in 1..Len(queue) /\ queue'[i] = queue[i + 1]
  BY <1>1, <1>2
<1>4. call' = Succeeded(Head(queue).op, Head(queue).call)
      \/ call' = Done(Head(queue).call, "rejected")
  BY DEF Leave
<1> QED
  BY <1>1, <1>3, <1>4, FirstFacts, SucceededFacts, DoneFacts

\* An operation joins the queue.
LEMMA EnqueueFacts ==
    ASSUME TypeOK, NEW op \in Operations, NEW c \in Calls \cup {NoCall}, Enqueue(op, c)
    PROVE  /\ queue' \in Seq(QueueEntry) /\ queue' # <<>>
           /\ queue # <<>> => queue'[1] = queue[1]
           /\ \A i \in 1..Len(queue') :
                  queue'[i].op = op \/ (i \in 1..Len(queue) /\ queue'[i] = queue[i])
<1>1. queue \in Seq(QueueEntry) /\ [op |-> op, call |-> c] \in QueueEntry
  BY DEF TypeOK, QueueEntry
<1>2. queue' = Append(queue, [op |-> op, call |-> c])
  BY DEF Enqueue
<1> QED
  BY <1>1, <1>2

LEMMA PublishFacts ==
    ASSUME TypeOK, NEW x \in Lifecycles, NEW y \in Lifecycles,
           Publish(<<x>>) \/ Publish(<<y, x>>)
    PROVE  /\ published' \in Seq(Lifecycles) /\ published' # <<>>
           /\ Latest' = x
<1>1. Latest \in Lifecycles
  BY DEF TypeOK, Latest
<1>2. ASSUME NEW states \in Seq(Lifecycles), states # <<>>, Publish(states),
             states[Len(states)] = x
      PROVE  published' \in Seq(Lifecycles) /\ published' # <<>> /\ Latest' = x
  <2>1. published' = <<Latest>> \o states /\ <<Latest>> \in Seq(Lifecycles)
    BY <1>1, <1>2 DEF Publish
  <2>2. published' \in Seq(Lifecycles) /\ Len(published') = 1 + Len(states)
    BY <2>1
  <2>3. published'[Len(published')] = states[Len(states)]
    BY <2>1, <1>2
  <2> QED
    BY <2>2, <2>3, <1>2 DEF Latest
<1>3. CASE Publish(<<x>>)
  BY <1>2, <1>3
<1>4. CASE Publish(<<y, x>>)
  BY <1>2, <1>4
<1> QED
  BY <1>3, <1>4

-----------------------------------------------------------------------------
\* Leaving the queue keeps the invariant, whatever else the operation changes.

LEMMA LeaveKeepsFinalized ==
    ASSUME TypeOK, FinalizedOnlyExited, queue # <<>>,
           NEW outcome \in {"ok", "rejected"}, Leave(outcome),
           lifecycle = "exited" => lifecycle' = "exited"
    PROVE  FinalizedOnlyExited'
<1>1. 1 \in 1..Len(queue)
  BY FirstFacts
<1> QED
  BY <1>1, LeaveFacts DEF FinalizedOnlyExited

\* What an operation may do to the rest of the state when it leaves.
LeavesWell ==
    /\ pty' \in {"running", "killed", "exited"}
    /\ emitted' = emitted /\ sequence' = sequence
    /\ lifecycle' \in Lifecycles
    /\ lifecycle = "exited" => lifecycle' = "exited"
    /\ version' \in Nat
    /\ integration' = integration
    /\ waiting' \subseteq waiting
    /\ present' = present
    /\ published' \in Seq(Lifecycles) /\ published' # <<>>
    /\ Latest' = lifecycle'

LEMMA LeaveKeepsIInv ==
    ASSUME IInv, queue # <<>>, NEW outcome \in {"ok", "rejected"}, Leave(outcome), LeavesWell,
           recording' \in {"inactive", "active", "failed"}, enabled' \in BOOLEAN,
           RecorderAheadOfStatus'
    PROVE  IInv'
<1>1. TypeOK'
  BY LeaveFacts DEF IInv, TypeOK, LeavesWell, QueueEntry
<1>2. FinalizedOnlyExited'
  BY LeaveKeepsFinalized DEF IInv, LeavesWell
<1>3. AnnouncedButExit'
  BY DEF LeavesWell, AnnouncedButExit
<1>4. RemovedOnlyExited'
  BY DEF IInv, LeavesWell, RemovedOnlyExited
<1> QED
  BY <1>1, <1>2, <1>3, <1>4 DEF IInv

LEMMA ReadyFacts ==
    ASSUME IInv, NEW op, Ready(op)
    PROVE  /\ queue # <<>> /\ stage = "ready" /\ queue[1].op = op
           /\ Latest = lifecycle
BY FirstFacts DEF IInv, Ready, AnnouncedButExit

\* The first operation's I/O begins: the queue stays.
LEMMA IOKeepsIInv ==
    ASSUME IInv, queue # <<>>, stage = "ready",
           stage' \in {"writing", "append", "starting"},
           UNCHANGED <<pty, emitted, queue, recording, call, present>>,
           sequence' = sequence, integration' \in {"initializing", "settled"},
           version' \in Nat, waiting' \subseteq waiting,
           published' \in Seq(Lifecycles), published' # <<>>,
           lifecycle' \in Lifecycles, lifecycle = "exited" => lifecycle' = "exited",
           AnnouncedButExit', RecorderAheadOfStatus', enabled' \in BOOLEAN
    PROVE  IInv'
<1>1. TypeOK'
  BY DEF IInv, TypeOK
<1>2. FinalizedOnlyExited' /\ RemovedOnlyExited'
  BY DEF IInv, FinalizedOnlyExited, RemovedOnlyExited
<1> QED
  BY <1>1, <1>2 DEF IInv

LEMMA AnnounceFacts ==
    ASSUME IInv, lifecycle' = lifecycle, Announce
    PROVE  /\ version' \in Nat /\ waiting' \subseteq waiting
           /\ published' \in Seq(Lifecycles) /\ published' # <<>> /\ Latest' = lifecycle'
<1>1. lifecycle \in Lifecycles /\ Publish(<<lifecycle>>)
  BY DEF IInv, TypeOK, Announce
<1>2. published' \in Seq(Lifecycles) /\ published' # <<>> /\ Latest' = lifecycle'
  BY <1>1, PublishFacts DEF IInv
<1>3. version' \in Nat /\ waiting' \subseteq waiting
  BY DEF IInv, TypeOK, Announce, NotifyWaiters
<1> QED
  BY <1>2, <1>3

LEMMA SilentFacts ==
    ASSUME IInv, lifecycle' = lifecycle, Latest = lifecycle, Silent
    PROVE  /\ version' \in Nat /\ waiting' \subseteq waiting
           /\ published' \in Seq(Lifecycles) /\ published' # <<>> /\ Latest' = lifecycle'
BY DEF IInv, TypeOK, Silent, Latest

-----------------------------------------------------------------------------
\* The operations of the queue.

LEMMA RejectKeepsIInv == ASSUME IInv, NEW op \in QueuedKinds, Reject(op) PROVE IInv'
<1>1. queue # <<>> /\ stage = "ready" /\ Latest = lifecycle
  BY ReadyFacts DEF Reject
<1>2. LeavesWell
  BY <1>1 DEF Reject, IInv, TypeOK, LeavesWell, Latest
<1>3. RecorderAheadOfStatus'
  BY <1>1 DEF Reject, Leave, IInv, RecorderAheadOfStatus
<1> QED
  BY <1>1, <1>2, <1>3, LeaveKeepsIInv DEF Reject, IInv, TypeOK

LEMMA InputKeepsIInv == ASSUME IInv, Input PROVE IInv'
<1>1. queue # <<>> /\ stage = "ready" /\ Latest = lifecycle
  BY ReadyFacts DEF Input
<1>2. /\ version' \in Nat /\ waiting' \subseteq waiting
      /\ published' \in Seq(Lifecycles) /\ published' # <<>> /\ Latest' = lifecycle'
  BY <1>1, AnnounceFacts, SilentFacts DEF Input
<1>3. RecorderAheadOfStatus'
  BY <1>1 DEF Input, Leave, IInv, RecorderAheadOfStatus
<1>4. CASE Leave("rejected")
  <2>1. LeavesWell
    BY <1>2 DEF Input, IInv, TypeOK, LeavesWell
  <2> QED
    BY <1>1, <1>3, <1>4, <2>1, LeaveKeepsIInv DEF Input, IInv, TypeOK
<1>5. CASE stage' = "append" /\ UNCHANGED <<queue, call>>
  <2>1. AnnouncedButExit'
    BY <1>2 DEF AnnouncedButExit
  <2> QED
    BY <1>1, <1>2, <1>3, <1>5, <2>1, IOKeepsIInv DEF Input, IInv, TypeOK
<1> QED
  BY <1>4, <1>5 DEF Input

LEMMA ResizeKeepsIInv == ASSUME IInv, Resize PROVE IInv'
<1>1. queue # <<>> /\ stage = "ready" /\ Latest = lifecycle
  BY ReadyFacts DEF Resize
<1>2. version' \in Nat /\ Latest' = lifecycle'
  BY <1>1 DEF Resize, IInv, TypeOK, Latest
<1>3. RecorderAheadOfStatus'
  BY <1>1 DEF Resize, Leave, IInv, RecorderAheadOfStatus
<1>4. CASE Leave("rejected")
  <2>1. LeavesWell
    BY <1>2 DEF Resize, IInv, TypeOK, LeavesWell
  <2> QED
    BY <1>1, <1>3, <1>4, <2>1, LeaveKeepsIInv DEF Resize, IInv, TypeOK
<1>5. CASE stage' = "append" /\ UNCHANGED <<queue, call>>
  <2>1. AnnouncedButExit'
    BY <1>2 DEF AnnouncedButExit
  <2> QED
    BY <1>1, <1>2, <1>3, <1>5, <2>1, IOKeepsIInv DEF Resize, IInv, TypeOK
<1> QED
  BY <1>4, <1>5 DEF Resize

LEMMA ScrollKeepsIInv == ASSUME IInv, Scroll PROVE IInv'
<1>1. queue # <<>> /\ stage = "ready" /\ Latest = lifecycle
  BY ReadyFacts DEF Scroll
<1>2. version' \in Nat /\ waiting' \subseteq waiting
  BY DEF Scroll, IInv, TypeOK, NotifyWaiters
<1>3. LeavesWell
  BY <1>1, <1>2 DEF Scroll, IInv, TypeOK, LeavesWell, Latest
<1>4. RecorderAheadOfStatus'
  BY <1>1 DEF Scroll, Leave, IInv, RecorderAheadOfStatus
<1> QED
  BY <1>1, <1>3, <1>4, LeaveKeepsIInv DEF Scroll, IInv, TypeOK

LEMMA SetPresentationKeepsIInv == ASSUME IInv, SetPresentation PROVE IInv'
<1>1. queue # <<>> /\ stage = "ready" /\ Latest = lifecycle
  BY ReadyFacts DEF SetPresentation
<1>2. LeavesWell
  BY <1>1, AnnounceFacts, SilentFacts DEF SetPresentation, IInv, TypeOK, LeavesWell
<1>3. RecorderAheadOfStatus'
  BY <1>1 DEF SetPresentation, Leave, IInv, RecorderAheadOfStatus
<1> QED
  BY <1>1, <1>2, <1>3, LeaveKeepsIInv DEF SetPresentation, IInv, TypeOK

LEMMA OutputKeepsIInv == ASSUME IInv, OutputBegun \/ OutputWritten PROVE IInv'
<1>1. CASE OutputBegun
  <2>1. queue # <<>> /\ stage = "ready" /\ Latest = lifecycle
    BY <1>1, ReadyFacts DEF OutputBegun
  <2>2. AnnouncedButExit' /\ RecorderAheadOfStatus'
    BY <1>1, <2>1 DEF OutputBegun, IInv, AnnouncedButExit, RecorderAheadOfStatus, Latest
  <2> QED
    BY <1>1, <2>1, <2>2, IOKeepsIInv DEF OutputBegun, IInv, TypeOK
<1>2. CASE OutputWritten
  <2>1. TypeOK'
    BY <1>2 DEF OutputWritten, IInv, TypeOK
  <2>2. FinalizedOnlyExited' /\ RemovedOnlyExited'
    BY <1>2 DEF OutputWritten, IInv, FinalizedOnlyExited, RemovedOnlyExited
  <2>3. AnnouncedButExit' /\ RecorderAheadOfStatus'
    BY <1>2 DEF OutputWritten, IInv, AnnouncedButExit, RecorderAheadOfStatus, Latest
  <2> QED
    BY <2>1, <2>2, <2>3 DEF IInv
<1> QED
  BY <1>1, <1>2

LEMMA ExitBegunKeepsIInv == ASSUME IInv, ExitBegun PROVE IInv'
<1>1. queue # <<>> /\ stage = "ready" /\ queue[1].op = "exit"
  BY ReadyFacts DEF ExitBegun
<1>2. AnnouncedButExit' /\ RecorderAheadOfStatus'
  BY <1>1 DEF ExitBegun, IInv, AnnouncedButExit, RecorderAheadOfStatus
<1> QED
  BY <1>1, <1>2, IOKeepsIInv DEF ExitBegun, IInv, TypeOK, Lifecycles

LEMMA RecordingFailsFacts ==
    ASSUME IInv, RecordingFails
    PROVE  recording' = "failed" /\ version' \in Nat
BY DEF IInv, TypeOK, RecordingFails

LEMMA StartKeepsIInv ==
    ASSUME IInv, StartBegun \/ (\E ok \in BOOLEAN : StartReturned(ok))
    PROVE  IInv'
<1>1. CASE StartBegun
  <2>1. queue # <<>> /\ stage = "ready" /\ Latest = lifecycle
    BY <1>1, ReadyFacts DEF StartBegun
  <2>2. CASE recording = "active" /\ Leave("ok") /\ UNCHANGED enabled
    <3>1. LeavesWell
      BY <1>1, <2>1 DEF StartBegun, IInv, TypeOK, LeavesWell, Latest
    <3>2. RecorderAheadOfStatus'
      BY <1>1, <2>1, <2>2 DEF StartBegun, Leave, IInv, RecorderAheadOfStatus
    <3> QED
      BY <1>1, <2>1, <2>2, <3>1, <3>2, LeaveKeepsIInv DEF StartBegun, IInv, TypeOK
  <2>3. CASE /\ recording # "active" /\ enabled' = TRUE /\ stage' = "starting"
             /\ UNCHANGED <<queue, call>>
    <3>1. AnnouncedButExit'
      BY <1>1, <2>1, <2>3 DEF StartBegun, AnnouncedButExit, Latest
    <3>2. RecorderAheadOfStatus'
      BY <1>1, <2>3, Zenon DEF StartBegun, RecorderAheadOfStatus
    <3>3. enabled' \in BOOLEAN
      BY <2>3, Zenon
    <3> QED
      BY <1>1, <2>1, <2>3, <3>1, <3>2, <3>3, IOKeepsIInv DEF StartBegun, IInv, TypeOK
  <2> QED
    BY <1>1, <2>2, <2>3 DEF StartBegun
<1>2. ASSUME NEW ok \in BOOLEAN, StartReturned(ok) PROVE IInv'
  <2>1. queue # <<>> /\ lifecycle' = lifecycle /\ lifecycle \in Lifecycles
    BY <1>2 DEF StartReturned, IInv, TypeOK
  <2>2. published' \in Seq(Lifecycles) /\ published' # <<>> /\ Latest' = lifecycle'
    BY <1>2, <2>1, PublishFacts DEF StartReturned, IInv
  <2>3. /\ recording' = IF ok THEN "active" ELSE "failed"
        /\ version' \in Nat
    BY <1>2, RecordingFailsFacts DEF StartReturned, IInv, TypeOK
  <2>4. waiting' \subseteq waiting
    BY <1>2 DEF StartReturned, NotifyWaiters
  <2>5. PICK outcome \in {"ok", "rejected"} : Leave(outcome)
    BY <1>2 DEF StartReturned
  <2>6. LeavesWell
    BY <1>2, <2>1, <2>2, <2>3, <2>4 DEF StartReturned, IInv, TypeOK, LeavesWell
  <2>7. RecorderAheadOfStatus'
    <3>1. CASE ok
      <4>1. enabled' /\ recording' = "active"
        BY <1>2, <2>3, <3>1, Zenon DEF StartReturned
      <4>2. stage' = "ready"
        BY <2>5 DEF Leave
      <4> QED
        BY <4>1, <4>2 DEF RecorderAheadOfStatus
    <3>2. CASE ~ok
      BY <2>3, <3>2 DEF RecorderAheadOfStatus
    <3> QED
      BY <3>1, <3>2
  <2>8. recording' \in {"inactive", "active", "failed"} /\ enabled' \in BOOLEAN
    BY <1>2, <2>3 DEF StartReturned
  <2> QED
    BY <2>1, <2>5, <2>6, <2>7, <2>8, LeaveKeepsIInv
<1> QED
  BY <1>1, <1>2

LEMMA StopOrFinalizeKeepsIInv ==
    ASSUME IInv, NEW op \in {"stop", "finalize"}, StopOrFinalize(op)
    PROVE  IInv'
<1>1. queue # <<>> /\ stage = "ready" /\ Latest = lifecycle
  BY ReadyFacts DEF StopOrFinalize
<1>2. lifecycle' = lifecycle /\ lifecycle \in Lifecycles
  BY DEF StopOrFinalize, IInv, TypeOK
<1>3. CASE recording = "inactive" /\ Leave("ok") /\ Silent /\ UNCHANGED <<recording, enabled>>
  <2>1. LeavesWell
    BY <1>1, <1>2, <1>3, SilentFacts DEF StopOrFinalize, IInv, TypeOK, LeavesWell
  <2>2. RecorderAheadOfStatus'
    BY <1>1, <1>3 DEF Leave, IInv, RecorderAheadOfStatus
  <2> QED
    BY <1>1, <1>3, <2>1, <2>2, LeaveKeepsIInv DEF IInv, TypeOK
<1>4. CASE /\ recording # "inactive" /\ recording' = "inactive" /\ enabled' = FALSE
           /\ Leave("ok") /\ Announce
  <2>1. LeavesWell
    BY <1>1, <1>2, <1>4, AnnounceFacts DEF StopOrFinalize, IInv, TypeOK, LeavesWell
  <2>2. enabled' \in BOOLEAN /\ ~enabled'
    BY <1>4, Zenon
  <2>3. RecorderAheadOfStatus'
    BY <1>4, <2>2 DEF Leave, RecorderAheadOfStatus
  <2> QED
    BY <1>1, <1>4, <2>1, <2>2, <2>3, LeaveKeepsIInv
<1>5. CASE /\ recording # "inactive" /\ RecordingFails /\ UNCHANGED enabled
           /\ Publish(<<lifecycle>>) /\ NotifyWaiters /\ Leave("rejected")
  <2>1. recording' = "failed" /\ version' \in Nat
    BY <1>5, RecordingFailsFacts
  <2>2. published' \in Seq(Lifecycles) /\ published' # <<>> /\ Latest' = lifecycle'
    BY <1>2, <1>5, PublishFacts DEF IInv
  <2>3. LeavesWell
    BY <1>2, <1>5, <2>1, <2>2 DEF StopOrFinalize, IInv, TypeOK, LeavesWell, NotifyWaiters
  <2>4. RecorderAheadOfStatus'
    BY <1>5, <2>1 DEF Leave, RecorderAheadOfStatus
  <2> QED
    BY <1>1, <1>5, <2>1, <2>3, <2>4, LeaveKeepsIInv DEF IInv, TypeOK
<1> QED
  BY <1>3, <1>4, <1>5 DEF StopOrFinalize

LEMMA CloseOperationKeepsIInv == ASSUME IInv, CloseOperation PROVE IInv'
<1>1. queue # <<>> /\ stage = "ready" /\ Latest = lifecycle
  BY ReadyFacts DEF CloseOperation
<1>2. PICK outcome \in {"ok", "rejected"} : Leave(outcome)
  BY DEF CloseOperation
<1>3. RecorderAheadOfStatus'
  BY <1>1, <1>2 DEF CloseOperation, Leave, IInv, RecorderAheadOfStatus
<1>4. LeavesWell
  <2>1. CASE lifecycle # "running" /\ Silent /\ UNCHANGED <<pty, lifecycle>>
    BY <1>1, <2>1, SilentFacts DEF CloseOperation, IInv, TypeOK, LeavesWell
  <2>2. CASE /\ lifecycle = "running" /\ lifecycle' = "exiting"
             /\ pty' = IF pty = "running" THEN "killed" ELSE pty
             /\ version' = version + 1 /\ Publish(<<"exiting">>) /\ NotifyWaiters
    <3>1. published' \in Seq(Lifecycles) /\ published' # <<>> /\ Latest' = lifecycle'
      BY <2>2, PublishFacts DEF IInv, Lifecycles
    <3> QED
      BY <2>2, <3>1
         DEF CloseOperation, IInv, TypeOK, LeavesWell, NotifyWaiters, Lifecycles
  <2>3. CASE /\ lifecycle = "running" /\ version' = version + 2
             /\ Publish(<<"exiting", "running">>) /\ NotifyWaiters /\ UNCHANGED <<pty, lifecycle>>
    <3>1. published' \in Seq(Lifecycles) /\ published' # <<>> /\ Latest' = lifecycle'
      BY <2>3, PublishFacts DEF IInv, Lifecycles
    <3> QED
      BY <2>3, <3>1
         DEF CloseOperation, IInv, TypeOK, LeavesWell, NotifyWaiters, Lifecycles
  <2> QED
    BY <2>1, <2>2, <2>3 DEF CloseOperation
<1> QED
  BY <1>1, <1>2, <1>3, <1>4, LeaveKeepsIInv DEF CloseOperation, IInv, TypeOK

LEMMA AppendReturnedKeepsIInv ==
    ASSUME IInv, NEW failed \in BOOLEAN, AppendReturned(failed)
    PROVE  IInv'
<1>1. queue # <<>> /\ stage = "append" /\ lifecycle' = lifecycle /\ lifecycle \in Lifecycles
  BY DEF AppendReturned, IInv, TypeOK
<1>2. Head(queue) = queue[1]
  BY <1>1, FirstFacts DEF IInv
<1>3. /\ recording' = IF failed THEN "failed" ELSE recording
      /\ version' \in Nat
  BY RecordingFailsFacts DEF AppendReturned, IInv, TypeOK
<1>4. waiting' \subseteq waiting
  BY DEF AppendReturned, NotifyWaiters
<1>5. published' \in Seq(Lifecycles) /\ published' # <<>> /\ Latest' = lifecycle'
  <2>1. CASE failed \/ queue[1].op \in Publishing
    BY <1>1, <1>2, <2>1, PublishFacts DEF AppendReturned, IInv
  <2>2. CASE ~failed /\ queue[1].op \notin Publishing
    BY <1>1, <1>2, <2>2
       DEF AppendReturned, IInv, TypeOK, AnnouncedButExit, Publishing, Latest
  <2> QED
    BY <2>1, <2>2
<1>6. RecorderAheadOfStatus'
  <2>1. stage' = "ready" /\ enabled' = enabled
    BY DEF AppendReturned, Leave
  <2> QED
    BY <1>1, <1>3, <2>1 DEF IInv, RecorderAheadOfStatus
<1>7. LeavesWell
  BY <1>1, <1>3, <1>4, <1>5 DEF AppendReturned, IInv, TypeOK, LeavesWell
<1>8. CASE Leave("ok")
  BY <1>1, <1>3, <1>6, <1>7, <1>8, LeaveKeepsIInv DEF AppendReturned, IInv, TypeOK
<1>9. CASE queue' = Tail(queue) /\ stage' = "ready" /\ call' = ResolveExitWaiters
  <2>1. /\ call' \in [Calls -> CallRecord]
        /\ \A c \in Calls : call'[c].phase = "finalized" => call[c].phase = "finalized"
    BY <1>9 DEF ResolveExitWaiters, IInv, TypeOK, CallRecord
  <2>2. queue \in Seq(QueueEntry)
    BY DEF IInv, TypeOK, QueueEntry
  <2>3. /\ queue' \in Seq(QueueEntry)
        /\ \A i \in 1..Len(queue') : i + 1 \in 1..Len(queue) /\ queue'[i] = queue[i + 1]
    BY <1>1, <1>9, <2>2
  <2>4. TypeOK'
    BY <1>3, <1>7, <1>9, <2>1, <2>3
       DEF AppendReturned, IInv, TypeOK, LeavesWell, QueueEntry
  <2>5. FinalizedOnlyExited'
    BY <1>1, <2>1, <2>3 DEF IInv, FinalizedOnlyExited
  <2>6. AnnouncedButExit' /\ RemovedOnlyExited'
    BY <1>1, <1>5, <1>7 DEF LeavesWell, IInv, AnnouncedButExit, RemovedOnlyExited
  <2> QED
    BY <1>6, <2>4, <2>5, <2>6 DEF IInv
<1> QED
  BY <1>8, <1>9 DEF AppendReturned

-----------------------------------------------------------------------------
\* Calls, their continuations and events.

\* A step that leaves the queue's operation alone, and may enqueue another one.
LEMMA EventKeepsIInv ==
    ASSUME IInv,
           UNCHANGED <<stage, lifecycle, recording, enabled>>,
           \/ UNCHANGED queue
           \/ \E op \in Operations, c \in Calls \cup {NoCall} :
                  Enqueue(op, c) /\ (op = "finalize" => lifecycle = "exited"),
           call' \in [Calls -> CallRecord],
           \A c \in Calls : call'[c].phase = "finalized" => call[c].phase = "finalized",
           pty' \in {"running", "killed", "exited"}, emitted' \in 0..MaxOutput,
           sequence' \in Nat, version' \in Nat,
           integration' \in {"initializing", "settled"},
           waiting' \subseteq Observers \X Nat,
           present' \in BOOLEAN, RemovedOnlyExited',
           published' \in Seq(Lifecycles), published' # <<>>,
           Latest' = lifecycle \/ Latest' = Latest
    PROVE  IInv'
<1>1. CASE UNCHANGED queue
  <2>1. TypeOK'
    BY <1>1 DEF IInv, TypeOK
  <2>2. FinalizedOnlyExited' /\ AnnouncedButExit' /\ RecorderAheadOfStatus'
    BY <1>1 DEF IInv, FinalizedOnlyExited, AnnouncedButExit, RecorderAheadOfStatus
  <2> QED
    BY <2>1, <2>2 DEF IInv
<1>2. ASSUME NEW op \in Operations, NEW c \in Calls \cup {NoCall},
             Enqueue(op, c), op = "finalize" => lifecycle = "exited"
      PROVE  IInv'
  <2>1. /\ queue' \in Seq(QueueEntry) /\ queue' # <<>>
        /\ queue # <<>> => queue'[1] = queue[1]
        /\ \A i \in 1..Len(queue') :
               queue'[i].op = op \/ (i \in 1..Len(queue) /\ queue'[i] = queue[i])
    BY <1>2, EnqueueFacts DEF IInv
  <2>2. TypeOK'
    BY <2>1 DEF IInv, TypeOK, QueueEntry
  <2>3. FinalizedOnlyExited'
    BY <1>2, <2>1 DEF IInv, FinalizedOnlyExited
  <2>4. AnnouncedButExit' /\ RecorderAheadOfStatus'
    BY <2>1 DEF IInv, TypeOK, AnnouncedButExit, RecorderAheadOfStatus
  <2> QED
    BY <2>2, <2>3, <2>4 DEF IInv
<1> QED
  BY <1>1, <1>2

LEMMA CloseResumedKeepsIInv == ASSUME IInv, NEW c \in Calls, CloseResumed(c) PROVE IInv'
<1>1. /\ call' \in [Calls -> CallRecord]
      /\ \A d \in Calls : call'[d].phase = "finalized" => call[d].phase = "finalized"
  <2>1. call \in [Calls -> CallRecord]
    BY DEF IInv, TypeOK
  <2>2. CASE call' = Done(c, "pending")
    BY <2>2, DoneFacts DEF IInv
  <2>3. ASSUME NEW phase \in {"waiting", "queued"}, call' = [call EXCEPT ![c].phase = phase]
        PROVE  /\ call' \in [Calls -> CallRecord]
               /\ \A d \in Calls : call'[d].phase = "finalized" => call[d].phase = "finalized"
    BY <2>1, <2>3 DEF CallRecord
  <2> QED
    BY <2>2, <2>3 DEF CloseResumed
<1>2. \/ UNCHANGED queue
      \/ Enqueue("finalize", c) /\ lifecycle = "exited"
  BY DEF CloseResumed
<1>3. "finalize" \in Operations
  BY DEF Operations
<1>4. UNCHANGED <<pty, emitted, stage, lifecycle, version, sequence, integration, recording,
                  enabled, waiting, present, published>>
  BY DEF CloseResumed
<1>5. Latest' = Latest /\ RemovedOnlyExited'
  BY <1>4 DEF Latest, IInv, RemovedOnlyExited
<1> QED
  BY <1>1, <1>2, <1>3, <1>4, <1>5, EventKeepsIInv DEF IInv, TypeOK

LEMMA CloseFinalizedKeepsIInv == ASSUME IInv, NEW c \in Calls, CloseFinalized(c) PROVE IInv'
<1>1. /\ call' \in [Calls -> CallRecord]
      /\ \A d \in Calls : call'[d].phase = "finalized" => call[d].phase = "finalized"
  BY DoneFacts DEF CloseFinalized, IInv
<1>2. UNCHANGED <<pty, emitted, queue, stage, lifecycle, version, sequence, recording, enabled,
                  published>>
  BY DEF CloseFinalized
<1>3. present' \in BOOLEAN /\ waiting' \subseteq Observers \X Nat /\ integration' = "settled"
  BY Zenon DEF CloseFinalized
<1>4. lifecycle = "exited"
  BY DEF CloseFinalized, IInv, FinalizedOnlyExited
<1>5. Latest' = Latest /\ RemovedOnlyExited'
  BY <1>2, <1>4 DEF Latest, RemovedOnlyExited
<1> QED
  BY <1>1, <1>2, <1>3, <1>5, EventKeepsIInv DEF IInv, TypeOK

LEMMA CloseTimedOutKeepsIInv == ASSUME IInv, NEW c \in Calls, CloseTimedOut(c) PROVE IInv'
<1>1. /\ call' \in [Calls -> CallRecord]
      /\ \A d \in Calls : call'[d].phase = "finalized" => call[d].phase = "finalized"
  BY DoneFacts DEF CloseTimedOut, IInv
<1>2. UNCHANGED <<pty, emitted, queue, stage, lifecycle, version, sequence, integration,
                  recording, enabled, waiting, present, published>>
  BY DEF CloseTimedOut
<1>3. Latest' = Latest /\ RemovedOnlyExited'
  BY <1>2 DEF Latest, IInv, RemovedOnlyExited
<1> QED
  BY <1>1, <1>2, <1>3, EventKeepsIInv DEF IInv, TypeOK

LEMMA MakeCallKeepsIInv ==
    ASSUME IInv, NEW c \in Calls, NEW kind \in Kinds, MakeCall(c, kind)
    PROVE  IInv'
<1>1. /\ call' \in [Calls -> CallRecord]
      /\ \A d \in Calls : call'[d].phase = "finalized" => call[d].phase = "finalized"
  <2>1. PICK phase \in {"queued", "waiting", "done"}, result \in {"none", "ok"} :
            call' = [call EXCEPT ![c] = [kind |-> kind, phase |-> phase, result |-> result]]
    BY DEF MakeCall
  <2>2. [kind |-> kind, phase |-> phase, result |-> result] \in CallRecord
    BY DEF CallRecord
  <2>3. call \in [Calls -> CallRecord]
    BY DEF IInv, TypeOK
  <2>4. call' \in [Calls -> CallRecord]
    BY <2>1, <2>2, <2>3
  <2>5. \A d \in Calls : call'[d] = call[d] \/ call'[d].phase = phase
    BY <2>1, <2>3
  <2> QED
    BY <2>4, <2>5
<1>2. UNCHANGED queue \/ (Enqueue(kind, c) /\ kind \in QueuedKinds)
  BY DEF MakeCall
<1>3. kind \in QueuedKinds => kind \in Operations /\ kind # "finalize"
  BY DEF QueuedKinds, Operations
<1>4. UNCHANGED <<pty, emitted, stage, lifecycle, version, sequence, integration, recording,
                  enabled, waiting, present, published>>
  BY DEF MakeCall
<1>5. Latest' = Latest /\ RemovedOnlyExited'
  BY <1>4 DEF Latest, IInv, RemovedOnlyExited
<1> QED
  BY <1>1, <1>2, <1>3, <1>4, <1>5, EventKeepsIInv DEF IInv, TypeOK

LEMMA EventsKeepIInv ==
    ASSUME IInv,
           \/ \E o \in Observers : Observe(o) \/ ObserveEnds(o)
           \/ PtyOutput \/ PtyExit \/ IntegrationTimedOut
    PROVE  IInv'
<1>1. ASSUME NEW o \in Observers, Observe(o) \/ ObserveEnds(o) PROVE IInv'
  <2>1. UNCHANGED <<pty, emitted, queue, stage, lifecycle, version, sequence, integration,
                    recording, enabled, call, present, published>>
    BY <1>1 DEF Observe, ObserveEnds
  <2>2. waiting' \subseteq Observers \X Nat
    BY <1>1 DEF Observe, ObserveEnds, IInv, TypeOK
  <2>3. Latest' = Latest /\ RemovedOnlyExited'
    BY <2>1 DEF Latest, IInv, RemovedOnlyExited
  <2> QED
    BY <2>1, <2>2, <2>3, EventKeepsIInv DEF IInv, TypeOK
<1>2. CASE PtyOutput \/ PtyExit
  <2>1. UNCHANGED <<stage, lifecycle, version, sequence, integration, recording, enabled,
                    call, waiting, present, published>>
    BY <1>2 DEF PtyOutput, PtyExit
  <2>2. PICK op \in {"output", "exit"} : Enqueue(op, NoCall)
    BY <1>2 DEF PtyOutput, PtyExit
  <2>3. emitted' \in 0..MaxOutput /\ pty' \in {"running", "killed", "exited"}
    BY <1>2, MaxOutputAssumption DEF PtyOutput, PtyExit, IInv, TypeOK
  <2>4. Latest' = Latest /\ RemovedOnlyExited'
    BY <2>1 DEF Latest, IInv, RemovedOnlyExited
  <2>5. \E o \in Operations, c \in Calls \cup {NoCall} :
            Enqueue(o, c) /\ (o = "finalize" => lifecycle = "exited")
    <3>1. op \in Operations /\ op # "finalize"
      BY DEF Operations
    <3> QED
      BY <2>2, <3>1
  <2> QED
    BY <2>1, <2>3, <2>4, <2>5, EventKeepsIInv DEF IInv, TypeOK
<1>3. CASE IntegrationTimedOut
  <2>1. /\ version' \in Nat /\ waiting' \subseteq waiting
        /\ published' \in Seq(Lifecycles) /\ published' # <<>> /\ Latest' = lifecycle'
    BY <1>3, AnnounceFacts DEF IntegrationTimedOut
  <2>2. integration' = "settled"
    BY <1>3 DEF IntegrationTimedOut
  <2>3. UNCHANGED <<pty, emitted, queue, stage, lifecycle, sequence, recording, enabled, call,
                    present>>
    BY <1>3 DEF IntegrationTimedOut
  <2>4. TypeOK'
    BY <2>1, <2>2, <2>3 DEF IInv, TypeOK
  <2>5. FinalizedOnlyExited' /\ RecorderAheadOfStatus' /\ RemovedOnlyExited'
    BY <2>3 DEF IInv, FinalizedOnlyExited, RecorderAheadOfStatus, RemovedOnlyExited
  <2>6. AnnouncedButExit'
    BY <2>1 DEF AnnouncedButExit
  <2> QED
    BY <2>4, <2>5, <2>6 DEF IInv
<1> QED
  BY <1>1, <1>2, <1>3

LEMMA InitIInv == Init => IInv
<1> SUFFICES ASSUME Init PROVE IInv
  OBVIOUS
<1>1. enabled \in BOOLEAN /\ present \in BOOLEAN /\ ~enabled /\ present
  BY Zenon DEF Init
<1>2. published = <<"running">> /\ "running" \in Lifecycles /\ lifecycle = "running"
  BY DEF Init, Lifecycles
<1>3. published \in Seq(Lifecycles) /\ published # <<>> /\ Latest = lifecycle
  BY <1>2 DEF Latest
<1>4. call \in [Calls -> CallRecord] /\ \A c \in Calls : call[c].phase = "unused"
  BY DEF Init, Unused, CallRecord, Kinds
<1>5. TypeOK
  BY <1>1, <1>2, <1>3, <1>4, MaxOutputAssumption DEF Init, TypeOK
<1>6. FinalizedOnlyExited /\ AnnouncedButExit
  BY <1>3, <1>4 DEF Init, FinalizedOnlyExited, AnnouncedButExit
<1>7. RecorderAheadOfStatus /\ RemovedOnlyExited
  BY <1>1 DEF Init, RecorderAheadOfStatus, RemovedOnlyExited
<1> QED
  BY <1>5, <1>6, <1>7 DEF IInv

LEMMA NextKeepsIInv == IInv /\ [Next]_vars => IInv'
<1> SUFFICES ASSUME IInv, [Next]_vars PROVE IInv'
  OBVIOUS
<1>1. CASE UNCHANGED vars
  BY <1>1
     DEF vars, IInv, TypeOK, FinalizedOnlyExited, AnnouncedButExit, Latest,
         RecorderAheadOfStatus, RemovedOnlyExited
<1>2. CASE QueueStep
  BY <1>2, RejectKeepsIInv, InputKeepsIInv, ResizeKeepsIInv, ScrollKeepsIInv,
     SetPresentationKeepsIInv, OutputKeepsIInv, ExitBegunKeepsIInv, AppendReturnedKeepsIInv,
     StartKeepsIInv, StopOrFinalizeKeepsIInv, CloseOperationKeepsIInv
     DEF QueueStep
<1>3. ASSUME NEW c \in Calls, CallStep(c) PROVE IInv'
  BY <1>3, CloseResumedKeepsIInv, CloseFinalizedKeepsIInv, CloseTimedOutKeepsIInv DEF CallStep
<1> QED
  BY <1>1, <1>2, <1>3, MakeCallKeepsIInv, EventsKeepIInv DEF Next

-----------------------------------------------------------------------------
\* Every state of a session is one its types describe; an operation's I/O is under
\* way only while the operation is in the queue.
THEOREM TypeCorrect == Spec => []TypeOK
<1>1. IInv => TypeOK
  BY DEF IInv
<1> QED
  BY <1>1, InitIInv, NextKeepsIInv, PTL DEF Spec

\* The manager forgets a session only after the exit of its process, however many
\* closes overlap, fail or time out, and whatever is queued between them.
THEOREM RemovalSafe == Spec => []RemovedOnlyExited
<1>1. IInv => RemovedOnlyExited
  BY DEF IInv
<1> QED
  BY <1>1, InitIInv, NextKeepsIInv, PTL DEF Spec

\* Between operations, the lifecycle the renderer was told last is the session's, and
\* the recording status is what the recorder does.
THEOREM AnnouncementsTrue == Spec => [](PublishedIsActual /\ RecorderAgrees)
<1>1. IInv => PublishedIsActual /\ RecorderAgrees
  BY DEF IInv, AnnouncedButExit, RecorderAheadOfStatus, PublishedIsActual, RecorderAgrees
<1> QED
  BY <1>1, InitIInv, NextKeepsIInv, PTL DEF Spec

LEMMA NextKeepsExited == [Next]_vars => (lifecycle = "exited" => lifecycle' = "exited")
<1> SUFFICES ASSUME [Next]_vars, lifecycle = "exited" PROVE lifecycle' = "exited"
  OBVIOUS
<1>1. CASE UNCHANGED vars
  BY <1>1 DEF vars
<1>2. CASE QueueStep
  BY <1>2
     DEF QueueStep, Reject, Input, Resize, Scroll, SetPresentation, OutputBegun, OutputWritten,
         ExitBegun, AppendReturned, StartBegun, StartReturned, StopOrFinalize, CloseOperation
<1>3. ASSUME NEW c \in Calls, CallStep(c) \/ (\E kind \in Kinds : MakeCall(c, kind))
      PROVE  lifecycle' = "exited"
  BY <1>3 DEF CallStep, CloseResumed, CloseFinalized, CloseTimedOut, MakeCall
<1>4. CASE \/ \E o \in Observers : Observe(o) \/ ObserveEnds(o)
           \/ PtyOutput \/ PtyExit \/ IntegrationTimedOut
  BY <1>4 DEF Observe, ObserveEnds, PtyOutput, PtyExit, IntegrationTimedOut
<1> QED
  BY <1>1, <1>2, <1>3, <1>4 DEF Next

\* No call that is queued behind the exit, and no failure, brings a session back.
THEOREM ExitFinal == Spec => ExitedIsFinal
<1>1. [Next]_vars => [lifecycle = "exited" => lifecycle' = "exited"]_vars
  BY NextKeepsExited
<1> QED
  BY <1>1, PTL DEF Spec, ExitedIsFinal

-----------------------------------------------------------------------------
\* Observers.

Awake == \A w \in waiting : version <= w[2] /\ lifecycle # "exited"

\* An observer is behind only while an operation that will tell it is being recorded.
WakeupPending ==
    /\ stage = "writing" => Head(queue).op = "output"
    /\ Awake \/ (stage = "append" /\ Head(queue).op \in Notifying)

LEMMA NotifyFacts == NotifyWaiters => Awake'
  BY DEF NotifyWaiters, Awake

LEMMA AnnounceKeepsAwake == Awake /\ (Announce \/ (Silent /\ UNCHANGED lifecycle)) => Awake'
  BY NotifyFacts DEF Announce, Silent, Awake

\* What is enqueued does not come first while something else does.
LEMMA EnqueueKeepsPending ==
  ASSUME TypeOK, WakeupPending, NEW op, NEW c, Enqueue(op, c), op \in Operations, c \in Calls \cup {NoCall},
         UNCHANGED <<stage, version, lifecycle, waiting>>
  PROVE  WakeupPending'
<1>1. stage # "ready" => Head(queue') = Head(queue)
  BY DEF TypeOK, Enqueue
<1>2. stage \in {"writing", "append"} => Head(queue') = Head(queue)
  BY <1>1
<1>3. QED BY <1>2 DEF WakeupPending, Awake

LEMMA QueueStepKeepsPending == ASSUME TypeOK, WakeupPending, QueueStep PROVE WakeupPending'
<1>1. ASSUME NEW op \in QueuedKinds, Reject(op) PROVE WakeupPending'
  BY <1>1 DEF Reject, Leave, Ready, WakeupPending, Awake
<1>2. CASE Input
  <2>1. Awake /\ UNCHANGED lifecycle
    BY <1>2 DEF Input, Ready, WakeupPending
  <2>2. Awake'
    BY <1>2, <2>1, AnnounceKeepsAwake DEF Input
  <2>3. stage' # "writing"
    BY <1>2 DEF Input, Leave
  <2>4. QED BY <2>2, <2>3 DEF WakeupPending
<1>3. CASE Resize
  <2>1. Awake /\ stage = "ready" /\ Head(queue).op = "resize"
    BY <1>3 DEF Resize, Ready, WakeupPending
  <2>2. QED BY <1>3, <2>1 DEF Resize, Leave, WakeupPending, Awake, Notifying
<1>4. CASE Scroll
  <2>1. Awake /\ UNCHANGED lifecycle /\ stage' = "ready"
    BY <1>4 DEF Scroll, Ready, Leave, WakeupPending
  <2>2. Awake'
    BY <1>4, <2>1, NotifyFacts DEF Scroll, Awake
  <2>3. QED BY <2>1, <2>2 DEF WakeupPending
<1>5. CASE SetPresentation
  <2>1. Awake /\ UNCHANGED lifecycle /\ stage' = "ready"
    BY <1>5 DEF SetPresentation, Ready, Leave, WakeupPending
  <2>2. QED BY <1>5, <2>1, AnnounceKeepsAwake DEF SetPresentation, WakeupPending
<1>6. CASE OutputBegun
  BY <1>6 DEF OutputBegun, Ready, WakeupPending, Awake
<1>7. CASE OutputWritten
  BY <1>7 DEF OutputWritten, WakeupPending, Notifying
<1>8. CASE ExitBegun
  BY <1>8 DEF ExitBegun, Ready, WakeupPending, Notifying
<1>9. ASSUME NEW failed \in BOOLEAN, AppendReturned(failed) PROVE WakeupPending'
  <2>1. stage' = "ready"
    BY <1>9 DEF AppendReturned, Leave
  <2>2. CASE failed \/ Head(queue).op \in Notifying
    <3>1. NotifyWaiters
      BY <1>9, <2>2 DEF AppendReturned
    <3>2. QED BY <2>1, <3>1, NotifyFacts DEF WakeupPending
  <2>3. CASE ~failed /\ Head(queue).op \notin Notifying
    <3>1. UNCHANGED <<waiting, version, lifecycle>>
      BY <1>9, <2>3 DEF AppendReturned
    <3>2. QED BY <2>1, <2>3, <3>1 DEF WakeupPending, Awake
  <2>4. QED BY <2>2, <2>3
<1>10. CASE StartBegun
  BY <1>10 DEF StartBegun, Leave, Ready, WakeupPending, Awake
<1>11. ASSUME NEW ok \in BOOLEAN, StartReturned(ok) PROVE WakeupPending'
  BY <1>11, NotifyFacts DEF StartReturned, Leave, WakeupPending
<1>12. ASSUME NEW op \in {"stop", "finalize"}, StopOrFinalize(op) PROVE WakeupPending'
  <2>1. Awake /\ UNCHANGED lifecycle /\ stage' = "ready"
    BY <1>12 DEF StopOrFinalize, Ready, Leave, WakeupPending
  <2>2. Silent \/ NotifyWaiters
    BY <1>12 DEF StopOrFinalize, Announce
  <2>3. QED BY <2>1, <2>2, AnnounceKeepsAwake, NotifyFacts DEF WakeupPending
<1>13. CASE CloseOperation
  <2>1. Awake /\ stage' = "ready"
    BY <1>13 DEF CloseOperation, Ready, Leave, WakeupPending
  <2>2. (Silent /\ UNCHANGED lifecycle) \/ NotifyWaiters
    BY <1>13 DEF CloseOperation
  <2>3. QED BY <2>1, <2>2, AnnounceKeepsAwake, NotifyFacts DEF WakeupPending
<1>14. QED
  BY <1>1, <1>2, <1>3, <1>4, <1>5, <1>6, <1>7, <1>8, <1>9, <1>10, <1>11, <1>12, <1>13 DEF QueueStep

LEMMA OthersKeepPending == ASSUME TypeOK, WakeupPending, Next, ~QueueStep PROVE WakeupPending'
<1>1. ASSUME NEW c \in Calls, CallStep(c) PROVE WakeupPending'
  <2>1. CASE CloseResumed(c)
    <3>1. UNCHANGED <<stage, version, lifecycle, waiting>> /\ (Enqueue("finalize", c) \/ UNCHANGED queue)
      BY <2>1 DEF CloseResumed
    <3>2. QED BY <3>1, EnqueueKeepsPending DEF WakeupPending, Awake, Operations
  <2>2. CASE CloseFinalized(c)
    BY <2>2 DEF CloseFinalized, WakeupPending, Awake
  <2>3. CASE CloseTimedOut(c)
    BY <2>3 DEF CloseTimedOut, WakeupPending, Awake
  <2>4. QED BY <1>1, <2>1, <2>2, <2>3 DEF CallStep
<1>2. ASSUME NEW c \in Calls, NEW kind \in Kinds, MakeCall(c, kind) PROVE WakeupPending'
  <2>1. /\ UNCHANGED <<stage, version, lifecycle, waiting>>
        /\ (kind \in QueuedKinds /\ Enqueue(kind, c)) \/ UNCHANGED queue
    BY <1>2 DEF MakeCall
  <2>2. QED BY <2>1, EnqueueKeepsPending DEF WakeupPending, Awake, Operations
<1>3. ASSUME NEW o \in Observers, Observe(o) PROVE WakeupPending'
  <2>1. /\ lifecycle # "exited" /\ waiting' = waiting \cup {<<o, version>>} /\ version \in Nat
        /\ UNCHANGED <<queue, stage, version, lifecycle>>
    BY <1>3 DEF Observe, TypeOK
  <2>2. Awake => Awake'
    BY <2>1 DEF Awake
  <2>3. QED BY <2>1, <2>2 DEF WakeupPending
<1>4. ASSUME NEW o \in Observers, ObserveEnds(o) PROVE WakeupPending'
  BY <1>4 DEF ObserveEnds, WakeupPending, Awake
<1>5. CASE PtyOutput \/ PtyExit
  <2>1. /\ UNCHANGED <<stage, version, lifecycle, waiting>>
        /\ Enqueue("output", NoCall) \/ Enqueue("exit", NoCall)
    BY <1>5 DEF PtyOutput, PtyExit
  <2>2. QED BY <2>1, EnqueueKeepsPending DEF Operations
<1>6. CASE IntegrationTimedOut
  BY <1>6, NotifyFacts DEF IntegrationTimedOut, Announce, WakeupPending
<1>7. QED BY <1>1, <1>2, <1>3, <1>4, <1>5, <1>6 DEF Next

\* No observer is left behind the version of a session, nor waiting after its exit,
\* when no operation is under way (observation-waiters.ts, notify): whatever is
\* called, fails, is recorded or times out meanwhile.
THEOREM ObserversAwake == Spec => []NoMissedWakeup
<1>1. Init => WakeupPending
  BY DEF Init, WakeupPending, Awake
<1>2. TypeOK /\ WakeupPending /\ [Next]_vars => WakeupPending'
  <2> SUFFICES ASSUME TypeOK, WakeupPending, [Next]_vars PROVE WakeupPending'
    OBVIOUS
  <2>1. CASE UNCHANGED vars
    BY <2>1 DEF vars, WakeupPending, Awake
  <2>2. CASE QueueStep
    BY <2>2, QueueStepKeepsPending
  <2>3. CASE Next /\ ~QueueStep
    BY <2>3, OthersKeepPending
  <2>4. QED BY <2>1, <2>2, <2>3
<1>3. WakeupPending => NoMissedWakeup
  BY DEF WakeupPending, Awake, NoMissedWakeup
<1>4. QED BY <1>1, <1>2, <1>3, TypeCorrect, PTL DEF Spec

=============================================================================
