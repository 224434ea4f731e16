-------------------------- MODULE PresentationProofs --------------------------
(***************************************************************************)
(* Proofs about Presentation, for any sessions, windows, commands alive    *)
(* together and bounds: types, that no session is left "opening", that a   *)
(* registered view exists or is about to, and that a session that is said  *)
(* to be presented has one.                                                *)
(*                                                                         *)
(* Whatever the controller does for a session, it takes the transition one *)
(* stage on (Progressed).  That is shown of each of its operators first;   *)
(* the invariants then need one argument for all of them.                  *)
(***************************************************************************)
EXTENDS Presentation, SequenceTheorems, TLAPS

Commanding == {"showing", "focusing", "hiding"}

LEMMA UpdateTyped ==
  /\ \A state \in States : Update(state, "transition", NoWindow) \in Updates
  /\ \A state \in States, by \in Waiters \ {"transition"}, w \in Windows : Update(state, by, w) \in Updates
  /\ \A state, by, w : /\ Update(state, by, w).state = state /\ Update(state, by, w).by = by
                       /\ Update(state, by, w).window = w
  /\ \A u \in Updates : u.state \in States /\ u.by \in Waiters
                        /\ (u.by = "transition" => u.window = NoWindow)
                        /\ (u.by # "transition" => u.window \in Windows)
  BY DEF Update, Updates, Waiters

\* What a step of the controller for session s may do, whose updates are `queue` and
\* beside whose commands there are `others`: settle the transition, or reject it if the
\* session has gone, or send a command, or wait for a window or a renderer.
Progressed(s, queue, others) ==
    /\ updates' \in [Sessions -> Seq(Updates)] /\ transition' \in [Sessions -> Transitions]
    /\ pending' \subseteq Commands /\ inbox' \in [Windows -> Seq(Messages)]
    /\ \A r \in Sessions \ {s} : updates'[r] = updates[r] /\ transition'[r] = transition[r]
    /\ \A w \in Windows :
          \/ inbox'[w] = inbox[w]
          \/ \E m \in Messages : /\ inbox'[w] = Append(inbox[w], m)
                                 /\ m.action = "open" => w \in ready
    /\ \/ /\ s \in live /\ transition'[s].stage = "settling" /\ pending' = others
          /\ \E state \in States \ {"opening"} :
                updates'[s] = Append(queue, Update(state, "transition", NoWindow))
       \/ s \notin live /\ transition'[s] = Idle /\ updates'[s] = queue /\ pending' = others
       \/ /\ transition'[s].stage \in Commanding /\ updates'[s] = queue
          /\ \E p \in Commands : /\ p.session = s /\ p.by = "transition"
                                 /\ p.window = transition'[s].window
                                 /\ pending' = others \cup {p}
       \/ transition'[s].stage \in {"creating", "readying"} /\ updates'[s] = queue /\ pending' = others

LEMMA IdleTyped == Idle \in Transitions
  BY DEF Idle, Transitions, Stages, Requested, Owners

LEMMA SettleProgresses ==
  ASSUME TypeOK, NEW s \in Sessions, NEW queue \in Seq(Updates), NEW others \in SUBSET Commands,
         NEW state \in States \ {"opening"}, Settle(s, queue, state), Nothing(others)
  PROVE  Progressed(s, queue, others)
<1> DEFINE u == Update(state, "transition", NoWindow)
<1>0. u \in Updates /\ Append(queue, u) \in Seq(Updates)
  BY UpdateTyped, AppendProperties
<1>1. transition \in [Sessions -> Transitions] /\ updates \in [Sessions -> Seq(Updates)]
      /\ inbox \in [Windows -> Seq(Messages)]
  BY DEF TypeOK
<1>2. CASE s \in live
  <2>1. /\ updates' = [updates EXCEPT ![s] = Append(queue, u)]
        /\ transition' = [transition EXCEPT ![s] = [@ EXCEPT !.stage = "settling"]]
    BY <1>2 DEF Settle
  <2>2. [transition[s] EXCEPT !.stage = "settling"] \in Transitions
    BY <1>1 DEF Transitions, Stages
  <2>3. transition'[s].stage = "settling" /\ updates'[s] = Append(queue, u)
    BY <2>1, <1>1 DEF Transitions
  <2>4. transition' \in [Sessions -> Transitions] /\ updates' \in [Sessions -> Seq(Updates)]
    BY <2>1, <2>2, <1>0, <1>1
  <2>5. \A r \in Sessions \ {s} : updates'[r] = updates[r] /\ transition'[r] = transition[r]
    BY <2>1, <1>1
  <2>6. QED BY <1>1, <1>2, <2>3, <2>4, <2>5 DEF Progressed, Nothing
<1>3. CASE s \notin live
  <2>1. /\ updates' = [updates EXCEPT ![s] = queue] /\ transition' = [transition EXCEPT ![s] = Idle]
    BY <1>3 DEF Settle
  <2>2. QED BY <1>1, <1>3, <2>1, IdleTyped DEF Progressed, Nothing
<1>4. QED BY <1>2, <1>3

LEMMA FailProgresses ==
  ASSUME TypeOK, NEW s \in Sessions, NEW queue \in Seq(Updates), NEW others \in SUBSET Commands,
         Fail(s, queue, others)
  PROVE  Progressed(s, queue, others)
BY SettleProgresses DEF Fail, States

LEMMA CommandProgresses ==
  ASSUME TypeOK, NEW s \in Sessions, NEW queue \in Seq(Updates), NEW others \in SUBSET Commands,
         NEW t \in Transitions, NEW w \in Windows, NEW action \in Actions, NEW stage \in Commanding,
         action = "open" => w \in ready,
         Command(s, t, others, w, action, stage), updates' = [updates EXCEPT ![s] = queue]
  PROVE  Progressed(s, queue, others)
<1> DEFINE p == [id |-> FreshId, window |-> w, session |-> s, action |-> action, by |-> "transition"]
           m == [id |-> FreshId, session |-> s, action |-> action]
           t1 == [t EXCEPT !.stage = stage, !.window = w]
<1>1. transition \in [Sessions -> Transitions] /\ updates \in [Sessions -> Seq(Updates)]
      /\ inbox \in [Windows -> Seq(Messages)]
  BY DEF TypeOK
<1>2. FreshId \in Ids
  BY DEF Command, Send, FreshIds, FreshId, Ids
<1>3. p \in Commands /\ m \in Messages /\ m.action = action
  BY <1>2 DEF Commands, Messages
<1>4. t1 \in Transitions /\ t1.stage = stage /\ t1.window = w
  BY DEF Transitions, Stages, Commanding, Owners
<1>5. /\ pending' = others \cup {p} /\ inbox' = [inbox EXCEPT ![w] = Append(@, m)]
      /\ transition' = [transition EXCEPT ![s] = t1]
  BY DEF Command, Send
<1>6. Append(inbox[w], m) \in Seq(Messages)
  BY <1>1, <1>3, AppendProperties
<1>7. transition'[s].stage = stage /\ transition'[s].window = w /\ updates'[s] = queue
  BY <1>1, <1>4, <1>5
<1>8. inbox' \in [Windows -> Seq(Messages)] /\ updates' \in [Sessions -> Seq(Updates)]
      /\ transition' \in [Sessions -> Transitions] /\ pending' \subseteq Commands
  BY <1>1, <1>3, <1>4, <1>5, <1>6
<1>9. /\ \A r \in Sessions \ {s} : updates'[r] = updates[r] /\ transition'[r] = transition[r]
      /\ \A v \in Windows : \/ inbox'[v] = inbox[v]
                            \/ \E n \in Messages : /\ inbox'[v] = Append(inbox[v], n)
                                                   /\ n.action = "open" => v \in ready
  BY <1>1, <1>3, <1>5
<1>10. p.session = s /\ p.by = "transition" /\ p.window = transition'[s].window
  BY <1>7
<1>11. QED BY <1>3, <1>5, <1>7, <1>8, <1>9, <1>10 DEF Progressed

LEMMA WaitProgresses ==
  ASSUME TypeOK, NEW s \in Sessions, NEW queue \in Seq(Updates), NEW t \in Transitions,
         NEW w \in Windows, NEW stage \in {"creating", "readying"},
         transition' = [transition EXCEPT ![s] = [t EXCEPT !.stage = stage, !.window = w]],
         updates' = [updates EXCEPT ![s] = queue], Nothing(pending)
  PROVE  Progressed(s, queue, pending)
<1>1. transition \in [Sessions -> Transitions] /\ updates \in [Sessions -> Seq(Updates)]
      /\ inbox \in [Windows -> Seq(Messages)] /\ pending \subseteq Commands
  BY DEF TypeOK
<1>2. [t EXCEPT !.stage = stage, !.window = w] \in Transitions
      /\ [t EXCEPT !.stage = stage, !.window = w].stage = stage
  BY DEF Transitions, Stages, Owners
<1>3. QED BY <1>1, <1>2 DEF Progressed, Nothing

LEMMA PresentProgresses ==
  ASSUME TypeOK, NEW s \in Sessions, NEW queue \in Seq(Updates), NEW t \in Transitions,
         NEW w \in ready, Present(s, t, queue, w)
  PROVE  Progressed(s, queue, pending)
<1>1. w \in Windows /\ pending \subseteq Commands
  BY DEF TypeOK
<1>2. QED BY <1>1, CommandProgresses DEF Present, Actions, Commanding

LEMMA AwaitReadyProgresses ==
  ASSUME TypeOK, NEW s \in Sessions, NEW queue \in Seq(Updates), NEW t \in Transitions,
         NEW w \in Windows, AwaitReady(s, t, queue, w)
  PROVE  Progressed(s, queue, pending)
BY PresentProgresses, WaitProgresses DEF AwaitReady

\* What ensureRendererWindow does to the windows: one that is not born yet may be loaded.
WindowsEnsured ==
    /\ window' \in [Windows -> WindowStates] /\ creation' \in Owners
    /\ \A w \in Windows : window[w] # "unborn" => window'[w] = window[w]

LEMMA WindowsKept == TypeOK /\ UNCHANGED <<window, creation>> => WindowsEnsured
  BY DEF TypeOK, WindowsEnsured

LEMMA EnsureWindowProgresses ==
  ASSUME TypeOK, NEW s \in Sessions, NEW queue \in Seq(Updates), NEW t \in Transitions,
         t = transition[s], EnsureWindow(s, t, queue)
  PROVE  Progressed(s, queue, pending) /\ WindowsEnsured
<1>1. pending \in SUBSET Commands /\ window \in [Windows -> WindowStates] /\ creation \in Owners
      /\ transition \in [Sessions -> Transitions]
  BY DEF TypeOK
<1>2. ASSUME NEW w \in UsableWindows, AwaitReady(s, t, queue, w), UNCHANGED <<window, creation>>
      PROVE  Progressed(s, queue, pending) /\ WindowsEnsured
  BY <1>2, AwaitReadyProgresses, WindowsKept DEF UsableWindows
<1>3. ASSUME NEW w \in Windows, Await(s, queue, w)
      PROVE  Progressed(s, queue, pending)
  <2>1. transition' = [transition EXCEPT ![s] = [t EXCEPT !.stage = "creating", !.window = w]]
    BY <1>1, <1>3 DEF Await
  <2>2. QED BY <1>3, <2>1, WaitProgresses DEF Await
<1>4. CASE creation # NoWindow /\ Await(s, queue, creation) /\ UNCHANGED <<window, creation>>
  BY <1>1, <1>3, <1>4, WindowsKept DEF Owners
<1>5. CASE /\ UnbornWindows # {} /\ window' = [window EXCEPT ![NextWindow] = "loading"]
           /\ creation' = NextWindow /\ Await(s, queue, NextWindow)
  <2>1. NextWindow \in Windows /\ window[NextWindow] = "unborn"
    BY <1>5 DEF NextWindow, UnbornWindows
  <2>2. Progressed(s, queue, pending)
    BY <1>3, <1>5, <2>1
  <2>3. WindowsEnsured
    BY <1>1, <1>5, <2>1 DEF WindowsEnsured, WindowStates, Owners
  <2>4. QED BY <2>2, <2>3
<1>6. CASE Fail(s, queue, pending) /\ UNCHANGED <<window, creation>>
  BY <1>1, <1>6, FailProgresses, WindowsKept
<1>7. QED BY <1>2, <1>4, <1>5, <1>6 DEF EnsureWindow

LEMMA ProceedProgresses ==
  ASSUME TypeOK, NEW s \in Sessions, NEW queue \in Seq(Updates), Proceed(s, queue)
  PROVE  Progressed(s, queue, pending) /\ WindowsEnsured
<1> DEFINE t == transition[s]
<1>1. t \in Transitions /\ pending \in SUBSET Commands /\ t.owner \in Owners
  BY DEF TypeOK, Transitions
<1>2. Usable(t.owner) => t.owner \in Windows
  BY <1>1 DEF Usable, Owners
<1>3. CASE Settle(s, queue, "headless") /\ Nothing(pending) /\ UNCHANGED <<window, creation>>
  BY <1>1, <1>3, SettleProgresses, WindowsKept DEF States, Requested
<1>4. CASE Fail(s, queue, pending) /\ UNCHANGED <<window, creation>>
  BY <1>1, <1>4, FailProgresses, WindowsKept
<1>5. CASE /\ Usable(t.owner) /\ Command(s, t, pending, t.owner, "hide", "hiding")
           /\ updates' = [updates EXCEPT ![s] = queue] /\ UNCHANGED <<window, creation>>
  BY <1>1, <1>2, <1>5, CommandProgresses, WindowsKept DEF Actions, Commanding
<1>6. CASE Usable(t.owner) /\ AwaitReady(s, t, queue, t.owner) /\ UNCHANGED <<window, creation>>
  BY <1>1, <1>2, <1>6, AwaitReadyProgresses, WindowsKept
<1>7. CASE EnsureWindow(s, t, queue)
  BY <1>1, <1>7, EnsureWindowProgresses
<1>8. QED BY <1>3, <1>4, <1>5, <1>6, <1>7 DEF Proceed

LEMMA AcknowledgedProgresses ==
  ASSUME TypeOK, NEW s \in Sessions, NEW others \in SUBSET Commands, Acknowledged(s, others)
  PROVE  Progressed(s, updates[s], others)
<1> DEFINE t == transition[s]
           opened == IF t.owner = NoWindow THEN registry[s] ELSE t.window
<1>1. /\ t \in Transitions /\ t.window \in Owners /\ t.wanted \in Requested /\ registry[s] \in Owners
      /\ updates[s] \in Seq(Updates) /\ updates = [updates EXCEPT ![s] = updates[s]]
  BY DEF TypeOK, Transitions
<1>2. Usable(opened) => opened \in Windows
  BY <1>1 DEF Usable, Owners
<1>3. CASE Fail(s, updates[s], others)
  BY <1>1, <1>3, FailProgresses
<1>4. CASE Usable(opened) /\ Command(s, t, others, opened, "focus", "focusing") /\ UNCHANGED updates
  BY <1>1, <1>2, <1>4, CommandProgresses DEF Actions, Commanding
<1>5. CASE /\ Settle(s, updates[s], "background") \/ Settle(s, updates[s], t.wanted)
           /\ Nothing(others)
  BY <1>1, <1>5, SettleProgresses DEF States, Requested
<1>6. QED BY <1>3, <1>4, <1>5 DEF Acknowledged

-----------------------------------------------------------------------------
\* Types.

LEMMA HeadTyped ==
  ASSUME NEW S, NEW q \in Seq(S), q # <<>>
  PROVE  Head(q) \in S /\ Tail(q) \in Seq(S)
BY HeadTailProperties

\* A session's queue grows by an update, or stays when the session has gone.
LEMMA QueueTyped ==
  ASSUME TypeOK, NEW s \in Sessions, NEW u \in Updates
  PROVE  Queue(s, u) \in [Sessions -> Seq(Updates)]
<1>1. updates \in [Sessions -> Seq(Updates)] /\ updates[s] \in Seq(Updates)
  BY DEF TypeOK
<1>2. Append(updates[s], u) \in Seq(Updates)
  BY <1>1, AppendProperties
<1>3. QED BY <1>1, <1>2 DEF Queue

LEMMA SendTyped ==
  ASSUME TypeOK, NEW s \in Sessions, NEW w \in Windows, NEW action \in Actions,
         NEW by \in {"transition", "closer"}, Send(pending, s, w, action, by)
  PROVE  pending' \subseteq Commands /\ inbox' \in [Windows -> Seq(Messages)]
<1> DEFINE m == [id |-> FreshId, session |-> s, action |-> action]
<1>1. FreshId \in Ids
  BY DEF Send, FreshIds, FreshId, Ids
<1>2. m \in Messages /\ inbox \in [Windows -> Seq(Messages)] /\ pending \subseteq Commands
  BY <1>1 DEF Messages, TypeOK
<1>3. Append(inbox[w], m) \in Seq(Messages)
  BY <1>2, AppendProperties
<1>4. inbox' = [inbox EXCEPT ![w] = Append(@, m)]
  BY DEF Send
<1>5. inbox' \in [Windows -> Seq(Messages)]
  BY <1>2, <1>3, <1>4
<1>6. pending' \subseteq Commands
  BY <1>1, <1>2 DEF Send, Commands
<1>7. QED BY <1>5, <1>6

LEMMA RepliesTyped ==
  ASSUME NEW w \in Windows, NEW ids \in SUBSET (Ids \cup {0}), NEW status \in {"completed", "failed"}
  PROVE  Replies(w, ids, status) \subseteq Acknowledgements
BY DEF Replies, Acknowledgements

\* An update of a view that starts becomes one of a start without a tab.
LEMMA OrphanedTyped ==
  ASSUME NEW q \in Seq(Updates), NEW w \in Windows
  PROVE  /\ Orphaned(q, w) \in Seq(Updates) /\ Len(Orphaned(q, w)) = Len(q)
         /\ DOMAIN Orphaned(q, w) = DOMAIN q
         /\ \A i \in DOMAIN q :
               Orphaned(q, w)[i] = IF q[i].by = "view" /\ q[i].window = w
                                   THEN Update(q[i].state, "orphan", w) ELSE q[i]
<1>1. DOMAIN q = 1..Len(q) /\ Len(q) \in Nat /\ \A i \in 1..Len(q) : q[i] \in Updates
  BY LenProperties, ElementOfSeq
<1>2. \A i \in 1..Len(q) : Orphaned(q, w)[i] \in Updates
  <2>1. \A i \in 1..Len(q) : Update(q[i].state, "orphan", w) \in Updates
    BY <1>1, UpdateTyped DEF Waiters
  <2>2. QED BY <1>1, <2>1 DEF Orphaned
<1>3. Orphaned(q, w) \in [1..Len(q) -> Updates]
  BY <1>1, <1>2 DEF Orphaned
<1>4. Orphaned(q, w) \in Seq(Updates)
  BY <1>1, <1>3, SeqDef
<1>5. DOMAIN Orphaned(q, w) = DOMAIN q
  BY DEF Orphaned
<1>6. Len(Orphaned(q, w)) = Len(q)
  BY <1>1, <1>4, <1>5, LenProperties
<1>7. QED BY <1>4, <1>5, <1>6 DEF Orphaned

LEMMA TabGoneTyped ==
  ASSUME TypeOK, NEW w \in Windows, NEW s \in Sessions,
         view[w][s] \in {"starting", "asking", "answered"}, TabGone(w, s)
  PROVE  /\ orphan' \in [Windows -> [Sessions -> {"none", "starting", "asking", "answered"}]]
         /\ view' \in [Windows -> [Sessions -> Views]]
         /\ updates' \in [Sessions -> Seq(Updates)]
<1>1. updates[s] \in Seq(Updates)
  BY DEF TypeOK
<1>2. Orphaned(updates[s], w) \in Seq(Updates)
  BY <1>1, OrphanedTyped
<1>3. QED BY <1>2 DEF TabGone, SetView, TypeOK, Views

LEMMA SetViewTyped ==
  ASSUME TypeOK, NEW w \in Windows, NEW s \in Sessions, NEW v \in Views, SetView(w, s, v)
  PROVE  view' \in [Windows -> [Sessions -> Views]]
BY DEF SetView, TypeOK

LEMMA TypeInit == Init => TypeOK
<1> SUFFICES ASSUME Init PROVE TypeOK
  OBVIOUS
<1>1. /\ <<>> \in Seq(Updates) /\ <<>> \in Seq(Requested) /\ <<>> \in Seq(Messages)
  BY EmptySeq
<1>2. budget \in Budgets
  BY BoundsAssumption DEF Init, Budgets
<1>3. QED BY <1>1, <1>2, IdleTyped DEF Init, TypeOK, WindowStates, Owners, States, Requested, Views

\* The budget of a disturbed session is a budget.
LEMMA DisturbTyped ==
  ASSUME TypeOK, NEW s \in Sessions, Disturb(s)
  PROVE  budget' \in Budgets
<1>1. /\ budget.others \in [Sessions -> Nat] /\ budget.others[s] \in Nat
      /\ budget.disturbed \in SUBSET Sessions /\ budget \in Budgets
  BY DEF TypeOK, Budgets
<1>2. /\ budget.others[s] > 0
      /\ budget' = [budget EXCEPT !.others = [budget.others EXCEPT ![s] = budget.others[s] - 1],
                                 !.disturbed = budget.disturbed \cup {s}]
  BY DEF Disturb
<1>3. [budget.others EXCEPT ![s] = budget.others[s] - 1] \in [Sessions -> Nat]
  BY <1>1, <1>2
<1>4. QED BY <1>1, <1>2, <1>3 DEF Budgets

LEMMA InterfereTyped ==
  ASSUME TypeOK, NEW s \in Sessions, Interfere(s)
  PROVE  budget' \in Budgets
<1>1. /\ budget.others \in [Sessions -> Nat] /\ budget.others[s] \in Nat
      /\ budget.disturbed \in SUBSET Sessions /\ budget \in Budgets
  BY DEF TypeOK, Budgets
<1>2. PICK d \in SUBSET Sessions :
          /\ budget.others[s] > 0
          /\ budget' = [budget EXCEPT !.others = [budget.others EXCEPT ![s] = budget.others[s] - 1],
                                     !.disturbed = d]
  <2>1. PICK d : d = IF transition[s] = Idle THEN budget.disturbed ELSE budget.disturbed \cup {s}
    OBVIOUS
  <2>2. d \in SUBSET Sessions
    BY <1>1, <2>1
  <2>3. QED BY <2>1, <2>2 DEF Interfere
<1>3. [budget.others EXCEPT ![s] = budget.others[s] - 1] \in [Sessions -> Nat]
  BY <1>1, <1>2
<1>4. QED BY <1>1, <1>2, <1>3 DEF Budgets

\* What a step of the controller leaves typed.
LEMMA ProgressTyped ==
  ASSUME NEW s, NEW queue, NEW others, Progressed(s, queue, others)
  PROVE  /\ updates' \in [Sessions -> Seq(Updates)] /\ transition' \in [Sessions -> Transitions]
         /\ pending' \subseteq Commands /\ inbox' \in [Windows -> Seq(Messages)]
BY DEF Progressed

LEMMA AppliedTyped ==
  ASSUME TypeOK, NEW s \in Sessions, NEW w \in Windows
  PROVE  /\ AppliedForView(s, w) =>
               /\ view' \in [Windows -> [Sessions -> Views]] /\ registry' \in [Sessions -> Owners]
               /\ acks' \subseteq Acknowledgements
               /\ pendingOpen' \in [Windows -> [Sessions -> Ids \cup {0}]]
         /\ AppliedForOrphan(s, w) =>
               /\ orphan' \in [Windows -> [Sessions -> {"none", "starting", "asking", "answered"}]]
               /\ registry' \in [Sessions -> Owners]
         /\ AppliedForClosing(s, w) =>
               /\ view' \in [Windows -> [Sessions -> Views]] /\ acks' \subseteq Acknowledgements
               /\ disposing' \in [Windows -> [Sessions -> SUBSET Ids]]
<1>1. /\ registry \in [Sessions -> Owners] /\ view \in [Windows -> [Sessions -> Views]]
      /\ pendingOpen \in [Windows -> [Sessions -> Ids \cup {0}]]
      /\ disposing \in [Windows -> [Sessions -> SUBSET Ids]] /\ acks \subseteq Acknowledgements
      /\ orphan \in [Windows -> [Sessions -> {"none", "starting", "asking", "answered"}]]
  BY DEF TypeOK
<1>2. RegistryWithout(s, w) \in [Sessions -> Owners]
  BY <1>1 DEF RegistryWithout, Owners
<1>3. /\ Replies(w, {pendingOpen[w][s]}, "failed") \subseteq Acknowledgements
      /\ Replies(w, disposing[w][s], "completed") \subseteq Acknowledgements
  <2>1. {pendingOpen[w][s]} \in SUBSET (Ids \cup {0}) /\ disposing[w][s] \in SUBSET (Ids \cup {0})
    BY <1>1
  <2>2. QED BY <2>1, RepliesTyped
<1>5. ASSUME AppliedForView(s, w)
      PROVE  /\ view' \in [Windows -> [Sessions -> Views]]
             /\ registry' \in [Sessions -> Owners] /\ acks' \subseteq Acknowledgements
             /\ pendingOpen' \in [Windows -> [Sessions -> Ids \cup {0}]]
  <2>1. CASE s \in live
    <3>1. view' = [view EXCEPT ![w][s] = IF @ = "asking" THEN "answered" ELSE @]
          /\ UNCHANGED <<registry, acks, pendingOpen>>
      BY <1>5, <2>1 DEF AppliedForView
    <3>2. view' \in [Windows -> [Sessions -> Views]]
      BY <1>1, <3>1 DEF Views
    <3>3. QED BY <1>1, <3>1, <3>2
  <2>2. CASE s \notin live
    <3>1. /\ registry' = RegistryWithout(s, w)
          /\ view' = [view EXCEPT ![w][s] = IF @ = "asking" THEN "failed" ELSE @]
          /\ acks' = acks \cup Replies(w, {pendingOpen[w][s]}, "failed")
          /\ pendingOpen' = [pendingOpen EXCEPT ![w][s] = 0]
      BY <1>5, <2>2 DEF AppliedForView
    <3>2. view' \in [Windows -> [Sessions -> Views]]
      BY <1>1, <3>1 DEF Views
    <3>3. QED BY <1>1, <1>2, <1>3, <3>1, <3>2
  <2>3. QED BY <2>1, <2>2
<1>7. ASSUME AppliedForOrphan(s, w)
      PROVE  /\ orphan' \in [Windows -> [Sessions -> {"none", "starting", "asking", "answered"}]]
             /\ registry' \in [Sessions -> Owners]
  <2>1. CASE s \in live
    <3>1. orphan' = [orphan EXCEPT ![w][s] = IF @ = "asking" THEN "answered" ELSE @]
          /\ UNCHANGED registry
      BY <1>7, <2>1 DEF AppliedForOrphan
    <3>2. QED BY <1>1, <3>1
  <2>2. CASE s \notin live
    <3>1. /\ orphan' = [orphan EXCEPT ![w][s] = IF @ = "asking" THEN "none" ELSE @]
          /\ registry' = RegistryWithout(s, w)
      BY <1>7, <2>2 DEF AppliedForOrphan
    <3>2. QED BY <1>1, <1>2, <3>1
  <2>3. QED BY <2>1, <2>2
<1>8. ASSUME AppliedForClosing(s, w)
      PROVE  /\ view' \in [Windows -> [Sessions -> Views]] /\ acks' \subseteq Acknowledgements
             /\ disposing' \in [Windows -> [Sessions -> SUBSET Ids]]
  BY <1>1, <1>3, <1>8 DEF AppliedForClosing, Views
<1>9. QED BY <1>5, <1>7, <1>8

LEMMA SessionTypes ==
  ASSUME TypeOK, NEW s \in Sessions, SessionNext(s)
  PROVE  TypeOK'
<1> USE DEF TypeOK
<1>1. CASE \E wanted \in Requested : RequestPresentation(s, wanted)
  <2>1. PICK wanted \in Requested : RequestPresentation(s, wanted)
    BY <1>1
  <2>2. requests' \in [Sessions -> Seq(Requested)]
    BY <2>1, AppendProperties DEF RequestPresentation
  <2>3. budget' \in Budgets
    <3>1. budget.requests[s] \in Nat /\ budget.requests \in [Sessions -> Nat]
      BY DEF Budgets
    <3>2. /\ budget.requests[s] > 0
          /\ budget' = [budget EXCEPT !.requests = [budget.requests EXCEPT ![s] = budget.requests[s] - 1]]
      BY <2>1 DEF RequestPresentation
    <3>3. [budget.requests EXCEPT ![s] = budget.requests[s] - 1] \in [Sessions -> Nat]
      BY <3>1, <3>2
    <3>4. QED BY <3>2, <3>3 DEF Budgets
  <2>4. QED BY <2>1, <2>2, <2>3 DEF RequestPresentation, rendererVars
<1>2. CASE BeginTransition(s)
  <2>1. Head(requests[s]) \in Requested /\ requests' \in [Sessions -> Seq(Requested)]
    BY <1>2, HeadTyped DEF BeginTransition
  <2>2. Queue(s, Update("opening", "transition", NoWindow)) \in [Sessions -> Seq(Updates)]
    BY QueueTyped, UpdateTyped DEF States
  <2>3. [stage |-> "opening", wanted |-> Head(requests[s]), owner |-> registry[s], window |-> NoWindow]
            \in Transitions
    BY <2>1 DEF Transitions, Stages, Owners
  <2>4. updates' \in [Sessions -> Seq(Updates)] /\ transition' \in [Sessions -> Transitions]
    <3>1. PICK u, t : /\ u = Queue(s, Update("opening", "transition", NoWindow)) /\ t \in Transitions
                      /\ \/ UNCHANGED <<transition, updates>>
                         \/ transition' = [transition EXCEPT ![s] = t] /\ updates' = u
      BY <1>2, <2>3 DEF BeginTransition
    <3>2. QED BY <2>2, <3>1
  <2>5. budget' \in Budgets
    <3>1. budget \in Budgets /\ budget.disturbed \cup {s} \in SUBSET Sessions
      BY DEF Budgets
    <3>2. \/ budget' = budget
          \/ budget' = [budget EXCEPT !.disturbed = budget.disturbed \cup {s}]
      BY <1>2, <3>1 DEF BeginTransition, Budgets
    <3>3. QED BY <3>1, <3>2 DEF Budgets
  <2>6. QED BY <1>2, <2>1, <2>4, <2>5 DEF BeginTransition, rendererVars
<1>3. CASE Apply(s)
  <2> DEFINE u == Head(updates[s])  w == u.window  q == Tail(updates[s])
  <2>1. u \in Updates /\ q \in Seq(Updates)
    BY <1>3, HeadTyped DEF Apply
  <2>2. presentation' \in [Sessions -> States]
    BY <1>3, <2>1, UpdateTyped DEF Apply
  <2>3. UNCHANGED <<live, ready, requests, closer, budget>>
    BY <1>3 DEF Apply
  <2>4. CASE AppliedForTransition(s, q)
    <3>1. CASE Proceed(s, q)
      <4>1. Progressed(s, q, pending) /\ WindowsEnsured
        BY <2>1, <3>1, ProceedProgresses
      <4>2. QED BY <2>2, <2>3, <2>4, <4>1, ProgressTyped DEF AppliedForTransition, WindowsEnsured
    <3>2. CASE /\ transition' = [transition EXCEPT ![s] = Idle]
               /\ updates' = [updates EXCEPT ![s] = q]
               /\ Nothing(pending) /\ UNCHANGED <<window, creation>>
      BY <2>1, <2>2, <2>3, <2>4, <3>2, IdleTyped DEF AppliedForTransition, Nothing
    <3>3. QED BY <2>4, <3>1, <3>2 DEF AppliedForTransition
  <2>5. CASE u.by # "transition" /\ updates' = [updates EXCEPT ![s] = q]
             /\ UNCHANGED <<window, creation, transition, pending, inbox>>
    <3>1. updates' \in [Sessions -> Seq(Updates)] /\ w \in Windows
      BY <2>1, <2>5, UpdateTyped
    <3>2. CASE UNCHANGED <<registry, acks, view, orphan, pendingOpen, disposing>>
      BY <2>2, <2>3, <2>5, <3>1, <3>2
    <3>3. CASE AppliedForView(s, w) /\ UNCHANGED <<orphan, disposing>>
      BY <2>2, <2>3, <2>5, <3>1, <3>3, AppliedTyped
    <3>4. CASE AppliedForOrphan(s, w) /\ UNCHANGED <<acks, view, pendingOpen, disposing>>
      BY <2>2, <2>3, <2>5, <3>1, <3>4, AppliedTyped
    <3>5. CASE AppliedForClosing(s, w) /\ UNCHANGED <<registry, orphan, pendingOpen>>
      BY <2>2, <2>3, <2>5, <3>1, <3>5, AppliedTyped
    <3>6. QED BY <1>3, <2>5, <3>2, <3>3, <3>4, <3>5 DEF Apply
  <2>6. QED BY <1>3, <2>4, <2>5 DEF Apply
<1>4. CASE CloseBegun(s)
  <2>1. /\ budget' \in Budgets
        /\ closer' \in [Sessions -> {"idle", "view", "session"}]
        /\ registry' \in [Sessions -> Owners]
    BY <1>4, DisturbTyped DEF CloseBegun, Owners
  <2>2. pending' \subseteq Commands /\ inbox' \in [Windows -> Seq(Messages)]
    BY <1>4, SendTyped DEF CloseBegun, Usable, Owners, Actions
  <2>3. QED BY <1>4, <2>1, <2>2 DEF CloseBegun
<1>5. CASE CloseReturned(s)
  BY <1>5 DEF CloseReturned, rendererVars
<1>6. CASE \E by \in {"human", "expiry"} : SessionClosed(s, by)
  <2>1. PICK by \in {"human", "expiry"} : SessionClosed(s, by)
    BY <1>6
  <2>2. registry' \in [Sessions -> Owners] /\ live' \subseteq Sessions
    BY <2>1 DEF SessionClosed, Owners
  <2>3. QED BY <2>1, <2>2, DisturbTyped DEF SessionClosed, rendererVars
<1>7. CASE ReadyResumed(s) \/ ReadyTimedOut(s)
  <2>1. Progressed(s, updates[s], pending)
    BY <1>7, PresentProgresses, FailProgresses DEF ReadyResumed, ReadyTimedOut
  <2>2. QED BY <1>7, <2>1, ProgressTyped DEF ReadyResumed, ReadyTimedOut, controllerRest
<1>8. CASE CreationResumed(s)
  <2>1. Progressed(s, updates[s], pending)
    BY <1>8, AwaitReadyProgresses, FailProgresses DEF CreationResumed, Usable, Transitions, Owners
  <2>2. creation' \in Owners
    BY <1>8 DEF CreationResumed, Owners
  <2>3. QED BY <1>8, <2>1, <2>2, ProgressTyped DEF CreationResumed
<1>9. QED
  BY <1>1, <1>2, <1>3, <1>4, <1>5, <1>6, <1>7, <1>8 DEF SessionNext

LEMMA CloseViewReceivedTyped ==
  ASSUME TypeOK, NEW w \in Windows, NEW s \in Sessions, NEW by \in {"nobody", "closing"},
         CloseViewReceived(w, s, by)
  PROVE  registry' \in [Sessions -> Owners] /\ updates' \in [Sessions -> Seq(Updates)]
<1>1. Queue(s, Update("headless", by, w)) \in [Sessions -> Seq(Updates)]
  BY QueueTyped, UpdateTyped DEF States, Requested, Waiters
<1>2. QED BY <1>1 DEF CloseViewReceived, RegistryWithout, TypeOK, Owners

LEMMA ViewTypes ==
  ASSUME TypeOK, NEW w \in Windows, NEW s \in Sessions, ViewNext(w, s)
  PROVE  TypeOK'
<1> USE DEF TypeOK
<1>1. pendingOpen[w][s] \in Ids \cup {0} /\ {pendingOpen[w][s]} \in SUBSET (Ids \cup {0})
  OBVIOUS
<1>2. \A v \in Views : SetView(w, s, v) => view' \in [Windows -> [Sessions -> Views]]
  BY SetViewTyped
<1>3. \A status \in {"completed", "failed"} :
          Ack(w, pendingOpen[w][s], status) => acks' \subseteq Acknowledgements
  BY <1>1, RepliesTyped DEF Ack
<1>4. CASE ViewRequested(w, s)
  <2>1. view' \in [Windows -> [Sessions -> Views]] /\ acks' \subseteq Acknowledgements
        /\ pendingOpen' \in [Windows -> [Sessions -> Ids \cup {0}]]
    <3>1. CASE SetView(w, s, "asking") /\ UNCHANGED <<acks, pendingOpen>>
      BY <1>2, <3>1 DEF Views
    <3>2. CASE /\ SetView(w, s, "failed") /\ Ack(w, pendingOpen[w][s], "failed")
               /\ pendingOpen' = [pendingOpen EXCEPT ![w][s] = 0]
      BY <1>2, <1>3, <3>2 DEF Views
    <3>3. QED BY <1>4, <3>1, <3>2 DEF ViewRequested
  <2>2. registry' \in [Sessions -> Owners] /\ updates' \in [Sessions -> Seq(Updates)]
    <3>1. Queue(s, Update("background", "view", w)) \in [Sessions -> Seq(Updates)]
      BY QueueTyped, UpdateTyped DEF States, Requested, Waiters
    <3>2. QED BY <1>4, <3>1 DEF ViewRequested, RegistryWithout, Owners
  <2>3. QED BY <1>4, <2>1, <2>2 DEF ViewRequested
<1>5. CASE ViewOpened(w, s)
  BY <1>2, <1>3, <1>5 DEF ViewOpened, mainRest, Views
<1>6. CASE CloseViewServed(w, s)
  <2>1. registry' \in [Sessions -> Owners] /\ updates' \in [Sessions -> Seq(Updates)]
    BY <1>6, CloseViewReceivedTyped DEF CloseViewServed
  <2>2. /\ view' \in [Windows -> [Sessions -> Views]] /\ acks' \subseteq Acknowledgements
        /\ disposing' \in [Windows -> [Sessions -> SUBSET Ids]]
    BY <1>2, <1>6, AppliedTyped DEF CloseViewServed, Views
  <2>3. QED BY <1>6, <2>1, <2>2 DEF CloseViewServed
<1>7. CASE OrphanRequested(w, s)
  <2>1. Queue(s, Update("background", "orphan", w)) \in [Sessions -> Seq(Updates)]
    BY QueueTyped, UpdateTyped DEF States, Requested, Waiters
  <2>2. /\ registry' \in [Sessions -> Owners] /\ updates' \in [Sessions -> Seq(Updates)]
        /\ orphan' \in [Windows -> [Sessions -> {"none", "starting", "asking", "answered"}]]
    <3>1. CASE /\ registry' = [registry EXCEPT ![s] = w]
               /\ updates' = Queue(s, Update("background", "orphan", w))
               /\ orphan' = [orphan EXCEPT ![w][s] = "asking"]
      BY <2>1, <3>1 DEF Owners
    <3>2. CASE /\ registry' = RegistryWithout(s, w) /\ UNCHANGED updates
               /\ orphan' = [orphan EXCEPT ![w][s] = "none"]
      BY <3>2 DEF RegistryWithout, Owners
    <3>3. QED BY <1>7, <3>1, <3>2 DEF OrphanRequested
  <2>3. QED BY <1>7, <2>2 DEF OrphanRequested
<1>8. CASE OrphanDisposed(w, s)
  <2>1. registry' \in [Sessions -> Owners] /\ updates' \in [Sessions -> Seq(Updates)]
    BY <1>8, CloseViewReceivedTyped DEF OrphanDisposed
  <2>2. orphan' \in [Windows -> [Sessions -> {"none", "starting", "asking", "answered"}]]
    BY <1>8 DEF OrphanDisposed
  <2>3. QED BY <1>8, <2>1, <2>2 DEF OrphanDisposed
<1>9. CASE Reveal(w, s)
  BY <1>2, <1>9, InterfereTyped DEF Reveal, mainRest, Views
<1>10. CASE Hide(w, s)
  <2>1. /\ view' \in [Windows -> [Sessions -> Views]] /\ updates' \in [Sessions -> Seq(Updates)]
        /\ orphan' \in [Windows -> [Sessions -> {"none", "starting", "asking", "answered"}]]
    BY <1>2, <1>10, TabGoneTyped DEF Hide, Views
  <2>2. QED BY <1>10, <2>1, InterfereTyped DEF Hide, mainRest
<1>11. CASE \E focused \in BOOLEAN : ReportFocus(w, s, focused)
  <2>1. PICK focused \in BOOLEAN : ReportFocus(w, s, focused)
    BY <1>11
  <2>2. updates' \in [Sessions -> Seq(Updates)]
    BY <2>1, QueueTyped, UpdateTyped DEF ReportFocus, States, Requested, Waiters
  <2>3. QED BY <2>1, <2>2 DEF ReportFocus, mainRest
<1>12. QED BY <1>4, <1>5, <1>6, <1>7, <1>8, <1>9, <1>10, <1>11 DEF ViewNext

LEMMA CommandTypes ==
  ASSUME TypeOK, NEW w \in Windows, CommandReceived(w)
  PROVE  TypeOK'
<1> USE DEF TypeOK
<1> DEFINE m == Head(inbox[w])  s == m.session
<1>1. m \in Messages /\ Tail(inbox[w]) \in Seq(Messages)
  BY HeadTyped DEF CommandReceived
<1>2. s \in Sessions /\ m.id \in Ids /\ {m.id} \in SUBSET (Ids \cup {0})
  BY <1>1 DEF Messages
<1>3. \A status \in {"completed", "failed"} : Ack(w, m.id, status) => acks' \subseteq Acknowledgements
  BY <1>2, RepliesTyped DEF Ack
<1>4. \A v \in Views : SetView(w, s, v) => view' \in [Windows -> [Sessions -> Views]]
  BY <1>2, SetViewTyped
<1>5. inbox' \in [Windows -> Seq(Messages)] /\ UNCHANGED <<mainRest, budget>>
  BY <1>1 DEF CommandReceived
<1>6. CASE OpenReceived(w, m)
  <2>1. acks' \subseteq Acknowledgements
    BY <1>3, <1>6 DEF OpenReceived
  <2>2. pendingOpen' \in [Windows -> [Sessions -> Ids \cup {0}]]
    <3>1. pendingOpen' = pendingOpen \/ pendingOpen' = [pendingOpen EXCEPT ![w][s] = m.id]
      BY <1>6 DEF OpenReceived
    <3>2. \A i \in Ids : [pendingOpen EXCEPT ![w][s] = i] \in [Windows -> [Sessions -> Ids \cup {0}]]
      BY <1>2
    <3>3. QED BY <1>2, <3>1, <3>2
  <2>3. view' \in [Windows -> [Sessions -> Views]]
    <3>1. (IF view[w][s] = "none" THEN "starting" ELSE view[w][s]) \in Views
      BY <1>2 DEF Views
    <3>2. QED BY <1>4, <1>6, <3>1 DEF OpenReceived
  <2>4. QED BY <1>5, <1>6, <2>1, <2>2, <2>3 DEF OpenReceived, mainRest
<1>7. CASE FocusReceived(w, m)
  BY <1>3, <1>5, <1>7 DEF FocusReceived, mainRest
<1>8. CASE RemoveReceived(w, m)
  <2>1. /\ view' \in [Windows -> [Sessions -> Views]] /\ updates' \in [Sessions -> Seq(Updates)]
        /\ orphan' \in [Windows -> [Sessions -> {"none", "starting", "asking", "answered"}]]
        /\ acks' \subseteq Acknowledgements
    BY <1>2, <1>3, <1>4, <1>8, TabGoneTyped DEF RemoveReceived, Views
  <2>2. disposing' \in [Windows -> [Sessions -> SUBSET Ids]] /\ pendingOpen' = pendingOpen
    <3>1. CASE disposing' = [disposing EXCEPT ![w][s] = @ \cup {m.id}]
      BY <1>2, <1>8, <3>1 DEF RemoveReceived
    <3>2. CASE UNCHANGED disposing
      BY <1>8, <3>2 DEF RemoveReceived
    <3>3. QED BY <1>8, <3>1, <3>2 DEF RemoveReceived
  <2>3. QED BY <1>5, <2>1, <2>2 DEF mainRest
<1>9. QED BY <1>6, <1>7, <1>8 DEF CommandReceived

\* What the loss of a renderer adds to a session's queue.
LEMMA LossTyped ==
  ASSUME NEW q \in Seq(Updates), NEW s, NEW w \in Windows
  PROVE  q \o HeadlessUpdate(s, w)
           \o (IF Rejected(s, w) THEN <<Update("unavailable", "transition", NoWindow)>> ELSE <<>>)
         \in Seq(Updates)
<1>1. HeadlessUpdate(s, w) \in Seq(Updates)
  <2>1. Update("headless", "nobody", w) \in Updates
    BY UpdateTyped DEF States, Requested, Waiters
  <2>2. QED BY <2>1, EmptySeq DEF HeadlessUpdate
<1>2. (IF Rejected(s, w) THEN <<Update("unavailable", "transition", NoWindow)>> ELSE <<>>) \in Seq(Updates)
  <2>1. Update("unavailable", "transition", NoWindow) \in Updates
    BY UpdateTyped DEF States
  <2>2. QED BY <2>1, EmptySeq
<1>3. QED BY <1>1, <1>2, ConcatProperties

LEMMA LostTypes ==
  ASSUME TypeOK, NEW w \in Windows, NEW state \in {"crashed", "destroyed"}, Lost(w, state)
  PROVE  TypeOK'
<1> USE DEF TypeOK
<1>1. /\ ready' \subseteq Windows /\ registry' \in [Sessions -> Owners] /\ pending' \subseteq Commands
      /\ closer' \in [Sessions -> {"idle", "view", "session"}]
      /\ updates' \in [Sessions -> Seq(Updates)] /\ transition' \in [Sessions -> Transitions]
  <2>1. CASE RendererUnavailable(w)
    <3>1. ready' \subseteq Windows /\ registry' \in [Sessions -> Owners] /\ pending' \subseteq Commands
          /\ closer' \in [Sessions -> {"idle", "view", "session"}]
      BY <2>1 DEF RendererUnavailable, LostByRegistry, Owners
    <3>2. updates' \in [Sessions -> Seq(Updates)]
      BY <2>1, LossTyped DEF RendererUnavailable
    <3>3. \A s \in Sessions : [transition[s] EXCEPT !.stage = "settling"] \in Transitions
      BY DEF Transitions, Stages
    <3>4. transition' \in [Sessions -> Transitions]
      BY <2>1, <3>3, IdleTyped DEF RendererUnavailable
    <3>5. QED BY <3>1, <3>2, <3>4
  <2>2. QED BY <2>1 DEF Lost
<1>2. inbox' \in [Windows -> Seq(Messages)]
  BY EmptySeq DEF Lost
<1>3. /\ window' \in [Windows -> WindowStates] /\ acks' \subseteq Acknowledgements
      /\ view' \in [Windows -> [Sessions -> Views]]
      /\ orphan' \in [Windows -> [Sessions -> {"none", "starting", "asking", "answered"}]]
      /\ pendingOpen' \in [Windows -> [Sessions -> Ids \cup {0}]]
      /\ disposing' \in [Windows -> [Sessions -> SUBSET Ids]]
  BY DEF Lost, WindowStates, Views
<1>4. QED BY <1>1, <1>2, <1>3 DEF Lost

\* How a command ends: it is completed, or not.
LEMMA SettledTyped ==
  ASSUME TypeOK, NEW p \in pending, NEW completed \in BOOLEAN, Settled(p, completed)
  PROVE  /\ updates' \in [Sessions -> Seq(Updates)] /\ transition' \in [Sessions -> Transitions]
         /\ pending' \subseteq Commands /\ inbox' \in [Windows -> Seq(Messages)]
         /\ closer' \in [Sessions -> {"idle", "view", "session"}]
         /\ registry' \in [Sessions -> Owners]
<1> DEFINE s == p.session
<1>1. s \in Sessions /\ pending \ {p} \in SUBSET Commands /\ updates[s] \in Seq(Updates)
  BY DEF TypeOK, Commands
<1>2. CASE Acknowledged(s, pending \ {p}) /\ UNCHANGED <<closer, registry>>
  BY <1>1, <1>2, AcknowledgedProgresses, ProgressTyped DEF TypeOK
<1>3. CASE Fail(s, updates[s], pending \ {p}) /\ UNCHANGED <<closer, registry>>
  BY <1>1, <1>3, FailProgresses, ProgressTyped DEF TypeOK
<1>4. CASE /\ closer' = [closer EXCEPT ![s] = "session"] /\ UNCHANGED registry
           /\ Nothing(pending \ {p}) /\ UNCHANGED <<transition, updates>>
  BY <1>1, <1>4 DEF TypeOK, Nothing
<1>5. CASE CloseViewGivenUp(s) /\ Nothing(pending \ {p}) /\ UNCHANGED <<transition, updates>>
  BY <1>1, <1>5 DEF TypeOK, CloseViewGivenUp, Nothing, Owners
<1>6. QED BY <1>2, <1>3, <1>4, <1>5 DEF Settled

LEMMA TypeStep ==
  ASSUME TypeOK, [Next]_vars
  PROVE  TypeOK'
<1>1. ASSUME NEW s \in Sessions, SessionNext(s) PROVE TypeOK'
  BY <1>1, SessionTypes
<1>2. ASSUME NEW w \in Windows, NEW s \in Sessions, ViewNext(w, s) PROVE TypeOK'
  BY <1>2, ViewTypes
<1>3. ASSUME NEW w \in Windows, WindowNext(w) PROVE TypeOK'
  <2>1. CASE CommandReceived(w)
    BY <2>1, CommandTypes
  <2>2. CASE WindowRequested(w) \/ LoadEnded(w) \/ RendererReady(w)
    <3>1. window' \in [Windows -> WindowStates] /\ ready' \subseteq Windows
      BY <2>2 DEF WindowRequested, LoadEnded, RendererReady, TypeOK, WindowStates
    <3>2. UNCHANGED <<creation, rest>>
      BY <2>2 DEF WindowRequested, LoadEnded, RendererReady
    <3>3. QED BY <3>1, <3>2 DEF TypeOK, rest, rendererVars
  <2>3. CASE \E state \in {"crashed", "destroyed"} : Lost(w, state)
    BY <2>3, LostTypes
  <2>4. QED BY <1>3, <2>1, <2>2, <2>3 DEF WindowNext
<1>4. ASSUME NEW m \in acks, Acknowledge(m) PROVE TypeOK'
  <2>1. /\ updates' \in [Sessions -> Seq(Updates)] /\ transition' \in [Sessions -> Transitions]
        /\ pending' \subseteq Commands /\ inbox' \in [Windows -> Seq(Messages)]
        /\ closer' \in [Sessions -> {"idle", "view", "session"}]
        /\ registry' \in [Sessions -> Owners]
    <3>1. CASE \E p \in pending : Settled(p, m.status = "completed")
      BY <3>1, SettledTyped
    <3>2. CASE UNCHANGED <<transition, updates, pending, inbox, closer, registry>>
      BY <3>2 DEF TypeOK
    <3>3. QED BY <1>4, <3>1, <3>2 DEF Acknowledge
  <2>2. QED BY <1>4, <2>1 DEF Acknowledge, TypeOK
<1>5. ASSUME NEW p \in pending, CommandFailed(p) PROVE TypeOK'
  <2>1. budget' \in Budgets
    <3>1. /\ budget \in Budgets /\ p.session \in Sessions
          /\ budget' = [budget EXCEPT !.givenUp = budget.givenUp \cup {p.session}]
      BY <1>5 DEF CommandFailed, TypeOK, Commands
    <3>2. QED BY <3>1 DEF Budgets
  <2>2. Settled(p, FALSE)
    BY <1>5 DEF CommandFailed
  <2>3. QED BY <1>5, <2>1, <2>2, SettledTyped DEF CommandFailed, TypeOK
<1>6. CASE UNCHANGED vars
  BY <1>6 DEF vars, mainVars, rendererVars, TypeOK
<1>7. QED BY <1>1, <1>2, <1>3, <1>4, <1>5, <1>6 DEF Next

\* Every variable keeps its type, in every behaviour of the presentation of sessions.
THEOREM TypeCorrect == Spec => []TypeOK
<1>1. Init => TypeOK
  BY TypeInit
<1>2. TypeOK /\ [Next]_vars => TypeOK'
  BY TypeStep
<1>3. QED BY <1>1, <1>2, PTL DEF Spec

-----------------------------------------------------------------------------
\* No session is left "opening".

\* Only a transition queues "opening", once, and its stage tells which of its two
\* updates is queued, if one is.
QueueOK(q, stage) ==
    \A i \in DOMAIN q :
        /\ q[i].state = "opening" => q[i].by = "transition"
        /\ q[i].by = "transition" =>
              /\ stage \in {"opening", "settling"}
              /\ (q[i].state = "opening") <=> (stage = "opening")
              /\ \A j \in DOMAIN q : q[j].by = "transition" => j = i
QueuesOK == \A s \in Sessions : QueueOK(updates[s], transition[s].stage)

\* A transition has one command pending at most, to the renderer it waits for.
PendingOK ==
    \A p \in pending : p.by = "transition" =>
        /\ transition[p.session].stage \in Commanding
        /\ transition[p.session].window = p.window
        /\ \A q \in pending : q.by = "transition" /\ q.session = p.session => q = p

OpeningOK == \A s \in live : presentation[s] = "opening" => transition[s].stage # "idle"

OpeningInv == TypeOK /\ QueuesOK /\ PendingOK /\ OpeningOK

\* A queue in which no transition has an update.
Plain(q) == \A i \in DOMAIN q : q[i].by # "transition" /\ q[i].state # "opening"

LEMMA PlainOK ==
  /\ \A q, stage : Plain(q) => QueueOK(q, stage)
  /\ \A q, stage : QueueOK(q, stage) /\ stage \notin {"opening", "settling"} => Plain(q)
BY DEF Plain, QueueOK

LEMMA AppendOK ==
  ASSUME NEW q \in Seq(Updates), NEW u \in Updates, NEW stage
  PROVE  /\ QueueOK(q, stage) /\ u.by # "transition" /\ u.state # "opening"
               => QueueOK(Append(q, u), stage)
         /\ Plain(q) /\ u.by = "transition" /\ u.state = "opening" => QueueOK(Append(q, u), "opening")
         /\ Plain(q) /\ u.by = "transition" /\ u.state # "opening" => QueueOK(Append(q, u), "settling")
<1>1. /\ DOMAIN Append(q, u) = 1..(Len(q) + 1) /\ DOMAIN q = 1..Len(q) /\ Len(q) \in Nat
      /\ \A i \in 1..Len(q) : Append(q, u)[i] = q[i]
      /\ Append(q, u)[Len(q) + 1] = u
  BY AppendProperties, LenProperties
<1>2. \A i \in DOMAIN Append(q, u) : i \in DOMAIN q \/ i = Len(q) + 1
  BY <1>1
<1>3. QED BY <1>1, <1>2 DEF QueueOK, Plain

LEMMA TailIndex ==
  ASSUME NEW q \in Seq(Updates), q # <<>>
  PROVE  /\ Head(q) = q[1] /\ 1 \in DOMAIN q
         /\ \A i \in DOMAIN Tail(q) : i + 1 \in DOMAIN q /\ i + 1 # 1 /\ Tail(q)[i] = q[i + 1] /\ i \in Int
<1>1. Len(q) \in Nat /\ Len(q) >= 1 /\ DOMAIN q = 1..Len(q)
  BY LenProperties, EmptySeq
<1>2. Tail(q) \in Seq(Updates) /\ Len(Tail(q)) = Len(q) - 1
      /\ \A i \in 1..Len(Tail(q)) : Tail(q)[i] = q[i + 1]
  BY HeadTailProperties
<1>3. DOMAIN Tail(q) = 1..Len(Tail(q))
  BY <1>2, LenProperties
<1>4. QED BY <1>1, <1>2, <1>3

LEMMA TailOK ==
  ASSUME NEW q \in Seq(Updates), q # <<>>, NEW stage, QueueOK(q, stage)
  PROVE  /\ QueueOK(Tail(q), stage)
         /\ Head(q).by = "transition" => Plain(Tail(q)) /\ stage \in {"opening", "settling"}
         /\ Head(q).state = "opening" => Head(q).by = "transition" /\ stage = "opening"
<1>1. \A i \in DOMAIN Tail(q) : i + 1 \in DOMAIN q /\ i + 1 # 1 /\ Tail(q)[i] = q[i + 1] /\ i \in Int
  BY TailIndex
<1>2. Head(q) = q[1] /\ 1 \in DOMAIN q
  BY TailIndex
<1>3. QueueOK(Tail(q), stage)
  BY <1>1 DEF QueueOK
<1>4. QED BY <1>1, <1>2, <1>3 DEF QueueOK, Plain

LEMMA OrphanedOK ==
  ASSUME NEW q \in Seq(Updates), NEW w \in Windows, NEW stage, QueueOK(q, stage)
  PROVE  QueueOK(Orphaned(q, w), stage)
<1>1. DOMAIN Orphaned(q, w) = DOMAIN q
  BY OrphanedTyped
<1>2. \A i \in DOMAIN q : /\ (Orphaned(q, w)[i].by = "transition") <=> (q[i].by = "transition")
                          /\ Orphaned(q, w)[i].state = q[i].state
                          /\ q[i].by = "transition" => Orphaned(q, w)[i] = q[i]
  BY OrphanedTyped, UpdateTyped
<1>3. \A i \in DOMAIN q : q[i].state = "opening" => Orphaned(q, w)[i].by = "transition"
  BY <1>2 DEF QueueOK
<1>4. QED BY <1>1, <1>2, <1>3 DEF QueueOK

\* The transition of s went on: s has no update of it queued but the one it added, and
\* no command but the one it sent.
LEMMA ProgressOpening ==
  ASSUME OpeningInv, TypeOK', NEW s \in Sessions, NEW queue \in Seq(Updates), Plain(queue),
         NEW others \in SUBSET pending,
         \A p \in others : p.by = "transition" => p.session # s,
         Progressed(s, queue, others), live' = live,
         \A r \in Sessions \ {s} : presentation'[r] = presentation[r]
  PROVE  OpeningInv'
<1>1. /\ \A r \in Sessions \ {s} : updates'[r] = updates[r] /\ transition'[r] = transition[r]
      /\ TypeOK /\ others \subseteq Commands /\ live \subseteq Sessions
  BY DEF Progressed, OpeningInv, TypeOK
<1>2. \A p \in others : p.session \in Sessions
  BY <1>1 DEF Commands
<1>3. QueueOK(updates'[s], transition'[s].stage)
  <2>1. CASE transition'[s].stage = "settling" /\ \E state \in States \ {"opening"} :
                updates'[s] = Append(queue, Update(state, "transition", NoWindow))
    BY <2>1, AppendOK, UpdateTyped
  <2>2. CASE updates'[s] = queue
    BY <2>2, PlainOK
  <2>3. QED BY <2>1, <2>2 DEF Progressed
<1>4. QueuesOK'
  BY <1>1, <1>3 DEF QueuesOK, OpeningInv
<1>5. \A p \in others : p.by = "transition" =>
          /\ transition'[p.session].stage \in Commanding
          /\ transition'[p.session].window = p.window
          /\ \A q \in others : q.by = "transition" /\ q.session = p.session => q = p
  BY <1>1, <1>2 DEF OpeningInv, PendingOK
<1>6. PendingOK'
  <2>1. CASE pending' = others
    BY <1>5, <2>1 DEF PendingOK
  <2>2. CASE /\ transition'[s].stage \in Commanding
             /\ \E p \in Commands : /\ p.session = s /\ p.by = "transition"
                                    /\ p.window = transition'[s].window
                                    /\ pending' = others \cup {p}
    <3>1. PICK p \in Commands : /\ p.session = s /\ p.by = "transition"
                                /\ p.window = transition'[s].window
                                /\ pending' = others \cup {p}
      BY <2>2
    <3>2. QED BY <1>5, <2>2, <3>1 DEF PendingOK
  <2>3. QED BY <2>1, <2>2 DEF Progressed
<1>7. s \in live => transition'[s].stage # "idle"
  BY DEF Progressed, Commanding
<1>8. OpeningOK'
  BY <1>1, <1>7 DEF OpeningOK, OpeningInv
<1>9. QED BY <1>4, <1>6, <1>8 DEF OpeningInv

\* What anybody but the transition of a session does to its queue.
Enqueued(s) ==
    \/ updates'[s] = updates[s]
    \/ \E u \in Updates : /\ u.by # "transition" /\ u.state # "opening"
                          /\ updates'[s] = Append(updates[s], u)
    \/ \E w \in Windows : updates'[s] = Orphaned(updates[s], w)

LEMMA OthersOpening ==
  ASSUME OpeningInv, TypeOK', UNCHANGED <<transition, presentation>>, pending' \subseteq pending,
         live' \subseteq live, \A s \in Sessions : Enqueued(s)
  PROVE  OpeningInv'
<1>1. ASSUME NEW s \in Sessions PROVE QueueOK(updates'[s], transition'[s].stage)
  <2>1. updates[s] \in Seq(Updates) /\ QueueOK(updates[s], transition[s].stage)
    BY DEF OpeningInv, TypeOK, QueuesOK
  <2>2. QED BY <2>1, AppendOK, OrphanedOK DEF Enqueued
<1>2. QueuesOK'
  BY <1>1 DEF QueuesOK
<1>3. PendingOK' /\ OpeningOK'
  BY DEF OpeningInv, PendingOK, OpeningOK
<1>4. QED BY <1>2, <1>3 DEF OpeningInv

LEMMA QueueEnqueued ==
  ASSUME TypeOK, NEW s \in Sessions, NEW u \in Updates, u.by # "transition", u.state # "opening",
         updates' = Queue(s, u)
  PROVE  \A r \in Sessions : Enqueued(r)
BY DEF Queue, Enqueued, TypeOK

LEMMA ViewEnqueues ==
  ASSUME TypeOK, NEW w \in Windows, NEW s \in Sessions, ViewNext(w, s)
  PROVE  \A r \in Sessions : Enqueued(r)
<1>1. ASSUME NEW by \in Waiters \ {"transition"}, NEW state \in Requested,
             updates' = Queue(s, Update(state, by, w))
      PROVE  \A r \in Sessions : Enqueued(r)
  <2>1. Update(state, by, w) \in Updates /\ Update(state, by, w).by # "transition"
        /\ Update(state, by, w).state # "opening"
    BY UpdateTyped DEF States, Requested
  <2>2. QED BY <1>1, <2>1, QueueEnqueued
<1>2. CASE UNCHANGED updates
  BY <1>2 DEF Enqueued
<1>3. CASE TabGone(w, s)
  BY <1>3 DEF TabGone, Enqueued, TypeOK
<1>4. QED
  BY <1>1, <1>2, <1>3 DEF ViewNext, ViewRequested, ViewOpened, CloseViewServed, OrphanRequested,
     OrphanDisposed, CloseViewReceived, Reveal, Hide, ReportFocus, Waiters, Requested

LEMMA CommandEnqueues ==
  ASSUME TypeOK, NEW w \in Windows, CommandReceived(w)
  PROVE  \A r \in Sessions : Enqueued(r)
BY DEF CommandReceived, OpenReceived, FocusReceived, RemoveReceived, TabGone, Enqueued, TypeOK

\* A renderer is lost: whoever awaits it settles as unavailable.
LEMMA LossOK ==
  ASSUME NEW q \in Seq(Updates), NEW s, NEW w \in Windows, NEW stage, NEW rejected \in BOOLEAN,
         QueueOK(q, stage), rejected => Plain(q)
  PROVE  LET u == Update("unavailable", "transition", NoWindow) IN
         QueueOK(q \o HeadlessUpdate(s, w) \o (IF rejected THEN <<u>> ELSE <<>>),
                 IF rejected THEN "settling" ELSE stage)
<1> DEFINE u == Update("unavailable", "transition", NoWindow)
           h == Update("headless", "nobody", w)
           q1 == q \o HeadlessUpdate(s, w)
<1>1. u \in Updates /\ u.by = "transition" /\ u.state = "unavailable"
      /\ h \in Updates /\ h.by = "nobody" /\ h.state = "headless"
  BY UpdateTyped DEF States, Requested, Waiters
<1>2. q1 = q \/ q1 = Append(q, h)
  BY <1>1 DEF HeadlessUpdate
<1>3. q1 \in Seq(Updates) /\ QueueOK(q1, stage) /\ (rejected => Plain(q1))
  <2>1. Plain(q) => Plain(q1)
    <3>1. CASE q1 = Append(q, h)
      <4>1. /\ DOMAIN Append(q, h) = 1..(Len(q) + 1) /\ DOMAIN q = 1..Len(q) /\ Len(q) \in Nat
            /\ \A i \in 1..Len(q) : Append(q, h)[i] = q[i]
            /\ Append(q, h)[Len(q) + 1] = h
        BY <1>1, AppendProperties, LenProperties
      <4>2. \A i \in DOMAIN Append(q, h) : i \in DOMAIN q \/ i = Len(q) + 1
        BY <4>1
      <4>3. QED BY <1>1, <3>1, <4>1, <4>2 DEF Plain
    <3>2. QED BY <1>2, <3>1
  <2>2. q1 \in Seq(Updates) /\ QueueOK(q1, stage)
    BY <1>1, <1>2, AppendOK, AppendProperties
  <2>3. QED BY <2>1, <2>2
<1>4. CASE rejected
  <2>1. q1 \o <<u>> = Append(q1, u)
    BY <1>1, <1>3, AppendIsConcat
  <2>2. QueueOK(Append(q1, u), "settling")
    BY <1>1, <1>3, <1>4, AppendOK
  <2>3. QED BY <1>4, <2>1, <2>2
<1>5. CASE ~rejected
  <2>1. q1 \o <<>> = q1
    BY <1>3, ConcatEmptySeq
  <2>2. QED BY <1>3, <1>5, <2>1
<1>6. QED BY <1>4, <1>5

LEMMA LostOpening ==
  ASSUME OpeningInv, TypeOK', NEW w \in Windows, NEW state \in {"crashed", "destroyed"}, Lost(w, state)
  PROVE  OpeningInv'
<1>1. CASE RendererUnavailable(w)
  <2>1. ASSUME NEW s \in Sessions
        PROVE  /\ QueueOK(updates'[s], transition'[s].stage)
               /\ s \in live /\ transition'[s].stage = "idle" => transition[s].stage = "idle"
    <3>1. /\ updates[s] \in Seq(Updates) /\ QueueOK(updates[s], transition[s].stage)
          /\ transition[s] \in Transitions
      BY DEF OpeningInv, TypeOK, QueuesOK
    <3>2. Rejected(s, w) => Plain(updates[s])
      BY <3>1, PlainOK DEF Rejected
    <3>3. CASE s \notin live
      <4>1. updates'[s] = updates[s]
            /\ transition'[s] = IF ~Rejected(s, w) THEN transition[s] ELSE Idle
        BY <1>1, <3>3 DEF RendererUnavailable
      <4>2. QED BY <3>1, <3>2, <3>3, <4>1, PlainOK
    <3>4. CASE s \in live
      <4>1. updates'[s] = updates[s] \o HeadlessUpdate(s, w)
               \o (IF Rejected(s, w) THEN <<Update("unavailable", "transition", NoWindow)>> ELSE <<>>)
        BY <1>1, <3>4 DEF RendererUnavailable
      <4>2. transition'[s].stage = IF Rejected(s, w) THEN "settling" ELSE transition[s].stage
        BY <1>1, <3>1, <3>4 DEF RendererUnavailable, Transitions
      <4>3. Rejected(s, w) \in BOOLEAN
        BY DEF Rejected
      <4>4. QED BY <3>1, <3>2, <4>1, <4>2, <4>3, LossOK
    <3>5. QED BY <3>3, <3>4
  <2>2. QueuesOK'
    BY <2>1 DEF QueuesOK
  <2>3. PendingOK'
    <3>1. ASSUME NEW p \in pending, p.window # w, p.by = "transition"
          PROVE  transition'[p.session] = transition[p.session]
      <4>1. p.session \in Sessions
        BY DEF OpeningInv, TypeOK, Commands
      <4>2. ~Rejected(p.session, w)
        BY <3>1 DEF OpeningInv, PendingOK, Rejected
      <4>3. QED BY <1>1, <4>1, <4>2 DEF RendererUnavailable
    <3>2. pending' = {p \in pending : p.window # w}
      BY <1>1 DEF RendererUnavailable
    <3>3. QED BY <3>1, <3>2 DEF OpeningInv, PendingOK
  <2>4. OpeningOK'
    <3>1. UNCHANGED <<live, presentation>> /\ live \subseteq Sessions
      BY DEF Lost, OpeningInv, TypeOK
    <3>2. QED BY <2>1, <3>1 DEF OpeningInv, OpeningOK
  <2>5. QED BY <2>2, <2>3, <2>4 DEF OpeningInv
<1>2. CASE UNCHANGED <<ready, registry, pending, closer, updates, transition>>
  BY <1>2 DEF Lost, OpeningInv, QueuesOK, PendingOK, OpeningOK
<1>3. QED BY <1>1, <1>2 DEF Lost

LEMMA SessionOpening ==
  ASSUME OpeningInv, TypeOK', NEW s \in Sessions, SessionNext(s)
  PROVE  OpeningInv'
<1>1. /\ TypeOK /\ updates[s] \in Seq(Updates) /\ pending \in SUBSET pending
      /\ QueueOK(updates[s], transition[s].stage)
  BY DEF OpeningInv, TypeOK, QueuesOK
<1>2. ASSUME UNCHANGED <<transition, presentation, updates, pending>>, live' \subseteq live
      PROVE  OpeningInv'
  BY <1>2, OthersOpening DEF Enqueued
<1>3. CASE (\E wanted \in Requested : RequestPresentation(s, wanted))
           \/ CloseReturned(s) \/ \E by \in {"human", "expiry"} : SessionClosed(s, by)
  BY <1>2, <1>3 DEF RequestPresentation, CloseReturned, SessionClosed, rendererVars
<1>4. CASE BeginTransition(s)
  <2>1. CASE UNCHANGED <<transition, updates>>
    BY <1>2, <1>4, <2>1 DEF BeginTransition
  <2>2. CASE /\ transition' = [transition EXCEPT ![s] =
                   [stage |-> "opening", wanted |-> Head(requests[s]), owner |-> registry[s],
                    window |-> NoWindow]]
             /\ updates' = Queue(s, Update("opening", "transition", NoWindow))
    <3>1. /\ transition[s].stage = "idle" /\ transition'[s].stage = "opening"
          /\ \A r \in Sessions \ {s} : transition'[r] = transition[r]
      BY <1>1, <1>4, <2>2 DEF BeginTransition, Idle, TypeOK
    <3>2. Plain(updates[s])
      BY <1>1, <3>1, PlainOK
    <3>3. QueueOK(updates'[s], "opening")
      <4>1. updates'[s] = updates[s]
            \/ updates'[s] = Append(updates[s], Update("opening", "transition", NoWindow))
        BY <1>1, <2>2 DEF Queue, TypeOK
      <4>2. Update("opening", "transition", NoWindow) \in Updates
        BY UpdateTyped DEF States
      <4>3. QueueOK(Append(updates[s], Update("opening", "transition", NoWindow)), "opening")
        BY <1>1, <3>2, <4>2, AppendOK, UpdateTyped
      <4>4. QED BY <3>2, <4>1, <4>3, PlainOK
    <3>4. \A r \in Sessions \ {s} : updates'[r] = updates[r]
      BY <1>1, <2>2 DEF Queue, TypeOK
    <3>5. QueuesOK'
      BY <3>1, <3>3, <3>4 DEF OpeningInv, QueuesOK
    <3>6. \A p \in pending : p.by = "transition" => p.session # s /\ p.session \in Sessions
      BY <1>1, <3>1 DEF OpeningInv, PendingOK, TypeOK, Commands, Commanding
    <3>7. PendingOK'
      BY <1>4, <3>1, <3>6 DEF OpeningInv, PendingOK, BeginTransition
    <3>8. OpeningOK'
      <4>1. UNCHANGED <<live, presentation>> /\ live \subseteq Sessions
        BY <1>1, <1>4 DEF BeginTransition, TypeOK
      <4>2. QED BY <3>1, <4>1 DEF OpeningInv, OpeningOK
    <3>9. QED BY <3>5, <3>7, <3>8 DEF OpeningInv
  <2>3. QED BY <1>4, <2>1, <2>2 DEF BeginTransition
<1>5. CASE Apply(s)
  <2> DEFINE u == Head(updates[s])  q == Tail(updates[s])
  <2>1. /\ updates[s] # <<>> /\ live' = live
        /\ presentation' = [presentation EXCEPT ![s] = u.state]
    BY <1>5 DEF Apply
  <2>2. /\ u \in Updates /\ q \in Seq(Updates) /\ QueueOK(q, transition[s].stage)
        /\ u.by = "transition" => Plain(q) /\ transition[s].stage \in {"opening", "settling"}
        /\ u.state = "opening" => u.by = "transition" /\ transition[s].stage = "opening"
    BY <1>1, <2>1, TailOK, HeadTyped
  <2>3. presentation'[s] = u.state /\ \A r \in Sessions \ {s} : presentation'[r] = presentation[r]
    BY <1>1, <2>1 DEF TypeOK
  <2>4. CASE u.by = "transition" /\ AppliedForTransition(s, q)
    <3>1. transition[s].stage \notin Commanding
      BY <2>2, <2>4 DEF Commanding
    <3>2. \A p \in pending : p.by = "transition" => p.session # s
      BY <3>1 DEF OpeningInv, PendingOK
    <3>3. CASE Proceed(s, q)
      <4>1. Progressed(s, q, pending)
        BY <1>1, <2>2, <3>3, ProceedProgresses
      <4>2. QED BY <1>1, <2>1, <2>2, <2>3, <2>4, <3>2, <4>1, ProgressOpening
    <3>4. CASE /\ transition[s].stage = "settling"
               /\ transition' = [transition EXCEPT ![s] = Idle]
               /\ updates' = [updates EXCEPT ![s] = q] /\ Nothing(pending)
      <4>1. /\ updates'[s] = q /\ pending' = pending /\ u.state # "opening"
            /\ \A r \in Sessions \ {s} : updates'[r] = updates[r] /\ transition'[r] = transition[r]
        BY <1>1, <2>2, <3>4 DEF TypeOK, Nothing
      <4>2. QueuesOK'
        BY <2>2, <2>4, <4>1, PlainOK DEF OpeningInv, QueuesOK
      <4>3. \A p \in pending : p.session \in Sessions
        BY <1>1 DEF TypeOK, Commands
      <4>4. PendingOK'
        BY <3>2, <4>1, <4>3 DEF OpeningInv, PendingOK
      <4>5. OpeningOK'
        BY <1>1, <2>1, <2>3, <4>1 DEF OpeningInv, OpeningOK, TypeOK
      <4>6. QED BY <4>2, <4>4, <4>5 DEF OpeningInv
    <3>5. QED BY <2>4, <3>3, <3>4 DEF AppliedForTransition
  <2>5. CASE u.by # "transition" /\ updates' = [updates EXCEPT ![s] = q]
             /\ UNCHANGED <<window, creation, transition, pending, inbox>>
    <3>1. /\ updates'[s] = q /\ \A r \in Sessions \ {s} : updates'[r] = updates[r]
          /\ transition' = transition /\ pending' = pending /\ u.state # "opening"
      BY <1>1, <2>2, <2>5 DEF TypeOK
    <3>2. QueuesOK'
      BY <2>2, <3>1 DEF OpeningInv, QueuesOK
    <3>3. PendingOK'
      BY <3>1 DEF OpeningInv, PendingOK
    <3>4. OpeningOK'
      BY <1>1, <2>1, <2>3, <3>1 DEF OpeningInv, OpeningOK, TypeOK
    <3>5. QED BY <3>2, <3>3, <3>4 DEF OpeningInv
  <2>6. QED BY <1>5, <2>4, <2>5 DEF Apply
<1>6. CASE CloseBegun(s)
  <2>1. CASE UNCHANGED pending
    BY <1>2, <1>6, <2>1 DEF CloseBegun
  <2>2. CASE Send(pending, s, registry[s], "close", "closer")
    <3>1. PICK p : p.by = "closer" /\ pending' = pending \cup {p}
      BY <2>2 DEF Send
    <3>2. UNCHANGED <<transition, presentation, updates, live>>
      BY <1>6 DEF CloseBegun
    <3>3. PendingOK'
      BY <3>1, <3>2 DEF OpeningInv, PendingOK
    <3>4. QED BY <3>2, <3>3 DEF OpeningInv, QueuesOK, OpeningOK
  <2>3. QED BY <1>6, <2>1, <2>2 DEF CloseBegun
<1>7. CASE ReadyResumed(s) \/ ReadyTimedOut(s) \/ CreationResumed(s)
  <2>1. Progressed(s, updates[s], pending)
    BY <1>1, <1>7, PresentProgresses, FailProgresses, AwaitReadyProgresses
       DEF ReadyResumed, ReadyTimedOut, CreationResumed, TypeOK, Usable, Transitions, Owners
  <2>2. live' = live /\ presentation' = presentation /\ transition[s].stage \in {"readying", "creating"}
    BY <1>7 DEF ReadyResumed, ReadyTimedOut, CreationResumed, controllerRest
  <2>3. Plain(updates[s])
    BY <1>1, <2>2, PlainOK
  <2>4. \A p \in pending : p.by = "transition" => p.session # s
    BY <2>2 DEF OpeningInv, PendingOK, Commanding
  <2>5. QED BY <1>1, <2>1, <2>2, <2>3, <2>4, ProgressOpening
<1>8. QED BY <1>3, <1>4, <1>5, <1>6, <1>7 DEF SessionNext

LEMMA SettledOpening ==
  ASSUME OpeningInv, TypeOK', NEW p \in pending, NEW completed \in BOOLEAN, Settled(p, completed),
         UNCHANGED <<live, presentation>>
  PROVE  OpeningInv'
<1> DEFINE s == p.session
<1>1. /\ TypeOK /\ s \in Sessions /\ pending \ {p} \in SUBSET Commands /\ updates[s] \in Seq(Updates)
      /\ pending \ {p} \in SUBSET pending
  BY DEF OpeningInv, TypeOK, Commands
<1>2. CASE p.by = "transition"
  <2>1. Progressed(s, updates[s], pending \ {p})
    BY <1>1, <1>2, AcknowledgedProgresses, FailProgresses DEF Settled
  <2>2. transition[s].stage \in Commanding
        /\ \A c \in pending \ {p} : c.by = "transition" => c.session # s
    BY <1>2 DEF OpeningInv, PendingOK
  <2>3. Plain(updates[s])
    BY <1>1, <2>2, PlainOK DEF OpeningInv, QueuesOK, Commanding
  <2>4. QED BY <1>1, <2>1, <2>2, <2>3, ProgressOpening
<1>3. CASE p.by = "closer"
  BY <1>3, OthersOpening DEF Settled, Nothing, Enqueued
<1>4. QED BY <1>2, <1>3 DEF Settled

LEMMA OpeningStep ==
  ASSUME OpeningInv, [Next]_vars
  PROVE  OpeningInv'
<1>1. TypeOK /\ TypeOK'
  BY TypeStep DEF OpeningInv
<1>2. ASSUME NEW s \in Sessions, SessionNext(s) PROVE OpeningInv'
  BY <1>1, <1>2, SessionOpening
<1>3. ASSUME NEW w \in Windows, NEW s \in Sessions, ViewNext(w, s) PROVE OpeningInv'
  <2>1. UNCHANGED <<transition, presentation, pending, live>>
    BY <1>3 DEF ViewNext, ViewRequested, ViewOpened, CloseViewServed, OrphanRequested,
       OrphanDisposed, Reveal, Hide, ReportFocus, mainRest
  <2>2. QED BY <1>1, <1>3, <2>1, ViewEnqueues, OthersOpening
<1>4. ASSUME NEW w \in Windows, WindowNext(w) PROVE OpeningInv'
  <2>1. CASE CommandReceived(w)
    BY <1>1, <2>1, CommandEnqueues, OthersOpening DEF CommandReceived, mainRest
  <2>2. CASE WindowRequested(w) \/ LoadEnded(w) \/ RendererReady(w)
    BY <1>1, <2>2 DEF WindowRequested, LoadEnded, RendererReady, rest, OpeningInv, QueuesOK,
       PendingOK, OpeningOK
  <2>3. CASE \E state \in {"crashed", "destroyed"} : Lost(w, state)
    BY <1>1, <2>3, LostOpening
  <2>4. QED BY <1>4, <2>1, <2>2, <2>3 DEF WindowNext
<1>5. ASSUME NEW m \in acks, Acknowledge(m) PROVE OpeningInv'
  <2>1. UNCHANGED <<live, presentation>>
    BY <1>5 DEF Acknowledge
  <2>2. CASE \E p \in pending : Settled(p, m.status = "completed")
    BY <1>1, <2>1, <2>2, SettledOpening
  <2>3. CASE UNCHANGED <<transition, updates, pending, inbox, closer, registry>>
    BY <1>1, <2>1, <2>3, OthersOpening DEF Enqueued
  <2>4. QED BY <1>5, <2>2, <2>3 DEF Acknowledge
<1>6. ASSUME NEW p \in pending, CommandFailed(p) PROVE OpeningInv'
  BY <1>1, <1>6, SettledOpening DEF CommandFailed
<1>7. CASE UNCHANGED vars
  BY <1>1, <1>7 DEF vars, mainVars, OpeningInv, QueuesOK, PendingOK, OpeningOK
<1>8. QED BY <1>2, <1>3, <1>4, <1>5, <1>6, <1>7 DEF Next

\* No session is left "opening", whatever crashes, fails or comes late: the transition
\* that made it so still works on it (presentation-controller.ts, setPresentation).
THEOREM OpeningSafe == Spec => []NeverLeftOpening
<1>1. Init => OpeningInv
  <2> SUFFICES ASSUME Init PROVE OpeningInv
    OBVIOUS
  <2>1. \A q, stage : q = <<>> => QueueOK(q, stage)
    BY EmptySeq DEF QueueOK
  <2>2. QED BY <2>1, TypeInit DEF Init, OpeningInv, QueuesOK, PendingOK, OpeningOK
<1>2. OpeningInv /\ [Next]_vars => OpeningInv'
  BY OpeningStep
<1>3. OpeningInv => NeverLeftOpening
  BY DEF OpeningInv, OpeningOK, NeverLeftOpening, Idle
<1>4. QED BY <1>1, <1>2, <1>3, PTL DEF Spec

-----------------------------------------------------------------------------
\* A registered view exists, or is about to.

\* A window that has not crashed or closed.
Working(w) == window[w] \notin {"crashed", "destroyed"}

\* Only a renderer that is ready has views, or is told to open one.
ViewsOK ==
    \A w \in Windows :
        /\ w \in ready => window[w] = "usable"
        /\ w \notin ready => \A s \in Sessions : view[w][s] = "none" /\ orphan[w][s] = "none"
        /\ w \notin ready => \A i \in DOMAIN inbox[w] : inbox[w][i].action # "open"

\* What w's view of a session, in state x, has in its queue: the update it asks for, if
\* it is asking; and those of closings, which came before.
QueueFits(q, w, x) ==
    \A i \in DOMAIN q : q[i].window = w =>
        /\ q[i].by = "view" =>
              /\ x = "asking"
              /\ \A j \in DOMAIN q : q[j].by = "view" /\ q[j].window = w => j = i
        /\ q[i].by = "closing" =>
              /\ x \notin {"answered", "open", "closing"}
              /\ \A j \in DOMAIN q : q[j].by = "view" /\ q[j].window = w => i < j
QueuesFit == \A s \in Sessions, w \in Windows : Working(w) => QueueFits(updates[s], w, view[w][s])

ViewInv == TypeOK /\ ViewsOK /\ QueuesFit /\ RegisteredHasView

\* A view in state x, whose tab left a start in state y, may be registered.
Held(x, y) == x \in {"asking", "answered", "open", "closing"} \/ y \in {"asking", "answered"}

LEMMA HeldRegistered ==
  RegisteredHasView <=> \A s \in Sessions : registry[s] # NoWindow =>
                          /\ window[registry[s]] = "usable"
                          /\ Held(view[registry[s]][s], orphan[registry[s]][s])
BY DEF RegisteredHasView, Held

LEMMA FitsAppend ==
  ASSUME NEW q \in Seq(Updates), NEW u \in Updates, NEW w, NEW x, QueueFits(q, w, x)
  PROVE  /\ u.by \notin {"view", "closing"} \/ u.window # w => QueueFits(Append(q, u), w, x)
         /\ u.by = "view" /\ x = "starting" => QueueFits(Append(q, u), w, "asking")
         /\ u.by = "closing" /\ x = "closing" => QueueFits(Append(q, u), w, "closed")
<1>1. /\ DOMAIN Append(q, u) = 1..(Len(q) + 1) /\ DOMAIN q = 1..Len(q) /\ Len(q) \in Nat
      /\ \A i \in 1..Len(q) : Append(q, u)[i] = q[i]
      /\ Append(q, u)[Len(q) + 1] = u
  BY AppendProperties, LenProperties
<1>2. /\ \A i \in DOMAIN Append(q, u) : i \in DOMAIN q \/ i = Len(q) + 1
      /\ \A i \in DOMAIN q : Append(q, u)[i] = q[i] /\ i < Len(q) + 1
  BY <1>1
<1>3. CASE u.by \notin {"view", "closing"} \/ u.window # w
  BY <1>1, <1>2, <1>3 DEF QueueFits
<1>4. CASE u.by = "view" /\ x = "starting"
  BY <1>1, <1>2, <1>4 DEF QueueFits
<1>5. CASE u.by = "closing" /\ x = "closing"
  BY <1>1, <1>2, <1>5 DEF QueueFits
<1>6. QED BY <1>3, <1>4, <1>5

\* What concerns no view of w fits it.
LEMMA FitsOthers ==
  ASSUME NEW q \in Seq(Updates), NEW state \in Requested, NEW v \in Windows, NEW w, NEW x,
         NEW by \in {"view", "orphan", "closing", "nobody"}, QueueFits(q, w, x),
         by \in {"orphan", "nobody"} \/ v # w
  PROVE  QueueFits(Append(q, Update(state, by, v)), w, x)
<1>1. Update(state, by, v) \in Updates /\ Update(state, by, v).by = by /\ Update(state, by, v).window = v
  BY UpdateTyped DEF States, Waiters
<1>2. QED BY <1>1, FitsAppend

LEMMA FitsTail ==
  ASSUME NEW q \in Seq(Updates), q # <<>>, NEW w, NEW x, QueueFits(q, w, x)
  PROVE  /\ QueueFits(Tail(q), w, x)
         /\ Head(q).by = "view" /\ Head(q).window = w =>
               x = "asking" /\ \A y \in Views : QueueFits(Tail(q), w, y)
         /\ Head(q).by = "closing" /\ Head(q).window = w => x \notin {"answered", "open", "closing"}
<1>1. \A i \in DOMAIN Tail(q) : i + 1 \in DOMAIN q /\ i + 1 # 1 /\ Tail(q)[i] = q[i + 1] /\ i \in Int
  BY TailIndex
<1>2. Head(q) = q[1] /\ 1 \in DOMAIN q
  BY TailIndex
<1>3. QueueFits(Tail(q), w, x)
  <2>1. \A i, j \in DOMAIN Tail(q) : (i + 1 = j + 1 => i = j) /\ (i + 1 < j + 1 => i < j)
    BY <1>1
  <2>2. QED BY <1>1, <2>1 DEF QueueFits
<1>4. CASE Head(q).by = "view" /\ Head(q).window = w
  <2>1. \A i \in DOMAIN Tail(q) : Tail(q)[i].window = w => Tail(q)[i].by \notin {"view", "closing"}
    <3>1. \A i \in DOMAIN Tail(q) : ~(i + 1 < 1)
      <4>1. DOMAIN Tail(q) = 1..Len(Tail(q))
        BY HeadTailProperties, LenProperties
      <4>2. QED BY <4>1
    <3>2. QED BY <1>1, <1>2, <1>4, <3>1 DEF QueueFits
  <2>2. QED BY <1>2, <1>3, <1>4, <2>1 DEF QueueFits
<1>5. QED BY <1>2, <1>3, <1>4 DEF QueueFits

LEMMA FitsOrphaned ==
  ASSUME NEW q \in Seq(Updates), NEW v \in Windows, NEW w, NEW x, QueueFits(q, w, x)
  PROVE  /\ v # w => QueueFits(Orphaned(q, v), w, x)
         /\ v = w /\ x \in {"starting", "asking", "answered"} => QueueFits(Orphaned(q, v), w, "none")
<1>1. DOMAIN Orphaned(q, v) = DOMAIN q
  BY OrphanedTyped
<1>2. \A i \in DOMAIN q : /\ Orphaned(q, v)[i].window = q[i].window
                          /\ (Orphaned(q, v)[i].by = "closing") <=> (q[i].by = "closing")
                          /\ Orphaned(q, v)[i].by = "view" => q[i].by = "view" /\ q[i].window # v
                          /\ q[i].window # v => Orphaned(q, v)[i] = q[i]
  BY OrphanedTyped, UpdateTyped
<1>3. QED BY <1>1, <1>2 DEF QueueFits

LEMMA FitsState ==
  ASSUME NEW q, NEW w, NEW x, NEW y, QueueFits(q, w, x), x # "asking",
         y \in {"answered", "open", "closing"} => x \in {"answered", "open", "closing"}
  PROVE  QueueFits(q, w, y)
BY DEF QueueFits

\* One view, and the start that its tab left behind, changes with its session's queue.
LEMMA ViewFrame ==
  ASSUME ViewInv, TypeOK', NEW w \in Windows, NEW s \in Sessions, UNCHANGED <<window, ready>>,
         \A v \in Windows \ ready : \A i \in DOMAIN inbox'[v] : inbox'[v][i].action # "open",
         \A v \in Windows, r \in Sessions : v # w \/ r # s =>
             view'[v][r] = view[v][r] /\ orphan'[v][r] = orphan[v][r],
         \A r \in Sessions \ {s} : registry'[r] = registry[r] /\ updates'[r] = updates[r],
         w \in ready \/ (view'[w][s] = "none" /\ orphan'[w][s] = "none"),
         \A v \in Windows : Working(v) => QueueFits(updates'[s], v, view'[v][s]),
         registry'[s] = w => w \in ready /\ Held(view'[w][s], orphan'[w][s]),
         registry'[s] # w => registry'[s] \in {registry[s], NoWindow}
  PROVE  ViewInv'
<1>1. ViewsOK'
  BY DEF ViewsOK, ViewInv
<1>2. QueuesFit'
  BY DEF QueuesFit, ViewInv, Working
<1>3. ASSUME NEW r \in Sessions, registry'[r] # NoWindow
      PROVE  window'[registry'[r]] = "usable" /\ Held(view'[registry'[r]][r], orphan'[registry'[r]][r])
  <2>1. CASE r = s /\ registry'[s] = w
    <3>1. window[w] = "usable" /\ Held(view'[w][s], orphan'[w][s])
      BY <2>1 DEF ViewInv, ViewsOK
    <3>2. QED BY <2>1, <3>1
  <2>2. CASE r # s \/ registry'[s] # w
    <3>1. registry'[r] = registry[r] /\ (registry[r] # w \/ r # s)
      BY <1>3, <2>2
    <3>2. window[registry[r]] = "usable" /\ Held(view[registry[r]][r], orphan[registry[r]][r])
      BY <1>3, <3>1, HeldRegistered DEF ViewInv
    <3>3. registry[r] \in Windows
      BY <1>3, <3>1 DEF ViewInv, TypeOK, Owners
    <3>4. view'[registry[r]][r] = view[registry[r]][r] /\ orphan'[registry[r]][r] = orphan[registry[r]][r]
      BY <3>1, <3>3
    <3>5. QED BY <3>1, <3>2, <3>4
  <2>3. QED BY <2>1, <2>2
<1>4. RegisteredHasView'
  BY <1>3 DEF RegisteredHasView, Held
<1>5. QED BY <1>1, <1>2, <1>4 DEF ViewInv

\* Nothing of the views changes: a session's queue grows by an update that is none of
\* theirs, or loses its first, and a registration may be given up.
LEMMA QueueFrame ==
  ASSUME ViewInv, TypeOK', UNCHANGED <<ready, view, orphan>>,
         \A w \in Windows : window[w] # "unborn" => window'[w] = window[w],
         \A w \in Windows \ ready : \A i \in DOMAIN inbox'[w] : inbox'[w][i].action # "open",
         \A s \in Sessions : registry'[s] \in {registry[s], NoWindow},
         \A s \in Sessions, w \in Windows : QueueFits(updates[s], w, view[w][s]) =>
             QueueFits(updates'[s], w, view[w][s])
  PROVE  ViewInv'
<1>1. \A w \in Windows : (w \in ready => window'[w] = "usable") /\ (Working(w)' => Working(w))
  BY DEF ViewInv, ViewsOK, Working
<1>2. ViewsOK'
  BY <1>1 DEF ViewsOK, ViewInv
<1>3. QueuesFit'
  BY <1>1 DEF QueuesFit, ViewInv
<1>4. RegisteredHasView'
  BY DEF RegisteredHasView, ViewInv, TypeOK, Owners
<1>5. QED BY <1>2, <1>3, <1>4 DEF ViewInv

\* The transition of s goes on.
LEMMA ProgressViews ==
  ASSUME ViewInv, TypeOK', NEW s \in Sessions, NEW queue \in Seq(Updates), NEW others,
         Progressed(s, queue, others), UNCHANGED <<ready, view, orphan, registry>>,
         \A w \in Windows : window[w] # "unborn" => window'[w] = window[w],
         \A w \in Windows : QueueFits(updates[s], w, view[w][s]) => QueueFits(queue, w, view[w][s])
  PROVE  ViewInv'
<1>1. TypeOK
  BY DEF ViewInv
<1>2. ASSUME NEW r \in Sessions, NEW w \in Windows, QueueFits(updates[r], w, view[w][r])
      PROVE  QueueFits(updates'[r], w, view[w][r])
  <2>1. CASE r = s
    <3>1. \A state \in States : Update(state, "transition", NoWindow) \in Updates
                                /\ Update(state, "transition", NoWindow).by = "transition"
      BY UpdateTyped
    <3>2. QueueFits(queue, w, view[w][s])
      BY <1>2, <2>1
    <3>3. \A state \in States \ {"opening"} :
              QueueFits(Append(queue, Update(state, "transition", NoWindow)), w, view[w][s])
      BY <3>1, <3>2, FitsAppend
    <3>4. QED BY <2>1, <3>2, <3>3 DEF Progressed
  <2>2. CASE r # s
    BY <1>2, <2>2 DEF Progressed
  <2>3. QED BY <2>1, <2>2
<1>3. ASSUME NEW w \in Windows \ ready, NEW i \in DOMAIN inbox'[w]
      PROVE  inbox'[w][i].action # "open"
  <2>1. inbox[w] \in Seq(Messages) /\ \A j \in DOMAIN inbox[w] : inbox[w][j].action # "open"
    BY <1>1 DEF TypeOK, ViewInv, ViewsOK
  <2>2. CASE inbox'[w] = inbox[w]
    BY <1>3, <2>1, <2>2
  <2>3. CASE \E m \in Messages : inbox'[w] = Append(inbox[w], m) /\ (m.action = "open" => w \in ready)
    <3>1. PICK m \in Messages : inbox'[w] = Append(inbox[w], m) /\ m.action # "open"
      BY <2>3
    <3>2. QED BY <1>3, <2>1, <3>1, AppendProperties, LenProperties
  <2>4. QED BY <2>2, <2>3 DEF Progressed
<1>4. QED BY <1>2, <1>3, QueueFrame

\* One update is queued, for one session.
LEMMA QueuedOnce ==
  ASSUME TypeOK, NEW s \in Sessions, NEW u \in Updates, updates' = Queue(s, u)
  PROVE  /\ \A r \in Sessions \ {s} : updates'[r] = updates[r]
         /\ updates'[s] = updates[s] \/ updates'[s] = Append(updates[s], u)
         /\ updates[s] \in Seq(Updates)
BY DEF Queue, TypeOK

LEMMA TabGoneFits ==
  ASSUME ViewInv, NEW w \in Windows, NEW s \in Sessions, TabGone(w, s),
         view[w][s] \in {"starting", "asking", "answered"}
  PROVE  /\ \A v \in Windows, r \in Sessions : v # w \/ r # s =>
                view'[v][r] = view[v][r] /\ orphan'[v][r] = orphan[v][r]
         /\ view'[w][s] = "none" /\ orphan'[w][s] = view[w][s] /\ orphan[w][s] = "none"
         /\ \A r \in Sessions \ {s} : updates'[r] = updates[r]
         /\ \A v \in Windows : Working(v) => QueueFits(updates'[s], v, view'[v][s])
<1>1. TypeOK /\ updates[s] \in Seq(Updates)
  BY DEF ViewInv, TypeOK
<1>2. /\ \A v \in Windows, r \in Sessions : v # w \/ r # s =>
             view'[v][r] = view[v][r] /\ orphan'[v][r] = orphan[v][r]
      /\ view'[w][s] = "none" /\ orphan'[w][s] = view[w][s] /\ orphan[w][s] = "none"
  BY <1>1 DEF TabGone, SetView, TypeOK
<1>3. updates'[s] = Orphaned(updates[s], w) /\ \A r \in Sessions \ {s} : updates'[r] = updates[r]
  BY <1>1 DEF TabGone, TypeOK
<1>4. ASSUME NEW v \in Windows, Working(v) PROVE QueueFits(updates'[s], v, view'[v][s])
  <2>1. QueueFits(updates[s], v, view[v][s])
    BY <1>4 DEF ViewInv, QueuesFit
  <2>2. QED BY <1>1, <1>2, <1>3, <2>1, FitsOrphaned
<1>5. QED BY <1>2, <1>3, <1>4

\* w is told that its view of s is closed, and forgets it.
LEMMA ClosedFits ==
  ASSUME TypeOK, NEW w \in Windows, NEW s \in Sessions, NEW by \in {"nobody", "closing"},
         CloseViewReceived(w, s, by)
  PROVE  /\ \A r \in Sessions \ {s} : registry'[r] = registry[r] /\ updates'[r] = updates[r]
         /\ registry'[s] # w /\ registry'[s] \in {registry[s], NoWindow}
         /\ \/ updates'[s] = updates[s]
            \/ s \in live /\ registry[s] = w /\ updates'[s] = Append(updates[s], Update("headless", by, w))
<1>1. registry'[s] # w /\ registry'[s] \in {registry[s], NoWindow}
      /\ \A r \in Sessions \ {s} : registry'[r] = registry[r]
  BY NoWindowAssumption DEF CloseViewReceived, RegistryWithout, TypeOK
<1>2. CASE registry[s] = w
  BY <1>1, <1>2 DEF CloseViewReceived, Queue, TypeOK
<1>3. CASE registry[s] # w
  BY <1>1, <1>3 DEF CloseViewReceived
<1>4. QED BY <1>2, <1>3

LEMMA ViewViews ==
  ASSUME ViewInv, TypeOK', NEW w \in Windows, NEW s \in Sessions, ViewNext(w, s)
  PROVE  ViewInv'
<1>1. /\ TypeOK /\ updates[s] \in Seq(Updates) /\ UNCHANGED <<window, ready, inbox>>
      /\ \A v \in Windows \ ready : \A i \in DOMAIN inbox'[v] : inbox'[v][i].action # "open"
  <2>1. TypeOK /\ updates[s] \in Seq(Updates)
    BY DEF ViewInv, TypeOK
  <2>2. UNCHANGED <<window, ready, inbox>>
    BY DEF ViewNext, ViewRequested, ViewOpened, CloseViewServed, OrphanRequested,
       OrphanDisposed, Reveal, Hide, ReportFocus, mainRest
  <2>3. QED BY <2>1, <2>2 DEF ViewInv, ViewsOK
<1>2. \A v \in Windows : Working(v) => QueueFits(updates[s], v, view[v][s])
  BY DEF ViewInv, QueuesFit
<1>3. view[w][s] # "none" \/ orphan[w][s] # "none" => w \in ready /\ Working(w)
  BY DEF ViewInv, ViewsOK, Working
<1>4. registry[s] = w => Held(view[w][s], orphan[w][s]) /\ w \in ready
  BY <1>3, NoWindowAssumption, HeldRegistered DEF ViewInv, Held
<1>5. \A v : SetView(w, s, v) =>
          /\ view'[w][s] = v
          /\ \A x \in Windows, r \in Sessions : x # w \/ r # s => view'[x][r] = view[x][r]
  BY <1>1 DEF SetView, TypeOK
<1>6. /\ \A v \in Windows, state \in Requested, by \in {"view", "orphan", "closing", "nobody"} :
             /\ Update(state, by, v) \in Updates
             /\ Update(state, by, v).by = by /\ Update(state, by, v).window = v
  BY UpdateTyped DEF States, Waiters
<1>7. CASE ViewRequested(w, s)
  <2>1. /\ orphan' = orphan /\ view[w][s] = "starting"
        /\ \A x \in Windows, r \in Sessions : x # w \/ r # s => view'[x][r] = view[x][r]
    BY <1>5, <1>7 DEF ViewRequested
  <2>2. CASE /\ registry[s] \in {NoWindow, w} /\ registry' = [registry EXCEPT ![s] = w]
             /\ updates' = Queue(s, Update("background", "view", w))
             /\ SetView(w, s, "asking") /\ s \in live
    <3>1. registry'[s] = w /\ view'[w][s] = "asking"
          /\ \A r \in Sessions \ {s} : registry'[r] = registry[r]
      BY <1>1, <1>5, <2>2 DEF TypeOK
    <3>2. updates'[s] = Append(updates[s], Update("background", "view", w))
          /\ \A r \in Sessions \ {s} : updates'[r] = updates[r]
      BY <1>1, <2>2 DEF Queue, TypeOK
    <3>3. ASSUME NEW v \in Windows, Working(v) PROVE QueueFits(updates'[s], v, view'[v][s])
      <4>1. CASE v = w
        BY <1>1, <1>2, <1>6, <2>1, <3>1, <3>2, <3>3, <4>1, FitsAppend DEF Requested
      <4>2. CASE v # w
        BY <1>1, <1>2, <1>6, <2>1, <3>2, <3>3, <4>2, FitsAppend DEF Requested
      <4>3. QED BY <4>1, <4>2
    <3>4. QED BY <1>1, <1>3, <2>1, <3>1, <3>2, <3>3, ViewFrame DEF Held
  <2>3. CASE registry' = RegistryWithout(s, w) /\ SetView(w, s, "failed") /\ UNCHANGED updates
    <3>1. /\ registry'[s] # w /\ registry'[s] \in {registry[s], NoWindow}
          /\ \A r \in Sessions \ {s} : registry'[r] = registry[r]
      BY <1>1, <2>3, NoWindowAssumption DEF RegistryWithout, TypeOK
    <3>2. ASSUME NEW v \in Windows, Working(v) PROVE QueueFits(updates'[s], v, view'[v][s])
      <4>1. CASE v = w
        BY <1>2, <1>5, <2>1, <2>3, <3>2, <4>1, FitsState
      <4>2. CASE v # w
        BY <1>2, <2>1, <2>3, <3>2, <4>2
      <4>3. QED BY <4>1, <4>2
    <3>3. QED BY <1>1, <1>3, <2>1, <2>3, <3>1, <3>2, ViewFrame
  <2>4. QED BY <1>7, <2>2, <2>3 DEF ViewRequested
<1>8. CASE ViewOpened(w, s)
  <2>1. /\ view[w][s] = "answered" /\ view'[w][s] = "open" /\ orphan' = orphan
        /\ UNCHANGED <<registry, updates>>
        /\ \A x \in Windows, r \in Sessions : x # w \/ r # s => view'[x][r] = view[x][r]
    BY <1>5, <1>8 DEF ViewOpened, mainRest
  <2>2. ASSUME NEW v \in Windows, Working(v) PROVE QueueFits(updates'[s], v, view'[v][s])
    BY <1>2, <2>1, <2>2, FitsState
  <2>3. QED BY <1>1, <1>3, <2>1, <2>2, ViewFrame DEF Held
<1>9. CASE OrphanRequested(w, s)
  <2>1. /\ view' = view /\ orphan[w][s] = "starting"
        /\ \A x \in Windows, r \in Sessions : x # w \/ r # s => orphan'[x][r] = orphan[x][r]
    BY <1>1, <1>9 DEF OrphanRequested, TypeOK
  <2>2. CASE /\ registry[s] \in {NoWindow, w} /\ registry' = [registry EXCEPT ![s] = w]
             /\ updates' = Queue(s, Update("background", "orphan", w))
             /\ orphan' = [orphan EXCEPT ![w][s] = "asking"]
    <3>1. registry'[s] = w /\ orphan'[w][s] = "asking"
          /\ \A r \in Sessions \ {s} : registry'[r] = registry[r]
      BY <1>1, <2>2 DEF TypeOK
    <3>2. /\ \/ updates'[s] = updates[s]
             \/ updates'[s] = Append(updates[s], Update("background", "orphan", w))
          /\ \A r \in Sessions \ {s} : updates'[r] = updates[r]
      BY <1>1, <2>2 DEF Queue, TypeOK
    <3>3. ASSUME NEW v \in Windows, Working(v) PROVE QueueFits(updates'[s], v, view'[v][s])
      BY <1>1, <1>2, <2>1, <3>2, <3>3, FitsOthers DEF Requested
    <3>4. QED BY <1>1, <1>3, <2>1, <3>1, <3>2, <3>3, ViewFrame DEF Held
  <2>3. CASE /\ registry' = RegistryWithout(s, w) /\ UNCHANGED updates
             /\ orphan' = [orphan EXCEPT ![w][s] = "none"]
    <3>1. /\ registry'[s] # w /\ registry'[s] \in {registry[s], NoWindow}
          /\ \A r \in Sessions \ {s} : registry'[r] = registry[r]
      BY <1>1, <2>3, NoWindowAssumption DEF RegistryWithout, TypeOK
    <3>2. QED BY <1>1, <1>2, <1>3, <2>1, <2>3, <3>1, ViewFrame
  <2>4. QED BY <1>9, <2>2, <2>3 DEF OrphanRequested
<1>10. CASE OrphanDisposed(w, s)
  <2>1. /\ view' = view /\ orphan[w][s] = "answered" /\ CloseViewReceived(w, s, "nobody")
        /\ \A x \in Windows, r \in Sessions : x # w \/ r # s => orphan'[x][r] = orphan[x][r]
    BY <1>1, <1>10 DEF OrphanDisposed, TypeOK
  <2>2. /\ \A r \in Sessions \ {s} : registry'[r] = registry[r] /\ updates'[r] = updates[r]
        /\ registry'[s] # w /\ registry'[s] \in {registry[s], NoWindow}
        /\ \/ updates'[s] = updates[s]
           \/ updates'[s] = Append(updates[s], Update("headless", "nobody", w))
    BY <1>1, <2>1, ClosedFits
  <2>3. ASSUME NEW v \in Windows, Working(v) PROVE QueueFits(updates'[s], v, view'[v][s])
    BY <1>1, <1>2, <2>1, <2>2, <2>3, FitsOthers DEF Requested
  <2>4. QED BY <1>1, <1>3, <2>1, <2>2, <2>3, ViewFrame
<1>11. CASE CloseViewServed(w, s)
  <2>1. view[w][s] = "closing" /\ orphan' = orphan /\ CloseViewReceived(w, s, "closing")
    BY <1>11 DEF CloseViewServed
  <2>2. /\ \A r \in Sessions \ {s} : registry'[r] = registry[r] /\ updates'[r] = updates[r]
        /\ registry'[s] # w /\ registry'[s] \in {registry[s], NoWindow}
        /\ \/ updates'[s] = updates[s]
           \/ s \in live /\ registry[s] = w
              /\ updates'[s] = Append(updates[s], Update("headless", "closing", w))
    BY <1>1, <2>1, ClosedFits
  <2>3. CASE SetView(w, s, "closed")
    <3>1. ASSUME NEW v \in Windows, Working(v) PROVE QueueFits(updates'[s], v, view'[v][s])
      <4>1. CASE v = w
        <5>1. QueueFits(updates[s], w, "closing") /\ view'[w][s] = "closed"
          BY <1>2, <1>5, <2>1, <2>3, <3>1, <4>1
        <5>2. QueueFits(updates[s], w, "closed")
          BY <5>1, FitsState
        <5>3. QueueFits(Append(updates[s], Update("headless", "closing", w)), w, "closed")
          BY <1>1, <1>6, <5>1, FitsAppend DEF Requested
        <5>4. QED BY <2>2, <4>1, <5>1, <5>2, <5>3
      <4>2. CASE v # w
        BY <1>1, <1>2, <1>5, <2>2, <2>3, <3>1, <4>2, FitsOthers DEF Requested
      <4>3. QED BY <4>1, <4>2
    <3>2. QED BY <1>1, <1>3, <1>5, <2>1, <2>2, <2>3, <3>1, ViewFrame
  <2>4. CASE (registry[s] # w \/ s \notin live) /\ AppliedForClosing(s, w)
    <3>1. /\ view'[w][s] = "none" /\ updates'[s] = updates[s]
          /\ \A x \in Windows, r \in Sessions : x # w \/ r # s => view'[x][r] = view[x][r]
      BY <1>1, <2>1, <2>2, <2>4 DEF AppliedForClosing, TypeOK
    <3>2. ASSUME NEW v \in Windows, Working(v) PROVE QueueFits(updates'[s], v, view'[v][s])
      BY <1>2, <2>1, <3>1, <3>2, FitsState
    <3>3. QED BY <1>1, <1>3, <2>1, <2>2, <3>1, <3>2, ViewFrame
  <2>5. QED BY <1>11, <2>3, <2>4 DEF CloseViewServed
<1>12. CASE Reveal(w, s)
  <2>1. /\ view[w][s] = "none" /\ view'[w][s] = "starting" /\ orphan' = orphan /\ w \in ready
        /\ UNCHANGED <<registry, updates>>
        /\ \A x \in Windows, r \in Sessions : x # w \/ r # s => view'[x][r] = view[x][r]
    BY <1>5, <1>12 DEF Reveal, mainRest
  <2>2. ASSUME NEW v \in Windows, Working(v) PROVE QueueFits(updates'[s], v, view'[v][s])
    BY <1>2, <2>1, <2>2, FitsState
  <2>3. QED BY <1>1, <1>4, <2>1, <2>2, ViewFrame DEF Held
<1>13. CASE Hide(w, s)
  <2>1. UNCHANGED registry
    BY <1>13 DEF Hide, mainRest
  <2>2. CASE view[w][s] \in {"starting", "asking", "answered"} /\ TabGone(w, s)
    BY <1>1, <1>3, <1>4, <2>1, <2>2, TabGoneFits, ViewFrame DEF Held
  <2>3. CASE /\ view[w][s] \in {"failed", "open"}
             /\ SetView(w, s, IF view[w][s] = "open" THEN "closing" ELSE "none")
             /\ UNCHANGED <<orphan, updates>>
    <3>1. ASSUME NEW v \in Windows, Working(v) PROVE QueueFits(updates'[s], v, view'[v][s])
      BY <1>2, <1>5, <2>3, <3>1, FitsState
    <3>2. QED BY <1>1, <1>3, <1>4, <1>5, <2>1, <2>3, <3>1, ViewFrame DEF Held
  <2>4. QED BY <1>13, <2>2, <2>3 DEF Hide
<1>14. CASE \E focused \in BOOLEAN : ReportFocus(w, s, focused)
  <2>1. UNCHANGED <<view, orphan, registry>>
        /\ \E state \in Requested : updates' = Queue(s, Update(state, "nobody", w))
    BY <1>14 DEF ReportFocus, mainRest, Requested
  <2>2. PICK state \in Requested : updates' = Queue(s, Update(state, "nobody", w))
    BY <2>1
  <2>3. /\ \A r \in Sessions \ {s} : updates'[r] = updates[r]
        /\ updates'[s] = updates[s] \/ updates'[s] = Append(updates[s], Update(state, "nobody", w))
    BY <1>1, <1>6, <2>2, QueuedOnce
  <2>4. ASSUME NEW v \in Windows, Working(v) PROVE QueueFits(updates'[s], v, view'[v][s])
    BY <1>1, <1>2, <2>1, <2>3, <2>4, FitsOthers
  <2>5. QED BY <1>1, <1>3, <1>4, <2>1, <2>3, <2>4, ViewFrame
<1>15. QED BY <1>7, <1>8, <1>9, <1>10, <1>11, <1>12, <1>13, <1>14 DEF ViewNext

LEMMA CommandViews ==
  ASSUME ViewInv, TypeOK', NEW w \in Windows, CommandReceived(w)
  PROVE  ViewInv'
<1> DEFINE m == Head(inbox[w])  s == m.session
<1>1. /\ TypeOK /\ m \in Messages /\ s \in Sessions /\ UNCHANGED <<window, ready, registry>>
      /\ inbox' = [inbox EXCEPT ![w] = Tail(@)]
  <2>1. m \in Messages
    BY HeadTyped DEF CommandReceived, ViewInv, TypeOK
  <2>2. QED BY <2>1 DEF CommandReceived, mainRest, ViewInv, Messages
<1>2. /\ \A v \in Windows \ ready : \A i \in DOMAIN inbox'[v] : inbox'[v][i].action # "open"
      /\ m.action = "open" => w \in ready
  <2>1. inbox[w] \in Seq(Messages) /\ inbox[w] # <<>> /\ inbox \in [Windows -> Seq(Messages)]
    BY <1>1 DEF TypeOK, CommandReceived
  <2>2. /\ m = inbox[w][1] /\ 1 \in DOMAIN inbox[w]
        /\ \A i \in DOMAIN Tail(inbox[w]) : i + 1 \in DOMAIN inbox[w] /\ Tail(inbox[w])[i] = inbox[w][i + 1]
    <3>1. Len(inbox[w]) \in Nat /\ Len(inbox[w]) >= 1 /\ DOMAIN inbox[w] = 1..Len(inbox[w])
      BY <2>1, LenProperties, EmptySeq
    <3>2. Tail(inbox[w]) \in Seq(Messages) /\ Len(Tail(inbox[w])) = Len(inbox[w]) - 1
          /\ \A i \in 1..Len(Tail(inbox[w])) : Tail(inbox[w])[i] = inbox[w][i + 1]
      BY <2>1, HeadTailProperties
    <3>3. DOMAIN Tail(inbox[w]) = 1..Len(Tail(inbox[w]))
      BY <3>2, LenProperties
    <3>4. QED BY <3>1, <3>2, <3>3
  <2>3. \A v \in Windows \ ready : \A i \in DOMAIN inbox[v] : inbox[v][i].action # "open"
    BY DEF ViewInv, ViewsOK
  <2>4. m.action = "open" => w \in ready
    BY <2>2, <2>3
  <2>5. ASSUME NEW v \in Windows \ ready, NEW i \in DOMAIN inbox'[v]
        PROVE  inbox'[v][i].action # "open"
    BY <1>1, <2>1, <2>2, <2>3, <2>5
  <2>6. QED BY <2>4, <2>5
<1>3. \A v \in Windows : Working(v) => QueueFits(updates[s], v, view[v][s])
  BY <1>1 DEF ViewInv, QueuesFit
<1>4. view[w][s] # "none" \/ orphan[w][s] # "none" => w \in ready /\ Working(w)
  BY <1>1 DEF ViewInv, ViewsOK, Working
<1>5. registry[s] = w => Held(view[w][s], orphan[w][s]) /\ w \in ready
  BY <1>1, <1>4, NoWindowAssumption, HeldRegistered DEF ViewInv, Held
<1>6. \A v : SetView(w, s, v) =>
          /\ view'[w][s] = v
          /\ \A x \in Windows, r \in Sessions : x # w \/ r # s => view'[x][r] = view[x][r]
  BY <1>1 DEF SetView, TypeOK
<1>7. ASSUME UNCHANGED <<view, orphan, updates>> PROVE ViewInv'
  BY <1>1, <1>2, <1>3, <1>4, <1>5, <1>7, ViewFrame
<1>8. ASSUME NEW y \in Views, SetView(w, s, y), UNCHANGED <<orphan, updates>>, view[w][s] # "asking",
             w \in ready \/ y = "none",
             y \in {"answered", "open", "closing"} => view[w][s] \in {"answered", "open", "closing"},
             registry[s] = w => Held(y, orphan[w][s])
      PROVE  ViewInv'
  <2>1. ASSUME NEW v \in Windows, Working(v) PROVE QueueFits(updates'[s], v, view'[v][s])
    <3>1. CASE v = w
      BY <1>3, <1>6, <1>8, <2>1, <3>1, FitsState
    <3>2. CASE v # w
      BY <1>1, <1>3, <1>6, <1>8, <2>1, <3>2
    <3>3. QED BY <3>1, <3>2
  <2>2. QED BY <1>1, <1>2, <1>4, <1>5, <1>6, <1>8, <2>1, ViewFrame
<1>9. CASE m.action = "open" /\ OpenReceived(w, m)
  <2>1. UNCHANGED <<orphan, updates>>
    BY <1>9 DEF OpenReceived
  <2>2. CASE UNCHANGED view
    BY <1>7, <2>1, <2>2
  <2>3. CASE SetView(w, s, IF view[w][s] = "none" THEN "starting" ELSE view[w][s])
    <3>1. CASE view[w][s] = "none"
      BY <1>2, <1>5, <1>8, <1>9, <2>1, <2>3, <3>1 DEF Views, Held
    <3>2. CASE view[w][s] # "none"
      BY <1>1, <1>7, <2>1, <2>3, <3>2 DEF SetView, TypeOK
    <3>3. QED BY <3>1, <3>2
  <2>4. QED BY <1>9, <2>2, <2>3 DEF OpenReceived
<1>10. CASE FocusReceived(w, m)
  BY <1>7, <1>10 DEF FocusReceived
<1>11. CASE RemoveReceived(w, m)
  <2>1. CASE view[w][s] \in {"none", "failed", "closed"} /\ SetView(w, s, "none")
             /\ UNCHANGED <<orphan, updates>>
    BY <1>5, <1>8, <2>1 DEF Views, Held
  <2>2. CASE view[w][s] \in {"open", "closing"} /\ SetView(w, s, "closing") /\ UNCHANGED <<orphan, updates>>
    BY <1>4, <1>8, <2>2 DEF Views, Held
  <2>3. CASE view[w][s] \in {"starting", "asking", "answered"} /\ TabGone(w, s)
    BY <1>1, <1>2, <1>4, <1>5, <2>3, TabGoneFits, ViewFrame DEF Held
  <2>4. QED BY <1>11, <2>1, <2>2, <2>3 DEF RemoveReceived
<1>12. QED BY <1>9, <1>10, <1>11 DEF CommandReceived

LEMMA ApplyViews ==
  ASSUME ViewInv, TypeOK', NEW s \in Sessions, Apply(s)
  PROVE  ViewInv'
<1> DEFINE u == Head(updates[s])  w == u.window  q == Tail(updates[s])
<1>1. /\ TypeOK /\ updates[s] \in Seq(Updates) /\ updates[s] # <<>> /\ UNCHANGED ready
      /\ u \in Updates /\ q \in Seq(Updates)
  <2>1. TypeOK /\ updates[s] \in Seq(Updates) /\ updates[s] # <<>> /\ UNCHANGED ready
    BY DEF ViewInv, TypeOK, Apply
  <2>2. QED BY <2>1, HeadTyped
<1>2. \A v \in Windows : \A x : QueueFits(updates[s], v, x) => QueueFits(q, v, x)
  BY <1>1, FitsTail
<1>3. CASE u.by = "transition" /\ AppliedForTransition(s, q)
  <2>1. UNCHANGED <<view, orphan, registry>>
    BY <1>3 DEF AppliedForTransition
  <2>2. CASE Proceed(s, q)
    <3>1. Progressed(s, q, pending) /\ WindowsEnsured
      BY <1>1, <2>2, ProceedProgresses
    <3>2. QED BY <1>1, <1>2, <2>1, <3>1, ProgressViews DEF WindowsEnsured
  <2>3. CASE updates' = [updates EXCEPT ![s] = q] /\ Nothing(pending) /\ UNCHANGED <<window, creation>>
    <3>1. updates'[s] = q /\ \A r \in Sessions \ {s} : updates'[r] = updates[r]
      BY <1>1, <2>3 DEF TypeOK
    <3>2. UNCHANGED inbox
      BY <2>3 DEF Nothing
    <3>3. QED BY <1>1, <1>2, <2>1, <2>3, <3>1, <3>2, QueueFrame DEF ViewInv, ViewsOK
  <2>4. QED BY <1>3, <2>2, <2>3 DEF AppliedForTransition
<1>4. CASE u.by # "transition" /\ updates' = [updates EXCEPT ![s] = q]
           /\ UNCHANGED <<window, creation, transition, pending, inbox>>
  <2>1. /\ updates'[s] = q /\ w \in Windows
        /\ \A r \in Sessions \ {s} : updates'[r] = updates[r]
        /\ \A v \in Windows \ ready : \A i \in DOMAIN inbox'[v] : inbox'[v][i].action # "open"
    BY <1>1, <1>4, UpdateTyped DEF TypeOK, ViewInv, ViewsOK
  <2>2. \A v \in Windows : Working(v) => QueueFits(updates[s], v, view[v][s])
    BY DEF ViewInv, QueuesFit
  <2>3. view[w][s] # "none" \/ orphan[w][s] # "none" => w \in ready /\ Working(w)
    BY <2>1 DEF ViewInv, ViewsOK, Working
  <2>4. registry[s] = w => Held(view[w][s], orphan[w][s]) /\ w \in ready
    BY <2>1, <2>3, NoWindowAssumption, HeldRegistered DEF ViewInv, Held
  <2>5. /\ RegistryWithout(s, w)[s] # w /\ RegistryWithout(s, w)[s] \in {registry[s], NoWindow}
        /\ \A r \in Sessions \ {s} : RegistryWithout(s, w)[r] = registry[r]
    BY <1>1, <2>1, NoWindowAssumption DEF RegistryWithout, TypeOK
  <2>6. CASE UNCHANGED <<registry, acks, view, orphan, pendingOpen, disposing>>
    BY <1>1, <1>2, <1>4, <2>1, <2>6, QueueFrame
  <2>7. CASE u.by = "view" /\ AppliedForView(s, w) /\ UNCHANGED <<orphan, disposing>>
    <3>1. /\ \A x \in Windows, r \in Sessions : x # w \/ r # s => view'[x][r] = view[x][r]
          /\ view'[w][s] \in Views
          /\ view'[w][s] = IF view[w][s] # "asking" THEN view[w][s]
                           ELSE IF s \in live THEN "answered" ELSE "failed"
      BY <1>1, <2>1, <2>7 DEF AppliedForView, TypeOK, Views
    <3>2. IF s \in live THEN registry' = registry ELSE registry' = RegistryWithout(s, w)
      BY <2>7 DEF AppliedForView
    <3>3. ASSUME NEW v \in Windows, Working(v) PROVE QueueFits(updates'[s], v, view'[v][s])
      <4>1. CASE v = w
        BY <1>1, <2>1, <2>2, <2>7, <3>1, <3>3, <4>1, FitsTail
      <4>2. CASE v # w
        BY <1>2, <2>1, <2>2, <3>1, <3>3, <4>2
      <4>3. QED BY <4>1, <4>2
    <3>4. w \in ready \/ (view'[w][s] = "none" /\ orphan'[w][s] = "none")
      BY <2>3, <2>7, <3>1
    <3>5. registry'[s] = w => w \in ready /\ Held(view'[w][s], orphan'[w][s])
      BY <2>4, <2>5, <2>7, <3>1, <3>2 DEF Held
    <3>6. registry'[s] \in {registry[s], NoWindow} /\ \A r \in Sessions \ {s} : registry'[r] = registry[r]
      BY <2>5, <3>2
    <3>7. QED BY <1>1, <1>4, <2>1, <2>7, <3>1, <3>3, <3>4, <3>5, <3>6, ViewFrame
  <2>8. CASE u.by = "orphan" /\ AppliedForOrphan(s, w) /\ UNCHANGED <<acks, view, pendingOpen, disposing>>
    <3>1. /\ \A x \in Windows, r \in Sessions : x # w \/ r # s => orphan'[x][r] = orphan[x][r]
          /\ orphan'[w][s] = IF orphan[w][s] # "asking" THEN orphan[w][s]
                             ELSE IF s \in live THEN "answered" ELSE "none"
      BY <1>1, <2>1, <2>8 DEF AppliedForOrphan, TypeOK
    <3>2. IF s \in live THEN registry' = registry ELSE registry' = RegistryWithout(s, w)
      BY <2>8 DEF AppliedForOrphan
    <3>3. ASSUME NEW v \in Windows, Working(v) PROVE QueueFits(updates'[s], v, view'[v][s])
      BY <1>2, <2>1, <2>2, <2>8, <3>3
    <3>4. w \in ready \/ (view'[w][s] = "none" /\ orphan'[w][s] = "none")
      BY <2>3, <2>8, <3>1
    <3>5. registry'[s] = w => w \in ready /\ Held(view'[w][s], orphan'[w][s])
      BY <2>4, <2>5, <2>8, <3>1, <3>2 DEF Held
    <3>6. registry'[s] \in {registry[s], NoWindow} /\ \A r \in Sessions \ {s} : registry'[r] = registry[r]
      BY <2>5, <3>2
    <3>7. QED BY <1>1, <1>4, <2>1, <2>8, <3>1, <3>3, <3>4, <3>5, <3>6, ViewFrame
  <2>9. CASE u.by = "closing" /\ AppliedForClosing(s, w) /\ UNCHANGED <<registry, orphan, pendingOpen>>
    <3>1. /\ \A x \in Windows, r \in Sessions : x # w \/ r # s => view'[x][r] = view[x][r]
          /\ view'[w][s] = IF view[w][s] \in {"closing", "closed"} THEN "none" ELSE view[w][s]
      BY <1>1, <2>1, <2>9 DEF AppliedForClosing, TypeOK
    <3>2. Working(w) => view[w][s] \notin {"answered", "open", "closing"}
      BY <1>1, <2>1, <2>2, <2>9, FitsTail
    <3>3. ASSUME NEW v \in Windows, Working(v) PROVE QueueFits(updates'[s], v, view'[v][s])
      <4>1. QueueFits(q, v, view[v][s])
        BY <1>2, <2>2, <3>3
      <4>2. CASE v = w /\ view[w][s] = "closed"
        BY <2>1, <3>1, <4>1, <4>2, FitsState
      <4>3. CASE v # w \/ view[w][s] # "closed"
        BY <2>1, <3>1, <3>2, <3>3, <4>1, <4>3
      <4>4. QED BY <4>2, <4>3
    <3>4. w \in ready \/ (view'[w][s] = "none" /\ orphan'[w][s] = "none")
      BY <2>3, <2>9, <3>1
    <3>5. registry'[s] = w => w \in ready /\ Held(view'[w][s], orphan'[w][s])
      BY <2>3, <2>4, <2>9, <3>1, <3>2 DEF Held
    <3>6. QED BY <1>1, <1>4, <2>1, <2>9, <3>1, <3>3, <3>4, <3>5, ViewFrame
  <2>10. QED BY <1>4, <2>6, <2>7, <2>8, <2>9 DEF Apply
<1>5. QED BY <1>3, <1>4 DEF Apply

LEMMA SessionViews ==
  ASSUME ViewInv, TypeOK', NEW s \in Sessions, SessionNext(s)
  PROVE  ViewInv'
<1>1. /\ TypeOK /\ updates[s] \in Seq(Updates)
      /\ \A v \in Windows \ ready : \A i \in DOMAIN inbox[v] : inbox[v][i].action # "open"
  BY DEF ViewInv, TypeOK, ViewsOK
<1>2. ASSUME UNCHANGED <<window, ready, view, orphan, inbox>>, NEW u \in Updates,
             u.by \notin {"view", "closing"},
             \A r \in Sessions : registry'[r] \in {registry[r], NoWindow},
             \A r \in Sessions : updates'[r] = updates[r] \/ updates'[r] = Append(updates[r], u)
      PROVE  ViewInv'
  <2>1. \A r \in Sessions : updates[r] \in Seq(Updates)
    BY <1>1 DEF TypeOK
  <2>2. \A r \in Sessions, w \in Windows :
            QueueFits(updates[r], w, view[w][r]) => QueueFits(updates'[r], w, view[w][r])
    BY <1>2, <2>1, FitsAppend
  <2>3. QED BY <1>1, <1>2, <2>2, QueueFrame
<1>3. Update("opening", "transition", NoWindow) \in Updates
      /\ Update("opening", "transition", NoWindow).by = "transition"
  BY UpdateTyped DEF States
<1>4. CASE \E wanted \in Requested : RequestPresentation(s, wanted)
  BY <1>2, <1>3, <1>4 DEF RequestPresentation, rendererVars
<1>5. CASE BeginTransition(s)
  <2>1. \A r \in Sessions : \/ updates'[r] = updates[r]
                            \/ updates'[r] = Append(updates[r], Update("opening", "transition", NoWindow))
    BY <1>1, <1>5 DEF BeginTransition, Queue, TypeOK
  <2>2. QED BY <1>2, <1>3, <1>5, <2>1 DEF BeginTransition, rendererVars
<1>6. CASE Apply(s)
  BY <1>6, ApplyViews
<1>7. CASE CloseReturned(s)
  BY <1>2, <1>3, <1>7 DEF CloseReturned, rendererVars
<1>8. CASE \E by \in {"human", "expiry"} : SessionClosed(s, by)
  <2>1. \A r \in Sessions : registry'[r] \in {registry[r], NoWindow}
    BY <1>1, <1>8 DEF SessionClosed, TypeOK
  <2>2. QED BY <1>2, <1>3, <1>8, <2>1 DEF SessionClosed, rendererVars
<1>9. CASE CloseBegun(s)
  <2>1. UNCHANGED <<window, ready, view, orphan, updates>>
        /\ \A r \in Sessions : registry'[r] \in {registry[r], NoWindow}
    BY <1>1, <1>9 DEF CloseBegun, TypeOK
  <2>2. CASE UNCHANGED inbox
    BY <1>2, <1>3, <2>1, <2>2
  <2>3. CASE Send(pending, s, registry[s], "close", "closer")
    <3>1. PICK m \in Messages : /\ m.action = "close"
                                /\ inbox' = [inbox EXCEPT ![registry[s]] = Append(@, m)]
      <4>1. FreshId \in Ids
        BY <2>3 DEF Send, FreshIds, FreshId, Ids
      <4>2. [id |-> FreshId, session |-> s, action |-> "close"] \in Messages
        BY <4>1 DEF Messages, Actions
      <4>3. QED BY <2>3, <4>2 DEF Send
    <3>2. ASSUME NEW w \in Windows \ ready, NEW i \in DOMAIN inbox'[w]
          PROVE  inbox'[w][i].action # "open"
      <4>1. inbox[w] \in Seq(Messages)
        BY <1>1 DEF TypeOK
      <4>2. inbox'[w] = inbox[w] \/ inbox'[w] = Append(inbox[w], m)
        BY <1>1, <3>1 DEF TypeOK
      <4>3. QED BY <1>1, <3>1, <3>2, <4>1, <4>2, AppendProperties, LenProperties
    <3>3. QED BY <2>1, <3>2, QueueFrame
  <2>4. QED BY <1>9, <2>2, <2>3 DEF CloseBegun
<1>10. CASE ReadyResumed(s) \/ ReadyTimedOut(s) \/ CreationResumed(s)
  <2>1. Progressed(s, updates[s], pending)
    BY <1>1, <1>10, PresentProgresses, FailProgresses, AwaitReadyProgresses
       DEF ReadyResumed, ReadyTimedOut, CreationResumed, TypeOK, Usable, Transitions, Owners
  <2>2. UNCHANGED <<window, ready, view, orphan, registry>>
    BY <1>10 DEF ReadyResumed, ReadyTimedOut, CreationResumed, controllerRest
  <2>3. QED BY <1>1, <2>1, <2>2, ProgressViews
<1>11. QED BY <1>4, <1>5, <1>6, <1>7, <1>8, <1>9, <1>10 DEF SessionNext

LEMMA SettledViews ==
  ASSUME ViewInv, TypeOK', NEW p \in pending, NEW completed \in BOOLEAN, Settled(p, completed),
         UNCHANGED <<window, ready, view, orphan>>
  PROVE  ViewInv'
<1> DEFINE s == p.session
<1>1. /\ TypeOK /\ s \in Sessions /\ pending \ {p} \in SUBSET Commands /\ updates[s] \in Seq(Updates)
  BY DEF ViewInv, TypeOK, Commands
<1>2. CASE p.by = "transition"
  <2>1. Progressed(s, updates[s], pending \ {p}) /\ UNCHANGED registry
    BY <1>1, <1>2, AcknowledgedProgresses, FailProgresses DEF Settled
  <2>2. QED BY <1>1, <2>1, ProgressViews
<1>3. CASE p.by = "closer"
  <2>1. \A r \in Sessions : registry'[r] \in {registry[r], NoWindow}
    BY <1>1, <1>3 DEF Settled, CloseViewGivenUp, TypeOK
  <2>2. UNCHANGED <<updates, inbox>>
    BY <1>3 DEF Settled, Nothing
  <2>3. QED BY <2>1, <2>2, QueueFrame DEF ViewInv, ViewsOK
<1>4. QED BY <1>2, <1>3 DEF Settled

LEMMA LostViews ==
  ASSUME ViewInv, TypeOK', NEW w \in Windows, NEW state \in {"crashed", "destroyed"}, Lost(w, state)
  PROVE  ViewInv'
<1>1. TypeOK
  BY DEF ViewInv
<1>2. /\ ~Working(w)' /\ \A v \in Windows \ {w} : window'[v] = window[v]
      /\ \A v \in Windows \ {w} : view'[v] = view[v] /\ orphan'[v] = orphan[v] /\ inbox'[v] = inbox[v]
      /\ inbox'[w] = <<>>
      /\ \A s \in Sessions : view'[w][s] = "none" /\ orphan'[w][s] = "none"
  BY <1>1 DEF Lost, Working, TypeOK
<1>3. /\ ready' = ready \ {w}
      /\ \A s \in Sessions : registry'[s] \in {registry[s], NoWindow} /\ registry'[s] # w
      /\ \A s \in Sessions : updates'[s] = updates[s]
             \/ updates'[s] = updates[s] \o HeadlessUpdate(s, w)
                  \o (IF Rejected(s, w) THEN <<Update("unavailable", "transition", NoWindow)>> ELSE <<>>)
  <2>1. CASE w \in ready /\ RendererUnavailable(w)
    BY <1>1, <2>1, NoWindowAssumption DEF RendererUnavailable, LostByRegistry, TypeOK
  <2>2. CASE w \notin ready /\ UNCHANGED <<ready, registry, pending, closer, updates, transition>>
    <3>1. \A s \in Sessions : registry[s] # w
      BY <2>2, NoWindowAssumption DEF ViewInv, ViewsOK, RegisteredHasView
    <3>2. QED BY <2>2, <3>1
  <2>3. QED BY <2>1, <2>2 DEF Lost
<1>4. ASSUME NEW s \in Sessions, NEW v \in Windows, Working(v)'
      PROVE  QueueFits(updates'[s], v, view'[v][s])
  <2> DEFINE h == Update("headless", "nobody", w)
             u == Update("unavailable", "transition", NoWindow)
             q1 == updates[s] \o HeadlessUpdate(s, w)
  <2>1. v # w /\ Working(v) /\ view'[v][s] = view[v][s]
    BY <1>2, <1>4 DEF Working
  <2>2. updates[s] \in Seq(Updates) /\ QueueFits(updates[s], v, view[v][s])
    BY <1>1, <2>1 DEF ViewInv, QueuesFit, TypeOK
  <2>3. h \in Updates /\ h.by = "nobody" /\ u \in Updates /\ u.by = "transition"
    BY UpdateTyped DEF States, Requested, Waiters
  <2>4. q1 \in Seq(Updates) /\ QueueFits(q1, v, view[v][s])
    <3>1. q1 = updates[s] \/ q1 = Append(updates[s], h)
      BY <2>2, <2>3, ConcatEmptySeq, AppendIsConcat DEF HeadlessUpdate
    <3>2. QED BY <2>2, <2>3, <3>1, FitsAppend, AppendProperties
  <2>5. /\ q1 \o <<>> = q1 /\ q1 \o <<u>> = Append(q1, u)
    BY <2>3, <2>4, ConcatEmptySeq, AppendIsConcat
  <2>6. QueueFits(Append(q1, u), v, view[v][s])
    BY <2>3, <2>4, FitsAppend
  <2>7. QED BY <1>3, <2>1, <2>2, <2>4, <2>5, <2>6
<1>5. ViewsOK'
  BY <1>2, <1>3, EmptySeq DEF ViewsOK, ViewInv
<1>6. QueuesFit'
  BY <1>4 DEF QueuesFit
<1>7. RegisteredHasView'
  <2>1. ASSUME NEW s \in Sessions, registry'[s] # NoWindow
        PROVE  /\ window'[registry'[s]] = "usable"
               /\ Held(view'[registry'[s]][s], orphan'[registry'[s]][s])
    <3>1. registry'[s] = registry[s] /\ registry[s] # w /\ registry[s] # NoWindow
      BY <1>3, <2>1
    <3>2. registry[s] \in Windows \ {w}
      BY <1>1, <3>1 DEF TypeOK, Owners
    <3>3. window[registry[s]] = "usable" /\ Held(view[registry[s]][s], orphan[registry[s]][s])
      BY <3>1, HeldRegistered DEF ViewInv
    <3>4. QED BY <1>2, <3>1, <3>2, <3>3
  <2>2. QED BY <2>1 DEF RegisteredHasView, Held
<1>8. QED BY <1>5, <1>6, <1>7 DEF ViewInv

LEMMA ViewStep ==
  ASSUME ViewInv, [Next]_vars
  PROVE  ViewInv'
<1>1. TypeOK /\ TypeOK'
  BY TypeStep DEF ViewInv
<1>2. ASSUME NEW s \in Sessions, SessionNext(s) PROVE ViewInv'
  BY <1>1, <1>2, SessionViews
<1>3. ASSUME NEW w \in Windows, NEW s \in Sessions, ViewNext(w, s) PROVE ViewInv'
  BY <1>1, <1>3, ViewViews
<1>4. ASSUME NEW w \in Windows, WindowNext(w) PROVE ViewInv'
  <2>1. CASE CommandReceived(w)
    BY <1>1, <2>1, CommandViews
  <2>2. CASE WindowRequested(w) \/ LoadEnded(w)
    <3>1. /\ window[w] \in {"unborn", "loading"} /\ w \notin ready /\ UNCHANGED <<ready, rest>>
          /\ \A v \in Windows \ {w} : window'[v] = window[v]
          /\ Working(w)
      BY <1>1, <2>2 DEF WindowRequested, LoadEnded, ViewInv, ViewsOK, TypeOK, Working
    <3>2. \A v \in Windows : Working(v)' => Working(v)
      BY <3>1 DEF Working
    <3>3. ViewsOK'
      BY <3>1 DEF ViewInv, ViewsOK, rest, rendererVars
    <3>4. QueuesFit'
      BY <3>1, <3>2 DEF ViewInv, QueuesFit, rest, rendererVars
    <3>5. RegisteredHasView'
      BY <1>1, <3>1 DEF ViewInv, RegisteredHasView, rest, rendererVars, TypeOK, Owners
    <3>6. QED BY <1>1, <3>3, <3>4, <3>5 DEF ViewInv
  <2>3. CASE RendererReady(w)
    BY <1>1, <2>3 DEF RendererReady, rest, rendererVars, ViewInv, ViewsOK, QueuesFit, Working,
       RegisteredHasView
  <2>4. CASE \E state \in {"crashed", "destroyed"} : Lost(w, state)
    BY <1>1, <2>4, LostViews
  <2>5. QED BY <1>4, <2>1, <2>2, <2>3, <2>4 DEF WindowNext
<1>5. ASSUME NEW m \in acks, Acknowledge(m) PROVE ViewInv'
  <2>1. UNCHANGED <<window, ready, view, orphan>>
    BY <1>5 DEF Acknowledge
  <2>2. CASE \E p \in pending : Settled(p, m.status = "completed")
    BY <1>1, <2>1, <2>2, SettledViews
  <2>3. CASE UNCHANGED <<transition, updates, pending, inbox, closer, registry>>
    BY <1>1, <2>1, <2>3, QueueFrame DEF ViewInv, ViewsOK
  <2>4. QED BY <1>5, <2>2, <2>3 DEF Acknowledge
<1>6. ASSUME NEW p \in pending, CommandFailed(p) PROVE ViewInv'
  BY <1>1, <1>6, SettledViews DEF CommandFailed
<1>7. CASE UNCHANGED vars
  BY <1>1, <1>7 DEF vars, mainVars, rendererVars, ViewInv, ViewsOK, QueuesFit, Working, RegisteredHasView
<1>8. QED BY <1>2, <1>3, <1>4, <1>5, <1>6, <1>7 DEF Next

\* A registered view exists, or is about to, in a renderer that lives: the registry
\* follows every crash, and every view that goes (presentation-registry.ts).
THEOREM ViewsSafe == Spec => []RegisteredHasView
<1>1. Init => ViewInv
  <2> SUFFICES ASSUME Init PROVE ViewInv
    OBVIOUS
  <2>1. DOMAIN <<>> = {}
    BY EmptySeq
  <2>2. \A w, x : QueueFits(<<>>, w, x)
    BY <2>1 DEF QueueFits
  <2>3. QED BY <2>1, <2>2, TypeInit DEF Init, ViewInv, ViewsOK, QueuesFit, RegisteredHasView
<1>2. ViewInv /\ [Next]_vars => ViewInv'
  BY ViewStep
<1>3. ViewInv => RegisteredHasView
  BY DEF ViewInv
<1>4. QED BY <1>1, <1>2, <1>3, PTL DEF Spec

-----------------------------------------------------------------------------
\* A presented session has a registered view.
\*
\* That holds of the sessions whose transitions are the controller's own: nobody else moves
\* them meanwhile, and it gave up none of their commands.  The invariant says of these that
\* renderers work on them, during a transition, only for a command that is pending (Calm),
\* and are told nothing of them otherwise (Untold); what the transition knows of the view
\* meanwhile (Steady), and what may be said of them last (Spoken).  It needs that a command
\* is in one place at most, and answered once (Sole).

\* A command's action is what the stage of its transition waits for.
ActionFits(action, stage) ==
    \/ action = "open" /\ stage = "showing"
    \/ action = "focus" /\ stage = "focusing"
    \/ action = "hide" /\ stage = "hiding"

\* Where a command x, to w about s, may be: on its way to w, waited with by w's view
\* of s (its start, or its disposal), or answered; in one place at most.
Told(x, w) == \E i \in DOMAIN inbox[w] : inbox[w][i].id = x
Answered(x) == \E m \in acks : m.id = x
Sole(x, w, s) ==
    /\ \A v \in Windows : \A i \in DOMAIN inbox[v] : inbox[v][i].id = x =>
          /\ v = w /\ inbox[v][i].session = s
          /\ \A j \in DOMAIN inbox[v] : inbox[v][j].id = x => j = i
    /\ \A v \in Windows, r \in Sessions :
          pendingOpen[v][r] = x \/ x \in disposing[v][r] => v = w /\ r = s
    /\ Told(x, w) => pendingOpen[w][s] # x /\ x \notin disposing[w][s] /\ ~Answered(x)
    /\ pendingOpen[w][s] = x => x \notin disposing[w][s] /\ ~Answered(x)
    /\ x \in disposing[w][s] => ~Answered(x)

CommandsOK ==
    \A p \in pending :
        /\ p.by = "closer" => p.session \in budget.disturbed
        /\ p.by = "transition" => ActionFits(p.action, transition[p.session].stage)
        /\ \A q \in pending : q.id = p.id => q = p
        /\ Sole(p.id, p.window, p.session)

ClosersOK == \A s \in Sessions : closer[s] # "idle" => s \in budget.disturbed

\* A session whose transitions are the controller's own, and none of whose commands it gave up.
Mine(s) == s \in live /\ s \notin budget.disturbed /\ s \notin budget.givenUp

Starting == {"starting", "asking", "answered"}
Closing == {"closing", "closed"}

\* The command x of the transition of s, to w, is among those pending.
Works(commands, x, s, w, action) ==
    \E p \in commands : p.by = "transition" /\ p.id = x /\ p.session = s /\ p.window = w /\ p.action = action

\* Whatever w does for s, it was told to by a command that is pending.
CalmAt(s, w) ==
    /\ orphan[w][s] = "none"
    /\ \A i \in DOMAIN inbox[w] : inbox[w][i].session = s
         => Works(pending, inbox[w][i].id, s, w, inbox[w][i].action)
    /\ view[w][s] \in Starting => Works(pending, pendingOpen[w][s], s, w, "open")
    /\ view[w][s] \in Closing => \E x \in disposing[w][s] : Works(pending, x, s, w, "hide")
Calm(s) == \A w \in Windows : CalmAt(s, w)

\* No command about s is on its way.
Untold(s) == \A w \in Windows : \A i \in DOMAIN inbox[w] : inbox[w][i].session # s

\* Between transitions, renderers open and close their views of s as they like.
Led(s) == IF transition[s] = Idle THEN Untold(s) ELSE Calm(s)

\* What the transition knows of the view of s.
Steady(s) ==
    LET t == transition[s] IN
    /\ t.owner # NoWindow => window[t.owner] # "unborn"
    /\ t.stage = "creating" => t.owner = NoWindow
    /\ t.stage \in {"readying", "showing"} /\ t.owner # NoWindow => t.window = t.owner
    /\ t.stage \in {"opening", "readying", "showing"} /\ Usable(t.owner) => registry[s] = t.owner
    /\ t.stage = "focusing" => registry[s] = t.window /\ t.window # NoWindow
    /\ t.stage = "hiding" => t.wanted = "headless"

\* The last that is said of a session.
LastWord(q, state) == IF q = <<>> THEN state ELSE q[Len(q)].state
Shown == {"background", "foreground"}
Spoken(s) == LastWord(updates[s], presentation[s]) \in Shown => registry[s] # NoWindow

MineOK == \A s \in Sessions : Mine(s) => Led(s) /\ Steady(s) /\ Spoken(s)

\* x has been sent to nobody yet.
LEMMA FreshNowhere ==
  ASSUME TypeOK, FreshIds # {}
  PROVE  /\ FreshId \in Ids
         /\ \A p \in pending : p.id # FreshId
         /\ \A w \in Windows : \A i \in DOMAIN inbox[w] : inbox[w][i].id # FreshId
         /\ \A w \in Windows, s \in Sessions : pendingOpen[w][s] # FreshId /\ FreshId \notin disposing[w][s]
         /\ ~Answered(FreshId)
<1>1. FreshId \in FreshIds
  BY DEF FreshId
<1>2. FreshId \in Ids /\ FreshId \notin AliveIds
  BY <1>1 DEF FreshIds, Ids
<1>3. QED BY <1>2 DEF AliveIds, Answered

\* The commands on their way to w are as before, but for some that have arrived.
Fewer(w) ==
    \E k \in {0, 1} : \A i \in DOMAIN inbox'[w] :
        /\ i \in Int /\ i + k \in DOMAIN inbox[w] /\ inbox'[w][i] = inbox[w][i + k]

LEMMA FewerKept ==
  ASSUME TypeOK, NEW w \in Windows, inbox'[w] = inbox[w] \/ inbox'[w] = <<>>
  PROVE  Fewer(w)
<1>1. inbox[w] \in Seq(Messages)
  BY DEF TypeOK
<1>2. DOMAIN inbox[w] = 1..Len(inbox[w]) /\ Len(inbox[w]) \in Nat
  BY <1>1, LenProperties
<1>3. \A i \in DOMAIN inbox'[w] : i \in Int /\ i + 0 \in DOMAIN inbox[w] /\ inbox'[w][i] = inbox[w][i + 0]
  BY <1>2, EmptySeq
<1>4. QED BY <1>3 DEF Fewer

LEMMA SoleFewer ==
  ASSUME NEW x, NEW w \in Windows, NEW s \in Sessions, Sole(x, w, s),
         \A v \in Windows : Fewer(v),
         \A v \in Windows, r \in Sessions : pendingOpen'[v][r] = x => pendingOpen[v][r] = x,
         \A v \in Windows, r \in Sessions : x \in disposing'[v][r] => x \in disposing[v][r],
         Answered(x)' => Answered(x)
  PROVE  Sole(x, w, s)'
<1>1. ASSUME NEW v \in Windows, NEW i \in DOMAIN inbox'[v], inbox'[v][i].id = x
      PROVE  /\ v = w /\ inbox'[v][i].session = s /\ Told(x, w)
             /\ \A j \in DOMAIN inbox'[v] : inbox'[v][j].id = x => j = i
  <2>1. PICK k \in {0, 1} : \A j \in DOMAIN inbox'[v] :
            j \in Int /\ j + k \in DOMAIN inbox[v] /\ inbox'[v][j] = inbox[v][j + k]
    BY DEF Fewer
  <2>2. /\ i + k \in DOMAIN inbox[v] /\ inbox[v][i + k].id = x
        /\ inbox'[v][i] = inbox[v][i + k]
    BY <1>1, <2>1
  <2>3. /\ v = w /\ inbox[v][i + k].session = s
        /\ \A j \in DOMAIN inbox[v] : inbox[v][j].id = x => j = i + k
    BY <2>2 DEF Sole
  <2>4. \A j \in DOMAIN inbox'[v] : inbox'[v][j].id = x => j + k = i + k
    BY <2>1, <2>3
  <2>5. \A j \in DOMAIN inbox'[v] : j + k = i + k => j = i
    BY <2>1
  <2>6. Told(x, w)
    BY <2>2, <2>3 DEF Told
  <2>7. QED BY <2>2, <2>3, <2>4, <2>5, <2>6
<1>2. Told(x, w)' => Told(x, w)
  BY <1>1 DEF Told
<1>3. QED BY <1>1, <1>2 DEF Sole

\* A command has come to its renderer: it waits for the view's start or its disposal, or is
\* answered.
LEMMA SoleReceived ==
  ASSUME TypeOK, NEW x, NEW w \in Windows, NEW s \in Sessions, Sole(x, w, s),
         inbox[w] # <<>>, inbox' = [inbox EXCEPT ![w] = Tail(@)], Head(inbox[w]).id = x,
         \A v \in Windows, r \in Sessions : v # w \/ r # s =>
             pendingOpen'[v][r] = pendingOpen[v][r] /\ disposing'[v][r] = disposing[v][r],
         \/ pendingOpen'[w][s] = pendingOpen[w][s] /\ disposing'[w][s] = disposing[w][s]
         \/ pendingOpen'[w][s] = x /\ disposing'[w][s] = disposing[w][s] /\ acks' = acks
         \/ /\ pendingOpen'[w][s] = pendingOpen[w][s] /\ disposing'[w][s] = disposing[w][s] \cup {x}
            /\ acks' = acks
  PROVE  Sole(x, w, s)'
<1>1. /\ inbox[w] \in Seq(Messages) /\ inbox \in [Windows -> Seq(Messages)]
  BY DEF TypeOK
<1>2. /\ Head(inbox[w]) = inbox[w][1] /\ 1 \in DOMAIN inbox[w]
      /\ \A i \in DOMAIN Tail(inbox[w]) : i + 1 \in DOMAIN inbox[w] /\ Tail(inbox[w])[i] = inbox[w][i + 1]
                                          /\ i + 1 # 1
  <2>1. Len(inbox[w]) \in Nat /\ Len(inbox[w]) >= 1 /\ DOMAIN inbox[w] = 1..Len(inbox[w])
    BY <1>1, LenProperties, EmptySeq
  <2>2. Tail(inbox[w]) \in Seq(Messages) /\ Len(Tail(inbox[w])) = Len(inbox[w]) - 1
        /\ \A i \in 1..Len(Tail(inbox[w])) : Tail(inbox[w])[i] = inbox[w][i + 1]
    BY <1>1, HeadTailProperties
  <2>3. DOMAIN Tail(inbox[w]) = 1..Len(Tail(inbox[w]))
    BY <2>2, LenProperties
  <2>4. QED BY <2>1, <2>2, <2>3
<1>3. \A j \in DOMAIN inbox[w] : inbox[w][j].id = x => j = 1
  BY <1>2 DEF Sole
<1>4. \A v \in Windows : \A i \in DOMAIN inbox'[v] : inbox'[v][i].id # x
  <2>1. \A i \in DOMAIN Tail(inbox[w]) : Tail(inbox[w])[i].id # x
    BY <1>2, <1>3
  <2>2. \A v \in Windows \ {w} : \A i \in DOMAIN inbox[v] : inbox[v][i].id # x
    BY DEF Sole
  <2>3. QED BY <1>1, <2>1, <2>2
<1>5. pendingOpen[w][s] # x /\ x \notin disposing[w][s] /\ ~Answered(x)
  BY <1>2 DEF Sole, Told
<1>6. Answered(x)' => pendingOpen'[w][s] # x /\ x \notin disposing'[w][s]
  BY <1>5 DEF Answered
<1>7. ~Told(x, w)'
  BY <1>4 DEF Told
<1>8. \A v \in Windows, r \in Sessions : pendingOpen'[v][r] = x \/ x \in disposing'[v][r] => v = w /\ r = s
  BY DEF Sole
<1>9. pendingOpen'[w][s] = x => x \notin disposing'[w][s]
  BY <1>5
<1>10. QED BY <1>4, <1>6, <1>7, <1>8, <1>9 DEF Sole

\* The command for which a view started is answered; so are those that waited for its disposal.
LEMMA SoleAnswered ==
  ASSUME TypeOK, NEW x \in Ids, NEW w \in Windows, NEW s \in Sessions, Sole(x, w, s), UNCHANGED inbox,
         NEW v \in Windows, NEW r \in Sessions, NEW status,
         \/ /\ pendingOpen' = [pendingOpen EXCEPT ![v][r] = 0] /\ UNCHANGED disposing
            /\ acks' = acks \cup Replies(v, {pendingOpen[v][r]}, status)
         \/ /\ disposing' = [disposing EXCEPT ![v][r] = {}] /\ UNCHANGED pendingOpen
            /\ acks' = acks \cup Replies(v, disposing[v][r], status)
  PROVE  Sole(x, w, s)'
<1>1. /\ x # 0 /\ \A u \in Windows : Fewer(u)
      /\ pendingOpen \in [Windows -> [Sessions -> Ids \cup {0}]]
      /\ disposing \in [Windows -> [Sessions -> SUBSET Ids]]
  BY FewerKept DEF TypeOK, Ids
<1>2. CASE /\ pendingOpen' = [pendingOpen EXCEPT ![v][r] = 0] /\ UNCHANGED disposing
           /\ acks' = acks \cup Replies(v, {pendingOpen[v][r]}, status)
  <2>1. /\ \A a \in Windows, b \in Sessions : pendingOpen'[a][b] = x => pendingOpen[a][b] = x
        /\ pendingOpen'[v][r] # x
    BY <1>1, <1>2
  <2>2. Answered(x)' => Answered(x) \/ pendingOpen[v][r] = x
    BY <1>2 DEF Answered, Replies
  <2>3. CASE pendingOpen[v][r] = x
    <3>1. v = w /\ r = s /\ ~Told(x, w) /\ x \notin disposing[w][s]
      BY <2>3 DEF Sole
    <3>2. pendingOpen'[w][s] # x
      BY <2>1, <3>1
    <3>3. ~Told(x, w)'
      BY <3>1 DEF Told
    <3>4. QED BY <1>2, <2>1, <3>1, <3>2, <3>3 DEF Sole
  <2>4. CASE pendingOpen[v][r] # x
    BY <1>1, <1>2, <2>1, <2>2, <2>4, SoleFewer
  <2>5. QED BY <2>3, <2>4
<1>3. CASE /\ disposing' = [disposing EXCEPT ![v][r] = {}] /\ UNCHANGED pendingOpen
           /\ acks' = acks \cup Replies(v, disposing[v][r], status)
  <2>1. /\ \A a \in Windows, b \in Sessions : x \in disposing'[a][b] => x \in disposing[a][b]
        /\ x \notin disposing'[v][r]
    BY <1>1, <1>3
  <2>2. Answered(x)' => Answered(x) \/ x \in disposing[v][r]
    BY <1>3 DEF Answered, Replies
  <2>3. CASE x \in disposing[v][r]
    <3>1. v = w /\ r = s /\ ~Told(x, w) /\ pendingOpen[w][s] # x
      BY <2>3 DEF Sole
    <3>2. x \notin disposing'[w][s]
      BY <2>1, <3>1
    <3>3. ~Told(x, w)'
      BY <3>1 DEF Told
    <3>4. QED BY <1>3, <2>1, <3>1, <3>2, <3>3 DEF Sole
  <2>4. CASE x \notin disposing[v][r]
    BY <1>1, <1>3, <2>1, <2>2, <2>4, SoleFewer
  <2>5. QED BY <2>3, <2>4
<1>4. QED BY <1>2, <1>3

\* A command is sent, under an id that nobody remembers.
LEMMA SoleSent ==
  ASSUME TypeOK, NEW w \in Windows, NEW s \in Sessions, FreshIds # {}, NEW y, y = FreshId,
         NEW m, m.id = y, m.session = s, inbox' = [inbox EXCEPT ![w] = Append(@, m)],
         UNCHANGED <<pendingOpen, disposing>>, acks' \subseteq acks
  PROVE  /\ Sole(y, w, s)'
         /\ \A x, v, r : x # y /\ Sole(x, v, r) => Sole(x, v, r)'
<1> DEFINE q == inbox[w]
<1>1. /\ y \in Ids
      /\ \A u \in Windows : \A i \in DOMAIN inbox[u] : inbox[u][i].id # y
      /\ \A u \in Windows, r \in Sessions : pendingOpen[u][r] # y /\ y \notin disposing[u][r]
      /\ ~Answered(y)
  BY FreshNowhere
<1>2. /\ q \in Seq(Messages) /\ inbox'[w] = Append(q, m)
      /\ \A v \in Windows \ {w} : inbox'[v] = inbox[v]
  BY DEF TypeOK
<1>3. /\ DOMAIN Append(q, m) = 1..(Len(q) + 1) /\ DOMAIN q = 1..Len(q) /\ Len(q) \in Nat
      /\ \A i \in 1..Len(q) : Append(q, m)[i] = q[i]
      /\ Append(q, m)[Len(q) + 1] = m
  <2>1. DOMAIN q = 1..Len(q) /\ Len(q) \in Nat
    BY <1>2, LenProperties
  <2>2. Append(q, m) = [i \in 1..(Len(q) + 1) |-> IF i <= Len(q) THEN q[i] ELSE m]
    BY <1>2
  <2>3. QED BY <2>1, <2>2
<1>4. /\ \A i \in DOMAIN inbox'[w] : i \in DOMAIN q \/ i = Len(q) + 1
      /\ \A i \in DOMAIN q : i \in DOMAIN inbox'[w] /\ inbox'[w][i] = q[i] /\ i # Len(q) + 1
      /\ Len(q) + 1 \in DOMAIN inbox'[w] /\ inbox'[w][Len(q) + 1] = m
  BY <1>2, <1>3
<1>5. Sole(y, w, s)'
  BY <1>1, <1>2, <1>4 DEF Sole, Told, Answered
<1>6. ASSUME NEW x, NEW v, NEW r, x # y, Sole(x, v, r) PROVE Sole(x, v, r)'
  <2>1. \A u \in Windows : \A i \in DOMAIN inbox'[u] : inbox'[u][i].id = x =>
            i \in DOMAIN inbox[u] /\ inbox[u][i] = inbox'[u][i]
    BY <1>2, <1>4, <1>6
  <2>2. Told(x, v)' => Told(x, v) \/ v \notin Windows
    BY <2>1 DEF Told
  <2>3. QED BY <1>6, <2>1, <2>2 DEF Sole, Answered, Told
<1>7. QED BY <1>5, <1>6

\* What a step of the controller for s sends: a command that fits the stage the
\* transition comes to, or none.
Sends(s, others) ==
    \/ pending' = others /\ UNCHANGED inbox
    \/ /\ FreshIds # {}
       /\ \E p \in Commands :
             /\ p.id = FreshId /\ p.session = s /\ p.by = "transition"
             /\ ActionFits(p.action, transition'[s].stage)
             /\ pending' = others \cup {p}
             /\ inbox' = [inbox EXCEPT ![p.window] =
                    Append(@, [id |-> p.id, session |-> s, action |-> p.action])]

\* It leaves s steady, and says that s is presented only if it has a registered view.
Keeps(s, queue) ==
    /\ Steady(s)'
    /\ \/ updates'[s] = queue
       \/ \E state \in States :
             /\ updates'[s] = Append(queue, Update(state, "transition", NoWindow))
             /\ state \in Shown => registry[s] # NoWindow

\* The window at which t is to present s is the one that owns its view, if one does.
Known(s, t, w) ==
    /\ Usable(w) /\ (t.owner # NoWindow => w = t.owner /\ registry[s] = w)
    /\ UNCHANGED <<window, registry>>

\* A command is sent.
LEMMA CommandSends ==
  ASSUME TypeOK, NEW s \in Sessions, NEW t, NEW others, NEW w \in Windows, NEW action \in Actions, NEW stage,
         t \in Transitions, ActionFits(action, stage), Command(s, t, others, w, action, stage)
  PROVE  Sends(s, others)
<1>1. transition'[s] = [t EXCEPT !.stage = stage, !.window = w] /\ transition'[s].stage = stage
  BY DEF Command, TypeOK, Transitions
<1> DEFINE p == [id |-> FreshId, window |-> w, session |-> s, action |-> action, by |-> "transition"]
<1>2. p \in Commands /\ FreshIds # {}
  <2>1. FreshId \in Ids /\ FreshIds # {}
    BY FreshNowhere DEF Command, Send
  <2>2. QED BY <2>1 DEF Commands
<1>3. /\ pending' = others \cup {p}
      /\ inbox' = [inbox EXCEPT ![w] = Append(@, [id |-> FreshId, session |-> s, action |-> action])]
  BY DEF Command, Send
<1>4. p.id = FreshId /\ p.session = s /\ p.by = "transition" /\ p.action = action /\ p.window = w
  OBVIOUS
<1> HIDE DEF p
<1>5. inbox' = [inbox EXCEPT ![p.window] = Append(@, [id |-> p.id, session |-> s, action |-> p.action])]
  BY <1>3, <1>4
<1>6. QED BY <1>1, <1>2, <1>3, <1>4, <1>5 DEF Sends

\* The transition t goes on to show s in w, or to wait for w to be ready.
Placed(s, t, w) ==
    \/ t.owner # NoWindow /\ transition'[s] = [t EXCEPT !.stage = "focusing", !.window = w]
    \/ transition'[s] = [t EXCEPT !.stage = "showing", !.window = w]
    \/ transition'[s] = [t EXCEPT !.stage = "readying", !.window = w]

\* So it is once the window is there.
LEMMA PresentSends ==
  ASSUME TypeOK, NEW s \in Sessions, NEW queue, NEW t \in Transitions, NEW w \in Windows,
         Present(s, t, queue, w)
  PROVE  Sends(s, pending) /\ updates'[s] = queue /\ Placed(s, t, w)
<1>1. updates'[s] = queue
  BY DEF Present, TypeOK
<1>2. CASE t.owner # NoWindow /\ t.wanted = "foreground"
  <2>1. Command(s, t, pending, w, "focus", "focusing")
    BY <1>2 DEF Present
  <2>2. transition'[s] = [t EXCEPT !.stage = "focusing", !.window = w]
    BY <2>1 DEF Command, TypeOK
  <2>3. QED BY <1>1, <1>2, <2>1, <2>2, CommandSends DEF ActionFits, Actions, Placed
<1>3. CASE ~(t.owner # NoWindow /\ t.wanted = "foreground")
  <2>1. Command(s, t, pending, w, "open", "showing")
    BY <1>3 DEF Present
  <2>2. transition'[s] = [t EXCEPT !.stage = "showing", !.window = w]
    BY <2>1 DEF Command, TypeOK
  <2>3. QED BY <1>1, <1>3, <2>1, <2>2, CommandSends DEF ActionFits, Actions, Placed
<1>4. QED BY <1>2, <1>3

\* ... or the transition waits for the window to be ready.
LEMMA AwaitReadySends ==
  ASSUME TypeOK, NEW s \in Sessions, NEW queue, NEW t \in Transitions, NEW w \in Windows,
         AwaitReady(s, t, queue, w)
  PROVE  Sends(s, pending) /\ updates'[s] = queue /\ Placed(s, t, w)
<1>1. CASE w \in ready
  BY <1>1, PresentSends DEF AwaitReady
<1>2. CASE w \notin ready
  BY <1>2 DEF AwaitReady, Sends, Nothing, TypeOK, Placed
<1>3. QED BY <1>1, <1>2

\* The transition keeps what is known of the view, if it was right about the window.
LEMMA PlacedKeeps ==
  ASSUME TypeOK, NEW s \in Sessions, NEW queue, NEW t \in Transitions, NEW w \in Windows, Known(s, t, w),
         updates'[s] = queue, Placed(s, t, w)
  PROVE  Keeps(s, queue)
<1>1. transition'[s].owner = t.owner /\ transition'[s].window = w
      /\ transition'[s].stage \in {"focusing", "showing", "readying"}
      /\ (transition'[s].stage = "focusing" => t.owner # NoWindow)
  BY DEF Transitions, Placed
<1>2. w # NoWindow /\ window[w] # "unborn" /\ window' = window /\ registry' = registry
  BY NoWindowAssumption DEF Known, Usable
<1>3. t.owner # NoWindow => w = t.owner /\ registry[s] = w
  BY DEF Known
<1>4. Steady(s)'
  BY <1>1, <1>2, <1>3 DEF Steady, Usable
<1>5. QED BY <1>4 DEF Keeps

\* A session settles as presented only if its view is registered.
LEMMA SettleKeeps ==
  ASSUME TypeOK, NEW s \in Sessions \cap live, NEW queue \in Seq(Updates), NEW state \in States,
         Settle(s, queue, state), UNCHANGED <<window, registry>>,
         transition[s].owner # NoWindow => window[transition[s].owner] # "unborn",
         state \in Shown => registry[s] # NoWindow
  PROVE  Keeps(s, queue)
<1>1. transition[s] \in Transitions /\ transition \in [Sessions -> Transitions]
      /\ updates \in [Sessions -> Seq(Updates)]
  BY DEF TypeOK
<1>2. transition'[s].stage = "settling" /\ transition'[s].owner = transition[s].owner
      /\ updates'[s] = Append(queue, Update(state, "transition", NoWindow))
  BY <1>1 DEF Settle, Transitions
<1>3. Steady(s)'
  BY <1>2 DEF Steady
<1>4. QED BY <1>2, <1>3 DEF Keeps

\* A session that fails is not presented.
LEMMA FailKeeps ==
  ASSUME TypeOK, NEW s \in Sessions, NEW queue \in Seq(Updates), NEW others, Fail(s, queue, others)
  PROVE  /\ Sends(s, others)
         /\ /\ s \in live /\ UNCHANGED <<window, registry>>
            /\ transition[s].owner # NoWindow => window[transition[s].owner] # "unborn"
            => Keeps(s, queue)
BY SettleKeeps DEF Fail, Sends, Nothing, States, Shown

\* A session without a view goes to some window, waits for one, or fails.
LEMMA EnsureWindowKeeps ==
  ASSUME TypeOK, NEW s \in Sessions, NEW queue \in Seq(Updates), NEW t, t = transition[s],
         EnsureWindow(s, t, queue)
  PROVE  Sends(s, pending) /\ (s \in live /\ t.owner = NoWindow /\ UNCHANGED registry => Keeps(s, queue))
<1>1. t \in Transitions /\ transition \in [Sessions -> Transitions] /\ updates \in [Sessions -> Seq(Updates)]
  BY DEF TypeOK
<1>2. ASSUME NEW w \in UsableWindows, AwaitReady(s, t, queue, w), UNCHANGED <<window, creation>>
      PROVE  Sends(s, pending) /\ (s \in live /\ t.owner = NoWindow /\ UNCHANGED registry => Keeps(s, queue))
  <2>1. w \in Windows /\ Usable(w)
    BY <1>2 DEF UsableWindows
  <2>2. t.owner = NoWindow /\ UNCHANGED registry => Known(s, t, w)
    BY <1>2, <2>1 DEF Known
  <2>3. Sends(s, pending) /\ updates'[s] = queue /\ Placed(s, t, w)
    BY <1>1, <1>2, <2>1, AwaitReadySends
  <2>4. QED BY <1>1, <2>1, <2>2, <2>3, PlacedKeeps
<1>3. ASSUME NEW w, Await(s, queue, w)
      PROVE  Sends(s, pending) /\ (s \in live /\ t.owner = NoWindow /\ UNCHANGED registry => Keeps(s, queue))
  <2>1. transition'[s].stage = "creating" /\ transition'[s].owner = t.owner /\ updates'[s] = queue
    BY <1>1, <1>3 DEF Await, Transitions
  <2>2. t.owner = NoWindow => Steady(s)'
    BY <2>1 DEF Steady, Usable
  <2>3. QED BY <1>3, <2>1, <2>2 DEF Keeps, Sends, Await, Nothing
<1>4. CASE Fail(s, queue, pending) /\ UNCHANGED <<window, creation>>
  BY <1>4, FailKeeps
<1>5. QED BY <1>2, <1>3, <1>4 DEF EnsureWindow

\* An opening session goes on with the view it had.
LEMMA ProceedKeeps ==
  ASSUME TypeOK, NEW s \in Sessions, NEW queue \in Seq(Updates), Proceed(s, queue)
  PROVE  /\ Sends(s, pending)
         /\ s \in live /\ Steady(s) /\ transition[s].stage = "opening" /\ UNCHANGED registry
              => Keeps(s, queue)
<1> DEFINE t == transition[s]
           Then == s \in live /\ Steady(s) /\ transition[s].stage = "opening" /\ UNCHANGED registry
                        => Keeps(s, queue)
<1>1. t \in Transitions /\ t.owner \in Owners /\ transition \in [Sessions -> Transitions]
      /\ updates \in [Sessions -> Seq(Updates)]
  BY DEF TypeOK, Transitions
<1>2. Usable(t.owner) => t.owner \in Windows
  BY <1>1 DEF Usable, Owners
<1>3. CASE t.wanted = "headless" /\ t.owner = NoWindow /\ Settle(s, queue, "headless") /\ Nothing(pending)
           /\ UNCHANGED <<window, creation>>
  <2>1. Then
    BY <1>3, SettleKeeps DEF States, Requested, Shown
  <2>2. QED BY <1>3, <2>1 DEF Sends, Nothing
<1>4. CASE Fail(s, queue, pending) /\ UNCHANGED <<window, creation>>
  BY <1>4, FailKeeps DEF Steady
<1>5. CASE /\ t.wanted = "headless" /\ Usable(t.owner) /\ Command(s, t, pending, t.owner, "hide", "hiding")
           /\ updates' = [updates EXCEPT ![s] = queue] /\ UNCHANGED <<window, creation>>
  <2>1. Sends(s, pending) /\ transition'[s] = [t EXCEPT !.stage = "hiding", !.window = t.owner]
    <3>1. ActionFits("hide", "hiding") /\ "hide" \in Actions
      BY DEF ActionFits, Actions
    <3>2. t.owner \in Windows /\ Command(s, t, pending, t.owner, "hide", "hiding")
      BY <1>2, <1>5
    <3>3. transition'[s] = [t EXCEPT !.stage = "hiding", !.window = t.owner]
      BY <1>1, <3>2 DEF Command
    <3> HIDE DEF t
    <3>4. Sends(s, pending)
      BY <1>1, <3>1, <3>2, CommandSends
    <3>5. QED BY <3>3, <3>4
  <2>2. transition'[s].stage = "hiding" /\ transition'[s].wanted = "headless"
        /\ transition'[s].owner = t.owner
        /\ updates'[s] = queue
    BY <1>1, <1>5, <2>1 DEF Transitions
  <2>3. Steady(s) => Steady(s)'
    BY <1>5, <2>2 DEF Steady
  <2>4. QED BY <2>1, <2>2, <2>3 DEF Keeps
<1>6. CASE t.wanted # "headless" /\ Usable(t.owner) /\ AwaitReady(s, t, queue, t.owner)
           /\ UNCHANGED <<window, creation>>
  <2>1. Sends(s, pending) /\ updates'[s] = queue /\ Placed(s, t, t.owner)
    BY <1>1, <1>2, <1>6, AwaitReadySends
  <2>2. Steady(s) /\ t.stage = "opening" /\ UNCHANGED registry => Known(s, t, t.owner)
    BY <1>6 DEF Known, Steady
  <2>3. QED BY <1>1, <1>2, <1>6, <2>1, <2>2, PlacedKeeps
<1>7. CASE t.owner = NoWindow /\ EnsureWindow(s, t, queue)
  BY <1>7, EnsureWindowKeeps
<1>8. QED BY <1>3, <1>4, <1>5, <1>6, <1>7 DEF Proceed

\* A session whose command is acknowledged goes on, or settles.
LEMMA AcknowledgedKeeps ==
  ASSUME TypeOK, NEW s \in Sessions, NEW others, Acknowledged(s, others)
  PROVE  /\ Sends(s, others)
         /\ s \in live /\ Steady(s) /\ UNCHANGED <<window, registry>> => Keeps(s, updates[s])
<1> DEFINE t == transition[s]
           opened == IF t.owner = NoWindow THEN registry[s] ELSE t.window
<1>1. /\ t \in Transitions /\ t.window \in Owners /\ t.wanted \in Requested /\ registry[s] \in Owners
      /\ updates[s] \in Seq(Updates) /\ updates \in [Sessions -> Seq(Updates)]
      /\ transition \in [Sessions -> Transitions]
  BY DEF TypeOK, Transitions
<1>2. Usable(opened) => opened \in Windows /\ opened # NoWindow
  BY <1>1 DEF Usable, Owners
<1>3. Steady(s) /\ t.stage = "showing" /\ Usable(opened) => registry[s] = opened
  BY DEF Steady, Usable
<1>4. CASE Fail(s, updates[s], others)
  BY <1>1, <1>4, FailKeeps DEF Steady
<1>5. CASE /\ t.stage = "showing" /\ Usable(opened)
           /\ Command(s, t, others, opened, "focus", "focusing") /\ UNCHANGED updates
  <2>1. Sends(s, others) /\ transition'[s] = [t EXCEPT !.stage = "focusing", !.window = opened]
    <3>1. ActionFits("focus", "focusing") /\ "focus" \in Actions
      BY DEF ActionFits, Actions
    <3>2. opened \in Windows /\ Command(s, t, others, opened, "focus", "focusing")
      BY <1>2, <1>5
    <3>3. transition'[s] = [t EXCEPT !.stage = "focusing", !.window = opened]
      BY <1>1, <3>2 DEF Command
    <3> HIDE DEF t, opened
    <3>4. Sends(s, others)
      BY <1>1, <3>1, <3>2, CommandSends
    <3>5. QED BY <3>3, <3>4
  <2>2. transition'[s].stage = "focusing" /\ transition'[s].window = opened /\ transition'[s].owner = t.owner
    BY <1>1, <2>1 DEF Transitions
  <2>3. Steady(s) /\ UNCHANGED <<window, registry>> => Steady(s)'
    BY <1>2, <1>3, <1>5, <2>2 DEF Steady
  <2>4. QED BY <1>5, <2>1, <2>3 DEF Keeps
<1>6. CASE /\ t.stage = "showing" /\ Usable(opened) /\ Settle(s, updates[s], "background") /\ Nothing(others)
  BY <1>1, <1>2, <1>3, <1>6, SettleKeeps DEF Sends, Nothing, States, Requested, Steady
<1>7. CASE t.stage \in {"focusing", "hiding"} /\ Settle(s, updates[s], t.wanted) /\ Nothing(others)
  <2>1. Steady(s) /\ t.wanted \in Shown => registry[s] # NoWindow
    BY <1>7 DEF Steady, Shown
  <2>2. QED BY <1>1, <1>7, <2>1, SettleKeeps DEF Sends, Nothing, States, Steady
<1>8. QED BY <1>4, <1>5, <1>6, <1>7 DEF Acknowledged

PresentedInv == OpeningInv /\ ViewInv /\ CommandsOK /\ ClosersOK /\ MineOK

\* Nobody works on s.
Still(s) ==
    \A w \in Windows : /\ orphan[w][s] = "none" /\ view[w][s] \notin Starting \cup Closing
                       /\ \A i \in DOMAIN inbox[w] : inbox[w][i].session # s

\* Without a command pending, nobody works on a session that is calm.
LEMMA StillFree ==
  ASSUME NEW s \in Sessions, Calm(s), \A p \in pending : p.by = "transition" => p.session # s
  PROVE  Still(s)
BY DEF Calm, CalmAt, Still, Works

\* A command that is answered was the only one for which a renderer worked on s.
LEMMA StillAnswered ==
  ASSUME PendingOK, CommandsOK, NEW p \in pending, p.by = "transition", Answered(p.id),
         NEW s \in Sessions, s = p.session, Calm(s)
  PROVE  Still(s)
<1>1. \A x, w, action : Works(pending, x, s, w, action) => x = p.id /\ w = p.window
  BY DEF Works, PendingOK
<1>2. /\ ~Told(p.id, p.window) /\ pendingOpen[p.window][s] # p.id /\ p.id \notin disposing[p.window][s]
  BY DEF CommandsOK, Sole
<1>3. ASSUME NEW w \in Windows
      PROVE  /\ orphan[w][s] = "none" /\ view[w][s] \notin Starting \cup Closing
             /\ \A i \in DOMAIN inbox[w] : inbox[w][i].session # s
  <2>1. CalmAt(s, w)
    BY DEF Calm
  <2>2. \A i \in DOMAIN inbox[w] : inbox[w][i].session # s
    BY <1>1, <1>2, <2>1 DEF CalmAt, Told
  <2>3. view[w][s] \notin Starting /\ view[w][s] \notin Closing
    BY <1>1, <1>2, <2>1 DEF CalmAt
  <2>4. QED BY <2>1, <2>2, <2>3 DEF CalmAt
<1>4. QED BY <1>3 DEF Still

\* What a step sends, it sends to one renderer, about one session.
LEMMA SentOnce ==
  ASSUME TypeOK, NEW s \in Sessions, NEW others, Sends(s, others), NEW w \in Windows, NEW i \in DOMAIN inbox'[w]
  PROVE  \/ i \in DOMAIN inbox[w] /\ inbox'[w][i] = inbox[w][i]
         \/ inbox'[w][i].session = s /\ Works(pending', inbox'[w][i].id, s, w, inbox'[w][i].action)
<1>1. inbox[w] \in Seq(Messages) /\ inbox \in [Windows -> Seq(Messages)]
  BY DEF TypeOK
<1>2. CASE UNCHANGED inbox
  BY <1>2
<1>3. CASE \E p \in Commands :
             /\ p.session = s /\ p.by = "transition" /\ pending' = others \cup {p}
             /\ inbox' = [inbox EXCEPT ![p.window] =
                    Append(@, [id |-> p.id, session |-> s, action |-> p.action])]
  <2>1. PICK p \in Commands :
             /\ p.session = s /\ p.by = "transition" /\ pending' = others \cup {p}
             /\ inbox' = [inbox EXCEPT ![p.window] =
                    Append(@, [id |-> p.id, session |-> s, action |-> p.action])]
    BY <1>3
  <2> DEFINE m == [id |-> p.id, session |-> s, action |-> p.action]
  <2>2. m \in Messages /\ m.id = p.id /\ m.session = s /\ m.action = p.action /\ p.window \in Windows
    BY <2>1 DEF Commands, Messages
  <2>3. inbox'[w] = IF w = p.window THEN Append(inbox[w], m) ELSE inbox[w]
    BY <1>1, <2>1, <2>2
  <2>4. Works(pending', p.id, s, p.window, p.action)
    BY <2>1 DEF Works
  <2> HIDE DEF m
  <2>5. CASE w = p.window
    <3>1. /\ DOMAIN Append(inbox[w], m) = 1..(Len(inbox[w]) + 1) /\ DOMAIN inbox[w] = 1..Len(inbox[w])
          /\ Len(inbox[w]) \in Nat
          /\ \A j \in 1..Len(inbox[w]) : Append(inbox[w], m)[j] = inbox[w][j]
          /\ Append(inbox[w], m)[Len(inbox[w]) + 1] = m
      BY <1>1, <2>2, AppendProperties, LenProperties
    <3>2. (i \in DOMAIN inbox[w] /\ inbox'[w][i] = inbox[w][i]) \/ inbox'[w][i] = m
      BY <2>3, <2>5, <3>1
    <3>3. QED BY <2>2, <2>4, <2>5, <3>2
  <2>6. CASE w # p.window
    BY <2>3, <2>6
  <2>7. QED BY <2>5, <2>6
<1>4. QED BY <1>2, <1>3 DEF Sends

\* The transition of a session on which nobody works may send a command.
LEMMA StillSends ==
  ASSUME TypeOK, NEW s \in Sessions, Still(s), NEW others, Sends(s, others), UNCHANGED <<view, orphan>>
  PROVE  Calm(s)'
<1>1. ASSUME NEW w \in Windows PROVE CalmAt(s, w)'
  <2>1. \A i \in DOMAIN inbox'[w] : inbox'[w][i].session = s =>
            Works(pending', inbox'[w][i].id, s, w, inbox'[w][i].action)
    BY SentOnce DEF Still
  <2>2. QED BY <2>1 DEF Still, CalmAt
<1>2. QED BY <1>1 DEF Calm

\* It sends none when it ends.
LEMMA StillLed ==
  ASSUME TypeOK, NEW s \in Sessions, Still(s), NEW others, Sends(s, others), UNCHANGED <<view, orphan>>
  PROVE  Led(s)'
<1>1. Calm(s)'
  BY StillSends
<1>2. ASSUME transition'[s] = Idle PROVE Untold(s)'
  <2>1. transition'[s].stage = "idle"
    BY <1>2 DEF Idle
  <2>2. UNCHANGED inbox
    BY <2>1 DEF Sends, ActionFits
  <2>3. QED BY <2>2 DEF Still, Untold
<1>3. QED BY <1>1, <1>2 DEF Led

\* The commands with which the transition of s works at w are still pending.
WorkKept(s, w) ==
    \A p \in pending : p.by = "transition" /\ p.session = s /\ p.window = w => p \in pending'
\* No command about s is sent to w.
NoneSent(s, w) ==
    \A i \in DOMAIN inbox'[w] : inbox'[w][i].session = s =>
        \E j \in DOMAIN inbox[w] : inbox[w][j] = inbox'[w][i]

\* A view's start, or its closing, goes on for the command it was for.
LEMMA CalmKept ==
  ASSUME NEW s \in Sessions, NEW w \in Windows, CalmAt(s, w), orphan'[w][s] = "none",
         WorkKept(s, w), NoneSent(s, w),
         \/ view'[w][s] \notin Starting \cup Closing
         \/ view[w][s] \in Starting /\ view'[w][s] \in Starting /\ pendingOpen'[w][s] = pendingOpen[w][s]
         \/ view[w][s] \in Closing /\ view'[w][s] \in Closing /\ disposing[w][s] \subseteq disposing'[w][s]
  PROVE  CalmAt(s, w)'
<1>1. \A x, action : Works(pending, x, s, w, action) => Works(pending', x, s, w, action)
  BY DEF Works, WorkKept
<1>2. \A i \in DOMAIN inbox'[w] : inbox'[w][i].session = s =>
          Works(pending', inbox'[w][i].id, s, w, inbox'[w][i].action)
  BY <1>1 DEF CalmAt, NoneSent
<1>3. view'[w][s] \in Starting => Works(pending', pendingOpen'[w][s], s, w, "open")
  BY <1>1 DEF CalmAt, Starting, Closing
<1>4. view'[w][s] \in Closing => \E x \in disposing'[w][s] : Works(pending', x, s, w, "hide")
  BY <1>1 DEF CalmAt, Starting, Closing
<1>5. QED BY <1>2, <1>3, <1>4 DEF CalmAt

\* Nothing of s changes.
Unmoved(s) ==
    /\ \A w \in Windows : /\ view'[w][s] = view[w][s] /\ orphan'[w][s] = orphan[w][s]
                          /\ pendingOpen'[w][s] = pendingOpen[w][s] /\ disposing'[w][s] = disposing[w][s]
                          /\ WorkKept(s, w) /\ NoneSent(s, w)
    /\ transition'[s] = transition[s] /\ registry'[s] = registry[s]
    /\ updates'[s] = updates[s] /\ presentation'[s] = presentation[s]

\* A window may begin to load.
WindowsGoOn == \A w \in Windows : window[w] # "unborn" => window'[w] = window[w]

\* Sessions go, are disturbed, and commands to them are given up, for good.
Onward ==
    /\ live' \subseteq live /\ budget.disturbed \subseteq budget'.disturbed
    /\ budget.givenUp \subseteq budget'.givenUp

\* What does not move keeps.
LEMMA UnmovedKept ==
  ASSUME TypeOK, NEW s \in Sessions, Led(s), Steady(s), Spoken(s), Unmoved(s), WindowsGoOn
  PROVE  Led(s)' /\ Steady(s)' /\ Spoken(s)'
<1>1. Led(s)'
  <2>1. ASSUME NEW w \in Windows, transition[s] # Idle PROVE CalmAt(s, w)'
    <3>1. CalmAt(s, w)
      BY <2>1 DEF Led, Calm
    <3>2. /\ orphan'[w][s] = "none" /\ WorkKept(s, w) /\ NoneSent(s, w)
          /\ view'[w][s] = view[w][s] /\ pendingOpen'[w][s] = pendingOpen[w][s]
          /\ disposing'[w][s] = disposing[w][s]
      BY <3>1 DEF Unmoved, CalmAt
    <3>3. QED BY <3>1, <3>2, CalmKept
  <2>2. Untold(s) => Untold(s)'
    BY DEF Untold, Unmoved, NoneSent
  <2>3. QED BY <2>1, <2>2 DEF Led, Calm, Unmoved
<1>2. Steady(s)'
  <2>1. transition[s].owner \in Owners
    BY DEF TypeOK, Transitions
  <2>2. transition[s].owner # NoWindow => window'[transition[s].owner] = window[transition[s].owner]
    BY <2>1 DEF Steady, WindowsGoOn, Owners
  <2>3. Usable(transition[s].owner)' => Usable(transition[s].owner)
    <3>1. PICK o : o = transition[s].owner
      OBVIOUS
    <3>2. Usable(o)' => Usable(o)
      BY <2>2, <3>1 DEF Usable
    <3>3. transition'[s].owner = o
      BY <3>1 DEF Unmoved
    <3>4. QED BY <3>1, <3>2, <3>3
  <2>4. QED BY <2>2, <2>3 DEF Steady, Unmoved
<1>3. Spoken(s)'
  BY DEF Spoken, Unmoved
<1>4. QED BY <1>1, <1>2, <1>3

\* A session that is not the controller's own never becomes so.
LEMMA MineOnward == \A s : Onward /\ Mine(s)' => Mine(s)
  BY DEF Onward, Mine

\* One session moves.
LEMMA MineFrame ==
  ASSUME TypeOK, MineOK, NEW s \in Sessions, Onward, WindowsGoOn,
         \A r \in Sessions \ {s} : Unmoved(r),
         Mine(s)' => Led(s)' /\ Steady(s)' /\ Spoken(s)'
  PROVE  MineOK'
<1>1. ASSUME NEW r \in Sessions \ {s}, Mine(r)' PROVE Led(r)' /\ Steady(r)' /\ Spoken(r)'
  BY <1>1, MineOnward, UnmovedKept DEF MineOK
<1>2. QED BY <1>1 DEF MineOK

\* No command is sent.
LEMMA CommandsKept ==
  ASSUME CommandsOK, pending' \subseteq pending, budget.disturbed \subseteq budget'.disturbed,
         \A p \in pending' : p.by = "transition" =>
             transition'[p.session].stage = transition[p.session].stage,
         \A p \in pending' : Sole(p.id, p.window, p.session)'
  PROVE  CommandsOK'
BY DEF CommandsOK

\* Nor does one move, unless it is lost or its answer is received.
LEMMA CommandsFewer ==
  ASSUME TypeOK, CommandsOK, pending' \subseteq pending, budget.disturbed \subseteq budget'.disturbed,
         \A p \in pending' : p.by = "transition" =>
             transition'[p.session].stage = transition[p.session].stage,
         \A w \in Windows : Fewer(w),
         \A w \in Windows, s \in Sessions :
             /\ pendingOpen'[w][s] \in {pendingOpen[w][s], 0}
             /\ disposing'[w][s] \subseteq disposing[w][s],
         acks' \subseteq acks
  PROVE  CommandsOK'
<1>1. ASSUME NEW p \in pending' PROVE Sole(p.id, p.window, p.session)'
  <2>1. p \in pending /\ p.id # 0 /\ p.window \in Windows /\ p.session \in Sessions
    BY DEF TypeOK, Commands, Ids
  <2>2. PICK x, w, s : x = p.id /\ w = p.window /\ s = p.session
    BY <2>1
  <2>3. Sole(x, w, s) /\ w \in Windows /\ s \in Sessions
    BY <2>1, <2>2 DEF CommandsOK
  <2>4. Answered(x)' => Answered(x)
    BY DEF Answered
  <2>5. /\ \A v \in Windows, r \in Sessions : pendingOpen'[v][r] = x => pendingOpen[v][r] = x
        /\ \A v \in Windows, r \in Sessions : x \in disposing'[v][r] => x \in disposing[v][r]
    BY <2>1, <2>2
  <2>6. Sole(x, w, s)'
    BY <2>3, <2>4, <2>5, SoleFewer
  <2>7. QED BY <2>2, <2>6
<1>2. QED BY <1>1, CommandsKept

\* One command is sent.
LEMMA CommandsAdded ==
  ASSUME TypeOK, CommandsOK, NEW others \in SUBSET pending, FreshIds # {},
         NEW p \in Commands, p.id = FreshId, pending' = others \cup {p},
         inbox' = [inbox EXCEPT ![p.window] =
             Append(@, [id |-> p.id, session |-> p.session, action |-> p.action])],
         p.by = "closer" => p.session \in budget'.disturbed,
         p.by = "transition" => ActionFits(p.action, transition'[p.session].stage),
         \A q \in others : q.by = "transition" =>
             transition'[q.session].stage = transition[q.session].stage,
         UNCHANGED <<pendingOpen, disposing>>, acks' \subseteq acks,
         budget.disturbed \subseteq budget'.disturbed
  PROVE  CommandsOK'
<1>1. PICK y, w, s : /\ y = p.id /\ w = p.window /\ w \in Windows
                     /\ s = p.session /\ s \in Sessions
  BY DEF Commands
<1>2. \A q \in pending : q.id # y
  BY <1>1, FreshNowhere
<1>3. /\ Sole(y, w, s)'
      /\ \A x, v, r : x # y /\ Sole(x, v, r) => Sole(x, v, r)'
  <2>1. PICK m : m = [id |-> p.id, session |-> p.session, action |-> p.action]
    OBVIOUS
  <2>2. inbox' = [inbox EXCEPT ![w] = Append(@, m)]
    BY <1>1, <2>1
  <2>3. m.id = y /\ m.session = s
    BY <1>1, <2>1
  <2>4. y = FreshId /\ w \in Windows /\ s \in Sessions
    BY <1>1
  <2>5. FreshIds # {} /\ UNCHANGED <<pendingOpen, disposing>> /\ acks' \subseteq acks /\ TypeOK
    OBVIOUS
  <2>6. Sole(y, w, s)'
    BY ONLY <2>2, <2>3, <2>4, <2>5, SoleSent
  <2>7. \A x, v, r : x # y /\ Sole(x, v, r) => Sole(x, v, r)'
    BY ONLY <2>2, <2>3, <2>4, <2>5, SoleSent
  <2>8. QED BY <2>6, <2>7
<1>4. ASSUME NEW q \in others PROVE Sole(q.id, q.window, q.session)'
  BY <1>2, <1>3 DEF CommandsOK
<1>5. Sole(p.id, p.window, p.session)'
  BY <1>1, <1>3
<1>6. \A q \in pending' : Sole(q.id, q.window, q.session)'
  BY <1>4, <1>5
<1>7. \A q, r \in pending' : r.id = q.id => r = q
  BY <1>1, <1>2 DEF CommandsOK
<1>8. \A q \in pending' : /\ q.by = "closer" => q.session \in budget'.disturbed
                          /\ q.by = "transition" => ActionFits(q.action, transition'[q.session].stage)
  BY DEF CommandsOK
<1>9. QED BY <1>6, <1>7, <1>8 DEF CommandsOK

LEMMA CommandsSent ==
  ASSUME TypeOK, CommandsOK, NEW s \in Sessions, NEW others \in SUBSET pending, Sends(s, others),
         \A p \in others : p.by = "transition" => p.session # s,
         \A r \in Sessions \ {s} : transition'[r] = transition[r],
         UNCHANGED <<pendingOpen, disposing>>, acks' \subseteq acks,
         budget.disturbed \subseteq budget'.disturbed
  PROVE  CommandsOK'
<1>1. \A p \in others : p.by = "transition" => transition'[p.session].stage = transition[p.session].stage
  BY DEF TypeOK, Commands
<1>2. CASE pending' = others /\ UNCHANGED inbox
  <2>1. \A w \in Windows : Fewer(w)
    BY <1>2, FewerKept
  <2>2. QED BY <1>1, <1>2, <2>1, CommandsFewer
<1>3. CASE FreshIds # {} /\ \E p \in Commands :
             /\ p.id = FreshId /\ p.session = s /\ p.by = "transition"
             /\ ActionFits(p.action, transition'[s].stage)
             /\ pending' = others \cup {p}
             /\ inbox' = [inbox EXCEPT ![p.window] =
                    Append(@, [id |-> p.id, session |-> s, action |-> p.action])]
  BY <1>1, <1>3, CommandsAdded
<1>4. QED BY <1>2, <1>3 DEF Sends

\* What is said last.
LEMMA LastSaid ==
  /\ \A q \in Seq(Updates), u \in Updates : \A state : LastWord(Append(q, u), state) = u.state
  /\ \A q \in Seq(Updates) : \A state : q # <<>> => LastWord(Tail(q), Head(q).state) = LastWord(q, state)
<1>1. ASSUME NEW q \in Seq(Updates), NEW u \in Updates, NEW state
      PROVE  LastWord(Append(q, u), state) = u.state
  <2>1. Append(q, u) # <<>> /\ Append(q, u)[Len(Append(q, u))] = u
    BY AppendProperties
  <2>2. QED BY <2>1 DEF LastWord
<1>2. ASSUME NEW q \in Seq(Updates), NEW state, q # <<>>
      PROVE  LastWord(Tail(q), Head(q).state) = LastWord(q, state)
  <2>1. /\ Tail(q) \in Seq(Updates) /\ Len(Tail(q)) = Len(q) - 1 /\ Head(q) = q[1] /\ Len(q) \in Nat
        /\ \A i \in 1..Len(Tail(q)) : Tail(q)[i] = q[i + 1]
    BY <1>2, HeadTailProperties, LenProperties
  <2>2. CASE Tail(q) = <<>>
    <3>1. Len(q) = 1
      BY <2>1, <2>2, EmptySeq
    <3>2. QED BY <1>2, <2>1, <2>2, <3>1 DEF LastWord
  <2>3. CASE Tail(q) # <<>>
    <3>1. Len(Tail(q)) \in 1..Len(Tail(q))
      BY <2>1, <2>3, EmptySeq, LenProperties
    <3>2. Tail(q)[Len(Tail(q))] = q[Len(q)]
      BY <2>1, <3>1
    <3>3. QED BY <1>2, <2>3, <3>2 DEF LastWord
  <2>4. QED BY <2>2, <2>3
<1>3. QED BY <1>1, <1>2

\* It is the same when the view that somebody waited for has no tab.
LEMMA OrphanedSaid ==
  ASSUME NEW q \in Seq(Updates), NEW w \in Windows, NEW state
  PROVE  LastWord(Orphaned(q, w), state) = LastWord(q, state)
<1>1. PICK o : o = Orphaned(q, w)
  OBVIOUS
<1>2. o \in Seq(Updates) /\ Len(o) = Len(q)
  BY <1>1, OrphanedTyped
<1>3. CASE q = <<>>
  <2>1. o = <<>>
    BY <1>2, <1>3, EmptySeq
  <2>2. QED BY <1>1, <1>3, <2>1 DEF LastWord
<1>4. CASE q # <<>>
  <2>1. Len(q) \in DOMAIN q /\ o # <<>>
    BY <1>2, <1>4, LenProperties, EmptySeq
  <2>2. o[Len(q)].state = q[Len(q)].state
    BY <1>1, <2>1 DEF Orphaned, Update
  <2>3. QED BY <1>1, <1>2, <1>4, <2>1, <2>2 DEF LastWord
<1>5. QED BY <1>3, <1>4

\* What a transition says last is true of the view.
LEMMA KeepsSpoken ==
  ASSUME NEW s \in Sessions, NEW queue \in Seq(Updates), Keeps(s, queue), UNCHANGED registry,
         LastWord(queue, presentation'[s]) \in Shown => registry[s] # NoWindow
  PROVE  Spoken(s)'
<1>1. CASE updates'[s] = queue
  BY <1>1 DEF Spoken
<1>2. CASE \E state \in States :
             /\ updates'[s] = Append(queue, Update(state, "transition", NoWindow))
             /\ state \in Shown => registry[s] # NoWindow
  <2>1. PICK state \in States :
             /\ updates'[s] = Append(queue, Update(state, "transition", NoWindow))
             /\ state \in Shown => registry[s] # NoWindow
    BY <1>2
  <2>2. LastWord(updates'[s], presentation'[s]) = state
    BY <2>1, LastSaid, UpdateTyped
  <2>3. QED BY <2>1, <2>2 DEF Spoken
<1>3. QED BY <1>1, <1>2 DEF Keeps

\* The transition of s goes on.
LEMMA ProgressMine ==
  ASSUME TypeOK, CommandsOK, MineOK, NEW s \in Sessions, NEW queue \in Seq(Updates),
         NEW others \in SUBSET pending,
         Progressed(s, queue, others), Sends(s, others),
         \A p \in pending \ others : p.by = "transition" /\ p.session = s,
         \A p \in others : p.by = "transition" => p.session # s,
         UNCHANGED <<registry, view, orphan, pendingOpen, disposing>>, acks' \subseteq acks,
         \A r \in Sessions \ {s} : presentation'[r] = presentation[r],
         Onward, WindowsGoOn,
         Mine(s)' => /\ Still(s) /\ Keeps(s, queue)
                     /\ LastWord(queue, presentation'[s]) \in Shown => registry[s] # NoWindow
  PROVE  CommandsOK' /\ MineOK'
<1>1. \A r \in Sessions \ {s} : transition'[r] = transition[r] /\ updates'[r] = updates[r]
  BY DEF Progressed
<1>2. CommandsOK'
  BY <1>1, CommandsSent DEF Onward
<1>3. ASSUME NEW r \in Sessions \ {s} PROVE Unmoved(r)
  <2>1. \A w \in Windows : WorkKept(r, w)
    BY DEF WorkKept, Sends
  <2>2. \A w \in Windows : NoneSent(r, w)
    BY SentOnce DEF NoneSent
  <2>3. QED BY <1>1, <2>1, <2>2 DEF Unmoved
<1>4. ASSUME Mine(s)' PROVE Led(s)' /\ Steady(s)' /\ Spoken(s)'
  BY <1>4, StillLed, KeepsSpoken DEF Keeps
<1>5. QED BY <1>2, <1>3, <1>4, MineFrame

\* No session moves but those that are disturbed or gone.
LEMMA MineFrames ==
  ASSUME TypeOK, MineOK, Onward, WindowsGoOn, \A r \in Sessions : Mine(r)' => Unmoved(r)
  PROVE  MineOK'
<1>1. ASSUME NEW r \in Sessions, Mine(r)' PROVE Led(r)' /\ Steady(r)' /\ Spoken(r)'
  BY <1>1, MineOnward, UnmovedKept DEF MineOK
<1>2. QED BY <1>1 DEF MineOK

\* Nobody moves a command.
LEMMA CommandsStay ==
  ASSUME TypeOK, CommandsOK, UNCHANGED <<pending, inbox, acks, pendingOpen, disposing>>,
         budget.disturbed \subseteq budget'.disturbed,
         \A p \in pending : p.by = "transition" => transition'[p.session].stage = transition[p.session].stage
  PROVE  CommandsOK'
<1>1. \A w \in Windows : Fewer(w)
  BY FewerKept
<1>2. QED BY <1>1, CommandsFewer

\* The commands that waited with a view, for its start or for its disposal, are answered.
LEMMA CommandsAnswered ==
  ASSUME TypeOK, CommandsOK, UNCHANGED <<pending, inbox>>, budget.disturbed \subseteq budget'.disturbed,
         \A p \in pending : p.by = "transition" =>
             transition'[p.session].stage = transition[p.session].stage,
         NEW w \in Windows, NEW s \in Sessions, NEW status,
         \/ /\ pendingOpen' = [pendingOpen EXCEPT ![w][s] = 0] /\ UNCHANGED disposing
            /\ acks' = acks \cup Replies(w, {pendingOpen[w][s]}, status)
         \/ /\ disposing' = [disposing EXCEPT ![w][s] = {}] /\ UNCHANGED pendingOpen
            /\ acks' = acks \cup Replies(w, disposing[w][s], status)
  PROVE  CommandsOK'
<1>1. ASSUME NEW p \in pending PROVE Sole(p.id, p.window, p.session)'
  <2>1. PICK x, v, r : /\ x = p.id /\ v = p.window /\ r = p.session
                    /\ x \in Ids /\ v \in Windows /\ r \in Sessions
    BY DEF TypeOK, Commands
  <2>2. Sole(x, v, r)
    BY <2>1 DEF CommandsOK
  <2>3. x \in Ids /\ v \in Windows /\ r \in Sessions
    BY <2>1
  <2>4. ASSUME /\ pendingOpen' = [pendingOpen EXCEPT ![w][s] = 0] /\ UNCHANGED disposing
               /\ acks' = acks \cup Replies(w, {pendingOpen[w][s]}, status)
        PROVE  Sole(x, v, r)'
    BY <2>2, <2>3, <2>4, SoleAnswered
  <2>5. ASSUME /\ disposing' = [disposing EXCEPT ![w][s] = {}] /\ UNCHANGED pendingOpen
               /\ acks' = acks \cup Replies(w, disposing[w][s], status)
        PROVE  Sole(x, v, r)'
    BY <2>2, <2>3, <2>5, SoleAnswered
  <2>6. Sole(x, v, r)'
    BY <2>4, <2>5
  <2>7. QED BY <2>1, <2>6
<1>2. QED BY <1>1, CommandsKept

\* What a transition that has no command pending may do does not concern CommandsOK.
LEMMA FreeTransition ==
  ASSUME TypeOK, NEW s \in Sessions, \A r \in Sessions \ {s} : transition'[r] = transition[r],
         \A p \in pending : p.by = "transition" => p.session # s
  PROVE  \A p \in pending : p.by = "transition" => transition'[p.session].stage = transition[p.session].stage
BY DEF TypeOK, Commands

\* Nothing of s changes with its renderers.
LEMMA CalmStays ==
  ASSUME NEW s \in Sessions, Calm(s), UNCHANGED <<pending, inbox, view, orphan, pendingOpen, disposing>>
  PROVE  Calm(s)'
BY DEF Calm, CalmAt, Works

LEMMA OthersUnmoved ==
  ASSUME NEW s, pending \subseteq pending', UNCHANGED inbox,
         \A w \in Windows : /\ view'[w][s] = view[w][s] /\ orphan'[w][s] = orphan[w][s]
                            /\ pendingOpen'[w][s] = pendingOpen[w][s] /\ disposing'[w][s] = disposing[w][s],
         transition'[s] = transition[s], registry'[s] = registry[s],
         updates'[s] = updates[s], presentation'[s] = presentation[s]
  PROVE  Unmoved(s)
BY DEF Unmoved, WorkKept, NoneSent

\* The first update of s is applied, and changes nothing that its transition knows of.
LEMMA AppliedMine ==
  ASSUME TypeOK, NEW s \in Sessions, Steady(s), Spoken(s), updates[s] # <<>>,
         updates'[s] = Tail(updates[s]), presentation'[s] = Head(updates[s]).state,
         UNCHANGED <<window, registry>>
  PROVE  Spoken(s)' /\ (transition'[s] \in {transition[s], Idle} => Steady(s)')
<1>1. updates[s] \in Seq(Updates)
  BY DEF TypeOK
<1>2. LastWord(updates'[s], presentation'[s]) = LastWord(updates[s], presentation[s])
  BY <1>1, LastSaid
<1>3. Spoken(s)'
  BY <1>2 DEF Spoken
<1>4. transition'[s] \in {transition[s], Idle} => Steady(s)'
  BY DEF Steady, Usable, Idle
<1>5. QED BY <1>3, <1>4

\* The first update of a session is applied.
LEMMA ApplyPresented ==
  ASSUME PresentedInv, NEW s \in Sessions, Apply(s)
  PROVE  CommandsOK' /\ MineOK'
<1> DEFINE u == Head(updates[s])  w == u.window  q == Tail(updates[s])
<1>1. /\ TypeOK /\ CommandsOK /\ MineOK /\ updates[s] \in Seq(Updates) /\ updates[s] # <<>>
      /\ u \in Updates /\ q \in Seq(Updates)
      /\ presentation'[s] = u.state /\ \A r \in Sessions \ {s} : presentation'[r] = presentation[r]
      /\ UNCHANGED <<live, ready, requests, closer, budget>>
  <2>1. TypeOK /\ updates[s] \in Seq(Updates) /\ updates[s] # <<>> /\ CommandsOK /\ MineOK
    BY DEF PresentedInv, OpeningInv, TypeOK, Apply
  <2>2. presentation \in [Sessions -> States]
    BY <2>1 DEF TypeOK
  <2>3. QED BY <2>1, <2>2, HeadTyped DEF Apply
<1>2. Onward /\ (Mine(s)' => Mine(s))
  BY <1>1 DEF Onward, Mine
<1>3. Mine(s) => /\ s \in live /\ Led(s) /\ Steady(s) /\ Spoken(s)
                 /\ LastWord(q, presentation'[s]) \in Shown => registry[s] # NoWindow
  <2>1. LastWord(q, u.state) = LastWord(updates[s], presentation[s])
    BY <1>1, LastSaid
  <2>2. QED BY <1>1, <2>1 DEF MineOK, Mine, Spoken
<1>4. CASE u.by = "transition" /\ AppliedForTransition(s, q)
  <2>1. /\ \A p \in pending : p.by = "transition" => p.session # s
        /\ Mine(s) => Still(s)
    <3>1. transition[s].stage \in {"opening", "settling"}
      BY <1>1, <1>4, TailOK DEF PresentedInv, OpeningInv, QueuesOK
    <3>2. \A p \in pending : p.by = "transition" => p.session # s
      BY <3>1 DEF PresentedInv, OpeningInv, PendingOK, Commanding
    <3>3. Mine(s) => Calm(s)
      BY <1>3, <3>1 DEF Led, Idle
    <3>4. QED BY <3>2, <3>3, StillFree
  <2>2. UNCHANGED <<registry, acks, view, orphan, pendingOpen, disposing>>
    BY <1>4 DEF AppliedForTransition
  <2>3. CASE transition[s].stage = "opening" /\ Proceed(s, q)
    <3>1. Progressed(s, q, pending) /\ WindowsGoOn
      BY <1>1, <2>3, ProceedProgresses DEF WindowsEnsured, WindowsGoOn
    <3>2. Sends(s, pending) /\ (Mine(s) => Keeps(s, q))
      BY <1>1, <1>3, <2>2, <2>3, ProceedKeeps
    <3>3. Mine(s)' => /\ Still(s) /\ Keeps(s, q)
                      /\ LastWord(q, presentation'[s]) \in Shown => registry[s] # NoWindow
      BY <1>2, <1>3, <2>1, <3>2
    <3>4. QED BY <1>1, <1>2, <2>1, <2>2, <3>1, <3>2, <3>3, ProgressMine
  <2>4. CASE /\ transition' = [transition EXCEPT ![s] = Idle] /\ updates' = [updates EXCEPT ![s] = q]
             /\ Nothing(pending) /\ UNCHANGED <<window, creation>>
    <3>1. /\ transition'[s] = Idle /\ updates'[s] = q /\ UNCHANGED <<pending, inbox>>
          /\ \A r \in Sessions \ {s} : transition'[r] = transition[r] /\ updates'[r] = updates[r]
      BY <1>1, <2>4 DEF TypeOK, Nothing
    <3>2. CommandsOK'
      BY <1>1, <2>1, <2>2, <3>1, FreeTransition, CommandsStay
    <3>3. \A r \in Sessions \ {s} : Unmoved(r)
      BY <1>1, <2>2, <3>1, OthersUnmoved
    <3>4. Mine(s)' => Led(s)' /\ Steady(s)' /\ Spoken(s)'
      <4>1. Mine(s)' => Untold(s)'
        BY <1>2, <2>1, <3>1 DEF Still, Untold
      <4>2. QED BY <1>1, <1>2, <1>3, <2>2, <2>4, <3>1, <4>1, AppliedMine DEF Led
    <3>5. WindowsGoOn
      BY <2>4 DEF WindowsGoOn
    <3>6. QED BY <1>1, <1>2, <3>2, <3>3, <3>4, <3>5, MineFrame
  <2>5. QED BY <1>4, <2>3, <2>4 DEF AppliedForTransition
<1>5. CASE u.by # "transition" /\ updates' = [updates EXCEPT ![s] = q]
           /\ UNCHANGED <<window, creation, transition, pending, inbox>>
  <2>1. /\ updates'[s] = q /\ w \in Windows /\ WindowsGoOn
        /\ \A r \in Sessions \ {s} : updates'[r] = updates[r]
        /\ \A v \in Windows : Fewer(v) /\ NoneSent(s, v) /\ WorkKept(s, v)
    BY <1>1, <1>5, UpdateTyped, FewerKept DEF TypeOK, WindowsGoOn, NoneSent, WorkKept
  <2>2. ASSUME \A r \in Sessions \ {s} : registry'[r] = registry[r],
               \A v \in Windows, r \in Sessions : v # w \/ r # s =>
                   /\ view'[v][r] = view[v][r] /\ orphan'[v][r] = orphan[v][r]
                   /\ pendingOpen'[v][r] = pendingOpen[v][r] /\ disposing'[v][r] = disposing[v][r],
               s \in live => /\ registry' = registry /\ (orphan[w][s] = "none" => orphan'[w][s] = "none")
                             /\ \/ view'[w][s] \notin Starting \cup Closing
                                \/ /\ view[w][s] \in Starting /\ view'[w][s] \in Starting
                                   /\ pendingOpen'[w][s] = pendingOpen[w][s]
                                \/ /\ view[w][s] \in Closing /\ view'[w][s] \in Closing
                                   /\ disposing[w][s] \subseteq disposing'[w][s]
        PROVE  MineOK'
    <3>1. \A r \in Sessions \ {s} : Unmoved(r)
      BY <1>1, <1>5, <2>1, <2>2, OthersUnmoved
    <3>2. ASSUME Mine(s)' PROVE Led(s)' /\ Steady(s)' /\ Spoken(s)'
      <4>1. s \in live /\ Led(s) /\ Steady(s) /\ Spoken(s)
        BY <1>2, <1>3, <3>2
      <4>2. Steady(s)' /\ Spoken(s)'
        BY <1>1, <1>5, <2>1, <2>2, <4>1, AppliedMine
      <4>3. ASSUME NEW v \in Windows, transition[s] # Idle PROVE CalmAt(s, v)'
        <5>1. CalmAt(s, v) /\ orphan[v][s] = "none"
          BY <4>1, <4>3 DEF Led, Calm, CalmAt
        <5>2. orphan'[v][s] = "none"
          BY <2>2, <4>1, <5>1
        <5>3. CASE v = w
          BY <2>1, <2>2, <4>1, <5>1, <5>2, <5>3, CalmKept
        <5>4. CASE v # w
          <6>1. view'[v][s] = view[v][s] /\ pendingOpen'[v][s] = pendingOpen[v][s]
                /\ disposing'[v][s] = disposing[v][s]
            BY <2>2, <5>4
          <6>2. QED BY <2>1, <5>1, <5>2, <6>1, CalmKept
        <5>5. QED BY <5>3, <5>4
      <4>4. transition' = transition /\ (Untold(s) => Untold(s)')
        BY <1>5 DEF Untold
      <4>5. QED BY <4>1, <4>2, <4>3, <4>4 DEF Led, Calm
    <3>3. QED BY <1>1, <1>2, <2>1, <3>1, <3>2, MineFrame
  <2>3. /\ \A p \in pending : p.by = "transition"
             => transition'[p.session].stage = transition[p.session].stage
        /\ budget.disturbed \subseteq budget'.disturbed
    BY <1>1, <1>5
  <2>4. /\ view \in [Windows -> [Sessions -> Views]] /\ registry \in [Sessions -> Owners]
        /\ orphan \in [Windows -> [Sessions -> {"none", "starting", "asking", "answered"}]]
        /\ pendingOpen \in [Windows -> [Sessions -> Ids \cup {0}]]
        /\ disposing \in [Windows -> [Sessions -> SUBSET Ids]]
    BY <1>1 DEF TypeOK
  <2>5. CASE u.by = "nobody" /\ UNCHANGED <<registry, acks, view, orphan, pendingOpen, disposing>>
    <3>1. MineOK'
      BY <2>2, <2>4, <2>5 DEF Starting, Closing, Views
    <3>2. QED BY <1>1, <1>5, <2>3, <2>5, <3>1, CommandsStay
  <2>6. CASE u.by = "view" /\ AppliedForView(s, w) /\ UNCHANGED <<orphan, disposing>>
    <3>1. /\ \A v \in Windows, r \in Sessions : v # w \/ r # s =>
                   view'[v][r] = view[v][r] /\ pendingOpen'[v][r] = pendingOpen[v][r]
          /\ \A r \in Sessions \ {s} : registry'[r] = registry[r]
      BY <2>1, <2>4, <2>6 DEF AppliedForView, RegistryWithout
    <3>2. s \in live => /\ registry' = registry /\ acks' = acks /\ pendingOpen' = pendingOpen
                        /\ view'[w][s] = view[w][s] \/ (view[w][s] = "asking" /\ view'[w][s] = "answered")
      BY <2>1, <2>4, <2>6 DEF AppliedForView
    <3>3. MineOK'
      <4>1. s \in live => \/ view'[w][s] \notin Starting \cup Closing
                          \/ view[w][s] \in Starting /\ view'[w][s] \in Starting
                          \/ view[w][s] \in Closing /\ view'[w][s] \in Closing
        BY <3>2 DEF Starting, Closing
      <4>2. QED BY <2>2, <2>6, <3>1, <3>2, <4>1
    <3>4. CommandsOK'
      <4>1. CASE s \in live
        BY <1>1, <1>5, <2>3, <2>6, <3>2, <4>1, CommandsStay
      <4>2. CASE s \notin live
        BY <1>1, <1>5, <2>1, <2>3, <2>6, <4>2, CommandsAnswered DEF AppliedForView
      <4>3. QED BY <4>1, <4>2
    <3>5. QED BY <3>3, <3>4
  <2>7. CASE u.by = "orphan" /\ AppliedForOrphan(s, w) /\ UNCHANGED <<acks, view, pendingOpen, disposing>>
    <3>1. /\ \A v \in Windows, r \in Sessions : v # w \/ r # s => orphan'[v][r] = orphan[v][r]
          /\ \A r \in Sessions \ {s} : registry'[r] = registry[r]
          /\ s \in live => registry' = registry /\ (orphan[w][s] = "none" => orphan'[w][s] = "none")
      BY <2>1, <2>4, <2>7 DEF AppliedForOrphan, RegistryWithout
    <3>2. MineOK'
      BY <2>2, <2>7, <3>1 DEF Starting, Closing
    <3>3. QED BY <1>1, <1>5, <2>3, <2>7, <3>2, CommandsStay
  <2>8. CASE u.by = "closing" /\ AppliedForClosing(s, w) /\ UNCHANGED <<registry, orphan, pendingOpen>>
    <3>1. /\ \A v \in Windows, r \in Sessions : v # w \/ r # s =>
                   view'[v][r] = view[v][r] /\ disposing'[v][r] = disposing[v][r]
          /\ view'[w][s] = IF view[w][s] \in Closing THEN "none" ELSE view[w][s]
      BY <2>1, <2>4, <2>8 DEF AppliedForClosing, Closing
    <3>2. MineOK'
      BY <2>2, <2>8, <3>1 DEF Starting, Closing
    <3>3. CommandsOK'
      BY <1>1, <1>5, <2>1, <2>3, <2>8, CommandsAnswered DEF AppliedForClosing
    <3>4. QED BY <3>2, <3>3
  <2>9. QED BY <1>5, <2>5, <2>6, <2>7, <2>8 DEF Apply
<1>6. QED BY <1>4, <1>5 DEF Apply

\* What a step has to keep, besides what is proved of queues and views already.
PresentedNext == CommandsOK' /\ ClosersOK' /\ MineOK'

\* The parts of the invariant.
LEMMA PresentedParts ==
  PresentedInv => /\ TypeOK /\ QueuesOK /\ PendingOK /\ ViewsOK /\ QueuesFit /\ RegisteredHasView
                  /\ CommandsOK /\ ClosersOK /\ MineOK
BY DEF PresentedInv, OpeningInv, ViewInv

\* No agent begins to close a session.
LEMMA ClosersKept ==
  ASSUME ClosersOK, UNCHANGED closer, budget.disturbed \subseteq budget'.disturbed
  PROVE  ClosersOK'
BY DEF ClosersOK

\* A session that is disturbed is not the controller's own.
LEMMA Disturbed ==
  ASSUME TypeOK, NEW s \in Sessions, Disturb(s)
  PROVE  /\ budget'.disturbed = budget.disturbed \cup {s} /\ budget'.givenUp = budget.givenUp
         /\ ~Mine(s)'
<1>1. /\ budget'.disturbed = budget.disturbed \cup {s} /\ budget'.givenUp = budget.givenUp
  BY DEF TypeOK, Disturb, Budgets
<1>2. QED BY <1>1 DEF Mine

\* Between transitions, a renderer does not disturb by opening or closing a view.
LEMMA Interfered ==
  ASSUME TypeOK, NEW s \in Sessions, Interfere(s)
  PROVE  /\ budget.disturbed \subseteq budget'.disturbed /\ budget'.givenUp = budget.givenUp
         /\ Mine(s)' => transition[s] = Idle
<1>1. /\ budget'.disturbed = IF transition[s] = Idle THEN budget.disturbed ELSE budget.disturbed \cup {s}
      /\ budget'.givenUp = budget.givenUp
  BY DEF TypeOK, Interfere, Budgets
<1>2. QED BY <1>1 DEF Mine

\* Without a transition, there is nothing that it knows.
LEMMA SteadyIdle ==
  ASSUME NEW s, transition'[s] = Idle
  PROVE  Steady(s)'
BY DEF Steady, Idle, Usable

\* A transition that waited for its window goes on, or fails.
LEMMA ResumedPresented ==
  ASSUME PresentedInv, NEW s \in Sessions, transition[s].stage \in {"readying", "creating"},
         Progressed(s, updates[s], pending), Sends(s, pending), Mine(s) => Keeps(s, updates[s]),
         UNCHANGED <<window, live, presentation, registry, closer, acks, view, orphan, pendingOpen,
                     disposing, budget>>
  PROVE  PresentedNext
<1>1. TypeOK /\ PendingOK /\ CommandsOK /\ ClosersOK /\ MineOK /\ updates[s] \in Seq(Updates)
  BY PresentedParts DEF TypeOK
<1>2. \A p \in pending : p.by = "transition" => p.session # s
  BY <1>1 DEF PendingOK, Commanding
<1>3. Onward /\ WindowsGoOn /\ (Mine(s)' => Mine(s)) /\ ClosersOK'
  BY <1>1, ClosersKept DEF Onward, WindowsGoOn, Mine
<1>4. Mine(s)' => /\ Still(s) /\ Keeps(s, updates[s])
                  /\ LastWord(updates[s], presentation'[s]) \in Shown => registry[s] # NoWindow
  <2>1. Mine(s) => Calm(s)
    BY <1>1 DEF MineOK, Led, Idle
  <2>2. QED BY <1>1, <1>2, <1>3, <2>1, StillFree DEF MineOK, Spoken
<1>5. CommandsOK' /\ MineOK'
  BY <1>1, <1>2, <1>3, <1>4, ProgressMine
<1>6. QED BY <1>3, <1>5 DEF PresentedNext

\* Nothing changes for the sessions that are still the controller's own.
LEMMA FramePresented ==
  ASSUME PresentedInv, CommandsOK', ClosersOK', Onward, WindowsGoOn,
         \A r \in Sessions : Mine(r)' => Unmoved(r)
  PROVE  PresentedNext
BY PresentedParts, MineFrames DEF PresentedNext

\* A command about one session is not about another.
LEMMA NoneSentOthers ==
  ASSUME TypeOK, NEW w \in Windows, NEW m, inbox' = [inbox EXCEPT ![w] = Append(@, m)],
         NEW r, m.session # r, NEW v \in Windows
  PROVE  NoneSent(r, v)
<1>1. inbox[w] \in Seq(Messages) /\ inbox \in [Windows -> Seq(Messages)]
  BY DEF TypeOK
<1>2. CASE v # w
  BY <1>1, <1>2 DEF NoneSent
<1>3. CASE v = w
  <2>1. inbox'[v] = Append(inbox[w], m)
    BY <1>1, <1>3
  <2>2. /\ DOMAIN inbox[w] = 1..Len(inbox[w]) /\ Len(inbox[w]) \in Nat
        /\ Append(inbox[w], m) = [i \in 1..(Len(inbox[w]) + 1) |-> IF i <= Len(inbox[w]) THEN inbox[w][i] ELSE m]
    BY <1>1, LenProperties
  <2>3. \A i \in DOMAIN inbox'[v] : (i \in DOMAIN inbox[w] /\ inbox'[v][i] = inbox[w][i]) \/ inbox'[v][i] = m
    BY <2>1, <2>2
  <2>4. QED BY <1>3, <2>3 DEF NoneSent
<1>4. QED BY <1>2, <1>3

\* A transition begins, with the owner that the registry says.
LEMMA BeginPresented ==
  ASSUME PresentedInv, NEW s \in Sessions, BeginTransition(s)
  PROVE  PresentedNext
<1>1. /\ TypeOK /\ PendingOK /\ CommandsOK /\ ClosersOK /\ MineOK /\ RegisteredHasView
      /\ transition[s] = Idle /\ updates \in [Sessions -> Seq(Updates)]
      /\ transition \in [Sessions -> Transitions] /\ registry[s] \in Owners /\ budget \in Budgets
      /\ UNCHANGED <<window, live, presentation, registry, ready, creation, closer,
                     pending, rendererVars>>
  BY PresentedParts DEF BeginTransition, TypeOK
<1>2. \A p \in pending : p.by = "transition" => p.session # s
  BY <1>1 DEF PendingOK, Commanding, Idle
<1>3. WindowsGoOn /\ UNCHANGED <<pending, inbox, acks, view, orphan, pendingOpen, disposing>>
  BY <1>1 DEF WindowsGoOn, rendererVars
<1>4. CASE UNCHANGED <<transition, updates, budget>>
  <2>1. \A r \in Sessions : Unmoved(r)
    BY <1>1, <1>3, <1>4, OthersUnmoved
  <2>2. CommandsOK'
    BY <1>1, <1>3, <1>4, CommandsStay
  <2>3. Onward /\ ClosersOK'
    BY <1>1, <1>4, ClosersKept DEF Onward
  <2>4. QED BY <1>3, <2>1, <2>2, <2>3, FramePresented
<1>5. CASE \E wanted : /\ ~NothingToDo(s, wanted)
                       /\ transition' = [transition EXCEPT ![s] =
                              [stage |-> "opening", wanted |-> wanted, owner |-> registry[s], window |-> NoWindow]]
                       /\ updates' = Queue(s, Update("opening", "transition", NoWindow))
                       /\ budget' = [budget EXCEPT !.disturbed = IF AtRest(s) THEN @ ELSE @ \cup {s}]
  <2>1. PICK wanted : /\ ~NothingToDo(s, wanted)
                      /\ transition' = [transition EXCEPT ![s] =
                             [stage |-> "opening", wanted |-> wanted, owner |-> registry[s], window |-> NoWindow]]
                      /\ updates' = Queue(s, Update("opening", "transition", NoWindow))
    BY <1>5
  <2>2. transition'[s].stage = "opening" /\ transition'[s].owner = registry[s]
        /\ \A r \in Sessions \ {s} : transition'[r] = transition[r]
    BY <1>1, <2>1
  <2>3. s \in live
    BY <2>1 DEF NothingToDo
  <2>4. updates'[s] = Append(updates[s], Update("opening", "transition", NoWindow))
        /\ \A r \in Sessions \ {s} : updates'[r] = updates[r]
    BY <1>1, <2>1, <2>3 DEF Queue
  <2>5. /\ budget'.disturbed = IF AtRest(s) THEN budget.disturbed ELSE budget.disturbed \cup {s}
        /\ budget'.givenUp = budget.givenUp
    BY <1>1, <1>5 DEF Budgets
  <2>6. Onward /\ ClosersOK' /\ (Mine(s)' => Mine(s) /\ AtRest(s))
    BY <1>1, <2>5, ClosersKept DEF Onward, Mine
  <2>7. Spoken(s)'
    <3>1. LastWord(updates'[s], presentation'[s]) = "opening"
      BY <1>1, <2>4, LastSaid, UpdateTyped DEF States
    <3>2. QED BY <3>1 DEF Spoken, Shown
  <2>8. Steady(s)'
    <3>1. registry[s] # NoWindow => window'[registry[s]] # "unborn"
      BY <1>1 DEF RegisteredHasView
    <3>2. QED BY <1>1, <2>2, <3>1 DEF Steady
  <2>9. Mine(s)' => Led(s)'
    <3>1. Mine(s)' => Untold(s) /\ AtRest(s)
      BY <1>1, <2>6 DEF MineOK, Led
    <3>2. Mine(s)' => Calm(s)'
      BY <1>3, <3>1 DEF Untold, AtRest, Calm, CalmAt, Starting, Closing
    <3>3. transition'[s] # Idle
      BY <2>2 DEF Idle
    <3>4. QED BY <3>2, <3>3 DEF Led
  <2>10. \A r \in Sessions \ {s} : Unmoved(r)
    BY <1>1, <1>3, <2>2, <2>4, OthersUnmoved
  <2>11. CommandsOK'
    BY <1>1, <1>2, <1>3, <2>2, <2>6, FreeTransition, CommandsStay DEF Onward
  <2>12. MineOK'
    BY <1>1, <1>3, <2>6, <2>7, <2>8, <2>9, <2>10, MineFrame
  <2>13. QED BY <2>6, <2>11, <2>12 DEF PresentedNext
<1>6. QED BY <1>4, <1>5 DEF BeginTransition

\* An agent closes a session.
LEMMA ClosePresented ==
  ASSUME PresentedInv, NEW s \in Sessions, CloseBegun(s)
  PROVE  PresentedNext
<1>1. /\ TypeOK /\ CommandsOK /\ ClosersOK /\ Disturb(s) /\ registry \in [Sessions -> Owners]
      /\ closer \in [Sessions -> {"idle", "view", "session"}]
      /\ UNCHANGED <<window, live, presentation, updates, ready, creation, transition,
                     requests, acks, view, orphan, pendingOpen, disposing>>
  BY PresentedParts DEF CloseBegun, TypeOK
<1>2. /\ budget'.disturbed = budget.disturbed \cup {s} /\ budget'.givenUp = budget.givenUp
      /\ ~Mine(s)' /\ Onward /\ WindowsGoOn
  BY <1>1, Disturbed DEF Onward, WindowsGoOn
<1>3. ClosersOK'
  <2>1. \A r \in Sessions : r # s => closer'[r] = closer[r]
    BY <1>1 DEF CloseBegun
  <2>2. QED BY <1>1, <1>2, <2>1 DEF ClosersOK
<1>4. CASE Usable(registry[s]) /\ Send(pending, s, registry[s], "close", "closer") /\ UNCHANGED registry
  <2>1. PICK w : w = registry[s] /\ w \in Windows
    BY <1>1, <1>4 DEF Usable, Owners
  <2>2. PICK p : p = [id |-> FreshId, window |-> w, session |-> s, action |-> "close", by |-> "closer"]
    OBVIOUS
  <2>3. /\ FreshIds # {} /\ pending' = pending \cup {p}
        /\ inbox' = [inbox EXCEPT ![w] = Append(@, [id |-> FreshId, session |-> s, action |-> "close"])]
    BY <1>4, <2>1, <2>2 DEF Send
  <2>4. p \in Commands /\ p.id = FreshId /\ p.window = w /\ p.session = s /\ p.action = "close"
        /\ p.by = "closer"
    <3>1. FreshId \in Ids
      BY <1>1, <2>3, FreshNowhere
    <3>2. QED BY <2>1, <2>2, <3>1 DEF Commands, Actions
  <2>5. CommandsOK'
    <3>1. inbox' = [inbox EXCEPT ![p.window] =
              Append(@, [id |-> p.id, session |-> p.session, action |-> p.action])]
      BY <2>3, <2>4
    <3>2. p.by = "closer" => p.session \in budget'.disturbed
      BY <1>2, <2>4
    <3>3. p.by # "transition"
      BY <2>4
    <3>4. \A q \in pending : q.by = "transition" => transition'[q.session].stage = transition[q.session].stage
      BY <1>1
    <3>5. UNCHANGED <<pendingOpen, disposing>> /\ acks' \subseteq acks
          /\ budget.disturbed \subseteq budget'.disturbed
      BY <1>1, <1>2
    <3>6. QED BY <1>1, <2>3, <2>4, <3>1, <3>2, <3>3, <3>4, <3>5, CommandsAdded
  <2>6. \A r \in Sessions \ {s} : Unmoved(r)
    <3>1. PICK m : m = [id |-> FreshId, session |-> s, action |-> "close"]
      OBVIOUS
    <3>2. inbox' = [inbox EXCEPT ![w] = Append(@, m)] /\ m.session = s
      BY <2>3, <3>1
    <3>3. \A r \in Sessions \ {s}, v \in Windows : NoneSent(r, v)
      BY <1>1, <2>1, <3>2, NoneSentOthers
    <3>4. \A r, v : WorkKept(r, v)
      BY <2>3 DEF WorkKept
    <3>5. QED BY <1>1, <1>4, <3>3, <3>4 DEF Unmoved
  <2>7. QED BY <1>2, <1>3, <2>5, <2>6, FramePresented
<1>5. CASE registry' = [registry EXCEPT ![s] = NoWindow] /\ UNCHANGED <<pending, inbox>>
  <2>1. CommandsOK'
    BY <1>1, <1>2, <1>5, CommandsStay
  <2>2. \A r \in Sessions \ {s} : Unmoved(r)
    BY <1>1, <1>5, OthersUnmoved
  <2>3. QED BY <1>2, <1>3, <2>1, <2>2, FramePresented
<1>6. QED BY <1>4, <1>5 DEF CloseBegun

\* Every step for a session.
LEMMA SessionPresented ==
  ASSUME PresentedInv, NEW s \in Sessions, SessionNext(s)
  PROVE  PresentedNext
<1>1. /\ TypeOK /\ PendingOK /\ CommandsOK /\ ClosersOK /\ MineOK /\ ViewsOK /\ updates[s] \in Seq(Updates)
      /\ transition[s] \in Transitions /\ transition[s].owner \in Owners /\ transition[s].window \in Owners
      /\ ready \subseteq Windows
  BY PresentedParts DEF TypeOK, Transitions
<1>2. CASE \E wanted \in Requested : RequestPresentation(s, wanted)
  <2>1. /\ budget'.disturbed = budget.disturbed /\ budget'.givenUp = budget.givenUp
        /\ UNCHANGED <<window, live, presentation, updates, registry, transition, closer, pending, rendererVars>>
    BY <1>1, <1>2 DEF RequestPresentation, TypeOK, Budgets
  <2>2. Onward /\ WindowsGoOn /\ ClosersOK'
        /\ UNCHANGED <<pending, inbox, acks, view, orphan, pendingOpen, disposing>>
    BY <1>1, <2>1, ClosersKept DEF Onward, WindowsGoOn, rendererVars
  <2>3. CommandsOK' /\ \A r \in Sessions : Unmoved(r)
    BY <1>1, <2>1, <2>2, CommandsStay, OthersUnmoved
  <2>4. QED BY <2>2, <2>3, FramePresented
<1>3. CASE BeginTransition(s)
  BY <1>3, BeginPresented
<1>4. CASE Apply(s)
  <2>1. UNCHANGED <<closer, budget>>
    BY <1>4 DEF Apply
  <2>2. QED BY <1>1, <1>4, <2>1, ApplyPresented, ClosersKept DEF PresentedNext
<1>5. CASE CloseBegun(s)
  BY <1>5, ClosePresented
<1>6. CASE CloseReturned(s)
  <2>1. /\ live' \subseteq live /\ closer' = [closer EXCEPT ![s] = "idle"]
        /\ UNCHANGED <<window, presentation, updates, registry, transition, pending, rendererVars, budget>>
    BY <1>6 DEF CloseReturned
  <2>2. Onward /\ WindowsGoOn
        /\ UNCHANGED <<pending, inbox, acks, view, orphan, pendingOpen, disposing>>
    BY <2>1 DEF Onward, WindowsGoOn, rendererVars
  <2>3. ClosersOK'
    BY <1>1, <2>1 DEF ClosersOK, TypeOK
  <2>4. CommandsOK' /\ \A r \in Sessions : Unmoved(r)
    BY <1>1, <2>1, <2>2, CommandsStay, OthersUnmoved
  <2>5. QED BY <2>2, <2>3, <2>4, FramePresented
<1>7. CASE \E by \in {"human", "expiry"} : SessionClosed(s, by)
  <2>1. /\ live' \subseteq live /\ Disturb(s) /\ \A r \in Sessions \ {s} : registry'[r] = registry[r]
        /\ UNCHANGED <<window, presentation, updates, transition, closer, pending, rendererVars>>
    BY <1>1, <1>7 DEF SessionClosed, TypeOK
  <2>2. /\ budget'.disturbed = budget.disturbed \cup {s} /\ budget'.givenUp = budget.givenUp /\ ~Mine(s)'
    BY <1>1, <2>1, Disturbed
  <2>3. Onward /\ WindowsGoOn /\ ClosersOK'
        /\ UNCHANGED <<pending, inbox, acks, view, orphan, pendingOpen, disposing>>
    BY <1>1, <2>1, <2>2, ClosersKept DEF Onward, WindowsGoOn, rendererVars
  <2>4. CommandsOK' /\ \A r \in Sessions \ {s} : Unmoved(r)
    BY <1>1, <2>1, <2>2, <2>3, CommandsStay, OthersUnmoved
  <2>5. QED BY <2>2, <2>3, <2>4, FramePresented
<1>8. CASE ReadyResumed(s)
  <2>1. PICK t, w : t = transition[s] /\ w = t.window
    OBVIOUS
  <2>2. t \in Transitions /\ t.stage = "readying" /\ w \in ready /\ w \in Windows
        /\ Present(s, t, updates[s], w) /\ UNCHANGED controllerRest
    BY <1>1, <1>8, <2>1 DEF ReadyResumed
  <2>3. Progressed(s, updates[s], pending)
    BY <1>1, <2>2, PresentProgresses
  <2>4. Sends(s, pending) /\ updates'[s] = updates[s] /\ Placed(s, t, w)
    BY <1>1, <2>2, PresentSends
  <2>5. Mine(s) => Known(s, t, w)
    <3>1. Usable(w)
      BY <1>1, <2>2, NoWindowAssumption DEF ViewsOK, Usable
    <3>2. Mine(s) => Steady(s)
      BY <1>1 DEF MineOK
    <3>3. QED BY <2>1, <2>2, <3>1, <3>2 DEF Known, Steady, controllerRest
  <2>6. Mine(s) => Keeps(s, updates[s])
    BY <1>1, <2>2, <2>4, <2>5, PlacedKeeps
  <2>7. QED BY <2>1, <2>2, <2>3, <2>4, <2>6, ResumedPresented DEF controllerRest
<1>9. CASE ReadyTimedOut(s)
  <2>1. transition[s].stage = "readying" /\ Fail(s, updates[s], pending) /\ UNCHANGED controllerRest
    BY <1>9 DEF ReadyTimedOut
  <2>2. Progressed(s, updates[s], pending)
    BY <1>1, <2>1, FailProgresses DEF TypeOK
  <2>3. Sends(s, pending) /\ (Mine(s) => Keeps(s, updates[s]))
    BY <1>1, <2>1, FailKeeps DEF controllerRest, MineOK, Mine, Steady
  <2>4. QED BY <2>1, <2>2, <2>3, ResumedPresented DEF controllerRest
<1>10. CASE CreationResumed(s)
  <2>1. PICK t, w : t = transition[s] /\ w = t.window
    OBVIOUS
  <2>2. t \in Transitions /\ t.stage = "creating"
        /\ UNCHANGED <<window, live, presentation, registry, closer, acks, view, orphan, pendingOpen,
                       disposing, budget>>
    BY <1>1, <1>10, <2>1 DEF CreationResumed
  <2>3. CASE Usable(w) /\ AwaitReady(s, t, updates[s], w)
    <3>1. w \in Windows
      BY <1>1, <2>1, <2>3 DEF Usable, Owners
    <3>2. Progressed(s, updates[s], pending)
      BY <1>1, <2>2, <2>3, <3>1, AwaitReadyProgresses
    <3>3. Sends(s, pending) /\ updates'[s] = updates[s] /\ Placed(s, t, w)
      BY <1>1, <2>2, <2>3, <3>1, AwaitReadySends
    <3>4. Mine(s) => Known(s, t, w)
      BY <1>1, <2>1, <2>2, <2>3 DEF Known, Steady, MineOK
    <3>5. Mine(s) => Keeps(s, updates[s])
      BY <1>1, <2>2, <3>1, <3>3, <3>4, PlacedKeeps
    <3>6. QED BY <2>1, <2>2, <3>2, <3>3, <3>5, ResumedPresented
  <2>4. CASE Fail(s, updates[s], pending)
    <3>1. Progressed(s, updates[s], pending)
      BY <1>1, <2>4, FailProgresses DEF TypeOK
    <3>2. Sends(s, pending) /\ (Mine(s) => Keeps(s, updates[s]))
      BY <1>1, <2>2, <2>4, FailKeeps DEF MineOK, Mine, Steady
    <3>3. QED BY <2>1, <2>2, <3>1, <3>2, ResumedPresented
  <2>5. QED BY <1>10, <2>1, <2>3, <2>4 DEF CreationResumed
<1>11. QED BY <1>2, <1>3, <1>4, <1>5, <1>6, <1>7, <1>8, <1>9, <1>10 DEF SessionNext

\* A view that starts, or closes, does so for the transition.
LEMMA WorksFor ==
  ASSUME PresentedInv, NEW s \in Sessions, Mine(s), transition[s] # Idle, NEW w \in Windows
  PROVE  /\ view[w][s] \in Starting => transition[s].stage = "showing" /\ transition[s].window = w
         /\ view[w][s] \in Closing => transition[s].stage = "hiding"
<1>1. PendingOK /\ CommandsOK /\ CalmAt(s, w)
  BY PresentedParts DEF MineOK, Led, Calm
<1>2. \A x, action : Works(pending, x, s, w, action) =>
          ActionFits(action, transition[s].stage) /\ transition[s].window = w
  BY <1>1 DEF Works, PendingOK, CommandsOK
<1>3. QED BY <1>1, <1>2 DEF CalmAt, ActionFits

\* A renderer goes on with its view of s.
LEMMA ViewPresentedFrame ==
  ASSUME PresentedInv, NEW w \in Windows, NEW s \in Sessions, CommandsOK', Onward,
         UNCHANGED <<window, presentation, transition, pending, inbox, closer>>,
         \A v \in Windows, r \in Sessions : v # w \/ r # s =>
             /\ view'[v][r] = view[v][r] /\ orphan'[v][r] = orphan[v][r]
             /\ pendingOpen'[v][r] = pendingOpen[v][r] /\ disposing'[v][r] = disposing[v][r],
         \A r \in Sessions \ {s} : registry'[r] = registry[r] /\ updates'[r] = updates[r],
         Mine(s)' => Steady(s)' /\ Spoken(s)',
         Mine(s)' /\ transition[s] # Idle =>
             /\ orphan'[w][s] = "none"
             /\ \/ view'[w][s] \notin Starting \cup Closing
                \/ /\ view[w][s] \in Starting /\ view'[w][s] \in Starting
                   /\ pendingOpen'[w][s] = pendingOpen[w][s]
                \/ /\ view[w][s] \in Closing /\ view'[w][s] \in Closing
                   /\ disposing[w][s] \subseteq disposing'[w][s]
  PROVE  PresentedNext
<1>1. TypeOK /\ ClosersOK /\ MineOK
  BY PresentedParts
<1>2. ClosersOK' /\ WindowsGoOn /\ \A v \in Windows : NoneSent(s, v) /\ WorkKept(s, v)
  BY <1>1, ClosersKept DEF Onward, WindowsGoOn, NoneSent, WorkKept
<1>3. \A r \in Sessions \ {s} : Unmoved(r)
  BY OthersUnmoved
<1>4. ASSUME Mine(s)', transition[s] # Idle PROVE Calm(s)'
  <2>1. Calm(s)
    BY <1>1, <1>4, MineOnward DEF MineOK, Led
  <2>2. ASSUME NEW v \in Windows PROVE CalmAt(s, v)'
    <3>1. CalmAt(s, v) /\ orphan[v][s] = "none"
      BY <2>1 DEF Calm, CalmAt
    <3>2. CASE v = w
      BY <1>2, <1>4, <3>1, <3>2, CalmKept
    <3>3. CASE v # w
      <4>1. /\ view'[v][s] = view[v][s] /\ pendingOpen'[v][s] = pendingOpen[v][s]
            /\ disposing'[v][s] = disposing[v][s] /\ orphan'[v][s] = "none"
        BY <3>1, <3>3
      <4>2. QED BY <1>2, <3>1, <4>1, CalmKept
    <3>4. QED BY <3>2, <3>3
  <2>3. QED BY <2>2 DEF Calm
<1>5. ASSUME Mine(s)', transition[s] = Idle PROVE Untold(s)'
  BY <1>1, <1>5, MineOnward DEF MineOK, Led, Untold
<1>6. MineOK'
  BY <1>1, <1>2, <1>3, <1>4, <1>5, MineFrame DEF Led
<1>7. QED BY <1>2, <1>6 DEF PresentedNext

\* Every step of a view.
LEMMA ViewPresented ==
  ASSUME PresentedInv, NEW w \in Windows, NEW s \in Sessions, ViewNext(w, s)
  PROVE  PresentedNext
<1>1. /\ TypeOK /\ CommandsOK /\ ClosersOK /\ MineOK
      /\ registry \in [Sessions -> Owners] /\ updates \in [Sessions -> Seq(Updates)]
      /\ view \in [Windows -> [Sessions -> Views]]
      /\ orphan \in [Windows -> [Sessions -> {"none", "starting", "asking", "answered"}]]
      /\ pendingOpen \in [Windows -> [Sessions -> Ids \cup {0}]]
      /\ disposing \in [Windows -> [Sessions -> SUBSET Ids]]
  BY PresentedParts DEF TypeOK
<1>2. Mine(s) => /\ Steady(s) /\ Spoken(s)
                 /\ transition[s] # Idle => orphan[w][s] = "none"
  BY <1>1 DEF MineOK, Led, Calm, CalmAt
<1>3. UNCHANGED <<window, live, presentation, transition, pending, inbox, closer>>
  BY <1>1 DEF ViewNext, ViewRequested, ViewOpened, CloseViewServed, OrphanRequested, OrphanDisposed,
              Reveal, Hide, ReportFocus, mainRest
<1>4. ASSUME UNCHANGED budget PROVE Onward /\ (Mine(s)' => Mine(s))
  BY <1>3, <1>4 DEF Onward, Mine
<1>5. w # NoWindow
  BY NoWindowAssumption
<1>6. CASE ViewRequested(w, s)
  <2>1. /\ view[w][s] = "starting" /\ UNCHANGED <<orphan, disposing, budget>>
        /\ Mine(s) /\ transition[s] # Idle => transition[s].stage = "showing" /\ transition[s].window = w
    BY <1>6, WorksFor DEF ViewRequested, Starting
  <2>2. CASE /\ registry[s] \in {NoWindow, w} /\ s \in live
             /\ registry' = [registry EXCEPT ![s] = w]
             /\ updates' = Queue(s, Update("background", "view", w))
             /\ SetView(w, s, "asking") /\ UNCHANGED <<acks, pendingOpen>>
    <3>1. /\ registry'[s] = w /\ updates'[s] = Append(updates[s], Update("background", "view", w))
          /\ \A r \in Sessions \ {s} : registry'[r] = registry[r] /\ updates'[r] = updates[r]
          /\ view'[w][s] = "asking"
          /\ \A v \in Windows, r \in Sessions : v # w \/ r # s => view'[v][r] = view[v][r]
      BY <1>1, <2>2 DEF Queue, SetView
    <3>2. CommandsOK'
      BY <1>1, <1>3, <2>1, <2>2, CommandsStay
    <3>3. Spoken(s)'
      BY <1>5, <3>1 DEF Spoken
    <3>4. Mine(s) => Steady(s)'
      BY <1>2, <1>3, <2>1, <3>1, SteadyIdle DEF Steady, Usable
    <3>5. QED BY <1>2, <1>3, <1>4, <2>1, <2>2, <3>1, <3>2, <3>3, <3>4, ViewPresentedFrame DEF Starting
  <2>3. CASE /\ registry[s] \notin {NoWindow, w} \/ s \notin live
             /\ registry' = RegistryWithout(s, w)
             /\ SetView(w, s, "failed")
             /\ Ack(w, pendingOpen[w][s], "failed")
             /\ pendingOpen' = [pendingOpen EXCEPT ![w][s] = 0]
             /\ UNCHANGED updates
    <3>1. /\ \A r \in Sessions \ {s} : registry'[r] = registry[r]
          /\ view'[w][s] = "failed"
          /\ \A v \in Windows, r \in Sessions : v # w \/ r # s =>
                view'[v][r] = view[v][r] /\ pendingOpen'[v][r] = pendingOpen[v][r]
          /\ s \in live => registry'[s] = registry[s]
      BY <1>1, <2>3 DEF RegistryWithout, SetView
    <3>2. CommandsOK'
      BY <1>1, <1>3, <2>1, <2>3, CommandsAnswered DEF Ack
    <3>3. Mine(s) => Steady(s)' /\ Spoken(s)'
      BY <1>2, <1>3, <2>3, <3>1 DEF Steady, Spoken, Usable, Mine
    <3>4. QED BY <1>2, <1>3, <1>4, <2>1, <2>3, <3>1, <3>2, <3>3, ViewPresentedFrame DEF Starting, Closing
  <2>4. QED BY <1>6, <2>2, <2>3 DEF ViewRequested
<1>7. CASE ViewOpened(w, s)
  <2>1. /\ view'[w][s] = "open" /\ UNCHANGED <<registry, updates, orphan, disposing, budget>>
        /\ pendingOpen' = [pendingOpen EXCEPT ![w][s] = 0]
        /\ acks' = acks \cup Replies(w, {pendingOpen[w][s]}, "completed")
        /\ \A v \in Windows, r \in Sessions : v # w \/ r # s =>
                view'[v][r] = view[v][r] /\ pendingOpen'[v][r] = pendingOpen[v][r]
    BY <1>1, <1>7 DEF ViewOpened, SetView, Ack, mainRest
  <2>2. CommandsOK'
    BY <1>1, <1>3, <2>1, CommandsAnswered
  <2>3. Mine(s) => Steady(s)' /\ Spoken(s)'
    BY <1>2, <1>3, <2>1 DEF Steady, Spoken, Usable
  <2>4. QED BY <1>2, <1>3, <1>4, <2>1, <2>2, <2>3, ViewPresentedFrame DEF Starting, Closing
<1>8. CASE CloseViewServed(w, s)
  <2>1. /\ view[w][s] = "closing" /\ CloseViewReceived(w, s, "closing")
        /\ UNCHANGED <<orphan, pendingOpen, budget>>
        /\ Mine(s) /\ transition[s] # Idle => transition[s].stage = "hiding"
    BY <1>8, WorksFor DEF CloseViewServed, Closing
  <2>2. /\ \A r \in Sessions \ {s} : registry'[r] = registry[r] /\ updates'[r] = updates[r]
        /\ \/ updates'[s] = updates[s] /\ (s \in live => registry'[s] = registry[s])
           \/ updates'[s] = Append(updates[s], Update("headless", "closing", w))
    BY <1>1, <2>1 DEF CloseViewReceived, RegistryWithout, Queue
  <2>3. Mine(s) => Spoken(s)'
    <3>1. CASE updates'[s] = updates[s] /\ (s \in live => registry'[s] = registry[s])
      BY <1>2, <1>3, <3>1 DEF Spoken, Mine
    <3>2. CASE updates'[s] = Append(updates[s], Update("headless", "closing", w))
      <4>1. LastWord(updates'[s], presentation'[s]) = "headless"
        BY <1>1, <3>2, LastSaid, UpdateTyped DEF States, Requested, Waiters
      <4>2. QED BY <4>1 DEF Spoken, Shown
    <3>3. QED BY <2>2, <3>1, <3>2
  <2>4. Mine(s) => Steady(s)'
    BY <1>2, <1>3, <2>1, SteadyIdle DEF Steady, Usable
  <2>5. CASE SetView(w, s, "closed") /\ UNCHANGED <<acks, disposing>>
    <3>1. /\ view'[w][s] = "closed"
          /\ \A v \in Windows, r \in Sessions : v # w \/ r # s => view'[v][r] = view[v][r]
      BY <1>1, <2>5 DEF SetView
    <3>2. CommandsOK'
      BY <1>1, <1>3, <2>1, <2>5, CommandsStay
    <3>3. QED BY <1>2, <1>3, <1>4, <2>1, <2>2, <2>3, <2>4, <2>5, <3>1, <3>2, ViewPresentedFrame DEF Closing
  <2>6. CASE AppliedForClosing(s, w)
    <3>1. /\ view'[w][s] = "none"
          /\ \A v \in Windows, r \in Sessions : v # w \/ r # s =>
                view'[v][r] = view[v][r] /\ disposing'[v][r] = disposing[v][r]
      BY <1>1, <2>1, <2>6 DEF AppliedForClosing
    <3>2. CommandsOK'
      BY <1>1, <1>3, <2>1, <2>6, CommandsAnswered DEF AppliedForClosing
    <3>3. QED BY <1>2, <1>3, <1>4, <2>1, <2>2, <2>3, <2>4, <3>1, <3>2, ViewPresentedFrame DEF Starting, Closing
  <2>7. QED BY <1>8, <2>5, <2>6 DEF CloseViewServed
<1>9. CASE OrphanRequested(w, s) \/ OrphanDisposed(w, s)
  <2>1. /\ orphan[w][s] # "none" /\ UNCHANGED <<acks, view, pendingOpen, disposing, budget>>
        /\ \A v \in Windows, r \in Sessions : v # w \/ r # s => orphan'[v][r] = orphan[v][r]
        /\ \A r \in Sessions \ {s} : registry'[r] = registry[r] /\ updates'[r] = updates[r]
    BY <1>1, <1>9 DEF OrphanRequested, OrphanDisposed, RegistryWithout, Queue, CloseViewReceived
  <2>2. CommandsOK' /\ Onward
    BY <1>1, <1>3, <1>4, <2>1, CommandsStay
  <2>3. Mine(s)' => Mine(s) /\ transition[s] = Idle
    BY <1>2, <1>4, <2>1
  <2>4. /\ \/ registry'[s] = w
           \/ updates'[s] = updates[s] /\ (s \in live => registry'[s] = registry[s])
           \/ updates'[s] = Append(updates[s], Update("headless", "nobody", w))
    BY <1>1, <1>9 DEF OrphanRequested, OrphanDisposed, RegistryWithout, Queue, CloseViewReceived
  <2>5. Mine(s) => Spoken(s)'
    <3>1. CASE registry'[s] = w
      BY <1>5, <3>1 DEF Spoken
    <3>2. CASE updates'[s] = updates[s] /\ (s \in live => registry'[s] = registry[s])
      BY <1>2, <1>3, <3>2 DEF Spoken, Mine
    <3>3. CASE updates'[s] = Append(updates[s], Update("headless", "nobody", w))
      <4>1. LastWord(updates'[s], presentation'[s]) = "headless"
        BY <1>1, <3>3, LastSaid, UpdateTyped DEF States, Requested, Waiters
      <4>2. QED BY <4>1 DEF Spoken, Shown
    <3>4. QED BY <2>4, <3>1, <3>2, <3>3
  <2>6. Mine(s)' => Steady(s)' /\ Spoken(s)'
    BY <1>3, <2>3, <2>5, SteadyIdle
  <2>7. QED BY <1>3, <2>1, <2>2, <2>3, <2>6, ViewPresentedFrame
<1>10. CASE Reveal(w, s) \/ Hide(w, s)
  <2>1. /\ UNCHANGED <<registry, acks, pendingOpen, disposing>>
        /\ \A v \in Windows, r \in Sessions : v # w \/ r # s =>
               view'[v][r] = view[v][r] /\ orphan'[v][r] = orphan[v][r]
        /\ \A r \in Sessions \ {s} : updates'[r] = updates[r]
        /\ updates'[s] \in {updates[s], Orphaned(updates[s], w)}
    BY <1>1, <1>10 DEF Reveal, Hide, mainRest, SetView, TabGone
  <2>2. Interfere(s) \/ (s \notin live /\ UNCHANGED budget)
    BY <1>10 DEF Reveal, Hide
  <2>3. Onward /\ (Mine(s)' => Mine(s) /\ transition[s] = Idle)
    <3>1. CASE Interfere(s)
      BY <1>1, <1>3, <3>1, Interfered DEF Onward, Mine
    <3>2. CASE s \notin live /\ UNCHANGED budget
      BY <1>3, <3>2 DEF Onward, Mine
    <3>3. QED BY <2>2, <3>1, <3>2
  <2>4. CommandsOK'
    BY <1>1, <1>3, <2>1, <2>3, CommandsStay DEF Onward
  <2>5. LastWord(updates'[s], presentation[s]) = LastWord(updates[s], presentation[s])
    BY <1>1, <2>1, OrphanedSaid
  <2>6. Mine(s)' => Steady(s)' /\ Spoken(s)'
    BY <1>2, <1>3, <2>1, <2>3, <2>5, SteadyIdle DEF Spoken
  <2>7. QED BY <1>3, <2>1, <2>3, <2>4, <2>6, ViewPresentedFrame
<1>11. CASE \E focused \in BOOLEAN : ReportFocus(w, s, focused)
  <2>1. /\ view[w][s] \in {"open", "closing"} /\ registry[s] = w
        /\ UNCHANGED <<registry, acks, view, orphan, pendingOpen, disposing, budget>>
        /\ \A r \in Sessions \ {s} : updates'[r] = updates[r]
    BY <1>1, <1>11 DEF ReportFocus, mainRest, Queue
  <2>2. CommandsOK'
    BY <1>1, <1>3, <2>1, CommandsStay
  <2>3. Mine(s) => Steady(s)' /\ Spoken(s)'
    BY <1>2, <1>3, <1>5, <2>1 DEF Steady, Spoken, Usable
  <2>4. QED BY <1>2, <1>3, <1>4, <2>1, <2>2, <2>3, ViewPresentedFrame DEF Starting, Closing
<1>12. QED BY <1>6, <1>7, <1>8, <1>9, <1>10, <1>11 DEF ViewNext

\* A renderer takes the first of its commands.
LEMMA TailReceived ==
  ASSUME TypeOK, NEW w \in Windows, inbox[w] # <<>>, inbox' = [inbox EXCEPT ![w] = Tail(@)]
  PROVE  /\ Head(inbox[w]) \in Messages /\ 1 \in DOMAIN inbox[w] /\ Head(inbox[w]) = inbox[w][1]
         /\ \A v \in Windows : Fewer(v)
         /\ \A s, v : v \in Windows => NoneSent(s, v)
<1>1. inbox[w] \in Seq(Messages) /\ inbox \in [Windows -> Seq(Messages)]
  BY DEF TypeOK
<1>2. /\ Len(inbox[w]) \in Nat /\ Len(inbox[w]) >= 1 /\ DOMAIN inbox[w] = 1..Len(inbox[w])
  BY <1>1, LenProperties, EmptySeq
<1>3. /\ Tail(inbox[w]) \in Seq(Messages) /\ Len(Tail(inbox[w])) = Len(inbox[w]) - 1
      /\ \A i \in 1..Len(Tail(inbox[w])) : Tail(inbox[w])[i] = inbox[w][i + 1]
      /\ Head(inbox[w]) = inbox[w][1] /\ Head(inbox[w]) \in Messages
  BY <1>1, HeadTailProperties
<1>4. DOMAIN Tail(inbox[w]) = 1..Len(Tail(inbox[w])) /\ inbox'[w] = Tail(inbox[w])
  BY <1>1, <1>3, LenProperties
<1>5. \A i \in DOMAIN inbox'[w] : i \in Int /\ i + 1 \in DOMAIN inbox[w] /\ inbox'[w][i] = inbox[w][i + 1]
  <2>1. PICK n, k : n = Len(inbox[w]) /\ k = Len(Tail(inbox[w]))
    OBVIOUS
  <2>2. n \in Nat /\ k = n - 1 /\ DOMAIN inbox'[w] = 1..k /\ DOMAIN inbox[w] = 1..n
    BY <1>2, <1>3, <1>4, <2>1
  <2>3. \A i \in 1..k : i \in Int /\ i + 1 \in 1..n
    BY <2>2
  <2>4. \A i \in 1..k : inbox'[w][i] = inbox[w][i + 1]
    BY <1>3, <1>4, <2>1
  <2>5. QED BY <2>2, <2>3, <2>4
<1>6. Fewer(w) /\ \A s : NoneSent(s, w)
  BY <1>5 DEF Fewer, NoneSent
<1>7. ASSUME NEW v \in Windows \ {w} PROVE Fewer(v) /\ \A s : NoneSent(s, v)
  <2>1. inbox'[v] = inbox[v]
    BY <1>1
  <2>2. QED BY <2>1, FewerKept DEF NoneSent
<1>8. QED BY <1>2, <1>3, <1>6, <1>7

\* The command x of s, that w received, is answered or waited with; nothing else changes.
GoesTo(w, s, x) ==
    /\ \A v \in Windows, r \in Sessions : v # w \/ r # s =>
           /\ pendingOpen'[v][r] = pendingOpen[v][r] /\ disposing'[v][r] = disposing[v][r]
           /\ view'[v][r] = view[v][r] /\ orphan'[v][r] = orphan[v][r]
    /\ \A r \in Sessions \ {s} : updates'[r] = updates[r]
    /\ \/ /\ pendingOpen'[w][s] = pendingOpen[w][s] /\ disposing'[w][s] = disposing[w][s]
          /\ \E status : acks' = acks \cup Replies(w, {x}, status)
       \/ pendingOpen'[w][s] = x /\ disposing'[w][s] = disposing[w][s] /\ acks' = acks
       \/ /\ pendingOpen'[w][s] = pendingOpen[w][s] /\ disposing'[w][s] = disposing[w][s] \cup {x}
          /\ acks' = acks

\* That is where every command goes.
LEMMA ReceivedInto ==
  ASSUME TypeOK, NEW w \in Windows, CommandReceived(w),
         NEW m \in Messages, m = Head(inbox[w]), NEW s \in Sessions, s = m.session
  PROVE  GoesTo(w, s, m.id)
<1>1. /\ view \in [Windows -> [Sessions -> Views]]
      /\ orphan \in [Windows -> [Sessions -> {"none", "starting", "asking", "answered"}]]
      /\ pendingOpen \in [Windows -> [Sessions -> Ids \cup {0}]]
      /\ disposing \in [Windows -> [Sessions -> SUBSET Ids]]
      /\ updates \in [Sessions -> Seq(Updates)]
  BY DEF TypeOK
<1>2. CASE OpenReceived(w, m)
  <2>1. UNCHANGED <<orphan, disposing, updates>>
    BY <1>2 DEF OpenReceived
  <2>2. CASE Ack(w, m.id, "failed") /\ UNCHANGED <<view, pendingOpen>>
    BY <1>1, <2>1, <2>2 DEF GoesTo, Ack
  <2>3. CASE Ack(w, m.id, "completed") /\ UNCHANGED <<view, pendingOpen>>
    BY <1>1, <2>1, <2>3 DEF GoesTo, Ack
  <2>4. CASE /\ pendingOpen' = [pendingOpen EXCEPT ![w][s] = m.id]
             /\ SetView(w, s, IF view[w][s] = "none" THEN "starting" ELSE view[w][s]) /\ UNCHANGED acks
    BY <1>1, <2>1, <2>4 DEF GoesTo, SetView
  <2>5. QED BY <1>2, <2>2, <2>3, <2>4 DEF OpenReceived
<1>3. CASE FocusReceived(w, m)
  BY <1>1, <1>3 DEF FocusReceived, GoesTo, Ack
<1>4. CASE RemoveReceived(w, m)
  <2>1. UNCHANGED pendingOpen
    BY <1>4 DEF RemoveReceived
  <2>2. CASE SetView(w, s, "none") /\ Ack(w, m.id, "completed") /\ UNCHANGED <<orphan, disposing, updates>>
    BY <1>1, <2>1, <2>2 DEF GoesTo, SetView, Ack
  <2>3. CASE TabGone(w, s) /\ Ack(w, m.id, "completed") /\ UNCHANGED disposing
    BY <1>1, <2>1, <2>3 DEF GoesTo, SetView, Ack, TabGone
  <2>4. CASE /\ SetView(w, s, "closing") /\ disposing' = [disposing EXCEPT ![w][s] = @ \cup {m.id}]
             /\ UNCHANGED <<acks, orphan, updates>>
    BY <1>1, <2>1, <2>4 DEF GoesTo, SetView
  <2>5. QED BY <1>4, <2>2, <2>3, <2>4 DEF RemoveReceived
<1>5. QED BY <1>2, <1>3, <1>4 DEF CommandReceived

\* Every command that a renderer receives.
LEMMA ReceivedPresented ==
  ASSUME PresentedInv, NEW w \in Windows, CommandReceived(w)
  PROVE  PresentedNext
<1>1. PICK m, s : m = Head(inbox[w]) /\ s = m.session
  OBVIOUS
<1>2. /\ TypeOK /\ CommandsOK /\ ClosersOK /\ MineOK
      /\ inbox[w] # <<>> /\ inbox' = [inbox EXCEPT ![w] = Tail(@)]
      /\ UNCHANGED <<window, live, presentation, registry, transition, pending, closer, budget>>
  BY PresentedParts DEF CommandReceived, mainRest
<1>3. /\ m \in Messages /\ s \in Sessions /\ m.id \in Ids /\ 1 \in DOMAIN inbox[w] /\ m = inbox[w][1]
      /\ \A v \in Windows : Fewer(v)
      /\ \A r, v : v \in Windows => NoneSent(r, v) /\ WorkKept(r, v)
  BY <1>1, <1>2, TailReceived DEF Messages, WorkKept
<1>4. /\ \A v \in Windows, r \in Sessions : v # w \/ r # s =>
                /\ pendingOpen'[v][r] = pendingOpen[v][r] /\ disposing'[v][r] = disposing[v][r]
                /\ view'[v][r] = view[v][r] /\ orphan'[v][r] = orphan[v][r]
      /\ \A r \in Sessions \ {s} : updates'[r] = updates[r]
      /\ \/ /\ pendingOpen'[w][s] = pendingOpen[w][s] /\ disposing'[w][s] = disposing[w][s]
            /\ \E status : acks' = acks \cup Replies(w, {m.id}, status)
         \/ pendingOpen'[w][s] = m.id /\ disposing'[w][s] = disposing[w][s] /\ acks' = acks
         \/ /\ pendingOpen'[w][s] = pendingOpen[w][s] /\ disposing'[w][s] = disposing[w][s] \cup {m.id}
            /\ acks' = acks
  <2>1. TypeOK /\ CommandReceived(w) /\ m \in Messages /\ m = Head(inbox[w]) /\ s \in Sessions
        /\ s = m.session
    BY <1>1, <1>2, <1>3
  <2>2. GoesTo(w, s, m.id)
    BY <2>1, ReceivedInto
  <2>3. QED BY <2>2 DEF GoesTo
<1>5. Onward /\ WindowsGoOn /\ ClosersOK' /\ (Mine(s)' => Mine(s))
  BY <1>2, ClosersKept DEF Onward, WindowsGoOn, Mine
<1>6. ASSUME NEW x, NEW v \in Windows, NEW r \in Sessions, Sole(x, v, r) PROVE Sole(x, v, r)'
  <2>1. CASE x = m.id
    <3>1. v = w /\ r = s
      BY <1>1, <1>3, <1>6, <2>1 DEF Sole
    <3>2. Sole(x, w, s) /\ Head(inbox[w]).id = x
      BY <1>1, <1>6, <2>1, <3>1
    <3>3. Sole(x, w, s)'
      BY <1>2, <1>3, <1>4, <2>1, <3>2, SoleReceived
    <3>4. QED BY <3>1, <3>3
  <2>2. CASE x # m.id
    <3>1. /\ \A u \in Windows, q \in Sessions : pendingOpen'[u][q] = x => pendingOpen[u][q] = x
          /\ \A u \in Windows, q \in Sessions : x \in disposing'[u][q] => x \in disposing[u][q]
      BY <1>4, <2>2
    <3>2. Answered(x)' => Answered(x)
      BY <1>4, <2>2 DEF Answered, Replies
    <3>3. QED BY <1>3, <1>6, <3>1, <3>2, SoleFewer
  <2>3. QED BY <2>1, <2>2
<1>7. CommandsOK'
  <2>1. \A p \in pending : p.window \in Windows /\ p.session \in Sessions
    BY <1>2 DEF TypeOK, Commands
  <2>2. \A p \in pending : Sole(p.id, p.window, p.session)'
    BY <1>2, <1>6, <2>1 DEF CommandsOK
  <2>3. QED BY <1>2, <1>5, <2>2, CommandsKept DEF Onward
<1>8. \A r \in Sessions \ {s} : Unmoved(r)
  BY <1>2, <1>3, <1>4 DEF Unmoved
<1>9. ASSUME Mine(s)' PROVE Led(s)' /\ Steady(s)' /\ Spoken(s)'
  <2>1. /\ Mine(s) /\ s \in live /\ transition[s] # Idle /\ Calm(s) /\ Steady(s) /\ Spoken(s)
        /\ CalmAt(s, w) /\ orphan[w][s] = "none"
    <3>1. Mine(s) /\ s \in live /\ Led(s) /\ Steady(s) /\ Spoken(s)
      BY <1>2, <1>3, <1>5, <1>9 DEF MineOK, Mine
    <3>2. transition[s] # Idle
      BY <1>1, <1>3, <3>1 DEF Led, Untold
    <3>3. QED BY <3>1, <3>2 DEF Led, Calm, CalmAt
  <2>2. Works(pending, m.id, s, w, m.action)
    BY <1>1, <1>3, <2>1 DEF CalmAt
  <2>3. ActionFits(m.action, transition[s].stage)
    BY <1>2, <2>2 DEF Works, CommandsOK
  <2>4. orphan'[w][s] = "none" /\ updates'[s] = updates[s] /\ CalmAt(s, w)'
    <3>1. \A i \in DOMAIN inbox'[w] : inbox'[w][i].session = s =>
              Works(pending', inbox'[w][i].id, s, w, inbox'[w][i].action)
      <4>1. pending' = pending /\ NoneSent(s, w) /\ CalmAt(s, w)
        BY <1>2, <1>3, <2>1
      <4>2. QED BY <4>1 DEF CalmAt, NoneSent
    <3>2. CASE m.action = "open" /\ OpenReceived(w, m)
      <4>1. orphan' = orphan /\ updates' = updates /\ disposing' = disposing
        BY <3>2 DEF OpenReceived
      <4>2. CASE UNCHANGED <<view, pendingOpen>>
        BY <1>2, <1>3, <2>1, <4>1, <4>2, CalmKept
      <4>3. CASE /\ ~HasController(w, s) /\ pendingOpen' = [pendingOpen EXCEPT ![w][s] = m.id]
                 /\ SetView(w, s, IF view[w][s] = "none" THEN "starting" ELSE view[w][s])
        <5>1. pendingOpen'[w][s] = m.id /\ view'[w][s] \notin Closing
          BY <1>2, <1>3, <4>3 DEF TypeOK, SetView, HasController, Closing
        <5>2. Works(pending', pendingOpen'[w][s], s, w, "open")
          BY <1>2, <2>2, <3>2, <5>1
        <5>3. QED BY <2>1, <3>1, <4>1, <5>1, <5>2 DEF CalmAt
      <4>4. QED BY <1>1, <3>2, <4>2, <4>3 DEF OpenReceived
    <3>3. CASE FocusReceived(w, m)
      <4>1. UNCHANGED <<view, orphan, pendingOpen, disposing, updates>>
        BY <3>3 DEF FocusReceived
      <4>2. QED BY <1>2, <1>3, <2>1, <4>1, CalmKept
    <3>4. CASE m.action \in {"hide", "close"} /\ RemoveReceived(w, m)
      <4>1. m.action = "hide" /\ transition[s].stage = "hiding"
        BY <2>3, <3>4 DEF ActionFits
      <4>2. view[w][s] \notin Starting
        BY <1>3, <2>1, <4>1, WorksFor
      <4>3. orphan' = orphan /\ updates' = updates /\ pendingOpen' = pendingOpen
            /\ \/ view'[w][s] = "none"
               \/ view'[w][s] = "closing" /\ disposing'[w][s] = disposing[w][s] \cup {m.id}
        BY <1>1, <1>2, <1>3, <3>4, <4>2 DEF RemoveReceived, SetView, Starting, TypeOK
      <4>4. Works(pending', m.id, s, w, "hide")
        BY <1>2, <2>2, <4>1
      <4>5. CASE view'[w][s] = "none"
        BY <2>1, <3>1, <4>3, <4>5 DEF CalmAt, Starting, Closing
      <4>6. CASE view'[w][s] = "closing" /\ disposing'[w][s] = disposing[w][s] \cup {m.id}
        BY <2>1, <3>1, <4>3, <4>4, <4>6 DEF CalmAt, Starting
      <4>7. QED BY <2>1, <4>3, <4>5, <4>6
    <3>5. QED BY <1>1, <3>2, <3>3, <3>4 DEF CommandReceived
  <2>5. ASSUME NEW v \in Windows \ {w} PROVE CalmAt(s, v)'
    <3>1. CalmAt(s, v) /\ orphan[v][s] = "none"
      BY <2>1 DEF Calm, CalmAt
    <3>2. /\ view'[v][s] = view[v][s] /\ pendingOpen'[v][s] = pendingOpen[v][s]
          /\ disposing'[v][s] = disposing[v][s] /\ orphan'[v][s] = "none"
      BY <1>3, <1>4, <3>1
    <3>3. QED BY <1>3, <3>1, <3>2, CalmKept
  <2>6. Calm(s)'
    BY <2>4, <2>5 DEF Calm
  <2>7. Steady(s)' /\ Spoken(s)'
    BY <1>2, <2>1, <2>4 DEF Steady, Spoken, Usable
  <2>8. QED BY <1>2, <2>1, <2>6, <2>7 DEF Led
<1>10. MineOK'
  BY <1>2, <1>3, <1>5, <1>8, <1>9, MineFrame
<1>11. QED BY <1>5, <1>7, <1>10 DEF PresentedNext

\* Windows load, and are lost.
LEMMA SteadyWindows ==
  ASSUME TypeOK, NEW s \in Sessions, Steady(s), transition'[s] = transition[s], registry'[s] = registry[s],
         \A v \in Windows : window[v] # "unborn" =>
             /\ window'[v] # "unborn"
             /\ window'[v] \in {"loading", "usable"} => window[v] \in {"loading", "usable"}
  PROVE  Steady(s)'
<1>1. PICK o : o = transition[s].owner
  OBVIOUS
<1>2. o \in Owners /\ (o # NoWindow => window[o] # "unborn")
  BY <1>1 DEF TypeOK, Transitions, Steady
<1>3. (Usable(o)' => Usable(o)) /\ (o # NoWindow => window'[o] # "unborn")
  BY <1>2 DEF Usable, Owners
<1>4. transition'[s].owner = o
  BY <1>1
<1>5. QED BY <1>1, <1>3, <1>4 DEF Steady

\* A window begins to load, has loaded, or becomes ready.
LEMMA LoadPresented ==
  ASSUME PresentedInv, NEW w \in Windows, WindowRequested(w) \/ LoadEnded(w) \/ RendererReady(w)
  PROVE  PresentedNext
<1>1. /\ TypeOK /\ CommandsOK /\ ClosersOK /\ MineOK /\ window \in [Windows -> WindowStates]
      /\ UNCHANGED <<live, presentation, updates, registry, transition, closer, pending,
                     inbox, acks, view, orphan, pendingOpen, disposing, budget>>
  BY PresentedParts DEF WindowRequested, LoadEnded, RendererReady, rest, rendererVars, TypeOK
<1>2. CommandsOK' /\ ClosersOK'
  BY <1>1, CommandsStay, ClosersKept
<1>3. \A v \in Windows : window[v] # "unborn" =>
          /\ window'[v] # "unborn"
          /\ window'[v] \in {"loading", "usable"} => window[v] \in {"loading", "usable"}
  BY <1>1 DEF WindowRequested, LoadEnded, RendererReady
<1>4. ASSUME NEW s \in Sessions, Mine(s)' PROVE Led(s)' /\ Steady(s)' /\ Spoken(s)'
  <2>1. Led(s) /\ Steady(s) /\ Spoken(s)
    BY <1>1, <1>4 DEF MineOK, Mine
  <2>2. Led(s)'
    BY <1>1, <2>1, CalmStays DEF Led, Untold
  <2>3. QED BY <1>1, <1>3, <2>1, <2>2, SteadyWindows DEF Spoken
<1>5. QED BY <1>2, <1>4 DEF PresentedNext, MineOK

\* What is said of a session whose renderer is lost.
LEMMA LossSaid ==
  ASSUME NEW q \in Seq(Updates), NEW s, NEW w \in Windows, NEW rejected \in BOOLEAN, NEW said, NEW state,
         said = q \o HeadlessUpdate(s, w)
                  \o (IF rejected THEN <<Update("unavailable", "transition", NoWindow)>> ELSE <<>>)
  PROVE  \/ said = q /\ registry[s] # w
         \/ LastWord(said, state) \notin Shown
<1> DEFINE u == Update("unavailable", "transition", NoWindow)
           h == Update("headless", "nobody", w)
           q1 == q \o HeadlessUpdate(s, w)
<1>1. u \in Updates /\ u.state = "unavailable" /\ h \in Updates /\ h.state = "headless"
  BY UpdateTyped DEF States, Requested, Waiters
<1>2. \/ q1 = q /\ registry[s] # w
      \/ q1 = Append(q, h)
  BY <1>1 DEF HeadlessUpdate
<1>3. q1 \in Seq(Updates)
  BY <1>1, <1>2, AppendProperties
<1>4. CASE rejected
  <2>1. said = Append(q1, u)
    BY <1>1, <1>3, <1>4, AppendIsConcat
  <2>2. q1 \in Seq(Updates) /\ u \in Updates
    BY <1>1, <1>3
  <2> HIDE DEF u, q1
  <2>3. LastWord(Append(q1, u), state) = u.state
    BY <2>2, LastSaid
  <2>4. LastWord(said, state) = "unavailable"
    BY <1>1, <2>1, <2>3
  <2>5. QED BY <2>4 DEF Shown
<1>5. CASE ~rejected
  <2>1. said = q1
    BY <1>3, <1>5, ConcatEmptySeq
  <2>2. h \in Updates
    BY <1>1
  <2> HIDE DEF h, q1
  <2>3. LastWord(Append(q, h), state) = h.state
    BY <2>2, LastSaid
  <2>4. q1 = Append(q, h) => LastWord(said, state) = "headless"
    BY <1>1, <2>1, <2>3
  <2>5. QED BY <1>2, <2>1, <2>4 DEF Shown
<1>6. QED BY <1>4, <1>5

\* A renderer is lost: its views become headless first, and then its commands fail.
LEMMA LostPresented ==
  ASSUME PresentedInv, NEW w \in Windows, NEW state \in {"crashed", "destroyed"}, Lost(w, state)
  PROVE  PresentedNext
<1>1. /\ TypeOK /\ PendingOK /\ CommandsOK /\ ClosersOK /\ MineOK
      /\ window \in [Windows -> WindowStates] /\ inbox \in [Windows -> Seq(Messages)]
      /\ view \in [Windows -> [Sessions -> Views]]
      /\ orphan \in [Windows -> [Sessions -> {"none", "starting", "asking", "answered"}]]
      /\ pendingOpen \in [Windows -> [Sessions -> Ids \cup {0}]]
      /\ disposing \in [Windows -> [Sessions -> SUBSET Ids]]
      /\ registry \in [Sessions -> Owners] /\ transition \in [Sessions -> Transitions]
      /\ updates \in [Sessions -> Seq(Updates)]
  BY PresentedParts DEF TypeOK
<1>2. /\ UNCHANGED <<live, presentation, budget>> /\ acks' \subseteq acks
      /\ window'[w] = state /\ inbox'[w] = <<>> /\ window[w] # "unborn"
      /\ \A s \in Sessions : /\ view'[w][s] = "none" /\ orphan'[w][s] = "none"
                             /\ pendingOpen'[w][s] = 0 /\ disposing'[w][s] = {}
      /\ \A v \in Windows \ {w} : /\ window'[v] = window[v] /\ inbox'[v] = inbox[v] /\ view'[v] = view[v]
                                  /\ orphan'[v] = orphan[v] /\ pendingOpen'[v] = pendingOpen[v]
                                  /\ disposing'[v] = disposing[v]
  BY <1>1 DEF Lost
<1>3. \/ RendererUnavailable(w)
      \/ UNCHANGED <<ready, registry, pending, closer, updates, transition>>
  BY DEF Lost
<1>4. /\ pending' \subseteq pending
      /\ \A p \in pending : p.window # w => p \in pending'
      /\ \A p \in pending' : p.by = "transition" => transition'[p.session] = transition[p.session]
  <2>1. CASE RendererUnavailable(w)
    <3>1. pending' = {p \in pending : p.window # w}
      BY <2>1 DEF RendererUnavailable
    <3>2. ASSUME NEW p \in pending, p.window # w, p.by = "transition"
          PROVE  transition'[p.session] = transition[p.session]
      <4>1. p.session \in Sessions /\ ~Rejected(p.session, w)
        BY <1>1, <3>2 DEF PendingOK, Rejected, TypeOK, Commands
      <4>2. QED BY <2>1, <4>1 DEF RendererUnavailable
    <3>3. QED BY <3>1, <3>2
  <2>2. CASE UNCHANGED <<ready, registry, pending, closer, updates, transition>>
    BY <2>2
  <2>3. QED BY <1>3, <2>1, <2>2
<1>5. CommandsOK'
  <2>1. \A v \in Windows : Fewer(v)
    BY <1>1, <1>2, FewerKept
  <2>2. \A v \in Windows, s \in Sessions :
             /\ pendingOpen'[v][s] \in {pendingOpen[v][s], 0}
             /\ disposing'[v][s] \subseteq disposing[v][s]
    BY <1>2
  <2>3. budget.disturbed \subseteq budget'.disturbed
    BY <1>2
  <2>4. QED BY <1>1, <1>2, <1>4, <2>1, <2>2, <2>3, CommandsFewer
<1>6. ClosersOK'
  <2>1. \A s \in ClosedBy(w) : s \in budget.disturbed
    BY <1>1 DEF ClosedBy, CommandsOK
  <2>2. \A s \in Sessions : closer'[s] # "idle" => closer[s] # "idle" \/ s \in ClosedBy(w)
    BY <1>3 DEF RendererUnavailable
  <2>3. QED BY <1>1, <1>2, <2>1, <2>2 DEF ClosersOK
<1>7. ASSUME NEW s \in Sessions, Mine(s)' PROVE Led(s)' /\ Steady(s)' /\ Spoken(s)'
  <2>1. s \in live /\ s \notin ClosedBy(w) /\ Led(s) /\ Steady(s) /\ Spoken(s)
    BY <1>1, <1>2, <1>7 DEF MineOK, Mine, ClosedBy, CommandsOK
  <2>2. Led(s)'
    <3>1. CalmAt(s, w)'
      BY <1>2, EmptySeq DEF CalmAt, Starting, Closing
    <3>2. ASSUME NEW v \in Windows \ {w}, transition[s] # Idle PROVE CalmAt(s, v)'
      <4>1. CalmAt(s, v)
        BY <2>1, <3>2 DEF Led, Calm
      <4>2. /\ view'[v][s] = view[v][s] /\ pendingOpen'[v][s] = pendingOpen[v][s]
            /\ disposing'[v][s] = disposing[v][s] /\ orphan'[v][s] = "none"
        BY <1>2, <4>1 DEF CalmAt
      <4>3. WorkKept(s, v) /\ NoneSent(s, v)
        BY <1>2, <1>4 DEF WorkKept, NoneSent
      <4>4. QED BY <4>1, <4>2, <4>3, CalmKept
    <3>3. Untold(s) => Untold(s)'
      BY <1>2, EmptySeq DEF Untold
    <3>4. transition[s] = Idle => transition'[s] = Idle
      <4>1. transition[s] = Idle => ~Rejected(s, w)
        BY DEF Rejected, Idle
      <4>2. QED BY <1>3, <4>1 DEF RendererUnavailable
    <3>5. transition[s] # Idle => transition'[s] # Idle
      <4>1. transition'[s] = transition[s] \/ transition'[s] = [transition[s] EXCEPT !.stage = "settling"]
        BY <1>3, <2>1 DEF RendererUnavailable
      <4>2. [transition[s] EXCEPT !.stage = "settling"].stage = "settling"
        BY <1>1 DEF Transitions
      <4>3. QED BY <4>1, <4>2 DEF Idle
    <3>6. QED BY <2>1, <3>1, <3>2, <3>3, <3>4, <3>5 DEF Led, Calm
  <2>3. \A v \in Windows : window[v] # "unborn" =>
             /\ window'[v] # "unborn"
             /\ window'[v] \in {"loading", "usable"} => window[v] \in {"loading", "usable"} /\ v # w
    BY <1>2
  <2>4. CASE UNCHANGED <<ready, registry, pending, closer, updates, transition>>
    <3>1. Steady(s)'
      BY <1>1, <2>1, <2>3, <2>4, SteadyWindows
    <3>2. Spoken(s)'
      BY <1>2, <2>1, <2>4 DEF Spoken
    <3>3. QED BY <2>2, <3>1, <3>2
  <2>5. CASE RendererUnavailable(w)
    <3>1. registry'[s] = IF registry[s] = w THEN NoWindow ELSE registry[s]
      BY <2>1, <2>5 DEF RendererUnavailable, LostByRegistry
    <3>2. updates'[s] = updates[s] \o HeadlessUpdate(s, w)
               \o (IF Rejected(s, w) THEN <<Update("unavailable", "transition", NoWindow)>> ELSE <<>>)
      BY <2>1, <2>5 DEF RendererUnavailable
    <3>3. Spoken(s)'
      <4>1. Rejected(s, w) \in BOOLEAN
        BY DEF Rejected
      <4>2. \/ updates'[s] = updates[s] /\ registry[s] # w
            \/ LastWord(updates'[s], presentation'[s]) \notin Shown
        BY <1>1, <3>2, <4>1, LossSaid
      <4>3. QED BY <1>2, <2>1, <3>1, <4>2 DEF Spoken
    <3>4. PICK t, o : t = transition[s] /\ o = t.owner
      OBVIOUS
    <3>5. /\ t \in Transitions /\ o \in Owners /\ (o # NoWindow => window'[o] # "unborn")
          /\ Usable(o)' => Usable(o) /\ o # w
      <4>1. t \in Transitions /\ o \in Owners /\ (o # NoWindow => window[o] # "unborn")
        BY <1>1, <2>1, <3>4 DEF Transitions, Steady
      <4>2. QED BY <2>3, <4>1 DEF Usable, Owners
    <3>6. CASE Rejected(s, w)
      <4>1. transition'[s] = [t EXCEPT !.stage = "settling"]
        BY <2>1, <2>5, <3>4, <3>6 DEF RendererUnavailable
      <4>2. transition'[s].stage = "settling" /\ transition'[s].owner = o
        BY <3>4, <3>5, <4>1 DEF Transitions
      <4>3. Steady(s)'
        BY <3>5, <4>2 DEF Steady
      <4>4. QED BY <2>2, <3>3, <4>3
    <3>7. CASE ~Rejected(s, w)
      <4>1. transition'[s] = t
        BY <2>5, <3>4, <3>7 DEF RendererUnavailable
      <4>2. t.stage \in {"opening", "readying", "showing"} /\ Usable(o)' => registry'[s] = o
        BY <2>1, <3>1, <3>4, <3>5 DEF Steady
      <4>3. t.stage = "focusing" => registry'[s] = t.window /\ t.window # NoWindow
        BY <2>1, <3>1, <3>4, <3>7 DEF Steady, Rejected
      <4>4. Steady(s)'
        BY <2>1, <3>4, <3>5, <4>1, <4>2, <4>3 DEF Steady
      <4>5. QED BY <2>2, <3>3, <4>4
    <3>8. QED BY <3>6, <3>7
  <2>6. QED BY <1>3, <2>4, <2>5
<1>8. QED BY <1>5, <1>6, <1>7 DEF PresentedNext, MineOK

\* A command ends: it was answered, or was given up.
LEMMA SettledPresented ==
  ASSUME PresentedInv, NEW p \in pending, NEW completed \in BOOLEAN, Settled(p, completed),
         UNCHANGED <<window, live, presentation, view, orphan, pendingOpen, disposing>>,
         acks' \subseteq acks, budget'.disturbed = budget.disturbed, budget.givenUp \subseteq budget'.givenUp,
         Answered(p.id) \/ p.session \in budget'.givenUp
  PROVE  PresentedNext
<1>1. PICK s, others : s = p.session /\ others = pending \ {p}
  OBVIOUS
<1>2. /\ TypeOK /\ PendingOK /\ CommandsOK /\ ClosersOK /\ MineOK
      /\ s \in Sessions /\ updates[s] \in Seq(Updates) /\ others \in SUBSET pending
      /\ others \in SUBSET Commands /\ registry \in [Sessions -> Owners]
      /\ closer \in [Sessions -> {"idle", "view", "session"}]
  BY <1>1, PresentedParts DEF TypeOK, Commands
<1>3. Onward /\ WindowsGoOn /\ (Mine(s)' => Mine(s))
  BY DEF Onward, WindowsGoOn, Mine
<1>4. CASE p.by = "transition"
  <2>1. /\ UNCHANGED <<closer, registry>>
        /\ Acknowledged(s, others) \/ Fail(s, updates[s], others)
    BY <1>1, <1>4 DEF Settled
  <2>2. Progressed(s, updates[s], others)
    BY <1>2, <2>1, AcknowledgedProgresses, FailProgresses
  <2>3. Sends(s, others)
    BY <1>2, <2>1, AcknowledgedKeeps, FailKeeps
  <2>4. /\ \A q \in pending \ others : q.by = "transition" /\ q.session = s
        /\ \A q \in others : q.by = "transition" => q.session # s
    BY <1>1, <1>2, <1>4 DEF PendingOK
  <2>5. ASSUME Mine(s)'
        PROVE  /\ Still(s) /\ Keeps(s, updates[s])
               /\ LastWord(updates[s], presentation'[s]) \in Shown => registry[s] # NoWindow
    <3>1. s \in live /\ Calm(s) /\ Steady(s) /\ Spoken(s)
      <4>1. s \in live /\ Led(s) /\ Steady(s) /\ Spoken(s)
        BY <1>2, <1>3, <2>5 DEF MineOK, Mine
      <4>2. transition[s] # Idle
        BY <1>1, <1>2, <1>4 DEF CommandsOK, ActionFits, Idle
      <4>3. QED BY <4>1, <4>2 DEF Led
    <3>2. Answered(p.id)
      BY <1>1, <2>5 DEF Mine
    <3>3. Still(s)
      BY <1>1, <1>2, <1>4, <3>1, <3>2, StillAnswered
    <3>4. CASE Acknowledged(s, others)
      BY <1>2, <2>1, <3>1, <3>3, <3>4, AcknowledgedKeeps DEF Spoken
    <3>5. CASE Fail(s, updates[s], others)
      BY <1>2, <2>1, <3>1, <3>3, <3>5, FailKeeps DEF Spoken, Steady
    <3>6. QED BY <2>1, <3>4, <3>5
  <2>6. UNCHANGED <<registry, view, orphan, pendingOpen, disposing>>
        /\ \A r \in Sessions \ {s} : presentation'[r] = presentation[r]
    BY <2>1
  <2>7. CommandsOK' /\ MineOK'
    BY <1>2, <1>3, <2>2, <2>3, <2>4, <2>5, <2>6, ProgressMine
  <2>8. QED BY <1>2, <1>3, <2>1, <2>7, ClosersKept DEF PresentedNext, Onward
<1>5. CASE p.by = "closer"
  <2>1. /\ pending' = others /\ UNCHANGED <<inbox, transition, updates>>
        /\ \A r \in Sessions \ {s} : closer'[r] = closer[r] /\ registry'[r] = registry[r]
    BY <1>1, <1>2, <1>5 DEF Settled, Nothing, CloseViewGivenUp
  <2>2. s \in budget.disturbed /\ ~Mine(s)'
    BY <1>1, <1>2, <1>5 DEF CommandsOK, Mine
  <2>3. ClosersOK'
    BY <1>2, <2>1, <2>2 DEF ClosersOK
  <2>4. CommandsOK'
    <3>1. \A w \in Windows : Fewer(w)
      BY <1>2, <2>1, FewerKept
    <3>2. QED BY <1>2, <2>1, <3>1, CommandsFewer
  <2>5. \A r \in Sessions \ {s} : Unmoved(r)
    <3>1. \A r \in Sessions \ {s}, w \in Windows : WorkKept(r, w) /\ NoneSent(r, w)
      BY <1>1, <2>1 DEF WorkKept, NoneSent
    <3>2. QED BY <2>1, <3>1 DEF Unmoved
  <2>6. QED BY <1>3, <2>2, <2>3, <2>4, <2>5, FramePresented
<1>6. QED BY <1>4, <1>5 DEF Settled

\* Every step keeps the invariant.
LEMMA PresentedStep ==
  ASSUME PresentedInv, [Next]_vars
  PROVE  PresentedInv'
<1>1. TypeOK /\ CommandsOK /\ ClosersOK /\ MineOK /\ OpeningInv' /\ ViewInv'
  BY PresentedParts, OpeningStep, ViewStep DEF PresentedInv
<1>2. ASSUME NEW s \in Sessions, SessionNext(s) PROVE PresentedNext
  BY <1>2, SessionPresented
<1>3. ASSUME NEW w \in Windows, NEW s \in Sessions, ViewNext(w, s) PROVE PresentedNext
  BY <1>3, ViewPresented
<1>4. ASSUME NEW w \in Windows, WindowNext(w) PROVE PresentedNext
  BY <1>4, ReceivedPresented, LoadPresented, LostPresented DEF WindowNext
<1>5. ASSUME UNCHANGED <<window, live, presentation, updates, registry, transition, closer, pending,
                         inbox, view, orphan, pendingOpen, disposing, budget>>,
             acks' \subseteq acks
      PROVE  PresentedNext
  <2>1. Onward /\ WindowsGoOn /\ ClosersOK'
    BY <1>1, <1>5, ClosersKept DEF Onward, WindowsGoOn
  <2>2. CommandsOK'
    <3>1. \A w \in Windows : Fewer(w)
      BY <1>1, <1>5, FewerKept
    <3>2. QED BY <1>1, <1>5, <3>1, CommandsFewer
  <2>3. \A r \in Sessions : Unmoved(r)
    BY <1>5, OthersUnmoved
  <2>4. QED BY <2>1, <2>2, <2>3, FramePresented
<1>6. ASSUME NEW m \in acks, Acknowledge(m) PROVE PresentedNext
  <2>1. /\ acks' \subseteq acks
        /\ UNCHANGED <<window, live, presentation, view, orphan, pendingOpen, disposing, budget>>
    BY <1>6 DEF Acknowledge
  <2>2. CASE \E p \in pending : p.id = m.id /\ Settled(p, m.status = "completed")
    <3>1. PICK p \in pending : p.id = m.id /\ Settled(p, m.status = "completed")
      BY <2>2
    <3>2. Answered(p.id)
      BY <3>1 DEF Answered
    <3>3. PICK completed \in BOOLEAN : Settled(p, completed)
      BY <3>1
    <3>4. QED BY <2>1, <3>2, <3>3, SettledPresented
  <2>3. CASE UNCHANGED <<transition, updates, pending, inbox, closer, registry>>
    BY <1>5, <2>1, <2>3
  <2>4. QED BY <1>6, <2>2, <2>3 DEF Acknowledge
<1>7. ASSUME NEW p \in pending, CommandFailed(p) PROVE PresentedNext
  <2>1. /\ Settled(p, FALSE) /\ acks' \subseteq acks
        /\ UNCHANGED <<window, live, presentation, view, orphan, pendingOpen, disposing>>
    BY <1>7 DEF CommandFailed
  <2>2. /\ budget'.disturbed = budget.disturbed /\ budget.givenUp \subseteq budget'.givenUp
        /\ p.session \in budget'.givenUp
    BY <1>1, <1>7 DEF CommandFailed, TypeOK, Budgets
  <2>3. QED BY <2>1, <2>2, SettledPresented
<1>8. CASE UNCHANGED vars
  <2>1. PresentedNext
    BY <1>5, <1>8 DEF vars, mainVars, rendererVars
  <2>2. QED BY <1>1, <2>1 DEF PresentedInv, PresentedNext
<1>9. PresentedNext => PresentedInv'
  BY <1>1 DEF PresentedInv, PresentedNext
<1>10. QED BY <1>2, <1>3, <1>4, <1>6, <1>7, <1>8, <1>9 DEF Next

\* When all is quiet, a session that is said to be presented has an open view that is
\* registered: with views that the controller or the human opens, hides and opens again, the
\* focus that they report, and renderers that crash or fail to load; unless a command to one
\* of them was given up, or the human came between the steps of a transition, or an agent
\* closed the session in vain.  The last that is said of a session is "background" or
\* "foreground" only while its view is registered (presentation-controller.ts,
\* setPresentation; ipc.ts, setHeadlessIfPresent; terminal-command-handler.ts,
\* session.reportViewFocus).
THEOREM PresentedSafe == Spec => []PresentedHasView
<1>1. Init => PresentedInv
  <2> SUFFICES ASSUME Init PROVE PresentedInv
    OBVIOUS
  <2>1. DOMAIN <<>> = {}
    BY EmptySeq
  <2>2. OpeningInv
    <3>1. \A q, stage : q = <<>> => QueueOK(q, stage)
      BY EmptySeq DEF QueueOK
    <3>2. QED BY <3>1, TypeInit DEF Init, OpeningInv, QueuesOK, PendingOK, OpeningOK
  <2>3. ViewInv
    <3>1. \A w, x : QueueFits(<<>>, w, x)
      BY <2>1 DEF QueueFits
    <3>2. QED BY <2>1, <3>1, TypeInit DEF Init, ViewInv, ViewsOK, QueuesFit, RegisteredHasView
  <2>4. CommandsOK /\ ClosersOK
    BY DEF Init, CommandsOK, ClosersOK
  <2>5. ASSUME NEW s \in Sessions PROVE Led(s) /\ Steady(s) /\ Spoken(s)
    <3>1. Led(s)
      BY <2>1 DEF Init, Led, Untold
    <3>2. Steady(s)
      BY DEF Init, Steady, Idle, Usable
    <3>3. Spoken(s)
      BY DEF Init, Spoken, LastWord, Shown
    <3>4. QED BY <3>1, <3>2, <3>3
  <2>6. QED BY <2>2, <2>3, <2>4, <2>5 DEF PresentedInv, MineOK
<1>2. PresentedInv /\ [Next]_vars => PresentedInv'
  BY PresentedStep
<1>3. PresentedInv => PresentedHasView
  <2> SUFFICES ASSUME PresentedInv PROVE PresentedHasView
    OBVIOUS
  <2>1. TypeOK /\ MineOK /\ RegisteredHasView
    BY PresentedParts
  <2>2. ASSUME NEW s \in live \ budget.givenUp, Quiet(s), Presented(s)
        PROVE  registry[s] # NoWindow /\ view[registry[s]][s] = "open"
    <3>1. s \in Sessions /\ Mine(s)
      BY <2>1, <2>2 DEF TypeOK, Mine, Quiet
    <3>2. Spoken(s)
      BY <2>1, <3>1 DEF MineOK
    <3>3. registry[s] # NoWindow
      BY <2>2, <3>2 DEF Spoken, LastWord, Quiet, Presented, Shown
    <3>4. registry[s] \in Windows
      BY <2>1, <3>1, <3>3 DEF TypeOK, Owners
    <3>5. QED BY <2>1, <2>2, <3>1, <3>3, <3>4 DEF RegisteredHasView, Quiet, AtRest
  <2>3. QED BY <2>2 DEF PresentedHasView
<1>4. QED BY <1>1, <1>2, <1>3, PTL DEF Spec
===============================================================================
