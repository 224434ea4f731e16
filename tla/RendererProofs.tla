--------------------------- MODULE RendererProofs ---------------------------
(***************************************************************************)
(* Safety of what a window shows: of its tabs, of its list of sessions, of *)
(* the output of its terminal, and of the permission prompts, for any      *)
(* number of tabs, sessions, chunks and prompts.                           *)
(***************************************************************************)
EXTENDS MCRenderer, SequenceLemmas

-----------------------------------------------------------------------------
(* The tabs. *)

\* A tab that is open has been started; the session of a tab whose view is open has been
\* there; and a tab that is hidden belongs to a session that the human has hidden.
TabsKept ==
    /\ \A t \in ToSet(tabs) : view[t] # "none"
    /\ \A t \in Ids : view[t] = "open" => session[attached[t]] # "none"
    /\ \A d \in disposals : view[d.tab] # "none" /\ (d.by = "hide" => attached[d.tab] \in hidden)

TabsActual ==
    \A t \in ToSet(tabs) :
        view[t] = "open" /\ session[attached[t]] \in Tabs!Live => status[t] = session[attached[t]]

TabsInv == Tabs!TypeOK /\ TabsKept /\ TabsActual /\ NoneAbandoned

\* The helpers of the tabs are those of the community modules.
LEMMA SameHelpers ==
  ASSUME NEW seq, NEW e
  PROVE  /\ Tabs!ToSet(seq) = ToSet(seq)
         /\ Tabs!RemoveFirst(seq, e) = RemoveFirst(seq, e)
<1>1. Tabs!ToSet(seq) = ToSet(seq)
  BY DEF Tabs!ToSet, ToSet
<1>2. \A I : Tabs!Min(I) = Min(I)
  BY DEF Tabs!Min, Min
<1>3. \A i : Tabs!RemoveAt(seq, i) = RemoveAt(seq, i)
  BY DEF Tabs!RemoveAt, RemoveAt
<1>4. Tabs!RemoveFirst(seq, e) = RemoveFirst(seq, e)
  BY <1>2, <1>3 DEF Tabs!RemoveFirst, RemoveFirst, Tabs!SelectInSeq, SelectInSeq
<1>5. QED BY <1>1, <1>4

\* The first tab of a session, if it has one.
LEMMA TabOfNamed ==
  ASSUME TabsInv, NEW s \in Ids, Tabs!TabOf(s) # None
  PROVE  Tabs!TabOf(s) \in Tabs!Named(s)
<1> DEFINE I == {i \in 1..Len(tabs) : tabs[i] \in Tabs!Named(s)}
<1>1. tabs \in Seq(Ids) /\ I \in SUBSET Nat
  BY LenProperties DEF TabsInv, Tabs!TypeOK
<1>2. Tabs!TabOf(s) = LET i == IF I # {} THEN Min(I) ELSE 0 IN IF i = 0 THEN None ELSE tabs[i]
  BY DEF Tabs!TabOf, Tabs!SelectInSeq, Tabs!Min, Min
<1>3. I # {}
  BY <1>2
<1>4. Min(I) \in I
  BY <1>1, <1>3, MinIsLeast
<1>5. QED BY <1>2, <1>3, <1>4

\* A tab of a session.
LEMMA NamedTab ==
  ASSUME TabsInv, NEW s \in Ids, NEW t \in Tabs!Named(s)
  PROVE  t \in Ids /\ t \in ToSet(tabs) /\ attached[t] = s /\ view[t] # "none"
<1>1. PICK i \in DOMAIN tabs : t = tabs[i]
  BY DEF Tabs!Named, Tabs!ToSet
<1>2. tabs \in Seq(Ids)
  BY DEF TabsInv, Tabs!TypeOK
<1>3. t \in Ids
  BY <1>1, <1>2, ElementOfSeq, LenProperties
<1>4. QED BY <1>1, <1>3 DEF TabsInv, TabsKept, Tabs!Named, ToSet

LEMMA OpenTab ==
  ASSUME TabsInv, NEW t \in ToSet(tabs)
  PROVE  t \in Ids /\ view[t] # "none"
<1>1. PICK i \in DOMAIN tabs : t = tabs[i]
  BY DEF ToSet
<1>2. tabs \in Seq(Ids)
  BY DEF TabsInv, Tabs!TypeOK
<1>3. QED BY <1>1, <1>2, ElementOfSeq, LenProperties DEF TabsInv, TabsKept

\* A tab that closes: the others stay, and a view that was open is gone.
LEMMA ClosedTab ==
  ASSUME TabsInv, NEW t \in Ids, Tabs!CloseTerminalTab(t)
  PROVE  /\ tabs' \in Seq(Ids) /\ ToSet(tabs') \subseteq ToSet(tabs)
         /\ view' = [view EXCEPT ![t] = IF view[t] = "open" THEN "gone" ELSE view[t]]
         /\ view' \in [Ids -> {"none", "starting", "open", "gone"}]
<1>1. tabs \in Seq(Ids) /\ view \in [Ids -> {"none", "starting", "open", "gone"}]
  BY DEF TabsInv, Tabs!TypeOK
<1>2. tabs' \in Seq(Ids) /\ ToSet(tabs') \subseteq ToSet(tabs)
  BY <1>1, RemovedFirst, SameHelpers DEF Tabs!CloseTerminalTab
<1>3. view' = [view EXCEPT ![t] = IF view[t] = "open" THEN "gone" ELSE view[t]]
  BY DEF Tabs!CloseTerminalTab
<1>4. QED BY <1>1, <1>2, <1>3

LEMMA TabsInit == Tabs!Init => TabsInv
<1> SUFFICES ASSUME Tabs!Init PROVE TabsInv
  OBVIOUS
<1> PICK t \in Ids :
      /\ tabs = <<t>> /\ activeTab = t
      /\ view = [i \in Ids |-> IF i = t THEN "starting" ELSE "none"]
  BY DEF Tabs!Init
<1>1. /\ status = [i \in Ids |-> "starting"] /\ attached = [i \in Ids |-> i]
      /\ unread = {} /\ session = [i \in Ids |-> "none"]
      /\ disposals = {} /\ hidden = {} /\ refused = {} /\ pressed = {} /\ appWindow = "open"
  BY DEF Tabs!Init
<1>2. tabs \in Seq(Ids) /\ ToSet(tabs) = {t}
  BY DEF ToSet
<1>3. Tabs!TypeOK
  BY <1>1, <1>2 DEF Tabs!TypeOK, Tabs!Live
<1>4. TabsKept /\ TabsActual /\ NoneAbandoned
  BY <1>1, <1>2 DEF TabsKept, TabsActual, NoneAbandoned, Tabs!NoneAbandoned
<1>5. QED BY <1>3, <1>4 DEF TabsInv

\* A new tab.
LEMMA AddStep ==
  ASSUME TabsInv, NEW t \in Ids, NEW s \in Ids, NEW activate \in BOOLEAN,
         NEW initial \in {"starting"} \cup Tabs!Live,
         Tabs!AddTab(t, s, initial, activate)
  PROVE  TabsInv'
<1> USE DEF TabsInv
<1>1. /\ view[t] = "none" /\ session[t] = "none"
      /\ tabs' = Append(tabs, t)
      /\ activeTab' = IF activate THEN t ELSE activeTab
      /\ status' = [status EXCEPT ![t] = initial]
      /\ attached' = [attached EXCEPT ![t] = s]
      /\ view' = [view EXCEPT ![t] = "starting"]
      /\ UNCHANGED <<unread, session, disposals, hidden, refused, pressed, appWindow>>
  BY DEF Tabs!AddTab
<1>2. tabs' \in Seq(Ids) /\ ToSet(tabs') \subseteq ToSet(tabs) \cup {t}
  BY <1>1, AppendProperties, LenProperties DEF Tabs!TypeOK, ToSet
<1>3. Tabs!TypeOK'
  BY <1>1, <1>2 DEF Tabs!TypeOK, Tabs!Live
<1>4. t \notin ToSet(tabs)
  BY <1>1 DEF TabsKept
<1>5. TabsKept'
  BY <1>1, <1>2, <1>4 DEF TabsKept, Tabs!TypeOK
<1>6. TabsActual'
  BY <1>1, <1>2, <1>4, OpenTab DEF TabsActual, Tabs!TypeOK
<1>7. NoneAbandoned'
  BY <1>1 DEF NoneAbandoned, Tabs!NoneAbandoned, Tabs!TypeOK
<1>8. QED BY <1>3, <1>5, <1>6, <1>7

\* A session that is there gets a tab.
LEMMA AttachStep ==
  ASSUME TabsInv, NEW s \in Ids, NEW activate \in BOOLEAN,
         session[s] \in Tabs!Live, Tabs!Attach(s, activate)
  PROVE  TabsInv'
<1> USE DEF TabsInv
<1>1. CASE Tabs!TabOf(s) = None
  <2>1. PICK t \in Ids : Tabs!AddTab(t, s, session[s], activate)
    BY <1>1 DEF Tabs!Attach
  <2>2. QED BY <2>1, AddStep
<1>2. CASE Tabs!TabOf(s) # None
  <2> DEFINE t == Tabs!TabOf(s)
  <2>1. t \in Ids /\ t \in ToSet(tabs) /\ attached[t] = s
    BY <1>2, TabOfNamed, NamedTab
  <2>2. Tabs!UpdateTab(t, activate)
    BY <1>2 DEF Tabs!Attach
  <2> HIDE DEF t
  <2>3. /\ status' = [status EXCEPT ![t] = session[attached[t]]]
        /\ unread' = unread \ {t}
        /\ activeTab' = IF activate THEN t ELSE activeTab
        /\ UNCHANGED <<tabs, attached, view, session, disposals, hidden, refused, pressed, appWindow>>
    BY <2>2 DEF Tabs!UpdateTab
  <2>4. Tabs!TypeOK'
    BY <2>1, <2>3 DEF Tabs!TypeOK
  <2>5. TabsKept' /\ NoneAbandoned'
    BY <2>3 DEF TabsKept, NoneAbandoned, Tabs!NoneAbandoned
  <2>6. TabsActual'
    BY <2>1, <2>3, OpenTab DEF TabsActual, Tabs!TypeOK
  <2>7. QED BY <2>4, <2>5, <2>6
<1>3. QED BY <1>1, <1>2

\* The first tab becomes active, bells fall silent: nothing else is touched.
LEMMA SelectedStep ==
  ASSUME TabsInv, NEW t \in Ids, Tabs!Select(t),
         UNCHANGED <<tabs, status, attached, view, session, disposals, hidden, refused,
                     pressed, appWindow>>
  PROVE  TabsInv'
<1>1. activeTab' = t /\ unread' = unread \ {t}
  BY DEF Tabs!Select
<1>2. Tabs!TypeOK'
  BY <1>1 DEF TabsInv, Tabs!TypeOK
<1>3. QED BY <1>2 DEF TabsInv, TabsKept, TabsActual, NoneAbandoned, Tabs!NoneAbandoned

LEMMA OpenedStep ==
  ASSUME TabsInv, NEW s \in Ids,
         Tabs!Reveal(s) \/ Tabs!OpenPresentation(s) \/ Tabs!NewTab(s) \/ Tabs!SelectTab(s)
  PROVE  TabsInv'
<1>1. CASE Tabs!Reveal(s)
  BY <1>1, AttachStep DEF Tabs!Reveal
<1>2. CASE Tabs!NewTab(s)
  BY <1>2, AddStep DEF Tabs!NewTab
<1>3. CASE Tabs!SelectTab(s)
  BY <1>3, SelectedStep DEF Tabs!SelectTab
<1>4. CASE Tabs!OpenPresentation(s)
  <2>1. CASE Tabs!TabOf(s) # None /\ view[Tabs!TabOf(s)] = "open"
    <3> DEFINE others == Tabs!RemoveFirst(tabs, Tabs!TabOf(s))
    <3>1. others \in Seq(Ids)
      BY RemovedFirst, SameHelpers DEF TabsInv, Tabs!TypeOK
    <3>2. others # <<>> /\ Tabs!Select(Head(others))
      BY <1>4, <2>1 DEF Tabs!OpenPresentation
    <3>3. UNCHANGED <<tabs, status, attached, view, session, disposals, hidden, refused,
                      pressed, appWindow>>
      BY <1>4, <2>1 DEF Tabs!OpenPresentation
    <3> HIDE DEF others
    <3>4. Head(others) \in Ids
      BY <3>1, <3>2, HeadTailProperties
    <3>5. QED BY <3>2, <3>3, <3>4, SelectedStep
  <2>2. CASE ~(Tabs!TabOf(s) # None /\ view[Tabs!TabOf(s)] = "open")
    BY <1>4, <2>2, AttachStep DEF Tabs!OpenPresentation
  <2>3. QED BY <2>1, <2>2
<1>5. QED BY <1>1, <1>2, <1>3, <1>4

\* A session begins to run.
LEMMA BegunStep ==
  ASSUME TabsInv, NEW s \in Ids, Tabs!CreatedElsewhere(s) \/ Tabs!SessionCreated(s)
  PROVE  TabsInv'
<1> USE DEF TabsInv
<1>1. /\ session[s] = "none" /\ view[s] \in {"none", "starting"}
      /\ session' = [session EXCEPT ![s] = "running"]
      /\ UNCHANGED <<tabs, activeTab, status, attached, unread, view, disposals, hidden,
                     refused, pressed, appWindow>>
  BY DEF Tabs!CreatedElsewhere, Tabs!SessionCreated
<1>2. Tabs!TypeOK'
  BY <1>1 DEF Tabs!TypeOK, Tabs!Live
<1>3. TabsKept'
  BY <1>1 DEF TabsKept, Tabs!TypeOK
<1>4. TabsActual'
  <2> SUFFICES ASSUME NEW t \in ToSet(tabs), view[t] = "open", session'[attached[t]] \in Tabs!Live
               PROVE  status[t] = session'[attached[t]]
    BY <1>1 DEF TabsActual
  <2>1. t \in Ids /\ attached[t] \in Ids
    BY OpenTab DEF Tabs!TypeOK
  <2>2. attached[t] # s
    BY <1>1, <2>1 DEF TabsKept
  <2>3. QED BY <1>1, <2>1, <2>2 DEF TabsActual, Tabs!TypeOK
<1>5. NoneAbandoned'
  BY <1>1 DEF NoneAbandoned, Tabs!NoneAbandoned, Tabs!TypeOK
<1>6. QED BY <1>2, <1>3, <1>4, <1>5

\* A view is there, or has failed.
LEMMA ViewStep ==
  ASSUME TabsInv, NEW t \in Ids, Tabs!ViewReady(t) \/ Tabs!ViewFailed(t)
  PROVE  TabsInv'
<1> USE DEF TabsInv
<1>0. Tabs!IsOpen(t) <=> t \in ToSet(tabs)
  BY SameHelpers DEF Tabs!IsOpen
<1>1. CASE Tabs!ViewReady(t)
  <2>1. /\ view[t] = "starting" /\ session[attached[t]] \in Tabs!Live
        /\ view' = [view EXCEPT ![t] = IF t \in ToSet(tabs) \/ attached[t] = t
                                       THEN "open" ELSE "gone"]
        /\ status' = IF t \in ToSet(tabs)
                     THEN [status EXCEPT ![t] = session[attached[t]]] ELSE status
        /\ disposals' \in {disposals, disposals \cup {[tab |-> t, by |-> "orphan", final |-> FALSE]}}
        /\ UNCHANGED <<tabs, activeTab, attached, unread, session, hidden, refused, pressed, appWindow>>
    BY <1>0, <1>1 DEF Tabs!ViewReady, Tabs!Dispose
  <2>7. disposals' \subseteq [tab : Ids, by : {"button", "hide", "list", "orphan"}, final : BOOLEAN]
    <3>1. [tab |-> t, by |-> "orphan", final |-> FALSE]
            \in [tab : Ids, by : {"button", "hide", "list", "orphan"}, final : BOOLEAN]
      OBVIOUS
    <3>2. disposals' = disposals
            \/ disposals' = disposals \cup {[tab |-> t, by |-> "orphan", final |-> FALSE]}
      BY <2>1
    <3>3. QED BY <3>1, <3>2 DEF Tabs!TypeOK
  <2>8. status' \in [Ids -> {"none", "starting", "failed", "removed"} \cup Tabs!Live]
    <3>1. session[attached[t]] \in Tabs!Live
      BY <2>1
    <3>2. QED BY <2>1, <3>1 DEF Tabs!TypeOK
  <2>9. view' \in [Ids -> {"none", "starting", "open", "gone"}]
    BY <2>1 DEF Tabs!TypeOK
  <2>2. Tabs!TypeOK'
    BY <2>1, <2>7, <2>8, <2>9 DEF Tabs!TypeOK
  <2>3. TabsKept'
    <3>1. \A u \in ToSet(tabs) : view'[u] # "none"
      BY <2>1 DEF TabsKept, Tabs!TypeOK
    <3>2. \A u \in Ids : view'[u] = "open" => session[attached[u]] # "none"
      BY <2>1 DEF TabsKept, Tabs!TypeOK, Tabs!Live
    <3>3. \A d \in disposals' : view'[d.tab] # "none" /\ (d.by = "hide" => attached[d.tab] \in hidden)
      BY <2>1 DEF TabsKept, Tabs!TypeOK
    <3>4. QED BY <2>1, <3>1, <3>2, <3>3 DEF TabsKept
  <2>4. TabsActual'
    BY <2>1, OpenTab DEF TabsActual, Tabs!TypeOK
  <2>5. NoneAbandoned'
    BY <2>1 DEF NoneAbandoned, Tabs!NoneAbandoned, Tabs!TypeOK
  <2>6. QED BY <2>2, <2>3, <2>4, <2>5
<1>2. CASE Tabs!ViewFailed(t)
  <2>1. /\ view[t] = "starting"
        /\ view' = [view EXCEPT ![t] = "gone"]
        /\ status' \in {status, [status EXCEPT ![t] = "failed"]}
        /\ \/ attached[t] # t /\ session' = session /\ refused' = refused
           \/ session' = [session EXCEPT ![t] = "removed"] /\ refused' = refused
           \/ session' = session /\ refused' = refused \cup {t}
        /\ UNCHANGED <<tabs, activeTab, attached, unread, disposals, hidden, pressed, appWindow>>
    BY <1>2 DEF Tabs!ViewFailed
  <2>8. refused' \in SUBSET Ids
    BY <2>1 DEF Tabs!TypeOK
  <2>9. session' \in [Ids -> {"none", "removed"} \cup Tabs!Live]
    <3>1. session' = session \/ session' = [session EXCEPT ![t] = "removed"]
      BY <2>1
    <3>2. QED BY <3>1 DEF Tabs!TypeOK
  <2>10. status' \in [Ids -> {"none", "starting", "failed", "removed"} \cup Tabs!Live]
    BY <2>1 DEF Tabs!TypeOK
  <2>11. view' \in [Ids -> {"none", "starting", "open", "gone"}]
    BY <2>1 DEF Tabs!TypeOK
  <2>2. Tabs!TypeOK'
    BY <2>1, <2>8, <2>9, <2>10, <2>11 DEF Tabs!TypeOK
  <2>3. /\ \A u \in Ids : u # t => view'[u] = view[u] /\ status'[u] = status[u]
        /\ view'[t] = "gone"
        /\ \A u \in Ids : session'[u] = session[u] \/ session'[u] = "removed"
    BY <2>1 DEF Tabs!TypeOK
  <2>4. TabsKept'
    <3>1. \A u \in ToSet(tabs) : view'[u] # "none"
      BY <2>3, OpenTab DEF TabsKept
    <3>2. \A u \in Ids : view'[u] = "open" => session'[attached[u]] # "none"
      BY <2>3 DEF TabsKept, Tabs!TypeOK
    <3>3. \A d \in disposals : view'[d.tab] # "none"
      BY <2>3 DEF TabsKept, Tabs!TypeOK
    <3>4. QED BY <2>1, <3>1, <3>2, <3>3 DEF TabsKept
  <2>5. TabsActual'
    BY <2>1, <2>3, OpenTab DEF TabsActual, Tabs!TypeOK, Tabs!Live
  <2>6. NoneAbandoned'
    BY <2>1, <2>3 DEF NoneAbandoned, Tabs!NoneAbandoned, Tabs!TypeOK
  <2>7. QED BY <2>2, <2>4, <2>5, <2>6
<1>3. QED BY <1>1, <1>2

\* What the events of a session leave in its tabs.
LEMMA EventStep ==
  ASSUME TabsInv, NEW s \in Ids,
         \/ \E next \in Tabs!Live : Tabs!SessionUpdated(s, next)
         \/ Tabs!SessionOutput(s) \/ Tabs!SessionBell(s)
  PROVE  TabsInv'
<1> USE DEF TabsInv
<1>1. CASE \E next \in Tabs!Live : Tabs!SessionUpdated(s, next)
  <2> PICK next \in Tabs!Live : Tabs!SessionUpdated(s, next)
    BY <1>1
  <2>1. /\ session[s] \in {"running", "exiting"}
        /\ session' = [session EXCEPT ![s] = next]
        /\ status' = [t \in Ids |-> IF Tabs!Shown(s) # {} /\ t \in Tabs!Named(s)
                                    THEN next ELSE status[t]]
        /\ UNCHANGED <<tabs, activeTab, attached, unread, view, disposals, hidden, refused,
                       pressed, appWindow>>
    BY DEF Tabs!SessionUpdated
  <2>2. Tabs!TypeOK'
    BY <2>1 DEF Tabs!TypeOK
  <2>3. next # "none" /\ session[s] \in Tabs!Live
    BY <2>1 DEF Tabs!Live
  <2>4. TabsKept'
    BY <2>1, <2>3 DEF TabsKept, Tabs!TypeOK
  <2>5. TabsActual'
    <3> SUFFICES ASSUME NEW t \in ToSet(tabs), view[t] = "open",
                        session'[attached[t]] \in Tabs!Live
                 PROVE  status'[t] = session'[attached[t]]
      BY <2>1 DEF TabsActual
    <3>1. t \in Ids /\ attached[t] \in Ids
      BY OpenTab DEF Tabs!TypeOK
    <3>2. CASE attached[t] = s
      <4>1. t \in Tabs!Shown(s) /\ t \in Tabs!Named(s)
        BY <3>2, SameHelpers DEF Tabs!Shown, Tabs!Named
      <4>2. QED BY <2>1, <3>1, <3>2, <4>1 DEF Tabs!TypeOK
    <3>3. CASE attached[t] # s
      <4>1. t \notin Tabs!Named(s)
        BY <3>3 DEF Tabs!Named
      <4>2. QED BY <2>1, <3>1, <3>3, <4>1 DEF TabsActual, Tabs!TypeOK
    <3>4. QED BY <3>2, <3>3
  <2>6. NoneAbandoned'
    BY <2>1 DEF NoneAbandoned, Tabs!NoneAbandoned, Tabs!TypeOK
  <2>7. QED BY <2>2, <2>4, <2>5, <2>6
<1>2. CASE Tabs!SessionOutput(s)
  <2>1. /\ session[s] \in Tabs!Live
        /\ status' = [t \in Ids |-> IF t \in Tabs!Shown(s)
                                    THEN Tabs!AfterOutput(status[t]) ELSE status[t]]
        /\ UNCHANGED <<tabs, activeTab, attached, unread, view, session, disposals, hidden,
                       refused, pressed, appWindow>>
    BY <1>2 DEF Tabs!SessionOutput
  <2>2. \A t \in Ids : /\ status'[t] \in {status[t], "running"}
                       /\ status[t] \in Tabs!Live => status'[t] = status[t]
    BY <2>1 DEF Tabs!AfterOutput, Tabs!Live
  <2>3. Tabs!TypeOK'
    BY <2>1, <2>2 DEF Tabs!TypeOK, Tabs!Live
  <2>4. TabsKept' /\ NoneAbandoned'
    BY <2>1 DEF TabsKept, NoneAbandoned, Tabs!NoneAbandoned
  <2>5. TabsActual'
    BY <2>1, <2>2, OpenTab DEF TabsActual
  <2>6. QED BY <2>3, <2>4, <2>5
<1>3. CASE Tabs!SessionBell(s)
  <2>1. /\ unread' = unread \cup (Tabs!Shown(s) \ {activeTab})
        /\ UNCHANGED <<tabs, activeTab, status, attached, view, session, disposals, hidden,
                       refused, pressed, appWindow>>
    BY <1>3 DEF Tabs!SessionBell
  <2>2. Tabs!Shown(s) \subseteq Ids
    BY OpenTab, SameHelpers DEF Tabs!Shown
  <2>3. Tabs!TypeOK'
    BY <2>1, <2>2 DEF Tabs!TypeOK
  <2>4. QED BY <2>1, <2>3 DEF TabsKept, TabsActual, NoneAbandoned, Tabs!NoneAbandoned
<1>4. QED BY <1>1, <1>2, <1>3

\* A tab that closes leaves the others as they are, and no session goes on unseen when
\* its view is not open, or its session is gone or hidden.
LEMMA ClosingKeeps ==
  ASSUME TabsInv, NEW t \in Ids, Tabs!CloseTerminalTab(t),
         session' \in [Ids -> {"none", "removed"} \cup Tabs!Live],
         \A u \in Ids : session'[u] = session[u] \/ session'[u] = "removed",
         disposals' \subseteq disposals, hidden \subseteq hidden', refused \subseteq refused',
         UNCHANGED <<status, attached>>,
         view[t] # "open" \/ session'[attached[t]] = "removed" \/ attached[t] \in hidden'
  PROVE  /\ TabsKept' /\ TabsActual' /\ NoneAbandoned'
         /\ tabs' \in Seq(Ids) /\ ToSet(tabs') \subseteq ToSet(tabs)
         /\ view' \in [Ids -> {"none", "starting", "open", "gone"}]
<1> USE DEF TabsInv
<1>1. /\ tabs' \in Seq(Ids) /\ ToSet(tabs') \subseteq ToSet(tabs)
      /\ view' = [view EXCEPT ![t] = IF view[t] = "open" THEN "gone" ELSE view[t]]
      /\ view' \in [Ids -> {"none", "starting", "open", "gone"}]
  BY ClosedTab
<1>2. /\ \A u \in Ids : u # t => view'[u] = view[u]
      /\ view'[t] = IF view[t] = "open" THEN "gone" ELSE view[t]
  BY <1>1 DEF Tabs!TypeOK
<1>3. TabsKept'
  <2>1. \A u \in ToSet(tabs') : view'[u] # "none"
    BY <1>1, <1>2, OpenTab
  <2>2. \A u \in Ids : view'[u] = "open" => session'[attached'[u]] # "none"
    BY <1>2 DEF TabsKept, Tabs!TypeOK
  <2>3. \A d \in disposals' :
          view'[d.tab] # "none" /\ (d.by = "hide" => attached'[d.tab] \in hidden')
    BY <1>2 DEF TabsKept, Tabs!TypeOK
  <2>4. QED BY <2>1, <2>2, <2>3 DEF TabsKept
<1>4. TabsActual'
  BY <1>1, <1>2, OpenTab DEF TabsActual, Tabs!TypeOK, Tabs!Live
<1>5. NoneAbandoned'
  BY <1>2 DEF NoneAbandoned, Tabs!NoneAbandoned, Tabs!TypeOK
<1>6. QED BY <1>1, <1>3, <1>4, <1>5

\* The tab that is active after one has closed is another one, if there is one.
LEMMA ActiveAfterClosing ==
  ASSUME TabsInv, NEW t \in Ids, Tabs!CloseTerminalTab(t)
  PROVE  activeTab' \in Ids \cup {None}
<1>1. tabs \in Seq(Ids) /\ activeTab \in Ids \cup {None}
  BY DEF TabsInv, Tabs!TypeOK
<1>2. CASE ~Tabs!IsOpen(t)
  BY <1>1, <1>2 DEF Tabs!CloseTerminalTab
<1>3. CASE Tabs!IsOpen(t)
  <2> DEFINE I == {j \in 1..Len(tabs) : tabs[j] = t}
             rest == RemoveAt(tabs, Min(I))
  <2>1. I \in SUBSET Nat /\ I # {} /\ Len(tabs) \in Nat
    BY <1>1, <1>3, LenProperties DEF Tabs!IsOpen, Tabs!ToSet
  <2>2. Min(I) \in 1..Len(tabs) /\ tabs[Min(I)] = t
    BY <2>1, MinIsLeast
  <2>3. Tabs!RemoveFirst(tabs, t) = rest
    BY <2>1, SameHelpers DEF RemoveFirst, SelectInSeq
  <2>4. rest \in Seq(Ids) /\ Len(rest) = Len(tabs) - 1
    BY <1>1, <2>2, RemovedAt
  <2>5. Tabs!SelectInSeq(tabs, LAMBDA u : u = t) = Min(I)
    BY <2>1 DEF Tabs!SelectInSeq, Tabs!Min, Min
  <2>6. Tabs!Successor(t) =
          IF rest = <<>> THEN None
          ELSE IF activeTab # t THEN activeTab
          ELSE rest[IF Head(tabs) = t THEN 1 ELSE Min(I) - 1]
    BY <2>3, <2>5 DEF Tabs!Successor
  <2> HIDE DEF rest, I
  <2>7. CASE rest # <<>> /\ Head(tabs) = t
    <3>1. 1 \in 1..Len(rest)
      BY <2>4, <2>7, EmptySeq, LenProperties
    <3>2. rest[1] \in Ids
      BY <2>4, <3>1, ElementOfSeq
    <3>3. QED BY <1>1, <1>3, <2>6, <2>7, <3>2 DEF Tabs!CloseTerminalTab
  <2>8. CASE rest # <<>> /\ Head(tabs) # t
    <3>1. Min(I) # 1
      BY <1>1, <2>1, <2>2, <2>8, HeadTailProperties
    <3>2. Min(I) - 1 \in 1..Len(rest)
      BY <2>1, <2>2, <2>4, <3>1
    <3>3. rest[Min(I) - 1] \in Ids
      BY <2>4, <3>2, ElementOfSeq
    <3>4. QED BY <1>1, <1>3, <2>6, <2>8, <3>3 DEF Tabs!CloseTerminalTab
  <2>9. CASE rest = <<>>
    BY <1>3, <2>6, <2>9 DEF Tabs!CloseTerminalTab
  <2>10. QED BY <2>7, <2>8, <2>9
<1>4. QED BY <1>2, <1>3

LEMMA RemovedStep ==
  ASSUME TabsInv, NEW s \in Ids, Tabs!SessionRemoved(s)
  PROVE  TabsInv'
<1> USE DEF TabsInv
<1>1. /\ session' = [session EXCEPT ![s] = "removed"]
      /\ UNCHANGED <<status, attached, unread, disposals, hidden, refused, pressed, appWindow>>
  BY DEF Tabs!SessionRemoved
<1>2. /\ session' \in [Ids -> {"none", "removed"} \cup Tabs!Live]
      /\ \A u \in Ids : session'[u] = session[u] \/ session'[u] = "removed"
      /\ session'[s] = "removed"
  BY <1>1 DEF Tabs!TypeOK
<1>3. CASE Tabs!TabOf(s) # None
  <2> DEFINE t == Tabs!TabOf(s)
  <2>1. t \in Ids /\ attached[t] = s
    BY <1>3, TabOfNamed, NamedTab
  <2>2. Tabs!CloseTerminalTab(t)
    BY <1>3 DEF Tabs!SessionRemoved
  <2> HIDE DEF t
  <2>3. /\ TabsKept' /\ TabsActual' /\ NoneAbandoned'
        /\ tabs' \in Seq(Ids)
        /\ view' \in [Ids -> {"none", "starting", "open", "gone"}]
    BY <1>1, <1>2, <2>1, <2>2, ClosingKeeps
  <2>4. activeTab' \in Ids \cup {None}
    BY <2>1, <2>2, ActiveAfterClosing
  <2>5. QED BY <1>1, <1>2, <2>3, <2>4 DEF Tabs!TypeOK
<1>4. CASE Tabs!TabOf(s) = None
  <2>1. UNCHANGED <<tabs, activeTab, view>>
    BY <1>4 DEF Tabs!SessionRemoved
  <2>2. Tabs!TypeOK'
    BY <1>1, <1>2, <2>1 DEF Tabs!TypeOK
  <2>3. TabsKept' /\ NoneAbandoned'
    BY <1>1, <1>2, <2>1 DEF TabsKept, NoneAbandoned, Tabs!NoneAbandoned, Tabs!TypeOK
  <2>4. TabsActual'
    BY <1>1, <1>2, <2>1, OpenTab DEF TabsActual, Tabs!TypeOK, Tabs!Live
  <2>5. QED BY <2>2, <2>3, <2>4
<1>5. QED BY <1>3, <1>4

\* A controller is given up, for one of the reasons there are.
LEMMA DisposeAdds ==
  ASSUME TabsInv, NEW t \in Ids, NEW by \in {"button", "hide", "list", "orphan"},
         NEW final \in BOOLEAN, Tabs!Dispose(t, by, final)
  PROVE  /\ disposals' = disposals \cup {[tab |-> t, by |-> by, final |-> final]}
         /\ disposals' \subseteq [tab : Ids, by : {"button", "hide", "list", "orphan"},
                                  final : BOOLEAN]
BY DEF Tabs!Dispose, TabsInv, Tabs!TypeOK

\* Of a tab that is there, with its reason.
LEMMA DisposeStep ==
  ASSUME TabsInv, NEW t \in Ids, view[t] # "none",
         NEW by \in {"button", "hide", "list", "orphan"}, NEW final \in BOOLEAN,
         Tabs!Dispose(t, by, final), by = "hide" => attached[t] \in hidden',
         hidden \subseteq hidden', hidden' \subseteq Ids,
         UNCHANGED <<tabs, activeTab, status, attached, unread, view, session, refused,
                     pressed, appWindow>>
  PROVE  TabsInv'
<1> USE DEF TabsInv
<1>1. /\ disposals' = disposals \cup {[tab |-> t, by |-> by, final |-> final]}
      /\ disposals' \subseteq [tab : Ids, by : {"button", "hide", "list", "orphan"},
                               final : BOOLEAN]
  BY DisposeAdds
<1>2. Tabs!TypeOK'
  BY <1>1 DEF Tabs!TypeOK
<1>3. TabsKept'
  BY <1>1 DEF TabsKept
<1>4. TabsActual' /\ NoneAbandoned'
  BY DEF TabsActual, NoneAbandoned, Tabs!NoneAbandoned
<1>5. QED BY <1>2, <1>3, <1>4

\* A tab is closed by its button, now or once its controller is disposed of.
LEMMA OnCloseStep ==
  ASSUME TabsInv, NEW t \in Ids, NEW final \in BOOLEAN, Tabs!OnClose(t, final),
         view[t] # "open" \/ session[attached[t]] = "removed",
         disposals' \subseteq disposals,
         UNCHANGED <<status, attached, unread, session, hidden, refused>>
  PROVE  TabsInv'
<1> USE DEF TabsInv
<1>1. pressed' = pressed \cup {t}
  BY DEF Tabs!OnClose
<1>2. CASE final
  <2>1. appWindow' = "closed" /\ UNCHANGED <<tabs, activeTab, view>>
    BY <1>2 DEF Tabs!OnClose
  <2>2. Tabs!TypeOK'
    BY <1>1, <2>1 DEF Tabs!TypeOK
  <2>3. QED
    BY <2>1, <2>2 DEF TabsKept, TabsActual, NoneAbandoned, Tabs!NoneAbandoned
<1>3. CASE ~final
  <2>1. Tabs!CloseTerminalTab(t) /\ appWindow' = appWindow
    BY <1>3 DEF Tabs!OnClose
  <2>2. session' \in [Ids -> {"none", "removed"} \cup Tabs!Live]
    BY DEF Tabs!TypeOK
  <2>3. /\ TabsKept' /\ TabsActual' /\ NoneAbandoned'
        /\ tabs' \in Seq(Ids)
        /\ view' \in [Ids -> {"none", "starting", "open", "gone"}]
    BY <2>1, <2>2, ClosingKeeps
  <2>4. activeTab' \in Ids \cup {None}
    BY <2>1, ActiveAfterClosing
  <2>5. Tabs!TypeOK'
    BY <1>1, <2>1, <2>2, <2>3, <2>4 DEF Tabs!TypeOK
  <2>6. QED BY <2>3, <2>5
<1>4. QED BY <1>2, <1>3

\* A tab is closed, its session hidden or terminated.
LEMMA AskedToCloseStep ==
  ASSUME TabsInv, NEW t \in Ids,
         Tabs!CloseTab(t) \/ Tabs!HideSession(t) \/ Tabs!TerminateSession(t)
  PROVE  TabsInv'
<1> USE DEF TabsInv
<1>1. CASE Tabs!CloseTab(t)
  <2> DEFINE final == Len(tabs) = 1
  <2>1. view[t] # "none"
    BY <1>1, OpenTab, SameHelpers DEF Tabs!CloseTab, Tabs!IsOpen
  <2>2. CASE view[t] = "open"
    <3>1. /\ Tabs!Dispose(t, "button", final)
          /\ UNCHANGED <<tabs, activeTab, status, attached, unread, view, session, hidden,
                         refused, pressed, appWindow>>
      BY <1>1, <2>2 DEF Tabs!CloseTab
    <3>2. hidden' \subseteq Ids /\ final \in BOOLEAN
      BY <3>1 DEF Tabs!TypeOK
    <3>3. QED BY <2>1, <3>1, <3>2, DisposeStep
  <2>3. CASE view[t] # "open"
    <3>1. /\ Tabs!OnClose(t, final)
          /\ UNCHANGED <<status, attached, unread, session, disposals, hidden, refused>>
      BY <1>1, <2>3 DEF Tabs!CloseTab
    <3>2. final \in BOOLEAN
      OBVIOUS
    <3>3. QED BY <2>3, <3>1, <3>2, OnCloseStep
  <2>4. QED BY <2>2, <2>3
<1>2. CASE Tabs!HideSession(t)
  <2> DEFINE u == Tabs!TabOf(t)
  <2>1. u \in Ids /\ attached[u] = t /\ view[u] # "none"
    BY <1>2, TabOfNamed, NamedTab DEF Tabs!HideSession
  <2>2. /\ hidden' = hidden \cup {t} /\ hidden' \subseteq Ids
        /\ UNCHANGED <<status, attached, unread, session, refused, pressed, appWindow>>
    BY <1>2 DEF Tabs!HideSession, Tabs!TypeOK
  <2>3. CASE view[u] = "open"
    <3>1. Tabs!Dispose(u, "hide", FALSE) /\ UNCHANGED <<tabs, activeTab, view>>
      BY <1>2, <2>3 DEF Tabs!HideSession
    <3>2. attached[u] \in hidden'
      BY <2>1, <2>2
    <3> HIDE DEF u
    <3>3. QED BY <2>1, <2>2, <3>1, <3>2, DisposeStep
  <2>4. CASE view[u] # "open"
    <3>1. Tabs!CloseTerminalTab(u) /\ disposals' = disposals
      BY <1>2, <2>4 DEF Tabs!HideSession
    <3> HIDE DEF u
    <3>2. session' \in [Ids -> {"none", "removed"} \cup Tabs!Live]
      BY <2>2 DEF Tabs!TypeOK
    <3>3. /\ TabsKept' /\ TabsActual' /\ NoneAbandoned'
          /\ tabs' \in Seq(Ids)
          /\ view' \in [Ids -> {"none", "starting", "open", "gone"}]
      BY <2>1, <2>2, <2>4, <3>1, <3>2, ClosingKeeps
    <3>4. activeTab' \in Ids \cup {None}
      BY <2>1, <3>1, ActiveAfterClosing
    <3>5. Tabs!TypeOK'
      BY <2>2, <3>1, <3>3, <3>4 DEF Tabs!TypeOK
    <3>6. QED BY <3>3, <3>5
  <2>5. QED BY <2>3, <2>4
<1>3. CASE Tabs!TerminateSession(t)
  <2> DEFINE u == Tabs!TabOf(t)
  <2>1. u \in Ids /\ view[u] # "none"
    BY <1>3, TabOfNamed, NamedTab DEF Tabs!TerminateSession
  <2>2. /\ Tabs!Dispose(u, "list", FALSE)
        /\ UNCHANGED <<tabs, activeTab, status, attached, unread, view, session, hidden, refused,
                       pressed, appWindow>>
    BY <1>3 DEF Tabs!TerminateSession
  <2> HIDE DEF u
  <2>3. hidden' \subseteq Ids
    BY <2>2 DEF Tabs!TypeOK
  <2>4. QED BY <2>1, <2>2, <2>3, DisposeStep
<1>4. QED BY <1>1, <1>2, <1>3

\* What becomes of a controller that is being disposed of.
LEMMA DisposedStep ==
  ASSUME TabsInv, NEW d \in disposals, Tabs!Disposed(d) \/ Tabs!NotDisposed(d)
  PROVE  TabsInv'
<1> USE DEF TabsInv
<1>1. /\ d \in [tab : Ids, by : {"button", "hide", "list", "orphan"}, final : BOOLEAN]
      /\ view[d.tab] # "none" /\ (d.by = "hide" => attached[d.tab] \in hidden)
  BY DEF Tabs!TypeOK, TabsKept
<1>2. d.tab \in Ids /\ d.final \in BOOLEAN
  BY <1>1
<1>3. CASE Tabs!NotDisposed(d)
  <2>1. /\ disposals' = disposals \ {d}
        /\ refused' = IF d.by = "hide" THEN refused ELSE refused \cup {attached[d.tab]}
        /\ UNCHANGED <<tabs, activeTab, status, attached, unread, view, session, hidden, pressed,
                       appWindow>>
    BY <1>3 DEF Tabs!NotDisposed
  <2>2. refused' \subseteq Ids /\ refused \subseteq refused'
    BY <1>2, <2>1 DEF Tabs!TypeOK
  <2>3. Tabs!TypeOK'
    BY <2>1, <2>2 DEF Tabs!TypeOK
  <2>4. QED
    BY <2>1, <2>2, <2>3 DEF TabsKept, TabsActual, NoneAbandoned, Tabs!NoneAbandoned
<1>4. CASE Tabs!Disposed(d)
  <2>1. /\ d.by = "hide" \/ session[attached[d.tab]] = "removed"
        /\ disposals' = disposals \ {d}
        /\ UNCHANGED <<status, attached, unread, session, hidden, refused>>
    BY <1>4 DEF Tabs!Disposed
  <2>2. disposals' \subseteq disposals
    BY <2>1
  <2>3. CASE d.by = "button"
    <3>1. Tabs!OnClose(d.tab, d.final)
      BY <1>4, <2>3 DEF Tabs!Disposed
    <3>2. QED BY <1>2, <2>1, <2>2, <2>3, <3>1, OnCloseStep
  <2>4. CASE d.by = "orphan"
    <3>1. /\ view' = [view EXCEPT ![d.tab] = "gone"]
          /\ UNCHANGED <<tabs, activeTab, pressed, appWindow>>
      BY <1>4, <2>4 DEF Tabs!Disposed
    <3>2. /\ \A u \in Ids : u # d.tab => view'[u] = view[u]
          /\ view'[d.tab] = "gone"
      BY <1>2, <3>1 DEF Tabs!TypeOK
    <3>3. Tabs!TypeOK'
      BY <1>2, <2>1, <2>2, <3>1 DEF Tabs!TypeOK
    <3>4. TabsKept'
      <4>1. \A u \in ToSet(tabs) : view'[u] # "none"
        BY <3>2, OpenTab
      <4>2. \A u \in Ids : view'[u] = "open" => session[attached[u]] # "none"
        BY <1>2, <3>2 DEF TabsKept
      <4>3. \A e \in disposals' : view'[e.tab] # "none"
        BY <2>2, <3>2 DEF TabsKept, Tabs!TypeOK
      <4>4. QED BY <2>1, <3>1, <4>1, <4>2, <4>3 DEF TabsKept
    <3>5. TabsActual'
      BY <2>1, <3>1, <3>2, OpenTab DEF TabsActual
    <3>6. NoneAbandoned'
      BY <1>2, <2>1, <2>4, <3>1, <3>2 DEF NoneAbandoned, Tabs!NoneAbandoned
    <3>7. QED BY <3>3, <3>4, <3>5, <3>6
  <2>5. CASE d.by \notin {"button", "orphan"}
    <3>1. Tabs!CloseTerminalTab(d.tab) /\ UNCHANGED <<pressed, appWindow>>
      BY <1>4, <2>5 DEF Tabs!Disposed
    <3>2. session' \in [Ids -> {"none", "removed"} \cup Tabs!Live]
      BY <2>1 DEF Tabs!TypeOK
    <3>3. /\ TabsKept' /\ TabsActual' /\ NoneAbandoned'
          /\ tabs' \in Seq(Ids)
          /\ view' \in [Ids -> {"none", "starting", "open", "gone"}]
      BY <1>1, <1>2, <2>1, <2>2, <3>1, <3>2, ClosingKeeps
    <3>4. activeTab' \in Ids \cup {None}
      BY <1>2, <3>1, ActiveAfterClosing
    <3>5. Tabs!TypeOK'
      BY <2>1, <2>2, <3>1, <3>3, <3>4 DEF Tabs!TypeOK
    <3>6. QED BY <3>3, <3>5
  <2>6. QED BY <2>3, <2>4, <2>5
<1>5. QED BY <1>3, <1>4

LEMMA TabsStep ==
  ASSUME TabsInv, [Tabs!Next]_(Tabs!vars)
  PROVE  TabsInv'
<1>1. CASE UNCHANGED Tabs!vars
  BY <1>1 DEF Tabs!vars, TabsInv, Tabs!TypeOK, TabsKept, TabsActual, NoneAbandoned,
              Tabs!NoneAbandoned
<1>2. CASE Tabs!Next
  <2>1. ASSUME NEW t \in Ids,
               \/ Tabs!NewTab(t) \/ Tabs!SelectTab(t) \/ Tabs!SessionCreated(t)
               \/ Tabs!ViewReady(t) \/ Tabs!ViewFailed(t) \/ Tabs!CloseTab(t)
        PROVE  TabsInv'
    BY <2>1, OpenedStep, BegunStep, ViewStep, AskedToCloseStep
  <2>2. ASSUME NEW s \in Ids,
               \/ Tabs!Reveal(s) \/ Tabs!OpenPresentation(s) \/ Tabs!CreatedElsewhere(s)
               \/ Tabs!HideSession(s) \/ \E next \in Tabs!Live : Tabs!SessionUpdated(s, next)
               \/ Tabs!SessionOutput(s) \/ Tabs!SessionBell(s) \/ Tabs!SessionRemoved(s)
               \/ Tabs!TerminateSession(s)
        PROVE  TabsInv'
    BY <2>2, OpenedStep, BegunStep, AskedToCloseStep, EventStep, RemovedStep
  <2>3. ASSUME NEW d \in disposals, Tabs!Disposed(d) \/ Tabs!NotDisposed(d)
        PROVE  TabsInv'
    BY <2>3, DisposedStep
  <2>4. QED BY <1>2, <2>1, <2>2, <2>3 DEF Tabs!Next
<1>3. QED BY <1>1, <1>2

\* The tabs of a window stay well-typed (terminal-tabs.ts).
THEOREM TabsTypeCorrect == Tabs!Spec => []Tabs!TypeOK
<1>1. TabsInv => Tabs!TypeOK
  BY DEF TabsInv
<1>2. QED BY <1>1, TabsInit, TabsStep, PTL DEF Tabs!Spec

\* What an open tab says of its session is so.
THEOREM StatusSafe == Tabs!Spec => []StatusIsActual
<1>1. TabsInv => StatusIsActual
  BY SameHelpers DEF TabsInv, TabsActual, StatusIsActual, Tabs!StatusIsActual
<1>2. QED BY <1>1, TabsInit, TabsStep, PTL DEF Tabs!Spec

\* No session that a tab has created goes on unseen after its tab has closed.
THEOREM AbandonedSafe == Tabs!Spec => []NoneAbandoned
<1>1. TabsInv => NoneAbandoned
  BY DEF TabsInv
<1>2. QED BY <1>1, TabsInit, TabsStep, PTL DEF Tabs!Spec

-----------------------------------------------------------------------------
(* The messages of the main process, and what a renderer makes of them. *)


\* What a message is made of.
LEMMA EventParts ==
  ASSUME NEW m \in Events
  PROVE  /\ m.type \in {"updated", "removed", "control", "requested", "resolved", "output"}
         /\ m.type \in ListEvents => m.session \in Sessions
         /\ m.type = "updated" => m.version \in Nat /\ m.running \in BOOLEAN
         /\ m.type = "control" => m.state \in ControlStates
         /\ m.type \in {"requested", "resolved"} => m.prompt \in Prompts
         /\ m.type = "output" => m \in Chunks /\ m.sequence \in Nat /\ m.query \in Queries
BY DEF Events, Chunks, ListEvents

LEMMA ReplyParts ==
  ASSUME NEW m \in Replies
  PROVE  /\ m.type = "reply" /\ m.to \in Plain \cup {"change", "resolve"}
         /\ m.to = "sessions" => m.value \in [Sessions -> Nat]
         /\ m.to = "controls" => m.value \in [Sessions -> ControlStates]
         /\ m.to = "prompts" => m.value \in Seq(Prompts)
         /\ m.to = "change" => /\ m.value \in Events /\ m.value.type = "control"
                               /\ m.value.session \in Sessions /\ m.value.state \in ControlStates
         /\ m.to = "resolve" => m.value \in Prompts
         /\ m.to \in {"attach", "view"} => m.value.sequence \in Nat /\ m.value.running \in BOOLEAN
         /\ m.to \in {"create", "close", "closeView"} => m.value \in BOOLEAN
BY DEF Replies, Plain, Events, Chunks

LEMMA MessageKinds ==
  ASSUME NEW m \in Messages
  PROVE  \/ m \in Events
         \/ m \in Replies
         \/ m.type = "failure"
BY DEF Messages

\* The messages that the main process sends.
LEMMA Sendable ==
  /\ \A s \in Sessions, v \in Nat, r \in BOOLEAN : Updated(s, v, r) \in Events
  /\ \A s \in Sessions : Removed(s) \in Events
  /\ \A s \in Sessions, c \in ControlStates : Control(s, c) \in Events
  /\ \A p \in Prompts : Requested(p) \in Events /\ Resolved(p) \in Events
  /\ \A n \in Nat, q \in Queries : Output(n, q) \in Events
  /\ \A x \in [Sessions -> Nat] : Reply("sessions", x) \in Replies
  /\ \A x \in [Sessions -> ControlStates] : Reply("controls", x) \in Replies
  /\ \A x \in Seq(Prompts) : Reply("prompts", x) \in Replies
  /\ \A s \in Sessions, c \in ControlStates : Reply("change", Control(s, c)) \in Replies
  /\ \A p \in Prompts : Reply("resolve", p) \in Replies
  /\ \A n \in Nat, r \in BOOLEAN, k \in {"attach", "view"} :
        Reply(k, [sequence |-> n, running |-> r]) \in Replies
  /\ \A r \in BOOLEAN, k \in {"create", "close", "closeView"} : Reply(k, r) \in Replies
  /\ \A k \in Plain \cup {"change", "resolve"} : Failure(k) \in Messages
<1>1. /\ \A s \in Sessions, v \in Nat, r \in BOOLEAN : Updated(s, v, r) \in Events
      /\ \A s \in Sessions : Removed(s) \in Events
      /\ \A s \in Sessions, c \in ControlStates : Control(s, c) \in Events
  BY DEF Events, Chunks, Updated, Removed, Control
<1>2. /\ \A p \in Prompts : Requested(p) \in Events /\ Resolved(p) \in Events
      /\ \A n \in Nat, q \in Queries : Output(n, q) \in Events
  BY DEF Events, Chunks, Requested, Resolved, Output
<1>3. /\ \A x \in [Sessions -> Nat] : Reply("sessions", x) \in Replies
      /\ \A x \in [Sessions -> ControlStates] : Reply("controls", x) \in Replies
      /\ \A x \in Seq(Prompts) : Reply("prompts", x) \in Replies
  BY DEF Replies, Reply
<1>4. /\ \A s \in Sessions, c \in ControlStates : Reply("change", Control(s, c)) \in Replies
      /\ \A p \in Prompts : Reply("resolve", p) \in Replies
  BY DEF Replies, Reply, Control
<1>5. /\ \A n \in Nat, r \in BOOLEAN, k \in {"attach", "view"} :
           Reply(k, [sequence |-> n, running |-> r]) \in Replies
      /\ \A r \in BOOLEAN, k \in {"create", "close", "closeView"} : Reply(k, r) \in Replies
  BY DEF Replies, Reply
<1>6. \A k \in Plain \cup {"change", "resolve"} : Failure(k) \in Messages
  BY DEF Messages, Failure
<1>7. QED BY <1>1, <1>2, <1>3, <1>4, <1>5, <1>6

\* The events that are applied when the list is there, one after the other.
LEMMA ListFold ==
  ASSUME NEW l, NEW N \in Nat, Len(l.buffer) = N
  PROVE  \E applied :
           /\ applied[0] = [l EXCEPT !.booting = FALSE, !.buffer = <<>>]
           /\ \A n \in 1..N : applied[n] = ApplyListEvent(applied[n - 1], l.buffer[n])
           /\ ListBooted(l) = applied[N]
<1> DEFINE base == [l EXCEPT !.booting = FALSE, !.buffer = <<>>]
           Fold(g, k) == [n \in 0..k |-> IF n = 0 THEN base
                                         ELSE ApplyListEvent(g[n - 1], l.buffer[n])]
           T == {k \in Nat : \E g : g = Fold(g, k)}
<1>1. 0 \in T
  <2> DEFINE g == [n \in 0..0 |-> base]
  <2>1. g = Fold(g, 0)
    OBVIOUS
  <2>2. QED BY <2>1
<1>2. ASSUME NEW k \in Nat, k \in T PROVE k + 1 \in T
  <2>1. PICK g : g = Fold(g, k)
    BY <1>2
  <2> DEFINE h == [n \in 0..(k + 1) |-> IF n <= k THEN g[n] ELSE ApplyListEvent(g[k], l.buffer[k + 1])]
  <2> HIDE DEF base
  <2>2. ASSUME NEW n \in 0..(k + 1)
        PROVE  h[n] = IF n = 0 THEN base ELSE ApplyListEvent(h[n - 1], l.buffer[n])
    <3>1. CASE n = 0
      BY <2>1, <3>1
    <3>2. CASE n # 0 /\ n <= k
      <4>1. n \in 0..k /\ n - 1 \in 0..(k + 1) /\ n - 1 <= k
        BY <3>2
      <4>2. g[n] = ApplyListEvent(g[n - 1], l.buffer[n])
        BY <2>1, <3>2, <4>1
      <4>3. h[n] = g[n] /\ h[n - 1] = g[n - 1]
        BY <3>2, <4>1
      <4>4. QED BY <3>2, <4>2, <4>3
    <3>3. CASE n = k + 1
      <4>1. h[n] = ApplyListEvent(g[k], l.buffer[k + 1]) /\ n - 1 = k /\ k \in 0..(k + 1)
        BY <3>3
      <4>2. h[k] = g[k]
        BY <4>1
      <4>3. QED BY <3>3, <4>1, <4>2
    <3>4. QED BY <3>1, <3>2, <3>3
  <2>3. h = Fold(h, k + 1)
    BY <2>2
  <2> HIDE DEF h
  <2>4. QED BY <2>3
<1>3. N \in T
  <2> HIDE DEF T
  <2>1. QED BY <1>1, <1>2, NatSetInduction
<1>4. PICK g : g = Fold(g, N)
  BY <1>3
<1> DEFINE applied == CHOOSE a : a = Fold(a, N)
<1>5. applied = Fold(applied, N)
  BY <1>4
<1>6. ListBooted(l) = applied[N]
  BY DEF ListBooted
<1> HIDE DEF applied
<1>7. /\ applied[0] = base
      /\ \A n \in 1..N : applied[n] = ApplyListEvent(applied[n - 1], l.buffer[n])
  BY <1>5
<1>8. QED BY <1>6, <1>7

-----------------------------------------------------------------------------
(* The list of sessions: what the main process says of a session. *)

Fields == {"sessions", "controls"}

\* Whether a message says something of a session, and what.
Touches(m, f, s) ==
    IF f = "sessions" THEN m.type \in {"updated", "removed"} /\ m.session = s
    ELSE \/ m.type \in {"removed", "control"} /\ m.session = s
         \/ m.type = "reply" /\ m.to = "change" /\ m.value.session = s

Said(m, f) ==
    IF f = "sessions" THEN IF m.type = "updated" THEN m.version ELSE 0
    ELSE IF m.type = "removed" THEN "detached"
    ELSE IF m.type = "control" THEN m.state ELSE m.value.state

Known(l, f, s) == IF f = "sessions" THEN l.sessions[s] ELSE l.controls[s]
Actual(f, s) == IF f = "sessions" THEN manager[s] ELSE control[s]

Silent(seq, f, s) == \A i \in 1..Len(seq) : ~Touches(seq[i], f, s)

\* The last message that says something of s says v.
Ends(seq, f, s, v) ==
    \A i \in 1..Len(seq) :
        Touches(seq[i], f, s) /\ (\A j \in 1..Len(seq) : j > i => ~Touches(seq[j], f, s)) =>
            Said(seq[i], f) = v

\* A message is read.
LEMMA EndsTail ==
  ASSUME NEW S, NEW seq \in Seq(S), seq # <<>>, NEW f, NEW s, NEW v
  PROVE  /\ Silent(seq, f, s) <=> ~Touches(Head(seq), f, s) /\ Silent(Tail(seq), f, s)
         /\ Ends(seq, f, s, v) => Ends(Tail(seq), f, s, v)
         /\ Ends(seq, f, s, v) /\ Silent(Tail(seq), f, s) /\ Touches(Head(seq), f, s) =>
                Said(Head(seq), f) = v
<1>1. /\ Len(seq) \in Nat /\ Len(seq) > 0 /\ Len(Tail(seq)) = Len(seq) - 1
      /\ Head(seq) = seq[1]
      /\ \A i \in 1..Len(Tail(seq)) : Tail(seq)[i] = seq[i + 1]
  BY HeadTailProperties, EmptySeq, LenProperties
<1>2. \A i \in 1..Len(seq) : i # 1 => i - 1 \in 1..Len(Tail(seq)) /\ Tail(seq)[i - 1] = seq[i]
  BY <1>1
<1>3. \A i \in 1..Len(Tail(seq)) : i + 1 \in 1..Len(seq)
  BY <1>1
<1>4. Silent(seq, f, s) <=> ~Touches(Head(seq), f, s) /\ Silent(Tail(seq), f, s)
  <2>1. ASSUME Silent(seq, f, s) PROVE ~Touches(Head(seq), f, s) /\ Silent(Tail(seq), f, s)
    <3>1. 1 \in 1..Len(seq)
      BY <1>1
    <3>2. QED BY <1>1, <1>3, <2>1, <3>1 DEF Silent
  <2>2. ASSUME ~Touches(Head(seq), f, s), Silent(Tail(seq), f, s) PROVE Silent(seq, f, s)
    BY <1>1, <1>2, <2>2 DEF Silent
  <2>3. QED BY <2>1, <2>2
<1>5. ASSUME Ends(seq, f, s, v) PROVE Ends(Tail(seq), f, s, v)
  <2> SUFFICES ASSUME NEW i \in 1..Len(Tail(seq)), Touches(Tail(seq)[i], f, s),
                      \A j \in 1..Len(Tail(seq)) : j > i => ~Touches(Tail(seq)[j], f, s)
               PROVE  Said(Tail(seq)[i], f) = v
    BY DEF Ends
  <2>1. i + 1 \in 1..Len(seq) /\ seq[i + 1] = Tail(seq)[i]
    BY <1>1, <1>3
  <2>2. ASSUME NEW j \in 1..Len(seq), j > i + 1 PROVE ~Touches(seq[j], f, s)
    <3>1. j - 1 \in 1..Len(Tail(seq)) /\ Tail(seq)[j - 1] = seq[j] /\ j - 1 > i
      BY <1>1, <1>2, <2>2
    <3>2. QED BY <3>1
  <2>3. QED BY <1>5, <2>1, <2>2 DEF Ends
<1>6. ASSUME Ends(seq, f, s, v), Silent(Tail(seq), f, s), Touches(Head(seq), f, s)
      PROVE  Said(Head(seq), f) = v
  <2>1. 1 \in 1..Len(seq) /\ \A j \in 1..Len(seq) : j > 1 => ~Touches(seq[j], f, s)
    BY <1>1, <1>2, <1>6 DEF Silent
  <2>2. QED BY <1>1, <1>6, <2>1 DEF Ends
<1>7. QED BY <1>4, <1>5, <1>6

\* Messages are sent, or held back.
LEMMA EndsConcat ==
  ASSUME NEW S, NEW seq \in Seq(S), NEW ms \in Seq(S), NEW f, NEW s, NEW v, NEW w,
         Ends(ms, f, s, v), Silent(ms, f, s) => v = w, Ends(seq, f, s, w)
  PROVE  /\ Silent(seq \o ms, f, s) <=> Silent(seq, f, s) /\ Silent(ms, f, s)
         /\ Ends(seq \o ms, f, s, v)
<1>1. /\ Len(seq) \in Nat /\ Len(ms) \in Nat /\ Len(seq \o ms) = Len(seq) + Len(ms)
      /\ \A i \in 1..Len(seq) + Len(ms) :
            (seq \o ms)[i] = IF i <= Len(seq) THEN seq[i] ELSE ms[i - Len(seq)]
  BY ConcatProperties, LenProperties
<1>2. \A i \in 1..Len(seq) : i \in 1..Len(seq) + Len(ms) /\ (seq \o ms)[i] = seq[i]
  BY <1>1
<1>3. \A i \in 1..Len(ms) : /\ Len(seq) + i \in 1..Len(seq) + Len(ms)
                            /\ (seq \o ms)[Len(seq) + i] = ms[i]
  BY <1>1
<1>4. \A i \in 1..Len(seq) + Len(ms) : i > Len(seq) => /\ i - Len(seq) \in 1..Len(ms)
                                                       /\ (seq \o ms)[i] = ms[i - Len(seq)]
  BY <1>1
<1>5. Silent(seq \o ms, f, s) <=> Silent(seq, f, s) /\ Silent(ms, f, s)
  <2>1. ASSUME Silent(seq \o ms, f, s) PROVE Silent(seq, f, s) /\ Silent(ms, f, s)
    <3>1. Silent(seq, f, s)
      BY <1>1, <1>2, <2>1 DEF Silent
    <3>2. Silent(ms, f, s)
      BY <1>1, <1>3, <2>1 DEF Silent
    <3>3. QED BY <3>1, <3>2
  <2>2. ASSUME Silent(seq, f, s), Silent(ms, f, s), NEW i \in 1..Len(seq \o ms)
        PROVE  ~Touches((seq \o ms)[i], f, s)
    <3>1. CASE i <= Len(seq)
      BY <1>1, <1>2, <2>2, <3>1 DEF Silent
    <3>2. CASE i > Len(seq)
      BY <1>1, <1>4, <2>2, <3>2 DEF Silent
    <3>3. QED BY <1>1, <3>1, <3>2
  <2>3. QED BY <2>1, <2>2 DEF Silent
<1>6. ASSUME NEW i \in 1..Len(seq \o ms), Touches((seq \o ms)[i], f, s),
             \A j \in 1..Len(seq \o ms) : j > i => ~Touches((seq \o ms)[j], f, s)
      PROVE  Said((seq \o ms)[i], f) = v
  <2>1. CASE i <= Len(seq)
    <3>1. i \in 1..Len(seq) /\ (seq \o ms)[i] = seq[i]
      BY <1>1, <2>1
    <3>2. ASSUME NEW j \in 1..Len(seq), j > i PROVE ~Touches(seq[j], f, s)
      BY <1>1, <1>2, <1>6, <3>2
    <3>3. ASSUME NEW j \in 1..Len(ms) PROVE ~Touches(ms[j], f, s)
      <4>1. Len(seq) + j > i
        BY <1>1, <2>1
      <4>2. QED BY <1>1, <1>3, <1>6, <4>1
    <3>4. v = w
      BY <3>3 DEF Silent
    <3>5. QED BY <1>6, <3>1, <3>2, <3>4 DEF Ends
  <2>2. CASE i > Len(seq)
    <3> DEFINE k == i - Len(seq)
    <3>1. k \in 1..Len(ms) /\ (seq \o ms)[i] = ms[k]
      BY <1>1, <1>4, <2>2
    <3>2. ASSUME NEW j \in 1..Len(ms), j > k PROVE ~Touches(ms[j], f, s)
      <4>1. Len(seq) + j > i
        BY <1>1, <3>2
      <4>2. QED BY <1>1, <1>3, <1>6, <4>1
    <3> HIDE DEF k
    <3>3. QED BY <1>6, <3>1, <3>2 DEF Ends
  <2>3. QED BY <1>1, <2>1, <2>2
<1>7. QED BY <1>5, <1>6 DEF Ends

ListStates == [booting : BOOLEAN, replies : SUBSET Replies, buffer : Seq(Events),
               complete : BOOLEAN, sessions : [Sessions -> Nat],
               controls : [Sessions -> ControlStates]]

LEMMA ListEventApplied ==
  ASSUME NEW l \in ListStates, NEW m \in Events, m.type \in ListEvents
  PROVE  LET r == ApplyListEvent(l, m) IN
         /\ r \in ListStates
         /\ r.booting = l.booting /\ r.replies = l.replies /\ r.buffer = l.buffer
         /\ r.complete = l.complete
         /\ \A f \in Fields, s \in Sessions :
              Known(r, f, s) = IF Touches(m, f, s) THEN Said(m, f) ELSE Known(l, f, s)
<1>0. m.session \in Sessions /\ m.type \in {"updated", "removed", "control"}
  BY EventParts DEF ListEvents
<1>1. CASE m.type = "updated"
  <2>1. ApplyListEvent(l, m) = [l EXCEPT !.sessions[m.session] = m.version]
    BY <1>1 DEF ApplyListEvent
  <2>2. m.version \in Nat
    BY <1>1, EventParts
  <2>3. QED BY <1>0, <1>1, <2>1, <2>2 DEF ListStates, Fields, Known, Touches, Said
<1>2. CASE m.type = "removed"
  <2>1. ApplyListEvent(l, m) = [l EXCEPT !.sessions[m.session] = 0, !.controls[m.session] = "detached"]
    BY <1>2 DEF ApplyListEvent
  <2>2. /\ ApplyListEvent(l, m).sessions = [l.sessions EXCEPT ![m.session] = 0]
        /\ ApplyListEvent(l, m).controls = [l.controls EXCEPT ![m.session] = "detached"]
    BY <2>1 DEF ListStates
  <2>3. ApplyListEvent(l, m) \in ListStates
    <3>1. /\ ApplyListEvent(l, m).sessions \in [Sessions -> Nat]
          /\ ApplyListEvent(l, m).controls \in [Sessions -> ControlStates]
      BY <1>0, <2>2 DEF ListStates, ControlStates
    <3>2. ApplyListEvent(l, m) = [l EXCEPT !.sessions = [l.sessions EXCEPT ![m.session] = 0],
                                           !.controls = [l.controls EXCEPT ![m.session] = "detached"]]
      BY <2>1 DEF ListStates
    <3>3. QED BY <2>2, <3>1, <3>2 DEF ListStates
  <2>4. \A s \in Sessions :
          /\ ApplyListEvent(l, m).sessions[s] = IF m.session = s THEN 0 ELSE l.sessions[s]
          /\ ApplyListEvent(l, m).controls[s] = IF m.session = s THEN "detached" ELSE l.controls[s]
    BY <1>0, <2>2 DEF ListStates
  <2>5. \A f \in Fields, s \in Sessions :
          Known(ApplyListEvent(l, m), f, s) =
              IF Touches(m, f, s) THEN Said(m, f) ELSE Known(l, f, s)
    BY <1>2, <2>4 DEF Fields, Known, Touches, Said
  <2>6. QED BY <2>1, <2>3, <2>5 DEF ListStates
<1>3. CASE m.type = "control"
  <2>1. ApplyListEvent(l, m) = [l EXCEPT !.controls[m.session] = m.state]
    BY <1>3 DEF ApplyListEvent
  <2>2. m.state \in ControlStates
    BY <1>3, EventParts
  <2>3. QED BY <1>0, <1>3, <2>1, <2>2 DEF ListStates, Fields, Known, Touches, Said
<1>4. QED BY <1>0, <1>1, <1>2, <1>3

\* What is said last of a session is known of it when all has been applied.
LEMMA ListApplied ==
  ASSUME NEW l \in ListStates, \A i \in 1..Len(l.buffer) : l.buffer[i].type \in ListEvents
  PROVE  LET r == ListBooted(l) IN
         /\ r \in ListStates
         /\ ~r.booting /\ r.replies = l.replies /\ r.complete = l.complete
         /\ \A f \in Fields, s \in Sessions :
              /\ Silent(l.buffer, f, s) => Known(r, f, s) = Known(l, f, s)
              /\ \A v : Ends(l.buffer, f, s, v) /\ ~Silent(l.buffer, f, s) => Known(r, f, s) = v
<1> DEFINE b == l.buffer
           N == Len(b)
<1>1. b \in Seq(Events) /\ N \in Nat /\ \A i \in 1..N : b[i] \in Events
  BY LenProperties, ElementOfSeq DEF ListStates
<1>2. PICK applied :
        /\ applied[0] = [l EXCEPT !.booting = FALSE, !.buffer = <<>>]
        /\ \A n \in 1..N : applied[n] = ApplyListEvent(applied[n - 1], b[n])
        /\ ListBooted(l) = applied[N]
  BY <1>1, ListFold
<1> DEFINE LastWord(n, f, s) ==
             \/ /\ \A i \in 1..n : ~Touches(b[i], f, s)
                /\ Known(applied[n], f, s) = Known(l, f, s)
             \/ \E i \in 1..n : /\ Touches(b[i], f, s)
                                /\ \A j \in 1..n : j > i => ~Touches(b[j], f, s)
                                /\ Known(applied[n], f, s) = Said(b[i], f)
           Kept(n) == /\ applied[n] \in ListStates
                      /\ ~applied[n].booting /\ applied[n].replies = l.replies
                      /\ applied[n].complete = l.complete
           T == {n \in Nat : n <= N => Kept(n) /\ \A f \in Fields, s \in Sessions : LastWord(n, f, s)}
<1>3. 0 \in T
  <2>1. Kept(0)
    <3>1. <<>> \in Seq(Events)
      OBVIOUS
    <3>2. QED BY <1>2, <3>1 DEF ListStates
  <2>2. ASSUME NEW f \in Fields, NEW s \in Sessions PROVE LastWord(0, f, s)
    BY <1>2 DEF ListStates, Known
  <2>3. QED BY <2>1, <2>2
<1>4. ASSUME NEW n \in Nat, n \in T PROVE n + 1 \in T
  <2> SUFFICES ASSUME n + 1 <= N
               PROVE  Kept(n + 1) /\ \A f \in Fields, s \in Sessions : LastWord(n + 1, f, s)
    OBVIOUS
  <2> HIDE DEF N
  <2>1. n <= N /\ n + 1 \in 1..N /\ (n + 1) - 1 = n
    BY <1>1
  <2>2. Kept(n) /\ \A f \in Fields, s \in Sessions : LastWord(n, f, s)
    BY <1>4, <2>1
  <2>3. b[n + 1] \in Events /\ b[n + 1].type \in ListEvents
    BY <1>1, <2>1 DEF N
  <2>4. applied[n + 1] = ApplyListEvent(applied[n], b[n + 1])
    BY <1>2, <2>1 DEF N
  <2>5. Kept(n + 1)
    BY <2>2, <2>3, <2>4, ListEventApplied
  <2>6. \A f \in Fields, s \in Sessions :
          Known(applied[n + 1], f, s) =
              IF Touches(b[n + 1], f, s) THEN Said(b[n + 1], f) ELSE Known(applied[n], f, s)
    BY <2>2, <2>3, <2>4, ListEventApplied
  <2>7. ASSUME NEW f \in Fields, NEW s \in Sessions PROVE LastWord(n + 1, f, s)
    <3>1. n \in Nat /\ \A j \in 1..(n + 1) : j \in 1..n \/ j = n + 1
      OBVIOUS
    <3> DEFINE Says(i) == Touches(b[i], f, s)
    <3>2. CASE Says(n + 1)
      <4>1. /\ n + 1 \in 1..(n + 1)
            /\ \A j \in 1..(n + 1) : j > n + 1 => ~Says(j)
            /\ Known(applied[n + 1], f, s) = Said(b[n + 1], f)
        BY <2>6, <3>2
      <4>2. QED BY <3>2, <4>1
    <3>3. CASE ~Says(n + 1)
      <4>1. Known(applied[n + 1], f, s) = Known(applied[n], f, s)
        BY <2>6, <3>3
      <4>2. LastWord(n, f, s)
        BY <2>2
      <4> HIDE DEF b
      <4>3. QED BY <3>1, <3>3, <4>1, <4>2
    <3>4. QED BY <3>2, <3>3
  <2>8. QED BY <2>5, <2>7
<1>5. N \in T
  <2> HIDE DEF T
  <2>1. QED BY <1>1, <1>3, <1>4, NatSetInduction
<1>6. Kept(N) /\ \A f \in Fields, s \in Sessions : LastWord(N, f, s)
  BY <1>1, <1>5
<1>7. ASSUME NEW f \in Fields, NEW s \in Sessions
      PROVE  /\ Silent(b, f, s) => Known(applied[N], f, s) = Known(l, f, s)
             /\ \A v : Ends(b, f, s, v) /\ ~Silent(b, f, s) => Known(applied[N], f, s) = v
  BY <1>6 DEF Silent, Ends
<1>8. QED BY <1>2, <1>6, <1>7

-----------------------------------------------------------------------------
(* What the main process sends. *)

\* A page that is not there, or still loads, has asked for nothing and knows nothing.
Unheard == window # "mounted" => /\ channel = <<>> /\ asked = {}
                                 /\ list = EmptyList /\ dialog = EmptyDialog /\ tab = NoTab

MainTypes ==
    /\ manager \in [Sessions -> Nat] /\ removed \subseteq Sessions /\ running \in BOOLEAN
    /\ control \in [Sessions -> ControlStates]
    /\ prompts \in [Prompts -> {"idle", "pending", "answered", "timeout", "cancelled"}]
    /\ queue \in Seq(Prompts) /\ outputs \in Seq(Queries) /\ answers \in Seq(Nat)
    /\ budget \in [Traffic -> Nat]

IsAnswer(m, K) == m.type \in {"reply", "failure"} /\ m.to \in K
Kinds == Plain \cup {"change", "resolve"}

\* A message that answers goes to the one request that is served by it.
TokenNews(ms) ==
    \A i \in 1..Len(ms) : IsAnswer(ms[i], Kinds) =>
        /\ \E r \in asked : r.kind = ms[i].to /\ asked' = asked \ {r}
        /\ \A j \in 1..Len(ms) : IsAnswer(ms[j], Kinds) => j = i

\* What changes of a session is said, and a snapshot is of the moment.
ListNews(ms) ==
    /\ \A f \in Fields, s \in Sessions :
          /\ Ends(ms, f, s, Actual(f, s)')
          /\ Silent(ms, f, s) => Actual(f, s)' = Actual(f, s)
    /\ \A i \in 1..Len(ms) :
          ms[i].type = "reply" /\ ms[i].to \in Fields =>
              \A s \in Sessions : ms[i].value[s] = Actual(ms[i].to, s)

\* The output of the viewed session is numbered, and so is its screen.
Counts(outs) ==
    {t \in Nat \X Messages \X Nat :
        IF t[2].type = "output"
        THEN t[3] = t[1] + 1 /\ t[3] <= Len(outs) /\ t[2] = Output(t[3], outs[t[3]])
        ELSE /\ t[3] = t[1]
             /\ t[2].type = "reply" /\ t[2].to = "view" => t[2].value.sequence = t[1]}

OutputNews(ms) ==
    /\ Path(Counts(outputs'), ms, Len(outputs), Len(outputs'))
    /\ \/ outputs' = outputs
       \/ \E q \in Queries : outputs' = Append(outputs, q)

\* The messages of one step of the main process.
LEMMA OneMessage ==
  ASSUME NEW m \in Messages
  PROVE  /\ <<m>> \in Seq(Messages) /\ Len(<<m>>) = 1 /\ <<m>>[1] = m
         /\ \A f, s : Silent(<<m>>, f, s) <=> ~Touches(m, f, s)
         /\ \A f, s, v : (Touches(m, f, s) => Said(m, f) = v) => Ends(<<m>>, f, s, v)
<1> DEFINE q == <<m>>
<1>1. q \in Seq(Messages) /\ Len(q) = 1 /\ q[1] = m
  OBVIOUS
<1>2. \A i \in 1..Len(q) : i = 1
  BY <1>1
<1>3. 1 \in 1..Len(q)
  BY <1>1
<1> HIDE DEF q
<1>4. \A f, s : Silent(q, f, s) <=> ~Touches(m, f, s)
  BY <1>1, <1>2, <1>3 DEF Silent
<1>5. \A f, s, v : (Touches(m, f, s) => Said(m, f) = v) => Ends(q, f, s, v)
  BY <1>1, <1>2 DEF Ends
<1>6. QED BY <1>1, <1>4, <1>5 DEF q

LEMMA NoMessage ==
  /\ <<>> \in Seq(Messages) /\ Len(<<>>) = 0
  /\ \A f, s : Silent(<<>>, f, s)
  /\ \A f, s, v : Ends(<<>>, f, s, v)
<1>1. <<>> \in Seq(Messages) /\ Len(<<>>) = 0 /\ 1..0 = {}
  OBVIOUS
<1>2. QED BY <1>1 DEF Silent, Ends

\* Nothing is said of a session of which nothing changes.
LEMMA ListNewsNeutral ==
  ASSUME NEW ms \in Seq(Messages), UNCHANGED <<manager, control>>,
         \A i \in 1..Len(ms) : /\ ms[i].type \notin ListEvents
                               /\ ~(ms[i].type = "reply" /\ ms[i].to = "change")
                               /\ ms[i].type = "reply" /\ ms[i].to \in Fields =>
                                     \A s \in Sessions : ms[i].value[s] = Actual(ms[i].to, s)
  PROVE  ListNews(ms)
<1>1. \A f, s : \A i \in 1..Len(ms) : ~Touches(ms[i], f, s)
  BY DEF Touches, ListEvents
<1>2. \A f \in Fields, s \in Sessions : Actual(f, s)' = Actual(f, s)
  BY DEF Actual, Fields
<1>3. \A f \in Fields, s \in Sessions : Ends(ms, f, s, Actual(f, s)')
  BY <1>1 DEF Ends
<1>4. QED BY <1>2, <1>3 DEF ListNews

\* A change of the list and the answer to the command that made it.
LEMMA ListNewsAnswered ==
  ASSUME NEW es \in Seq(Messages), NEW a \in Messages, a.type \notin ListEvents,
         ListNews(es),
         a.type = "reply" => /\ a.to \notin Fields
                             /\ a.to = "change" =>
                                   /\ a.value.session \in Sessions
                                   /\ control'[a.value.session] = a.value.state
  PROVE  ListNews(es \o <<a>>)
<1>1. /\ <<a>> \in Seq(Messages) /\ Len(<<a>>) = 1 /\ <<a>>[1] = a
      /\ \A f, s : Silent(<<a>>, f, s) <=> ~Touches(a, f, s)
      /\ \A f, s, v : (Touches(a, f, s) => Said(a, f) = v) => Ends(<<a>>, f, s, v)
  BY OneMessage
<1>2. ASSUME NEW f \in Fields, NEW s \in Sessions, Touches(a, f, s)
      PROVE  Said(a, f) = Actual(f, s)'
  BY <1>2 DEF Touches, Said, Actual, Fields, ListEvents
<1>3. ASSUME NEW f \in Fields, NEW s \in Sessions
      PROVE  /\ Ends(es \o <<a>>, f, s, Actual(f, s)')
             /\ Silent(es \o <<a>>, f, s) => Actual(f, s)' = Actual(f, s)
  <2>1. Ends(<<a>>, f, s, Actual(f, s)')
    BY <1>1, <1>2
  <2>2. Ends(es, f, s, Actual(f, s)') /\ (Silent(es, f, s) => Actual(f, s)' = Actual(f, s))
    BY DEF ListNews
  <2>3. /\ Ends(es \o <<a>>, f, s, Actual(f, s)')
        /\ Silent(es \o <<a>>, f, s) <=> Silent(es, f, s) /\ Silent(<<a>>, f, s)
    BY <1>1, <2>1, <2>2, EndsConcat
  <2>4. QED BY <2>2, <2>3
<1>4. /\ Len(es) \in Nat /\ Len(es \o <<a>>) = Len(es) + 1
      /\ \A i \in 1..(Len(es) + 1) :
            (es \o <<a>>)[i] = IF i <= Len(es) THEN es[i] ELSE <<a>>[i - Len(es)]
  BY <1>1, ConcatProperties, LenProperties
<1> DEFINE q == es \o <<a>>
<1>5. ASSUME NEW i \in 1..Len(q), q[i].type = "reply", q[i].to \in Fields
      PROVE  \A s \in Sessions : q[i].value[s] = Actual(q[i].to, s)
  <2>1. CASE i <= Len(es)
    <3>1. i \in 1..Len(es) /\ q[i] = es[i]
      BY <1>4, <2>1
    <3>2. QED BY <1>5, <3>1 DEF ListNews
  <2>2. CASE i > Len(es)
    <3>1. i - Len(es) = 1 /\ ~(i <= Len(es)) /\ i \in 1..(Len(es) + 1)
      BY <1>4, <2>2
    <3>2. q[i] = a
      BY <1>1, <1>4, <3>1
    <3>3. QED BY <1>5, <3>2
  <2>3. i <= Len(es) \/ i > Len(es)
    BY <1>4
  <2>4. QED BY <2>1, <2>2, <2>3
<1>6. QED BY <1>3, <1>5 DEF ListNews

\* One message says all that changes.
LEMMA ListNewsOne ==
  ASSUME NEW m \in Events, NEW s \in Sessions, m.type \in ListEvents, m.session = s,
         \A f \in Fields, x \in Sessions \ {s} : Actual(f, x)' = Actual(f, x),
         \A f \in Fields : IF Touches(m, f, s) THEN Actual(f, s)' = Said(m, f)
                           ELSE Actual(f, s)' = Actual(f, s)
  PROVE  ListNews(<<m>>)
<1>1. /\ Len(<<m>>) = 1 /\ <<m>>[1] = m
      /\ \A f, x : Silent(<<m>>, f, x) <=> ~Touches(m, f, x)
      /\ \A f, x, v : (Touches(m, f, x) => Said(m, f) = v) => Ends(<<m>>, f, x, v)
  BY OneMessage DEF Messages
<1>2. m.type # "reply"
  BY DEF ListEvents
<1>3. \A f, x : Touches(m, f, x) => x = s
  BY <1>2 DEF Touches
<1>4. \A f \in Fields, x \in Sessions : Ends(<<m>>, f, x, Actual(f, x)')
  BY <1>1, <1>3
<1>5. \A f \in Fields, x \in Sessions : Silent(<<m>>, f, x) => Actual(f, x)' = Actual(f, x)
  BY <1>1
<1>6. \A i \in 1..Len(<<m>>) : <<m>>[i].type # "reply"
  BY <1>1, <1>2
<1>7. QED BY <1>4, <1>5, <1>6 DEF ListNews

\* The removal of a session says all of it.
LEMMA ListNewsRemoved ==
  ASSUME NEW es \in Seq(Events), es # <<>>, NEW s \in Sessions, es[Len(es)] = Removed(s),
         \A i \in 1..Len(es) : es[i].type \in ListEvents /\ es[i].session = s,
         \A x \in Sessions \ {s} : manager'[x] = manager[x] /\ control'[x] = control[x],
         manager'[s] = 0, control'[s] = "detached"
  PROVE  ListNews(es)
<1>1. Len(es) \in Nat /\ Len(es) \in 1..Len(es)
  BY EmptySeq, LenProperties
<1>2. \A f \in Fields : Touches(Removed(s), f, s)
  BY DEF Touches, Removed, Fields
<1>3. ASSUME NEW f \in Fields, NEW x \in Sessions PROVE Ends(es, f, x, Actual(f, x)')
  <2> SUFFICES ASSUME NEW i \in 1..Len(es), Touches(es[i], f, x),
                      \A j \in 1..Len(es) : j > i => ~Touches(es[j], f, x)
               PROVE  Said(es[i], f) = Actual(f, x)'
    BY DEF Ends
  <2>1. x = s
    BY DEF Touches, ListEvents
  <2>2. i = Len(es)
    BY <1>1, <1>2, <2>1
  <2>3. Said(Removed(s), f) = Actual(f, s)'
    BY DEF Said, Removed, Actual, Fields
  <2>4. QED BY <2>1, <2>2, <2>3
<1>4. ASSUME NEW f \in Fields, NEW x \in Sessions, Silent(es, f, x)
      PROVE  Actual(f, x)' = Actual(f, x)
  <2>1. x # s
    BY <1>1, <1>2, <1>4 DEF Silent
  <2>2. QED BY <2>1 DEF Actual
<1>5. \A i \in 1..Len(es) : es[i].type # "reply"
  BY DEF ListEvents
<1>6. QED BY <1>3, <1>4, <1>5 DEF ListNews

LEMMA PairConcat ==
  ASSUME NEW S, NEW c \in S, NEW r \in S
  PROVE  <<c>> \o <<r>> = <<c, r>>
<1> DEFINE a == <<c>> \o <<r>>
           d == <<c, r>>
<1>1. <<c>> \in Seq(S) /\ <<r>> \in Seq(S) /\ Len(<<c>>) = 1 /\ Len(<<r>>) = 1
  OBVIOUS
<1>2. /\ a \in Seq(S) /\ Len(a) = 1 + 1
      /\ \A i \in 1..(1 + 1) : a[i] = IF i <= 1 THEN <<c>>[i] ELSE <<r>>[i - 1]
  BY <1>1, ConcatProperties
<1>3. d \in Seq(S) /\ Len(d) = 2 /\ d[1] = c /\ d[2] = r
  OBVIOUS
<1>4. <<c>>[1] = c /\ <<r>>[1] = r
  OBVIOUS
<1> HIDE DEF a, d
<1>5. a[1] = c /\ a[2] = r
  BY <1>2, <1>4
<1>6. Len(a) = 2 /\ DOMAIN a = 1..2 /\ DOMAIN d = 1..2
  BY <1>2, <1>3, LenProperties
<1>7. \A i \in 1..2 : a[i] = d[i]
  BY <1>3, <1>5
<1>8. a = [i \in 1..2 |-> a[i]] /\ d = [i \in 1..2 |-> d[i]]
  BY <1>2, <1>3, <1>6, SeqDef
<1>9. QED BY <1>7, <1>8 DEF a, d

LEMMA GoneParts ==
  ASSUME NEW s \in Sessions
  PROVE  /\ Gone(s) \in Seq(Events) /\ Gone(s) # <<>> /\ Gone(s)[Len(Gone(s))] = Removed(s)
         /\ \A i \in 1..Len(Gone(s)) : Gone(s)[i].type \in {"control", "removed"} /\ Gone(s)[i].session = s
<1>1. /\ Removed(s) \in Events /\ Removed(s).type = "removed" /\ Removed(s).session = s
      /\ Control(s, "detached") \in Events /\ Control(s, "detached").type = "control"
      /\ Control(s, "detached").session = s
  BY Sendable DEF Removed, Control, ControlStates
<1> DEFINE c == Control(s, "detached")
           r == Removed(s)
<1>2. CASE control[s] = "detached"
  <2>1. Gone(s) = <<>> \o <<r>>
    BY <1>2 DEF Gone
  <2>2. Gone(s) = <<r>>
    BY <2>1
  <2>3. Len(<<r>>) = 1 /\ <<r>>[1] = r /\ <<r>> \in Seq(Events) /\ <<r>> # <<>>
    BY <1>1
  <2>4. \A i \in 1..1 : i = 1
    OBVIOUS
  <2>5. QED BY <1>1, <2>2, <2>3, <2>4
<1>3. CASE control[s] # "detached"
  <2>1. Gone(s) = <<c>> \o <<r>>
    BY <1>3 DEF Gone
  <2>p. <<c>> \o <<r>> = <<c, r>>
    BY <1>1, PairConcat
  <2>2. Gone(s) = <<c, r>>
    BY <2>1, <2>p
  <2>3. Len(<<c, r>>) = 2 /\ <<c, r>>[1] = c /\ <<c, r>>[2] = r /\ <<c, r>> \in Seq(Events) /\ <<c, r>> # <<>>
    BY <1>1
  <2>4. \A i \in 1..2 : i = 1 \/ i = 2
    OBVIOUS
  <2>5. QED BY <1>1, <2>2, <2>3, <2>4
<1>4. QED BY <1>2, <1>3

-----------------------------------------------------------------------------
\* Answers.

LEMMA EventsAnswerNothing ==
  ASSUME NEW es \in Seq(Events)
  PROVE  es \in Seq(Messages) /\ Len(es) \in Nat /\ \A i \in 1..Len(es) : es[i] \in Events /\ ~IsAnswer(es[i], Kinds)
<1>1. Len(es) \in Nat /\ \A i \in 1..Len(es) : es[i] \in Events
  BY LenProperties, ElementOfSeq
<1>2. \A m \in Events : ~IsAnswer(m, Kinds)
  BY EventParts DEF IsAnswer
<1>3. es \in Seq(Messages)
  BY <1>1, SeqDef DEF Messages
<1>4. QED BY <1>1, <1>2, <1>3

\* At most one answer, to the request that is served.
LEMMA TokenNewsServed ==
  ASSUME NEW es \in Seq(Events), NEW a \in Messages, NEW r \in asked, asked' = asked \ {r},
         a.to = r.kind
  PROVE  TokenNews(es \o <<a>>) /\ es \o <<a>> \in Seq(Messages)
<1>1. es \in Seq(Messages) /\ Len(es) \in Nat /\ \A i \in 1..Len(es) : ~IsAnswer(es[i], Kinds)
  BY EventsAnswerNothing
<1>2. <<a>> \in Seq(Messages) /\ Len(<<a>>) = 1 /\ <<a>>[1] = a
  BY OneMessage
<1> DEFINE q == es \o <<a>>
<1>3. /\ q \in Seq(Messages) /\ Len(q) = Len(es) + 1
      /\ \A i \in 1..(Len(es) + 1) : q[i] = IF i <= Len(es) THEN es[i] ELSE <<a>>[i - Len(es)]
  BY <1>1, <1>2, ConcatProperties
<1> HIDE DEF q
<1>4. ASSUME NEW i \in 1..Len(q), IsAnswer(q[i], Kinds) PROVE i = Len(es) + 1 /\ q[i] = a
  <2>1. ~(i <= Len(es))
    <3>1. i <= Len(es) => i \in 1..Len(es) /\ q[i] = es[i]
      BY <1>1, <1>3
    <3>2. QED BY <1>1, <1>4, <3>1
  <2>2. i = Len(es) + 1 /\ i - Len(es) = 1 /\ i \in 1..(Len(es) + 1)
    BY <1>1, <1>3, <2>1
  <2>3. QED BY <1>2, <1>3, <2>1, <2>2
<1>5. TokenNews(q)
  BY <1>4 DEF TokenNews
<1>6. QED BY <1>3, <1>5 DEF q

-----------------------------------------------------------------------------
\* Output.

LEMMA OutputNewsNeutral ==
  ASSUME NEW ms \in Seq(Messages), outputs \in Seq(Queries), outputs' = outputs,
         \A i \in 1..Len(ms) :
             /\ ms[i].type # "output"
             /\ ms[i].type = "reply" /\ ms[i].to = "view" => ms[i].value.sequence = Len(outputs)
  PROVE  OutputNews(ms)
<1>1. Len(outputs) \in Nat /\ \A i \in 1..Len(ms) : ms[i] \in Messages
  BY LenProperties, ElementOfSeq
<1>2. \A i \in 1..Len(ms) : <<Len(outputs), ms[i], Len(outputs)>> \in Counts(outputs)
  BY <1>1 DEF Counts
<1> DEFINE R == Counts(outputs)
<1> HIDE DEF R
<1>3. Path(R, ms, Len(outputs), Len(outputs))
  BY <1>2, PathStays DEF R
<1>4. QED BY <1>3 DEF OutputNews, R

LEMMA OutputNewsOne ==
  ASSUME NEW q \in Queries, outputs \in Seq(Queries), outputs' = Append(outputs, q)
  PROVE  OutputNews(<<Output(Len(outputs) + 1, q)>>)
<1> DEFINE m == Output(Len(outputs) + 1, q)
           n == Len(outputs)
<1>1. n \in Nat /\ Len(outputs') = n + 1 /\ outputs'[n + 1] = q
  BY AppendProperties, LenProperties
<1>2. m \in Events /\ m \in Messages /\ m.type = "output"
  <2>1. m \in Events
    BY <1>1, Sendable
  <2>2. QED BY <2>1 DEF Output, Messages
<1>3. <<n, m, n + 1>> \in Counts(outputs')
  BY <1>1, <1>2 DEF Counts
<1>4. Path(Counts(outputs'), <<>>, n, n)
  BY PathEmpty
<1>5. <<>> \in Seq(Messages) /\ Append(<<>>, m) = <<m>>
  OBVIOUS
<1> DEFINE R == Counts(outputs')
<1> HIDE DEF R, m
<1>6. Path(R, Append(<<>>, m), n, n + 1)
  BY <1>2, <1>3, <1>4, <1>5, PathAppend DEF R
<1>7. Path(R, <<m>>, n, Len(outputs'))
  BY <1>1, <1>5, <1>6
<1>8. QED BY <1>7 DEF OutputNews, R, m

-----------------------------------------------------------------------------
\* All that a step of the main process tells a renderer.

AnswersNews ==
    \/ UNCHANGED <<outputs, answers>>
    \/ \E q \in Queries : /\ outputs' = Append(outputs, q)
                          /\ answers' = Append(answers, IF q = "returned" THEN 1 ELSE 0)
    \/ \E r \in asked : /\ r.kind = "input" /\ asked' = asked \ {r}
                        /\ UNCHANGED outputs
                        /\ answers' = [answers EXCEPT ![r.chunk] = IF running THEN @ + 1 ELSE @]

News(ms) ==
    /\ ms \in Seq(Messages) /\ Emit(ms)
    /\ UNCHANGED <<window, rendererVars>> /\ asked' \subseteq asked
    /\ MainTypes' /\ TokenNews(ms) /\ ListNews(ms) /\ OutputNews(ms) /\ AnswersNews

LEMMA EventNews ==
  ASSUME NEW es \in Seq(Events), Emit(es), UNCHANGED <<window, asked, rendererVars>>,
         MainTypes', ListNews(es), OutputNews(es), AnswersNews
  PROVE  News(es)
<1>1. es \in Seq(Messages) /\ \A i \in 1..Len(es) : ~IsAnswer(es[i], Kinds)
  BY EventsAnswerNothing
<1>2. TokenNews(es)
  BY <1>1 DEF TokenNews
<1>3. QED BY <1>1, <1>2 DEF News

LEMMA AnswerNews ==
  ASSUME MainTypes, NEW es \in Seq(Events), NEW a \in Messages, NEW r \in asked,
         asked' = asked \ {r}, a.type \in {"reply", "failure"}, a.to = r.kind,
         Emit(es \o <<a>>), UNCHANGED <<window, rendererVars, outputs, answers>>,
         MainTypes', \A i \in 1..Len(es) : es[i].type # "output",
         a.type = "reply" /\ a.to = "view" => a.value.sequence = Len(outputs),
         ListNews(es \o <<a>>)
  PROVE  News(es \o <<a>>)
<1>1. /\ es \in Seq(Messages) /\ Len(es) \in Nat
      /\ \A i \in 1..Len(es) : es[i] \in Events /\ ~IsAnswer(es[i], Kinds)
  BY EventsAnswerNothing
<1>2. TokenNews(es \o <<a>>) /\ es \o <<a>> \in Seq(Messages)
  BY TokenNewsServed
<1>3. <<a>> \in Seq(Messages) /\ Len(<<a>>) = 1 /\ <<a>>[1] = a
  BY OneMessage
<1> DEFINE q == es \o <<a>>
<1>4. /\ q \in Seq(Messages) /\ Len(q) = Len(es) + 1
      /\ \A i \in 1..(Len(es) + 1) : q[i] = IF i <= Len(es) THEN es[i] ELSE <<a>>[i - Len(es)]
  BY <1>1, <1>3, ConcatProperties
<1> HIDE DEF q
<1>5. ASSUME NEW i \in 1..Len(q)
      PROVE  /\ q[i].type # "output"
             /\ q[i].type = "reply" /\ q[i].to = "view" => q[i].value.sequence = Len(outputs)
  <2>1. CASE i <= Len(es)
    <3>1. i \in 1..Len(es) /\ q[i] = es[i]
      BY <1>1, <1>4, <2>1
    <3>2. q[i] \in Events /\ q[i].type # "output"
      BY <1>1, <3>1
    <3>3. q[i].type # "reply"
      BY <3>2, EventParts
    <3>4. QED BY <3>2, <3>3
  <2>2. CASE i > Len(es)
    <3>1. i - Len(es) = 1 /\ ~(i <= Len(es)) /\ i \in 1..(Len(es) + 1)
      BY <1>1, <1>4, <2>2
    <3>2. q[i] = a
      BY <1>3, <1>4, <3>1
    <3>3. QED BY <3>2
  <2>3. i <= Len(es) \/ i > Len(es)
    BY <1>1, <1>4
  <2>4. QED BY <2>1, <2>2, <2>3
<1>6. OutputNews(q)
  BY <1>4, <1>5, OutputNewsNeutral DEF MainTypes
<1>7. AnswersNews
  BY DEF AnswersNews
<1>8. QED BY <1>2, <1>6, <1>7 DEF News, q

\* An answer alone: nothing of a session has changed.
LEMMA PlainAnswerNews ==
  ASSUME MainTypes, NEW a \in Messages, NEW r \in asked,
         asked' = asked \ {r}, a.type \in {"reply", "failure"}, a.to = r.kind,
         Emit(<<a>>), UNCHANGED <<window, rendererVars, outputs, answers, manager, control>>,
         MainTypes',
         a.type = "reply" => /\ a.to \in Fields => \A s \in Sessions : a.value[s] = Actual(a.to, s)
                             /\ a.to = "view" => a.value.sequence = Len(outputs)
                             /\ a.to # "change"
  PROVE  News(<<a>>)
<1>1. <<>> \in Seq(Events) /\ Len(<<>>) = 0 /\ 1..0 = {} /\ <<>> \o <<a>> = <<a>>
  OBVIOUS
<1>2. <<a>> \in Seq(Messages) /\ Len(<<a>>) = 1 /\ <<a>>[1] = a /\ \A i \in 1..1 : i = 1
  BY OneMessage
<1> DEFINE q == <<a>>
<1> HIDE DEF q
<1>3. ListNews(q)
  <2>1. \A i \in 1..Len(q) : q[i] = a
    BY <1>2 DEF q
  <2>2. a.type \notin ListEvents
    BY DEF ListEvents
  <2>3. q \in Seq(Messages)
    BY <1>2 DEF q
  <2>4. QED BY <2>1, <2>2, <2>3, ListNewsNeutral
<1>4. ListNews(<<>> \o <<a>>) /\ Emit(<<>> \o <<a>>)
  BY <1>1, <1>3 DEF q
<1>5. \A i \in 1..Len(<<>>) : <<>>[i].type # "output"
  BY <1>1
<1>6. News(<<>> \o <<a>>)
  BY <1>1, <1>4, <1>5, AnswerNews
<1>7. QED BY <1>1, <1>6

\* An event of the list, about one session.
LEMMA ListEventNews ==
  ASSUME TypeOK, NEW m \in Events, NEW s \in Sessions, m.type \in ListEvents, m.session = s,
         Emit(<<m>>), UNCHANGED <<window, asked, rendererVars, outputs, answers>>, MainTypes',
         \A f \in Fields, x \in Sessions \ {s} : Actual(f, x)' = Actual(f, x),
         \A f \in Fields : IF Touches(m, f, s) THEN Actual(f, s)' = Said(m, f)
                           ELSE Actual(f, s)' = Actual(f, s)
  PROVE  News(<<m>>)
<1>1. ListNews(<<m>>)
  BY ListNewsOne
<1>2. <<m>> \in Seq(Messages) /\ Len(<<m>>) = 1 /\ <<m>>[1] = m /\ \A i \in 1..1 : i = 1
  BY OneMessage DEF Messages
<1>3. m.type # "output" /\ m.type # "reply"
  BY DEF ListEvents
<1> DEFINE q == <<m>>
<1>4. \A i \in 1..Len(q) : q[i].type # "output" /\ q[i].type # "reply"
  BY <1>2, <1>3
<1>5. q \in Seq(Events)
  OBVIOUS
<1>6. outputs \in Seq(Queries) /\ outputs' = outputs /\ AnswersNews
  BY DEF TypeOK, AnswersNews
<1> HIDE DEF q
<1>7. OutputNews(q)
  BY <1>2, <1>4, <1>6, OutputNewsNeutral DEF q
<1>8. QED BY <1>1, <1>5, <1>6, <1>7, EventNews DEF q

LEMMA SpendTypes ==
  ASSUME TypeOK, NEW kind \in Traffic, Spend(kind)
  PROVE  budget' \in [Traffic -> Nat]
BY DEF TypeOK, Spend

LEMMA CreatedNews ==
  ASSUME TypeOK, NEW s \in Sessions, SessionCreated(s) PROVE \E ms : News(ms)
<1> DEFINE m == Updated(s, 1, TRUE)
<1>1. m \in Events /\ m.type = "updated" /\ m.session = s /\ m.version = 1
  <2>1. m \in Events
    BY Sendable
  <2>2. QED BY <2>1 DEF Updated
<1>2. budget' \in [Traffic -> Nat]
  BY SpendTypes DEF SessionCreated, Traffic
<1>3. /\ Emit(<<m>>) /\ UNCHANGED <<window, asked, rendererVars, outputs, answers>>
      /\ manager' = [manager EXCEPT ![s] = 1] /\ UNCHANGED <<removed, control, prompts, queue>>
      /\ running' = (running \/ s = Viewed)
  BY DEF SessionCreated
<1>4. MainTypes'
  BY <1>2, <1>3 DEF TypeOK, MainTypes
<1> HIDE DEF m
<1>5. \A f \in Fields, x \in Sessions \ {s} : Actual(f, x)' = Actual(f, x)
  BY <1>3 DEF TypeOK, Fields, Actual
<1>6. \A f \in Fields : IF Touches(m, f, s) THEN Actual(f, s)' = Said(m, f)
                        ELSE Actual(f, s)' = Actual(f, s)
  BY <1>1, <1>3 DEF TypeOK, Fields, Actual, Touches, Said
<1>7. News(<<m>>)
  BY <1>1, <1>3, <1>4, <1>5, <1>6, ListEventNews DEF ListEvents
<1>8. QED BY <1>7

LEMMA UpdatedNews ==
  ASSUME TypeOK, NEW s \in Sessions, SessionUpdated(s) PROVE \E ms : News(ms)
<1>1. PICK r \in {running, FALSE} :
          running' = r /\ Emit(<<Updated(s, manager[s] + 1, r)>>)
  BY DEF SessionUpdated
<1> DEFINE m == Updated(s, manager[s] + 1, r)
<1>2. r \in BOOLEAN /\ manager[s] + 1 \in Nat
  <2>1. running \in BOOLEAN /\ manager[s] \in Nat
    BY DEF TypeOK
  <2>2. r \in {running, FALSE}
    BY <1>1
  <2>3. r \in BOOLEAN
    BY <2>1, <2>2, Zenon
  <2>4. manager[s] + 1 \in Nat
    BY <2>1
  <2>5. QED BY <2>3, <2>4
<1>3. m \in Events /\ m.type = "updated" /\ m.session = s /\ m.version = manager[s] + 1
  <2>1. m \in Events
    BY <1>2, Sendable
  <2>2. QED BY <2>1 DEF Updated
<1>4. budget' \in [Traffic -> Nat]
  BY SpendTypes DEF SessionUpdated, Traffic
<1>5. /\ Emit(<<m>>) /\ UNCHANGED <<window, asked, rendererVars, outputs, answers>>
      /\ manager' = [manager EXCEPT ![s] = manager[s] + 1]
      /\ UNCHANGED <<removed, control, prompts, queue>>
  BY <1>1 DEF SessionUpdated
<1>6. MainTypes'
  <2>1. manager' \in [Sessions -> Nat]
    BY <1>2, <1>5 DEF TypeOK
  <2>2. QED BY <1>1, <1>2, <1>4, <1>5, <2>1 DEF TypeOK, MainTypes
<1> HIDE DEF m
<1>7. \A f \in Fields, x \in Sessions \ {s} : Actual(f, x)' = Actual(f, x)
  BY <1>5 DEF TypeOK, Fields, Actual
<1>8. \A f \in Fields : IF Touches(m, f, s) THEN Actual(f, s)' = Said(m, f)
                        ELSE Actual(f, s)' = Actual(f, s)
  BY <1>3, <1>5 DEF TypeOK, Fields, Actual, Touches, Said
<1>9. News(<<m>>)
  BY <1>3, <1>5, <1>6, <1>7, <1>8, ListEventNews DEF ListEvents
<1>10. QED BY <1>9

LEMMA ControlNews ==
  ASSUME TypeOK, NEW s \in Sessions, ControlChanged(s) PROVE \E ms : News(ms)
<1>1. PICK c \in {"detached", "attached"} :
          control' = [control EXCEPT ![s] = c] /\ Emit(<<Control(s, c)>>)
  BY DEF ControlChanged
<1> DEFINE m == Control(s, c)
<1>2. c \in ControlStates
  BY DEF ControlStates
<1>3. m \in Events /\ m.type = "control" /\ m.session = s /\ m.state = c
  <2>1. m \in Events
    BY <1>2, Sendable
  <2>2. QED BY <2>1 DEF Control
<1>4. budget' \in [Traffic -> Nat]
  BY SpendTypes DEF ControlChanged, Traffic
<1>5. /\ Emit(<<m>>) /\ UNCHANGED <<window, asked, rendererVars, outputs, answers>>
      /\ UNCHANGED <<manager, removed, running, prompts, queue>>
  BY <1>1 DEF ControlChanged
<1>6. MainTypes'
  <2>1. control' \in [Sessions -> ControlStates]
    BY <1>1, <1>2 DEF TypeOK
  <2>2. QED BY <1>4, <1>5, <2>1 DEF TypeOK, MainTypes
<1> HIDE DEF m
<1>7. \A f \in Fields, x \in Sessions \ {s} : Actual(f, x)' = Actual(f, x)
  BY <1>1, <1>5 DEF TypeOK, Fields, Actual
<1>8. \A f \in Fields : IF Touches(m, f, s) THEN Actual(f, s)' = Said(m, f)
                        ELSE Actual(f, s)' = Actual(f, s)
  BY <1>1, <1>3, <1>5 DEF TypeOK, Fields, Actual, Touches, Said
<1>9. News(<<m>>)
  BY <1>3, <1>5, <1>6, <1>7, <1>8, ListEventNews DEF ListEvents
<1>10. QED BY <1>9

LEMMA ForgetTypes ==
  ASSUME TypeOK, NEW s \in Sessions, Forget(s)
  PROVE  /\ manager' \in [Sessions -> Nat] /\ removed' \subseteq Sessions
         /\ control' \in [Sessions -> ControlStates]
         /\ manager'[s] = 0 /\ control'[s] = "detached"
         /\ \A x \in Sessions \ {s} : manager'[x] = manager[x] /\ control'[x] = control[x]
BY DEF TypeOK, Forget, ControlStates

LEMMA RemovedNews ==
  ASSUME TypeOK, NEW s \in Sessions, SessionRemoved(s) PROVE \E ms : News(ms)
<1>1. /\ Forget(s) /\ Emit(Gone(s))
      /\ UNCHANGED <<running, prompts, queue, outputs, answers, window, asked, rendererVars>>
  BY DEF SessionRemoved
<1>2. budget' \in [Traffic -> Nat]
  BY SpendTypes DEF SessionRemoved, Traffic
<1>3. /\ manager' \in [Sessions -> Nat] /\ removed' \subseteq Sessions
      /\ control' \in [Sessions -> ControlStates]
      /\ manager'[s] = 0 /\ control'[s] = "detached"
      /\ \A x \in Sessions \ {s} : manager'[x] = manager[x] /\ control'[x] = control[x]
  BY <1>1, ForgetTypes
<1>4. MainTypes'
  BY <1>1, <1>2, <1>3 DEF TypeOK, MainTypes
<1> DEFINE q == Gone(s)
<1>5. /\ q \in Seq(Events) /\ q # <<>> /\ q[Len(q)] = Removed(s)
      /\ \A i \in 1..Len(q) : q[i].type \in {"control", "removed"} /\ q[i].session = s
  BY GoneParts
<1>e. Emit(q)
  BY <1>1
<1> HIDE DEF q
<1>6. \A i \in 1..Len(q) : q[i].type \in ListEvents /\ q[i].session = s
  BY <1>5 DEF ListEvents
<1>7. ListNews(q)
  BY <1>3, <1>5, <1>6, ListNewsRemoved
<1>8. outputs \in Seq(Queries) /\ outputs' = outputs /\ AnswersNews
  BY <1>1 DEF TypeOK, AnswersNews
<1>9. OutputNews(q)
  <2>1. q \in Seq(Messages)
    BY <1>5, EventsAnswerNothing
  <2>2. \A i \in 1..Len(q) : q[i].type # "output" /\ q[i].type # "reply"
    BY <1>5
  <2>3. QED BY <1>8, <2>1, <2>2, OutputNewsNeutral
<1>10. News(q)
  BY <1>1, <1>e, <1>4, <1>5, <1>7, <1>8, <1>9, EventNews
<1>11. QED BY <1>10

LEMMA WrittenNews ==
  ASSUME TypeOK, OutputWritten PROVE \E ms : News(ms)
<1>1. PICK q \in {"plain", "returned", "failed"} :
          /\ outputs' = Append(outputs, q)
          /\ answers' = Append(answers, IF q = "returned" THEN 1 ELSE 0)
          /\ Emit(<<Output(Len(outputs) + 1, q)>>)
  BY DEF OutputWritten
<1>2. budget' \in [Traffic -> Nat]
  BY SpendTypes DEF OutputWritten, Traffic
<1>3. UNCHANGED <<manager, removed, running, control, prompts, queue, window, asked, rendererVars>>
  BY DEF OutputWritten
<1>4. q \in Queries
  BY DEF Queries
<1>5. MainTypes'
  <2>1. outputs' \in Seq(Queries) /\ answers' \in Seq(Nat)
    BY <1>1, <1>4 DEF TypeOK
  <2>2. QED BY <1>2, <1>3, <2>1 DEF TypeOK, MainTypes
<1> DEFINE m == Output(Len(outputs) + 1, q)
<1>6. m \in Events /\ m.type = "output"
  <2>1. Len(outputs) + 1 \in Nat
    BY LenProperties DEF TypeOK
  <2>2. m \in Events
    BY <1>4, <2>1, Sendable
  <2>3. QED BY <2>2 DEF Output
<1>7. OutputNews(<<m>>)
  BY <1>1, <1>4, OutputNewsOne DEF TypeOK
<1> HIDE DEF m
<1>8. <<m>> \in Seq(Messages) /\ Len(<<m>>) = 1 /\ <<m>>[1] = m /\ \A i \in 1..1 : i = 1
  BY <1>6, OneMessage DEF Messages
<1>9. ListNews(<<m>>)
  <2>1. \A i \in 1..Len(<<m>>) : <<m>>[i].type = "output"
    BY <1>6, <1>8
  <2>2. QED BY <1>3, <1>8, <2>1, ListNewsNeutral DEF ListEvents
<1>10. AnswersNews
  BY <1>1, <1>4 DEF AnswersNews
<1>11. <<m>> \in Seq(Events)
  BY <1>6
<1>12. Emit(<<m>>)
  BY <1>1 DEF m
<1>13. News(<<m>>)
  BY <1>3, <1>5, <1>7, <1>9, <1>10, <1>11, <1>12, EventNews
<1>14. QED BY <1>13

\* The prompts change nothing of the sessions and write no output.
LEMMA PromptEventNews ==
  ASSUME TypeOK, NEW m \in Events, m.type \in {"requested", "resolved"}, Emit(<<m>>),
         UNCHANGED <<window, asked, rendererVars, outputs, answers, manager, control>>, MainTypes'
  PROVE  News(<<m>>)
<1>1. <<m>> \in Seq(Messages) /\ Len(<<m>>) = 1 /\ <<m>>[1] = m /\ \A i \in 1..1 : i = 1
  BY OneMessage DEF Messages
<1> DEFINE q == <<m>>
<1>2. q \in Seq(Events)
  OBVIOUS
<1>3. \A i \in 1..Len(q) : q[i].type \in {"requested", "resolved"}
  BY <1>1
<1>e. Emit(q)
  OBVIOUS
<1>4. q \in Seq(Messages)
  BY <1>1
<1> HIDE DEF q
<1>5. ListNews(q)
  BY <1>3, <1>4, ListNewsNeutral DEF ListEvents
<1>6. outputs \in Seq(Queries) /\ outputs' = outputs /\ AnswersNews
  BY DEF TypeOK, AnswersNews
<1>7. OutputNews(q)
  BY <1>3, <1>4, <1>6, OutputNewsNeutral
<1>8. News(q)
  BY <1>e, <1>2, <1>5, <1>6, <1>7, EventNews
<1>9. QED BY <1>8 DEF q

LEMMA SettleTypes ==
  ASSUME TypeOK, NEW p \in Prompts, NEW o \in {"answered", "timeout", "cancelled"}, Settle(p, o)
  PROVE  /\ prompts' \in [Prompts -> {"idle", "pending", "answered", "timeout", "cancelled"}]
         /\ queue' \in Seq(Prompts)
<1>1. prompts' \in [Prompts -> {"idle", "pending", "answered", "timeout", "cancelled"}]
  BY DEF TypeOK, Settle
<1>2. queue \in Seq(Prompts) /\ queue' = RemoveFirst(queue, p)
  BY DEF TypeOK, Settle, Without
<1>3. QED BY <1>1, <1>2, RemovedFirst

\* Nothing is told.
LEMMA SilentNews ==
  ASSUME TypeOK, UNCHANGED <<channel, window, asked, rendererVars, outputs, answers, manager, control>>,
         MainTypes'
  PROVE  News(<<>>)
<1>1. <<>> \in Seq(Messages) /\ <<>> \in Seq(Events) /\ 1..Len(<<>>) = {}
  OBVIOUS
<1>2. ListNews(<<>>)
  BY <1>1, ListNewsNeutral
<1>3. outputs \in Seq(Queries) /\ outputs' = outputs /\ AnswersNews
  BY DEF TypeOK, AnswersNews
<1>4. OutputNews(<<>>)
  BY <1>1, <1>3, OutputNewsNeutral
<1>5. Emit(<<>>)
  BY ConcatEmptySeq DEF Emit, TypeOK
<1>6. QED BY <1>1, <1>2, <1>3, <1>4, <1>5, EventNews

LEMMA RequestedNews ==
  ASSUME TypeOK, NEW p \in Prompts, PromptRequested(p) PROVE \E ms : News(ms)
<1>1. budget' \in [Traffic -> Nat]
  BY SpendTypes DEF PromptRequested, Traffic
<1>2. UNCHANGED <<manager, removed, running, control, outputs, answers, window, asked, rendererVars>>
  BY DEF PromptRequested
<1>3. Requested(p) \in Events /\ Requested(p).type = "requested"
      /\ Resolved(p) \in Events /\ Resolved(p).type = "resolved"
  BY Sendable DEF Requested, Resolved
<1>4. CASE prompts' = [prompts EXCEPT ![p] = "cancelled"] /\ UNCHANGED <<queue, channel>>
  <2>1. MainTypes'
    BY <1>1, <1>2, <1>4 DEF TypeOK, MainTypes
  <2>2. News(<<>>)
    BY <1>2, <1>4, <2>1, SilentNews
  <2>3. QED BY <2>2
<1>5. CASE /\ prompts' = [prompts EXCEPT ![p] = "pending"] /\ queue' = Append(queue, p)
           /\ Emit(<<Requested(p)>>)
  <2>1. queue' \in Seq(Prompts)
    BY <1>5 DEF TypeOK
  <2>2. MainTypes'
    BY <1>1, <1>2, <1>5, <2>1 DEF TypeOK, MainTypes
  <2>3. News(<<Requested(p)>>)
    BY <1>2, <1>3, <1>5, <2>2, PromptEventNews
  <2>4. QED BY <2>3
<1>6. CASE Settle(p, "cancelled") /\ Emit(<<Resolved(p)>>)
  <2>1. /\ prompts' \in [Prompts -> {"idle", "pending", "answered", "timeout", "cancelled"}]
        /\ queue' \in Seq(Prompts)
    BY <1>6, SettleTypes
  <2>2. MainTypes'
    BY <1>1, <1>2, <2>1 DEF TypeOK, MainTypes
  <2>3. News(<<Resolved(p)>>)
    BY <1>2, <1>3, <1>6, <2>2, PromptEventNews
  <2>4. QED BY <2>3
<1>7. QED BY <1>4, <1>5, <1>6 DEF PromptRequested

LEMMA EndedNews ==
  ASSUME TypeOK, NEW p \in Prompts, PromptEnded(p) PROVE \E ms : News(ms)
<1>1. PICK o \in {"timeout", "cancelled"} : Settle(p, o)
  BY DEF PromptEnded
<1>2. /\ UNCHANGED <<manager, removed, running, control, outputs, answers, window, asked, rendererVars, budget>>
      /\ Emit(<<Resolved(p)>>)
  BY DEF PromptEnded
<1>3. Resolved(p) \in Events /\ Resolved(p).type = "resolved"
  BY Sendable DEF Resolved
<1>4. /\ prompts' \in [Prompts -> {"idle", "pending", "answered", "timeout", "cancelled"}]
      /\ queue' \in Seq(Prompts)
  BY <1>1, SettleTypes
<1>5. MainTypes'
  BY <1>2, <1>4 DEF TypeOK, MainTypes
<1>6. News(<<Resolved(p)>>)
  BY <1>2, <1>3, <1>5, PromptEventNews
<1>7. QED BY <1>6

-----------------------------------------------------------------------------
\* The commands, one by one.

LEMMA ServedSnapshotNews ==
  ASSUME TypeOK, NEW r \in asked, ServeSnapshot(r), UNCHANGED <<window, rendererVars>>
  PROVE  \E ms : News(ms)
<1> DEFINE v == CASE r.kind = "sessions" -> manager [] r.kind = "controls" -> control [] OTHER -> queue
           a == Reply(r.kind, v)
<1>1. r.kind \in {"sessions", "controls", "prompts"} /\ asked' = asked \ {r} /\ Emit(<<a>>)
      /\ UNCHANGED <<mainVars, budget>>
  BY DEF ServeSnapshot, Answered
<1>2. a \in Replies
  <2>1. CASE r.kind = "sessions"
    BY <2>1, Sendable DEF TypeOK
  <2>2. CASE r.kind = "controls"
    BY <2>2, Sendable DEF TypeOK
  <2>3. CASE r.kind = "prompts"
    BY <2>3, Sendable DEF TypeOK
  <2>4. QED BY <1>1, <2>1, <2>2, <2>3
<1>3. a \in Messages /\ a.type = "reply" /\ a.to = r.kind /\ a.value = v
  <2>1. a \in Messages
    BY <1>2 DEF Messages
  <2>2. QED BY <2>1 DEF Reply
<1>4. a.to \in Fields => \A s \in Sessions : a.value[s] = Actual(a.to, s)
  BY <1>3 DEF Fields, Actual
<1>5. MainTypes /\ MainTypes'
  BY <1>1 DEF TypeOK, MainTypes, mainVars
<1>6. UNCHANGED <<window, rendererVars, outputs, answers, manager, control>>
  BY <1>1 DEF mainVars
<1> HIDE DEF a
<1>7. News(<<a>>)
  BY <1>1, <1>3, <1>4, <1>5, <1>6, PlainAnswerNews
<1>8. QED BY <1>7

LEMMA ServedControlNews ==
  ASSUME TypeOK, NEW r \in asked, ServeControl(r), UNCHANGED <<window, rendererVars>>
  PROVE  \E ms : News(ms)
<1> DEFINE s == r.session
           c == ControlSet(s, r.state)
           e == Control(s, c)
           a == Reply("change", e)
           es == IF control[s] = c THEN <<>> ELSE <<e>>
<1>1. r.kind = "change" /\ asked' = asked \ {r}
      /\ UNCHANGED <<manager, removed, running, prompts, queue, outputs, answers, budget>>
  BY DEF ServeControl, Answered
<1>2. s \in Sessions /\ c \in ControlStates
  BY <1>1 DEF TypeOK, Requests, Plain, ControlSet, ControlStates
<1> HIDE DEF c
<1>3. e \in Events /\ e.type = "control" /\ e.session = s /\ e.state = c
  <2>1. e \in Events
    BY <1>2, Sendable
  <2>2. QED BY <2>1 DEF Control
<1>4. CASE control' = [control EXCEPT ![s] = c] /\ Emit(es \o <<a>>)
  <2>1. a \in Messages /\ a.type = "reply" /\ a.to = "change" /\ a.value = e
    <3>1. a \in Replies
      BY <1>2, Sendable
    <3>2. QED BY <3>1 DEF Reply, Messages
  <2>2. MainTypes /\ MainTypes'
    <3>1. control' \in [Sessions -> ControlStates]
      BY <1>2, <1>4 DEF TypeOK
    <3>2. QED BY <1>1, <3>1 DEF TypeOK, MainTypes
  <2>3. es \in Seq(Events) /\ ListNews(es) /\ \A i \in 1..Len(es) : es[i].type # "output"
    <3>1. CASE control[s] = c
      <4>1. es = <<>> /\ <<>> \in Seq(Events) /\ <<>> \in Seq(Messages) /\ 1..Len(<<>>) = {}
        BY <3>1
      <4>2. UNCHANGED <<manager, control>>
        BY <1>1, <1>2, <1>4, <3>1 DEF TypeOK
      <4>3. ListNews(<<>>)
        BY <4>1, <4>2, ListNewsNeutral
      <4>4. QED BY <4>1, <4>3
    <3>2. CASE control[s] # c
      <4>1. es = <<e>>
        BY <3>2
      <4>2. \A f \in Fields, x \in Sessions \ {s} : Actual(f, x)' = Actual(f, x)
        BY <1>1, <1>2, <1>4 DEF TypeOK, Fields, Actual
      <4>3. \A f \in Fields : IF Touches(e, f, s) THEN Actual(f, s)' = Said(e, f)
                              ELSE Actual(f, s)' = Actual(f, s)
        BY <1>1, <1>2, <1>3, <1>4 DEF TypeOK, Fields, Actual, Touches, Said
      <4> HIDE DEF es, e
      <4>4. ListNews(<<e>>)
        BY <1>2, <1>3, <4>2, <4>3, ListNewsOne DEF ListEvents
      <4>5. <<e>> \in Seq(Events) /\ Len(<<e>>) = 1 /\ <<e>>[1] = e
        BY <1>3
      <4>6. \A i \in 1..1 : i = 1
        OBVIOUS
      <4>7. QED BY <1>3, <4>1, <4>4, <4>5, <4>6
    <3>3. QED BY <3>1, <3>2
  <2>4. control'[s] = c
    BY <1>2, <1>4 DEF TypeOK
  <2>5. es \in Seq(Messages)
    BY <2>3, EventsAnswerNothing
  <2>6. Emit(es \o <<a>>)
    BY <1>4
  <2> HIDE DEF es, a, e
  <2>7. ListNews(es \o <<a>>)
    BY <1>2, <1>3, <2>1, <2>3, <2>4, <2>5, ListNewsAnswered DEF ListEvents, Fields
  <2>8. UNCHANGED <<window, rendererVars, outputs, answers>>
    BY <1>1
  <2>9. News(es \o <<a>>)
    BY <1>1, <2>1, <2>2, <2>3, <2>6, <2>7, <2>8, AnswerNews
  <2>10. QED BY <2>9
<1>5. CASE Emit(<<Failure("change")>>) /\ UNCHANGED control
  <2> DEFINE g == Failure("change")
  <2>1. g \in Messages /\ g.type = "failure" /\ g.to = "change"
    <3>1. g \in Messages
      BY Sendable
    <3>2. QED BY <3>1 DEF Failure
  <2>2. MainTypes /\ MainTypes'
    BY <1>1, <1>5 DEF TypeOK, MainTypes
  <2>e. Emit(<<g>>)
    BY <1>5
  <2> HIDE DEF g
  <2>3. News(<<g>>)
    BY <1>1, <1>5, <2>1, <2>2, <2>e, PlainAnswerNews
  <2>4. QED BY <2>3
<1>6. QED BY <1>4, <1>5 DEF ServeControl, c

LEMMA ServedResolveNews ==
  ASSUME TypeOK, NEW r \in asked, ServeResolve(r), UNCHANGED <<window, rendererVars>>
  PROVE  \E ms : News(ms)
<1> DEFINE p == r.prompt
           e == Resolved(p)
           a == Reply("resolve", p)
<1>1. r.kind = "resolve" /\ asked' = asked \ {r}
      /\ UNCHANGED <<manager, removed, running, control, outputs, answers, budget>>
  BY DEF ServeResolve, Answered
<1>2. p \in Prompts
  BY <1>1 DEF TypeOK, Requests, Plain
<1>3. e \in Events /\ e.type = "resolved" /\ e \in Messages
  <2>1. e \in Events
    BY <1>2, Sendable
  <2>2. QED BY <2>1 DEF Resolved, Messages
<1>4. a \in Messages /\ a.type = "reply" /\ a.to = "resolve" /\ a.value = p
  <2>1. a \in Replies
    BY <1>2, Sendable
  <2>2. QED BY <2>1 DEF Reply, Messages
<1>5. UNCHANGED <<window, rendererVars, outputs, answers, manager, control>>
  BY <1>1
<1>6. CASE Settle(p, "answered") /\ Emit(<<e, a>>)
  <2>1. /\ prompts' \in [Prompts -> {"idle", "pending", "answered", "timeout", "cancelled"}]
        /\ queue' \in Seq(Prompts)
    BY <1>2, <1>6, SettleTypes
  <2>2. MainTypes /\ MainTypes'
    BY <1>1, <2>1 DEF TypeOK, MainTypes
  <2>e. Emit(<<e, a>>)
    BY <1>6
  <2> HIDE DEF e, a
  <2>3. <<e>> \o <<a>> = <<e, a>>
    BY <1>3, <1>4, PairConcat
  <2>4. <<e>> \in Seq(Messages) /\ <<e>> \in Seq(Events) /\ Len(<<e>>) = 1 /\ <<e>>[1] = e
    BY <1>3
  <2>5. \A i \in 1..1 : i = 1
    OBVIOUS
  <2>6. ListNews(<<e>>)
    <3>1. \A i \in 1..Len(<<e>>) : <<e>>[i].type = "resolved"
      BY <1>3, <2>4, <2>5
    <3>2. QED BY <1>5, <2>4, <3>1, ListNewsNeutral DEF ListEvents
  <2>7. ListNews(<<e>> \o <<a>>)
    BY <1>4, <2>4, <2>6, ListNewsAnswered DEF ListEvents, Fields
  <2>8. \A i \in 1..Len(<<e>>) : <<e>>[i].type # "output"
    BY <1>3, <2>4, <2>5
  <2>9. News(<<e>> \o <<a>>)
    BY <1>1, <1>4, <1>5, <2>2, <2>3, <2>e, <2>4, <2>7, <2>8, AnswerNews
  <2>10. QED BY <2>9
<1>7. CASE Emit(<<a>>) /\ UNCHANGED <<prompts, queue>>
  <2>1. MainTypes /\ MainTypes'
    BY <1>1, <1>7 DEF TypeOK, MainTypes
  <2>e. Emit(<<a>>)
    BY <1>7
  <2> HIDE DEF a
  <2>2. News(<<a>>)
    BY <1>1, <1>4, <1>5, <2>1, <2>e, PlainAnswerNews DEF Fields
  <2>3. QED BY <2>2
<1>8. QED BY <1>6, <1>7 DEF ServeResolve

LEMMA ServedCreateNews ==
  ASSUME TypeOK, ViewedAssumption, NEW r \in asked, ServeCreate(r), UNCHANGED <<window, rendererVars>>
  PROVE  \E ms : News(ms)
<1> DEFINE e == Updated(Viewed, 1, TRUE)
           a == Reply("create", TRUE)
<1>1. /\ r.kind = "create" /\ asked' = asked \ {r} /\ Emit(<<e, a>>)
      /\ manager' = [manager EXCEPT ![Viewed] = 1] /\ running' = TRUE
      /\ UNCHANGED <<removed, control, prompts, queue, outputs, answers, budget>>
  BY DEF ServeCreate, Answered
<1>2. Viewed \in Sessions
  BY DEF ViewedAssumption
<1>3. e \in Events /\ e.type = "updated" /\ e.session = Viewed /\ e.version = 1 /\ e \in Messages
  <2>1. e \in Events
    BY <1>2, Sendable
  <2>2. QED BY <2>1 DEF Updated, Messages
<1>4. a \in Messages /\ a.type = "reply" /\ a.to = "create"
  <2>1. a \in Replies
    BY Sendable
  <2>2. QED BY <2>1 DEF Reply, Messages
<1>5. MainTypes /\ MainTypes'
  BY <1>1, <1>2 DEF TypeOK, MainTypes
<1> HIDE DEF e, a
<1>6. /\ <<e>> \o <<a>> = <<e, a>> /\ <<e>> \in Seq(Messages) /\ <<e>> \in Seq(Events)
      /\ Len(<<e>>) = 1 /\ <<e>>[1] = e
  BY <1>3, <1>4, PairConcat
<1>7. \A i \in 1..1 : i = 1
  OBVIOUS
<1>8. ListNews(<<e>>)
  <2>1. \A f \in Fields, x \in Sessions \ {Viewed} : Actual(f, x)' = Actual(f, x)
    BY <1>1, <1>2 DEF TypeOK, Fields, Actual
  <2>2. \A f \in Fields : IF Touches(e, f, Viewed) THEN Actual(f, Viewed)' = Said(e, f)
                          ELSE Actual(f, Viewed)' = Actual(f, Viewed)
    BY <1>1, <1>2, <1>3 DEF TypeOK, Fields, Actual, Touches, Said
  <2>3. QED BY <1>2, <1>3, <2>1, <2>2, ListNewsOne DEF ListEvents
<1>9. ListNews(<<e>> \o <<a>>)
  BY <1>4, <1>6, <1>8, ListNewsAnswered DEF ListEvents, Fields
<1>10. \A i \in 1..Len(<<e>>) : <<e>>[i].type # "output"
  BY <1>3, <1>6, <1>7
<1>11. UNCHANGED <<window, rendererVars, outputs, answers>>
  BY <1>1
<1>12. News(<<e>> \o <<a>>)
  BY <1>1, <1>4, <1>5, <1>6, <1>9, <1>10, <1>11, AnswerNews
<1>13. QED BY <1>12

LEMMA ServedViewNews ==
  ASSUME TypeOK, NEW r \in asked, ServeView(r), UNCHANGED <<window, rendererVars>>
  PROVE  \E ms : News(ms)
<1> DEFINE a == IF manager[Viewed] > 0
                THEN Reply(r.kind, [sequence |-> Len(outputs), running |-> running])
                ELSE Failure(r.kind)
<1>1. /\ r.kind \in {"attach", "view"} /\ asked' = asked \ {r} /\ Emit(<<a>>)
      /\ UNCHANGED <<mainVars, budget>>
  BY DEF ServeView, Answered
<1>2. /\ a \in Messages /\ a.type \in {"reply", "failure"} /\ a.to = r.kind
      /\ a.type = "reply" => a.value.sequence = Len(outputs)
  <2>1. CASE manager[Viewed] > 0
    <3> DEFINE b == Reply(r.kind, [sequence |-> Len(outputs), running |-> running])
    <3>0. Len(outputs) \in Nat /\ running \in BOOLEAN
      BY LenProperties DEF TypeOK
    <3>1. b \in Replies
      BY <1>1, <3>0, Sendable
    <3>2. a = b
      BY <2>1
    <3>3. b \in Messages /\ b.type = "reply" /\ b.to = r.kind /\ b.value.sequence = Len(outputs)
      BY <3>1 DEF Messages, Reply
    <3> HIDE DEF a, b
    <3>4. QED BY <3>2, <3>3
  <2>2. CASE ~(manager[Viewed] > 0)
    <3> DEFINE b == Failure(r.kind)
    <3>1. b \in Messages
      BY <1>1, Sendable DEF Plain
    <3>2. a = b
      BY <2>2
    <3>3. b.type = "failure" /\ b.to = r.kind
      BY DEF Failure
    <3> HIDE DEF a, b
    <3>4. QED BY <3>1, <3>2, <3>3
  <2>3. QED BY <2>1, <2>2
<1>3. MainTypes /\ MainTypes'
  BY <1>1 DEF TypeOK, MainTypes, mainVars
<1>4. UNCHANGED <<window, rendererVars, outputs, answers, manager, control>>
  BY <1>1 DEF mainVars
<1> HIDE DEF a
<1>5. News(<<a>>)
  BY <1>1, <1>2, <1>3, <1>4, PlainAnswerNews DEF Fields
<1>6. QED BY <1>5

LEMMA ServedCloseNews ==
  ASSUME TypeOK, ViewedAssumption, NEW r \in asked, ServeClose(r), UNCHANGED <<window, rendererVars>>
  PROVE  \E ms : News(ms)
<1>1. r.kind = "close" /\ asked' = asked \ {r}
  BY DEF ServeClose, Answered
<1>2. Viewed \in Sessions /\ MainTypes
  BY DEF ViewedAssumption, TypeOK, MainTypes
<1> DEFINE x == IF running THEN <<Updated(Viewed, manager[Viewed] + 1, FALSE)>> ELSE <<>>
           g == Gone(Viewed)
           a == Reply("close", TRUE)
<1>3. CASE /\ running' = FALSE /\ Forget(Viewed) /\ Emit(x \o g \o <<a>>)
           /\ UNCHANGED <<prompts, queue, outputs, answers, budget>>
  <2>1. /\ manager' \in [Sessions -> Nat] /\ removed' \subseteq Sessions
        /\ control' \in [Sessions -> ControlStates]
        /\ manager'[Viewed] = 0 /\ control'[Viewed] = "detached"
        /\ \A y \in Sessions \ {Viewed} : manager'[y] = manager[y] /\ control'[y] = control[y]
    BY <1>2, <1>3, ForgetTypes
  <2>2. MainTypes'
    BY <1>3, <2>1 DEF TypeOK, MainTypes
  <2>3. /\ g \in Seq(Events) /\ g # <<>> /\ g[Len(g)] = Removed(Viewed)
        /\ \A i \in 1..Len(g) : g[i].type \in {"control", "removed"} /\ g[i].session = Viewed
    BY <1>2, GoneParts
  <2>4. x \in Seq(Events) /\ \A i \in 1..Len(x) : x[i].type = "updated" /\ x[i].session = Viewed
    <3>1. CASE running
      <4> DEFINE u == Updated(Viewed, manager[Viewed] + 1, FALSE)
      <4>1. manager[Viewed] + 1 \in Nat
        BY <1>2 DEF TypeOK
      <4>2. u \in Events
        BY <1>2, <4>1, Sendable
      <4>3. u.type = "updated" /\ u.session = Viewed
        BY DEF Updated
      <4>4. x = <<u>>
        BY <3>1
      <4> HIDE DEF u, x
      <4>5. <<u>> \in Seq(Events) /\ Len(<<u>>) = 1 /\ <<u>>[1] = u /\ \A i \in 1..1 : i = 1
        BY <4>2
      <4>6. QED BY <4>3, <4>4, <4>5
    <3>2. CASE ~running
      <4>1. x = <<>>
        BY <3>2
      <4>2. <<>> \in Seq(Events) /\ 1..Len(<<>>) = {}
        OBVIOUS
      <4>3. QED BY <4>1, <4>2
    <3>3. QED BY <3>1, <3>2
  <2>5. a \in Messages /\ a.type = "reply" /\ a.to = "close"
    <3>1. a \in Replies
      BY Sendable
    <3>2. QED BY <3>1 DEF Reply, Messages
  <2> DEFINE es == x \o g
  <2>e. Emit(es \o <<a>>)
    BY <1>3
  <2> HIDE DEF x, g, a
  <2>6. /\ Len(x) \in Nat /\ Len(g) \in Nat /\ Len(g) > 0
        /\ es \in Seq(Events) /\ Len(es) = Len(x) + Len(g)
        /\ \A i \in 1..(Len(x) + Len(g)) : es[i] = IF i <= Len(x) THEN x[i] ELSE g[i - Len(x)]
    BY <2>3, <2>4, ConcatProperties, LenProperties, EmptySeq
  <2> HIDE DEF es
  <2>7. ASSUME NEW i \in 1..Len(es)
        PROVE  es[i].type \in {"updated", "control", "removed"} /\ es[i].session = Viewed
    <3>1. CASE i <= Len(x)
      <4>1. i \in 1..Len(x) /\ es[i] = x[i]
        BY <2>6, <3>1
      <4>2. QED BY <2>4, <4>1
    <3>2. CASE i > Len(x)
      <4>1. i - Len(x) \in 1..Len(g) /\ es[i] = g[i - Len(x)]
        BY <2>6, <3>2
      <4>2. QED BY <2>3, <4>1
    <3>3. i <= Len(x) \/ i > Len(x)
      BY <2>6
    <3>4. QED BY <3>1, <3>2, <3>3
  <2>8. es # <<>> /\ es[Len(es)] = Removed(Viewed)
    <3>1. Len(es) \in 1..(Len(x) + Len(g)) /\ ~(Len(es) <= Len(x)) /\ Len(es) - Len(x) = Len(g)
      BY <2>6
    <3>2. Len(<<>>) = 0
      OBVIOUS
    <3>3. QED BY <2>3, <2>6, <3>1, <3>2
  <2>9. ListNews(es)
    BY <1>2, <2>1, <2>6, <2>7, <2>8, ListNewsRemoved DEF ListEvents
  <2>10. es \in Seq(Messages)
    BY <2>6, EventsAnswerNothing
  <2>11. ListNews(es \o <<a>>)
    BY <2>5, <2>9, <2>10, ListNewsAnswered DEF ListEvents, Fields
  <2>12. UNCHANGED <<window, rendererVars, outputs, answers>> /\ \A i \in 1..Len(es) : es[i].type # "output"
    BY <1>3, <2>7
  <2>13. News(es \o <<a>>)
    BY <1>1, <1>2, <2>2, <2>5, <2>6, <2>e, <2>11, <2>12, AnswerNews
  <2>14. QED BY <2>13
<1>4. CASE Spend("losses") /\ Emit(<<Reply("close", FALSE)>>) /\ UNCHANGED mainVars
  <2> DEFINE b == Reply("close", FALSE)
  <2>1. b \in Messages /\ b.type = "reply" /\ b.to = "close"
    <3>1. b \in Replies
      BY Sendable
    <3>2. QED BY <3>1 DEF Reply, Messages
  <2>2. UNCHANGED <<window, rendererVars, outputs, answers, manager, control>>
    BY <1>4 DEF mainVars
  <2>3. budget' \in [Traffic -> Nat]
    BY <1>4, SpendTypes DEF Traffic
  <2>4. MainTypes'
    BY <1>4, <2>3 DEF TypeOK, MainTypes, mainVars
  <2>e. Emit(<<b>>)
    BY <1>4
  <2> HIDE DEF b
  <2>5. News(<<b>>)
    BY <1>1, <1>2, <2>1, <2>2, <2>4, <2>e, PlainAnswerNews DEF Fields
  <2>6. QED BY <2>5
<1>5. CASE Emit(<<Failure("close")>>) /\ UNCHANGED <<mainVars, budget>>
  <2> DEFINE b == Failure("close")
  <2>1. b \in Messages /\ b.type = "failure" /\ b.to = "close"
    <3>1. b \in Messages
      BY Sendable DEF Plain
    <3>2. QED BY <3>1 DEF Failure
  <2>2. UNCHANGED <<window, rendererVars, outputs, answers, manager, control>>
    BY <1>5 DEF mainVars
  <2>4. MainTypes'
    BY <1>5 DEF TypeOK, MainTypes, mainVars
  <2>e. Emit(<<b>>)
    BY <1>5
  <2> HIDE DEF b
  <2>5. News(<<b>>)
    BY <1>1, <1>2, <2>1, <2>2, <2>4, <2>e, PlainAnswerNews DEF Fields
  <2>6. QED BY <2>5
<1>6. QED BY <1>3, <1>4, <1>5 DEF ServeClose

LEMMA ServedCloseViewNews ==
  ASSUME TypeOK, NEW r \in asked, ServeCloseView(r), UNCHANGED <<window, rendererVars>>
  PROVE  \E ms : News(ms)
<1> DEFINE b == Reply("closeView", TRUE)
<1>1. r.kind = "closeView" /\ asked' = asked \ {r} /\ UNCHANGED <<mainVars, budget>> /\ Emit(<<b>>)
  BY DEF ServeCloseView, Answered
<1>2. b \in Messages /\ b.type = "reply" /\ b.to = "closeView"
  <2>1. b \in Replies
    BY Sendable
  <2>2. QED BY <2>1 DEF Reply, Messages
<1>3. UNCHANGED <<window, rendererVars, outputs, answers, manager, control>>
  BY <1>1 DEF mainVars
<1>4. MainTypes /\ MainTypes'
  BY <1>1 DEF TypeOK, MainTypes, mainVars
<1> HIDE DEF b
<1>5. News(<<b>>)
  BY <1>1, <1>2, <1>3, <1>4, PlainAnswerNews DEF Fields
<1>6. QED BY <1>5

LEMMA ServedFailureNews ==
  ASSUME TypeOK, NEW r \in asked, ServeFails(r), UNCHANGED <<window, rendererVars>>
  PROVE  \E ms : News(ms)
<1> DEFINE b == Failure(r.kind)
<1>1. /\ r.kind # "input" /\ asked' = asked \ {r} /\ UNCHANGED mainVars /\ Emit(<<b>>)
      /\ Spend("losses")
  BY DEF ServeFails, Answered
<1>2. r.kind \in Plain \cup {"change", "resolve"}
  BY <1>1 DEF TypeOK, Requests
<1>3. b \in Messages /\ b.type = "failure" /\ b.to = r.kind
  <2>1. b \in Messages
    BY <1>2, Sendable
  <2>2. QED BY <2>1 DEF Failure
<1>4. UNCHANGED <<window, rendererVars, outputs, answers, manager, control>>
  BY <1>1 DEF mainVars
<1>5. budget' \in [Traffic -> Nat]
  BY <1>1, SpendTypes DEF Traffic
<1>6. MainTypes /\ MainTypes'
  BY <1>1, <1>5 DEF TypeOK, MainTypes, mainVars
<1> HIDE DEF b
<1>7. News(<<b>>)
  BY <1>1, <1>3, <1>4, <1>6, PlainAnswerNews
<1>8. QED BY <1>7

LEMMA ServedInputNews ==
  ASSUME TypeOK, NEW r \in asked, ServeInput(r), UNCHANGED <<window, rendererVars>>
  PROVE  \E ms : News(ms)
<1>1. /\ r.kind = "input" /\ asked' = asked \ {r}
      /\ answers' = [answers EXCEPT ![r.chunk] = IF running THEN answers[r.chunk] + 1 ELSE answers[r.chunk]]
      /\ UNCHANGED <<manager, removed, running, control, prompts, queue, outputs, channel, budget>>
  BY DEF ServeInput, Answered
<1>2. answers' \in Seq(Nat)
  <2>1. answers \in Seq(Nat) /\ Len(answers) \in Nat /\ answers \in [1..Len(answers) -> Nat]
    BY LenProperties DEF TypeOK
  <2> DEFINE k == IF running THEN answers[r.chunk] + 1 ELSE answers[r.chunk]
  <2>2. r.chunk \in 1..Len(answers) => k \in Nat
    BY <2>1
  <2> HIDE DEF k
  <2>3. [answers EXCEPT ![r.chunk] = k] \in [1..Len(answers) -> Nat]
    BY <2>1, <2>2
  <2>4. QED BY <1>1, <2>1, <2>3, SeqDef DEF k
<1>3. MainTypes'
  BY <1>1, <1>2 DEF TypeOK, MainTypes
<1>4. <<>> \in Seq(Messages) /\ <<>> \in Seq(Events) /\ 1..Len(<<>>) = {}
  OBVIOUS
<1>5. ListNews(<<>>)
  BY <1>1, <1>4, ListNewsNeutral
<1>6. OutputNews(<<>>)
  BY <1>1, <1>4, OutputNewsNeutral DEF TypeOK
<1>7. Emit(<<>>)
  BY <1>1, ConcatEmptySeq DEF Emit, TypeOK
<1>8. AnswersNews
  BY <1>1 DEF AnswersNews
<1>9. TokenNews(<<>>)
  BY <1>4 DEF TokenNews
<1>10. News(<<>>)
  BY <1>1, <1>3, <1>4, <1>5, <1>6, <1>7, <1>8, <1>9 DEF News
<1>11. QED BY <1>10

\* The actions of the main process.
MainStep ==
    \/ \E s \in Sessions : SessionCreated(s) \/ SessionUpdated(s) \/ SessionRemoved(s) \/ ControlChanged(s)
    \/ OutputWritten
    \/ \E p \in Prompts : PromptRequested(p) \/ PromptEnded(p)
    \/ Serve

LEMMA MainNews ==
  ASSUME TypeOK, ViewedAssumption, MainStep PROVE \E ms : News(ms)
<1>1. CASE Serve
  <2>1. PICK r \in asked :
          /\ \/ ServeSnapshot(r) \/ ServeControl(r) \/ ServeResolve(r) \/ ServeCreate(r)
             \/ ServeView(r) \/ ServeClose(r) \/ ServeCloseView(r) \/ ServeInput(r) \/ ServeFails(r)
          /\ UNCHANGED <<window, rendererVars>>
    BY <1>1 DEF Serve
  <2>2. QED BY <2>1, ServedSnapshotNews, ServedControlNews, ServedResolveNews, ServedCreateNews,
               ServedViewNews, ServedCloseNews, ServedCloseViewNews, ServedInputNews, ServedFailureNews
<1>2. QED BY <1>1, CreatedNews, UpdatedNews, RemovedNews, ControlNews, WrittenNews, RequestedNews,
             EndedNews DEF MainStep

-----------------------------------------------------------------------------
(* The renderer: the events that the dialog and the terminal held back. *)

Begun(d, shown) == [d EXCEPT !.booting = FALSE, !.buffer = <<>>, !.shown = shown]

DialogRun(d, shown, N, run) ==
    /\ run[0] = Begun(d, shown)
    /\ \A n \in 1..N : run[n] = ApplyPromptEvent(run[n - 1], d.buffer[n])
    /\ DialogBooted(d, shown) = run[N]

LEMMA DialogFold ==
  ASSUME NEW l, NEW shown, NEW N \in Nat, Len(l.buffer) = N
  PROVE  \E run : DialogRun(l, shown, N, run)
<1> DEFINE base == Begun(l, shown)
           Fold(g, k) == [n \in 0..k |-> IF n = 0 THEN base
                                         ELSE ApplyPromptEvent(g[n - 1], l.buffer[n])]
           T == {k \in Nat : \E g : g = Fold(g, k)}
<1>1. 0 \in T
  <2> DEFINE g == [n \in 0..0 |-> base]
  <2>1. g = Fold(g, 0)
    OBVIOUS
  <2>2. QED BY <2>1
<1>2. ASSUME NEW k \in Nat, k \in T PROVE k + 1 \in T
  <2>1. PICK g : g = Fold(g, k)
    BY <1>2
  <2> DEFINE h == [n \in 0..(k + 1) |-> IF n <= k THEN g[n] ELSE ApplyPromptEvent(g[k], l.buffer[k + 1])]
  <2> HIDE DEF base
  <2>2. ASSUME NEW n \in 0..(k + 1)
        PROVE  h[n] = IF n = 0 THEN base ELSE ApplyPromptEvent(h[n - 1], l.buffer[n])
    <3>1. CASE n = 0
      BY <2>1, <3>1
    <3>2. CASE n # 0 /\ n <= k
      <4>1. n \in 0..k /\ n - 1 \in 0..(k + 1) /\ n - 1 <= k
        BY <3>2
      <4>2. g[n] = ApplyPromptEvent(g[n - 1], l.buffer[n])
        BY <2>1, <3>2, <4>1
      <4>3. h[n] = g[n] /\ h[n - 1] = g[n - 1]
        BY <3>2, <4>1
      <4>4. QED BY <3>2, <4>2, <4>3
    <3>3. CASE n = k + 1
      <4>1. h[n] = ApplyPromptEvent(g[k], l.buffer[k + 1]) /\ n - 1 = k /\ k \in 0..(k + 1)
        BY <3>3
      <4>2. h[k] = g[k]
        BY <4>1
      <4>3. QED BY <3>3, <4>1, <4>2
    <3>4. QED BY <3>1, <3>2, <3>3
  <2>3. h = Fold(h, k + 1)
    BY <2>2
  <2> HIDE DEF h
  <2>4. QED BY <2>3
<1>3. N \in T
  <2> HIDE DEF T
  <2>1. QED BY <1>1, <1>2, NatSetInduction
<1>4. PICK g : g = Fold(g, N)
  BY <1>3
<1> DEFINE applied == CHOOSE a : a = Fold(a, N)
<1>5. applied = Fold(applied, N)
  BY <1>4
<1>6. DialogBooted(l, shown) = applied[N]
  BY DEF DialogBooted, Begun
<1> HIDE DEF applied
<1>7. /\ applied[0] = base
      /\ \A n \in 1..N : applied[n] = ApplyPromptEvent(applied[n - 1], l.buffer[n])
  <2> HIDE DEF base
  <2>1. applied = [n \in 0..N |-> IF n = 0 THEN base ELSE ApplyPromptEvent(applied[n - 1], l.buffer[n])]
    BY <1>5
  <2>2. 0 \in 0..N /\ \A n \in 1..N : n \in 0..N /\ n # 0
    OBVIOUS
  <2>3. QED BY <2>1, <2>2
<1>8. QED BY <1>6, <1>7 DEF DialogRun

FollowRun(t, events, N, run) ==
    /\ run[0] = t
    /\ \A n \in 1..N : run[n] = ProcessEvent(run[n - 1], events[n])
    /\ Followed(t, events) = run[N]

LEMMA FollowFold ==
  ASSUME NEW l, NEW events, NEW N \in Nat, Len(events) = N
  PROVE  \E run : FollowRun(l, events, N, run)
<1> DEFINE base == l
           Fold(g, k) == [n \in 0..k |-> IF n = 0 THEN base
                                         ELSE ProcessEvent(g[n - 1], events[n])]
           T == {k \in Nat : \E g : g = Fold(g, k)}
<1>1. 0 \in T
  <2> DEFINE g == [n \in 0..0 |-> base]
  <2>1. g = Fold(g, 0)
    OBVIOUS
  <2>2. QED BY <2>1
<1>2. ASSUME NEW k \in Nat, k \in T PROVE k + 1 \in T
  <2>1. PICK g : g = Fold(g, k)
    BY <1>2
  <2> DEFINE h == [n \in 0..(k + 1) |-> IF n <= k THEN g[n] ELSE ProcessEvent(g[k], events[k + 1])]
  <2> HIDE DEF base
  <2>2. ASSUME NEW n \in 0..(k + 1)
        PROVE  h[n] = IF n = 0 THEN base ELSE ProcessEvent(h[n - 1], events[n])
    <3>1. CASE n = 0
      BY <2>1, <3>1
    <3>2. CASE n # 0 /\ n <= k
      <4>1. n \in 0..k /\ n - 1 \in 0..(k + 1) /\ n - 1 <= k
        BY <3>2
      <4>2. g[n] = ProcessEvent(g[n - 1], events[n])
        BY <2>1, <3>2, <4>1
      <4>3. h[n] = g[n] /\ h[n - 1] = g[n - 1]
        BY <3>2, <4>1
      <4>4. QED BY <3>2, <4>2, <4>3
    <3>3. CASE n = k + 1
      <4>1. h[n] = ProcessEvent(g[k], events[k + 1]) /\ n - 1 = k /\ k \in 0..(k + 1)
        BY <3>3
      <4>2. h[k] = g[k]
        BY <4>1
      <4>3. QED BY <3>3, <4>1, <4>2
    <3>4. QED BY <3>1, <3>2, <3>3
  <2>3. h = Fold(h, k + 1)
    BY <2>2
  <2> HIDE DEF h
  <2>4. QED BY <2>3
<1>3. N \in T
  <2> HIDE DEF T
  <2>1. QED BY <1>1, <1>2, NatSetInduction
<1>4. PICK g : g = Fold(g, N)
  BY <1>3
<1> DEFINE applied == CHOOSE a : a = Fold(a, N)
<1>5. applied = Fold(applied, N)
  BY <1>4
<1>6. Followed(l, events) = applied[N]
  BY DEF Followed
<1> HIDE DEF applied
<1>7. /\ applied[0] = base
      /\ \A n \in 1..N : applied[n] = ProcessEvent(applied[n - 1], events[n])
  BY <1>5
<1>8. QED BY <1>6, <1>7 DEF FollowRun

-----------------------------------------------------------------------------
(* The list of sessions, while the snapshots are on their way and after. *)

\* What a snapshot says is so, of what no message says more.
Current(r, seq, held, truth) ==
    \A s \in Sessions : Silent(seq, r.to, s) /\ Silent(held, r.to, s) => r.value[s] = truth[r.to][s]

Truth == [f \in Fields |-> [s \in Sessions |-> Actual(f, s)]]

LEMMA Truths ==
  /\ \A f \in Fields, s \in Sessions : Truth[f][s] = Actual(f, s)
  /\ \A f \in Fields, s \in Sessions : Truth'[f][s] = Actual(f, s)'
<1>1. \A f \in Fields, s \in Sessions : Truth[f][s] = Actual(f, s)
  BY DEF Truth
<1>2. \A f \in Fields, s \in Sessions : Truth'[f][s] = Actual(f, s)'
  BY DEF Truth
<1>3. QED BY <1>1, <1>2

\* The messages on their way end with how things are.
Told == \A f \in Fields, s \in Sessions : Ends(channel, f, s, Actual(f, s))

ListBoots ==
    list.booting =>
        /\ \A s \in Sessions : list.sessions[s] = 0
        /\ ~list.complete
        /\ \A r \in asked : r.kind # "change"
        /\ \A i \in 1..Len(channel) : ~IsAnswer(channel[i], {"change"})
        /\ \A i \in 1..Len(list.buffer) : list.buffer[i].type \in ListEvents
        /\ \A f \in Fields, s \in Sessions :
              Silent(channel, f, s) => Ends(list.buffer, f, s, Actual(f, s))
        /\ \A r \in list.replies : r.to \in Fields /\ Current(r, channel, list.buffer, Truth)
        /\ \A i \in 1..Len(channel) :
              channel[i].type = "reply" /\ channel[i].to \in Fields =>
                  Current(channel[i], channel, list.buffer, Truth)

ListKnows ==
    list.complete => \A f \in Fields, s \in Sessions :
        Silent(channel, f, s) => Known(list, f, s) = Actual(f, s)

ListInv == Told /\ ListBoots /\ ListKnows

\* Nothing has been asked for, or heard.
LEMMA ListFresh ==
  ASSUME channel = <<>>, list = EmptyList, \A r \in asked : r.kind # "change"
  PROVE  ListInv
<1>1. 1..Len(<<>>) = {}
  OBVIOUS
<1>2. /\ list.booting /\ list.replies = {} /\ list.buffer = <<>> /\ ~list.complete
      /\ \A s \in Sessions : list.sessions[s] = 0
  BY DEF EmptyList
<1>3. \A f, s, v : Ends(<<>>, f, s, v)
  BY <1>1 DEF Ends
<1>4. Told
  BY <1>3 DEF Told
<1>5. ListBoots
  BY <1>1, <1>2, <1>3 DEF ListBoots
<1>6. ListKnows
  BY <1>2 DEF ListKnows
<1>7. QED BY <1>4, <1>5, <1>6 DEF ListInv

\* The main process goes on.
LEMMA ListMain ==
  ASSUME TypeOK, Unheard, ListInv, NEW ms, News(ms) PROVE ListInv'
<1>1. /\ ms \in Seq(Messages) /\ Emit(ms) /\ UNCHANGED <<window, list>> /\ asked' \subseteq asked
      /\ TokenNews(ms) /\ ListNews(ms)
  BY DEF News, rendererVars
<1>2. CASE window # "mounted"
  <2>1. channel' = <<>> /\ list' = EmptyList /\ asked' = {}
    BY <1>1, <1>2 DEF Unheard, Emit
  <2>2. (channel = <<>> /\ list = EmptyList /\ \A r \in asked : r.kind # "change")'
    BY <2>1
  <2>3. QED BY <2>2, ListFresh, PTL
<1>3. CASE window = "mounted"
  <2>1. channel' = channel \o ms /\ list' = list
    BY <1>1, <1>3 DEF Emit
  <2>2. channel \in Seq(Messages)
    BY DEF TypeOK
  <2>3. /\ Len(channel) \in Nat /\ Len(ms) \in Nat /\ Len(channel') = Len(channel) + Len(ms)
        /\ \A i \in 1..(Len(channel) + Len(ms)) :
              channel'[i] = IF i <= Len(channel) THEN channel[i] ELSE ms[i - Len(channel)]
    BY <1>1, <2>1, <2>2, ConcatProperties, LenProperties
  <2>4. ASSUME NEW i \in 1..Len(channel')
        PROVE  (\E j \in 1..Len(channel) : channel'[i] = channel[j]) \/ \E j \in 1..Len(ms) : channel'[i] = ms[j]
    <3>1. CASE i <= Len(channel)
      <4>1. i \in 1..Len(channel) /\ channel'[i] = channel[i]
        BY <2>3, <3>1
      <4>2. QED BY <4>1
    <3>2. CASE i > Len(channel)
      <4>1. i - Len(channel) \in 1..Len(ms) /\ channel'[i] = ms[i - Len(channel)]
        BY <2>3, <3>2
      <4>2. QED BY <4>1
    <3>3. i <= Len(channel) \/ i > Len(channel)
      BY <2>3
    <3>4. QED BY <3>1, <3>2, <3>3
  <2>5. ASSUME NEW f \in Fields, NEW s \in Sessions
        PROVE  /\ Silent(channel', f, s) => Silent(channel, f, s) /\ Actual(f, s)' = Actual(f, s)
               /\ Ends(channel', f, s, Actual(f, s)')
    <3>1. Ends(ms, f, s, Actual(f, s)') /\ (Silent(ms, f, s) => Actual(f, s)' = Actual(f, s))
      BY <1>1 DEF ListNews
    <3>2. Ends(channel, f, s, Actual(f, s))
      BY DEF ListInv, Told
    <3>3. /\ Silent(channel \o ms, f, s) <=> Silent(channel, f, s) /\ Silent(ms, f, s)
          /\ Ends(channel \o ms, f, s, Actual(f, s)')
      BY <1>1, <2>2, <3>1, <3>2, EndsConcat
    <3>4. QED BY <2>1, <3>1, <3>3
  <2>6. Told'
    BY <2>5 DEF Told
  <2>7. ASSUME list.booting
        PROVE  /\ \A f \in Fields, s \in Sessions :
                     Silent(channel', f, s) => Ends(list.buffer, f, s, Actual(f, s)')
               /\ \A r \in list.replies : Current(r, channel', list.buffer, Truth')
               /\ \A i \in 1..Len(channel') : ~IsAnswer(channel'[i], {"change"})
               /\ \A i \in 1..Len(channel') :
                     channel'[i].type = "reply" /\ channel'[i].to \in Fields =>
                         Current(channel'[i], channel', list.buffer, Truth')
    <3>1. /\ \A r \in asked : r.kind # "change"
          /\ \A i \in 1..Len(channel) : ~IsAnswer(channel[i], {"change"})
          /\ \A f \in Fields, s \in Sessions :
                Silent(channel, f, s) => Ends(list.buffer, f, s, Actual(f, s))
          /\ \A r \in list.replies : r.to \in Fields /\ Current(r, channel, list.buffer, Truth)
          /\ \A i \in 1..Len(channel) :
                channel[i].type = "reply" /\ channel[i].to \in Fields =>
                    Current(channel[i], channel, list.buffer, Truth)
      BY <2>7 DEF ListInv, ListBoots
    <3>2. \A f \in Fields, s \in Sessions :
             Silent(channel', f, s) => Ends(list.buffer, f, s, Actual(f, s)')
      BY <2>5, <3>1
    <3>3. ASSUME NEW r, r.to \in Fields, Current(r, channel, list.buffer, Truth)
          PROVE  Current(r, channel', list.buffer, Truth')
      <4> SUFFICES ASSUME NEW s \in Sessions, Silent(channel', r.to, s), Silent(list.buffer, r.to, s)
                   PROVE  r.value[s] = Truth'[r.to][s]
        BY DEF Current
      <4>1. Silent(channel, r.to, s) /\ Actual(r.to, s)' = Actual(r.to, s)
        BY <2>5, <3>3
      <4>2. QED BY <3>3, <4>1, Truths DEF Current
    <3>4. ASSUME NEW j \in 1..Len(ms) PROVE ~IsAnswer(ms[j], {"change"})
      <4>1. ASSUME IsAnswer(ms[j], {"change"}) PROVE FALSE
        <5>1. IsAnswer(ms[j], Kinds) /\ ms[j].to = "change"
          BY <4>1 DEF IsAnswer, Kinds
        <5>2. \E r \in asked : r.kind = "change"
          BY <1>1, <5>1 DEF TokenNews
        <5>3. QED BY <3>1, <5>2
      <4>2. QED BY <4>1
    <3>5. ASSUME NEW j \in 1..Len(ms), ms[j].type = "reply", ms[j].to \in Fields
          PROVE  Current(ms[j], channel', list.buffer, Truth')
      <4> SUFFICES ASSUME NEW s \in Sessions, Silent(channel', ms[j].to, s)
                   PROVE  ms[j].value[s] = Truth'[ms[j].to][s]
        BY DEF Current
      <4>1. Actual(ms[j].to, s)' = Actual(ms[j].to, s)
        BY <2>5, <3>5
      <4>2. ms[j].value[s] = Actual(ms[j].to, s)
        BY <1>1, <3>5 DEF ListNews
      <4>3. QED BY <3>5, <4>1, <4>2, Truths
    <3>6. ASSUME NEW i \in 1..Len(channel') PROVE ~IsAnswer(channel'[i], {"change"})
      BY <2>4, <3>1, <3>4
    <3>7. ASSUME NEW i \in 1..Len(channel'), channel'[i].type = "reply", channel'[i].to \in Fields
          PROVE  Current(channel'[i], channel', list.buffer, Truth')
      <4> DEFINE m == channel'[i]
      <4>1. CASE \E j \in 1..Len(channel) : m = channel[j]
        <5>1. PICK j \in 1..Len(channel) : m = channel[j]
          BY <4>1
        <5>2. Current(channel[j], channel, list.buffer, Truth) /\ channel[j].to \in Fields
          BY <3>1, <3>7, <5>1
        <5>3. Current(channel[j], channel', list.buffer, Truth')
          BY <3>3, <5>2
        <5>4. QED BY <5>1, <5>3
      <4>2. CASE \E j \in 1..Len(ms) : m = ms[j]
        BY <3>5, <3>7, <4>2
      <4>3. QED BY <2>4, <4>1, <4>2
    <3>8. QED BY <3>1, <3>2, <3>3, <3>6, <3>7
  <2>8. ListBoots'
    BY <1>1, <2>1, <2>7 DEF ListInv, ListBoots
  <2>9. ListKnows'
    BY <2>1, <2>5 DEF ListInv, ListKnows
  <2>10. QED BY <2>6, <2>8, <2>9 DEF ListInv
<1>4. QED BY <1>2, <1>3

\* An event is held back.
LEMMA EndsAppend ==
  ASSUME NEW S, NEW seq \in Seq(S), NEW m \in S, NEW f, NEW s, NEW v
  PROVE  /\ Silent(Append(seq, m), f, s) <=> Silent(seq, f, s) /\ ~Touches(m, f, s)
         /\ /\ Touches(m, f, s) => Said(m, f) = v
            /\ ~Touches(m, f, s) => Ends(seq, f, s, v)
            => Ends(Append(seq, m), f, s, v)
<1> DEFINE q == Append(seq, m)
           n == Len(seq)
<1>1. /\ n \in Nat /\ Len(q) = n + 1 /\ q[n + 1] = m /\ \A i \in 1..n : q[i] = seq[i]
  BY AppendProperties, LenProperties
<1>2. n + 1 \in 1..Len(q) /\ (\A i \in 1..n : i \in 1..Len(q)) /\ \A i \in 1..Len(q) : i \in 1..n \/ i = n + 1
  BY <1>1
<1> HIDE DEF q
<1>3. Silent(q, f, s) <=> Silent(seq, f, s) /\ ~Touches(m, f, s)
  <2>1. ASSUME Silent(q, f, s) PROVE Silent(seq, f, s) /\ ~Touches(m, f, s)
    BY <1>1, <1>2, <2>1 DEF Silent
  <2>2. ASSUME Silent(seq, f, s), ~Touches(m, f, s) PROVE Silent(q, f, s)
    BY <1>1, <1>2, <2>2 DEF Silent
  <2>3. QED BY <2>1, <2>2
<1>4. ASSUME Touches(m, f, s) => Said(m, f) = v, ~Touches(m, f, s) => Ends(seq, f, s, v)
      PROVE  Ends(q, f, s, v)
  <2> SUFFICES ASSUME NEW i \in 1..Len(q), Touches(q[i], f, s),
                      \A j \in 1..Len(q) : j > i => ~Touches(q[j], f, s)
               PROVE  Said(q[i], f) = v
    BY DEF Ends
  <2>1. CASE i = n + 1
    BY <1>1, <1>4, <2>1
  <2>2. CASE i \in 1..n
    <3>1. ~Touches(m, f, s)
      BY <1>1, <1>2, <2>2
    <3>2. \A j \in 1..n : j > i => ~Touches(seq[j], f, s)
      BY <1>1, <1>2
    <3>3. Touches(seq[i], f, s) /\ q[i] = seq[i]
      BY <1>1, <2>2
    <3>4. QED BY <1>4, <2>2, <3>1, <3>2, <3>3 DEF Ends
  <2>3. QED BY <1>2, <2>1, <2>2
<1>5. QED BY <1>3, <1>4 DEF q

LEMMA AsksPlain ==
  ASSUME NEW t, NEW m, NEW r \in TabAsks(t, m)
  PROVE  r \in [kind : {"view", "close", "closeView"}]
BY DEF TabAsks, Ask

\* A message is delivered to the list.
LEMMA ListDelivered ==
  ASSUME TypeOK, ListInv, Deliver PROVE ListInv' /\ list' \in ListStates
<1> DEFINE m == Head(channel)
           l == list
<1>1. /\ channel # <<>> /\ channel' = Tail(channel) /\ list' = ListReceives(l, m)
      /\ asked' = asked \cup TabAsks(tab, m) /\ UNCHANGED <<manager, control>>
  BY DEF Deliver, mainVars
<1>2. l \in ListStates /\ channel \in Seq(Messages)
  BY DEF TypeOK, ListStates
<1>3. /\ Len(channel) \in Nat /\ Len(channel) > 0 /\ Len(channel') = Len(channel) - 1
      /\ m = channel[1] /\ m \in Messages /\ channel' \in Seq(Messages)
      /\ \A i \in 1..Len(channel') : channel'[i] = channel[i + 1]
  BY <1>1, <1>2, HeadTailProperties, EmptySeq, LenProperties
<1>4. 1 \in 1..Len(channel) /\ \A i \in 1..Len(channel') : i + 1 \in 1..Len(channel)
  BY <1>3
<1>5. /\ \A f \in Fields, s \in Sessions : Actual(f, s)' = Actual(f, s)
      /\ \A f \in Fields, s \in Sessions : Truth[f][s] = Actual(f, s)
      /\ Truth' = Truth
  BY <1>1, Truths DEF Actual, Truth
<1> HIDE DEF m
<1>6. ASSUME NEW f \in Fields, NEW s \in Sessions
      PROVE  /\ Silent(channel, f, s) <=> ~Touches(m, f, s) /\ Silent(channel', f, s)
             /\ Ends(channel', f, s, Actual(f, s))
             /\ Silent(channel', f, s) /\ Touches(m, f, s) => Said(m, f) = Actual(f, s)
  <2>1. Ends(channel, f, s, Actual(f, s))
    BY DEF ListInv, Told
  <2>2. QED BY <1>1, <1>2, <2>1, EndsTail DEF m
<1>7. Told'
  BY <1>5, <1>6 DEF Told
<1>8. \A r \in asked' : r \in asked \/ r.kind # "change"
  BY <1>1, AsksPlain
<1>9. ASSUME l.booting
      PROVE  /\ \A s \in Sessions : l.sessions[s] = 0
             /\ ~l.complete
             /\ \A r \in asked' : r.kind # "change"
             /\ \A i \in 1..Len(channel') : ~IsAnswer(channel'[i], {"change"})
             /\ ~IsAnswer(m, {"change"})
             /\ \A i \in 1..Len(l.buffer) : l.buffer[i].type \in ListEvents
             /\ \A f \in Fields, s \in Sessions :
                   Silent(channel', f, s) /\ ~Touches(m, f, s) => Ends(l.buffer, f, s, Actual(f, s))
             /\ \A r \in l.replies : r.to \in Fields /\ Current(r, channel, l.buffer, Truth)
             /\ \A i \in 1..Len(channel') :
                   channel'[i].type = "reply" /\ channel'[i].to \in Fields =>
                       Current(channel'[i], channel, l.buffer, Truth)
             /\ m.type = "reply" /\ m.to \in Fields => Current(m, channel, l.buffer, Truth)
  <2>1. ListBoots
    BY DEF ListInv
  <2>2. /\ \A s \in Sessions : l.sessions[s] = 0
        /\ ~l.complete
        /\ \A r \in asked : r.kind # "change"
        /\ \A i \in 1..Len(channel) : ~IsAnswer(channel[i], {"change"})
        /\ \A i \in 1..Len(l.buffer) : l.buffer[i].type \in ListEvents
        /\ \A f \in Fields, s \in Sessions :
              Silent(channel, f, s) => Ends(l.buffer, f, s, Actual(f, s))
        /\ \A r \in l.replies : r.to \in Fields /\ Current(r, channel, l.buffer, Truth)
        /\ \A i \in 1..Len(channel) :
              channel[i].type = "reply" /\ channel[i].to \in Fields =>
                  Current(channel[i], channel, l.buffer, Truth)
    BY <1>9, <2>1 DEF ListBoots
  <2>3. \A r \in asked' : r.kind # "change"
    BY <1>8, <2>2
  <2>4. \A f \in Fields, s \in Sessions :
          Silent(channel', f, s) /\ ~Touches(m, f, s) => Ends(l.buffer, f, s, Actual(f, s))
    BY <1>6, <2>2
  <2> HIDE DEF l
  <2>5. \A i \in 1..Len(channel') : channel'[i] = channel[i + 1] /\ i + 1 \in 1..Len(channel)
    BY <1>3, <1>4
  <2>6. \A i \in 1..Len(channel') : ~IsAnswer(channel'[i], {"change"})
    BY <2>2, <2>5
  <2>7. \A i \in 1..Len(channel') :
          channel'[i].type = "reply" /\ channel'[i].to \in Fields =>
              Current(channel'[i], channel, l.buffer, Truth)
    BY <2>2, <2>5
  <2>8. ~IsAnswer(m, {"change"}) /\ (m.type = "reply" /\ m.to \in Fields => Current(m, channel, l.buffer, Truth))
    BY <1>3, <1>4, <2>2
  <2>9. QED BY <2>2, <2>3, <2>4, <2>6, <2>7, <2>8
<1> SUFFICES list' \in ListStates /\ ListBoots' /\ ListKnows'
  BY <1>7 DEF ListInv
<1>10. CASE m.type \in ListEvents /\ l.booting
  <2>1. l' = [l EXCEPT !.buffer = Append(l.buffer, m)]
    BY <1>1, <1>10 DEF ListReceives, ListEvents
  <2>2. m \in Events /\ l.buffer \in Seq(Events)
    BY <1>2, <1>3, <1>10, MessageKinds, ReplyParts DEF ListEvents, ListStates
  <2> DEFINE b == Append(l.buffer, m)
  <2>3. b \in Seq(Events) /\ Len(l.buffer) \in Nat /\ Len(b) = Len(l.buffer) + 1 /\ b[Len(l.buffer) + 1] = m
        /\ \A i \in 1..Len(l.buffer) : b[i] = l.buffer[i]
    BY <2>2, AppendProperties, LenProperties
  <2>4. /\ l'.buffer = b /\ l'.booting /\ l'.replies = l.replies /\ l'.complete = l.complete
        /\ l'.sessions = l.sessions /\ l' \in ListStates
    BY <1>2, <1>10, <2>1, <2>3 DEF ListStates
  <2>5. \A f \in Fields, s \in Sessions :
          /\ Silent(b, f, s) <=> Silent(l.buffer, f, s) /\ ~Touches(m, f, s)
          /\ /\ Touches(m, f, s) => Said(m, f) = Actual(f, s)
             /\ ~Touches(m, f, s) => Ends(l.buffer, f, s, Actual(f, s))
             => Ends(b, f, s, Actual(f, s))
    BY <2>2, EndsAppend
  <2> HIDE DEF b
  <2>6. \A f \in Fields, s \in Sessions : Silent(channel', f, s) => Ends(b, f, s, Actual(f, s))
    BY <1>6, <1>9, <1>10, <2>5
  <2>7. ASSUME NEW r, r.to \in Fields, Current(r, channel, l.buffer, Truth)
        PROVE  Current(r, channel', b, Truth)
    BY <1>6, <2>5, <2>7 DEF Current
  <2>8. \A i \in 1..Len(b) : b[i].type \in ListEvents
    <3>1. \A i \in 1..Len(b) : i \in 1..Len(l.buffer) \/ i = Len(l.buffer) + 1
      BY <2>3
    <3>2. QED BY <1>9, <1>10, <2>3, <3>1
  <2>9. ListBoots'
    <3>1. \A r \in list'.replies : r.to \in Fields /\ Current(r, channel', list'.buffer, Truth')
      BY <1>5, <1>9, <1>10, <2>4, <2>7
    <3>2. \A i \in 1..Len(channel') :
             channel'[i].type = "reply" /\ channel'[i].to \in Fields =>
                 Current(channel'[i], channel', list'.buffer, Truth')
      BY <1>5, <1>9, <1>10, <2>4, <2>7
    <3>3. \A f \in Fields, s \in Sessions :
              Silent(channel', f, s) => Ends(list'.buffer, f, s, Actual(f, s)')
      BY <1>5, <2>4, <2>6
    <3>4. QED BY <1>9, <1>10, <2>4, <2>8, <3>1, <3>2, <3>3 DEF ListBoots
  <2>10. ListKnows'
    BY <1>9, <1>10, <2>4 DEF ListKnows
  <2>11. QED BY <2>4, <2>9, <2>10
<1>11. CASE m.type \in ListEvents /\ ~l.booting
  <2>1. l' = ApplyListEvent(l, m)
    BY <1>1, <1>11 DEF ListReceives, ListEvents
  <2>2. m \in Events
    BY <1>3, <1>11, MessageKinds, ReplyParts DEF ListEvents
  <2>3. /\ l' \in ListStates /\ l'.booting = l.booting /\ l'.complete = l.complete
        /\ \A f \in Fields, s \in Sessions :
              Known(l', f, s) = IF Touches(m, f, s) THEN Said(m, f) ELSE Known(l, f, s)
    BY <1>2, <1>11, <2>1, <2>2, ListEventApplied
  <2>4. ListKnows'
    BY <1>5, <1>6, <2>3 DEF ListKnows, ListInv
  <2>5. ListBoots'
    BY <1>11, <2>3 DEF ListBoots
  <2>6. QED BY <2>3, <2>4, <2>5
<1>12. CASE m.type = "reply" /\ m.to = "change"
  <2>1. m \in Replies
    BY <1>3, <1>12, MessageKinds, EventParts
  <2>2. /\ m.value \in Events /\ m.value.type = "control" /\ m.value.type \in ListEvents
        /\ m.value.session \in Sessions
    BY <1>12, <2>1, ReplyParts DEF ListEvents
  <2>3. ~l.booting
    BY <1>9, <1>12 DEF IsAnswer
  <2>4. l' = ApplyListEvent(l, m.value)
    BY <1>1, <1>12 DEF ListReceives, ListEvents
  <2>5. /\ l' \in ListStates /\ l'.booting = l.booting /\ l'.complete = l.complete
        /\ \A f \in Fields, s \in Sessions :
              Known(l', f, s) = IF Touches(m.value, f, s) THEN Said(m.value, f) ELSE Known(l, f, s)
    BY <1>2, <2>2, <2>4, ListEventApplied
  <2>6. \A f \in Fields, s \in Sessions :
          /\ Touches(m, f, s) <=> Touches(m.value, f, s)
          /\ Touches(m, f, s) => Said(m, f) = Said(m.value, f)
    BY <1>12, <2>2 DEF Touches, Said, Fields
  <2>7. ListKnows'
    BY <1>5, <1>6, <2>5, <2>6 DEF ListKnows, ListInv
  <2>8. ListBoots'
    BY <2>3, <2>5 DEF ListBoots
  <2>9. QED BY <2>5, <2>7, <2>8
<1>13. CASE m.type = "reply" /\ m.to \in {"sessions", "controls"} /\ l.booting
  <2> DEFINE rs == l.replies \cup {m}
             Value(to) == (CHOOSE r \in rs : r.to = to).value
  <2>1. m \in Replies
    BY <1>3, <1>13, MessageKinds, EventParts
  <2>2. \A f, s : ~Touches(m, f, s)
    BY <1>13 DEF Touches
  <2>3. ASSUME NEW r, r.to \in Fields, Current(r, channel, l.buffer, Truth)
        PROVE  Current(r, channel', l.buffer, Truth)
    BY <1>6, <2>2, <2>3 DEF Current
  <2>4. \A r \in rs : r \in Replies /\ r.to \in Fields /\ Current(r, channel', l.buffer, Truth)
    BY <1>2, <1>9, <1>13, <2>1, <2>3 DEF Fields, ListStates
  <2>5. l' = Snapshots(l, m)
    BY <1>1, <1>13 DEF ListReceives, ListEvents
  <2>6. CASE {r.to : r \in rs} # {"sessions", "controls"}
    <3>1. l' = [l EXCEPT !.replies = rs]
      BY <2>5, <2>6 DEF Snapshots
    <3>2. /\ l'.replies = rs /\ l'.booting /\ l'.buffer = l.buffer /\ l'.complete = l.complete
          /\ l'.sessions = l.sessions /\ l' \in ListStates
      BY <1>2, <1>13, <2>4, <3>1 DEF ListStates
    <3> HIDE DEF rs
    <3>3. ListBoots'
      <4>1. \A r \in list'.replies : r.to \in Fields /\ Current(r, channel', list'.buffer, Truth')
        BY <1>5, <2>4, <3>2
      <4>2. \A i \in 1..Len(channel') :
               channel'[i].type = "reply" /\ channel'[i].to \in Fields =>
                   Current(channel'[i], channel', list'.buffer, Truth')
        BY <1>5, <1>9, <1>13, <2>3, <3>2
      <4>3. \A f \in Fields, s \in Sessions :
                Silent(channel', f, s) => Ends(list'.buffer, f, s, Actual(f, s)')
        BY <1>5, <1>9, <1>13, <2>2, <3>2
      <4>4. QED BY <1>9, <1>13, <3>2, <4>1, <4>2, <4>3 DEF ListBoots
    <3>4. ListKnows'
      BY <1>9, <1>13, <3>2 DEF ListKnows
    <3>5. QED BY <3>2, <3>3, <3>4
  <2>7. CASE {r.to : r \in rs} = {"sessions", "controls"}
    <3> DEFINE k == [l EXCEPT !.replies = {}, !.complete = TRUE,
                              !.sessions = Value("sessions"), !.controls = Value("controls")]
    <3>1. l' = ListBooted(k)
      BY <2>5, <2>7 DEF Snapshots
    <3>2. ASSUME NEW f \in Fields
          PROVE  \E r \in rs : r.to = f /\ Value(f) = r.value
      <4>1. \E r \in rs : r.to = f
        BY <2>7 DEF Fields
      <4>2. QED BY <4>1
    <3>3. Value("sessions") \in [Sessions -> Nat] /\ Value("controls") \in [Sessions -> ControlStates]
      BY <2>4, <3>2, ReplyParts DEF Fields
    <3> HIDE DEF Value, rs
    <3>4. /\ k \in ListStates /\ k.buffer = l.buffer /\ k.complete
          /\ k.sessions = Value("sessions") /\ k.controls = Value("controls")
      BY <1>2, <3>3 DEF ListStates
    <3> HIDE DEF k
    <3>5. \A i \in 1..Len(k.buffer) : k.buffer[i].type \in ListEvents
      BY <1>9, <1>13, <3>4
    <3>6. /\ l' \in ListStates /\ ~l'.booting
          /\ \A f \in Fields, s \in Sessions :
                /\ Silent(l.buffer, f, s) => Known(l', f, s) = Known(k, f, s)
                /\ \A v : Ends(l.buffer, f, s, v) /\ ~Silent(l.buffer, f, s) => Known(l', f, s) = v
      BY <3>1, <3>4, <3>5, ListApplied
    <3>7. ASSUME NEW f \in Fields, NEW s \in Sessions, Silent(channel', f, s)
          PROVE  Known(l', f, s) = Actual(f, s)
      <4>1. CASE Silent(l.buffer, f, s)
        <5>1. Known(k, f, s) = Value(f)[s]
          BY <3>4 DEF Known, Fields
        <5>2. PICK r \in rs : r.to = f /\ Value(f) = r.value
          BY <3>2
        <5>3. r.value[s] = Truth[f][s]
          BY <2>4, <3>7, <4>1, <5>2 DEF Current
        <5>4. QED BY <1>5, <3>6, <4>1, <5>1, <5>2, <5>3
      <4>2. CASE ~Silent(l.buffer, f, s)
        <5>1. Ends(l.buffer, f, s, Actual(f, s))
          BY <1>9, <1>13, <2>2, <3>7
        <5>2. QED BY <3>6, <4>2, <5>1
      <4>3. QED BY <4>1, <4>2
    <3>8. ListKnows'
      BY <1>5, <3>7 DEF ListKnows
    <3>9. ListBoots'
      BY <3>6 DEF ListBoots
    <3>10. QED BY <3>6, <3>8, <3>9
  <2>8. QED BY <2>6, <2>7
<1>14. CASE m.type = "failure" /\ m.to \in {"sessions", "controls"} /\ l.booting
  <2>1. l' = ListBooted(l)
    BY <1>1, <1>14 DEF ListReceives, ListEvents
  <2>2. l' \in ListStates /\ ~l'.booting /\ l'.complete = l.complete
    BY <1>2, <1>9, <1>14, <2>1, ListApplied
  <2>3. QED BY <1>9, <1>14, <2>2 DEF ListKnows, ListBoots
<1>15. CASE /\ ~(m.type \in ListEvents)
            /\ ~(m.type = "reply" /\ m.to = "change")
            /\ ~(m.type = "reply" /\ m.to \in {"sessions", "controls"} /\ l.booting)
            /\ ~(m.type = "failure" /\ m.to \in {"sessions", "controls"} /\ l.booting)
  <2>1. l' = l
    BY <1>1, <1>15 DEF ListReceives
  <2>2. \A f, s : ~Touches(m, f, s)
    BY <1>15 DEF Touches, ListEvents
  <2>3. ListKnows'
    BY <1>5, <1>6, <2>1, <2>2 DEF ListKnows, ListInv
  <2>4. ASSUME NEW r, r.to \in Fields, Current(r, channel, l.buffer, Truth)
        PROVE  Current(r, channel', l.buffer, Truth)
    BY <1>6, <2>2, <2>4 DEF Current
  <2>5. ListBoots'
    <3> SUFFICES ASSUME l.booting PROVE ListBoots'
      BY <2>1 DEF ListBoots
    <3>1. \A r \in list'.replies : r.to \in Fields /\ Current(r, channel', list'.buffer, Truth')
      BY <1>5, <1>9, <2>1, <2>4
    <3>2. \A i \in 1..Len(channel') :
             channel'[i].type = "reply" /\ channel'[i].to \in Fields =>
                 Current(channel'[i], channel', list'.buffer, Truth')
      BY <1>5, <1>9, <2>1, <2>4
    <3>3. \A f \in Fields, s \in Sessions :
              Silent(channel', f, s) => Ends(list'.buffer, f, s, Actual(f, s)')
      BY <1>5, <1>9, <2>1, <2>2
    <3>4. QED BY <1>9, <2>1, <3>1, <3>2, <3>3 DEF ListBoots
  <2>6. QED BY <1>2, <2>1, <2>3, <2>5
<1>16. QED BY <1>10, <1>11, <1>12, <1>13, <1>14, <1>15

\* Nothing happens to the list, and a change is asked of a list that is there.
LEMMA ListStays ==
  ASSUME ListInv, UNCHANGED <<channel, list, manager, control>>,
         \A r \in asked' : r \in asked \/ r.kind # "change" \/ ~list.booting
  PROVE  ListInv'
<1>1. /\ \A f \in Fields, s \in Sessions : Actual(f, s)' = Actual(f, s)
      /\ Truth' = Truth /\ channel' = channel /\ list' = list
  BY DEF Actual, Truth
<1>2. Told'
  BY <1>1 DEF ListInv, Told
<1>3. ListBoots'
  <2> SUFFICES ASSUME list.booting PROVE ListBoots'
    BY <1>1 DEF ListBoots
  <2>1. \A r \in asked' : r.kind # "change"
    BY DEF ListInv, ListBoots
  <2>2. \A f \in Fields, s \in Sessions :
            Silent(channel, f, s) => Ends(list.buffer, f, s, Actual(f, s)')
    BY <1>1 DEF ListInv, ListBoots
  <2>3. QED BY <1>1, <2>1, <2>2 DEF ListInv, ListBoots
<1>4. ListKnows'
  BY <1>1 DEF ListInv, ListKnows
<1>5. QED BY <1>2, <1>3, <1>4 DEF ListInv

-----------------------------------------------------------------------------
(* What the dialog and the terminal are made of. *)

DialogStates == [booting : BOOLEAN, buffer : Seq(Events), complete : BOOLEAN, shown : Seq(Prompts)]

LEMMA NewestTyped ==
  ASSUME MaxPendingAssumption, NEW seq \in Seq(Prompts) PROVE Newest(seq) \in Seq(Prompts)
<1>1. Len(seq) \in Nat /\ MaxPending \in Nat
  BY LenProperties DEF MaxPendingAssumption
<1>2. CASE Len(seq) > MaxPending
  <2>1. SubSeq(seq, Len(seq) - MaxPending + 1, Len(seq)) \in Seq(Prompts)
    <3>1. \A i \in (Len(seq) - MaxPending + 1)..Len(seq) : i \in 1..Len(seq)
      BY <1>1, <1>2
    <3>2. QED BY <1>1, <1>2, <3>1, SubSeqProperties
  <2>2. QED BY <1>1, <1>2, <2>1 DEF Newest
<1>3. CASE Len(seq) <= MaxPending
  BY <1>3 DEF Newest
<1>4. QED BY <1>1, <1>2, <1>3

LEMMA WithoutTyped ==
  ASSUME NEW seq \in Seq(Prompts), NEW p PROVE Without(seq, p) \in Seq(Prompts)
BY RemovedFirst DEF Without

LEMMA PromptEventApplied ==
  ASSUME MaxPendingAssumption, NEW d \in DialogStates, NEW m \in Events
  PROVE  LET r == ApplyPromptEvent(d, m) IN
         /\ r \in DialogStates /\ r.booting = d.booting /\ r.complete = d.complete
         /\ r.buffer = d.buffer
<1> DEFINE x == IF m.type = "requested" THEN Newest(Append(Without(d.shown, m.prompt), m.prompt))
                ELSE Without(d.shown, m.prompt)
<1>1. d.shown \in Seq(Prompts)
  BY DEF DialogStates
<1>2. Without(d.shown, m.prompt) \in Seq(Prompts)
  BY <1>1, WithoutTyped
<1>3. x \in Seq(Prompts)
  <2>1. CASE m.type = "requested"
    <3>1. m.prompt \in Prompts
      BY <2>1, EventParts
    <3>2. Append(Without(d.shown, m.prompt), m.prompt) \in Seq(Prompts)
      BY <1>2, <3>1
    <3>3. QED BY <2>1, <3>2, NewestTyped
  <2>2. CASE m.type # "requested"
    BY <1>2, <2>2
  <2>3. QED BY <2>1, <2>2
<1>4. ApplyPromptEvent(d, m) = [d EXCEPT !.shown = x]
  BY DEF ApplyPromptEvent
<1> HIDE DEF x
<1>5. QED BY <1>3, <1>4 DEF DialogStates

LEMMA DialogApplied ==
  ASSUME MaxPendingAssumption, NEW d \in DialogStates, NEW shown \in Seq(Prompts)
  PROVE  LET r == DialogBooted(d, shown) IN
         r \in DialogStates /\ ~r.booting /\ r.complete = d.complete /\ r.buffer = <<>>
<1> DEFINE b == d.buffer
           N == Len(b)
<1>1. b \in Seq(Events) /\ N \in Nat /\ \A i \in 1..N : b[i] \in Events
  BY LenProperties, ElementOfSeq DEF DialogStates
<1>2. PICK applied : DialogRun(d, shown, N, applied)
  BY <1>1, DialogFold
<1>r. /\ applied[0] = Begun(d, shown)
      /\ \A n \in 1..N : applied[n] = ApplyPromptEvent(applied[n - 1], b[n])
      /\ DialogBooted(d, shown) = applied[N]
  BY <1>2 DEF DialogRun
<1> DEFINE Kept(n) == /\ applied[n] \in DialogStates /\ ~applied[n].booting
                      /\ applied[n].complete = d.complete /\ applied[n].buffer = <<>>
           T == {n \in Nat : n <= N => Kept(n)}
<1>3. 0 \in T
  <2>1. <<>> \in Seq(Events)
    OBVIOUS
  <2>2. Kept(0)
    BY <1>r, <2>1 DEF DialogStates, Begun
  <2>3. QED BY <2>2
<1>4. ASSUME NEW n \in Nat, n \in T PROVE n + 1 \in T
  <2> SUFFICES ASSUME n + 1 <= N PROVE Kept(n + 1)
    OBVIOUS
  <2> HIDE DEF N
  <2>1. n <= N /\ n + 1 \in 1..N /\ (n + 1) - 1 = n
    BY <1>1
  <2>2. Kept(n)
    BY <1>4, <2>1
  <2>3. b[n + 1] \in Events
    BY <1>1, <2>1 DEF N
  <2>4. applied[n + 1] = ApplyPromptEvent(applied[n], b[n + 1])
    BY <1>r, <2>1 DEF N
  <2>5. QED BY <2>2, <2>3, <2>4, PromptEventApplied
<1>5. N \in T
  <2> HIDE DEF T
  <2>1. QED BY <1>1, <1>3, <1>4, NatSetInduction
<1>6. Kept(N)
  BY <1>1, <1>5
<1>7. QED BY <1>r, <1>6

LEMMA DialogDelivered ==
  ASSUME MaxPendingAssumption, NEW d \in DialogStates, NEW m \in Messages, NEW r \in DialogReceives(d, m)
  PROVE  r \in DialogStates
<1>1. CASE m.type \in {"requested", "resolved"}
  <2>1. m \in Events
    BY <1>1, MessageKinds, ReplyParts
  <2>2. CASE d.booting
    <3>1. r = [d EXCEPT !.buffer = Append(d.buffer, m)]
      BY <1>1, <2>2 DEF DialogReceives
    <3>2. Append(d.buffer, m) \in Seq(Events)
      BY <2>1 DEF DialogStates
    <3>3. QED BY <3>1, <3>2 DEF DialogStates
  <2>3. CASE ~d.booting
    <3>1. r = ApplyPromptEvent(d, m)
      BY <1>1, <2>3 DEF DialogReceives
    <3>2. QED BY <2>1, <3>1, PromptEventApplied
  <2>4. QED BY <2>2, <2>3
<1>2. CASE m.type = "reply"
  <2>1. m \in Replies
    BY <1>2, MessageKinds, EventParts
  <2>2. CASE m.to = "prompts"
    <3>1. r = [DialogBooted(d, Newest(m.value)) EXCEPT !.complete = TRUE]
      BY <1>2, <2>2 DEF DialogReceives
    <3>2. Newest(m.value) \in Seq(Prompts)
      BY <2>1, <2>2, ReplyParts, NewestTyped
    <3>3. DialogBooted(d, Newest(m.value)) \in DialogStates
      BY <3>2, DialogApplied
    <3>4. QED BY <3>1, <3>3 DEF DialogStates
  <2>3. CASE m.to = "resolve"
    <3>1. r = [d EXCEPT !.shown = Without(d.shown, m.value)]
      BY <1>2, <2>3 DEF DialogReceives
    <3>2. Without(d.shown, m.value) \in Seq(Prompts)
      BY WithoutTyped DEF DialogStates
    <3>3. QED BY <3>1, <3>2 DEF DialogStates
  <2>4. CASE m.to \notin {"prompts", "resolve"}
    <3>1. r = d
      BY <1>2, <2>4 DEF DialogReceives
    <3>2. QED BY <3>1
  <2>5. QED BY <2>2, <2>3, <2>4
<1>3. CASE m.type = "failure" /\ m.to = "prompts"
  <2> DEFINE e == [d EXCEPT !.buffer = <<>>]
  <2>1. r = DialogBooted(d, d.shown) \/ r = DialogBooted(e, d.shown)
    BY <1>3 DEF DialogReceives
  <2>2. <<>> \in Seq(Events)
    OBVIOUS
  <2>3. d.shown \in Seq(Prompts) /\ e \in DialogStates
    BY <2>2 DEF DialogStates
  <2> HIDE DEF e
  <2>4. QED BY <2>1, <2>3, DialogApplied
<1>4. CASE m.type \notin {"requested", "resolved", "reply"} /\ ~(m.type = "failure" /\ m.to = "prompts")
  <2>1. r = d
    BY <1>4 DEF DialogReceives
  <2>2. QED BY <2>1
<1>5. QED BY <1>1, <1>2, <1>3, <1>4

TabStates == [stage : Starting \cup {"none", "open", "failed", "disposed"}, created : BOOLEAN,
              closed : BOOLEAN, buffer : Seq(Events), last : Nat, running : BOOLEAN,
              start : Nat, writes : Seq(Chunks), shown : Seq(Nat)]

LEMMA ProcessTyped ==
  ASSUME NEW t \in TabStates, NEW m \in Events
  PROVE  /\ ProcessEvent(t, m) \in TabStates
         /\ LET r == ProcessEvent(t, m) IN
            /\ r.stage = t.stage /\ r.created = t.created /\ r.closed = t.closed
            /\ r.buffer = t.buffer /\ r.start = t.start /\ r.shown = t.shown
<1>1. CASE m.type = "output" /\ m.sequence > t.last
  <2>1. ProcessEvent(t, m) = [t EXCEPT !.last = m.sequence, !.writes = Append(t.writes, m)]
    BY <1>1 DEF ProcessEvent
  <2>2. m.sequence \in Nat /\ Append(t.writes, m) \in Seq(Chunks)
    BY <1>1, EventParts DEF TabStates
  <2>3. QED BY <2>1, <2>2 DEF TabStates
<1>2. CASE m.type = "updated"
  <2>1. ProcessEvent(t, m) = [t EXCEPT !.running = m.running]
    BY <1>2 DEF ProcessEvent
  <2>2. m.running \in BOOLEAN
    BY <1>2, EventParts
  <2>3. QED BY <2>1, <2>2 DEF TabStates
<1>3. CASE ~(m.type = "output" /\ m.sequence > t.last) /\ m.type # "updated"
  <2>1. ProcessEvent(t, m) = t
    BY <1>3 DEF ProcessEvent
  <2>2. QED BY <2>1
<1>4. QED BY <1>1, <1>2, <1>3

LEMMA FollowTyped ==
  ASSUME NEW t \in TabStates, NEW b \in Seq(Events)
  PROVE  /\ Followed(t, b) \in TabStates
         /\ LET r == Followed(t, b) IN
            /\ r.stage = t.stage /\ r.created = t.created /\ r.closed = t.closed
            /\ r.buffer = t.buffer /\ r.start = t.start /\ r.shown = t.shown
<1> DEFINE N == Len(b)
<1>1. N \in Nat /\ \A i \in 1..N : b[i] \in Events
  BY LenProperties, ElementOfSeq
<1>2. PICK applied : FollowRun(t, b, N, applied)
  BY <1>1, FollowFold
<1>r. /\ applied[0] = t
      /\ \A n \in 1..N : applied[n] = ProcessEvent(applied[n - 1], b[n])
      /\ Followed(t, b) = applied[N]
  BY <1>2 DEF FollowRun
<1> DEFINE Kept(n) == /\ applied[n] \in TabStates
                      /\ applied[n].stage = t.stage /\ applied[n].created = t.created
                      /\ applied[n].closed = t.closed /\ applied[n].buffer = t.buffer
                      /\ applied[n].start = t.start /\ applied[n].shown = t.shown
           T == {n \in Nat : n <= N => Kept(n)}
<1>3. 0 \in T
  BY <1>r
<1>4. ASSUME NEW n \in Nat, n \in T PROVE n + 1 \in T
  <2> SUFFICES ASSUME n + 1 <= N PROVE Kept(n + 1)
    OBVIOUS
  <2> HIDE DEF N
  <2>1. n <= N /\ n + 1 \in 1..N /\ (n + 1) - 1 = n
    BY <1>1
  <2>2. Kept(n)
    BY <1>4, <2>1
  <2>3. b[n + 1] \in Events
    BY <1>1, <2>1 DEF N
  <2>4. applied[n + 1] = ProcessEvent(applied[n], b[n + 1])
    BY <1>r, <2>1 DEF N
  <2>5. QED BY <2>2, <2>3, <2>4, ProcessTyped
<1>5. N \in T
  <2> HIDE DEF T
  <2>1. QED BY <1>1, <1>3, <1>4, NatSetInduction
<1>6. Kept(N)
  BY <1>1, <1>5
<1>7. QED BY <1>r, <1>6

LEMMA TabDelivered ==
  ASSUME NEW t \in TabStates, NEW m \in Messages
  PROVE  TabReceives(t, m) \in TabStates
<1>1. CASE m.type \in {"output", "updated", "removed"}
  <2>1. m \in Events
    BY <1>1, MessageKinds, ReplyParts
  <2>2. CASE m.type \in {"output", "updated"} /\ Concerns(m) /\ t.stage \in Starting
    <3>1. TabReceives(t, m) = [t EXCEPT !.buffer = Append(t.buffer, m)]
      BY <2>2 DEF TabReceives, Starting
    <3>2. Append(t.buffer, m) \in Seq(Events)
      BY <2>1 DEF TabStates
    <3>3. QED BY <3>1, <3>2 DEF TabStates
  <2>3. CASE m.type \in {"output", "updated"} /\ Concerns(m) /\ t.stage = "open"
    <3>1. TabReceives(t, m) = ProcessEvent(t, m)
      BY <2>3 DEF TabReceives, Starting
    <3>2. QED BY <2>1, <3>1, ProcessTyped
  <2>4. CASE m.type = "removed" /\ Concerns(m) /\ t.stage \in Starting
    <3>1. TabReceives(t, m) = [t EXCEPT !.closed = @ \/ ~t.created]
      BY <2>4 DEF TabReceives
    <3>2. QED BY <3>1 DEF TabStates
  <2>5. CASE /\ ~(m.type \in {"output", "updated"} /\ Concerns(m) /\ t.stage \in Starting)
             /\ ~(m.type \in {"output", "updated"} /\ Concerns(m) /\ t.stage = "open")
             /\ ~(m.type = "removed" /\ Concerns(m) /\ t.stage \in Starting)
    <3>1. TabReceives(t, m) = t
      BY <1>1, <2>5 DEF TabReceives
    <3>2. QED BY <3>1
  <2>6. QED BY <2>2, <2>3, <2>4, <2>5
<1>2. CASE m.type = "reply"
  <2>1. m \in Replies
    BY <1>2, MessageKinds, EventParts
  <2>2. CASE m.to \in {"create", "attach"}
    <3>1. TabReceives(t, m) = [t EXCEPT !.stage = "opening", !.created = m.to = "create"]
      BY <1>2, <2>2 DEF TabReceives
    <3>2. QED BY <3>1 DEF TabStates, Starting
  <2>3. CASE m.to = "view"
    <3>1. TabReceives(t, m) = [t EXCEPT !.stage = "writing", !.start = m.value.sequence,
                                        !.running = m.value.running]
      BY <1>2, <2>3 DEF TabReceives
    <3>2. m.value.sequence \in Nat /\ m.value.running \in BOOLEAN
      BY <2>1, <2>3, ReplyParts
    <3>3. QED BY <3>1, <3>2 DEF TabStates, Starting
  <2>4. CASE m.to = "closeView"
    <3>1. TabReceives(t, m) = [t EXCEPT !.stage = "disposed"]
      BY <1>2, <2>4 DEF TabReceives
    <3>2. QED BY <3>1 DEF TabStates
  <2>5. CASE m.to \notin {"create", "attach", "view", "closeView"}
    <3>1. TabReceives(t, m) = t
      BY <1>2, <2>5 DEF TabReceives
    <3>2. QED BY <3>1
  <2>6. QED BY <2>2, <2>3, <2>4, <2>5
<1>3. CASE m.type = "failure" /\ m.to \in {"create", "attach", "view"}
  <2>1. TabReceives(t, m) = [t EXCEPT !.stage = "failed"]
    BY <1>3 DEF TabReceives
  <2>2. QED BY <2>1 DEF TabStates
<1>4. CASE /\ m.type \notin {"output", "updated", "removed", "reply"}
           /\ ~(m.type = "failure" /\ m.to \in {"create", "attach", "view"})
  <2>1. TabReceives(t, m) = t
    BY <1>4 DEF TabReceives
  <2>2. QED BY <2>1
<1>5. QED BY <1>1, <1>2, <1>3, <1>4

-----------------------------------------------------------------------------
\* The steps of the renderer keep the types.

RendererStep ==
    \/ WindowCreated \/ Mounted \/ Deliver \/ TabStarted \/ ScreenWritten \/ ChunkParsed \/ TabClosed
    \/ \E s \in Sessions : ControlAsked(s)
    \/ \E p \in Prompts : PromptDecided(p)
    \/ RendererLost

LEMMA Steps ==
  ASSUME Next PROVE MainStep \/ RendererStep
BY DEF Next, MainStep, RendererStep

LEMMA EmptyTyped ==
  EmptyList \in ListStates /\ EmptyDialog \in DialogStates /\ NoTab \in TabStates
<1>1. <<>> \in Seq(Events) /\ <<>> \in Seq(Prompts) /\ <<>> \in Seq(Nat) /\ <<>> \in Seq(Chunks)
  OBVIOUS
<1>2. EmptyList \in ListStates
  BY <1>1 DEF EmptyList, ListStates, ControlStates
<1>3. EmptyDialog \in DialogStates
  BY <1>1 DEF EmptyDialog, DialogStates
<1>4. NoTab \in TabStates
  BY <1>1 DEF NoTab, TabStates
<1>5. QED BY <1>2, <1>3, <1>4

LEMMA TypedParts ==
  /\ TypeOK <=> /\ MainTypes /\ window \in {"none", "loading", "mounted"}
                /\ channel \in Seq(Messages) /\ asked \subseteq Requests
                /\ list \in ListStates /\ dialog \in DialogStates /\ tab \in TabStates
BY DEF TypeOK, MainTypes, ListStates, DialogStates, TabStates

LEMMA MainTyped ==
  ASSUME TypeOK, Unheard, NEW ms, News(ms) PROVE TypeOK' /\ Unheard'
<1>1. /\ ms \in Seq(Messages) /\ Emit(ms) /\ UNCHANGED <<window, list, dialog, tab>>
      /\ asked' \subseteq asked /\ MainTypes'
  BY DEF News, rendererVars
<1>2. channel' \in Seq(Messages)
  <2>1. channel \in Seq(Messages)
    BY DEF TypeOK
  <2>2. channel \o ms \in Seq(Messages)
    BY <1>1, <2>1, ConcatProperties
  <2>3. QED BY <1>1, <2>1, <2>2 DEF Emit
<1>3. TypeOK'
  BY <1>1, <1>2 DEF TypeOK, MainTypes
<1>4. Unheard'
  BY <1>1 DEF Unheard, Emit
<1>5. QED BY <1>3, <1>4

LEMMA RequestKinds ==
  /\ \A k \in Plain : Ask(k) \in Requests
  /\ \A n \in Nat : [kind |-> "input", chunk |-> n] \in Requests
  /\ \A s \in Sessions, c \in ControlStates : [kind |-> "change", session |-> s, state |-> c] \in Requests
  /\ \A p \in Prompts : [kind |-> "resolve", prompt |-> p] \in Requests
BY DEF Requests, Ask

CommonInv == TypeOK /\ Unheard /\ ListInv

LEMMA Mounts ==
  ASSUME CommonInv, WindowCreated \/ Mounted PROVE CommonInv'
<1>1. CASE WindowCreated
  <2>1. /\ window = "none" /\ window' = "loading"
        /\ UNCHANGED <<mainVars, channel, asked, rendererVars, budget>>
    BY <1>1 DEF WindowCreated
  <2>2. TypeOK'
    BY <2>1 DEF CommonInv, TypeOK, mainVars, rendererVars
  <2>3. Unheard'
    BY <2>1 DEF CommonInv, Unheard, rendererVars
  <2>4. ListInv'
    BY <2>1, ListStays DEF CommonInv, mainVars, rendererVars
  <2>5. QED BY <2>2, <2>3, <2>4 DEF CommonInv
<1>2. CASE Mounted
  <2>1. /\ window = "loading" /\ window' = "mounted"
        /\ asked' = {Ask("sessions"), Ask("controls"), Ask("prompts")}
        /\ UNCHANGED <<mainVars, channel, rendererVars, budget>>
    BY <1>2 DEF Mounted
  <2>2. asked' \subseteq Requests
    BY <2>1, RequestKinds DEF Plain
  <2>3. TypeOK'
    BY <2>1, <2>2 DEF CommonInv, TypeOK, mainVars, rendererVars
  <2>4. Unheard'
    BY <2>1 DEF Unheard
  <2>5. \A r \in asked' : r.kind # "change"
    BY <2>1 DEF Ask
  <2>6. ListInv'
    BY <2>1, <2>5, ListStays DEF CommonInv, mainVars, rendererVars
  <2>7. QED BY <2>3, <2>4, <2>6 DEF CommonInv
<1>3. QED BY <1>1, <1>2

LEMMA Delivers ==
  ASSUME MaxPendingAssumption, CommonInv, Deliver PROVE CommonInv'
<1> DEFINE m == Head(channel)
<1>1. /\ channel # <<>> /\ channel' = Tail(channel) /\ dialog' \in DialogReceives(dialog, m)
      /\ tab' = TabReceives(tab, m) /\ asked' = asked \cup TabAsks(tab, m)
      /\ UNCHANGED <<mainVars, window, budget>>
  BY DEF Deliver
<1>2. /\ channel \in Seq(Messages) /\ dialog \in DialogStates /\ tab \in TabStates
      /\ asked \subseteq Requests
  BY TypedParts DEF CommonInv
<1>3. m \in Messages /\ channel' \in Seq(Messages)
  BY <1>1, <1>2, HeadTailProperties, EmptySeq
<1>4. ListInv' /\ list' \in ListStates
  BY ListDelivered DEF CommonInv
<1> HIDE DEF m
<1>5. dialog' \in DialogStates /\ tab' \in TabStates
  BY <1>1, <1>2, <1>3, DialogDelivered, TabDelivered
<1>6. asked' \subseteq Requests
  <2>1. \A r \in TabAsks(tab, m) : r \in [kind : {"view", "close", "closeView"}]
    BY AsksPlain
  <2>2. \A r \in [kind : {"view", "close", "closeView"}] : r \in Requests
    BY DEF Requests, Plain
  <2>3. QED BY <1>1, <1>2, <2>1, <2>2
<1>7. TypeOK'
  BY <1>1, <1>3, <1>4, <1>5, <1>6 DEF CommonInv, TypeOK, mainVars, ListStates, DialogStates, TabStates
<1>8. Unheard'
  BY <1>1 DEF CommonInv, Unheard
<1>9. QED BY <1>4, <1>7, <1>8 DEF CommonInv

\* The terminal's own steps.
LEMMA Works ==
  ASSUME CommonInv, TabStarted \/ ScreenWritten \/ ChunkParsed \/ TabClosed
  PROVE  CommonInv'
<1>1. /\ UNCHANGED <<mainVars, window, channel, list, dialog>> /\ budget' \in [Traffic -> Nat]
  BY SpendTypes DEF CommonInv, TypeOK, TabStarted, ScreenWritten, ChunkParsed, TabClosed, Traffic
<1>2. /\ tab \in TabStates /\ asked \subseteq Requests
  BY TypedParts DEF CommonInv
<1>3. window = "mounted"
  BY DEF CommonInv, Unheard, NoTab, Starting, TabStarted, ScreenWritten, ChunkParsed, TabClosed
<1>4. /\ tab' \in TabStates
      /\ \A r \in asked' : r \in asked \/ (r \in Requests /\ r.kind # "change")
  <2>1. CASE TabStarted
    <3>1. tab' = [tab EXCEPT !.stage = "creating"]
      BY <2>1 DEF TabStarted
    <3>2. PICK kind \in {"create", "attach"} : asked' = asked \cup {Ask(kind)}
      BY <2>1 DEF TabStarted
    <3>3. Ask(kind) \in Requests /\ Ask(kind).kind = kind
      BY RequestKinds DEF Plain, Ask
    <3>4. tab' \in TabStates
      BY <1>2, <3>1 DEF TabStates, Starting
    <3>5. QED BY <3>2, <3>3, <3>4
  <2>2. CASE ScreenWritten
    <3> DEFINE t == [tab EXCEPT !.stage = "open", !.last = tab.start, !.buffer = <<>>,
                                !.shown = [i \in 1..tab.start |-> i]]
    <3>1. /\ tab' = Followed(t, tab.buffer)
          /\ asked' = asked \cup (IF ~tab.closed THEN {}
                                  ELSE {Ask(IF tab.created THEN "close" ELSE "closeView")})
      BY <2>2 DEF ScreenWritten
    <3>2. tab.start \in Nat /\ tab.buffer \in Seq(Events)
      BY <1>2 DEF TabStates
    <3>3. [i \in 1..tab.start |-> i] \in Seq(Nat) /\ <<>> \in Seq(Events)
      BY <3>2, SeqDef
    <3>4. t \in TabStates
      BY <1>2, <3>2, <3>3 DEF TabStates
    <3> HIDE DEF t
    <3>5. tab' \in TabStates
      BY <3>1, <3>2, <3>4, FollowTyped
    <3>6. \A k \in Plain : Ask(k) \in Requests /\ Ask(k).kind = k
      BY RequestKinds DEF Ask
    <3>7. "close" \in Plain /\ "closeView" \in Plain
      BY DEF Plain
    <3>8. \A r \in asked' : r \in asked \/ r = Ask("close") \/ r = Ask("closeView")
      BY <3>1
    <3>9. QED BY <3>5, <3>6, <3>7, <3>8
  <2>3. CASE ChunkParsed
    <3> DEFINE c == Head(tab.writes)
    <3>1. /\ tab.writes # <<>>
          /\ tab' = [tab EXCEPT !.writes = Tail(tab.writes), !.shown = Append(tab.shown, c.sequence)]
          /\ asked' = IF Consumed(c) \/ ~tab.running THEN asked
                      ELSE asked \cup {[kind |-> "input", chunk |-> c.sequence]}
      BY <2>3 DEF ChunkParsed
    <3>2. tab.writes \in Seq(Chunks) /\ tab.shown \in Seq(Nat)
      BY <1>2 DEF TabStates
    <3>3. c \in Chunks /\ Tail(tab.writes) \in Seq(Chunks)
      BY <3>1, <3>2, HeadTailProperties, EmptySeq
    <3>4. c.sequence \in Nat
      BY <3>3 DEF Chunks
    <3> HIDE DEF c
    <3>5. Append(tab.shown, c.sequence) \in Seq(Nat)
      BY <3>2, <3>4
    <3>6. tab' \in TabStates
      BY <1>2, <3>1, <3>3, <3>5 DEF TabStates
    <3> DEFINE r == [kind |-> "input", chunk |-> c.sequence]
    <3>7. r \in Requests /\ r.kind # "change"
      BY <3>4, RequestKinds
    <3>8. asked' = asked \/ asked' = asked \cup {r}
      BY <3>1
    <3> HIDE DEF r
    <3>9. QED BY <3>6, <3>7, <3>8
  <2>4. CASE TabClosed
    <3>1. tab' = tab \/ tab' = [tab EXCEPT !.closed = TRUE]
      BY <2>4 DEF TabClosed
    <3>2. asked' = asked \/ \E kind \in {"close", "closeView"} : asked' = asked \cup {Ask(kind)}
      BY <2>4 DEF TabClosed
    <3>3. \A k \in {"close", "closeView"} : Ask(k) \in Requests /\ Ask(k).kind = k
      BY RequestKinds DEF Plain, Ask
    <3>4. tab' \in TabStates
      BY <1>2, <3>1 DEF TabStates
    <3>5. QED BY <3>2, <3>3, <3>4
  <2>5. QED BY <2>1, <2>2, <2>3, <2>4
<1>5. TypeOK'
  BY <1>1, <1>2, <1>4 DEF CommonInv, TypeOK, mainVars, TabStates
<1>6. Unheard'
  BY <1>1, <1>3 DEF Unheard
<1>7. ListInv'
  BY <1>1, <1>4, ListStays DEF CommonInv, mainVars
<1>8. QED BY <1>5, <1>6, <1>7 DEF CommonInv

\* The human's decisions.
LEMMA Decides ==
  ASSUME CommonInv, (\E s \in Sessions : ControlAsked(s)) \/ \E p \in Prompts : PromptDecided(p)
  PROVE  CommonInv'
<1>1. /\ UNCHANGED <<mainVars, window, channel, rendererVars>> /\ budget' \in [Traffic -> Nat]
  <2>1. CASE \E s \in Sessions : ControlAsked(s)
    BY <2>1, SpendTypes DEF CommonInv, ControlAsked, Traffic
  <2>2. CASE \E p \in Prompts : PromptDecided(p)
    BY <2>2, SpendTypes DEF CommonInv, PromptDecided, Traffic
  <2>3. QED BY <2>1, <2>2
<1>2. /\ window = "mounted"
      /\ \A r \in asked' : r \in asked \/ (r \in Requests /\ (r.kind # "change" \/ ~list.booting))
  <2>1. CASE \E s \in Sessions : ControlAsked(s)
    <3>1. PICK s \in Sessions : ControlAsked(s)
      BY <2>1
    <3>2. PICK c \in {"revoked", "detached"} :
              asked' = asked \cup {[kind |-> "change", session |-> s, state |-> c]}
      BY <3>1 DEF ControlAsked
    <3>3. list.sessions[s] > 0
      BY <3>1 DEF ControlAsked
    <3>4. ~list.booting
      BY <3>3 DEF CommonInv, ListInv, ListBoots
    <3>5. window = "mounted"
      BY <3>3 DEF CommonInv, Unheard, EmptyList
    <3>6. [kind |-> "change", session |-> s, state |-> c] \in Requests
      BY RequestKinds DEF ControlStates
    <3>7. QED BY <3>2, <3>4, <3>5, <3>6
  <2>2. CASE \E p \in Prompts : PromptDecided(p)
    <3>1. PICK p \in Prompts : PromptDecided(p)
      BY <2>2
    <3>2. /\ asked' = asked \cup {[kind |-> "resolve", prompt |-> p]}
          /\ p \in ToSet(dialog.shown)
      BY <3>1 DEF PromptDecided
    <3>3. ToSet(<<>>) = {}
      <4>1. DOMAIN <<>> = {}
        OBVIOUS
      <4>2. QED BY <4>1 DEF ToSet
    <3>4. window = "mounted"
      BY <3>2, <3>3 DEF CommonInv, Unheard, EmptyDialog
    <3> DEFINE r == [kind |-> "resolve", prompt |-> p]
    <3>5. r \in Requests /\ r.kind # "change"
      BY RequestKinds
    <3>6. asked' = asked \cup {r}
      BY <3>2
    <3> HIDE DEF r
    <3>7. QED BY <3>4, <3>5, <3>6
  <2>3. QED BY <2>1, <2>2
<1>3. TypeOK'
  BY <1>1, <1>2 DEF CommonInv, TypeOK, mainVars, rendererVars
<1>4. Unheard'
  BY <1>1, <1>2 DEF Unheard
<1>5. ListInv'
  BY <1>1, <1>2, ListStays DEF CommonInv, mainVars, rendererVars
<1>6. QED BY <1>3, <1>4, <1>5 DEF CommonInv

LEMMA Loses ==
  ASSUME CommonInv, RendererLost PROVE CommonInv'
<1>1. /\ window' = "none" /\ channel' = <<>> /\ asked' = {}
      /\ list' = EmptyList /\ dialog' = EmptyDialog /\ tab' = NoTab
      /\ UNCHANGED <<manager, removed, running, control, outputs, answers>>
  BY DEF RendererLost
<1>2. budget' \in [Traffic -> Nat]
  BY SpendTypes DEF CommonInv, RendererLost, Traffic
<1>3. /\ prompts' \in [Prompts -> {"idle", "pending", "answered", "timeout", "cancelled"}]
      /\ queue' \in Seq(Prompts)
  <2>1. CASE window = "mounted"
    <3>1. /\ prompts' = [p \in Prompts |-> IF prompts[p] = "pending" THEN "cancelled" ELSE prompts[p]]
          /\ queue' = <<>>
      BY <2>1 DEF RendererLost
    <3>2. <<>> \in Seq(Prompts)
      OBVIOUS
    <3>3. QED BY <3>1, <3>2 DEF CommonInv, TypeOK
  <2>2. CASE window # "mounted"
    BY <2>2 DEF CommonInv, TypeOK, RendererLost
  <2>3. QED BY <2>1, <2>2
<1>4. <<>> \in Seq(Messages)
  OBVIOUS
<1>5. TypeOK'
  BY <1>1, <1>2, <1>3, <1>4, EmptyTyped
     DEF CommonInv, TypeOK, ListStates, DialogStates, TabStates
<1>6. Unheard'
  BY <1>1 DEF Unheard
<1>7. ListInv'
  <2>1. (channel = <<>> /\ list = EmptyList /\ \A r \in asked : r.kind # "change")'
    BY <1>1
  <2>2. QED BY <2>1, ListFresh, PTL
<1>8. QED BY <1>5, <1>6, <1>7 DEF CommonInv

LEMMA CommonInit ==
  ASSUME BoundsAssumption, Init PROVE CommonInv
<1>1. TypeOK
  <2>1. <<>> \in Seq(Prompts) /\ <<>> \in Seq(Queries) /\ <<>> \in Seq(Nat) /\ <<>> \in Seq(Messages)
    OBVIOUS
  <2>2. budget \in [Traffic -> Nat]
    BY DEF Init, BoundsAssumption
  <2>3. QED BY <2>1, <2>2, EmptyTyped
            DEF Init, TypeOK, ListStates, DialogStates, TabStates, ControlStates
<1>2. Unheard
  BY DEF Init, Unheard
<1>3. ListInv
  BY ListFresh DEF Init
<1>4. QED BY <1>1, <1>2, <1>3 DEF CommonInv

LEMMA CommonSame ==
  ASSUME CommonInv, UNCHANGED vars PROVE CommonInv'
<1>1. UNCHANGED <<mainVars, window, channel, asked, rendererVars, budget>>
  BY DEF vars
<1>2. TypeOK' /\ Unheard'
  BY <1>1 DEF CommonInv, TypeOK, Unheard, mainVars, rendererVars
<1>3. ListInv'
  BY <1>1, ListStays DEF CommonInv, mainVars, rendererVars
<1>4. QED BY <1>2, <1>3 DEF CommonInv

LEMMA CommonStep ==
  ASSUME ViewedAssumption, MaxPendingAssumption, CommonInv, [Next]_vars PROVE CommonInv'
<1>1. CASE MainStep
  <2>1. PICK ms : News(ms)
    BY <1>1, MainNews DEF CommonInv
  <2>2. QED BY <2>1, MainTyped, ListMain DEF CommonInv
<1>2. CASE RendererStep
  BY <1>2, Mounts, Delivers, Works, Decides, Loses DEF RendererStep
<1>3. CASE UNCHANGED vars
  BY <1>3, CommonSame
<1>4. QED BY <1>1, <1>2, <1>3, Steps

\* What the main process has, what is on its way, and what the three mirrors of a renderer
\* hold are of their types.
THEOREM RendererTypeCorrect == Spec => []TypeOK
<1>1. Init => CommonInv
  BY CommonInit, BoundsAssumption
<1>2. CommonInv /\ [Next]_vars => CommonInv'
  BY CommonStep, ViewedAssumption, MaxPendingAssumption
<1>3. CommonInv => TypeOK
  BY DEF CommonInv
<1>4. QED BY <1>1, <1>2, <1>3, PTL DEF Spec

\* Once all has come and been answered, the list of a renderer is what the main process has
\* (useSessionCollaboration): no event was lost, and none undone by an older snapshot.
THEOREM ListSafe == Spec => []ListConverges
<1>1. Init => CommonInv
  BY CommonInit, BoundsAssumption
<1>2. CommonInv /\ [Next]_vars => CommonInv'
  BY CommonStep, ViewedAssumption, MaxPendingAssumption
<1>3. CommonInv => ListConverges
  <2> SUFFICES ASSUME CommonInv, Quiet, list.complete
               PROVE  list.sessions = manager /\ list.controls = control
    BY DEF ListConverges
  <2>1. \A f, s : Silent(channel, f, s)
    <3>1. 1..Len(<<>>) = {}
      OBVIOUS
    <3>2. QED BY <3>1 DEF Quiet, Silent
  <2>2. \A f \in Fields, s \in Sessions : Known(list, f, s) = Actual(f, s)
    BY <2>1 DEF CommonInv, ListInv, ListKnows
  <2>3. \A s \in Sessions : list.sessions[s] = manager[s] /\ list.controls[s] = control[s]
    BY <2>2 DEF Known, Actual, Fields
  <2>4. /\ list.sessions \in [Sessions -> Nat] /\ list.controls \in [Sessions -> ControlStates]
        /\ manager \in [Sessions -> Nat] /\ control \in [Sessions -> ControlStates]
    BY DEF CommonInv, TypeOK
  <2>5. QED BY <2>3, <2>4
<1>4. QED BY <1>1, <1>2, <1>3, PTL DEF Spec

-----------------------------------------------------------------------------
(* Requests and their answers: of some kinds at most one is on its way. *)

Asking(K, reqs) == \E r \in reqs : r.kind \in K
Coming(K, seq) == \E i \in 1..Len(seq) : IsAnswer(seq[i], K)
Abroad(K, reqs, seq) == Asking(K, reqs) \/ Coming(K, seq)

Single(K, reqs, seq) ==
    /\ \A r1, r2 \in reqs : r1.kind \in K /\ r2.kind \in K => r1 = r2
    /\ \A i, j \in 1..Len(seq) : IsAnswer(seq[i], K) /\ IsAnswer(seq[j], K) => i = j
    /\ ~(Asking(K, reqs) /\ Coming(K, seq))

LEMMA TokensMain ==
  ASSUME TypeOK, Unheard, NEW ms, News(ms), NEW K \in SUBSET Kinds
  PROVE  /\ Abroad(K, asked', channel') => Abroad(K, asked, channel)
         /\ Single(K, asked, channel) => Single(K, asked', channel')
<1>1. ms \in Seq(Messages) /\ Emit(ms) /\ asked' \subseteq asked /\ TokenNews(ms)
  BY DEF News
<1>2. CASE window # "mounted"
  <2>1. asked' = {} /\ channel' = <<>> /\ 1..Len(<<>>) = {}
    BY <1>1, <1>2 DEF Unheard, Emit
  <2>2. QED BY <2>1 DEF Abroad, Single, Asking, Coming
<1>3. CASE window = "mounted"
  <2>1. channel' = channel \o ms /\ channel \in Seq(Messages)
    BY <1>1, <1>3 DEF Emit, TypeOK
  <2>2. /\ Len(channel) \in Nat /\ Len(ms) \in Nat /\ Len(channel') = Len(channel) + Len(ms)
        /\ \A i \in 1..(Len(channel) + Len(ms)) :
              channel'[i] = IF i <= Len(channel) THEN channel[i] ELSE ms[i - Len(channel)]
    BY <1>1, <2>1, ConcatProperties, LenProperties
  <2>3. ASSUME NEW j \in 1..Len(ms), IsAnswer(ms[j], K)
        PROVE  /\ \E r \in asked : r.kind \in K /\ asked' = asked \ {r}
               /\ \A i \in 1..Len(ms) : IsAnswer(ms[i], K) => i = j
    <3>1. \A m : IsAnswer(m, K) => IsAnswer(m, Kinds) /\ m.to \in K
      BY DEF IsAnswer
    <3>2. QED BY <1>1, <2>3, <3>1 DEF TokenNews
  <2>4. ASSUME NEW i \in 1..Len(channel')
        PROVE  \/ i \in 1..Len(channel) /\ channel'[i] = channel[i]
               \/ i - Len(channel) \in 1..Len(ms) /\ channel'[i] = ms[i - Len(channel)]
    BY <2>2
  <2>5. ASSUME Abroad(K, asked', channel') PROVE Abroad(K, asked, channel)
    <3>1. CASE Asking(K, asked')
      BY <1>1, <3>1 DEF Abroad, Asking
    <3>2. CASE Coming(K, channel')
      <4>1. PICK i \in 1..Len(channel') : IsAnswer(channel'[i], K)
        BY <3>2 DEF Coming
      <4>2. CASE i \in 1..Len(channel) /\ channel'[i] = channel[i]
        BY <4>1, <4>2 DEF Abroad, Coming
      <4>3. CASE i - Len(channel) \in 1..Len(ms) /\ channel'[i] = ms[i - Len(channel)]
        <5>1. \E r \in asked : r.kind \in K
          BY <2>3, <4>1, <4>3
        <5>2. QED BY <5>1 DEF Abroad, Asking
      <4>4. QED BY <2>4, <4>2, <4>3
    <3>3. QED BY <2>5, <3>1, <3>2 DEF Abroad
  <2>6. ASSUME Single(K, asked, channel) PROVE Single(K, asked', channel')
    <3>1. \A r1, r2 \in asked' : r1.kind \in K /\ r2.kind \in K => r1 = r2
      BY <1>1, <2>6 DEF Single
    <3>2. CASE \A j \in 1..Len(ms) : ~IsAnswer(ms[j], K)
      <4>1. \A i \in 1..Len(channel') : IsAnswer(channel'[i], K) =>
                i \in 1..Len(channel) /\ IsAnswer(channel[i], K)
        BY <2>4, <3>2
      <4>2. \A i, j \in 1..Len(channel') : IsAnswer(channel'[i], K) /\ IsAnswer(channel'[j], K) => i = j
        BY <2>6, <4>1 DEF Single
      <4>3. ~(Asking(K, asked') /\ Coming(K, channel'))
        BY <1>1, <2>6, <4>1 DEF Single, Asking, Coming
      <4>4. QED BY <3>1, <4>2, <4>3 DEF Single
    <3>3. CASE \E j \in 1..Len(ms) : IsAnswer(ms[j], K)
      <4>1. PICK j \in 1..Len(ms) : IsAnswer(ms[j], K)
        BY <3>3
      <4>2. PICK r \in asked : r.kind \in K /\ asked' = asked \ {r}
        BY <2>3, <4>1
      <4>3. ~Asking(K, asked')
        BY <2>6, <4>2 DEF Single, Asking
      <4>4. ~Coming(K, channel)
        BY <2>6, <4>2 DEF Single, Asking
      <4>5. ASSUME NEW i \in 1..Len(channel'), IsAnswer(channel'[i], K) PROVE i = Len(channel) + j
        <5>1. i - Len(channel) \in 1..Len(ms) /\ channel'[i] = ms[i - Len(channel)]
          BY <2>4, <4>4, <4>5 DEF Coming
        <5>2. i - Len(channel) = j
          BY <2>3, <4>1, <4>5, <5>1
        <5>3. QED BY <2>2, <5>1, <5>2
      <4>6. QED BY <3>1, <4>3, <4>5 DEF Single
    <3>4. QED BY <3>2, <3>3
  <2>7. QED BY <2>5, <2>6
<1>4. QED BY <1>2, <1>3

\* A message is delivered, and nothing of these kinds is asked for.
LEMMA TokensDelivered ==
  ASSUME NEW seq \in Seq(Messages), seq # <<>>, NEW reqs, NEW more, NEW K,
         \A r \in more : r.kind \notin K
  PROVE  /\ Abroad(K, reqs \cup more, Tail(seq)) => Abroad(K, reqs, seq)
         /\ Single(K, reqs, seq) => Single(K, reqs \cup more, Tail(seq))
         /\ Single(K, reqs, seq) /\ IsAnswer(Head(seq), K) => ~Abroad(K, reqs \cup more, Tail(seq))
<1>1. /\ Len(seq) \in Nat /\ Len(seq) > 0 /\ Len(Tail(seq)) = Len(seq) - 1
      /\ Head(seq) = seq[1]
      /\ \A i \in 1..Len(Tail(seq)) : Tail(seq)[i] = seq[i + 1]
  BY HeadTailProperties, EmptySeq, LenProperties
<1>2. /\ 1 \in 1..Len(seq)
      /\ \A i \in 1..Len(Tail(seq)) : i + 1 \in 1..Len(seq) /\ i + 1 # 1
      /\ \A i, j \in 1..Len(Tail(seq)) : i + 1 = j + 1 => i = j
  BY <1>1
<1>3. Asking(K, reqs \cup more) <=> Asking(K, reqs)
  BY DEF Asking
<1>4. Coming(K, Tail(seq)) => Coming(K, seq)
  BY <1>1, <1>2 DEF Coming
<1>5. Abroad(K, reqs \cup more, Tail(seq)) => Abroad(K, reqs, seq)
  BY <1>3, <1>4 DEF Abroad
<1>6. ASSUME Single(K, reqs, seq) PROVE Single(K, reqs \cup more, Tail(seq))
  <2>1. \A r1, r2 \in reqs \cup more : r1.kind \in K /\ r2.kind \in K => r1 = r2
    BY <1>6 DEF Single
  <2>2. \A i, j \in 1..Len(Tail(seq)) : IsAnswer(Tail(seq)[i], K) /\ IsAnswer(Tail(seq)[j], K) => i = j
    BY <1>1, <1>2, <1>6 DEF Single
  <2>3. QED BY <1>3, <1>4, <1>6, <2>1, <2>2 DEF Single
<1>7. ASSUME Single(K, reqs, seq), IsAnswer(Head(seq), K)
      PROVE  ~Abroad(K, reqs \cup more, Tail(seq))
  <2>1. Coming(K, seq)
    BY <1>1, <1>2, <1>7 DEF Coming
  <2>2. ~Asking(K, reqs \cup more)
    BY <1>3, <1>7, <2>1 DEF Single
  <2>3. ~Coming(K, Tail(seq))
    BY <1>1, <1>2, <1>7 DEF Single, Coming
  <2>4. QED BY <2>2, <2>3 DEF Abroad
<1>8. QED BY <1>5, <1>6, <1>7

-----------------------------------------------------------------------------
(* The output of the viewed session. *)

\* What is counted only grows.
LEMMA Grows ==
  ASSUME NEW S, NEW seq \in Seq(S), NEW outs, NEW a \in Nat, NEW b, Path(Counts(outs), seq, a, b)
  PROVE  b \in Nat /\ a <= b
<1> DEFINE N == Len(seq)
<1>1. N \in Nat
  BY LenProperties
<1>2. PICK v : /\ v[0] = a /\ v[N] = b
               /\ \A i \in 1..N : <<v[i - 1], seq[i], v[i]>> \in Counts(outs)
  BY DEF Path
<1>3. \A i \in 1..N : v[i - 1] \in Nat /\ v[i] \in Nat /\ v[i - 1] <= v[i]
  <2>1. \A t \in Counts(outs) : t[1] \in Nat /\ t[3] \in Nat /\ t[1] <= t[3]
    BY DEF Counts
  <2>2. QED BY <1>2, <2>1
<1> DEFINE T == {n \in Nat : n <= N => v[n] \in Nat /\ a <= v[n]}
<1>4. 0 \in T
  BY <1>2
<1>5. ASSUME NEW n \in Nat, n \in T PROVE n + 1 \in T
  <2> SUFFICES ASSUME n + 1 <= N PROVE v[n + 1] \in Nat /\ a <= v[n + 1]
    OBVIOUS
  <2>1. n + 1 \in 1..N /\ (n + 1) - 1 = n /\ n <= N
    BY <1>1
  <2>2. v[n] \in Nat /\ a <= v[n]
    BY <1>5, <2>1
  <2>3. v[n] <= v[n + 1] /\ v[n + 1] \in Nat
    BY <1>3, <2>1
  <2>4. QED BY <2>2, <2>3
<1>6. N \in T
  <2> HIDE DEF T, N
  <2>1. QED BY <1>1, <1>4, <1>5, NatSetInduction
<1>7. QED BY <1>1, <1>2, <1>6

\* More output does not change what was there.
LEMMA CountsWider ==
  ASSUME NEW outs \in Seq(Queries), NEW q \in Queries
  PROVE  Counts(outs) \subseteq Counts(Append(outs, q))
<1>1. /\ Len(outs) \in Nat /\ Len(Append(outs, q)) = Len(outs) + 1
      /\ \A i \in 1..Len(outs) : Append(outs, q)[i] = outs[i]
  BY AppendProperties, LenProperties
<1> DEFINE more == Append(outs, q)
<1> HIDE DEF more
<1>2. ASSUME NEW t \in Counts(outs) PROVE t \in Counts(more)
  <2>1. t \in Nat \X Messages \X Nat
    BY DEF Counts
  <2>2. CASE t[2].type = "output"
    <3>1. t[3] = t[1] + 1 /\ t[3] <= Len(outs) /\ t[2] = Output(t[3], outs[t[3]])
      BY <2>2 DEF Counts
    <3>2. t[3] \in 1..Len(outs)
      BY <1>1, <2>1, <3>1
    <3>3. more[t[3]] = outs[t[3]] /\ t[3] <= Len(more)
      BY <1>1, <3>2 DEF more
    <3>4. QED BY <2>1, <2>2, <3>1, <3>3 DEF Counts
  <2>3. CASE t[2].type # "output"
    BY <2>1, <2>3 DEF Counts
  <2>4. QED BY <2>2, <2>3
<1>3. QED BY <1>2 DEF more

\* The writes of a terminal go on after chunk s, to the last that has been counted.
Follows(t, outs, s, x) ==
    /\ t.last = IF x > s THEN x ELSE s
    /\ Len(t.writes) = t.last - s
    /\ \A i \in 1..Len(t.writes) : t.writes[i] = Output(s + i, outs[s + i])

LEMMA FollowsOne ==
  ASSUME NEW t \in TabStates, NEW m \in Events, NEW outs, NEW s \in Nat, NEW x \in Nat, NEW y,
         Follows(t, outs, s, x), <<x, m, y>> \in Counts(outs)
  PROVE  y \in Nat /\ Follows(ProcessEvent(t, m), outs, s, y)
<1>1. /\ t.writes \in Seq(Chunks) /\ Len(t.writes) \in Nat /\ t.last \in Nat
      /\ t.last = (IF x > s THEN x ELSE s) /\ Len(t.writes) = t.last - s
  BY LenProperties DEF TabStates, Follows
<1>2. CASE m.type = "output"
  <2>1. y = x + 1 /\ m = Output(y, outs[y])
    BY <1>2 DEF Counts
  <2>2. m.sequence = y
    BY <2>1 DEF Output
  <2>3. CASE y > t.last
    <3>1. ProcessEvent(t, m) = [t EXCEPT !.last = m.sequence, !.writes = Append(t.writes, m)]
      BY <1>2, <2>2, <2>3 DEF ProcessEvent
    <3> DEFINE r == ProcessEvent(t, m)
    <3>2. r.last = y /\ r.writes = Append(t.writes, m)
      BY <2>2, <3>1 DEF TabStates
    <3> HIDE DEF r
    <3>3. t.last = x /\ s <= x /\ y > s /\ Len(t.writes) = x - s
      BY <1>1, <2>1, <2>3
    <3>4. /\ Len(r.writes) = Len(t.writes) + 1 /\ r.writes[Len(t.writes) + 1] = m
          /\ \A i \in 1..Len(t.writes) : r.writes[i] = t.writes[i]
      BY <1>1, <1>2, <3>2, EventParts, AppendProperties
    <3>5. Len(r.writes) = y - s /\ s + (Len(t.writes) + 1) = y
      BY <2>1, <3>3, <3>4
    <3>6. \A i \in 1..Len(r.writes) : i \in 1..Len(t.writes) \/ i = Len(t.writes) + 1
      BY <1>1, <3>4
    <3>7. \A i \in 1..Len(r.writes) : r.writes[i] = Output(s + i, outs[s + i])
      BY <2>1, <3>4, <3>5, <3>6 DEF Follows
    <3>8. QED BY <2>1, <3>2, <3>3, <3>5, <3>7 DEF Follows, r
  <2>4. CASE ~(y > t.last)
    <3>1. ProcessEvent(t, m) = t
      BY <1>2, <2>2, <2>4 DEF ProcessEvent
    <3>2. t.last = (IF y > s THEN y ELSE s) /\ y \in Nat
      BY <1>1, <2>1, <2>4
    <3>3. QED BY <3>1, <3>2 DEF Follows
  <2>5. QED BY <2>3, <2>4
<1>3. CASE m.type # "output"
  <2>1. y = x
    BY <1>3 DEF Counts
  <2>2. ProcessEvent(t, m) = t \/ ProcessEvent(t, m) = [t EXCEPT !.running = m.running]
    BY <1>3 DEF ProcessEvent
  <2>3. ProcessEvent(t, m).last = t.last /\ ProcessEvent(t, m).writes = t.writes
    BY <2>2 DEF TabStates
  <2>4. QED BY <2>1, <2>3 DEF Follows
<1>4. QED BY <1>2, <1>3

LEMMA FollowsAll ==
  ASSUME NEW t \in TabStates, NEW b \in Seq(Events), NEW outs, NEW s \in Nat, NEW a \in Nat, NEW e,
         Follows(t, outs, s, a), Path(Counts(outs), b, a, e)
  PROVE  Follows(Followed(t, b), outs, s, e)
<1> DEFINE N == Len(b)
<1>1. N \in Nat /\ \A i \in 1..N : b[i] \in Events
  BY LenProperties, ElementOfSeq
<1>2. PICK applied : FollowRun(t, b, N, applied)
  BY <1>1, FollowFold
<1>3. /\ applied[0] = t
      /\ \A n \in 1..N : applied[n] = ProcessEvent(applied[n - 1], b[n])
      /\ Followed(t, b) = applied[N]
  BY <1>2 DEF FollowRun
<1>4. PICK v : /\ v[0] = a /\ v[N] = e
               /\ \A i \in 1..N : <<v[i - 1], b[i], v[i]>> \in Counts(outs)
  BY DEF Path
<1> DEFINE Kept(n) == applied[n] \in TabStates /\ v[n] \in Nat /\ Follows(applied[n], outs, s, v[n])
           T == {n \in Nat : n <= N => Kept(n)}
<1>5. 0 \in T
  BY <1>3, <1>4
<1>6. ASSUME NEW n \in Nat, n \in T PROVE n + 1 \in T
  <2> SUFFICES ASSUME n + 1 <= N PROVE Kept(n + 1)
    OBVIOUS
  <2> HIDE DEF N
  <2>1. n <= N /\ n + 1 \in 1..N /\ (n + 1) - 1 = n
    BY <1>1
  <2>2. Kept(n)
    BY <1>6, <2>1
  <2>3. b[n + 1] \in Events
    BY <1>1, <2>1 DEF N
  <2>4. applied[n + 1] = ProcessEvent(applied[n], b[n + 1])
    BY <1>3, <2>1 DEF N
  <2>5. <<v[n], b[n + 1], v[n + 1]>> \in Counts(outs)
    BY <1>4, <2>1 DEF N
  <2>6. v[n + 1] \in Nat /\ Follows(applied[n + 1], outs, s, v[n + 1])
    BY <2>2, <2>3, <2>4, <2>5, FollowsOne
  <2>7. applied[n + 1] \in TabStates
    BY <2>2, <2>3, <2>4, ProcessTyped
  <2>8. QED BY <2>6, <2>7
<1>7. N \in T
  <2> HIDE DEF T
  <2>1. QED BY <1>1, <1>5, <1>6, NatSetInduction
<1>8. Kept(N)
  BY <1>1, <1>7
<1>9. QED BY <1>3, <1>4, <1>8

\* What a terminal shows, or will show, when e chunks have come to it.
AtScreen(t, outs, e) ==
    /\ t.shown = [i \in 1..Len(t.shown) |-> i]
    /\ t.stage \in {"none", "creating", "opening", "writing"} => t.writes = <<>>
    /\ t.stage = "none" => t.buffer = <<>>
    /\ t.stage \in Starting => \E a \in Nat : /\ Path(Counts(outs), t.buffer, a, e)
                                              /\ t.stage = "writing" => a <= t.start /\ t.start <= e
    /\ t.stage = "open" => Len(t.shown) <= e /\ Follows(t, outs, Len(t.shown), e)

Screen == \E e \in Nat : Path(Counts(outputs), channel, e, Len(outputs)) /\ AtScreen(tab, outputs, e)

LEMMA ScreenWider ==
  ASSUME NEW outs \in Seq(Queries), NEW q \in Queries, NEW t \in TabStates, NEW e \in Nat,
         e <= Len(outs), AtScreen(t, outs, e)
  PROVE  AtScreen(t, Append(outs, q), e)
<1> DEFINE more == Append(outs, q)
<1>1. /\ Len(outs) \in Nat /\ \A i \in 1..Len(outs) : more[i] = outs[i]
      /\ Counts(outs) \subseteq Counts(more)
  BY AppendProperties, LenProperties, CountsWider
<1> HIDE DEF more
<1>2. \A a : Path(Counts(outs), t.buffer, a, e) => Path(Counts(more), t.buffer, a, e)
  BY <1>1, PathWider
<1>3. ASSUME t.stage = "open" PROVE Len(t.shown) <= e /\ Follows(t, more, Len(t.shown), e)
  <2>1. Len(t.shown) <= e /\ Follows(t, outs, Len(t.shown), e)
    BY <1>3 DEF AtScreen
  <2>2. Len(t.shown) \in Nat /\ Len(t.writes) \in Nat
    BY LenProperties DEF TabStates
  <2> DEFINE k == Len(t.shown)
  <2>3. Len(t.writes) = t.last - k /\ t.last = IF e > k THEN e ELSE k
    BY <2>1 DEF Follows
  <2>4. \A i \in 1..Len(t.writes) : k + i \in 1..Len(outs)
    <3> HIDE DEF k
    <3>0. k \in Nat /\ k <= e
      BY <2>1, <2>2 DEF k
    <3>1. QED BY <1>1, <2>2, <2>3, <3>0
  <2>5. \A i \in 1..Len(t.writes) : t.writes[i] = Output(k + i, more[k + i])
    BY <1>1, <2>1, <2>4 DEF Follows
  <2>6. QED BY <2>1, <2>3, <2>5 DEF Follows
<1>4. t.stage \in Starting => \E a \in Nat : /\ Path(Counts(more), t.buffer, a, e)
                                             /\ t.stage = "writing" => a <= t.start /\ t.start <= e
  BY <1>2 DEF AtScreen
<1>5. AtScreen(t, more, e)
  BY <1>3, <1>4 DEF AtScreen
<1>6. QED BY <1>5 DEF more

LEMMA ScreenMain ==
  ASSUME TypeOK, Unheard, Screen, NEW ms, News(ms) PROVE Screen'
<1>1. /\ ms \in Seq(Messages) /\ Emit(ms) /\ UNCHANGED <<window, tab>> /\ OutputNews(ms) /\ MainTypes'
  BY DEF News, rendererVars
<1>2. PICK e \in Nat : Path(Counts(outputs), channel, e, Len(outputs)) /\ AtScreen(tab, outputs, e)
  BY DEF Screen
<1>3. /\ outputs \in Seq(Queries) /\ outputs' \in Seq(Queries) /\ channel \in Seq(Messages)
      /\ tab \in TabStates
  BY <1>1, TypedParts DEF TypeOK, MainTypes
<1>4. /\ e <= Len(outputs)
      /\ Len(outputs) \in Nat /\ Len(outputs') \in Nat
  BY <1>2, <1>3, Grows, LenProperties
<1>5. Counts(outputs) \subseteq Counts(outputs') /\ AtScreen(tab, outputs', e)
  <2>1. CASE outputs' = outputs
    BY <1>2, <2>1
  <2>2. CASE \E q \in Queries : outputs' = Append(outputs, q)
    BY <1>2, <1>3, <1>4, <2>2, CountsWider, ScreenWider
  <2>3. QED BY <1>1, <2>1, <2>2 DEF OutputNews
<1>6. CASE window = "mounted"
  <2>1. channel' = channel \o ms /\ tab' = tab
    BY <1>1, <1>6 DEF Emit
  <2>2. Path(Counts(outputs'), channel, e, Len(outputs))
    BY <1>2, <1>5, PathWider
  <2>3. Path(Counts(outputs'), ms, Len(outputs), Len(outputs'))
    BY <1>1 DEF OutputNews
  <2> DEFINE R == Counts(outputs')
             n == Len(outputs')
  <2> HIDE DEF R, n
  <2>4. Path(R, channel \o ms, e, n)
    BY <1>1, <1>3, <2>2, <2>3, PathConcat DEF R, n
  <2>5. Path(Counts(outputs'), channel', e, Len(outputs')) /\ AtScreen(tab', outputs', e)
    BY <1>5, <2>1, <2>4 DEF R, n
  <2>6. QED BY <2>5 DEF Screen
<1>7. CASE window # "mounted"
  <2>1. channel' = <<>> /\ tab' = NoTab
    BY <1>1, <1>7 DEF Emit, Unheard
  <2>2. Path(Counts(outputs'), channel', Len(outputs'), Len(outputs'))
    BY <2>1, PathEmpty
  <2>3. AtScreen(tab', outputs', Len(outputs'))
    BY <1>2, <1>7, <2>1 DEF AtScreen, NoTab, Starting, Unheard
  <2>4. QED BY <1>4, <2>2, <2>3 DEF Screen
<1>8. QED BY <1>6, <1>7

\* The requests of one terminal, and the stage in which it makes them.
Start == {"create", "attach"}

Tokens ==
    /\ Single(Start, asked, channel) /\ Single({"view"}, asked, channel)
    /\ Abroad(Start, asked, channel) => tab.stage = "creating"
    /\ Abroad({"view"}, asked, channel) => tab.stage = "opening"
    /\ Abroad({"closeView"}, asked, channel) => tab.stage \in {"open", "disposed"}

LEMMA HeadAbroad ==
  ASSUME NEW seq \in Seq(Messages), seq # <<>>, NEW reqs, NEW K, IsAnswer(Head(seq), K)
  PROVE  Abroad(K, reqs, seq)
<1>1. Len(seq) \in Nat /\ Len(seq) > 0 /\ Head(seq) = seq[1]
  BY HeadTailProperties, EmptySeq, LenProperties
<1>2. 1 \in 1..Len(seq)
  BY <1>1
<1>3. QED BY <1>1, <1>2 DEF Abroad, Coming

\* A message is delivered to the terminal: the next chunk is shown, or held back.
LEMMA ScreenDelivered ==
  ASSUME TypeOK, Screen, Tokens, Deliver PROVE Screen'
<1> DEFINE m == Head(channel)
           t == tab
<1>1. /\ channel # <<>> /\ channel' = Tail(channel) /\ t' = TabReceives(t, m) /\ outputs' = outputs
  BY DEF Deliver, mainVars
<1>2. channel \in Seq(Messages) /\ t \in TabStates /\ outputs \in Seq(Queries)
  BY TypedParts, TypeOK DEF TypeOK
<1>3. m \in Messages
  BY <1>1, <1>2, HeadTailProperties, EmptySeq
<1>4. PICK e \in Nat : Path(Counts(outputs), channel, e, Len(outputs)) /\ AtScreen(t, outputs, e)
  BY DEF Screen
<1> DEFINE R == Counts(outputs)
           n == Len(outputs)
<1>5. PICK c : <<e, m, c>> \in R /\ Path(R, channel', c, n)
  <2> HIDE DEF R, n
  <2>1. Path(R, channel, e, n)
    BY <1>4 DEF R, n
  <2>2. QED BY <1>1, <1>2, <2>1, PathHead DEF m
<1>6. /\ c \in Nat
      /\ m.type = "output" => c = e + 1 /\ m.sequence = c
      /\ m.type # "output" => c = e
      /\ m.type = "reply" /\ m.to = "view" => m.value.sequence = e
  BY <1>5 DEF Counts, Output
<1>7. /\ IsAnswer(m, Start) => t.stage = "creating"
      /\ IsAnswer(m, {"view"}) => t.stage = "opening"
      /\ IsAnswer(m, {"closeView"}) => t.stage \in {"open", "disposed"}
  BY <1>1, <1>2, HeadAbroad DEF Tokens
<1> HIDE DEF m, R, n
<1> SUFFICES AtScreen(t', outputs, c)
  <2>1. Path(Counts(outputs'), channel', c, Len(outputs')) /\ AtScreen(t', outputs', c)
    BY <1>1, <1>5 DEF R, n
  <2>2. QED BY <1>6, <2>1 DEF Screen
<1>8. AtScreen(t, outputs, c) => AtScreen(t', outputs, c) \/ t' # t
  OBVIOUS
<1>9. CASE m.type \in {"output", "updated"} /\ Concerns(m) /\ t.stage \in Starting
  <2>1. t' = [t EXCEPT !.buffer = Append(t.buffer, m)]
    BY <1>1, <1>9 DEF TabReceives, Starting
  <2>2. m \in Events /\ t.buffer \in Seq(Events)
    BY <1>2, <1>3, <1>9, MessageKinds, ReplyParts DEF TabStates
  <2>3. /\ t'.buffer = Append(t.buffer, m) /\ t'.stage = t.stage /\ t'.start = t.start
        /\ t'.shown = t.shown /\ t'.writes = t.writes
    BY <1>2, <2>1 DEF TabStates
  <2>4. PICK a \in Nat : Path(R, t.buffer, a, e) /\ (t.stage = "writing" => a <= t.start /\ t.start <= e)
    BY <1>4, <1>9 DEF AtScreen, R
  <2>5. Path(R, t'.buffer, a, c)
    BY <1>5, <2>2, <2>3, <2>4, PathAppend
  <2>6. t.start \in Nat /\ e <= c
    BY <1>2, <1>6 DEF TabStates
  <2>7. t.stage = "writing" => a <= t.start /\ t.start <= c
    BY <1>6, <2>4, <2>6
  <2>8. QED BY <1>4, <1>9, <2>3, <2>5, <2>7 DEF AtScreen, R, Starting
<1>10. CASE m.type \in {"output", "updated"} /\ Concerns(m) /\ t.stage = "open"
  <2>1. t' = ProcessEvent(t, m)
    BY <1>1, <1>10 DEF TabReceives, Starting
  <2>2. m \in Events
    BY <1>3, <1>10, MessageKinds, ReplyParts
  <2>3. Len(t.shown) <= e /\ Follows(t, outputs, Len(t.shown), e)
    BY <1>4, <1>10 DEF AtScreen
  <2>4. Len(t.shown) \in Nat
    BY <1>2, LenProperties DEF TabStates
  <2>5. t'.stage = t.stage /\ t'.shown = t.shown
    BY <1>2, <2>1, <2>2, ProcessTyped
  <2> DEFINE k == Len(t.shown)
  <2> HIDE DEF k
  <2>6. Follows(t', outputs, k, c)
    BY <1>2, <1>5, <2>1, <2>2, <2>3, <2>4, FollowsOne DEF k, R
  <2>7. k <= c
    BY <1>6, <2>3, <2>4 DEF k
  <2>8. QED BY <1>4, <1>10, <2>5, <2>6, <2>7 DEF AtScreen, k, Starting
<1>11. CASE m.type = "output" /\ t.stage \notin Starting /\ t.stage # "open"
  <2>1. t' = t
    BY <1>1, <1>11 DEF TabReceives
  <2>2. QED BY <1>4, <1>11, <2>1 DEF AtScreen, Starting
<1>12. CASE m.type = "removed" /\ Concerns(m) /\ t.stage \in Starting
  <2>1. t' = [t EXCEPT !.closed = @ \/ ~t.created] /\ c = e
    BY <1>1, <1>6, <1>12 DEF TabReceives
  <2>2. /\ t'.buffer = t.buffer /\ t'.stage = t.stage /\ t'.start = t.start
        /\ t'.shown = t.shown /\ t'.writes = t.writes
    BY <1>2, <2>1 DEF TabStates
  <2>3. QED BY <1>4, <1>12, <2>1, <2>2 DEF AtScreen, Starting
<1>13. CASE m.type = "reply" /\ m.to \in Start
  <2>1. t' = [t EXCEPT !.stage = "opening", !.created = m.to = "create"] /\ c = e
    BY <1>1, <1>6, <1>13 DEF TabReceives, Start
  <2>2. t.stage = "creating"
    BY <1>7, <1>13 DEF IsAnswer
  <2>3. /\ t'.buffer = t.buffer /\ t'.stage = "opening"
        /\ t'.shown = t.shown /\ t'.writes = t.writes
    BY <1>2, <2>1 DEF TabStates
  <2>4. QED BY <1>4, <2>1, <2>2, <2>3 DEF AtScreen, Starting
<1>14. CASE m.type = "reply" /\ m.to = "view"
  <2>1. t' = [t EXCEPT !.stage = "writing", !.start = m.value.sequence, !.running = m.value.running]
        /\ c = e /\ m.value.sequence = e
    BY <1>1, <1>6, <1>14 DEF TabReceives
  <2>2. t.stage = "opening"
    BY <1>7, <1>14 DEF IsAnswer
  <2>3. /\ t'.buffer = t.buffer /\ t'.stage = "writing" /\ t'.start = e
        /\ t'.shown = t.shown /\ t'.writes = t.writes
    BY <1>2, <2>1 DEF TabStates
  <2>4. PICK a \in Nat : Path(R, t.buffer, a, e)
    BY <1>4, <2>2 DEF AtScreen, Starting, R
  <2>5. t.buffer \in Seq(Events)
    BY <1>2 DEF TabStates
  <2>6. a <= e
    BY <2>4, <2>5, Grows DEF R
  <2>7. t'.stage = "writing" => a <= t'.start /\ t'.start <= e
    BY <2>3, <2>6
  <2>8. QED BY <1>4, <2>1, <2>2, <2>3, <2>4, <2>7 DEF AtScreen, Starting, R
<1>15. CASE m.type = "failure" /\ m.to \in {"create", "attach", "view"}
  <2>1. t' = [t EXCEPT !.stage = "failed"]
    BY <1>1, <1>15 DEF TabReceives
  <2>2. t'.stage = "failed" /\ t'.shown = t.shown
    BY <1>2, <2>1 DEF TabStates
  <2>3. QED BY <1>4, <2>2 DEF AtScreen, Starting
<1>16. CASE m.type = "reply" /\ m.to = "closeView"
  <2>1. t' = [t EXCEPT !.stage = "disposed"]
    BY <1>1, <1>16 DEF TabReceives
  <2>2. t'.stage = "disposed" /\ t'.shown = t.shown
    BY <1>2, <2>1 DEF TabStates
  <2>3. QED BY <1>4, <2>2 DEF AtScreen, Starting
<1>17. CASE /\ ~(m.type \in {"output", "updated"} /\ Concerns(m) /\ t.stage \in Starting)
            /\ ~(m.type \in {"output", "updated"} /\ Concerns(m) /\ t.stage = "open")
            /\ m.type # "output"
            /\ ~(m.type = "removed" /\ Concerns(m) /\ t.stage \in Starting)
            /\ ~(m.type = "reply" /\ m.to \in Start) /\ ~(m.type = "reply" /\ m.to = "view")
            /\ ~(m.type = "failure" /\ m.to \in {"create", "attach", "view"})
            /\ ~(m.type = "reply" /\ m.to = "closeView")
  <2>1. t' = t /\ c = e
    BY <1>1, <1>6, <1>17 DEF TabReceives, Start
  <2>2. QED BY <1>4, <2>1
<1>18. m.type = "output" => Concerns(m)
  BY DEF Concerns
<1>19. QED BY <1>9, <1>10, <1>11, <1>12, <1>13, <1>14, <1>15, <1>16, <1>17, <1>18

\* The stages that a message leads to, and what is asked for then.
LEMMA StageReceived ==
  ASSUME NEW t \in TabStates, NEW m \in Messages
  PROVE  /\ m.type = "reply" /\ m.to \in Start => TabReceives(t, m).stage = "opening"
         /\ m.type = "reply" /\ m.to = "view" => TabReceives(t, m).stage = "writing"
         /\ m.type = "failure" /\ m.to \in Start \cup {"view"} => TabReceives(t, m).stage = "failed"
         /\ m.type = "reply" /\ m.to = "closeView" => TabReceives(t, m).stage = "disposed"
         /\ \/ m.type = "reply" /\ m.to \in Start \cup {"view", "closeView"}
            \/ m.type = "failure" /\ m.to \in Start \cup {"view"}
            \/ TabReceives(t, m).stage = t.stage
<1>1. CASE m.type = "reply" /\ m.to \in Start
  <2>1. TabReceives(t, m) = [t EXCEPT !.stage = "opening", !.created = m.to = "create"]
    BY <1>1 DEF TabReceives, Start
  <2>2. QED BY <1>1, <2>1 DEF TabStates, Start
<1>2. CASE m.type = "reply" /\ m.to = "view"
  <2>1. TabReceives(t, m) = [t EXCEPT !.stage = "writing", !.start = m.value.sequence,
                                      !.running = m.value.running]
    BY <1>2 DEF TabReceives
  <2>2. QED BY <1>2, <2>1 DEF TabStates, Start
<1>3. CASE m.type = "failure" /\ m.to \in Start \cup {"view"}
  <2>1. TabReceives(t, m) = [t EXCEPT !.stage = "failed"]
    BY <1>3 DEF TabReceives, Start
  <2>2. QED BY <1>3, <2>1 DEF TabStates, Start
<1>4. CASE m.type = "reply" /\ m.to = "closeView"
  <2>1. TabReceives(t, m) = [t EXCEPT !.stage = "disposed"]
    BY <1>4 DEF TabReceives
  <2>2. QED BY <1>4, <2>1 DEF TabStates, Start
<1>5. CASE /\ ~(m.type = "reply" /\ m.to \in Start \cup {"view", "closeView"})
           /\ ~(m.type = "failure" /\ m.to \in Start \cup {"view"})
  <2>1. CASE m.type \in {"output", "updated"} /\ Concerns(m) /\ t.stage \in Starting
    <3>1. TabReceives(t, m) = [t EXCEPT !.buffer = Append(t.buffer, m)]
      BY <2>1 DEF TabReceives, Starting
    <3>2. QED BY <1>5, <3>1 DEF TabStates
  <2>2. CASE m.type \in {"output", "updated"} /\ Concerns(m) /\ t.stage = "open"
    <3>1. TabReceives(t, m) = ProcessEvent(t, m)
      BY <2>2 DEF TabReceives, Starting
    <3>2. m \in Events
      BY <2>2, MessageKinds, ReplyParts
    <3>3. TabReceives(t, m).stage = t.stage
      BY <3>1, <3>2, ProcessTyped
    <3>4. QED BY <1>5, <3>3
  <2>3. CASE m.type = "removed" /\ Concerns(m) /\ t.stage \in Starting
    <3>1. TabReceives(t, m) = [t EXCEPT !.closed = @ \/ ~t.created]
      BY <2>3 DEF TabReceives
    <3>2. QED BY <1>5, <3>1 DEF TabStates
  <2>4. CASE /\ ~(m.type \in {"output", "updated"} /\ Concerns(m) /\ t.stage \in Starting)
             /\ ~(m.type \in {"output", "updated"} /\ Concerns(m) /\ t.stage = "open")
             /\ ~(m.type = "removed" /\ Concerns(m) /\ t.stage \in Starting)
    <3>1. TabReceives(t, m) = t
      BY <1>5, <2>4 DEF TabReceives, Start
    <3>2. QED BY <1>5, <3>1
  <2>5. QED BY <2>1, <2>2, <2>3, <2>4
<1>6. QED BY <1>1, <1>2, <1>3, <1>4, <1>5

LEMMA NextAsked ==
  ASSUME NEW t, NEW m
  PROVE  /\ m.type = "reply" /\ m.to \in Start => TabAsks(t, m) = {Ask("view")}
         /\ ~(m.type = "reply" /\ m.to \in Start) =>
               \A r \in TabAsks(t, m) :
                   /\ r.kind \notin Start \cup {"view"}
                   /\ r.kind = "closeView" => t.stage = "open" /\ ~IsAnswer(m, Start \cup {"view", "closeView"})
<1>1. CASE m.type = "reply" /\ m.to \in Start
  <2>1. TabAsks(t, m) = {Ask("view")}
    BY <1>1 DEF TabAsks, Start
  <2>2. QED BY <1>1, <2>1
<1>2. CASE ~(m.type = "reply" /\ m.to \in Start)
  <2>1. \/ m.type = "failure" /\ m.to = "view" /\ TabAsks(t, m) = {Ask("close")}
        \/ m.type = "removed" /\ t.stage = "open" /\ TabAsks(t, m) = {Ask("closeView")}
        \/ m.type = "reply" /\ m.to = "close" /\ t.stage = "open" /\ TabAsks(t, m) = {Ask("closeView")}
        \/ TabAsks(t, m) = {}
    BY <1>2 DEF TabAsks, Start
  <2>2. QED BY <1>2, <2>1 DEF Ask, Start, IsAnswer
<1>3. QED BY <1>1, <1>2

LEMMA TokensFresh ==
  ASSUME asked = {}, channel = <<>> PROVE Tokens
<1>1. 1..Len(<<>>) = {}
  OBVIOUS
<1>2. \A K : ~Abroad(K, asked, channel) /\ Single(K, asked, channel)
  BY <1>1 DEF Abroad, Single, Asking, Coming
<1>3. QED BY <1>2 DEF Tokens

\* Nothing of a terminal's start is asked for.
LEMMA TokensStay ==
  ASSUME Tokens, channel' = channel,
         tab'.stage = tab.stage \/ (tab.stage = "writing" /\ tab'.stage = "open"),
         \A r \in asked' : \/ r \in asked
                           \/ /\ r.kind \notin Start \cup {"view"}
                              /\ r.kind = "closeView" => tab'.stage = "open"
  PROVE  Tokens'
<1>1. ASSUME NEW K \in {Start, {"view"}}
      PROVE  /\ Abroad(K, asked', channel') => Abroad(K, asked, channel)
             /\ Single(K, asked, channel) => Single(K, asked', channel')
  <2>1. \A r \in asked' : r.kind \in K => r \in asked
    BY DEF Start
  <2>2. QED BY <2>1 DEF Abroad, Single, Asking, Coming
<1>2. Abroad({"closeView"}, asked', channel') => Abroad({"closeView"}, asked, channel) \/ tab'.stage = "open"
  BY DEF Abroad, Asking, Coming
<1>3. Single(Start, asked', channel') /\ Single({"view"}, asked', channel')
  BY <1>1 DEF Tokens
<1>4. Abroad(Start, asked', channel') => tab'.stage = "creating"
  BY <1>1 DEF Tokens
<1>5. Abroad({"view"}, asked', channel') => tab'.stage = "opening"
  BY <1>1 DEF Tokens
<1>6. Abroad({"closeView"}, asked', channel') => tab'.stage \in {"open", "disposed"}
  BY <1>2 DEF Tokens
<1>7. QED BY <1>3, <1>4, <1>5, <1>6 DEF Tokens

LEMMA TokensStarted ==
  ASSUME TypeOK, Tokens, TabStarted PROVE Tokens'
<1>1. /\ tab.stage = "none" /\ tab' = [tab EXCEPT !.stage = "creating"] /\ channel' = channel
  BY DEF TabStarted
<1>2. PICK kind \in {"create", "attach"} : asked' = asked \cup {Ask(kind)}
  BY DEF TabStarted
<1>3. tab'.stage = "creating"
  BY <1>1 DEF TypeOK
<1>4. /\ ~Abroad(Start, asked, channel) /\ ~Abroad({"view"}, asked, channel)
      /\ ~Abroad({"closeView"}, asked, channel)
  BY <1>1 DEF Tokens
<1>5. Ask(kind).kind = kind
  BY DEF Ask
<1>6. /\ ~Abroad({"view"}, asked', channel') /\ ~Abroad({"closeView"}, asked', channel')
  BY <1>1, <1>2, <1>4, <1>5 DEF Abroad, Asking, Coming
<1>7. Single({"view"}, asked', channel')
  BY <1>6 DEF Abroad, Single, Asking, Coming
<1>8. Single(Start, asked', channel')
  BY <1>1, <1>2, <1>4 DEF Abroad, Single, Asking, Coming
<1>9. QED BY <1>3, <1>6, <1>7, <1>8 DEF Tokens

LEMMA TokensDeliver ==
  ASSUME TypeOK, Tokens, Deliver PROVE Tokens'
<1> DEFINE m == Head(channel)
           more == TabAsks(tab, m)
<1>1. channel # <<>> /\ channel' = Tail(channel) /\ tab' = TabReceives(tab, m) /\ asked' = asked \cup more
  BY DEF Deliver
<1>2. channel \in Seq(Messages) /\ tab \in TabStates
  BY TypedParts
<1>3. m \in Messages
  BY <1>1, <1>2, HeadTailProperties, EmptySeq
<1>4. \A K : IsAnswer(m, K) => Abroad(K, asked, channel)
  BY <1>1, <1>2, HeadAbroad
<1>5. ASSUME NEW K, \A r \in more : r.kind \notin K
      PROVE  /\ Abroad(K, asked', channel') => Abroad(K, asked, channel)
             /\ Single(K, asked, channel) => Single(K, asked', channel')
             /\ Single(K, asked, channel) /\ IsAnswer(m, K) => ~Abroad(K, asked', channel')
  BY <1>1, <1>2, <1>5, TokensDelivered
<1> HIDE DEF m, more
<1>6. /\ m.type = "reply" /\ m.to \in Start => more = {Ask("view")}
      /\ ~(m.type = "reply" /\ m.to \in Start) =>
            \A r \in more :
                /\ r.kind \notin Start \cup {"view"}
                /\ r.kind = "closeView" => tab.stage = "open" /\ ~IsAnswer(m, Start \cup {"view", "closeView"})
  BY NextAsked DEF more
<1>7. /\ m.type = "reply" /\ m.to \in Start => tab'.stage = "opening"
      /\ m.type = "reply" /\ m.to = "closeView" => tab'.stage = "disposed"
      /\ \/ IsAnswer(m, Start \cup {"view"}) \/ (IsAnswer(m, {"closeView"}) /\ m.type = "reply")
         \/ tab'.stage = tab.stage
  BY <1>1, <1>2, <1>3, StageReceived DEF IsAnswer
<1>8. /\ IsAnswer(m, Start) => tab.stage = "creating"
      /\ IsAnswer(m, {"view"}) => tab.stage = "opening"
      /\ IsAnswer(m, {"closeView"}) => tab.stage \in {"open", "disposed"}
  BY <1>4 DEF Tokens
<1>9. /\ IsAnswer(m, Start \cup {"view"}) <=> IsAnswer(m, Start) \/ IsAnswer(m, {"view"})
      /\ IsAnswer(m, {"closeView"}) => IsAnswer(m, Start \cup {"view", "closeView"})
      /\ IsAnswer(m, Start) => IsAnswer(m, Start \cup {"view", "closeView"})
      /\ IsAnswer(m, {"view"}) => IsAnswer(m, Start \cup {"view", "closeView"})
  BY DEF IsAnswer
<1>10. \A r \in more : r.kind \notin Start
  BY <1>6 DEF Ask, Start
<1>11. Single(Start, asked', channel') /\ (Abroad(Start, asked', channel') => tab'.stage = "creating")
  <2>1. /\ Abroad(Start, asked', channel') => Abroad(Start, asked, channel)
        /\ Single(Start, asked', channel')
        /\ IsAnswer(m, Start) => ~Abroad(Start, asked', channel')
    BY <1>5, <1>10 DEF Tokens
  <2>2. QED BY <1>7, <1>8, <1>9, <2>1 DEF Tokens
<1>12. Single({"view"}, asked', channel') /\ (Abroad({"view"}, asked', channel') => tab'.stage = "opening")
  <2>1. CASE m.type = "reply" /\ m.to \in Start
    <3>1. tab.stage = "creating" /\ tab'.stage = "opening" /\ asked' = asked \cup {Ask("view")}
      BY <1>1, <1>6, <1>7, <1>8, <2>1 DEF IsAnswer
    <3>2. ~Abroad({"view"}, asked, channel)
      BY <3>1 DEF Tokens
    <3>3. ~Coming({"view"}, channel')
      <4>1. /\ Abroad({"view"}, asked \cup {}, Tail(channel)) => Abroad({"view"}, asked, channel)
        BY <1>1, <1>2, TokensDelivered
      <4>2. QED BY <1>1, <3>2, <4>1 DEF Abroad
    <3>4. \A r \in asked' : r.kind \in {"view"} => r = Ask("view")
      BY <3>1, <3>2 DEF Abroad, Asking
    <3>5. Single({"view"}, asked', channel')
      BY <3>3, <3>4 DEF Single, Coming
    <3>6. QED BY <3>1, <3>5
  <2>2. CASE ~(m.type = "reply" /\ m.to \in Start)
    <3>1. /\ Abroad({"view"}, asked', channel') => Abroad({"view"}, asked, channel)
          /\ Single({"view"}, asked', channel')
          /\ IsAnswer(m, {"view"}) => ~Abroad({"view"}, asked', channel')
      BY <1>5, <1>6, <2>2 DEF Tokens
    <3>2. QED BY <1>7, <1>8, <1>9, <3>1 DEF Tokens
  <2>3. QED BY <2>1, <2>2
<1>13. Abroad({"closeView"}, asked', channel') => tab'.stage \in {"open", "disposed"}
  <2>1. CASE \E r \in more : r.kind = "closeView"
    <3>1. ~(m.type = "reply" /\ m.to \in Start)
      BY <1>6, <2>1 DEF Ask
    <3>2. tab.stage = "open" /\ ~IsAnswer(m, Start \cup {"view", "closeView"})
      BY <1>6, <2>1, <3>1
    <3>3. QED BY <1>7, <1>9, <3>2
  <2>2. CASE \A r \in more : r.kind # "closeView"
    <3>1. Abroad({"closeView"}, asked', channel') => Abroad({"closeView"}, asked, channel)
      BY <1>5, <2>2
    <3>2. Abroad({"closeView"}, asked, channel) => tab.stage \in {"open", "disposed"}
      BY DEF Tokens
    <3>3. tab.stage \in {"open", "disposed"} => tab'.stage \in {"open", "disposed"}
      BY <1>7, <1>8, <1>9 DEF IsAnswer
    <3>4. QED BY <3>1, <3>2, <3>3
  <2>3. QED BY <2>1, <2>2
<1>14. QED BY <1>11, <1>12, <1>13 DEF Tokens

LEMMA TokensMainStep ==
  ASSUME TypeOK, Unheard, Tokens, NEW ms, News(ms) PROVE Tokens'
<1>1. tab' = tab
  BY DEF News, rendererVars
<1>2. Start \in SUBSET Kinds /\ {"view"} \in SUBSET Kinds /\ {"closeView"} \in SUBSET Kinds
  BY DEF Start, Kinds, Plain
<1>3. \A K \in SUBSET Kinds : /\ Abroad(K, asked', channel') => Abroad(K, asked, channel)
                              /\ Single(K, asked, channel) => Single(K, asked', channel')
  BY TokensMain
<1>4. QED BY <1>1, <1>2, <1>3 DEF Tokens

-----------------------------------------------------------------------------
(* The terminal's own steps. *)

LEMMA ScreenFresh ==
  ASSUME outputs \in Seq(Queries), channel = <<>>, tab = NoTab PROVE Screen
<1>1. Len(outputs) \in Nat /\ Path(Counts(outputs), channel, Len(outputs), Len(outputs))
  BY LenProperties, PathEmpty
<1>2. /\ tab.stage = "none" /\ tab.writes = <<>> /\ tab.buffer = <<>> /\ tab.shown = <<>>
  BY DEF NoTab
<1>3. <<>> = [i \in 1..Len(<<>>) |-> i]
  OBVIOUS
<1>4. AtScreen(tab, outputs, Len(outputs))
  BY <1>2, <1>3 DEF AtScreen, Starting
<1>5. QED BY <1>1, <1>4 DEF Screen

LEMMA ScreenStays ==
  ASSUME Screen, UNCHANGED <<outputs, channel>>,
         tab'.stage = tab.stage, tab'.shown = tab.shown, tab'.writes = tab.writes,
         tab'.buffer = tab.buffer, tab'.start = tab.start, tab'.last = tab.last
  PROVE  Screen'
<1>1. PICK e \in Nat : Path(Counts(outputs), channel, e, Len(outputs)) /\ AtScreen(tab, outputs, e)
  BY DEF Screen
<1>2. AtScreen(tab', outputs', e)
  BY <1>1 DEF AtScreen, Follows
<1>3. Path(Counts(outputs'), channel', e, Len(outputs'))
  BY <1>1
<1>4. QED BY <1>2, <1>3 DEF Screen

LEMMA ScreenStarted ==
  ASSUME TypeOK, Screen, TabStarted PROVE Screen'
<1>1. /\ UNCHANGED <<outputs, channel>> /\ tab.stage = "none" /\ tab' = [tab EXCEPT !.stage = "creating"]
  BY DEF TabStarted, mainVars
<1>2. PICK e \in Nat : Path(Counts(outputs), channel, e, Len(outputs)) /\ AtScreen(tab, outputs, e)
  BY DEF Screen
<1>3. /\ tab'.stage = "creating" /\ tab'.shown = tab.shown /\ tab'.writes = <<>> /\ tab'.buffer = <<>>
      /\ tab'.shown = [i \in 1..Len(tab'.shown) |-> i]
  BY <1>1, <1>2 DEF TypeOK, AtScreen
<1>4. Path(Counts(outputs), tab'.buffer, e, e)
  BY <1>3, PathEmpty
<1>5. AtScreen(tab', outputs', e)
  BY <1>1, <1>3, <1>4 DEF AtScreen, Starting
<1>6. Path(Counts(outputs'), channel', e, Len(outputs'))
  BY <1>1, <1>2
<1>7. QED BY <1>5, <1>6 DEF Screen

\* The screen as it was is written, and what was held back follows.
LEMMA ScreenBegins ==
  ASSUME TypeOK, Screen, ScreenWritten PROVE Screen'
<1> DEFINE t == [tab EXCEPT !.stage = "open", !.last = tab.start, !.buffer = <<>>,
                            !.shown = [i \in 1..tab.start |-> i]]
           s == tab.start
<1>1. /\ UNCHANGED <<outputs, channel>> /\ tab.stage = "writing" /\ tab' = Followed(t, tab.buffer)
  BY DEF ScreenWritten, mainVars
<1>2. PICK e \in Nat : Path(Counts(outputs), channel, e, Len(outputs)) /\ AtScreen(tab, outputs, e)
  BY DEF Screen
<1>3. s \in Nat /\ tab.buffer \in Seq(Events) /\ tab \in TabStates
  BY TypedParts DEF TabStates
<1>4. tab.writes = <<>>
  BY <1>1, <1>2 DEF AtScreen
<1>5. PICK a \in Nat : Path(Counts(outputs), tab.buffer, a, e) /\ a <= s /\ s <= e
  BY <1>1, <1>2 DEF AtScreen, Starting
<1>6. [i \in 1..s |-> i] \in Seq(Nat) /\ Len([i \in 1..s |-> i]) = s /\ <<>> \in Seq(Events)
  BY <1>3, SeqDef, LenProperties
<1>7. t \in TabStates
  BY <1>3, <1>6 DEF TabStates
<1>8. t.stage = "open" /\ t.last = s /\ t.shown = [i \in 1..s |-> i] /\ t.writes = <<>>
  BY <1>3, <1>4 DEF TabStates
<1> HIDE DEF t, s
<1>9. Follows(t, outputs, s, a)
  <2>1. Len(t.writes) = 0 /\ 1..0 = {} /\ s - s = 0 /\ s = IF a > s THEN a ELSE s
    BY <1>3, <1>5, <1>8
  <2>2. QED BY <1>8, <2>1 DEF Follows
<1>10. Follows(Followed(t, tab.buffer), outputs, s, e)
  BY <1>3, <1>5, <1>7, <1>9, FollowsAll DEF s
<1>11. tab'.stage = "open" /\ tab'.shown = [i \in 1..s |-> i]
  BY <1>1, <1>3, <1>7, <1>8, FollowTyped
<1>12. Len(tab'.shown) = s
  BY <1>6, <1>11
<1>13. tab'.shown = [i \in 1..Len(tab'.shown) |-> i]
  BY <1>11, <1>12
<1>14. AtScreen(tab', outputs', e)
  BY <1>1, <1>5, <1>10, <1>11, <1>12, <1>13 DEF AtScreen, Starting
<1>15. Path(Counts(outputs'), channel', e, Len(outputs'))
  BY <1>1, <1>2
<1>16. QED BY <1>14, <1>15 DEF Screen

\* The next chunk that the terminal parses is the next one of the session.
LEMMA NextChunk ==
  ASSUME NEW t \in TabStates, NEW outs, NEW e \in Nat, t.stage = "open", t.writes # <<>>,
         AtScreen(t, outs, e)
  PROVE  /\ Head(t.writes) = Output(Len(t.shown) + 1, outs[Len(t.shown) + 1])
         /\ Len(t.shown) \in Nat /\ Len(t.shown) < e
<1>1. /\ t.writes \in Seq(Chunks) /\ Len(t.writes) \in Nat /\ Len(t.shown) \in Nat
  BY LenProperties DEF TabStates
<1>2. Len(t.writes) > 0 /\ Head(t.writes) = t.writes[1]
  BY <1>1, HeadTailProperties, EmptySeq
<1>3. Len(t.shown) <= e /\ Follows(t, outs, Len(t.shown), e)
  BY DEF AtScreen
<1> DEFINE k == Len(t.shown)
<1> HIDE DEF k
<1>4. /\ t.last = (IF e > k THEN e ELSE k) /\ Len(t.writes) = t.last - k
      /\ \A i \in 1..Len(t.writes) : t.writes[i] = Output(k + i, outs[k + i])
  BY <1>3 DEF Follows, k
<1>5. 1 \in 1..Len(t.writes)
  BY <1>1, <1>2
<1>6. t.writes[1] = Output(k + 1, outs[k + 1])
  BY <1>4, <1>5
<1>7. k \in Nat
  BY <1>1 DEF k
<1>8. k < e
  BY <1>1, <1>2, <1>4, <1>7
<1>9. QED BY <1>2, <1>6, <1>7, <1>8 DEF k

LEMMA ScreenParsed ==
  ASSUME TypeOK, Screen, ChunkParsed PROVE Screen'
<1> DEFINE m == Head(tab.writes)
           k == Len(tab.shown)
<1>1. /\ UNCHANGED <<outputs, channel>> /\ tab.stage = "open" /\ tab.writes # <<>>
      /\ tab' = [tab EXCEPT !.writes = Tail(tab.writes), !.shown = Append(tab.shown, m.sequence)]
  BY DEF ChunkParsed, mainVars
<1>2. PICK e \in Nat : Path(Counts(outputs), channel, e, Len(outputs)) /\ AtScreen(tab, outputs, e)
  BY DEF Screen
<1>3. tab \in TabStates /\ tab.writes \in Seq(Chunks) /\ tab.shown \in Seq(Nat)
  BY TypedParts DEF TabStates
<1>4. m = Output(k + 1, outputs[k + 1]) /\ k \in Nat /\ k < e
  BY <1>1, <1>2, <1>3, NextChunk
<1>5. m.sequence = k + 1
  BY <1>4 DEF Output
<1>6. /\ tab'.stage = "open" /\ tab'.writes = Tail(tab.writes) /\ tab'.last = tab.last
      /\ tab'.shown = Append(tab.shown, k + 1)
  BY <1>1, <1>3, <1>5 DEF TabStates
<1>7. /\ Len(tab.writes) \in Nat /\ Len(tab.writes) > 0 /\ Len(Tail(tab.writes)) = Len(tab.writes) - 1
      /\ \A i \in 1..Len(Tail(tab.writes)) : Tail(tab.writes)[i] = tab.writes[i + 1]
  BY <1>1, <1>3, HeadTailProperties, EmptySeq, LenProperties
<1>8. /\ tab.last = (IF e > k THEN e ELSE k) /\ Len(tab.writes) = tab.last - k
      /\ \A i \in 1..Len(tab.writes) : tab.writes[i] = Output(k + i, outputs[k + i])
      /\ tab.shown = [i \in 1..k |-> i]
  BY <1>1, <1>2 DEF AtScreen, Follows
<1> DEFINE more == Append(tab.shown, k + 1)
<1>9. /\ Len(more) = k + 1 /\ more[k + 1] = k + 1 /\ \A i \in 1..k : more[i] = tab.shown[i]
      /\ more \in Seq(Nat)
  BY <1>3, <1>4, AppendProperties
<1> HIDE DEF m, k, more
<1>10. more = [i \in 1..(k + 1) |-> i]
  <2>1. \A i \in 1..(k + 1) : i \in 1..k \/ i = k + 1
    BY <1>4
  <2>2. \A i \in 1..(k + 1) : more[i] = i
    BY <1>8, <1>9, <2>1
  <2>3. more \in [1..(k + 1) -> Nat]
    BY <1>9, LenProperties
  <2>4. QED BY <2>2, <2>3
<1>11. Follows(tab', outputs, k + 1, e)
  <2>1. tab.last = e /\ e = IF e > k + 1 THEN e ELSE k + 1
    BY <1>4, <1>8
  <2>2. Len(tab'.writes) = tab'.last - (k + 1)
    BY <1>4, <1>6, <1>7, <1>8, <2>1
  <2>3. ASSUME NEW i \in 1..Len(tab'.writes)
        PROVE  tab'.writes[i] = Output((k + 1) + i, outputs[(k + 1) + i])
    <3>1. i \in 1..Len(Tail(tab.writes))
      BY <1>6
    <3>2. i + 1 \in 1..Len(tab.writes)
      BY <1>7, <3>1
    <3>3. k + (i + 1) = (k + 1) + i
      BY <1>4
    <3>4. tab'.writes[i] = tab.writes[i + 1]
      BY <1>6, <1>7, <3>1
    <3>5. QED BY <1>8, <3>2, <3>3, <3>4
  <2>4. QED BY <1>6, <2>1, <2>2, <2>3 DEF Follows
<1>12. Len(tab'.shown) = k + 1 /\ k + 1 <= e /\ tab'.shown = [i \in 1..(k + 1) |-> i]
  <2>1. tab'.shown = more
    BY <1>6 DEF more
  <2>2. k + 1 <= e
    BY <1>4
  <2>3. QED BY <1>9, <1>10, <2>1, <2>2
<1>13. AtScreen(tab', outputs', e)
  BY <1>1, <1>6, <1>11, <1>12 DEF AtScreen, Starting
<1>14. Path(Counts(outputs'), channel', e, Len(outputs'))
  BY <1>1, <1>2
<1>15. QED BY <1>13, <1>14 DEF Screen

LEMMA TerminalStep ==
  ASSUME ViewedAssumption, CommonInv, Tokens, Screen, [Next]_vars
  PROVE  Tokens' /\ Screen'
<1>t. TypeOK /\ Unheard /\ tab \in TabStates
  BY TypedParts DEF CommonInv
<1>1. CASE MainStep
  <2>1. PICK ms : News(ms)
    BY <1>1, <1>t, MainNews
  <2>2. QED BY <1>t, <2>1, TokensMainStep, ScreenMain
<1>2. CASE WindowCreated \/ Mounted \/ (\E s \in Sessions : ControlAsked(s)) \/ (\E p \in Prompts : PromptDecided(p))
  <2>1. UNCHANGED <<mainVars, channel, rendererVars>>
    BY <1>2 DEF WindowCreated, Mounted, ControlAsked, PromptDecided
  <2>2. \A r \in asked' : r \in asked \/ r.kind \in {"sessions", "controls", "prompts", "change", "resolve"}
    BY <1>2 DEF WindowCreated, Mounted, ControlAsked, PromptDecided, Ask
  <2>3. \A r \in asked' : r \in asked \/ (r.kind \notin Start \cup {"view"} /\ r.kind # "closeView")
    BY <2>2 DEF Start
  <2>4. Tokens'
    BY <2>1, <2>3, TokensStay DEF rendererVars
  <2>5. Screen'
    BY <2>1, ScreenStays DEF rendererVars, mainVars
  <2>6. QED BY <2>4, <2>5
<1>3. CASE Deliver
  BY <1>3, <1>t, TokensDeliver, ScreenDelivered
<1>4. CASE TabStarted
  BY <1>4, <1>t, TokensStarted, ScreenStarted
<1>5. CASE ScreenWritten
  <2> DEFINE t == [tab EXCEPT !.stage = "open", !.last = tab.start, !.buffer = <<>>,
                              !.shown = [i \in 1..tab.start |-> i]]
  <2>1. /\ tab.stage = "writing" /\ tab' = Followed(t, tab.buffer) /\ channel' = channel
        /\ asked' = asked \cup (IF ~tab.closed THEN {}
                                ELSE {Ask(IF tab.created THEN "close" ELSE "closeView")})
    BY <1>5 DEF ScreenWritten
  <2>2. tab'.stage = "open"
    <3>1. tab.start \in Nat /\ tab.buffer \in Seq(Events)
      BY <1>t DEF TabStates
    <3>2. [i \in 1..tab.start |-> i] \in Seq(Nat) /\ <<>> \in Seq(Events)
      BY <3>1, SeqDef
    <3>3. t \in TabStates /\ t.stage = "open"
      BY <1>t, <3>1, <3>2 DEF TabStates
    <3> HIDE DEF t
    <3>4. QED BY <2>1, <3>1, <3>3, FollowTyped
  <2> HIDE DEF t
  <2>3. \A r \in asked' : r \in asked \/ r = Ask("close") \/ r = Ask("closeView")
    BY <2>1
  <2>4. Ask("close").kind \notin Start \cup {"view"} /\ Ask("closeView").kind \notin Start \cup {"view"}
    BY DEF Ask, Start
  <2>5. Tokens'
    BY <2>1, <2>2, <2>3, <2>4, TokensStay
  <2>6. QED BY <1>5, <1>t, <2>5, ScreenBegins
<1>6. CASE ChunkParsed
  <2> DEFINE c == Head(tab.writes)
  <2>1. /\ channel' = channel
        /\ tab' = [tab EXCEPT !.writes = Tail(tab.writes), !.shown = Append(tab.shown, c.sequence)]
        /\ asked' = IF Consumed(c) \/ ~tab.running THEN asked
                    ELSE asked \cup {[kind |-> "input", chunk |-> c.sequence]}
    BY <1>6 DEF ChunkParsed
  <2> HIDE DEF c
  <2>2. tab'.stage = tab.stage
    BY <1>t, <2>1 DEF TabStates
  <2>3. \A r \in asked' : r \in asked \/ r.kind = "input"
    BY <2>1
  <2>4. Tokens'
    BY <2>1, <2>2, <2>3, TokensStay DEF Start
  <2>5. QED BY <1>6, <1>t, <2>4, ScreenParsed
<1>7. CASE TabClosed
  <2>1. UNCHANGED <<outputs, channel>>
    BY <1>7 DEF TabClosed, mainVars
  <2>2. \/ tab' = [tab EXCEPT !.closed = TRUE] /\ asked' = asked
        \/ /\ tab' = tab /\ tab.stage = "open"
           /\ \E kind \in {"close", "closeView"} : asked' = asked \cup {Ask(kind)}
    BY <1>7 DEF TabClosed
  <2>3. /\ tab'.stage = tab.stage /\ tab'.shown = tab.shown /\ tab'.writes = tab.writes
        /\ tab'.buffer = tab.buffer /\ tab'.start = tab.start /\ tab'.last = tab.last
    BY <1>t, <2>2 DEF TabStates
  <2>4. \A r \in asked' : r \in asked \/ (tab.stage = "open" /\ r.kind \in {"close", "closeView"})
    BY <2>2 DEF Ask
  <2>5. Tokens'
    BY <2>1, <2>3, <2>4, TokensStay DEF Start
  <2>6. QED BY <2>1, <2>3, <2>5, ScreenStays
<1>8. CASE RendererLost
  <2>1. channel' = <<>> /\ asked' = {} /\ tab' = NoTab /\ outputs' = outputs
    BY <1>8 DEF RendererLost
  <2>2. (asked = {} /\ channel = <<>> /\ outputs \in Seq(Queries) /\ tab = NoTab)'
    BY <1>t, <2>1 DEF TypeOK
  <2>3. QED BY <2>2, TokensFresh, ScreenFresh, PTL
<1>9. CASE UNCHANGED vars
  <2>1. UNCHANGED <<outputs, channel, asked, tab>>
    BY <1>9 DEF vars, mainVars, rendererVars
  <2>2. Tokens'
    BY <2>1, TokensStay
  <2>3. QED BY <2>1, <2>2, ScreenStays
<1>10. QED BY <1>1, <1>2, <1>3, <1>4, <1>5, <1>6, <1>7, <1>8, <1>9, Steps DEF RendererStep

\* All that has come has been shown once and in order, and when no more is to come all is shown.
LEMMA ScreenShows ==
  ASSUME TypeOK, Screen PROVE ShownExactly
<1>1. PICK e \in Nat : Path(Counts(outputs), channel, e, Len(outputs)) /\ AtScreen(tab, outputs, e)
  BY DEF Screen
<1>2. tab.shown = [i \in 1..Len(tab.shown) |-> i]
  BY <1>1 DEF AtScreen
<1>3. ASSUME channel = <<>>, tab.stage = "open", tab.writes = <<>>
      PROVE  Len(tab.shown) = Len(outputs)
  <2>1. e = Len(outputs)
    <3>1. Len(channel) = 0
      BY <1>3
    <3>2. QED BY <1>1, <3>1 DEF Path
  <2>2. Len(tab.shown) <= e /\ Follows(tab, outputs, Len(tab.shown), e)
    BY <1>1, <1>3 DEF AtScreen
  <2>3. Len(tab.shown) \in Nat
    BY TypedParts, LenProperties DEF TabStates
  <2> DEFINE k == Len(tab.shown)
  <2> HIDE DEF k
  <2>4. tab.last = (IF e > k THEN e ELSE k) /\ Len(tab.writes) = tab.last - k /\ k <= e /\ k \in Nat
    BY <2>2, <2>3 DEF Follows, k
  <2>5. Len(tab.writes) = 0
    BY <1>3
  <2>6. k = e
    BY <2>4, <2>5
  <2>7. QED BY <2>1, <2>6 DEF k
<1>4. QED BY <1>2, <1>3 DEF ShownExactly, Quiet

\* The terminal shows the output of the session, each chunk once and in order, whether it was
\* on the screen as written, held back or followed; and all of it, when all has come
\* (createTerminalSession).
THEOREM ShownSafe == Spec => []ShownExactly
<1> DEFINE Inv == CommonInv /\ Tokens /\ Screen
<1>1. Init => Inv
  <2> SUFFICES ASSUME Init PROVE Inv
    OBVIOUS
  <2>1. CommonInv
    BY CommonInit, BoundsAssumption
  <2>2. asked = {} /\ channel = <<>> /\ outputs \in Seq(Queries) /\ tab = NoTab
    BY <2>1 DEF Init, CommonInv, TypeOK
  <2>3. QED BY <2>1, <2>2, TokensFresh, ScreenFresh
<1>2. Inv /\ [Next]_vars => Inv'
  BY CommonStep, TerminalStep, ViewedAssumption, MaxPendingAssumption
<1>3. Inv => ShownExactly
  BY ScreenShows DEF CommonInv
<1>4. QED BY <1>1, <1>2, <1>3, PTL DEF Spec

-----------------------------------------------------------------------------
(* The answers to the queries of the output. *)

\* The renderer's answer to the query of chunk n has been given, or is on its way.
Replied(n, reqs, outs, ans) ==
    outs[n] = "failed" /\ (ans[n] # 0 \/ \E r \in reqs : r.kind = "input" /\ r.chunk = n)

\* The terminal does not come to chunk n again.
Passed(t, seq, n) ==
    /\ t.stage = "open" => n <= Len(t.shown)
    /\ t.stage = "writing" => n <= t.start
    /\ \A i \in 1..Len(seq) : seq[i].type = "reply" /\ seq[i].to = "view" => n <= seq[i].value.sequence

Answers ==
    /\ Len(answers) = Len(outputs)
    /\ \A n \in 1..Len(outputs) : answers[n] <= 1
    /\ \A r \in asked : r.kind = "input" =>
           r.chunk \in 1..Len(outputs) /\ outputs[r.chunk] = "failed" /\ answers[r.chunk] = 0
    /\ \A n \in 1..Len(outputs) : Replied(n, asked, outputs, answers) => Passed(tab, channel, n)

\* A screen that is sent has all the output there was when it was asked for.
LEMMA ViewsReach ==
  ASSUME NEW S, NEW seq \in Seq(S), NEW outs, NEW a \in Nat, NEW b, Path(Counts(outs), seq, a, b),
         NEW i \in 1..Len(seq), seq[i].type = "reply", seq[i].to = "view"
  PROVE  seq[i].value.sequence \in Nat /\ a <= seq[i].value.sequence
<1> DEFINE N == Len(seq)
<1>1. N \in Nat
  BY LenProperties
<1>2. PICK v : /\ v[0] = a /\ v[N] = b
               /\ \A j \in 1..N : <<v[j - 1], seq[j], v[j]>> \in Counts(outs)
  BY DEF Path
<1>3. \A j \in 1..N : v[j - 1] \in Nat /\ v[j] \in Nat /\ v[j - 1] <= v[j]
  <2>1. \A t \in Counts(outs) : t[1] \in Nat /\ t[3] \in Nat /\ t[1] <= t[3]
    BY DEF Counts
  <2>2. QED BY <1>2, <2>1
<1> DEFINE T == {n \in Nat : n <= N => v[n] \in Nat /\ a <= v[n]}
<1>4. 0 \in T
  BY <1>2
<1>5. ASSUME NEW n \in Nat, n \in T PROVE n + 1 \in T
  <2> SUFFICES ASSUME n + 1 <= N PROVE v[n + 1] \in Nat /\ a <= v[n + 1]
    OBVIOUS
  <2>1. n + 1 \in 1..N /\ (n + 1) - 1 = n /\ n <= N
    BY <1>1
  <2>2. v[n] \in Nat /\ a <= v[n]
    BY <1>5, <2>1
  <2>3. v[n] <= v[n + 1] /\ v[n + 1] \in Nat
    BY <1>3, <2>1
  <2>4. QED BY <2>2, <2>3
<1>6. i - 1 \in Nat /\ i - 1 <= N
  BY <1>1
<1>7. i - 1 \in T
  <2> HIDE DEF T, N
  <2>1. QED BY <1>4, <1>5, <1>6, NatSetInduction
<1>8. v[i - 1] \in Nat /\ a <= v[i - 1]
  BY <1>6, <1>7
<1>9. <<v[i - 1], seq[i], v[i]>> \in Counts(outs)
  BY <1>2
<1>10. seq[i].value.sequence = v[i - 1]
  BY <1>9 DEF Counts
<1>11. QED BY <1>8, <1>10

LEMMA AnswersFresh ==
  ASSUME outputs = <<>>, answers = <<>>, asked = {} PROVE Answers
<1>1. Len(<<>>) = 0 /\ 1..0 = {}
  OBVIOUS
<1>2. QED BY <1>1 DEF Answers

LEMMA AnswersStay ==
  ASSUME Answers, UNCHANGED <<outputs, answers>>,
         \A r \in asked' : r.kind = "input" => r \in asked,
         \A n \in 1..Len(outputs) : Passed(tab, channel, n) => Passed(tab', channel', n)
  PROVE  Answers'
BY DEF Answers, Replied

LEMMA AnswersMain ==
  ASSUME TypeOK, Unheard, Answers, NEW ms, News(ms) PROVE Answers'
<1>1. /\ ms \in Seq(Messages) /\ Emit(ms) /\ tab' = tab /\ asked' \subseteq asked /\ OutputNews(ms)
      /\ AnswersNews /\ MainTypes'
  BY DEF News, rendererVars
<1>2. /\ outputs \in Seq(Queries) /\ answers \in Seq(Nat) /\ channel \in Seq(Messages)
      /\ Len(outputs) \in Nat /\ Len(answers) = Len(outputs) /\ asked \subseteq Requests
  BY LenProperties DEF TypeOK, Answers
<1>3. ASSUME NEW n \in 1..Len(outputs), Passed(tab, channel, n) PROVE Passed(tab', channel', n)
  <2>1. CASE window = "mounted"
    <3>1. channel' = channel \o ms
      BY <1>1, <2>1 DEF Emit
    <3>2. /\ Len(channel) \in Nat /\ Len(ms) \in Nat /\ Len(channel') = Len(channel) + Len(ms)
          /\ \A i \in 1..(Len(channel) + Len(ms)) :
                channel'[i] = IF i <= Len(channel) THEN channel[i] ELSE ms[i - Len(channel)]
      BY <1>1, <1>2, <3>1, ConcatProperties, LenProperties
    <3>3. ASSUME NEW i \in 1..Len(channel'), channel'[i].type = "reply", channel'[i].to = "view"
          PROVE  n <= channel'[i].value.sequence
      <4>1. CASE i <= Len(channel)
        <5>1. i \in 1..Len(channel) /\ channel'[i] = channel[i]
          BY <3>2, <4>1
        <5>2. QED BY <1>3, <3>3, <5>1 DEF Passed
      <4>2. CASE ~(i <= Len(channel))
        <5>1. i - Len(channel) \in 1..Len(ms) /\ channel'[i] = ms[i - Len(channel)]
          BY <3>2, <4>2
        <5>2. Path(Counts(outputs'), ms, Len(outputs), Len(outputs'))
          BY <1>1 DEF OutputNews
        <5> DEFINE seen == channel'[i].value.sequence
                   before == Len(outputs)
        <5> HIDE DEF seen, before
        <5>3. seen \in Nat /\ before <= seen
          BY <1>1, <1>2, <3>3, <5>1, <5>2, ViewsReach DEF seen, before
        <5>4. n \in 1..before /\ before \in Nat
          BY <1>2 DEF before
        <5>5. n <= seen
          BY <5>3, <5>4
        <5>6. QED BY <5>5 DEF seen
      <4>3. QED BY <4>1, <4>2
    <3>4. QED BY <1>1, <1>3, <3>3 DEF Passed
  <2>2. CASE window # "mounted"
    BY <1>1, <1>3, <2>2 DEF Emit
  <2>3. QED BY <2>1, <2>2
<1>4. CASE UNCHANGED <<outputs, answers>>
  BY <1>1, <1>3, <1>4, AnswersStay
<1>5. CASE \E q \in Queries : /\ outputs' = Append(outputs, q)
                              /\ answers' = Append(answers, IF q = "returned" THEN 1 ELSE 0)
  <2>1. PICK q \in Queries : /\ outputs' = Append(outputs, q)
                             /\ answers' = Append(answers, IF q = "returned" THEN 1 ELSE 0)
    BY <1>5
  <2> DEFINE a == IF q = "returned" THEN 1 ELSE 0
             L == Len(outputs)
  <2>2. a \in Nat /\ a <= 1
    OBVIOUS
  <2> HIDE DEF a
  <2>3. /\ Len(outputs') = L + 1 /\ outputs'[L + 1] = q /\ \A n \in 1..L : outputs'[n] = outputs[n]
        /\ Len(answers') = L + 1 /\ answers'[L + 1] = a /\ \A n \in 1..L : answers'[n] = answers[n]
    BY <1>2, <2>1, <2>2, AppendProperties DEF a
  <2> HIDE DEF L
  <2>4. L \in Nat /\ \A n \in 1..(L + 1) : n \in 1..L \/ n = L + 1
    BY <1>2 DEF L
  <2>5. ~(L + 1 \in 1..L) /\ \A n \in 1..L : n \in 1..(L + 1)
    BY <2>4
  <2>6. \A r \in asked' : r.kind = "input" =>
            r.chunk \in 1..(L + 1) /\ outputs'[r.chunk] = "failed" /\ answers'[r.chunk] = 0
    BY <1>1, <2>3, <2>5 DEF Answers, L
  <2>7. ASSUME NEW n \in 1..(L + 1), Replied(n, asked', outputs', answers')
        PROVE  Passed(tab', channel', n)
    <3>1. n # L + 1
      <4>1. \A r \in asked' : r.kind = "input" => r.chunk # L + 1
        BY <1>1, <2>5 DEF Answers, L
      <4>2. q = "failed" => a = 0
        BY DEF a
      <4>3. QED BY <2>3, <2>7, <4>1, <4>2 DEF Replied
    <3>2. n \in 1..L
      BY <2>4, <3>1
    <3>3. Replied(n, asked, outputs, answers)
      BY <1>1, <2>3, <2>7, <3>2 DEF Replied
    <3>4. QED BY <1>3, <3>2, <3>3 DEF Answers, L
  <2>8. \A n \in 1..(L + 1) : answers'[n] <= 1
    BY <2>2, <2>3, <2>4 DEF Answers, L
  <2>9. QED BY <2>3, <2>6, <2>7, <2>8 DEF Answers
<1>6. CASE \E r \in asked : /\ r.kind = "input" /\ asked' = asked \ {r}
                            /\ UNCHANGED outputs
                            /\ answers' = [answers EXCEPT ![r.chunk] = IF running THEN @ + 1 ELSE @]
  <2>1. PICK r \in asked : /\ r.kind = "input" /\ asked' = asked \ {r}
                           /\ UNCHANGED outputs
                           /\ answers' = [answers EXCEPT ![r.chunk] = IF running THEN @ + 1 ELSE @]
    BY <1>6
  <2>2. r.chunk \in 1..Len(outputs) /\ outputs[r.chunk] = "failed" /\ answers[r.chunk] = 0
    BY <2>1 DEF Answers
  <2> DEFINE L == Len(outputs)
  <2>3. answers \in [1..L -> Nat]
    BY <1>2, LenProperties
  <2>4. /\ answers' \in [1..L -> Nat]
        /\ \A n \in 1..L : n # r.chunk => answers'[n] = answers[n]
        /\ answers'[r.chunk] <= 1
    BY <2>1, <2>2, <2>3
  <2>5. Len(answers') = L
    <3>1. answers' \in Seq(Nat)
      BY <1>1 DEF MainTypes
    <3>2. Len(answers') \in Nat /\ DOMAIN answers' = 1..Len(answers')
      BY <3>1, LenProperties
    <3>3. 1..Len(answers') = 1..L /\ L \in Nat
      BY <1>2, <2>4, <3>2
    <3>4. QED BY <3>2, <3>3
  <2>6. ASSUME NEW p \in asked', p.kind = "input" PROVE p \in asked /\ p.chunk # r.chunk
    <3>1. p \in asked /\ p # r
      BY <2>1
    <3>2. \A x \in Requests : x.kind = "input" => x \in [kind : {"input"}, chunk : Nat]
      BY DEF Requests, Plain
    <3>3. p \in [kind : {"input"}, chunk : Nat] /\ r \in [kind : {"input"}, chunk : Nat]
      BY <1>2, <2>1, <2>6, <3>1, <3>2
    <3>4. QED BY <3>1, <3>3
  <2>7. \A p \in asked' : p.kind = "input" =>
            p.chunk \in 1..L /\ outputs'[p.chunk] = "failed" /\ answers'[p.chunk] = 0
    BY <2>1, <2>4, <2>6 DEF Answers
  <2>8. \A n \in 1..L : answers'[n] <= 1
    BY <2>4 DEF Answers
  <2>9. ASSUME NEW n \in 1..L, Replied(n, asked', outputs', answers') PROVE Passed(tab', channel', n)
    <3>1. Replied(n, asked, outputs, answers)
      BY <1>1, <2>1, <2>2, <2>4, <2>9 DEF Replied
    <3>2. QED BY <1>3, <3>1 DEF Answers
  <2>10. QED BY <2>1, <2>5, <2>7, <2>8, <2>9 DEF Answers
<1>7. QED BY <1>1, <1>4, <1>5, <1>6 DEF AnswersNews

\* What a terminal shows is not changed by a message.
LEMMA ShownReceived ==
  ASSUME NEW t \in TabStates, NEW m \in Messages
  PROVE  /\ TabReceives(t, m).shown = t.shown
         /\ IF m.type = "reply" /\ m.to = "view" THEN TabReceives(t, m).start = m.value.sequence
                                                 ELSE TabReceives(t, m).start = t.start
<1>1. CASE m.type = "reply" /\ m.to \in Start
  <2>1. TabReceives(t, m) = [t EXCEPT !.stage = "opening", !.created = m.to = "create"]
    BY <1>1 DEF TabReceives, Start
  <2>2. QED BY <1>1, <2>1 DEF TabStates, Start
<1>2. CASE m.type = "reply" /\ m.to = "view"
  <2>1. TabReceives(t, m) = [t EXCEPT !.stage = "writing", !.start = m.value.sequence,
                                      !.running = m.value.running]
    BY <1>2 DEF TabReceives
  <2>2. QED BY <1>2, <2>1 DEF TabStates
<1>3. CASE m.type = "failure" /\ m.to \in Start \cup {"view"}
  <2>1. TabReceives(t, m) = [t EXCEPT !.stage = "failed"]
    BY <1>3 DEF TabReceives, Start
  <2>2. QED BY <1>3, <2>1 DEF TabStates
<1>4. CASE m.type = "reply" /\ m.to = "closeView"
  <2>1. TabReceives(t, m) = [t EXCEPT !.stage = "disposed"]
    BY <1>4 DEF TabReceives
  <2>2. QED BY <1>4, <2>1 DEF TabStates
<1>5. CASE /\ ~(m.type = "reply" /\ m.to \in Start \cup {"view", "closeView"})
           /\ ~(m.type = "failure" /\ m.to \in Start \cup {"view"})
  <2>1. CASE m.type \in {"output", "updated"} /\ Concerns(m) /\ t.stage \in Starting
    <3>1. TabReceives(t, m) = [t EXCEPT !.buffer = Append(t.buffer, m)]
      BY <2>1 DEF TabReceives, Starting
    <3>2. QED BY <1>5, <3>1 DEF TabStates
  <2>2. CASE m.type \in {"output", "updated"} /\ Concerns(m) /\ t.stage = "open"
    <3>1. TabReceives(t, m) = ProcessEvent(t, m)
      BY <2>2 DEF TabReceives, Starting
    <3>2. m \in Events
      BY <2>2, MessageKinds, ReplyParts
    <3>3. TabReceives(t, m).shown = t.shown /\ TabReceives(t, m).start = t.start
      BY <3>1, <3>2, ProcessTyped
    <3>4. QED BY <1>5, <3>3
  <2>3. CASE m.type = "removed" /\ Concerns(m) /\ t.stage \in Starting
    <3>1. TabReceives(t, m) = [t EXCEPT !.closed = @ \/ ~t.created]
      BY <2>3 DEF TabReceives
    <3>2. QED BY <1>5, <3>1 DEF TabStates
  <2>4. CASE /\ ~(m.type \in {"output", "updated"} /\ Concerns(m) /\ t.stage \in Starting)
             /\ ~(m.type \in {"output", "updated"} /\ Concerns(m) /\ t.stage = "open")
             /\ ~(m.type = "removed" /\ Concerns(m) /\ t.stage \in Starting)
    <3>1. TabReceives(t, m) = t
      BY <1>5, <2>4 DEF TabReceives, Start
    <3>2. QED BY <1>5, <3>1
  <2>5. QED BY <2>1, <2>2, <2>3, <2>4
<1>6. QED BY <1>1, <1>2, <1>3, <1>4, <1>5

LEMMA AnswersDelivered ==
  ASSUME TypeOK, Answers, Deliver PROVE Answers'
<1> DEFINE m == Head(channel)
<1>1. /\ channel # <<>> /\ channel' = Tail(channel) /\ tab' = TabReceives(tab, m)
      /\ asked' = asked \cup TabAsks(tab, m) /\ UNCHANGED <<outputs, answers>>
  BY DEF Deliver, mainVars
<1>2. channel \in Seq(Messages) /\ tab \in TabStates
  BY TypedParts
<1>3. /\ Len(channel) \in Nat /\ Len(channel) > 0 /\ Len(channel') = Len(channel) - 1
      /\ m = channel[1]
      /\ \A i \in 1..Len(channel') : channel'[i] = channel[i + 1]
  BY <1>1, <1>2, HeadTailProperties, EmptySeq, LenProperties
<1>4. m \in Messages
  BY <1>1, <1>2, HeadTailProperties, EmptySeq
<1>5. 1 \in 1..Len(channel) /\ \A i \in 1..Len(channel') : i + 1 \in 1..Len(channel)
  BY <1>3
<1> HIDE DEF m
<1>6. \A r \in asked' : r.kind = "input" => r \in asked
  BY <1>1, AsksPlain
<1>7. /\ tab'.shown = tab.shown
      /\ IF m.type = "reply" /\ m.to = "view" THEN tab'.start = m.value.sequence
                                              ELSE tab'.start = tab.start
  BY <1>1, <1>2, <1>4, ShownReceived
<1>8. /\ tab'.stage = "open" => tab.stage = "open"
      /\ tab'.stage = "writing" => tab.stage = "writing" \/ (m.type = "reply" /\ m.to = "view")
  BY <1>1, <1>2, <1>4, StageReceived DEF Start
<1>9. ASSUME NEW n \in 1..Len(outputs), Passed(tab, channel, n) PROVE Passed(tab', channel', n)
  <2>1. m.type = "reply" /\ m.to = "view" => n <= m.value.sequence
    BY <1>3, <1>5, <1>9 DEF Passed
  <2>2. tab'.stage = "open" => n <= Len(tab'.shown)
    BY <1>7, <1>8, <1>9 DEF Passed
  <2>3. tab'.stage = "writing" => n <= tab'.start
    BY <1>7, <1>8, <1>9, <2>1 DEF Passed
  <2>4. \A i \in 1..Len(channel') :
            channel'[i].type = "reply" /\ channel'[i].to = "view" => n <= channel'[i].value.sequence
    BY <1>3, <1>5, <1>9 DEF Passed
  <2>5. QED BY <2>2, <2>3, <2>4 DEF Passed
<1>10. QED BY <1>1, <1>6, <1>9, AnswersStay

LEMMA AnswersBegin ==
  ASSUME TypeOK, Answers, ScreenWritten PROVE Answers'
<1> DEFINE t == [tab EXCEPT !.stage = "open", !.last = tab.start, !.buffer = <<>>,
                            !.shown = [i \in 1..tab.start |-> i]]
           s == tab.start
<1>1. /\ UNCHANGED <<outputs, answers, channel>> /\ tab.stage = "writing" /\ tab' = Followed(t, tab.buffer)
      /\ asked' = asked \cup (IF ~tab.closed THEN {}
                              ELSE {Ask(IF tab.created THEN "close" ELSE "closeView")})
  BY DEF ScreenWritten, mainVars
<1>2. s \in Nat /\ tab.buffer \in Seq(Events) /\ tab \in TabStates
  BY TypedParts DEF TabStates
<1>3. [i \in 1..s |-> i] \in Seq(Nat) /\ Len([i \in 1..s |-> i]) = s /\ <<>> \in Seq(Events)
  BY <1>2, SeqDef, LenProperties
<1>4. t \in TabStates
  BY <1>2, <1>3 DEF TabStates
<1>5. t.stage = "open" /\ t.shown = [i \in 1..s |-> i]
  BY <1>2 DEF TabStates
<1> HIDE DEF t, s
<1>6. tab'.stage = "open" /\ tab'.shown = [i \in 1..s |-> i]
  BY <1>1, <1>2, <1>4, <1>5, FollowTyped
<1>7. Len(tab'.shown) = s
  BY <1>3, <1>6
<1>8. \A r \in asked' : r \in asked \/ r = Ask("close") \/ r = Ask("closeView")
  BY <1>1
<1>9. \A r \in asked' : r.kind = "input" => r \in asked
  BY <1>8 DEF Ask
<1>10. \A n \in 1..Len(outputs) : Passed(tab, channel, n) => Passed(tab', channel', n)
  BY <1>1, <1>6, <1>7 DEF Passed, s
<1>11. QED BY <1>1, <1>9, <1>10, AnswersStay

\* A chunk that has been parsed is behind, and so is the answer that it gives rise to.
LEMMA AnswersParsed ==
  ASSUME TypeOK, Tokens, Screen, Answers, ChunkParsed PROVE Answers'
<1> DEFINE m == Head(tab.writes)
           k == Len(tab.shown)
           L == Len(outputs)
           r == [kind |-> "input", chunk |-> k + 1]
<1>1. /\ UNCHANGED <<outputs, answers, channel>> /\ tab.stage = "open" /\ tab.writes # <<>>
      /\ tab' = [tab EXCEPT !.writes = Tail(tab.writes), !.shown = Append(tab.shown, m.sequence)]
      /\ asked' = IF Consumed(m) \/ ~tab.running THEN asked
                  ELSE asked \cup {[kind |-> "input", chunk |-> m.sequence]}
  BY DEF ChunkParsed, mainVars
<1>2. PICK e \in Nat : Path(Counts(outputs), channel, e, Len(outputs)) /\ AtScreen(tab, outputs, e)
  BY DEF Screen
<1>3. /\ tab \in TabStates /\ tab.shown \in Seq(Nat) /\ outputs \in Seq(Queries) /\ L \in Nat
      /\ channel \in Seq(Messages) /\ answers \in Seq(Nat)
  BY TypedParts, LenProperties DEF TabStates, TypeOK
<1>4. m = Output(k + 1, outputs[k + 1]) /\ k \in Nat /\ k < e
  BY <1>1, <1>2, <1>3, NextChunk
<1>5. m.sequence = k + 1 /\ m.query = outputs[k + 1]
  BY <1>4 DEF Output
<1>6. e <= L
  BY <1>2, <1>3, Grows
<1>7. tab'.stage = "open" /\ tab'.shown = Append(tab.shown, k + 1)
  BY <1>1, <1>3, <1>5 DEF TabStates
<1>8. Len(tab'.shown) = k + 1
  BY <1>3, <1>4, <1>7, AppendProperties
<1>9. k + 1 \in 1..L
  BY <1>3, <1>4, <1>6
<1>10. asked' = asked \/ (asked' = asked \cup {r} /\ outputs[k + 1] = "failed")
  <2>1. outputs[k + 1] \in Queries
    BY <1>3, <1>9, ElementOfSeq
  <2>2. ~Consumed(m) => outputs[k + 1] = "failed"
    BY <1>5, <2>1 DEF Consumed, Queries
  <2>3. QED BY <1>1, <1>5, <2>2
<1>11. \A i \in 1..Len(channel) : ~(channel[i].type = "reply" /\ channel[i].to = "view")
  <2>1. ~Abroad({"view"}, asked, channel)
    BY <1>1 DEF Tokens
  <2>2. QED BY <2>1 DEF Abroad, Coming, IsAnswer
<1> HIDE DEF m, k, L
<1>12. ~Replied(k + 1, asked, outputs, answers)
  <2>1. ~(k + 1 <= k)
    BY <1>4
  <2>2. ~Passed(tab, channel, k + 1)
    BY <1>1, <2>1 DEF Passed, k
  <2>3. QED BY <1>9, <2>2 DEF Answers, L
<1>13. ASSUME NEW n \in 1..L, n <= k + 1 PROVE Passed(tab', channel', n)
  BY <1>1, <1>7, <1>8, <1>11, <1>13 DEF Passed
<1>14. ASSUME NEW n \in 1..L, Replied(n, asked, outputs, answers) PROVE n <= k + 1
  <2>1. Passed(tab, channel, n)
    BY <1>14 DEF Answers, L
  <2>2. n <= k
    BY <1>1, <2>1 DEF Passed, k
  <2>3. QED BY <1>3, <1>4, <2>2
<1>15. CASE asked' = asked
  <2>1. \A n \in 1..L : Replied(n, asked', outputs', answers') => Passed(tab', channel', n)
    BY <1>1, <1>13, <1>14, <1>15
  <2>2. QED BY <1>1, <1>15, <2>1 DEF Answers, L
<1>16. CASE asked' = asked \cup {r} /\ outputs[k + 1] = "failed"
  <2>1. r.kind = "input" /\ r.chunk = k + 1
    OBVIOUS
  <2>2. answers[k + 1] = 0
    BY <1>12, <1>16 DEF Replied
  <2> HIDE DEF r
  <2>3. \A p \in asked' : p.kind = "input" =>
            p.chunk \in 1..L /\ outputs'[p.chunk] = "failed" /\ answers'[p.chunk] = 0
    <3>1. \A p \in asked' : p \in asked \/ p = r
      BY <1>16
    <3>2. \A p \in asked : p.kind = "input" =>
              p.chunk \in 1..L /\ outputs[p.chunk] = "failed" /\ answers[p.chunk] = 0
      BY DEF Answers, L
    <3>3. QED BY <1>1, <1>9, <1>16, <2>1, <2>2, <3>1, <3>2
  <2>4. ASSUME NEW n \in 1..L, Replied(n, asked', outputs', answers') PROVE Passed(tab', channel', n)
    <3>1. Replied(n, asked, outputs, answers) \/ n = k + 1
      BY <1>1, <1>16, <2>1, <2>4 DEF Replied
    <3>2. n <= k + 1
      BY <1>4, <1>14, <3>1
    <3>3. QED BY <1>13, <3>2
  <2>5. QED BY <1>1, <2>3, <2>4 DEF Answers, L
<1>17. QED BY <1>10, <1>15, <1>16

LEMMA AnswersStep ==
  ASSUME ViewedAssumption, CommonInv, Tokens, Screen, Answers, [Next]_vars PROVE Answers'
<1>t. TypeOK /\ Unheard /\ tab \in TabStates
  BY TypedParts DEF CommonInv
<1>1. CASE MainStep
  <2>1. PICK ms : News(ms)
    BY <1>1, <1>t, MainNews
  <2>2. QED BY <1>t, <2>1, AnswersMain
<1>2. CASE WindowCreated \/ Mounted \/ (\E s \in Sessions : ControlAsked(s)) \/ (\E p \in Prompts : PromptDecided(p))
  <2>1. UNCHANGED <<mainVars, channel, rendererVars>>
    BY <1>2 DEF WindowCreated, Mounted, ControlAsked, PromptDecided
  <2>2. \A r \in asked' : r \in asked \/ r.kind \in {"sessions", "controls", "prompts", "change", "resolve"}
    BY <1>2 DEF WindowCreated, Mounted, ControlAsked, PromptDecided, Ask
  <2>3. \A r \in asked' : r.kind = "input" => r \in asked
    BY <2>2
  <2>4. QED BY <2>1, <2>3, AnswersStay DEF rendererVars, mainVars
<1>3. CASE Deliver
  BY <1>3, <1>t, AnswersDelivered
<1>4. CASE TabStarted
  <2>1. /\ UNCHANGED <<outputs, answers, channel>> /\ tab' = [tab EXCEPT !.stage = "creating"]
        /\ \E kind \in {"create", "attach"} : asked' = asked \cup {Ask(kind)}
    BY <1>4 DEF TabStarted, mainVars
  <2>2. tab'.stage = "creating"
    BY <1>t, <2>1 DEF TabStates
  <2>3. \A r \in asked' : r.kind = "input" => r \in asked
    BY <2>1 DEF Ask
  <2>4. \A n \in 1..Len(outputs) : Passed(tab, channel, n) => Passed(tab', channel', n)
    BY <2>1, <2>2 DEF Passed
  <2>5. QED BY <2>1, <2>3, <2>4, AnswersStay
<1>5. CASE ScreenWritten
  BY <1>5, <1>t, AnswersBegin
<1>6. CASE ChunkParsed
  BY <1>6, <1>t, AnswersParsed
<1>7. CASE TabClosed
  <2>1. UNCHANGED <<outputs, answers, channel>>
    BY <1>7 DEF TabClosed, mainVars
  <2>2. \/ tab' = [tab EXCEPT !.closed = TRUE] /\ asked' = asked
        \/ tab' = tab /\ \E kind \in {"close", "closeView"} : asked' = asked \cup {Ask(kind)}
    BY <1>7 DEF TabClosed
  <2>3. tab'.stage = tab.stage /\ tab'.shown = tab.shown /\ tab'.start = tab.start
    BY <1>t, <2>2 DEF TabStates
  <2>4. \A r \in asked' : r.kind = "input" => r \in asked
    BY <2>2 DEF Ask
  <2>5. \A n \in 1..Len(outputs) : Passed(tab, channel, n) => Passed(tab', channel', n)
    BY <2>1, <2>3 DEF Passed
  <2>6. QED BY <2>1, <2>4, <2>5, AnswersStay
<1>8. CASE RendererLost
  <2>1. /\ channel' = <<>> /\ asked' = {} /\ tab' = NoTab /\ UNCHANGED <<outputs, answers>>
    BY <1>8 DEF RendererLost
  <2>2. tab'.stage = "none" /\ 1..Len(channel') = {}
    BY <2>1 DEF NoTab
  <2>3. \A n \in 1..Len(outputs) : Passed(tab', channel', n)
    BY <2>2 DEF Passed
  <2>4. QED BY <2>1, <2>3, AnswersStay
<1>9. CASE UNCHANGED vars
  <2>1. UNCHANGED <<outputs, answers, channel, asked, tab>>
    BY <1>9 DEF vars, mainVars, rendererVars
  <2>2. QED BY <2>1, AnswersStay
<1>10. QED BY <1>1, <1>2, <1>3, <1>4, <1>5, <1>6, <1>7, <1>8, <1>9, Steps DEF RendererStep

\* A query is answered by its session, or by a renderer when that failed, and once, over any
\* number of windows that come and go (the response coordinator).
THEOREM AnswersSafe == Spec => []AnsweredOnce
<1> DEFINE Inv == CommonInv /\ Tokens /\ Screen /\ Answers
<1>1. Init => Inv
  <2> SUFFICES ASSUME Init PROVE Inv
    OBVIOUS
  <2>1. CommonInv
    BY CommonInit, BoundsAssumption
  <2>2. asked = {} /\ channel = <<>> /\ outputs \in Seq(Queries) /\ tab = NoTab
    BY <2>1 DEF Init, CommonInv, TypeOK
  <2>3. Answers
    BY AnswersFresh DEF Init
  <2>4. QED BY <2>1, <2>2, <2>3, TokensFresh, ScreenFresh
<1>2. Inv /\ [Next]_vars => Inv'
  BY CommonStep, TerminalStep, AnswersStep, ViewedAssumption, MaxPendingAssumption
<1>3. Inv => AnsweredOnce
  <2> SUFFICES ASSUME Inv PROVE \A n \in DOMAIN answers : answers[n] <= 1
    BY DEF AnsweredOnce
  <2>1. answers \in Seq(Nat)
    BY DEF CommonInv, TypeOK
  <2>2. DOMAIN answers = 1..Len(answers)
    BY <2>1, LenProperties
  <2>3. QED BY <2>2 DEF Answers
<1>4. QED BY <1>1, <1>2, <1>3, PTL DEF Spec

-----------------------------------------------------------------------------
(* The permission prompts: what is said of them, and what is made of it. *)

\* The prompts that are pending as a window hears of them, and those that were requested
\* or are over.
Heard ==
    {x \in [queue : Seq(Prompts), over : SUBSET Prompts] :
        IsInjective(x.queue) /\ ToSet(x.queue) \subseteq x.over /\ Len(x.queue) <= MaxPending}

\* What a message says of them.
Hears ==
    {t \in Heard \X Messages \X Heard :
        LET x == t[1]  m == t[2]  y == t[3] IN
        /\ m.type = "requested" =>
              /\ m.prompt \notin x.over
              /\ y.queue = Append(x.queue, m.prompt) /\ y.over = x.over \cup {m.prompt}
        /\ m.type = "resolved" =>
              y.queue = Without(x.queue, m.prompt) /\ y.over = x.over \cup {m.prompt}
        /\ m.type \notin {"requested", "resolved"} => y = x
        /\ m.type = "reply" /\ m.to = "resolve" => m.value \notin ToSet(x.queue)
        /\ m.type = "reply" /\ m.to = "prompts" => m.value = x.queue}

\* A prompt is requested once, and after those that were requested before.
Later(x, y) ==
    /\ x.over \subseteq y.over
    /\ \A p : p \in x.over /\ p \in ToSet(y.queue) => p \in ToSet(x.queue)
    /\ \A u, w \in ToSet(y.queue) : Before(x.queue, u, w) => Before(y.queue, u, w)
    /\ \A u, w \in ToSet(y.queue) : u \in x.over /\ w \notin x.over => Before(y.queue, u, w)

LEMMA HearsParts ==
  ASSUME NEW x, NEW m, NEW y, <<x, m, y>> \in Hears
  PROVE  /\ x \in Heard /\ m \in Messages /\ y \in Heard
         /\ m.type = "requested" =>
              /\ m.prompt \notin x.over /\ m.prompt \in Prompts
              /\ y.queue = Append(x.queue, m.prompt) /\ y.over = x.over \cup {m.prompt}
         /\ m.type = "resolved" =>
              y.queue = Without(x.queue, m.prompt) /\ y.over = x.over \cup {m.prompt}
         /\ m.type \notin {"requested", "resolved"} => y = x
         /\ m.type = "reply" /\ m.to = "resolve" => m.value \notin ToSet(x.queue)
         /\ m.type = "reply" /\ m.to = "prompts" => m.value = x.queue
<1>1. /\ x \in Heard /\ m \in Messages /\ y \in Heard
      /\ m.type = "requested" =>
              /\ m.prompt \notin x.over
              /\ y.queue = Append(x.queue, m.prompt) /\ y.over = x.over \cup {m.prompt}
      /\ m.type = "resolved" =>
              y.queue = Without(x.queue, m.prompt) /\ y.over = x.over \cup {m.prompt}
      /\ m.type \notin {"requested", "resolved"} => y = x
      /\ m.type = "reply" /\ m.to = "resolve" => m.value \notin ToSet(x.queue)
      /\ m.type = "reply" /\ m.to = "prompts" => m.value = x.queue
  BY DEF Hears
<1>2. m.type = "requested" => m.prompt \in Prompts
  BY <1>1, MessageKinds, EventParts, ReplyParts
<1>3. QED BY <1>1, <1>2

LEMMA HeardParts ==
  ASSUME NEW x \in Heard
  PROVE  /\ x.queue \in Seq(Prompts) /\ x.over \subseteq Prompts
         /\ IsInjective(x.queue) /\ ToSet(x.queue) \subseteq x.over /\ Len(x.queue) <= MaxPending
BY DEF Heard

LEMMA LaterItself ==
  ASSUME NEW x \in Heard PROVE Later(x, x)
BY HeardParts DEF Later

LEMMA LaterOne ==
  ASSUME NEW x, NEW m, NEW y, <<x, m, y>> \in Hears
  PROVE  Later(x, y)
<1>1. /\ x \in Heard /\ y \in Heard /\ x.queue \in Seq(Prompts) /\ IsInjective(x.queue)
      /\ ToSet(x.queue) \subseteq x.over
  BY HearsParts, HeardParts
<1>2. CASE m.type = "requested"
  <2> DEFINE p == m.prompt
  <2>1. /\ p \notin x.over /\ p \in Prompts
        /\ y.queue = Append(x.queue, p) /\ y.over = x.over \cup {p}
    BY <1>2, HearsParts
  <2>2. p \notin ToSet(x.queue)
    BY <1>1, <2>1
  <2> HIDE DEF p
  <2>3. /\ ToSet(y.queue) = ToSet(x.queue) \cup {p}
        /\ \A u, v : Before(y.queue, u, v) <=> Before(x.queue, u, v) \/ (u \in ToSet(x.queue) /\ v = p)
    BY <1>1, <2>1, <2>2, AppendedOrder
  <2>4. QED BY <1>1, <2>1, <2>3 DEF Later
<1>3. CASE m.type = "resolved"
  <2> DEFINE p == m.prompt
  <2>1. y.queue = RemoveFirst(x.queue, p) /\ y.over = x.over \cup {p}
    BY <1>3, HearsParts DEF Without
  <2> HIDE DEF p
  <2>2. /\ ToSet(y.queue) = ToSet(x.queue) \ {p}
        /\ \A u, v : Before(y.queue, u, v) <=> Before(x.queue, u, v) /\ u # p /\ v # p
    BY <1>1, <2>1, RemovedOrder
  <2>3. QED BY <1>1, <2>1, <2>2 DEF Later
<1>4. CASE m.type \notin {"requested", "resolved"}
  <2>1. y = x
    BY <1>4, HearsParts
  <2>2. QED BY <1>1, <2>1, LaterItself
<1>5. QED BY <1>2, <1>3, <1>4

LEMMA LaterStill ==
  ASSUME NEW x \in Heard, NEW y \in Heard, NEW z \in Heard, Later(x, y), Later(y, z)
  PROVE  Later(x, z)
<1>1. ToSet(x.queue) \subseteq x.over /\ ToSet(y.queue) \subseteq y.over /\ ToSet(z.queue) \subseteq z.over
  BY HeardParts
<1>2. x.over \subseteq z.over /\ \A p : p \in x.over /\ p \in ToSet(z.queue) => p \in ToSet(x.queue)
  BY <1>1 DEF Later
<1>3. ASSUME NEW u \in ToSet(z.queue), NEW w \in ToSet(z.queue), Before(x.queue, u, w)
      PROVE  Before(z.queue, u, w)
  <2>1. u \in ToSet(x.queue) /\ w \in ToSet(x.queue)
    BY <1>3, HeardParts, BeforeParts
  <2>2. u \in ToSet(y.queue) /\ w \in ToSet(y.queue)
    BY <1>1, <2>1 DEF Later
  <2>3. QED BY <1>3, <2>2 DEF Later
<1>4. ASSUME NEW u \in ToSet(z.queue), NEW w \in ToSet(z.queue), u \in x.over, w \notin x.over
      PROVE  Before(z.queue, u, w)
  <2>1. u \in y.over /\ u \in ToSet(y.queue)
    BY <1>4 DEF Later
  <2>2. CASE w \in y.over
    <3>1. w \in ToSet(y.queue)
      BY <2>2 DEF Later
    <3>2. Before(y.queue, u, w)
      BY <1>4, <2>1, <3>1 DEF Later
    <3>3. QED BY <3>2 DEF Later
  <2>3. CASE w \notin y.over
    BY <2>1, <2>3 DEF Later
  <2>4. QED BY <2>2, <2>3
<1>5. QED BY <1>2, <1>3, <1>4 DEF Later

\* Each point of a path is earlier than its end.
LEMMA LaterAlong ==
  ASSUME NEW N \in Nat, NEW v, NEW seq, v[N] \in Heard,
         \A i \in 1..N : <<v[i - 1], seq[i], v[i]>> \in Hears
  PROVE  \A n \in 0..N : v[n] \in Heard /\ Later(v[n], v[N])
<1> DEFINE T == {k \in Nat : k <= N => v[N - k] \in Heard /\ Later(v[N - k], v[N])}
<1>1. 0 \in T
  <2>1. N - 0 = N
    OBVIOUS
  <2>2. QED BY <2>1, LaterItself
<1>2. ASSUME NEW k \in Nat, k \in T PROVE k + 1 \in T
  <2> SUFFICES ASSUME k + 1 <= N PROVE v[N - (k + 1)] \in Heard /\ Later(v[N - (k + 1)], v[N])
    OBVIOUS
  <2> DEFINE i == N - k
  <2>1. i \in 1..N /\ i - 1 = N - (k + 1) /\ k <= N
    OBVIOUS
  <2>2. v[i] \in Heard /\ Later(v[i], v[N])
    BY <1>2, <2>1
  <2> HIDE DEF i
  <2>3. <<v[i - 1], seq[i], v[i]>> \in Hears
    BY <2>1
  <2>4. v[i - 1] \in Heard /\ Later(v[i - 1], v[i])
    BY <2>3, HearsParts, LaterOne
  <2>5. Later(v[i - 1], v[N])
    BY <2>2, <2>4, LaterStill
  <2>6. QED BY <2>1, <2>4, <2>5
<1>3. Nat \subseteq T
  <2> HIDE DEF T
  <2>1. QED BY <1>1, <1>2, NatSetInduction
<1>4. ASSUME NEW n \in 0..N PROVE v[n] \in Heard /\ Later(v[n], v[N])
  <2>1. N - n \in Nat /\ N - n <= N /\ N - (N - n) = n
    OBVIOUS
  <2>2. N - n \in T
    BY <1>3, <2>1
  <2>3. QED BY <2>1, <2>2
<1>5. QED BY <1>4

-----------------------------------------------------------------------------
(* The events that the dialog held back, applied to the snapshot. *)

LEMMA NewestEnd ==
  ASSUME MaxPendingAssumption, NEW q \in Seq(Prompts), IsInjective(q)
  PROVE  /\ Newest(q) \in Seq(Prompts) /\ Latest(Newest(q), q) /\ Len(Newest(q)) <= MaxPending
         /\ Len(q) <= MaxPending => Newest(q) = q
         /\ Len(q) > MaxPending => Len(Newest(q)) = MaxPending
<1>1. Len(q) \in Nat /\ MaxPending \in Nat
  BY LenProperties DEF MaxPendingAssumption
<1>2. CASE Len(q) <= MaxPending
  <2>1. Newest(q) = q
    BY <1>2 DEF Newest
  <2>2. Latest(q, q)
    BY BeforeParts DEF Latest
  <2>3. QED BY <1>1, <1>2, <2>1, <2>2
<1>3. CASE Len(q) > MaxPending
  <2> DEFINE k == Len(q) - MaxPending
  <2>1. k \in 0..Len(q) /\ Len(q) - k = MaxPending
    BY <1>1, <1>3
  <2>2. Newest(q) = SubSeq(q, k + 1, Len(q))
    BY <1>1, <1>3 DEF Newest
  <2>3. /\ SubSeq(q, k + 1, Len(q)) \in Seq(Prompts) /\ Latest(SubSeq(q, k + 1, Len(q)), q)
        /\ Len(SubSeq(q, k + 1, Len(q))) = Len(q) - k
    BY <2>1, RestOrder
  <2>4. QED BY <1>1, <1>3, <2>1, <2>2, <2>3
<1>4. QED BY <1>1, <1>2, <1>3

\* While the events are applied to the snapshot S, the dialog has s: of the prompts that were
\* heard of since, F, those that are pending, x; of the others the latest of S.
Replayed(s, S, x, F, all) ==
    /\ s \in Seq(Prompts) /\ IsInjective(s) /\ Len(s) <= MaxPending
    /\ \A u \in ToSet(s) : (u \in F => u \in ToSet(x)) /\ (u \notin F => u \in ToSet(S))
    /\ ToSet(x) \cap F \subseteq ToSet(s)
    /\ \A u, w : Before(s, u, w) => /\ u \in F => w \in F /\ Before(x, u, w)
                                    /\ u \notin F /\ w \notin F => Before(S, u, w)
    /\ \A u, w : u \in ToSet(s) \ F /\ w \in ToSet(S) \ F /\ Before(S, u, w) => w \in ToSet(s)
    /\ IsFiniteSet(all) /\ Cardinality(all) <= MaxPending => ToSet(S) \ F \subseteq ToSet(s)

LEMMA ReplayResolved ==
  ASSUME MaxPendingAssumption, NEW S \in Seq(Prompts), NEW x \in Seq(Prompts), IsInjective(x),
         NEW s, NEW F, NEW G, NEW all, NEW p, Replayed(s, S, x, F, all),
         F \subseteq G, G \subseteq F \cup {p}, p \in G \/ p \notin ToSet(S)
  PROVE  Replayed(Without(s, p), S, Without(x, p), G, all)
<1> DEFINE r == Without(s, p)
           y == Without(x, p)
<1>s. s \in Seq(Prompts) /\ IsInjective(s) /\ Len(s) <= MaxPending
  BY DEF Replayed
<1>1. /\ r \in Seq(Prompts) /\ IsInjective(r) /\ ToSet(r) = ToSet(s) \ {p}
      /\ Len(r) = Len(s) \/ Len(r) = Len(s) - 1
      /\ \A u, v : Before(r, u, v) <=> Before(s, u, v) /\ u # p /\ v # p
  BY <1>s, RemovedOrder DEF Without
<1>2. /\ ToSet(y) = ToSet(x) \ {p}
      /\ \A u, v : Before(y, u, v) <=> Before(x, u, v) /\ u # p /\ v # p
  BY RemovedOrder DEF Without
<1> HIDE DEF r, y
<1>3. Len(s) \in Nat /\ Len(r) \in Nat
  BY <1>s, <1>1, LenProperties
<1>4. Len(r) <= MaxPending
  <2>1. CASE Len(r) = Len(s)
    BY <1>s, <2>1
  <2>2. CASE Len(r) = Len(s) - 1
    BY <1>s, <1>3, <2>2 DEF MaxPendingAssumption
  <2>3. QED BY <1>1, <2>1, <2>2
<1>5. \A u : u # p => (u \in G <=> u \in F)
  OBVIOUS
<1>6. \A u \in ToSet(r) : (u \in G => u \in ToSet(y)) /\ (u \notin G => u \in ToSet(S))
  BY <1>1, <1>2, <1>5 DEF Replayed
<1>7. ToSet(y) \cap G \subseteq ToSet(r)
  BY <1>1, <1>2, <1>5 DEF Replayed
<1>8. \A u, w : Before(r, u, w) => /\ u \in G => w \in G /\ Before(y, u, w)
                                   /\ u \notin G /\ w \notin G => Before(S, u, w)
  BY <1>1, <1>2, <1>5 DEF Replayed
<1>9. \A u, w : u \in ToSet(r) \ G /\ w \in ToSet(S) \ G /\ Before(S, u, w) => w \in ToSet(r)
  <2> SUFFICES ASSUME NEW u, NEW w, u \in ToSet(r), u \notin G,
                      w \in ToSet(S), w \notin G, Before(S, u, w)
               PROVE  w \in ToSet(r)
    OBVIOUS
  <2>1. u \in ToSet(s) /\ u \notin F /\ w \notin F /\ w # p
    BY <1>1
  <2>2. w \in ToSet(s)
    BY <2>1 DEF Replayed
  <2>3. QED BY <1>1, <2>1, <2>2
<1>10. ASSUME IsFiniteSet(all), Cardinality(all) <= MaxPending PROVE ToSet(S) \ G \subseteq ToSet(r)
  <2>1. ToSet(S) \ F \subseteq ToSet(s)
    BY <1>10 DEF Replayed
  <2>2. QED BY <1>1, <1>5, <2>1
<1>11. Replayed(r, S, y, G, all)
  BY <1>1, <1>4, <1>6, <1>7, <1>8, <1>9, <1>10 DEF Replayed
<1>12. QED BY <1>11 DEF r, y

LEMMA ReplayRequested ==
  ASSUME MaxPendingAssumption,
         NEW S \in Seq(Prompts), IsInjective(S), NEW x \in Seq(Prompts), IsInjective(x),
         NEW s, NEW F, NEW all, NEW p \in Prompts, Replayed(s, S, x, F, all),
         p \notin F, p \notin ToSet(x), Len(Append(x, p)) <= MaxPending,
         F \cup {p} \subseteq all, ToSet(S) \subseteq all
  PROVE  Replayed(Newest(Append(Without(s, p), p)), S, Append(x, p), F \cup {p}, all)
<1> DEFINE q == Without(s, p)
           r == Append(q, p)
           t == Newest(r)
           y == Append(x, p)
           G == F \cup {p}
<1>s. s \in Seq(Prompts) /\ IsInjective(s) /\ Len(s) <= MaxPending
  BY DEF Replayed
<1>1. /\ q \in Seq(Prompts) /\ IsInjective(q) /\ ToSet(q) = ToSet(s) \ {p}
      /\ \A u, v : Before(q, u, v) <=> Before(s, u, v) /\ u # p /\ v # p
  BY <1>s, RemovedOrder DEF Without
<1> HIDE DEF q
<1>2. /\ r \in Seq(Prompts) /\ IsInjective(r) /\ ToSet(r) = ToSet(q) \cup {p}
      /\ \A u, v : Before(r, u, v) <=> Before(q, u, v) \/ (u \in ToSet(q) /\ v = p)
  BY <1>1, AppendedOrder
<1>3. /\ y \in Seq(Prompts) /\ IsInjective(y) /\ ToSet(y) = ToSet(x) \cup {p}
      /\ \A u, v : Before(y, u, v) <=> Before(x, u, v) \/ (u \in ToSet(x) /\ v = p)
  BY AppendedOrder
<1>y. Len(y) <= MaxPending
  OBVIOUS
<1> HIDE DEF r, y
<1>4. /\ t \in Seq(Prompts) /\ Latest(t, r) /\ Len(t) <= MaxPending
      /\ Len(r) <= MaxPending => t = r
      /\ Len(r) > MaxPending => Len(t) = MaxPending
  BY <1>2, NewestEnd
<1> HIDE DEF t
<1>5. /\ IsInjective(t) /\ ToSet(t) \subseteq ToSet(r)
      /\ \A u, v : Before(t, u, v) => Before(r, u, v)
      /\ \A u, v : u \in ToSet(t) /\ Before(r, u, v) => v \in ToSet(t)
  BY <1>4 DEF Latest
<1>g. p \in G /\ \A u : u # p => (u \in G <=> u \in F)
  OBVIOUS
<1> HIDE DEF G
\* Before the oldest ones are dropped.
<1>6. \A u \in ToSet(r) : (u \in G => u \in ToSet(y)) /\ (u \notin G => u \in ToSet(S))
  BY <1>1, <1>2, <1>3, <1>g DEF Replayed
<1>7. ToSet(y) \cap G \subseteq ToSet(r)
  BY <1>1, <1>2, <1>3, <1>g DEF Replayed
<1>8. \A u, w : Before(r, u, w) => /\ u \in G => w \in G /\ Before(y, u, w)
                                   /\ u \notin G /\ w \notin G => Before(S, u, w)
  <2> SUFFICES ASSUME NEW u, NEW w, Before(r, u, w)
               PROVE  /\ u \in G => w \in G /\ Before(y, u, w)
                      /\ u \notin G /\ w \notin G => Before(S, u, w)
    OBVIOUS
  <2>1. CASE Before(q, u, w)
    <3>1. Before(s, u, w) /\ u # p /\ w # p
      BY <1>1, <2>1
    <3>2. QED BY <1>3, <1>g, <3>1 DEF Replayed
  <2>2. CASE u \in ToSet(q) /\ w = p
    <3>1. u # p /\ u \in ToSet(s)
      BY <1>1, <2>2
    <3>2. u \in G => u \in ToSet(x)
      BY <1>g, <3>1 DEF Replayed
    <3>3. QED BY <1>3, <1>g, <2>2, <3>2
  <2>3. QED BY <1>2, <2>1, <2>2
<1>9. \A u, w : u \in ToSet(r) \ G /\ w \in ToSet(S) \ G /\ Before(S, u, w) => w \in ToSet(r)
  <2> SUFFICES ASSUME NEW u, NEW w, u \in ToSet(r), u \notin G,
                      w \in ToSet(S), w \notin G, Before(S, u, w)
               PROVE  w \in ToSet(r)
    OBVIOUS
  <2>1. u # p /\ w # p /\ u \notin F /\ w \notin F /\ u \in ToSet(s)
    BY <1>1, <1>2, <1>g
  <2>2. w \in ToSet(s)
    BY <2>1 DEF Replayed
  <2>3. QED BY <1>1, <1>2, <2>1, <2>2
<1>10. ASSUME IsFiniteSet(all), Cardinality(all) <= MaxPending PROVE ToSet(S) \ G \subseteq ToSet(r)
  <2>1. ToSet(S) \ F \subseteq ToSet(s)
    BY <1>10 DEF Replayed
  <2>2. QED BY <1>1, <1>2, <1>g, <2>1
\* And after.
<1>11. \A u \in ToSet(t) : (u \in G => u \in ToSet(y)) /\ (u \notin G => u \in ToSet(S))
  BY <1>5, <1>6
<1>12. \A u, w : Before(t, u, w) => /\ u \in G => w \in G /\ Before(y, u, w)
                                    /\ u \notin G /\ w \notin G => Before(S, u, w)
  BY <1>5, <1>8
<1>13. ASSUME NEW u, NEW w, u \in ToSet(t), u \notin G, w \in ToSet(S), w \notin G, Before(S, u, w)
       PROVE  w \in ToSet(t)
  <2>1. u \in ToSet(r) /\ w \in ToSet(r)
    BY <1>5, <1>9, <1>13
  <2>2. u # w /\ ~Before(S, w, u)
    BY <1>13, BeforeParts
  <2>3. Before(r, u, w) \/ Before(r, w, u)
    BY <1>2, <2>1, <2>2, BeforeParts
  <2>4. ~Before(r, w, u)
    BY <1>8, <1>13, <2>2
  <2>5. QED BY <1>5, <1>13, <2>3, <2>4
<1>14. ASSUME NEW u \in ToSet(y) \cap G PROVE u \in ToSet(t)
  <2>1. u \in ToSet(r)
    BY <1>7
  <2>2. CASE Len(r) <= MaxPending
    BY <1>4, <2>1, <2>2
  <2>3. CASE Len(r) > MaxPending
    <3> SUFFICES ASSUME u \notin ToSet(t) PROVE FALSE
      OBVIOUS
    <3>1. ASSUME NEW w \in ToSet(t) PROVE w \in ToSet(y)
      <4>1. w \in ToSet(r) /\ w # u
        BY <1>5, <3>1
      <4>2. Before(r, u, w) \/ Before(r, w, u)
        BY <1>2, <2>1, <4>1, BeforeParts
      <4>3. ~Before(r, w, u)
        BY <1>5, <3>1
      <4>4. w \in G
        BY <1>8, <4>2, <4>3
      <4>5. QED BY <1>6, <4>1, <4>4
    <3>2. ToSet(t) \subseteq ToSet(y) \ {u}
      BY <3>1
    <3>3. IsFiniteSet(ToSet(y)) /\ Cardinality(ToSet(y)) = Len(y)
      BY <1>3, DistinctLength
    <3>4. IsFiniteSet(ToSet(y) \ {u}) /\ Cardinality(ToSet(y) \ {u}) = Len(y) - 1
      BY <3>3, FS_RemoveElement
    <3>5. Len(t) <= Len(y) - 1
      BY <1>4, <1>5, <3>2, <3>4, DistinctLength
    <3>6. Len(y) \in Nat /\ Len(t) \in Nat /\ MaxPending \in Nat /\ Len(t) = MaxPending
      BY <1>3, <1>4, <2>3, LenProperties DEF MaxPendingAssumption
    <3>7. QED BY <1>y, <3>5, <3>6
  <2>4. Len(r) \in Nat /\ MaxPending \in Nat
    BY <1>2, LenProperties DEF MaxPendingAssumption
  <2>5. QED BY <2>2, <2>3, <2>4
<1>15. ASSUME IsFiniteSet(all), Cardinality(all) <= MaxPending PROVE ToSet(S) \ G \subseteq ToSet(t)
  <2>1. ToSet(r) \subseteq all
    <3>1. \A u \in ToSet(r) : u \in G \/ u \in ToSet(S)
      BY <1>6
    <3>2. G \subseteq all
      BY DEF G
    <3>3. QED BY <3>1, <3>2
  <2>2. Len(r) <= Cardinality(all)
    BY <1>2, <1>15, <2>1, DistinctLength
  <2>3. Len(r) \in Nat /\ MaxPending \in Nat /\ Cardinality(all) \in Nat
    BY <1>2, <1>15, LenProperties, FS_CardinalityType DEF MaxPendingAssumption
  <2>4. t = r
    BY <1>4, <1>15, <2>2, <2>3
  <2>5. QED BY <1>10, <1>15, <2>4
<1>16. Replayed(t, S, y, G, all)
  <2>1. ToSet(y) \cap G \subseteq ToSet(t)
    BY <1>14
  <2>2. IsFiniteSet(all) /\ Cardinality(all) <= MaxPending => ToSet(S) \ G \subseteq ToSet(t)
    BY <1>15
  <2>3. \A u, w : u \in ToSet(t) \ G /\ w \in ToSet(S) \ G /\ Before(S, u, w) => w \in ToSet(t)
    <3> SUFFICES ASSUME NEW u, NEW w, u \in ToSet(t), u \notin G,
                        w \in ToSet(S), w \notin G, Before(S, u, w)
                 PROVE  w \in ToSet(t)
      OBVIOUS
    <3>1. QED BY <1>13
  <2>4. t \in Seq(Prompts) /\ IsInjective(t) /\ Len(t) <= MaxPending
    BY <1>4, <1>5
  <2>5. QED BY <1>11, <1>12, <2>1, <2>2, <2>3, <2>4 DEF Replayed
<1>17. QED BY <1>16 DEF t, r, q, y, G

\* All of them applied, the latest of the snapshot are there; and all of it, when there is room.
LEMMA DialogReplayed ==
  ASSUME MaxPendingAssumption, NEW d \in DialogStates, NEW g, NEW h \in Heard,
         Path(Hears, d.buffer, g, h),
         \A i \in 1..Len(d.buffer) : d.buffer[i].type \in {"requested", "resolved"},
         NEW all, h.over \subseteq all
  PROVE  LET r == DialogBooted(d, h.queue).shown IN
         /\ Latest(r, h.queue)
         /\ IsFiniteSet(all) /\ Cardinality(all) <= MaxPending => r = h.queue
<1> DEFINE b == d.buffer
           N == Len(b)
           S == h.queue
<1>1. b \in Seq(Events) /\ N \in Nat
  BY LenProperties DEF DialogStates
<1>2. PICK run : DialogRun(d, S, N, run)
  BY <1>1, DialogFold
<1>3. /\ run[0] = Begun(d, S)
      /\ \A n \in 1..N : run[n] = ApplyPromptEvent(run[n - 1], b[n])
      /\ DialogBooted(d, S) = run[N]
  BY <1>2 DEF DialogRun
<1>4. PICK v : /\ v[0] = g /\ v[N] = h
               /\ \A i \in 1..N : <<v[i - 1], b[i], v[i]>> \in Hears
  BY DEF Path
<1>5. \A n \in 0..N : v[n] \in Heard /\ Later(v[n], h)
  BY <1>1, <1>4, LaterAlong
<1>6. g \in Heard /\ Later(g, h)
  BY <1>1, <1>4, <1>5
<1>7. S \in Seq(Prompts) /\ IsInjective(S) /\ ToSet(S) \subseteq h.over /\ Len(S) <= MaxPending
  BY HeardParts
<1>8. \A i \in 1..N : b[i] \in Events /\ b[i].type \in {"requested", "resolved"}
  BY <1>1, ElementOfSeq
<1> DEFINE F(n) == v[n].over \ g.over
           Kept(n) == run[n] \in DialogStates /\ Replayed(run[n].shown, S, v[n].queue, F(n), all)
           T == {n \in Nat : n <= N => Kept(n)}
<1> HIDE DEF N, b, S
<1>9. 0 \in T
  <2>1. run[0].shown = S
    BY <1>3 DEF Begun, DialogStates
  <2>2. <<>> \in Seq(Events)
    OBVIOUS
  <2>3. run[0] \in DialogStates
    BY <1>3, <1>7, <2>2 DEF Begun, DialogStates
  <2>4. F(0) = {}
    BY <1>4
  <2>5. Replayed(S, S, v[0].queue, {}, all)
    BY <1>7 DEF Replayed
  <2>6. Kept(0)
    BY <2>1, <2>3, <2>4, <2>5
  <2>7. QED BY <2>6
<1>10. ASSUME NEW n \in Nat, n \in T PROVE n + 1 \in T
  <2> SUFFICES ASSUME n + 1 <= N PROVE Kept(n + 1)
    OBVIOUS
  <2>1. n <= N /\ n + 1 \in 1..N /\ (n + 1) - 1 = n /\ n \in 0..N /\ n + 1 \in 0..N
    BY <1>1
  <2> DEFINE m == b[n + 1]
             x == v[n]
             y == v[n + 1]
             p == m.prompt
  <2>2. run[n] \in DialogStates /\ Replayed(run[n].shown, S, x.queue, F(n), all)
    BY <1>10, <2>1
  <2>3. <<x, m, y>> \in Hears /\ run[n + 1] = ApplyPromptEvent(run[n], m)
    BY <1>3, <1>4, <2>1
  <2>4. m \in Events /\ m.type \in {"requested", "resolved"}
    BY <1>8, <2>1
  <2>5. /\ x \in Heard /\ y \in Heard /\ x.queue \in Seq(Prompts) /\ IsInjective(x.queue)
        /\ y.queue \in Seq(Prompts) /\ ToSet(x.queue) \subseteq x.over /\ Len(y.queue) <= MaxPending
        /\ ToSet(y.queue) \subseteq y.over
    BY <1>5, <2>1, HeardParts
  <2>6. Later(g, x) /\ g.over \subseteq x.over
    <3>1. \A i \in 1..n : <<v[i - 1], b[i], v[i]>> \in Hears
      <4>1. \A i \in 1..n : i \in 1..N
        BY <1>1, <2>1
      <4>2. QED BY <1>4, <4>1
    <3>2. 0 \in 0..n
      OBVIOUS
    <3>3. Later(g, x)
      BY <1>4, <2>5, <3>1, <3>2, LaterAlong
    <3>4. QED BY <3>3 DEF Later
  <2>7. Later(y, h) /\ y.over \subseteq all
    BY <1>5, <2>1 DEF Later
  <2>8. run[n + 1] \in DialogStates
    BY <2>2, <2>3, <2>4, PromptEventApplied
  <2>9. ToSet(S) \subseteq all
    BY <1>7
  <2>10. CASE m.type = "requested"
    <3> HIDE DEF m, x, y
    <3>1. /\ p \notin x.over /\ p \in Prompts
          /\ y.queue = Append(x.queue, p) /\ y.over = x.over \cup {p}
      BY <2>3, <2>10, HearsParts
    <3>2. run[n + 1].shown = Newest(Append(Without(run[n].shown, p), p))
      BY <2>2, <2>3, <2>10 DEF ApplyPromptEvent, DialogStates
    <3> HIDE DEF p
    <3>3. p \notin F(n) /\ F(n + 1) = F(n) \cup {p} /\ F(n + 1) \subseteq all /\ p \notin ToSet(x.queue)
      BY <2>5, <2>6, <2>7, <3>1 DEF x, y
    <3> HIDE DEF F
    <3>4. Replayed(run[n + 1].shown, S, Append(x.queue, p), F(n) \cup {p}, all)
      BY <1>7, <2>2, <2>5, <2>9, <3>1, <3>2, <3>3, ReplayRequested
    <3>5. QED BY <2>8, <3>1, <3>3, <3>4 DEF y
  <2>11. CASE m.type = "resolved"
    <3>1. y.queue = Without(x.queue, p) /\ y.over = x.over \cup {p}
      BY <2>3, <2>11, HearsParts
    <3>2. run[n + 1].shown = Without(run[n].shown, p)
      BY <2>2, <2>3, <2>11 DEF ApplyPromptEvent, DialogStates
    <3> HIDE DEF m, x, y, p
    <3>3. F(n) \subseteq F(n + 1) /\ F(n + 1) \subseteq F(n) \cup {p}
      BY <3>1 DEF x, y
    <3>4. p \notin ToSet(S)
      <4>1. p \in y.over /\ p \notin ToSet(y.queue)
        BY <2>5, <3>1, RemovedOrder DEF Without
      <4>2. QED BY <2>7, <4>1 DEF Later, S
    <3> HIDE DEF F
    <3>5. Replayed(run[n + 1].shown, S, Without(x.queue, p), F(n + 1), all)
      BY <1>7, <2>2, <2>5, <3>2, <3>3, <3>4, ReplayResolved
    <3>6. QED BY <2>8, <3>1, <3>5 DEF y
  <2>12. QED BY <2>4, <2>10, <2>11
<1>11. N \in T
  <2> HIDE DEF T
  <2>1. QED BY <1>1, <1>9, <1>10, NatSetInduction
<1> DEFINE r == run[N].shown
           G == h.over \ g.over
<1>12. Replayed(r, S, S, G, all)
  <2>1. N <= N
    BY <1>1
  <2>2. Kept(N)
    BY <1>11, <2>1
  <2>3. v[N].queue = S /\ F(N) = G
    BY <1>4 DEF S
  <2>4. QED BY <2>2, <2>3
<1> HIDE DEF r, G, T, Kept
<1>13. r \in Seq(Prompts) /\ IsInjective(r) /\ ToSet(r) \subseteq ToSet(S)
  BY <1>12 DEF Replayed
<1>14. \A u, w \in ToSet(S) : u \notin G /\ w \in G => Before(S, u, w)
  BY <1>6, <1>7 DEF Later, G, S
<1>15. ASSUME NEW u, NEW w, Before(r, u, w) PROVE Before(S, u, w)
  <2>1. u \in ToSet(S) /\ w \in ToSet(S)
    BY <1>13, <1>15, BeforeParts
  <2>2. CASE u \in G
    BY <1>12, <1>15, <2>2 DEF Replayed
  <2>3. CASE u \notin G /\ w \notin G
    BY <1>12, <1>15, <2>3 DEF Replayed
  <2>4. CASE u \notin G /\ w \in G
    BY <1>14, <2>1, <2>4
  <2>5. QED BY <2>2, <2>3, <2>4
<1>16. ASSUME NEW u, NEW w, u \in ToSet(r), Before(S, u, w) PROVE w \in ToSet(r)
  <2>1. u \in ToSet(S) /\ w \in ToSet(S) /\ ~Before(S, w, u)
    BY <1>7, <1>16, BeforeParts
  <2>2. CASE w \in G
    BY <1>12, <2>1, <2>2 DEF Replayed
  <2>3. CASE w \notin G
    <3>1. u \notin G
      BY <1>14, <2>1, <2>3
    <3>2. QED BY <1>12, <1>16, <2>1, <2>3, <3>1 DEF Replayed
  <2>4. QED BY <2>2, <2>3
<1>17. Latest(r, S)
  BY <1>13, <1>15, <1>16 DEF Latest
<1>18. ASSUME IsFiniteSet(all), Cardinality(all) <= MaxPending PROVE r = S
  <2>1. ToSet(S) \ G \subseteq ToSet(r) /\ ToSet(S) \cap G \subseteq ToSet(r)
    BY <1>12, <1>18 DEF Replayed
  <2>2. ToSet(S) \subseteq ToSet(r)
    BY <2>1
  <2>3. QED BY <1>7, <1>13, <1>17, <2>2, LatestWhole
<1>19. QED BY <1>3, <1>17, <1>18 DEF r, S

-----------------------------------------------------------------------------
(* The dialog, from message to message. *)

\* What the dialog d has when h has been heard: what it held back follows a point to which a
\* snapshot that is still to come belongs; when it is there, the latest of the pending prompts.
Mirrored(d, h, all) ==
    /\ \E g : Path(Hears, d.buffer, g, h)
    /\ \A i \in 1..Len(d.buffer) : d.buffer[i].type \in {"requested", "resolved"}
    /\ d.booting => ~d.complete
    /\ ~d.booting => d.buffer = <<>>
    /\ d.complete => /\ Latest(d.shown, h.queue)
                     /\ IsFiniteSet(all) /\ Cardinality(all) <= MaxPending => d.shown = h.queue

\* Without events held back it is enough to know what is shown.
LEMMA MirroredShown ==
  ASSUME NEW d, NEW h, NEW all, d.buffer = <<>>, d.booting => ~d.complete,
         d.complete => /\ Latest(d.shown, h.queue)
                       /\ IsFiniteSet(all) /\ Cardinality(all) <= MaxPending => d.shown = h.queue
  PROVE  Mirrored(d, h, all)
<1>1. Path(Hears, d.buffer, h, h)
  BY PathEmpty
<1>2. 1..Len(d.buffer) = {}
  OBVIOUS
<1>3. QED BY <1>1, <1>2 DEF Mirrored

LEMMA MirroredWider ==
  ASSUME MaxPendingAssumption, NEW d, NEW h, NEW some, NEW all, some \subseteq all, Mirrored(d, h, some)
  PROVE  Mirrored(d, h, all)
<1>1. ASSUME IsFiniteSet(all), Cardinality(all) <= MaxPending
      PROVE  IsFiniteSet(some) /\ Cardinality(some) <= MaxPending
  <2>1. IsFiniteSet(some) /\ Cardinality(some) <= Cardinality(all)
    BY <1>1, FS_Subset
  <2>2. Cardinality(some) \in Nat /\ Cardinality(all) \in Nat
    BY <1>1, <2>1, FS_CardinalityType
  <2>3. MaxPending \in Nat
    BY DEF MaxPendingAssumption
  <2>4. QED BY <1>1, <2>1, <2>2, <2>3
<1>2. QED BY <1>1 DEF Mirrored

LEMMA MirroredApplied ==
  ASSUME MaxPendingAssumption, NEW d \in DialogStates, NEW h, NEW m, NEW k, <<h, m, k>> \in Hears,
         m.type \in {"requested", "resolved"}, ~d.booting,
         NEW all, Mirrored(d, h, all)
  PROVE  Mirrored(ApplyPromptEvent(d, m), k, all)
<1> DEFINE r == ApplyPromptEvent(d, m)
           p == m.prompt
           s == d.shown
<1>1. h \in Heard /\ k \in Heard /\ m \in Messages
  BY HearsParts
<1>2. m \in Events
  BY <1>1, MessageKinds, ReplyParts
<1>3. r \in DialogStates /\ r.booting = d.booting /\ r.complete = d.complete /\ r.buffer = d.buffer
  BY <1>2, PromptEventApplied
<1>4. r.buffer = <<>>
  BY <1>3 DEF Mirrored
<1>5. /\ h.queue \in Seq(Prompts) /\ IsInjective(h.queue) /\ ToSet(h.queue) \subseteq h.over
      /\ k.queue \in Seq(Prompts) /\ IsInjective(k.queue) /\ Len(k.queue) <= MaxPending
  BY <1>1, HeardParts
<1>6. s \in Seq(Prompts)
  BY DEF DialogStates
<1>7. ASSUME d.complete
      PROVE  /\ Latest(r.shown, k.queue)
             /\ IsFiniteSet(all) /\ Cardinality(all) <= MaxPending => r.shown = k.queue
  <2>1. Latest(s, h.queue) /\ IsInjective(s) /\ ToSet(s) \subseteq ToSet(h.queue)
    BY <1>7 DEF Mirrored, Latest
  <2>2. IsFiniteSet(all) /\ Cardinality(all) <= MaxPending => s = h.queue
    BY <1>7 DEF Mirrored
  <2>3. CASE m.type = "requested"
    <3>1. r.shown = Newest(Append(Without(s, p), p))
      BY <2>3 DEF ApplyPromptEvent, DialogStates
    <3> HIDE DEF r
    <3>2. p \notin h.over /\ p \in Prompts /\ k.queue = Append(h.queue, p)
      BY <2>3, HearsParts
    <3> HIDE DEF p, s
    <3>3. p \notin ToSet(h.queue) /\ p \notin ToSet(s)
      BY <1>5, <2>1, <3>2
    <3>4. Without(s, p) = s
      BY <1>6, <2>1, <3>3, RemovedOrder DEF Without
    <3>5. Latest(Append(s, p), k.queue)
      BY <1>5, <1>6, <2>1, <3>2, <3>3, LatestAppended
    <3>6. Append(s, p) \in Seq(Prompts) /\ IsInjective(Append(s, p))
      BY <1>6, <2>1, <3>2, <3>3, AppendedOrder
    <3>7. Len(Append(s, p)) <= Len(k.queue)
      <4>1. IsFiniteSet(ToSet(k.queue)) /\ Cardinality(ToSet(k.queue)) = Len(k.queue)
        BY <1>5, DistinctLength
      <4>2. ToSet(Append(s, p)) \subseteq ToSet(k.queue)
        BY <3>5 DEF Latest
      <4>3. Len(Append(s, p)) <= Cardinality(ToSet(k.queue))
        BY <3>6, <4>1, <4>2, DistinctLength
      <4>4. QED BY <4>1, <4>3
    <3>8. Len(Append(s, p)) <= MaxPending
      <4>1. Len(Append(s, p)) \in Nat /\ Len(k.queue) \in Nat /\ MaxPending \in Nat
        BY <1>5, <3>6, LenProperties DEF MaxPendingAssumption
      <4> DEFINE i == Len(Append(s, p))
                 j == Len(k.queue)
      <4> HIDE DEF i, j
      <4>2. i <= j /\ j <= MaxPending /\ i \in Nat /\ j \in Nat /\ MaxPending \in Nat
        BY <1>5, <3>7, <4>1 DEF i, j
      <4>3. QED BY <4>2 DEF i, j
    <3>9. r.shown = Append(s, p)
      BY <3>1, <3>4, <3>6, <3>8, NewestEnd
    <3>10. QED BY <2>2, <3>2, <3>5, <3>9
  <2>4. CASE m.type = "resolved"
    <3>1. r.shown = RemoveFirst(s, p)
      BY <2>4 DEF ApplyPromptEvent, DialogStates, Without
    <3>2. k.queue = RemoveFirst(h.queue, p)
      BY <2>4, HearsParts DEF Without
    <3> HIDE DEF r, p, s
    <3>3. Latest(RemoveFirst(s, p), RemoveFirst(h.queue, p))
      BY <1>5, <1>6, <2>1, LatestRemoved
    <3>4. QED BY <2>2, <3>1, <3>2, <3>3
  <2>5. QED BY <2>3, <2>4
<1> HIDE DEF r
<1>8. Mirrored(r, k, all)
  BY <1>3, <1>4, <1>7, MirroredShown
<1>9. QED BY <1>8 DEF r

LEMMA BootedEmpty ==
  ASSUME NEW d \in DialogStates, NEW shown \in Seq(Prompts), d.buffer = <<>>
  PROVE  DialogBooted(d, shown).shown = shown
<1>1. Len(d.buffer) = 0
  OBVIOUS
<1>2. PICK run : DialogRun(d, shown, 0, run)
  BY <1>1, DialogFold
<1>3. DialogBooted(d, shown) = Begun(d, shown)
  BY <1>2 DEF DialogRun
<1>4. QED BY <1>3 DEF Begun, DialogStates

LEMMA MirroredDelivered ==
  ASSUME MaxPendingAssumption, NEW d \in DialogStates, NEW h, NEW m, NEW k, <<h, m, k>> \in Hears,
         NEW all, h.over \subseteq all, Mirrored(d, h, all), NEW r \in DialogReceives(d, m)
  PROVE  Mirrored(r, k, all)
<1>1. h \in Heard /\ k \in Heard /\ m \in Messages /\ h.queue \in Seq(Prompts)
  BY HearsParts, HeardParts
<1>2. CASE m.type \in {"requested", "resolved"}
  <2>1. m \in Events
    BY <1>1, <1>2, MessageKinds, ReplyParts
  <2>2. CASE d.booting
    <3>1. r = [d EXCEPT !.buffer = Append(d.buffer, m)]
      BY <1>2, <2>2 DEF DialogReceives
    <3>2. d.buffer \in Seq(Events)
      BY DEF DialogStates
    <3>3. r.buffer = Append(d.buffer, m) /\ r.booting = d.booting /\ r.complete = d.complete
      BY <3>1 DEF DialogStates
    <3>4. PICK g : Path(Hears, d.buffer, g, h)
      BY DEF Mirrored
    <3>5. Path(Hears, r.buffer, g, k)
      BY <2>1, <3>2, <3>3, <3>4, PathAppend
    <3>6. \A i \in 1..Len(r.buffer) : r.buffer[i].type \in {"requested", "resolved"}
      <4>1. /\ Len(d.buffer) \in Nat /\ Len(r.buffer) = Len(d.buffer) + 1
            /\ \A i \in 1..Len(d.buffer) : r.buffer[i] = d.buffer[i]
            /\ r.buffer[Len(d.buffer) + 1] = m
        BY <2>1, <3>2, <3>3, AppendProperties, LenProperties
      <4>2. \A i \in 1..Len(r.buffer) : i \in 1..Len(d.buffer) \/ i = Len(d.buffer) + 1
        BY <4>1
      <4>3. QED BY <1>2, <4>1, <4>2 DEF Mirrored
    <3>7. QED BY <2>2, <3>3, <3>5, <3>6 DEF Mirrored
  <2>3. CASE ~d.booting
    <3>1. r = ApplyPromptEvent(d, m)
      BY <1>2, <2>3 DEF DialogReceives
    <3>2. QED BY <1>2, <2>3, <3>1, MirroredApplied
  <2>4. QED BY <2>2, <2>3
<1>3. CASE m.type = "reply" /\ m.to = "prompts"
  <2>1. k = h /\ m.value = h.queue
    BY <1>3, HearsParts
  <2>2. Newest(m.value) = h.queue
    BY <1>1, <2>1, HeardParts, NewestEnd
  <2> DEFINE b == DialogBooted(d, h.queue)
  <2>3. r = [b EXCEPT !.complete = TRUE]
    BY <1>3, <2>2 DEF DialogReceives
  <2>4. b \in DialogStates /\ ~b.booting /\ b.buffer = <<>>
    BY <1>1, DialogApplied
  <2>5. /\ Latest(b.shown, h.queue)
        /\ IsFiniteSet(all) /\ Cardinality(all) <= MaxPending => b.shown = h.queue
    <3>1. PICK g : Path(Hears, d.buffer, g, h)
      BY DEF Mirrored
    <3>2. \A i \in 1..Len(d.buffer) : d.buffer[i].type \in {"requested", "resolved"}
      BY DEF Mirrored
    <3>3. QED BY <1>1, <3>1, <3>2, DialogReplayed
  <2> HIDE DEF b
  <2>6. r.buffer = <<>> /\ ~r.booting /\ r.shown = b.shown
    BY <2>3, <2>4 DEF DialogStates
  <2>7. QED BY <2>1, <2>5, <2>6, MirroredShown
<1>4. CASE m.type = "failure" /\ m.to = "prompts"
  <2>1. k = h
    BY <1>4, HearsParts
  <2> DEFINE e == [d EXCEPT !.buffer = <<>>]
  <2>2. r = DialogBooted(d, d.shown) \/ r = DialogBooted(e, d.shown)
    BY <1>4 DEF DialogReceives
  <2>3. <<>> \in Seq(Events)
    OBVIOUS
  <2>4. /\ d.shown \in Seq(Prompts) /\ e \in DialogStates /\ e.complete = d.complete
        /\ e.buffer = <<>>
    BY <2>3 DEF DialogStates
  <2> HIDE DEF e
  <2>5. r \in DialogStates /\ ~r.booting /\ r.complete = d.complete /\ r.buffer = <<>>
    BY <2>2, <2>4, DialogApplied
  <2>6. d.complete => r.shown = d.shown
    <3>1. d.complete => d.buffer = <<>>
      BY DEF Mirrored
    <3>2. QED BY <2>2, <2>4, <3>1, BootedEmpty
  <2>7. d.complete => /\ Latest(r.shown, h.queue)
                      /\ IsFiniteSet(all) /\ Cardinality(all) <= MaxPending => r.shown = h.queue
    BY <2>6 DEF Mirrored
  <2>8. QED BY <2>1, <2>5, <2>7, MirroredShown
<1>5. CASE m.type = "reply" /\ m.to = "resolve"
  <2>1. k = h /\ m.value \notin ToSet(h.queue)
    BY <1>5, HearsParts
  <2>2. r = [d EXCEPT !.shown = Without(d.shown, m.value)]
    BY <1>5 DEF DialogReceives
  <2>3. /\ d.shown \in Seq(Prompts) /\ r.shown = Without(d.shown, m.value)
        /\ r.booting = d.booting /\ r.buffer = d.buffer /\ r.complete = d.complete
    BY <2>2 DEF DialogStates
  <2>4. ASSUME d.complete PROVE r.shown = d.shown
    <3>1. IsInjective(d.shown) /\ m.value \notin ToSet(d.shown)
      BY <2>1, <2>4 DEF Mirrored, Latest
    <3>2. QED BY <2>3, <3>1, RemovedOrder DEF Without
  <2>5. QED BY <2>1, <2>3, <2>4 DEF Mirrored
<1>6. CASE /\ m.type \notin {"requested", "resolved"}
           /\ ~(m.type = "reply" /\ m.to \in {"prompts", "resolve"})
           /\ ~(m.type = "failure" /\ m.to = "prompts")
  <2>1. k = h
    BY <1>6, HearsParts
  <2>2. r = d
    BY <1>6 DEF DialogReceives
  <2>3. QED BY <2>1, <2>2
<1>7. QED BY <1>2, <1>3, <1>4, <1>5, <1>6

-----------------------------------------------------------------------------
(* What the main process says of the prompts. *)

Asked == {p \in Prompts : prompts[p] # "idle"}

\* The prompts that wait for a decision, each once and no more than there is room for.
Broker ==
    /\ IsInjective(queue) /\ Len(queue) <= MaxPending
    /\ ToSet(queue) = {p \in Prompts : prompts[p] = "pending"}
    /\ IsFiniteSet(Asked)

Pending(q, over) == [queue |-> q, over |-> over]

PromptNews(ms) ==
    /\ ms \in Seq(Messages) /\ Emit(ms) /\ Asked \subseteq Asked'
    /\ \A over : ToSet(queue) \subseteq over /\ over \subseteq Asked =>
           \E more : /\ Pending(queue', more) \in Heard /\ more \subseteq Asked'
                     /\ Path(Hears, ms, Pending(queue, over), Pending(queue', more))

\* Messages about other things.
Beside == {m \in Messages : /\ m.type \notin {"requested", "resolved"}
                            /\ m.type = "reply" => m.to \notin {"resolve", "prompts"}}

LEMMA BesideParts ==
  /\ \A s \in Sessions, v \in Nat, r \in BOOLEAN : Updated(s, v, r) \in Beside
  /\ \A s \in Sessions : Removed(s) \in Beside
  /\ \A s \in Sessions, c \in ControlStates : Control(s, c) \in Beside
  /\ \A n \in Nat, q \in Queries : Output(n, q) \in Beside
  /\ \A x \in [Sessions -> Nat] : Reply("sessions", x) \in Beside
  /\ \A x \in [Sessions -> ControlStates] : Reply("controls", x) \in Beside
  /\ \A s \in Sessions, c \in ControlStates : Reply("change", Control(s, c)) \in Beside
  /\ \A n \in Nat, r \in BOOLEAN, k \in {"attach", "view"} :
        Reply(k, [sequence |-> n, running |-> r]) \in Beside
  /\ \A r \in BOOLEAN, k \in {"create", "close", "closeView"} : Reply(k, r) \in Beside
  /\ \A k \in Plain \cup {"change", "resolve"} : Failure(k) \in Beside
<1>1. Events \subseteq Messages /\ Replies \subseteq Messages
  BY DEF Messages
<1>2. /\ \A s, v, r : Updated(s, v, r).type = "updated"
      /\ \A s : Removed(s).type = "removed"
      /\ \A s, c : Control(s, c).type = "control"
      /\ \A n, q : Output(n, q).type = "output"
      /\ \A k, x : Reply(k, x).type = "reply" /\ Reply(k, x).to = k
      /\ \A k : Failure(k).type = "failure"
  BY DEF Updated, Removed, Control, Output, Reply, Failure
<1>3. /\ \A s \in Sessions, v \in Nat, r \in BOOLEAN : Updated(s, v, r) \in Beside
      /\ \A s \in Sessions : Removed(s) \in Beside
      /\ \A s \in Sessions, c \in ControlStates : Control(s, c) \in Beside
      /\ \A n \in Nat, q \in Queries : Output(n, q) \in Beside
      /\ \A k \in Plain \cup {"change", "resolve"} : Failure(k) \in Beside
  BY <1>1, <1>2, Sendable DEF Beside
<1>4. /\ \A x \in [Sessions -> Nat] : Reply("sessions", x) \in Beside
      /\ \A x \in [Sessions -> ControlStates] : Reply("controls", x) \in Beside
      /\ \A s \in Sessions, c \in ControlStates : Reply("change", Control(s, c)) \in Beside
      /\ \A n \in Nat, r \in BOOLEAN, k \in {"attach", "view"} :
            Reply(k, [sequence |-> n, running |-> r]) \in Beside
      /\ \A r \in BOOLEAN, k \in {"create", "close", "closeView"} : Reply(k, r) \in Beside
  BY <1>1, <1>2, Sendable DEF Beside
<1>5. QED BY <1>3, <1>4

LEMMA NowHeard ==
  ASSUME TypeOK, Broker, NEW over, ToSet(queue) \subseteq over, over \subseteq Asked
  PROVE  Pending(queue, over) \in Heard
BY DEF TypeOK, Broker, Pending, Heard, Asked

LEMMA HeardBeside ==
  ASSUME NEW x \in Heard, NEW m \in Beside PROVE <<x, m, x>> \in Hears
BY DEF Hears, Beside

LEMMA HeardOne ==
  ASSUME NEW x, NEW m, NEW y, <<x, m, y>> \in Hears PROVE Path(Hears, <<m>>, x, y)
<1>1. m \in Messages
  BY HearsParts
<1>2. <<>> \in Seq(Messages) /\ Append(<<>>, m) = <<m>>
  BY <1>1
<1>3. Path(Hears, Append(<<>>, m), x, y)
  BY <1>1, <1>2, PathEmpty, PathAppend
<1>4. QED BY <1>2, <1>3

\* A step that does not concern the prompts.
LEMMA BesideNews ==
  ASSUME TypeOK, Broker, UNCHANGED <<prompts, queue>>, NEW ms \in Seq(Beside), Emit(ms)
  PROVE  PromptNews(ms) /\ Broker'
<1>1. Asked' = Asked /\ queue' = queue
  BY DEF Asked
<1>2. Broker'
  BY <1>1 DEF Broker
<1>3. /\ Len(ms) \in Nat /\ DOMAIN ms = 1..Len(ms)
      /\ \A i \in 1..Len(ms) : ms[i] \in Beside /\ ms[i] \in Messages
  BY LenProperties, ElementOfSeq DEF Beside
<1>4. ms \in Seq(Messages)
  <2>1. ms \in [1..Len(ms) -> Messages]
    BY <1>3, LenProperties
  <2>2. QED BY <1>3, <2>1, SeqDef
<1>5. ASSUME NEW over, ToSet(queue) \subseteq over, over \subseteq Asked
      PROVE  Pending(queue, over) \in Heard /\ Path(Hears, ms, Pending(queue, over), Pending(queue, over))
  <2>1. Pending(queue, over) \in Heard
    BY <1>5, NowHeard
  <2>2. \A i \in 1..Len(ms) : <<Pending(queue, over), ms[i], Pending(queue, over)>> \in Hears
    BY <1>3, <2>1, HeardBeside
  <2>3. QED BY <1>4, <2>1, <2>2, PathStays
<1>6. QED BY <1>1, <1>2, <1>4, <1>5 DEF PromptNews

\* A prompt that has ended is said to have ended.
LEMMA SettledHeard ==
  ASSUME TypeOK, Broker, NEW p \in Prompts, NEW o \in {"answered", "timeout", "cancelled"},
         Settle(p, o), NEW over, ToSet(queue) \subseteq over, over \subseteq Asked
  PROVE  /\ <<Pending(queue, over), Resolved(p), Pending(queue', over \cup {p})>> \in Hears
         /\ Pending(queue', over \cup {p}) \in Heard /\ over \cup {p} \subseteq Asked'
         /\ p \notin ToSet(queue')
<1>1. /\ prompts' = [prompts EXCEPT ![p] = o] /\ queue' = Without(queue, p)
      /\ queue \in Seq(Prompts) /\ over \subseteq Prompts
  BY DEF Settle, TypeOK, Asked
<1>2. IsInjective(queue) /\ Len(queue) <= MaxPending /\ Len(queue) \in Nat
  BY <1>1, LenProperties DEF Broker
<1>3. /\ queue' \in Seq(Prompts) /\ IsInjective(queue') /\ ToSet(queue') = ToSet(queue) \ {p}
      /\ Len(queue') = Len(queue) \/ Len(queue') = Len(queue) - 1
  BY <1>1, <1>2, RemovedOrder DEF Without
<1>4. Len(queue') <= MaxPending
  <2>1. \/ Len(queue') <= Len(queue) /\ Len(queue') = Len(queue)
        \/ Len(queue') = Len(queue) - 1
    BY <1>2, <1>3
  <2>2. QED BY <1>2, <2>1, MaxPendingAssumption DEF MaxPendingAssumption
<1>5. over \cup {p} \subseteq Asked'
  BY <1>1 DEF TypeOK, Asked
<1>6. Resolved(p) \in Messages /\ Resolved(p).type = "resolved" /\ Resolved(p).prompt = p
  BY Sendable DEF Resolved, Messages
<1>7. Pending(queue, over) \in Heard
  BY NowHeard
<1>8. Pending(queue', over \cup {p}) \in Heard
  BY <1>1, <1>3, <1>4 DEF Heard, Pending
<1> DEFINE x == Pending(queue, over)
           y == Pending(queue', over \cup {p})
           m == Resolved(p)
<1>9. y.queue = Without(x.queue, m.prompt) /\ y.over = x.over \cup {m.prompt}
  BY <1>1, <1>6 DEF Pending
<1> HIDE DEF x, y, m
<1>10. <<x, m, y>> \in Hears
  BY <1>6, <1>7, <1>8, <1>9 DEF Hears, x, y, m
<1>11. QED BY <1>3, <1>5, <1>8, <1>10 DEF x, y, m

LEMMA SettledBroker ==
  ASSUME TypeOK, Broker, NEW p \in Prompts, NEW o \in {"answered", "timeout", "cancelled"},
         Settle(p, o)
  PROVE  Broker' /\ Asked \subseteq Asked'
<1>1. /\ prompts' = [prompts EXCEPT ![p] = o] /\ queue' = Without(queue, p)
      /\ queue \in Seq(Prompts)
  BY DEF Settle, TypeOK
<1>2. Asked' = Asked \cup {p}
  BY <1>1 DEF TypeOK, Asked
<1>3. IsFiniteSet(Asked')
  BY <1>2, FS_AddElement DEF Broker
<1>4. ToSet(queue) \subseteq ToSet(queue) /\ ToSet(queue) \subseteq Asked
  BY DEF Broker, Asked
<1>5. Pending(queue', ToSet(queue) \cup {p}) \in Heard
  BY <1>4, SettledHeard
<1>6. IsInjective(queue') /\ Len(queue') <= MaxPending
  BY <1>5 DEF Heard, Pending
<1>7. ToSet(queue') = ToSet(queue) \ {p}
  BY <1>1, RemovedOrder DEF Without, Broker
<1>8. ToSet(queue') = {q \in Prompts : prompts'[q] = "pending"}
  BY <1>1, <1>7 DEF TypeOK, Broker
<1>9. QED BY <1>2, <1>3, <1>6, <1>8 DEF Broker

LEMMA EndedPromptNews ==
  ASSUME TypeOK, Broker, NEW p \in Prompts, NEW o \in {"answered", "timeout", "cancelled"},
         Settle(p, o), Emit(<<Resolved(p)>>)
  PROVE  PromptNews(<<Resolved(p)>>) /\ Broker'
<1>1. <<Resolved(p)>> \in Seq(Messages)
  BY Sendable, OneMessage DEF Messages
<1>2. ASSUME NEW over, ToSet(queue) \subseteq over, over \subseteq Asked
      PROVE  /\ Pending(queue', over \cup {p}) \in Heard /\ over \cup {p} \subseteq Asked'
             /\ Path(Hears, <<Resolved(p)>>, Pending(queue, over), Pending(queue', over \cup {p}))
  BY <1>2, SettledHeard, HeardOne
<1>3. QED BY <1>1, <1>2, SettledBroker DEF PromptNews

LEMMA AnsweredPromptNews ==
  ASSUME TypeOK, Broker, NEW p \in Prompts, Settle(p, "answered"),
         Emit(<<Resolved(p), Reply("resolve", p)>>)
  PROVE  PromptNews(<<Resolved(p), Reply("resolve", p)>>) /\ Broker'
<1> DEFINE e == Resolved(p)
           a == Reply("resolve", p)
<1>1. /\ e \in Messages /\ a \in Messages
      /\ a.type = "reply" /\ a.to = "resolve" /\ a.value = p
  BY Sendable DEF Messages, Reply
<1> HIDE DEF e, a
<1>2. <<e>> \o <<a>> = <<e, a>> /\ <<e>> \in Seq(Messages) /\ <<a>> \in Seq(Messages)
  BY <1>1, PairConcat
<1>3. <<e, a>> \in Seq(Messages)
  BY <1>1
<1>4. ASSUME NEW over, ToSet(queue) \subseteq over, over \subseteq Asked
      PROVE  /\ Pending(queue', over \cup {p}) \in Heard /\ over \cup {p} \subseteq Asked'
             /\ Path(Hears, <<e, a>>, Pending(queue, over), Pending(queue', over \cup {p}))
  <2> DEFINE x == Pending(queue, over)
             y == Pending(queue', over \cup {p})
  <2>1. /\ <<x, e, y>> \in Hears /\ y \in Heard /\ over \cup {p} \subseteq Asked'
        /\ p \notin ToSet(y.queue)
    BY <1>4, SettledHeard DEF e, Pending
  <2> HIDE DEF x, y
  <2>2. <<y, a, y>> \in Hears
    BY <1>1, <2>1 DEF Hears
  <2>3. Path(Hears, <<e>> \o <<a>>, x, y)
    BY <1>2, <2>1, <2>2, HeardOne, PathConcat
  <2>4. QED BY <1>2, <2>1, <2>3 DEF x, y
<1>5. Emit(<<e, a>>)
  BY DEF e, a
<1>6. PromptNews(<<e, a>>)
  BY <1>3, <1>4, <1>5, SettledBroker DEF PromptNews
<1>7. QED BY <1>6, SettledBroker DEF e, a

\* The answers that leave the prompts as they are.
LEMMA RepliedPromptNews ==
  ASSUME TypeOK, Broker, UNCHANGED <<prompts, queue>>, NEW m \in Messages, Emit(<<m>>),
         m.type = "reply",
         m.to = "prompts" => m.value = queue, m.to = "resolve" => m.value \notin ToSet(queue)
  PROVE  PromptNews(<<m>>) /\ Broker'
<1>1. Asked' = Asked /\ queue' = queue
  BY DEF Asked
<1>2. Broker'
  BY <1>1 DEF Broker
<1>3. ASSUME NEW over, ToSet(queue) \subseteq over, over \subseteq Asked
      PROVE  /\ Pending(queue, over) \in Heard
             /\ Path(Hears, <<m>>, Pending(queue, over), Pending(queue, over))
  <2> DEFINE x == Pending(queue, over)
  <2>1. x \in Heard /\ x.queue = queue
    BY <1>3, NowHeard DEF Pending
  <2> HIDE DEF x
  <2>2. <<x, m, x>> \in Hears
    BY <2>1 DEF Hears
  <2>3. QED BY <2>1, <2>2, HeardOne DEF x
<1>4. <<m>> \in Seq(Messages)
  OBVIOUS
<1>5. QED BY <1>1, <1>2, <1>3, <1>4 DEF PromptNews

LEMMA RequestedPromptNews ==
  ASSUME TypeOK, Broker, NEW p \in Prompts, PromptRequested(p)
  PROVE  (\E ms : PromptNews(ms)) /\ Broker'
<1>0. prompts[p] = "idle" /\ p \notin ToSet(queue) /\ p \notin Asked /\ queue \in Seq(Prompts)
  BY DEF PromptRequested, Broker, Asked, TypeOK
<1>1. CASE prompts' = [prompts EXCEPT ![p] = "cancelled"] /\ UNCHANGED <<queue, channel>>
  <2>1. Asked' = Asked \cup {p}
    BY <1>1 DEF TypeOK, Asked
  <2>2. IsFiniteSet(Asked')
    BY <2>1, FS_AddElement DEF Broker
  <2>3. {q \in Prompts : prompts'[q] = "pending"} = {q \in Prompts : prompts[q] = "pending"}
    BY <1>0, <1>1 DEF TypeOK
  <2>4. Broker'
    BY <1>1, <2>2, <2>3 DEF Broker
  <2>5. Emit(<<>>) /\ <<>> \in Seq(Messages)
    BY <1>1, ConcatEmptySeq DEF Emit, TypeOK
  <2>6. ASSUME NEW over, ToSet(queue) \subseteq over, over \subseteq Asked
        PROVE  /\ Pending(queue, over) \in Heard /\ over \subseteq Asked'
               /\ Path(Hears, <<>>, Pending(queue, over), Pending(queue, over))
    BY <2>1, <2>6, NowHeard, PathEmpty
  <2>7. queue' = queue
    BY <1>1
  <2>8. PromptNews(<<>>)
    BY <2>1, <2>5, <2>6, <2>7 DEF PromptNews
  <2>9. QED BY <2>4, <2>8
<1>2. CASE /\ Len(queue) < MaxPending
           /\ prompts' = [prompts EXCEPT ![p] = "pending"] /\ queue' = Append(queue, p)
           /\ Emit(<<Requested(p)>>)
  <2>1. Asked' = Asked \cup {p}
    BY <1>2 DEF TypeOK, Asked
  <2>2. IsFiniteSet(Asked')
    BY <2>1, FS_AddElement DEF Broker
  <2>3. /\ queue' \in Seq(Prompts) /\ IsInjective(queue') /\ ToSet(queue') = ToSet(queue) \cup {p}
        /\ Len(queue') = Len(queue) + 1
    BY <1>0, <1>2, AppendedOrder DEF Broker
  <2>4. Len(queue') <= MaxPending
    BY <1>0, <1>2, <2>3, LenProperties, MaxPendingAssumption DEF MaxPendingAssumption
  <2>5. ToSet(queue') = {q \in Prompts : prompts'[q] = "pending"}
    BY <1>2, <2>3 DEF TypeOK, Broker
  <2>6. Broker'
    BY <2>2, <2>3, <2>4, <2>5 DEF Broker
  <2> DEFINE m == Requested(p)
  <2>7. m \in Messages /\ m.type = "requested" /\ m.prompt = p
    BY Sendable DEF Requested, Messages
  <2>8. Emit(<<m>>)
    BY <1>2
  <2> HIDE DEF m
  <2>9. ASSUME NEW over, ToSet(queue) \subseteq over, over \subseteq Asked
        PROVE  /\ Pending(queue', over \cup {p}) \in Heard /\ over \cup {p} \subseteq Asked'
               /\ Path(Hears, <<m>>, Pending(queue, over), Pending(queue', over \cup {p}))
    <3> DEFINE x == Pending(queue, over)
               y == Pending(queue', over \cup {p})
    <3>1. over \cup {p} \subseteq Asked' /\ p \notin over /\ over \subseteq Prompts
      BY <1>0, <2>1, <2>9 DEF Asked
    <3>2. x \in Heard
      BY <2>9, NowHeard
    <3>3. y \in Heard
      BY <2>3, <2>4, <2>9, <3>1 DEF Heard, Pending
    <3>4. x.queue = queue /\ x.over = over /\ y.queue = queue' /\ y.over = over \cup {p}
      BY DEF Pending
    <3> HIDE DEF x, y
    <3>5. <<x, m, y>> \in Hears
      BY <1>2, <2>7, <3>1, <3>2, <3>3, <3>4 DEF Hears
    <3>6. QED BY <3>1, <3>3, <3>5, HeardOne DEF x, y
  <2>10. <<m>> \in Seq(Messages)
    BY <2>7
  <2>11. PromptNews(<<m>>)
    BY <2>1, <2>8, <2>9, <2>10 DEF PromptNews
  <2>12. QED BY <2>6, <2>11
<1>3. CASE Settle(p, "cancelled") /\ Emit(<<Resolved(p)>>)
  BY <1>3, EndedPromptNews
<1>4. QED BY <1>1, <1>2, <1>3 DEF PromptRequested

\* The answers of the main process to the commands that do not concern the prompts.
LEMMA BesideServed ==
  ASSUME ViewedAssumption, TypeOK, NEW r \in asked,
         \/ ServeControl(r) \/ ServeCreate(r) \/ ServeView(r) \/ ServeClose(r) \/ ServeCloseView(r)
         \/ ServeInput(r) \/ ServeFails(r) \/ (ServeSnapshot(r) /\ r.kind # "prompts")
  PROVE  UNCHANGED <<prompts, queue>> /\ \E ms \in Seq(Beside) : Emit(ms)
<1>1. UNCHANGED <<prompts, queue>>
  BY DEF ServeControl, ServeCreate, ServeView, ServeClose, ServeCloseView, ServeInput, ServeFails,
         ServeSnapshot, mainVars
<1>t. /\ manager \in [Sessions -> Nat] /\ control \in [Sessions -> ControlStates] /\ Viewed \in Sessions
      /\ running \in BOOLEAN /\ Len(outputs) \in Nat /\ channel \in Seq(Messages) /\ r \in Requests
  BY LenProperties DEF TypeOK, ViewedAssumption
<1>b. \A m \in Beside : <<m>> \in Seq(Beside)
  OBVIOUS
<1>2. CASE ServeControl(r)
  <2> DEFINE c == ControlSet(r.session, r.state)
             e == Control(r.session, c)
  <2>1. r.session \in Sessions /\ c \in ControlStates
    BY <1>2, <1>t DEF ServeControl, Requests, Plain, ControlSet, ControlStates
  <2> HIDE DEF c
  <2>2. e \in Beside /\ Reply("change", e) \in Beside /\ Failure("change") \in Beside
    BY <2>1, BesideParts
  <2>3. \/ Emit((IF control[r.session] = c THEN <<>> ELSE <<e>>) \o <<Reply("change", e)>>)
        \/ Emit(<<Failure("change")>>)
    BY <1>2 DEF ServeControl, c
  <2> HIDE DEF e
  <2>4. (IF control[r.session] = c THEN <<>> ELSE <<e>>) \o <<Reply("change", e)>> \in Seq(Beside)
    BY <2>2
  <2>5. QED BY <1>1, <1>b, <2>2, <2>3, <2>4
<1>3. CASE ServeCreate(r)
  <2> DEFINE e == Updated(Viewed, 1, TRUE)
             a == Reply("create", TRUE)
  <2>1. Emit(<<e, a>>)
    BY <1>3 DEF ServeCreate
  <2>2. e \in Beside /\ a \in Beside
    BY <1>t, BesideParts
  <2> HIDE DEF e, a
  <2>3. <<e, a>> \in Seq(Beside)
    BY <2>2
  <2>4. QED BY <1>1, <2>1, <2>3
<1>4. CASE ServeView(r)
  <2> DEFINE m == IF manager[Viewed] > 0
                  THEN Reply(r.kind, [sequence |-> Len(outputs), running |-> running])
                  ELSE Failure(r.kind)
  <2>1. Emit(<<m>>) /\ r.kind \in {"attach", "view"}
    BY <1>4 DEF ServeView
  <2>2. m \in Beside
    BY <1>t, <2>1, BesideParts DEF Plain
  <2> HIDE DEF m
  <2>3. QED BY <1>1, <1>b, <2>1, <2>2
<1>5. CASE ServeClose(r)
  <2> DEFINE v == IF running THEN <<Updated(Viewed, manager[Viewed] + 1, FALSE)>> ELSE <<>>
             g == Gone(Viewed)
             a == <<Reply("close", TRUE)>>
  <2>1. Emit(v \o g \o a) \/ Emit(<<Reply("close", FALSE)>>) \/ Emit(<<Failure("close")>>)
    BY <1>5 DEF ServeClose
  <2>2. /\ manager[Viewed] + 1 \in Nat /\ manager[Viewed] \in Nat
    BY <1>t
  <2>3. /\ Updated(Viewed, manager[Viewed] + 1, FALSE) \in Beside
        /\ Control(Viewed, "detached") \in Beside /\ Removed(Viewed) \in Beside
        /\ Reply("close", TRUE) \in Beside /\ Reply("close", FALSE) \in Beside
        /\ Failure("close") \in Beside
    BY <1>t, <2>2, BesideParts DEF ControlStates, Plain
  <2>4. v \in Seq(Beside) /\ a \in Seq(Beside)
    BY <1>b, <2>3, EmptySeq
  <2>5. g \in Seq(Beside)
    BY <2>3 DEF Gone
  <2> HIDE DEF v, g, a
  <2>6. v \o g \o a \in Seq(Beside)
    BY <2>4, <2>5
  <2>7. QED BY <1>1, <1>b, <2>1, <2>3, <2>6
<1>6. CASE ServeCloseView(r)
  <2>1. Emit(<<Reply("closeView", TRUE)>>)
    BY <1>6 DEF ServeCloseView
  <2>2. Reply("closeView", TRUE) \in Beside
    BY BesideParts
  <2>3. QED BY <1>1, <1>b, <2>1, <2>2
<1>7. CASE ServeInput(r)
  <2>1. Emit(<<>>) /\ <<>> \in Seq(Beside)
    BY <1>7, <1>t, ConcatEmptySeq DEF ServeInput, Emit
  <2>2. QED BY <1>1, <2>1
<1>8. CASE ServeFails(r)
  <2>1. Emit(<<Failure(r.kind)>>) /\ r.kind # "input"
    BY <1>8 DEF ServeFails
  <2>2. r.kind \in Plain \cup {"change", "resolve"}
    BY <1>t, <2>1 DEF Requests, Plain
  <2>3. Failure(r.kind) \in Beside
    BY <2>2, BesideParts
  <2>4. QED BY <1>1, <1>b, <2>1, <2>3
<1>9. CASE ServeSnapshot(r) /\ r.kind # "prompts"
  <2>1. \/ r.kind = "sessions" /\ Emit(<<Reply("sessions", manager)>>)
        \/ r.kind = "controls" /\ Emit(<<Reply("controls", control)>>)
    BY <1>9 DEF ServeSnapshot
  <2>2. Reply("sessions", manager) \in Beside /\ Reply("controls", control) \in Beside
    BY <1>t, BesideParts
  <2>3. QED BY <1>1, <1>b, <2>1, <2>2
<1>10. QED BY <1>1, <1>2, <1>3, <1>4, <1>5, <1>6, <1>7, <1>8, <1>9

\* So are its own steps that do not.
LEMMA BesideMain ==
  ASSUME TypeOK,
         \/ OutputWritten
         \/ \E s \in Sessions : \/ SessionCreated(s) \/ SessionUpdated(s)
                                \/ SessionRemoved(s) \/ ControlChanged(s)
  PROVE  UNCHANGED <<prompts, queue>> /\ \E ms \in Seq(Beside) : Emit(ms)
<1>1. UNCHANGED <<prompts, queue>>
  BY DEF OutputWritten, SessionCreated, SessionUpdated, SessionRemoved, ControlChanged
<1>b. \A m \in Beside : <<m>> \in Seq(Beside)
  OBVIOUS
<1>2. CASE OutputWritten
  <2>1. PICK q \in Queries : Emit(<<Output(Len(outputs) + 1, q)>>)
    BY <1>2 DEF OutputWritten, Queries
  <2>2. Len(outputs) + 1 \in Nat
    BY LenProperties DEF TypeOK
  <2>3. Output(Len(outputs) + 1, q) \in Beside
    BY <2>2, BesideParts
  <2>4. QED BY <1>1, <1>b, <2>1, <2>3
<1>3. ASSUME NEW s \in Sessions, SessionCreated(s) PROVE \E ms \in Seq(Beside) : Emit(ms)
  <2>1. Emit(<<Updated(s, 1, TRUE)>>)
    BY <1>3 DEF SessionCreated
  <2>2. Updated(s, 1, TRUE) \in Beside
    BY BesideParts
  <2>3. QED BY <1>b, <2>1, <2>2
<1>4. ASSUME NEW s \in Sessions, SessionUpdated(s) PROVE \E ms \in Seq(Beside) : Emit(ms)
  <2>1. PICK r \in {running, FALSE} : Emit(<<Updated(s, manager[s] + 1, r)>>)
    BY <1>4 DEF SessionUpdated
  <2>2. r \in BOOLEAN /\ manager[s] \in Nat /\ manager[s] + 1 \in Nat
    <3>1. running \in BOOLEAN /\ manager \in [Sessions -> Nat]
      BY DEF TypeOK
    <3>2. manager[s] \in Nat
      BY <3>1
    <3>3. r \in BOOLEAN
      BY <3>1
    <3>4. QED BY <3>2, <3>3
  <2>3. Updated(s, manager[s] + 1, r) \in Beside
    BY <2>2, BesideParts
  <2>4. QED BY <1>b, <2>1, <2>3
<1>5. ASSUME NEW s \in Sessions, SessionRemoved(s) PROVE \E ms \in Seq(Beside) : Emit(ms)
  <2>1. Emit(Gone(s))
    BY <1>5 DEF SessionRemoved
  <2>2. Control(s, "detached") \in Beside /\ Removed(s) \in Beside
    BY BesideParts DEF ControlStates
  <2>3. Gone(s) \in Seq(Beside)
    BY <2>2 DEF Gone
  <2>4. QED BY <2>1, <2>3
<1>6. ASSUME NEW s \in Sessions, ControlChanged(s) PROVE \E ms \in Seq(Beside) : Emit(ms)
  <2>1. PICK c \in {"detached", "attached"} : Emit(<<Control(s, c)>>)
    BY <1>6 DEF ControlChanged
  <2>2. Control(s, c) \in Beside
    BY BesideParts DEF ControlStates
  <2>3. QED BY <1>b, <2>1, <2>2
<1>7. QED BY <1>1, <1>2, <1>3, <1>4, <1>5, <1>6

LEMMA PromptMain ==
  ASSUME ViewedAssumption, TypeOK, Broker, MainStep
  PROVE  (\E ms : PromptNews(ms)) /\ Broker' /\ UNCHANGED <<window, dialog>>
<1>0. UNCHANGED <<window, dialog>>
  <2>1. PICK ms : News(ms)
    BY MainNews
  <2>2. QED BY <2>1 DEF News, rendererVars
<1>1. CASE OutputWritten \/ \E s \in Sessions : \/ SessionCreated(s) \/ SessionUpdated(s)
                                                \/ SessionRemoved(s) \/ ControlChanged(s)
  <2>1. UNCHANGED <<prompts, queue>> /\ \E ms \in Seq(Beside) : Emit(ms)
    BY <1>1, BesideMain
  <2>2. QED BY <1>0, <2>1, BesideNews
<1>2. CASE \E p \in Prompts : PromptRequested(p) \/ PromptEnded(p)
  <2>1. PICK p \in Prompts : PromptRequested(p) \/ PromptEnded(p)
    BY <1>2
  <2>2. CASE PromptRequested(p)
    BY <1>0, <2>2, RequestedPromptNews
  <2>3. CASE PromptEnded(p)
    <3>1. PICK o \in {"timeout", "cancelled"} : Settle(p, o)
      BY <2>3 DEF PromptEnded
    <3>2. Emit(<<Resolved(p)>>)
      BY <2>3 DEF PromptEnded
    <3>3. QED BY <1>0, <3>1, <3>2, EndedPromptNews
  <2>4. QED BY <2>1, <2>2, <2>3
<1>3. CASE Serve
  <2>1. PICK r \in asked :
          \/ ServeSnapshot(r) \/ ServeControl(r) \/ ServeResolve(r) \/ ServeCreate(r)
          \/ ServeView(r) \/ ServeClose(r) \/ ServeCloseView(r) \/ ServeInput(r) \/ ServeFails(r)
    BY <1>3 DEF Serve
  <2>2. CASE ServeResolve(r)
    <3> DEFINE p == r.prompt
               a == Reply("resolve", p)
    <3>1. p \in Prompts
      BY <2>2 DEF ServeResolve, TypeOK, Requests, Plain
    <3>2. CASE prompts[p] = "pending"
      <4>1. Settle(p, "answered") /\ Emit(<<Resolved(p), Reply("resolve", p)>>)
        BY <2>2, <3>2 DEF ServeResolve
      <4>2. QED BY <1>0, <3>1, <4>1, AnsweredPromptNews
    <3>3. CASE prompts[p] # "pending"
      <4>1. Emit(<<a>>) /\ UNCHANGED <<prompts, queue>>
        BY <2>2, <3>3 DEF ServeResolve
      <4>2. a \in Messages /\ a.type = "reply" /\ a.to = "resolve" /\ a.value = p
        BY <3>1, Sendable DEF Messages, Reply
      <4>3. p \notin ToSet(queue)
        BY <3>3 DEF Broker
      <4> HIDE DEF a, p
      <4>4. QED BY <1>0, <4>1, <4>2, <4>3, RepliedPromptNews
    <3>4. QED BY <3>2, <3>3
  <2>3. CASE ServeSnapshot(r) /\ r.kind = "prompts"
    <3> DEFINE a == Reply("prompts", queue)
    <3>1. Emit(<<a>>) /\ UNCHANGED <<prompts, queue>>
      BY <2>3 DEF ServeSnapshot, mainVars
    <3>2. a \in Messages /\ a.type = "reply" /\ a.to = "prompts" /\ a.value = queue
      BY Sendable DEF Messages, Reply, TypeOK
    <3> HIDE DEF a
    <3>3. QED BY <1>0, <3>1, <3>2, RepliedPromptNews
  <2>4. CASE ~ServeResolve(r) /\ ~(ServeSnapshot(r) /\ r.kind = "prompts")
    <3>1. UNCHANGED <<prompts, queue>> /\ \E ms \in Seq(Beside) : Emit(ms)
      BY <2>1, <2>4, BesideServed
    <3>2. QED BY <1>0, <3>1, BesideNews
  <2>5. QED BY <2>2, <2>3, <2>4
<1>4. QED BY <1>1, <1>2, <1>3 DEF MainStep

-----------------------------------------------------------------------------
(* The dialog follows the prompts. *)

\* What is on its way leads from what the dialog has heard to the prompts of the moment.
DialogInv ==
    /\ Broker
    /\ \E h \in Heard : \E over \in SUBSET Asked :
          /\ Pending(queue, over) \in Heard
          /\ Path(Hears, channel, h, Pending(queue, over)) /\ Mirrored(dialog, h, Asked)

LEMMA DialogFresh ==
  ASSUME TypeOK, Broker, channel = <<>>, dialog = EmptyDialog PROVE DialogInv
<1>1. Pending(queue, Asked) \in Heard
  BY NowHeard DEF Broker, Asked
<1>2. Path(Hears, channel, Pending(queue, Asked), Pending(queue, Asked))
  BY PathEmpty
<1>3. dialog.buffer = <<>> /\ dialog.booting /\ ~dialog.complete
  BY DEF EmptyDialog
<1>4. Mirrored(dialog, Pending(queue, Asked), Asked)
  BY <1>3, MirroredShown
<1>5. QED BY <1>1, <1>2, <1>4 DEF DialogInv

\* The prompts that were ever asked for are among those of the dialog's past.
LEMMA HeardOver ==
  ASSUME NEW h \in Heard, NEW k \in Heard, NEW seq \in Seq(Messages), Path(Hears, seq, h, k)
  PROVE  h.over \subseteq k.over
<1> DEFINE N == Len(seq)
<1>1. N \in Nat
  BY LenProperties
<1>2. PICK v : /\ v[0] = h /\ v[N] = k
               /\ \A i \in 1..N : <<v[i - 1], seq[i], v[i]>> \in Hears
  BY DEF Path
<1>3. Later(v[0], v[N])
  BY <1>1, <1>2, LaterAlong
<1>4. QED BY <1>2, <1>3 DEF Later

LEMMA DialogMain ==
  ASSUME ViewedAssumption, MaxPendingAssumption, TypeOK, Unheard, DialogInv, MainStep, TypeOK'
  PROVE  DialogInv'
<1>1. Broker /\ Broker' /\ UNCHANGED <<window, dialog>>
  BY PromptMain DEF DialogInv
<1>2. PICK ms : PromptNews(ms)
  BY PromptMain DEF DialogInv
<1>3. CASE window = "mounted"
  <2>1. channel' = channel \o ms /\ ms \in Seq(Messages) /\ Asked \subseteq Asked'
    BY <1>2, <1>3 DEF PromptNews, Emit
  <2>2. PICK h \in Heard, over \in SUBSET Asked :
          /\ Pending(queue, over) \in Heard
          /\ Path(Hears, channel, h, Pending(queue, over)) /\ Mirrored(dialog, h, Asked)
    BY DEF DialogInv
  <2>3. ToSet(queue) \subseteq over
    BY <2>2 DEF Heard, Pending
  <2>4. PICK more : /\ Pending(queue', more) \in Heard /\ more \subseteq Asked'
                    /\ Path(Hears, ms, Pending(queue, over), Pending(queue', more))
    BY <1>2, <2>3 DEF PromptNews
  <2>5. Path(Hears, channel', h, Pending(queue', more))
    BY <2>1, <2>2, <2>4, PathConcat DEF TypeOK
  <2>6. Mirrored(dialog', h, Asked')
    BY <1>1, <2>1, <2>2, MirroredWider
  <2>7. QED BY <1>1, <2>4, <2>5, <2>6 DEF DialogInv
<1>4. CASE window # "mounted"
  <2>1. channel' = <<>> /\ dialog' = EmptyDialog
    BY <1>1, <1>2, <1>4 DEF PromptNews, Emit, Unheard
  <2>2. (TypeOK /\ Broker /\ channel = <<>> /\ dialog = EmptyDialog)'
    BY <1>1, <2>1
  <2>3. QED BY <2>2, DialogFresh, PTL
<1>5. QED BY <1>3, <1>4

LEMMA DialogDeliver ==
  ASSUME MaxPendingAssumption, TypeOK, DialogInv, Deliver PROVE DialogInv'
<1> DEFINE m == Head(channel)
<1>1. /\ channel # <<>> /\ channel' = Tail(channel) /\ dialog' \in DialogReceives(dialog, m)
      /\ UNCHANGED <<prompts, queue>>
  BY DEF Deliver, mainVars
<1>2. channel \in Seq(Messages) /\ dialog \in DialogStates
  BY TypedParts
<1>3. PICK h \in Heard, over \in SUBSET Asked :
        /\ Pending(queue, over) \in Heard
        /\ Path(Hears, channel, h, Pending(queue, over)) /\ Mirrored(dialog, h, Asked)
  BY DEF DialogInv
<1>4. PICK k : <<h, m, k>> \in Hears /\ Path(Hears, channel', k, Pending(queue, over))
  BY <1>1, <1>2, <1>3, PathHead
<1>5. k \in Heard
  BY <1>4, HearsParts
<1>6. h.over \subseteq Asked
  <2>1. h.over \subseteq Pending(queue, over).over
    BY <1>2, <1>3, HeardOver
  <2>2. QED BY <2>1 DEF Pending
<1> HIDE DEF m
<1>7. Mirrored(dialog', k, Asked)
  BY <1>1, <1>2, <1>3, <1>4, <1>6, MirroredDelivered
<1>8. Asked' = Asked /\ queue' = queue
  BY <1>1 DEF Asked
<1>9. Broker'
  BY <1>8, <1>1 DEF DialogInv, Broker
<1>10. QED BY <1>3, <1>4, <1>5, <1>7, <1>8, <1>9 DEF DialogInv

LEMMA DialogStays ==
  ASSUME DialogInv, UNCHANGED <<prompts, queue, channel, dialog>> PROVE DialogInv'
<1>1. Asked' = Asked
  BY DEF Asked
<1>2. QED BY <1>1 DEF DialogInv, Broker

LEMMA DialogLost ==
  ASSUME TypeOK, DialogInv, RendererLost, TypeOK' PROVE DialogInv'
<1>1. channel' = <<>> /\ dialog' = EmptyDialog
  BY DEF RendererLost
<1>2. Broker'
  <2>1. CASE window = "mounted"
    <3>1. /\ prompts' = [p \in Prompts |-> IF prompts[p] = "pending" THEN "cancelled" ELSE prompts[p]]
          /\ queue' = <<>>
      BY <2>1 DEF RendererLost
    <3>2. Asked' = Asked
      BY <3>1 DEF TypeOK, Asked
    <3>3. {p \in Prompts : prompts'[p] = "pending"} = {}
      BY <3>1
    <3>4. <<>> \in Seq(Prompts) /\ Len(<<>>) = 0 /\ 1..0 = {}
      OBVIOUS
    <3>5. ToSet(<<>>) = {} /\ IsInjective(<<>>)
      BY <3>4, Places
    <3>6. Len(<<>>) <= MaxPending
      BY <3>4, MaxPendingAssumption DEF MaxPendingAssumption
    <3>7. QED BY <3>1, <3>2, <3>3, <3>5, <3>6 DEF DialogInv, Broker
  <2>2. CASE window # "mounted"
    <3>1. UNCHANGED <<prompts, queue>>
      BY <2>2 DEF RendererLost
    <3>2. Asked' = Asked
      BY <3>1 DEF Asked
    <3>3. QED BY <3>1, <3>2 DEF DialogInv, Broker
  <2>3. QED BY <2>1, <2>2
<1>3. (TypeOK /\ Broker /\ channel = <<>> /\ dialog = EmptyDialog)'
  BY <1>1, <1>2
<1>4. QED BY <1>3, DialogFresh, PTL

LEMMA DialogInit ==
  ASSUME Init, TypeOK PROVE DialogInv
<1>1. Asked = {} /\ queue = <<>> /\ {p \in Prompts : prompts[p] = "pending"} = {}
  BY DEF Init, Asked
<1>2. <<>> \in Seq(Prompts) /\ Len(<<>>) = 0 /\ 1..0 = {}
  OBVIOUS
<1>3. ToSet(<<>>) = {} /\ IsInjective(<<>>)
  BY <1>2, Places
<1>4. Len(<<>>) <= MaxPending
  BY <1>2, MaxPendingAssumption DEF MaxPendingAssumption
<1>5. IsFiniteSet(Asked)
  BY <1>1, FS_EmptySet
<1>6. Broker
  BY <1>1, <1>3, <1>4, <1>5 DEF Broker
<1>7. QED BY <1>6, DialogFresh DEF Init

LEMMA DialogStep ==
  ASSUME ViewedAssumption, MaxPendingAssumption, CommonInv, DialogInv, [Next]_vars PROVE DialogInv'
<1>0. TypeOK /\ Unheard /\ TypeOK'
  BY CommonStep DEF CommonInv
<1>1. CASE MainStep
  BY <1>0, <1>1, DialogMain
<1>2. CASE Deliver
  BY <1>0, <1>2, DialogDeliver
<1>3. CASE RendererLost
  BY <1>0, <1>3, DialogLost
<1>4. CASE \/ WindowCreated \/ Mounted \/ TabStarted \/ ScreenWritten \/ ChunkParsed \/ TabClosed
           \/ \E s \in Sessions : ControlAsked(s)
           \/ \E p \in Prompts : PromptDecided(p)
  <2>1. UNCHANGED <<prompts, queue, channel, dialog>>
    BY <1>4 DEF WindowCreated, Mounted, TabStarted, ScreenWritten, ChunkParsed, TabClosed,
                ControlAsked, PromptDecided, mainVars, rendererVars
  <2>2. QED BY <2>1, DialogStays
<1>5. CASE UNCHANGED vars
  <2>1. UNCHANGED <<prompts, queue, channel, dialog>>
    BY <1>5 DEF vars, mainVars, rendererVars
  <2>2. QED BY <2>1, DialogStays
<1>6. QED BY <1>1, <1>2, <1>3, <1>4, <1>5, Steps DEF RendererStep

\* The dialog of a page shows prompts that the broker waits for, each once and in their order,
\* and none that has ended, however its snapshot, the events that it held back and the answers
\* of the human crossed; of more prompts than it has room for it may lack the oldest
\* (use-agent-permissions.ts).
THEOREM DialogSafe == Spec => []DialogConverges
<1> DEFINE Inv == CommonInv /\ DialogInv
<1>1. Init => Inv
  BY CommonInit, DialogInit, BoundsAssumption DEF CommonInv
<1>2. Inv /\ [Next]_vars => Inv'
  BY CommonStep, DialogStep, ViewedAssumption, MaxPendingAssumption
<1>3. Inv => DialogConverges
  <2> SUFFICES ASSUME Inv, Quiet, dialog.complete
               PROVE  /\ \E lost \in 0..Len(queue) : dialog.shown = SubSeq(queue, lost + 1, Len(queue))
                      /\ dialog.shown # queue => Cardinality(Asked) > MaxPending
    BY DEF DialogConverges, Asked
  <2>1. PICK h \in Heard, over \in SUBSET Asked :
          /\ Pending(queue, over) \in Heard
          /\ Path(Hears, channel, h, Pending(queue, over)) /\ Mirrored(dialog, h, Asked)
    BY DEF DialogInv
  <2>2. h = Pending(queue, over)
    <3>1. Len(channel) = 0
      BY DEF Quiet
    <3>2. QED BY <2>1, <3>1 DEF Path
  <2>3. h.queue = queue
    BY <2>2 DEF Pending
  <2>4. /\ Latest(dialog.shown, queue)
        /\ IsFiniteSet(Asked) /\ Cardinality(Asked) <= MaxPending => dialog.shown = queue
    BY <2>1, <2>3 DEF Mirrored
  <2>5. queue \in Seq(Prompts) /\ dialog.shown \in Seq(Prompts) /\ IsInjective(queue)
        /\ IsFiniteSet(Asked)
    BY DEF CommonInv, TypeOK, DialogInv, Broker
  <2>6. \E lost \in 0..Len(queue) : dialog.shown = SubSeq(queue, lost + 1, Len(queue))
    BY <2>4, <2>5, LatestIsRest
  <2>7. dialog.shown # queue => Cardinality(Asked) > MaxPending
    BY <2>4, <2>5, FS_CardinalityType, MaxPendingAssumption DEF MaxPendingAssumption
  <2>8. QED BY <2>6, <2>7
<1>4. QED BY <1>1, <1>2, <1>3, PTL DEF Spec

=============================================================================
