---------------------------- MODULE MCRenderer ----------------------------
(* A renderer: what it shows of sessions, prompts and one terminal, or its tabs. *)
(* A behaviour exercises one of the two; each kind of traffic has its bound.     *)
EXTENDS Renderer

CONSTANTS Ids, None

VARIABLES subject,
          tabs, activeTab, status, attached, unread, view, session, disposals, hidden,
          refused, pressed, appWindow

tabsVars == <<tabs, activeTab, status, attached, unread, view, session, disposals, hidden,
              refused, pressed, appWindow>>

Tabs == INSTANCE TerminalTabs WITH window <- appWindow, NoTab <- None

MCKind(u, c, p, d, o, v, l) ==
    [updates |-> u, controls |-> c, prompts |-> p, decisions |-> d, outputs |-> o, views |-> v, losses |-> l]

MCBounds == {MCKind(2, 2, 0, 0, 0, 0, 1), MCKind(0, 0, 3, 1, 0, 0, 0), MCKind(0, 0, 2, 1, 0, 0, 1),
              MCKind(2, 0, 0, 0, 2, 1, 0), MCKind(1, 0, 0, 0, 1, 2, 1)}

\* Three prompts and nothing else.
MCPromptBounds == {MCKind(0, 0, 3, 0, 0, 0, 0)}

MCInit ==
    /\ Init /\ Tabs!Init
    /\ subject \in {"lists", "tabs"}
    /\ subject = "lists" => activeTab = CHOOSE t \in Ids : TRUE
    /\ subject = "tabs" => budget = MCKind(0, 0, 3, 1, 0, 0, 0)

MCNext ==
    \/ subject = "lists" /\ Next /\ UNCHANGED <<subject, tabsVars>>
    \/ subject = "tabs" /\ Tabs!Next /\ UNCHANGED <<subject, vars>>

MCSpec == MCInit /\ [][MCNext]_<<subject, vars, tabsVars>>

\* What an open tab says of its session is so, whichever came first of its view, the exit
\* and the output that trails it (terminal-status.ts, terminal-tabs.ts).
StatusIsActual == Tabs!StatusIsActual

\* A session whose tab was closed while its terminal was starting does not go on unseen
\* (terminal-tab-view.tsx, start).
NoneAbandoned == Tabs!NoneAbandoned
=============================================================================
