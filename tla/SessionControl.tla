--------------------------- MODULE SessionControl ---------------------------
(***************************************************************************)
(* What the agent gateway promises about agent control of terminal         *)
(* sessions: at any time a session is detached, controlled by exactly one  *)
(* agent connection, or withheld from agents by the human.  Control goes   *)
(* from one connection to another only through "detached", and leaves      *)
(* "revoked" only when the human allows agents again or the session ends.  *)
(***************************************************************************)
CONSTANTS Connections,  \* agent connections
          Sessions      \* terminal sessions

VARIABLE control        \* control[s]: "detached", "revoked" or a connection
                        \* (no connection is one of the two strings)

Init == control = [s \in Sessions |-> "detached"]

\* Connection c becomes the controller of s.
Grant(s, c) ==
    /\ control[s] = "detached"
    /\ control' = [control EXCEPT ![s] = c]

\* The sessions in lost, all controlled by agents, become detached.
Release(lost) ==
    /\ \A s \in lost : control[s] \in Connections
    /\ control' = [s \in Sessions |-> IF s \in lost THEN "detached" ELSE control[s]]

\* The human withholds s from every agent.
Revoke(s) == control' = [control EXCEPT ![s] = "revoked"]

\* The human allows agents again, or s is removed from the session manager.
Unblock(s) == control' = [control EXCEPT ![s] = "detached"]

Next ==
    \/ \E s \in Sessions, c \in Connections : Grant(s, c)
    \/ \E lost \in SUBSET Sessions : Release(lost)
    \/ \E s \in Sessions : Revoke(s) \/ Unblock(s)

Spec == Init /\ [][Next]_control
=============================================================================
