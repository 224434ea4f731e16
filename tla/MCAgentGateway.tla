--------------------------- MODULE MCAgentGateway ---------------------------
(* The gateway on a small instance.  The slots are interchangeable. *)
EXTENDS AgentGateway, FiniteSets, TLC

Symmetry ==
    Permutations(Connections) \cup Permutations(Sessions) \cup Permutations(Requests)

\* Bounds: at most one of the sessions is a temporary operation's, and once the key has
\* been replaced, there is none and one command is in flight at a time.
MCNext ==
    /\ Next
    /\ Cardinality(operations' \cup operationSessions') <= 1
    /\ accessKey' > 1 =>
           /\ operations' \cup operationSessions' = {}
           /\ Cardinality({r \in Requests : InFlight(r)'}) <= 1

MCSpec == Init /\ [][MCNext]_vars
=============================================================================
