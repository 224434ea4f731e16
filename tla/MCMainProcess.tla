--------------------------- MODULE MCMainProcess ---------------------------
EXTENDS MainProcess

MCKind(a, g, s, m, f, r) == [agents |-> a, regenerations |-> g, saves |-> s, moves |-> m,
                             failures |-> f, restarts |-> r]

\* Agents and a regenerated key; regenerations, failures and crashes; writes of the
\* configuration and of the geometry.
MCBounds == {MCKind(1, 1, 0, 0, 0, 0), MCKind(0, 2, 0, 0, 1, 1), MCKind(0, 0, 3, 0, 1, 1),
             MCKind(0, 0, 1, 2, 1, 0)}
=============================================================================
