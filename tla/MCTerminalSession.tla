------------------------- MODULE MCTerminalSession --------------------------
(* One session on a small instance.  Calls and observers are interchangeable. *)
EXTENDS TerminalSession, TLC

Symmetry == Permutations(Calls) \cup Permutations(Observers)
=============================================================================
