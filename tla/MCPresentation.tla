--------------------------- MODULE MCPresentation ---------------------------
EXTENDS Presentation

CONSTANTS s1, s2

\* One request for a session whose views the human opens or closes twice, or that is
\* closed; three for one that is left alone; or one for each of two.  Views report their
\* focus in all of them.
MCBounds ==
    {[requests |-> (s1 :> 1 @@ s2 :> 0), others |-> (s1 :> 2 @@ s2 :> 0)],
     [requests |-> (s1 :> 3 @@ s2 :> 0), others |-> (s1 :> 0 @@ s2 :> 0)],
     [requests |-> (s1 :> 1 @@ s2 :> 1), others |-> (s1 :> 0 @@ s2 :> 0)]}

\* Three requests for a session.
MCLateBounds == {[requests |-> (s1 :> 3 @@ s2 :> 0), others |-> (s1 :> 0 @@ s2 :> 0)]}
=============================================================================
