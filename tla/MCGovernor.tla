----------------------------- MODULE MCGovernor -----------------------------
(***************************************************************************)
(* A run with two or three request loops, a run with one, the main agent.  *)
(***************************************************************************)
EXTENDS Governor, TLC

CONSTANTS big, small, b1, b2, b3, sm, main

Loops == (b1 :> big) @@ (b2 :> big) @@ (sm :> small)
ThreeLoops == Loops @@ (b3 :> big)
LoopsAndMain == Loops @@ (main :> Observer)
=============================================================================
