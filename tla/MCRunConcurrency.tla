-------------------------- MODULE MCRunConcurrency --------------------------
(***************************************************************************)
(* Three sub-agents that are asked again and again under a limit that      *)
(* moves between one and three.                                            *)
(***************************************************************************)
EXTENDS RunConcurrency

CONSTANTS k1, k2, k3

MCKey == {k1, k2, k3}
MCAsk == {k1, k2, k3}
MCKeyOf == [a \in MCAsk |-> a]
=============================================================================
