---------------------------- MODULE MCController ----------------------------
(***************************************************************************)
(* The controller with three requests and every order of signals.  The     *)
(* signals do not tell requests apart.                                     *)
(***************************************************************************)
EXTENDS ControllerSignals, TLC

Symmetry == Permutations(Request)
=============================================================================
