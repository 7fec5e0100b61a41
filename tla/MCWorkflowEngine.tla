-------------------------- MODULE MCWorkflowEngine --------------------------
(***************************************************************************)
(* Small scripts for the engine: branches of two asks on two actors.       *)
(***************************************************************************)
EXTENDS WorkflowEngine

CONSTANTS x, y, p, q, r, s1, s2, s3, sj, sk

At(site, actor, text) == [site |-> site, actor |-> actor, text |-> text]

(* The theorems about positions rest on it. *)
ASSUME OneActorPerText

ActorsXY == {x, y}
OrderXY == <<x, y>>

(***************************************************************************)
(* Two branches on two actors.  Each begins at a site of its own and goes  *)
(* on at a shared site, as in a Promise.all over a helper function: the    *)
(* ordinals of sj depend on the order in which the branches were answered. *)
(***************************************************************************)
BranchPQ == {p, q}
OrderPQ == <<p, q>>
SitesPQ == {s1, s2, sj}
ScriptPQ == (p :> <<At(s1, x, "p1"), At(sj, x, "p2")>>)
         @@ (q :> <<At(s2, y, "q1"), At(sj, y, "q2")>>)

(***************************************************************************)
(* Two branches that meet on the actor x, and a third that nobody awaits.  *)
(* A resumed q may reach x while p, answered further in the life before,   *)
(* still waits for its answers: the fresh ask then has to be held back.    *)
(***************************************************************************)
BranchPQR == {p, q, r}
OrderPQR == <<q, p, r>>
SitesPQR == {s1, s2, s3, sj, sk}
ScriptShared == (p :> <<At(s1, x, "p1"), At(sj, x, "p2")>>)
             @@ (q :> <<At(s2, y, "q1"), At(sk, x, "q2")>>)
             @@ (r :> <<At(s3, y, "r1")>>)
=============================================================================
