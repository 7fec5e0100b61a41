------------------------------ MODULE Filters ------------------------------
(***************************************************************************)
(* Array.filter by membership, as a recursive function: a definition the   *)
(* proofs can reason about (SelectSeq is none).                            *)
(***************************************************************************)
EXTENDS Integers, Sequences

KeepOf(s, S) ==
    LET upTo[n \in 0..Len(s)] ==
            IF n = 0 THEN <<>>
            ELSE IF s[n] \in S THEN Append(upTo[n - 1], s[n]) ELSE upTo[n - 1]
    IN  upTo[Len(s)]

(***************************************************************************)
(* The elements of s that are in S, in their order.  It is KeepOf(s, S);   *)
(* as the member of a set TLC evaluates s once, not at every s[n].         *)
(***************************************************************************)
Keep(s, S) == CHOOSE kept \in {KeepOf(t, S) : t \in {s}} : TRUE
=============================================================================
