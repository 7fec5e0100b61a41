----------------------------- MODULE RunContract -----------------------------
(***************************************************************************)
(* What a workflow run promises, without crashes, queues or replays: each  *)
(* ask gets at most one answer and keeps it, answers only come while the   *)
(* run is running, one at a time, and only a "stopped" run runs again.     *)
(***************************************************************************)
VARIABLES
    verdict,    \* the run's status
    answers     \* instance -> its final status, for the answered ones

Outcome == {"completed", "failed"}

Init == verdict = "running" /\ answers = [i \in {} |-> "completed"]

Answer ==
    /\ verdict = "running" /\ UNCHANGED verdict
    /\ \E i \in DOMAIN answers' :
          /\ i \notin DOMAIN answers
          /\ answers'[i] \in Outcome
          /\ answers' = [j \in DOMAIN answers \cup {i} |->
                            IF j = i THEN answers'[i] ELSE answers[j]]

Settle ==
    /\ verdict = "running"
    /\ verdict' \in {"completed", "stopped", "errored"}
    /\ UNCHANGED answers

Reopen == verdict = "stopped" /\ verdict' = "running" /\ UNCHANGED answers

Next == Answer \/ Settle \/ Reopen
Spec == Init /\ [][Next]_<<verdict, answers>>
=============================================================================
