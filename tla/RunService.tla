------------------------------ MODULE RunService ------------------------------
(***************************************************************************)
(* The run service of a session: the registry of the workflow runs its App *)
(* has started, and submit, amend, resume, cancel and close over it.       *)
(*                                                                         *)
(* A service lives as long as its App.  The dwf_run rows outlive it; the   *)
(* next service of the session starts from the rows alone.  submit runs to *)
(* its end in one step.  amend waits three times before it launches        *)
(* (predecessor's settlement, its sub-agents' quiescence, the import of    *)
(* its answers), resume of an amended run once (the import).  Whatever     *)
(* they looked at before may have changed by then, the service included.   *)
(*                                                                         *)
(* An engine here is only when it settles and what it writes into its row; *)
(* WorkflowEngine is the inside of one.                                    *)
(***************************************************************************)
EXTENDS Integers, Sequences, FiniteSets

CONSTANTS
    Call,           \* amend and resume calls that may be pending at a time
    MaxRuns,        \* bound: run ids minted
    MaxEngines,     \* bound: engines launched
    MaxServices,    \* bound: services constructed for the session
    TerminalLimit,  \* TERMINAL_REGISTRY_LIMIT: settled runs kept in memory
    None

ASSUME NoneAssumption == None \notin Nat
ASSUME CallAssumption == IsFiniteSet(Call)
ASSUME LimitAssumption == TerminalLimit \in Nat
ASSUME BoundAssumption ==
    MaxRuns \in Nat \ {0} /\ MaxEngines \in Nat \ {0} /\ MaxServices \in Nat \ {0}

VARIABLES
    rows,       \* dwf_run, in the order the ids were minted: [status, reason, from]
    engines,    \* every engine of this process: [run, home, phase, verdict]
    service,    \* number of the session's current service
    state,      \* "open", "closing", "closed", "down" (its process died)
    awaited,    \* the settlements close() waits for
    registry,   \* runs of the current service: run -> engine of its entry
    kept,       \* terminalOrder: settled runs, oldest first
    calls       \* pending amend and resume calls

vars == <<rows, engines, service, state, awaited, registry, kept, calls>>

Run == DOMAIN rows
Engine == DOMAIN engines
Terminal == {"completed", "stopped", "errored"}
Row(status, reason, from) == [status |-> status, reason |-> reason, from |-> from]

(***************************************************************************)
(* An engine is live until it has settled and written its row, "settled"   *)
(* until its promise has reached trackSettlement, then "known": only then  *)
(* does its entry have a terminal.                                         *)
(***************************************************************************)
Live(e) == engines[e].phase = "live"
Unknown(e) == engines[e].phase \in {"live", "settled"}
EntryInFlight(r) == registry[r] # None /\ Unknown(registry[r])

Pending == {c \in Call : calls[c] # None}
Room == Len(engines) + Cardinality(Pending) < MaxEngines
Mintable == Len(rows) + Cardinality({c \in Pending : calls[c].op = "amend"}) < MaxRuns

(* isResumableSettlement; without the reason, a fault for the mutant runs. *)
AnyStopped(row) == row.status = "stopped"
Resumable(row) == row.status = "stopped" /\ row.reason # "superseded"

-----------------------------------------------------------------------------
(***************************************************************************)
(* abort: the engine settles in the same step and writes its row.  One     *)
(* that is settled already takes no notice.  S holds the engines aborted.  *)
(***************************************************************************)
Abort(S, reason) ==
    LET hit == {e \in S : Live(e)}
    IN  /\ engines' = [e \in Engine |-> IF e \in hit
                         THEN [engines[e] EXCEPT !.phase = "settled", !.verdict = "stopped"]
                         ELSE engines[e]]
        /\ rows' = [r \in Run |-> IF \E e \in hit : engines[e].run = r
                      THEN Row("stopped", reason, rows[r].from) ELSE rows[r]]

(* A fault for the mutant runs: the predecessor is waited for and not stopped. *)
StopNobody(S) == UNCHANGED <<engines, rows>>
Supersede(S) == Abort(S, "superseded")

(***************************************************************************)
(* runs.set and launch: a new entry, and in the same step the engine, its  *)
(* row running.  An engine whose construction throws leaves the row as it  *)
(* is; its entry becomes errored when the rejection arrives.  The registry *)
(* is that of the service that was called.                                 *)
(***************************************************************************)
Launch(r, from, home, comesUp) ==
    LET e == Len(engines) + 1
        start == IF comesUp THEN [run |-> r, home |-> home, phase |-> "live", verdict |-> "none"]
                            ELSE [run |-> r, home |-> home, phase |-> "settled", verdict |-> "errored"]
        row == IF comesUp THEN Row("running", "none", from)
               ELSE IF r \in Run THEN rows[r] ELSE Row("none", "none", from)
        known == IF r \in Run THEN rows ELSE Append(rows, row)
    IN  /\ engines' = Append(engines, start)
        /\ rows' = [known EXCEPT ![r] = row]
        /\ registry' = IF home = service THEN [registry EXCEPT ![r] = e] ELSE registry

-----------------------------------------------------------------------------
Init ==
    /\ rows = <<>> /\ engines = <<>> /\ service = 1 /\ state = "open"
    /\ awaited = {} /\ registry = [r \in 1..MaxRuns |-> None] /\ kept = <<>>
    /\ calls = [c \in Call |-> None]

Waiting(op, r, e, at) == [op |-> op, run |-> r, engine |-> e, at |-> at, home |-> service]
Begin(c, call) == calls' = [calls EXCEPT ![c] = call]
Proceed(c, at) == calls' = [calls EXCEPT ![c].at = at]
Return(c) == calls' = [calls EXCEPT ![c] = None]
At(c, op, at) == calls[c] # None /\ calls[c].op = op /\ calls[c].at = at

(* submit: no await between assertOpen and the launch. *)
Submit(comesUp) ==
    /\ state = "open" /\ Room /\ Mintable
    /\ Launch(Len(rows) + 1, None, service, comesUp)
    /\ UNCHANGED <<service, state, awaited, kept, calls>>

(***************************************************************************)
(* amend, up to its first await.  A predecessor in flight is stopped as    *)
(* superseded and its settlement awaited; any other goes straight on.      *)
(***************************************************************************)
Amend(c, p) ==
    /\ state = "open" /\ calls[c] = None /\ Room /\ Mintable
    /\ rows[p].status # "none"
    /\ IF EntryInFlight(p)
         THEN /\ Supersede({registry[p]})
              /\ Begin(c, Waiting("amend", p, registry[p], "settling"))
         ELSE /\ Begin(c, Waiting("amend", p, None, "quieting"))
              /\ UNCHANGED <<engines, rows>>
    /\ UNCHANGED <<service, state, awaited, registry, kept>>

AmendSettled(c) ==
    /\ At(c, "amend", "settling") /\ engines[calls[c].engine].phase = "known"
    /\ Proceed(c, "quieting")
    /\ UNCHANGED <<rows, engines, service, state, awaited, registry, kept>>

(* buildImportedCache: refuses a predecessor that is not terminal. *)
AmendImports(c) ==
    /\ At(c, "amend", "quieting")
    /\ IF rows[calls[c].run].status \in Terminal THEN Proceed(c, "importing") ELSE Return(c)
    /\ UNCHANGED <<rows, engines, service, state, awaited, registry, kept>>

(* startNewRun, under the id that was minted first; nothing is checked again. *)
AmendLaunches(c, comesUp) ==
    /\ At(c, "amend", "importing")
    /\ Launch(Len(rows) + 1, calls[c].run, calls[c].home, comesUp)
    /\ Return(c)
    /\ UNCHANGED <<service, state, awaited, kept>>

(***************************************************************************)
(* resume.  Its refusals change nothing.  The import of an amended run is  *)
(* rebuilt from the predecessor's rows, which is awaited; any other run is *)
(* launched in the step that checked it.                                   *)
(***************************************************************************)
MayResumeAnyway(r) == state = "open" /\ Resumable(rows[r])
MayResume(r) == state = "open" /\ ~EntryInFlight(r) /\ Resumable(rows[r])

ResumeNow(r, comesUp) ==
    /\ MayResume(r) /\ Room /\ rows[r].from = None
    /\ Launch(r, None, service, comesUp)
    /\ UNCHANGED <<service, state, awaited, kept, calls>>

ResumeRebuilds(c, r) ==
    /\ calls[c] = None /\ MayResume(r) /\ Room /\ rows[r].from # None
    /\ Begin(c, Waiting("resume", r, None, "rebuilding"))
    /\ UNCHANGED <<rows, engines, service, state, awaited, registry, kept>>

ResumeLaunches(c, comesUp) ==
    /\ At(c, "resume", "rebuilding")
    /\ Launch(calls[c].run, rows[calls[c].run].from, calls[c].home, comesUp)
    /\ Return(c)
    /\ UNCHANGED <<service, state, awaited, kept>>

(* cancel: by the user or the model. *)
Cancel(r) ==
    /\ EntryInFlight(r) /\ Live(registry[r])
    /\ Abort({registry[r]}, "user")
    /\ UNCHANGED <<service, state, awaited, registry, kept, calls>>

(***************************************************************************)
(* The engine settles by itself: its script ends, or it is stopped because *)
(* of its provider or its sandbox.  A script that throws (errored) differs *)
(* from one that returns in nothing the service looks at.                  *)
(***************************************************************************)
EngineSettles(e, verdict) ==
    /\ Live(e)
    /\ engines' = [engines EXCEPT ![e].phase = "settled", ![e].verdict = verdict]
    /\ rows' = [rows EXCEPT ![engines[e].run] =
                  Row(verdict, IF verdict = "stopped" THEN "interrupted" ELSE "none", @.from)]
    /\ UNCHANGED <<service, state, awaited, registry, kept, calls>>

(* rememberTerminal: the oldest goes, if its entry is still terminal. *)
Evicts(order, r, e) ==
    /\ r = Head(order)
    /\ registry[r] # None /\ (registry[r] = e \/ ~Unknown(registry[r]))

(***************************************************************************)
(* trackSettlement: the settlement reaches the entry, and with it everybody *)
(* who waits.  Only the bookkeeping of the current service is still seen.  *)
(***************************************************************************)
Deliver(e) ==
    /\ engines[e].phase = "settled"
    /\ engines' = [engines EXCEPT ![e].phase = "known"]
    /\ LET order == Append(kept, engines[e].run)
           full == Len(order) > TerminalLimit
       IN  IF engines[e].home # service THEN UNCHANGED <<registry, kept>>
           ELSE /\ kept' = IF full THEN Tail(order) ELSE order
                /\ registry' = [r \in DOMAIN registry |->
                      IF full /\ Evicts(order, r, e) THEN None ELSE registry[r]]
    /\ UNCHANGED <<rows, service, state, awaited, calls>>

-----------------------------------------------------------------------------
(* close: closed from this step on; stops what is in flight, then waits. *)
Close ==
    /\ state = "open"
    /\ state' = "closing"
    /\ awaited' = {registry[r] : r \in {q \in DOMAIN registry : EntryInFlight(q)}}
    /\ Abort(awaited', "interrupted")
    /\ UNCHANGED <<service, registry, kept, calls>>

CloseEnds ==
    /\ state = "closing" /\ \A e \in awaited : engines[e].phase = "known"
    /\ state' = "closed"
    /\ UNCHANGED <<rows, engines, service, awaited, registry, kept, calls>>

(* The process dies, with every engine and every pending call in it. *)
Crash ==
    /\ state # "down"
    /\ state' = "down"
    /\ engines' = [e \in Engine |-> [engines[e] EXCEPT !.phase = "known"]]
    /\ calls' = [c \in Call |-> None]
    /\ UNCHANGED <<rows, service, awaited, registry, kept>>

(* reconcileOrphanRuns: rows nobody settled, by the status alone. *)
LeftAlone(row) == row
Reconciled(row) == IF row.status \in Terminal \cup {"none"} THEN row
                   ELSE Row("stopped", "interrupted", row.from)
ReconcileAll == rows' = [r \in Run |-> Reconciled(rows[r])]

(***************************************************************************)
(* The session is opened again: a service with an empty registry.  What an *)
(* older service of the same process still has pending goes on.            *)
(***************************************************************************)
Open ==
    /\ state \in {"closed", "down"} /\ service < MaxServices
    /\ service' = service + 1 /\ state' = "open"
    /\ awaited' = {} /\ kept' = <<>>
    /\ registry' = [r \in DOMAIN registry |-> None]
    /\ ReconcileAll
    /\ UNCHANGED <<engines, calls>>

(* Another instance of the program opens the same session and reconciles. *)
ForeignReconcile ==
    /\ \E r \in Run : rows[r].status = "running"
    /\ ReconcileAll
    /\ UNCHANGED <<engines, service, state, awaited, registry, kept, calls>>

CallStep(c) ==
    \/ AmendSettled(c) \/ AmendImports(c)
    \/ \E comesUp \in BOOLEAN : AmendLaunches(c, comesUp) \/ ResumeLaunches(c, comesUp)

Next ==
    \/ \E comesUp \in BOOLEAN : Submit(comesUp) \/ \E r \in Run : ResumeNow(r, comesUp)
    \/ \E c \in Call : CallStep(c) \/ \E r \in Run : Amend(c, r) \/ ResumeRebuilds(c, r)
    \/ \E r \in Run : Cancel(r)
    \/ \E e \in Engine : Deliver(e) \/ \E v \in {"completed", "stopped"} : EngineSettles(e, v)
    \/ Close \/ CloseEnds \/ Crash \/ Open \/ ForeignReconcile

(***************************************************************************)
(* Promises that are resolved are delivered, and awaits of file reads and  *)
(* of a bounded wait (quiescence) end.  No engine has to settle by itself, *)
(* nobody has to call anything, and nothing is ever opened again.          *)
(***************************************************************************)
Fairness ==
    /\ \A e \in 1..MaxEngines : WF_vars(e \in Engine /\ Deliver(e))
    /\ \A c \in Call : WF_vars(CallStep(c))
    /\ WF_vars(CloseEnds)

Spec == Init /\ [][Next]_vars
LiveSpec == Spec /\ Fairness

-----------------------------------------------------------------------------
(* Properties.                                                             *)

(* A run that is no amendment: its resume awaits nothing. *)
Plain(r) == rows[r].from = None

(***************************************************************************)
(* Every live engine is the one in the registry of an open service: there  *)
(* is somebody to cancel it, to close it and to hear of its end, and no    *)
(* run has two.                                                            *)
(***************************************************************************)
Owned(e) == /\ state = "open" /\ engines[e].home = service
            /\ registry[engines[e].run] = e
EveryEngineOwned == \A e \in Engine : Live(e) => Owned(e)

(* The same for the runs that are no amendments. *)
PlainEngineOwned == \A e \in Engine : Live(e) /\ Plain(engines[e].run) => Owned(e)

(***************************************************************************)
(* reconcileOrphanRuns: while the session is open no row says running      *)
(* without an engine behind it, whatever died or was closed before.        *)
(***************************************************************************)
NoLyingRow ==
    state = "open" => \A r \in Run : rows[r].status = "running"
                         => \E e \in Engine : Live(e) /\ engines[e].run = r

(***************************************************************************)
(* synthesizeRunStatus: memory, then the entry, then the row.              *)
(***************************************************************************)
RowFirst(r) == rows[r].status
Told(r) ==
    IF registry[r] # None /\ engines[registry[r]].phase = "known" THEN engines[registry[r]].verdict
    ELSE IF registry[r] # None /\ rows[r].status \in Terminal THEN "running"
    ELSE IF registry[r] # None /\ rows[r].status = "none" THEN "pending"
    ELSE rows[r].status

(***************************************************************************)
(* What a reader is told is so, of the runs that are no amendments and     *)
(* while the service is open: such a run is reported as running or pending *)
(* exactly while its settlement has still to be announced.  A row another  *)
(* instance wrote under a live engine does not end it for the readers, an  *)
(* eviction does not bring it back.                                        *)
(***************************************************************************)
StatusIsHonest ==
    state = "open" => \A r \in Run : Plain(r)
        => (Told(r) \in {"running", "pending"} <=> EntryInFlight(r))

(***************************************************************************)
(* amend: a run that is no amendment itself and was superseded is never    *)
(* run again, and never turned into one that may be: its successor has     *)
(* taken its place for good.  An amended run that is superseded while its  *)
(* resume waits for the import does run again.                             *)
(***************************************************************************)
Superseded(r) == rows[r].status = "stopped" /\ rows[r].reason = "superseded"
SupersededForGood ==
    [][\A r \in Run : Plain(r) /\ Superseded(r) => Superseded(r)']_vars

(***************************************************************************)
(* close() and the calls wait for settlements and for nothing else: every  *)
(* one of them returns, however many calls, closes and engines cross.      *)
(***************************************************************************)
EveryCallReturns ==
    /\ \A c \in Call : calls[c] # None ~> calls[c] = None
    /\ state = "closing" ~> state # "closing"
=============================================================================
