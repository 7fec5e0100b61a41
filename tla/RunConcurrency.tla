--------------------------- MODULE RunConcurrency ---------------------------
(***************************************************************************)
(* The two places that enforce a run's maxConcurrency, together: the       *)
(* scheduler of the engine, which dispatches asks, and the seat gate of    *)
(* the driver, which suspends sub-agents between two model requests.       *)
(* They share no state and never call each other; what keeps a new ask     *)
(* from overtaking a parked sub-agent is that the scheduler goes on        *)
(* counting the asks of the parked ones.                                   *)
(*                                                                         *)
(* An ask is queued, then dispatching (the scheduler has counted it and    *)
(* awaits its session), then known to the gate until it is settled.        *)
(***************************************************************************)
EXTENDS SeatGate

VARIABLES
    cap,        \* the engine's caps.maxConcurrency
    activeAsks, \* the scheduler's count of asks in flight
    queued,     \* admitted asks that are not dispatched
    dispatching \* asks that await the session of their sub-agent

scheduler == <<cap, activeAsks, queued, dispatching>>
allVars == <<vars, scheduler>>

(* The sub-agents whose actor.current is set, now and after `done` settled. *)
Busy == {KeyOf[a] : a \in dispatching \cup instances}
BusyBut(done) == {KeyOf[a] : a \in (dispatching \cup instances) \ {done}}

(***************************************************************************)
(* pumpAll: dispatches queued asks, one per free actor, while there is     *)
(* room under the cap.  Which of the actors come first is left open.       *)
(***************************************************************************)
Pump(waiting, busy, active, flying, limitNow) ==
    \E taken \in SUBSET {a \in waiting : KeyOf[a] \notin busy} :
        /\ \A a, b \in taken : KeyOf[a] = KeyOf[b] => a = b
        /\ active + Cardinality(taken) <= limitNow \/ taken = {}
        /\ \A a \in waiting \ taken :
              \/ KeyOf[a] \in busy
              \/ \E b \in taken : KeyOf[b] = KeyOf[a]
              \/ active + Cardinality(taken) >= limitNow
        /\ queued' = waiting \ taken
        /\ dispatching' = flying \cup taken
        /\ activeAsks' = active + Cardinality(taken)

RCInit ==
    /\ Init
    /\ cap = limit
    /\ activeAsks = 0 /\ queued = {} /\ dispatching = {}

(* The script asks again: the ask joins the queue of its actor. *)
AskAdmitted(a) ==
    /\ a \notin queued \cup dispatching \cup instances
    /\ Pump(queued \cup {a}, Busy, activeAsks, dispatching, cap)
    /\ UNCHANGED <<cap, vars>>

(* dispatch after its await: startAsk tells the gate. *)
SessionReady(a) ==
    /\ a \in dispatching
    /\ AskStarted(a)
    /\ dispatching' = dispatching \ {a}
    /\ UNCHANGED <<cap, activeAsks, queued>>

(* The slot of a settled ask. *)
SlotsAfter(a) == activeAsks - 1

(* dispatch after its await failed: the gate never knew this ask. *)
SessionFails(a) ==
    /\ a \in dispatching
    /\ Pump(queued, BusyBut(a), SlotsAfter(a), dispatching \ {a}, cap)
    /\ UNCHANGED <<cap, vars>>

(***************************************************************************)
(* settleOk and settleFailed: the event reaches the gate first, then the   *)
(* scheduler frees the actor and rescans the queues.  A turn suspended in  *)
(* the gate reports nothing, so the sub-agent is not parked.               *)
(***************************************************************************)
Settle(a) ==
    /\ KeyOf[a] \notin Parked
    /\ AskSettled(a)
    /\ Pump(queued, BusyBut(a), SlotsAfter(a), dispatching, cap)
    /\ UNCHANGED cap

(* The part of a retune the engine does, and the fault of not being told. *)
EngineUntold(n) == UNCHANGED scheduler
RetuneEngine(n) ==
    /\ cap' = n
    /\ IF n > cap THEN Pump(queued, Busy, activeAsks, dispatching, n)
                  ELSE UNCHANGED <<activeAsks, queued, dispatching>>

(* The gate's part, and the fault of a gate nobody bound. *)
GateUnbound(n) == UNCHANGED vars
RetuneGate(n) == SetLimit(n)

(* The control of a live run: first the engine, then the gate, in one go. *)
Retune(n) ==
    /\ n # cap
    /\ RetuneEngine(n)
    /\ RetuneGate(n)

TurnLoop(k) ==
    /\ Acquire(k) \/ RequestDone(k) \/ ToolDone(k) \/ AbortParked(k)
    /\ UNCHANGED scheduler

RCNext ==
    \/ \E a \in Ask : AskAdmitted(a) \/ SessionReady(a) \/ SessionFails(a) \/ Settle(a)
    \/ \E n \in 1..MaxLimit : Retune(n)
    \/ \E k \in Key : TurnLoop(k)

(***************************************************************************)
(* Session creation ends, and an ask whose sub-agent is let out of the     *)
(* gate again and again is settled: each time it makes one of the requests *)
(* of its turn.  This takes a provider that recovers, since the driver     *)
(* re-drives a turn that failed in passing without limit.  Nothing makes   *)
(* anybody retune or abort.                                                *)
(***************************************************************************)
RCFairness ==
    \A a \in Ask : WF_allVars(SessionReady(a) \/ SessionFails(a)) /\ SF_allVars(Settle(a))

RCSpec == RCInit /\ [][RCNext]_allVars
RCLiveSpec == RCSpec /\ RCFairness

-----------------------------------------------------------------------------
RCTypeOK ==
    /\ TypeOK
    /\ cap \in 1..MaxLimit /\ activeAsks \in Nat
    /\ queued \subseteq Ask /\ dispatching \subseteq Ask

(***************************************************************************)
(* "What keeps them consistent is arithmetic": the scheduler's count is    *)
(* the gate's two counts plus the asks that still await a session, through *)
(* every retune, abort, failed session and settlement; and both have the   *)
(* same limit.                                                             *)
(***************************************************************************)
CountsAgree ==
    /\ activeAsks = Cardinality(working) + Len(parked) + Cardinality(dispatching)
    /\ cap = limit

(***************************************************************************)
(* The scheduler never dispatches an ask while a sub-agent is parked: one  *)
(* step that dispatches leaves nobody in the FIFO.                         *)
(***************************************************************************)
NoDispatchPastParked ==
    [][~(dispatching' \subseteq dispatching) => parked' = <<>>]_allVars

(***************************************************************************)
(* Every parked sub-agent is let out of the gate in the end, although the  *)
(* script may go on asking: the asks that were dispatching when it was     *)
(* parked may overtake it, later ones may not.                             *)
(***************************************************************************)
ParkedLeaves == \A k \in Key : k \in Parked ~> k \notin Parked
=============================================================================
