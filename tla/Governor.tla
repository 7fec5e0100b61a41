------------------------------ MODULE Governor ------------------------------
(***************************************************************************)
(* The process-wide governor of model requests, for one provider key: a    *)
(* controller, a queue per run served in rotation, and an alarm for the    *)
(* end of a Retry-After.  Sub-agents of workflow runs queue; the main      *)
(* agent's requests (the observer's) are always let through and counted.   *)
(*                                                                         *)
(* Each action is one synchronous stretch of the code: a signal, the       *)
(* fan-out of the changes, and the drain of the queues that follows it.    *)
(***************************************************************************)
EXTENDS ConcurrencyController, Filters, Functions

CONSTANTS
    Run,            \* workflow runs
    Observer,       \* the identity the main agent's requests are counted under
    RunOf,          \* RunOf[r]: the run of a loop r, or Observer
    Aborts          \* environment: waiting requests may be aborted

ASSUME ObserverAssumption == Observer \notin Run /\ None \notin Run \cup {Observer}
ASSUME RunOfAssumption == RunOf \in [Request -> Run \cup {Observer}]
ASSUME AbortsAssumption == Aborts \in BOOLEAN

VARIABLES
    bucket,     \* controller, queues, rotation, counts and what the runs were told
    attempt,    \* where each loop is
    alarm,      \* ticks until the cooldown alarm rings, None: not armed
    stranded    \* history: see Strands

vars == <<bucket, attempt, alarm, stranded>>

(* The requests admitted and not settled. *)
Open == {r \in Request : attempt[r] = "granted"}

Queued(b) == UNION {Range(b.queue[run]) : run \in Run}
Waiting(b) == Cardinality(Queued(b))
Engaged(b, run) == b.inFlightByRun[run] > 0 \/ b.queue[run] # <<>>

-----------------------------------------------------------------------------
(* The bucket.                                                             *)

(* fanOut: every run with a request in flight or queued hears the new cap. *)
FanOut(b, c) ==
    [b EXCEPT !.ctl = c,
              !.told = [run \in Run |-> IF c.cap # b.ctl.cap /\ Engaged(b, run)
                                          THEN c.cap ELSE @[run]]]

Observe(b) == FanOut(b, IdleReset(b.ctl))
Feed(b) == FanOut(b, Fed(b.ctl, Waiting(b)))

Bump(b, run, n) ==
    IF run = Observer THEN b ELSE [b EXCEPT !.inFlightByRun[run] = @ + n]

(* grant *)
Grant(b, r) ==
    LET seen == Observe(b)
    IN  Bump([seen EXCEPT !.ctl = Admitted(@, r), !.lastGrantedRun = RunOf[r]], RunOf[r], 1)

(* The fault of no rotation. *)
FirstRun(b) == Head(b.turn)

(***************************************************************************)
(* nextRunWithWaiters: the run after the last one granted in the order of  *)
(* the queue map, the first one if the last has no queue.                  *)
(***************************************************************************)
NextRun(b) ==
    LET last == {n \in DOMAIN b.turn : b.turn[n] = b.lastGrantedRun}
        position == IF last = {} THEN 0 ELSE CHOOSE n \in last : TRUE
    IN  b.turn[(position % Len(b.turn)) + 1]

(* A request joins the queue of its run, or leaves it; empty queues go. *)
Enqueue(b, r) ==
    LET run == RunOf[r]
    IN  [b EXCEPT !.queue[run] = Append(@, r),
                  !.turn = IF b.queue[run] = <<>> THEN Append(@, run) ELSE @]
Dequeue(b, r) ==
    LET run == RunOf[r]
    IN  [b EXCEPT !.queue[run] = Keep(@, Request \ {r}),
                  !.turn = IF Len(b.queue[run]) = 1 THEN Keep(@, Run \ {run}) ELSE @]

(***************************************************************************)
(* drain: as long as somebody waits and the gate is open, the first waiter *)
(* of the next run is granted.  waiters is fed before each grant and once  *)
(* at the end; only the last feed can be seen.                             *)
(***************************************************************************)
ServeOne(b) ==
    LET first == Head(b.queue[NextRun(b)])
    IN  IF Waiting(b) = 0 \/ ~CanAdmit(b.ctl) THEN b ELSE Grant(Dequeue(b, first), first)
Drain(b) ==
    LET step[n \in 0..Waiting(b)] == IF n = 0 THEN Feed(Observe(b)) ELSE ServeOne(step[n - 1])
    IN  Feed(step[Waiting(b)])

(* The fault of no alarm. *)
NeverArm(b) == None

(* armCooldownWake: cancel, and set again if somebody waits in a cooldown. *)
AlarmFor(b) == IF Waiting(b) = 0 THEN None ELSE b.ctl.cooldown

(* What a drain does to the attempts: the waiters that left are granted. *)
Served(b, where) ==
    [r \in Request |-> IF where[r] = "queued" /\ r \notin Queued(b) THEN "granted" ELSE where[r]]

DrainTo(b, where) ==
    LET after == Drain(b)
    IN  /\ bucket' = after
        /\ attempt' = Served(after, where)
        /\ alarm' = AlarmFor(after)
        /\ stranded' = FALSE

(***************************************************************************)
(* What an abort may do to the others, recorded in stranded until the next *)
(* drain: it cancels the alarm of a cooldown that idleReset has dropped    *)
(* meanwhile, so that there is none to set it by again.                    *)
(***************************************************************************)
Strands(left) == alarm # None /\ left.ctl.cooldown = None

-----------------------------------------------------------------------------
(* Actions.                                                                *)

Init ==
    /\ bucket = [ctl |-> Start, queue |-> [run \in Run |-> <<>>], turn |-> <<>>,
                 lastGrantedRun |-> None, inFlightByRun |-> [run \in Run |-> 0],
                 told |-> [run \in Run |-> None]]
    /\ attempt = [r \in Request |-> "idle"]
    /\ alarm = None
    /\ stranded = FALSE

(* Faults: the fast path looks at the gate only, or at the queues only. *)
GateOpen(b) == CanAdmit(b.ctl)
NobodyWaits(b) == Waiting(b) = 0

(* The gate is open and nobody is waiting in front of it. *)
FastPath(b) == Waiting(b) = 0 /\ CanAdmit(b.ctl)

(* tryAdmit hits, from tryAcquire or from the second try in acquire. *)
AdmitNow(r) ==
    /\ RunOf[r] # Observer /\ attempt[r] \in {"idle", "asking"}
    /\ FastPath(Observe(bucket))
    /\ bucket' = Grant(Observe(bucket), r)
    /\ attempt' = [attempt EXCEPT ![r] = "granted"]
    /\ UNCHANGED <<alarm, stranded>>

(* tryAcquire misses: the runner reports "queued" and then asks again. *)
TryMisses(r) ==
    /\ RunOf[r] # Observer /\ attempt[r] = "idle"
    /\ ~FastPath(Observe(bucket))
    /\ bucket' = Observe(bucket)
    /\ attempt' = [attempt EXCEPT ![r] = "asking"]
    /\ UNCHANGED <<alarm, stranded>>

(* admit: the request queues and the bucket is drained. *)
Admit(r) ==
    /\ attempt[r] = "asking"
    /\ ~FastPath(Observe(bucket))
    /\ DrainTo(Enqueue(Observe(bucket), r), [attempt EXCEPT ![r] = "queued"])

(* admit with a signal that is aborted already. *)
AdmitAborted(r) ==
    /\ Aborts /\ attempt[r] = "asking"
    /\ ~FastPath(Observe(bucket))
    /\ bucket' = Observe(bucket)
    /\ attempt' = [attempt EXCEPT ![r] = "idle"]
    /\ UNCHANGED <<alarm, stranded>>

(* onAbort: the waiter leaves, waiters is fed, the alarm is set anew. *)
Abort(r) ==
    /\ Aborts /\ attempt[r] = "queued"
    /\ LET left == Feed(Dequeue(bucket, r))
       IN  /\ bucket' = left
           /\ attempt' = [attempt EXCEPT ![r] = "idle"]
           /\ alarm' = AlarmFor(left)
           /\ stranded' = (stranded \/ Strands(left))

(* The observer's admission: no queue, no cooldown, but counted. *)
Observed(r) ==
    /\ RunOf[r] = Observer /\ attempt[r] = "idle"
    /\ bucket' = Grant(bucket, r)
    /\ attempt' = [attempt EXCEPT ![r] = "granted"]
    /\ UNCHANGED <<alarm, stranded>>

(* settle's order of fan-out and count.  Faults: swapped; no drain after. *)
BumpThenFanOut(b, c, run) == FanOut(Bump(b, run, -1), c)
FanOutThenBump(b, c, run) == Bump(FanOut(b, c), run, -1)

SettledUndrained(r, c) ==
    /\ bucket' = FanOutThenBump(bucket, c, RunOf[r])
    /\ attempt' = [attempt EXCEPT ![r] = "settled"]
    /\ UNCHANGED <<alarm, stranded>>

(* settle: the signal, its fan-out, the count, the drain. *)
Settled(r, c) == DrainTo(FanOutThenBump(bucket, c, RunOf[r]), [attempt EXCEPT ![r] = "settled"])

(***************************************************************************)
(* The attempt ends: its ticket turns the terminal event into a signal and *)
(* is settled.  A release without one is an "ended".                       *)
(***************************************************************************)
Settle(r) ==
    /\ attempt[r] = "granted"
    /\ \E c \in Endings(bucket.ctl, r) : Settled(r, c)

(* The fault of a release that does not look at settled. *)
SignalAgain(r) ==
    DrainTo(FanOutThenBump(bucket, Ended(bucket.ctl, r), RunOf[r]), [attempt EXCEPT ![r] = "idle"])
Inert(r) == attempt' = [attempt EXCEPT ![r] = "idle"] /\ UNCHANGED <<bucket, alarm, stranded>>

(* The release in the runner's finally, after the ticket was settled. *)
Release(r) == attempt[r] = "settled" /\ Inert(r)

(* The cooldown alarm rings. *)
Ring == alarm = 0 /\ DrainTo(bucket, attempt)

Tick ==
    /\ bucket' = [bucket EXCEPT !.ctl = Elapsed(@)]
    /\ alarm' = IF alarm \in {None, 0} THEN alarm ELSE alarm - 1
    /\ UNCHANGED <<attempt, stranded>>

Next ==
    \/ \E r \in Request :
          \/ AdmitNow(r) \/ TryMisses(r) \/ Admit(r) \/ AdmitAborted(r) \/ Abort(r)
          \/ Observed(r) \/ Settle(r) \/ Release(r)
    \/ Ring \/ Tick

(***************************************************************************)
(* Time passes, the alarm rings once due, every attempt ends and releases  *)
(* its ticket, and a runner that was told "queued" goes on to queue.  The  *)
(* last three are weak fairness of the only actions that leave the state.  *)
(* Nothing forces a loop to make another attempt.                          *)
(***************************************************************************)
Fairness ==
    /\ WF_vars(Tick)
    /\ []<>(alarm # 0) \/ []<><<Ring>>_vars
    /\ \A r \in Request : []<>(attempt[r] \notin {"granted"})
                          /\ []<>(attempt[r] \notin {"settled"})
                          /\ []<>(attempt[r] \notin {"asking"})

Spec == Init /\ [][Next]_vars
LiveSpec == Spec /\ Fairness

-----------------------------------------------------------------------------
(* Properties.                                                             *)

TypeOK ==
    /\ bucket.ctl \in Controller
    /\ bucket.lastGrantedRun \in Run \cup {Observer, None}
    /\ \A run \in Run : bucket.told[run] \in (1..Ceiling) \cup {None}
    /\ attempt \in [Request -> {"idle", "asking", "queued", "granted", "settled"}]
    /\ alarm \in Nat \cup {None}
    /\ stranded \in BOOLEAN

(***************************************************************************)
(* One account of every request: the controller's and the runs' counters   *)
(* are the open tickets, through publish, release and late releases; the   *)
(* queues hold each waiting request once, in the queue of its run; and the *)
(* rotation has exactly the runs that wait.                                *)
(***************************************************************************)
CountsAreExact ==
    /\ CountsOpen(bucket.ctl, Open)
    /\ \A run \in Run :
          bucket.inFlightByRun[run] = Cardinality({r \in Open : RunOf[r] = run})
    /\ \A run \in Run :
          /\ Range(bucket.queue[run]) = {r \in Request : attempt[r] = "queued" /\ RunOf[r] = run}
          /\ IsInjective(bucket.queue[run])
    /\ IsInjective(bucket.turn)
    /\ Range(bucket.turn) = {run \in Run : bucket.queue[run] # <<>>}

(***************************************************************************)
(* Nobody waits at an open gate: a queued request faces a full cap or an   *)
(* armed alarm.  The queues are only looked at in a drain, so whoever frees*)
(* a place or ends a cooldown must drain or leave an alarm behind.  There  *)
(* is one exception, an abort that finds the cooldown dropped (stranded);  *)
(* the next request to queue, to end or to be rung for mends it.           *)
(***************************************************************************)
NobodyWaitsAtOpenGate ==
    Queued(bucket) # {} =>
        bucket.ctl.inFlight >= bucket.ctl.cap \/ alarm # None \/ stranded

(***************************************************************************)
(* A step that admits a request of a run leaves no more in flight than the *)
(* cap of that moment, and happens outside a cooldown, whatever that step  *)
(* did to the cap; only the observer passes the gate.                      *)
(***************************************************************************)
AdmittedUnderCap ==
    [][(\E r \in Open' \ Open : RunOf[r] # Observer)
          => bucket'.ctl.inFlight <= bucket'.ctl.cap /\ bucket'.ctl.cooldown \in {None, 0}]_vars

(***************************************************************************)
(* Within a run it is first come, first served: a request is not admitted  *)
(* past those of its run that queued before it, be it by the fast path,    *)
(* which has no queue to look at, or by a drain.                           *)
(***************************************************************************)
Ahead(r) ==
    {q \in Queued(bucket) : RunOf[q] = RunOf[r]
        /\ \A n \in DOMAIN bucket.queue[RunOf[r]] : bucket.queue[RunOf[r]][n] = r
              => q \in Range(SubSeq(bucket.queue[RunOf[r]], 1, n - 1))}
QueuesAreFifo == [][\A r \in (Open' \ Open) : RunOf[r] # Observer => Ahead(r) \subseteq Open']_vars

(***************************************************************************)
(* fanOut before the count: every run with a request in flight or queued   *)
(* hears of a cut, also the run whose only request has just caused it, and *)
(* what it hears last is the cap it is left with.                          *)
(***************************************************************************)
EngagedRunsHear ==
    [][bucket'.ctl.cap < bucket.ctl.cap =>
          \A r \in Request : attempt[r] \in {"queued", "granted"} /\ RunOf[r] # Observer
             => bucket'.told[RunOf[r]] = bucket'.ctl.cap]_vars

(***************************************************************************)
(* Every request that queues is admitted or aborted: freed places are      *)
(* handed on from run to run, the rotation comes round and cooldowns end.  *)
(* Who waits for ever was stranded by an abort, and nobody has queued since*)
(***************************************************************************)
EveryWaiterLeaves == \A r \in Request : []<>(attempt[r] # "queued") \/ <>[]stranded

(***************************************************************************)
(* "Rotation between runs, so that a big fan-out cannot starve a small run *)
(* that comes later": no request waits for ever while those of other runs  *)
(* keep being served from the queues.                                      *)
(***************************************************************************)
ServedFromQueue(q) == attempt[q] = "queued" /\ attempt'[q] = "granted"
NoRunStarves ==
    \A r \in Request :
        \/ []<>(attempt[r] # "queued")
        \/ <>[][\A q \in Request : ServedFromQueue(q) => RunOf[q] = RunOf[r]]_vars
=============================================================================
