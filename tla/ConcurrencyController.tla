------------------------ MODULE ConcurrencyController ------------------------
(***************************************************************************)
(* The adaptive concurrency controller of one provider key: how many model *)
(* requests may be in flight, learnt from how the requests end.            *)
(*                                                                         *)
(* The controller is pure: it is handed the time and the signals, and says *)
(* what the cap is.  Time is counted in ticks, relative to now.  Its epoch *)
(* number is only compared with the epoch a request was admitted in, so it *)
(* is represented by the set of open requests of the current epoch.        *)
(***************************************************************************)
EXTENDS Integers, FiniteSets

CONSTANTS
    Request,        \* requests (attempts) that may be open at a time
    Ceiling,        \* the cap to start from and never to exceed
    ProveAfter,     \* CONCURRENCY_INCREASE_AFTER_SUCCESSES
    IdleTicks,      \* CONCURRENCY_IDLE_RESET_MS
    RetryAfters,    \* the Retry-After a throttled request may carry, 0: none
    None

ASSUME CeilingAssumption == Ceiling \in Nat \ {0}
ASSUME TuningAssumption == ProveAfter \in Nat \ {0} /\ IdleTicks \in Nat \ {0}
ASSUME RetryAssumption == RetryAfters \subseteq Nat
ASSUME RequestAssumption == IsFiniteSet(Request)
ASSUME NoneAssumption == None \notin Nat

(***************************************************************************)
(* cap, inFlight, successStreak and lastGood as in the code; fed is the    *)
(* number of waiters last reported; fresh the open requests of the current *)
(* epoch; cooldown the ticks left of a Retry-After (None: unset, 0: over   *)
(* but still set); quiet the ticks since the last admission, up to the     *)
(* number that counts as idle.  lastBad is only reported and left out.     *)
(***************************************************************************)
Controller ==
    [cap : 1..Ceiling, inFlight : Nat, fed : Nat, fresh : SUBSET Request,
     streak : 0..ProveAfter, cooldown : Nat \cup {None}, quiet : 0..IdleTicks,
     good : (1..Ceiling) \cup {None}]

Start == [cap |-> Ceiling, inFlight |-> 0, fed |-> 0, fresh |-> {},
          streak |-> 0, cooldown |-> None, quiet |-> 0, good |-> None]

-----------------------------------------------------------------------------
(* The signals, as functions of the controller.                            *)

CanAdmit(c) == c.inFlight < c.cap /\ c.cooldown \in {None, 0}

(* idleReset: nothing in flight and no admission for long: forget it all. *)
IdleReset(c) ==
    IF c.inFlight = 0 /\ c.quiet = IdleTicks
      THEN [c EXCEPT !.cap = Ceiling, !.fresh = {}, !.streak = 0,
                     !.cooldown = None, !.good = None]
      ELSE c

(* admitted, whose callers have observed first. *)
Admitted(c, r) ==
    [c EXCEPT !.quiet = 0, !.inFlight = @ + 1, !.fresh = @ \cup {r}]

(* Every ending begins like this. *)
Left(c, r) ==
    LET d == IdleReset(c)
    IN  [d EXCEPT !.inFlight = IF @ = 0 THEN 0 ELSE @ - 1, !.fresh = @ \ {r}]

(* The request was admitted in the current epoch; the fault: no epochs. *)
EveryoneIsFresh(c, r) == TRUE
IsFresh(c, r) == r \in IdleReset(c).fresh

(* The fault of proving a level only once. *)
FirstProof(good, cap) == IF good = None THEN cap ELSE good
Proven(good, cap) == IF good = None \/ cap > good THEN cap ELSE good

(* The streak is only compared with ProveAfter and saturates there. *)
Streak(c) == IF c.streak < ProveAfter THEN c.streak + 1 ELSE ProveAfter

(***************************************************************************)
(* succeeded: a streak of ProveAfter successes of the current epoch proves *)
(* the cap; if somebody waits and there is room, the next level is tried.  *)
(***************************************************************************)
Succeeded(c, r) ==
    LET d == [Left(c, r) EXCEPT !.streak = Streak(c)]
        proved == [d EXCEPT !.good = Proven(@, d.cap)]
    IN  IF ~IsFresh(c, r) THEN Left(c, r)
        ELSE IF d.streak < ProveAfter THEN d
        ELSE IF d.fed = 0 \/ d.cap >= Ceiling THEN proved
        ELSE [proved EXCEPT !.cap = @ + 1, !.streak = 0]

(* Three quarters, but never less than one. *)
Cut(cap) == IF cap = 1 THEN 1 ELSE (3 * cap) \div 4

Longer(cooldown, wait) == IF cooldown = None \/ wait > cooldown THEN wait ELSE cooldown

(***************************************************************************)
(* throttled: the streak ends and a Retry-After is kept.  A request of the *)
(* current epoch judges the cap: above the proven level it falls back to   *)
(* that level, else to three quarters, and the level is disproved.  Either *)
(* way the epoch ends: the rest of the batch is stale.                     *)
(***************************************************************************)
Throttled(c, r, wait) ==
    LET d == [Left(c, r) EXCEPT !.streak = 0,
                                !.cooldown = IF wait > 0 THEN Longer(@, wait) ELSE @]
    IN  IF ~IsFresh(c, r) THEN d
        ELSE IF d.good # None /\ d.cap > d.good THEN [d EXCEPT !.cap = d.good, !.fresh = {}]
        ELSE [d EXCEPT !.cap = Cut(@), !.good = None, !.fresh = {}]

FailedTransient(c, r) == [Left(c, r) EXCEPT !.streak = 0]
Ended(c, r) == Left(c, r)

(* waiters: how many requests are queued. *)
Fed(c, n) == [IdleReset(c) EXCEPT !.fed = n]

Endings(c, r) ==
    {Succeeded(c, r), FailedTransient(c, r), Ended(c, r)}
    \cup {Throttled(c, r, wait) : wait \in RetryAfters}

Elapsed(c) ==
    [c EXCEPT !.cooldown = IF @ \in {None, 0} THEN @ ELSE @ - 1,
              !.quiet = IF @ < IdleTicks THEN @ + 1 ELSE @]

(***************************************************************************)
(* inFlight counts the requests in S, the open ones, although it is never  *)
(* decreased below zero and several signals end a request; only open ones  *)
(* are fresh.                                                              *)
(***************************************************************************)
CountsOpen(c, S) == c.inFlight = Cardinality(S) /\ c.fresh \subseteq S
=============================================================================
