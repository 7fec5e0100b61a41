----------------------------- MODULE GovernorProofs -----------------------------
(***************************************************************************)
(* The controller keeps its cap between one and the ceiling, counts what   *)
(* is in flight exactly and probes one level at a time, for any ceiling,   *)
(* any tuning, any number of requests and any order of signals.            *)
(*                                                                         *)
(* The governor around it keeps one account of every request and its       *)
(* queues in order, for any number of runs and requests, although a drain  *)
(* is a loop whose number of turns depends on the state: what the loop     *)
(* keeps is proved by the least turn that would break it.                  *)
(***************************************************************************)
EXTENDS Governor, ControllerSignals, FiltersProofs, FiniteSetTheorems

(***************************************************************************)
(* Membership in Controller, said field by field: the form in which the    *)
(* provers keep it through an EXCEPT.                                      *)
(***************************************************************************)
Fields == {"cap", "inFlight", "fed", "fresh", "streak", "cooldown", "quiet", "good"}
Shape(c) == c = [f \in Fields |-> c[f]]
InRange(c) ==
    /\ c.cap \in 1..Ceiling /\ c.inFlight \in Nat /\ c.fed \in Nat
    /\ c.fresh \subseteq Request /\ c.streak \in 0..ProveAfter
    /\ c.cooldown \in Nat \cup {None} /\ c.quiet \in 0..IdleTicks
    /\ c.good \in (1..Ceiling) \cup {None}

Probes(c) == c.good # None => c.cap \in {c.good, c.good + 1}

(* What every signal preserves of the controller itself. *)
Sound(c) == Shape(c) /\ InRange(c) /\ Probes(c)

(* The controller and the set of open requests agree. *)
Agrees(c, S) == S \subseteq Request /\ c.inFlight = Cardinality(S) /\ c.fresh \subseteq S

SignalsIInv == Sound(ctl) /\ Agrees(ctl, open)

-----------------------------------------------------------------------------
(* The signals.                                                            *)

(***************************************************************************)
(* A sound controller is a Controller.                                     *)
(***************************************************************************)
LEMMA SoundIsController ==
    ASSUME NEW c, Sound(c)
    PROVE  c \in Controller
<1>1. c = [cap |-> c.cap, inFlight |-> c.inFlight, fed |-> c.fed, fresh |-> c.fresh,
           streak |-> c.streak, cooldown |-> c.cooldown, quiet |-> c.quiet, good |-> c.good]
  BY DEF Sound, Shape, Fields
<1>2. [cap |-> c.cap, inFlight |-> c.inFlight, fed |-> c.fed, fresh |-> c.fresh,
       streak |-> c.streak, cooldown |-> c.cooldown, quiet |-> c.quiet, good |-> c.good]
         \in Controller
  BY DEF Sound, InRange, Controller
<1> QED
  BY <1>1, <1>2

(***************************************************************************)
(* A cut leaves at least one and adds nothing.                             *)
(***************************************************************************)
LEMMA CutBounds ==
    ASSUME NEW cap \in Nat \ {0}
    PROVE  Cut(cap) \in 1..cap
BY DEF Cut

(***************************************************************************)
(* Forgetting everything.                                                  *)
(***************************************************************************)
LEMMA IdleResetSound ==
    ASSUME NEW c, Sound(c)
    PROVE  /\ Sound(IdleReset(c))
           /\ IdleReset(c).inFlight = c.inFlight
           /\ IdleReset(c).fresh \subseteq c.fresh
<1> DEFINE d == [c EXCEPT !.cap = Ceiling, !.fresh = {}, !.streak = 0,
                          !.cooldown = None, !.good = None]
<1>1. Shape(d)
  BY DEF Sound, Shape, Fields
<1>2. /\ d.cap = Ceiling /\ d.fresh = {} /\ d.streak = 0 /\ d.cooldown = None /\ d.good = None
      /\ d.inFlight = c.inFlight /\ d.fed = c.fed /\ d.quiet = c.quiet
  BY DEF Sound, Shape, Fields
<1> HIDE DEF d
<1>3. Sound(d)
  BY <1>1, <1>2, CeilingAssumption, TuningAssumption DEF Sound, InRange, Probes
<1>4. IdleReset(c) = IF c.inFlight = 0 /\ c.quiet = IdleTicks THEN d ELSE c
  BY DEF IdleReset, d
<1> QED
  BY <1>2, <1>3, <1>4

(***************************************************************************)
(* A request that ends gives back one place and is not fresh any more.     *)
(***************************************************************************)
LEMMA LeftSound ==
    ASSUME NEW c, NEW r, Sound(c)
    PROVE  /\ Sound(Left(c, r))
           /\ Left(c, r).inFlight = IF c.inFlight = 0 THEN 0 ELSE c.inFlight - 1
           /\ Left(c, r).fresh \subseteq c.fresh \ {r}
<1> DEFINE d == IdleReset(c)
           n == IF d.inFlight = 0 THEN 0 ELSE d.inFlight - 1
           e == [d EXCEPT !.inFlight = n, !.fresh = d.fresh \ {r}]
<1>1. Sound(d) /\ d.inFlight = c.inFlight /\ d.fresh \subseteq c.fresh
  BY IdleResetSound
<1>2. Left(c, r) = e
  BY DEF Left
<1> HIDE DEF d
<1>3. n \in Nat
  BY <1>1 DEF Sound, InRange
<1>4. Shape(e) /\ e.inFlight = n /\ e.fresh = d.fresh \ {r} /\ e.cap = d.cap /\ e.fed = d.fed
      /\ e.streak = d.streak /\ e.cooldown = d.cooldown /\ e.quiet = d.quiet /\ e.good = d.good
  BY <1>1 DEF Sound, Shape, Fields
<1>5. Sound(e)
  BY <1>1, <1>3, <1>4 DEF Sound, InRange, Probes
<1> QED
  BY <1>1, <1>2, <1>4, <1>5

(***************************************************************************)
(* A success changes cap, streak and proven level; the next level is only  *)
(* tried from the proven one.                                              *)
(***************************************************************************)
LEMMA SucceededSound ==
    ASSUME NEW c, NEW r, Sound(c)
    PROVE  /\ Sound(Succeeded(c, r))
           /\ Succeeded(c, r).inFlight = Left(c, r).inFlight
           /\ Succeeded(c, r).fresh = Left(c, r).fresh
           /\ Succeeded(c, r).cap \in {Left(c, r).cap, Left(c, r).cap + 1}
<1> DEFINE l == Left(c, r)
           streak == Streak(c)
           d == [l EXCEPT !.streak = streak]
           good == Proven(d.good, d.cap)
           proved == [d EXCEPT !.good = good]
           next == [proved EXCEPT !.cap = proved.cap + 1, !.streak = 0]
<1>1. Sound(l)
  BY LeftSound
<1>2. streak \in 0..ProveAfter
  BY TuningAssumption DEF Streak, Sound, InRange
<1>3. \/ Succeeded(c, r) \in {l, d, proved}
      \/ d.cap < Ceiling /\ Succeeded(c, r) = next
  <2>1. d.cap \in Int
    BY <1>1 DEF Sound, Shape, Fields, InRange
  <2>2. CASE ~IsFresh(c, r) \/ d.streak < ProveAfter
    BY <2>2 DEF Succeeded
  <2>3. CASE IsFresh(c, r) /\ ~(d.streak < ProveAfter)
    <3>1. Succeeded(c, r) = IF d.fed = 0 \/ d.cap >= Ceiling THEN proved ELSE next
      BY <2>3 DEF Succeeded
    <3> QED
      BY <3>1, <2>1, CeilingAssumption
  <2> QED
    BY <2>2, <2>3
<1> HIDE DEF l, streak
<1>4. Shape(d) /\ d.streak = streak /\ d.inFlight = l.inFlight /\ d.fresh = l.fresh
      /\ d.cap = l.cap /\ d.fed = l.fed /\ d.cooldown = l.cooldown
      /\ d.quiet = l.quiet /\ d.good = l.good
  BY <1>1 DEF Sound, Shape, Fields
<1> HIDE DEF d
<1>5. Sound(d)
  BY <1>1, <1>2, <1>4 DEF Sound, InRange, Probes
<1>6. good = d.cap
  BY <1>5, NoneAssumption DEF Sound, InRange, Probes, Proven
<1> HIDE DEF good
<1>7. Shape(proved) /\ proved.streak = d.streak /\ proved.inFlight = l.inFlight
      /\ proved.fresh = l.fresh /\ proved.cap = d.cap /\ proved.fed = d.fed
      /\ proved.cooldown = d.cooldown /\ proved.quiet = d.quiet /\ proved.good = good
  BY <1>4, <1>5 DEF Sound, Shape, Fields
<1>8. Shape(next) /\ next.cap = proved.cap + 1 /\ next.streak = 0
      /\ next.inFlight = l.inFlight /\ next.fresh = l.fresh /\ next.fed = d.fed
      /\ next.cooldown = d.cooldown /\ next.quiet = d.quiet /\ next.good = good
  BY <1>7 DEF Shape, Fields
<1> HIDE DEF proved, next
<1>9. Sound(proved)
  BY <1>4, <1>5, <1>6, <1>7 DEF Sound, InRange, Probes
<1>10. CASE Succeeded(c, r) \in {l, d, proved}
  BY <1>10, <1>1, <1>4, <1>5, <1>7, <1>9 DEF l
<1>11. CASE d.cap < Ceiling /\ Succeeded(c, r) = next
  <2>1. next.cap \in 1..Ceiling /\ next.cap = next.good + 1
    BY <1>11, <1>5, <1>6, <1>7, <1>8, CeilingAssumption DEF Sound, InRange
  <2>2. Sound(next)
    BY <2>1, <1>4, <1>5, <1>6, <1>8, TuningAssumption DEF Sound, InRange, Probes
  <2> QED
    BY <2>2, <1>4, <1>7, <1>8, <1>11 DEF l
<1> QED
  BY <1>3, <1>10, <1>11

(***************************************************************************)
(* A throttle only lowers the cap, to the proven level or by a cut.        *)
(***************************************************************************)
LEMMA ThrottledSound ==
    ASSUME NEW c, NEW r, NEW wait \in Nat, Sound(c)
    PROVE  /\ Sound(Throttled(c, r, wait))
           /\ Throttled(c, r, wait).inFlight = Left(c, r).inFlight
           /\ Throttled(c, r, wait).fresh \subseteq Left(c, r).fresh
           /\ \/ Throttled(c, r, wait).cap = Left(c, r).cap
              \/ IsFresh(c, r) /\ Throttled(c, r, wait).fresh = {}
<1> DEFINE l == Left(c, r)
           cooldown == IF wait > 0 THEN Longer(l.cooldown, wait) ELSE l.cooldown
           d == [l EXCEPT !.streak = 0, !.cooldown = cooldown]
           back == [d EXCEPT !.cap = d.good, !.fresh = {}]
           cut == [d EXCEPT !.cap = Cut(d.cap), !.good = None, !.fresh = {}]
<1>1. Sound(l)
  BY LeftSound
<1>2. cooldown \in Nat \cup {None}
  BY <1>1 DEF Sound, InRange, Longer
<1>3. \/ Throttled(c, r, wait) = d
      \/ IsFresh(c, r) /\ d.good # None /\ Throttled(c, r, wait) = back
      \/ IsFresh(c, r) /\ Throttled(c, r, wait) = cut
  BY DEF Throttled
<1> HIDE DEF l, cooldown
<1>4. Shape(d) /\ d.streak = 0 /\ d.inFlight = l.inFlight /\ d.fresh = l.fresh
      /\ d.cap = l.cap /\ d.fed = l.fed /\ d.cooldown = cooldown
      /\ d.quiet = l.quiet /\ d.good = l.good
  BY <1>1 DEF Sound, Shape, Fields
<1> HIDE DEF d
<1>5. Sound(d)
  BY <1>1, <1>2, <1>4, TuningAssumption DEF Sound, InRange, Probes
<1>6. Shape(back) /\ back.cap = d.good /\ back.fresh = {} /\ back.streak = d.streak
      /\ back.inFlight = d.inFlight /\ back.fed = d.fed /\ back.cooldown = d.cooldown
      /\ back.quiet = d.quiet /\ back.good = d.good
  BY <1>5 DEF Sound, Shape, Fields
<1>7. Shape(cut) /\ cut.cap = Cut(d.cap) /\ cut.fresh = {} /\ cut.streak = d.streak
      /\ cut.inFlight = d.inFlight /\ cut.fed = d.fed /\ cut.cooldown = d.cooldown
      /\ cut.quiet = d.quiet /\ cut.good = None
  BY <1>5 DEF Sound, Shape, Fields
<1> HIDE DEF back, cut
<1>8. CASE Throttled(c, r, wait) = d
  BY <1>8, <1>4, <1>5 DEF l
<1>9. CASE IsFresh(c, r) /\ d.good # None /\ Throttled(c, r, wait) = back
  <2>1. Sound(back)
    BY <1>9, <1>5, <1>6 DEF Sound, InRange, Probes
  <2> QED
    BY <2>1, <1>4, <1>6, <1>9 DEF l
<1>10. CASE IsFresh(c, r) /\ Throttled(c, r, wait) = cut
  <2>1. d.cap \in 1..Ceiling
    BY <1>5 DEF Sound, InRange
  <2>2. Cut(d.cap) \in 1..Ceiling
    BY <2>1, CutBounds, CeilingAssumption
  <2>3. Sound(cut)
    BY <2>2, <1>5, <1>7 DEF Sound, InRange, Probes
  <2> QED
    BY <2>3, <1>4, <1>7, <1>10 DEF l
<1> QED
  BY <1>3, <1>8, <1>9, <1>10

(***************************************************************************)
(* Every way a request may end: the place is given back, nothing else.     *)
(***************************************************************************)
LEMMA EndingsSound ==
    ASSUME NEW c, NEW r, Sound(c), NEW e \in Endings(c, r)
    PROVE  /\ Sound(e)
           /\ e.inFlight = IF c.inFlight = 0 THEN 0 ELSE c.inFlight - 1
           /\ e.fresh \subseteq c.fresh \ {r}
<1> DEFINE l == Left(c, r)
           f == [l EXCEPT !.streak = 0]
<1>1. /\ Sound(l) /\ l.fresh \subseteq c.fresh \ {r}
      /\ l.inFlight = IF c.inFlight = 0 THEN 0 ELSE c.inFlight - 1
  BY LeftSound
<1>2. \/ e = Succeeded(c, r) \/ e = f \/ e = l
      \/ \E wait \in RetryAfters : e = Throttled(c, r, wait)
  BY DEF Endings, FailedTransient, Ended
<1>3. CASE e = Succeeded(c, r)
  BY <1>3, <1>1, SucceededSound
<1>4. CASE \E wait \in RetryAfters : e = Throttled(c, r, wait)
  <2>1. PICK wait \in RetryAfters : e = Throttled(c, r, wait)
    BY <1>4
  <2>2. wait \in Nat
    BY RetryAssumption
  <2> QED
    BY <2>1, <2>2, <1>1, ThrottledSound
<1> HIDE DEF l
<1>5. Shape(f) /\ f.streak = 0 /\ f.inFlight = l.inFlight /\ f.fresh = l.fresh
      /\ f.cap = l.cap /\ f.fed = l.fed /\ f.cooldown = l.cooldown
      /\ f.quiet = l.quiet /\ f.good = l.good
  BY <1>1 DEF Sound, Shape, Fields
<1> HIDE DEF f
<1>6. CASE e = f
  BY <1>6, <1>5, <1>1, TuningAssumption DEF Sound, InRange, Probes
<1>7. CASE e = l
  BY <1>7, <1>1
<1> QED
  BY <1>2, <1>3, <1>4, <1>6, <1>7

-----------------------------------------------------------------------------
(* The invariant.                                                          *)

(***************************************************************************)
(* A request that is admitted takes a place in the current epoch.          *)
(***************************************************************************)
LEMMA AdmittedSound ==
    ASSUME NEW c, Sound(c), NEW r \in Request
    PROVE  /\ Sound(Admitted(c, r))
           /\ Admitted(c, r).inFlight = c.inFlight + 1
           /\ Admitted(c, r).fresh = c.fresh \cup {r}
<1> DEFINE a == Admitted(c, r)
<1>1. Shape(a) /\ a.quiet = 0 /\ a.inFlight = c.inFlight + 1 /\ a.fresh = c.fresh \cup {r}
      /\ a.cap = c.cap /\ a.fed = c.fed /\ a.cooldown = c.cooldown
      /\ a.streak = c.streak /\ a.good = c.good
  BY DEF Sound, Shape, Fields, Admitted
<1> HIDE DEF a
<1>2. Sound(a)
  BY <1>1, TuningAssumption DEF Sound, InRange, Probes
<1> QED
  BY <1>1, <1>2 DEF a

(***************************************************************************)
(* Hearing of the waiters changes what is in flight no more than time does.*)
(***************************************************************************)
LEMMA FedSound ==
    ASSUME NEW c, Sound(c), NEW n \in Nat
    PROVE  Sound(Fed(c, n)) /\ Fed(c, n).inFlight = c.inFlight /\ Fed(c, n).fresh \subseteq c.fresh
<1> DEFINE i == IdleReset(c)
           f == [i EXCEPT !.fed = n]
<1>1. Sound(i) /\ i.inFlight = c.inFlight /\ i.fresh \subseteq c.fresh
  BY IdleResetSound
<1>2. f = Fed(c, n)
  BY DEF Fed
<1> HIDE DEF i
<1>3. Shape(f) /\ f.fed = n /\ f.inFlight = i.inFlight /\ f.fresh = i.fresh /\ f.cap = i.cap
      /\ f.streak = i.streak /\ f.cooldown = i.cooldown /\ f.quiet = i.quiet /\ f.good = i.good
  BY <1>1 DEF Sound, Shape, Fields
<1> HIDE DEF f
<1>4. Sound(f)
  BY <1>1, <1>3 DEF Sound, InRange, Probes
<1> QED
  BY <1>1, <1>2, <1>3, <1>4

(***************************************************************************)
(* Time only shortens the cooldown and lengthens the quiet.                *)
(***************************************************************************)
LEMMA ElapsedSound ==
    ASSUME NEW c, Sound(c)
    PROVE  Sound(Elapsed(c)) /\ Elapsed(c).inFlight = c.inFlight /\ Elapsed(c).fresh = c.fresh
<1> DEFINE t == Elapsed(c)
<1>1. Shape(t) /\ t.inFlight = c.inFlight /\ t.fresh = c.fresh /\ t.cap = c.cap
      /\ t.fed = c.fed /\ t.streak = c.streak /\ t.good = c.good
      /\ t.cooldown = (IF c.cooldown \in {None, 0} THEN c.cooldown ELSE c.cooldown - 1)
      /\ t.quiet = (IF c.quiet < IdleTicks THEN c.quiet + 1 ELSE c.quiet)
  BY DEF Sound, Shape, Fields, Elapsed
<1> HIDE DEF t
<1>2. Sound(t)
  BY <1>1, TuningAssumption DEF Sound, InRange, Probes
<1> QED
  BY <1>1, <1>2 DEF t

(***************************************************************************)
(* SignalsIInv is inductive: every signal keeps the controller sound and in step  *)
(* with the set of open requests.                                          *)
(***************************************************************************)
THEOREM ControllerInductive == SignalsSpec => []SignalsIInv
<1>1. SignalsInit => SignalsIInv
  BY CeilingAssumption, TuningAssumption, RequestAssumption, FS_EmptySet
     DEF SignalsInit, Start, SignalsIInv, Sound, Agrees, Shape, Fields, InRange, Probes
<1>2. SignalsIInv /\ [SignalsNext]_signals => SignalsIInv'
  <2> SUFFICES ASSUME SignalsIInv, [SignalsNext]_signals
               PROVE  SignalsIInv'
    OBVIOUS
  <2> USE DEF SignalsIInv
  <2>1. IsFiniteSet(open) /\ Cardinality(open) \in Nat
    BY RequestAssumption, FS_Subset, FS_CardinalityType DEF Agrees
  <2>2. ASSUME NEW r \in Request, SignalAdmit(r)
        PROVE  SignalsIInv'
    <3> DEFINE i == IdleReset(ctl)
    <3>1. Sound(i) /\ i.inFlight = ctl.inFlight /\ i.fresh \subseteq ctl.fresh
      BY IdleResetSound
    <3>2. Cardinality(open') = Cardinality(open) + 1
      BY <2>1, <2>2, FS_AddElement DEF SignalAdmit
    <3>3. ctl' = Admitted(i, r)
      BY <2>2 DEF SignalAdmit
    <3> HIDE DEF i
    <3>4. Sound(ctl') /\ ctl'.inFlight = i.inFlight + 1 /\ ctl'.fresh = i.fresh \cup {r}
      BY <3>1, <3>3, AdmittedSound
    <3> QED
      BY <2>2, <3>1, <3>2, <3>4 DEF SignalAdmit, Agrees
  <2>3. ASSUME NEW r \in Request, SignalEnd(r)
        PROVE  SignalsIInv'
    <3>1. /\ Sound(ctl') /\ ctl'.fresh \subseteq ctl.fresh \ {r}
          /\ ctl'.inFlight = IF ctl.inFlight = 0 THEN 0 ELSE ctl.inFlight - 1
      BY <2>3, EndingsSound DEF SignalEnd
    <3>2. Cardinality(open') = Cardinality(open) - 1 /\ Cardinality(open) # 0
      BY <2>1, <2>3, FS_RemoveElement, FS_EmptySet DEF SignalEnd
    <3> QED
      BY <2>1, <2>3, <3>1, <3>2 DEF SignalEnd, Agrees
  <2>4. ASSUME NEW n \in 0..Cardinality(Request), SignalWaiters(n)
        PROVE  SignalsIInv'
    <3>1. n \in Nat
      BY RequestAssumption, FS_CardinalityType
    <3>2. Sound(ctl') /\ ctl'.inFlight = ctl.inFlight /\ ctl'.fresh \subseteq ctl.fresh
      BY <2>4, <3>1, FedSound DEF SignalWaiters
    <3> QED
      BY <2>4, <3>2 DEF SignalWaiters, Agrees
  <2>5. CASE SignalTick
    <3>1. Sound(ctl') /\ ctl'.inFlight = ctl.inFlight /\ ctl'.fresh = ctl.fresh
      BY <2>5, ElapsedSound DEF SignalTick
    <3> QED
      BY <2>5, <3>1 DEF SignalTick, Agrees
  <2>6. CASE UNCHANGED signals
    BY <2>6 DEF signals, Sound, Agrees, Shape, InRange, Probes
  <2> QED
    BY <2>2, <2>3, <2>4, <2>5, <2>6 DEF SignalsNext
<1> QED
  BY <1>1, <1>2, PTL DEF SignalsSpec

-----------------------------------------------------------------------------
(* What follows from it.                                                   *)

(***************************************************************************)
(* The cap is always between one and the ceiling, the streak and the timers*)
(* are in their ranges.                                                    *)
(***************************************************************************)
THEOREM ControllerTypes == SignalsSpec => []SignalsTypeOK
<1>1. SignalsIInv => SignalsTypeOK
  BY SoundIsController DEF SignalsIInv, Agrees, SignalsTypeOK
<1> QED
  BY <1>1, ControllerInductive, PTL

(***************************************************************************)
(* inFlight counts the open requests.                                      *)
(***************************************************************************)
THEOREM InFlightExact == SignalsSpec => []InFlightIsOpen
<1>1. SignalsIInv => InFlightIsOpen
  BY DEF SignalsIInv, Agrees, InFlightIsOpen, CountsOpen
<1> QED
  BY <1>1, ControllerInductive, PTL

(***************************************************************************)
(* The cap is the proven level or one above it.                            *)
(***************************************************************************)
THEOREM SingleStepProbing == SignalsSpec => []ProbesOneAbove
<1>1. SignalsIInv => ProbesOneAbove
  BY DEF SignalsIInv, Sound, Probes, ProbesOneAbove
<1> QED
  BY <1>1, ControllerInductive, PTL

(***************************************************************************)
(* Forgetting never lowers the cap, and neither does a request that left.  *)
(***************************************************************************)
LEMMA LeftRaises ==
    ASSUME NEW c, NEW r, Sound(c)
    PROVE  /\ IdleReset(c).cap \in Int /\ IdleReset(c).cap >= c.cap
           /\ Left(c, r).cap = IdleReset(c).cap
<1>1. Sound(IdleReset(c))
  BY IdleResetSound
<1>2. IdleReset(c).cap \in {Ceiling, c.cap} /\ c.cap \in 1..Ceiling
  BY DEF IdleReset, Sound, Shape, Fields, InRange
<1>3. Left(c, r).cap = IdleReset(c).cap
  <2> DEFINE d == IdleReset(c)
  <2>1. Shape(d)
    BY <1>1 DEF Sound
  <2>2. Left(c, r) = [d EXCEPT !.inFlight = IF @ = 0 THEN 0 ELSE @ - 1, !.fresh = @ \ {r}]
    BY DEF Left
  <2> HIDE DEF d
  <2>3. Left(c, r).cap = d.cap
    BY <2>1, <2>2 DEF Shape, Fields
  <2> QED
    BY <2>3 DEF d
<1> QED
  BY <1>2, <1>3, CeilingAssumption

(***************************************************************************)
(* Only a fresh request that is throttled lowers the cap, and it leaves no *)
(* fresh request behind.                                                   *)
(***************************************************************************)
LEMMA CutsEndTheEpoch ==
    ASSUME NEW c, NEW r, Sound(c), NEW e \in Endings(c, r), ~(e.cap >= c.cap)
    PROVE  r \in c.fresh /\ e.fresh = {}
<1> DEFINE l == Left(c, r)
<1>1. Sound(l) /\ l.cap \in Int /\ l.cap >= c.cap /\ c.cap \in Int /\ IdleReset(c).fresh \subseteq c.fresh
  BY LeftSound, LeftRaises, IdleResetSound DEF Sound, InRange
<1>2. Succeeded(c, r).cap \in {l.cap, l.cap + 1}
  BY SucceededSound
<1>3. FailedTransient(c, r).cap = l.cap
  <2> HIDE DEF l
  <2>1. [l EXCEPT !.streak = 0].cap = l.cap
    BY <1>1 DEF Sound, Shape, Fields
  <2> QED
    BY <2>1 DEF FailedTransient, l
<1>4. PICK wait \in RetryAfters : e = Throttled(c, r, wait)
  BY <1>1, <1>2, <1>3 DEF Endings, Ended
<1>5. \/ Throttled(c, r, wait).cap = l.cap
      \/ IsFresh(c, r) /\ Throttled(c, r, wait).fresh = {}
  BY ThrottledSound, RetryAssumption
<1> QED
  BY <1>1, <1>4, <1>5 DEF IsFresh

(***************************************************************************)
(* One verdict per batch: once a step has cut the cap, no request still    *)
(* open can end in a way that cuts it again.                               *)
(***************************************************************************)
THEOREM OneVerdictPerBatch == SignalsSpec => CutsNeedNewRequests
<1> DEFINE Cuts == ctl'.cap < ctl.cap /\ open' # {}
           KeepsUp == \A r \in open' : \A c \in Endings(ctl', r) : c.cap >= ctl'.cap
<1>1. SignalsIInv /\ SignalsIInv' /\ [SignalsNext]_signals => [Cuts => KeepsUp]_signals
  <2> SUFFICES ASSUME SignalsIInv, SignalsIInv', SignalsNext, ctl'.cap < ctl.cap,
                      NEW q \in open', NEW e \in Endings(ctl', q)
               PROVE  e.cap >= ctl'.cap
    OBVIOUS
  <2>1. Sound(ctl) /\ Sound(ctl') /\ ctl.cap \in Int /\ ctl'.cap \in Int
    BY DEF SignalsIInv, Sound, InRange
  <2>2. IdleReset(ctl).cap >= ctl.cap /\ IdleReset(ctl).cap \in Int
    BY <2>1, LeftRaises
  <2>3. ASSUME NEW r \in Request, SignalAdmit(r)
        PROVE  FALSE
    <3> DEFINE i == IdleReset(ctl)
    <3>1. Sound(i) /\ ctl' = Admitted(i, r)
      BY <2>1, <2>3, IdleResetSound DEF SignalAdmit
    <3> HIDE DEF i
    <3>2. ctl'.cap = i.cap
      BY <3>1 DEF Sound, Shape, Fields, Admitted
    <3> QED
      BY <2>1, <2>2, <3>2 DEF i
  <2>4. ASSUME NEW n \in 0..Cardinality(Request), SignalWaiters(n)
        PROVE  FALSE
    <3> DEFINE i == IdleReset(ctl)
    <3>1. Sound(i) /\ ctl' = [i EXCEPT !.fed = n]
      BY <2>1, <2>4, IdleResetSound DEF SignalWaiters, Fed
    <3> HIDE DEF i
    <3>2. ctl'.cap = i.cap
      BY <3>1 DEF Sound, Shape, Fields
    <3> QED
      BY <2>1, <2>2, <3>2 DEF i
  <2>5. ASSUME SignalTick
        PROVE  FALSE
    <3>1. ctl'.cap = ctl.cap
      BY <2>1, <2>5 DEF SignalTick, Elapsed, Sound, Shape, Fields
    <3> QED
      BY <2>1, <3>1
  <2>6. PICK r \in Request : SignalEnd(r)
    BY <2>3, <2>4, <2>5 DEF SignalsNext
  <2>7. ctl'.fresh = {}
    BY <2>1, <2>6, CutsEndTheEpoch DEF SignalEnd
  <2> QED
    BY <2>1, <2>7, CutsEndTheEpoch, EndingsSound DEF Sound, InRange
<1> QED
  BY <1>1, ControllerInductive, PTL DEF SignalsSpec, CutsNeedNewRequests
-----------------------------------------------------------------------------
(***************************************************************************)
(* The bucket.  Fits says that a bucket and the places of the requests     *)
(* tell the same story; a drain is followed with the places its grants     *)
(* have reached so far.                                                    *)
(***************************************************************************)
Places == {"idle", "asking", "queued", "granted", "settled"}
OpenIn(where) == {r \in Request : where[r] = "granted"}
OpenOf(where, run) == {r \in OpenIn(where) : RunOf[r] = run}
QueuedIn(where, run) == {r \in Request : where[r] = "queued" /\ RunOf[r] = run}

Slots == {"ctl", "queue", "turn", "lastGrantedRun", "inFlightByRun", "told"}
Framed(b) ==
    /\ b = [f \in Slots |-> b[f]]
    /\ Sound(b.ctl)
    /\ b.queue \in [Run -> Seq(Request)]
    /\ b.turn \in Seq(Run)
    /\ b.lastGrantedRun \in Run \cup {Observer, None}
    /\ b.inFlightByRun \in [Run -> Int]
    /\ b.told \in [Run -> (1..Ceiling) \cup {None}]

PlacesFit(where) ==
    /\ where \in [Request -> Places]
    /\ \A r \in Request : where[r] \in {"asking", "queued"} => RunOf[r] \in Run

CountsFit(b, where) ==
    /\ Agrees(b.ctl, OpenIn(where))
    /\ \A run \in Run : b.inFlightByRun[run] = Cardinality(OpenOf(where, run))

QueuesFit(b, where) ==
    /\ \A run \in Run : Range(b.queue[run]) = QueuedIn(where, run) /\ IsInjective(b.queue[run])
    /\ IsInjective(b.turn)
    /\ Range(b.turn) = {run \in Run : b.queue[run] # <<>>}

Fits(b, where) ==
    Framed(b) /\ PlacesFit(where) /\ CountsFit(b, where) /\ QueuesFit(b, where)

(* Idleness has been seen to: another look would not move the gate. *)
Rested(c) == c.inFlight = 0 /\ c.quiet = IdleTicks => c.cap = Ceiling /\ c.cooldown = None

(* No more in flight than the cap, outside a cooldown. *)
Under(c) == c.inFlight <= c.cap /\ c.cooldown \in {None, 0} /\ c.inFlight > 0

(* The cap was raised to the ceiling, or neither it nor what was told moved. *)
Kept(b, d) == d.ctl.cap = Ceiling \/ (d.ctl.cap = b.ctl.cap /\ d.told = b.told)

SameQueues(b, d) == d.queue = b.queue /\ d.turn = b.turn

(***************************************************************************)
(* A fan-out sets the controller and what the engaged runs were told.      *)
(***************************************************************************)
LEMMA FanOutFrame ==
    ASSUME NEW b, Framed(b), NEW c, Sound(c)
    PROVE  /\ Framed(FanOut(b, c)) /\ FanOut(b, c).ctl = c
           /\ SameQueues(b, FanOut(b, c))
           /\ FanOut(b, c).lastGrantedRun = b.lastGrantedRun
           /\ FanOut(b, c).inFlightByRun = b.inFlightByRun
           /\ \A run \in Run : FanOut(b, c).told[run] =
                 IF c.cap # b.ctl.cap /\ Engaged(b, run) THEN c.cap ELSE b.told[run]
           /\ c.cap = b.ctl.cap => FanOut(b, c).told = b.told
<1> DEFINE told == [run \in Run |-> IF c.cap # b.ctl.cap /\ Engaged(b, run)
                                      THEN c.cap ELSE b.told[run]]
           f == [b EXCEPT !.ctl = c, !.told = told]
<1>1. FanOut(b, c) = f
  BY DEF FanOut
<1>2. c.cap \in 1..Ceiling
  BY DEF Sound, InRange
<1>3. told \in [Run -> (1..Ceiling) \cup {None}]
  BY <1>2 DEF Framed
<1>4. \A run \in Run : told[run] = IF c.cap # b.ctl.cap /\ Engaged(b, run)
                                     THEN c.cap ELSE b.told[run]
  OBVIOUS
<1>5. c.cap = b.ctl.cap => told = b.told
  <2> SUFFICES ASSUME c.cap = b.ctl.cap PROVE told = b.told
    OBVIOUS
  <2>1. told = [run \in Run |-> b.told[run]]
    OBVIOUS
  <2> HIDE DEF told
  <2> QED
    BY <2>1 DEF Framed
<1> HIDE DEF told
<1>6. /\ f = [g \in Slots |-> f[g]] /\ f.ctl = c /\ f.told = told /\ f.queue = b.queue
      /\ f.turn = b.turn /\ f.lastGrantedRun = b.lastGrantedRun
      /\ f.inFlightByRun = b.inFlightByRun
  BY DEF Framed, Slots
<1> HIDE DEF f
<1>7. Framed(f)
  BY <1>3, <1>6 DEF Framed
<1> QED
  BY <1>1, <1>4, <1>5, <1>6, <1>7 DEF SameQueues

(***************************************************************************)
(* So it keeps the account as long as the controller does.                 *)
(***************************************************************************)
LEMMA FanOutFits ==
    ASSUME NEW b, NEW where, Fits(b, where), NEW c, Sound(c), Agrees(c, OpenIn(where))
    PROVE  Fits(FanOut(b, c), where)
<1> DEFINE f == FanOut(b, c)
<1>1. Framed(f) /\ f.ctl = c /\ SameQueues(b, f) /\ f.inFlightByRun = b.inFlightByRun
  BY FanOutFrame DEF Fits
<1> HIDE DEF f
<1>2. CountsFit(f, where) /\ QueuesFit(f, where)
  BY <1>1 DEF Fits, CountsFit, QueuesFit, SameQueues
<1> QED
  BY <1>1, <1>2 DEF Fits, f

(***************************************************************************)
(* Forgetting leaves a rested controller, and moves the gate of no other.  *)
(***************************************************************************)
LEMMA IdleResetRests ==
    ASSUME NEW c, Sound(c)
    PROVE  /\ Rested(IdleReset(c))
           /\ IdleReset(c).cap \in {c.cap, Ceiling}
           /\ IdleReset(c).quiet = c.quiet
           /\ c.inFlight # 0 => IdleReset(c) = c
           /\ Rested(c) => IdleReset(c).cap = c.cap /\ IdleReset(c).cooldown = c.cooldown
<1> DEFINE d == [c EXCEPT !.cap = Ceiling, !.fresh = {}, !.streak = 0,
                          !.cooldown = None, !.good = None]
<1>1. d.cap = Ceiling /\ d.cooldown = None /\ d.quiet = c.quiet
  BY DEF Sound, Shape, Fields
<1>2. IdleReset(c) = IF c.inFlight = 0 /\ c.quiet = IdleTicks THEN d ELSE c
  BY DEF IdleReset
<1> HIDE DEF d
<1> QED
  BY <1>1, <1>2 DEF Rested

(***************************************************************************)
(* Observing and feeding: the account is kept, idleness seen to, the gate  *)
(* of a rested bucket not moved.                                           *)
(***************************************************************************)
LEMMA ObserveFits ==
    ASSUME NEW b, NEW where, Fits(b, where)
    PROVE  /\ Fits(Observe(b), where) /\ Rested(Observe(b).ctl)
           /\ SameQueues(b, Observe(b)) /\ Kept(b, Observe(b))
           /\ Observe(b).ctl = IdleReset(b.ctl)
           /\ Observe(b).ctl.inFlight = b.ctl.inFlight
           /\ b.ctl.inFlight # 0 => Observe(b).ctl = b.ctl
           /\ Rested(b.ctl) => /\ Observe(b).ctl.cap = b.ctl.cap /\ Observe(b).told = b.told
                               /\ Observe(b).ctl.cooldown = b.ctl.cooldown
<1> DEFINE c == IdleReset(b.ctl)
<1>1. Framed(b) /\ Sound(b.ctl) /\ Agrees(b.ctl, OpenIn(where))
  BY DEF Fits, Framed, CountsFit
<1>2. Sound(c) /\ c.inFlight = b.ctl.inFlight /\ c.fresh \subseteq b.ctl.fresh
  BY <1>1, IdleResetSound
<1>3. /\ Rested(c) /\ c.cap \in {b.ctl.cap, Ceiling} /\ (b.ctl.inFlight # 0 => c = b.ctl)
      /\ Rested(b.ctl) => c.cap = b.ctl.cap /\ c.cooldown = b.ctl.cooldown
  BY <1>1, IdleResetRests
<1>4. Observe(b) = FanOut(b, c)
  BY DEF Observe
<1> HIDE DEF c
<1>5. Agrees(c, OpenIn(where))
  BY <1>1, <1>2 DEF Agrees
<1>6. Fits(FanOut(b, c), where)
  BY <1>2, <1>5, FanOutFits
<1>7. /\ FanOut(b, c).ctl = c /\ SameQueues(b, FanOut(b, c))
      /\ c.cap = b.ctl.cap => FanOut(b, c).told = b.told
  BY <1>1, <1>2, FanOutFrame
<1> DEFINE o == FanOut(b, c)
<1>8. /\ o.ctl = c /\ Fits(o, where) /\ SameQueues(b, o)
      /\ c.cap = b.ctl.cap => o.told = b.told
  BY <1>6, <1>7
<1> HIDE DEF o
<1>9. Kept(b, o)
  BY <1>3, <1>8 DEF Kept
<1>10. Observe(b) = o /\ IdleReset(b.ctl) = c
  BY <1>4 DEF o, c
<1> QED
  BY <1>2, <1>3, <1>8, <1>9, <1>10

LEMMA WaitingCounts ==
    ASSUME NEW b, Framed(b)
    PROVE  Queued(b) \subseteq Request /\ IsFiniteSet(Queued(b))
           /\ Waiting(b) \in Nat /\ (Waiting(b) = 0 <=> Queued(b) = {})
<1>1. \A run \in Run : b.queue[run] \in Seq(Request)
  BY DEF Framed
<1>2. \A run \in Run : Range(b.queue[run]) \subseteq Request
  BY <1>1, ElementOfSeq, LenProperties DEF Range
<1>3. Queued(b) \subseteq Request
  BY <1>2 DEF Queued
<1> QED
  BY <1>3, RequestAssumption, FS_Subset, FS_CardinalityType, FS_EmptySet DEF Waiting

LEMMA FeedFits ==
    ASSUME NEW b, NEW where, Fits(b, where)
    PROVE  /\ Fits(Feed(b), where) /\ Rested(Feed(b).ctl)
           /\ SameQueues(b, Feed(b)) /\ Kept(b, Feed(b))
           /\ Feed(b).ctl.inFlight = b.ctl.inFlight
           /\ Rested(b.ctl) => /\ Feed(b).ctl.cap = b.ctl.cap /\ Feed(b).told = b.told
                               /\ Feed(b).ctl.cooldown = b.ctl.cooldown
<1> DEFINE i == IdleReset(b.ctl)
           n == Waiting(b)
           c == [i EXCEPT !.fed = n]
<1>1. Framed(b) /\ Sound(b.ctl) /\ Agrees(b.ctl, OpenIn(where))
  BY DEF Fits, Framed, CountsFit
<1>2. n \in Nat
  BY <1>1, WaitingCounts
<1>3. /\ Sound(i) /\ i.inFlight = b.ctl.inFlight /\ Rested(i) /\ i.cap \in {b.ctl.cap, Ceiling}
      /\ i.fresh \subseteq b.ctl.fresh
      /\ Rested(b.ctl) => i.cap = b.ctl.cap /\ i.cooldown = b.ctl.cooldown
  BY <1>1, IdleResetSound, IdleResetRests
<1>4. Feed(b) = FanOut(b, Fed(b.ctl, n)) /\ Fed(b.ctl, n) = c
  BY DEF Feed, Fed
<1>5. Sound(c)
  BY <1>1, <1>2, <1>4, FedSound
<1> HIDE DEF i, n
<1>6. /\ c.inFlight = i.inFlight /\ c.cap = i.cap /\ c.cooldown = i.cooldown
      /\ c.quiet = i.quiet /\ c.fresh = i.fresh
  BY <1>3 DEF Sound, Shape, Fields
<1> HIDE DEF c
<1>7. Agrees(c, OpenIn(where)) /\ Rested(c)
  BY <1>1, <1>3, <1>6 DEF Agrees, Rested
<1>8. Fits(FanOut(b, c), where)
  BY <1>5, <1>7, FanOutFits
<1>9. /\ FanOut(b, c).ctl = c /\ SameQueues(b, FanOut(b, c))
      /\ c.cap = b.ctl.cap => FanOut(b, c).told = b.told
  BY <1>1, <1>5, FanOutFrame
<1> DEFINE o == FanOut(b, c)
<1>10. /\ o.ctl = c /\ Fits(o, where) /\ SameQueues(b, o)
       /\ c.cap = b.ctl.cap => o.told = b.told
  BY <1>8, <1>9
<1> HIDE DEF o
<1>11. Kept(b, o)
  BY <1>3, <1>6, <1>10 DEF Kept
<1>12. Feed(b) = o
  BY <1>4 DEF o
<1> QED
  BY <1>3, <1>6, <1>7, <1>10, <1>11, <1>12

(* One request changes its place. *)
Moves(where, moved, r, p) ==
    /\ where \in [Request -> Places] /\ moved \in [Request -> Places] /\ r \in Request
    /\ \A q \in Request : moved[q] = IF q = r THEN p ELSE where[q]

LEMMA MovesByExcept ==
    ASSUME NEW where \in [Request -> Places], NEW r \in Request, NEW p \in Places
    PROVE  Moves(where, [where EXCEPT ![r] = p], r, p)
BY DEF Moves

(***************************************************************************)
(* A request that changes its place joins or leaves two sets.              *)
(***************************************************************************)
LEMMA Moved ==
    ASSUME NEW where, NEW moved, NEW r, NEW p, Moves(where, moved, r, p)
    PROVE  /\ OpenIn(moved) = IF p = "granted" THEN OpenIn(where) \cup {r}
                                               ELSE OpenIn(where) \ {r}
           /\ \A run : OpenOf(moved, run) =
                 IF p = "granted" /\ RunOf[r] = run THEN OpenOf(where, run) \cup {r}
                                                    ELSE OpenOf(where, run) \ {r}
           /\ \A run : QueuedIn(moved, run) =
                 IF p = "queued" /\ RunOf[r] = run THEN QueuedIn(where, run) \cup {r}
                                                   ELSE QueuedIn(where, run) \ {r}
<1>1. r \in Request /\ \A q \in Request : moved[q] = IF q = r THEN p ELSE where[q]
  BY DEF Moves
<1>2. OpenIn(moved) = IF p = "granted" THEN OpenIn(where) \cup {r} ELSE OpenIn(where) \ {r}
  BY <1>1 DEF OpenIn
<1>3. ASSUME NEW run
      PROVE  OpenOf(moved, run) = IF p = "granted" /\ RunOf[r] = run THEN OpenOf(where, run) \cup {r}
                                                                     ELSE OpenOf(where, run) \ {r}
  BY <1>2 DEF OpenOf
<1>4. ASSUME NEW run
      PROVE  QueuedIn(moved, run) = IF p = "queued" /\ RunOf[r] = run
                                      THEN QueuedIn(where, run) \cup {r}
                                      ELSE QueuedIn(where, run) \ {r}
  BY <1>1 DEF QueuedIn
<1> QED
  BY <1>1, <1>2, <1>3, <1>4

LEMMA OpenFinite ==
    ASSUME NEW where
    PROVE  /\ IsFiniteSet(OpenIn(where)) /\ Cardinality(OpenIn(where)) \in Nat
           /\ \A run : IsFiniteSet(OpenOf(where, run)) /\ Cardinality(OpenOf(where, run)) \in Nat
<1>1. OpenIn(where) \subseteq Request /\ \A run : OpenOf(where, run) \subseteq Request
  BY DEF OpenIn, OpenOf
<1> QED
  BY <1>1, RequestAssumption, FS_Subset, FS_CardinalityType

LEMMA OpenGrows ==
    ASSUME NEW where, NEW moved, NEW r, Moves(where, moved, r, "granted"),
           where[r] # "granted"
    PROVE  /\ Cardinality(OpenIn(moved)) = Cardinality(OpenIn(where)) + 1
           /\ \A run : Cardinality(OpenOf(moved, run)) =
                 IF RunOf[r] = run THEN Cardinality(OpenOf(where, run)) + 1
                                   ELSE Cardinality(OpenOf(where, run))
<1>1. /\ OpenIn(moved) = OpenIn(where) \cup {r}
      /\ \A run : OpenOf(moved, run) = IF RunOf[r] = run THEN OpenOf(where, run) \cup {r}
                                                         ELSE OpenOf(where, run) \ {r}
  BY Moved
<1>2. r \notin OpenIn(where) /\ \A run : r \notin OpenOf(where, run)
  BY DEF OpenIn, OpenOf
<1>3. \A run : OpenOf(where, run) \ {r} = OpenOf(where, run)
  BY <1>2
<1>4. \A run : IsFiniteSet(OpenIn(where)) /\ IsFiniteSet(OpenOf(where, run))
  BY OpenFinite
<1>5. Cardinality(OpenIn(moved)) = Cardinality(OpenIn(where)) + 1
  BY <1>1, <1>2, <1>4, FS_AddElement
<1>6. \A run : Cardinality(OpenOf(moved, run)) =
                 IF RunOf[r] = run THEN Cardinality(OpenOf(where, run)) + 1
                                   ELSE Cardinality(OpenOf(where, run))
  BY <1>1, <1>2, <1>3, <1>4, FS_AddElement
<1> QED
  BY <1>5, <1>6

LEMMA OpenShrinks ==
    ASSUME NEW where, NEW moved, NEW r, NEW p, Moves(where, moved, r, p),
           where[r] = "granted", p # "granted"
    PROVE  /\ Cardinality(OpenIn(moved)) = Cardinality(OpenIn(where)) - 1
           /\ \A run : Cardinality(OpenOf(moved, run)) =
                 IF RunOf[r] = run THEN Cardinality(OpenOf(where, run)) - 1
                                   ELSE Cardinality(OpenOf(where, run))
<1>1. /\ OpenIn(moved) = OpenIn(where) \ {r}
      /\ \A run : OpenOf(moved, run) = OpenOf(where, run) \ {r}
  BY Moved
<1>2. r \in OpenIn(where) /\ \A run : r \in OpenOf(where, run) <=> RunOf[r] = run
  BY DEF OpenIn, OpenOf, Moves
<1>3. \A run : RunOf[r] # run => OpenOf(where, run) \ {r} = OpenOf(where, run)
  BY <1>2
<1>4. \A run : IsFiniteSet(OpenIn(where)) /\ IsFiniteSet(OpenOf(where, run))
  BY OpenFinite
<1>5. Cardinality(OpenIn(moved)) = Cardinality(OpenIn(where)) - 1
  BY <1>1, <1>2, <1>4, FS_RemoveElement
<1>6. \A run : Cardinality(OpenOf(moved, run)) =
                 IF RunOf[r] = run THEN Cardinality(OpenOf(where, run)) - 1
                                   ELSE Cardinality(OpenOf(where, run))
  BY <1>1, <1>2, <1>3, <1>4, FS_RemoveElement
<1> QED
  BY <1>5, <1>6

(***************************************************************************)
(* The count of a run moves, that of the observer is kept by nobody.       *)
(***************************************************************************)
LEMMA BumpFrame ==
    ASSUME NEW b, Framed(b), NEW run \in Run \cup {Observer}, NEW n \in Int
    PROVE  /\ Framed(Bump(b, run, n)) /\ Bump(b, run, n).ctl = b.ctl
           /\ SameQueues(b, Bump(b, run, n)) /\ Bump(b, run, n).told = b.told
           /\ \A q \in Run : Bump(b, run, n).inFlightByRun[q] =
                IF run = q THEN b.inFlightByRun[q] + n ELSE b.inFlightByRun[q]
<1>1. CASE run = Observer
  <2>1. Bump(b, run, n) = b /\ \A q \in Run : run # q
    BY <1>1, ObserverAssumption DEF Bump
  <2> QED
    BY <2>1 DEF SameQueues
<1>2. CASE run # Observer
  <2> DEFINE f == b.inFlightByRun
             g == [f EXCEPT ![run] = f[run] + n]
             u == [b EXCEPT !.inFlightByRun = g]
  <2>1. Bump(b, run, n) = u
    BY <1>2 DEF Bump, Framed, Slots
  <2>2. run \in Run /\ f \in [Run -> Int]
    BY <1>2 DEF Framed
  <2> HIDE DEF f
  <2>3. g \in [Run -> Int] /\ \A q \in Run : g[q] = IF run = q THEN f[q] + n ELSE f[q]
    BY <2>2
  <2> HIDE DEF g
  <2>4. /\ u = [s \in Slots |-> u[s]] /\ u.inFlightByRun = g /\ u.ctl = b.ctl
        /\ u.queue = b.queue /\ u.turn = b.turn /\ u.told = b.told
        /\ u.lastGrantedRun = b.lastGrantedRun
    BY DEF Framed, Slots
  <2> HIDE DEF u
  <2>5. Framed(u)
    BY <2>3, <2>4 DEF Framed
  <2> QED
    BY <2>1, <2>3, <2>4, <2>5 DEF SameQueues, f
<1> QED
  BY <1>1, <1>2

(***************************************************************************)
(* A grant keeps the account; through an open gate it stays under the cap. *)
(***************************************************************************)
LEMMA GrantFits ==
    ASSUME NEW b, NEW where, Fits(b, where),
           NEW r \in Request, where[r] \notin {"granted", "queued"}
    PROVE  /\ Fits(Grant(b, r), [where EXCEPT ![r] = "granted"])
           /\ SameQueues(b, Grant(b, r)) /\ Kept(b, Grant(b, r))
           /\ Rested(Grant(b, r).ctl)
           /\ Grant(b, r).ctl.inFlight = b.ctl.inFlight + 1
           /\ b.ctl.inFlight # 0 => Grant(b, r).ctl.cap = b.ctl.cap
           /\ Rested(b.ctl) => Grant(b, r).ctl.cap = b.ctl.cap /\ Grant(b, r).told = b.told
           /\ Rested(b.ctl) /\ CanAdmit(b.ctl) => Under(Grant(b, r).ctl)
<1> DEFINE s == Observe(b)
           a == Admitted(s.ctl, r)
           e == [s EXCEPT !.ctl = a, !.lastGrantedRun = RunOf[r]]
           g == Bump(e, RunOf[r], 1)
<1> DEFINE moved == [where EXCEPT ![r] = "granted"]
<1>0. RunOf[r] \in Run \cup {Observer}
  BY RunOfAssumption
<1>1. /\ Fits(s, where) /\ SameQueues(b, s) /\ Kept(b, s) /\ s.ctl.inFlight = b.ctl.inFlight
      /\ b.ctl.inFlight # 0 => s.ctl = b.ctl
      /\ Rested(b.ctl) => /\ s.ctl.cap = b.ctl.cap /\ s.told = b.told
                          /\ s.ctl.cooldown = b.ctl.cooldown
  BY ObserveFits
<1>2. Grant(b, r) = g
  BY DEF Grant
<1> HIDE DEF s
<1>3. Framed(s) /\ Sound(s.ctl) /\ CountsFit(s, where) /\ QueuesFit(s, where)
  BY <1>1 DEF Fits, Framed
<1>4. /\ Sound(a) /\ a.inFlight = s.ctl.inFlight + 1 /\ a.fresh = s.ctl.fresh \cup {r}
      /\ a.cap = s.ctl.cap /\ a.cooldown = s.ctl.cooldown
  <2>1. Sound(a) /\ a.inFlight = s.ctl.inFlight + 1 /\ a.fresh = s.ctl.fresh \cup {r}
    BY <1>3, AdmittedSound
  <2>2. a.cap = s.ctl.cap /\ a.cooldown = s.ctl.cooldown
    BY <1>3 DEF Sound, Shape, Fields, Admitted
  <2> QED
    BY <2>1, <2>2
<1> HIDE DEF a
<1>5. /\ e = [f \in Slots |-> e[f]] /\ e.ctl = a /\ e.lastGrantedRun = RunOf[r]
      /\ e.queue = s.queue /\ e.turn = s.turn /\ e.told = s.told
      /\ e.inFlightByRun = s.inFlightByRun
  BY <1>3 DEF Framed, Slots
<1> HIDE DEF e
<1>6. Framed(e)
  BY <1>0, <1>3, <1>4, <1>5 DEF Framed
<1>7. /\ Framed(g) /\ g.ctl = a /\ SameQueues(e, g) /\ g.told = s.told
      /\ \A q \in Run : g.inFlightByRun[q] =
           IF RunOf[r] = q THEN s.inFlightByRun[q] + 1 ELSE s.inFlightByRun[q]
  <2>1. /\ Framed(g) /\ g.ctl = e.ctl /\ SameQueues(e, g) /\ g.told = e.told
        /\ \A q \in Run : g.inFlightByRun[q] =
             IF RunOf[r] = q THEN e.inFlightByRun[q] + 1 ELSE e.inFlightByRun[q]
    BY <1>0, <1>6, BumpFrame
  <2> HIDE DEF g
  <2> QED
    BY <2>1, <1>5
<1> HIDE DEF g
<1>8. PlacesFit(where) /\ where \in [Request -> Places] /\ "granted" \in Places
  BY <1>1 DEF Fits, PlacesFit, Places
<1>9. /\ moved \in [Request -> Places] /\ OpenIn(moved) = OpenIn(where) \cup {r}
      /\ \A run : QueuedIn(moved, run) = QueuedIn(where, run) \ {r}
      /\ \A q \in Request : moved[q] = IF q = r THEN "granted" ELSE where[q]
  <2>1. Moves(where, moved, r, "granted")
    BY <1>8, MovesByExcept
  <2> HIDE DEF moved
  <2> QED
    BY <2>1, Moved DEF Moves
<1>10. /\ Cardinality(OpenIn(moved)) = Cardinality(OpenIn(where)) + 1
       /\ \A run : Cardinality(OpenOf(moved, run)) =
             IF RunOf[r] = run THEN Cardinality(OpenOf(where, run)) + 1
                               ELSE Cardinality(OpenOf(where, run))
  <2>1. Moves(where, moved, r, "granted") /\ where[r] # "granted"
    BY <1>8, MovesByExcept
  <2> HIDE DEF moved
  <2> QED
    BY <2>1, OpenGrows
<1> HIDE DEF moved
<1>11. PlacesFit(moved)
  BY <1>8, <1>9 DEF PlacesFit
<1>12. CountsFit(g, moved)
  BY <1>3, <1>4, <1>7, <1>9, <1>10 DEF CountsFit, Agrees
<1>13. \A run : QueuedIn(moved, run) = QueuedIn(where, run)
  BY <1>9 DEF QueuedIn
<1>14. g.queue = s.queue /\ g.turn = s.turn
  BY <1>5, <1>7 DEF SameQueues
<1>15. QueuesFit(g, moved)
  BY <1>3, <1>13, <1>14 DEF QueuesFit
<1>16. Fits(g, moved) /\ SameQueues(b, g)
  BY <1>1, <1>7, <1>11, <1>12, <1>14, <1>15 DEF Fits, SameQueues
<1>17. /\ g.ctl.inFlight = b.ctl.inFlight + 1 /\ g.ctl.cap = s.ctl.cap
       /\ g.ctl.cooldown = s.ctl.cooldown /\ b.ctl.inFlight \in Nat /\ g.ctl.cap \in Int
       /\ b.ctl.cap \in Int
  <2>1. Sound(b.ctl) /\ Sound(a)
    BY <1>4 DEF Fits, Framed
  <2>2. b.ctl.inFlight \in Nat /\ b.ctl.cap \in Int /\ a.cap \in Int
    BY <2>1 DEF Sound, InRange
  <2> QED
    BY <2>2, <1>1, <1>4, <1>7
<1>18. Kept(b, g) /\ Rested(g.ctl)
  BY <1>1, <1>7, <1>17 DEF Kept, Rested
<1>19. Rested(b.ctl) /\ CanAdmit(b.ctl) => Under(g.ctl)
  BY <1>1, <1>17 DEF CanAdmit, Under
<1>20. /\ b.ctl.inFlight # 0 => g.ctl.cap = b.ctl.cap
       /\ Rested(b.ctl) => g.ctl.cap = b.ctl.cap /\ g.told = b.told
  BY <1>1, <1>7, <1>17
<1> QED
  BY <1>2, <1>16, <1>17, <1>18, <1>19, <1>20 DEF moved

(***************************************************************************)
(* A request leaves its queue from anywhere in it, or joins it at the end. *)
(***************************************************************************)
LEMMA DequeueFields ==
    ASSUME NEW b, Framed(b), NEW r, RunOf[r] \in Run
    PROVE  /\ Dequeue(b, r).ctl = b.ctl /\ Dequeue(b, r).told = b.told
           /\ \A q \in Run : Dequeue(b, r).queue[q] =
                 IF q = RunOf[r] THEN Keep(b.queue[q], Request \ {r}) ELSE b.queue[q]
<1> DEFINE run == RunOf[r]
           line == Keep(b.queue[run], Request \ {r})
           queue == [b.queue EXCEPT ![run] = line]
           turn == IF Len(b.queue[run]) = 1 THEN Keep(b.turn, Run \ {run}) ELSE b.turn
           d == [b EXCEPT !.queue = queue, !.turn = turn]
<1>1. Dequeue(b, r) = d
  BY DEF Dequeue, Framed, Slots
<1>2. \A q \in Run : queue[q] = IF q = run THEN line ELSE b.queue[q]
  BY DEF Framed
<1> HIDE DEF line, queue, turn
<1>3. d.queue = queue /\ d.ctl = b.ctl /\ d.told = b.told
  BY DEF Framed, Slots
<1> HIDE DEF d
<1> QED
  BY <1>1, <1>2, <1>3 DEF line

LEMMA DequeueFits ==
    ASSUME NEW b, NEW where, Fits(b, where), NEW r \in Request, where[r] = "queued"
    PROVE  Fits(Dequeue(b, r), [where EXCEPT ![r] = "idle"])
<1> DEFINE run == RunOf[r]
           line == Keep(b.queue[run], Request \ {r})
           queue == [b.queue EXCEPT ![run] = line]
           turn == IF Len(b.queue[run]) = 1 THEN Keep(b.turn, Run \ {run}) ELSE b.turn
           d == [b EXCEPT !.queue = queue, !.turn = turn]
<1> DEFINE moved == [where EXCEPT ![r] = "idle"]
<1>1. Framed(b) /\ PlacesFit(where) /\ CountsFit(b, where) /\ QueuesFit(b, where)
  BY DEF Fits
<1>2. run \in Run /\ r \in QueuedIn(where, run)
  BY <1>1 DEF PlacesFit, QueuedIn
<1>3. Dequeue(b, r) = d
  BY <1>1 DEF Dequeue, Framed, Slots
<1>4. /\ line \in Seq(Request) /\ Range(line) = Range(b.queue[run]) \ {r} /\ IsInjective(line)
  <2>1. b.queue[run] \in Seq(Request) /\ Range(b.queue[run]) \subseteq Request
        /\ IsInjective(b.queue[run])
    BY <1>1, <1>2 DEF Framed, QueuesFit, QueuedIn
  <2>2. /\ Keep(b.queue[run], Request \ {r}) \in Seq(Request)
        /\ Range(Keep(b.queue[run], Request \ {r})) = Range(b.queue[run]) \cap (Request \ {r})
        /\ IsInjective(b.queue[run]) => IsInjective(Keep(b.queue[run], Request \ {r}))
    BY <2>1, KeepRange
  <2> QED
    BY <2>1, <2>2
<1>5. /\ turn \in Seq(Run) /\ IsInjective(turn)
      /\ Range(turn) = IF Len(b.queue[run]) = 1 THEN Range(b.turn) \ {run} ELSE Range(b.turn)
  <2>1. b.turn \in Seq(Run) /\ IsInjective(b.turn) /\ Range(b.turn) \subseteq Run
    BY <1>1 DEF Framed, QueuesFit
  <2>2. /\ Keep(b.turn, Run \ {run}) \in Seq(Run)
        /\ Range(Keep(b.turn, Run \ {run})) = Range(b.turn) \cap (Run \ {run})
        /\ IsInjective(b.turn) => IsInjective(Keep(b.turn, Run \ {run}))
    BY <2>1, KeepRange
  <2> QED
    BY <2>1, <2>2
<1>6. (line # <<>>) <=> (Len(b.queue[run]) # 1)
  <2> DEFINE old == b.queue[run]
  <2>1. old \in Seq(Request) /\ IsInjective(old) /\ r \in Range(old)
    BY <1>1, <1>2 DEF Framed, QueuesFit
  <2>2. Len(old) \in Nat /\ DOMAIN old = 1..Len(old) /\ Len(line) \in Nat /\ DOMAIN line = 1..Len(line)
    BY <2>1, <1>4, LenProperties
  <2>3. PICK n \in 1..Len(old) : old[n] = r
    BY <2>1, <2>2 DEF Range
  <2>4. Range(line) = Range(old) \ {r}
    BY <1>4
  <2>5. (line = <<>>) <=> (Range(line) = {})
    <3>1. (line = <<>>) <=> (Len(line) = 0)
      BY <1>4, EmptySeq
    <3>2. (DOMAIN line = {}) <=> (Len(line) = 0)
      <4>1. 1 \in 1..Len(line) <=> Len(line) # 0
        BY <2>2
      <4>2. Len(line) = 0 => 1..Len(line) = {}
        BY <2>2
      <4> HIDE DEF line
      <4> QED
        BY <4>1, <4>2, <2>2
    <3>3. (DOMAIN line = {}) <=> (Range(line) = {})
      BY DEF Range
    <3> HIDE DEF line
    <3> QED
      BY <3>1, <3>2, <3>3
  <2> HIDE DEF line, old
  <2>6. CASE Len(old) = 1
    <3>1. Range(old) = {r}
      BY <2>6, <2>2, <2>3 DEF Range
    <3> QED
      BY <3>1, <2>4, <2>5, <2>6 DEF old
  <2>7. CASE Len(old) # 1
    <3>1. PICK m \in 1..Len(old) : m # n
      <4>1. 1 \in 1..Len(old) /\ 2 \in 1..Len(old)
        BY <2>2, <2>3, <2>7
      <4> QED
        BY <4>1
    <3>2. old[m] \in Range(old) /\ old[m] # r
      BY <3>1, <2>1, <2>2, <2>3 DEF Range, IsInjective
    <3> QED
      BY <3>2, <2>4, <2>5, <2>7 DEF old
  <2> QED
    BY <2>6, <2>7
<1> HIDE DEF line
<1>7. queue \in [Run -> Seq(Request)] /\ \A q \in Run : queue[q] = IF q = run THEN line ELSE b.queue[q]
  BY <1>1, <1>2, <1>4 DEF Framed
<1> HIDE DEF queue, turn
<1>8. /\ d = [f \in Slots |-> d[f]] /\ d.queue = queue /\ d.turn = turn /\ d.ctl = b.ctl
      /\ d.told = b.told /\ d.inFlightByRun = b.inFlightByRun /\ d.lastGrantedRun = b.lastGrantedRun
  BY <1>1 DEF Framed, Slots
<1> HIDE DEF d
<1>9. Framed(d)
  BY <1>1, <1>5, <1>7, <1>8 DEF Framed
<1>10. Moves(where, moved, r, "idle") /\ moved[r] = "idle"
  BY <1>1, MovesByExcept DEF PlacesFit, Places
<1> HIDE DEF moved
<1>11. /\ OpenIn(moved) = OpenIn(where) \ {r} /\ \A q : OpenOf(moved, q) = OpenOf(where, q) \ {r}
       /\ \A q : QueuedIn(moved, q) = QueuedIn(where, q) \ {r}
  BY <1>10, Moved
<1>12. OpenIn(moved) = OpenIn(where) /\ \A q : OpenOf(moved, q) = OpenOf(where, q)
  BY <1>11 DEF OpenIn, OpenOf
<1>13. PlacesFit(moved)
  BY <1>1, <1>10 DEF PlacesFit, Moves
<1>14. CountsFit(d, moved)
  BY <1>1, <1>8, <1>12 DEF CountsFit
<1>15. QueuesFit(d, moved)
  <2>1. ASSUME NEW q \in Run
        PROVE  Range(d.queue[q]) = QueuedIn(moved, q) /\ IsInjective(d.queue[q])
    <3>1. Range(b.queue[q]) = QueuedIn(where, q) /\ IsInjective(b.queue[q])
      BY <1>1 DEF QueuesFit
    <3>2. CASE q = run
      BY <3>1, <3>2, <1>4, <1>7, <1>8, <1>11
    <3>3. CASE q # run
      <4>1. r \notin QueuedIn(where, q)
        BY <3>3 DEF QueuedIn
      <4>2. QueuedIn(moved, q) = QueuedIn(where, q)
        BY <4>1, <1>11
      <4>3. d.queue[q] = b.queue[q]
        BY <3>3, <1>7, <1>8
      <4> QED
        BY <3>1, <4>2, <4>3
    <3> QED
      BY <3>2, <3>3
  <2>2. Range(b.turn) = {q \in Run : b.queue[q] # <<>>}
    BY <1>1 DEF QueuesFit
  <2>3. Range(d.turn) = {q \in Run : d.queue[q] # <<>>}
    <3>0. b.queue[run] # <<>>
      <4>1. r \in Range(b.queue[run])
        BY <1>1, <1>2 DEF QueuesFit
      <4> QED
        BY <4>1 DEF Range
    <3>1. CASE Len(b.queue[run]) = 1
      <4>1. \A q \in Run : d.queue[q] # <<>> <=> b.queue[q] # <<>> /\ q # run
        BY <3>1, <1>6, <1>7, <1>8
      <4>2. Range(d.turn) = Range(b.turn) \ {run}
        BY <3>1, <1>5, <1>8
      <4> QED
        BY <4>1, <4>2, <2>2
    <3>2. CASE Len(b.queue[run]) # 1
      <4>1. \A q \in Run : d.queue[q] # <<>> <=> b.queue[q] # <<>>
        BY <3>0, <3>2, <1>6, <1>7, <1>8
      <4>2. Range(d.turn) = Range(b.turn)
        BY <3>2, <1>5, <1>8
      <4> QED
        BY <4>1, <4>2, <2>2
    <3> QED
      BY <3>1, <3>2
  <2> QED
    BY <2>1, <2>3, <1>5, <1>8 DEF QueuesFit
<1>16. Fits(d, moved)
  BY <1>9, <1>13, <1>14, <1>15 DEF Fits
<1> QED
  BY <1>3, <1>16 DEF moved

LEMMA AppendRange ==
    ASSUME NEW T, NEW s \in Seq(T), NEW x \in T
    PROVE  /\ Append(s, x) \in Seq(T) /\ Range(Append(s, x)) = Range(s) \cup {x}
           /\ IsInjective(s) /\ x \notin Range(s) => IsInjective(Append(s, x))
           /\ Append(s, x) # <<>>
<1> DEFINE u == Append(s, x)
<1>1. /\ u \in Seq(T) /\ Len(u) = Len(s) + 1 /\ u[Len(s) + 1] = x
      /\ \A i \in 1..Len(s) : u[i] = s[i]
  BY AppendProperties
<1>2. Len(s) \in Nat /\ DOMAIN s = 1..Len(s) /\ DOMAIN u = 1..Len(u)
  BY <1>1, LenProperties
<1>3. u # <<>>
  BY AppendProperties
<1> HIDE DEF u
<1>4. Range(u) = Range(s) \cup {x}
  <2>1. \A i \in DOMAIN u : u[i] \in Range(s) \cup {x}
    BY <1>1, <1>2 DEF Range
  <2>2. x \in Range(u) /\ \A i \in DOMAIN s : s[i] \in Range(u)
    BY <1>1, <1>2 DEF Range
  <2> QED
    BY <2>1, <2>2 DEF Range
<1>5. ASSUME IsInjective(s), x \notin Range(s) PROVE IsInjective(u)
  BY <1>1, <1>2, <1>5 DEF IsInjective, Range
<1> QED
  BY <1>1, <1>3, <1>4, <1>5 DEF u

LEMMA EnqueueFields ==
    ASSUME NEW b, Framed(b), NEW r, RunOf[r] \in Run
    PROVE  /\ Enqueue(b, r).ctl = b.ctl /\ Enqueue(b, r).told = b.told
           /\ \A q \in Run : Enqueue(b, r).queue[q] =
                 IF q = RunOf[r] THEN Append(b.queue[q], r) ELSE b.queue[q]
<1> DEFINE run == RunOf[r]
           line == Append(b.queue[run], r)
           queue == [b.queue EXCEPT ![run] = line]
           turn == IF b.queue[run] = <<>> THEN Append(b.turn, run) ELSE b.turn
           d == [b EXCEPT !.queue = queue, !.turn = turn]
<1>1. Enqueue(b, r) = d
  BY DEF Enqueue, Framed, Slots
<1>2. \A q \in Run : queue[q] = IF q = run THEN line ELSE b.queue[q]
  BY DEF Framed
<1> HIDE DEF line, queue, turn
<1>3. d.queue = queue /\ d.ctl = b.ctl /\ d.told = b.told
  BY DEF Framed, Slots
<1> HIDE DEF d
<1> QED
  BY <1>1, <1>2, <1>3 DEF line

LEMMA EnqueueFits ==
    ASSUME NEW b, NEW where, Fits(b, where), NEW r \in Request, where[r] = "asking"
    PROVE  Fits(Enqueue(b, r), [where EXCEPT ![r] = "queued"])
<1> DEFINE run == RunOf[r]
           line == Append(b.queue[run], r)
           queue == [b.queue EXCEPT ![run] = line]
           turn == IF b.queue[run] = <<>> THEN Append(b.turn, run) ELSE b.turn
           d == [b EXCEPT !.queue = queue, !.turn = turn]
<1> DEFINE moved == [where EXCEPT ![r] = "queued"]
<1>1. Framed(b) /\ PlacesFit(where) /\ CountsFit(b, where) /\ QueuesFit(b, where)
  BY DEF Fits
<1>2. run \in Run /\ \A q \in Run : r \notin QueuedIn(where, q)
  BY <1>1 DEF PlacesFit, QueuedIn
<1>3. Enqueue(b, r) = d
  BY <1>1 DEF Enqueue, Framed, Slots
<1>4. /\ line \in Seq(Request) /\ Range(line) = Range(b.queue[run]) \cup {r} /\ IsInjective(line)
      /\ line # <<>>
  <2>1. b.queue[run] \in Seq(Request) /\ r \notin Range(b.queue[run]) /\ IsInjective(b.queue[run])
    BY <1>1, <1>2 DEF Framed, QueuesFit
  <2> QED
    BY <2>1, AppendRange
<1>5. /\ turn \in Seq(Run) /\ IsInjective(turn) /\ Range(turn) = Range(b.turn) \cup {run}
  <2>1. b.turn \in Seq(Run) /\ IsInjective(b.turn)
        /\ (run \in Range(b.turn) <=> b.queue[run] # <<>>)
    BY <1>1, <1>2 DEF Framed, QueuesFit
  <2>2. CASE b.queue[run] = <<>>
    BY <2>1, <2>2, <1>2, AppendRange
  <2>3. CASE b.queue[run] # <<>>
    BY <2>1, <2>3
  <2> QED
    BY <2>2, <2>3
<1> HIDE DEF line
<1>7. queue \in [Run -> Seq(Request)] /\ \A q \in Run : queue[q] = IF q = run THEN line ELSE b.queue[q]
  BY <1>1, <1>2, <1>4 DEF Framed
<1> HIDE DEF queue, turn
<1>8. /\ d = [f \in Slots |-> d[f]] /\ d.queue = queue /\ d.turn = turn /\ d.ctl = b.ctl
      /\ d.told = b.told /\ d.inFlightByRun = b.inFlightByRun /\ d.lastGrantedRun = b.lastGrantedRun
  BY <1>1 DEF Framed, Slots
<1> HIDE DEF d
<1>9. Framed(d)
  BY <1>1, <1>5, <1>7, <1>8 DEF Framed
<1>10. Moves(where, moved, r, "queued") /\ moved[r] = "queued"
  BY <1>1, MovesByExcept DEF PlacesFit, Places
<1> HIDE DEF moved
<1>11. /\ OpenIn(moved) = OpenIn(where) \ {r} /\ \A q : OpenOf(moved, q) = OpenOf(where, q) \ {r}
       /\ \A q : QueuedIn(moved, q) = IF run = q THEN QueuedIn(where, q) \cup {r}
                                                 ELSE QueuedIn(where, q) \ {r}
  BY <1>10, Moved
<1>12. OpenIn(moved) = OpenIn(where) /\ \A q : OpenOf(moved, q) = OpenOf(where, q)
  BY <1>11 DEF OpenIn, OpenOf
<1>13. PlacesFit(moved)
  BY <1>1, <1>2, <1>10 DEF PlacesFit, Moves
<1>14. CountsFit(d, moved)
  BY <1>1, <1>8, <1>12 DEF CountsFit
<1>15. QueuesFit(d, moved)
  <2>1. ASSUME NEW q \in Run
        PROVE  Range(d.queue[q]) = QueuedIn(moved, q) /\ IsInjective(d.queue[q])
    <3>1. Range(b.queue[q]) = QueuedIn(where, q) /\ IsInjective(b.queue[q])
      BY <1>1 DEF QueuesFit
    <3>2. CASE q = run
      BY <3>1, <3>2, <1>4, <1>7, <1>8, <1>11
    <3>3. CASE q # run
      <4>0. QueuedIn(moved, q) = QueuedIn(where, q) \ {r} /\ r \notin QueuedIn(where, q)
        BY <3>3, <1>2, <1>11
      <4>1. QueuedIn(moved, q) = QueuedIn(where, q)
        BY <4>0
      <4>2. d.queue[q] = b.queue[q]
        BY <3>3, <1>7, <1>8
      <4> QED
        BY <3>1, <4>1, <4>2
    <3> QED
      BY <3>2, <3>3
  <2>2. Range(b.turn) = {q \in Run : b.queue[q] # <<>>}
    BY <1>1 DEF QueuesFit
  <2>3. Range(d.turn) = {q \in Run : d.queue[q] # <<>>}
    <3>1. \A q \in Run : d.queue[q] # <<>> <=> b.queue[q] # <<>> \/ q = run
      BY <1>4, <1>7, <1>8
    <3>2. Range(d.turn) = Range(b.turn) \cup {run}
      BY <1>5, <1>8
    <3> QED
      BY <3>1, <3>2, <2>2, <1>2
  <2> QED
    BY <2>1, <2>3, <1>5, <1>8 DEF QueuesFit
<1>16. Fits(d, moved)
  BY <1>9, <1>13, <1>14, <1>15 DEF Fits
<1> QED
  BY <1>3, <1>16 DEF moved

(***************************************************************************)
(* The rotation names a run that waits; its first waiter is one.           *)
(***************************************************************************)
LEMMA NextRunWaits ==
    ASSUME NEW b, NEW where, Fits(b, where), Waiting(b) # 0
    PROVE  /\ NextRun(b) \in Run /\ b.queue[NextRun(b)] # <<>>
           /\ Head(b.queue[NextRun(b)]) \in Request
           /\ where[Head(b.queue[NextRun(b)])] = "queued"
           /\ RunOf[Head(b.queue[NextRun(b)])] = NextRun(b)
<1> DEFINE run == NextRun(b)
           last == {n \in DOMAIN b.turn : b.turn[n] = b.lastGrantedRun}
           position == IF last = {} THEN 0 ELSE CHOOSE n \in last : TRUE
<1>1. Framed(b) /\ QueuesFit(b, where)
  BY DEF Fits
<1>2. Len(b.turn) \in Nat /\ DOMAIN b.turn = 1..Len(b.turn) /\ b.turn \in Seq(Run)
  BY <1>1, LenProperties DEF Framed
<1>3. Len(b.turn) # 0
  <2>1. PICK q \in Run : Range(b.queue[q]) # {}
    BY <1>1, WaitingCounts DEF Queued
  <2>2. b.queue[q] # <<>>
    BY <2>1 DEF Range
  <2>3. q \in Range(b.turn)
    BY <2>2, <1>1 DEF QueuesFit
  <2> QED
    BY <2>3, <1>2 DEF Range
<1>4. position \in Nat
  BY <1>2
<1>5. run = b.turn[(position % Len(b.turn)) + 1]
  BY DEF NextRun
<1> HIDE DEF position
<1>6. (position % Len(b.turn)) + 1 \in DOMAIN b.turn
  <2> DEFINE n == Len(b.turn)
  <2>1. n \in Nat /\ n > 0
    BY <1>2, <1>3
  <2> HIDE DEF n
  <2>2. (position % n) + 1 \in 1..n
    BY <2>1, <1>4
  <2> QED
    BY <2>2, <1>2 DEF n
<1>7. run \in Range(b.turn)
  BY <1>5, <1>6 DEF Range
<1> HIDE DEF run
<1>8. run \in Run /\ b.queue[run] # <<>>
  BY <1>7, <1>1 DEF QueuesFit
<1> DEFINE s == b.queue[run]
<1>9. s \in Seq(Request) /\ s # <<>> /\ Range(s) = QueuedIn(where, run)
  BY <1>1, <1>8 DEF Framed, QueuesFit
<1> HIDE DEF s
<1>10. Head(s) = s[1] /\ 1 \in DOMAIN s
  BY <1>9, HeadTailProperties, LenProperties, EmptySeq
<1>11. Head(s) \in QueuedIn(where, run)
  BY <1>9, <1>10 DEF Range
<1>12. Head(s) \in Request /\ where[Head(s)] = "queued" /\ RunOf[Head(s)] = run
  BY <1>11 DEF QueuedIn
<1> QED
  BY <1>8, <1>12 DEF s, run

(***************************************************************************)
(* A request that ends gives its place back in both accounts; the engaged  *)
(* runs, its own among them, have heard of the cap by then.                *)
(***************************************************************************)
LEMMA SettleFits ==
    ASSUME NEW b, NEW where, Fits(b, where), NEW r \in Request, where[r] = "granted",
           NEW c \in Endings(b.ctl, r)
    PROVE  LET s == FanOutThenBump(b, c, RunOf[r])
           IN  /\ Fits(s, [where EXCEPT ![r] = "settled"])
               /\ s.ctl = c /\ SameQueues(b, s)
               /\ \A run \in Run : s.told[run] =
                     IF c.cap # b.ctl.cap /\ Engaged(b, run) THEN c.cap ELSE b.told[run]
<1> DEFINE f == FanOut(b, c)
           s == FanOutThenBump(b, c, RunOf[r])
           told(run) == IF c.cap # b.ctl.cap /\ Engaged(b, run) THEN c.cap ELSE b.told[run]
<1> DEFINE moved == [where EXCEPT ![r] = "settled"]
<1>0. RunOf[r] \in Run \cup {Observer}
  BY RunOfAssumption
<1>1. Framed(b) /\ Sound(b.ctl) /\ PlacesFit(where) /\ CountsFit(b, where) /\ QueuesFit(b, where)
  BY DEF Fits, Framed
<1>2. /\ Sound(c) /\ c.fresh \subseteq b.ctl.fresh \ {r}
      /\ c.inFlight = IF b.ctl.inFlight = 0 THEN 0 ELSE b.ctl.inFlight - 1
  BY <1>1, EndingsSound
<1>3. /\ Framed(f) /\ f.ctl = c /\ SameQueues(b, f) /\ f.inFlightByRun = b.inFlightByRun
      /\ \A run \in Run : f.told[run] = told(run)
  BY <1>1, <1>2, FanOutFrame
<1> HIDE DEF f, told
<1>4. /\ Framed(s) /\ s.ctl = c /\ SameQueues(f, s) /\ s.told = f.told
      /\ \A q \in Run : s.inFlightByRun[q] =
           IF RunOf[r] = q THEN b.inFlightByRun[q] - 1 ELSE b.inFlightByRun[q]
  <2> DEFINE less == -1
  <2>1. s = Bump(f, RunOf[r], less) /\ less \in Int /\ less = -1
    BY DEF FanOutThenBump, f
  <2> HIDE DEF s, less
  <2>2. /\ Framed(s) /\ s.ctl = f.ctl /\ SameQueues(f, s) /\ s.told = f.told
        /\ \A q \in Run : s.inFlightByRun[q] =
             IF RunOf[r] = q THEN f.inFlightByRun[q] + less ELSE f.inFlightByRun[q]
    <3> DEFINE u == Bump(f, RunOf[r], less)
    <3>1. Framed(f) /\ RunOf[r] \in Run \cup {Observer} /\ less \in Int
      BY <1>0, <1>3, <2>1
    <3>2. Framed(u) /\ u.ctl = f.ctl /\ SameQueues(f, u) /\ u.told = f.told
      BY <3>1, BumpFrame
    <3>3. \A q \in Run : u.inFlightByRun[q] =
             IF RunOf[r] = q THEN f.inFlightByRun[q] + less ELSE f.inFlightByRun[q]
      BY <3>1, BumpFrame
    <3> HIDE DEF u
    <3> QED
      BY <2>1, <3>2, <3>3 DEF u
  <2>3. \A q \in Run : b.inFlightByRun[q] \in Int
    BY <1>1 DEF Framed
  <2> QED
    BY <2>1, <2>2, <2>3, <1>3
<1> HIDE DEF s
<1>5. Moves(where, moved, r, "settled")
  BY <1>1, MovesByExcept DEF PlacesFit, Places
<1> HIDE DEF moved
<1>6. /\ OpenIn(moved) = OpenIn(where) \ {r}
      /\ \A q : QueuedIn(moved, q) = QueuedIn(where, q) \ {r}
  BY <1>5, Moved
<1>7. \A q : QueuedIn(moved, q) = QueuedIn(where, q)
  BY <1>6 DEF QueuedIn
<1>8. /\ Cardinality(OpenIn(moved)) = Cardinality(OpenIn(where)) - 1
      /\ \A run : Cardinality(OpenOf(moved, run)) =
            IF RunOf[r] = run THEN Cardinality(OpenOf(where, run)) - 1
                              ELSE Cardinality(OpenOf(where, run))
  BY <1>5, OpenShrinks
<1>9. Cardinality(OpenIn(where)) # 0
  BY OpenFinite, FS_EmptySet DEF OpenIn
<1>10. PlacesFit(moved)
  BY <1>1, <1>5 DEF PlacesFit, Moves
<1>11. CountsFit(s, moved)
  BY <1>1, <1>2, <1>4, <1>6, <1>8, <1>9 DEF CountsFit, Agrees
<1>12. s.queue = b.queue /\ s.turn = b.turn
  BY <1>3, <1>4 DEF SameQueues
<1>13. QueuesFit(s, moved)
  BY <1>1, <1>7, <1>12 DEF QueuesFit
<1>14. Fits(s, moved)
  BY <1>4, <1>10, <1>11, <1>13 DEF Fits
<1> QED
  BY <1>3, <1>4, <1>12, <1>14 DEF SameQueues, s, moved, told

-----------------------------------------------------------------------------
(***************************************************************************)
(* The drain.  At(s) says where an element stands in s.                    *)
(***************************************************************************)
At(s) == [r \in Request |-> IF r \in Range(s) THEN CHOOSE n \in DOMAIN s : s[n] = r ELSE 0]

LEMMA AtFacts ==
    ASSUME NEW s \in Seq(Request), IsInjective(s)
    PROVE  \A n \in DOMAIN s : s[n] \in Range(s) /\ At(s)[s[n]] = n
<1> SUFFICES ASSUME NEW n \in DOMAIN s PROVE s[n] \in Range(s) /\ At(s)[s[n]] = n
  OBVIOUS
<1> DEFINE m == CHOOSE i \in DOMAIN s : s[i] = s[n]
<1>1. s[n] \in Range(s) /\ s[n] \in Request
  BY ElementOfSeq, LenProperties DEF Range
<1>2. m \in DOMAIN s /\ s[m] = s[n]
  OBVIOUS
<1>3. At(s)[s[n]] = m
  BY <1>1 DEF At
<1> HIDE DEF m
<1> QED
  BY <1>1, <1>2, <1>3 DEF IsInjective

(* Of each queue of b, a front part has left and the rest kept its order. *)
InTurn(b, d) ==
    \A run \in Run :
       /\ Range(d.queue[run]) \subseteq Range(b.queue[run])
       /\ \A m, n \in DOMAIN d.queue[run] :
             m < n => At(b.queue[run])[d.queue[run][m]] < At(b.queue[run])[d.queue[run][n]]
       /\ \A r \in Range(b.queue[run]) \ Range(d.queue[run]), q \in Range(d.queue[run]) :
             At(b.queue[run])[r] < At(b.queue[run])[q]

(* What n turns of the loop have made of the bucket b and the places where. *)
Turned(b, where, d, n) ==
    /\ Fits(d, Served(d, where)) /\ Rested(d.ctl)
    /\ Kept(b, d) /\ InTurn(b, d)
    /\ Queued(d) # Queued(b) => Under(d.ctl)
    /\ Waiting(d) + n <= Waiting(b) \/ Waiting(d) = 0 \/ ~CanAdmit(d.ctl)

(***************************************************************************)
(* The queued requests are those in the queues.                            *)
(***************************************************************************)
LEMMA QueuedAre ==
    ASSUME NEW b, NEW where, Fits(b, where)
    PROVE  Queued(b) = {r \in Request : where[r] = "queued"}
<1>1. \A run \in Run : Range(b.queue[run]) = QueuedIn(where, run)
  BY DEF Fits, QueuesFit
<1>2. Queued(b) = UNION {QueuedIn(where, run) : run \in Run}
  BY <1>1 DEF Queued
<1>3. \A r \in Request : where[r] = "queued" => RunOf[r] \in Run
  BY DEF Fits, PlacesFit
<1> QED
  BY <1>2, <1>3 DEF QueuedIn

LEMMA SameQueued ==
    ASSUME NEW b, NEW d, SameQueues(b, d)
    PROVE  Queued(d) = Queued(b) /\ Waiting(d) = Waiting(b)
           /\ \A where : Served(d, where) = Served(b, where)
BY DEF SameQueues, Queued, Waiting, Served

LEMMA ServedNobody ==
    ASSUME NEW b, NEW where, Fits(b, where)
    PROVE  Served(b, where) = where
<1>1. Queued(b) = {r \in Request : where[r] = "queued"}
  BY QueuedAre
<1>2. Served(b, where) = [r \in Request |-> where[r]]
  BY <1>1 DEF Served
<1> QED
  BY <1>2 DEF Fits, PlacesFit

(***************************************************************************)
(* Before the first turn the queues are as they were.                      *)
(***************************************************************************)
LEMMA InTurnAtFirst ==
    ASSUME NEW b, Framed(b), \A run \in Run : IsInjective(b.queue[run]),
           NEW d, d.queue = b.queue
    PROVE  InTurn(b, d)
<1>1. \A run \in Run : b.queue[run] \in Seq(Request) /\ IsInjective(b.queue[run])
  BY DEF Framed
<1>2. \A run \in Run : \A n \in DOMAIN b.queue[run] : At(b.queue[run])[b.queue[run][n]] = n
  BY <1>1, AtFacts
<1> QED
  BY <1>2 DEF InTurn

LEMMA FirstTurnFits ==
    ASSUME NEW b, NEW where, Fits(b, where)
    PROVE  Turned(b, where, Feed(Observe(b)), 0)
<1> DEFINE o == Observe(b)
           f == Feed(o)
<1>1. Fits(o, where) /\ Rested(o.ctl) /\ SameQueues(b, o) /\ Kept(b, o)
  BY ObserveFits
<1> HIDE DEF o
<1>2. /\ Fits(f, where) /\ Rested(f.ctl) /\ SameQueues(o, f)
      /\ f.ctl.cap = o.ctl.cap /\ f.told = o.told
  BY <1>1, FeedFits
<1> HIDE DEF f
<1>3. Kept(b, f) /\ SameQueues(b, f)
  BY <1>1, <1>2 DEF Kept, SameQueues
<1>4. Queued(f) = Queued(b) /\ Waiting(f) = Waiting(b)
  BY <1>3, SameQueued
<1>5. Served(f, where) = where
  BY <1>2, ServedNobody
<1>6. InTurn(b, f)
  BY <1>3, InTurnAtFirst DEF Fits, QueuesFit, SameQueues
<1>7. Waiting(b) \in Nat
  BY WaitingCounts DEF Fits
<1> QED
  BY <1>2, <1>3, <1>4, <1>5, <1>6, <1>7 DEF Turned, o, f

(***************************************************************************)
(* The first of a queue may go without upsetting the order.                *)
(***************************************************************************)
FirstGoes(d, e, run) ==
    \A q \in Run : e.queue[q] = IF q = run THEN Keep(d.queue[q], Request \ {Head(d.queue[q])})
                                          ELSE d.queue[q]

LEMMA FirstMayGo ==
    ASSUME NEW b, NEW where, Fits(b, where), NEW d, Framed(d), InTurn(b, d),
           NEW run \in Run, d.queue[run] # <<>>, IsInjective(d.queue[run]),
           NEW e, FirstGoes(d, e, run)
    PROVE  InTurn(b, e)
<1> DEFINE old == b.queue[run]
           now == d.queue[run]
           new == e.queue[run]
           first == Head(now)
           at == At(old)
<1>1. /\ old \in Seq(Request) /\ now \in Seq(Request) /\ now # <<>> /\ IsInjective(now)
      /\ new = Keep(now, Request \ {first})
  BY DEF Fits, Framed, FirstGoes
<1>2. /\ Range(now) \subseteq Range(old)
      /\ \A m, n \in DOMAIN now : m < n => at[now[m]] < at[now[n]]
      /\ \A r \in Range(old) \ Range(now), q \in Range(now) : at[r] < at[q]
  BY DEF InTurn
<1> HIDE DEF old, now, new, at
<1>3. first = now[1] /\ 1 \in DOMAIN now /\ DOMAIN now = 1..Len(now) /\ Len(now) \in Nat
  BY <1>1, HeadTailProperties, LenProperties, EmptySeq
<1> HIDE DEF first
<1>4. Range(new) = Range(now) \cap (Request \ {first})
  BY <1>1, KeepRange
<1>5. \A m, n \in DOMAIN new : m < n => at[new[m]] < at[new[n]]
  <2>1. \A m, n \in DOMAIN Keep(now, Request \ {first}) :
           m < n => at[Keep(now, Request \ {first})[m]] < at[Keep(now, Request \ {first})[n]]
    BY <1>1, <1>2, KeepSorted
  <2> QED
    BY <1>1, <2>1
<1>6. \A r \in Range(old) \ Range(new), q \in Range(new) : at[r] < at[q]
  <2> SUFFICES ASSUME NEW r \in Range(old) \ Range(new), NEW q \in Range(new)
               PROVE  at[r] < at[q]
    OBVIOUS
  <2>1. CASE r \notin Range(now)
    BY <2>1, <1>2, <1>4
  <2>2. CASE r \in Range(now)
    <3>1. Range(now) \subseteq Request
      BY <1>1, <1>3, ElementOfSeq DEF Range
    <3>2. r = first
      BY <2>2, <3>1, <1>4
    <3>3. PICK n \in DOMAIN now : now[n] = q
      BY <1>4 DEF Range
    <3>4. n # 1
      BY <3>3, <1>3, <1>4
    <3>5. 1 < n
      BY <3>3, <3>4, <1>3
    <3> QED
      BY <3>2, <3>3, <3>5, <1>2, <1>3
  <2> QED
    BY <2>1, <2>2
<1>7. ASSUME NEW q \in Run, q # run PROVE e.queue[q] = d.queue[q]
  BY <1>7 DEF FirstGoes
<1>8. Range(new) \subseteq Range(old)
  BY <1>2, <1>4
<1> QED
  BY <1>5, <1>6, <1>7, <1>8 DEF InTurn, old, now, new, at

(***************************************************************************)
(* One more turn.                                                          *)
(***************************************************************************)
LEMMA TurnFits ==
    ASSUME NEW b, NEW where, Fits(b, where), NEW d, NEW n \in Nat, Turned(b, where, d, n)
    PROVE  Turned(b, where, ServeOne(d), n + 1)
<1>1. CASE Waiting(d) = 0 \/ ~CanAdmit(d.ctl)
  <2>1. ServeOne(d) = d
    BY <1>1 DEF ServeOne
  <2> QED
    BY <1>1, <2>1 DEF Turned
<1>2. CASE Waiting(d) # 0 /\ CanAdmit(d.ctl)
  <2> DEFINE now == Served(d, where)
             run == NextRun(d)
             first == Head(d.queue[run])
             e == Dequeue(d, first)
             g == Grant(e, first)
  <2> DEFINE left == [now EXCEPT ![first] = "idle"]
             then == [left EXCEPT ![first] = "granted"]
  <2>1. Fits(d, now) /\ Rested(d.ctl) /\ Kept(b, d) /\ InTurn(b, d)
    BY DEF Turned
  <2>2. ServeOne(d) = g
    BY <1>2 DEF ServeOne
  <2>3. Waiting(d) + n <= Waiting(b)
    BY <1>2 DEF Turned
  <2>4. /\ run \in Run /\ d.queue[run] # <<>> /\ first \in Request
        /\ now[first] = "queued" /\ RunOf[first] = run
    <3> HIDE DEF now
    <3> QED
      BY <1>2, <2>1, NextRunWaits
  <2>5. where[first] = "queued" /\ first \in Queued(d)
    <3>1. now[first] = IF where[first] = "queued" /\ first \notin Queued(d) THEN "granted"
                                                                          ELSE where[first]
      BY <2>4 DEF Served
    <3> HIDE DEF now, first
    <3> QED
      BY <2>4, <3>1
  <2>6. now \in [Request -> Places]
    BY <2>1 DEF Fits, PlacesFit
  <2>7. \A r \in Request : now[r] = IF where[r] = "queued" /\ r \notin Queued(d) THEN "granted"
                                                                               ELSE where[r]
    BY DEF Served
  <2> HIDE DEF now, run, first
  <2>8. /\ Fits(e, left) /\ e.ctl = d.ctl /\ e.told = d.told
        /\ \A q \in Run : e.queue[q] =
              IF q = run THEN Keep(d.queue[q], Request \ {first}) ELSE d.queue[q]
    <3>1. /\ Fits(e, left) /\ e.ctl = d.ctl /\ e.told = d.told
          /\ \A q \in Run : e.queue[q] =
                IF q = RunOf[first] THEN Keep(d.queue[q], Request \ {first}) ELSE d.queue[q]
      <4>1. Fits(d, now) /\ first \in Request /\ now[first] = "queued"
        BY <2>1, <2>4
      <4>2. Fits(e, left)
        BY <4>1, DequeueFits
      <4>3. /\ e.ctl = d.ctl /\ e.told = d.told
            /\ \A q \in Run : e.queue[q] =
                  IF q = RunOf[first] THEN Keep(d.queue[q], Request \ {first}) ELSE d.queue[q]
        BY <2>1, <2>4, DequeueFields DEF Fits
      <4> HIDE DEF e, left
      <4> QED
        BY <4>2, <4>3
    <3> HIDE DEF e, left
    <3> QED
      BY <3>1, <2>4
  <2> HIDE DEF e
  <2>9. left \in [Request -> Places] /\ left[first] = "idle"
    BY <2>4, <2>6 DEF Places
  <2>10. left = [now EXCEPT ![first] = "idle"]
    OBVIOUS
  <2> HIDE DEF left
  <2>11. /\ Fits(g, then) /\ SameQueues(e, g) /\ Rested(g.ctl)
         /\ Rested(e.ctl) => g.ctl.cap = e.ctl.cap /\ g.told = e.told
         /\ Rested(e.ctl) /\ CanAdmit(e.ctl) => Under(g.ctl)
    BY <2>4, <2>8, <2>9, GrantFits
  <2> HIDE DEF g
  <2>12. Kept(b, g) /\ Under(g.ctl)
    BY <1>2, <2>1, <2>8, <2>11 DEF Kept
  <2>13. \A r \in Request : then[r] = IF r = first THEN "granted" ELSE now[r]
    BY <2>4, <2>6, <2>9, <2>10
  <2>14. DOMAIN then = Request
    BY <2>9
  <2> HIDE DEF then
  <2>15. Queued(g) = Queued(d) \ {first}
    <3>1. Queued(g) = {r \in Request : then[r] = "queued"}
      BY <2>11, QueuedAre
    <3>2. Queued(d) = {r \in Request : now[r] = "queued"}
      BY <2>1, QueuedAre
    <3> QED
      BY <3>1, <3>2, <2>13
  <2>16. Served(g, where) = then
    <3>1. \A r \in Request : then[r] = IF where[r] = "queued" /\ r \notin Queued(g)
                                         THEN "granted" ELSE where[r]
      BY <2>5, <2>7, <2>13, <2>15
    <3>2. then = [r \in Request |-> then[r]]
      BY <2>11 DEF Fits, PlacesFit
    <3> QED
      BY <3>1, <3>2 DEF Served
  <2>17. Waiting(g) = Waiting(d) - 1 /\ Waiting(d) \in Nat
    <3>1. IsFiniteSet(Queued(d)) /\ Waiting(d) \in Nat
      BY <2>1, WaitingCounts DEF Fits
    <3> QED
      BY <3>1, <2>5, <2>15, FS_RemoveElement DEF Waiting
  <2>18. InTurn(b, g)
    <3>1. FirstGoes(d, g, run)
      BY <2>8, <2>11 DEF SameQueues, FirstGoes, first
    <3>2. Framed(d) /\ IsInjective(d.queue[run])
      BY <2>1, <2>4 DEF Fits, QueuesFit
    <3> QED
      BY <3>1, <3>2, <2>1, <2>4, FirstMayGo
  <2>19. Waiting(g) + (n + 1) <= Waiting(b)
    BY <2>3, <2>17, WaitingCounts DEF Fits
  <2> QED
    BY <2>2, <2>11, <2>12, <2>16, <2>18, <2>19 DEF Turned
<1> QED
  BY <1>1, <1>2

(***************************************************************************)
(* The loop as a function of the number of turns: there is one.            *)
(***************************************************************************)
IsTurns(b, k, f) ==
    f = [n \in 0..k |-> IF n = 0 THEN Feed(Observe(b)) ELSE ServeOne(f[n - 1])]

LEMMA TurnsExist ==
    ASSUME NEW b, NEW W \in Nat
    PROVE  \E f : IsTurns(b, W, f)
<1> DEFINE Bad == {k \in Nat : ~\E f : IsTurns(b, k, f)}
<1> SUFFICES ASSUME Bad # {} PROVE FALSE
  OBVIOUS
<1>1. PICK k \in Bad : \A m \in Bad : k <= m
  BY LeastNat
<1>2. CASE k = 0
  <2>1. IsTurns(b, 0, [n \in 0..0 |-> Feed(Observe(b))])
    BY DEF IsTurns
  <2> QED
    BY <2>1, <1>1, <1>2
<1>3. CASE k # 0
  <2>1. k \in Nat /\ k - 1 \in Nat /\ k - 1 \notin Bad
    BY <1>1, <1>3
  <2>2. PICK h : IsTurns(b, k - 1, h)
    BY <2>1
  <2> DEFINE g == [n \in 0..k |-> IF n = k THEN ServeOne(h[k - 1]) ELSE h[n]]
  <2>3. \A n \in 0..k : g[n] = IF n = 0 THEN Feed(Observe(b)) ELSE ServeOne(g[n - 1])
    <3> TAKE n \in 0..k
    <3>1. CASE n = k
      <4>1. k - 1 \in 0..k /\ k - 1 # k
        BY <2>1
      <4>2. g[k] = ServeOne(h[k - 1]) /\ g[k - 1] = h[k - 1]
        BY <2>1, <4>1
      <4> QED
        BY <3>1, <4>2, <1>3
    <3>2. CASE n # k
      <4>1. n \in 0..(k - 1)
        BY <3>2, <2>1
      <4>2. h[n] = IF n = 0 THEN Feed(Observe(b)) ELSE ServeOne(h[n - 1])
        BY <4>1, <2>2 DEF IsTurns
      <4>3. n # 0 => n - 1 \in 0..k /\ n - 1 # k
        BY <4>1, <2>1
      <4>4. g[n] = h[n]
        BY <3>2
      <4>5. n # 0 => g[n - 1] = h[n - 1]
        BY <4>3
      <4> HIDE DEF g
      <4> QED
        BY <4>2, <4>4, <4>5
    <3> QED
      BY <3>1, <3>2
  <2>4. g = [n \in 0..k |-> g[n]]
    OBVIOUS
  <2> HIDE DEF g
  <2>5. IsTurns(b, k, g)
    BY <2>3, <2>4 DEF IsTurns
  <2> QED
    BY <2>5, <1>1
<1> QED
  BY <1>2, <1>3

LEMMA DrainTurns ==
    ASSUME NEW b, Waiting(b) \in Nat
    PROVE  \E f : /\ Drain(b) = Feed(f[Waiting(b)]) /\ f[0] = Feed(Observe(b))
                  /\ \A n \in 1..Waiting(b) : f[n] = ServeOne(f[n - 1])
<1> DEFINE F(f) == f = [n \in 0..Waiting(b) |-> IF n = 0 THEN Feed(Observe(b))
                                                         ELSE ServeOne(f[n - 1])]
           u == CHOOSE f : F(f)
<1>1. \E f : F(f)
  <2>1. PICK f : IsTurns(b, Waiting(b), f)
    BY TurnsExist
  <2>2. F(f)
    BY <2>1 DEF IsTurns
  <2> HIDE DEF F
  <2> QED
    BY <2>2
<1>2. F(u)
  BY <1>1
<1>3. Drain(b) = Feed(u[Waiting(b)])
  BY DEF Drain
<1> HIDE DEF u
<1>4. u[0] = Feed(Observe(b))
  BY <1>2
<1>5. ASSUME NEW n \in 1..Waiting(b) PROVE u[n] = ServeOne(u[n - 1])
  <2>1. n \in 0..Waiting(b) /\ n # 0
    OBVIOUS
  <2> QED
    BY <2>1, <1>2
<1> QED
  BY <1>3, <1>4, <1>5

(***************************************************************************)
(* What a drain does to a bucket: the account is kept, whoever left was    *)
(* first in its queue and found the gate open, and nobody stays in front   *)
(* of an open gate.                                                        *)
(***************************************************************************)
Drained(b, where, d) ==
    /\ Fits(d, Served(d, where))
    /\ Kept(b, d) /\ InTurn(b, d)
    /\ Queued(d) # Queued(b) => Under(d.ctl)
    /\ Queued(d) = {} \/ ~CanAdmit(d.ctl)

LEMMA DrainFits ==
    ASSUME NEW b, NEW where, Fits(b, where)
    PROVE  Drained(b, where, Drain(b))
<1> DEFINE W == Waiting(b)
<1>0. W \in Nat
  BY WaitingCounts DEF Fits
<1>1. PICK f : /\ Drain(b) = Feed(f[W]) /\ f[0] = Feed(Observe(b))
               /\ \A n \in 1..W : f[n] = ServeOne(f[n - 1])
  BY <1>0, DrainTurns
<1> HIDE DEF W
<1> DEFINE Bad == {k \in 0..W : ~Turned(b, where, f[k], k)}
<1>2. Bad = {}
  <2> SUFFICES ASSUME Bad # {} PROVE FALSE
    OBVIOUS
  <2>1. PICK k \in Bad : \A m \in Bad : k <= m
    <3>1. Bad \in SUBSET Nat
      BY <1>0
    <3> HIDE DEF Bad
    <3> QED
      BY <3>1, LeastNat
  <2>2. k \in 0..W /\ ~Turned(b, where, f[k], k)
    OBVIOUS
  <2>3. CASE k = 0
    BY <2>2, <2>3, <1>1, FirstTurnFits
  <2>4. CASE k # 0
    <3>1. k \in 1..W /\ k - 1 \in 0..W /\ k - 1 \in Nat /\ (k - 1) + 1 = k
      BY <2>2, <2>4, <1>0
    <3>2. Turned(b, where, f[k - 1], k - 1)
      <4> SUFFICES ASSUME ~Turned(b, where, f[k - 1], k - 1) PROVE FALSE
        OBVIOUS
      <4>1. k - 1 \in Bad
        BY <3>1
      <4> QED
        BY <4>1, <2>1, <3>1
    <3>3. Turned(b, where, ServeOne(f[k - 1]), (k - 1) + 1)
      BY <3>1, <3>2, TurnFits
    <3> QED
      BY <3>1, <3>3, <2>2, <1>1
  <2> QED
    BY <2>3, <2>4
<1> DEFINE e == f[W]
           d == Feed(e)
           now == Served(e, where)
<1>3. Turned(b, where, e, W)
  BY <1>0, <1>2
<1> HIDE DEF e
<1>4. /\ Fits(e, now) /\ Rested(e.ctl) /\ Kept(b, e) /\ InTurn(b, e)
      /\ Queued(e) # Queued(b) => Under(e.ctl)
      /\ Waiting(e) + W <= W \/ Waiting(e) = 0 \/ ~CanAdmit(e.ctl)
  BY <1>3 DEF Turned, W
<1> HIDE DEF now
<1>5. /\ Fits(d, now) /\ SameQueues(e, d)
      /\ d.ctl.inFlight = e.ctl.inFlight /\ d.ctl.cap = e.ctl.cap /\ d.told = e.told
      /\ d.ctl.cooldown = e.ctl.cooldown
  BY <1>4, FeedFits
<1> HIDE DEF d
<1>6. Queued(d) = Queued(e) /\ Served(d, where) = now
  BY <1>5, SameQueued DEF now
<1>7. Waiting(e) = 0 \/ ~CanAdmit(e.ctl)
  BY <1>0, <1>4, WaitingCounts DEF Fits
<1>8. Queued(e) = {} \/ ~CanAdmit(e.ctl)
  BY <1>4, <1>7, WaitingCounts DEF Fits
<1>9. Kept(b, d) /\ InTurn(b, d)
  BY <1>4, <1>5 DEF Kept, InTurn, SameQueues
<1>10. Queued(d) # Queued(b) => Under(d.ctl)
  BY <1>4, <1>5, <1>6 DEF Under
<1>11. Queued(d) = {} \/ ~CanAdmit(d.ctl)
  BY <1>5, <1>6, <1>8 DEF CanAdmit
<1> QED
  BY <1>1, <1>5, <1>6, <1>9, <1>10, <1>11 DEF Drained, d, e

(***************************************************************************)
(* The steps that move one request without a drain, and the clock.         *)
(***************************************************************************)
LEMMA MoveFits ==
    ASSUME NEW b, NEW where, Fits(b, where),
           NEW r \in Request, where[r] \notin {"queued", "granted"},
           NEW p \in Places \ {"queued", "granted"}, p = "asking" => RunOf[r] \in Run
    PROVE  Fits(b, [where EXCEPT ![r] = p])
<1> DEFINE moved == [where EXCEPT ![r] = p]
<1>1. Framed(b) /\ PlacesFit(where) /\ CountsFit(b, where) /\ QueuesFit(b, where)
  BY DEF Fits
<1>2. Moves(where, moved, r, p)
  BY <1>1, MovesByExcept DEF PlacesFit
<1> HIDE DEF moved
<1>3. OpenIn(moved) = OpenIn(where)
  BY <1>2 DEF OpenIn, Moves
<1>4. \A run : QueuedIn(moved, run) = QueuedIn(where, run)
  BY <1>2 DEF QueuedIn, Moves
<1>5. PlacesFit(moved)
  BY <1>1, <1>2 DEF PlacesFit, Moves
<1>6. CountsFit(b, moved)
  BY <1>1, <1>3 DEF CountsFit, OpenOf
<1>7. QueuesFit(b, moved)
  BY <1>1, <1>4 DEF QueuesFit
<1> QED
  BY <1>1, <1>5, <1>6, <1>7 DEF Fits, moved

LEMMA TickFits ==
    ASSUME NEW b, NEW where, Fits(b, where)
    PROVE  LET t == [b EXCEPT !.ctl = Elapsed(b.ctl)]
           IN  /\ Fits(t, where) /\ SameQueues(b, t)
               /\ t.ctl.inFlight = b.ctl.inFlight /\ t.ctl.cap = b.ctl.cap
<1> DEFINE c == Elapsed(b.ctl)
           t == [b EXCEPT !.ctl = c]
<1>1. Framed(b) /\ Sound(b.ctl) /\ PlacesFit(where) /\ CountsFit(b, where) /\ QueuesFit(b, where)
  BY DEF Fits, Framed
<1>2. Sound(c) /\ c.inFlight = b.ctl.inFlight /\ c.fresh = b.ctl.fresh /\ c.cap = b.ctl.cap
  <2>1. Sound(c) /\ c.inFlight = b.ctl.inFlight /\ c.fresh = b.ctl.fresh
    BY <1>1, ElapsedSound
  <2>2. c.cap = b.ctl.cap
    BY <1>1 DEF Sound, Shape, Fields, Elapsed
  <2> QED
    BY <2>1, <2>2
<1> HIDE DEF c
<1>3. /\ t = [f \in Slots |-> t[f]] /\ t.ctl = c /\ t.queue = b.queue /\ t.turn = b.turn
      /\ t.told = b.told /\ t.inFlightByRun = b.inFlightByRun /\ t.lastGrantedRun = b.lastGrantedRun
  BY <1>1 DEF Framed, Slots
<1> HIDE DEF t
<1>4. Framed(t)
  BY <1>1, <1>2, <1>3 DEF Framed
<1>5. CountsFit(t, where) /\ QueuesFit(t, where)
  BY <1>1, <1>2, <1>3 DEF CountsFit, QueuesFit, Agrees
<1>6. Fits(t, where) /\ SameQueues(b, t) /\ t.ctl.inFlight = b.ctl.inFlight /\ t.ctl.cap = b.ctl.cap
  BY <1>1, <1>2, <1>3, <1>4, <1>5 DEF Fits, SameQueues
<1> QED
  BY <1>6 DEF t, c

-----------------------------------------------------------------------------
(***************************************************************************)
(* The governor's inductive invariant: bucket and places tell the same     *)
(* story.                                                                  *)
(***************************************************************************)
GInv == Fits(bucket, attempt) /\ alarm \in Nat \cup {None} /\ stranded \in BOOLEAN

LEMMA AlarmType ==
    ASSUME NEW b, Framed(b)
    PROVE  AlarmFor(b) \in Nat \cup {None}
BY DEF AlarmFor, Framed, Sound, InRange

LEMMA GInitFits == Init => GInv
<1> SUFFICES ASSUME Init PROVE GInv
  OBVIOUS
<1> USE DEF Init
<1>1. Sound(Start)
  <2>1. /\ Start.cap = Ceiling /\ Start.inFlight = 0 /\ Start.fed = 0 /\ Start.fresh = {}
        /\ Start.streak = 0 /\ Start.cooldown = None /\ Start.quiet = 0 /\ Start.good = None
        /\ Shape(Start)
    BY DEF Start, Shape, Fields
  <2> QED
    BY <2>1, CeilingAssumption, TuningAssumption DEF Sound, InRange, Probes
<1>2. bucket.ctl = Start /\ bucket.turn = <<>> /\ bucket.queue = [run \in Run |-> <<>>]
      /\ bucket.inFlightByRun = [run \in Run |-> 0] /\ bucket.told = [run \in Run |-> None]
      /\ bucket.lastGrantedRun = None /\ bucket = [f \in Slots |-> bucket[f]]
  BY DEF Slots
<1>3. Framed(bucket)
  BY <1>1, <1>2 DEF Framed
<1>4. OpenIn(attempt) = {} /\ \A run : QueuedIn(attempt, run) = {} /\ OpenOf(attempt, run) = {}
  BY DEF OpenIn, QueuedIn, OpenOf
<1>5. Start.inFlight = 0 /\ Start.fresh = {}
  BY DEF Start
<1>6. CountsFit(bucket, attempt)
  BY <1>2, <1>4, <1>5, FS_EmptySet DEF CountsFit, Agrees
<1>7. QueuesFit(bucket, attempt)
  BY <1>2, <1>4 DEF QueuesFit, IsInjective, Range
<1>8. PlacesFit(attempt)
  BY DEF PlacesFit, Places
<1> QED
  BY <1>3, <1>6, <1>7, <1>8 DEF GInv, Fits

(***************************************************************************)
(* Every step that ends in a drain.                                        *)
(***************************************************************************)
LEMMA DrainToFits ==
    ASSUME NEW b, NEW where, Fits(b, where), DrainTo(b, where)
    PROVE  /\ GInv' /\ Drained(b, where, bucket')
           /\ attempt' = Served(bucket', where) /\ alarm' = AlarmFor(bucket')
<1> DEFINE d == Drain(b)
<1>1. /\ bucket' = d /\ attempt' = Served(d, where) /\ alarm' = AlarmFor(d)
      /\ stranded' \in BOOLEAN
  BY DEF DrainTo
<1>2. Drained(b, where, d)
  BY DrainFits
<1> HIDE DEF d
<1>3. Fits(d, Served(d, where))
  BY <1>2 DEF Drained
<1>4. AlarmFor(d) \in Nat \cup {None}
  BY <1>3, AlarmType DEF Fits
<1> QED
  BY <1>1, <1>2, <1>3, <1>4 DEF GInv

(* The bucket and the places each of these steps drains. *)
LEMMA AdmitDrains ==
    ASSUME GInv, NEW r \in Request, Admit(r)
    PROVE  LET b == Enqueue(Observe(bucket), r)
               where == [attempt EXCEPT ![r] = "queued"]
           IN  /\ Fits(b, where) /\ DrainTo(b, where)
               /\ Kept(bucket, b) /\ RunOf[r] \in Run /\ attempt[r] = "asking"
               /\ \A q \in Run : b.queue[q] = IF q = RunOf[r] THEN Append(bucket.queue[q], r)
                                                             ELSE bucket.queue[q]
<1> DEFINE o == Observe(bucket)
           b == Enqueue(o, r)
<1> DEFINE where == [attempt EXCEPT ![r] = "queued"]
<1>1. Fits(bucket, attempt) /\ attempt[r] = "asking" /\ DrainTo(b, where)
  BY DEF GInv, Admit
<1>2. RunOf[r] \in Run
  BY <1>1 DEF Fits, PlacesFit
<1>3. Fits(o, attempt) /\ SameQueues(bucket, o) /\ Kept(bucket, o)
  BY <1>1, ObserveFits
<1> HIDE DEF o
<1>4. Fits(b, where)
  BY <1>1, <1>3, EnqueueFits
<1>5. /\ b.ctl = o.ctl /\ b.told = o.told
      /\ \A q \in Run : b.queue[q] = IF q = RunOf[r] THEN Append(o.queue[q], r) ELSE o.queue[q]
  BY <1>2, <1>3, EnqueueFields DEF Fits
<1> HIDE DEF b, where
<1>6. Kept(bucket, b)
  BY <1>3, <1>5 DEF Kept
<1>7. \A q \in Run : b.queue[q] = IF q = RunOf[r] THEN Append(bucket.queue[q], r)
                                                  ELSE bucket.queue[q]
  BY <1>3, <1>5 DEF SameQueues
<1>8. /\ Fits(b, where) /\ DrainTo(b, where) /\ Kept(bucket, b) /\ RunOf[r] \in Run
      /\ attempt[r] = "asking"
  BY <1>1, <1>2, <1>4, <1>6
<1> QED
  BY <1>7, <1>8 DEF b, where, o

LEMMA SettleDrains ==
    ASSUME GInv, NEW r \in Request, Settle(r)
    PROVE  \E c \in Endings(bucket.ctl, r) :
             LET b == FanOutThenBump(bucket, c, RunOf[r])
                 where == [attempt EXCEPT ![r] = "settled"]
             IN  /\ Fits(b, where) /\ DrainTo(b, where) /\ b.ctl = c
                 /\ SameQueues(bucket, b) /\ attempt[r] = "granted"
                 /\ \A run \in Run : b.told[run] =
                      IF c.cap # bucket.ctl.cap /\ Engaged(bucket, run) THEN c.cap
                                                                        ELSE bucket.told[run]
<1>1. Fits(bucket, attempt) /\ attempt[r] = "granted"
  BY DEF GInv, Settle
<1>2. PICK c \in Endings(bucket.ctl, r) : Settled(r, c)
  BY DEF Settle
<1> DEFINE b == FanOutThenBump(bucket, c, RunOf[r])
           where == [attempt EXCEPT ![r] = "settled"]
<1>3. DrainTo(b, where)
  BY <1>2 DEF Settled
<1>4. /\ Fits(b, where) /\ b.ctl = c /\ SameQueues(bucket, b)
      /\ \A run \in Run : b.told[run] =
           IF c.cap # bucket.ctl.cap /\ Engaged(bucket, run) THEN c.cap ELSE bucket.told[run]
  BY <1>1, SettleFits
<1> HIDE DEF b, where
<1>5. /\ Fits(b, where) /\ DrainTo(b, where) /\ b.ctl = c
      /\ SameQueues(bucket, b) /\ attempt[r] = "granted"
      /\ \A run \in Run : b.told[run] =
           IF c.cap # bucket.ctl.cap /\ Engaged(bucket, run) THEN c.cap ELSE bucket.told[run]
  BY <1>1, <1>3, <1>4
<1> QED
  BY <1>2, <1>5 DEF b, where

(***************************************************************************)
(* Every step keeps the account.                                           *)
(***************************************************************************)
LEMMA GStepFits ==
    ASSUME GInv, [Next]_vars
    PROVE  GInv'
<1> USE DEF GInv
<1>0. PlacesFit(attempt) /\ attempt \in [Request -> Places]
  BY DEF Fits, PlacesFit
<1>1. ASSUME NEW r \in Request, AdmitNow(r)
      PROVE  GInv'
  <2> DEFINE o == Observe(bucket)
  <2>1. Fits(o, attempt)
    BY ObserveFits
  <2>2. /\ attempt[r] \notin {"granted", "queued"} /\ bucket' = Grant(o, r)
        /\ attempt' = [attempt EXCEPT ![r] = "granted"] /\ alarm' = alarm /\ stranded' = stranded
    BY <1>1 DEF AdmitNow
  <2> HIDE DEF o
  <2> QED
    BY <2>1, <2>2, GrantFits
<1>2. ASSUME NEW r \in Request, TryMisses(r)
      PROVE  GInv'
  <2> DEFINE o == Observe(bucket)
  <2>1. Fits(o, attempt)
    BY ObserveFits
  <2>2. /\ attempt[r] = "idle" /\ RunOf[r] \in Run /\ bucket' = o
        /\ attempt' = [attempt EXCEPT ![r] = "asking"] /\ alarm' = alarm /\ stranded' = stranded
    BY <1>2, RunOfAssumption DEF TryMisses
  <2> HIDE DEF o
  <2>3. "asking" \in Places \ {"queued", "granted"}
    BY DEF Places
  <2>4. Fits(o, [attempt EXCEPT ![r] = "asking"])
    BY <2>1, <2>2, <2>3, MoveFits
  <2> QED
    BY <2>2, <2>4
<1>3. ASSUME NEW r \in Request, Admit(r)
      PROVE  GInv'
  <2> DEFINE b == Enqueue(Observe(bucket), r)
             where == [attempt EXCEPT ![r] = "queued"]
  <2>1. Fits(b, where) /\ DrainTo(b, where)
    BY <1>3, AdmitDrains
  <2> HIDE DEF b, where
  <2> QED
    BY <2>1, DrainToFits
<1>4. ASSUME NEW r \in Request, AdmitAborted(r)
      PROVE  GInv'
  <2> DEFINE o == Observe(bucket)
  <2>1. Fits(o, attempt)
    BY ObserveFits
  <2>2. /\ attempt[r] = "asking" /\ bucket' = o
        /\ attempt' = [attempt EXCEPT ![r] = "idle"] /\ alarm' = alarm /\ stranded' = stranded
    BY <1>4 DEF AdmitAborted
  <2> HIDE DEF o
  <2>3. "idle" \in Places \ {"queued", "granted"}
    BY DEF Places
  <2>4. Fits(o, [attempt EXCEPT ![r] = "idle"])
    BY <2>1, <2>2, <2>3, MoveFits
  <2> QED
    BY <2>2, <2>4
<1>5. ASSUME NEW r \in Request, Abort(r)
      PROVE  GInv'
  <2> DEFINE d == Dequeue(bucket, r)
             f == Feed(d)
             where == [attempt EXCEPT ![r] = "idle"]
  <2>1. Fits(d, where)
    BY <1>5, DequeueFits DEF Abort
  <2>2. bucket' = f /\ attempt' = where /\ alarm' = AlarmFor(f) /\ stranded' \in BOOLEAN
    BY <1>5 DEF Abort, Strands
  <2> HIDE DEF d, where
  <2>3. Fits(f, where)
    BY <2>1, FeedFits
  <2> HIDE DEF f
  <2> QED
    BY <2>2, <2>3, AlarmType DEF Fits
<1>6. ASSUME NEW r \in Request, Observed(r)
      PROVE  GInv'
  <2>1. /\ attempt[r] \notin {"granted", "queued"} /\ bucket' = Grant(bucket, r)
        /\ attempt' = [attempt EXCEPT ![r] = "granted"] /\ alarm' = alarm /\ stranded' = stranded
    BY <1>6 DEF Observed
  <2> QED
    BY <2>1, GrantFits
<1>7. ASSUME NEW r \in Request, Settle(r)
      PROVE  GInv'
  <2>1. PICK c \in Endings(bucket.ctl, r) :
           LET b == FanOutThenBump(bucket, c, RunOf[r])
               where == [attempt EXCEPT ![r] = "settled"]
           IN  Fits(b, where) /\ DrainTo(b, where)
    BY <1>7, SettleDrains
  <2> DEFINE b == FanOutThenBump(bucket, c, RunOf[r])
             where == [attempt EXCEPT ![r] = "settled"]
  <2>2. Fits(b, where) /\ DrainTo(b, where)
    BY <2>1
  <2> HIDE DEF b, where
  <2> QED
    BY <2>2, DrainToFits
<1>8. ASSUME NEW r \in Request, Release(r)
      PROVE  GInv'
  <2>1. /\ attempt[r] = "settled" /\ bucket' = bucket
        /\ attempt' = [attempt EXCEPT ![r] = "idle"] /\ alarm' = alarm /\ stranded' = stranded
    BY <1>8 DEF Release, Inert
  <2>2. "idle" \in Places \ {"queued", "granted"}
    BY DEF Places
  <2>3. Fits(bucket, [attempt EXCEPT ![r] = "idle"])
    BY <2>1, <2>2, MoveFits
  <2> QED
    BY <2>1, <2>3
<1>9. CASE Ring
  BY <1>9, DrainToFits DEF Ring
<1>10. CASE Tick
  <2> DEFINE t == [bucket EXCEPT !.ctl = Elapsed(bucket.ctl)]
  <2>1. Fits(t, attempt)
    BY TickFits
  <2>2. /\ bucket' = t /\ attempt' = attempt /\ alarm' \in Nat \cup {None}
        /\ stranded' = stranded
    BY <1>10 DEF Tick
  <2> HIDE DEF t
  <2> QED
    BY <2>1, <2>2
<1>11. CASE UNCHANGED vars
  BY <1>11 DEF vars
<1> QED
  BY <1>1, <1>2, <1>3, <1>4, <1>5, <1>6, <1>7, <1>8, <1>9, <1>10, <1>11 DEF Next

(***************************************************************************)
(* Bucket and places tell the same story in every reachable state.         *)
(***************************************************************************)
THEOREM GovernorInductive == Spec => []GInv
<1> QED
  BY GInitFits, GStepFits, PTL DEF Spec

(***************************************************************************)
(* Every field in its range.                                               *)
(***************************************************************************)
THEOREM GovernorTypes == Spec => []TypeOK
<1>1. GInv => TypeOK
  BY SoundIsController DEF GInv, Fits, Framed, PlacesFit, Places, TypeOK
<1> QED
  BY <1>1, GovernorInductive, PTL

(***************************************************************************)
(* The controller's and the runs' counters are the open tickets, each      *)
(* waiting request is once in the queue of its run, and the rotation has   *)
(* the runs that wait.                                                     *)
(***************************************************************************)
THEOREM AccountsAgree == Spec => []CountsAreExact
<1>1. GInv => CountsAreExact
  <2> SUFFICES ASSUME GInv PROVE CountsAreExact
    OBVIOUS
  <2>1. CountsFit(bucket, attempt) /\ QueuesFit(bucket, attempt) /\ OpenIn(attempt) = Open
    BY DEF GInv, Fits, OpenIn, Open
  <2> QED
    BY <2>1 DEF CountsFit, QueuesFit, OpenOf, QueuedIn, Agrees, CountsOpen, CountsAreExact
<1> QED
  BY <1>1, GovernorInductive, PTL

(***************************************************************************)
(* A drain leaves nobody in front of an open gate: who still waits faces a *)
(* full cap, or a cooldown and then the alarm is set to it.                *)
(***************************************************************************)
LEMMA DrainWatchesGate ==
    ASSUME NEW b, NEW where, Fits(b, where), DrainTo(b, where)
    PROVE  NobodyWaitsAtOpenGate'
<1>1. GInv' /\ Drained(b, where, bucket') /\ alarm' = AlarmFor(bucket')
  BY DrainToFits
<1>2. Framed(bucket') /\ Sound(bucket'.ctl)
  BY <1>1 DEF GInv, Fits, Framed
<1>3. bucket'.ctl.inFlight \in Int /\ bucket'.ctl.cap \in Int
  BY <1>2 DEF Sound, InRange
<1>4. Queued(bucket') = {} \/ ~CanAdmit(bucket'.ctl)
  BY <1>1 DEF Drained
<1>5. Queued(bucket') # {} => Waiting(bucket') # 0
  BY <1>2, WaitingCounts
<1>6. Queued(bucket') # {} => bucket'.ctl.inFlight >= bucket'.ctl.cap \/ alarm' # None
  BY <1>1, <1>3, <1>4, <1>5 DEF CanAdmit, AlarmFor
<1> QED
  BY <1>6 DEF NobodyWaitsAtOpenGate

(***************************************************************************)
(* Looking at the bucket does not open the gate to anybody: what is in     *)
(* flight keeps the controller from forgetting, and the alarm stays.       *)
(***************************************************************************)
LEMMA LookingKeepsWatch ==
    ASSUME Fits(bucket, attempt), NobodyWaitsAtOpenGate,
           bucket.ctl.inFlight \in Nat, bucket.ctl.cap \in Nat \ {0},
           bucket' = Observe(bucket), alarm' = alarm, stranded' = stranded
    PROVE  NobodyWaitsAtOpenGate'
<1> DEFINE o == Observe(bucket)
<1>1. SameQueues(bucket, o) /\ (bucket.ctl.inFlight # 0 => o.ctl = bucket.ctl)
  BY ObserveFits
<1>2. bucket' = o
  OBVIOUS
<1> HIDE DEF o
<1>3. Queued(o) = Queued(bucket)
  BY <1>1, SameQueued
<1>4. Queued(o) # {} => o.ctl.inFlight >= o.ctl.cap \/ alarm # None \/ stranded
  BY <1>1, <1>3 DEF NobodyWaitsAtOpenGate
<1> QED
  BY <1>2, <1>4 DEF NobodyWaitsAtOpenGate

(***************************************************************************)
(* Who is left when another waiter aborts faces the cap he faced before,   *)
(* or the alarm set anew, or is stranded.                                  *)
(***************************************************************************)
LEMMA AbortKeepsWatch ==
    ASSUME Fits(bucket, attempt), NobodyWaitsAtOpenGate,
           bucket.ctl.inFlight \in Nat, bucket.ctl.cap \in Nat \ {0},
           NEW r \in Request, Abort(r)
    PROVE  NobodyWaitsAtOpenGate'
<1> DEFINE d == Dequeue(bucket, r)
           where == [attempt EXCEPT ![r] = "idle"]
<1>1. Fits(d, where) /\ d.ctl = bucket.ctl
  <2>1. attempt[r] = "queued" /\ Framed(bucket) /\ RunOf[r] \in Run
    BY DEF Abort, Fits, PlacesFit
  <2> QED
    BY <2>1, DequeueFits, DequeueFields
<1> DEFINE f == Feed(d)
<1>2. /\ bucket' = f /\ alarm' = AlarmFor(f) /\ attempt[r] = "queued"
      /\ stranded \/ (alarm # None /\ f.ctl.cooldown = None) => stranded'
  BY DEF Abort, Strands
<1> HIDE DEF d, where
<1>3. /\ Fits(f, where) /\ f.ctl.inFlight = d.ctl.inFlight
      /\ Rested(d.ctl) => f.ctl.cap = d.ctl.cap
  BY <1>1, FeedFits
<1> HIDE DEF f
<1>4. Queued(f) # {} => Waiting(f) # 0
  BY <1>3, WaitingCounts DEF Fits
<1>5. r \in Queued(bucket)
  BY <1>2, QueuedAre
<1>6. bucket.ctl.inFlight >= bucket.ctl.cap \/ alarm # None \/ stranded
  BY <1>5 DEF NobodyWaitsAtOpenGate
<1>7. Queued(f) # {} => f.ctl.inFlight >= f.ctl.cap \/ alarm' # None \/ stranded'
  BY <1>1, <1>2, <1>3, <1>4, <1>6 DEF AlarmFor, Rested
<1> QED
  BY <1>2, <1>7 DEF NobodyWaitsAtOpenGate

LEMMA GateStepWatched ==
    ASSUME GInv, NobodyWaitsAtOpenGate, [Next]_vars
    PROVE  NobodyWaitsAtOpenGate'
<1>0. /\ Fits(bucket, attempt) /\ Framed(bucket) /\ alarm \in Nat \cup {None}
      /\ bucket.ctl.inFlight \in Nat /\ bucket.ctl.cap \in Nat \ {0}
      /\ Waiting(bucket) = 0 <=> Queued(bucket) = {}
  <2>1. Fits(bucket, attempt) /\ Framed(bucket) /\ alarm \in Nat \cup {None} /\ Sound(bucket.ctl)
    BY DEF GInv, Fits, Framed
  <2> QED
    BY <2>1, WaitingCounts, CeilingAssumption DEF Sound, InRange
<1>1. ASSUME NEW r \in Request, AdmitNow(r)
      PROVE  NobodyWaitsAtOpenGate'
  <2> DEFINE o == Observe(bucket)
  <2>1. Fits(o, attempt) /\ SameQueues(bucket, o)
    BY <1>0, ObserveFits
  <2>2. attempt[r] \notin {"granted", "queued"} /\ bucket' = Grant(o, r) /\ Waiting(o) = 0
    BY <1>1 DEF AdmitNow, FastPath
  <2> HIDE DEF o
  <2>3. SameQueues(o, bucket')
    BY <2>1, <2>2, GrantFits
  <2>4. Queued(bucket') = {}
    BY <1>0, <2>1, <2>2, <2>3, SameQueued
  <2> QED
    BY <2>4 DEF NobodyWaitsAtOpenGate
<1>2. ASSUME NEW r \in Request, TryMisses(r)
      PROVE  NobodyWaitsAtOpenGate'
  <2> DEFINE o == Observe(bucket)
  <2>1. bucket' = o /\ alarm' = alarm /\ stranded' = stranded
    BY <1>2 DEF TryMisses
  <2> HIDE DEF o
  <2> QED
    BY <1>0, <2>1, LookingKeepsWatch DEF o
<1>3. ASSUME NEW r \in Request, Admit(r)
      PROVE  NobodyWaitsAtOpenGate'
  <2> DEFINE b == Enqueue(Observe(bucket), r)
             where == [attempt EXCEPT ![r] = "queued"]
  <2>1. Fits(b, where) /\ DrainTo(b, where)
    BY <1>3, AdmitDrains
  <2> HIDE DEF b, where
  <2> QED
    BY <2>1, DrainWatchesGate
<1>4. ASSUME NEW r \in Request, AdmitAborted(r)
      PROVE  NobodyWaitsAtOpenGate'
  <2> DEFINE o == Observe(bucket)
  <2>1. bucket' = o /\ alarm' = alarm /\ stranded' = stranded
    BY <1>4 DEF AdmitAborted
  <2> HIDE DEF o
  <2> QED
    BY <1>0, <2>1, LookingKeepsWatch DEF o
<1>11. ASSUME NEW r \in Request, Abort(r)
      PROVE  NobodyWaitsAtOpenGate'
  BY <1>0, <1>11, AbortKeepsWatch
<1>5. ASSUME NEW r \in Request, Observed(r)
      PROVE  NobodyWaitsAtOpenGate'
  <2> DEFINE g == Grant(bucket, r)
  <2>1. /\ attempt[r] \notin {"granted", "queued"} /\ bucket' = g
        /\ alarm' = alarm /\ stranded' = stranded
    BY <1>5 DEF Observed
  <2>2. /\ SameQueues(bucket, g) /\ g.ctl.inFlight = bucket.ctl.inFlight + 1
        /\ bucket.ctl.inFlight # 0 => g.ctl.cap = bucket.ctl.cap
    BY <1>0, <2>1, GrantFits
  <2> HIDE DEF g
  <2>3. Queued(g) = Queued(bucket)
    BY <2>2, SameQueued
  <2>4. Queued(g) # {} => g.ctl.inFlight >= g.ctl.cap \/ alarm # None \/ stranded
    BY <1>0, <2>2, <2>3 DEF NobodyWaitsAtOpenGate
  <2> QED
    BY <2>1, <2>4 DEF NobodyWaitsAtOpenGate
<1>6. ASSUME NEW r \in Request, Settle(r)
      PROVE  NobodyWaitsAtOpenGate'
  <2>1. PICK c \in Endings(bucket.ctl, r) :
           LET b == FanOutThenBump(bucket, c, RunOf[r])
               where == [attempt EXCEPT ![r] = "settled"]
           IN  Fits(b, where) /\ DrainTo(b, where)
    BY <1>6, SettleDrains
  <2> DEFINE b == FanOutThenBump(bucket, c, RunOf[r])
             where == [attempt EXCEPT ![r] = "settled"]
  <2>2. Fits(b, where) /\ DrainTo(b, where)
    BY <2>1
  <2> HIDE DEF b, where
  <2> QED
    BY <2>2, DrainWatchesGate
<1>7. ASSUME NEW r \in Request, Release(r)
      PROVE  NobodyWaitsAtOpenGate'
  BY <1>7 DEF Release, Inert, NobodyWaitsAtOpenGate
<1>8. CASE Ring
  BY <1>0, <1>8, DrainWatchesGate DEF Ring
<1>9. CASE Tick
  <2> DEFINE t == [bucket EXCEPT !.ctl = Elapsed(bucket.ctl)]
  <2>1. /\ SameQueues(bucket, t) /\ t.ctl.inFlight = bucket.ctl.inFlight
        /\ t.ctl.cap = bucket.ctl.cap
    BY <1>0, TickFits
  <2>2. bucket' = t /\ (alarm # None => alarm' # None) /\ stranded' = stranded
    BY <1>0, <1>9, NoneAssumption DEF Tick
  <2> HIDE DEF t
  <2>3. Queued(t) = Queued(bucket)
    BY <2>1, SameQueued
  <2> QED
    BY <2>1, <2>2, <2>3 DEF NobodyWaitsAtOpenGate
<1>10. CASE UNCHANGED vars
  BY <1>10 DEF vars, NobodyWaitsAtOpenGate
<1> QED
  BY <1>1, <1>2, <1>3, <1>4, <1>5, <1>6, <1>7, <1>8, <1>9, <1>10, <1>11 DEF Next

(***************************************************************************)
(* Nobody waits at an open gate: every step that frees a place or ends a   *)
(* cooldown drains, or leaves the alarm.  The one exception is stranded,   *)
(* an abort that cancels the alarm of a cooldown that is no longer set,    *)
(* and no drain since.                                                     *)
(***************************************************************************)
THEOREM TheGateIsWatched == Spec => []NobodyWaitsAtOpenGate
<1>1. Init => NobodyWaitsAtOpenGate
  <2> SUFFICES ASSUME Init PROVE Queued(bucket) = {}
    BY DEF NobodyWaitsAtOpenGate
  <2>1. \A run \in Run : bucket.queue[run] = <<>>
    BY DEF Init
  <2> QED
    BY <2>1 DEF Queued, Range
<1>2. GInv /\ NobodyWaitsAtOpenGate /\ [Next]_vars => NobodyWaitsAtOpenGate'
  BY GateStepWatched
<1> QED
  BY <1>1, <1>2, GovernorInductive, PTL DEF Spec

-----------------------------------------------------------------------------
(***************************************************************************)
(* Three kinds of steps: those that open nothing but the observer's        *)
(* requests, the fast path, and the drains.                                *)
(***************************************************************************)
Quiet == Kept(bucket, bucket') /\ \A r \in Open' \ Open : RunOf[r] = Observer

Fast == Kept(bucket, bucket') /\ Queued(bucket) = {} /\ Under(bucket'.ctl)

(* The queues of d are those of b, perhaps with a request more at the end. *)
Lengthened(b, d) ==
    \A run \in Run :
       /\ Len(b.queue[run]) <= Len(d.queue[run])
       /\ \A n \in 1..Len(b.queue[run]) : d.queue[run][n] = b.queue[run][n]

(* Whoever was engaged in b has been told the cap of d. *)
Heard(b, d) ==
    d.ctl.cap # b.ctl.cap => \A run \in Run : Engaged(b, run) => d.told[run] = d.ctl.cap

Draining(b, where) ==
    /\ Fits(b, where) /\ DrainTo(b, where)
    /\ OpenIn(where) \subseteq Open
    /\ Lengthened(bucket, b)
    /\ Kept(bucket, b) \/ Heard(bucket, b)

LEMMA SameIsLengthened ==
    ASSUME NEW b, Framed(b), NEW d, SameQueues(b, d)
    PROVE  Lengthened(b, d)
<1>1. \A run \in Run : b.queue[run] \in Seq(Request) /\ d.queue[run] = b.queue[run]
  BY DEF Framed, SameQueues
<1>2. \A run \in Run : Len(b.queue[run]) \in Nat
  BY <1>1, LenProperties
<1> QED
  BY <1>1, <1>2 DEF Lengthened

LEMMA AdmitIsDraining ==
    ASSUME GInv, NEW r \in Request, Admit(r)
    PROVE  \E b, where : Draining(b, where)
<1> DEFINE b == Enqueue(Observe(bucket), r)
           where == [attempt EXCEPT ![r] = "queued"]
<1>1. /\ Fits(b, where) /\ DrainTo(b, where) /\ Kept(bucket, b)
      /\ RunOf[r] \in Run /\ attempt[r] = "asking"
      /\ \A q \in Run : b.queue[q] = IF q = RunOf[r] THEN Append(bucket.queue[q], r)
                                                     ELSE bucket.queue[q]
  BY AdmitDrains
<1> HIDE DEF b
<1>2. Framed(bucket) /\ attempt \in [Request -> Places]
  BY DEF GInv, Fits, PlacesFit
<1>3. OpenIn(where) \subseteq Open
  BY <1>2 DEF OpenIn, Open
<1> HIDE DEF where
<1>4. ASSUME NEW run \in Run
      PROVE  /\ Len(bucket.queue[run]) <= Len(b.queue[run])
             /\ \A n \in 1..Len(bucket.queue[run]) : b.queue[run][n] = bucket.queue[run][n]
  <2> DEFINE s == bucket.queue[run]
  <2>1. s \in Seq(Request)
    BY <1>2 DEF Framed
  <2>2. b.queue[run] = Append(s, r) \/ b.queue[run] = s
    BY <1>1
  <2> HIDE DEF s
  <2>3. /\ Len(s) \in Nat /\ Len(Append(s, r)) = Len(s) + 1
        /\ \A n \in 1..Len(s) : Append(s, r)[n] = s[n]
    BY <2>1, LenProperties, AppendProperties
  <2>4. /\ Len(s) <= Len(b.queue[run])
        /\ \A n \in 1..Len(s) : b.queue[run][n] = s[n]
    BY <2>2, <2>3
  <2> QED
    BY <2>4 DEF s
<1>5. Lengthened(bucket, b)
  BY <1>4 DEF Lengthened
<1> QED
  BY <1>1, <1>3, <1>5 DEF Draining

LEMMA SettleIsDraining ==
    ASSUME GInv, NEW r \in Request, Settle(r)
    PROVE  \E b, where : Draining(b, where)
<1>1. PICK c \in Endings(bucket.ctl, r) :
         LET b == FanOutThenBump(bucket, c, RunOf[r])
             where == [attempt EXCEPT ![r] = "settled"]
         IN  /\ Fits(b, where) /\ DrainTo(b, where) /\ b.ctl = c
             /\ SameQueues(bucket, b) /\ attempt[r] = "granted"
             /\ \A run \in Run : b.told[run] =
                  IF c.cap # bucket.ctl.cap /\ Engaged(bucket, run) THEN c.cap
                                                                    ELSE bucket.told[run]
  BY SettleDrains
<1> DEFINE b == FanOutThenBump(bucket, c, RunOf[r])
           where == [attempt EXCEPT ![r] = "settled"]
<1>2. /\ Fits(b, where) /\ DrainTo(b, where) /\ b.ctl = c /\ SameQueues(bucket, b)
      /\ \A run \in Run : b.told[run] =
           IF c.cap # bucket.ctl.cap /\ Engaged(bucket, run) THEN c.cap ELSE bucket.told[run]
  BY <1>1
<1> HIDE DEF b
<1>3. Framed(bucket) /\ attempt \in [Request -> Places]
  BY DEF GInv, Fits, PlacesFit
<1>4. OpenIn(where) \subseteq Open
  BY <1>3 DEF OpenIn, Open
<1> HIDE DEF where
<1>5. Heard(bucket, b)
  BY <1>2 DEF Heard
<1>6. Lengthened(bucket, b)
  BY <1>2, <1>3, SameIsLengthened
<1> QED
  BY <1>2, <1>4, <1>5, <1>6 DEF Draining

LEMMA ThreeKinds ==
    ASSUME GInv, [Next]_vars
    PROVE  Quiet \/ Fast \/ \E b, where : Draining(b, where)
<1>0. Fits(bucket, attempt) /\ Framed(bucket) /\ attempt \in [Request -> Places]
  BY DEF GInv, Fits, PlacesFit
<1>1. ASSUME NEW r \in Request, AdmitNow(r)
      PROVE  Fast
  <2> DEFINE o == Observe(bucket)
  <2>1. Fits(o, attempt) /\ Rested(o.ctl) /\ SameQueues(bucket, o) /\ Kept(bucket, o)
    BY <1>0, ObserveFits
  <2>2. /\ attempt[r] \notin {"granted", "queued"} /\ bucket' = Grant(o, r)
        /\ Waiting(o) = 0 /\ CanAdmit(o.ctl)
    BY <1>1 DEF AdmitNow, FastPath
  <2> HIDE DEF o
  <2>3. /\ Rested(o.ctl) => bucket'.ctl.cap = o.ctl.cap /\ bucket'.told = o.told
        /\ Rested(o.ctl) /\ CanAdmit(o.ctl) => Under(bucket'.ctl)
    BY <2>1, <2>2, GrantFits
  <2>4. Kept(bucket, bucket') /\ Under(bucket'.ctl)
    BY <2>1, <2>2, <2>3 DEF Kept
  <2>5. Queued(bucket) = {}
    BY <1>0, <2>1, <2>2, SameQueued, WaitingCounts
  <2> QED
    BY <2>4, <2>5 DEF Fast
<1>2. ASSUME NEW r \in Request, TryMisses(r) \/ AdmitAborted(r)
      PROVE  Quiet
  <2>1. bucket' = Observe(bucket)
    BY <1>2 DEF TryMisses, AdmitAborted
  <2>2. Open' \subseteq Open
    BY <1>0, <1>2 DEF TryMisses, AdmitAborted, Open
  <2> QED
    BY <1>0, <2>1, <2>2, ObserveFits DEF Quiet
<1>3. ASSUME NEW r \in Request, Abort(r)
      PROVE  Quiet
  <2> DEFINE d == Dequeue(bucket, r)
             where == [attempt EXCEPT ![r] = "idle"]
  <2>1. bucket' = Feed(d) /\ attempt[r] = "queued" /\ attempt' = where
    BY <1>3 DEF Abort
  <2>2. RunOf[r] \in Run
    BY <1>0, <2>1 DEF Fits, PlacesFit
  <2>3. d.ctl = bucket.ctl /\ d.told = bucket.told
    BY <1>0, <2>2, DequeueFields
  <2>4. Fits(d, where)
    BY <1>0, <2>1, DequeueFits
  <2> HIDE DEF d
  <2>5. Open' \subseteq Open
    BY <1>0, <2>1 DEF Open
  <2> HIDE DEF where
  <2>6. Kept(d, bucket')
    BY <2>1, <2>4, FeedFits
  <2>7. Kept(bucket, bucket')
    BY <2>3, <2>6 DEF Kept
  <2> QED
    BY <2>5, <2>7 DEF Quiet
<1>4. ASSUME NEW r \in Request, Observed(r)
      PROVE  Quiet
  <2>1. attempt[r] \notin {"granted", "queued"} /\ bucket' = Grant(bucket, r) /\ RunOf[r] = Observer
    BY <1>4 DEF Observed
  <2>2. Kept(bucket, bucket')
    BY <1>0, <2>1, GrantFits
  <2>3. Open' \subseteq Open \cup {r}
    BY <1>0, <1>4 DEF Observed, Open
  <2> QED
    BY <2>1, <2>2, <2>3 DEF Quiet
<1>5. ASSUME NEW r \in Request, Release(r)
      PROVE  Quiet
  <2>1. bucket' = bucket /\ attempt' = [attempt EXCEPT ![r] = "idle"]
    BY <1>5 DEF Release, Inert
  <2>2. Open' \subseteq Open
    BY <1>0, <2>1 DEF Open
  <2> QED
    BY <2>1, <2>2 DEF Quiet, Kept
<1>6. CASE Ring
  <2>1. DrainTo(bucket, attempt)
    BY <1>6 DEF Ring
  <2>2. OpenIn(attempt) \subseteq Open
    BY DEF OpenIn, Open
  <2>3. SameQueues(bucket, bucket) /\ Kept(bucket, bucket)
    BY DEF SameQueues, Kept
  <2> QED
    BY <1>0, <2>1, <2>2, <2>3, SameIsLengthened DEF Draining
<1>7. CASE Tick
  <2> DEFINE t == [bucket EXCEPT !.ctl = Elapsed(bucket.ctl)]
  <2>1. t.ctl.cap = bucket.ctl.cap
    BY <1>0, TickFits
  <2>2. t.told = bucket.told
    BY <1>0 DEF Framed, Slots
  <2>3. bucket' = t /\ attempt' = attempt
    BY <1>7 DEF Tick
  <2> HIDE DEF t
  <2> QED
    BY <2>1, <2>2, <2>3 DEF Quiet, Kept, Open
<1>8. CASE UNCHANGED vars
  BY <1>8 DEF vars, Quiet, Kept, Open
<1> QED
  BY <1>1, <1>2, <1>3, <1>4, <1>5, <1>6, <1>7, <1>8, AdmitIsDraining, SettleIsDraining DEF Next

(***************************************************************************)
(* Who is admitted by a drain stood in a queue that it left, and was ahead *)
(* of those of its run that stayed.                                        *)
(***************************************************************************)
LEMMA DrainAdmits ==
    ASSUME NEW b, NEW where, Draining(b, where), NEW r \in Open' \ Open
    PROVE  /\ Under(bucket'.ctl) /\ RunOf[r] \in Run /\ r \in Range(b.queue[RunOf[r]])
           /\ \A q \in Request : /\ q \in Range(b.queue[RunOf[r]])
                                 /\ At(b.queue[RunOf[r]])[q] < At(b.queue[RunOf[r]])[r]
                                 => q \in Open'
<1> DEFINE run == RunOf[r]
           d == bucket'
<1>1. Fits(b, where) /\ OpenIn(where) \subseteq Open /\ DrainTo(b, where)
  BY DEF Draining
<1>2. GInv' /\ Drained(b, where, d) /\ attempt' = Served(d, where)
  BY <1>1, DrainToFits
<1>3. Fits(d, attempt')
  BY <1>2 DEF GInv
<1>4. Open' = {p \in Request : attempt'[p] = "granted"} /\ r \in Request
  BY DEF Open
<1> HIDE DEF d
<1>5. \A p \in Request : attempt'[p] = IF where[p] = "queued" /\ p \notin Queued(d) THEN "granted"
                                                                                   ELSE where[p]
  BY <1>2 DEF Served
<1>6. where[r] = "queued" /\ r \notin Queued(d)
  BY <1>1, <1>4, <1>5 DEF OpenIn
<1>7. Queued(b) = {p \in Request : where[p] = "queued"}
  BY <1>1, QueuedAre
<1>8. Under(d.ctl)
  BY <1>2, <1>4, <1>6, <1>7 DEF Drained
<1>9. run \in Run
  BY <1>1, <1>4, <1>6 DEF Fits, PlacesFit
<1> HIDE DEF run
<1>10. /\ Range(b.queue[run]) = QueuedIn(where, run)
       /\ Range(d.queue[run]) = QueuedIn(attempt', run)
  BY <1>1, <1>3, <1>9 DEF Fits, QueuesFit
<1>11. r \in Range(b.queue[run]) /\ r \notin Range(d.queue[run])
  BY <1>4, <1>5, <1>6, <1>10 DEF QueuedIn, run
<1>12. ASSUME NEW q \in Request, q \in Range(b.queue[run]),
              At(b.queue[run])[q] < At(b.queue[run])[r]
       PROVE  q \in Open'
  <2>1. where[q] = "queued" /\ RunOf[q] = run
    BY <1>10, <1>12 DEF QueuedIn
  <2> DEFINE at == At(b.queue[run])
  <2>2. at[q] \in Int /\ at[r] \in Int
    <3>1. b.queue[run] \in Seq(Request) /\ IsInjective(b.queue[run])
      BY <1>1, <1>9 DEF Fits, Framed, QueuesFit
    <3>2. DOMAIN b.queue[run] \subseteq Int
      BY <3>1, LenProperties
    <3>3. \A p \in Range(b.queue[run]) : At(b.queue[run])[p] \in DOMAIN b.queue[run]
      BY <3>1, AtFacts DEF Range
    <3> QED
      BY <3>2, <3>3, <1>11, <1>12
  <2>3. q \notin Range(d.queue[run])
    <3> SUFFICES ASSUME q \in Range(d.queue[run]) PROVE FALSE
      OBVIOUS
    <3>1. at[r] < at[q]
      BY <1>2, <1>9, <1>11 DEF Drained, InTurn
    <3> HIDE DEF at
    <3>2. at[q] < at[r]
      BY <1>12 DEF at
    <3> QED
      BY <2>2, <3>1, <3>2
  <2>4. attempt'[q] # "queued"
    BY <2>1, <2>3, <1>10 DEF QueuedIn
  <2> QED
    BY <2>1, <2>4, <1>4, <1>5
<1> QED
  BY <1>8, <1>9, <1>11, <1>12 DEF run, d

(***************************************************************************)
(* The requests Ahead of r in its queue stand before it in any lengthening *)
(* of that queue.                                                          *)
(***************************************************************************)
LEMMA AheadStandsBefore ==
    ASSUME NEW s \in Seq(Request), NEW t \in Seq(Request), IsInjective(t),
           Len(s) <= Len(t), \A n \in 1..Len(s) : t[n] = s[n],
           NEW r \in Range(t), NEW q \in Range(s),
           \A n \in DOMAIN s : s[n] = r => q \in Range(SubSeq(s, 1, n - 1))
    PROVE  q \in Range(t) /\ At(t)[q] < At(t)[r]
<1>1. /\ DOMAIN s = 1..Len(s) /\ DOMAIN t = 1..Len(t) /\ Len(s) \in Nat /\ Len(t) \in Nat
  BY LenProperties
<1>2. \A n \in DOMAIN t : t[n] \in Range(t) /\ At(t)[t[n]] = n
  BY AtFacts
<1>3. PICK n \in DOMAIN t : t[n] = r
  BY DEF Range
<1>4. PICK m \in DOMAIN s : s[m] = q /\ m < n
  <2>1. CASE n \in DOMAIN s
    <3>1. q \in Range(SubSeq(s, 1, n - 1))
      BY <2>1, <1>1, <1>3
    <3> DEFINE u == SubSeq(s, 1, n - 1)
    <3>2. DOMAIN u = 1..(n - 1) /\ \A i \in 1..(n - 1) : u[i] = s[i]
      <4>1. 1 \in Int /\ n - 1 \in Int /\ n - 1 <= Len(s)
        BY <2>1, <1>1
      <4>2. u = [i \in 1..((n - 1) - 1 + 1) |-> s[1 + i - 1]]
        BY <4>1
      <4>3. (n - 1) - 1 + 1 = n - 1
        BY <4>1
      <4> HIDE DEF u
      <4> QED
        BY <4>1, <4>2, <4>3
    <3>3. PICK i \in DOMAIN u : u[i] = q
      BY <3>1 DEF Range
    <3> HIDE DEF u
    <3> QED
      BY <3>2, <3>3, <2>1, <1>1
  <2>2. CASE n \notin DOMAIN s
    <3>1. PICK m \in DOMAIN s : s[m] = q
      BY DEF Range
    <3> QED
      BY <3>1, <2>2, <1>1
  <2> QED
    BY <2>1, <2>2
<1>5. m \in DOMAIN t /\ t[m] = q
  BY <1>1, <1>4
<1> QED
  BY <1>2, <1>3, <1>4, <1>5

LEMMA StepAdmitsUnderCap ==
    ASSUME GInv, [Next]_vars, NEW r \in Open' \ Open, RunOf[r] # Observer
    PROVE  Under(bucket'.ctl)
<1>1. ~Quiet
  BY DEF Quiet
<1> QED
  BY <1>1, ThreeKinds, DrainAdmits DEF Fast

LEMMA StepAdmitsInOrder ==
    ASSUME GInv, [Next]_vars, NEW r \in Open' \ Open, RunOf[r] # Observer
    PROVE  Ahead(r) \subseteq Open'
<1>1. ~Quiet
  BY DEF Quiet
<1>2. CASE Fast
  BY <1>2 DEF Fast, Ahead
<1>3. CASE \E b, where : Draining(b, where)
  <2>1. PICK b, where : Draining(b, where)
    BY <1>3
  <2> DEFINE run == RunOf[r]
             s == bucket.queue[run]
             t == b.queue[run]
  <2>2. /\ run \in Run /\ r \in Range(t)
        /\ \A q \in Request : q \in Range(t) /\ At(t)[q] < At(t)[r] => q \in Open'
    BY <2>1, DrainAdmits
  <2>3. s \in Seq(Request) /\ t \in Seq(Request) /\ IsInjective(t)
    BY <2>1, <2>2 DEF GInv, Draining, Fits, Framed, QueuesFit
  <2>4. Len(s) <= Len(t) /\ \A n \in 1..Len(s) : t[n] = s[n]
    BY <2>1, <2>2 DEF Draining, Lengthened
  <2> SUFFICES ASSUME NEW q \in Ahead(r) PROVE q \in Open'
    OBVIOUS
  <2>5. /\ q \in Queued(bucket) /\ RunOf[q] = run
        /\ \A n \in DOMAIN s : s[n] = r => q \in Range(SubSeq(s, 1, n - 1))
    BY DEF Ahead
  <2>6. q \in Request /\ q \in Range(s)
    <3>1. Fits(bucket, attempt)
      BY DEF GInv
    <3>2. q \in Request /\ attempt[q] = "queued"
      BY <3>1, <2>5, QueuedAre
    <3>3. Range(s) = QueuedIn(attempt, run)
      BY <3>1, <2>2 DEF Fits, QueuesFit
    <3> QED
      BY <3>2, <3>3, <2>5 DEF QueuedIn
  <2> HIDE DEF s, t, run
  <2>7. q \in Range(t) /\ At(t)[q] < At(t)[r]
    BY <2>2, <2>3, <2>4, <2>5, <2>6, AheadStandsBefore
  <2> QED
    BY <2>2, <2>6, <2>7
<1> QED
  BY <1>1, <1>2, <1>3, ThreeKinds

LEMMA StepCutsAreHeard ==
    ASSUME GInv, GInv', [Next]_vars, bucket'.ctl.cap < bucket.ctl.cap,
           NEW r \in Request, attempt[r] \in {"queued", "granted"}, RunOf[r] # Observer
    PROVE  bucket'.told[RunOf[r]] = bucket'.ctl.cap
<1>0. /\ Fits(bucket, attempt) /\ RunOf[r] \in Run
      /\ bucket.ctl.cap \in 1..Ceiling /\ bucket'.ctl.cap \in 1..Ceiling /\ Ceiling \in Nat
  BY RunOfAssumption, CeilingAssumption DEF GInv, Fits, Framed, Sound, InRange
<1>1. ~Kept(bucket, bucket')
  BY <1>0 DEF Kept
<1>2. PICK b, where : Draining(b, where)
  BY <1>1, ThreeKinds DEF Quiet, Fast
<1>3. Kept(b, bucket')
  <2>1. Fits(b, where) /\ DrainTo(b, where)
    BY <1>2 DEF Draining
  <2> QED
    BY <2>1, DrainToFits DEF Drained
<1>4. bucket'.ctl.cap = b.ctl.cap /\ bucket'.told = b.told
  BY <1>0, <1>3 DEF Kept
<1>5. Heard(bucket, b)
  BY <1>1, <1>2, <1>4 DEF Draining, Kept
<1>6. Engaged(bucket, RunOf[r])
  <2>1. CASE attempt[r] = "queued"
    <3>1. r \in Range(bucket.queue[RunOf[r]])
      BY <1>0, <2>1 DEF Fits, QueuesFit, QueuedIn
    <3> QED
      BY <3>1 DEF Range, Engaged
  <2>2. CASE attempt[r] = "granted"
    <3>1. r \in OpenOf(attempt, RunOf[r])
      BY <2>2 DEF OpenOf, OpenIn
    <3>2. Cardinality(OpenOf(attempt, RunOf[r])) > 0
      BY <3>1, OpenFinite, FS_EmptySet
    <3> QED
      BY <1>0, <3>2 DEF Fits, CountsFit, Engaged
  <2> QED
    BY <2>1, <2>2
<1> QED
  BY <1>0, <1>4, <1>5, <1>6 DEF Heard

(***************************************************************************)
(* A step that admits a request of a run stays under the cap and outside a *)
(* cooldown.                                                               *)
(***************************************************************************)
THEOREM AdmissionsRespectTheCap == Spec => AdmittedUnderCap
<1> DEFINE Admits == \E r \in Open' \ Open : RunOf[r] # Observer
           Fine == bucket'.ctl.inFlight <= bucket'.ctl.cap /\ bucket'.ctl.cooldown \in {None, 0}
<1>1. GInv /\ [Next]_vars => [Admits => Fine]_vars
  BY StepAdmitsUnderCap DEF Under
<1> QED
  BY <1>1, GovernorInductive, PTL DEF Spec, AdmittedUnderCap

(***************************************************************************)
(* Nobody is admitted past an earlier request of its run.                  *)
(***************************************************************************)
THEOREM FirstComeFirstServed == Spec => QueuesAreFifo
<1> DEFINE InOrder == \A r \in Open' \ Open : RunOf[r] # Observer => Ahead(r) \subseteq Open'
<1>1. GInv /\ [Next]_vars => [InOrder]_vars
  BY StepAdmitsInOrder
<1> QED
  BY <1>1, GovernorInductive, PTL DEF Spec, QueuesAreFifo

(***************************************************************************)
(* A cut is told to every run that is engaged, also to the one whose only  *)
(* request caused it.                                                      *)
(***************************************************************************)
THEOREM CutsAreHeard == Spec => EngagedRunsHear
<1> DEFINE Told == bucket'.ctl.cap < bucket.ctl.cap =>
                     \A r \in Request : attempt[r] \in {"queued", "granted"} /\ RunOf[r] # Observer
                        => bucket'.told[RunOf[r]] = bucket'.ctl.cap
<1>1. GInv /\ GInv' /\ [Next]_vars => [Told]_vars
  BY StepCutsAreHeard
<1> QED
  BY <1>1, GovernorInductive, PTL DEF Spec, EngagedRunsHear
=============================================================================
