-------------------------- MODULE ControllerSignals --------------------------
(***************************************************************************)
(* The concurrency controller under any order of signals: requests are     *)
(* admitted and end, waiters are reported, time passes.                    *)
(***************************************************************************)
EXTENDS ConcurrencyController

VARIABLES
    ctl,    \* the controller's fields, see Controller
    open    \* requests admitted and not ended

signals == <<ctl, open>>

SignalsInit == ctl = Start /\ open = {}

SignalAdmit(r) ==
    /\ r \notin open
    /\ open' = open \cup {r}
    /\ ctl' = Admitted(IdleReset(ctl), r)

SignalEnd(r) ==
    /\ r \in open
    /\ open' = open \ {r}
    /\ ctl' \in Endings(ctl, r)

SignalWaiters(n) == ctl' = Fed(ctl, n) /\ UNCHANGED open
SignalTick == ctl' = Elapsed(ctl) /\ UNCHANGED open

SignalsNext ==
    \/ \E r \in Request : SignalAdmit(r) \/ SignalEnd(r)
    \/ \E n \in 0..Cardinality(Request) : SignalWaiters(n)
    \/ SignalTick

SignalsSpec == SignalsInit /\ [][SignalsNext]_signals

-----------------------------------------------------------------------------
(* Properties.                                                             *)

(***************************************************************************)
(* Every field in its range: a probe is always allowed (the cap is at      *)
(* least one) and the ceiling is never passed, whatever the signals.       *)
(***************************************************************************)
SignalsTypeOK == ctl \in Controller /\ open \subseteq Request

(* inFlight is the number of open requests. *)
InFlightIsOpen == CountsOpen(ctl, open)

(***************************************************************************)
(* The search climbs by single steps: with a proven level, the cap is that *)
(* level or the next one, so falling back gives up one request only.       *)
(***************************************************************************)
ProbesOneAbove == ctl.good # None => ctl.cap \in {ctl.good, ctl.good + 1}

(***************************************************************************)
(* One verdict per batch: after the cap was cut, no request that is open   *)
(* at that moment may cut it again; it takes one admitted afterwards.      *)
(***************************************************************************)
CutsNeedNewRequests ==
    [][ctl'.cap < ctl.cap /\ open' # {} =>
          \A r \in open' : \A c \in Endings(ctl', r) : c.cap >= ctl'.cap]_signals
=============================================================================
