------------------------------ MODULE SeatGate ------------------------------
(***************************************************************************)
(* The per-run seat gate of the workflow driver (workflow-seat-gate.ts).   *)
(*                                                                         *)
(* A run may be told, while its sub-agents work, to use fewer of them.     *)
(* The gate enforces the lowered limit on the next model request of each   *)
(* sub-agent: one that asks for a turn step while more than `limit` of     *)
(* them are working is parked, first come first served, until a seat is    *)
(* free.  A sub-agent (a key) works from the start of its ask to the       *)
(* node-settled event of that ask.                                         *)
(*                                                                         *)
(* The environment is the scheduler (one ask at a time per sub-agent), the *)
(* sub-agent's turn loop (requests and tools) and the abort signals.       *)
(***************************************************************************)
EXTENDS Integers, Sequences, FiniteSets, SequencesExt, Functions

CONSTANTS
    Key,        \* the sub-agents of the run (actor references)
    Ask,        \* the ask instances the scheduler may dispatch
    KeyOf,      \* the sub-agent each ask belongs to
    MaxLimit,   \* the ceiling the run's own limit is clamped to
    MaxTools    \* bound: tool calls a sub-agent may have in flight

ASSUME KeyAssumption == IsFiniteSet(Key)
ASSUME KeyOfAssumption == KeyOf \in [Ask -> Key]
ASSUME MaxLimitAssumption == MaxLimit \in Nat \ {0}
ASSUME MaxToolsAssumption == MaxTools \in Nat

VARIABLES
    limit,      \* the gate's limit
    working,    \* keys with an ask in flight that are not parked
    parked,     \* the FIFO of keys that wait for a seat
    instances,  \* asks started and not settled (the map from ref to key)
    request,    \* what each key's turn loop is doing with its next request
    tools       \* tool calls each key has in flight

vars == <<limit, working, parked, instances, request, tools>>

(***************************************************************************)
(* "idle": between requests.  "waiting": suspended inside acquireSeat.     *)
(* "admitted": past the gate, inside the governor or the provider.         *)
(***************************************************************************)
RequestState == {"idle", "waiting", "admitted"}

Parked == Range(parked)
Occupied == {KeyOf[a] : a \in instances}

Clamp(n) == IF n < 1 THEN 1 ELSE n

(* Faults for the mutant runs: a seat too many, no grant. *)
GrantsOneTooMany(l, w, p) ==
    LET free == l + 1 - Cardinality(w)
    IN  IF free <= 0 THEN 0 ELSE IF free < Len(p) THEN free ELSE Len(p)
GrantsNobody(l, w, p) == 0

(***************************************************************************)
(* unpark(): grants from the head of the FIFO while there is a free seat.  *)
(* Keys of the FIFO are distinct and none of them works, so the loop stops *)
(* after exactly this many grants.                                         *)
(***************************************************************************)
Grants(l, w, p) ==
    LET free == l - Cardinality(w)
    IN  IF free <= 0 THEN 0 ELSE IF free < Len(p) THEN free ELSE Len(p)

(* The fault of granting last in, first out; then the grant. *)
UnparkLastInto(l, w, p, r) ==
    LET kept == Len(p) - Grants(l, w, p)
        granted == Range(SubSeq(p, kept + 1, Len(p)))
    IN  /\ working' = w \cup granted
        /\ parked' = SubSeq(p, 1, kept)
        /\ request' = [k \in Key |-> IF k \in granted THEN "admitted" ELSE r[k]]

UnparkInto(l, w, p, r) ==
    LET n == Grants(l, w, p)
        granted == {p[i] : i \in 1..n}
    IN  /\ working' = w \cup granted
        /\ parked' = SubSeq(p, n + 1, Len(p))
        /\ request' = [k \in Key |-> IF k \in granted THEN "admitted" ELSE r[k]]

-----------------------------------------------------------------------------
Init ==
    /\ limit \in 1..MaxLimit
    /\ working = {}
    /\ parked = <<>>
    /\ instances = {}
    /\ request = [k \in Key |-> "idle"]
    /\ tools = [k \in Key |-> 0]

(* setLimit: raising it lets parked sub-agents in, lowering recalls nobody. *)
SetLimit(n) ==
    /\ limit' = Clamp(n)
    /\ UnparkInto(Clamp(n), working, parked, request)
    /\ UNCHANGED <<instances, tools>>

(***************************************************************************)
(* startAsk of the driver: the scheduler gives an ask to a sub-agent that  *)
(* has none.  The tool counts of the previous ask are dropped.             *)
(***************************************************************************)
AskStarted(a) ==
    /\ KeyOf[a] \notin Occupied
    /\ instances' = instances \cup {a}
    /\ working' = IF KeyOf[a] \in Parked THEN working ELSE working \cup {KeyOf[a]}
    /\ tools' = [tools EXCEPT ![KeyOf[a]] = 0]
    /\ UNCHANGED <<limit, parked, request>>

(* needsSeat: an in-flight ask that is not parked and has no tool running. *)
NeedsSeat(k) == k \in working /\ tools[k] = 0

(* A sub-agent goes to sleep in acquireSeat: it works no longer. *)
Park(k) ==
    /\ working' = working \ {k}
    /\ parked' = Append(parked, k)
    /\ request' = [request EXCEPT ![k] = "waiting"]

(***************************************************************************)
(* acquire, up to the point where it suspends: a turn step waits when more *)
(* than `limit` sub-agents work, everything else goes on to the governor.  *)
(* A turn may go on after its ask was settled: its requests need no seat.  *)
(***************************************************************************)
Acquire(k) ==
    /\ request[k] = "idle"
    /\ IF NeedsSeat(k) /\ Cardinality(working) > limit
         THEN Park(k)
         ELSE /\ request' = [request EXCEPT ![k] = "admitted"]
              /\ UNCHANGED <<working, parked>>
    /\ UNCHANGED <<limit, instances, tools>>

(* The admitted request ends; the model may have asked for one more tool. *)
RequestDone(k) ==
    /\ request[k] = "admitted"
    /\ request' = [request EXCEPT ![k] = "idle"]
    /\ \E started \in {0, 1} :
          /\ started = 1 => tools[k] < MaxTools
          /\ tools' = [tools EXCEPT ![k] = @ + started]
    /\ UNCHANGED <<limit, working, parked, instances>>

ToolDone(k) ==
    /\ tools[k] > 0
    /\ tools' = [tools EXCEPT ![k] = @ - 1]
    /\ UNCHANGED <<limit, working, parked, instances, request>>

(* A parked sub-agent leaves the FIFO and its request is refused. *)
Seat(k) == CHOOSE i \in DOMAIN parked : parked[i] = k
Leave(k) ==
    /\ parked' = RemoveAt(parked, Seat(k))
    /\ request' = [request EXCEPT ![k] = "idle"]

(* "Out of the FIFO means working": without it the limit drifts upwards. *)
BackToNothing(k) == working
BackToWork(k) == working \cup {k}

(***************************************************************************)
(* onAbort: the signal of a parked request fires.  The request is refused  *)
(* and its sub-agent is working again: it still has its ask.               *)
(***************************************************************************)
AbortParked(k) ==
    /\ k \in Parked
    /\ Leave(k)
    /\ working' = BackToWork(k)
    /\ UNCHANGED <<limit, instances, tools>>

(***************************************************************************)
(* node-settled reaches askSettled.  A parked sub-agent leaves the FIFO    *)
(* and frees no seat; a working one leaves its seat to the FIFO.           *)
(***************************************************************************)
AskSettled(a) ==
    /\ a \in instances
    /\ instances' = instances \ {a}
    /\ LET k == KeyOf[a]
       IN  IF k \in Parked
             THEN Leave(k) /\ UNCHANGED working
             ELSE IF k \in working
               THEN UnparkInto(limit, working \ {k}, parked, request)
               ELSE UNCHANGED <<working, parked, request>>
    /\ UNCHANGED <<limit, tools>>

Next ==
    \/ \E n \in 0..MaxLimit : SetLimit(n)
    \/ \E a \in Ask : AskStarted(a) \/ AskSettled(a)
    \/ \E k \in Key : Acquire(k) \/ RequestDone(k) \/ ToolDone(k) \/ AbortParked(k)

Spec == Init /\ [][Next]_vars

-----------------------------------------------------------------------------
TypeOK ==
    /\ limit \in 1..MaxLimit
    /\ working \in SUBSET Key
    /\ parked \in Seq(Key)
    /\ instances \in SUBSET Ask
    /\ request \in [Key -> RequestState]
    /\ tools \in [Key -> Nat]

(***************************************************************************)
(* The two counts of stats() never count one sub-agent twice: the working  *)
(* set and the FIFO are disjoint and the FIFO has no repetition.           *)
(***************************************************************************)
NobodyCountedTwice ==
    /\ working \cap Parked = {}
    /\ \A i, j \in 1..Len(parked) : parked[i] = parked[j] => i = j

(***************************************************************************)
(* The header's third discipline: as long as somebody is parked every seat *)
(* is taken, so the FIFO always has a seat to wait for and the scheduler,  *)
(* whose activeAsks is working + parked, can dispatch nothing past it.     *)
(***************************************************************************)
ParkedMeansFull == parked # <<>> => Cardinality(working) >= limit

(***************************************************************************)
(* The header's second discipline: the sub-agents with an ask in flight    *)
(* are exactly those counted as working and those counted as parked, so    *)
(* activeAsks = working + parked through every abort and every settlement. *)
(***************************************************************************)
AccountsForEveryAsk == Occupied = working \cup Parked

(***************************************************************************)
(* A sub-agent is suspended inside acquireSeat exactly while it is in the  *)
(* FIFO: nobody waits for a grant that can no longer come.                 *)
(***************************************************************************)
WaitersAreParked == \A k \in Key : request[k] = "waiting" <=> k \in Parked

(***************************************************************************)
(* No step seats a parked sub-agent before one parked earlier: whoever of  *)
(* the FIFO is admitted by a step was ahead of all who still wait.         *)
(***************************************************************************)
Fifo ==
    [][\A i, j \in 1..Len(parked) :
          (i < j /\ request[parked[j]] = "waiting" /\ request'[parked[j]] = "admitted")
             => parked[i] \notin Range(parked')]_vars

(***************************************************************************)
(* Lowering the limit takes effect at the next turn step: while more       *)
(* sub-agents work than the limit allows, no step admits a turn step of a  *)
(* sub-agent that has an ask and no tool running.                          *)
(***************************************************************************)
NoTurnStepOverLimit ==
    [][\A k \in Key :
          (request[k] # "admitted" /\ request'[k] = "admitted"
           /\ k \in Occupied /\ tools[k] = 0)
             => Cardinality(working') <= limit']_vars
=============================================================================
