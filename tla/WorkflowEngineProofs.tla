------------------------- MODULE WorkflowEngineProofs -------------------------
(***************************************************************************)
(* One run, for any script, any number of sub-agents, any cap and any      *)
(* number of lives.  Most follows from where an ask can be: not yet        *)
(* admitted (recorded or fresh), or live, queued or current, and nowhere   *)
(* twice.  On this rest the positions in the journal, the promises of the  *)
(* script and, last, the replay: what is asked in one life and the next.    *)
(***************************************************************************)
EXTENDS WorkflowEngine, FiltersProofs, FiniteSetTheorems, FunctionTheorems

Asks == UNION {{b} \X DOMAIN Script[b] : b \in Branch}
ActorOf(x) == Script[x[1]][x[2]].actor
SiteOf(x) == Script[x[1]][x[2]].site
TextOf(x) == Script[x[1]][x[2]].text
Text == UNION {{Script[b][n].text : n \in DOMAIN Script[b]} : b \in Branch}
RowType == [actor : Actor, seq : Nat, hash : Text, status : Terminal \cup {"running"}]
EventType == [type : {"node-settled", "run-settled", "run-started"}, inst : Instance \cup {None},
              outcome : {"none", "ok", "failed", "cancelled", "completed", "stopped", "errored"}]
LineType == [kind : {"complete", "throw"}, branch : {None}, step : {0}]
              \cup {AskLine(x[1], x[2]) : x \in Asks}
ReplyType == {Reply(x, outcome) : x \in Asks, outcome \in {"ok", "failed"}}
SessionState == {"none", "creating", "ready", "rejected"}

JournalType ==
    /\ status \in {"running", "completed", "stopped", "errored"} /\ cap \in Caps
    /\ nodes \in [DOMAIN nodes -> RowType] /\ DOMAIN nodes \subseteq Instance
    /\ events \in Seq(EventType)
AdmissionType ==
    /\ ordinals \in [Site -> Nat] /\ asked \in [DOMAIN asked -> Asks]
    /\ DOMAIN asked = {i \in Instance : i[2] <= ordinals[i[1]]}
    /\ nextAdmitSeq \in [Actor -> Nat] /\ pendingLive \in [Actor -> Seq(Instance)]
    /\ DOMAIN pendingRecorded = Actor
    /\ \A a \in Actor : DOMAIN pendingRecorded[a] \in SUBSET Nat /\ IsFiniteSet(DOMAIN pendingRecorded[a])
DispatchType ==
    /\ liveQueue \in [Actor -> Seq(Instance)] /\ current \in [Actor -> Instance \cup {None}]
    /\ session \in [Actor -> SessionState]
    /\ liveNodes \in Seq(Instance) /\ dispatched \subseteq Range(liveNodes) /\ activeAsks \in Nat
GateType ==
    /\ order \in Seq(Instance) /\ cursor \in 1..(Len(order) + 1) /\ parked \subseteq DOMAIN asked
PipeType ==
    /\ up \in BOOLEAN /\ toHost \in Seq(LineType) /\ toChild \in Seq(ReplyType)
Types == JournalType /\ AdmissionType /\ DispatchType /\ GateType /\ PipeType

(* A row put again: the same ask, if perhaps under another actor. *)
SameAsk(new, old) == new.seq = old.seq /\ new.hash = old.hash /\ new.status = old.status

(* Where the asks of an actor are. *)
Recorded(a) == {pendingRecorded[a][n] : n \in DOMAIN pendingRecorded[a]}
Has(queue, cur, a) == Range(queue[a]) \cup ({cur[a]} \ {None})
Holds(a) == Has(liveQueue, current, a)

RecordedPlaces ==
    \A a \in Actor : \A n \in DOMAIN pendingRecorded[a] :
        /\ pendingRecorded[a][n] \in DOMAIN asked /\ pendingRecorded[a][n] \in DOMAIN nodes
        /\ nodes[pendingRecorded[a][n]].seq = n /\ ActorOf(asked[pendingRecorded[a][n]]) = a
FreshPlaces ==
    \A a \in Actor : /\ IsInjective(pendingLive[a])
                     /\ \A i \in Range(pendingLive[a]) : i \in DOMAIN asked /\ i \notin DOMAIN nodes
                                                          /\ ActorOf(asked[i]) = a
LivePlaces ==
    \A a \in Actor :
        /\ \A i \in Holds(a) : /\ i \in DOMAIN asked /\ ActorOf(asked[i]) = a
                               /\ i \in DOMAIN nodes /\ nodes[i].status = "running"
        /\ IsInjective(liveQueue[a]) /\ current[a] \notin Range(liveQueue[a])
        /\ Holds(a) \cap Recorded(a) = {}
Places ==
    /\ RecordedPlaces /\ FreshPlaces /\ LivePlaces
    /\ Range(liveNodes) = UNION {Holds(a) : a \in Actor}

(* An engine that is up runs a run that is running; one that is down holds nothing. *)
UpAndDown ==
    /\ up => status = "running" /\ events # <<>> /\ events[Len(events)].type # "run-settled"
    /\ ~up => liveNodes = <<>>

IInv == Types /\ Places /\ WorkConserving /\ UpAndDown

-----------------------------------------------------------------------------
(* RunLength: its CHOOSE has what it chooses, in every finite set. *)
LEMMA RunLengthFacts ==
  ASSUME NEW S \in SUBSET Nat, IsFiniteSet(S), NEW n \in Nat
  PROVE  /\ RunLength(S, n) \in Nat /\ n + RunLength(S, n) \notin S
         /\ \A j \in 0..(RunLength(S, n) - 1) : n + j \in S
<1> DEFINE T == {m \in Nat : n + m \notin S}
           P(m) == n + m \notin S /\ \A j \in 0..(m - 1) : n + j \in S
<1>0. Cardinality(S) \in Nat
  BY FS_CardinalityType
<1>1. T # {}
  <2> SUFFICES ASSUME T = {} PROVE FALSE
    OBVIOUS
  <2>1. n..(n + Cardinality(S)) \in SUBSET S
    <3> SUFFICES ASSUME NEW k \in n..(n + Cardinality(S)) PROVE k \in S
      OBVIOUS
    <3>1. k - n \in Nat /\ n + (k - n) = k
      BY <1>0
    <3> QED BY <3>1
  <2>2. Cardinality(n..(n + Cardinality(S))) = Cardinality(S) + 1
    BY <1>0, FS_Interval
  <2>3. Cardinality(n..(n + Cardinality(S))) <= Cardinality(S)
    BY <2>1, FS_Subset
  <2> QED BY <1>0, <2>2, <2>3
<1>2. PICK m \in T : \A k \in T : m <= k
  <2>1. T \in SUBSET Nat
    OBVIOUS
  <2> HIDE DEF T
  <2> QED BY <1>1, <2>1, LeastNat
<1>3. m \in Nat /\ P(m)
  <2>1. \A j \in 0..(m - 1) : n + j \in S
    <3> SUFFICES ASSUME NEW j \in 0..(m - 1), n + j \notin S PROVE FALSE
      OBVIOUS
    <3>1. j \in T
      OBVIOUS
    <3> QED BY <3>1, <1>2
  <2> QED BY <2>1
<1>4. m <= Cardinality(S)
  <2>1. n..(n + m - 1) \in SUBSET S
    <3> SUFFICES ASSUME NEW k \in n..(n + m - 1) PROVE k \in S
      OBVIOUS
    <3>1. k - n \in 0..(m - 1) /\ n + (k - n) = k
      BY <1>3
    <3> QED BY <3>1, <1>3
  <2>2. Cardinality(n..(n + m - 1)) = m
    BY <1>3, FS_Interval
  <2> QED BY <2>1, <2>2, FS_Subset
<1>5. \E k \in 0..Cardinality(S) : P(k)
  BY <1>0, <1>3, <1>4
<1>6. RunLength(S, n) = CHOOSE k \in 0..Cardinality(S) : P(k)
  BY DEF RunLength
<1> HIDE DEF P
<1>7. RunLength(S, n) \in 0..Cardinality(S) /\ P(RunLength(S, n))
  BY <1>5, <1>6
<1> QED BY <1>0, <1>7 DEF P

(***************************************************************************)
(* The gate: what it releases was parked or has just come, each of them    *)
(* an ask of this life.                                                    *)
(***************************************************************************)
LEMMA HoldFacts ==
  ASSUME GateType, NEW D, parked \subseteq D, NEW answers \in Seq(D)
  PROVE  /\ Hold(answers).released \in Seq(D) /\ Hold(answers).parked \subseteq D
         /\ Hold(answers).cursor \in 1..(Len(order) + 1)
<1> DEFINE direct == Keep(answers, {i \in DOMAIN nodes : ~InTable(i)})
           waiting == parked \cup {i \in Range(answers) : InTable(i)}
           S == {n \in DOMAIN order : order[n] \in waiting}
           turn == RunLength(S, cursor)
           due == SubSeq(order, cursor, cursor + turn - 1)
<1>0. order \in Seq(Instance) /\ Len(order) \in Nat /\ DOMAIN order = 1..Len(order)
      /\ cursor \in 1..(Len(order) + 1) /\ cursor \in Nat
  BY LenProperties DEF GateType
<1>1. direct \in Seq(D)
  BY KeepRange
<1>2. Range(answers) \subseteq D
  BY LenProperties, ElementOfSeq DEF Range
<1>3. waiting \subseteq D
  BY <1>2
<1>4. Hold(answers) = [released |-> direct \o due, parked |-> waiting \ Range(due), cursor |-> cursor + turn]
  BY DEF Hold
<1> HIDE DEF direct, waiting
<1>5. S \in SUBSET Nat /\ IsFiniteSet(S)
  <2>1. S \in SUBSET (1..Len(order)) /\ IsFiniteSet(1..Len(order))
    BY <1>0, FS_Interval
  <2> QED BY <2>1, FS_Subset
<1>6. \A n \in S : n \in 1..Len(order) /\ order[n] \in D
  BY <1>0, <1>3
<1> HIDE DEF S
<1>7. turn \in Nat /\ \A j \in 0..(turn - 1) : cursor + j \in S
  BY <1>0, <1>5, RunLengthFacts
<1> HIDE DEF turn
<1>8. \A n \in cursor..(cursor + turn - 1) : n \in S
  <2> SUFFICES ASSUME NEW n \in cursor..(cursor + turn - 1) PROVE n \in S
    OBVIOUS
  <2>1. n - cursor \in 0..(turn - 1) /\ cursor + (n - cursor) = n
    BY <1>0, <1>7
  <2> QED BY <2>1, <1>7
<1>9. due \in Seq(D)
  <2>1. \A n \in cursor..(cursor + turn - 1) : order[n] \in D
    BY <1>6, <1>8
  <2>2. cursor \in Int /\ cursor + turn - 1 \in Int
    BY <1>0, <1>7
  <2> QED BY <2>1, <2>2, SubSeqProperties
<1>10. cursor + turn \in 1..(Len(order) + 1)
  <2>1. CASE turn = 0
    BY <2>1, <1>0
  <2>2. CASE turn # 0
    <3>1. cursor + turn - 1 \in S
      BY <2>2, <1>0, <1>7, <1>8
    <3> QED BY <3>1, <1>0, <1>6, <1>7
  <2> QED BY <2>1, <2>2
<1>11. direct \o due \in Seq(D)
  BY <1>1, <1>9, ConcatProperties
<1> QED BY <1>3, <1>4, <1>10, <1>11

-----------------------------------------------------------------------------
(* Dispatch. *)

LEMMA SeqRange ==
  ASSUME NEW T, NEW s \in Seq(T)
  PROVE  Range(s) \subseteq T /\ \A k \in DOMAIN s : s[k] \in Range(s)
BY LenProperties, ElementOfSeq DEF Range

(* An actor takes the head of its queue and keeps the rest of it. *)
LEMMA ShiftFacts ==
  ASSUME NEW q \in Seq(Instance), IsInjective(q), q # <<>>
  PROVE  /\ NextQueued(q) \in Instance /\ NextQueued(q) \in Range(q)
         /\ Remaining(q) \in Seq(Instance) /\ IsInjective(Remaining(q))
         /\ Range(Remaining(q)) = Range(q) \ {NextQueued(q)}
<1>1. Len(q) \in Nat /\ DOMAIN q = 1..Len(q) /\ Len(q) # 0
  BY LenProperties, EmptySeq
<1>2. NextQueued(q) = q[1] /\ 1 \in DOMAIN q
  BY <1>1, HeadTailProperties DEF NextQueued
<1>3. NextQueued(q) \in Instance /\ NextQueued(q) \in Range(q)
  BY <1>2, <1>1, SeqRange
<1> DEFINE S == Range(q) \ {NextQueued(q)}
<1>4. /\ Keep(q, S) \in Seq(Instance) /\ Range(Keep(q, S)) = Range(q) \cap S
      /\ IsInjective(q) => IsInjective(Keep(q, S))
  BY KeepRange
<1> QED BY <1>3, <1>4 DEF Remaining

(* What a pump relies on and keeps. *)
BusyIn(cur) == {a \in Actor : cur[a] # None}
Apart(queue, cur) == \A a \in Actor : IsInjective(queue[a]) /\ cur[a] \notin Range(queue[a])
Conserving(S, queue, cur, active, limit) ==
    \A a \in S : cur[a] = None /\ queue[a] # <<>> => active >= limit
SameHolds(queue, cur, queue2, cur2) == \A a \in Actor : Has(queue2, cur2, a) = Has(queue, cur, a)

(***************************************************************************)
(* A pump moves asks from queues to idle actors and nothing else, counts   *)
(* what it dispatched, and leaves no actor idle over a queue while there   *)
(* is room: the actors it passes over found the cap reached.               *)
(***************************************************************************)
LEMMA PumpFacts ==
  ASSUME NEW S \in SUBSET Actor, NEW queue \in [Actor -> Seq(Instance)],
         NEW cur \in [Actor -> Instance \cup {None}], NEW active \in Nat,
         NEW sess \in [Actor -> SessionState], NEW limit \in Nat,
         Apart(queue, cur), active = Cardinality(BusyIn(cur)),
         Conserving(Actor \ S, queue, cur, active, limit),
         Pump(S, queue, cur, active, sess, limit)
  PROVE  /\ liveQueue' \in [Actor -> Seq(Instance)] /\ current' \in [Actor -> Instance \cup {None}]
         /\ session' \in [Actor -> SessionState] /\ activeAsks' \in Nat
         /\ Apart(liveQueue', current') /\ SameHolds(queue, cur, liveQueue', current')
         /\ activeAsks' = Cardinality(BusyIn(current'))
         /\ Conserving(Actor, liveQueue', current', activeAsks', limit)
<1> DEFINE ready == {a \in S : cur[a] = None /\ queue[a] # <<>>}
           before(a) == {b \in ready : \E i, j \in DOMAIN ActorOrder :
                           i < j /\ ActorOrder[i] = b /\ ActorOrder[j] = a}
           taken == {a \in ready : active + Cardinality(before(a)) < limit}
           busy == BusyIn(cur)
<1>1. /\ liveQueue' = [a \in Actor |-> IF a \in taken THEN Remaining(queue[a]) ELSE queue[a]]
      /\ current' = [a \in Actor |-> IF a \in taken THEN NextQueued(queue[a]) ELSE cur[a]]
      /\ activeAsks' = active + Cardinality(taken)
      /\ session' = [a \in Actor |-> IF a \in taken /\ sess[a] = "none" THEN "creating" ELSE sess[a]]
  BY DEF Pump
<1>2. ready \subseteq S /\ taken \subseteq ready /\ taken \cap busy = {}
      /\ \A a \in Actor : a \in ready <=> a \in S /\ cur[a] = None /\ queue[a] # <<>>
  BY DEF BusyIn
<1>3. IsFiniteSet(taken) /\ IsFiniteSet(busy) /\ Cardinality(taken) \in Nat
  <2>1. taken \in SUBSET Actor /\ busy \in SUBSET Actor
    BY <1>2 DEF BusyIn
  <2> QED BY <2>1, ActorAssumption, FS_Subset, FS_CardinalityType
<1>4. \A a \in ready : a \notin taken => active + Cardinality(taken) >= limit
  <2> DEFINE late == {i \in DOMAIN ActorOrder : ActorOrder[i] \in ready \ taken}
  <2> SUFFICES ASSUME NEW a \in ready, a \notin taken PROVE active + Cardinality(taken) >= limit
    OBVIOUS
  <2>a. DOMAIN ActorOrder \subseteq Nat
    BY OrderAssumption, LenProperties
  <2>1. late \in SUBSET Nat /\ late # {}
    <3>1. a \in Range(ActorOrder)
      BY OrderAssumption
    <3> QED BY <2>a, <3>1 DEF Range
  <2>2. PICK i \in late : \A k \in late : i <= k
    <3> HIDE DEF late
    <3> QED BY <2>1, LeastNat
  <2> DEFINE x == ActorOrder[i]
  <2>3. x \in ready /\ x \notin taken
    BY <2>2
  <2>4. before(x) \in SUBSET taken
    <3> SUFFICES ASSUME NEW b \in before(x) PROVE b \in taken
      OBVIOUS
    <3>1. PICK k, j \in DOMAIN ActorOrder : k < j /\ ActorOrder[k] = b /\ ActorOrder[j] = x
      OBVIOUS
    <3>2. j = i
      BY <3>1, <2>2, OrderAssumption DEF IsInjective
    <3>3. k \notin late
      <4>1. k \in Nat /\ i \in Nat /\ k < i
        BY <2>1, <2>2, <2>a, <3>1, <3>2
      <4>2. \A m \in late : i <= m
        BY <2>2
      <4> HIDE DEF late
      <4> QED BY <4>1, <4>2
    <3> QED BY <3>1, <3>3
  <2>5. Cardinality(before(x)) \in Nat /\ Cardinality(before(x)) <= Cardinality(taken)
    <3> HIDE DEF before, taken
    <3>1. IsFiniteSet(before(x)) /\ Cardinality(before(x)) <= Cardinality(taken)
      BY <2>4, <1>3, FS_Subset
    <3> QED BY <3>1, FS_CardinalityType
  <2>6. ~(active + Cardinality(before(x)) < limit)
    BY <2>3
  <2> HIDE DEF before, taken, ready
  <2> QED BY <2>5, <2>6, <1>3
<1> HIDE DEF before, taken, ready
<1>a. \A a \in Actor : IsInjective(queue[a]) /\ cur[a] \notin Range(queue[a])
  BY DEF Apart
<1>5. ASSUME NEW a \in taken
      PROVE  /\ NextQueued(queue[a]) \in Instance /\ NextQueued(queue[a]) \in Range(queue[a])
             /\ Remaining(queue[a]) \in Seq(Instance) /\ IsInjective(Remaining(queue[a]))
             /\ Range(Remaining(queue[a])) = Range(queue[a]) \ {NextQueued(queue[a])}
             /\ cur[a] = None
  BY <1>2, <1>a, ShiftFacts
<1>6. None \notin Instance
  BY NoneAssumption DEF Instance
<1>7. liveQueue' \in [Actor -> Seq(Instance)] /\ current' \in [Actor -> Instance \cup {None}]
  BY <1>1, <1>5
<1>8. session' \in [Actor -> SessionState]
  BY <1>1 DEF SessionState
<1>9. ASSUME NEW a \in Actor
      PROVE  /\ IsInjective(liveQueue'[a]) /\ current'[a] \notin Range(liveQueue'[a])
             /\ Has(liveQueue', current', a) = Has(queue, cur, a)
  <2>1. CASE a \in taken
    <3>1. liveQueue'[a] = Remaining(queue[a]) /\ current'[a] = NextQueued(queue[a])
      BY <2>1, <1>1
    <3> QED BY <3>1, <2>1, <1>5, <1>6 DEF Has
  <2>2. CASE a \notin taken
    BY <2>2, <1>1, <1>a DEF Has
  <2> QED BY <2>1, <2>2
<1>10. BusyIn(current') = busy \cup taken
  <2> SUFFICES ASSUME NEW a \in Actor PROVE current'[a] # None <=> a \in busy \/ a \in taken
    BY <1>2 DEF BusyIn
  <2>1. CASE a \in taken
    BY <2>1, <1>1, <1>5, <1>6
  <2>2. CASE a \notin taken
    BY <2>2, <1>1 DEF BusyIn
  <2> QED BY <2>1, <2>2
<1>11. activeAsks' = Cardinality(busy \cup taken)
  <2>1. /\ Cardinality(busy \cup taken) = Cardinality(busy) + Cardinality(taken) - Cardinality(busy \cap taken)
    BY <1>3, FS_Union
  <2>2. busy \cap taken = {} /\ Cardinality({}) = 0
    BY <1>2, FS_EmptySet
  <2>3. active = Cardinality(busy)
    OBVIOUS
  <2>4. Cardinality(busy \cap taken) = 0
    BY <2>2
  <2> HIDE DEF busy
  <2>5. Cardinality(busy \cup taken) = active + Cardinality(taken)
    BY <2>1, <2>3, <2>4, <1>3
  <2> QED BY <2>5, <1>1
<1>12. ASSUME NEW a \in Actor, current'[a] = None, liveQueue'[a] # <<>>
       PROVE  activeAsks' >= limit
  <2>1. a \notin taken /\ cur[a] = None /\ queue[a] # <<>>
    BY <1>1, <1>5, <1>6, <1>12
  <2>2. CASE a \in S
    BY <2>1, <2>2, <1>2, <1>4, <1>1
  <2>3. CASE a \notin S
    BY <2>1, <2>3, <1>1, <1>3 DEF Conserving
  <2> QED BY <2>2, <2>3
<1>13. activeAsks' \in Nat
  BY <1>1, <1>3
<1> QED BY <1>7, <1>8, <1>9, <1>10, <1>11, <1>12, <1>13 DEF Apart, SameHolds, Conserving
-----------------------------------------------------------------------------
(* Admission. *)

(* What drainActorAdmission is called with: the asks of a that wait for it. *)
Admissible(a, rec, fresh, calls) ==
    /\ calls \in [DOMAIN calls -> Asks] /\ DOMAIN calls \subseteq Instance
    /\ DOMAIN asked \subseteq DOMAIN calls /\ \A i \in DOMAIN asked : calls[i] = asked[i]
    /\ DOMAIN rec \in SUBSET Nat /\ IsFiniteSet(DOMAIN rec)
    /\ \A n \in DOMAIN rec :
          /\ rec[n] \in DOMAIN calls /\ rec[n] \in DOMAIN nodes /\ rec[n] \notin Holds(a)
          /\ nodes[rec[n]].seq = n /\ ActorOf(calls[rec[n]]) = a
    /\ fresh \in Seq(Instance) /\ IsInjective(fresh)
    /\ \A i \in Range(fresh) :
          i \in DOMAIN calls /\ i \notin DOMAIN nodes /\ ActorOf(calls[i]) = a

(* The names of Drain for its parts. *)
Run(a, rec) == RunLength(DOMAIN rec, nextAdmitSeq[a])
In(a, rec) == [j \in 1..Run(a, rec) |-> rec[nextAdmitSeq[a] + j - 1]]
Admitted(a, rec, fresh) ==
    IF MayBeFresh(a, nextAdmitSeq[a] + Run(a, rec)) THEN fresh ELSE <<>>
Answered(a, rec) == Keep(In(a, rec), {i \in DOMAIN nodes : ~RunsAgain(i)})
Again(a, rec) == Keep(In(a, rec), {i \in DOMAIN nodes : RunsAgain(i)})
Live(a, rec, fresh) == Again(a, rec) \o Admitted(a, rec, fresh)

LEMMA BatchFacts ==
  ASSUME Types, NEW a \in Actor, NEW rec, NEW fresh, NEW calls, Admissible(a, rec, fresh, calls)
  PROVE  /\ Run(a, rec) \in Nat /\ nextAdmitSeq[a] \in Nat
         /\ In(a, rec) \in Seq(DOMAIN calls) /\ IsInjective(In(a, rec))
         /\ Range(In(a, rec)) = {rec[n] : n \in nextAdmitSeq[a]..(nextAdmitSeq[a] + Run(a, rec) - 1)}
         /\ \A n \in nextAdmitSeq[a]..(nextAdmitSeq[a] + Run(a, rec) - 1) : n \in DOMAIN rec
         /\ Admitted(a, rec, fresh) \in Seq(Instance) /\ Len(Admitted(a, rec, fresh)) \in Nat
         /\ IsInjective(Admitted(a, rec, fresh))
         /\ Range(Admitted(a, rec, fresh)) \subseteq Range(fresh)
<1> DEFINE seq == nextAdmitSeq[a]
           run == Run(a, rec)
           in == In(a, rec)
<1>1. seq \in Nat
  BY DEF Types, AdmissionType
<1>2. run \in Nat /\ \A j \in 0..(run - 1) : seq + j \in DOMAIN rec
  BY <1>1, RunLengthFacts DEF Admissible, Run
<1>3. in = [j \in 1..run |-> rec[seq + j - 1]]
  BY DEF In
<1> HIDE DEF seq, run, in
<1>4. \A n \in seq..(seq + run - 1) : n \in DOMAIN rec
  <2> SUFFICES ASSUME NEW n \in seq..(seq + run - 1) PROVE n \in DOMAIN rec
    OBVIOUS
  <2>1. n - seq \in 0..(run - 1) /\ seq + (n - seq) = n
    BY <1>1, <1>2
  <2> QED BY <2>1, <1>2
<1>5. \A j \in 1..run : seq + j - 1 \in seq..(seq + run - 1)
  BY <1>1, <1>2
<1>6. in \in [1..run -> DOMAIN calls]
  BY <1>3, <1>4, <1>5 DEF Admissible
<1>7. in \in Seq(DOMAIN calls) /\ Len(in) = run /\ DOMAIN in = 1..run
  BY <1>2, <1>6, SameLength
<1>8. IsInjective(in)
  <2> SUFFICES ASSUME NEW i \in 1..run, NEW j \in 1..run, in[i] = in[j] PROVE i = j
    BY <1>7 DEF IsInjective
  <2>1. in[i] = rec[seq + i - 1] /\ in[j] = rec[seq + j - 1]
    BY <1>3
  <2>2. seq + i - 1 \in DOMAIN rec /\ seq + j - 1 \in DOMAIN rec
    BY <1>4, <1>5
  <2>3. nodes[in[i]].seq = seq + i - 1 /\ nodes[in[j]].seq = seq + j - 1
    BY <2>1, <2>2 DEF Admissible
  <2> QED BY <2>3, <1>1, <1>2
<1>9. Range(in) = {rec[n] : n \in seq..(seq + run - 1)}
  <2>1. ASSUME NEW n \in seq..(seq + run - 1) PROVE rec[n] \in Range(in)
    <3>1. n - seq + 1 \in 1..run /\ seq + (n - seq + 1) - 1 = n
      BY <1>1, <1>2
    <3>2. in[n - seq + 1] = rec[n]
      BY <3>1, <1>3
    <3> QED BY <3>1, <3>2, <1>7 DEF Range
  <2>2. ASSUME NEW x \in Range(in) PROVE x \in {rec[n] : n \in seq..(seq + run - 1)}
    <3>1. PICK j \in 1..run : x = in[j]
      BY <1>7 DEF Range
    <3> QED BY <3>1, <1>3, <1>5
  <2> QED BY <2>1, <2>2
<1>10. <<>> \in Seq(Instance) /\ IsInjective(<<>>) /\ Range(<<>>) = {}
  BY EmptySeq DEF IsInjective, Range
<1>11. CASE MayBeFresh(a, seq + run)
  <2>1. Admitted(a, rec, fresh) = fresh
    BY <1>11 DEF Admitted, seq, run
  <2> QED BY <2>1, <1>1, <1>2, <1>4, <1>7, <1>8, <1>9, LenProperties DEF Admissible, seq, run, in
<1>12. CASE ~MayBeFresh(a, seq + run)
  <2>1. Admitted(a, rec, fresh) = <<>>
    BY <1>12 DEF Admitted, seq, run
  <2> QED BY <2>1, <1>1, <1>2, <1>4, <1>7, <1>8, <1>9, <1>10, LenProperties DEF Admissible, seq, run, in
<1> QED BY <1>11, <1>12

(* What becomes live is what runs again and what is new, in nobody's hands so far. *)
LEMMA LiveFacts ==
  ASSUME Types, Places, NEW a \in Actor, NEW rec, NEW fresh, NEW calls, Admissible(a, rec, fresh, calls)
  PROVE  /\ Answered(a, rec) \in Seq(DOMAIN calls)
         /\ Live(a, rec, fresh) \in Seq(Instance) /\ IsInjective(Live(a, rec, fresh))
         /\ Range(Live(a, rec, fresh)) =
              {i \in Range(In(a, rec)) : RunsAgain(i)} \cup Range(Admitted(a, rec, fresh))
         /\ Range(Live(a, rec, fresh)) \cap Holds(a) = {}
         /\ \A i \in Range(In(a, rec)) : \E n \in DOMAIN rec : i = rec[n]
         /\ Range(Again(a, rec)) = {i \in Range(In(a, rec)) : RunsAgain(i)}
         /\ Range(In(a, rec)) \subseteq DOMAIN nodes
<1> DEFINE in == In(a, rec)
           admitted == Admitted(a, rec, fresh)
           again == Again(a, rec)
           S == {i \in DOMAIN nodes : RunsAgain(i)}
<1>1. /\ in \in Seq(DOMAIN calls) /\ IsInjective(in)
      /\ Range(in) = {rec[n] : n \in nextAdmitSeq[a]..(nextAdmitSeq[a] + Run(a, rec) - 1)}
      /\ \A n \in nextAdmitSeq[a]..(nextAdmitSeq[a] + Run(a, rec) - 1) : n \in DOMAIN rec
      /\ admitted \in Seq(Instance) /\ IsInjective(admitted) /\ Range(admitted) \subseteq Range(fresh)
  BY BatchFacts
<1>2. again = Keep(in, S) /\ Answered(a, rec) = Keep(in, {i \in DOMAIN nodes : ~RunsAgain(i)})
      /\ Live(a, rec, fresh) = again \o admitted
  BY DEF Again, Answered, Live
<1> HIDE DEF in, admitted, again, S
<1>3. Answered(a, rec) \in Seq(DOMAIN calls)
  BY <1>1, <1>2, KeepRange
<1>4. again \in Seq(DOMAIN calls) /\ Range(again) = Range(in) \cap S /\ IsInjective(again)
  BY <1>1, <1>2, KeepRange
<1>5. Range(again) = {i \in Range(in) : RunsAgain(i)}
  <2>1. \A i \in Range(in) : i \in DOMAIN nodes
    BY <1>1 DEF Admissible
  <2> QED BY <2>1, <1>4 DEF S
<1>6. again \in Seq(Instance)
  <2>1. in \in Seq(Instance)
    <3>1. Range(in) \subseteq Instance /\ DOMAIN in = 1..Len(in) /\ Len(in) \in Nat
      BY <1>1, SeqRange, LenProperties DEF Admissible
    <3>2. in \in [1..Len(in) -> Instance]
      BY <3>1, <1>1, SeqRange, LenProperties, ElementOfSeq DEF Admissible
    <3> QED BY <3>1, <3>2, SameLength
  <2> QED BY <2>1, <1>2, KeepRange
<1>7. \A i \in Range(in) : \E n \in DOMAIN rec : i = rec[n]
  BY <1>1
<1>8. \A i \in Range(in) : i \in DOMAIN nodes /\ i \notin Holds(a)
  BY <1>7 DEF Admissible
<1>9. \A i \in Range(admitted) : i \notin DOMAIN nodes
  BY <1>1 DEF Admissible
<1>10. Range(again) \cap Range(admitted) = {}
  BY <1>5, <1>8, <1>9
<1>11. /\ again \o admitted \in Seq(Instance)
       /\ Range(again \o admitted) = Range(again) \cup Range(admitted)
       /\ IsInjective(again \o admitted)
  BY <1>1, <1>4, <1>6, <1>10, ConcatRange
<1>12. \A i \in Holds(a) : i \in DOMAIN nodes
  BY DEF Places, LivePlaces
<1> QED BY <1>2, <1>3, <1>5, <1>7, <1>8, <1>9, <1>11, <1>12 DEF in, admitted, again

(* A drain appends settlements to the log and answers to the pipe, and adds running rows. *)
Settlements(X) == X \in Seq(EventType) /\ \A k \in DOMAIN X : X[k].type = "node-settled"

LEMMA SettledType ==
  ASSUME NEW i \in Instance, NEW outcome \in {"ok", "failed", "cancelled"}
  PROVE  Settled(i, outcome) \in EventType /\ Settled(i, outcome).type = "node-settled"
BY DEF Settled, EventType

(* The answers that leave the gate, as events and as replies. *)
LEMMA ReleaseFacts ==
  ASSUME NEW calls, calls \in [DOMAIN calls -> Asks], DOMAIN calls \subseteq Instance,
         NEW out \in Seq(DOMAIN calls)
  PROVE  /\ Settlements([k \in DOMAIN out |-> Settled(out[k], OutcomeOf(out[k]))])
         /\ [k \in DOMAIN out |-> Reply(calls[out[k]], OutcomeOf(out[k]))] \in Seq(ReplyType)
<1> DEFINE X == [k \in DOMAIN out |-> Settled(out[k], OutcomeOf(out[k]))]
           Y == [k \in DOMAIN out |-> Reply(calls[out[k]], OutcomeOf(out[k]))]
<1>1. Len(out) \in Nat /\ DOMAIN out = 1..Len(out) /\ \A k \in DOMAIN out : out[k] \in DOMAIN calls
  BY LenProperties, ElementOfSeq
<1>2. ASSUME NEW i PROVE OutcomeOf(i) \in {"ok", "failed"}
  BY DEF OutcomeOf
<1>3. \A k \in DOMAIN out : Settled(out[k], OutcomeOf(out[k])) \in EventType
                            /\ Settled(out[k], OutcomeOf(out[k])).type = "node-settled"
  BY <1>1, <1>2, SettledType
<1>4. X \in [1..Len(out) -> EventType]
  BY <1>1, <1>3
<1>5. Y \in [1..Len(out) -> ReplyType]
  BY <1>1, <1>2 DEF ReplyType
<1>6. X \in Seq(EventType)
  BY <1>1, <1>4, SameLength
<1>7. Y \in Seq(ReplyType)
  BY <1>1, <1>5, SameLength
<1> QED BY <1>3, <1>6, <1>7 DEF Settlements

LEMMA DrainJournal ==
  ASSUME Types, Places, NEW a \in Actor, NEW rec, NEW fresh, NEW calls, NEW S,
         Admissible(a, rec, fresh, calls), Drain(a, rec, fresh, calls, S)
  PROVE  /\ nodes' \in [DOMAIN nodes' -> RowType] /\ DOMAIN nodes' \subseteq Instance
         /\ DOMAIN nodes' = DOMAIN nodes \cup Range(Admitted(a, rec, fresh))
         /\ \A i \in DOMAIN nodes : SameAsk(nodes'[i], nodes[i])
         /\ \A i \in Range(Admitted(a, rec, fresh)) : nodes'[i].status = "running"
         /\ \E X : Settlements(X) /\ events' = events \o X
         /\ toChild' \in Seq(ReplyType)
         /\ parked' \subseteq DOMAIN calls /\ cursor' \in 1..(Len(order) + 1)
<1> DEFINE admitted == Admitted(a, rec, fresh)
           seq == nextAdmitSeq[a]
           run == Run(a, rec)
           s(k) == Script[calls[admitted[k]][1]][calls[admitted[k]][2]]
           row(k) == [actor |-> a, seq |-> seq + run + k - 1, hash |-> s(k).text, status |-> "running"]
           out == Hold(Answered(a, rec)).released
           X == [k \in DOMAIN out |-> Settled(out[k], OutcomeOf(out[k]))]
           Y == [k \in DOMAIN out |-> Reply(calls[out[k]], OutcomeOf(out[k]))]
<1>1. /\ nodes' = [i \in DOMAIN nodes \cup Range(admitted) |->
              IF i \in Range(Again(a, rec)) THEN [nodes[i] EXCEPT !.actor = a]
              ELSE IF i \in DOMAIN nodes THEN nodes[i]
              ELSE row(CHOOSE k \in DOMAIN admitted : admitted[k] = i)]
      /\ events' = events \o X /\ toChild' = toChild \o Y
      /\ parked' = Hold(Answered(a, rec)).parked /\ cursor' = Hold(Answered(a, rec)).cursor
  BY DEF Drain, Admitted, Run, In, Again, Answered
<1>2. /\ run \in Nat /\ seq \in Nat /\ admitted \in Seq(Instance) /\ Len(admitted) \in Nat
      /\ Range(admitted) \subseteq Range(fresh)
  BY BatchFacts
<1>3. DOMAIN admitted = 1..Len(admitted)
  BY <1>2, LenProperties
<1> HIDE DEF admitted, seq, run
<1>4. ASSUME NEW k \in DOMAIN admitted PROVE row(k) \in RowType
  <2>1. admitted[k] \in Range(fresh)
    BY <1>2 DEF Range
  <2>2. calls[admitted[k]] \in Asks
    BY <2>1 DEF Admissible
  <2>3. s(k).text \in Text
    BY <2>2 DEF Asks, Text
  <2>4. seq + run + k - 1 \in Nat
    BY <1>2, <1>3
  <2> QED BY <2>3, <2>4 DEF RowType
<1>5. ASSUME NEW i \in Range(admitted)
      PROVE  /\ i \in Instance /\ i \notin DOMAIN nodes
             /\ row(CHOOSE k \in DOMAIN admitted : admitted[k] = i) \in RowType
             /\ row(CHOOSE k \in DOMAIN admitted : admitted[k] = i).status = "running"
  <2>1. (CHOOSE k \in DOMAIN admitted : admitted[k] = i) \in DOMAIN admitted
    BY DEF Range
  <2>2. i \in DOMAIN calls /\ i \notin DOMAIN nodes
    BY <1>2 DEF Admissible
  <2> QED BY <2>1, <2>2, <1>4 DEF Admissible
<1>6. nodes \in [DOMAIN nodes -> RowType] /\ DOMAIN nodes \subseteq Instance
  BY DEF Types, JournalType
<1> DEFINE new(i) == row(CHOOSE k \in DOMAIN admitted : admitted[k] = i)
<1>7. ASSUME NEW i \in Range(admitted)
      PROVE  i \in Instance /\ i \notin DOMAIN nodes /\ new(i) \in RowType /\ new(i).status = "running"
  BY <1>5
<1>8. /\ DOMAIN nodes' = DOMAIN nodes \cup Range(admitted)
      /\ \A i \in DOMAIN nodes : nodes'[i] \in {nodes[i], [nodes[i] EXCEPT !.actor = a]}
      /\ \A i \in Range(admitted) : i \notin Range(Again(a, rec)) => nodes'[i] = new(i)
      /\ nodes' = [i \in DOMAIN nodes' |-> nodes'[i]]
  BY <1>1, <1>7
<1>a. Range(Again(a, rec)) \subseteq DOMAIN nodes
  BY LiveFacts
<1> HIDE DEF new
<1>9. /\ DOMAIN nodes' = DOMAIN nodes \cup Range(admitted)
      /\ \A i \in DOMAIN nodes : SameAsk(nodes'[i], nodes[i])
      /\ \A i \in Range(admitted) : nodes'[i].status = "running"
      /\ nodes' \in [DOMAIN nodes' -> RowType] /\ DOMAIN nodes' \subseteq Instance
  <2>1. ASSUME NEW i \in DOMAIN nodes PROVE SameAsk(nodes'[i], nodes[i]) /\ nodes'[i] \in RowType
    <3>1. nodes[i] \in RowType
      BY <1>6
    <3>2. /\ [nodes[i] EXCEPT !.actor = a] \in RowType
          /\ SameAsk([nodes[i] EXCEPT !.actor = a], nodes[i])
      BY <3>1 DEF RowType, SameAsk
    <3>3. SameAsk(nodes[i], nodes[i])
      BY DEF SameAsk
    <3> QED BY <3>1, <3>2, <3>3, <1>8
  <2>2. ASSUME NEW i \in Range(admitted) PROVE nodes'[i].status = "running" /\ nodes'[i] \in RowType
    BY <1>7, <1>8, <1>a
  <2> QED BY <1>6, <1>7, <1>8, <2>1, <2>2
<1>10. /\ Answered(a, rec) \in Seq(DOMAIN calls) /\ parked \subseteq DOMAIN calls /\ GateType
  BY LiveFacts DEF Admissible, Types, GateType
<1>11. /\ out \in Seq(DOMAIN calls) /\ Hold(Answered(a, rec)).parked \subseteq DOMAIN calls
       /\ Hold(Answered(a, rec)).cursor \in 1..(Len(order) + 1)
  BY <1>10, HoldFacts
<1> HIDE DEF out
<1>12. Settlements(X) /\ Y \in Seq(ReplyType)
  <2>1. calls \in [DOMAIN calls -> Asks] /\ DOMAIN calls \subseteq Instance
    BY DEF Admissible
  <2> QED BY <2>1, <1>11, ReleaseFacts, Zenon
<1> HIDE DEF X, Y
<1>13. toChild' \in Seq(ReplyType)
  BY <1>1, <1>12, ConcatProperties DEF Types, PipeType
<1> QED BY <1>1, <1>9, <1>11, <1>12, <1>13 DEF admitted

(* A row put again is the row that was there if its actor is the present one. *)
LEMMA DrainKeepsRows ==
  ASSUME Types, Places, NEW a \in Actor, NEW rec, NEW fresh, NEW calls, NEW S,
         Admissible(a, rec, fresh, calls), Drain(a, rec, fresh, calls, S),
         \A n \in DOMAIN rec : nodes[rec[n]].actor = a
  PROVE  \A i \in DOMAIN nodes : nodes'[i] = nodes[i]
<1> SUFFICES ASSUME NEW i \in DOMAIN nodes PROVE nodes'[i] = nodes[i]
  OBVIOUS
<1>1. nodes'[i] = IF i \in Range(Again(a, rec)) THEN [nodes[i] EXCEPT !.actor = a] ELSE nodes[i]
  BY DEF Drain, Admitted, Run, In, Again
<1>2. i \in Range(Again(a, rec)) => nodes[i].actor = a
  BY LiveFacts
<1>3. nodes[i] \in RowType
  BY DEF Types, JournalType
<1>4. nodes[i].actor = a => [nodes[i] EXCEPT !.actor = a] = nodes[i]
  BY <1>3 DEF RowType
<1> QED BY <1>1, <1>2, <1>4

LEMMA DrainQueues ==
  ASSUME IInv, NEW a \in Actor, NEW rec, NEW fresh, NEW calls, NEW S \in SUBSET Actor, a \in S,
         Admissible(a, rec, fresh, calls), Drain(a, rec, fresh, calls, S)
  PROVE  /\ liveQueue' \in [Actor -> Seq(Instance)] /\ current' \in [Actor -> Instance \cup {None}]
         /\ session' \in [Actor -> SessionState] /\ activeAsks' \in Nat
         /\ \A b \in Actor : /\ IsInjective(liveQueue'[b]) /\ current'[b] \notin Range(liveQueue'[b])
                             /\ Has(liveQueue', current', b) =
                                  Holds(b) \cup (IF b = a THEN Range(Live(a, rec, fresh)) ELSE {})
         /\ cap' = cap => WorkConserving'
<1> DEFINE live == Live(a, rec, fresh)
           queue == [liveQueue EXCEPT ![a] = @ \o live]
<1>1. Pump(S, queue, current, activeAsks, session, cap)
  BY DEF Drain, Live, Again, Admitted, Run, In
<1>2. /\ live \in Seq(Instance) /\ IsInjective(live) /\ Range(live) \cap Holds(a) = {}
  BY LiveFacts DEF IInv
<1>3. /\ liveQueue \in [Actor -> Seq(Instance)] /\ current \in [Actor -> Instance \cup {None}]
      /\ session \in [Actor -> SessionState] /\ activeAsks \in Nat /\ cap \in Nat
  BY CapsAssumption DEF IInv, Types, DispatchType, JournalType
<1> HIDE DEF live
<1>4. /\ liveQueue[a] \o live \in Seq(Instance)
      /\ Range(liveQueue[a] \o live) = Range(liveQueue[a]) \cup Range(live)
      /\ IsInjective(liveQueue[a] \o live) /\ current[a] \notin Range(liveQueue[a] \o live)
  <2>1. IsInjective(liveQueue[a]) /\ current[a] \notin Range(liveQueue[a])
    BY DEF IInv, Places, LivePlaces
  <2>2. Range(liveQueue[a]) \cap Range(live) = {}
    BY <1>2 DEF Holds, Has
  <2>3. current[a] \notin Range(live)
    <3>1. Range(live) \subseteq Instance /\ None \notin Instance
      BY <1>2, SeqRange, NoneAssumption DEF Instance
    <3> QED BY <3>1, <1>2 DEF Holds, Has
  <2> QED BY <2>1, <2>2, <2>3, <1>2, <1>3, ConcatRange
<1>5. queue \in [Actor -> Seq(Instance)] /\ queue[a] = liveQueue[a] \o live
      /\ \A b \in Actor : b # a => queue[b] = liveQueue[b]
  BY <1>3, <1>4
<1> HIDE DEF queue
<1>6. Apart(queue, current)
  <2> SUFFICES ASSUME NEW b \in Actor PROVE IsInjective(queue[b]) /\ current[b] \notin Range(queue[b])
    BY DEF Apart
  <2>1. CASE b = a
    BY <2>1, <1>4, <1>5
  <2>2. CASE b # a
    BY <2>2, <1>5 DEF IInv, Places, LivePlaces
  <2> QED BY <2>1, <2>2
<1>7. activeAsks = Cardinality(BusyIn(current))
  BY DEF IInv, WorkConserving, Busy, BusyIn
<1>8. Conserving(Actor \ S, queue, current, activeAsks, cap)
  BY <1>5 DEF IInv, WorkConserving, Busy, Conserving
<1>9. /\ liveQueue' \in [Actor -> Seq(Instance)] /\ current' \in [Actor -> Instance \cup {None}]
      /\ session' \in [Actor -> SessionState] /\ activeAsks' \in Nat
      /\ Apart(liveQueue', current') /\ SameHolds(queue, current, liveQueue', current')
      /\ activeAsks' = Cardinality(BusyIn(current'))
      /\ Conserving(Actor, liveQueue', current', activeAsks', cap)
  BY <1>1, <1>3, <1>5, <1>6, <1>7, <1>8, PumpFacts
<1>10. ASSUME NEW b \in Actor
       PROVE  Has(queue, current, b) = Holds(b) \cup (IF b = a THEN Range(live) ELSE {})
  <2>1. CASE b = a
    BY <2>1, <1>4, <1>5 DEF Has, Holds
  <2>2. CASE b # a
    BY <2>2, <1>5 DEF Has, Holds
  <2> QED BY <2>1, <2>2
<1>11. cap' = cap => WorkConserving'
  BY <1>9 DEF WorkConserving, Busy, BusyIn, Conserving
<1> QED BY <1>9, <1>10, <1>11 DEF live, Apart, SameHolds

LEMMA DrainAdmission ==
  ASSUME IInv, NEW a \in Actor, NEW rec, NEW fresh, NEW calls, NEW S \in SUBSET Actor, a \in S,
         Admissible(a, rec, fresh, calls), Drain(a, rec, fresh, calls, S)
  PROVE  /\ nextAdmitSeq' \in [Actor -> Nat] /\ pendingLive' \in [Actor -> Seq(Instance)]
         /\ DOMAIN pendingRecorded' = Actor
         /\ \A b \in Actor : DOMAIN pendingRecorded'[b] \in SUBSET Nat /\ IsFiniteSet(DOMAIN pendingRecorded'[b])
         /\ liveNodes' \in Seq(Instance)
         /\ Range(liveNodes') = Range(liveNodes) \cup Range(Live(a, rec, fresh))
<1> DEFINE seq == nextAdmitSeq[a]
           run == Run(a, rec)
           admitted == Admitted(a, rec, fresh)
<1>1. /\ nextAdmitSeq' = [nextAdmitSeq EXCEPT ![a] = seq + run + Len(admitted)]
      /\ pendingRecorded' = [pendingRecorded EXCEPT ![a] = Restrict(rec, DOMAIN rec \ (seq..(seq + run - 1)))]
      /\ pendingLive' = [pendingLive EXCEPT ![a] = IF admitted = <<>> THEN fresh ELSE <<>>]
      /\ liveNodes' = liveNodes \o Live(a, rec, fresh)
  BY DEF Drain, Live, Again, Admitted, Run, In
<1>2. seq + run + Len(admitted) \in Nat
  BY BatchFacts DEF IInv
<1>3. (IF admitted = <<>> THEN fresh ELSE <<>>) \in Seq(Instance)
  BY EmptySeq DEF Admissible
<1>4. DOMAIN Restrict(rec, DOMAIN rec \ (seq..(seq + run - 1))) = DOMAIN rec \ (seq..(seq + run - 1))
  BY DEF Restrict
<1>5. DOMAIN rec \ (seq..(seq + run - 1)) \in SUBSET Nat /\ IsFiniteSet(DOMAIN rec \ (seq..(seq + run - 1)))
  BY FS_Difference DEF Admissible
<1>6. AdmissionType /\ DispatchType
  BY DEF IInv, Types
<1> HIDE DEF seq, run, admitted
<1>7. nextAdmitSeq' \in [Actor -> Nat] /\ pendingLive' \in [Actor -> Seq(Instance)]
  BY <1>1, <1>2, <1>3, <1>6 DEF AdmissionType
<1>8. DOMAIN pendingRecorded' = Actor
  BY <1>1, <1>6 DEF AdmissionType
<1>9. ASSUME NEW b \in Actor
      PROVE  DOMAIN pendingRecorded'[b] \in SUBSET Nat /\ IsFiniteSet(DOMAIN pendingRecorded'[b])
  <2>1. CASE b = a
    BY <2>1, <1>1, <1>4, <1>5, <1>6 DEF AdmissionType
  <2>2. CASE b # a
    BY <2>2, <1>1, <1>6 DEF AdmissionType
  <2> QED BY <2>1, <2>2
<1>10. liveNodes' \in Seq(Instance) /\ Range(liveNodes') = Range(liveNodes) \cup Range(Live(a, rec, fresh))
  BY <1>1, <1>6, LiveFacts, ConcatRange DEF IInv, DispatchType
<1> QED BY <1>7, <1>8, <1>9, <1>10

(***************************************************************************)
(* A drain moves asks from the waiting places of their actor to its live   *)
(* ones, each to one place.                                                *)
(***************************************************************************)
LEMMA DrainPlaces ==
  ASSUME IInv, NEW a \in Actor, NEW rec, NEW fresh, NEW calls, NEW S \in SUBSET Actor, a \in S,
         Admissible(a, rec, fresh, calls), Drain(a, rec, fresh, calls, S), asked' = calls
  PROVE  Places'
<1> DEFINE seq == nextAdmitSeq[a]
           run == Run(a, rec)
           in == In(a, rec)
           admitted == Admitted(a, rec, fresh)
           live == Live(a, rec, fresh)
<1>1. /\ pendingRecorded' = [pendingRecorded EXCEPT ![a] = Restrict(rec, DOMAIN rec \ (seq..(seq + run - 1)))]
      /\ pendingLive' = [pendingLive EXCEPT ![a] = IF admitted = <<>> THEN fresh ELSE <<>>]
  BY DEF Drain, Admitted, Run
<1>2. /\ DOMAIN nodes' = DOMAIN nodes \cup Range(admitted)
      /\ \A i \in DOMAIN nodes : nodes'[i].seq = nodes[i].seq /\ nodes'[i].status = nodes[i].status
      /\ \A i \in Range(admitted) : nodes'[i].status = "running"
  <2>1. /\ DOMAIN nodes' = DOMAIN nodes \cup Range(admitted)
        /\ \A i \in DOMAIN nodes : SameAsk(nodes'[i], nodes[i])
        /\ \A i \in Range(admitted) : nodes'[i].status = "running"
    BY DrainJournal DEF IInv
  <2> QED BY <2>1 DEF SameAsk
<1>3. \A b \in Actor :
         /\ IsInjective(liveQueue'[b]) /\ current'[b] \notin Range(liveQueue'[b])
         /\ Has(liveQueue', current', b) = Holds(b) \cup (IF b = a THEN Range(live) ELSE {})
  BY DrainQueues
<1>4. Range(liveNodes') = Range(liveNodes) \cup Range(live)
  BY DrainAdmission
<1>5. /\ Range(live) = {i \in Range(in) : RunsAgain(i)} \cup Range(admitted)
      /\ Range(live) \cap Holds(a) = {}
      /\ \A i \in Range(in) : \E n \in DOMAIN rec : i = rec[n]
  BY LiveFacts DEF IInv
<1>6. /\ Range(in) = {rec[n] : n \in seq..(seq + run - 1)}
      /\ \A n \in seq..(seq + run - 1) : n \in DOMAIN rec
      /\ Range(admitted) \subseteq Range(fresh)
  BY BatchFacts DEF IInv
<1> HIDE DEF seq, run, in, admitted, live
<1>7. Places /\ DOMAIN pendingRecorded = Actor /\ DOMAIN pendingLive = Actor
  BY DEF IInv, Types, AdmissionType
<1>8. /\ DOMAIN asked \subseteq DOMAIN calls /\ \A i \in DOMAIN asked : calls[i] = asked[i]
  BY DEF Admissible
<1>9. \A i \in Range(admitted) : i \in DOMAIN calls /\ i \notin DOMAIN nodes /\ ActorOf(calls[i]) = a
  BY <1>6 DEF Admissible
<1>10. pendingRecorded'[a] = [n \in DOMAIN rec \ (seq..(seq + run - 1)) |-> rec[n]]
       /\ \A b \in Actor : b # a => pendingRecorded'[b] = pendingRecorded[b]
  BY <1>1, <1>7 DEF Restrict
<1>11. pendingLive'[a] = (IF admitted = <<>> THEN fresh ELSE <<>>)
       /\ \A b \in Actor : b # a => pendingLive'[b] = pendingLive[b]
  BY <1>1, <1>7
<1>12. RecordedPlaces'
  <2> SUFFICES ASSUME NEW b \in Actor, NEW n \in DOMAIN pendingRecorded'[b]
               PROVE  /\ pendingRecorded'[b][n] \in DOMAIN calls /\ pendingRecorded'[b][n] \in DOMAIN nodes'
                      /\ nodes'[pendingRecorded'[b][n]].seq = n
                      /\ ActorOf(calls[pendingRecorded'[b][n]]) = b
    BY DEF RecordedPlaces, ActorOf
  <2>1. CASE b = a
    <3>1. n \in DOMAIN rec /\ pendingRecorded'[b][n] = rec[n]
      BY <2>1, <1>10
    <3> QED BY <2>1, <3>1, <1>2 DEF Admissible
  <2>2. CASE b # a
    <3>1. n \in DOMAIN pendingRecorded[b] /\ pendingRecorded'[b][n] = pendingRecorded[b][n]
      BY <2>2, <1>10
    <3>2. /\ pendingRecorded[b][n] \in DOMAIN asked /\ pendingRecorded[b][n] \in DOMAIN nodes
          /\ nodes[pendingRecorded[b][n]].seq = n /\ ActorOf(asked[pendingRecorded[b][n]]) = b
      BY <3>1, <1>7 DEF Places, RecordedPlaces
    <3> QED BY <3>1, <3>2, <1>2, <1>8
  <2> QED BY <2>1, <2>2
<1>13. FreshPlaces'
  <2> SUFFICES ASSUME NEW b \in Actor
               PROVE  /\ IsInjective(pendingLive'[b])
                      /\ \A i \in Range(pendingLive'[b]) :
                            i \in DOMAIN calls /\ i \notin DOMAIN nodes' /\ ActorOf(calls[i]) = b
    BY DEF FreshPlaces, ActorOf
  <2>1. CASE b = a /\ admitted = <<>>
    <3>1. pendingLive'[b] = fresh /\ Range(admitted) = {}
      BY <2>1, <1>11, EmptySeq DEF Range
    <3> QED BY <2>1, <3>1, <1>2 DEF Admissible
  <2>2. CASE b = a /\ admitted # <<>>
    <3>1. pendingLive'[b] = <<>>
      BY <2>2, <1>11
    <3>2. IsInjective(<<>>) /\ Range(<<>>) = {}
      BY EmptySeq DEF IsInjective, Range
    <3> QED BY <3>1, <3>2
  <2>3. CASE b # a
    <3>1. pendingLive'[b] = pendingLive[b]
      BY <2>3, <1>11
    <3>2. /\ IsInjective(pendingLive[b])
          /\ \A i \in Range(pendingLive[b]) :
                i \in DOMAIN asked /\ i \notin DOMAIN nodes /\ ActorOf(asked[i]) = b
      BY <1>7 DEF Places, FreshPlaces
    <3>3. \A i \in Range(pendingLive[b]) : i \notin Range(admitted)
      BY <3>2, <1>8, <1>9, <2>3
    <3> QED BY <3>1, <3>2, <3>3, <1>2, <1>8
  <2> QED BY <2>1, <2>2, <2>3
<1>14. \A i \in Range(live) : /\ i \in DOMAIN calls /\ ActorOf(calls[i]) = a
                              /\ i \in DOMAIN nodes' /\ nodes'[i].status = "running"
  <2> SUFFICES ASSUME NEW i \in Range(live)
               PROVE  /\ i \in DOMAIN calls /\ ActorOf(calls[i]) = a
                      /\ i \in DOMAIN nodes' /\ nodes'[i].status = "running"
    OBVIOUS
  <2>1. CASE i \in Range(admitted)
    BY <2>1, <1>2, <1>9
  <2>2. CASE i \notin Range(admitted)
    <3>1. i \in Range(in) /\ nodes[i].status = "running"
      BY <2>2, <1>5 DEF RunsAgain
    <3>2. PICK n \in DOMAIN rec : i = rec[n]
      BY <3>1, <1>5
    <3> QED BY <3>1, <3>2, <1>2 DEF Admissible
  <2> QED BY <2>1, <2>2
<1>15. LivePlaces'
  <2> SUFFICES ASSUME NEW b \in Actor
               PROVE  /\ \A i \in Has(liveQueue', current', b) :
                            /\ i \in DOMAIN calls /\ ActorOf(calls[i]) = b
                            /\ i \in DOMAIN nodes' /\ nodes'[i].status = "running"
                      /\ IsInjective(liveQueue'[b]) /\ current'[b] \notin Range(liveQueue'[b])
                      /\ Has(liveQueue', current', b) \cap Recorded(b)' = {}
    BY DEF LivePlaces, ActorOf, Holds, Has
  <2>1. \A i \in Holds(b) : /\ i \in DOMAIN calls /\ ActorOf(calls[i]) = b
                            /\ i \in DOMAIN nodes' /\ nodes'[i].status = "running"
    <3>1. \A i \in Holds(b) : /\ i \in DOMAIN asked /\ ActorOf(asked[i]) = b
                              /\ i \in DOMAIN nodes /\ nodes[i].status = "running"
      BY <1>7 DEF Places, LivePlaces
    <3> QED BY <3>1, <1>2, <1>8
  <2>2. CASE b = a
    <3>1. Has(liveQueue', current', b) = Holds(a) \cup Range(live)
      BY <2>2, <1>3
    <3>2. ASSUME NEW i \in Has(liveQueue', current', b), i \in Recorded(b)' PROVE FALSE
      <4>1. PICK n \in DOMAIN rec \ (seq..(seq + run - 1)) : i = rec[n]
        BY <3>2, <2>2, <1>10 DEF Recorded
      <4>2. i \in DOMAIN nodes /\ i \notin Holds(a) /\ nodes[i].seq = n
        BY <4>1 DEF Admissible
      <4>3. i \in Range(in)
        BY <4>2, <3>1, <3>2, <1>5, <1>9
      <4>4. PICK m \in seq..(seq + run - 1) : i = rec[m]
        BY <4>3, <1>6
      <4>5. nodes[i].seq = m
        BY <4>4, <1>6 DEF Admissible
      <4> QED BY <4>1, <4>2, <4>4, <4>5
    <3> QED BY <2>1, <2>2, <3>1, <3>2, <1>3, <1>14
  <2>3. CASE b # a
    <3>1. Has(liveQueue', current', b) = Holds(b)
      BY <2>3, <1>3
    <3>2. Recorded(b)' = Recorded(b)
      BY <2>3, <1>10 DEF Recorded
    <3> QED BY <2>1, <3>1, <3>2, <1>3, <1>7 DEF Places, LivePlaces
  <2> QED BY <2>2, <2>3
<1>16. Range(liveNodes') = UNION {Has(liveQueue', current', b) : b \in Actor}
  <2>1. Range(liveNodes) = UNION {Holds(b) : b \in Actor}
    BY <1>7 DEF Places
  <2> QED BY <2>1, <1>3, <1>4
<1> QED BY <1>12, <1>13, <1>15, <1>16 DEF Places, Holds, Has
-----------------------------------------------------------------------------
(* What a step does to the log, the asks in flight and the answers.        *)

Answers == [i \in {j \in DOMAIN nodes : nodes[j].status \in Terminal} |-> nodes[i].status]

LogStep ==
    \A n \in DOMAIN events' :
        n > 1 /\ n \notin DOMAIN events /\ events'[n - 1].type = "run-settled"
            => events'[n].type = "run-started"
AbandonStep ==
    \A i \in Range(liveNodes) :
        (i \notin Range(liveNodes') /\ (up' \/ status' \in {"completed", "stopped"}))
            => \E n \in DOMAIN events' \ DOMAIN events :
                   events'[n].type = "node-settled" /\ events'[n].inst = i
ContractStep == Contract!Next \/ UNCHANGED <<status, Answers>>
Steps == LogStep /\ AbandonStep /\ ContractStep

LEMMA LogGrows ==
  ASSUME events \in Seq(EventType), NEW X \in Seq(EventType), events' = events \o X
  PROVE  /\ events' \in Seq(EventType) /\ Len(events) \in Nat /\ Len(X) \in Nat
         /\ DOMAIN events = 1..Len(events) /\ DOMAIN X = 1..Len(X)
         /\ Len(events') = Len(events) + Len(X) /\ DOMAIN events' = 1..Len(events')
         /\ \A n \in DOMAIN events : events'[n] = events[n]
         /\ \A k \in DOMAIN X : events'[Len(events) + k] = X[k]
<1>1. /\ events' \in Seq(EventType) /\ Len(events') = Len(events) + Len(X)
      /\ \A i \in 1..(Len(events) + Len(X)) :
            events'[i] = IF i <= Len(events) THEN events[i] ELSE X[i - Len(events)]
  BY ConcatProperties
<1>2. Len(events) \in Nat /\ Len(X) \in Nat /\ DOMAIN events = 1..Len(events) /\ DOMAIN X = 1..Len(X)
      /\ DOMAIN events' = 1..Len(events')
  BY <1>1, LenProperties
<1>3. \A n \in DOMAIN events : events'[n] = events[n]
  BY <1>1, <1>2
<1>4. ASSUME NEW k \in DOMAIN X PROVE events'[Len(events) + k] = X[k]
  <2>1. Len(events) + k \in 1..(Len(events) + Len(X)) /\ ~(Len(events) + k <= Len(events))
        /\ Len(events) + k - Len(events) = k
    BY <1>2
  <2> QED BY <2>1, <1>1
<1> QED BY <1>1, <1>2, <1>3, <1>4

(* A run that is up appends settlements, the last of a life possibly its run-settled. *)
LEMMA QuietLog ==
  ASSUME events \in Seq(EventType), UpAndDown, up, NEW X \in Seq(EventType), events' = events \o X,
         \A k \in DOMAIN X : k < Len(X) => X[k].type = "node-settled"
  PROVE  LogStep
<1>1. /\ Len(events) \in Nat /\ Len(X) \in Nat /\ DOMAIN events = 1..Len(events) /\ DOMAIN X = 1..Len(X)
      /\ Len(events') = Len(events) + Len(X) /\ DOMAIN events' = 1..Len(events')
      /\ \A n \in DOMAIN events : events'[n] = events[n]
      /\ \A k \in DOMAIN X : events'[Len(events) + k] = X[k]
  BY LogGrows
<1>2. events # <<>> /\ events[Len(events)].type # "run-settled"
  BY DEF UpAndDown
<1>3. Len(events) # 0
  BY <1>2, EmptySeq
<1> SUFFICES ASSUME NEW n \in DOMAIN events', n > 1, n \notin DOMAIN events,
                    events'[n - 1].type = "run-settled"
             PROVE  FALSE
  BY DEF LogStep
<1>4. n \in Nat /\ n > Len(events) /\ n <= Len(events) + Len(X)
  BY <1>1
<1>5. CASE n - 1 = Len(events)
  BY <1>5, <1>1, <1>2, <1>3
<1>6. CASE n - 1 # Len(events)
  <2> DEFINE k == n - 1 - Len(events)
  <2>1. k \in DOMAIN X /\ k < Len(X) /\ Len(events) + k = n - 1
    BY <1>4, <1>6, <1>1
  <2> HIDE DEF k
  <2> QED BY <2>1, <1>1
<1> QED BY <1>5, <1>6

LEMMA SameAnswers ==
  ASSUME DOMAIN nodes \subseteq DOMAIN nodes', \A i \in DOMAIN nodes : SameAsk(nodes'[i], nodes[i]),
         \A i \in DOMAIN nodes' : i \notin DOMAIN nodes => nodes'[i].status = "running"
  PROVE  Answers' = Answers
<1>1. \A i : i \in DOMAIN nodes' /\ nodes'[i].status \in Terminal
             <=> i \in DOMAIN nodes /\ nodes[i].status \in Terminal
  BY DEF Terminal, SameAsk
<1>2. \A i \in DOMAIN nodes : nodes'[i].status = nodes[i].status
  BY DEF SameAsk
<1> QED BY <1>1, <1>2 DEF Answers

(* One row gets its final status: the contract's Answer. *)
LEMMA OneAnswer ==
  ASSUME NEW i \in DOMAIN nodes, NEW st \in Terminal, nodes \in [DOMAIN nodes -> RowType],
         nodes[i].status = "running", nodes' = [nodes EXCEPT ![i].status = st],
         status = "running", status' = status
  PROVE  ContractStep
<1>1. DOMAIN nodes' = DOMAIN nodes /\ nodes'[i].status = st
      /\ \A j \in DOMAIN nodes : j # i => nodes'[j] = nodes[j]
  BY DEF RowType
<1>2. i \notin DOMAIN Answers /\ "running" \notin Terminal
  BY DEF Answers, Terminal
<1>3. DOMAIN Answers' = DOMAIN Answers \cup {i}
  <2> SUFFICES ASSUME NEW j PROVE j \in DOMAIN Answers' <=> j \in DOMAIN Answers \/ j = i
    OBVIOUS
  <2>1. CASE j = i
    BY <2>1, <1>1 DEF Answers
  <2>2. CASE j # i
    BY <2>2, <1>1 DEF Answers
  <2> QED BY <2>1, <2>2
<1>4. Answers'[i] = st
  BY <1>1 DEF Answers
<1>5. \A j \in DOMAIN Answers : j # i /\ Answers'[j] = Answers[j]
  BY <1>1, <1>2 DEF Answers
<1>6. Answers' = [j \in DOMAIN Answers \cup {i} |-> IF j = i THEN Answers'[i] ELSE Answers[j]]
  <2>1. Answers' = [j \in DOMAIN Answers' |-> Answers'[j]]
    BY DEF Answers
  <2> HIDE DEF Answers
  <2> QED BY <2>1, <1>3, <1>5
<1>7. Contract!Answer
  BY <1>2, <1>3, <1>4, <1>6 DEF Contract!Answer, Contract!Outcome, Terminal, Answers
<1> QED BY <1>7 DEF ContractStep, Contract!Next
-----------------------------------------------------------------------------
(* The end of a life, and the next one. *)

LEMMA ColdFacts ==
  ASSUME Cold, JournalType', order' \in Seq(Instance), up' \in BOOLEAN, toHost' \in Seq(LineType)
  PROVE  Types' /\ Places' /\ WorkConserving' /\ liveNodes' = <<>>
<1>0. /\ <<>> \in Seq(Instance) /\ <<>> \in Seq(ReplyType) /\ Range(<<>>) = {} /\ IsInjective(<<>>)
      /\ DOMAIN <<>> = {} /\ IsFiniteSet({}) /\ None \notin Instance
  BY EmptySeq, FS_EmptySet, NoneAssumption DEF Range, IsInjective, Instance
<1>1. AdmissionType'
  <2>1. {i \in Instance : i[2] <= ordinals'[i[1]]} = {}
    <3> SUFFICES ASSUME NEW i \in Instance, i[2] <= ordinals'[i[1]] PROVE FALSE
      OBVIOUS
    <3>1. i[1] \in Site /\ i[2] \in Nat /\ i[2] # 0
      BY DEF Instance
    <3>2. ordinals'[i[1]] = 0
      BY <3>1 DEF Cold
    <3> QED BY <3>1, <3>2
  <2>2. asked' = <<>> /\ ordinals' \in [Site -> Nat] /\ nextAdmitSeq' \in [Actor -> Nat]
        /\ pendingLive' = [a \in Actor |-> <<>>] /\ pendingRecorded' = [a \in Actor |-> <<>>]
    BY DEF Cold
  <2>3. asked' \in [DOMAIN asked' -> Asks] /\ DOMAIN asked' = {}
    BY <2>2, <1>0
  <2>4. pendingLive' \in [Actor -> Seq(Instance)] /\ DOMAIN pendingRecorded' = Actor
        /\ \A a \in Actor : DOMAIN pendingRecorded'[a] = {}
    BY <2>2, <1>0
  <2> QED BY <2>1, <2>2, <2>3, <2>4, <1>0 DEF AdmissionType
<1>2. DispatchType'
  BY <1>0 DEF Cold, DispatchType, SessionState
<1>3. GateType'
  <2>1. cursor' = 1 /\ parked' = {}
    BY DEF Cold
  <2>2. Len(order') \in Nat
    BY LenProperties
  <2> QED BY <2>1, <2>2 DEF GateType
<1>4. PipeType'
  BY <1>0 DEF PipeType, Cold
<1>5. \A a \in Actor : /\ pendingRecorded'[a] = <<>> /\ pendingLive'[a] = <<>>
                       /\ liveQueue'[a] = <<>> /\ current'[a] = None
  BY DEF Cold
<1>7. \A a \in Actor : Holds(a)' = {} /\ Recorded(a)' = {}
  BY <1>0, <1>5 DEF Holds, Has, Recorded
<1>8. RecordedPlaces' /\ FreshPlaces' /\ LivePlaces'
  BY <1>0, <1>5, <1>7 DEF RecordedPlaces, FreshPlaces, LivePlaces
<1>9. liveNodes' = <<>>
  BY DEF Cold
<1>10. Range(liveNodes') = UNION {Holds(a)' : a \in Actor}
  BY <1>0, <1>7, <1>9
<1>11. WorkConserving'
  <2>1. Busy' = {}
    BY <1>5 DEF Busy
  <2>2. activeAsks' = 0 /\ Cardinality({}) = 0
    BY FS_EmptySet DEF Cold
  <2> QED BY <2>1, <2>2, <1>5 DEF WorkConserving
<1> QED BY <1>1, <1>2, <1>3, <1>4, <1>8, <1>9, <1>10, <1>11 DEF Types, Places

LEMMA DownFacts ==
  ASSUME Down, JournalType'
  PROVE  IInv' /\ liveNodes' = <<>> /\ ~up'
<1>1. Cold /\ up' = FALSE /\ toHost' = <<>> /\ order' = <<>>
  BY DEF Down
<1>2. <<>> \in Seq(Instance) /\ <<>> \in Seq(LineType)
  BY EmptySeq
<1>3. Types' /\ Places' /\ WorkConserving' /\ liveNodes' = <<>>
  BY <1>1, <1>2, ColdFacts
<1>4. UpAndDown'
  BY <1>1, <1>3 DEF UpAndDown
<1> QED BY <1>1, <1>3, <1>4 DEF IInv

LEMMA KeepsAnswers ==
  ASSUME nodes' = nodes
  PROVE  Answers' = Answers
BY DEF Answers

LEMMA NothingInFlight ==
  ASSUME liveNodes = <<>>
  PROVE  AbandonStep
BY EmptySeq DEF AbandonStep, Range

(* A settlement of the run: the flushed answers, the aborted asks, then run-settled. *)
LEMMA SettleRunStep ==
  ASSUME IInv, up, NEW s \in {"completed", "stopped", "errored"}, NEW emit \in BOOLEAN,
         s # "errored" => emit, SettleRun(s, emit)
  PROVE  IInv' /\ Steps /\ \E X \in Seq(EventType) : events' = events \o X
<1> DEFINE flushed == Keep(order, parked)
           out == [k \in DOMAIN flushed |-> Settled(flushed[k], OutcomeOf(flushed[k]))]
           aborted == [k \in DOMAIN liveNodes |-> Settled(liveNodes[k], "cancelled")]
           X == out \o LastEvents(s, emit)
<1>1. /\ status' = s /\ events' = (events \o out) \o LastEvents(s, emit)
      /\ Down /\ nodes' = nodes /\ cap' = cap
  BY DEF SettleRun
<1>2. status = "running" /\ JournalType /\ events \in Seq(EventType)
      /\ order \in Seq(Instance) /\ liveNodes \in Seq(Instance)
  BY DEF IInv, Types, UpAndDown, JournalType, GateType, DispatchType
<1>3. flushed \in Seq(Instance)
  BY <1>2, KeepRange
<1> HIDE DEF flushed
<1>4. Settlements(out)
  <2>1. Len(flushed) \in Nat /\ DOMAIN flushed = 1..Len(flushed)
        /\ \A k \in DOMAIN flushed : flushed[k] \in Instance
    BY <1>3, LenProperties, ElementOfSeq
  <2>2. \A i : OutcomeOf(i) \in {"ok", "failed"}
    BY DEF OutcomeOf
  <2>3. \A k \in DOMAIN flushed : Settled(flushed[k], OutcomeOf(flushed[k])) \in EventType
                                  /\ Settled(flushed[k], OutcomeOf(flushed[k])).type = "node-settled"
    BY <2>1, <2>2, SettledType
  <2>4. out \in [1..Len(flushed) -> EventType]
    BY <2>1, <2>3
  <2>5. out \in Seq(EventType)
    BY <2>1, <2>4, SameLength
  <2> QED BY <2>3, <2>5 DEF Settlements
<1>5. Settlements(aborted) /\ DOMAIN aborted = DOMAIN liveNodes
      /\ \A k \in DOMAIN liveNodes : aborted[k].inst = liveNodes[k]
  <2>1. Len(liveNodes) \in Nat /\ DOMAIN liveNodes = 1..Len(liveNodes)
        /\ \A k \in DOMAIN liveNodes : liveNodes[k] \in Instance
    BY <1>2, LenProperties, ElementOfSeq
  <2>2. \A k \in DOMAIN liveNodes : Settled(liveNodes[k], "cancelled") \in EventType
                                    /\ Settled(liveNodes[k], "cancelled").type = "node-settled"
    BY <2>1, SettledType
  <2>3. aborted \in [1..Len(liveNodes) -> EventType]
    BY <2>1, <2>2
  <2>4. aborted \in Seq(EventType)
    BY <2>1, <2>3, SameLength
  <2>5. \A k \in DOMAIN liveNodes : Settled(liveNodes[k], "cancelled").inst = liveNodes[k]
    BY DEF Settled
  <2> QED BY <2>2, <2>4, <2>5 DEF Settlements
<1>6. <<RunSettled(s)>> \in Seq(EventType) /\ Len(<<RunSettled(s)>>) = 1
  <2>1. RunSettled(s) \in EventType
    BY DEF RunSettled, EventType
  <2> QED BY <2>1
<1> HIDE DEF out, aborted
<1>7. PICK A \in Seq(EventType) : /\ LastEvents(s, emit) = A \o <<RunSettled(s)>>
                                  /\ \A k \in DOMAIN A : A[k].type = "node-settled"
                                  /\ emit => A = aborted
  <2>1. CASE emit
    <3>1. LastEvents(s, emit) = aborted \o <<RunSettled(s)>>
      BY <2>1 DEF LastEvents, Aborted, aborted
    <3> QED BY <3>1, <1>5 DEF Settlements
  <2>2. CASE ~emit
    <3>1. LastEvents(s, emit) = <<>> \o <<RunSettled(s)>>
      BY <2>2 DEF LastEvents, Aborted
    <3>2. <<>> \in Seq(EventType) /\ DOMAIN <<>> = {}
      BY EmptySeq
    <3> HIDE DEF LastEvents
    <3> QED BY <3>1, <3>2, <2>2
  <2> QED BY <2>1, <2>2
<1> DEFINE last == LastEvents(s, emit)
<1>8. /\ last \in Seq(EventType) /\ Len(last) = Len(A) + 1 /\ Len(A) \in Nat /\ DOMAIN A = 1..Len(A)
      /\ \A k \in DOMAIN A : last[k] = A[k]
  <2>1. /\ A \o <<RunSettled(s)>> \in Seq(EventType)
        /\ Len(A \o <<RunSettled(s)>>) = Len(A) + Len(<<RunSettled(s)>>)
        /\ \A i \in 1..(Len(A) + Len(<<RunSettled(s)>>)) : (A \o <<RunSettled(s)>>)[i] =
              IF i <= Len(A) THEN A[i] ELSE <<RunSettled(s)>>[i - Len(A)]
    BY <1>6, ConcatProperties
  <2>2. Len(A) \in Nat /\ DOMAIN A = 1..Len(A)
    BY LenProperties
  <2> QED BY <2>1, <2>2, <1>6, <1>7
<1> HIDE DEF last
<1>9. /\ X \in Seq(EventType) /\ Len(X) = Len(out) + Len(last) /\ Len(out) \in Nat
      /\ DOMAIN out = 1..Len(out)
      /\ \A i \in 1..(Len(out) + Len(last)) : X[i] = IF i <= Len(out) THEN out[i] ELSE last[i - Len(out)]
  <2>1. out \in Seq(EventType)
    BY <1>4 DEF Settlements
  <2>2. Len(out) \in Nat /\ DOMAIN out = 1..Len(out)
    BY <2>1, LenProperties
  <2> QED BY <2>1, <2>2, <1>8, ConcatProperties DEF last
<1>10. events' = events \o X
  <2>1. out \in Seq(EventType)
    BY <1>4 DEF Settlements
  <2>2. (events \o out) \o last = events \o (out \o last)
    <3>1. events \in Seq(EventType) /\ out \in Seq(EventType) /\ last \in Seq(EventType)
      BY <2>1, <1>2, <1>8
    <3> QED BY <3>1, ConcatAssociative
  <2>3. X = out \o last
    BY DEF last
  <2>4. events' = (events \o out) \o last
    BY <1>1 DEF last
  <2> QED BY <2>2, <2>3, <2>4
<1> HIDE DEF X
<1>11. ASSUME NEW k \in DOMAIN X, k < Len(X) PROVE X[k].type = "node-settled"
  <2>1. DOMAIN X = 1..Len(X) /\ Len(last) \in Nat
    BY <1>8, <1>9, LenProperties
  <2>2. CASE k <= Len(out)
    BY <2>1, <2>2, <1>4, <1>9, <1>11 DEF Settlements
  <2>3. CASE ~(k <= Len(out))
    <3>1. k - Len(out) \in DOMAIN A
      BY <2>1, <2>3, <1>8, <1>9, <1>11
    <3>2. X[k] = last[k - Len(out)]
      BY <2>1, <2>3, <1>9, <1>11
    <3> QED BY <3>1, <3>2, <1>7, <1>8
  <2> QED BY <2>2, <2>3
<1>12. LogStep
  BY <1>2, <1>9, <1>10, <1>11, QuietLog DEF IInv
<1>13. JournalType'
  <2>1. events' \in Seq(EventType)
    BY <1>2, <1>9, <1>10, LogGrows
  <2> QED BY <2>1, <1>1, <1>2 DEF JournalType
<1>14. IInv' /\ liveNodes' = <<>> /\ ~up'
  BY <1>1, <1>13, DownFacts
<1>15. AbandonStep
  <2> SUFFICES ASSUME NEW i \in Range(liveNodes), status' \in {"completed", "stopped"}
               PROVE  \E n \in DOMAIN events' \ DOMAIN events :
                         events'[n].type = "node-settled" /\ events'[n].inst = i
    BY <1>14 DEF AbandonStep
  <2>1. A = aborted
    BY <1>1, <1>7
  <2>2. PICK k \in DOMAIN liveNodes : i = liveNodes[k]
    BY DEF Range
  <2>3. k \in DOMAIN A /\ A[k].inst = i /\ A[k].type = "node-settled"
    BY <2>1, <2>2, <1>5, <1>7
  <2>4. k \in Nat /\ k >= 1 /\ k <= Len(A)
    BY <2>3, <1>8
  <2>5. Len(out) + k \in DOMAIN X /\ X[Len(out) + k] = A[k]
    <3>1. Len(out) + k \in 1..(Len(out) + Len(last)) /\ ~(Len(out) + k <= Len(out))
          /\ Len(out) + k - Len(out) = k
      BY <2>4, <1>8, <1>9
    <3>2. DOMAIN X = 1..Len(X)
      BY <1>9, LenProperties
    <3> QED BY <3>1, <3>2, <2>3, <1>8, <1>9
  <2>6. /\ Len(events) \in Nat /\ Len(X) \in Nat /\ DOMAIN events = 1..Len(events)
        /\ Len(events') = Len(events) + Len(X) /\ DOMAIN events' = 1..Len(events')
        /\ DOMAIN X = 1..Len(X) /\ \A m \in DOMAIN X : events'[Len(events) + m] = X[m]
    BY <1>2, <1>9, <1>10, LogGrows
  <2> DEFINE n == Len(events) + (Len(out) + k)
  <2>7. n \in DOMAIN events' /\ n \notin DOMAIN events /\ events'[n] = X[Len(out) + k]
    BY <2>5, <2>6
  <2> QED BY <2>3, <2>5, <2>7
<1>16. ContractStep
  <2>1. Answers' = Answers
    BY <1>1, KeepsAnswers
  <2>2. Contract!Settle
    BY <2>1, <1>1, <1>2 DEF Contract!Settle, Answers
  <2> QED BY <2>2 DEF ContractStep, Contract!Next
<1> QED BY <1>9, <1>10, <1>12, <1>14, <1>15, <1>16 DEF Steps

(* A life that ends without a word leaves the log as it is. *)
LEMMA SameLog ==
  ASSUME events' = events
  PROVE  LogStep
BY DEF LogStep

LEMMA CrashStep ==
  ASSUME IInv, Crash
  PROVE  IInv' /\ Steps
<1>1. Down /\ status' = status /\ nodes' = nodes /\ events' = events /\ cap' = cap
  BY DEF Crash, journal
<1>2. status = "running"
  BY DEF IInv, UpAndDown, Crash
<1>3. JournalType'
  BY <1>1 DEF IInv, Types, JournalType
<1>4. IInv' /\ liveNodes' = <<>> /\ ~up'
  BY <1>1, <1>3, DownFacts
<1>5. LogStep /\ AbandonStep /\ ContractStep
  BY <1>1, <1>2, <1>4, SameLog, KeepsAnswers DEF AbandonStep, ContractStep
<1> QED BY <1>4, <1>5 DEF Steps

(* The row of the current ask of an actor. *)
LEMMA CurrentRow ==
  ASSUME IInv, NEW a \in Actor, current[a] # None
  PROVE  /\ current[a] \in Instance /\ current[a] \in DOMAIN nodes /\ nodes[current[a]].status = "running"
         /\ current[a] \in DOMAIN asked /\ ActorOf(asked[current[a]]) = a /\ asked[current[a]] \in Asks
         /\ nodes \in [DOMAIN nodes -> RowType]
<1>1. current[a] \in Holds(a)
  BY DEF Holds, Has
<1> QED BY <1>1 DEF IInv, Types, DispatchType, AdmissionType, JournalType, Places, LivePlaces

LEMMA CrashInSettleStep ==
  ASSUME IInv, NEW a \in Actor, CrashInSettle(a)
  PROVE  IInv' /\ Steps
<1>1. Down /\ status' = status /\ nodes' = [nodes EXCEPT ![current[a]].status = "completed"]
      /\ events' = events /\ cap' = cap /\ current[a] # None
  BY DEF CrashInSettle
<1>2. status = "running"
  BY DEF IInv, UpAndDown, CrashInSettle
<1>3. current[a] \in DOMAIN nodes /\ nodes[current[a]].status = "running"
      /\ nodes \in [DOMAIN nodes -> RowType]
  BY <1>1, CurrentRow
<1>4. nodes' \in [DOMAIN nodes' -> RowType] /\ DOMAIN nodes' = DOMAIN nodes
  BY <1>1, <1>3 DEF RowType, Terminal
<1>5. JournalType'
  BY <1>1, <1>4 DEF IInv, Types, JournalType
<1>6. IInv' /\ liveNodes' = <<>> /\ ~up'
  BY <1>1, <1>5, DownFacts
<1>7. ContractStep
  <2>1. "completed" \in Terminal
    BY DEF Terminal
  <2> QED BY <2>1, <1>1, <1>2, <1>3, OneAnswer
<1>8. LogStep /\ AbandonStep
  BY <1>1, <1>2, <1>6, SameLog DEF AbandonStep
<1> QED BY <1>6, <1>7, <1>8 DEF Steps

LEMMA StopStep ==
  ASSUME IInv, Stop
  PROVE  IInv' /\ Steps
BY SettleRunStep DEF Stop

LEMMA ScriptEndsStep ==
  ASSUME IInv, ScriptEnds
  PROVE  IInv' /\ Steps
<1>1. up
  BY DEF ScriptEnds
<1>2. CASE SettleRun("completed", TRUE)
  BY <1>1, <1>2, SettleRunStep
<1>3. CASE SettleRun("errored", FALSE)
  BY <1>1, <1>3, SettleRunStep
<1> QED BY <1>2, <1>3 DEF ScriptEnds

(* The recovered order holds the asks of the log it was read from. *)
LEMMA RecoveredOrderType ==
  ASSUME JournalType
  PROVE  RecoveredOrder(nodes, events) \in Seq(Instance) /\ IsInjective(RecoveredOrder(nodes, events))
<1> DEFINE first == {n \in DOMAIN events :
                       /\ events[n].type = "node-settled"
                       /\ events[n].inst \in DOMAIN nodes
                       /\ nodes[events[n].inst].status \in Terminal
                       /\ \A m \in 1..(n - 1) :
                             events[m].type = "node-settled" => events[m].inst # events[n].inst}
           all == [n \in DOMAIN events |-> n]
           at == Keep(all, first)
<1>1. RecoveredOrder(nodes, events) = [k \in DOMAIN at |-> events[at[k]].inst]
  BY DEF RecoveredOrder
<1>2. \A n \in first : events[n].inst \in Instance
  BY DEF JournalType
<1>a. DOMAIN events = 1..Len(events) /\ Len(events) \in Nat
  BY LenProperties DEF JournalType
<1>b. \A m, n \in first : m < n => events[m].inst # events[n].inst
  <2> SUFFICES ASSUME NEW m \in first, NEW n \in first, m < n PROVE events[m].inst # events[n].inst
    OBVIOUS
  <2>1. m \in 1..(n - 1) /\ events[m].type = "node-settled"
    BY <1>a
  <2>2. \A k \in 1..(n - 1) : events[k].type = "node-settled" => events[k].inst # events[n].inst
    OBVIOUS
  <2> QED BY <2>1, <2>2
<1>c. first \subseteq Nat
  BY <1>a
<1> HIDE DEF first
<1>3. all \in Seq(Nat)
  <2>1. Len(events) \in Nat /\ DOMAIN events = 1..Len(events)
    BY LenProperties DEF JournalType
  <2>2. all \in [1..Len(events) -> Nat]
    BY <2>1
  <2> QED BY <2>1, <2>2, SameLength
<1>d. IsInjective(all)
  BY DEF IsInjective
<1> HIDE DEF all
<1>4. at \in Seq(Nat) /\ Range(at) = Range(all) \cap first /\ IsInjective(at)
  BY <1>3, <1>d, KeepRange
<1> HIDE DEF at
<1>5. Len(at) \in Nat /\ DOMAIN at = 1..Len(at)
  BY <1>4, LenProperties
<1>6. \A k \in DOMAIN at : at[k] \in first
  BY <1>4 DEF Range
<1>7. [k \in DOMAIN at |-> events[at[k]].inst] \in [1..Len(at) -> Instance]
  BY <1>2, <1>5, <1>6
<1>8. ASSUME NEW k \in DOMAIN at, NEW m \in DOMAIN at, events[at[k]].inst = events[at[m]].inst PROVE k = m
  <2>1. at[k] \in Nat /\ at[m] \in Nat /\ at[k] = at[m]
    <3>1. at[k] \in first /\ at[m] \in first /\ at[k] \in Nat /\ at[m] \in Nat
      BY <1>6, <1>c
    <3>2. ~(at[k] < at[m]) /\ ~(at[m] < at[k])
      BY <3>1, <1>8, <1>b
    <3> QED BY <3>1, <3>2
  <2> QED BY <2>1, <1>4 DEF IsInjective
<1>9. IsInjective([k \in DOMAIN at |-> events[at[k]].inst])
  BY <1>8 DEF IsInjective
<1> QED BY <1>1, <1>5, <1>7, <1>9, SameLength

LEMMA FirstLinesType == FirstLines \in Seq(LineType)
<1>1. Len(BranchOrder) \in Nat /\ DOMAIN BranchOrder = 1..Len(BranchOrder)
      /\ \A k \in DOMAIN BranchOrder : BranchOrder[k] \in Branch
  BY OrderAssumption, LenProperties, ElementOfSeq
<1>2. ASSUME NEW b \in Branch PROVE AskLine(b, 1) \in LineType
  <2>1. Len(Script[b]) \in Nat \ {0} /\ DOMAIN Script[b] = 1..Len(Script[b])
    BY ScriptAssumption
  <2>2. 1 \in DOMAIN Script[b]
    BY <2>1
  <2> DEFINE x == <<b, 1>>
  <2>3. x \in Asks /\ x[1] = b /\ x[2] = 1
    BY <2>2 DEF Asks
  <2>4. AskLine(x[1], x[2]) \in LineType
    BY <2>3 DEF LineType
  <2> QED BY <2>3, <2>4
<1>3. FirstLines \in [1..Len(BranchOrder) -> LineType]
  BY <1>1, <1>2 DEF FirstLines
<1> QED BY <1>1, <1>3, SameLength

LEMMA ResumeStep ==
  ASSUME IInv, Resume
  PROVE  IInv' /\ Steps
<1>1. /\ ~up /\ status \in {"running", "stopped"} /\ status' = "running" /\ up' = TRUE /\ Cold
      /\ events' = Append(events, RunStarted) /\ toHost' = FirstLines
      /\ order' = RecoveredOrder(nodes, events) /\ nodes' = nodes /\ cap' = cap
  BY DEF Resume
<1>2. JournalType /\ events \in Seq(EventType) /\ liveNodes = <<>>
  BY <1>1 DEF IInv, Types, JournalType, UpAndDown
<1>3. RunStarted \in EventType /\ RunStarted.type = "run-started"
  BY DEF RunStarted, EventType
<1>4. /\ events' \in Seq(EventType) /\ Len(events') = Len(events) + 1 /\ Len(events) \in Nat
      /\ \A n \in 1..Len(events) : events'[n] = events[n]
      /\ events'[Len(events) + 1] = RunStarted
      /\ DOMAIN events = 1..Len(events) /\ DOMAIN events' = 1..Len(events')
  BY <1>1, <1>2, <1>3, AppendProperties, LenProperties
<1>5. JournalType'
  BY <1>1, <1>2, <1>4 DEF JournalType
<1>6. order' \in Seq(Instance) /\ toHost' \in Seq(LineType) /\ up' \in BOOLEAN
  BY <1>1, <1>2, RecoveredOrderType, FirstLinesType
<1>7. Types' /\ Places' /\ WorkConserving'
  BY <1>1, <1>5, <1>6, ColdFacts
<1>8. UpAndDown'
  <2>1. events' # <<>>
    BY <1>4, EmptySeq
  <2> QED BY <2>1, <1>1, <1>3, <1>4 DEF UpAndDown
<1>9. LogStep
  BY <1>3, <1>4 DEF LogStep
<1>10. AbandonStep
  BY <1>2, NothingInFlight
<1>11. ContractStep
  <2>1. Answers' = Answers
    BY <1>1, KeepsAnswers
  <2>2. CASE status = "running"
    BY <2>1, <2>2, <1>1 DEF ContractStep
  <2>3. CASE status = "stopped"
    BY <2>1, <2>3, <1>1 DEF ContractStep, Contract!Next, Contract!Reopen, Answers
  <2> QED BY <2>2, <2>3, <1>1
<1> QED BY <1>7, <1>8, <1>9, <1>10, <1>11 DEF IInv, Steps

-----------------------------------------------------------------------------
(* The steps of a life. *)

(* A step that only touches what Places and the log do not depend on. *)
LEMMA QuietStep ==
  ASSUME IInv, Types', UNCHANGED <<journal, admission, gate, up, liveQueue, current, liveNodes, activeAsks>>
  PROVE  IInv' /\ Steps
<1>1. /\ status' = status /\ nodes' = nodes /\ events' = events /\ cap' = cap /\ asked' = asked
      /\ pendingRecorded' = pendingRecorded /\ pendingLive' = pendingLive /\ up' = up
      /\ liveQueue' = liveQueue /\ current' = current /\ liveNodes' = liveNodes /\ activeAsks' = activeAsks
  BY DEF journal, admission, gate
<1>2. Places'
  <2>1. \A a \in Actor : Holds(a)' = Holds(a) /\ Recorded(a)' = Recorded(a)
    BY <1>1 DEF Holds, Has, Recorded
  <2>2. RecordedPlaces' /\ FreshPlaces'
    BY <1>1 DEF IInv, Places, RecordedPlaces, FreshPlaces, ActorOf
  <2>3. LivePlaces'
    BY <1>1, <2>1 DEF IInv, Places, LivePlaces, ActorOf
  <2>4. (Range(liveNodes) = UNION {Holds(a) : a \in Actor})'
    BY <1>1, <2>1 DEF IInv, Places
  <2> QED BY <2>2, <2>3, <2>4 DEF Places
<1>3. WorkConserving'
  BY <1>1 DEF IInv, WorkConserving, Busy
<1>4. UpAndDown'
  BY <1>1 DEF IInv, UpAndDown
<1>5. LogStep /\ AbandonStep /\ ContractStep
  BY <1>1, SameLog, KeepsAnswers DEF AbandonStep, ContractStep
<1> QED BY <1>2, <1>3, <1>4, <1>5 DEF IInv, Steps

LEMMA DispatchStep ==
  ASSUME IInv, NEW a \in Actor, Dispatch(a)
  PROVE  IInv' /\ Steps
<1>1. /\ current[a] # None /\ session' = [session EXCEPT ![a] = "ready"]
      /\ dispatched' = dispatched \cup {current[a]}
      /\ UNCHANGED <<journal, script, admission, gate, up, liveQueue, current, liveNodes, activeAsks>>
  BY DEF Dispatch
<1>2. current[a] \in Range(liveNodes)
  <2>1. current[a] \in Holds(a)
    BY <1>1 DEF Holds, Has
  <2> QED BY <2>1 DEF IInv, Places
<1>3. Types
  BY DEF IInv
<1>4. DispatchType'
  BY <1>1, <1>2, <1>3 DEF Types, DispatchType, SessionState
<1>5. JournalType' /\ AdmissionType' /\ GateType' /\ PipeType'
  BY <1>1, <1>3 DEF Types, JournalType, AdmissionType, GateType, PipeType, journal, script, admission, gate
<1>6. Types'
  BY <1>4, <1>5 DEF Types
<1> QED BY <1>1, <1>6, QuietStep

LEMMA ScriptStepStep ==
  ASSUME IInv, ScriptStep
  PROVE  IInv' /\ Steps
<1> DEFINE reply == Head(toChild)
<1>1. /\ toChild # <<>> /\ toChild' = Tail(toChild)
      /\ \/ toHost' = Append(toHost, EndLine("throw"))
         \/ /\ reply.step < Len(Script[reply.branch])
            /\ toHost' = Append(toHost, AskLine(reply.branch, reply.step + 1))
         \/ toHost' = Append(toHost, EndLine("complete"))
         \/ toHost' = toHost
      /\ UNCHANGED <<journal, admission, dispatching, gate, up>>
  BY DEF ScriptStep
<1>2. Types /\ toChild \in Seq(ReplyType) /\ toHost \in Seq(LineType)
  BY DEF IInv, Types, PipeType
<1>3. reply \in ReplyType /\ Tail(toChild) \in Seq(ReplyType)
  BY <1>1, <1>2, HeadTailProperties
<1>4. PICK x \in Asks : reply.branch = x[1] /\ reply.step = x[2]
  BY <1>3 DEF ReplyType, Reply
<1> HIDE DEF reply
<1>5. reply.step < Len(Script[reply.branch]) => AskLine(reply.branch, reply.step + 1) \in LineType
  <2> SUFFICES ASSUME reply.step < Len(Script[reply.branch])
               PROVE  AskLine(reply.branch, reply.step + 1) \in LineType
    OBVIOUS
  <2>1. PICK b \in Branch : x \in {b} \X DOMAIN Script[b]
    BY <1>4 DEF Asks
  <2>2. x[1] = b /\ x[2] \in DOMAIN Script[b]
    BY <2>1
  <2>3. x[2] \in 1..Len(Script[b]) /\ Len(Script[b]) \in Nat /\ DOMAIN Script[b] = 1..Len(Script[b])
    BY <2>2, ScriptAssumption
  <2>4. x[2] + 1 \in DOMAIN Script[b]
    BY <2>2, <2>3, <1>4
  <2> DEFINE y == <<b, x[2] + 1>>
  <2>5. y \in Asks /\ y[1] = b /\ y[2] = x[2] + 1
    BY <2>4 DEF Asks
  <2>6. AskLine(y[1], y[2]) \in LineType
    BY <2>5 DEF LineType
  <2> QED BY <2>2, <2>5, <2>6, <1>4
<1>6. EndLine("throw") \in LineType /\ EndLine("complete") \in LineType
  BY DEF EndLine, LineType
<1>7. toHost' \in Seq(LineType)
  <2>1. CASE toHost' = Append(toHost, EndLine("throw"))
    BY <2>1, <1>2, <1>6, AppendProperties
  <2>2. CASE toHost' = Append(toHost, EndLine("complete"))
    BY <2>2, <1>2, <1>6, AppendProperties
  <2>3. CASE /\ reply.step < Len(Script[reply.branch])
             /\ toHost' = Append(toHost, AskLine(reply.branch, reply.step + 1))
    BY <2>3, <1>2, <1>5, AppendProperties
  <2> QED BY <2>1, <2>2, <2>3, <1>1, <1>2
<1>8. PipeType'
  BY <1>1, <1>2, <1>3, <1>7 DEF Types, PipeType
<1>9. JournalType' /\ AdmissionType' /\ GateType' /\ DispatchType'
  BY <1>1, <1>2 DEF Types, JournalType, AdmissionType, GateType, DispatchType, journal, admission, gate, dispatching
<1>10. Types'
  BY <1>8, <1>9 DEF Types
<1> QED BY <1>1, <1>10, QuietStep DEF dispatching

(* The log of a run that stays up ends in something else than run-settled. *)
LEMMA LogOfARun ==
  ASSUME events \in Seq(EventType), UpAndDown, up, NEW X, Settlements(X), events' = events \o X
  PROVE  /\ events' \in Seq(EventType) /\ LogStep
         /\ events' # <<>> /\ events'[Len(events')].type # "run-settled"
<1>1. X \in Seq(EventType) /\ \A k \in DOMAIN X : X[k].type = "node-settled"
  BY DEF Settlements
<1>2. /\ events' \in Seq(EventType) /\ Len(events) \in Nat /\ Len(X) \in Nat
      /\ DOMAIN events = 1..Len(events) /\ DOMAIN X = 1..Len(X)
      /\ Len(events') = Len(events) + Len(X) /\ DOMAIN events' = 1..Len(events')
      /\ \A n \in DOMAIN events : events'[n] = events[n]
      /\ \A k \in DOMAIN X : events'[Len(events) + k] = X[k]
  BY <1>1, LogGrows
<1>3. LogStep
  BY <1>1, QuietLog
<1>4. events # <<>> /\ events[Len(events)].type # "run-settled"
  BY DEF UpAndDown
<1>5. Len(events) # 0
  BY <1>4, EmptySeq
<1>6. events' # <<>>
  <2>1. Len(events') # 0
    BY <1>2, <1>5
  <2> QED BY <2>1, EmptySeq
<1>7. CASE Len(X) = 0
  <2>1. Len(events') = Len(events) /\ Len(events) \in DOMAIN events
    BY <1>2, <1>5, <1>7
  <2> QED BY <2>1, <1>2, <1>3, <1>4, <1>6
<1>8. CASE Len(X) # 0
  <2>1. Len(X) \in DOMAIN X
    BY <1>2, <1>8
  <2> QED BY <2>1, <1>1, <1>2, <1>3, <1>6
<1> QED BY <1>7, <1>8

LEMMA RetuneStep ==
  ASSUME IInv, NEW n \in Caps, SetMaxConcurrency(n)
  PROVE  IInv' /\ Steps
<1>1. /\ cap' = n /\ Pump(Rescan(n), liveQueue, current, activeAsks, session, n)
      /\ UNCHANGED <<status, nodes, events, script, admission, gate, up, liveNodes, dispatched>>
  BY DEF SetMaxConcurrency
<1>2. /\ Types /\ Places /\ liveQueue \in [Actor -> Seq(Instance)]
      /\ current \in [Actor -> Instance \cup {None}]
      /\ session \in [Actor -> SessionState] /\ activeAsks \in Nat /\ cap \in Nat /\ n \in Nat
  BY CapsAssumption DEF IInv, Types, DispatchType, JournalType
<1>3. Apart(liveQueue, current) /\ activeAsks = Cardinality(BusyIn(current))
  BY DEF IInv, Places, LivePlaces, WorkConserving, Busy, Apart, BusyIn
<1>4. Rescan(n) \in SUBSET Actor /\ (Rescan(n) # Actor => n <= cap)
  BY <1>2 DEF Rescan
<1>5. Conserving(Actor \ Rescan(n), liveQueue, current, activeAsks, n)
  <2>1. CASE Rescan(n) = Actor
    BY <2>1 DEF Conserving
  <2>2. CASE Rescan(n) # Actor
    BY <2>2, <1>2, <1>4 DEF Conserving, IInv, WorkConserving, Busy
  <2> QED BY <2>1, <2>2
<1>6. /\ liveQueue' \in [Actor -> Seq(Instance)] /\ current' \in [Actor -> Instance \cup {None}]
      /\ session' \in [Actor -> SessionState] /\ activeAsks' \in Nat
      /\ Apart(liveQueue', current') /\ SameHolds(liveQueue, current, liveQueue', current')
      /\ activeAsks' = Cardinality(BusyIn(current'))
      /\ Conserving(Actor, liveQueue', current', activeAsks', n)
  BY <1>1, <1>2, <1>3, <1>4, <1>5, PumpFacts
<1>7. Types'
  <2>1. DispatchType'
    BY <1>1, <1>2, <1>6 DEF Types, DispatchType
  <2>2. JournalType' /\ AdmissionType' /\ GateType' /\ PipeType'
    BY <1>1, <1>2 DEF Types, JournalType, AdmissionType, GateType, PipeType, script, admission, gate
  <2> QED BY <2>1, <2>2 DEF Types
<1>8. WorkConserving'
  BY <1>1, <1>6 DEF WorkConserving, Busy, BusyIn, Conserving
<1>9. Places'
  <2>1. \A a \in Actor : Holds(a)' = Holds(a) /\ Recorded(a)' = Recorded(a)
    BY <1>1, <1>6 DEF Holds, Has, SameHolds, Recorded, admission
  <2>2. asked' = asked /\ nodes' = nodes /\ pendingRecorded' = pendingRecorded
        /\ pendingLive' = pendingLive /\ liveNodes' = liveNodes
    BY <1>1 DEF admission
  <2>3. RecordedPlaces'
    <3>1. RecordedPlaces
      BY <1>2 DEF Places
    <3>2. \A a \in Actor : \A m \in DOMAIN pendingRecorded'[a] :
              /\ pendingRecorded'[a][m] \in DOMAIN asked' /\ pendingRecorded'[a][m] \in DOMAIN nodes'
              /\ nodes'[pendingRecorded'[a][m]].seq = m /\ ActorOf(asked'[pendingRecorded'[a][m]]) = a
      BY <3>1, <2>2 DEF RecordedPlaces
    <3> QED BY <3>2, Zenon DEF RecordedPlaces, ActorOf
  <2>6. FreshPlaces'
    BY <2>2, <1>2 DEF Places, FreshPlaces, ActorOf
  <2>4. LivePlaces'
    BY <2>1, <2>2, <1>2, <1>6 DEF Places, LivePlaces, ActorOf, Apart
  <2>5. (Range(liveNodes) = UNION {Holds(a) : a \in Actor})'
    BY <2>1, <2>2, <1>2 DEF Places
  <2> QED BY <2>3, <2>4, <2>5, <2>6 DEF Places
<1>10. UpAndDown'
  BY <1>1 DEF IInv, UpAndDown
<1>11. LogStep /\ AbandonStep /\ ContractStep
  BY <1>1, SameLog, KeepsAnswers DEF AbandonStep, ContractStep
<1> QED BY <1>7, <1>8, <1>9, <1>10, <1>11 DEF IInv, Steps

(* The ask of an actor ends: its row, its event, its answer, and the next dispatch. *)
LEMMA SettleNodeStep ==
  ASSUME IInv, up, NEW a \in Actor, current[a] # None, NEW st \in Terminal,
         NEW sess \in [Actor -> SessionState], SettleNode(a, st, sess)
  PROVE  IInv' /\ Steps
<1> DEFINE inst == current[a]
           outcome == IF st = "completed" THEN "ok" ELSE "failed"
           cur == [current EXCEPT ![a] = None]
<1>1. /\ nodes' = [nodes EXCEPT ![inst].status = st]
      /\ events' = Append(events, Settled(inst, outcome))
      /\ liveNodes' = Keep(liveNodes, Range(liveNodes) \ {inst})
      /\ dispatched' = dispatched \ {inst}
      /\ Pump(Actor, liveQueue, cur, activeAsks - 1, sess, cap)
      /\ toChild' = Append(toChild, Reply(asked[inst], outcome))
      /\ UNCHANGED <<status, cap, pc, toHost, admission, gate, up>>
  BY DEF SettleNode, FreeLiveNode, Undispatched, SlotsAfter
<1>2. /\ inst \in Instance /\ inst \in DOMAIN nodes /\ nodes[inst].status = "running"
      /\ inst \in DOMAIN asked /\ ActorOf(asked[inst]) = a /\ asked[inst] \in Asks
      /\ nodes \in [DOMAIN nodes -> RowType]
  BY CurrentRow
<1>3. /\ Types /\ Places /\ liveQueue \in [Actor -> Seq(Instance)]
      /\ current \in [Actor -> Instance \cup {None}] /\ liveNodes \in Seq(Instance)
      /\ activeAsks \in Nat /\ cap \in Nat /\ status = "running"
  BY CapsAssumption DEF IInv, Types, DispatchType, JournalType, UpAndDown
<1>4. outcome \in {"ok", "failed"} /\ None \notin Instance
  BY NoneAssumption DEF Instance
<1> HIDE DEF outcome
<1>5. cur \in [Actor -> Instance \cup {None}] /\ cur[a] = None /\ \A b \in Actor : b # a => cur[b] = current[b]
  BY <1>3
<1> HIDE DEF cur
<1>6. Apart(liveQueue, cur)
  <2> SUFFICES ASSUME NEW b \in Actor PROVE IsInjective(liveQueue[b]) /\ cur[b] \notin Range(liveQueue[b])
    BY DEF Apart
  <2>1. IsInjective(liveQueue[b]) /\ current[b] \notin Range(liveQueue[b]) /\ Range(liveQueue[b]) \subseteq Instance
    BY <1>3, SeqRange DEF Places, LivePlaces
  <2> QED BY <2>1, <1>4, <1>5
<1>7. BusyIn(cur) = Busy \ {a} /\ a \in Busy /\ Busy \in SUBSET Actor
  BY <1>5 DEF BusyIn, Busy
<1>8. activeAsks - 1 \in Nat /\ activeAsks - 1 = Cardinality(BusyIn(cur))
  <2>1. IsFiniteSet(Busy)
    BY <1>7, ActorAssumption, FS_Subset
  <2>2. Cardinality(Busy \ {a}) = Cardinality(Busy) - 1 /\ IsFiniteSet(Busy \ {a})
    BY <2>1, <1>7, FS_RemoveElement
  <2>3. Cardinality(Busy \ {a}) \in Nat
    BY <2>2, FS_CardinalityType
  <2>4. activeAsks = Cardinality(Busy)
    BY DEF IInv, WorkConserving
  <2> QED BY <2>2, <2>3, <2>4, <1>7
<1>9. Conserving(Actor \ Actor, liveQueue, cur, activeAsks - 1, cap) /\ Actor \in SUBSET Actor
  BY DEF Conserving
<1>10. /\ liveQueue' \in [Actor -> Seq(Instance)] /\ current' \in [Actor -> Instance \cup {None}]
       /\ session' \in [Actor -> SessionState] /\ activeAsks' \in Nat
       /\ Apart(liveQueue', current') /\ SameHolds(liveQueue, cur, liveQueue', current')
       /\ activeAsks' = Cardinality(BusyIn(current'))
       /\ Conserving(Actor, liveQueue', current', activeAsks', cap)
  BY <1>1, <1>3, <1>5, <1>6, <1>8, <1>9, PumpFacts
<1>11. WorkConserving'
  BY <1>1, <1>10 DEF WorkConserving, Busy, BusyIn, Conserving
<1>12. liveNodes' \in Seq(Instance) /\ Range(liveNodes') = Range(liveNodes) \ {inst}
  <2>1. /\ Keep(liveNodes, Range(liveNodes) \ {inst}) \in Seq(Instance)
        /\ Range(Keep(liveNodes, Range(liveNodes) \ {inst})) = Range(liveNodes) \cap (Range(liveNodes) \ {inst})
    BY <1>3, KeepRange
  <2> QED BY <2>1, <1>1
<1>13. /\ nodes' \in [DOMAIN nodes' -> RowType] /\ DOMAIN nodes' = DOMAIN nodes
       /\ \A i \in DOMAIN nodes : i # inst => nodes'[i] = nodes[i]
       /\ nodes'[inst].seq = nodes[inst].seq
  BY <1>1, <1>2 DEF RowType
<1>14. Holds(a)' = Holds(a) \ {inst} /\ \A b \in Actor : b # a => Holds(b)' = Holds(b)
  <2>1. inst \notin Range(liveQueue[a])
    BY <1>3 DEF Places, LivePlaces
  <2>2. Has(liveQueue, cur, a) = Holds(a) \ {inst}
    BY <2>1, <1>5 DEF Has, Holds
  <2>3. \A b \in Actor : b # a => Has(liveQueue, cur, b) = Holds(b)
    BY <1>5 DEF Has, Holds
  <2>4. \A b \in Actor : Holds(b)' = Has(liveQueue, cur, b)
    BY <1>10 DEF SameHolds, Holds, Has
  <2> QED BY <2>2, <2>3, <2>4
<1>15. \A b \in Actor : b # a => inst \notin Holds(b)
  BY <1>2, <1>3 DEF Places, LivePlaces
<1>16. inst \in Holds(a)
  BY DEF Holds, Has
<1>a. asked' = asked /\ pendingRecorded' = pendingRecorded /\ pendingLive' = pendingLive
  BY <1>1 DEF admission
<1>17. /\ asked' = asked /\ pendingRecorded' = pendingRecorded /\ pendingLive' = pendingLive
       /\ \A b \in Actor : Recorded(b)' = Recorded(b)
  BY <1>a DEF Recorded
<1> HIDE DEF inst
<1>18. RecordedPlaces' /\ FreshPlaces'
  <2>1. RecordedPlaces'
    <3> SUFFICES ASSUME NEW b \in Actor, NEW n \in DOMAIN pendingRecorded[b]
                 PROVE  /\ pendingRecorded[b][n] \in DOMAIN asked /\ pendingRecorded[b][n] \in DOMAIN nodes'
                        /\ nodes'[pendingRecorded[b][n]].seq = n
                        /\ ActorOf(asked[pendingRecorded[b][n]]) = b
      <4>1. \A b \in Actor : \A n \in DOMAIN pendingRecorded'[b] :
              /\ pendingRecorded'[b][n] \in DOMAIN asked' /\ pendingRecorded'[b][n] \in DOMAIN nodes'
              /\ nodes'[pendingRecorded'[b][n]].seq = n /\ ActorOf(asked'[pendingRecorded'[b][n]]) = b
        BY <1>a
      <4> QED BY <4>1, Zenon DEF RecordedPlaces, ActorOf
    <3>1. /\ pendingRecorded[b][n] \in DOMAIN asked /\ pendingRecorded[b][n] \in DOMAIN nodes
          /\ nodes[pendingRecorded[b][n]].seq = n /\ ActorOf(asked[pendingRecorded[b][n]]) = b
      BY <1>3 DEF Places, RecordedPlaces
    <3>2. CASE pendingRecorded[b][n] = inst
      BY <3>1, <3>2, <1>13
    <3>3. CASE pendingRecorded[b][n] # inst
      BY <3>1, <3>3, <1>13
    <3> QED BY <3>2, <3>3
  <2>2. FreshPlaces'
    BY <1>3, <1>13, <1>17 DEF Places, FreshPlaces, ActorOf
  <2> QED BY <2>1, <2>2
<1>19. LivePlaces'
  <2> SUFFICES ASSUME NEW b \in Actor
               PROVE  /\ \A i \in Holds(b)' : /\ i \in DOMAIN asked /\ ActorOf(asked[i]) = b
                                              /\ i \in DOMAIN nodes' /\ nodes'[i].status = "running"
                      /\ IsInjective(liveQueue'[b]) /\ current'[b] \notin Range(liveQueue'[b])
                      /\ Holds(b)' \cap Recorded(b) = {}
    BY <1>17 DEF LivePlaces, ActorOf
  <2>1. \A i \in Holds(b)' : i \in Holds(b) /\ i # inst
    BY <1>14, <1>15
  <2>2. /\ \A i \in Holds(b) : /\ i \in DOMAIN asked /\ ActorOf(asked[i]) = b
                               /\ i \in DOMAIN nodes /\ nodes[i].status = "running"
        /\ Holds(b) \cap Recorded(b) = {}
    BY <1>3 DEF Places, LivePlaces
  <2>3. IsInjective(liveQueue'[b]) /\ current'[b] \notin Range(liveQueue'[b])
    BY <1>10 DEF Apart
  <2>4. \A i \in Holds(b)' : /\ i \in DOMAIN asked /\ ActorOf(asked[i]) = b
                             /\ i \in DOMAIN nodes' /\ nodes'[i].status = "running"
    BY <2>1, <2>2, <1>13
  <2> QED BY <2>1, <2>2, <2>3, <2>4
<1>20. (Range(liveNodes) = UNION {Holds(b) : b \in Actor})'
  <2>1. Range(liveNodes) = UNION {Holds(b) : b \in Actor}
    BY <1>3 DEF Places
  <2>2. ASSUME NEW i, i \in Range(liveNodes') PROVE \E b \in Actor : i \in Holds(b)'
    <3>1. i # inst /\ \E b \in Actor : i \in Holds(b)
      BY <2>1, <2>2, <1>12
    <3>2. PICK b \in Actor : i \in Holds(b)
      BY <3>1
    <3>3. i \in Holds(b)'
      <4>1. CASE b = a
        BY <4>1, <3>1, <3>2, <1>14
      <4>2. CASE b # a
        BY <4>2, <3>2, <1>14
      <4> QED BY <4>1, <4>2
    <3> QED BY <3>3
  <2>3. ASSUME NEW b \in Actor, NEW i, i \in Holds(b)' PROVE i \in Range(liveNodes')
    <3>1. i \in Holds(b) /\ i # inst
      BY <2>3, <1>14, <1>15
    <3> QED BY <3>1, <2>1, <1>12
  <2>4. Range(liveNodes') = UNION {Holds(b)' : b \in Actor}
    BY <2>2, <2>3
  <2> QED BY <2>4
<1>21. /\ Settlements(<<Settled(inst, outcome)>>) /\ events' = events \o <<Settled(inst, outcome)>>
       /\ events \in Seq(EventType) /\ <<Settled(inst, outcome)>> \in Seq(EventType)
  <2>1. Settled(inst, outcome) \in EventType /\ Settled(inst, outcome).type = "node-settled"
    BY <1>2, <1>4, SettledType
  <2>2. events \in Seq(EventType)
    BY <1>3 DEF Types, JournalType
  <2>3. <<Settled(inst, outcome)>> \in Seq(EventType)
        /\ \A k \in DOMAIN <<Settled(inst, outcome)>> : <<Settled(inst, outcome)>>[k].type = "node-settled"
    BY <2>1
  <2>4. events' = events \o <<Settled(inst, outcome)>>
    BY <2>1, <2>2, <1>1, AppendIsConcat
  <2> QED BY <2>2, <2>3, <2>4 DEF Settlements
<1>22. /\ events' \in Seq(EventType) /\ LogStep
       /\ events' # <<>> /\ events'[Len(events')].type # "run-settled"
  BY <1>21, LogOfARun DEF IInv
<1>23. UpAndDown'
  BY <1>1, <1>3, <1>22 DEF UpAndDown
<1>24. Types'
  <2>1. JournalType'
    BY <1>1, <1>3, <1>13, <1>22 DEF Types, JournalType
  <2>2. DispatchType'
    BY <1>1, <1>3, <1>10, <1>12 DEF Types, DispatchType
  <2>3. Reply(asked[inst], outcome) \in ReplyType
    BY <1>2, <1>4 DEF ReplyType
  <2>4. PipeType'
    BY <2>3, <1>1, <1>3, AppendProperties DEF Types, PipeType
  <2>5. AdmissionType' /\ GateType'
    BY <1>1, <1>3 DEF Types, AdmissionType, GateType, admission, gate
  <2> QED BY <2>1, <2>2, <2>4, <2>5 DEF Types
<1>25. AbandonStep
  <2> SUFFICES ASSUME NEW i \in Range(liveNodes), i \notin Range(liveNodes')
               PROVE  \E n \in DOMAIN events' \ DOMAIN events :
                         events'[n].type = "node-settled" /\ events'[n].inst = i
    BY DEF AbandonStep
  <2>1. i = inst
    BY <1>12
  <2>2. /\ Len(events) \in Nat /\ DOMAIN events = 1..Len(events)
        /\ Len(events') = Len(events) + 1 /\ DOMAIN events' = 1..Len(events')
        /\ events'[Len(events) + 1] = Settled(inst, outcome)
    <3>1. Settled(inst, outcome) \in EventType
      BY <1>2, <1>4, SettledType
    <3> QED BY <3>1, <1>1, <1>21, <1>22, AppendProperties, LenProperties
  <2>3. Settled(inst, outcome).type = "node-settled" /\ Settled(inst, outcome).inst = inst
    BY DEF Settled
  <2> QED BY <2>1, <2>2, <2>3
<1>26. ContractStep
  BY <1>1, <1>2, <1>3, OneAnswer
<1> QED BY <1>11, <1>18, <1>19, <1>20, <1>22, <1>23, <1>24, <1>25, <1>26 DEF IInv, Places, Steps

LEMMA AskReportedStep ==
  ASSUME IInv, NEW a \in Actor, NEW st \in Terminal, AskReported(a, st)
  PROVE  IInv' /\ Steps
<1>1. session \in [Actor -> SessionState]
  BY DEF IInv, Types, DispatchType
<1> QED BY <1>1, SettleNodeStep DEF AskReported

LEMMA DispatchFailsStep ==
  ASSUME IInv, NEW a \in Actor, DispatchFails(a)
  PROVE  IInv' /\ Steps
<1>1. [session EXCEPT ![a] = "rejected"] \in [Actor -> SessionState]
  BY DEF IInv, Types, DispatchType, SessionState
<1>2. "failed" \in Terminal
  BY DEF Terminal
<1> QED BY <1>1, <1>2, SettleNodeStep DEF DispatchFails

(* Call inst of actor a, with the row it had if it had one, joins the asks that wait. *)
Claims(inst, a, rec, fresh, calls) ==
    /\ inst \in Instance /\ inst \notin DOMAIN asked /\ inst[2] = ordinals[inst[1]] + 1
    /\ DOMAIN calls = DOMAIN asked \cup {inst}
    /\ SiteOf(calls[inst]) = inst[1] /\ ActorOf(calls[inst]) = a
    /\ inst \in DOMAIN nodes => nodes[inst].hash = TextOf(calls[inst])
    /\ calls[inst] = <<Head(toHost).branch, Head(toHost).step>>
    /\ \A n \in DOMAIN rec :
          \/ n \in DOMAIN pendingRecorded[a] /\ rec[n] = pendingRecorded[a][n]
          \/ inst \in DOMAIN nodes /\ n = nodes[inst].seq /\ rec[n] = inst
    /\ Range(fresh) \subseteq Range(pendingLive[a]) \cup {inst}
    /\ Admissible(a, rec, fresh, calls)

(***************************************************************************)
(* An ask line reaches the engine.  Its ordinal is new, so the ask is in   *)
(* none of the places yet.                                                 *)
(***************************************************************************)
LEMMA AdmitAskDrains ==
  ASSUME IInv, AdmitAsk
  PROVE  \/ /\ SettleRun("errored", FALSE)
         \/ /\ \E a \in Actor, S \in SUBSET Actor : \E inst, rec, fresh, calls :
                   /\ a \in S /\ Claims(inst, a, rec, fresh, calls) /\ Drain(a, rec, fresh, calls, S)
                   /\ asked' = calls /\ ordinals' = [ordinals EXCEPT ![inst[1]] = @ + 1]
            /\ toHost' = Tail(toHost)
            /\ UNCHANGED <<status, cap, pc, dispatched, order, up, lives, failure, disturbed, recordedCount>>
<1> DEFINE line == Head(toHost)
           s == Script[line.branch][line.step]
           inst == <<s.site, ordinals[s.site] + 1>>
           a == s.actor
           calls == [i \in DOMAIN asked \cup {inst} |->
                       IF i = inst THEN <<line.branch, line.step>> ELSE asked[i]]
           recorded == [q \in DOMAIN pendingRecorded[a] \cup {nodes[inst].seq} |->
                          IF q = nodes[inst].seq THEN inst ELSE pendingRecorded[a][q]]
           Admission ==
             /\ inst \in DOMAIN nodes => nodes[inst].hash = s.text
             /\ toHost' = Tail(toHost)
             /\ ordinals' = [ordinals EXCEPT ![s.site] = @ + 1]
             /\ asked' = calls
             /\ IF inst \in DOMAIN nodes THEN Drain(a, recorded, pendingLive[a], calls, {a})
                ELSE Drain(a, pendingRecorded[a], Append(pendingLive[a], inst), calls, Actor)
             /\ UNCHANGED <<status, cap, pc, dispatched, order, up, lives, failure, disturbed, recordedCount>>
<1>1. up /\ toHost # <<>> /\ line.kind = "ask"
  BY DEF AdmitAsk
<1>2. \/ SettleRun("errored", FALSE)
      \/ Admission
  BY DEF AdmitAsk
<1>3. CASE SettleRun("errored", FALSE)
  BY <1>3
<1>4. CASE Admission
  <2>1. Types /\ Places /\ toHost \in Seq(LineType)
    BY DEF IInv, Types, PipeType
  <2>2. line \in LineType /\ Tail(toHost) \in Seq(LineType)
    BY <1>1, <2>1, HeadTailProperties
  <2>3. PICK x \in Asks : line.branch = x[1] /\ line.step = x[2] /\ x = <<x[1], x[2]>>
    <3>1. PICK x \in Asks : line = AskLine(x[1], x[2])
      BY <1>1, <2>2 DEF LineType
    <3>2. x = <<x[1], x[2]>>
      BY DEF Asks
    <3> QED BY <3>1, <3>2 DEF AskLine
  <2>4. s = Script[x[1]][x[2]] /\ <<line.branch, line.step>> = x
    BY <2>3
  <2>5. /\ s.site \in Site /\ s.actor \in Actor
        /\ ActorOf(x) = s.actor /\ SiteOf(x) = s.site /\ TextOf(x) = s.text
    BY <2>4, ScriptAssumption DEF Asks, ActorOf, SiteOf, TextOf
  <2> HIDE DEF line, s
  <2>6. ordinals \in [Site -> Nat] /\ DOMAIN asked = {i \in Instance : i[2] <= ordinals[i[1]]}
        /\ asked \in [DOMAIN asked -> Asks]
    BY <2>1 DEF Types, AdmissionType
  <2>7. inst \in Instance /\ inst \notin DOMAIN asked /\ inst[1] = s.site /\ inst[2] = ordinals[s.site] + 1
    <3>1. ordinals[s.site] \in Nat
      BY <2>5, <2>6
    <3>2. inst \in Instance
      BY <2>5, <3>1 DEF Instance
    <3> QED BY <2>6, <3>1, <3>2
  <2>8. /\ DOMAIN calls = DOMAIN asked \cup {inst} /\ calls[inst] = x
        /\ \A i \in DOMAIN asked : calls[i] = asked[i]
        /\ calls \in [DOMAIN calls -> Asks] /\ DOMAIN calls \subseteq Instance
    BY <2>3, <2>4, <2>6, <2>7
  <2>9. a \in Actor /\ ActorOf(calls[inst]) = a
    BY <2>5, <2>8
  <2>10. inst \notin Holds(a)
    BY <2>1, <2>7, <2>9 DEF Places, LivePlaces
  <2>11. /\ DOMAIN pendingRecorded[a] \in SUBSET Nat /\ IsFiniteSet(DOMAIN pendingRecorded[a])
         /\ pendingLive[a] \in Seq(Instance)
    BY <2>1, <2>9 DEF Types, AdmissionType
  <2>12. \A n \in DOMAIN pendingRecorded[a] :
            /\ pendingRecorded[a][n] \in DOMAIN asked /\ pendingRecorded[a][n] \in DOMAIN nodes
            /\ nodes[pendingRecorded[a][n]].seq = n /\ ActorOf(asked[pendingRecorded[a][n]]) = a
            /\ pendingRecorded[a][n] \notin Holds(a)
    BY <2>1, <2>9 DEF Places, RecordedPlaces, LivePlaces, Recorded
  <2>13. /\ IsInjective(pendingLive[a])
         /\ \A i \in Range(pendingLive[a]) : i \in DOMAIN asked /\ i \notin DOMAIN nodes /\ ActorOf(asked[i]) = a
    BY <2>1, <2>9 DEF Places, FreshPlaces
  <2>14. PICK rec, fresh, S : /\ S \in SUBSET Actor /\ a \in S /\ Admissible(a, rec, fresh, calls)
                              /\ Drain(a, rec, fresh, calls, S)
                              /\ \A n \in DOMAIN rec :
                                    \/ n \in DOMAIN pendingRecorded[a] /\ rec[n] = pendingRecorded[a][n]
                                    \/ inst \in DOMAIN nodes /\ n = nodes[inst].seq /\ rec[n] = inst
                              /\ Range(fresh) \subseteq Range(pendingLive[a]) \cup {inst}
    <3> HIDE DEF inst, a, calls
    <3>1. CASE inst \in DOMAIN nodes
      <4>1. Drain(a, recorded, pendingLive[a], calls, {a})
        BY <1>4, <3>1
      <4>2. nodes[inst].seq \in Nat
        BY <3>1, <2>1 DEF Types, JournalType, RowType
      <4>3. DOMAIN recorded \in SUBSET Nat /\ IsFiniteSet(DOMAIN recorded)
        BY <2>11, <4>2, FS_AddElement
      <4>4. ASSUME NEW n \in DOMAIN recorded
            PROVE  /\ recorded[n] \in DOMAIN calls /\ recorded[n] \in DOMAIN nodes /\ recorded[n] \notin Holds(a)
                   /\ nodes[recorded[n]].seq = n /\ ActorOf(calls[recorded[n]]) = a
        <5>1. CASE n = nodes[inst].seq
          BY <5>1, <3>1, <2>8, <2>9, <2>10
        <5>2. CASE n # nodes[inst].seq
          <6>1. n \in DOMAIN pendingRecorded[a] /\ recorded[n] = pendingRecorded[a][n]
            BY <5>2
          <6> QED BY <6>1, <2>8, <2>12
        <5> QED BY <5>1, <5>2
      <4>a. \A n \in DOMAIN recorded :
               \/ n \in DOMAIN pendingRecorded[a] /\ recorded[n] = pendingRecorded[a][n]
               \/ n = nodes[inst].seq /\ recorded[n] = inst
        OBVIOUS
      <4> HIDE DEF recorded
      <4>5. \A i \in Range(pendingLive[a]) : i \in DOMAIN calls /\ i \notin DOMAIN nodes /\ ActorOf(calls[i]) = a
        BY <2>8, <2>13
      <4>6. Admissible(a, recorded, pendingLive[a], calls)
        BY <2>8, <2>11, <2>13, <4>3, <4>4, <4>5 DEF Admissible
      <4>7. {a} \in SUBSET Actor /\ a \in {a}
        BY <2>9
      <4> QED BY <3>1, <4>1, <4>a, <4>6, <4>7
    <3>2. CASE inst \notin DOMAIN nodes
      <4> DEFINE fresh == Append(pendingLive[a], inst)
      <4>1. Drain(a, pendingRecorded[a], fresh, calls, Actor)
        BY <1>4, <3>2
      <4>2. fresh = pendingLive[a] \o <<inst>> /\ <<inst>> \in Seq(Instance)
        BY <2>7, <2>11, AppendIsConcat
      <4>3. Range(<<inst>>) = {inst} /\ IsInjective(<<inst>>)
        BY DEF Range, IsInjective
      <4>4. inst \notin Range(pendingLive[a])
        BY <2>7, <2>13 DEF inst
      <4>5. fresh \in Seq(Instance) /\ Range(fresh) = Range(pendingLive[a]) \cup {inst} /\ IsInjective(fresh)
        <5>1. Range(pendingLive[a]) \cap Range(<<inst>>) = {}
          BY <4>3, <4>4
        <5> DEFINE one == <<inst>>
        <5>2. one \in Seq(Instance) /\ IsInjective(one) /\ Range(pendingLive[a]) \cap Range(one) = {}
              /\ Range(one) = {inst}
          BY <5>1, <4>2, <4>3
        <5> HIDE DEF one
        <5>3. /\ pendingLive[a] \o one \in Seq(Instance)
              /\ Range(pendingLive[a] \o one) = Range(pendingLive[a]) \cup Range(one)
              /\ IsInjective(pendingLive[a] \o one)
          BY <5>2, <2>11, <2>13, ConcatRange
        <5>4. fresh = pendingLive[a] \o one
          BY <4>2 DEF one
        <5> HIDE DEF fresh
        <5> QED BY <5>2, <5>3, <5>4
      <4> HIDE DEF fresh
      <4>6. \A i \in Range(fresh) : i \in DOMAIN calls /\ i \notin DOMAIN nodes /\ ActorOf(calls[i]) = a
        BY <2>8, <2>9, <2>13, <3>2, <4>5
      <4>7. Admissible(a, pendingRecorded[a], fresh, calls)
        BY <2>8, <2>11, <2>12, <4>5, <4>6 DEF Admissible
      <4> QED BY <4>1, <4>5, <4>7, <2>9
    <3> QED BY <3>1, <3>2
  <2>15. Claims(inst, a, rec, fresh, calls)
    <3>1. inst \in DOMAIN nodes => nodes[inst].hash = TextOf(calls[inst])
      BY <1>4, <2>5, <2>8
    <3>2. SiteOf(calls[inst]) = inst[1] /\ ActorOf(calls[inst]) = a /\ inst[2] = ordinals[inst[1]] + 1
      BY <2>5, <2>7, <2>8, <2>9
    <3>a. calls[inst] = <<Head(toHost).branch, Head(toHost).step>>
      BY <2>4, <2>8 DEF line
    <3> HIDE DEF inst, a, calls
    <3>3. inst \in Instance /\ inst \notin DOMAIN asked /\ DOMAIN calls = DOMAIN asked \cup {inst}
      BY <2>7, <2>8
    <3>4. /\ \A n \in DOMAIN rec :
                \/ n \in DOMAIN pendingRecorded[a] /\ rec[n] = pendingRecorded[a][n]
                \/ inst \in DOMAIN nodes /\ n = nodes[inst].seq /\ rec[n] = inst
          /\ Range(fresh) \subseteq Range(pendingLive[a]) \cup {inst}
      BY <2>14
    <3>5. Admissible(a, rec, fresh, calls)
      BY <2>14
    <3> QED BY <3>1, <3>2, <3>a, <3>3, <3>4, <3>5, Zenon DEF Claims
  <2>16. asked' = calls /\ ordinals' = [ordinals EXCEPT ![inst[1]] = @ + 1]
    BY <1>4, <2>7
  <2>17. /\ toHost' = Tail(toHost)
         /\ UNCHANGED <<status, cap, pc, dispatched, order, up, lives, failure, disturbed, recordedCount>>
    BY <1>4
  <2> HIDE DEF inst, a, calls, Admission
  <2> QED BY <2>9, <2>14, <2>15, <2>16, <2>17
<1> QED BY <1>2, <1>3, <1>4

LEMMA AdmitAskStep ==
  ASSUME IInv, AdmitAsk
  PROVE  IInv' /\ Steps
<1>1. up /\ toHost # <<>>
  BY DEF AdmitAsk
<1>2. CASE SettleRun("errored", FALSE)
  BY <1>1, <1>2, SettleRunStep
<1>3. CASE ~SettleRun("errored", FALSE)
  <2>1. Types /\ Places /\ toHost \in Seq(LineType)
    BY DEF IInv, Types, PipeType
  <2>2. Tail(toHost) \in Seq(LineType)
    BY <1>1, <2>1, HeadTailProperties
  <2>3. PICK a \in Actor, S \in SUBSET Actor : \E inst, rec, fresh, calls :
           /\ a \in S /\ Claims(inst, a, rec, fresh, calls) /\ Drain(a, rec, fresh, calls, S)
           /\ asked' = calls /\ ordinals' = [ordinals EXCEPT ![inst[1]] = @ + 1]
    BY <1>3, AdmitAskDrains
  <2>4. PICK inst, rec, fresh, calls :
           /\ a \in S /\ Claims(inst, a, rec, fresh, calls) /\ Drain(a, rec, fresh, calls, S)
           /\ asked' = calls /\ ordinals' = [ordinals EXCEPT ![inst[1]] = @ + 1]
    BY <2>3
  <2>6. ordinals \in [Site -> Nat] /\ DOMAIN asked = {i \in Instance : i[2] <= ordinals[i[1]]}
    BY <2>1 DEF Types, AdmissionType
  <2>7. inst \in Instance /\ inst[1] \in Site /\ inst[2] = ordinals[inst[1]] + 1 /\ inst = <<inst[1], inst[2]>>
    BY <2>4 DEF Claims, Instance
  <2>8. /\ DOMAIN calls = DOMAIN asked \cup {inst} /\ calls \in [DOMAIN calls -> Asks]
        /\ Admissible(a, rec, fresh, calls)
    BY <2>4 DEF Claims, Admissible
  <2>15. /\ toHost' = Tail(toHost) /\ ordinals' = [ordinals EXCEPT ![inst[1]] = @ + 1] /\ asked' = calls
         /\ status' = status /\ cap' = cap /\ dispatched' = dispatched /\ order' = order /\ up' = up
    BY <1>3, <2>4, AdmitAskDrains
  <2>16. /\ nodes' \in [DOMAIN nodes' -> RowType] /\ DOMAIN nodes' \subseteq Instance
         /\ DOMAIN nodes' = DOMAIN nodes \cup Range(Admitted(a, rec, fresh))
         /\ \A i \in DOMAIN nodes : SameAsk(nodes'[i], nodes[i])
         /\ \A i \in Range(Admitted(a, rec, fresh)) : nodes'[i].status = "running"
         /\ \E X : Settlements(X) /\ events' = events \o X
         /\ toChild' \in Seq(ReplyType)
         /\ parked' \subseteq DOMAIN calls /\ cursor' \in 1..(Len(order) + 1)
    BY <2>1, <2>4, <2>8, DrainJournal
  <2>17. /\ liveQueue' \in [Actor -> Seq(Instance)] /\ current' \in [Actor -> Instance \cup {None}]
         /\ session' \in [Actor -> SessionState] /\ activeAsks' \in Nat
         /\ cap' = cap => WorkConserving'
    BY <2>4, <2>8, DrainQueues
  <2>18. /\ nextAdmitSeq' \in [Actor -> Nat] /\ pendingLive' \in [Actor -> Seq(Instance)]
         /\ DOMAIN pendingRecorded' = Actor
         /\ \A b \in Actor : DOMAIN pendingRecorded'[b] \in SUBSET Nat /\ IsFiniteSet(DOMAIN pendingRecorded'[b])
         /\ liveNodes' \in Seq(Instance)
         /\ Range(liveNodes') = Range(liveNodes) \cup Range(Live(a, rec, fresh))
    BY <2>4, <2>8, DrainAdmission
  <2>19. Places'
    BY <2>4, <2>8, <2>15, DrainPlaces
  <2>20. PICK X : Settlements(X) /\ events' = events \o X
    BY <2>16
  <2>21. /\ events' \in Seq(EventType) /\ LogStep
         /\ events' # <<>> /\ events'[Len(events')].type # "run-settled"
    BY <2>20, <2>1, <1>1, LogOfARun DEF IInv, Types, JournalType
  <2>22. UpAndDown'
    BY <1>1, <2>15, <2>21 DEF IInv, UpAndDown
  <2>23. AdmissionType'
    <3>1. ordinals' \in [Site -> Nat] /\ ordinals'[inst[1]] = ordinals[inst[1]] + 1
          /\ \A t \in Site : t # inst[1] => ordinals'[t] = ordinals[t]
      BY <2>6, <2>7, <2>15
    <3>2. DOMAIN asked' = {i \in Instance : i[2] <= ordinals'[i[1]]}
      <4> SUFFICES ASSUME NEW i \in Instance
                   PROVE  i \in DOMAIN asked \/ i = inst <=> i[2] <= ordinals'[i[1]]
        BY <2>6, <2>7, <2>8, <2>15
      <4>1. i[1] \in Site /\ i[2] \in Nat /\ i = <<i[1], i[2]>>
        BY DEF Instance
      <4>2. i \in DOMAIN asked <=> i[2] <= ordinals[i[1]]
        BY <2>6
      <4>3. CASE i[1] # inst[1]
        BY <4>1, <4>2, <4>3, <3>1, <2>7
      <4>4. CASE i[1] = inst[1]
        <5>1. i = inst <=> i[2] = ordinals[inst[1]] + 1
          BY <4>1, <4>4, <2>7
        <5>2. ordinals[inst[1]] \in Nat
          BY <2>6, <2>7
        <5> QED BY <5>1, <5>2, <4>1, <4>2, <4>4, <3>1
      <4> QED BY <4>3, <4>4
    <3> QED BY <3>1, <3>2, <2>8, <2>15, <2>18 DEF AdmissionType
  <2>24. Types'
    <3>1. JournalType'
      BY <2>1, <2>15, <2>16, <2>21 DEF Types, JournalType
    <3>2. DispatchType'
      BY <2>1, <2>15, <2>17, <2>18 DEF Types, DispatchType
    <3>3. GateType'
      BY <2>1, <2>15, <2>16 DEF Types, GateType
    <3>4. PipeType'
      BY <2>1, <2>2, <2>15, <2>16 DEF Types, PipeType
    <3> QED BY <2>23, <3>1, <3>2, <3>3, <3>4 DEF Types
  <2>25. AbandonStep
    BY <2>18 DEF AbandonStep
  <2>26. ContractStep
    <3>1. Answers' = Answers
      BY <2>16, SameAnswers
    <3> QED BY <3>1, <2>15 DEF ContractStep
  <2> QED BY <2>15, <2>17, <2>19, <2>21, <2>22, <2>24, <2>25, <2>26 DEF IInv, Steps
<1> QED BY <1>2, <1>3

-----------------------------------------------------------------------------
(***************************************************************************)
(* Positions: the rows of an actor are numbered without gap, and its asks  *)
(* in hand are those up to nextAdmitSeq that have no answer, in order.     *)
(***************************************************************************)

(* Whose ask a row is, in this life and in the one that wrote it. *)
RowsOfScript ==
    \A i \in DOMAIN nodes : \E x \in Asks :
        SiteOf(x) = i[1] /\ TextOf(x) = nodes[i].hash /\ ActorOf(x) = nodes[i].actor
AskedRows ==
    \A i \in DOMAIN asked : /\ SiteOf(asked[i]) = i[1]
                            /\ i \in DOMAIN nodes => nodes[i].actor = ActorOf(asked[i])

(* The rows of a have the numbers below N, each once. *)
Fills(rows, a, N) ==
    /\ \A i \in DOMAIN rows : rows[i].actor = a => rows[i].seq < N
    /\ \A n \in 0..(N - 1) : \E i \in DOMAIN rows : rows[i].actor = a /\ rows[i].seq = n
    /\ \A i, j \in DOMAIN rows :
          rows[i].actor = a /\ rows[j].actor = a /\ rows[i].seq = rows[j].seq => i = j
Reach(a) == IF recordedCount[a] < nextAdmitSeq[a] THEN nextAdmitSeq[a] ELSE recordedCount[a]
Filled == \A a \in Actor : \E N \in Nat : Fills(nodes, a, N) /\ (up => N = Reach(a))

(* What earlier lives wrote is below recordedCount. *)
EarlierLives ==
    /\ recordedCount \in [Actor -> Nat]
    /\ \A a \in Actor : \A n \in DOMAIN pendingRecorded[a] : n < recordedCount[a]
    /\ up => \A i \in DOMAIN nodes : i \notin DOMAIN asked => nodes[i].seq < recordedCount[nodes[i].actor]

(* No ask without an answer is left behind, and the queues are in order. *)
Behind ==
    \A i \in DOMAIN nodes :
        nodes[i].status = "running" /\ nodes[i].seq < nextAdmitSeq[nodes[i].actor]
            => i \in Holds(nodes[i].actor)
Rising(rows, s) == \A m, n \in DOMAIN s : m < n => rows[s[m]].seq < rows[s[n]].seq
LinedUp(rows, queue, cur, a) ==
    /\ Rising(rows, queue[a])
    /\ cur[a] # None => \A i \in Range(queue[a]) : rows[cur[a]].seq < rows[i].seq
InOrder ==
    \A a \in Actor : /\ LinedUp(nodes, liveQueue, current, a)
                     /\ \A i \in Holds(a) : nodes[i].seq < nextAdmitSeq[a]
Sent == dispatched \subseteq {current[a] : a \in Actor}

Positions == RowsOfScript /\ AskedRows /\ Filled /\ EarlierLives /\ Behind /\ InOrder /\ Sent

(* Rows numbered without gap are as many as their numbers. *)
LEMMA FillsCount ==
  ASSUME NEW rows, NEW a, NEW N \in Nat, Fills(rows, a, N), \A i \in DOMAIN rows : rows[i].seq \in Nat
  PROVE  LET mine == {i \in DOMAIN rows : rows[i].actor = a}
         IN  Cardinality(mine) = N /\ {rows[i].seq : i \in mine} = 0..(N - 1)
<1> DEFINE mine == {i \in DOMAIN rows : rows[i].actor = a}
           f == [i \in mine |-> rows[i].seq]
<1>1. {rows[i].seq : i \in mine} = 0..(N - 1)
  BY DEF Fills
<1>2. f \in Bijection(mine, 0..(N - 1))
  BY DEF Fills, Bijection, Injection, Surjection, IsInjective
<1>3. IsFiniteSet(0..(N - 1)) /\ Cardinality(0..(N - 1)) = N
  BY FS_Interval
<1>4. ExistsBijection(mine, 0..(N - 1))
  BY <1>2 DEF ExistsBijection
<1>5. ExistsBijection(0..(N - 1), mine)
  BY <1>4, Fun_ExistsBijSymmetric
<1>6. Cardinality(mine) = N
  BY <1>3, <1>5, FS_Bijection
<1> QED BY <1>1, <1>6

(* Changing the status of rows moves nobody. *)
SameRows ==
    /\ DOMAIN nodes' = DOMAIN nodes
    /\ \A i \in DOMAIN nodes : /\ nodes'[i].actor = nodes[i].actor /\ nodes'[i].seq = nodes[i].seq
                               /\ nodes'[i].hash = nodes[i].hash

LEMMA SameRowsFill ==
  ASSUME SameRows, NEW a, NEW N
  PROVE  Fills(nodes', a, N) <=> Fills(nodes, a, N)
BY DEF SameRows, Fills

LEMMA RowsFacts ==
  ASSUME Types
  PROVE  \A i \in DOMAIN nodes : /\ nodes[i].seq \in Nat /\ nodes[i].actor \in Actor /\ i \in Instance
                                 /\ nodes[i].status \in Terminal \cup {"running"}
BY DEF Types, JournalType, RowType

(* The front of a queue goes first. *)
LEMMA PumpLinesUp ==
  ASSUME NEW S \in SUBSET Actor, NEW queue \in [Actor -> Seq(Instance)], NEW cur, NEW active, NEW sess,
         NEW limit, NEW rows, NEW a \in Actor, IsInjective(queue[a]),
         LinedUp(rows, queue, cur, a), Pump(S, queue, cur, active, sess, limit)
  PROVE  LinedUp(rows, liveQueue', current', a)
<1> DEFINE q == queue[a]
           f == [i \in Range(q) |-> rows[i].seq]
<1>1. \/ liveQueue'[a] = Remaining(q) /\ current'[a] = NextQueued(q) /\ q # <<>>
      \/ liveQueue'[a] = q /\ current'[a] = cur[a]
  BY DEF Pump
<1>2. CASE liveQueue'[a] = q /\ current'[a] = cur[a]
  BY <1>2 DEF LinedUp
<1>3. CASE liveQueue'[a] = Remaining(q) /\ current'[a] = NextQueued(q) /\ q # <<>>
  <2>1. q \in Seq(Instance) /\ DOMAIN q = 1..Len(q) /\ Len(q) \in Nat /\ Len(q) # 0
    BY <1>3, LenProperties, EmptySeq
  <2>2. NextQueued(q) = q[1] /\ 1 \in DOMAIN q
    BY <2>1, HeadTailProperties DEF NextQueued
  <2>3. Remaining(q) \in Seq(Instance) /\ Range(Remaining(q)) = Range(q) \ {q[1]}
    BY <1>3, <2>1, <2>2, ShiftFacts
  <2>4. \A m, n \in DOMAIN q : m < n => f[q[m]] < f[q[n]]
    BY DEF LinedUp, Rising, Range
  <2> HIDE DEF f
  <2>5. \A m, n \in DOMAIN Remaining(q) : m < n => f[Remaining(q)[m]] < f[Remaining(q)[n]]
    BY <2>1, <2>4, KeepSorted DEF Remaining
  <2>6. \A m \in DOMAIN Remaining(q) : Remaining(q)[m] \in Range(q)
    BY <2>3 DEF Range
  <2>7. Rising(rows, Remaining(q))
    BY <2>5, <2>6 DEF f, Rising
  <2>8. ASSUME NEW i \in Range(Remaining(q)) PROVE rows[q[1]].seq < rows[i].seq
    <3>1. PICK n \in DOMAIN q : q[n] = i /\ n # 1
      BY <2>3 DEF Range
    <3> QED BY <3>1, <2>1, <2>2 DEF LinedUp, Rising
  <2> QED BY <1>3, <2>2, <2>7, <2>8 DEF LinedUp
<1> QED BY <1>1, <1>2, <1>3

(* A life begins and ends with empty hands. *)
LEMMA ColdPositions ==
  ASSUME Types, Positions, SameRows, Cold, recordedCount' \in [Actor -> Nat],
         \A a \in Actor : \E N \in Nat : Fills(nodes, a, N) /\ (up' => N = recordedCount'[a])
  PROVE  Positions'
<1>0. \A i \in DOMAIN nodes : nodes[i].seq \in Nat /\ nodes[i].actor \in Actor
  BY RowsFacts
<1>1. /\ asked' = <<>> /\ dispatched' = {} /\ nextAdmitSeq' = [a \in Actor |-> 0]
      /\ pendingRecorded' = [a \in Actor |-> <<>>] /\ liveQueue' = [a \in Actor |-> <<>>]
      /\ current' = [a \in Actor |-> None]
  BY DEF Cold
<1>2. DOMAIN <<>> = {} /\ Range(<<>>) = {}
  BY DEF Range
<1>3. RowsOfScript'
  BY DEF Positions, RowsOfScript, SameRows, SiteOf, TextOf, ActorOf
<1>4. AskedRows' /\ Sent'
  BY <1>1, <1>2 DEF AskedRows, Sent
<1>5. \A a \in Actor : Reach(a)' = recordedCount'[a]
  BY <1>1 DEF Reach
<1>6. Filled'
  BY <1>5, SameRowsFill DEF Filled
<1>7. EarlierLives'
  <2>1. ASSUME up', NEW i \in DOMAIN nodes' PROVE nodes'[i].seq < recordedCount'[nodes'[i].actor]
    <3>1. Fills(nodes, nodes[i].actor, recordedCount'[nodes[i].actor])
      BY <1>0, <2>1 DEF SameRows
    <3> QED BY <3>1 DEF Fills, SameRows
  <2> QED BY <2>1, <1>1, <1>2 DEF EarlierLives
<1>8. Behind'
  <2>1. \A i \in DOMAIN nodes' : nodes'[i].seq \in Nat /\ nextAdmitSeq'[nodes'[i].actor] = 0
    BY <1>0, <1>1 DEF SameRows
  <2> QED BY <2>1 DEF Behind
<1>9. InOrder'
  <2>1. \A a \in Actor : liveQueue'[a] = <<>> /\ current'[a] = None
    BY <1>1
  <2>2. \A a \in Actor : Holds(a)' = {}
    BY <2>1, <1>2 DEF Holds, Has
  <2> QED BY <2>1, <2>2, <1>2 DEF InOrder, LinedUp, Rising
<1> QED BY <1>3, <1>4, <1>6, <1>7, <1>8, <1>9 DEF Positions

LEMMA DownPositions ==
  ASSUME Types, Positions, SameRows, Down
  PROVE  Positions'
<1>1. Cold /\ up' = FALSE /\ recordedCount' = [a \in Actor |-> 0]
  BY DEF Down
<1>2. \A a \in Actor : \E N \in Nat : Fills(nodes, a, N)
  BY DEF Positions, Filled
<1> QED BY <1>1, <1>2, ColdPositions

LEMMA ResumePositions ==
  ASSUME Types, Positions, Resume
  PROVE  Positions'
<1>1. /\ Cold /\ nodes' = nodes /\ recordedCount' = [a \in Actor |-> Cardinality(RecordedRows(a))]
  BY DEF Resume
<1>2. SameRows
  BY <1>1 DEF SameRows
<1>3. ASSUME NEW a \in Actor
      PROVE  recordedCount'[a] \in Nat /\ Fills(nodes, a, recordedCount'[a])
  <2>1. PICK N \in Nat : Fills(nodes, a, N)
    BY DEF Positions, Filled
  <2>2. Cardinality(RecordedRows(a)) = N
    BY <2>1, RowsFacts, FillsCount DEF RecordedRows
  <2> QED BY <2>1, <2>2, <1>1
<1>4. recordedCount' \in [Actor -> Nat]
  BY <1>1, <1>3
<1> QED BY <1>1, <1>2, <1>3, <1>4, ColdPositions

(* A step that admits nobody: it may dispatch and settle. *)
LEMMA KeepsPositions ==
  ASSUME IInv, Positions, SameRows, UNCHANGED <<up, asked, recordedCount, nextAdmitSeq, pendingRecorded>>,
         \A a \in Actor : LinedUp(nodes', liveQueue', current', a) /\ Holds(a)' \subseteq Holds(a),
         \A i \in DOMAIN nodes : nodes'[i].status = "running" =>
            nodes[i].status = "running" /\ (i \in Holds(nodes[i].actor) => i \in Holds(nodes[i].actor)'),
         Sent'
  PROVE  Positions'
<1>0. \A i \in DOMAIN nodes : nodes[i].seq \in Nat /\ nodes[i].actor \in Actor
  BY RowsFacts DEF IInv
<1>1. RowsOfScript' /\ AskedRows'
  BY DEF Positions, RowsOfScript, AskedRows, SameRows, SiteOf, TextOf, ActorOf
<1>2. \A a \in Actor : Reach(a)' = Reach(a)
  BY DEF Reach
<1>3. Filled'
  BY <1>2, SameRowsFill DEF Positions, Filled
<1>4. EarlierLives'
  BY DEF Positions, EarlierLives, SameRows
<1>5. Behind'
  <2> SUFFICES ASSUME NEW i \in DOMAIN nodes', nodes'[i].status = "running",
                      nodes'[i].seq < nextAdmitSeq'[nodes'[i].actor]
               PROVE  i \in Holds(nodes[i].actor)'
    BY DEF Behind, Holds, SameRows
  <2>1. i \in DOMAIN nodes /\ nodes[i].seq < nextAdmitSeq[nodes[i].actor] /\ nodes[i].status = "running"
    BY DEF SameRows
  <2> QED BY <2>1 DEF Positions, Behind
<1>6. InOrder'
  <2> SUFFICES ASSUME NEW a \in Actor, NEW i \in Holds(a)' PROVE nodes'[i].seq < nextAdmitSeq'[a]
    BY DEF InOrder
  <2>1. i \in Holds(a) /\ nodes[i].seq < nextAdmitSeq[a]
    BY DEF Positions, InOrder
  <2>2. i \in DOMAIN nodes
    BY <2>1 DEF IInv, Places, LivePlaces
  <2> QED BY <2>1, <2>2 DEF SameRows
<1> QED BY <1>1, <1>3, <1>4, <1>5, <1>6 DEF Positions

LEMMA DispatchPositions ==
  ASSUME IInv, Positions, NEW a \in Actor, Dispatch(a)
  PROVE  Positions'
<1>1. /\ dispatched' = dispatched \cup {current[a]}
      /\ UNCHANGED <<nodes, up, asked, recordedCount, nextAdmitSeq, pendingRecorded, liveQueue, current>>
  BY DEF Dispatch, journal, admission
<1>2. SameRows /\ \A b \in Actor : Holds(b)' = Holds(b)
  BY <1>1 DEF SameRows, Holds, Has
<1>3. Sent'
  BY <1>1 DEF Positions, Sent
<1>4. \A b \in Actor : LinedUp(nodes', liveQueue', current', b)
  BY <1>1 DEF Positions, InOrder
<1>5. \A i \in DOMAIN nodes : nodes[i].actor \in Actor
  BY RowsFacts DEF IInv
<1> QED BY <1>1, <1>2, <1>3, <1>4, <1>5, KeepsPositions

LEMMA IdlePositions ==
  ASSUME IInv, Positions, UNCHANGED <<nodes, up, admission, dispatching>>
  PROVE  Positions'
<1>1. UNCHANGED <<nodes, up, asked, recordedCount, nextAdmitSeq, pendingRecorded, liveQueue, current, dispatched>>
  BY DEF admission, dispatching
<1>2. SameRows /\ \A b \in Actor : Holds(b)' = Holds(b)
  BY <1>1 DEF SameRows, Holds, Has
<1>3. Sent'
  BY <1>1 DEF Positions, Sent
<1>4. \A b \in Actor : LinedUp(nodes', liveQueue', current', b)
  BY <1>1 DEF Positions, InOrder
<1>5. \A i \in DOMAIN nodes : nodes[i].actor \in Actor
  BY RowsFacts DEF IInv
<1> QED BY <1>1, <1>2, <1>3, <1>4, <1>5, KeepsPositions

(* A retune moves asks from the queues to their actors and leaves each with its actor. *)
LEMMA RetuneHolds ==
  ASSUME IInv, NEW n \in Caps, SetMaxConcurrency(n), NEW b \in Actor
  PROVE  Holds(b)' = Holds(b) /\ (current[b] # None => current'[b] = current[b])
<1>1. Pump(Rescan(n), liveQueue, current, activeAsks, session, n)
  BY DEF SetMaxConcurrency
<1>2. liveQueue \in [Actor -> Seq(Instance)] /\ IsInjective(liveQueue[b])
  BY DEF IInv, Types, DispatchType, Places, LivePlaces
<1>3. \/ /\ current[b] = None /\ liveQueue[b] # <<>>
         /\ liveQueue'[b] = Remaining(liveQueue[b]) /\ current'[b] = NextQueued(liveQueue[b])
      \/ liveQueue'[b] = liveQueue[b] /\ current'[b] = current[b]
  BY <1>1 DEF Pump
<1>4. liveQueue[b] # <<>> => /\ NextQueued(liveQueue[b]) \in Range(liveQueue[b])
                             /\ NextQueued(liveQueue[b]) # None
                             /\ Range(Remaining(liveQueue[b])) = Range(liveQueue[b]) \ {NextQueued(liveQueue[b])}
  BY <1>2, ShiftFacts, NoneAssumption DEF Instance
<1> QED BY <1>3, <1>4 DEF Holds, Has

LEMMA RetunePositions ==
  ASSUME IInv, Positions, NEW n \in Caps, SetMaxConcurrency(n)
  PROVE  Positions'
<1>1. /\ Pump(Rescan(n), liveQueue, current, activeAsks, session, n)
      /\ UNCHANGED <<nodes, up, asked, recordedCount, nextAdmitSeq, pendingRecorded, liveNodes, dispatched>>
  BY DEF SetMaxConcurrency, admission
<1>2. Rescan(n) \in SUBSET Actor /\ liveQueue \in [Actor -> Seq(Instance)]
      /\ \A b \in Actor : IsInjective(liveQueue[b])
  BY DEF Rescan, IInv, Types, DispatchType, Places, LivePlaces
<1>3. \A b \in Actor : LinedUp(nodes, liveQueue', current', b)
  BY <1>1, <1>2, PumpLinesUp DEF Positions, InOrder
<1>4. \A b \in Actor : Holds(b)' = Holds(b) /\ (current[b] # None => current'[b] = current[b])
  BY RetuneHolds
<1>5. Sent'
  <2>1. \A i \in dispatched : i # None
    BY NoneAssumption, SeqRange DEF IInv, Types, DispatchType, Instance
  <2> QED BY <2>1, <1>1, <1>4 DEF Positions, Sent
<1>6. SameRows
  BY <1>1 DEF SameRows
<1>7. \A i \in DOMAIN nodes : nodes[i].actor \in Actor
  BY RowsFacts DEF IInv
<1> QED BY <1>1, <1>3, <1>4, <1>5, <1>6, <1>7, KeepsPositions

(* A settlement takes the ask from its actor, and the pump leaves each with its actor. *)
LEMMA SettleHolds ==
  ASSUME IInv, NEW a \in Actor, current[a] # None, NEW st, NEW sess, SettleNode(a, st, sess), NEW b \in Actor
  PROVE  /\ Holds(b)' = IF b = a THEN Holds(b) \ {current[a]} ELSE Holds(b)
         /\ b # a /\ current[b] # None => current'[b] = current[b]
<1> DEFINE cur == [current EXCEPT ![a] = None]
<1>1. Pump(Actor, liveQueue, cur, activeAsks - 1, sess, cap)
  BY DEF SettleNode, SlotsAfter
<1>2. /\ liveQueue \in [Actor -> Seq(Instance)] /\ current \in [Actor -> Instance \cup {None}]
      /\ IsInjective(liveQueue[b]) /\ current[b] \notin Range(liveQueue[b])
  BY DEF IInv, Types, DispatchType, Places, LivePlaces
<1>3. cur[b] = IF b = a THEN None ELSE current[b]
  BY <1>2
<1> HIDE DEF cur
<1>4. \/ /\ cur[b] = None /\ liveQueue[b] # <<>>
         /\ liveQueue'[b] = Remaining(liveQueue[b]) /\ current'[b] = NextQueued(liveQueue[b])
      \/ liveQueue'[b] = liveQueue[b] /\ current'[b] = cur[b]
  BY <1>1 DEF Pump
<1>5. liveQueue[b] # <<>> => /\ NextQueued(liveQueue[b]) \in Range(liveQueue[b])
                             /\ NextQueued(liveQueue[b]) # None
                             /\ Range(Remaining(liveQueue[b])) = Range(liveQueue[b]) \ {NextQueued(liveQueue[b])}
  BY <1>2, ShiftFacts, NoneAssumption DEF Instance
<1>6. Holds(b)' = Has(liveQueue, cur, b) /\ (cur[b] # None => current'[b] = cur[b])
  BY <1>4, <1>5 DEF Holds, Has
<1>7. Has(liveQueue, cur, b) = IF b = a THEN Holds(b) \ {current[a]} ELSE Holds(b)
  BY <1>2, <1>3 DEF Has, Holds
<1> QED BY <1>3, <1>6, <1>7

LEMMA SettleNodePositions ==
  ASSUME IInv, Positions, up, NEW a \in Actor, current[a] # None, NEW st \in Terminal,
         NEW sess, SettleNode(a, st, sess)
  PROVE  Positions'
<1> DEFINE inst == current[a]
           cur == [current EXCEPT ![a] = None]
<1>1. /\ nodes' = [nodes EXCEPT ![inst].status = st] /\ dispatched' = dispatched \ {inst}
      /\ Pump(Actor, liveQueue, cur, activeAsks - 1, sess, cap)
      /\ UNCHANGED <<up, asked, recordedCount, nextAdmitSeq, pendingRecorded>>
  BY DEF SettleNode, FreeLiveNode, Undispatched, SlotsAfter, admission
<1>2. inst \in DOMAIN nodes /\ nodes \in [DOMAIN nodes -> RowType] /\ inst \in Holds(a)
  BY CurrentRow DEF Holds, Has
<1>3. SameRows /\ nodes'[inst].status = st /\ \A i \in DOMAIN nodes : i # inst => nodes'[i] = nodes[i]
  BY <1>1, <1>2 DEF SameRows, RowType
<1>4. /\ liveQueue \in [Actor -> Seq(Instance)] /\ current \in [Actor -> Instance \cup {None}]
      /\ \A b \in Actor : IsInjective(liveQueue[b]) /\ current[b] \notin Range(liveQueue[b])
      /\ \A b \in Actor : \A i \in Holds(b) : i \in DOMAIN nodes
  BY DEF IInv, Types, DispatchType, Places, LivePlaces
<1>5. cur[a] = None /\ \A b \in Actor : b # a => cur[b] = current[b]
  BY <1>4
<1> HIDE DEF inst, cur
<1>6. ASSUME NEW b \in Actor PROVE LinedUp(nodes', liveQueue', current', b)
  <2>1. LinedUp(nodes', liveQueue, cur, b)
    <3>1. LinedUp(nodes, liveQueue, current, b)
      BY DEF Positions, InOrder
    <3>2. \A i \in Range(liveQueue[b]) : nodes'[i].seq = nodes[i].seq
      BY <1>3, <1>4 DEF SameRows, Holds, Has
    <3>3. \A m \in DOMAIN liveQueue[b] : liveQueue[b][m] \in Range(liveQueue[b])
      BY DEF Range
    <3>4. Rising(nodes', liveQueue[b])
      BY <3>1, <3>2, <3>3 DEF LinedUp, Rising
    <3>5. current[b] # None => nodes'[current[b]].seq = nodes[current[b]].seq
      BY <1>3, <1>4 DEF SameRows, Holds, Has
    <3> QED BY <3>1, <3>2, <3>4, <3>5, <1>5 DEF LinedUp
  <2> QED BY <2>1, <1>1, <1>4, PumpLinesUp
<1>7. \A b \in Actor : /\ Holds(b)' = IF b = a THEN Holds(b) \ {inst} ELSE Holds(b)
                       /\ b # a /\ current[b] # None => current'[b] = current[b]
  BY SettleHolds DEF inst
<1>9. \A b \in Actor : Holds(b)' \subseteq Holds(b)
  BY <1>7
<1>10. ASSUME NEW i \in DOMAIN nodes, nodes'[i].status = "running"
       PROVE  nodes[i].status = "running" /\ (i \in Holds(nodes[i].actor) => i \in Holds(nodes[i].actor)')
  <2>1. i # inst
    BY <1>3, <1>10 DEF Terminal
  <2>2. nodes[i].actor \in Actor
    BY RowsFacts DEF IInv
  <2> QED BY <2>1, <2>2, <1>3, <1>7, <1>10
<1>11. Sent'
  <2> SUFFICES ASSUME NEW i \in dispatched, i # inst PROVE \E b \in Actor : i = current'[b]
    BY <1>1 DEF Sent
  <2>1. PICK b \in Actor : i = current[b]
    BY DEF Positions, Sent
  <2>2. i # None
    BY NoneAssumption, SeqRange DEF IInv, Types, DispatchType, Instance
  <2>3. b # a
    BY <2>1 DEF inst
  <2> QED BY <2>1, <2>2, <2>3, <1>7
<1> QED BY <1>1, <1>3, <1>6, <1>9, <1>10, <1>11, KeepsPositions

-----------------------------------------------------------------------------
(* Admission and positions. *)

(* A fresh ask gets the next position of its actor. *)
LEMMA DrainRows ==
  ASSUME Types, Places, NEW a \in Actor, NEW rec, NEW fresh, NEW calls, NEW S,
         Admissible(a, rec, fresh, calls), Drain(a, rec, fresh, calls, S)
  PROVE  \A k \in DOMAIN Admitted(a, rec, fresh) :
            LET i == Admitted(a, rec, fresh)[k]
            IN  /\ nodes'[i].actor = a /\ nodes'[i].seq = nextAdmitSeq[a] + Run(a, rec) + k - 1
                /\ nodes'[i].hash = TextOf(calls[i]) /\ nodes'[i].status = "running"
<1> DEFINE admitted == Admitted(a, rec, fresh)
           seq == nextAdmitSeq[a]
           run == Run(a, rec)
           row(k) == [actor |-> a, seq |-> seq + run + k - 1, hash |-> TextOf(calls[admitted[k]]),
                      status |-> "running"]
<1>1. nodes' = [i \in DOMAIN nodes \cup Range(admitted) |->
              IF i \in Range(Again(a, rec)) THEN [nodes[i] EXCEPT !.actor = a]
              ELSE IF i \in DOMAIN nodes THEN nodes[i]
              ELSE row(CHOOSE k \in DOMAIN admitted : admitted[k] = i)]
  BY DEF Drain, Admitted, Run, In, Again, TextOf
<1>b. Range(Again(a, rec)) \subseteq DOMAIN nodes
  BY LiveFacts
<1>2. IsInjective(admitted) /\ Range(admitted) \subseteq Range(fresh)
  BY BatchFacts
<1> SUFFICES ASSUME NEW k \in DOMAIN admitted
             PROVE  LET i == admitted[k]
                    IN  /\ nodes'[i].actor = a /\ nodes'[i].seq = seq + run + k - 1
                        /\ nodes'[i].hash = TextOf(calls[i]) /\ nodes'[i].status = "running"
  OBVIOUS
<1>a. /\ row(k).actor = a /\ row(k).seq = seq + run + k - 1
      /\ row(k).hash = TextOf(calls[admitted[k]]) /\ row(k).status = "running"
  OBVIOUS
<1> HIDE DEF admitted, seq, run, row
<1>3. admitted[k] \in Range(admitted) /\ admitted[k] \notin DOMAIN nodes
  BY <1>2 DEF Range, Admissible
<1>4. (CHOOSE m \in DOMAIN admitted : admitted[m] = admitted[k]) = k
  BY <1>2 DEF IsInjective
<1>5. nodes'[admitted[k]] = row(k)
  BY <1>1, <1>3, <1>4, <1>b
<1> QED BY <1>a, <1>5

(* What becomes live is in order, at the positions that follow. *)
LEMMA LiveRises ==
  ASSUME Types, Places, NEW a \in Actor, NEW rec, NEW fresh, NEW calls, NEW S,
         Admissible(a, rec, fresh, calls), Drain(a, rec, fresh, calls, S)
  PROVE  /\ Rising(nodes', Live(a, rec, fresh))
         /\ \A i \in Range(Live(a, rec, fresh)) :
               /\ nextAdmitSeq[a] <= nodes'[i].seq /\ nodes'[i].seq < nextAdmitSeq'[a]
               /\ nodes'[i].seq \in Nat
<1> DEFINE seq == nextAdmitSeq[a]
           run == Run(a, rec)
           in == In(a, rec)
           admitted == Admitted(a, rec, fresh)
           again == Again(a, rec)
           f == [i \in DOMAIN nodes |-> nodes[i].seq]
<1>1. /\ run \in Nat /\ seq \in Nat /\ in \in Seq(DOMAIN calls) /\ admitted \in Seq(Instance)
      /\ Len(admitted) \in Nat
      /\ \A n \in seq..(seq + run - 1) : n \in DOMAIN rec
  BY BatchFacts
<1>2. again = Keep(in, {i \in DOMAIN nodes : RunsAgain(i)}) /\ Live(a, rec, fresh) = again \o admitted
      /\ in = [j \in 1..run |-> rec[seq + j - 1]]
  BY DEF Again, Live, In
<1>3. nextAdmitSeq' = [nextAdmitSeq EXCEPT ![a] = seq + run + Len(admitted)]
      /\ nextAdmitSeq \in [Actor -> Nat]
  BY DEF Drain, Admitted, Run, In, Types, AdmissionType
<1>4. \A i \in DOMAIN nodes : nodes'[i].seq = nodes[i].seq
  BY DrainJournal DEF SameAsk
<1>5. \A k \in DOMAIN admitted : nodes'[admitted[k]].seq = seq + run + k - 1
  BY DrainRows
<1> HIDE DEF seq, run, in, admitted, again
<1>6. \A j \in DOMAIN in : in[j] \in DOMAIN nodes /\ nodes[in[j]].seq = seq + j - 1
  <2> SUFFICES ASSUME NEW j \in 1..run PROVE in[j] \in DOMAIN nodes /\ nodes[in[j]].seq = seq + j - 1
    BY <1>2
  <2>1. seq + j - 1 \in seq..(seq + run - 1)
    BY <1>1
  <2>2. seq + j - 1 \in DOMAIN rec /\ in[j] = rec[seq + j - 1]
    BY <2>1, <1>1, <1>2
  <2> QED BY <2>2 DEF Admissible
<1>7. DOMAIN in = 1..run
  BY <1>2
<1>8. \A m, n \in DOMAIN in : m < n => f[in[m]] < f[in[n]]
  BY <1>1, <1>6, <1>7
<1> HIDE DEF f
<1>9. /\ again \in Seq(DOMAIN calls)
      /\ Range(again) \subseteq Range(in)
      /\ \A m, n \in DOMAIN again : m < n => f[again[m]] < f[again[n]]
  <2> DEFINE D == {i \in DOMAIN nodes : RunsAgain(i)}
  <2>1. again = Keep(in, D) /\ in \in Seq(DOMAIN calls)
    BY <1>1, <1>2
  <2> HIDE DEF D
  <2>2. Keep(in, D) \in Seq(DOMAIN calls) /\ Range(Keep(in, D)) = Range(in) \cap D
    BY <2>1, KeepRange
  <2>3. \A m, n \in DOMAIN Keep(in, D) : m < n => f[Keep(in, D)[m]] < f[Keep(in, D)[n]]
    BY <2>1, <1>8, KeepSorted
  <2> QED BY <2>1, <2>2, <2>3
<1>10. \A m \in DOMAIN again : \E j \in DOMAIN in : again[m] = in[j]
  BY <1>9 DEF Range
<1>11. \A m \in DOMAIN again : /\ nodes'[again[m]].seq = f[again[m]] /\ nodes'[again[m]].seq \in Nat
                               /\ seq <= nodes'[again[m]].seq /\ nodes'[again[m]].seq < seq + run
  <2> SUFFICES ASSUME NEW m \in DOMAIN again
               PROVE  /\ nodes'[again[m]].seq = f[again[m]] /\ nodes'[again[m]].seq \in Nat
                      /\ seq <= nodes'[again[m]].seq /\ nodes'[again[m]].seq < seq + run
    OBVIOUS
  <2>1. PICK j \in DOMAIN in : again[m] = in[j]
    BY <1>10
  <2>2. again[m] \in DOMAIN nodes /\ nodes[again[m]].seq = seq + j - 1
    BY <2>1, <1>6
  <2> QED BY <2>2, <1>1, <1>4, <1>7 DEF f
<1>12. DOMAIN admitted = 1..Len(admitted) /\ DOMAIN again = 1..Len(again) /\ Len(again) \in Nat
  BY <1>1, <1>9, LenProperties
<1>13. \A k \in DOMAIN admitted : /\ nodes'[admitted[k]].seq \in Nat
                                  /\ seq + run <= nodes'[admitted[k]].seq
                                  /\ nodes'[admitted[k]].seq < seq + run + Len(admitted)
  BY <1>1, <1>5, <1>12
<1> DEFINE u == again \o admitted
<1>14. /\ DOMAIN u = 1..(Len(again) + Len(admitted))
       /\ \A k \in 1..(Len(again) + Len(admitted)) :
             u[k] = IF k <= Len(again) THEN again[k] ELSE admitted[k - Len(again)]
  BY DEF u
<1> HIDE DEF u
<1>15. ASSUME NEW k \in DOMAIN u
       PROVE  \/ k \in DOMAIN again /\ u[k] = again[k]
              \/ k > Len(again) /\ k - Len(again) \in DOMAIN admitted /\ u[k] = admitted[k - Len(again)]
  BY <1>1, <1>12, <1>14
<1>16. Rising(nodes', u)
  <2> SUFFICES ASSUME NEW m \in DOMAIN u, NEW n \in DOMAIN u, m < n
               PROVE  nodes'[u[m]].seq < nodes'[u[n]].seq
    BY DEF Rising
  <2>0. m \in Nat /\ n \in Nat
    BY <1>12, <1>14
  <2>1. CASE n \in DOMAIN again /\ u[n] = again[n]
    <3>1. m \in DOMAIN again /\ u[m] = again[m]
      BY <2>1, <1>12, <1>14
    <3> QED BY <2>1, <3>1, <1>9, <1>11
  <2>2. CASE n > Len(again) /\ n - Len(again) \in DOMAIN admitted /\ u[n] = admitted[n - Len(again)]
    <3>1. CASE m \in DOMAIN again /\ u[m] = again[m]
      BY <2>2, <3>1, <1>1, <1>11, <1>13
    <3>2. CASE m > Len(again) /\ m - Len(again) \in DOMAIN admitted /\ u[m] = admitted[m - Len(again)]
      <4>1. /\ nodes'[u[m]].seq = seq + run + (m - Len(again)) - 1
            /\ nodes'[u[n]].seq = seq + run + (n - Len(again)) - 1
        BY <2>2, <3>2, <1>5
      <4> QED BY <4>1, <2>0, <1>1, <1>12
    <3> QED BY <3>1, <3>2, <1>15
  <2> QED BY <2>1, <2>2, <1>15
<1>17. ASSUME NEW i \in Range(u)
       PROVE  /\ seq <= nodes'[i].seq /\ nodes'[i].seq < seq + run + Len(admitted) /\ nodes'[i].seq \in Nat
  <2>1. PICK k \in DOMAIN u : u[k] = i
    BY DEF Range
  <2>2. CASE k \in DOMAIN again /\ u[k] = again[k]
    BY <2>1, <2>2, <1>1, <1>11
  <2>3. CASE k > Len(again) /\ k - Len(again) \in DOMAIN admitted /\ u[k] = admitted[k - Len(again)]
    BY <2>1, <2>3, <1>1, <1>13
  <2> QED BY <2>2, <2>3, <1>15
<1>18. nextAdmitSeq'[a] = seq + run + Len(admitted)
  BY <1>3
<1> QED BY <1>2, <1>16, <1>17, <1>18 DEF u, seq

(* What a drain is called with, as far as positions go. *)
Numbered(a, rec, calls) ==
    /\ \A i \in DOMAIN calls : /\ SiteOf(calls[i]) = i[1]
                               /\ i \in DOMAIN nodes => nodes[i].actor = ActorOf(calls[i])
    /\ \A n \in DOMAIN rec : n < recordedCount[a]

(* Then the rows stay as they are. *)
LEMMA NumberedKeeps ==
  ASSUME Types, Places, NEW a \in Actor, NEW rec, NEW fresh, NEW calls, NEW S,
         Admissible(a, rec, fresh, calls), Numbered(a, rec, calls), Drain(a, rec, fresh, calls, S)
  PROVE  \A i \in DOMAIN nodes : nodes'[i] = nodes[i]
<1>1. \A n \in DOMAIN rec : nodes[rec[n]].actor = a
  BY DEF Admissible, Numbered
<1> QED BY <1>1, DrainKeepsRows

(***************************************************************************)
(* The rows of the actor stay numbered without gap: a fresh ask is         *)
(* admitted when every row there is has a lower number.                    *)
(***************************************************************************)
LEMMA DrainFills ==
  ASSUME IInv, Positions, up, NEW a \in Actor, NEW rec, NEW fresh, NEW calls, NEW S,
         Admissible(a, rec, fresh, calls), Numbered(a, rec, calls), Drain(a, rec, fresh, calls, S),
         UNCHANGED <<up, recordedCount>>
  PROVE  /\ Filled'
         /\ Admitted(a, rec, fresh) # <<>> => Reach(a) = nextAdmitSeq[a] + Run(a, rec)
<1> DEFINE seq == nextAdmitSeq[a]
           run == Run(a, rec)
           admitted == Admitted(a, rec, fresh)
           len == Len(admitted)
<1>1. /\ run \in Nat /\ seq \in Nat /\ len \in Nat /\ admitted \in Seq(Instance) /\ DOMAIN admitted = 1..len
      /\ \A n \in seq..(seq + run - 1) : n \in DOMAIN rec
      /\ IsInjective(admitted) /\ Range(admitted) \subseteq Range(fresh)
  BY BatchFacts, LenProperties DEF IInv
<1>2. /\ nextAdmitSeq' = [nextAdmitSeq EXCEPT ![a] = seq + run + len] /\ nextAdmitSeq \in [Actor -> Nat]
      /\ recordedCount[a] \in Nat
  BY DEF Drain, Admitted, Run, In, IInv, Types, AdmissionType, Positions, EarlierLives
<1>3. /\ DOMAIN nodes' = DOMAIN nodes \cup Range(admitted) /\ \A i \in DOMAIN nodes : nodes'[i] = nodes[i]
  BY DrainJournal, NumberedKeeps DEF IInv
<1>4. \A k \in DOMAIN admitted : nodes'[admitted[k]].actor = a /\ nodes'[admitted[k]].seq = seq + run + k - 1
  BY DrainRows DEF IInv
<1>5. admitted # <<>> => seq + run >= recordedCount[a]
  BY DEF Admitted, MayBeFresh
<1>6. len = 0 <=> admitted = <<>>
  BY <1>1, EmptySeq
<1> HIDE DEF seq, run, admitted, len
<1>7. \A i \in Range(admitted) : i \notin DOMAIN nodes
  BY <1>1 DEF Admissible
<1>8. run > 0 => seq + run <= recordedCount[a]
  <2> SUFFICES ASSUME run > 0 PROVE seq + run <= recordedCount[a]
    OBVIOUS
  <2>1. seq + run - 1 \in DOMAIN rec
    BY <1>1
  <2>2. seq + run - 1 < recordedCount[a]
    BY <2>1 DEF Numbered
  <2> QED BY <2>2, <1>1, <1>2
<1>9. Reach(a) = (IF recordedCount[a] < seq THEN seq ELSE recordedCount[a])
  BY DEF Reach, seq
<1>10. admitted # <<>> => Reach(a) = seq + run
  BY <1>1, <1>2, <1>5, <1>8, <1>9
<1>11. Reach(a)' = Reach(a) + len /\ Reach(a) \in Nat
  <2>1. Reach(a)' = (IF recordedCount[a] < seq + run + len THEN seq + run + len ELSE recordedCount[a])
    BY <1>2 DEF Reach
  <2>2. CASE admitted = <<>>
    BY <2>1, <2>2, <1>1, <1>2, <1>6, <1>8, <1>9
  <2>3. CASE admitted # <<>>
    BY <2>1, <2>3, <1>1, <1>2, <1>5, <1>9, <1>10
  <2> QED BY <2>2, <2>3
<1>12. ASSUME NEW b \in Actor, b # a PROVE \E N \in Nat : Fills(nodes', b, N) /\ N = Reach(b)'
  <2>1. Fills(nodes, b, Reach(b)) /\ Reach(b) \in Nat
    BY DEF Positions, Filled
  <2>2. Reach(b)' = Reach(b)
    BY <1>2, <1>12 DEF Reach
  <2>3. \A i \in DOMAIN nodes' : nodes'[i].actor = b => i \in DOMAIN nodes
    BY <1>3, <1>4, <1>12 DEF Range
  <2>4. Fills(nodes', b, Reach(b))
    BY <2>1, <2>3, <1>3 DEF Fills
  <2> QED BY <2>1, <2>2, <2>4
<1>13. Fills(nodes', a, Reach(a) + len)
  <2> DEFINE N == Reach(a)
  <2>1. Fills(nodes, a, N) /\ N \in Nat
    BY DEF Positions, Filled
  <2>2. \A k \in DOMAIN admitted : nodes'[admitted[k]].seq = N + k - 1
    BY <1>4, <1>10, <1>1, <1>6
  <2>3. \A i \in DOMAIN nodes' : \/ i \in DOMAIN nodes /\ nodes'[i] = nodes[i]
                                 \/ \E k \in DOMAIN admitted : i = admitted[k]
    BY <1>3 DEF Range
  <2>a. \A i \in DOMAIN nodes : nodes[i].seq \in Nat
    BY RowsFacts DEF IInv
  <2> HIDE DEF N
  <2>4. \A i \in DOMAIN nodes' : nodes'[i].actor = a => nodes'[i].seq < N + len
    <3> SUFFICES ASSUME NEW i \in DOMAIN nodes', nodes'[i].actor = a PROVE nodes'[i].seq < N + len
      OBVIOUS
    <3>1. CASE i \in DOMAIN nodes /\ nodes'[i] = nodes[i]
      BY <3>1, <2>1, <2>a, <1>1 DEF Fills
    <3>2. CASE \E k \in DOMAIN admitted : i = admitted[k]
      BY <3>2, <2>1, <2>2, <1>1
    <3> QED BY <3>1, <3>2, <2>3
  <2>5. ASSUME NEW n \in 0..((N + len) - 1)
        PROVE  \E i \in DOMAIN nodes' : nodes'[i].actor = a /\ nodes'[i].seq = n
    <3>1. CASE n < N
      <4>1. n \in 0..(N - 1)
        BY <3>1, <2>1
      <4> QED BY <4>1, <2>1, <1>3 DEF Fills
    <3>2. CASE n >= N
      <4>1. n - N + 1 \in DOMAIN admitted /\ N + (n - N + 1) - 1 = n
        BY <3>2, <2>1, <1>1
      <4>2. admitted[n - N + 1] \in DOMAIN nodes'
        BY <4>1, <1>3 DEF Range
      <4>3. nodes'[admitted[n - N + 1]].seq = n
        BY <4>1, <2>2
      <4> QED BY <4>1, <4>2, <4>3, <1>4
    <3> QED BY <3>1, <3>2, <2>1, <1>1
  <2>6. ASSUME NEW i \in DOMAIN nodes', NEW j \in DOMAIN nodes', nodes'[i].actor = a, nodes'[j].actor = a,
               nodes'[i].seq = nodes'[j].seq
        PROVE  i = j
    <3>1. ASSUME NEW x \in DOMAIN nodes', nodes'[x].actor = a
          PROVE  \/ x \in DOMAIN nodes /\ nodes'[x] = nodes[x] /\ nodes'[x].seq < N
                 \/ nodes'[x].seq >= N /\ \E k \in DOMAIN admitted : x = admitted[k] /\ nodes'[x].seq = N + k - 1
      <4>1. CASE x \in DOMAIN nodes /\ nodes'[x] = nodes[x]
        BY <4>1, <3>1, <2>1 DEF Fills
      <4>2. CASE \E k \in DOMAIN admitted : x = admitted[k]
        BY <4>2, <2>1, <2>2, <1>1
      <4> QED BY <4>1, <4>2, <2>3
    <3>2. CASE i \in DOMAIN nodes /\ nodes'[i] = nodes[i] /\ nodes'[i].seq < N
      <4>1. j \in DOMAIN nodes /\ nodes'[j] = nodes[j]
        BY <3>1, <3>2, <2>6, <2>1, <2>a
      <4> QED BY <3>2, <4>1, <2>6, <2>1 DEF Fills
    <3>3. CASE nodes'[i].seq >= N /\ \E k \in DOMAIN admitted : i = admitted[k] /\ nodes'[i].seq = N + k - 1
      <4>1. PICK k \in DOMAIN admitted : i = admitted[k] /\ nodes'[i].seq = N + k - 1
        BY <3>3
      <4>2. PICK m \in DOMAIN admitted : j = admitted[m] /\ nodes'[j].seq = N + m - 1
        BY <3>1, <3>3, <2>6, <2>1, <2>a
      <4>3. k = m
        BY <4>1, <4>2, <2>6, <2>1, <1>1
      <4> QED BY <4>1, <4>2, <4>3
    <3> QED BY <3>1, <3>2, <3>3, <2>6
  <2>7. \A n \in 0..((N + len) - 1) : \E i \in DOMAIN nodes' : nodes'[i].actor = a /\ nodes'[i].seq = n
    BY <2>5
  <2>8. \A i, j \in DOMAIN nodes' :
          nodes'[i].actor = a /\ nodes'[j].actor = a /\ nodes'[i].seq = nodes'[j].seq => i = j
    BY <2>6
  <2>9. Fills(nodes', a, N + len)
    <3> DEFINE rows == nodes'
               M == N + len
    <3>1. \A i \in DOMAIN rows : rows[i].actor = a => rows[i].seq < M
      BY <2>4
    <3>2. \A n \in 0..(M - 1) : \E i \in DOMAIN rows : rows[i].actor = a /\ rows[i].seq = n
      BY <2>7
    <3>3. \A i, j \in DOMAIN rows : rows[i].actor = a /\ rows[j].actor = a /\ rows[i].seq = rows[j].seq => i = j
      BY <2>8
    <3> HIDE DEF rows, M
    <3>4. Fills(rows, a, M)
      BY <3>1, <3>2, <3>3 DEF Fills
    <3> QED BY <3>4 DEF rows, M
  <2> QED BY <2>9 DEF N
<1>14. Filled'
  <2>1. \A b \in Actor : \E N \in Nat : Fills(nodes', b, N) /\ N = Reach(b)'
    <3>1. Reach(a) + len \in Nat
      BY <1>1, <1>11
    <3> QED BY <3>1, <1>11, <1>12, <1>13
  <2> QED BY <2>1 DEF Filled, Fills
<1> QED BY <1>10, <1>14 DEF admitted, seq, run


LEMMA RisingConcat ==
  ASSUME NEW rows, NEW T, NEW s \in Seq(T), NEW t \in Seq(T), NEW bound \in Nat,
         Rising(rows, s), Rising(rows, t),
         \A i \in Range(s) : rows[i].seq \in Nat /\ rows[i].seq < bound,
         \A i \in Range(t) : rows[i].seq \in Nat /\ bound <= rows[i].seq
  PROVE  Rising(rows, s \o t)
<1> DEFINE u == s \o t
<1>1. /\ Len(s) \in Nat /\ DOMAIN s = 1..Len(s) /\ Len(t) \in Nat /\ DOMAIN t = 1..Len(t)
      /\ DOMAIN u = 1..(Len(s) + Len(t))
      /\ \A k \in 1..(Len(s) + Len(t)) : u[k] = IF k <= Len(s) THEN s[k] ELSE t[k - Len(s)]
  BY LenProperties, ConcatProperties
<1> HIDE DEF u
<1>2. ASSUME NEW k \in DOMAIN u
      PROVE  \/ k \in DOMAIN s /\ u[k] = s[k] /\ s[k] \in Range(s)
             \/ k > Len(s) /\ k - Len(s) \in DOMAIN t /\ u[k] = t[k - Len(s)] /\ t[k - Len(s)] \in Range(t)
  BY <1>1 DEF Range
<1>3. ASSUME NEW m \in DOMAIN u, NEW n \in DOMAIN u, m < n
      PROVE  rows[u[m]].seq < rows[u[n]].seq
  <2>0. m \in Nat /\ n \in Nat
    BY <1>1
  <2>1. CASE n \in DOMAIN s /\ u[n] = s[n]
    <3>1. m \in DOMAIN s /\ u[m] = s[m]
      BY <2>0, <2>1, <1>1, <1>3
    <3> QED BY <2>1, <3>1, <1>3 DEF Rising
  <2>2. CASE n > Len(s) /\ n - Len(s) \in DOMAIN t /\ u[n] = t[n - Len(s)] /\ t[n - Len(s)] \in Range(t)
    <3>1. CASE m \in DOMAIN s /\ u[m] = s[m] /\ s[m] \in Range(s)
      BY <2>2, <3>1
    <3>2. CASE m > Len(s) /\ m - Len(s) \in DOMAIN t /\ u[m] = t[m - Len(s)]
      <4>1. m - Len(s) < n - Len(s)
        BY <2>0, <1>1, <1>3
      <4> QED BY <2>2, <3>2, <4>1 DEF Rising
    <3> QED BY <3>1, <3>2, <1>2
  <2> QED BY <2>1, <2>2, <1>2
<1> QED BY <1>3 DEF Rising, u

(* The queues stay in order: what is admitted goes behind what was. *)
LEMMA DrainLinesUp ==
  ASSUME IInv, Positions, NEW a \in Actor, NEW rec, NEW fresh, NEW calls, NEW S \in SUBSET Actor, a \in S,
         Admissible(a, rec, fresh, calls), Drain(a, rec, fresh, calls, S)
  PROVE  InOrder'
<1> DEFINE live == Live(a, rec, fresh)
           queue == [liveQueue EXCEPT ![a] = @ \o live]
           bound == nextAdmitSeq[a]
<1>1. /\ Pump(S, queue, current, activeAsks, session, cap)
      /\ nextAdmitSeq' = [nextAdmitSeq EXCEPT ![a] = bound + Run(a, rec) + Len(Admitted(a, rec, fresh))]
  BY DEF Drain, Live, Again, Admitted, Run, In
<1>2. /\ live \in Seq(Instance) /\ IsInjective(live) /\ Range(live) \cap Holds(a) = {}
  BY LiveFacts DEF IInv
<1>3. /\ Rising(nodes', live)
      /\ \A i \in Range(live) : /\ bound <= nodes'[i].seq /\ nodes'[i].seq < nextAdmitSeq'[a]
                                /\ nodes'[i].seq \in Nat
  BY LiveRises DEF IInv
<1>4. /\ liveQueue \in [Actor -> Seq(Instance)] /\ nextAdmitSeq \in [Actor -> Nat] /\ bound \in Nat
      /\ Run(a, rec) \in Nat /\ Len(Admitted(a, rec, fresh)) \in Nat
  BY BatchFacts DEF IInv, Types, DispatchType, AdmissionType
<1>5. \A b \in Actor : \A i \in Holds(b) : /\ i \in DOMAIN nodes /\ nodes'[i].seq = nodes[i].seq
                                           /\ nodes[i].seq \in Nat /\ nodes[i].seq < nextAdmitSeq[b]
  BY DrainJournal, RowsFacts DEF IInv, Places, LivePlaces, Positions, InOrder, SameAsk
<1>6. \A b \in Actor : nextAdmitSeq[b] <= nextAdmitSeq'[b]
                       /\ nextAdmitSeq[b] \in Nat /\ nextAdmitSeq'[b] \in Nat
  BY <1>1, <1>4
<1>7. \A b \in Actor : /\ IsInjective(liveQueue[b]) /\ LinedUp(nodes, liveQueue, current, b)
                       /\ Range(liveQueue[b]) \subseteq Holds(b) /\ (current[b] # None => current[b] \in Holds(b))
  BY DEF IInv, Places, LivePlaces, Positions, InOrder, Holds, Has
<1> HIDE DEF live, bound
<1>8. \A b \in Actor : LinedUp(nodes', liveQueue, current, b)
  <2> SUFFICES ASSUME NEW b \in Actor PROVE LinedUp(nodes', liveQueue, current, b)
    OBVIOUS
  <2>1. \A m \in DOMAIN liveQueue[b] : liveQueue[b][m] \in Range(liveQueue[b])
    BY DEF Range
  <2>2. \A i \in Range(liveQueue[b]) : nodes'[i].seq = nodes[i].seq
    BY <1>5, <1>7
  <2>3. Rising(nodes', liveQueue[b])
    BY <2>1, <2>2, <1>7 DEF LinedUp, Rising
  <2> QED BY <2>2, <2>3, <1>5, <1>7 DEF LinedUp
<1>9. queue[a] = liveQueue[a] \o live /\ (\A b \in Actor : b # a => queue[b] = liveQueue[b])
      /\ queue \in [Actor -> Seq(Instance)]
  BY <1>2, <1>4, ConcatProperties
<1>10. /\ Range(queue[a]) = Range(liveQueue[a]) \cup Range(live) /\ IsInjective(queue[a])
  <2>1. Range(liveQueue[a]) \cap Range(live) = {}
    BY <1>2, <1>7
  <2> QED BY <2>1, <1>2, <1>4, <1>7, <1>9, ConcatRange
<1> HIDE DEF queue
<1>11. LinedUp(nodes', queue, current, a)
  <2>1. \A i \in Range(liveQueue[a]) : nodes'[i].seq \in Nat /\ nodes'[i].seq < bound
    BY <1>5, <1>7 DEF bound
  <2>2. Rising(nodes', liveQueue[a] \o live)
    <3>1. liveQueue[a] \in Seq(Instance) /\ Rising(nodes', liveQueue[a])
      BY <1>4, <1>8 DEF LinedUp
    <3>2. \A i \in Range(live) : nodes'[i].seq \in Nat /\ bound <= nodes'[i].seq
      BY <1>3
    <3> DEFINE rows == nodes'
    <3> HIDE DEF rows
    <3>3. /\ Rising(rows, liveQueue[a]) /\ Rising(rows, live)
          /\ \A i \in Range(liveQueue[a]) : rows[i].seq \in Nat /\ rows[i].seq < bound
          /\ \A i \in Range(live) : rows[i].seq \in Nat /\ bound <= rows[i].seq
      BY <1>3, <2>1, <3>1, <3>2 DEF rows
    <3>4. Rising(rows, liveQueue[a] \o live)
      BY <1>2, <1>4, <3>1, <3>3, RisingConcat
    <3> QED BY <3>4 DEF rows
  <2>3. ASSUME current[a] # None, NEW i \in Range(queue[a]) PROVE nodes'[current[a]].seq < nodes'[i].seq
    <3>1. CASE i \in Range(liveQueue[a])
      BY <2>3, <3>1, <1>8 DEF LinedUp
    <3>2. CASE i \in Range(live)
      <4>1. nodes'[current[a]].seq \in Nat /\ nodes'[current[a]].seq < bound
        BY <2>3, <1>5, <1>7 DEF bound
      <4> QED BY <3>2, <4>1, <1>3, <1>4
    <3> QED BY <2>3, <3>1, <3>2, <1>10
  <2> QED BY <2>2, <2>3, <1>9 DEF LinedUp
<1>12. ASSUME NEW b \in Actor PROVE LinedUp(nodes', liveQueue', current', b)
  <2>1. LinedUp(nodes', queue, current, b) /\ IsInjective(queue[b])
    <3>1. CASE b = a
      BY <3>1, <1>10, <1>11
    <3>2. CASE b # a
      BY <3>2, <1>7, <1>8, <1>9 DEF LinedUp
    <3> QED BY <3>1, <3>2
  <2> QED BY <2>1, <1>1, <1>9, PumpLinesUp
<1>13. ASSUME NEW b \in Actor, NEW i \in Holds(b)' PROVE nodes'[i].seq < nextAdmitSeq'[b]
  <2>1. Holds(b)' = Holds(b) \cup (IF b = a THEN Range(live) ELSE {})
    BY DrainQueues DEF Holds, live
  <2>2. CASE i \in Holds(b)
    BY <2>2, <1>5, <1>6
  <2>3. CASE b = a /\ i \in Range(live)
    BY <2>3, <1>3
  <2> QED BY <2>1, <2>2, <2>3
<1> QED BY <1>12, <1>13 DEF InOrder

(***************************************************************************)
(* A drain takes the recorded asks at their recorded positions and the     *)
(* fresh ones behind everything there is.                                  *)
(***************************************************************************)
LEMMA DrainPositions ==
  ASSUME IInv, Positions, up, NEW a \in Actor, NEW rec, NEW fresh, NEW calls, NEW S \in SUBSET Actor, a \in S,
         Admissible(a, rec, fresh, calls), Numbered(a, rec, calls), Drain(a, rec, fresh, calls, S),
         asked' = calls, UNCHANGED <<up, recordedCount, dispatched>>
  PROVE  Positions'
<1> DEFINE seq == nextAdmitSeq[a]
           run == Run(a, rec)
           admitted == Admitted(a, rec, fresh)
           live == Live(a, rec, fresh)
<1>1. /\ nextAdmitSeq' = [nextAdmitSeq EXCEPT ![a] = seq + run + Len(admitted)]
      /\ pendingRecorded' = [pendingRecorded EXCEPT ![a] = Restrict(rec, DOMAIN rec \ (seq..(seq + run - 1)))]
      /\ \E queue : /\ Pump(S, queue, current, activeAsks, session, cap)
                    /\ queue = [liveQueue EXCEPT ![a] = @ \o live]
  BY DEF Drain, Live, Again, Admitted, Run, In
<1>2. /\ run \in Nat /\ seq \in Nat /\ Len(admitted) \in Nat
      /\ Range(In(a, rec)) = {rec[n] : n \in seq..(seq + run - 1)}
      /\ \A n \in seq..(seq + run - 1) : n \in DOMAIN rec
      /\ Range(admitted) \subseteq Range(fresh)
      /\ nextAdmitSeq \in [Actor -> Nat] /\ DOMAIN pendingRecorded = Actor
  BY BatchFacts DEF IInv, Types, AdmissionType
<1>3. /\ DOMAIN nodes' = DOMAIN nodes \cup Range(admitted) /\ \A i \in DOMAIN nodes : nodes'[i] = nodes[i]
  BY DrainJournal, NumberedKeeps DEF IInv
<1>4. \A i \in DOMAIN nodes' : \/ i \in DOMAIN nodes /\ nodes'[i] = nodes[i]
                               \/ \E k \in DOMAIN admitted : i = admitted[k]
  BY <1>3 DEF Range
<1>5. \A k \in DOMAIN admitted : /\ nodes'[admitted[k]].actor = a
                                 /\ nodes'[admitted[k]].seq = seq + run + k - 1
                                 /\ nodes'[admitted[k]].hash = TextOf(calls[admitted[k]])
  BY DrainRows DEF IInv
<1>6. \A k \in DOMAIN admitted : /\ admitted[k] \in Range(admitted)
                                 /\ admitted[k] \in DOMAIN calls /\ admitted[k] \notin DOMAIN nodes
                                 /\ calls[admitted[k]] \in Asks /\ ActorOf(calls[admitted[k]]) = a
  <2> SUFFICES ASSUME NEW k \in DOMAIN admitted
               PROVE  /\ admitted[k] \in Range(admitted)
                      /\ admitted[k] \in DOMAIN calls /\ admitted[k] \notin DOMAIN nodes
                      /\ calls[admitted[k]] \in Asks /\ ActorOf(calls[admitted[k]]) = a
    OBVIOUS
  <2>1. admitted[k] \in Range(admitted)
    BY DEF Range
  <2>2. admitted[k] \in Range(fresh)
    BY <2>1, <1>2
  <2>3. /\ admitted[k] \in DOMAIN calls /\ admitted[k] \notin DOMAIN nodes
        /\ ActorOf(calls[admitted[k]]) = a /\ calls \in [DOMAIN calls -> Asks]
    BY <2>2 DEF Admissible
  <2> QED BY <2>1, <2>3
<1>7. /\ Range(live) = {i \in Range(In(a, rec)) : RunsAgain(i)} \cup Range(admitted)
  BY LiveFacts DEF IInv
<1>8. \A b \in Actor : Has(liveQueue', current', b) = Holds(b) \cup (IF b = a THEN Range(live) ELSE {})
  BY DrainQueues
<1>9. /\ Filled' /\ (admitted # <<>> => Reach(a) = seq + run)
  BY DrainFills
<1>10. InOrder'
  BY DrainLinesUp
<1> HIDE DEF seq, run, admitted, live
<1>11. RowsOfScript'
  <2> SUFFICES ASSUME NEW i \in DOMAIN nodes'
               PROVE  \E x \in Asks : /\ SiteOf(x) = i[1] /\ TextOf(x) = nodes'[i].hash
                                      /\ ActorOf(x) = nodes'[i].actor
    BY DEF RowsOfScript, SiteOf, TextOf, ActorOf
  <2>1. CASE i \in DOMAIN nodes /\ nodes'[i] = nodes[i]
    BY <2>1 DEF Positions, RowsOfScript
  <2>2. CASE \E k \in DOMAIN admitted : i = admitted[k]
    <3>1. PICK k \in DOMAIN admitted : i = admitted[k]
      BY <2>2
    <3>2. SiteOf(calls[i]) = i[1]
      BY <3>1, <1>6 DEF Numbered
    <3> QED BY <3>1, <3>2, <1>5, <1>6
  <2> QED BY <2>1, <2>2, <1>4
<1>12. AskedRows'
  <2> SUFFICES ASSUME NEW i \in DOMAIN calls
               PROVE  SiteOf(calls[i]) = i[1] /\ (i \in DOMAIN nodes' => nodes'[i].actor = ActorOf(calls[i]))
    BY DEF AskedRows, SiteOf, ActorOf
  <2>1. SiteOf(calls[i]) = i[1] /\ (i \in DOMAIN nodes => nodes[i].actor = ActorOf(calls[i]))
    BY DEF Numbered
  <2>2. (\E k \in DOMAIN admitted : i = admitted[k]) => nodes'[i].actor = ActorOf(calls[i])
    BY <1>5, <1>6
  <2> QED BY <2>1, <2>2, <1>4
<1>13. EarlierLives'
  <2>1. recordedCount' \in [Actor -> Nat]
    BY DEF Positions, EarlierLives
  <2>2. ASSUME NEW b \in Actor, NEW n \in DOMAIN pendingRecorded'[b] PROVE n < recordedCount'[b]
    <3>1. CASE b = a
      <4>1. n \in DOMAIN rec
        BY <2>2, <3>1, <1>1, <1>2 DEF Restrict
      <4> QED BY <3>1, <4>1 DEF Numbered
    <3>2. CASE b # a
      <4>1. n \in DOMAIN pendingRecorded[b]
        BY <2>2, <3>2, <1>1, <1>2
      <4> QED BY <4>1 DEF Positions, EarlierLives
    <3> QED BY <3>1, <3>2
  <2>3. ASSUME NEW i \in DOMAIN nodes', i \notin DOMAIN calls
        PROVE  nodes'[i].seq < recordedCount'[nodes'[i].actor]
    <3>1. i \in DOMAIN nodes /\ nodes'[i] = nodes[i]
      BY <2>3, <1>4, <1>6
    <3>2. i \notin DOMAIN asked
      BY <2>3 DEF Admissible
    <3> QED BY <3>1, <3>2 DEF Positions, EarlierLives
  <2> QED BY <2>1, <2>2, <2>3 DEF EarlierLives
<1>14. Behind'
  <2> SUFFICES ASSUME NEW i \in DOMAIN nodes', nodes'[i].status = "running",
                      nodes'[i].seq < nextAdmitSeq'[nodes'[i].actor]
               PROVE  i \in Has(liveQueue', current', nodes'[i].actor)
    BY DEF Behind, Holds, Has
  <2>1. CASE \E k \in DOMAIN admitted : i = admitted[k]
    BY <2>1, <1>5, <1>6, <1>7, <1>8
  <2>2. CASE i \in DOMAIN nodes /\ nodes'[i] = nodes[i]
    <3>1. nodes[i].actor \in Actor /\ nodes[i].seq \in Nat /\ nodes[i].status = "running"
      BY <2>2, RowsFacts DEF IInv
    <3>2. CASE nodes[i].seq < nextAdmitSeq[nodes[i].actor]
      BY <2>2, <3>1, <3>2, <1>8 DEF Positions, Behind
    <3>3. CASE ~(nodes[i].seq < nextAdmitSeq[nodes[i].actor])
      <4>1. nodes[i].actor = a
        BY <2>2, <3>1, <3>3, <1>1, <1>2
      <4>2. nodes[i].seq >= seq /\ nodes[i].seq < seq + run + Len(admitted)
        BY <2>2, <3>1, <3>3, <4>1, <1>1, <1>2 DEF seq
      <4>3. nodes[i].seq < seq + run
        <5>1. CASE admitted = <<>>
          BY <5>1, <4>2, <1>2
        <5>2. CASE admitted # <<>>
          <6>1. Fills(nodes, a, seq + run)
            BY <5>2, <1>9 DEF Positions, Filled
          <6> QED BY <6>1, <2>2, <4>1 DEF Fills
        <5> QED BY <5>1, <5>2
      <4> DEFINE n == nodes[i].seq
      <4>4. n \in seq..(seq + run - 1)
        BY <3>1, <4>2, <4>3, <1>2
      <4>5. n \in DOMAIN rec /\ rec[n] \in Range(In(a, rec))
        BY <4>4, <1>2
      <4>6. rec[n] \in DOMAIN calls /\ rec[n] \in DOMAIN nodes /\ nodes[rec[n]].seq = n /\ nodes[rec[n]].actor = a
        BY <4>5 DEF Admissible, Numbered
      <4>7. rec[n] = i
        <5>1. PICK N \in Nat : Fills(nodes, a, N)
          BY DEF Positions, Filled
        <5> QED BY <5>1, <4>1, <4>6, <2>2 DEF Fills
      <4>8. i \in Range(live)
        BY <4>5, <4>7, <3>1, <1>7 DEF RunsAgain
      <4> QED BY <4>1, <4>8, <2>2, <1>8
    <3> QED BY <3>2, <3>3
  <2> QED BY <2>1, <2>2, <1>4
<1>15. Sent'
  <2> SUFFICES ASSUME NEW i \in dispatched PROVE \E b \in Actor : i = current'[b]
    BY DEF Sent
  <2>1. PICK b \in Actor : i = current[b]
    BY DEF Positions, Sent
  <2>2. i # None
    BY NoneAssumption, SeqRange DEF IInv, Types, DispatchType, Instance
  <2>3. current'[b] = current[b]
    BY <1>1, <2>1, <2>2 DEF Pump
  <2> QED BY <2>1, <2>3
<1> QED BY <1>9, <1>10, <1>11, <1>12, <1>13, <1>14, <1>15 DEF Positions

LEMMA SameActor ==
  ASSUME OneActorPerText, NEW x \in Asks, NEW y \in Asks, SiteOf(x) = SiteOf(y), TextOf(x) = TextOf(y)
  PROVE  ActorOf(x) = ActorOf(y)
BY DEF OneActorPerText, Asks, SiteOf, TextOf, ActorOf

(* A call that finds a row of its text finds one of its own actor. *)
LEMMA AdmitAskPositions ==
  ASSUME OneActorPerText, IInv, Positions, AdmitAsk
  PROVE  Positions'
<1>1. CASE SettleRun("errored", FALSE)
  <2>1. Down /\ nodes' = nodes
    BY <1>1 DEF SettleRun
  <2>2. SameRows
    BY <2>1 DEF SameRows
  <2> QED BY <2>1, <2>2, DownPositions DEF IInv
<1>2. CASE ~SettleRun("errored", FALSE)
  <2>1. UNCHANGED <<up, recordedCount, dispatched>> /\ up
    BY <1>2, AdmitAskDrains DEF AdmitAsk
  <2>2. PICK a \in Actor, S \in SUBSET Actor : \E inst, rec, fresh, calls :
           /\ a \in S /\ Claims(inst, a, rec, fresh, calls) /\ Drain(a, rec, fresh, calls, S)
           /\ asked' = calls
    BY <1>2, AdmitAskDrains
  <2>3. PICK inst, rec, fresh, calls :
           /\ a \in S /\ Claims(inst, a, rec, fresh, calls) /\ Drain(a, rec, fresh, calls, S)
           /\ asked' = calls
    BY <2>2
  <2>4. /\ Admissible(a, rec, fresh, calls) /\ calls \in [DOMAIN calls -> Asks]
        /\ inst \notin DOMAIN asked /\ DOMAIN calls = DOMAIN asked \cup {inst}
        /\ SiteOf(calls[inst]) = inst[1] /\ ActorOf(calls[inst]) = a
        /\ inst \in DOMAIN nodes => nodes[inst].hash = TextOf(calls[inst])
        /\ \A i \in DOMAIN asked : calls[i] = asked[i]
    BY <2>3 DEF Claims, Admissible
  <2>5. inst \in DOMAIN nodes => nodes[inst].actor = a
    <3> SUFFICES ASSUME inst \in DOMAIN nodes PROVE nodes[inst].actor = a
      OBVIOUS
    <3>1. PICK x \in Asks : /\ SiteOf(x) = inst[1] /\ TextOf(x) = nodes[inst].hash
                            /\ ActorOf(x) = nodes[inst].actor
      BY DEF Positions, RowsOfScript
    <3>2. calls[inst] \in Asks
      BY <2>4
    <3> QED BY <2>4, <3>1, <3>2, SameActor
  <2>6. \A i \in DOMAIN calls : /\ SiteOf(calls[i]) = i[1]
                                /\ i \in DOMAIN nodes => nodes[i].actor = ActorOf(calls[i])
    BY <2>4, <2>5 DEF Positions, AskedRows
  <2>7. ASSUME NEW n \in DOMAIN rec PROVE n < recordedCount[a]
    <3>1. CASE n \in DOMAIN pendingRecorded[a]
      BY <3>1 DEF Positions, EarlierLives
    <3>2. CASE inst \in DOMAIN nodes /\ n = nodes[inst].seq
      BY <3>2, <2>1, <2>4, <2>5 DEF Positions, EarlierLives
    <3> QED BY <3>1, <3>2, <2>3 DEF Claims
  <2>8. Numbered(a, rec, calls)
    BY <2>6, <2>7 DEF Numbered
  <2> QED BY <2>1, <2>3, <2>4, <2>8, DrainPositions
<1> QED BY <1>1, <1>2

LEMMA InitPositions == Init => Positions
<1> SUFFICES ASSUME Init PROVE Positions
  OBVIOUS
<1>1. DOMAIN <<>> = {} /\ Range(<<>>) = {}
  BY DEF Range
<1>2. /\ nodes = <<>> /\ asked = <<>> /\ dispatched = {}
      /\ recordedCount = [a \in Actor |-> 0] /\ nextAdmitSeq = [a \in Actor |-> 0]
      /\ pendingRecorded = [a \in Actor |-> <<>>]
      /\ liveQueue = [a \in Actor |-> <<>>] /\ current = [a \in Actor |-> None]
  BY DEF Init
<1>3. RowsOfScript /\ AskedRows /\ Behind /\ Sent /\ EarlierLives
  BY <1>1, <1>2 DEF RowsOfScript, AskedRows, Behind, Sent, EarlierLives
<1>4. Filled
  <2>1. \A a \in Actor : Reach(a) = 0 /\ Fills(nodes, a, 0)
    BY <1>1, <1>2 DEF Reach, Fills
  <2> QED BY <2>1 DEF Filled
<1>5. \A a \in Actor : liveQueue[a] = <<>> /\ current[a] = None
  BY <1>2
<1>6. InOrder
  BY <1>1, <1>5 DEF InOrder, LinedUp, Rising, Holds, Has
<1> QED BY <1>3, <1>4, <1>6 DEF Positions

LEMMA EveryPosition ==
  ASSUME OneActorPerText, IInv, Positions, [Next]_vars
  PROVE  Positions'
<1>0. Types
  BY DEF IInv
<1>1. ASSUME UNCHANGED vars PROVE Positions'
  BY <1>1, IdlePositions DEF vars, journal
<1>2. CASE AdmitAsk
  BY <1>2, AdmitAskPositions
<1>3. ASSUME Down, UNCHANGED nodes PROVE Positions'
  BY <1>0, <1>3, DownPositions DEF SameRows
<1>4. CASE ScriptEnds \/ Stop \/ Crash
  BY <1>3, <1>4 DEF ScriptEnds, Stop, Crash, SettleRun, journal
<1>5. CASE ScriptStep
  BY <1>5, IdlePositions DEF ScriptStep, journal
<1>6. CASE Resume
  BY <1>0, <1>6, ResumePositions
<1>7. ASSUME NEW a \in Actor, Dispatch(a) PROVE Positions'
  BY <1>7, DispatchPositions
<1>8. ASSUME NEW a \in Actor, DispatchFails(a) PROVE Positions'
  BY <1>8, SettleNodePositions DEF DispatchFails, Terminal
<1>9. ASSUME NEW a \in Actor, NEW st \in Terminal, AskReported(a, st) PROVE Positions'
  BY <1>9, SettleNodePositions DEF AskReported
<1>10. ASSUME NEW a \in Actor, CrashInSettle(a) PROVE Positions'
  <2>1. Down /\ nodes' = [nodes EXCEPT ![current[a]].status = "completed"] /\ current[a] # None
    BY <1>10 DEF CrashInSettle
  <2>2. current[a] \in DOMAIN nodes /\ nodes \in [DOMAIN nodes -> RowType]
    BY <2>1, CurrentRow
  <2>3. SameRows
    BY <2>1, <2>2 DEF SameRows, RowType
  <2> QED BY <1>0, <2>1, <2>3, DownPositions
<1>11. ASSUME NEW n \in Caps, SetMaxConcurrency(n) PROVE Positions'
  BY <1>11, RetunePositions
<1> QED BY <1>1, <1>2, <1>4, <1>5, <1>6, <1>7, <1>8, <1>9, <1>10, <1>11 DEF Next

-----------------------------------------------------------------------------
(***************************************************************************)
(* Promises: of the ask a branch waits at there is one line on its way in, *)
(* or one instance in the engine's hands, or one answer on its way out.    *)
(***************************************************************************)
LinesWait ==
    \A n \in DOMAIN toHost : toHost[n].kind = "ask" =>
        /\ pc[toHost[n].branch] = toHost[n].step
        /\ \A i \in DOMAIN asked : asked[i][1] = toHost[n].branch => asked[i][2] < toHost[n].step
LinesApart ==
    \A m, n \in DOMAIN toHost :
        toHost[m].kind = "ask" /\ toHost[n].kind = "ask" /\ toHost[m].branch = toHost[n].branch => m = n
AskedOnce ==
    /\ \A i \in DOMAIN asked : asked[i][2] <= pc[asked[i][1]]
    /\ \A i, j \in DOMAIN asked : asked[i] = asked[j] => i = j
RepliesAsked ==
    \A n \in DOMAIN toChild : \E i \in DOMAIN asked :
        asked[i][1] = toChild[n].branch /\ asked[i][2] = toChild[n].step
Hand(a) == Recorded(a) \cup Range(pendingLive[a]) \cup Holds(a)
InHand == {i \in DOMAIN asked : i \in parked \/ \E a \in Actor : i \in Hand(a)}
Waiting(i) ==
    pc[asked[i][1]] = asked[i][2] /\ \A n \in DOMAIN toChild : toChild[n].branch # asked[i][1]
HandWaits == \A i \in InHand : Waiting(i)
ParkedApart ==
    /\ \A a \in Actor : parked \cap Recorded(a) = {}
    /\ \A i \in parked : i \in DOMAIN nodes /\ nodes[i].status # "running"

Promises ==
    /\ pc \in [Branch -> Nat] /\ LinesWait /\ LinesApart /\ AskedOnce /\ RepliesAsked
    /\ OneAnswerPerPromise /\ HandWaits /\ ParkedApart /\ IsInjective(order)

LEMMA HandFacts ==
  ASSUME IInv
  PROVE  /\ \A i \in InHand : i \in DOMAIN asked
         /\ \A a \in Actor : Recorded(a) \subseteq InHand /\ Range(pendingLive[a]) \subseteq InHand
                             /\ Holds(a) \subseteq InHand
         /\ parked \subseteq InHand
         /\ \A i \in DOMAIN asked : /\ asked[i] = <<asked[i][1], asked[i][2]>>
                                    /\ asked[i][1] \in Branch /\ asked[i][2] \in Nat
<1>1. \A a \in Actor : \A i \in Recorded(a) \cup Range(pendingLive[a]) \cup Holds(a) : i \in DOMAIN asked
  BY DEF IInv, Places, RecordedPlaces, FreshPlaces, LivePlaces, Recorded
<1>2. parked \subseteq DOMAIN asked
  BY DEF IInv, Types, GateType
<1>3. \A x \in Asks : x = <<x[1], x[2]>> /\ x[1] \in Branch /\ x[2] \in Nat
  BY ScriptAssumption DEF Asks
<1>4. \A i \in DOMAIN asked : asked[i] \in Asks
  BY DEF IInv, Types, AdmissionType
<1>5. \A i \in DOMAIN asked : /\ asked[i] = <<asked[i][1], asked[i][2]>>
                              /\ asked[i][1] \in Branch /\ asked[i][2] \in Nat
  BY <1>3, <1>4
<1>6. \A i \in InHand : i \in DOMAIN asked
  BY DEF InHand
<1>7. /\ \A a \in Actor : Recorded(a) \subseteq InHand /\ Range(pendingLive[a]) \subseteq InHand
                          /\ Holds(a) \subseteq InHand
      /\ parked \subseteq InHand
  BY <1>1, <1>2 DEF InHand, Hand
<1> QED BY <1>5, <1>6, <1>7

(* A life begins with the first asks of the branches and ends with nothing. *)
LEMMA ColdPromises ==
  ASSUME Cold, toHost' = <<>> \/ toHost' = FirstLines, IsInjective(order')
  PROVE  Promises'
<1>1. /\ asked' = <<>> /\ toChild' = <<>> /\ pc' = [b \in Branch |-> 1] /\ parked' = {}
      /\ pendingRecorded' = [a \in Actor |-> <<>>] /\ pendingLive' = [a \in Actor |-> <<>>]
      /\ liveQueue' = [a \in Actor |-> <<>>] /\ current' = [a \in Actor |-> None]
  BY DEF Cold
<1>2. DOMAIN <<>> = {} /\ Range(<<>>) = {}
  BY DEF Range
<1>3. AskedOnce' /\ RepliesAsked' /\ OneAnswerPerPromise'
  BY <1>1, <1>2 DEF AskedOnce, RepliesAsked, OneAnswerPerPromise
<1>4. InHand' = {}
  <2>1. \A a \in Actor : Recorded(a)' = {} /\ Range(pendingLive'[a]) = {} /\ Holds(a)' = {}
    BY <1>1, <1>2 DEF Recorded, Holds, Has
  <2>2. \A a \in Actor : Hand(a)' = {}
    BY <2>1 DEF Hand
  <2> QED BY <2>2, <1>1 DEF InHand
<1>5. HandWaits' /\ ParkedApart'
  BY <1>1, <1>4 DEF HandWaits, ParkedApart
<1>6. LinesWait' /\ LinesApart'
  <2>1. CASE toHost' = <<>>
    BY <2>1, <1>2 DEF LinesWait, LinesApart
  <2>2. CASE toHost' = FirstLines
    <3>1. \A k \in DOMAIN BranchOrder : BranchOrder[k] \in Branch
      BY OrderAssumption, LenProperties, ElementOfSeq
    <3>2. /\ DOMAIN FirstLines = DOMAIN BranchOrder
          /\ \A k \in DOMAIN BranchOrder : FirstLines[k].branch = BranchOrder[k] /\ FirstLines[k].step = 1
      BY DEF FirstLines, AskLine
    <3>3. \A m, n \in DOMAIN BranchOrder : BranchOrder[m] = BranchOrder[n] => m = n
      BY OrderAssumption DEF IsInjective
    <3>4. LinesWait'
      BY <2>2, <3>1, <3>2, <1>1, <1>2 DEF LinesWait
    <3>5. LinesApart'
      BY <2>2, <3>2, <3>3 DEF LinesApart
    <3> QED BY <3>4, <3>5
  <2> QED BY <2>1, <2>2
<1>7. pc' \in [Branch -> Nat]
  BY <1>1
<1> QED BY <1>3, <1>5, <1>6, <1>7 DEF Promises

LEMMA DownPromises ==
  ASSUME Down
  PROVE  Promises'
<1>1. Cold /\ toHost' = <<>> /\ order' = <<>>
  BY DEF Down
<1>2. IsInjective(<<>>)
  BY DEF IsInjective
<1> QED BY <1>1, <1>2, ColdPromises

LEMMA ResumePromises ==
  ASSUME IInv, Resume
  PROVE  Promises'
<1>1. Cold /\ toHost' = FirstLines /\ order' = RecoveredOrder(nodes, events)
  BY DEF Resume
<1>2. IsInjective(RecoveredOrder(nodes, events))
  BY RecoveredOrderType DEF IInv, Types
<1> QED BY <1>1, <1>2, ColdPromises

(* A step without lines: nobody's answer, nobody's ask. *)
LEMMA QuietPromises ==
  ASSUME Promises, UNCHANGED <<pc, toHost, toChild, asked, pendingRecorded, pendingLive, parked, order, nodes>>,
         \A a \in Actor : Holds(a)' = Holds(a)
  PROVE  Promises'
<1>1. /\ pc' = pc /\ toHost' = toHost /\ toChild' = toChild /\ asked' = asked /\ order' = order
      /\ parked' = parked /\ nodes' = nodes
      /\ pendingRecorded' = pendingRecorded /\ pendingLive' = pendingLive
  OBVIOUS
<1>2. \A a \in Actor : Recorded(a)' = Recorded(a)
  BY <1>1 DEF Recorded
<1>3. InHand' = InHand
  <2>1. \A a \in Actor : Hand(a)' = Hand(a)
    BY <1>1, <1>2 DEF Hand
  <2> QED BY <2>1, <1>1 DEF InHand
<1>4. LinesWait' /\ LinesApart' /\ AskedOnce' /\ RepliesAsked' /\ OneAnswerPerPromise'
  BY <1>1 DEF Promises, LinesWait, LinesApart, AskedOnce, RepliesAsked, OneAnswerPerPromise
<1>5. HandWaits' /\ ParkedApart'
  BY <1>1, <1>2, <1>3 DEF Promises, HandWaits, Waiting, ParkedApart
<1> QED BY <1>1, <1>4, <1>5 DEF Promises

(***************************************************************************)
(* Asks of waiting branches that leave the engine's hands are answered:    *)
(* one answer each, as no two of them are of one branch.                   *)
(***************************************************************************)
Answering(rel, Y) ==
    /\ toChild \in Seq(ReplyType) /\ rel \in Seq(DOMAIN asked') /\ IsInjective(rel)
    /\ Y \in Seq(ReplyType) /\ Len(Y) = Len(rel) /\ toChild' = toChild \o Y /\ pc' = pc
    /\ \A k \in DOMAIN rel : Y[k].branch = asked'[rel[k]][1] /\ Y[k].step = asked'[rel[k]][2]
    /\ \A i \in DOMAIN asked : i \in DOMAIN asked' /\ asked'[i] = asked[i]
    /\ \A i, j \in DOMAIN asked' : asked'[i] = asked'[j] => i = j
    /\ \A i \in DOMAIN asked' : asked'[i] = <<asked'[i][1], asked'[i][2]>>
    /\ \A i \in Range(rel) \cup InHand' :
            /\ i \in DOMAIN asked' /\ pc[asked'[i][1]] = asked'[i][2]
            /\ \A n \in DOMAIN toChild : toChild[n].branch # asked'[i][1]
    /\ InHand' \cap Range(rel) = {}

LEMMA AnswersOut ==
  ASSUME NEW rel, NEW Y, Answering(rel, Y), OneAnswerPerPromise, RepliesAsked
  PROVE  OneAnswerPerPromise' /\ RepliesAsked' /\ HandWaits'
<1> DEFINE c == toChild'
           calls == asked'
           hand == InHand'
<1>0. /\ toChild \in Seq(ReplyType) /\ rel \in Seq(DOMAIN calls) /\ IsInjective(rel)
      /\ Y \in Seq(ReplyType) /\ Len(Y) = Len(rel) /\ c = toChild \o Y /\ pc' = pc
      /\ \A k \in DOMAIN rel : Y[k].branch = calls[rel[k]][1] /\ Y[k].step = calls[rel[k]][2]
      /\ \A i, j \in DOMAIN calls : calls[i] = calls[j] => i = j
      /\ \A i \in DOMAIN calls : calls[i] = <<calls[i][1], calls[i][2]>>
  BY DEF Answering
<1>a. \A i \in DOMAIN asked : i \in DOMAIN calls /\ calls[i] = asked[i]
  BY DEF Answering
<1>b. \A i \in Range(rel) \cup hand :
            /\ i \in DOMAIN calls /\ pc[calls[i][1]] = calls[i][2]
            /\ \A n \in DOMAIN toChild : toChild[n].branch # calls[i][1]
  BY DEF Answering
<1>c. hand \cap Range(rel) = {}
  BY DEF Answering
<1> HIDE DEF c, calls, hand
<1>1. /\ Len(toChild) \in Nat /\ DOMAIN toChild = 1..Len(toChild)
      /\ Len(Y) \in Nat /\ DOMAIN Y = 1..Len(Y) /\ DOMAIN rel = 1..Len(Y)
      /\ DOMAIN c = 1..(Len(toChild) + Len(Y))
      /\ \A n \in 1..(Len(toChild) + Len(Y)) : c[n] = IF n <= Len(toChild) THEN toChild[n] ELSE Y[n - Len(toChild)]
  <2>1. /\ Len(toChild) \in Nat /\ DOMAIN toChild = 1..Len(toChild)
        /\ Len(Y) \in Nat /\ DOMAIN Y = 1..Len(Y) /\ DOMAIN rel = 1..Len(Y)
    BY <1>0, LenProperties
  <2>0. toChild \in Seq(ReplyType) /\ Y \in Seq(ReplyType)
    BY <1>0
  <2> DEFINE u == toChild \o Y
  <2>2. /\ u \in Seq(ReplyType) /\ Len(u) = Len(toChild) + Len(Y)
        /\ \A n \in 1..(Len(toChild) + Len(Y)) : u[n] = IF n <= Len(toChild) THEN toChild[n] ELSE Y[n - Len(toChild)]
    BY <2>1, <2>0, ConcatProperties
  <2>3. DOMAIN u = 1..Len(u)
    BY <2>2, LenProperties
  <2>4. c = u
    BY <1>0
  <2> HIDE DEF u
  <2> QED BY <2>1, <2>2, <2>3, <2>4
<1>2. \A k \in DOMAIN rel : rel[k] \in Range(rel)
  BY DEF Range
<1>3. \A i, j \in Range(rel) \cup hand : calls[i][1] = calls[j][1] => i = j
  <2> SUFFICES ASSUME NEW i \in Range(rel) \cup hand, NEW j \in Range(rel) \cup hand, calls[i][1] = calls[j][1]
               PROVE  i = j
    OBVIOUS
  <2>1. calls[i][2] = calls[j][2] /\ i \in DOMAIN calls /\ j \in DOMAIN calls
    BY <1>b
  <2>2. calls[i] = <<calls[i][1], calls[i][2]>> /\ calls[j] = <<calls[j][1], calls[j][2]>>
    BY <2>1, <1>0
  <2>3. calls[i] = calls[j]
    BY <2>1, <2>2
  <2> QED BY <2>1, <2>3, <1>0
<1> DEFINE new(n) == n - Len(toChild)
<1>4. ASSUME NEW n \in DOMAIN c
      PROVE  \/ n \in DOMAIN toChild /\ c[n] = toChild[n]
             \/ /\ new(n) \in DOMAIN rel /\ c[n] = Y[new(n)] /\ rel[new(n)] \in Range(rel)
                /\ c[n].branch = calls[rel[new(n)]][1] /\ c[n].step = calls[rel[new(n)]][2]
  <2>1. CASE n <= Len(toChild)
    BY <2>1, <1>1
  <2>2. CASE ~(n <= Len(toChild))
    <3>1. new(n) \in DOMAIN rel /\ c[n] = Y[new(n)]
      BY <2>2, <1>1
    <3> QED BY <3>1, <1>0, <1>2
  <2> QED BY <2>1, <2>2
<1>5. \A n \in DOMAIN c : pc[c[n].branch] = c[n].step
  <2> SUFFICES ASSUME NEW n \in DOMAIN c PROVE pc[c[n].branch] = c[n].step
    OBVIOUS
  <2>1. CASE n \in DOMAIN toChild /\ c[n] = toChild[n]
    BY <2>1 DEF OneAnswerPerPromise
  <2>2. CASE rel[new(n)] \in Range(rel) /\ c[n].branch = calls[rel[new(n)]][1] /\ c[n].step = calls[rel[new(n)]][2]
    BY <2>2, <1>b
  <2> QED BY <1>4, <2>1, <2>2
<1>6. \A m, n \in DOMAIN c : c[m].branch = c[n].branch => m = n
  <2> SUFFICES ASSUME NEW m \in DOMAIN c, NEW n \in DOMAIN c, c[m].branch = c[n].branch PROVE m = n
    OBVIOUS
  <2>1. CASE m \in DOMAIN toChild /\ c[m] = toChild[m]
    <3>1. n \in DOMAIN toChild /\ c[n] = toChild[n]
      BY <2>1, <1>4, <1>b
    <3> QED BY <2>1, <3>1 DEF OneAnswerPerPromise
  <2>2. CASE new(m) \in DOMAIN rel /\ rel[new(m)] \in Range(rel) /\ c[m].branch = calls[rel[new(m)]][1]
    <3>0. ~(n \in DOMAIN toChild /\ c[n] = toChild[n])
      <4> DEFINE i == rel[new(m)]
      <4>1. i \in Range(rel) /\ c[n].branch = calls[i][1]
        BY <2>2
      <4> HIDE DEF i
      <4> QED BY <4>1, <1>b
    <3>1. /\ new(n) \in DOMAIN rel /\ rel[new(n)] \in Range(rel)
          /\ c[n].branch = calls[rel[new(n)]][1]
      BY <3>0, <1>4
    <3>2. rel[new(m)] = rel[new(n)]
      <4> DEFINE i == rel[new(m)]
                 j == rel[new(n)]
      <4>1. i \in Range(rel) /\ j \in Range(rel) /\ calls[i][1] = calls[j][1]
        BY <2>2, <3>1
      <4> HIDE DEF i, j
      <4>2. i = j
        BY <4>1, <1>3
      <4> QED BY <4>2 DEF i, j
    <3>3. new(m) = new(n)
      BY <2>2, <3>1, <3>2, <1>0 DEF IsInjective
    <3> QED BY <3>3, <1>1
  <2> QED BY <1>4, <2>1, <2>2
<1>7. \A n \in DOMAIN c : \E i \in DOMAIN calls : calls[i][1] = c[n].branch /\ calls[i][2] = c[n].step
  <2> SUFFICES ASSUME NEW n \in DOMAIN c
               PROVE  \E i \in DOMAIN calls : calls[i][1] = c[n].branch /\ calls[i][2] = c[n].step
    OBVIOUS
  <2>1. CASE n \in DOMAIN toChild /\ c[n] = toChild[n]
    BY <2>1, <1>a DEF RepliesAsked
  <2>2. CASE rel[new(n)] \in Range(rel) /\ c[n].branch = calls[rel[new(n)]][1] /\ c[n].step = calls[rel[new(n)]][2]
    BY <2>2, <1>b
  <2> QED BY <1>4, <2>1, <2>2
<1>8. \A i \in hand : pc[calls[i][1]] = calls[i][2] /\ \A n \in DOMAIN c : c[n].branch # calls[i][1]
  <2> SUFFICES ASSUME NEW i \in hand, NEW n \in DOMAIN c PROVE c[n].branch # calls[i][1]
    BY <1>b
  <2>1. CASE n \in DOMAIN toChild /\ c[n] = toChild[n]
    BY <2>1, <1>b
  <2>2. CASE rel[new(n)] \in Range(rel) /\ c[n].branch = calls[rel[new(n)]][1]
    BY <2>2, <1>3, <1>c
  <2> QED BY <1>4, <2>1, <2>2
<1> QED BY <1>0, <1>5, <1>6, <1>7, <1>8 DEF c, calls, hand, OneAnswerPerPromise, RepliesAsked, HandWaits, Waiting

LEMMA RetunePromises ==
  ASSUME IInv, Promises, NEW n \in Caps, SetMaxConcurrency(n)
  PROVE  Promises'
<1>1. \A b \in Actor : Holds(b)' = Holds(b)
  BY RetuneHolds
<1> QED BY <1>1, QuietPromises DEF SetMaxConcurrency, script, admission, gate

LEMMA IdlePromises ==
  ASSUME Promises, UNCHANGED <<nodes, script, admission, gate, liveQueue, current>>
  PROVE  Promises'
<1>1. \A b \in Actor : Holds(b)' = Holds(b)
  BY DEF Holds, Has
<1> QED BY <1>1, QuietPromises DEF script, admission, gate

(* A branch that is answered has no other ask in the engine, and may send its next. *)
LEMMA ScriptStepPromises ==
  ASSUME IInv, Promises, ScriptStep
  PROVE  Promises'
<1> DEFINE reply == Head(toChild)
           b == reply.branch
           line == AskLine(b, reply.step + 1)
<1>1. /\ toChild # <<>> /\ toChild' = Tail(toChild) /\ pc' = [pc EXCEPT ![b] = reply.step + 1]
      /\ UNCHANGED <<nodes, admission, gate, liveQueue, current>>
      /\ \/ toHost' = toHost
         \/ \E l : toHost' = Append(toHost, l) /\ (l.kind # "ask" \/ l = line)
  <2>1. /\ toChild # <<>> /\ toChild' = Tail(toChild) /\ pc' = [pc EXCEPT ![b] = reply.step + 1]
        /\ UNCHANGED <<nodes, admission, gate, liveQueue, current>>
        /\ \/ toHost' = Append(toHost, EndLine("throw"))
           \/ toHost' = Append(toHost, line)
           \/ toHost' = Append(toHost, EndLine("complete"))
           \/ toHost' = toHost
    BY DEF ScriptStep, dispatching, journal
  <2>2. EndLine("throw").kind # "ask" /\ EndLine("complete").kind # "ask"
    BY DEF EndLine
  <2> HIDE DEF line, b, reply
  <2> QED BY <2>1, <2>2
<1>2. toChild \in Seq(ReplyType) /\ toHost \in Seq(LineType)
  BY DEF IInv, Types, PipeType
<1>3. /\ Len(toChild) \in Nat /\ DOMAIN toChild = 1..Len(toChild) /\ 1 \in DOMAIN toChild /\ toChild[1] = reply
      /\ DOMAIN toChild' = 1..(Len(toChild) - 1)
      /\ \A k \in 1..(Len(toChild) - 1) : toChild'[k] = toChild[k + 1]
  BY <1>1, <1>2, LenProperties, HeadTailProperties, EmptySeq
<1>4. PICK x \in Asks : b = x[1] /\ reply.step = x[2]
  BY <1>2, <1>3, ElementOfSeq DEF ReplyType, Reply
<1>5. b \in Branch /\ reply.step \in Nat /\ pc \in [Branch -> Nat]
  BY <1>4, ScriptAssumption DEF Asks, Promises
<1>6. line.kind = "ask" /\ line.branch = b /\ line.step = reply.step + 1
  BY DEF AskLine
<1> HIDE DEF reply, b, line
<1>7. /\ pc[b] = reply.step /\ pc'[b] = reply.step + 1 /\ \A d \in Branch : d # b => pc'[d] = pc[d]
      /\ pc' \in [Branch -> Nat]
  <2>1. pc[b] = reply.step
    BY <1>3 DEF Promises, OneAnswerPerPromise, b
  <2> QED BY <2>1, <1>1, <1>5
<1>8. \A k \in DOMAIN toChild' : /\ k + 1 \in DOMAIN toChild /\ toChild'[k] = toChild[k + 1]
                                 /\ toChild[k + 1].branch # b /\ toChild[k + 1].branch \in Branch
  <2> SUFFICES ASSUME NEW k \in DOMAIN toChild'
               PROVE  /\ k + 1 \in DOMAIN toChild /\ toChild'[k] = toChild[k + 1]
                      /\ toChild[k + 1].branch # b /\ toChild[k + 1].branch \in Branch
    OBVIOUS
  <2>1. k \in Nat /\ k + 1 \in DOMAIN toChild /\ k + 1 # 1 /\ toChild'[k] = toChild[k + 1]
    BY <1>3
  <2>2. toChild[k + 1].branch # b
    BY <2>1, <1>3 DEF Promises, OneAnswerPerPromise, b
  <2>3. PICK i \in DOMAIN asked : asked[i][1] = toChild[k + 1].branch
    BY <2>1 DEF Promises, RepliesAsked
  <2> QED BY <2>1, <2>2, <2>3, HandFacts
<1>9. \A i \in DOMAIN asked : asked[i][1] \in Branch /\ asked[i][2] \in Nat
  BY HandFacts
<1>10. asked' = asked /\ order' = order /\ parked' = parked /\ nodes' = nodes
       /\ pendingRecorded' = pendingRecorded /\ pendingLive' = pendingLive
       /\ liveQueue' = liveQueue /\ current' = current
  BY <1>1 DEF admission, gate
<1>11. AskedOnce'
  <2>1. ASSUME NEW i \in DOMAIN asked PROVE asked[i][2] <= pc'[asked[i][1]]
    <3>1. asked[i][2] <= pc[asked[i][1]]
      BY DEF Promises, AskedOnce
    <3>2. CASE asked[i][1] = b
      BY <3>1, <3>2, <1>5, <1>7, <1>9
    <3>3. CASE asked[i][1] # b
      BY <3>1, <3>3, <1>7, <1>9
    <3> QED BY <3>2, <3>3
  <2> QED BY <2>1, <1>10 DEF Promises, AskedOnce
<1>12. OneAnswerPerPromise' /\ RepliesAsked'
  <2>1. ASSUME NEW k \in DOMAIN toChild' PROVE pc'[toChild'[k].branch] = toChild'[k].step
    BY <1>7, <1>8 DEF Promises, OneAnswerPerPromise
  <2>2. ASSUME NEW k \in DOMAIN toChild', NEW m \in DOMAIN toChild', toChild'[k].branch = toChild'[m].branch
        PROVE  k = m
    <3>1. k + 1 = m + 1 /\ k \in Nat /\ m \in Nat
      BY <2>2, <1>3, <1>8 DEF Promises, OneAnswerPerPromise
    <3> QED BY <3>1
  <2>3. \A k \in DOMAIN toChild' : \E i \in DOMAIN asked :
            asked[i][1] = toChild'[k].branch /\ asked[i][2] = toChild'[k].step
    BY <1>8 DEF Promises, RepliesAsked
  <2> QED BY <2>1, <2>2, <2>3, <1>10 DEF OneAnswerPerPromise, RepliesAsked
<1>13. HandWaits' /\ ParkedApart'
  <2>1. \A a \in Actor : Recorded(a)' = Recorded(a) /\ Hand(a)' = Hand(a)
    BY <1>10 DEF Recorded, Hand, Holds, Has
  <2>2. InHand' = InHand
    BY <2>1, <1>10 DEF InHand
  <2>3. ASSUME NEW i \in InHand
        PROVE  pc'[asked[i][1]] = asked[i][2] /\ \A k \in DOMAIN toChild' : toChild'[k].branch # asked[i][1]
    <3>1. /\ pc[asked[i][1]] = asked[i][2] /\ i \in DOMAIN asked
          /\ \A k \in DOMAIN toChild : toChild[k].branch # asked[i][1]
      BY HandFacts DEF Promises, HandWaits, Waiting
    <3>2. asked[i][1] # b
      BY <3>1, <1>3 DEF b
    <3> QED BY <3>1, <3>2, <1>7, <1>8, <1>9
  <2> QED BY <2>1, <2>2, <2>3, <1>10 DEF HandWaits, Waiting, Promises, ParkedApart
<1>14. \A k \in DOMAIN toHost : toHost[k].kind = "ask" => toHost[k].branch # b /\ toHost[k].branch \in Branch
  <2> SUFFICES ASSUME NEW k \in DOMAIN toHost, toHost[k].kind = "ask"
               PROVE  toHost[k].branch # b /\ toHost[k].branch \in Branch
    OBVIOUS
  <2>1. toHost[k] \in LineType
    BY <1>2, SeqRange, LenProperties, ElementOfSeq
  <2>2. toHost[k].branch \in Branch
    BY <2>1 DEF LineType, AskLine, Asks
  <2>3. PICK i \in DOMAIN asked : asked[i][1] = b /\ asked[i][2] = reply.step
    BY <1>3 DEF Promises, RepliesAsked, b
  <2>4. pc[toHost[k].branch] = toHost[k].step /\ (asked[i][1] = toHost[k].branch => asked[i][2] < toHost[k].step)
    BY DEF Promises, LinesWait
  <2> QED BY <2>2, <2>3, <2>4, <1>5, <1>7
<1>15. LinesWait' /\ LinesApart'
  <2>1. \A k \in DOMAIN toHost : toHost[k].kind = "ask" =>
           /\ pc'[toHost[k].branch] = toHost[k].step /\ toHost[k].branch # b
           /\ \A i \in DOMAIN asked : asked[i][1] = toHost[k].branch => asked[i][2] < toHost[k].step
    BY <1>7, <1>14 DEF Promises, LinesWait
  <2>2. CASE toHost' = toHost
    BY <2>1, <2>2, <1>10 DEF LinesWait, LinesApart, Promises
  <2>3. ASSUME NEW l, toHost' = Append(toHost, l), l.kind # "ask" \/ l = line PROVE LinesWait' /\ LinesApart'
    <3>1. /\ Len(toHost) \in Nat /\ DOMAIN toHost = 1..Len(toHost) /\ DOMAIN toHost' = 1..(Len(toHost) + 1)
          /\ \A k \in 1..Len(toHost) : toHost'[k] = toHost[k]
          /\ toHost'[Len(toHost) + 1] = l
      BY <1>2, <2>3, LenProperties
    <3>2. \A k \in DOMAIN toHost' : \/ k \in DOMAIN toHost /\ toHost'[k] = toHost[k]
                                    \/ k = Len(toHost) + 1 /\ toHost'[k] = l
      BY <3>1
    <3>3. l.kind = "ask" => /\ l.branch = b /\ pc'[b] = l.step
                            /\ \A i \in DOMAIN asked : asked[i][1] = b => asked[i][2] < l.step
      <4> SUFFICES ASSUME l.kind = "ask"
                   PROVE  /\ l.branch = b /\ pc'[b] = l.step
                          /\ \A i \in DOMAIN asked : asked[i][1] = b => asked[i][2] < l.step
        OBVIOUS
      <4>1. l.branch = b /\ l.step = reply.step + 1
        BY <2>3, <1>6
      <4>2. \A i \in DOMAIN asked : asked[i][1] = b => asked[i][2] <= reply.step
        BY <1>7 DEF Promises, AskedOnce
      <4> QED BY <4>1, <4>2, <1>5, <1>7, <1>9
    <3>4. LinesWait'
      BY <2>1, <3>2, <3>3, <1>10 DEF LinesWait
    <3>5. LinesApart'
      BY <2>1, <3>2, <3>3 DEF LinesApart, Promises
    <3> QED BY <3>4, <3>5
  <2> QED BY <1>1, <2>2, <2>3
<1>16. IsInjective(order')
  BY <1>10 DEF Promises
<1> QED BY <1>7, <1>11, <1>12, <1>13, <1>15, <1>16 DEF Promises

LEMMA Singleton ==
  ASSUME NEW T, NEW x \in T
  PROVE  /\ <<x>> \in Seq(T) /\ Len(<<x>>) = 1 /\ DOMAIN <<x>> = {1} /\ <<x>>[1] = x
         /\ Range(<<x>>) = {x} /\ IsInjective(<<x>>)
BY DEF Range, IsInjective

(* A settled ask is in no hand afterwards. *)
LEMMA SettleHands ==
  ASSUME IInv, Promises, NEW a \in Actor, current[a] # None, NEW st \in Terminal,
         NEW sess, SettleNode(a, st, sess)
  PROVE  InHand' \subseteq InHand /\ current[a] \in DOMAIN asked /\ current[a] \notin InHand'
<1> DEFINE inst == current[a]
<1>1. UNCHANGED <<pc, toHost, admission, gate>>
  BY DEF SettleNode
<1>2. /\ inst \in DOMAIN nodes /\ inst \in Holds(a) /\ nodes[inst].status = "running"
      /\ inst \in DOMAIN asked
  BY CurrentRow DEF Holds, Has
<1>3. asked' = asked /\ parked' = parked /\ pendingRecorded' = pendingRecorded /\ pendingLive' = pendingLive
  BY <1>1 DEF admission, gate
<1>4. \A b \in Actor : Holds(b)' = IF b = a THEN Holds(b) \ {inst} ELSE Holds(b)
  BY SettleHolds
<1> HIDE DEF inst
<1>5. inst \notin parked
  BY <1>2 DEF Promises, ParkedApart
<1>6. ASSUME NEW b \in Actor
      PROVE  inst \notin Recorded(b) /\ inst \notin Range(pendingLive[b]) /\ (b # a => inst \notin Holds(b))
  <2>1. inst \notin Range(pendingLive[b])
    BY <1>2 DEF IInv, Places, FreshPlaces
  <2>2. inst \notin Recorded(b)
    BY <1>2 DEF IInv, Places, RecordedPlaces, LivePlaces, Recorded
  <2>3. b # a => inst \notin Holds(b)
    BY <1>2 DEF IInv, Places, LivePlaces
  <2> QED BY <2>1, <2>2, <2>3
<1>7. \A b \in Actor : Recorded(b)' = Recorded(b)
  BY <1>3 DEF Recorded
<1>8. \A b \in Actor : Hand(b)' \subseteq Hand(b) /\ inst \notin Hand(b)'
  BY <1>3, <1>4, <1>6, <1>7 DEF Hand
<1> QED BY <1>2, <1>3, <1>5, <1>8 DEF InHand, inst

(* The answer of a settled ask goes to a branch that waits for nothing else. *)
LEMMA SettleNodePromises ==
  ASSUME IInv, Promises, NEW a \in Actor, current[a] # None, NEW st \in Terminal,
         NEW sess, SettleNode(a, st, sess)
  PROVE  Promises'
<1> DEFINE inst == current[a]
           outcome == IF st = "completed" THEN "ok" ELSE "failed"
           answer == Reply(asked[inst], outcome)
           Y == <<answer>>
<1>1. /\ nodes' = [nodes EXCEPT ![inst].status = st]
      /\ toChild' = Append(toChild, answer)
      /\ UNCHANGED <<pc, toHost, admission, gate>>
  BY DEF SettleNode
<1>2. /\ inst \in DOMAIN nodes /\ nodes \in [DOMAIN nodes -> RowType] /\ inst \in Holds(a)
      /\ nodes[inst].status = "running"
      /\ inst \in DOMAIN asked /\ ActorOf(asked[inst]) = a /\ asked[inst] \in Asks
  BY CurrentRow DEF Holds, Has
<1>3. DOMAIN nodes' = DOMAIN nodes /\ \A i \in DOMAIN nodes : i # inst => nodes'[i] = nodes[i]
  BY <1>1, <1>2
<1>4. asked' = asked /\ order' = order /\ parked' = parked /\ pc' = pc /\ toHost' = toHost
      /\ pendingRecorded' = pendingRecorded /\ pendingLive' = pendingLive
  BY <1>1 DEF admission, gate
<1>5. \A b \in Actor : Holds(b)' = IF b = a THEN Holds(b) \ {inst} ELSE Holds(b)
  BY SettleHolds
<1>6. toChild \in Seq(ReplyType) /\ answer \in ReplyType /\ answer.branch = asked[inst][1] /\ answer.step = asked[inst][2]
  <2>1. outcome \in {"ok", "failed"}
    OBVIOUS
  <2>2. toChild \in Seq(ReplyType)
    BY DEF IInv, Types, PipeType
  <2>3. asked[inst] \in Asks
    BY <1>2
  <2>4. answer = Reply(asked[inst], outcome)
    OBVIOUS
  <2> HIDE DEF outcome, answer, inst
  <2>5. answer \in ReplyType
    BY <2>1, <2>3, <2>4 DEF ReplyType
  <2>6. answer.branch = asked[inst][1] /\ answer.step = asked[inst][2]
    BY <2>4 DEF Reply
  <2> QED BY <2>2, <2>5, <2>6
<1> HIDE DEF inst, answer
<1>7. Y \in Seq(ReplyType) /\ Len(Y) = 1 /\ Y[1] = answer /\ toChild' = toChild \o Y
  BY <1>1, <1>6, Singleton, AppendIsConcat
<1> HIDE DEF Y
<1>9. \A b \in Actor : Recorded(b)' = Recorded(b)
  BY <1>4 DEF Recorded
<1>10. InHand' \subseteq InHand /\ inst \notin InHand'
  BY SettleHands DEF inst
<1>11. inst \in InHand
  BY <1>2, HandFacts
<1>12. OneAnswerPerPromise' /\ RepliesAsked' /\ HandWaits'
  <2> DEFINE rel == <<inst>>
  <2>1. rel \in Seq(DOMAIN asked) /\ IsInjective(rel) /\ Len(Y) = Len(rel) /\ Range(rel) = {inst}
        /\ DOMAIN rel = {1} /\ rel[1] = inst
    BY <1>2, <1>7, Singleton
  <2> HIDE DEF rel
  <2>2. \A k \in DOMAIN rel : Y[k].branch = asked'[rel[k]][1] /\ Y[k].step = asked'[rel[k]][2]
    BY <2>1, <1>4, <1>6, <1>7
  <2>3. \A i \in InHand : /\ i \in DOMAIN asked /\ pc[asked[i][1]] = asked[i][2]
                          /\ \A n \in DOMAIN toChild : toChild[n].branch # asked[i][1]
    BY HandFacts DEF Promises, HandWaits, Waiting
  <2>4. \A i \in Range(rel) \cup InHand' :
            /\ i \in DOMAIN asked' /\ pc[asked'[i][1]] = asked'[i][2]
            /\ \A n \in DOMAIN toChild : toChild[n].branch # asked'[i][1]
    BY <2>1, <2>3, <1>4, <1>10, <1>11
  <2>5. InHand' \cap Range(rel) = {}
    BY <2>1, <1>10
  <2>6. OneAnswerPerPromise /\ RepliesAsked /\ \A i, j \in DOMAIN asked' : asked'[i] = asked'[j] => i = j
    BY <1>4 DEF Promises, AskedOnce
  <2>7. \A i \in DOMAIN asked' : asked'[i] = <<asked'[i][1], asked'[i][2]>>
    BY <1>4, HandFacts
  <2>8. \A i \in DOMAIN asked : i \in DOMAIN asked' /\ asked'[i] = asked[i]
    BY <1>4
  <2>9. /\ toChild \in Seq(ReplyType) /\ Y \in Seq(ReplyType) /\ Len(Y) = Len(rel)
        /\ toChild' = toChild \o Y /\ pc' = pc /\ rel \in Seq(DOMAIN asked') /\ IsInjective(rel)
    BY <2>1, <1>4, <1>6, <1>7
  <2>10. Answering(rel, Y)
    BY <2>2, <2>4, <2>5, <2>6, <2>7, <2>8, <2>9, Zenon DEF Answering
  <2> QED BY <2>6, <2>10, AnswersOut
<1>13. ParkedApart'
  BY <1>2, <1>3, <1>4, <1>9 DEF Promises, ParkedApart
<1>14. LinesWait' /\ LinesApart' /\ AskedOnce' /\ pc' \in [Branch -> Nat] /\ IsInjective(order')
  BY <1>4 DEF Promises, LinesWait, LinesApart, AskedOnce
<1> QED BY <1>12, <1>13, <1>14 DEF Promises

(***************************************************************************)
(* With a table that names no ask twice, the gate releases each answer it  *)
(* is given or keeps it, not both, and releases none twice.                *)
(***************************************************************************)
LEMMA HoldReleases ==
  ASSUME GateType, IsInjective(order), NEW D, parked \subseteq D, NEW answers \in Seq(D),
         IsInjective(answers), Range(answers) \cap parked = {}
  PROVE  /\ Hold(answers).released \in Seq(D) /\ IsInjective(Hold(answers).released)
         /\ Range(Hold(answers).released) \subseteq parked \cup Range(answers)
         /\ Hold(answers).parked \subseteq (parked \cup Range(answers)) \ Range(Hold(answers).released)
<1> DEFINE fresh == {i \in DOMAIN nodes : ~InTable(i)}
           direct == Keep(answers, fresh)
           waiting == parked \cup {i \in Range(answers) : InTable(i)}
           S == {n \in DOMAIN order : order[n] \in waiting}
           turn == RunLength(S, cursor)
           due == SubSeq(order, cursor, cursor + turn - 1)
<1>0. order \in Seq(Instance) /\ Len(order) \in Nat /\ DOMAIN order = 1..Len(order)
      /\ cursor \in 1..(Len(order) + 1) /\ cursor \in Nat
  BY LenProperties DEF GateType
<1>1. direct \in Seq(D) /\ Range(direct) = Range(answers) \cap fresh /\ IsInjective(direct)
  BY KeepRange
<1>2. Range(answers) \subseteq D
  BY LenProperties, ElementOfSeq DEF Range
<1>3. waiting \subseteq D
  BY <1>2
<1>4. Hold(answers) = [released |-> direct \o due, parked |-> waiting \ Range(due), cursor |-> cursor + turn]
  BY DEF Hold
<1>5. /\ \A i \in Range(direct) : i \in Range(answers) /\ ~InTable(i)
      /\ \A i \in waiting : i \in parked \cup Range(answers)
      /\ \A i \in waiting : i \in Range(answers) => i \in parked \/ InTable(i)
  BY <1>1
<1> HIDE DEF direct, waiting
<1>6. S \in SUBSET Nat /\ IsFiniteSet(S)
  <2>1. S \in SUBSET (1..Len(order)) /\ IsFiniteSet(1..Len(order))
    BY <1>0, FS_Interval
  <2> QED BY <2>1, FS_Subset
<1>7. \A n \in S : n \in 1..Len(order) /\ order[n] \in waiting
  BY <1>0
<1> HIDE DEF S
<1>8. turn \in Nat /\ \A j \in 0..(turn - 1) : cursor + j \in S
  BY <1>0, <1>6, RunLengthFacts
<1> HIDE DEF turn
<1>9. \A n \in cursor..(cursor + turn - 1) : n \in DOMAIN order /\ n >= cursor /\ order[n] \in waiting
  <2> SUFFICES ASSUME NEW n \in cursor..(cursor + turn - 1) PROVE n \in S
    BY <1>0, <1>7, <1>8
  <2>1. n - cursor \in 0..(turn - 1) /\ cursor + (n - cursor) = n
    BY <1>0, <1>8
  <2> QED BY <2>1, <1>8
<1>10. /\ due \in Seq(D) /\ Len(due) = turn /\ DOMAIN due = 1..turn
       /\ \A k \in 1..turn : due[k] = order[(cursor + k) - 1]
  <2>1. \A n \in cursor..(cursor + turn - 1) : order[n] \in D
    BY <1>3, <1>9
  <2> DEFINE last == cursor + turn - 1
  <2>2. /\ cursor \in Int /\ last \in Int /\ due = SubSeq(order, cursor, last)
        /\ \A n \in cursor..last : order[n] \in D
        /\ last = (cursor + turn) - 1
    BY <2>1, <1>0, <1>8
  <2> HIDE DEF last, due
  <2>3. due \in Seq(D) /\ Len(due) = (IF cursor <= last THEN (last - cursor) + 1 ELSE 0)
        /\ \A k \in 1..((last - cursor) + 1) : due[k] = order[(cursor + k) - 1]
    <3>1. /\ SubSeq(order, cursor, last) \in Seq(D)
          /\ Len(SubSeq(order, cursor, last)) = (IF cursor <= last THEN last-cursor+1 ELSE 0)
          /\ \A k \in 1 .. last-cursor+1 : SubSeq(order, cursor, last)[k] = order[cursor+k-1]
      BY <2>2, SubSeqProperties
    <3>2. /\ (last-cursor+1) = (last - cursor) + 1
          /\ \A k \in Nat : (cursor+k-1) = (cursor + k) - 1
      BY <2>2
    <3> QED BY <3>1, <3>2, <2>2
  <2>4. cursor \in Nat /\ turn \in Nat /\ last \in Int /\ last = (cursor + turn) - 1
    BY <2>2, <1>0, <1>8
  <2> HIDE DEF turn
  <2>5. (last - cursor) + 1 = turn
    BY <2>4
  <2>6. Len(due) = turn
    <3>1. CASE turn = 0
      BY <2>3, <2>4, <3>1
    <3>2. CASE turn # 0
      BY <2>3, <2>4, <2>5, <3>2
    <3> QED BY <3>1, <3>2
  <2> QED BY <2>3, <2>5, <2>6, LenProperties
<1> HIDE DEF due
<1>11. \A k \in DOMAIN due : /\ (cursor + k) - 1 \in cursor..(cursor + turn - 1) /\ k \in Nat
                             /\ due[k] = order[(cursor + k) - 1]
  BY <1>0, <1>8, <1>10
<1>12. IsInjective(due)
  <2> SUFFICES ASSUME NEW k \in DOMAIN due, NEW m \in DOMAIN due, due[k] = due[m] PROVE k = m
    BY DEF IsInjective
  <2>1. (cursor + k) - 1 = (cursor + m) - 1
    BY <1>9, <1>11 DEF IsInjective
  <2> QED BY <2>1, <1>0, <1>11
<1>13. \A i \in Range(due) : i \in waiting /\ InTable(i)
  <2> SUFFICES ASSUME NEW k \in DOMAIN due PROVE due[k] \in waiting /\ InTable(due[k])
    BY DEF Range
  <2> QED BY <1>9, <1>11 DEF InTable
<1>14. Range(direct) \cap Range(due) = {}
  BY <1>5, <1>13
<1>15. /\ direct \o due \in Seq(D) /\ Range(direct \o due) = Range(direct) \cup Range(due)
       /\ IsInjective(direct \o due)
  BY <1>1, <1>10, <1>12, <1>14, ConcatRange
<1>16. Range(direct \o due) \subseteq parked \cup Range(answers)
  BY <1>5, <1>13, <1>15
<1>17. waiting \ Range(due) \subseteq (parked \cup Range(answers)) \ Range(direct \o due)
  BY <1>5, <1>15
<1> QED BY <1>4, <1>15, <1>16, <1>17

(* The replies of an admission are those of the answers the gate lets go. *)
LEMMA DrainReplies ==
  ASSUME IInv, IsInjective(order), NEW a \in Actor, NEW rec, NEW fresh, NEW calls, NEW S,
         Admissible(a, rec, fresh, calls), Drain(a, rec, fresh, calls, S),
         Range(Answered(a, rec)) \cap parked = {}
  PROVE  \E rel \in Seq(DOMAIN calls), Y \in Seq(ReplyType) :
            /\ IsInjective(rel) /\ Len(Y) = Len(rel) /\ toChild' = toChild \o Y
            /\ \A k \in DOMAIN rel : Y[k].branch = calls[rel[k]][1] /\ Y[k].step = calls[rel[k]][2]
            /\ Range(rel) \subseteq parked \cup Range(Answered(a, rec))
            /\ parked' \subseteq (parked \cup Range(Answered(a, rec))) \ Range(rel)
<1> DEFINE answers == Answered(a, rec)
           rel == Hold(answers).released
           Y == [k \in DOMAIN rel |-> Reply(calls[rel[k]], OutcomeOf(rel[k]))]
<1>1. toChild' = toChild \o Y /\ parked' = Hold(answers).parked
  BY DEF Drain, Answered, In, Run
<1>2. answers \in Seq(DOMAIN calls) /\ IsInjective(answers)
  <2>1. In(a, rec) \in Seq(DOMAIN calls) /\ IsInjective(In(a, rec))
    BY BatchFacts DEF IInv
  <2> QED BY <2>1, KeepRange DEF Answered
<1>3. /\ calls \in [DOMAIN calls -> Asks] /\ DOMAIN calls \subseteq Instance
      /\ parked \subseteq DOMAIN calls
  BY DEF Admissible, IInv, Types, GateType
<1>4. GateType
  BY DEF IInv, Types
<1> HIDE DEF answers
<1>5. /\ rel \in Seq(DOMAIN calls) /\ IsInjective(rel)
      /\ Range(rel) \subseteq parked \cup Range(answers)
      /\ Hold(answers).parked \subseteq (parked \cup Range(answers)) \ Range(rel)
  BY <1>2, <1>3, <1>4, HoldReleases DEF answers
<1> HIDE DEF rel
<1>6. Y \in Seq(ReplyType)
  BY <1>3, <1>5, ReleaseFacts
<1>7. Len(rel) \in Nat /\ DOMAIN rel = 1..Len(rel)
  BY <1>5, LenProperties
<1>8. Len(Y) = Len(rel)
  <2>1. DOMAIN Y = 1..Len(rel)
    BY <1>7
  <2> HIDE DEF Y
  <2>2. DOMAIN Y = 1..Len(Y) /\ Len(Y) \in Nat
    BY <1>6, LenProperties
  <2> QED BY <1>7, <2>1, <2>2
<1>9. \A k \in DOMAIN rel : Y[k].branch = calls[rel[k]][1] /\ Y[k].step = calls[rel[k]][2]
  BY DEF Reply
<1> HIDE DEF Y
<1> QED BY <1>1, <1>5, <1>6, <1>8, <1>9 DEF answers

(* An answer that was parked or is recorded now is in no other hand afterwards. *)
LEMMA AnswersApart ==
  ASSUME IInv, IInv', Promises, NEW a \in Actor, NEW inst, NEW rec, NEW fresh, NEW calls, NEW S,
         Claims(inst, a, rec, fresh, calls), Drain(a, rec, fresh, calls, S), asked' = calls,
         NEW i \in parked \cup Range(Answered(a, rec))
  PROVE  /\ i \in DOMAIN nodes /\ i \in DOMAIN nodes' /\ nodes'[i].status # "running"
         /\ \A b \in Actor : i \notin Hand(b)'
         /\ i \in parked => i \notin Range(Answered(a, rec))
<1> DEFINE seq == nextAdmitSeq[a]
           run == Run(a, rec)
<1>1. /\ Admissible(a, rec, fresh, calls) /\ inst \notin DOMAIN asked
      /\ \A n \in DOMAIN rec :
            \/ n \in DOMAIN pendingRecorded[a] /\ rec[n] = pendingRecorded[a][n]
            \/ rec[n] = inst
  BY DEF Claims
<1>2. Range(Answered(a, rec)) = Range(In(a, rec)) \cap {j \in DOMAIN nodes : ~RunsAgain(j)}
  BY <1>1, BatchFacts, KeepRange DEF Answered, IInv
<1>3. /\ Range(In(a, rec)) = {rec[n] : n \in seq..(seq + run - 1)}
      /\ \A n \in seq..(seq + run - 1) : n \in DOMAIN rec
  BY <1>1, BatchFacts DEF IInv
<1>4. i \in DOMAIN nodes /\ nodes[i].status # "running"
  BY <1>2 DEF RunsAgain, Promises, ParkedApart
<1>5. /\ DOMAIN nodes \subseteq DOMAIN nodes' /\ nodes'[i].status = nodes[i].status
  BY <1>1, <1>4, DrainJournal DEF IInv, SameAsk
<1>6. \A n \in DOMAIN rec : rec[n] \in Recorded(a) \cup {inst} /\ nodes[rec[n]].seq = n
  BY <1>1 DEF Recorded, Admissible
<1>7. i \in parked => i \in DOMAIN asked /\ i # inst /\ \A b \in Actor : i \notin Recorded(b)
  BY <1>1 DEF IInv, Types, GateType, Promises, ParkedApart
<1>8. i \in Range(Answered(a, rec)) => \E n \in seq..(seq + run - 1) : n \in DOMAIN rec /\ i = rec[n]
  BY <1>2, <1>3
<1>9. i \in parked => i \notin Range(Answered(a, rec))
  BY <1>6, <1>7, <1>8
<1>10. /\ DOMAIN pendingRecorded = Actor
       /\ pendingRecorded' = [pendingRecorded EXCEPT ![a] = Restrict(rec, DOMAIN rec \ (seq..(seq + run - 1)))]
  BY DEF Drain, Run, IInv, Types, AdmissionType
<1> HIDE DEF seq, run
<1>11. /\ pendingRecorded'[a] = [n \in DOMAIN rec \ (seq..(seq + run - 1)) |-> rec[n]]
       /\ \A b \in Actor : b # a => pendingRecorded'[b] = pendingRecorded[b]
  BY <1>10 DEF Restrict
<1>12. ASSUME NEW b \in Actor PROVE i \notin Recorded(b)'
  <2>1. CASE b = a
    <3> SUFFICES ASSUME NEW n \in DOMAIN rec, n \notin seq..(seq + run - 1), i = rec[n] PROVE FALSE
      BY <2>1, <1>11 DEF Recorded
    <3>1. CASE i \in parked
      BY <3>1, <1>6, <1>7
    <3>2. CASE i \in Range(Answered(a, rec))
      BY <3>2, <1>6, <1>8
    <3> QED BY <3>1, <3>2
  <2>2. CASE b # a
    <3>0. Recorded(b)' = Recorded(b)
      BY <2>2, <1>11 DEF Recorded
    <3>1. CASE i \in parked
      BY <3>0, <3>1, <1>7
    <3>2. CASE i \in Range(Answered(a, rec))
      <4>1. ActorOf(calls[i]) = a
        BY <3>2, <1>1, <1>8 DEF Admissible
      <4>2. \A j \in Recorded(b)' : ActorOf(calls[j]) = b
        BY DEF IInv, Places, RecordedPlaces, Recorded
      <4> QED BY <2>2, <4>1, <4>2
    <3> QED BY <3>1, <3>2
  <2> QED BY <2>1, <2>2
<1>13. ASSUME NEW b \in Actor PROVE i \notin Holds(b)'
  BY <1>4, <1>5 DEF IInv, Places, LivePlaces
<1>14. ASSUME NEW b \in Actor PROVE i \notin Range(pendingLive'[b])
  <2>1. pendingLive' = [pendingLive EXCEPT ![a] = IF Admitted(a, rec, fresh) = <<>> THEN fresh ELSE <<>>]
        /\ DOMAIN pendingLive = Actor
    BY DEF Drain, Admitted, Run, IInv, Types, AdmissionType
  <2>2. Range(<<>>) = {}
    BY DEF Range
  <2>3. CASE b = a
    <3>1. i \notin Range(fresh)
      BY <1>1, <1>4 DEF Admissible
    <3>2. pendingLive'[b] = fresh \/ pendingLive'[b] = <<>>
      BY <2>1, <2>3
    <3> QED BY <3>1, <3>2, <2>2
  <2>4. CASE b # a
    <3>1. pendingLive'[b] = pendingLive[b]
      BY <2>1, <2>4
    <3> QED BY <3>1, <1>4 DEF IInv, Places, FreshPlaces
  <2> QED BY <2>3, <2>4
<1>15. \A b \in Actor : i \notin Hand(b)'
  BY <1>12, <1>13, <1>14 DEF Hand
<1> QED BY <1>4, <1>5, <1>9, <1>15

(* A line reaches the engine: its branch waits for this ask, and for no other. *)
LEMMA LinePromises ==
  ASSUME IInv, Promises, NEW inst, NEW calls, toHost # <<>>, Head(toHost).kind = "ask",
         toHost' = Tail(toHost), pc' = pc, asked' = calls,
         inst \notin DOMAIN asked, DOMAIN calls = DOMAIN asked \cup {inst},
         calls[inst] = <<Head(toHost).branch, Head(toHost).step>>, calls \in [DOMAIN calls -> Asks],
         \A i \in DOMAIN asked : calls[i] = asked[i]
  PROVE  /\ LinesWait' /\ LinesApart' /\ AskedOnce'
         /\ \A i \in DOMAIN calls : calls[i] = <<calls[i][1], calls[i][2]>>
         /\ pc[calls[inst][1]] = calls[inst][2]
         /\ \A n \in DOMAIN toChild : toChild[n].branch # calls[inst][1]
<1> DEFINE b == Head(toHost).branch
           step == Head(toHost).step
<1>1. toHost \in Seq(LineType)
  BY DEF IInv, Types, PipeType
<1>2. /\ Len(toHost) \in Nat /\ DOMAIN toHost = 1..Len(toHost) /\ 1 \in DOMAIN toHost
      /\ toHost[1].branch = b /\ toHost[1].step = step /\ toHost[1].kind = "ask"
      /\ DOMAIN toHost' = 1..(Len(toHost) - 1)
      /\ \A k \in 1..(Len(toHost) - 1) : toHost'[k] = toHost[k + 1]
  BY <1>1, LenProperties, HeadTailProperties, EmptySeq
<1> HIDE DEF b, step
<1>3. pc[b] = step /\ \A i \in DOMAIN asked : asked[i][1] = b => asked[i][2] < step
  BY <1>2 DEF Promises, LinesWait
<1>4. calls[inst][1] = b /\ calls[inst][2] = step
  BY DEF b, step
<1>5. \A i \in DOMAIN calls : /\ calls[i] = <<calls[i][1], calls[i][2]>>
                              /\ calls[i][1] \in Branch /\ calls[i][2] \in Nat
  <2>1. \A x \in Asks : x = <<x[1], x[2]>> /\ x[1] \in Branch /\ x[2] \in Nat
    BY ScriptAssumption DEF Asks
  <2>2. \A i \in DOMAIN calls : calls[i] \in Asks
    OBVIOUS
  <2> QED BY <2>1, <2>2
<1>6. step \in Nat
  BY <1>4, <1>5
<1>7. \A k \in DOMAIN toHost' : k + 1 \in DOMAIN toHost /\ k + 1 # 1 /\ toHost'[k] = toHost[k + 1]
  BY <1>2
<1>8. \A k \in DOMAIN toHost' : toHost'[k].kind = "ask" => toHost'[k].branch # b
  BY <1>2, <1>7 DEF Promises, LinesApart
<1>9. LinesWait'
  BY <1>4, <1>7, <1>8 DEF Promises, LinesWait
<1>10. LinesApart'
  <2> SUFFICES ASSUME NEW m \in DOMAIN toHost', NEW n \in DOMAIN toHost', toHost'[m].kind = "ask",
                      toHost'[n].kind = "ask", toHost'[m].branch = toHost'[n].branch
               PROVE  m = n
    BY DEF LinesApart
  <2>1. m + 1 = n + 1
    BY <1>7 DEF Promises, LinesApart
  <2> QED BY <2>1, <1>2
<1>11. AskedOnce'
  <2>1. ASSUME NEW i \in DOMAIN calls PROVE calls[i][2] <= pc[calls[i][1]]
    <3>1. CASE i = inst
      BY <3>1, <1>3, <1>4, <1>6
    <3>2. CASE i # inst
      BY <3>2 DEF Promises, AskedOnce
    <3> QED BY <3>1, <3>2
  <2>2. ASSUME NEW i \in DOMAIN asked PROVE calls[i] # calls[inst]
    BY <1>3, <1>4, <1>6
  <2>3. ASSUME NEW i \in DOMAIN calls, NEW j \in DOMAIN calls, calls[i] = calls[j] PROVE i = j
    <3>1. CASE i = inst \/ j = inst
      BY <2>2, <2>3, <3>1
    <3>2. CASE i # inst /\ j # inst
      BY <2>3, <3>2 DEF Promises, AskedOnce
    <3> QED BY <3>1, <3>2
  <2> QED BY <2>1, <2>3 DEF AskedOnce
<1>12. ASSUME NEW n \in DOMAIN toChild PROVE toChild[n].branch # b
  <2>1. PICK i \in DOMAIN asked : asked[i][1] = toChild[n].branch /\ asked[i][2] = toChild[n].step
    BY DEF Promises, RepliesAsked
  <2>2. pc[toChild[n].branch] = toChild[n].step
    BY DEF Promises, OneAnswerPerPromise
  <2> QED BY <2>1, <2>2, <1>3, <1>6
<1> QED BY <1>3, <1>4, <1>5, <1>9, <1>10, <1>11, <1>12

(* After an admission the engine holds what it held and, if it is not answered, the new ask. *)
LEMMA DrainHands ==
  ASSUME IInv, IInv', Promises, NEW a \in Actor, NEW inst, NEW rec, NEW fresh, NEW calls, NEW S \in SUBSET Actor,
         a \in S, Claims(inst, a, rec, fresh, calls), Drain(a, rec, fresh, calls, S), asked' = calls
  PROVE  /\ InHand' \subseteq InHand \cup {inst}
         /\ Range(Answered(a, rec)) \subseteq InHand \cup {inst}
<1> DEFINE answers == Range(Answered(a, rec))
<1>1. /\ Admissible(a, rec, fresh, calls)
      /\ Range(fresh) \subseteq Range(pendingLive[a]) \cup {inst}
      /\ \A n \in DOMAIN rec :
            \/ n \in DOMAIN pendingRecorded[a] /\ rec[n] = pendingRecorded[a][n]
            \/ rec[n] = inst
  BY DEF Claims
<1>2. answers \subseteq Recorded(a) \cup {inst} /\ \A n \in DOMAIN rec : rec[n] \in Recorded(a) \cup {inst}
  <2>1. \A n \in DOMAIN rec : rec[n] \in Recorded(a) \cup {inst}
    BY <1>1 DEF Recorded
  <2>2. \A i \in Range(In(a, rec)) : \E n \in DOMAIN rec : i = rec[n]
    BY <1>1, LiveFacts DEF IInv
  <2>3. answers \subseteq Range(In(a, rec))
    BY <1>1, BatchFacts, KeepRange DEF Answered, IInv
  <2> QED BY <2>1, <2>2, <2>3
<1>3. answers \subseteq InHand \cup {inst}
  BY <1>2, HandFacts
<1>4. parked' \subseteq InHand \cup {inst}
  <2>1. answers \cap parked = {} /\ IsInjective(order)
    BY AnswersApart DEF Promises
  <2>2. parked' \subseteq parked \cup answers
    BY <2>1, <1>1, DrainReplies
  <2> QED BY <2>2, <1>3, HandFacts
<1> HIDE DEF answers
<1>5. ASSUME NEW b \in Actor PROVE Hand(b)' \subseteq InHand \cup {inst}
  <2>1. /\ pendingRecorded' = [pendingRecorded EXCEPT ![a] =
               Restrict(rec, DOMAIN rec \ (nextAdmitSeq[a]..(nextAdmitSeq[a] + Run(a, rec) - 1)))]
        /\ pendingLive' = [pendingLive EXCEPT ![a] = IF Admitted(a, rec, fresh) = <<>> THEN fresh ELSE <<>>]
        /\ DOMAIN pendingLive = Actor /\ DOMAIN pendingRecorded = Actor
    BY DEF Drain, Admitted, Run, IInv, Types, AdmissionType
  <2>2. Range(<<>>) = {}
    BY DEF Range
  <2>3. Recorded(b)' \subseteq InHand \cup {inst}
    <3>1. CASE b = a
      <4>1. \A n \in DOMAIN pendingRecorded'[b] : n \in DOMAIN rec /\ pendingRecorded'[b][n] = rec[n]
        BY <2>1, <3>1 DEF Restrict
      <4> QED BY <4>1, <1>2, HandFacts DEF Recorded
    <3>2. CASE b # a
      <4>1. Recorded(b)' = Recorded(b)
        BY <2>1, <3>2 DEF Recorded
      <4> QED BY <4>1, HandFacts
    <3> QED BY <3>1, <3>2
  <2>4. Range(pendingLive'[b]) \subseteq InHand \cup {inst}
    <3>1. CASE b = a
      <4>1. pendingLive'[b] = fresh \/ pendingLive'[b] = <<>>
        BY <2>1, <3>1
      <4> QED BY <4>1, <2>2, <1>1, HandFacts
    <3>2. CASE b # a
      <4>1. pendingLive'[b] = pendingLive[b]
        BY <2>1, <3>2
      <4> QED BY <4>1, HandFacts
    <3> QED BY <3>1, <3>2
  <2>5. Holds(b)' \subseteq InHand \cup {inst}
    <3>1. Has(liveQueue', current', b) = Holds(b) \cup (IF b = a THEN Range(Live(a, rec, fresh)) ELSE {})
      BY <1>1, DrainQueues
    <3>2. /\ Range(Live(a, rec, fresh)) =
              {i \in Range(In(a, rec)) : RunsAgain(i)} \cup Range(Admitted(a, rec, fresh))
          /\ \A i \in Range(In(a, rec)) : \E n \in DOMAIN rec : i = rec[n]
          /\ Range(Admitted(a, rec, fresh)) \subseteq Range(fresh)
      BY <1>1, LiveFacts, BatchFacts DEF IInv
    <3>3. Range(Live(a, rec, fresh)) \subseteq InHand \cup {inst}
      BY <3>2, <1>1, <1>2, HandFacts
    <3>4. Holds(b)' = Has(liveQueue', current', b)
      BY DEF Holds, Has
    <3> QED BY <3>1, <3>3, <3>4, HandFacts
  <2> QED BY <2>3, <2>4, <2>5 DEF Hand
<1>6. InHand' \subseteq InHand \cup {inst}
  BY <1>4, <1>5 DEF InHand
<1> QED BY <1>3, <1>6 DEF answers

LEMMA DrainPromises ==
  ASSUME IInv, IInv', Promises, NEW a \in Actor, NEW inst, NEW rec, NEW fresh, NEW calls, NEW S \in SUBSET Actor,
         a \in S, Claims(inst, a, rec, fresh, calls), Drain(a, rec, fresh, calls, S), asked' = calls,
         toHost # <<>>, Head(toHost).kind = "ask", toHost' = Tail(toHost), pc' = pc, order' = order
  PROVE  Promises'
<1> DEFINE answers == Range(Answered(a, rec))
<1>1. /\ Admissible(a, rec, fresh, calls) /\ inst \notin DOMAIN asked
      /\ DOMAIN calls = DOMAIN asked \cup {inst} /\ calls \in [DOMAIN calls -> Asks]
      /\ calls[inst] = <<Head(toHost).branch, Head(toHost).step>>
      /\ \A i \in DOMAIN asked : calls[i] = asked[i]
      /\ Range(fresh) \subseteq Range(pendingLive[a]) \cup {inst}
      /\ \A n \in DOMAIN rec :
            \/ n \in DOMAIN pendingRecorded[a] /\ rec[n] = pendingRecorded[a][n]
            \/ rec[n] = inst
  BY DEF Claims, Admissible
<1>2. /\ LinesWait' /\ LinesApart' /\ AskedOnce'
      /\ \A i \in DOMAIN calls : calls[i] = <<calls[i][1], calls[i][2]>>
      /\ pc[calls[inst][1]] = calls[inst][2]
      /\ \A n \in DOMAIN toChild : toChild[n].branch # calls[inst][1]
  BY <1>1, LinePromises
<1>3. \A i \in parked \cup answers :
         /\ i \in DOMAIN nodes /\ i \in DOMAIN nodes' /\ nodes'[i].status # "running"
         /\ \A b \in Actor : i \notin Hand(b)'
         /\ i \in parked => i \notin answers
  BY AnswersApart
<1>4. PICK rel \in Seq(DOMAIN calls), Y \in Seq(ReplyType) :
            /\ IsInjective(rel) /\ Len(Y) = Len(rel) /\ toChild' = toChild \o Y
            /\ \A k \in DOMAIN rel : Y[k].branch = calls[rel[k]][1] /\ Y[k].step = calls[rel[k]][2]
            /\ Range(rel) \subseteq parked \cup answers
            /\ parked' \subseteq (parked \cup answers) \ Range(rel)
  <2>1. answers \cap parked = {} /\ IsInjective(order)
    BY <1>3 DEF Promises
  <2> QED BY <2>1, <1>1, DrainReplies
<1>5. InHand' \subseteq InHand \cup {inst} /\ answers \subseteq InHand \cup {inst}
  BY DrainHands
<1> HIDE DEF answers
<1>6. Range(rel) \subseteq InHand \cup {inst}
  BY <1>4, <1>5, HandFacts
<1>9. InHand' \cap Range(rel) = {}
  BY <1>3, <1>4 DEF InHand
<1>10. \A i \in Range(rel) \cup InHand' :
            /\ i \in DOMAIN calls /\ pc[calls[i][1]] = calls[i][2]
            /\ \A n \in DOMAIN toChild : toChild[n].branch # calls[i][1]
  <2> SUFFICES ASSUME NEW i \in InHand \cup {inst}
               PROVE  /\ i \in DOMAIN calls /\ pc[calls[i][1]] = calls[i][2]
                      /\ \A n \in DOMAIN toChild : toChild[n].branch # calls[i][1]
    BY <1>5, <1>6
  <2>1. CASE i = inst
    BY <2>1, <1>1, <1>2
  <2>2. CASE i # inst
    <3>1. i \in DOMAIN asked /\ pc[asked[i][1]] = asked[i][2]
          /\ \A n \in DOMAIN toChild : toChild[n].branch # asked[i][1]
      BY <2>2, HandFacts DEF Promises, HandWaits, Waiting
    <3> QED BY <3>1, <1>1
  <2> QED BY <2>1, <2>2
<1>11. OneAnswerPerPromise' /\ RepliesAsked' /\ HandWaits'
  <2>1. /\ toChild \in Seq(ReplyType) /\ rel \in Seq(DOMAIN asked') /\ IsInjective(rel)
        /\ Y \in Seq(ReplyType) /\ Len(Y) = Len(rel) /\ toChild' = toChild \o Y /\ pc' = pc
        /\ \A k \in DOMAIN rel : Y[k].branch = asked'[rel[k]][1] /\ Y[k].step = asked'[rel[k]][2]
    BY <1>4 DEF IInv, Types, PipeType
  <2>2. \A i \in DOMAIN asked : i \in DOMAIN asked' /\ asked'[i] = asked[i]
    BY <1>1
  <2>3. \A i, j \in DOMAIN asked' : asked'[i] = asked'[j] => i = j
    BY <1>2 DEF AskedOnce
  <2>4. \A i \in DOMAIN asked' : asked'[i] = <<asked'[i][1], asked'[i][2]>>
    BY <1>2
  <2>5. \A i \in Range(rel) \cup InHand' :
            /\ i \in DOMAIN asked' /\ pc[asked'[i][1]] = asked'[i][2]
            /\ \A n \in DOMAIN toChild : toChild[n].branch # asked'[i][1]
    BY <1>10
  <2>6. Answering(rel, Y)
    BY <2>1, <2>2, <2>3, <2>4, <2>5, <1>9, Zenon DEF Answering
  <2>7. OneAnswerPerPromise /\ RepliesAsked
    BY DEF Promises
  <2> QED BY <2>6, <2>7, AnswersOut
<1>12. ParkedApart'
  <2>1. ASSUME NEW b \in Actor PROVE parked' \cap Recorded(b)' = {}
    BY <1>3, <1>4 DEF Hand
  <2> QED BY <2>1, <1>3, <1>4 DEF ParkedApart
<1>13. pc' \in [Branch -> Nat] /\ IsInjective(order')
  BY DEF Promises
<1> QED BY <1>2, <1>11, <1>12, <1>13 DEF Promises

LEMMA AdmitAskPromises ==
  ASSUME IInv, IInv', Promises, AdmitAsk
  PROVE  Promises'
<1>1. CASE SettleRun("errored", FALSE)
  BY <1>1, DownPromises DEF SettleRun
<1>2. CASE ~SettleRun("errored", FALSE)
  <2>1. toHost # <<>> /\ Head(toHost).kind = "ask"
    BY DEF AdmitAsk
  <2>2. /\ toHost' = Tail(toHost) /\ pc' = pc /\ order' = order
        /\ \E a \in Actor, S \in SUBSET Actor : \E inst, rec, fresh, calls :
           /\ a \in S /\ Claims(inst, a, rec, fresh, calls) /\ Drain(a, rec, fresh, calls, S)
           /\ asked' = calls
    BY <1>2, AdmitAskDrains
  <2>3. PICK a \in Actor, S \in SUBSET Actor : \E inst, rec, fresh, calls :
           /\ a \in S /\ Claims(inst, a, rec, fresh, calls) /\ Drain(a, rec, fresh, calls, S)
           /\ asked' = calls
    BY <2>2
  <2>4. PICK inst, rec, fresh, calls :
           /\ a \in S /\ Claims(inst, a, rec, fresh, calls) /\ Drain(a, rec, fresh, calls, S)
           /\ asked' = calls
    BY <2>3
  <2> QED BY <2>1, <2>2, <2>4, DrainPromises
<1> QED BY <1>1, <1>2

LEMMA InitPromises == Init => Promises
<1> SUFFICES ASSUME Init PROVE Promises
  OBVIOUS
<1>1. DOMAIN <<>> = {} /\ Range(<<>>) = {}
  BY DEF Range
<1>2. /\ nodes = <<>> /\ asked = <<>> /\ toChild = <<>> /\ pc = [b \in Branch |-> 1] /\ toHost = FirstLines
      /\ parked = {} /\ order = <<>>
      /\ pendingRecorded = [a \in Actor |-> <<>>] /\ pendingLive = [a \in Actor |-> <<>>]
      /\ liveQueue = [a \in Actor |-> <<>>] /\ current = [a \in Actor |-> None]
  BY DEF Init
<1>3. AskedOnce /\ RepliesAsked /\ OneAnswerPerPromise /\ IsInjective(order)
  BY <1>1, <1>2 DEF AskedOnce, RepliesAsked, OneAnswerPerPromise, IsInjective
<1>4. InHand = {}
  BY <1>1, <1>2 DEF InHand
<1>5. HandWaits /\ ParkedApart
  BY <1>1, <1>2, <1>4 DEF HandWaits, ParkedApart
<1>6. LinesWait /\ LinesApart
  <2>1. \A k \in DOMAIN BranchOrder : BranchOrder[k] \in Branch
    BY OrderAssumption, LenProperties, ElementOfSeq
  <2>2. /\ DOMAIN FirstLines = DOMAIN BranchOrder
        /\ \A k \in DOMAIN BranchOrder : FirstLines[k].branch = BranchOrder[k] /\ FirstLines[k].step = 1
    BY DEF FirstLines, AskLine
  <2>3. \A m, n \in DOMAIN BranchOrder : BranchOrder[m] = BranchOrder[n] => m = n
    BY OrderAssumption DEF IsInjective
  <2>4. LinesWait
    BY <2>1, <2>2, <1>1, <1>2 DEF LinesWait
  <2>5. LinesApart
    BY <2>2, <2>3, <1>2 DEF LinesApart
  <2> QED BY <2>4, <2>5
<1>7. pc \in [Branch -> Nat]
  BY <1>2
<1> QED BY <1>3, <1>5, <1>6, <1>7 DEF Promises

LEMMA EveryPromise ==
  ASSUME IInv, IInv', Promises, [Next]_vars
  PROVE  Promises'
<1>1. ASSUME UNCHANGED vars PROVE Promises'
  BY <1>1, IdlePromises DEF vars, journal, dispatching
<1>2. CASE AdmitAsk
  BY <1>2, AdmitAskPromises
<1>3. CASE ScriptEnds \/ Stop \/ Crash
  BY <1>3, DownPromises DEF ScriptEnds, Stop, Crash, SettleRun
<1>4. CASE ScriptStep
  BY <1>4, ScriptStepPromises
<1>5. CASE Resume
  BY <1>5, ResumePromises
<1>6. ASSUME NEW a \in Actor, Dispatch(a) PROVE Promises'
  BY <1>6, IdlePromises DEF Dispatch, journal
<1>7. ASSUME NEW a \in Actor, DispatchFails(a) PROVE Promises'
  BY <1>7, SettleNodePromises DEF DispatchFails, Terminal
<1>8. ASSUME NEW a \in Actor, NEW st \in Terminal, AskReported(a, st) PROVE Promises'
  BY <1>8, SettleNodePromises DEF AskReported
<1>9. ASSUME NEW a \in Actor, CrashInSettle(a) PROVE Promises'
  BY <1>9, DownPromises DEF CrashInSettle
<1>10. ASSUME NEW n \in Caps, SetMaxConcurrency(n) PROVE Promises'
  BY <1>10, RetunePromises
<1> QED BY <1>1, <1>2, <1>3, <1>4, <1>5, <1>6, <1>7, <1>8, <1>9, <1>10 DEF Next

-----------------------------------------------------------------------------
(***************************************************************************)
(* Replay.  In a run that is only ever cut short by crashes, the asks are  *)
(* written in one order, life after life: G is that order.  Its first      *)
(* lines are those the branches begin with, and after them the n-th is     *)
(* what the branch of the n-th settled ask does next, which may be         *)
(* nothing.                                                                *)
(***************************************************************************)
NoLine == <<None, 0>>
Openings == Len(BranchOrder)
After(x, st) ==
    IF (st = "failed" /\ x[1] \notin Catches) \/ x[2] >= Len(Script[x[1]])
      THEN NoLine ELSE <<x[1], x[2] + 1>>

(* The asks of a site up to line p, and the instance line p claims. *)
Before(G, s, p) == {q \in 1..p : G[q] \in Asks /\ SiteOf(G[q]) = s}
Name(G, p) == <<SiteOf(G[p]), Cardinality(Before(G, SiteOf(G[p]), p))>>

LEMMA AskFacts ==
  /\ NoLine \notin Asks
  /\ \A x \in Asks : /\ x = <<x[1], x[2]>> /\ x[1] \in Branch /\ x[2] \in Nat \ {0}
                     /\ Len(Script[x[1]]) \in Nat /\ SiteOf(x) \in Site
                     /\ \A st : After(x, st) \in Asks \cup {NoLine}
<1>1. ASSUME NEW x \in Asks
      PROVE  /\ x = <<x[1], x[2]>> /\ x[1] \in Branch /\ x[2] \in Nat \ {0} /\ x[2] <= Len(Script[x[1]])
             /\ Len(Script[x[1]]) \in Nat /\ SiteOf(x) \in Site
  <2>1. x = <<x[1], x[2]>> /\ x[1] \in Branch /\ x[2] \in DOMAIN Script[x[1]]
    BY DEF Asks
  <2> QED BY <2>1, ScriptAssumption DEF SiteOf
<1>2. NoLine \notin Asks
  <2>1. NoLine[2] = 0
    BY DEF NoLine
  <2> QED BY <2>1, <1>1
<1>3. ASSUME NEW x \in Asks, NEW st PROVE After(x, st) \in Asks \cup {NoLine}
  <2>1. CASE x[2] >= Len(Script[x[1]])
    BY <2>1 DEF After
  <2>2. CASE ~(x[2] >= Len(Script[x[1]]))
    <3>1. x[2] + 1 \in 1..Len(Script[x[1]]) /\ DOMAIN Script[x[1]] = 1..Len(Script[x[1]])
      BY <2>2, <1>1, ScriptAssumption
    <3>2. <<x[1], x[2] + 1>> \in Asks
      BY <3>1, <1>1 DEF Asks
    <3> QED BY <3>2 DEF After
  <2> QED BY <2>1, <2>2
<1> QED BY <1>1, <1>2, <1>3

(* How many asks of a site come before a line, and that lines claim different instances. *)
LEMMA BeforeFacts ==
  ASSUME NEW G, NEW s, NEW p \in Nat
  PROVE  /\ IsFiniteSet(Before(G, s, p)) /\ Cardinality(Before(G, s, p)) \in Nat
         /\ \A q \in 0..p : Cardinality(Before(G, s, q)) <= Cardinality(Before(G, s, p))
         /\ p # 0 /\ G[p] \in Asks /\ SiteOf(G[p]) = s =>
              Cardinality(Before(G, s, p)) = Cardinality(Before(G, s, p - 1)) + 1
<1>1. ASSUME NEW q \in Nat PROVE IsFiniteSet(Before(G, s, q)) /\ Cardinality(Before(G, s, q)) \in Nat
  <2>1. IsFiniteSet(1..q) /\ Before(G, s, q) \in SUBSET (1..q)
    BY FS_Interval DEF Before
  <2> QED BY <2>1, FS_Subset, FS_CardinalityType
<1>2. ASSUME NEW q \in 0..p PROVE Cardinality(Before(G, s, q)) <= Cardinality(Before(G, s, p))
  <2>1. Before(G, s, q) \in SUBSET Before(G, s, p)
    BY DEF Before
  <2> QED BY <2>1, <1>1, FS_Subset
<1>3. ASSUME p # 0, G[p] \in Asks, SiteOf(G[p]) = s
      PROVE  Cardinality(Before(G, s, p)) = Cardinality(Before(G, s, p - 1)) + 1
  <2>1. Before(G, s, p) = Before(G, s, p - 1) \cup {p} /\ p \notin Before(G, s, p - 1)
    BY <1>3 DEF Before
  <2>2. IsFiniteSet(Before(G, s, p - 1))
    BY <1>1, <1>3
  <2> QED BY <2>1, <2>2, FS_AddElement
<1> QED BY <1>1, <1>2, <1>3

LEMMA NamesApart ==
  ASSUME NEW G, NEW p \in Nat \ {0}, NEW q \in Nat \ {0}, G[p] \in Asks, G[q] \in Asks,
         Name(G, p) = Name(G, q)
  PROVE  p = q
<1> DEFINE s == SiteOf(G[p])
<1>1. SiteOf(G[q]) = s /\ Cardinality(Before(G, s, p)) = Cardinality(Before(G, s, q))
  BY DEF Name
<1>2. ASSUME NEW m \in Nat \ {0}, NEW n \in Nat \ {0}, m < n, G[n] \in Asks, SiteOf(G[n]) = s
      PROVE  Cardinality(Before(G, s, m)) # Cardinality(Before(G, s, n))
  <2>1. m \in 0..(n - 1) /\ n - 1 \in Nat
    BY <1>2
  <2>2. /\ Cardinality(Before(G, s, m)) <= Cardinality(Before(G, s, n - 1))
        /\ Cardinality(Before(G, s, m)) \in Nat /\ Cardinality(Before(G, s, n - 1)) \in Nat
    BY <2>1, BeforeFacts
  <2>3. Cardinality(Before(G, s, n)) = Cardinality(Before(G, s, n - 1)) + 1
    BY <1>2, BeforeFacts
  <2> QED BY <2>2, <2>3
<1> QED BY <1>1, <1>2

(* The first ask line after position A claims the next ordinal of its site. *)
LEMMA NextName ==
  ASSUME NEW G, NEW A \in Nat, NEW p \in Nat, A < p, G[p] \in Asks, \A q \in (A + 1)..(p - 1) : G[q] \notin Asks
  PROVE  \A s : Cardinality(Before(G, s, p)) =
                  IF s = SiteOf(G[p]) THEN Cardinality(Before(G, s, A)) + 1 ELSE Cardinality(Before(G, s, A))
<1> SUFFICES ASSUME NEW s PROVE Cardinality(Before(G, s, p)) =
                  IF s = SiteOf(G[p]) THEN Cardinality(Before(G, s, A)) + 1 ELSE Cardinality(Before(G, s, A))
  OBVIOUS
<1>1. Before(G, s, p - 1) = Before(G, s, A)
  <2>1. \A q \in 1..(p - 1) : G[q] \in Asks => q \in 1..A
    OBVIOUS
  <2>2. \A q \in 1..A : q \in 1..(p - 1)
    OBVIOUS
  <2> QED BY <2>1, <2>2 DEF Before
<1>2. CASE s = SiteOf(G[p])
  BY <1>1, <1>2, BeforeFacts
<1>3. CASE s # SiteOf(G[p])
  <2>1. Before(G, s, p) = Before(G, s, p - 1)
    <3>1. \A q \in 1..p : G[q] \in Asks /\ SiteOf(G[q]) = s => q \in 1..(p - 1)
      BY <1>3
    <3> QED BY <3>1 DEF Before
  <2> QED BY <2>1, <1>1, <1>3
<1> QED BY <1>2, <1>3

(* A line more changes no name. *)
LEMMA NameKept ==
  ASSUME NEW T, NEW G \in Seq(T), NEW x \in T
  PROVE  /\ \A p \in 0..Len(G) : \A s : Before(Append(G, x), s, p) = Before(G, s, p)
         /\ \A p \in 1..Len(G) : Append(G, x)[p] = G[p] /\ Name(Append(G, x), p) = Name(G, p)
<1>1. /\ Len(G) \in Nat /\ \A p \in 1..Len(G) : Append(G, x)[p] = G[p]
  BY AppendProperties, LenProperties
<1> DEFINE H == Append(G, x)
<1>2. \A p \in 1..Len(G) : H[p] = G[p]
  BY <1>1
<1> HIDE DEF H
<1>3. ASSUME NEW p \in 0..Len(G), NEW s PROVE Before(H, s, p) = Before(G, s, p)
  <2>1. \A q \in 1..p : H[q] = G[q]
    BY <1>1, <1>2
  <2> QED BY <2>1 DEF Before
<1>4. \A p \in 1..Len(G) : Name(H, p) = Name(G, p)
  <2>1. \A p \in 1..Len(G) : p \in 0..Len(G)
    BY <1>1
  <2> QED BY <2>1, <1>2, <1>3 DEF Name
<1> QED BY <1>2, <1>3, <1>4 DEF H

-----------------------------------------------------------------------------
(* The settlement order. *)

Increasing(s) == \A m, n \in DOMAIN s : m < n => s[m] < s[n]

(* Two increasing enumerations of one set agree. *)
LEMMA Agreement ==
  ASSUME NEW s \in Seq(Nat), NEW t \in Seq(Nat), Increasing(s), Increasing(t), Range(s) = Range(t)
  PROVE  Len(s) <= Len(t) /\ \A k \in 1..Len(s) : s[k] = t[k]
<1>1. /\ Len(s) \in Nat /\ DOMAIN s = 1..Len(s) /\ Len(t) \in Nat /\ DOMAIN t = 1..Len(t)
      /\ \A k \in 1..Len(s) : s[k] \in Nat
      /\ \A k \in 1..Len(t) : t[k] \in Nat
  BY LenProperties, ElementOfSeq
<1>a. /\ \A m, n \in 1..Len(s) : m < n => s[m] < s[n]
      /\ \A m, n \in 1..Len(t) : m < n => t[m] < t[n]
  BY <1>1 DEF Increasing
<1> DEFINE Bad == {k \in Nat : k \in 1..Len(s) /\ ~(k <= Len(t) /\ s[k] = t[k])}
<1>2. Bad = {}
  <2> SUFFICES ASSUME Bad # {} PROVE FALSE
    OBVIOUS
  <2>1. PICK k \in Bad : \A m \in Bad : k <= m
    BY LeastNat
  <2>2. k \in 1..Len(s) /\ k \in Nat /\ ~(k <= Len(t) /\ s[k] = t[k])
    OBVIOUS
  <2>3. ASSUME NEW j \in 1..Len(s), j < k PROVE j <= Len(t) /\ s[j] = t[j]
    <3>1. j \notin Bad
      BY <2>1, <2>3, <1>1
    <3> QED BY <3>1, <1>1
  <2> HIDE DEF Bad
  <2>4. PICK l \in 1..Len(t) : s[k] = t[l]
    BY <2>2, <1>1 DEF Range
  <2>5. l >= k
    <3> SUFFICES ASSUME l < k PROVE FALSE
      BY <1>1, <2>2
    <3>1. l \in 1..Len(s)
      BY <1>1, <2>2
    <3>2. s[l] = t[l]
      BY <3>1, <2>3
    <3>3. s[l] < s[k]
      BY <3>1, <2>2, <1>1, <1>a
    <3> QED BY <3>1, <3>2, <3>3, <2>2, <2>4, <1>1
  <2>6. k \in 1..Len(t) /\ l # k
    BY <1>1, <2>2, <2>4, <2>5
  <2>7. t[k] < t[l]
    BY <1>1, <1>a, <2>2, <2>5, <2>6
  <2>8. PICK j \in 1..Len(s) : t[k] = s[j]
    BY <2>6, <1>1 DEF Range
  <2>9. CASE j < k
    <3>1. t[j] < t[k]
      BY <1>1, <1>a, <2>2, <2>6, <2>8, <2>9
    <3>2. s[j] = t[j]
      BY <2>3, <2>9
    <3> QED BY <3>1, <3>2, <2>6, <2>8, <1>1
  <2>10. CASE j >= k
    <3>0. j \in 1..Len(s) /\ s[j] \in Nat /\ s[k] \in Nat /\ (j = k \/ k < j)
      BY <1>1, <2>2, <2>8, <2>10
    <3>1. s[k] <= s[j]
      BY <3>0, <1>a, <2>2
    <3> QED BY <3>1, <2>2, <2>4, <2>6, <2>7, <2>8, <1>1
  <2> QED BY <2>9, <2>10, <1>1, <2>2
<1>3. ASSUME NEW k \in 1..Len(s) PROVE k <= Len(t) /\ s[k] = t[k]
  <2>1. k \in Nat
    BY <1>1
  <2> HIDE DEF Bad
  <2>2. k \notin Bad
    BY <1>2
  <2> USE DEF Bad
  <2> QED BY <2>1, <2>2
<1>4. Len(s) <= Len(t)
  BY <1>1, <1>3
<1> QED BY <1>3, <1>4

(***************************************************************************)
(* E is the order in which the asks of the journal were settled: at[k] is  *)
(* the first settlement of E[k] in the log.  An ask that was cancelled has *)
(* a settlement, and a place when it is answered.                          *)
(***************************************************************************)
Listed(E, at) ==
    /\ E \in Seq(Instance) /\ IsInjective(E)
    /\ at \in [1..Len(E) -> DOMAIN events] /\ Increasing(at)
    /\ \A k \in 1..Len(E) : events[at[k]].type = "node-settled" /\ events[at[k]].inst = E[k]
    /\ \A n \in DOMAIN events : events[n].type = "node-settled" /\ events[n].inst \in Range(E) =>
          \E k \in 1..Len(E) : E[k] = events[n].inst /\ at[k] <= n
    /\ \A i : i \in Range(E) <=> i \in DOMAIN nodes /\ nodes[i].status \in Terminal

(* It is the order a resume recovers. *)
LEMMA RecoveredIsListed ==
  ASSUME JournalType, NEW E, NEW at, Listed(E, at)
  PROVE  RecoveredOrder(nodes, events) = E
<1> DEFINE first == {n \in DOMAIN events :
                       /\ events[n].type = "node-settled"
                       /\ events[n].inst \in DOMAIN nodes
                       /\ nodes[events[n].inst].status \in Terminal
                       /\ \A m \in 1..(n - 1) :
                             events[m].type = "node-settled" => events[m].inst # events[n].inst}
           all == [n \in DOMAIN events |-> n]
           kept == Keep(all, first)
<1>1. RecoveredOrder(nodes, events) = [k \in DOMAIN kept |-> events[kept[k]].inst]
  BY DEF RecoveredOrder
<1>2. DOMAIN events = 1..Len(events) /\ Len(events) \in Nat
  BY LenProperties DEF JournalType
<1>3. /\ E \in Seq(Instance) /\ Len(E) \in Nat /\ DOMAIN E = 1..Len(E)
      /\ at \in [1..Len(E) -> DOMAIN events] /\ Increasing(at)
      /\ \A k \in 1..Len(E) : events[at[k]].type = "node-settled" /\ events[at[k]].inst = E[k]
      /\ \A k \in 1..Len(E) : E[k] \in DOMAIN nodes /\ nodes[E[k]].status \in Terminal
  BY LenProperties DEF Listed, Range
<1>4. at \in Seq(Nat) /\ Len(at) = Len(E) /\ DOMAIN at = 1..Len(E)
  <2>1. at \in [1..Len(E) -> Nat]
    BY <1>2, <1>3
  <2> QED BY <2>1, <1>3, SameLength
<1>5. Range(at) = first
  <2>1. ASSUME NEW k \in 1..Len(E) PROVE at[k] \in first
    <3>1. at[k] \in DOMAIN events
      BY <1>3
    <3>2. ASSUME NEW m \in 1..(at[k] - 1), events[m].type = "node-settled", events[m].inst = E[k]
          PROVE FALSE
      <4>1. m \in DOMAIN events /\ m < at[k]
        BY <3>1, <1>2
      <4>2. PICK j \in 1..Len(E) : E[j] = events[m].inst /\ at[j] <= m
        BY <4>1, <3>2, <1>3 DEF Listed, Range
      <4>3. j = k
        BY <4>2, <3>2, <1>3 DEF Listed, IsInjective
      <4> QED BY <4>1, <4>2, <4>3, <3>1, <1>2
    <3> QED BY <3>1, <3>2, <1>3
  <2>2. ASSUME NEW n \in first PROVE \E k \in 1..Len(E) : n = at[k]
    <3>1. PICK k \in 1..Len(E) : E[k] = events[n].inst /\ at[k] <= n
      BY DEF Listed
    <3>2. at[k] \in DOMAIN events /\ events[at[k]].type = "node-settled" /\ events[at[k]].inst = events[n].inst
      BY <3>1, <1>3
    <3>3. at[k] \notin 1..(n - 1)
      BY <3>2
    <3>4. at[k] \in Nat /\ n \in Nat /\ at[k] >= 1 /\ at[k] <= n
      BY <3>1, <3>2, <1>2
    <3>5. at[k] = n
      BY <3>3, <3>4
    <3> QED BY <3>5
  <2> HIDE DEF first
  <2> QED BY <2>1, <2>2, <1>4 DEF Range
<1>6. first \subseteq Nat
  BY <1>2
<1> HIDE DEF first
<1>7. all \in Seq(Nat) /\ DOMAIN all = DOMAIN events /\ \A n \in DOMAIN events : all[n] = n
  <2>1. all \in [1..Len(events) -> Nat]
    BY <1>2
  <2> QED BY <2>1, <1>2, SameLength
<1>8. Range(all) \cap first = first
  <2>1. first \subseteq DOMAIN events
    BY <1>3, <1>4, <1>5 DEF Range
  <2> HIDE DEF all
  <2> QED BY <2>1, <1>7 DEF Range
<1> DEFINE same == [n \in Nat |-> n]
<1>9. \A m, n \in DOMAIN all : m < n => same[all[m]] < same[all[n]]
  BY <1>2, <1>7
<1> HIDE DEF all
<1>10. kept \in Seq(Nat) /\ Range(kept) = first
  BY <1>7, <1>8, KeepRange
<1>11. \A m, n \in DOMAIN kept : m < n => same[kept[m]] < same[kept[n]]
  <2> HIDE DEF same
  <2> QED BY <1>7, <1>9, KeepSorted
<1> HIDE DEF kept
<1>12. Increasing(kept)
  <2>1. \A m \in DOMAIN kept : kept[m] \in Nat
    BY <1>10, LenProperties, ElementOfSeq
  <2> QED BY <2>1, <1>11 DEF Increasing
<1>13. Len(kept) = Len(at) /\ \A k \in 1..Len(at) : kept[k] = at[k]
  <2>1. Len(at) <= Len(kept) /\ \A k \in 1..Len(at) : at[k] = kept[k]
    BY <1>3, <1>4, <1>5, <1>10, <1>12, Agreement
  <2>2. Len(kept) <= Len(at)
    BY <1>3, <1>4, <1>5, <1>10, <1>12, Agreement
  <2>3. Len(kept) \in Nat /\ Len(at) \in Nat
    BY <1>4, <1>10, LenProperties
  <2> QED BY <2>1, <2>2, <2>3
<1>14. DOMAIN kept = 1..Len(E) /\ \A k \in 1..Len(E) : events[kept[k]].inst = E[k]
  BY <1>3, <1>4, <1>10, <1>13, LenProperties
<1>15. RecoveredOrder(nodes, events) \in [1..Len(E) -> Instance]
  <2>1. \A k \in 1..Len(E) : E[k] \in Instance
    BY <1>3, ElementOfSeq
  <2> QED BY <2>1, <1>1, <1>14
<1>16. RecoveredOrder(nodes, events) \in Seq(Instance) /\ Len(RecoveredOrder(nodes, events)) = Len(E)
       /\ \A k \in 1..Len(E) : RecoveredOrder(nodes, events)[k] = E[k]
  BY <1>1, <1>3, <1>14, <1>15, SameLength
<1> QED BY <1>3, <1>16, SeqEqual

(* It stays while no row gets or loses an answer. *)
LEMMA MoreListed ==
  ASSUME JournalType, NEW E, NEW at, Listed(E, at), NEW X \in Seq(EventType), events' = events \o X,
         \A i : i \in DOMAIN nodes' /\ nodes'[i].status \in Terminal <=>
                  i \in DOMAIN nodes /\ nodes[i].status \in Terminal
  PROVE  Listed(E, at)'
<1>1. /\ Len(events) \in Nat /\ Len(X) \in Nat /\ DOMAIN events = 1..Len(events) /\ DOMAIN X = 1..Len(X)
      /\ DOMAIN events' = 1..(Len(events) + Len(X))
      /\ \A n \in DOMAIN events' : events'[n] = IF n <= Len(events) THEN events[n] ELSE X[n - Len(events)]
  <2>1. events \in Seq(EventType)
    BY DEF JournalType
  <2>2. /\ events \o X \in Seq(EventType) /\ Len(events \o X) = Len(events) + Len(X)
        /\ \A n \in 1..(Len(events) + Len(X)) :
              (events \o X)[n] = IF n <= Len(events) THEN events[n] ELSE X[n - Len(events)]
    BY <2>1, ConcatProperties
  <2> QED BY <2>1, <2>2, LenProperties
<1>2. /\ E \in Seq(Instance) /\ IsInjective(E) /\ Len(E) \in Nat /\ DOMAIN E = 1..Len(E)
      /\ at \in [1..Len(E) -> DOMAIN events] /\ Increasing(at)
      /\ \A k \in 1..Len(E) : events[at[k]].type = "node-settled" /\ events[at[k]].inst = E[k]
      /\ \A n \in DOMAIN events : events[n].type = "node-settled" /\ events[n].inst \in Range(E) =>
            \E k \in 1..Len(E) : E[k] = events[n].inst /\ at[k] <= n
      /\ \A i : i \in Range(E) <=> i \in DOMAIN nodes /\ nodes[i].status \in Terminal
  BY LenProperties DEF Listed
<1>3. \A k \in 1..Len(E) : at[k] \in DOMAIN events' /\ events'[at[k]] = events[at[k]] /\ at[k] \in DOMAIN events
  <2>1. \A k \in 1..Len(E) : at[k] \in 1..Len(events)
    BY <1>1, <1>2
  <2> QED BY <2>1, <1>1
<1>4. ASSUME NEW n \in DOMAIN events', events'[n].type = "node-settled", events'[n].inst \in Range(E)
      PROVE  \E k \in 1..Len(E) : E[k] = events'[n].inst /\ at[k] <= n
  <2>1. CASE n \in DOMAIN events
    BY <2>1, <1>1, <1>2, <1>4
  <2>2. CASE n \notin DOMAIN events
    <3>1. n - Len(events) \in DOMAIN X /\ events'[n] = X[n - Len(events)] /\ n > Len(events)
      BY <2>2, <1>1
    <3>2. PICK k \in 1..Len(E) : E[k] = events'[n].inst
      BY <3>1, <1>2, <1>4 DEF Range
    <3>3. at[k] <= n
      BY <3>1, <1>1, <1>3
    <3> QED BY <3>2, <3>3
  <2> QED BY <2>1, <2>2
<1>5. at \in [1..Len(E) -> DOMAIN events']
  BY <1>2, <1>3
<1> QED BY <1>2, <1>3, <1>4, <1>5 DEF Listed

(***************************************************************************)
(* Whatever the log is, the first settlements of the answered rows are in  *)
(* some order: the recovered one.                                          *)
(***************************************************************************)
Logged == \A i \in DOMAIN nodes : nodes[i].status \in Terminal =>
             \E n \in DOMAIN events : events[n].type = "node-settled" /\ events[n].inst = i
Recovered == \E at : Listed(RecoveredOrder(nodes, events), at)

LEMMA RecoveredLists == JournalType /\ Logged => Recovered
<1> SUFFICES ASSUME JournalType, Logged PROVE \E at : Listed(RecoveredOrder(nodes, events), at)
  BY DEF Recovered
<1> DEFINE first == {n \in DOMAIN events :
                       /\ events[n].type = "node-settled"
                       /\ events[n].inst \in DOMAIN nodes
                       /\ nodes[events[n].inst].status \in Terminal
                       /\ \A m \in 1..(n - 1) :
                             events[m].type = "node-settled" => events[m].inst # events[n].inst}
           all == [n \in DOMAIN events |-> n]
           at == Keep(all, first)
           E == RecoveredOrder(nodes, events)
<1>1. E = [k \in DOMAIN at |-> events[at[k]].inst]
  BY DEF RecoveredOrder
<1>2. DOMAIN events = 1..Len(events) /\ Len(events) \in Nat
  BY LenProperties DEF JournalType
<1>3. \A n \in first : /\ n \in DOMAIN events /\ n \in Nat
                       /\ events[n].type = "node-settled" /\ events[n].inst \in DOMAIN nodes
                       /\ nodes[events[n].inst].status \in Terminal
  BY <1>2
<1>4. ASSUME NEW n \in first, NEW m \in first, m < n PROVE events[m].inst # events[n].inst
  <2>1. m \in 1..(n - 1)
    BY <1>2, <1>4
  <2> QED BY <2>1
<1>5. ASSUME NEW n \in DOMAIN events, events[n].type = "node-settled", events[n].inst \in DOMAIN nodes,
             nodes[events[n].inst].status \in Terminal
      PROVE  \E m \in first : events[m].inst = events[n].inst /\ m <= n
  <2> DEFINE same == {m \in Nat : m \in DOMAIN events /\ events[m].type = "node-settled"
                                  /\ events[m].inst = events[n].inst}
  <2>1. n \in same
    BY <1>2, <1>5
  <2>2. PICK m \in same : \A l \in same : m <= l
    BY <2>1, LeastNat
  <2>3. m \in DOMAIN events /\ m \in Nat /\ events[m].type = "node-settled" /\ events[m].inst = events[n].inst
        /\ m <= n
    BY <2>1, <2>2
  <2>4. ASSUME NEW l \in 1..(m - 1), events[l].type = "node-settled", events[l].inst = events[m].inst
        PROVE  FALSE
    <3>1. l \in DOMAIN events /\ l \in Nat /\ l < m
      BY <2>3, <1>2
    <3>2. l \in same
      BY <3>1, <2>3, <2>4
    <3> HIDE DEF same
    <3>3. m <= l
      BY <3>2, <2>2
    <3> QED BY <3>1, <3>3, <2>3
  <2>5. m \in first
    BY <2>3, <2>4, <1>5
  <2> QED BY <2>3, <2>5
<1> HIDE DEF first
<1>6. all \in Seq(Nat) /\ DOMAIN all = DOMAIN events /\ \A n \in DOMAIN events : all[n] = n
  <2>1. all \in [1..Len(events) -> Nat]
    BY <1>2
  <2> QED BY <2>1, <1>2, SameLength
<1>7. Range(all) \cap first = first
  <2>1. first \subseteq DOMAIN events
    BY <1>3
  <2> HIDE DEF all
  <2> QED BY <2>1, <1>6 DEF Range
<1> DEFINE same == [n \in Nat |-> n]
<1>8. \A m, n \in DOMAIN all : m < n => same[all[m]] < same[all[n]]
  BY <1>2, <1>6
<1> HIDE DEF all
<1>9. at \in Seq(Nat) /\ Range(at) = first
  BY <1>6, <1>7, KeepRange
<1>10. \A m, n \in DOMAIN at : m < n => same[at[m]] < same[at[n]]
  <2> HIDE DEF same
  <2> QED BY <1>6, <1>8, KeepSorted
<1> HIDE DEF at
<1>11. /\ DOMAIN at = 1..Len(at) /\ Len(at) \in Nat
       /\ \A k \in DOMAIN at : at[k] \in Nat /\ at[k] \in first
  BY <1>9, LenProperties, ElementOfSeq DEF Range
<1>12. Increasing(at)
  BY <1>10, <1>11 DEF Increasing
<1> HIDE DEF E
<1>13. E \in Seq(Instance) /\ Len(E) = Len(at) /\ DOMAIN E = 1..Len(at)
       /\ \A k \in 1..Len(at) : E[k] = events[at[k]].inst
  <2>1. DOMAIN nodes \subseteq Instance
    BY DEF JournalType
  <2>2. E \in [1..Len(at) -> Instance]
    BY <2>1, <1>1, <1>3, <1>11
  <2> QED BY <2>2, <1>1, <1>11, SameLength
<1>14. IsInjective(E)
  <2> SUFFICES ASSUME NEW j \in 1..Len(at), NEW k \in 1..Len(at), E[j] = E[k] PROVE j = k
    BY <1>13 DEF IsInjective
  <2>1. ASSUME NEW l \in 1..Len(at), NEW m \in 1..Len(at), l < m PROVE E[l] # E[m]
    <3>1. at[l] \in first /\ at[m] \in first /\ at[l] < at[m]
      BY <2>1, <1>11, <1>12 DEF Increasing
    <3> QED BY <3>1, <1>4, <1>13
  <2>2. j < k \/ k < j \/ j = k
    BY <1>11
  <2> QED BY <2>1, <2>2
<1>15. at \in [1..Len(E) -> DOMAIN events]
  <2>1. \A k \in 1..Len(at) : at[k] \in DOMAIN events
    BY <1>3, <1>11
  <2>2. at \in [1..Len(at) -> Nat]
    BY <1>9, <1>11, LenProperties
  <2> QED BY <2>1, <2>2, <1>13
<1>16. \A k \in 1..Len(E) : /\ events[at[k]].type = "node-settled" /\ events[at[k]].inst = E[k]
                            /\ E[k] \in DOMAIN nodes /\ nodes[E[k]].status \in Terminal
  BY <1>3, <1>11, <1>13
<1>17. ASSUME NEW n \in DOMAIN events, events[n].type = "node-settled", events[n].inst \in DOMAIN nodes,
              nodes[events[n].inst].status \in Terminal
       PROVE  \E k \in 1..Len(E) : E[k] = events[n].inst /\ at[k] <= n
  <2>1. PICK m \in first : events[m].inst = events[n].inst /\ m <= n
    BY <1>5, <1>17
  <2>2. PICK k \in DOMAIN at : m = at[k]
    BY <1>9 DEF Range
  <2> QED BY <2>1, <2>2, <1>11, <1>13
<1>18. ASSUME NEW i PROVE i \in Range(E) <=> i \in DOMAIN nodes /\ nodes[i].status \in Terminal
  <2>1. i \in Range(E) => i \in DOMAIN nodes /\ nodes[i].status \in Terminal
    BY <1>13, <1>16 DEF Range
  <2>2. ASSUME i \in DOMAIN nodes, nodes[i].status \in Terminal PROVE i \in Range(E)
    <3>1. PICK n \in DOMAIN events : events[n].type = "node-settled" /\ events[n].inst = i
      BY <2>2 DEF Logged
    <3>2. PICK k \in 1..Len(E) : E[k] = i
      BY <3>1, <2>2, <1>17
    <3> QED BY <3>2, <1>13 DEF Range
  <2> QED BY <2>1, <2>2
<1>19. Listed(E, at)
  BY <1>12, <1>13, <1>14, <1>15, <1>16, <1>17, <1>18 DEF Listed
<1> QED BY <1>19 DEF E

(* The settlement of an ask is the last one, unless history says otherwise. *)
LEMMA SettledListed ==
  ASSUME JournalType, JournalType', NEW E, NEW at, Listed(E, at),
         NEW inst \in DOMAIN nodes, nodes[inst].status = "running",
         NEW st \in Terminal, NEW outcome \in {"ok", "failed"},
         nodes' = [nodes EXCEPT ![inst].status = st], events' = Append(events, Settled(inst, outcome)),
         RecoveredOrder(nodes', events') = Append(RecoveredOrder(nodes, events), inst)
  PROVE  inst \notin Range(E) /\ \E to : Listed(Append(E, inst), to)'
<1>1. RecoveredOrder(nodes', events') = Append(E, inst)
  BY RecoveredIsListed
<1>2. inst \notin Range(E)
  BY DEF Listed, Terminal
<1>3. Logged'
  <2>1. /\ inst \in Instance /\ nodes \in [DOMAIN nodes -> RowType] /\ events \in Seq(EventType)
        /\ Settled(inst, outcome) \in EventType
    BY SettledType DEF JournalType
  <2>2. /\ DOMAIN events = 1..Len(events) /\ Len(events) \in Nat /\ DOMAIN events' = 1..(Len(events) + 1)
        /\ \A n \in 1..Len(events) : events'[n] = events[n]
        /\ events'[Len(events) + 1] = Settled(inst, outcome)
    BY <2>1, AppendProperties, LenProperties
  <2>3. DOMAIN nodes' = DOMAIN nodes /\ \A j \in DOMAIN nodes : j # inst => nodes'[j] = nodes[j]
    OBVIOUS
  <2> SUFFICES ASSUME NEW i \in DOMAIN nodes, nodes'[i].status \in Terminal
               PROVE  \E n \in DOMAIN events' : events'[n].type = "node-settled" /\ events'[n].inst = i
    BY <2>3 DEF Logged
  <2>4. CASE i = inst
    <3>1. Len(events) + 1 \in DOMAIN events'
      BY <2>2
    <3> QED BY <3>1, <2>2, <2>4 DEF Settled
  <2>5. CASE i # inst
    <3>1. i \in Range(E)
      BY <2>3, <2>5 DEF Listed
    <3>2. PICK k \in 1..Len(E) : E[k] = i
      BY <3>1, LenProperties DEF Listed, Range
    <3>3. at[k] \in DOMAIN events /\ events[at[k]].type = "node-settled" /\ events[at[k]].inst = i
      BY <3>2 DEF Listed
    <3>4. at[k] \in DOMAIN events' /\ events'[at[k]] = events[at[k]]
      BY <3>3, <2>2
    <3> QED BY <3>3, <3>4
  <2> QED BY <2>4, <2>5
<1>4. Recovered'
  <2>1. JournalType'
    OBVIOUS
  <2> QED BY <1>3, <2>1, RecoveredLists, PTL
<1>5. \E to : Listed(Append(E, inst), to)'
  BY <1>1, <1>4 DEF Recovered
<1> QED BY <1>2, <1>5

(***************************************************************************)
(* The order of the lines: the openings, and then what follows each        *)
(* settlement.  Every row is the claim of a line, whose text it holds.     *)
(***************************************************************************)
Scheduled(E, G) ==
    /\ G \in Seq(Asks \cup {NoLine}) /\ Len(G) = Openings + Len(E)
    /\ \A p \in 1..Openings : G[p] = <<BranchOrder[p], 1>>
    /\ \A e \in 1..Len(E) : \E p \in 1..(Openings + (e - 1)) :
          G[p] \in Asks /\ Name(G, p) = E[e] /\ G[Openings + e] = After(G[p], nodes[E[e]].status)
    /\ \A i \in DOMAIN nodes : \E p \in 1..Len(G) :
          G[p] \in Asks /\ Name(G, p) = i /\ nodes[i].hash = TextOf(G[p])

(* A settlement adds the next line of its branch. *)
LEMMA SettledScheduled ==
  ASSUME JournalType, NEW E \in Seq(Instance), NEW G, Scheduled(E, G), NEW inst \in DOMAIN nodes,
         inst \notin Range(E), \A k \in 1..Len(E) : E[k] \in DOMAIN nodes,
         NEW p \in 1..Len(G), G[p] \in Asks, Name(G, p) = inst,
         NEW st \in Terminal, nodes' = [nodes EXCEPT ![inst].status = st]
  PROVE  Scheduled(Append(E, inst), Append(G, After(G[p], st)))'
<1> DEFINE D == Append(E, inst)
           x == After(G[p], st)
           H == Append(G, x)
           N == Len(E)
           T == Asks \cup {NoLine}
<1>1. inst \in Instance /\ nodes \in [DOMAIN nodes -> RowType]
  BY DEF JournalType
<1>2. /\ D \in Seq(Instance) /\ Len(D) = N + 1 /\ N \in Nat
      /\ \A k \in 1..N : D[k] = E[k] /\ E[k] # inst
      /\ D[N + 1] = inst
  <2>1. /\ D \in Seq(Instance) /\ Len(D) = N + 1 /\ N \in Nat /\ D[N + 1] = inst
        /\ \A k \in 1..N : D[k] = E[k]
    BY <1>1, AppendProperties, LenProperties
  <2>2. \A k \in 1..N : E[k] # inst
    BY LenProperties DEF Range
  <2> QED BY <2>1, <2>2
<1>3. /\ G \in Seq(T) /\ Len(G) = Openings + N
      /\ \A q \in 1..Openings : G[q] = <<BranchOrder[q], 1>>
      /\ \A e \in 1..N : \E q \in 1..(Openings + (e - 1)) :
            G[q] \in Asks /\ Name(G, q) = E[e] /\ G[Openings + e] = After(G[q], nodes[E[e]].status)
      /\ \A i \in DOMAIN nodes : \E q \in 1..Len(G) :
            G[q] \in Asks /\ Name(G, q) = i /\ nodes[i].hash = TextOf(G[q])
  BY DEF Scheduled
<1>4. x \in T
  BY AskFacts
<1>5. Openings \in Nat
  BY OrderAssumption, LenProperties DEF Openings
<1> HIDE DEF D, x, T
<1>6. /\ H \in Seq(T) /\ Len(H) = Openings + (N + 1) /\ H[Openings + (N + 1)] = x
      /\ \A q \in 1..(Openings + N) : H[q] = G[q] /\ Name(H, q) = Name(G, q)
  <2>0. G \in Seq(T)
    BY <1>3
  <2>1. H \in Seq(T) /\ Len(H) = Len(G) + 1 /\ H[Len(G) + 1] = x
    BY <2>0, <1>4, AppendProperties
  <2>2. \A q \in 1..Len(G) : H[q] = G[q] /\ Name(H, q) = Name(G, q)
    BY <1>3, <1>4, NameKept
  <2> HIDE DEF H
  <2> QED BY <2>1, <2>2, <1>2, <1>3, <1>5
<1>7. /\ DOMAIN nodes' = DOMAIN nodes /\ nodes'[inst].status = st
      /\ \A i \in DOMAIN nodes : nodes'[i].hash = nodes[i].hash /\ (i # inst => nodes'[i] = nodes[i])
  BY <1>1 DEF RowType
<1>a. N \in Nat
  BY <1>2
<1>b. p \in 1..(Openings + N)
  BY <1>3
<1> HIDE DEF H, N
<1>8. \A q \in 1..Openings : H[q] = <<BranchOrder[q], 1>>
  BY <1>3, <1>5, <1>6, <1>a
<1>9. ASSUME NEW e \in 1..(N + 1)
      PROVE  \E q \in 1..(Openings + (e - 1)) :
                H[q] \in Asks /\ Name(H, q) = D[e] /\ H[Openings + e] = After(H[q], nodes'[D[e]].status)
  <2>1. CASE e = N + 1
    <3>1. p \in 1..(Openings + (e - 1)) /\ H[p] = G[p] /\ Name(H, p) = inst
      BY <2>1, <1>a, <1>b, <1>5, <1>6
    <3>2. H[Openings + e] = After(G[p], nodes'[D[e]].status)
      BY <2>1, <1>2, <1>6, <1>7 DEF x, N
    <3> QED BY <3>1, <3>2, <2>1, <1>2 DEF N
  <2>2. CASE e # N + 1
    <3>1. e \in 1..N
      BY <2>2, <1>a
    <3>2. PICK q \in 1..(Openings + (e - 1)) :
            G[q] \in Asks /\ Name(G, q) = E[e] /\ G[Openings + e] = After(G[q], nodes[E[e]].status)
      BY <3>1, <1>3
    <3>3. q \in 1..(Openings + N) /\ Openings + e \in 1..(Openings + N)
      BY <3>1, <1>5, <1>a
    <3>4. D[e] = E[e] /\ nodes'[E[e]] = nodes[E[e]]
      BY <3>1, <1>2, <1>7 DEF N
    <3> QED BY <3>2, <3>3, <3>4, <1>6
  <2> QED BY <2>1, <2>2
<1>10. ASSUME NEW i \in DOMAIN nodes'
       PROVE  \E q \in 1..Len(H) : H[q] \in Asks /\ Name(H, q) = i /\ nodes'[i].hash = TextOf(H[q])
  <2>1. PICK q \in 1..Len(G) : G[q] \in Asks /\ Name(G, q) = i /\ nodes[i].hash = TextOf(G[q])
    BY <1>3, <1>7
  <2>2. q \in 1..(Openings + N) /\ q \in 1..Len(H)
    BY <1>3, <1>5, <1>6, <1>a
  <2> QED BY <2>1, <2>2, <1>6, <1>7
<1>11. Scheduled(D, H)'
  <2>1. Len(D) = N + 1
    BY <1>2
  <2> QED BY <2>1, <1>6, <1>8, <1>9, <1>10 DEF Scheduled, T
<1> QED BY <1>11 DEF D, H, x

(* Rows that are claims of lines may be added. *)
LEMMA MoreScheduled ==
  ASSUME NEW E, NEW G, Scheduled(E, G), \A k \in 1..Len(E) : E[k] \in DOMAIN nodes,
         \A i \in DOMAIN nodes : i \in DOMAIN nodes' /\ SameAsk(nodes'[i], nodes[i]),
         \A i \in DOMAIN nodes' : i \notin DOMAIN nodes => \E p \in 1..Len(G) :
            G[p] \in Asks /\ Name(G, p) = i /\ nodes'[i].hash = TextOf(G[p])
  PROVE  Scheduled(E, G)'
<1>1. \A i \in DOMAIN nodes' : \E p \in 1..Len(G) :
         G[p] \in Asks /\ Name(G, p) = i /\ nodes'[i].hash = TextOf(G[p])
  BY DEF Scheduled, SameAsk
<1>2. \A e \in 1..Len(E) : nodes'[E[e]].status = nodes[E[e]].status
  BY DEF SameAsk
<1> QED BY <1>1, <1>2 DEF Scheduled

(***************************************************************************)
(* The lines of this life: the engine has read those up to A, the child    *)
(* has written those up to M, and the ask in place n of the pipe is line   *)
(* pos[n].                                                                 *)
(***************************************************************************)
LinesOut(G, A, M, pos) ==
    /\ pos \in Seq(Nat) /\ Len(pos) = Len(toHost)
    /\ \A n \in 1..Len(toHost) : toHost[n].kind = "ask" =>
          /\ pos[n] \in (A + 1)..M /\ G[pos[n]] \in Asks
          /\ toHost[n].branch = G[pos[n]][1] /\ toHost[n].step = G[pos[n]][2]
    /\ \A m, n \in 1..Len(toHost) :
          m < n /\ toHost[m].kind = "ask" /\ toHost[n].kind = "ask" => pos[m] < pos[n]
    /\ \A p \in (A + 1)..M : G[p] \in Asks =>
          \E n \in 1..Len(toHost) : toHost[n].kind = "ask" /\ pos[n] = p

(* The engine reads the first ask that it has not read. *)
LEMMA LineRead ==
  ASSUME IInv, NEW G, NEW A \in Nat, NEW M \in Nat, NEW pos, LinesOut(G, A, M, pos),
         toHost # <<>>, Head(toHost).kind = "ask"
  PROVE  \E p \in (A + 1)..M :
            /\ G[p] \in Asks /\ Head(toHost).branch = G[p][1] /\ Head(toHost).step = G[p][2]
            /\ \A q \in (A + 1)..(p - 1) : G[q] \notin Asks
            /\ toHost' = Tail(toHost) => \E rest : LinesOut(G, p, M, rest)'
<1> DEFINE L == Len(toHost)
           p == pos[1]
           rest == Tail(pos)
<1>1. /\ L \in Nat /\ L # 0 /\ toHost[1] = Head(toHost) /\ toHost \in Seq(LineType)
  BY LenProperties, HeadTailProperties, EmptySeq DEF IInv, Types, PipeType
<1>2. /\ pos \in Seq(Nat) /\ Len(pos) = L
      /\ \A n \in 1..L : toHost[n].kind = "ask" =>
            /\ pos[n] \in (A + 1)..M /\ G[pos[n]] \in Asks
            /\ toHost[n].branch = G[pos[n]][1] /\ toHost[n].step = G[pos[n]][2]
      /\ \A m, n \in 1..L : m < n /\ toHost[m].kind = "ask" /\ toHost[n].kind = "ask" => pos[m] < pos[n]
      /\ \A q \in (A + 1)..M : G[q] \in Asks => \E n \in 1..L : toHost[n].kind = "ask" /\ pos[n] = q
  BY DEF LinesOut
<1>3. rest \in Seq(Nat) /\ Len(rest) = L - 1 /\ \A n \in 1..(L - 1) : rest[n] = pos[n + 1]
  <2>1. pos # <<>>
    BY <1>1, <1>2, EmptySeq
  <2> QED BY <2>1, <1>2, HeadTailProperties
<1>4. Len(Tail(toHost)) = L - 1 /\ \A n \in 1..(L - 1) : Tail(toHost)[n] = toHost[n + 1]
  BY <1>1, HeadTailProperties
<1> HIDE DEF L, rest
<1>5. 1 \in 1..L /\ toHost[1].kind = "ask"
  BY <1>1
<1>6. /\ p \in (A + 1)..M /\ p \in Nat /\ G[p] \in Asks
      /\ Head(toHost).branch = G[p][1] /\ Head(toHost).step = G[p][2]
  BY <1>1, <1>2, <1>5
<1> HIDE DEF p
<1>7. ASSUME NEW n \in 1..L, toHost[n].kind = "ask" PROVE n = 1 \/ p < pos[n]
  BY <1>1, <1>2, <1>5, <1>7 DEF p
<1>8. ASSUME NEW q \in (A + 1)..(p - 1), G[q] \in Asks PROVE FALSE
  <2>1. q \in (A + 1)..M /\ q < p
    BY <1>6
  <2>2. PICK n \in 1..L : toHost[n].kind = "ask" /\ pos[n] = q
    BY <2>1, <1>2, <1>8
  <2> QED BY <2>1, <2>2, <1>6, <1>7 DEF p
<1>9. ASSUME toHost' = Tail(toHost) PROVE LinesOut(G, p, M, rest)'
  <2>1. Len(toHost') = L - 1 /\ \A n \in 1..(L - 1) : toHost'[n] = toHost[n + 1]
    BY <1>4, <1>9
  <2>2. \A n \in 1..(L - 1) : n + 1 \in 1..L /\ n + 1 # 1
    BY <1>1
  <2>3. ASSUME NEW n \in 1..(L - 1), toHost'[n].kind = "ask"
        PROVE  /\ rest[n] \in (p + 1)..M /\ G[rest[n]] \in Asks
               /\ toHost'[n].branch = G[rest[n]][1] /\ toHost'[n].step = G[rest[n]][2]
    <3>1. toHost[n + 1].kind = "ask" /\ rest[n] = pos[n + 1] /\ toHost'[n] = toHost[n + 1]
      BY <2>1, <2>3, <1>3
    <3>2. pos[n + 1] \in (A + 1)..M /\ p < pos[n + 1]
      BY <3>1, <2>2, <1>2, <1>7
    <3>3. rest[n] \in (p + 1)..M
      BY <3>1, <3>2, <1>6
    <3>4. n + 1 \in 1..L
      BY <2>2
    <3>5. /\ G[pos[n + 1]] \in Asks
          /\ toHost[n + 1].branch = G[pos[n + 1]][1] /\ toHost[n + 1].step = G[pos[n + 1]][2]
      BY <3>1, <3>4, <1>2
    <3> QED BY <3>1, <3>3, <3>5
  <2>4. ASSUME NEW m \in 1..(L - 1), NEW n \in 1..(L - 1), m < n,
               toHost'[m].kind = "ask", toHost'[n].kind = "ask"
        PROVE  rest[m] < rest[n]
    <3>1. m + 1 \in 1..L /\ n + 1 \in 1..L /\ m + 1 < n + 1
      BY <2>4, <1>1
    <3>2. /\ toHost[m + 1].kind = "ask" /\ rest[m] = pos[m + 1]
          /\ toHost[n + 1].kind = "ask" /\ rest[n] = pos[n + 1]
      BY <2>1, <2>4, <1>3
    <3> QED BY <3>1, <3>2, <1>2
  <2>5. ASSUME NEW q \in (p + 1)..M, G[q] \in Asks
        PROVE  \E n \in 1..(L - 1) : toHost'[n].kind = "ask" /\ rest[n] = q
    <3>1. q \in (A + 1)..M /\ q # p
      BY <1>6
    <3>2. PICK n \in 1..L : toHost[n].kind = "ask" /\ pos[n] = q
      BY <3>1, <2>5, <1>2
    <3>3. n # 1
      BY <3>1, <3>2 DEF p
    <3>4. n - 1 \in 1..(L - 1) /\ (n - 1) + 1 = n
      BY <3>3, <1>1
    <3>5. toHost'[n - 1] = toHost[n] /\ rest[n - 1] = pos[n]
      BY <3>4, <2>1, <1>3
    <3> QED BY <3>2, <3>4, <3>5
  <2> QED BY <2>1, <2>3, <2>4, <2>5, <1>3 DEF LinesOut
<1> QED BY <1>6, <1>8, <1>9

(* The child writes the next line, which may be none. *)
LEMMA LineWritten ==
  ASSUME IInv, NEW G, NEW A \in Nat, NEW M \in Nat, NEW pos, LinesOut(G, A, M, pos), A <= M,
         NEW N, N = M + 1,
         \/ toHost' = toHost /\ G[N] \notin Asks
         \/ \E l : /\ toHost' = Append(toHost, l)
                   /\ \/ l.kind # "ask" /\ G[N] \notin Asks
                      \/ G[N] \in Asks /\ l.branch = G[N][1] /\ l.step = G[N][2] /\ l.kind = "ask"
                   /\ l \in LineType
  PROVE  \E more : LinesOut(G, A, N, more)'
<1> DEFINE L == Len(toHost)
<1>1. L \in Nat /\ toHost \in Seq(LineType)
  BY LenProperties DEF IInv, Types, PipeType
<1>2. /\ pos \in Seq(Nat) /\ Len(pos) = L
      /\ \A n \in 1..L : toHost[n].kind = "ask" =>
            /\ pos[n] \in (A + 1)..M /\ G[pos[n]] \in Asks
            /\ toHost[n].branch = G[pos[n]][1] /\ toHost[n].step = G[pos[n]][2]
      /\ \A m, n \in 1..L : m < n /\ toHost[m].kind = "ask" /\ toHost[n].kind = "ask" => pos[m] < pos[n]
      /\ \A q \in (A + 1)..M : G[q] \in Asks => \E n \in 1..L : toHost[n].kind = "ask" /\ pos[n] = q
  BY DEF LinesOut
<1>3. /\ \A q \in (A + 1)..N : q \in (A + 1)..M \/ q = N
      /\ \A q \in (A + 1)..M : q \in (A + 1)..N /\ q < N
      /\ N \in (A + 1)..N
  OBVIOUS
<1>4. CASE toHost' = toHost /\ G[N] \notin Asks
  <2>1. LinesOut(G, A, N, pos)'
    BY <1>2, <1>3, <1>4 DEF LinesOut
  <2> QED BY <2>1
<1>5. CASE ~(toHost' = toHost /\ G[N] \notin Asks)
  <2>1. PICK l \in LineType : /\ toHost' = Append(toHost, l)
                              /\ \/ l.kind # "ask" /\ G[N] \notin Asks
                                 \/ G[N] \in Asks /\ l.branch = G[N][1] /\ l.step = G[N][2] /\ l.kind = "ask"
    BY <1>5
  <2> DEFINE more == Append(pos, N)
  <2>2. Len(toHost') = L + 1 /\ toHost'[L + 1] = l /\ \A n \in 1..L : toHost'[n] = toHost[n]
    BY <2>1, <1>1, AppendProperties
  <2>3. /\ more \in Seq(Nat) /\ Len(more) = L + 1 /\ more[L + 1] = N
        /\ \A n \in 1..L : more[n] = pos[n]
    BY <1>2, AppendProperties
  <2> HIDE DEF more, L
  <2>4. \A n \in 1..(L + 1) : n \in 1..L \/ n = L + 1
    BY <1>1
  <2>5. ASSUME NEW n \in 1..(L + 1), toHost'[n].kind = "ask"
        PROVE  /\ more[n] \in (A + 1)..N /\ G[more[n]] \in Asks
               /\ toHost'[n].branch = G[more[n]][1] /\ toHost'[n].step = G[more[n]][2]
    <3>1. CASE n \in 1..L
      <4>1. toHost'[n] = toHost[n] /\ more[n] = pos[n]
        BY <3>1, <2>2, <2>3
      <4>2. /\ pos[n] \in (A + 1)..M /\ G[pos[n]] \in Asks
            /\ toHost[n].branch = G[pos[n]][1] /\ toHost[n].step = G[pos[n]][2]
        BY <3>1, <4>1, <2>5, <1>2
      <4> QED BY <4>1, <4>2, <1>3
    <3>2. CASE n = L + 1
      BY <3>2, <2>1, <2>2, <2>3, <2>5, <1>3
    <3> QED BY <3>1, <3>2, <2>4
  <2>6. ASSUME NEW m \in 1..(L + 1), NEW n \in 1..(L + 1), m < n,
               toHost'[m].kind = "ask", toHost'[n].kind = "ask"
        PROVE  more[m] < more[n]
    <3>0. m \in 1..L
      BY <2>6, <1>1
    <3>1. CASE n \in 1..L
      BY <3>0, <3>1, <2>2, <2>3, <2>6, <1>2
    <3>2. CASE n = L + 1
      <4>1. toHost'[m] = toHost[m] /\ more[m] = pos[m] /\ more[n] = N
        BY <3>0, <3>2, <2>2, <2>3
      <4>2. pos[m] \in (A + 1)..M
        BY <3>0, <4>1, <2>6, <1>2
      <4> QED BY <4>1, <4>2, <1>3
    <3> QED BY <3>1, <3>2, <2>4
  <2>7. ASSUME NEW q \in (A + 1)..N, G[q] \in Asks
        PROVE  \E n \in 1..(L + 1) : toHost'[n].kind = "ask" /\ more[n] = q
    <3>1. CASE q \in (A + 1)..M
      <4>1. PICK n \in 1..L : toHost[n].kind = "ask" /\ pos[n] = q
        BY <3>1, <2>7, <1>2
      <4>2. n \in 1..(L + 1)
        BY <1>1
      <4> QED BY <4>1, <4>2, <2>2, <2>3
    <3>2. CASE q = N
      <4>1. L + 1 \in 1..(L + 1) /\ l.kind = "ask"
        BY <3>2, <2>1, <2>7, <1>1
      <4> QED BY <4>1, <3>2, <2>2, <2>3
    <3> QED BY <3>1, <3>2, <1>3
  <2>8. LinesOut(G, A, N, more)'
    BY <2>2, <2>3, <2>5, <2>6, <2>7 DEF LinesOut
  <2> QED BY <2>8
<1> QED BY <1>4, <1>5

(* What the engine has read, and what it has let go. *)
ReadUpTo(G, A) ==
    /\ \A i \in DOMAIN asked : \E p \in 1..A : G[p] \in Asks /\ Name(G, p) = i /\ asked[i] = G[p]
    /\ \A s \in Site : ordinals[s] = Cardinality(Before(G, s, A))
RepliesOut(E, d) ==
    /\ Len(toChild) <= d
    /\ \A k \in 1..Len(toChild) :
          LET i == E[(d - Len(toChild)) + k] IN toChild[k] = Reply(asked[i], OutcomeOf(i))
LetGo(E, d) == \A e \in 1..d : E[e] \in DOMAIN asked /\ E[e] \notin InHand

(* The gate is at the d-th answer of the table, or done with it. *)
GateAt(E, d) ==
    /\ d \in 0..Len(E)
    /\ \/ E = order /\ cursor = d + 1
       \/ d = Len(E) /\ cursor = Len(order) + 1

(* A life is as far as its first d answers: the script has seen all but those in the pipe. *)
Replays(E, G, d, A, pos) ==
    /\ GateAt(E, d) /\ RepliesOut(E, d) /\ LetGo(E, d)
    /\ A \in 0..(Openings + (d - Len(toChild))) /\ ReadUpTo(G, A)
    /\ LinesOut(G, A, Openings + (d - Len(toChild)), pos)

(* The next line of a branch is the same in every life. *)
LEMMA ScriptStepReplays ==
  ASSUME IInv, ScriptStep, NEW E, NEW at, NEW G, NEW d, NEW A, NEW pos,
         Listed(E, at), Scheduled(E, G), Replays(E, G, d, A, pos)
  PROVE  \E more : Replays(E, G, d, A, more)'
<1> DEFINE reply == Head(toChild)
           b == reply.branch
           L == Len(toChild)
           line == AskLine(b, reply.step + 1)
<1>1. /\ toChild # <<>> /\ toChild' = Tail(toChild)
      /\ nodes' = nodes /\ asked' = asked /\ ordinals' = ordinals /\ order' = order /\ cursor' = cursor
      /\ parked' = parked /\ pendingRecorded' = pendingRecorded /\ pendingLive' = pendingLive
      /\ liveQueue' = liveQueue /\ current' = current
  BY DEF ScriptStep, journal, admission, dispatching, gate
<1>2. /\ L \in Nat /\ L # 0 /\ toChild[1] = reply
      /\ Len(toChild') = L - 1 /\ \A k \in 1..(L - 1) : toChild'[k] = toChild[k + 1]
  BY <1>1, LenProperties, HeadTailProperties, EmptySeq DEF IInv, Types, PipeType
<1>3. /\ d \in 0..Len(E) /\ Len(E) \in Nat /\ L <= d /\ Openings \in Nat
      /\ \A k \in 1..L : toChild[k] = Reply(asked[E[(d - L) + k]], OutcomeOf(E[(d - L) + k]))
      /\ \A k \in 1..d : E[k] \in DOMAIN asked /\ E[k] \notin InHand
  BY OrderAssumption, LenProperties DEF Replays, GateAt, RepliesOut, LetGo, Listed, Openings
<1> DEFINE e == (d - L) + 1
           M == Openings + (d - L)
<1>4. e \in 1..d /\ e \in 1..Len(E) /\ M \in Nat /\ M + 1 = Openings + e /\ Openings + (d - (L - 1)) = M + 1
  BY <1>2, <1>3
<1> HIDE DEF e, M
<1>5. PICK p \in 1..(Openings + (e - 1)) :
         G[p] \in Asks /\ Name(G, p) = E[e] /\ G[Openings + e] = After(G[p], nodes[E[e]].status)
  BY <1>3, <1>4 DEF Scheduled
<1>6. asked[E[e]] = G[p]
  <2>1. E[e] \in DOMAIN asked
    BY <1>3, <1>4
  <2>2. PICK q \in 1..A : G[q] \in Asks /\ Name(G, q) = E[e] /\ asked[E[e]] = G[q]
    BY <2>1 DEF Replays, ReadUpTo
  <2>3. p \in Nat \ {0} /\ q \in Nat \ {0}
    BY <1>3, <1>4 DEF Replays
  <2>4. p = q
    BY <2>2, <2>3, <1>5, NamesApart
  <2> QED BY <2>2, <2>4
<1>7. /\ reply.branch = G[p][1] /\ reply.step = G[p][2] /\ reply.outcome = OutcomeOf(E[e])
  <2>1. toChild[1] = Reply(asked[E[e]], OutcomeOf(E[e]))
    BY <1>2, <1>3 DEF e
  <2> QED BY <2>1, <1>2, <1>6 DEF Reply
<1>8. reply.outcome = "failed" <=> nodes[E[e]].status = "failed"
  <2>1. nodes[E[e]].status \in {"completed", "failed"}
    <3>1. e \in DOMAIN E
      BY <1>3, <1>4, LenProperties DEF Listed
    <3> QED BY <3>1 DEF Listed, Terminal, Range
  <2> QED BY <2>1, <1>7 DEF OutcomeOf
<1>9. G[p][1] \in Branch /\ G[p][2] \in Nat /\ Len(Script[G[p][1]]) \in Nat /\ NoLine \notin Asks
      /\ After(G[p], nodes[E[e]].status) \in Asks \cup {NoLine}
  BY <1>5, AskFacts
<1> DEFINE x == G[Openings + e]
<1>10. \/ toHost' = toHost /\ x \notin Asks
       \/ \E l \in LineType : /\ toHost' = Append(toHost, l)
                 /\ \/ l.kind # "ask" /\ x \notin Asks
                    \/ x \in Asks /\ l.branch = x[1] /\ l.step = x[2] /\ l.kind = "ask"
  <2>1. EndLine("throw") \in LineType /\ EndLine("complete") \in LineType
        /\ EndLine("throw").kind # "ask" /\ EndLine("complete").kind # "ask"
    BY DEF EndLine, LineType
  <2>2. toHost' = IF reply.outcome = "failed" /\ b \notin Catches THEN Append(toHost, EndLine("throw"))
                  ELSE IF reply.step < Len(Script[b]) THEN Append(toHost, line)
                  ELSE IF (\A c \in Needed : [pc EXCEPT ![b] = reply.step + 1][c] > Len(Script[c])) /\ b \in Needed
                         THEN Append(toHost, EndLine("complete"))
                  ELSE toHost
    BY DEF ScriptStep
  <2> HIDE DEF reply
  <2>3. CASE (nodes[E[e]].status = "failed" /\ b \notin Catches) \/ reply.step >= Len(Script[b])
    <3>1. x = NoLine
      BY <2>3, <1>5, <1>7, <1>9 DEF After
    <3>2. \/ toHost' = Append(toHost, EndLine("throw")) \/ toHost' = Append(toHost, EndLine("complete"))
          \/ toHost' = toHost
      BY <2>2, <2>3, <1>7, <1>8, <1>9
    <3> HIDE DEF x
    <3> QED BY <3>1, <3>2, <2>1, <1>9
  <2>4. CASE ~((nodes[E[e]].status = "failed" /\ b \notin Catches) \/ reply.step >= Len(Script[b]))
    <3>a. /\ b \in Branch /\ b = G[p][1] /\ reply.step = G[p][2] /\ reply.step \in Nat /\ Len(Script[b]) \in Nat
      BY <1>7, <1>9
    <3>b. ~(nodes[E[e]].status = "failed" /\ b \notin Catches) /\ ~(reply.step >= Len(Script[b]))
      BY <2>4
    <3>0. /\ b \in Branch /\ b = G[p][1] /\ reply.step = G[p][2] /\ reply.step \in Nat /\ Len(Script[b]) \in Nat
          /\ ~(nodes[E[e]].status = "failed" /\ b \notin Catches)
          /\ ~(reply.step >= Len(Script[b])) /\ reply.step < Len(Script[b])
      BY <3>a, <3>b
    <3> HIDE DEF b
    <3>1. x = <<b, reply.step + 1>>
      BY <3>0, <1>5 DEF After
    <3>2. toHost' = Append(toHost, line)
      BY <2>2, <3>0, <1>8
    <3>3. x \in Asks
      <4>1. x # NoLine
        BY <3>1, <1>7, <1>9 DEF NoLine
      <4> QED BY <4>1, <1>5, <1>9
    <3>4. line.kind = "ask" /\ line.branch = x[1] /\ line.step = x[2] /\ line = AskLine(x[1], x[2])
      BY <3>1 DEF AskLine
    <3> HIDE DEF x, line
    <3>5. line \in LineType
      BY <3>3, <3>4 DEF LineType
    <3> QED BY <3>2, <3>3, <3>4, <3>5
  <2> QED BY <2>3, <2>4
<1>11. A \in 0..M /\ LinesOut(G, A, M, pos) /\ ReadUpTo(G, A)
  BY DEF Replays, M
<1>12. PICK N : N = M + 1
  OBVIOUS
<1>13. PICK m : m = M
  OBVIOUS
<1>14. PICK more : LinesOut(G, A, N, more)'
  <2>1. N = m + 1 /\ m \in Nat /\ A \in Nat /\ A <= m /\ LinesOut(G, A, m, pos) /\ G[N] = x
    BY <1>4, <1>11, <1>12, <1>13
  <2> HIDE DEF x
  <2>2. \/ toHost' = toHost /\ G[N] \notin Asks
        \/ \E l : /\ toHost' = Append(toHost, l)
                  /\ \/ l.kind # "ask" /\ G[N] \notin Asks
                     \/ G[N] \in Asks /\ l.branch = G[N][1] /\ l.step = G[N][2] /\ l.kind = "ask"
                  /\ l \in LineType
    BY <2>1, <1>10
  <2> QED BY <2>1, <2>2, LineWritten
<1>15. N = Openings + (d - Len(toChild'))
  BY <1>2, <1>4, <1>12
<1>16. GateAt(E, d)' /\ ReadUpTo(G, A)'
  BY <1>1, <1>11 DEF Replays, GateAt, ReadUpTo
<1>17. LetGo(E, d)'
  <2>1. InHand' = InHand
    BY <1>1 DEF InHand, Hand, Recorded, Holds, Has
  <2> QED BY <2>1, <1>1, <1>3 DEF LetGo
<1>18. RepliesOut(E, d)'
  <2>1. ASSUME NEW k \in 1..Len(toChild'), NEW i, i = E[(d - Len(toChild')) + k]
        PROVE  toChild'[k] = Reply(asked'[i], OutcomeOf(i)')
    <3>1. k + 1 \in 1..L /\ (d - Len(toChild')) + k = (d - L) + (k + 1) /\ k \in 1..(L - 1)
      BY <1>2, <1>3
    <3>2. toChild'[k] = toChild[k + 1]
      BY <3>1, <1>2
    <3>3. toChild[k + 1] = Reply(asked[i], OutcomeOf(i))
      BY <3>1, <2>1, <1>3
    <3>4. OutcomeOf(i)' = OutcomeOf(i)
      BY <1>1 DEF OutcomeOf
    <3> QED BY <3>2, <3>3, <3>4, <1>1
  <2>2. Len(toChild') <= d
    BY <1>2, <1>3
  <2> QED BY <2>1, <2>2 DEF RepliesOut
<1>19. A \in 0..N
  BY <1>4, <1>11, <1>12
<1> QED BY <1>14, <1>15, <1>16, <1>17, <1>18, <1>19 DEF Replays

(***************************************************************************)
(* A live answer that is in order comes when the gate is done with the     *)
(* table.  It is the last, in this life and for the lives to come.         *)
(***************************************************************************)
LEMMA SettleNodeReplays ==
  ASSUME IInv, IInv', Promises, NEW a \in Actor, current[a] # None, NEW st \in Terminal,
         NEW sess, SettleNode(a, st, sess), CaughtUp,
         RecoveredOrder(nodes', events') = Append(RecoveredOrder(nodes, events), current[a]),
         NEW E, NEW at, NEW G, NEW d, NEW A, NEW pos,
         Listed(E, at), Scheduled(E, G), Replays(E, G, d, A, pos)
  PROVE  \E D, to, H, c : Listed(D, to)' /\ Scheduled(D, H)' /\ Replays(D, H, c, A, pos)'
<1>1. PICK inst : inst = current[a]
  OBVIOUS
<1>3. PICK outcome \in {"ok", "failed"} : outcome = IF st = "completed" THEN "ok" ELSE "failed"
  OBVIOUS
<1> DEFINE D == Append(E, inst)
           N == Len(E)
           L == Len(toChild)
           M == Openings + (d - L)
<1>4. /\ nodes' = [nodes EXCEPT ![inst].status = st] /\ events' = Append(events, Settled(inst, outcome))
      /\ toChild' = Append(toChild, Reply(asked[inst], outcome))
      /\ toHost' = toHost /\ asked' = asked /\ ordinals' = ordinals /\ order' = order /\ cursor' = cursor
  BY <1>1, <1>3 DEF SettleNode, admission, gate
<1>5. /\ inst \in DOMAIN nodes /\ nodes \in [DOMAIN nodes -> RowType] /\ nodes[inst].status = "running"
      /\ inst \in DOMAIN asked /\ JournalType
  BY <1>1, CurrentRow DEF IInv, Types
<1>6. InHand' \subseteq InHand /\ inst \notin InHand'
  BY <1>1, SettleHands
<1>7. /\ E \in Seq(Instance) /\ N \in Nat /\ DOMAIN E = 1..N /\ Openings \in Nat /\ L \in Nat
      /\ toChild \in Seq(ReplyType)
  BY OrderAssumption, LenProperties DEF Listed, Openings, IInv, Types, PipeType
<1>2. inst \notin Range(E) /\ \E to : Listed(D, to)'
  <2>1. JournalType'
    BY DEF IInv, Types
  <2> QED BY <2>1, <1>1, <1>4, <1>5, SettledListed
<1>8. PICK to : Listed(D, to)'
  BY <1>2
<1>9. \A k \in 1..N : E[k] # inst /\ E[k] \in DOMAIN nodes
  BY <1>2, <1>7 DEF Range, Listed
<1>10. /\ d = N /\ cursor = Len(order) + 1 /\ L <= d /\ A \in 0..M /\ LinesOut(G, A, M, pos) /\ ReadUpTo(G, A)
  <2>1. Len(order) \in Nat /\ cursor \in 1..(Len(order) + 1) /\ cursor > Len(order)
    BY LenProperties DEF IInv, Types, GateType, CaughtUp
  <2>2. cursor = Len(order) + 1
    BY <2>1
  <2>3. GateAt(E, d) /\ L <= d /\ A \in 0..M /\ LinesOut(G, A, M, pos) /\ ReadUpTo(G, A)
    BY DEF Replays, RepliesOut
  <2>4. d = N
    <3>1. CASE E = order /\ cursor = d + 1
      <4>1. N = Len(order) /\ d + 1 = Len(order) + 1 /\ d \in Int
        BY <2>2, <2>3, <3>1 DEF GateAt
      <4> QED BY <4>1, <2>1
    <3>2. CASE ~(E = order /\ cursor = d + 1)
      BY <2>3, <3>2 DEF GateAt
    <3> QED BY <3>1, <3>2
  <2> QED BY <2>2, <2>3, <2>4
<1>11. PICK p \in 1..A : G[p] \in Asks /\ Name(G, p) = inst /\ asked[inst] = G[p]
  BY <1>5, <1>10 DEF ReadUpTo
<1>12. Len(G) = Openings + N /\ G \in Seq(Asks \cup {NoLine})
  BY DEF Scheduled
<1>13. p \in 1..Len(G) /\ M <= Len(G) /\ M \in Nat /\ A \in 0..Len(G)
  BY <1>7, <1>10, <1>12
<1> DEFINE x == After(G[p], st)
           H == Append(G, x)
<1>14. Scheduled(D, H)'
  BY <1>2, <1>4, <1>5, <1>7, <1>9, <1>11, <1>13, SettledScheduled
<1>15. /\ \A q \in 1..Len(G) : H[q] = G[q] /\ Name(H, q) = Name(G, q)
       /\ \A q \in 0..Len(G) : \A s : Before(H, s, q) = Before(G, s, q)
  <2>1. x \in Asks \cup {NoLine}
    BY <1>11, AskFacts
  <2> QED BY <2>1, <1>12, NameKept
<1>16. PICK c : c = d + 1
  OBVIOUS
<1>17. /\ Len(D) = N + 1 /\ D[N + 1] = inst /\ \A k \in 1..N : D[k] = E[k]
  <2>1. inst \in Instance
    BY <1>5 DEF JournalType
  <2> QED BY <2>1, <1>7, AppendProperties
<1>18. Len(toChild') = L + 1 /\ toChild'[L + 1] = Reply(asked[inst], outcome)
       /\ \A k \in 1..L : toChild'[k] = toChild[k]
  <2>1. asked[inst] \in Asks
    BY <1>11
  <2>2. Reply(asked[inst], outcome) \in ReplyType
    BY <2>1 DEF ReplyType
  <2> QED BY <2>2, <1>4, <1>7, AppendProperties
<1>19. OutcomeOf(inst)' = outcome /\ \A k \in 1..N : OutcomeOf(E[k])' = OutcomeOf(E[k])
  <2>1. nodes'[inst].status = st /\ \A i \in DOMAIN nodes : i # inst => nodes'[i] = nodes[i]
    BY <1>4, <1>5 DEF RowType
  <2>2. OutcomeOf(inst)' = outcome
    BY <2>1, <1>3 DEF OutcomeOf
  <2>3. \A k \in 1..N : nodes'[E[k]] = nodes[E[k]]
    BY <2>1, <1>9
  <2> QED BY <2>2, <2>3 DEF OutcomeOf
<1> HIDE DEF D, H, x, L, N, M
<1>m. PICK m : m = M
  OBVIOUS
<1>20. Openings + (c - Len(toChild')) = m
  BY <1>7, <1>10, <1>16, <1>18, <1>m DEF M
<1>21. GateAt(D, c)'
  BY <1>4, <1>7, <1>10, <1>16, <1>17 DEF GateAt, N
<1>22. LetGo(D, c)'
  <2> SUFFICES ASSUME NEW e \in 1..c PROVE D[e] \in DOMAIN asked' /\ D[e] \notin InHand'
    BY DEF LetGo
  <2>1. CASE e = N + 1
    BY <2>1, <1>4, <1>5, <1>6, <1>17
  <2>2. CASE e # N + 1
    <3>1. e \in 1..d /\ e \in 1..N
      BY <2>2, <1>7, <1>10, <1>16
    <3>2. E[e] \in DOMAIN asked /\ E[e] \notin InHand
      BY <3>1 DEF Replays, LetGo
    <3> QED BY <3>1, <3>2, <1>4, <1>6, <1>17
  <2> QED BY <2>1, <2>2
<1>23. RepliesOut(D, c)'
  <2>1. ASSUME NEW k \in 1..Len(toChild'), NEW i, i = D[(c - Len(toChild')) + k]
        PROVE  toChild'[k] = Reply(asked'[i], OutcomeOf(i)')
    <3>1. CASE k = L + 1
      <4>1. (c - Len(toChild')) + k = N + 1
        BY <3>1, <1>7, <1>10, <1>16, <1>18
      <4>2. i = inst
        BY <4>1, <2>1, <1>17
      <4> QED BY <4>2, <3>1, <1>4, <1>18, <1>19
    <3>2. CASE k # L + 1
      <4>1. k \in 1..L /\ (c - Len(toChild')) + k = (d - L) + k /\ (d - L) + k \in 1..N
        BY <3>2, <1>7, <1>10, <1>16, <1>18
      <4>2. i = E[(d - L) + k] /\ OutcomeOf(i)' = OutcomeOf(i)
        BY <4>1, <2>1, <1>17, <1>19
      <4>3. toChild[k] = Reply(asked[i], OutcomeOf(i))
        BY <4>1, <4>2 DEF Replays, RepliesOut, L
      <4> QED BY <4>1, <4>2, <4>3, <1>4, <1>18
    <3> QED BY <3>1, <3>2
  <2>2. Len(toChild') <= c
    BY <1>7, <1>10, <1>16, <1>18
  <2> QED BY <2>1, <2>2 DEF RepliesOut
<1>24. ReadUpTo(H, A)'
  <2>1. ASSUME NEW i \in DOMAIN asked
        PROVE  \E q \in 1..A : H[q] \in Asks /\ Name(H, q) = i /\ asked[i] = H[q]
    <3>1. PICK q \in 1..A : G[q] \in Asks /\ Name(G, q) = i /\ asked[i] = G[q]
      BY <1>10 DEF ReadUpTo
    <3>2. q \in 1..Len(G)
      BY <1>13
    <3> QED BY <3>1, <3>2, <1>15
  <2>2. \A s \in Site : ordinals[s] = Cardinality(Before(H, s, A))
    BY <1>10, <1>13, <1>15 DEF ReadUpTo
  <2> QED BY <2>1, <2>2, <1>4 DEF ReadUpTo
<1>25. LinesOut(H, A, m, pos)'
  <2>1. \A q \in (A + 1)..m : H[q] = G[q]
    BY <1>13, <1>15, <1>m
  <2>2. LinesOut(H, A, m, pos)
    <3>1. LinesOut(G, A, m, pos)
      BY <1>10, <1>m
    <3> QED BY <2>1, <3>1 DEF LinesOut
  <2> QED BY <2>2, <1>4 DEF LinesOut
<1>26. Replays(D, H, c, A, pos)'
  <2>1. A \in 0..m
    BY <1>10, <1>m
  <2> QED BY <2>1, <1>20, <1>21, <1>22, <1>23, <1>24, <1>25 DEF Replays
<1> QED BY <1>8, <1>14, <1>26

(* A piece of a sequence, by its length. *)
LEMMA PieceFacts ==
  ASSUME NEW T, NEW s \in Seq(T), NEW n \in Nat, NEW t \in Nat, \A k \in n..((n + t) - 1) : s[k] \in T
  PROVE  /\ SubSeq(s, n, (n + t) - 1) \in Seq(T) /\ Len(SubSeq(s, n, (n + t) - 1)) = t
         /\ \A k \in 1..t : SubSeq(s, n, (n + t) - 1)[k] = s[(n + k) - 1]
<1> DEFINE last == (n + t) - 1
           piece == SubSeq(s, n, last)
<1>1. n \in Int /\ last \in Int /\ \A k \in n..last : s[k] \in T
  OBVIOUS
<1>2. (last - n) + 1 = t
  OBVIOUS
<1>a. n <= last <=> t # 0
  OBVIOUS
<1> HIDE DEF last
<1>3. /\ SubSeq(s, n, last) \in Seq(T)
      /\ Len(SubSeq(s, n, last)) = (IF n <= last THEN last-n+1 ELSE 0)
      /\ \A k \in 1 .. last-n+1 : SubSeq(s, n, last)[k] = s[n+k-1]
  BY <1>1, SubSeqProperties
<1>4. /\ (last-n+1) = (last - n) + 1
      /\ \A k \in Nat : (n+k-1) = (n + k) - 1
  BY <1>1
<1>5. Len(piece) = t
  BY <1>2, <1>3, <1>4, <1>a
<1>6. \A k \in 1..t : piece[k] = s[(n + k) - 1]
  BY <1>2, <1>3, <1>4
<1> QED BY <1>3, <1>5, <1>6 DEF last

(***************************************************************************)
(* In a replay the gate releases the next answers of the order and nothing *)
(* else: whatever it is given is in the table and not before the cursor,   *)
(* and when it is done with the table there is nothing left to give it.    *)
(***************************************************************************)
LEMMA HoldReplays ==
  ASSUME GateType, NEW E \in Seq(Instance), NEW d, GateAt(E, d), NEW D, parked \subseteq D, NEW answers \in Seq(D),
         \A i \in parked \cup Range(answers) : i \in Range(E) /\ \A e \in 1..d : E[e] # i
  PROVE  \E t \in Nat :
            /\ d + t <= Len(E) /\ Hold(answers).cursor = cursor + t
            /\ (E = order /\ cursor = d + 1) \/ t = 0
            /\ Len(Hold(answers).released) = t
            /\ \A k \in 1..t : Hold(answers).released[k] = E[d + k]
<1> DEFINE fresh == {i \in DOMAIN nodes : ~InTable(i)}
           direct == Keep(answers, fresh)
           waiting == parked \cup {i \in Range(answers) : InTable(i)}
           S == {n \in DOMAIN order : order[n] \in waiting}
           turn == RunLength(S, cursor)
           due == SubSeq(order, cursor, cursor + turn - 1)
<1>0. /\ order \in Seq(Instance) /\ Len(order) \in Nat /\ DOMAIN order = 1..Len(order)
      /\ cursor \in 1..(Len(order) + 1) /\ cursor \in Nat
      /\ Len(E) \in Nat /\ DOMAIN E = 1..Len(E) /\ d \in 0..Len(E)
  BY LenProperties DEF GateType, GateAt
<1>1. Hold(answers) = [released |-> direct \o due, parked |-> waiting \ Range(due), cursor |-> cursor + turn]
  BY DEF Hold
<1>2. Hold(answers).cursor \in 1..(Len(order) + 1)
  BY HoldFacts
<1>3. ASSUME NEW i \in Range(answers) PROVE InTable(i)
  <2>1. PICK e \in 1..Len(E) : E[e] = i
    BY <1>0 DEF Range
  <2>2. e > d
    BY <2>1, <1>0
  <2>3. E = order /\ cursor = d + 1
    BY <2>1, <2>2, <1>0 DEF GateAt
  <2>4. e \in DOMAIN order /\ order[e] = i /\ e >= cursor
    BY <2>1, <2>2, <2>3, <1>0
  <2> QED BY <2>4 DEF InTable
<1>4. direct = <<>>
  <2>1. direct \in Seq(D) /\ Range(direct) = Range(answers) \cap fresh
    BY KeepRange
  <2>2. Range(direct) = {}
    BY <2>1, <1>3
  <2> HIDE DEF direct
  <2>3. Len(direct) \in Nat /\ DOMAIN direct = 1..Len(direct) /\ \A k \in DOMAIN direct : direct[k] \in Range(direct)
    BY <2>1, SeqRange, LenProperties
  <2>4. Len(direct) = 0
    <3> SUFFICES ASSUME Len(direct) # 0 PROVE FALSE
      OBVIOUS
    <3>1. 1 \in DOMAIN direct
      BY <2>3
    <3> QED BY <3>1, <2>2, <2>3
  <2> QED BY <2>1, <2>4, EmptySeq
<1>5. S \in SUBSET Nat /\ IsFiniteSet(S)
  <2>1. S \in SUBSET (1..Len(order)) /\ IsFiniteSet(1..Len(order))
    BY <1>0, FS_Interval
  <2> QED BY <2>1, FS_Subset
<1>6. turn \in Nat /\ \A j \in 0..(turn - 1) : cursor + j \in S
  <2> HIDE DEF S
  <2> QED BY <1>0, <1>5, RunLengthFacts
<1>7. (E = order /\ cursor = d + 1) \/ turn = 0
  <2> SUFFICES ASSUME ~(E = order /\ cursor = d + 1), turn # 0 PROVE FALSE
    OBVIOUS
  <2>1. cursor = Len(order) + 1
    BY DEF GateAt
  <2>2. cursor + 0 \in S
    BY <1>6
  <2>3. cursor + 0 \in DOMAIN order
    BY <2>2
  <2> QED BY <2>1, <2>3, <1>0
<1> HIDE DEF S, turn, direct
<1>8. cursor + turn <= Len(order) + 1
  <2>1. cursor + turn = Hold(answers).cursor
    BY <1>1
  <2> QED BY <2>1, <1>0, <1>2, <1>6
<1>9. due = SubSeq(order, cursor, (cursor + turn) - 1)
  <2>1. cursor + turn - 1 = (cursor + turn) - 1
    BY <1>0, <1>6
  <2> QED BY <2>1
<1>10. /\ due \in Seq(Instance) /\ Len(due) = turn
       /\ \A k \in 1..turn : due[k] = order[(cursor + k) - 1]
  <2>1. \A n \in cursor..((cursor + turn) - 1) : order[n] \in Instance
    BY <1>0, <1>6, <1>8, ElementOfSeq
  <2> QED BY <2>1, <1>0, <1>6, <1>9, PieceFacts
<1> HIDE DEF due
<1>11. Hold(answers).released = due
  BY <1>1, <1>4, <1>10, ConcatEmptySeq
<1>12. d + turn <= Len(E)
  BY <1>0, <1>6, <1>7, <1>8
<1>13. \A k \in 1..turn : due[k] = E[d + k]
  <2> SUFFICES ASSUME NEW k \in 1..turn PROVE due[k] = E[d + k]
    OBVIOUS
  <2>1. E = order /\ cursor = d + 1
    BY <1>6, <1>7
  <2>2. (cursor + k) - 1 = d + k
    BY <2>1, <1>0
  <2> QED BY <2>1, <2>2, <1>10
<1>14. Hold(answers).cursor = cursor + turn
  BY <1>1
<1> QED BY <1>6, <1>7, <1>10, <1>11, <1>12, <1>13, <1>14

(***************************************************************************)
(* What an admission lets go: answers that it was given or that were       *)
(* parked, which are recorded ones and not let go before.                  *)
(***************************************************************************)
LetOut(E, d, t, calls) ==
    /\ t \in Nat /\ d + t <= Len(E) /\ cursor' = cursor + t
    /\ (E = order /\ cursor = d + 1) \/ t = 0
    /\ \A k \in 1..t : E[d + k] \in DOMAIN calls /\ E[d + k] \notin InHand'
    /\ \E X \in Seq(EventType) :
          /\ events' = events \o X /\ Len(X) = t
          /\ \A k \in 1..t : X[k].inst = E[d + k]
    /\ \E Y \in Seq(ReplyType) :
          /\ toChild' = toChild \o Y /\ Len(Y) = t
          /\ \A k \in 1..t : Y[k] = Reply(calls[E[d + k]], OutcomeOf(E[d + k]))

LEMMA DrainLetsOut ==
  ASSUME IInv, IInv', Promises, NEW a \in Actor, NEW inst, NEW rec, NEW fresh, NEW calls, NEW S,
         Claims(inst, a, rec, fresh, calls), Drain(a, rec, fresh, calls, S), asked' = calls,
         NEW E, NEW at, NEW d, Listed(E, at), GateAt(E, d), LetGo(E, d)
  PROVE  \E t : LetOut(E, d, t, calls)
<1> DEFINE answers == Answered(a, rec)
           rel == Hold(answers).released
           X == [k \in DOMAIN rel |-> Settled(rel[k], OutcomeOf(rel[k]))]
           Y == [k \in DOMAIN rel |-> Reply(calls[rel[k]], OutcomeOf(rel[k]))]
<1>1. /\ events' = events \o X /\ toChild' = toChild \o Y
      /\ parked' = Hold(answers).parked /\ cursor' = Hold(answers).cursor
  BY DEF Drain, Admitted, Run, In, Answered
<1>2. /\ Admissible(a, rec, fresh, calls) /\ inst \notin DOMAIN asked /\ GateType
      /\ \A n \in DOMAIN rec :
            \/ n \in DOMAIN pendingRecorded[a] /\ rec[n] = pendingRecorded[a][n]
            \/ rec[n] = inst
  BY DEF Claims, IInv, Types
<1>3. /\ calls \in [DOMAIN calls -> Asks] /\ DOMAIN calls \subseteq Instance
      /\ parked \subseteq DOMAIN calls
  BY <1>2 DEF Admissible, GateType
<1>4. answers \in Seq(DOMAIN calls) /\ IsInjective(answers)
  <2>1. In(a, rec) \in Seq(DOMAIN calls) /\ IsInjective(In(a, rec))
    BY <1>2, BatchFacts DEF IInv
  <2> QED BY <2>1, KeepRange DEF Answered
<1>5. ASSUME NEW i \in parked \cup Range(answers)
      PROVE  /\ i \in DOMAIN nodes /\ nodes[i].status # "running" /\ nodes'[i].status # "running"
             /\ \A b \in Actor : i \notin Hand(b)'
             /\ i \in parked => i \notin Range(answers)
  <2>1. /\ i \in DOMAIN nodes /\ nodes'[i].status # "running" /\ \A b \in Actor : i \notin Hand(b)'
        /\ i \in parked => i \notin Range(answers)
    BY AnswersApart
  <2>2. nodes'[i].status = nodes[i].status
    BY <2>1, <1>2, DrainJournal DEF IInv, SameAsk
  <2> QED BY <2>1, <2>2
<1>6. \A i \in Range(answers) : i \in InHand \/ i = inst
  <2>1. \A n \in DOMAIN rec : rec[n] \in Recorded(a) \cup {inst}
    BY <1>2 DEF Recorded
  <2>2. \A i \in Range(In(a, rec)) : \E n \in DOMAIN rec : i = rec[n]
    BY <1>2, LiveFacts DEF IInv
  <2>3. Range(answers) \subseteq Range(In(a, rec))
    BY <1>2, BatchFacts, KeepRange DEF Answered, IInv
  <2> QED BY <2>1, <2>2, <2>3, HandFacts
<1> HIDE DEF answers
<1>7. ASSUME NEW i \in parked \cup Range(answers) PROVE i \in Range(E) /\ \A e \in 1..d : E[e] # i
  <2>1. nodes[i].status \in Terminal
    <3>1. i \in DOMAIN nodes /\ nodes[i].status # "running"
      BY <1>5
    <3> QED BY <3>1 DEF IInv, Types, JournalType, RowType
  <2>2. i \in Range(E)
    BY <2>1, <1>5 DEF Listed
  <2>3. i \in InHand \/ i = inst
    BY <1>6, HandFacts
  <2>4. \A e \in 1..d : E[e] \in DOMAIN asked /\ E[e] \notin InHand
    BY DEF LetGo
  <2> QED BY <2>2, <2>3, <2>4, <1>2
<1>8. PICK t \in Nat :
            /\ d + t <= Len(E) /\ Hold(answers).cursor = cursor + t
            /\ (E = order /\ cursor = d + 1) \/ t = 0
            /\ Len(rel) = t /\ \A k \in 1..t : rel[k] = E[d + k]
  <2>1. E \in Seq(Instance)
    BY DEF Listed
  <2> QED BY <2>1, <1>2, <1>3, <1>4, <1>7, HoldReplays
<1>9. /\ rel \in Seq(DOMAIN calls) /\ Range(rel) \subseteq parked \cup Range(answers)
      /\ Hold(answers).parked \subseteq (parked \cup Range(answers)) \ Range(rel)
  <2>1. Range(answers) \cap parked = {} /\ IsInjective(order)
    BY <1>5 DEF Promises
  <2> QED BY <2>1, <1>2, <1>3, <1>4, HoldReleases
<1>10. X \in Seq(EventType) /\ Y \in Seq(ReplyType)
  BY <1>3, <1>9, ReleaseFacts DEF Settlements
<1> HIDE DEF rel
<1>11. DOMAIN rel = 1..t
  BY <1>8, <1>9, LenProperties
<1>12. /\ Len(X) = t /\ \A k \in 1..t : X[k].inst = E[d + k]
       /\ Len(Y) = t /\ \A k \in 1..t : Y[k] = Reply(calls[E[d + k]], OutcomeOf(E[d + k]))
  <2>1. DOMAIN X = 1..t /\ \A k \in 1..t : X[k].inst = E[d + k]
    BY <1>8, <1>11 DEF Settled
  <2>2. DOMAIN Y = 1..t /\ \A k \in 1..t : Y[k] = Reply(calls[E[d + k]], OutcomeOf(E[d + k]))
    BY <1>8, <1>11
  <2> HIDE DEF X, Y
  <2>3. Len(X) \in Nat /\ DOMAIN X = 1..Len(X) /\ Len(Y) \in Nat /\ DOMAIN Y = 1..Len(Y)
    BY <1>10, LenProperties
  <2>4. Len(X) = t /\ Len(Y) = t
    BY <1>8, <2>1, <2>2, <2>3
  <2> QED BY <2>1, <2>2, <2>4
<1> HIDE DEF X, Y
<1>13. ASSUME NEW k \in 1..t PROVE E[d + k] \in DOMAIN calls /\ E[d + k] \notin InHand'
  <2>1. rel[k] \in Range(rel) /\ rel[k] \in DOMAIN calls
    BY <1>9, <1>11, SeqRange
  <2>2. rel[k] \notin parked' /\ \A b \in Actor : rel[k] \notin Hand(b)'
    BY <2>1, <1>1, <1>5, <1>9
  <2>3. rel[k] \notin InHand'
    BY <2>2 DEF InHand
  <2> QED BY <2>1, <2>3, <1>8
<1>14. LetOut(E, d, t, calls)
  BY <1>1, <1>8, <1>10, <1>12, <1>13 DEF LetOut
<1> QED BY <1>14

(* The line the engine reads next, and the instance it claims. *)
LEMMA NextClaim ==
  ASSUME IInv, NEW E, NEW G, NEW d, NEW A, NEW pos, NEW M, Scheduled(E, G), Replays(E, G, d, A, pos),
         Len(E) \in Nat, M = Openings + (d - Len(toChild)), toHost # <<>>, Head(toHost).kind = "ask"
  PROVE  \E p \in (A + 1)..M :
            /\ p \in 1..Len(G) /\ A < p /\ G[p] \in Asks
            /\ Head(toHost).branch = G[p][1] /\ Head(toHost).step = G[p][2]
            /\ Name(G, p) = <<SiteOf(G[p]), ordinals[SiteOf(G[p])] + 1>>
            /\ \A s \in Site : Cardinality(Before(G, s, p)) =
                    IF s = SiteOf(G[p]) THEN ordinals[s] + 1 ELSE ordinals[s]
            /\ toHost' = Tail(toHost) => \E rest : LinesOut(G, p, M, rest)'
<1>1. /\ LinesOut(G, A, M, pos) /\ A \in 0..M /\ ReadUpTo(G, A) /\ d \in 0..Len(E) /\ Len(toChild) <= d
      /\ Len(G) = Openings + Len(E)
  BY DEF Replays, RepliesOut, GateAt, Scheduled
<1>2. Openings \in Nat /\ Len(toChild) \in Nat
  BY OrderAssumption, LenProperties DEF Openings, IInv, Types, PipeType
<1>3. M \in Nat /\ M <= Len(G) /\ A \in Nat /\ Len(G) \in Nat
  BY <1>1, <1>2
<1>4. PICK p \in (A + 1)..M :
            /\ G[p] \in Asks /\ Head(toHost).branch = G[p][1] /\ Head(toHost).step = G[p][2]
            /\ \A q \in (A + 1)..(p - 1) : G[q] \notin Asks
            /\ toHost' = Tail(toHost) => \E rest : LinesOut(G, p, M, rest)'
  BY <1>1, <1>3, LineRead
<1>5. p \in 1..Len(G) /\ A < p /\ p \in Nat
  BY <1>3
<1>6. \A s : Cardinality(Before(G, s, p)) =
                  IF s = SiteOf(G[p]) THEN Cardinality(Before(G, s, A)) + 1 ELSE Cardinality(Before(G, s, A))
  BY <1>3, <1>4, <1>5, NextName
<1>7. \A s \in Site : Cardinality(Before(G, s, A)) = ordinals[s]
  BY <1>1 DEF ReadUpTo
<1>8. SiteOf(G[p]) \in Site
  BY <1>4, AskFacts
<1>9. Name(G, p) = <<SiteOf(G[p]), ordinals[SiteOf(G[p])] + 1>>
  BY <1>6, <1>7, <1>8 DEF Name
<1>10. \A s \in Site : Cardinality(Before(G, s, p)) = IF s = SiteOf(G[p]) THEN ordinals[s] + 1 ELSE ordinals[s]
  BY <1>6, <1>7
<1> QED BY <1>4, <1>5, <1>9, <1>10

(* The row the next ask claims is a row of this ask. *)
LEMMA AdmitAskMatches ==
  ASSUME IInv, NEW E, NEW at, NEW G, NEW d, NEW A, NEW pos,
         Listed(E, at), Scheduled(E, G), Replays(E, G, d, A, pos), AdmitAsk
  PROVE  failure' = failure /\ status' = status /\ ~SettleRun("errored", FALSE)
<1> DEFINE line == Head(toHost)
           s == Script[line.branch][line.step]
           inst == <<s.site, ordinals[s.site] + 1>>
<1>1. toHost # <<>> /\ line.kind = "ask"
  BY DEF AdmitAsk
<1>2. PICK M : M = Openings + (d - Len(toChild))
  OBVIOUS
<1>3. Len(E) \in Nat
  BY LenProperties DEF Listed
<1>4. PICK p \in (A + 1)..M :
            /\ p \in 1..Len(G) /\ G[p] \in Asks
            /\ Head(toHost).branch = G[p][1] /\ Head(toHost).step = G[p][2]
            /\ Name(G, p) = <<SiteOf(G[p]), ordinals[SiteOf(G[p])] + 1>>
  BY <1>1, <1>2, <1>3, NextClaim
<1>5. inst = Name(G, p) /\ s.text = TextOf(G[p])
  BY <1>4 DEF SiteOf, TextOf
<1>6. inst \in DOMAIN nodes => nodes[inst].hash = s.text
  <2> SUFFICES ASSUME inst \in DOMAIN nodes PROVE nodes[inst].hash = s.text
    OBVIOUS
  <2>1. PICK q \in 1..Len(G) : G[q] \in Asks /\ Name(G, q) = inst /\ nodes[inst].hash = TextOf(G[q])
    BY DEF Scheduled
  <2>2. p \in Nat \ {0} /\ q \in Nat \ {0}
    BY <1>4, <2>1
  <2>3. p = q
    BY <1>4, <1>5, <2>1, <2>2, NamesApart
  <2> QED BY <1>5, <2>1, <2>3
<1>7. UNCHANGED <<status, failure, up>>
  BY <1>6 DEF AdmitAsk
<1>8. up /\ (SettleRun("errored", FALSE) => ~up')
  BY DEF AdmitAsk, SettleRun, Down
<1> QED BY <1>7, <1>8

(* An admission goes one line further, and lets go the next answers of the order. *)
LEMMA AdmitAskReplays ==
  ASSUME IInv, IInv', Promises, NEW E, NEW at, NEW G, NEW d, NEW A, NEW pos,
         Listed(E, at), Scheduled(E, G), Replays(E, G, d, A, pos), AdmitAsk
  PROVE  Listed(E, at)' /\ Scheduled(E, G)' /\ \E c, B, rest : Replays(E, G, c, B, rest)'
<1>1. toHost # <<>> /\ Head(toHost).kind = "ask"
  BY DEF AdmitAsk
<1>2. /\ toHost' = Tail(toHost) /\ order' = order
      /\ \E a \in Actor, S \in SUBSET Actor : \E inst, rec, fresh, calls :
            /\ a \in S /\ Claims(inst, a, rec, fresh, calls) /\ Drain(a, rec, fresh, calls, S)
            /\ asked' = calls /\ ordinals' = [ordinals EXCEPT ![inst[1]] = @ + 1]
  BY AdmitAskMatches, AdmitAskDrains
<1>3. PICK a \in Actor, S \in SUBSET Actor : \E inst, rec, fresh, calls :
            /\ a \in S /\ Claims(inst, a, rec, fresh, calls) /\ Drain(a, rec, fresh, calls, S)
            /\ asked' = calls /\ ordinals' = [ordinals EXCEPT ![inst[1]] = @ + 1]
  BY <1>2
<1>4. PICK inst, rec, fresh, calls :
            /\ a \in S /\ Claims(inst, a, rec, fresh, calls) /\ Drain(a, rec, fresh, calls, S)
            /\ asked' = calls /\ ordinals' = [ordinals EXCEPT ![inst[1]] = @ + 1]
  BY <1>3
<1>5. /\ Admissible(a, rec, fresh, calls) /\ inst \in Instance /\ inst \notin DOMAIN asked
      /\ inst[2] = ordinals[inst[1]] + 1 /\ SiteOf(calls[inst]) = inst[1]
      /\ DOMAIN calls = DOMAIN asked \cup {inst} /\ \A i \in DOMAIN asked : calls[i] = asked[i]
      /\ calls[inst] = <<Head(toHost).branch, Head(toHost).step>>
  BY <1>4 DEF Claims, Admissible
<1>6. /\ E \in Seq(Instance) /\ Len(E) \in Nat /\ DOMAIN E = 1..Len(E) /\ Openings \in Nat
      /\ Len(toChild) \in Nat /\ toChild \in Seq(ReplyType) /\ JournalType
      /\ ordinals \in [Site -> Nat]
  BY OrderAssumption, LenProperties DEF Listed, Openings, IInv, Types, PipeType, AdmissionType
<1>7. /\ GateAt(E, d) /\ RepliesOut(E, d) /\ LetGo(E, d) /\ ReadUpTo(G, A)
      /\ d \in 0..Len(E) /\ Len(toChild) <= d /\ A \in 0..(Openings + (d - Len(toChild)))
  BY DEF Replays, RepliesOut, GateAt
<1>8. PICK t : LetOut(E, d, t, calls)
  BY <1>4, <1>7, DrainLetsOut
<1>9. PICK M : M = Openings + (d - Len(toChild))
  OBVIOUS
<1>10. PICK p \in (A + 1)..M :
            /\ p \in 1..Len(G) /\ A < p /\ G[p] \in Asks
            /\ Head(toHost).branch = G[p][1] /\ Head(toHost).step = G[p][2]
            /\ Name(G, p) = <<SiteOf(G[p]), ordinals[SiteOf(G[p])] + 1>>
            /\ \A s \in Site : Cardinality(Before(G, s, p)) =
                    IF s = SiteOf(G[p]) THEN ordinals[s] + 1 ELSE ordinals[s]
            /\ \E rest : LinesOut(G, p, M, rest)'
  BY <1>1, <1>2, <1>6, <1>9, NextClaim
<1>11. PICK rest : LinesOut(G, p, M, rest)'
  BY <1>10
<1>12. calls[inst] = G[p] /\ inst = Name(G, p) /\ inst[1] = SiteOf(G[p])
  <2>1. calls[inst] = <<G[p][1], G[p][2]>> /\ G[p] = <<G[p][1], G[p][2]>>
    BY <1>5, <1>10, AskFacts
  <2>2. inst = <<inst[1], inst[2]>>
    BY <1>5 DEF Instance
  <2> QED BY <2>1, <2>2, <1>5, <1>10
<1>13. A \in Nat /\ M \in Nat /\ p \in Nat /\ A <= p /\ p <= M
  BY <1>6, <1>7, <1>9
<1>14. /\ t \in Nat /\ d + t <= Len(E) /\ cursor' = cursor + t
       /\ (E = order /\ cursor = d + 1) \/ t = 0
       /\ \A k \in 1..t : E[d + k] \in DOMAIN calls /\ E[d + k] \notin InHand'
  BY <1>8 DEF LetOut
<1>15. PICK X \in Seq(EventType) :
          /\ events' = events \o X /\ Len(X) = t /\ \A k \in 1..t : X[k].inst = E[d + k]
  BY <1>8 DEF LetOut
<1>16. PICK Y \in Seq(ReplyType) :
          /\ toChild' = toChild \o Y /\ Len(Y) = t
          /\ \A k \in 1..t : Y[k] = Reply(calls[E[d + k]], OutcomeOf(E[d + k]))
  BY <1>8 DEF LetOut
<1>17. /\ DOMAIN nodes' = DOMAIN nodes \cup Range(Admitted(a, rec, fresh))
       /\ \A i \in DOMAIN nodes : SameAsk(nodes'[i], nodes[i])
       /\ \A i \in Range(Admitted(a, rec, fresh)) :
             /\ nodes'[i].status = "running" /\ nodes'[i].hash = TextOf(calls[i]) /\ i \in DOMAIN calls
  <2>0. Types /\ Places /\ Admissible(a, rec, fresh, calls) /\ Drain(a, rec, fresh, calls, S)
    BY <1>4, <1>5 DEF IInv
  <2>1. /\ DOMAIN nodes' = DOMAIN nodes \cup Range(Admitted(a, rec, fresh))
        /\ \A i \in DOMAIN nodes : SameAsk(nodes'[i], nodes[i])
        /\ \A i \in Range(Admitted(a, rec, fresh)) : nodes'[i].status = "running"
    BY <2>0, DrainJournal
  <2>2. \A k \in DOMAIN Admitted(a, rec, fresh) :
           nodes'[Admitted(a, rec, fresh)[k]].hash = TextOf(calls[Admitted(a, rec, fresh)[k]])
    BY <2>0, DrainRows
  <2>3. Range(Admitted(a, rec, fresh)) \subseteq DOMAIN calls
    <3>1. Range(Admitted(a, rec, fresh)) \subseteq Range(fresh)
      BY <2>0, <1>5, BatchFacts
    <3> QED BY <3>1, <1>5 DEF Admissible
  <2> QED BY <2>1, <2>2, <2>3 DEF Range
<1>18. \A k \in 1..Len(E) : E[k] \in DOMAIN nodes /\ E[k] \in Range(E)
  BY <1>6 DEF Listed, Range
<1>19. Listed(E, at)'
  <2>1. \A i : i \in DOMAIN nodes' /\ nodes'[i].status \in Terminal <=>
                 i \in DOMAIN nodes /\ nodes[i].status \in Terminal
    BY <1>17 DEF Terminal, SameAsk
  <2> QED BY <2>1, <1>6, <1>15, MoreListed
<1>20. ASSUME NEW i \in DOMAIN calls PROVE \E q \in 1..p : G[q] \in Asks /\ Name(G, q) = i /\ calls[i] = G[q]
  <2>1. CASE i = inst
    <3>1. p \in 1..p
      BY <1>13, <1>10
    <3> QED BY <3>1, <2>1, <1>10, <1>12
  <2>2. CASE i # inst
    <3>1. PICK q \in 1..A : G[q] \in Asks /\ Name(G, q) = i /\ asked[i] = G[q]
      BY <2>2, <1>5, <1>7 DEF ReadUpTo
    <3>2. q \in 1..p /\ calls[i] = asked[i]
      BY <2>2, <1>5, <1>13
    <3> QED BY <3>1, <3>2
  <2> QED BY <2>1, <2>2
<1>21. Scheduled(E, G)'
  <2>1. ASSUME NEW i \in DOMAIN nodes', i \notin DOMAIN nodes
        PROVE  \E q \in 1..Len(G) : G[q] \in Asks /\ Name(G, q) = i /\ nodes'[i].hash = TextOf(G[q])
    <3>1. nodes'[i].hash = TextOf(calls[i]) /\ i \in DOMAIN calls
      BY <2>1, <1>17
    <3>2. PICK q \in 1..p : G[q] \in Asks /\ Name(G, q) = i /\ calls[i] = G[q]
      BY <3>1, <1>20
    <3>3. q \in 1..Len(G)
      BY <1>10, <1>13
    <3> QED BY <3>1, <3>2, <3>3
  <2> QED BY <2>1, <1>17, <1>18, MoreScheduled
<1>22. PICK c : c = d + t
  OBVIOUS
<1>23. /\ Len(toChild') = Len(toChild) + t
       /\ \A k \in 1..Len(toChild) : toChild'[k] = toChild[k]
       /\ \A k \in 1..t : toChild'[Len(toChild) + k] = Y[k]
  <2>1. /\ Len(toChild \o Y) = Len(toChild) + Len(Y)
        /\ \A k \in 1..(Len(toChild) + Len(Y)) :
              (toChild \o Y)[k] = IF k <= Len(toChild) THEN toChild[k] ELSE Y[k - Len(toChild)]
    BY <1>6, ConcatProperties
  <2>2. \A k \in 1..t : Len(toChild) + k \in 1..(Len(toChild) + t) /\ (Len(toChild) + k) - Len(toChild) = k
                        /\ ~(Len(toChild) + k <= Len(toChild))
    BY <1>6, <1>14
  <2>3. \A k \in 1..Len(toChild) : k \in 1..(Len(toChild) + t) /\ k <= Len(toChild)
    BY <1>6, <1>14
  <2> QED BY <2>1, <2>2, <2>3, <1>16
<1>24. Openings + (c - Len(toChild')) = M
  BY <1>6, <1>7, <1>9, <1>14, <1>22, <1>23
<1>25. GateAt(E, c)'
  <2>1. c \in 0..Len(E)
    BY <1>6, <1>7, <1>14, <1>22
  <2>2. CASE E = order /\ cursor = d + 1
    BY <2>1, <2>2, <1>2, <1>7, <1>14, <1>22 DEF GateAt
  <2>3. CASE ~(E = order /\ cursor = d + 1)
    <3>1. t = 0 /\ d = Len(E) /\ cursor = Len(order) + 1
      BY <2>3, <1>7, <1>14 DEF GateAt
    <3>2. c = d /\ cursor' = cursor
      <4>1. Len(order) \in Nat
        BY LenProperties DEF IInv, Types, GateType
      <4> QED BY <4>1, <3>1, <1>6, <1>14, <1>22
    <3> QED BY <2>1, <3>1, <3>2, <1>2 DEF GateAt
  <2> QED BY <2>2, <2>3
<1>26. LetGo(E, c)'
  <2> SUFFICES ASSUME NEW e \in 1..c PROVE E[e] \in DOMAIN calls /\ E[e] \notin InHand'
    BY <1>4 DEF LetGo
  <2>1. CASE e <= d
    <3>1. e \in 1..d
      BY <2>1, <1>7
    <3>2. E[e] \in DOMAIN asked /\ E[e] \notin InHand
      BY <3>1, <1>7 DEF LetGo
    <3>3. InHand' \subseteq InHand \cup {inst}
      BY <1>4, DrainHands
    <3> QED BY <3>2, <3>3, <1>5
  <2>2. CASE ~(e <= d)
    <3>1. e - d \in 1..t /\ d + (e - d) = e
      BY <2>2, <1>7, <1>14, <1>22
    <3> QED BY <3>1, <1>14
  <2> QED BY <2>1, <2>2
<1>27. \A k \in 1..Len(E) : OutcomeOf(E[k])' = OutcomeOf(E[k])
  BY <1>17, <1>18 DEF OutcomeOf, SameAsk
<1>28. RepliesOut(E, c)'
  <2>1. ASSUME NEW k \in 1..Len(toChild'), NEW i, i = E[(c - Len(toChild')) + k]
        PROVE  toChild'[k] = Reply(asked'[i], OutcomeOf(i)')
    <3>1. CASE k <= Len(toChild)
      <4>1. /\ k \in 1..Len(toChild) /\ (c - Len(toChild')) + k = (d - Len(toChild)) + k
            /\ (d - Len(toChild)) + k \in 1..d /\ (d - Len(toChild)) + k \in 1..Len(E)
        BY <3>1, <1>6, <1>7, <1>14, <1>22, <1>23
      <4>2. i = E[(d - Len(toChild)) + k] /\ OutcomeOf(i)' = OutcomeOf(i)
        BY <4>1, <2>1, <1>27
      <4>3. toChild[k] = Reply(asked[i], OutcomeOf(i)) /\ i \in DOMAIN asked
        BY <4>1, <4>2, <1>7 DEF RepliesOut, LetGo
      <4> QED BY <4>1, <4>2, <4>3, <1>4, <1>5, <1>23
    <3>2. CASE ~(k <= Len(toChild))
      <4> DEFINE j == k - Len(toChild)
      <4>0. /\ Len(toChild) \in Nat /\ d \in 0..Len(E) /\ Len(E) \in Nat /\ t \in Nat
            /\ d + t <= Len(E) /\ c = d + t /\ Len(toChild') = Len(toChild) + t
        BY <1>6, <1>7, <1>14, <1>22, <1>23
      <4>1. /\ j \in 1..t /\ k = Len(toChild) + j /\ (c - Len(toChild')) + k = d + j
            /\ d + j \in 1..Len(E)
        BY <3>2, <4>0
      <4> HIDE DEF j
      <4>2. i = E[d + j] /\ OutcomeOf(i)' = OutcomeOf(i)
        BY <4>1, <2>1, <1>27
      <4>3. toChild'[k] = Reply(calls[i], OutcomeOf(i))
        BY <4>1, <4>2, <1>16, <1>23
      <4> QED BY <4>2, <4>3, <1>4
    <3> QED BY <3>1, <3>2
  <2>2. Len(toChild') <= c
    BY <1>6, <1>7, <1>14, <1>22, <1>23
  <2> QED BY <2>1, <2>2 DEF RepliesOut
<1>29. ReadUpTo(G, p)'
  <2>1. ASSUME NEW s \in Site PROVE ordinals'[s] = Cardinality(Before(G, s, p))
    <3>1. inst[1] \in Site
      BY <1>5 DEF Instance
    <3>2. ordinals'[s] = IF s = inst[1] THEN ordinals[s] + 1 ELSE ordinals[s]
      BY <3>1, <1>4, <1>6
    <3> QED BY <3>2, <1>10, <1>12
  <2> QED BY <2>1, <1>4, <1>20 DEF ReadUpTo
<1>30. Replays(E, G, c, p, rest)'
  <2>1. p \in 0..M
    BY <1>13
  <2> QED BY <2>1, <1>11, <1>24, <1>25, <1>26, <1>28, <1>29 DEF Replays
<1> QED BY <1>19, <1>21, <1>30

(***************************************************************************)
(* What is true of a run whose live answers came in order: its journal is  *)
(* that of one schedule, and a life that is not over is somewhere on it.   *)
(***************************************************************************)
OnSchedule(E, at, G) == Listed(E, at) /\ Scheduled(E, G)
Journaled == \E E, at, G : OnSchedule(E, at, G)
Replaying == \E E, at, G : OnSchedule(E, at, G) /\ \E d, A, pos : Replays(E, G, d, A, pos)
ReplayInv ==
    /\ disturbed \in BOOLEAN
    /\ ~disturbed => /\ failure # "InputHashMismatch"
                     /\ status \in {"running", "stopped"} => IF up THEN Replaying ELSE Journaled

(* A life that begins has read nothing and has let nothing go. *)
Fresh(E) ==
    /\ toHost = FirstLines /\ toChild = <<>> /\ asked = <<>> /\ ordinals = [s \in Site |-> 0]
    /\ order = E /\ cursor = 1
Opened == \E E, at, G : OnSchedule(E, at, G) /\ Fresh(E)

LEMMA LifeBegins == Opened => Replaying
<1> SUFFICES ASSUME NEW E, NEW at, NEW G, OnSchedule(E, at, G), Fresh(E)
             PROVE  \E d, A, pos : Replays(E, G, d, A, pos)
  BY DEF Opened, Replaying
<1>1. /\ E \in Seq(Instance) /\ Len(E) \in Nat /\ Len(G) = Openings + Len(E)
      /\ \A p \in 1..Openings : G[p] = <<BranchOrder[p], 1>>
  BY LenProperties DEF OnSchedule, Listed, Scheduled
<1>2. /\ Openings \in Nat /\ DOMAIN BranchOrder = 1..Openings
      /\ \A p \in 1..Openings : BranchOrder[p] \in Branch
  BY OrderAssumption, LenProperties, ElementOfSeq DEF Openings
<1>3. \A p \in 1..Openings : <<BranchOrder[p], 1>> \in Asks
  <2> SUFFICES ASSUME NEW p \in 1..Openings PROVE <<BranchOrder[p], 1>> \in Asks
    OBVIOUS
  <2>1. 1 \in DOMAIN Script[BranchOrder[p]]
    <3>1. /\ Len(Script[BranchOrder[p]]) \in Nat \ {0}
          /\ DOMAIN Script[BranchOrder[p]] = 1..Len(Script[BranchOrder[p]])
      BY <1>2, ScriptAssumption
    <3> QED BY <3>1
  <2> QED BY <2>1, <1>2 DEF Asks
<1> DEFINE pos == [n \in 1..Openings |-> n]
<1>4. pos \in Seq(Nat) /\ Len(pos) = Openings /\ \A n \in 1..Openings : pos[n] = n
  <2>1. pos \in [1..Openings -> Nat]
    BY <1>2
  <2> QED BY <2>1, <1>2, SameLength
<1>5. /\ Len(toHost) = Openings
      /\ \A n \in 1..Openings : /\ toHost[n].kind = "ask" /\ toHost[n].branch = BranchOrder[n]
                                /\ toHost[n].step = 1
  <2>1. FirstLines \in Seq(LineType) /\ DOMAIN FirstLines = 1..Openings
    BY <1>2, FirstLinesType DEF FirstLines
  <2>2. Len(FirstLines) \in Nat /\ DOMAIN FirstLines = 1..Len(FirstLines)
    BY <2>1, LenProperties
  <2>3. Len(FirstLines) = Openings
    BY <2>1, <2>2, <1>2
  <2>4. \A n \in 1..Openings : FirstLines[n].kind = "ask" /\ FirstLines[n].branch = BranchOrder[n]
                               /\ FirstLines[n].step = 1
    BY <1>2 DEF FirstLines, AskLine
  <2> QED BY <2>3, <2>4 DEF Fresh
<1> HIDE DEF pos
<1>6. LinesOut(G, 0, Openings, pos)
  <2>1. (0 + 1)..Openings = 1..Openings
    BY <1>2
  <2>2. \A n \in 1..Openings : /\ G[n] \in Asks /\ toHost[n].branch = G[n][1] /\ toHost[n].step = G[n][2]
    <3>1. ASSUME NEW x, NEW b, x = <<b, 1>> PROVE x[1] = b /\ x[2] = 1
      BY <3>1
    <3>2. \A n \in 1..Openings : G[n][1] = BranchOrder[n] /\ G[n][2] = 1
      BY <1>1, <3>1
    <3> QED BY <3>2, <1>1, <1>3, <1>5
  <2> QED BY <2>1, <2>2, <1>4, <1>5 DEF LinesOut
<1>7. ReadUpTo(G, 0)
  <2>1. \A s : Before(G, s, 0) = {}
    BY DEF Before
  <2>2. Cardinality({}) = 0
    BY FS_EmptySet
  <2>3. DOMAIN asked = {} /\ \A s \in Site : ordinals[s] = 0
    BY DEF Fresh
  <2> QED BY <2>1, <2>2, <2>3 DEF ReadUpTo
<1>8. GateAt(E, 0) /\ LetGo(E, 0)
  BY <1>1 DEF GateAt, LetGo, Fresh
<1>9. Len(toChild) = 0 /\ RepliesOut(E, 0)
  BY DEF RepliesOut, Fresh
<1>10. Openings + (0 - Len(toChild)) = Openings
  BY <1>2, <1>9
<1>11. Replays(E, G, 0, 0, pos)
  BY <1>2, <1>6, <1>7, <1>8, <1>9, <1>10 DEF Replays
<1> QED BY <1>11

LEMMA InitReplays == Init => ReplayInv
<1> SUFFICES ASSUME Init PROVE ReplayInv
  OBVIOUS
<1> DEFINE G == [p \in 1..Openings |-> <<BranchOrder[p], 1>>]
<1>1. /\ Openings \in Nat /\ DOMAIN BranchOrder = 1..Openings
      /\ \A p \in 1..Openings : BranchOrder[p] \in Branch
  BY OrderAssumption, LenProperties, ElementOfSeq DEF Openings
<1>2. /\ nodes = <<>> /\ events = <<RunStarted>> /\ status = "running" /\ up = TRUE /\ failure = "none"
      /\ toHost = FirstLines /\ toChild = <<>> /\ asked = <<>> /\ ordinals = [s \in Site |-> 0]
      /\ order = <<>> /\ cursor = 1 /\ disturbed = FALSE
  BY DEF Init
<1>3. Listed(<<>>, <<>>)
  <2>1. DOMAIN <<>> = {} /\ Len(<<>>) = 0 /\ Range(<<>>) = {} /\ <<>> \in Seq(Instance)
    BY EmptySeq DEF Range
  <2>2. <<>> \in [1..Len(<<>>) -> DOMAIN events]
    BY <2>1
  <2>3. \A n \in DOMAIN events : events[n].type # "node-settled"
    BY <1>2 DEF RunStarted
  <2> QED BY <2>1, <2>2, <2>3, <1>2 DEF Listed, IsInjective, Increasing
<1>4. Scheduled(<<>>, G)
  <2>1. \A p \in 1..Openings : <<BranchOrder[p], 1>> \in Asks
    <3> SUFFICES ASSUME NEW p \in 1..Openings PROVE <<BranchOrder[p], 1>> \in Asks
      OBVIOUS
    <3>1. /\ Len(Script[BranchOrder[p]]) \in Nat \ {0}
          /\ DOMAIN Script[BranchOrder[p]] = 1..Len(Script[BranchOrder[p]])
      BY <1>1, ScriptAssumption
    <3>2. 1 \in DOMAIN Script[BranchOrder[p]]
      BY <3>1
    <3> QED BY <3>2, <1>1 DEF Asks
  <2>2. G \in [1..Openings -> Asks \cup {NoLine}]
    BY <2>1
  <2>3. G \in Seq(Asks \cup {NoLine}) /\ Len(G) = Openings /\ \A p \in 1..Openings : G[p] = <<BranchOrder[p], 1>>
    BY <2>2, <1>1, SameLength
  <2> HIDE DEF G
  <2>4. Len(<<>>) = 0 /\ DOMAIN nodes = {}
    BY <1>2
  <2> QED BY <2>3, <2>4, <1>1 DEF Scheduled
<1>5. Opened
  BY <1>2, <1>3, <1>4 DEF Opened, OnSchedule, Fresh
<1>6. Replaying
  BY <1>5, LifeBegins
<1> QED BY <1>2, <1>6 DEF ReplayInv

(* The next life reads the same order from the journal and runs the same script. *)
LEMMA ResumeReplays ==
  ASSUME IInv, Journaled, Resume
  PROVE  Replaying'
<1>1. PICK E, at, G : OnSchedule(E, at, G)
  BY DEF Journaled
<1>2. /\ events' = Append(events, RunStarted) /\ nodes' = nodes /\ toHost' = FirstLines /\ Cold
      /\ order' = RecoveredOrder(nodes, events)
  BY DEF Resume
<1>3. JournalType
  BY DEF IInv, Types
<1>4. order' = E
  BY <1>1, <1>2, <1>3, RecoveredIsListed DEF OnSchedule
<1>5. Listed(E, at)'
  <2>1. <<RunStarted>> \in Seq(EventType)
    BY DEF RunStarted, EventType
  <2>2. events' = events \o <<RunStarted>>
    BY <1>2, <1>3 DEF JournalType
  <2> QED BY <2>1, <2>2, <1>1, <1>2, <1>3, MoreListed DEF OnSchedule
<1>6. Scheduled(E, G)'
  BY <1>1, <1>2 DEF OnSchedule, Scheduled
<1>7. Fresh(E)'
  BY <1>2, <1>4 DEF Cold, Fresh
<1>8. Opened'
  BY <1>5, <1>6, <1>7 DEF Opened, OnSchedule
<1> QED BY <1>8, LifeBegins, PTL

(* A step without lines, rows and settlements stays where it is. *)
LEMMA QuietReplays ==
  ASSUME Replaying, UNCHANGED <<nodes, events, toHost, toChild, ordinals, asked, pendingRecorded,
                                pendingLive, parked, order, cursor>>,
         \A a \in Actor : Holds(a)' = Holds(a)
  PROVE  Replaying'
<1>1. PICK E, at, G : OnSchedule(E, at, G) /\ \E d, A, pos : Replays(E, G, d, A, pos)
  BY DEF Replaying
<1>2. PICK d, A, pos : Replays(E, G, d, A, pos)
  BY <1>1
<1>3. OnSchedule(E, at, G)'
  BY <1>1 DEF OnSchedule, Listed, Scheduled
<1>4. InHand' = InHand
  <2>1. \A a \in Actor : Hand(a)' = Hand(a)
    BY DEF Hand, Recorded
  <2> QED BY <2>1 DEF InHand
<1>5. \A i : OutcomeOf(i)' = OutcomeOf(i)
  BY DEF OutcomeOf
<1>6. Replays(E, G, d, A, pos)'
  BY <1>2, <1>4, <1>5 DEF Replays, GateAt, RepliesOut, LetGo, ReadUpTo, LinesOut
<1> QED BY <1>3, <1>6 DEF Replaying

(* A life that ends early leaves the journal as it is. *)
LEMMA SameJournal ==
  ASSUME Replaying \/ Journaled, UNCHANGED <<nodes, events>>
  PROVE  Journaled'
<1>1. PICK E, at, G : OnSchedule(E, at, G)
  BY DEF Replaying, Journaled
<1>2. OnSchedule(E, at, G)'
  BY <1>1 DEF OnSchedule, Listed, Scheduled
<1> QED BY <1>2 DEF Journaled

(* So does a stop: what it flushes and cancels answers no row. *)
LEMMA StopJournals ==
  ASSUME IInv, Replaying, Stop
  PROVE  Journaled'
<1>1. PICK E, at, G : OnSchedule(E, at, G)
  BY DEF Replaying
<1>2. up /\ SettleRun("stopped", TRUE) /\ nodes' = nodes
  BY DEF Stop, SettleRun
<1>3. PICK X \in Seq(EventType) : events' = events \o X
  BY <1>2, SettleRunStep
<1>4. JournalType /\ Listed(E, at)
  BY <1>1 DEF IInv, Types, OnSchedule
<1>5. Listed(E, at)'
  BY <1>2, <1>3, <1>4, MoreListed
<1>6. Scheduled(E, G)'
  BY <1>1, <1>2 DEF OnSchedule, Scheduled
<1> QED BY <1>5, <1>6 DEF Journaled, OnSchedule

LEMMA SettlementReplays ==
  ASSUME IInv, IInv', Promises, Replaying, NEW a \in Actor, current[a] # None, NEW st \in Terminal,
         NEW sess, SettleNode(a, st, sess), ~OutOfOrder(current[a])
  PROVE  Replaying'
<1>1. PICK E, at, G : OnSchedule(E, at, G) /\ \E d, A, pos : Replays(E, G, d, A, pos)
  BY DEF Replaying
<1>2. PICK d, A, pos : Replays(E, G, d, A, pos)
  BY <1>1
<1>3. CaughtUp /\ RecoveredOrder(nodes', events') = Append(RecoveredOrder(nodes, events), current[a])
  BY DEF OutOfOrder
<1>4. \E D, to, H, c : Listed(D, to)' /\ Scheduled(D, H)' /\ Replays(D, H, c, A, pos)'
  BY <1>1, <1>2, <1>3, SettleNodeReplays DEF OnSchedule
<1> QED BY <1>4 DEF Replaying, OnSchedule

(* History only grows, and an answer out of order is history. *)
LEMMA HistoryStays ==
  ASSUME disturbed \in BOOLEAN, [Next]_vars
  PROVE  /\ disturbed' \in BOOLEAN
         /\ ~disturbed' =>
               /\ ~disturbed /\ \A a \in Actor : ~CrashInSettle(a)
               /\ \A a \in Actor : \A st, sess : SettleNode(a, st, sess) => ~OutOfOrder(current[a])
<1>1. ASSUME NEW a \in Actor, NEW st, NEW sess, SettleNode(a, st, sess)
      PROVE  disturbed' \in BOOLEAN /\ (~disturbed' => ~disturbed /\ ~OutOfOrder(current[a]))
  <2>1. disturbed' = (disturbed \/ OutOfOrder(current[a]))
    BY <1>1 DEF SettleNode
  <2> QED BY <2>1, Zenon
<1>2. ASSUME NEW a \in Actor, CrashInSettle(a) PROVE disturbed' = TRUE
  BY <1>2 DEF CrashInSettle
<1>3. CASE disturbed' = disturbed
  BY <1>1, <1>2, <1>3
<1>4. CASE disturbed' # disturbed
  <2>1. CASE \E a \in Actor : CrashInSettle(a)
    BY <2>1, <1>2
  <2>2. CASE ~\E a \in Actor : CrashInSettle(a)
    <3>1. \E a \in Actor : \E st, sess : SettleNode(a, st, sess)
      BY <2>2, <1>4, Zenon DEF Next, vars, AdmitAsk, ScriptEnds, ScriptStep, Stop, Crash, Resume, Dispatch,
         DispatchFails, AskReported, SetMaxConcurrency, SettleRun
    <3> QED BY <3>1, <2>2, <1>1
  <2> QED BY <2>1, <2>2
<1> QED BY <1>3, <1>4

(* Every step of a run whose live answers come in order. *)
LEMMA EveryReplayStep ==
  ASSUME IInv, IInv', Promises, ReplayInv, [Next]_vars
  PROVE  ReplayInv'
<1> SUFFICES ASSUME ~disturbed'
             PROVE  /\ failure' # "InputHashMismatch"
                    /\ status' \in {"running", "stopped"} => IF up' THEN Replaying' ELSE Journaled'
  BY HistoryStays DEF ReplayInv
<1>0. /\ ~disturbed /\ \A a \in Actor : ~CrashInSettle(a)
      /\ \A a \in Actor : \A st, sess : SettleNode(a, st, sess) => ~OutOfOrder(current[a])
  BY HistoryStays DEF ReplayInv
<1> DEFINE Goal == /\ failure' # "InputHashMismatch"
                   /\ status' \in {"running", "stopped"} => IF up' THEN Replaying' ELSE Journaled'
<1>1. /\ failure # "InputHashMismatch"
      /\ status \in {"running", "stopped"} => IF up THEN Replaying ELSE Journaled
  BY <1>0 DEF ReplayInv
<1>2. up => status = "running" /\ Replaying
  BY <1>1 DEF IInv, UpAndDown
<1>3. ASSUME Replaying', up', UNCHANGED failure PROVE Goal
  BY <1>1, <1>3
<1>4. CASE UNCHANGED vars
  <2>1. /\ UNCHANGED <<nodes, events, toHost, toChild, ordinals, asked, pendingRecorded, pendingLive,
                       parked, order, cursor>>
        /\ UNCHANGED <<status, failure, up, liveQueue, current>>
    BY <1>4 DEF vars, journal, script, admission, dispatching, gate
  <2>2. \A a \in Actor : Holds(a)' = Holds(a)
    BY <2>1 DEF Holds, Has
  <2>3. CASE up
    BY <2>1, <2>2, <2>3, <1>2, <1>3, QuietReplays
  <2>4. CASE ~up
    BY <2>1, <2>4, <1>1, SameJournal
  <2> QED BY <2>3, <2>4
<1>5. CASE AdmitAsk
  <2>1. up
    BY <1>5 DEF AdmitAsk
  <2>2. PICK E, at, G : OnSchedule(E, at, G) /\ \E d, A, pos : Replays(E, G, d, A, pos)
    BY <2>1, <1>2 DEF Replaying
  <2>3. PICK d, A, pos : Replays(E, G, d, A, pos)
    BY <2>2
  <2>4. failure' = failure /\ status' = status /\ ~SettleRun("errored", FALSE)
    BY <1>5, <2>2, <2>3, AdmitAskMatches DEF OnSchedule
  <2>5. up'
    BY <1>5, <2>1, <2>4 DEF AdmitAsk
  <2>6. Listed(E, at)' /\ Scheduled(E, G)' /\ \E c, B, rest : Replays(E, G, c, B, rest)'
    BY <1>5, <2>2, <2>3, AdmitAskReplays DEF OnSchedule
  <2>7. Replaying'
    BY <2>6 DEF Replaying, OnSchedule
  <2> QED BY <2>4, <2>5, <2>7, <1>3
<1>6. CASE ScriptEnds
  BY <1>6, <1>1 DEF ScriptEnds, SettleRun
<1>7. CASE ScriptStep
  <2>1. up /\ UNCHANGED <<journal, up, failure>>
    BY <1>7 DEF ScriptStep
  <2>2. PICK E, at, G : OnSchedule(E, at, G) /\ \E d, A, pos : Replays(E, G, d, A, pos)
    BY <2>1, <1>2 DEF Replaying
  <2>3. PICK d, A, pos : Replays(E, G, d, A, pos)
    BY <2>2
  <2>4. \E more : Replays(E, G, d, A, more)'
    BY <1>7, <2>2, <2>3, ScriptStepReplays DEF OnSchedule
  <2>5. OnSchedule(E, at, G)'
    BY <2>1, <2>2 DEF OnSchedule, Listed, Scheduled, journal
  <2>6. Replaying'
    BY <2>4, <2>5 DEF Replaying
  <2> QED BY <2>1, <2>6, <1>3
<1>8. CASE Crash
  <2>1. up /\ ~up' /\ UNCHANGED <<status, failure, nodes, events>>
    BY <1>8 DEF Crash, Down, journal
  <2>2. Journaled'
    BY <2>1, <1>2, SameJournal
  <2> QED BY <2>1, <2>2, <1>1
<1>9. CASE Resume
  <2>1. status \in {"running", "stopped"} /\ ~up /\ up' /\ failure' = failure
    BY <1>9 DEF Resume
  <2>2. Replaying'
    BY <1>9, <2>1, <1>1, ResumeReplays
  <2> QED BY <2>1, <2>2, <1>3
<1>10. ASSUME NEW a \in Actor, Dispatch(a) PROVE Goal
  <2>1. /\ UNCHANGED <<nodes, events, toHost, toChild, ordinals, asked, pendingRecorded, pendingLive,
                       parked, order, cursor>>
        /\ up /\ UNCHANGED <<status, failure, up, liveQueue, current>>
    BY <1>10 DEF Dispatch, journal, script, admission, gate
  <2>2. \A b \in Actor : Holds(b)' = Holds(b)
    BY <2>1 DEF Holds, Has
  <2> QED BY <2>1, <2>2, <1>2, <1>3, QuietReplays
<1>11. ASSUME NEW a \in Actor, DispatchFails(a) PROVE Goal
  <2>1. PICK sess : SettleNode(a, "failed", sess)
    BY <1>11 DEF DispatchFails
  <2>2. up /\ current[a] # None /\ "failed" \in Terminal
    BY <1>11 DEF DispatchFails, Terminal
  <2>3. Replaying'
    BY <2>1, <2>2, <1>0, <1>2, SettlementReplays
  <2> QED BY <2>1, <2>2, <2>3, <1>3 DEF SettleNode
<1>12. ASSUME NEW a \in Actor, NEW st \in Terminal, AskReported(a, st) PROVE Goal
  <2>1. SettleNode(a, st, session) /\ up /\ current[a] # None
    BY <1>12 DEF AskReported
  <2>2. Replaying'
    BY <2>1, <1>0, <1>2, SettlementReplays
  <2> QED BY <2>1, <2>2, <1>3 DEF SettleNode
<1>13. ASSUME NEW n \in Caps, SetMaxConcurrency(n) PROVE Goal
  <2>1. /\ UNCHANGED <<nodes, events, toHost, toChild, ordinals, asked, pendingRecorded, pendingLive,
                       parked, order, cursor>>
        /\ up /\ UNCHANGED <<status, failure, up>>
    BY <1>13 DEF SetMaxConcurrency, script, admission, gate
  <2>2. \A b \in Actor : Holds(b)' = Holds(b)
    BY <1>13, RetuneHolds
  <2> QED BY <2>1, <2>2, <1>2, <1>3, QuietReplays
<1>14. CASE Stop
  <2>1. up /\ ~up' /\ failure' = failure
    BY <1>14 DEF Stop, SettleRun, Down
  <2>2. Journaled'
    BY <1>14, <2>1, <1>2, StopJournals
  <2> QED BY <2>1, <2>2, <1>1
<1> QED BY <1>0, <1>4, <1>5, <1>6, <1>7, <1>8, <1>9, <1>10, <1>11, <1>12, <1>13, <1>14 DEF Next

-----------------------------------------------------------------------------
(* The theorems. *)

LEMMA InitInv == Init => IInv /\ Contract!Init
<1> SUFFICES ASSUME Init PROVE IInv /\ Contract!Init
  OBVIOUS
<1>0. /\ <<>> \in Seq(Instance) /\ <<>> \in Seq(ReplyType) /\ Range(<<>>) = {} /\ IsInjective(<<>>)
      /\ DOMAIN <<>> = {} /\ IsFiniteSet({}) /\ None \notin Instance /\ Len(<<>>) = 0
  BY EmptySeq, FS_EmptySet, NoneAssumption DEF Range, IsInjective, Instance
<1>1. JournalType
  <2>1. RunStarted \in EventType
    BY DEF RunStarted, EventType
  <2>2. events \in Seq(EventType)
    BY <2>1 DEF Init
  <2>3. nodes = <<>> /\ status = "running" /\ cap \in Caps
    BY DEF Init
  <2> QED BY <1>0, <2>2, <2>3 DEF JournalType
<1>2. AdmissionType
  <2>1. {i \in Instance : i[2] <= ordinals[i[1]]} = {}
    <3> SUFFICES ASSUME NEW i \in Instance, i[2] <= ordinals[i[1]] PROVE FALSE
      OBVIOUS
    <3>1. i[1] \in Site /\ i[2] \in Nat /\ i[2] # 0
      BY DEF Instance
    <3>2. ordinals[i[1]] = 0
      BY <3>1 DEF Init
    <3> QED BY <3>1, <3>2
  <2>2. asked = <<>> /\ ordinals \in [Site -> Nat] /\ nextAdmitSeq \in [Actor -> Nat]
        /\ pendingLive = [a \in Actor |-> <<>>] /\ pendingRecorded = [a \in Actor |-> <<>>]
    BY DEF Init
  <2>3. asked \in [DOMAIN asked -> Asks] /\ DOMAIN asked = {}
    BY <2>2, <1>0
  <2>4. pendingLive \in [Actor -> Seq(Instance)] /\ DOMAIN pendingRecorded = Actor
        /\ \A a \in Actor : DOMAIN pendingRecorded[a] = {}
    BY <2>2, <1>0
  <2> QED BY <2>1, <2>2, <2>3, <2>4, <1>0 DEF AdmissionType
<1>3. DispatchType
  BY <1>0 DEF Init, DispatchType, SessionState
<1>4. GateType
  <2>1. order = <<>> /\ cursor = 1 /\ parked = {}
    BY DEF Init
  <2> QED BY <2>1, <1>0 DEF GateType
<1>5. PipeType
  BY <1>0, FirstLinesType DEF PipeType, Init
<1>6. \A a \in Actor : /\ pendingRecorded[a] = <<>> /\ pendingLive[a] = <<>>
                       /\ liveQueue[a] = <<>> /\ current[a] = None
  BY DEF Init
<1>7. \A a \in Actor : Holds(a) = {} /\ Recorded(a) = {}
  BY <1>0, <1>6 DEF Holds, Has, Recorded
<1>8. RecordedPlaces /\ FreshPlaces /\ LivePlaces
  BY <1>0, <1>6, <1>7 DEF RecordedPlaces, FreshPlaces, LivePlaces
<1>9. Range(liveNodes) = UNION {Holds(a) : a \in Actor}
  BY <1>0, <1>7 DEF Init
<1>10. WorkConserving
  <2>1. Busy = {}
    BY <1>6 DEF Busy
  <2>2. activeAsks = 0 /\ Cardinality({}) = 0
    BY FS_EmptySet DEF Init
  <2> QED BY <2>1, <2>2, <1>6 DEF WorkConserving
<1>11. UpAndDown
  <2>1. events = <<RunStarted>> /\ RunStarted.type = "run-started" /\ up /\ status = "running"
    BY DEF Init, RunStarted
  <2>2. Len(events) = 1 /\ events[1] = RunStarted /\ events # <<>>
    BY <2>1
  <2> QED BY <2>1, <2>2 DEF UpAndDown
<1>12. Contract!Init
  <2>1. DOMAIN Answers = {}
    BY <1>0 DEF Init, Answers
  <2>2. Answers = [i \in {} |-> "completed"]
    BY <2>1 DEF Answers
  <2> QED BY <2>2 DEF Init, Contract!Init, Answers
<1> QED BY <1>1, <1>2, <1>3, <1>4, <1>5, <1>8, <1>9, <1>10, <1>11, <1>12 DEF IInv, Types, Places

(* Every step preserves the invariant and is a step the log, an abort and the contract allow. *)
LEMMA EveryStep ==
  ASSUME IInv, Next
  PROVE  IInv' /\ Steps
<1>1. CASE AdmitAsk
  BY <1>1, AdmitAskStep
<1>2. CASE ScriptEnds
  BY <1>2, ScriptEndsStep
<1>3. CASE ScriptStep
  BY <1>3, ScriptStepStep
<1>4. CASE Stop
  BY <1>4, StopStep
<1>5. CASE Crash
  BY <1>5, CrashStep
<1>6. CASE Resume
  BY <1>6, ResumeStep
<1>7. ASSUME NEW a \in Actor, Dispatch(a) PROVE IInv' /\ Steps
  BY <1>7, DispatchStep
<1>8. ASSUME NEW a \in Actor, DispatchFails(a) PROVE IInv' /\ Steps
  BY <1>8, DispatchFailsStep
<1>9. ASSUME NEW a \in Actor, CrashInSettle(a) PROVE IInv' /\ Steps
  BY <1>9, CrashInSettleStep
<1>10. ASSUME NEW a \in Actor, NEW st \in Terminal, AskReported(a, st) PROVE IInv' /\ Steps
  BY <1>10, AskReportedStep
<1>11. ASSUME NEW n \in Caps, SetMaxConcurrency(n) PROVE IInv' /\ Steps
  BY <1>11, RetuneStep
<1> QED BY <1>1, <1>2, <1>3, <1>4, <1>5, <1>6, <1>7, <1>8, <1>9, <1>10, <1>11 DEF Next

LEMMA Stutter ==
  ASSUME IInv, UNCHANGED vars
  PROVE  IInv' /\ UNCHANGED <<status, Answers>>
<1>1. UNCHANGED <<journal, script, admission, dispatching, gate, up, lives, failure>>
  BY DEF vars
<1>2. Types'
  BY <1>1 DEF IInv, Types, JournalType, AdmissionType, DispatchType, GateType, PipeType,
              journal, script, admission, dispatching, gate
<1>3. IInv'
  BY <1>1, <1>2, QuietStep DEF dispatching
<1> QED BY <1>1, <1>3, KeepsAnswers DEF journal

(***************************************************************************)
(* The inductive invariant holds in every reachable state.                 *)
(***************************************************************************)
THEOREM Inductive == Spec => []IInv
<1>1. Init => IInv
  BY InitInv
<1>2. IInv /\ [Next]_vars => IInv'
  BY EveryStep, Stutter
<1> QED BY <1>1, <1>2, PTL DEF Spec

(***************************************************************************)
(* No dispatch is forgotten and no slot leaks: activeAsks is the number of *)
(* actors with a current ask through every settlement, retune, abort and   *)
(* replay, and no actor idles over its queue below the cap.                *)
(***************************************************************************)
THEOREM NoWakeUpIsLost == Spec => []WorkConserving
<1>1. IInv => WorkConserving
  BY DEF IInv
<1> QED BY <1>1, Inductive, PTL

(***************************************************************************)
(* An abort walks liveNodes and finds every ask that is queued or current, *)
(* and nothing else; each has a running row for the next life.             *)
(***************************************************************************)
THEOREM AbortIsComplete == Spec => []AbortFindsEveryAsk
<1>1. IInv => AbortFindsEveryAsk
  <2> SUFFICES ASSUME IInv PROVE AbortFindsEveryAsk
    OBVIOUS
  <2>1. Range(liveNodes) = UNION {Holds(a) : a \in Actor} /\ LivePlaces
    BY DEF IInv, Places
  <2>2. UNION {Holds(a) : a \in Actor}
          = {current[a] : a \in Busy} \cup UNION {Range(liveQueue[a]) : a \in Actor}
    BY DEF Holds, Has, Busy
  <2>3. \A i \in Range(liveNodes) : nodes[i].status = "running"
    BY <2>1 DEF LivePlaces
  <2> QED BY <2>1, <2>2, <2>3 DEF AbortFindsEveryAsk
<1> QED BY <1>1, Inductive, PTL

(***************************************************************************)
(* An ask that leaves liveNodes has its end in the log, in the step it     *)
(* leaves, unless the run died or errored.                                 *)
(***************************************************************************)
THEOREM EveryAskHasItsEnd == Spec => NoSilentAbandon
<1>1. IInv /\ [Next]_vars => [AbandonStep]_vars
  BY EveryStep DEF Steps
<1> QED BY <1>1, Inductive, PTL DEF Spec, NoSilentAbandon, AbandonStep

(***************************************************************************)
(* Nothing follows a run-settled in the log but the start of a new life.   *)
(***************************************************************************)
THEOREM LogOfALifeIsClosed == Spec => RunSettledIsLast
<1>1. IInv /\ [Next]_vars => [LogStep]_vars
  BY EveryStep DEF Steps
<1> QED BY <1>1, Inductive, PTL DEF Spec, RunSettledIsLast, LogStep

(***************************************************************************)
(* The engine implements the contract of a run: whatever is crashed, torn, *)
(* stopped and replayed, an ask is answered once and for all, only while   *)
(* the run is running, and only a stopped run runs again.                  *)
(***************************************************************************)
THEOREM EngineKeepsTheContract == Spec => ContractHolds
<1>1. Init => Contract!Init
  BY InitInv
<1>2. IInv /\ [Next]_vars => [Contract!Next]_<<status, Answers>>
  BY EveryStep, Stutter DEF Steps, ContractStep
<1> QED BY <1>1, <1>2, Inductive, PTL DEF Spec, ContractHolds, Contract!Spec, Answers

(***************************************************************************)
(* The rows of an actor are numbered without gap and its asks in hand are  *)
(* in order, whatever is crashed, torn and resumed, for a script whose     *)
(* calls of one site with one text go to one actor.                        *)
(***************************************************************************)
THEOREM PositionsAreKept ==
  ASSUME OneActorPerText
  PROVE  Spec => []Positions
<1>1. Init => Positions
  BY InitPositions
<1>2. IInv /\ Positions /\ [Next]_vars => Positions'
  BY EveryPosition
<1> QED BY <1>1, <1>2, Inductive, PTL DEF Spec

(***************************************************************************)
(* recordedCount, a count of rows, is the first position no earlier life   *)
(* has written: the journal numbers the asks of an actor without gap.      *)
(***************************************************************************)
THEOREM RowsAreDense ==
  ASSUME OneActorPerText
  PROVE  Spec => []DenseActorSeq
<1>1. IInv /\ Positions => DenseActorSeq
  <2> SUFFICES ASSUME IInv, Positions, NEW a \in Actor
               PROVE  {nodes[i].seq : i \in RecordedRows(a)} = 0..(Cardinality(RecordedRows(a)) - 1)
    BY DEF DenseActorSeq
  <2>1. PICK N \in Nat : Fills(nodes, a, N)
    BY DEF Positions, Filled
  <2>2. Cardinality(RecordedRows(a)) = N /\ {nodes[i].seq : i \in RecordedRows(a)} = 0..(N - 1)
    BY <2>1, RowsFacts, FillsCount DEF RecordedRows, IInv
  <2> QED BY <2>2
<1> QED BY <1>1, Inductive, PositionsAreKept, PTL

(***************************************************************************)
(* An ask goes to the driver when every earlier ask of its actor has its   *)
(* final answer in the journal: the transcript of a sub-agent grows in the *)
(* order of actorSeq.                                                      *)
(***************************************************************************)
THEOREM TranscriptIsSerial ==
  ASSUME OneActorPerText
  PROVE  Spec => []SerialTranscript
<1>1. IInv /\ Positions => SerialTranscript
  <2> SUFFICES ASSUME IInv, Positions, NEW i \in dispatched, NEW j \in DOMAIN nodes,
                      nodes[j].actor = nodes[i].actor, nodes[j].seq < nodes[i].seq,
                      nodes[j].status \notin Terminal
               PROVE  FALSE
    BY DEF SerialTranscript
  <2>1. PICK b \in Actor : i = current[b]
    BY DEF Positions, Sent
  <2>2. i # None
    BY NoneAssumption, SeqRange DEF IInv, Types, DispatchType, Instance
  <2>3. i \in DOMAIN nodes /\ i \in DOMAIN asked /\ ActorOf(asked[i]) = b
    BY <2>1, <2>2, CurrentRow
  <2>4. nodes[i].actor = b
    BY <2>3 DEF Positions, AskedRows
  <2>5. i \in Holds(b)
    BY <2>1, <2>2 DEF Holds, Has
  <2>6. nodes[i].seq < nextAdmitSeq[b] /\ LinedUp(nodes, liveQueue, current, b)
    BY <2>5 DEF Positions, InOrder
  <2>7. /\ nodes[i].seq \in Nat /\ nodes[j].seq \in Nat /\ nodes[j].status = "running"
        /\ nextAdmitSeq[b] \in Nat
    BY <2>3, RowsFacts DEF IInv, Types, AdmissionType
  <2>8. j \in Holds(b)
    BY <2>4, <2>6, <2>7 DEF Positions, Behind
  <2>9. CASE j \in Range(liveQueue[b])
    BY <2>1, <2>2, <2>6, <2>7, <2>9 DEF LinedUp
  <2>10. CASE j = current[b]
    BY <2>1, <2>7, <2>10
  <2> QED BY <2>8, <2>9, <2>10 DEF Holds, Has
<1> QED BY <1>1, Inductive, PositionsAreKept, PTL

(***************************************************************************)
(* The script is answered once per ask and at the ask it waits for: over   *)
(* replays, gate and live answers, for any script and number of lives.     *)
(***************************************************************************)
THEOREM EveryPromiseAnsweredOnce == Spec => []OneAnswerPerPromise
<1>1. Init => Promises
  BY InitPromises
<1>2. IInv /\ IInv' /\ Promises /\ [Next]_vars => Promises'
  BY EveryPromise
<1>3. Promises => OneAnswerPerPromise
  BY DEF Promises
<1> QED BY <1>1, <1>2, <1>3, Inductive, PTL DEF Spec

(***************************************************************************)
(* What a resume replays is the schedule: through crashes, stops and torn  *)
(* settlements, the ask that claims an ordinal is the one whose row the    *)
(* ordinal has, and the run never dies of InputHashMismatch, as long as    *)
(* every live answer came in order: after the recorded ones, with its      *)
(* event, and with no cancellation that gives it an earlier place.         *)
(***************************************************************************)
THEOREM ReplayFollowsTheJournal == Spec => []ReplayIsDeterministic
<1>1. Init => Promises /\ ReplayInv
  BY InitPromises, InitReplays
<1>2. IInv /\ IInv' /\ Promises /\ ReplayInv /\ [Next]_vars => Promises' /\ ReplayInv'
  BY EveryPromise, EveryReplayStep
<1>3. ReplayInv => ReplayIsDeterministic
  BY DEF ReplayInv, ReplayIsDeterministic
<1> QED BY <1>1, <1>2, <1>3, Inductive, PTL DEF Spec
=============================================================================
