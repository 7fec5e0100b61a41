--------------------------- MODULE WorkflowEngine ---------------------------
(***************************************************************************)
(* The dynamic-workflow engine: one run of a workflow script, from its     *)
(* start through crashes, stops and resumes to its settlement.             *)
(*                                                                         *)
(* The script runs in a child process.  It is a set of branches, each a    *)
(* sequence of asks; an ask is answered by a sub-agent (an actor), which   *)
(* works on one ask at a time in a session of its own.  The engine numbers *)
(* the calls of each call site as they arrive, keeps one journal row per   *)
(* (site, ordinal) and one event log, and on a resume runs the same script *)
(* again, answering from the journal what was already answered.            *)
(*                                                                         *)
(* A life is one engine object: memory is lost when it ends, the journal   *)
(* stays.                                                                  *)
(***************************************************************************)
EXTENDS Integers, Sequences, FiniteSets, SequencesExt, Functions, Filters

CONSTANTS
    Actor, ActorOrder,  \* the sub-agents, in the order the script creates them
    Site,               \* the ask call sites of the script
    Branch, BranchOrder,\* the branches, in the order the script starts them
    Script,             \* Script[b]: the asks of b, [site, actor, text]
    Needed,             \* the branches the script joins before it returns
    Catches,            \* the branches that catch a failed ask
    Caps,               \* the values the run's own maxConcurrency may take
    Interruptions,      \* how a life may be cut short, see below
    MaxLives,           \* bound: lives of the run
    None

(***************************************************************************)
(* "crash": the process dies.  "torn": it dies between the two writes of a *)
(* settlement.  "stop": the run is cancelled or its session is closed.     *)
(***************************************************************************)
ASSUME InterruptionsAssumption == Interruptions \subseteq {"crash", "torn", "stop"}
ASSUME CapsAssumption == Caps \subseteq Nat \ {0} /\ Caps # {}
ASSUME ActorAssumption == IsFiniteSet(Actor) /\ None \notin Actor
ASSUME BoundAssumption == MaxLives \in Nat \ {0}
ASSUME ScriptAssumption ==
    \A b \in Branch :
        /\ Len(Script[b]) \in Nat \ {0} /\ DOMAIN Script[b] = 1..Len(Script[b])
        /\ \A i \in DOMAIN Script[b] : Script[b][i].site \in Site /\ Script[b][i].actor \in Actor
ASSUME OrderAssumption ==
    /\ BranchOrder \in Seq(Branch) /\ IsInjective(BranchOrder)
    /\ ActorOrder \in Seq(Actor) /\ Range(ActorOrder) = Actor /\ IsInjective(ActorOrder)
ASSUME NoneAssumption == None \notin Site \X Nat

VARIABLES
    \* the journal
    status,     \* dwf_run.status
    nodes,      \* dwf_node: instance -> [actor, seq, hash, status]
    events,     \* dwf_event, the settlements of asks and of the run
    cap,        \* dwf_run.caps_max_concurrency
    \* the child process and the two pipes
    pc,         \* the ask each branch is at
    toHost,     \* lines the child wrote
    toChild,    \* lines the engine wrote
    \* the engine's memory
    up,         \* there is an unsettled engine
    lives,      \* lives started so far
    failure,    \* runFailure
    ordinals,   \* calls seen per site
    asked,      \* instance -> <<branch, step>>: the promise it resolves
    recordedCount, nextAdmitSeq, pendingRecorded, pendingLive,
    liveQueue, current, session,
    liveNodes,  \* admitted and not settled, in admission order
    dispatched, \* the live nodes that reached the driver
    activeAsks,
    order, cursor, parked,  \* the replay gate: its table, cursor, waiters
    \* history
    disturbed   \* see OutOfOrder and CrashInSettle

journal == <<status, nodes, events, cap>>
script == <<pc, toHost, toChild>>
admission == <<ordinals, asked, recordedCount, nextAdmitSeq, pendingRecorded, pendingLive>>
dispatching == <<liveQueue, current, session, liveNodes, dispatched, activeAsks>>
gate == <<order, cursor, parked>>
vars == <<journal, script, admission, dispatching, gate, up, lives, failure, disturbed>>

Terminal == {"completed", "failed"}
Settled(inst, outcome) == [type |-> "node-settled", inst |-> inst, outcome |-> outcome]
RunSettled(s) == [type |-> "run-settled", inst |-> None, outcome |-> s]
RunStarted == [type |-> "run-started", inst |-> None, outcome |-> "none"]

AskLine(b, i) == [kind |-> "ask", branch |-> b, step |-> i]
EndLine(kind) == [kind |-> kind, branch |-> None, step |-> 0]

(* How many consecutive members of S follow and include n. *)
RunLength(S, n) ==
    CHOOSE m \in 0..Cardinality(S) : n + m \notin S /\ \A j \in 0..(m - 1) : n + j \in S

-----------------------------------------------------------------------------
(* The replay gate.                                                        *)

(***************************************************************************)
(* recoverSettleOrder: the instances whose rows are terminal, in the order *)
(* of their first settlement event.                                        *)
(***************************************************************************)
RecoveredOrder(rows, log) ==
    LET first == {n \in DOMAIN log :
                    /\ log[n].type = "node-settled"
                    /\ log[n].inst \in DOMAIN rows
                    /\ rows[log[n].inst].status \in Terminal
                    /\ \A m \in 1..(n - 1) :
                          log[m].type = "node-settled" => log[m].inst # log[n].inst}
        at == Keep([n \in DOMAIN log |-> n], first)
    IN  [k \in DOMAIN at |-> log[at[k]].inst]

(* The table holds this instance at or after the cursor. *)
InTable(inst) == \E n \in DOMAIN order : order[n] = inst /\ n >= cursor

(* Faults for the mutant runs: no gate, two releases, a cursor that stays. *)
HoldNothing(answers) == [released |-> answers, parked |-> {}, cursor |-> cursor]

HoldAndRelease(answers) ==
    LET turn == RunLength({n \in DOMAIN order : order[n] \in parked \cup Range(answers)}, cursor)
    IN  [released |-> answers \o SubSeq(order, cursor, cursor + turn - 1),
         parked |-> parked \cup Range(answers), cursor |-> cursor + turn]

HoldForever(answers) ==
    [released |-> Keep(answers, {i \in DOMAIN nodes : ~InTable(i)}),
     parked |-> parked \cup {i \in Range(answers) : InTable(i)}, cursor |-> cursor]

(***************************************************************************)
(* hold, for a sequence of recorded answers: those the table does not know *)
(* go at once, the others wait for their turn.  `released` is what reaches *)
(* the script in this step, in order.                                      *)
(***************************************************************************)
Hold(answers) ==
    LET direct == Keep(answers, {i \in DOMAIN nodes : ~InTable(i)})
        waiting == parked \cup {i \in Range(answers) : InTable(i)}
        turn == RunLength({n \in DOMAIN order : order[n] \in waiting}, cursor)
        due == SubSeq(order, cursor, cursor + turn - 1)
    IN  [released |-> direct \o due,
         parked |-> waiting \ Range(due),
         cursor |-> cursor + turn]

OutcomeOf(inst) == IF nodes[inst].status = "completed" THEN "ok" ELSE "failed"
Reply(step, outcome) == [branch |-> step[1], step |-> step[2], outcome |-> outcome]

-----------------------------------------------------------------------------
(* Dispatch.                                                               *)

(* liveQueue.shift() and what it leaves. *)
LastQueued(queue) == Last(queue)
NextQueued(queue) == Head(queue)
Remaining(queue) == Keep(queue, Range(queue) \ {NextQueued(queue)})

(***************************************************************************)
(* pumpActor for every actor of S in creation order: an actor with a queue *)
(* and no current ask takes one while there is room under the cap.  The    *)
(* first dispatch of an actor starts the creation of its session.          *)
(***************************************************************************)
Pump(S, queue, cur, active, sess, limit) ==
    LET ready == {a \in S : cur[a] = None /\ queue[a] # <<>>}
        before(a) == {b \in ready : \E i, j \in DOMAIN ActorOrder :
                        i < j /\ ActorOrder[i] = b /\ ActorOrder[j] = a}
        taken == {a \in ready : active + Cardinality(before(a)) < limit}
    IN  /\ liveQueue' = [a \in Actor |-> IF a \in taken THEN Remaining(queue[a]) ELSE queue[a]]
        /\ current' = [a \in Actor |-> IF a \in taken THEN NextQueued(queue[a]) ELSE cur[a]]
        /\ activeAsks' = active + Cardinality(taken)
        /\ session' = [a \in Actor |-> IF a \in taken /\ sess[a] = "none"
                                         THEN "creating" ELSE sess[a]]

-----------------------------------------------------------------------------
(* Admission.                                                              *)

(* A recorded ask that runs again: its row says nobody answered it. *)
RunsUnlessCompleted(inst) == nodes[inst].status # "completed"
RunsAgain(inst) == nodes[inst].status = "running"

(* The hold rule: fresh asks of a wait until its recorded ones are in. *)
AlwaysMayBeFresh(a, seq) == TRUE
MayBeFresh(a, seq) == seq >= recordedCount[a]

(***************************************************************************)
(* drainActorAdmission followed by the pump of its caller.  Recorded asks  *)
(* are admitted at their recorded position; the fresh ones of this actor   *)
(* wait until all recorded ones are in.  An answered ask goes to the gate, *)
(* a running or fresh one becomes a live node with a running row: a row    *)
(* that was there is put again, under the actor of the present call.       *)
(***************************************************************************)
Drain(a, rec, fresh, calls, S) ==
    LET seq == nextAdmitSeq[a]
        run == RunLength(DOMAIN rec, seq)
        in == [j \in 1..run |-> rec[seq + j - 1]]
        admitted == IF MayBeFresh(a, seq + run) THEN fresh ELSE <<>>
        answers == Keep(in, {i \in DOMAIN nodes : ~RunsAgain(i)})
        again == Keep(in, {i \in DOMAIN nodes : RunsAgain(i)})
        live == again \o admitted
        held == Hold(answers)
        row(k) == LET s == Script[calls[admitted[k]][1]][calls[admitted[k]][2]]
                  IN  [actor |-> a, seq |-> seq + run + k - 1,
                       hash |-> s.text, status |-> "running"]
    IN  /\ nextAdmitSeq' = [nextAdmitSeq EXCEPT ![a] = seq + run + Len(admitted)]
        /\ pendingRecorded' = [pendingRecorded EXCEPT ![a] =
              Restrict(rec, DOMAIN rec \ (seq..(seq + run - 1)))]
        /\ pendingLive' = [pendingLive EXCEPT ![a] = IF admitted = <<>> THEN fresh ELSE <<>>]
        /\ nodes' = [i \in DOMAIN nodes \cup Range(admitted) |->
              IF i \in Range(again) THEN [nodes[i] EXCEPT !.actor = a]
              ELSE IF i \in DOMAIN nodes THEN nodes[i]
              ELSE row(CHOOSE k \in DOMAIN admitted : admitted[k] = i)]
        /\ liveNodes' = liveNodes \o live
        /\ events' = events \o [k \in DOMAIN held.released |->
              Settled(held.released[k], OutcomeOf(held.released[k]))]
        /\ toChild' = toChild \o [k \in DOMAIN held.released |->
              Reply(calls[held.released[k]], OutcomeOf(held.released[k]))]
        /\ parked' = held.parked
        /\ cursor' = held.cursor
        /\ Pump(S, [liveQueue EXCEPT ![a] = @ \o live], current, activeAsks, session, cap)

-----------------------------------------------------------------------------
(* The end of a life.                                                      *)

Cold ==
    /\ pc' = [b \in Branch |-> 1]
    /\ toChild' = <<>>
    /\ ordinals' = [s \in Site |-> 0]
    /\ asked' = <<>>
    /\ nextAdmitSeq' = [a \in Actor |-> 0]
    /\ pendingRecorded' = [a \in Actor |-> <<>>]
    /\ pendingLive' = [a \in Actor |-> <<>>]
    /\ liveQueue' = [a \in Actor |-> <<>>]
    /\ current' = [a \in Actor |-> None]
    /\ session' = [a \in Actor |-> "none"]
    /\ liveNodes' = <<>>
    /\ dispatched' = {}
    /\ activeAsks' = 0
    /\ cursor' = 1
    /\ parked' = {}

Down ==
    /\ up' = FALSE
    /\ Cold
    /\ toHost' = <<>>
    /\ order' = <<>>
    /\ recordedCount' = [a \in Actor |-> 0]

(* abortInFlight and run-settled: the last events of a life. *)
Aborted(emitCancelled) ==
    IF emitCancelled THEN [k \in DOMAIN liveNodes |-> Settled(liveNodes[k], "cancelled")]
                     ELSE <<>>
SettledFirst(s, emitCancelled) == <<RunSettled(s)>> \o Aborted(emitCancelled)
NothingCancelled(s, emitCancelled) == <<RunSettled(s)>>
LastEvents(s, emitCancelled) == Aborted(emitCancelled) \o <<RunSettled(s)>>

(***************************************************************************)
(* The three settlement paths.  The gate opens first (what is parked goes  *)
(* out in recorded order), then the asks in flight are aborted, then the   *)
(* run row and its event are written and the child is killed.  The rows of *)
(* aborted asks stay "running".                                            *)
(***************************************************************************)
SettleRun(s, emitCancelled) ==
    LET flushed == Keep(order, parked)
        out == [k \in DOMAIN flushed |-> Settled(flushed[k], OutcomeOf(flushed[k]))]
    IN  /\ status' = s
        /\ events' = events \o out \o LastEvents(s, emitCancelled)
        /\ Down
        /\ UNCHANGED <<nodes, cap, lives, disturbed>>

-----------------------------------------------------------------------------
(* Init and actions.                                                       *)

FirstLines == [k \in DOMAIN BranchOrder |-> AskLine(BranchOrder[k], 1)]

Init ==
    /\ status = "running" /\ nodes = <<>> /\ events = <<RunStarted>> /\ cap \in Caps
    /\ pc = [b \in Branch |-> 1] /\ toHost = FirstLines /\ toChild = <<>>
    /\ up = TRUE /\ lives = 1 /\ failure = "none" /\ disturbed = FALSE
    /\ ordinals = [s \in Site |-> 0] /\ asked = <<>>
    /\ recordedCount = [a \in Actor |-> 0] /\ nextAdmitSeq = [a \in Actor |-> 0]
    /\ pendingRecorded = [a \in Actor |-> <<>>] /\ pendingLive = [a \in Actor |-> <<>>]
    /\ liveQueue = [a \in Actor |-> <<>>] /\ current = [a \in Actor |-> None]
    /\ session = [a \in Actor |-> "none"] /\ liveNodes = <<>> /\ dispatched = {}
    /\ activeAsks = 0 /\ order = <<>> /\ cursor = 1 /\ parked = {}

(* admitAsk: the next ask line reaches the engine and claims an ordinal. *)
AdmitAsk ==
    /\ up /\ toHost # <<>> /\ Head(toHost).kind = "ask"
    /\ LET line == Head(toHost)
           s == Script[line.branch][line.step]
           inst == <<s.site, ordinals[s.site] + 1>>
           a == s.actor
           calls == [i \in DOMAIN asked \cup {inst} |->
                       IF i = inst THEN <<line.branch, line.step>> ELSE asked[i]]
       IN  \/ /\ inst \in DOMAIN nodes /\ nodes[inst].hash # s.text
              /\ failure' = "InputHashMismatch"
              /\ SettleRun("errored", FALSE)
           \/ /\ inst \in DOMAIN nodes => nodes[inst].hash = s.text
              /\ toHost' = Tail(toHost)
              /\ ordinals' = [ordinals EXCEPT ![s.site] = @ + 1]
              /\ asked' = calls
              /\ IF inst \in DOMAIN nodes
                   THEN Drain(a, [q \in DOMAIN pendingRecorded[a] \cup {nodes[inst].seq} |->
                                    IF q = nodes[inst].seq THEN inst ELSE pendingRecorded[a][q]],
                              pendingLive[a], calls, {a})
                   ELSE Drain(a, pendingRecorded[a], Append(pendingLive[a], inst), calls, Actor)
              /\ UNCHANGED <<status, cap, pc, dispatched, order, up, lives, failure, disturbed,
                             recordedCount>>

(* The child's script returned, or threw what it did not catch. *)
ScriptEnds ==
    /\ up /\ toHost # <<>>
    /\ \/ Head(toHost).kind = "complete" /\ SettleRun("completed", TRUE) /\ UNCHANGED failure
       \/ Head(toHost).kind = "throw" /\ SettleRun("errored", FALSE) /\ failure' = "script"

(***************************************************************************)
(* The child reads one response and runs that branch to its next await.    *)
(***************************************************************************)
ScriptStep ==
    /\ up /\ toChild # <<>>
    /\ LET reply == Head(toChild)
           next == [pc EXCEPT ![reply.branch] = reply.step + 1]
           returns == \A b \in Needed : next[b] > Len(Script[b])
       IN  /\ pc' = next
           /\ toHost' = IF reply.outcome = "failed" /\ reply.branch \notin Catches
                          THEN Append(toHost, EndLine("throw"))
                        ELSE IF reply.step < Len(Script[reply.branch])
                          THEN Append(toHost, AskLine(reply.branch, reply.step + 1))
                        ELSE IF returns /\ reply.branch \in Needed
                          THEN Append(toHost, EndLine("complete"))
                        ELSE toHost
    /\ toChild' = Tail(toChild)
    /\ UNCHANGED <<journal, admission, dispatching, gate, up, lives, failure, disturbed>>

(***************************************************************************)
(* dispatch after its await: the actor's session is there (the promise is  *)
(* created once and kept), the ask goes to the driver.                     *)
(***************************************************************************)
Dispatch(a) ==
    /\ up /\ current[a] # None /\ current[a] \notin dispatched
    /\ session[a] \in {"creating", "ready"}
    /\ session' = [session EXCEPT ![a] = "ready"]
    /\ dispatched' = dispatched \cup {current[a]}
    /\ UNCHANGED <<journal, script, admission, gate, up, lives, failure, disturbed,
                   liveQueue, current, liveNodes, activeAsks>>

(* The gate has released every recorded answer of its table.               *)
CaughtUp == cursor > Len(order)

(***************************************************************************)
(* History: a live answer comes out of order if it overtakes recorded ones *)
(* still on their way, or if an earlier event of the ask, the cancellation *)
(* of a stop, gives it an earlier place in the table of the next life.     *)
(***************************************************************************)
OutOfOrder(inst) ==
    ~CaughtUp \/ RecoveredOrder(nodes', events') # Append(RecoveredOrder(nodes, events), inst)

(* finishLiveNode: the maps, the slot; and the fault of forgetting it.     *)
LeaveLiveNodes(inst) == UNCHANGED liveNodes
FreeLiveNode(inst) == liveNodes' = Keep(liveNodes, Range(liveNodes) \ {inst})
Undispatched(inst) == dispatched \ {inst}
SlotsAfter(a) == activeAsks - 1

(***************************************************************************)
(* settleOk and settleFailed: row, event, next dispatch, answer.           *)
(***************************************************************************)
SettleNode(a, st, sess) ==
    LET inst == current[a]
        outcome == IF st = "completed" THEN "ok" ELSE "failed"
    IN  /\ nodes' = [nodes EXCEPT ![inst].status = st]
        /\ events' = Append(events, Settled(inst, outcome))
        /\ FreeLiveNode(inst)
        /\ dispatched' = Undispatched(inst)
        /\ Pump(Actor, liveQueue, [current EXCEPT ![a] = None], SlotsAfter(a), sess, cap)
        /\ toChild' = Append(toChild, Reply(asked[inst], outcome))
        /\ disturbed' = (disturbed \/ OutOfOrder(inst))
        /\ UNCHANGED <<status, cap, pc, toHost, admission, gate, up, lives, failure>>

(* The driver reports the end of the ask: accepted, or failed for good. *)
AskReported(a, st) ==
    /\ up /\ current[a] # None /\ current[a] \in dispatched
    /\ SettleNode(a, st, session)

(***************************************************************************)
(* The session could not be created.  The rejected promise stays cached,   *)
(* so every later ask of this actor fails the same way.                    *)
(***************************************************************************)
DispatchFails(a) ==
    /\ up /\ current[a] # None /\ current[a] \notin dispatched
    /\ session[a] \in {"creating", "rejected"}
    /\ SettleNode(a, "failed", [session EXCEPT ![a] = "rejected"])

(* The queues a retune rescans: all of them when the cap is raised. *)
NoRescan(n) == {}
Rescan(n) == IF n > cap THEN Actor ELSE {}

(* setMaxConcurrency: raising rescans the queues, lowering recalls nobody. *)
SetMaxConcurrency(n) ==
    /\ up /\ n # cap
    /\ cap' = n
    /\ Pump(Rescan(n), liveQueue, current, activeAsks, session, n)
    /\ UNCHANGED <<status, nodes, events, script, admission, gate, up, lives, failure, disturbed,
                   liveNodes, dispatched>>

(* stop: cancelled by a user or the model, superseded, provider, interrupted. *)
Stop ==
    /\ up /\ "stop" \in Interruptions /\ lives < MaxLives
    /\ SettleRun("stopped", TRUE)
    /\ UNCHANGED failure

Crash ==
    /\ up /\ "crash" \in Interruptions /\ lives < MaxLives
    /\ Down
    /\ UNCHANGED <<journal, lives, failure, disturbed>>

(* The process dies after putNode and before appendEvent of a settlement. *)
CrashInSettle(a) ==
    /\ up /\ "torn" \in Interruptions /\ lives < MaxLives
    /\ current[a] # None /\ current[a] \in dispatched
    /\ nodes' = [nodes EXCEPT ![current[a]].status = "completed"]
    /\ Down
    /\ disturbed' = TRUE
    /\ UNCHANGED <<status, events, cap, lives, failure>>

(* recordedCount: the rows of the actor, answered or not. *)
RecordedRows(a) == {i \in DOMAIN nodes : nodes[i].actor = a}

(***************************************************************************)
(* The owning session finds the run unfinished and resumes it: a new       *)
(* engine over the same journal runs the same script from the start.       *)
(***************************************************************************)
Resume ==
    /\ ~up /\ status \in {"running", "stopped"} /\ lives < MaxLives
    /\ status' = "running"
    /\ events' = Append(events, RunStarted)
    /\ up' = TRUE
    /\ lives' = lives + 1
    /\ Cold
    /\ toHost' = FirstLines
    /\ order' = RecoveredOrder(nodes, events)
    /\ recordedCount' = [a \in Actor |-> Cardinality(RecordedRows(a))]
    /\ UNCHANGED <<nodes, cap, failure, disturbed>>

Next ==
    \/ AdmitAsk \/ ScriptEnds \/ ScriptStep \/ Stop \/ Crash \/ Resume
    \/ \E a \in Actor :
          \/ Dispatch(a) \/ DispatchFails(a) \/ CrashInSettle(a)
          \/ \E st \in Terminal : AskReported(a, st)
    \/ \E n \in Caps : SetMaxConcurrency(n)

(***************************************************************************)
(* The engine and the child read their pipes, an unfinished run is resumed,*)
(* session creation ends one way or the other, and every ask the driver has*)
(* is reported in the end (the provider recovers, questions put to the user*)
(* are answered).  Each line is the weak fairness of the actions it is     *)
(* about, written out with what enables them; only they, or the end of the *)
(* life, leave the states of the last three.  Nothing forces a retune, a   *)
(* stop or a crash.                                                        *)
(***************************************************************************)
Fairness ==
    /\ []<>(~up \/ toHost = <<>>) \/ []<><<AdmitAsk \/ ScriptEnds>>_vars
    /\ []<>(~up \/ toChild = <<>>) \/ []<><<ScriptStep>>_vars
    /\ []<>(up \/ status \notin {"running", "stopped"} \/ lives = MaxLives)
    /\ \A a \in Actor : /\ []<>(current[a] = None \/ current[a] \in dispatched)
                        /\ []<>(current[a] = None \/ current[a] \notin dispatched)

Spec == Init /\ [][Next]_vars
LiveSpec == Spec /\ Fairness

-----------------------------------------------------------------------------
(* Properties.                                                             *)

Instance == Site \X (Nat \ {0})
Busy == {a \in Actor : current[a] # None}

TypeOK ==
    /\ status \in {"running", "completed", "stopped", "errored"}
    /\ DOMAIN nodes \subseteq Instance
    /\ \A i \in DOMAIN nodes : nodes[i].actor \in Actor /\ nodes[i].seq \in Nat
                               /\ nodes[i].status \in Terminal \cup {"running"}
    /\ cap \in Caps /\ up \in BOOLEAN /\ lives \in 1..MaxLives
    /\ failure \in {"none", "script", "InputHashMismatch"}
    /\ current \in [Actor -> DOMAIN nodes \cup {None}]
    /\ session \in [Actor -> {"none", "creating", "ready", "rejected"}]
    /\ dispatched \subseteq Range(liveNodes)
    /\ activeAsks \in Nat /\ cursor \in Nat /\ parked \subseteq DOMAIN nodes
    /\ ordinals \in [Site -> Nat] /\ nextAdmitSeq \in [Actor -> Nat]

(***************************************************************************)
(* No wake-up is lost: while fewer actors have a current ask than the cap  *)
(* allows, no idle actor has one in its queue.  Queues are only rescanned  *)
(* by the pumps after an admission, a settlement and a raised cap, and the *)
(* pumps go by activeAsks, which is incremented at dispatch, decremented   *)
(* at settlement and zeroed by an abort: it is the number of those actors. *)
(***************************************************************************)
WorkConserving ==
    /\ activeAsks = Cardinality(Busy)
    /\ \A a \in Actor : current[a] = None /\ liveQueue[a] # <<>> => Cardinality(Busy) >= cap

(***************************************************************************)
(* A journal row is claimed by its site, its ordinal and its text, and the *)
(* sub-agent is not among them: what the next two properties ask of the    *)
(* script is that calls of one site with one text go to one sub-agent.     *)
(***************************************************************************)
OneActorPerText ==
    \A b, c \in Branch : \A i \in DOMAIN Script[b], j \in DOMAIN Script[c] :
        Script[b][i].site = Script[c][j].site /\ Script[b][i].text = Script[c][j].text
            => Script[b][i].actor = Script[c][j].actor

(***************************************************************************)
(* The journal numbers the asks of an actor 0, 1, 2, ... without gap or    *)
(* repetition through every crash and resume: recordedCount, the bound of  *)
(* the hold rule, is a count of rows and relies on it.                     *)
(***************************************************************************)
DenseActorSeq ==
    \A a \in Actor : {nodes[i].seq : i \in RecordedRows(a)} = 0..(Cardinality(RecordedRows(a)) - 1)

(***************************************************************************)
(* A sub-agent's transcript grows in the order of actorSeq: when an ask is *)
(* with the driver, every earlier ask of its actor, of this life or of an  *)
(* earlier one, has its final answer in the journal.                       *)
(***************************************************************************)
SerialTranscript ==
    \A i \in dispatched : \A j \in DOMAIN nodes :
        nodes[j].actor = nodes[i].actor /\ nodes[j].seq < nodes[i].seq
            => nodes[j].status \in Terminal

(***************************************************************************)
(* liveNodes, which an abort walks, holds exactly the asks that are queued *)
(* or current: no ask is in flight without an abort being able to find it, *)
(* and each has a running row a resume can find.                           *)
(***************************************************************************)
AbortFindsEveryAsk ==
    /\ Range(liveNodes) = {current[a] : a \in Busy} \cup UNION {Range(liveQueue[a]) : a \in Actor}
    /\ \A i \in Range(liveNodes) : nodes[i].status = "running"

(***************************************************************************)
(* The script's promises: an answer on its way is for the ask its branch   *)
(* is waiting at, and no ask is answered twice in a life.                  *)
(***************************************************************************)
OneAnswerPerPromise ==
    /\ \A n \in DOMAIN toChild : pc[toChild[n].branch] = toChild[n].step
    /\ \A m, n \in DOMAIN toChild : toChild[m].branch = toChild[n].branch => m = n

(***************************************************************************)
(* replay-order.ts: what resume replays is the schedule, so a script whose *)
(* asks depend on nothing but the answers never claims the ordinal another *)
(* call had, and the run never dies of InputHashMismatch.  The exceptions  *)
(* are the answers whose order the log does not tell: a settlement torn    *)
(* between row and event, a live answer that overtakes recorded ones, and  *)
(* the answer of an ask that a stop had cancelled, which the log places    *)
(* where the cancellation was.                                             *)
(***************************************************************************)
ReplayIsDeterministic == failure = "InputHashMismatch" => disturbed

(***************************************************************************)
(* abortInFlight: an ask that leaves liveNodes while the engine lives on,  *)
(* or when the run is completed or stopped, has its node-settled in the    *)
(* log: no node-queued is left without its end.  Only an errored run and a *)
(* crash abandon asks without one.                                         *)
(***************************************************************************)
NoSilentAbandon ==
    [][\A i \in Range(liveNodes) :
          (i \notin Range(liveNodes') /\ (up' \/ status' \in {"completed", "stopped"}))
             => \E n \in DOMAIN events' \ DOMAIN events :
                    events'[n].type = "node-settled" /\ events'[n].inst = i]_vars

(***************************************************************************)
(* run-settled is the last event of its life: whatever is recorded after   *)
(* it, late answers and flushed replays included, follows a run-started.   *)
(***************************************************************************)
RunSettledIsLast ==
    [][\A n \in DOMAIN events' :
          n > 1 /\ n \notin DOMAIN events /\ events'[n - 1].type = "run-settled"
             => events'[n].type = "run-started"]_vars

(***************************************************************************)
(* No deadlock of the hold rule, the replay gate, the cap and the actors'  *)
(* queues: a run that is resumed after every interruption is settled.      *)
(***************************************************************************)
RunSettles == <>[](status \in {"completed", "errored"})

(***************************************************************************)
(* What a run promises its readers, whatever happens to the process.       *)
(***************************************************************************)
Contract == INSTANCE RunContract WITH
    verdict <- status,
    answers <- [i \in {j \in DOMAIN nodes : nodes[j].status \in Terminal} |-> nodes[i].status]
ContractHolds == Contract!Spec
=============================================================================
