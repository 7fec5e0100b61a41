------------------------------ MODULE AskDriver ------------------------------
(***************************************************************************)
(* The driver between the engine and one sub-agent's runtime: the asks of  *)
(* one actor, one after the other in one session, each carried by turns of *)
(* the runtime until the engine has its answer.                            *)
(*                                                                         *)
(* An ask outlives a turn (a nudge, a re-drive after a transient failure)  *)
(* and a turn outlives its ask: the turn whose submit_result was accepted  *)
(* still has to end when the actor's next ask is already started in the    *)
(* same session.  The runtime works its turns off one by one.              *)
(*                                                                         *)
(* In a turn the sub-agent may park questions for the main agent.  Their   *)
(* ids are minted by the driver of this life of the run, from a counter of *)
(* its own, against a registry that the lives share.                       *)
(***************************************************************************)
EXTENDS Filters, FiniteSets, SequencesExt

CONSTANTS
    N,              \* asks of the actor
    Typed,          \* those whose answer comes by submit_result
    Repairs,        \* REPAIR_ATTEMPTS (3 in the code)
    Nudges,         \* NUDGE_ATTEMPTS (1)
    MaxEscalations, \* MAX_ESCALATIONS_PER_ASK (3)
    Fragments,      \* candidates for the first part of a question id (3)
    RetiredLimit,   \* RETIRED_HISTORY_LIMIT (256)
    MaxTransient,   \* bound: transient failures of an ask
    MaxQuestions,   \* bound: questions asked
    MaxLives,       \* bound: lives of the run
    None

Ask == 1..N
ASSUME TypedAssumption == N \in Nat /\ Typed \subseteq Ask /\ None \notin Nat
ASSUME BudgetAssumption == {Repairs, Nudges, MaxEscalations, MaxTransient, MaxQuestions} \subseteq Nat
ASSUME LimitAssumption == {Fragments, RetiredLimit, MaxLives} \subseteq Nat \ {0}

VARIABLES
    ask,        \* engine: status of each ask
    left,       \* engine: repairs and nudges left to the live ask
    session,    \* driver: SessionState
    turns,      \* runtime: its queue of turns, the running one at the head
    counting,   \* per ask, whether the messages of an exchange are being counted
    counted,    \* per ask, the count of its last exchange
    transcript, \* store: the messages of the session, each by its ask
    boundary,   \* journal: messageBoundary of each ask
    question,   \* the questions asked so far
    registry,   \* the parked ids and the ids that have retired, oldest first
    minted,     \* escalationSeq of this life's driver
    life, over, \* lives of the run, and whether this one has been stopped
    lost        \* history: the ask whose turn ended in an abort nobody here has caused, or 0

vars == <<ask, left, session, turns, counting, counted, transcript, boundary, question, registry, minted, life, over, lost>>

NoSession == [current |-> 0, accepted |-> FALSE, cancelled |-> FALSE, used |-> 0,
              attempts |-> 0, redrive |-> None]

Live(i) == i \in Ask /\ ask[i] = "live"
First == turns[1]
Running(phases) == turns # <<>> /\ First.phase \in phases
Turn(i) == [ask |-> i, phase |-> "queued"]
Waiting == {q \in DOMAIN question : question[q].heard = "waiting"}
Settle(i) == ask' = [ask EXCEPT ![i] = "done"]

-----------------------------------------------------------------------------
(* Parked questions: the driver's pendingEscalations and the registry.     *)

Retire(reg, ids) ==
    LET all == reg.retired \o ids
    IN  [parked  |-> [id \in DOMAIN reg.parked \ Range(ids) |-> reg.parked[id]],
         retired |-> IF Len(all) > RetiredLimit THEN SubSeq(all, Len(all) - RetiredLimit + 1, Len(all)) ELSE all]

\* A fault, for the mutant runs only: the ids that have retired are not asked for.
OnlyParked(id) == id \in DOMAIN registry.parked
IsTaken(id) == id \in DOMAIN registry.parked \/ id \in Range(registry.retired)

(* withdraw: of every question that waits in the session, in their order. *)
IdsOf(qs) ==
    LET asked == Keep([q \in DOMAIN question |-> q], qs)
    IN  [n \in DOMAIN asked |-> question[asked[n]].id]
Withdraw ==
    /\ question' = [q \in DOMAIN question |->
                       IF q \in Waiting THEN [question[q] EXCEPT !.heard = "refused"] ELSE question[q]]
    /\ registry' = Retire(registry, IdsOf(Waiting))

(* mintEscalationQuestionId. *)
Candidates == {<<f, minted + 1>> : f \in 1..Fragments}
Free == {id \in Candidates : ~IsTaken(id)}
Shortest == CHOOSE id \in Free : \A other \in Free : id[1] <= other[1]

-----------------------------------------------------------------------------
Init ==
    /\ ask = [i \in Ask |-> "queued"] /\ left = [repairs |-> 0, nudges |-> 0]
    /\ session = NoSession /\ turns = <<>> /\ counting = [i \in Ask |-> "no"] /\ counted = [i \in Ask |-> None]
    /\ transcript = <<>> /\ boundary = [i \in Ask |-> None]
    /\ question = <<>> /\ minted = 0
    /\ registry \in {[parked |-> <<>>, retired |-> <<>>], [parked |-> <<>>, retired |-> << <<1, 1>> >>]}
    /\ life = 1 /\ over = FALSE /\ lost = 0

(***************************************************************************)
(* startAsk: dispatched when the actor's earlier asks are settled.  Every  *)
(* flag of the session is that of the new ask from here on.  An ask that   *)
(* does not fit the actor's submit profile fails without a turn.           *)
(***************************************************************************)
\* A fault, for the mutant runs only: the flags of the last ask are left.
StaleFlags(i) == [session EXCEPT !.current = i, !.used = 0, !.attempts = 0, !.redrive = None]
Anew(i) == [NoSession EXCEPT !.current = i]

Start(i) ==
    /\ ~over /\ ask[i] = "queued" /\ \A j \in 1..(i - 1) : ask[j] = "done"
    /\ Withdraw
    /\ session' = Anew(i) /\ lost' = 0
    /\ left' = [repairs |-> Repairs, nudges |-> Nudges]
    /\ \/ turns' = Append(turns, Turn(i)) /\ ask' = [ask EXCEPT ![i] = "live"]
       \/ i \in Typed /\ Settle(i) /\ UNCHANGED turns
    /\ UNCHANGED <<counting, counted, transcript, boundary, minted, life, over>>

(* cancelAsk: the flag, the questions, the re-drive, the abort signal. *)
Cancelled == [session EXCEPT !.cancelled = TRUE, !.redrive = None]
Abort(i) ==
    LET kept == Keep(turns, {t \in Range(turns) : ~(t.ask = i /\ t.phase = "queued")})
    IN  [n \in DOMAIN kept |-> IF kept[n].ask = i THEN [kept[n] EXCEPT !.phase = "ending"] ELSE kept[n]]
CancelAsk(i) == session' = Cancelled /\ turns' = Abort(i) /\ Withdraw

(* The runtime takes the next turn; its prompt is a message of the session. *)
Begin ==
    /\ Running({"queued"})
    /\ turns' = [turns EXCEPT ![1].phase = "going"]
    /\ transcript' = Append(transcript, First.ask)
    /\ UNCHANGED <<ask, left, session, counting, counted, boundary, question, registry, minted, life, over, lost>>

(***************************************************************************)
(* submit_result: the port serves whatever ask is the current one of the   *)
(* session.  An accepted result ends the turn; an invalid one is repaired  *)
(* in it, as long as the budget lasts.                                     *)
(***************************************************************************)
\* A fault, for the mutant runs only: an accepted result lets the turn go on.
GoesOn(i) ==
    /\ session' = [session EXCEPT !.accepted = TRUE]
    /\ Settle(i)
    /\ UNCHANGED <<turns, left, question, registry>>
Accept(i) ==
    /\ session' = [session EXCEPT !.accepted = TRUE]
    /\ turns' = [turns EXCEPT ![1].phase = "ending"]
    /\ Settle(i)
    /\ UNCHANGED <<left, question, registry>>
Reject(i) ==
    IF left.repairs > 0
      THEN left' = [left EXCEPT !.repairs = @ - 1] /\ UNCHANGED <<ask, session, turns, question, registry>>
      ELSE CancelAsk(i) /\ Settle(i) /\ UNCHANGED left
Submit ==
    /\ Running({"going"}) /\ Waiting = {}
    /\ session.current \in Typed /\ Live(session.current)
    /\ Accept(session.current) \/ Reject(session.current)
    /\ UNCHANGED <<counting, counted, transcript, boundary, minted, life, over, lost>>

(***************************************************************************)
(* escalate: parked under the first id that is free, until an answer       *)
(* comes.  Nothing is parked when the journal refuses the event, nor when  *)
(* no id is free, which the driver takes for two drivers with one run id.  *)
(***************************************************************************)
Park(id, journalled) ==
    /\ question' = Append(question, [ask |-> session.current, id |-> id,
                                     by |-> 0,
                                     heard |-> IF journalled THEN "waiting" ELSE "refused"])
    /\ LET r == [registry EXCEPT !.parked = [x \in DOMAIN @ \cup {id} |->
                                                IF x = id THEN Len(question) + 1 ELSE @[x]]]
       IN  registry' = IF journalled THEN r ELSE Retire(r, <<id>>)
Escalate ==
    /\ Running({"going"}) /\ session.used < MaxEscalations /\ Len(question) < MaxQuestions
    /\ session' = [session EXCEPT !.used = @ + 1]
    /\ minted' = minted + 1
    /\ IF Free = {} THEN UNCHANGED <<question, registry>>
       ELSE \E journalled \in BOOLEAN : Park(Shortest, journalled)
    /\ UNCHANGED <<ask, left, turns, counting, counted, transcript, boundary, life, over, lost>>

(* resolve: whoever is parked under the id of question q gets q's answer. *)
Answer(q) ==
    /\ question[q].id \in DOMAIN registry.parked
    /\ question' = [question EXCEPT ![registry.parked[question[q].id]] = [@ EXCEPT !.heard = "answered", !.by = q]]
    /\ registry' = Retire(registry, <<question[q].id>>)
    /\ UNCHANGED <<ask, left, session, turns, counting, counted, transcript, boundary, minted, life, over, lost>>

-----------------------------------------------------------------------------
(* The turn resolves: its exchange is looked at once the messages are counted. *)
Resolve ==
    /\ Running({"going", "ending"}) /\ Waiting = {}
    /\ turns' = Tail(turns)
    /\ counting' = [counting EXCEPT ![First.ask] = "asked"]
    /\ UNCHANGED <<ask, left, session, counted, transcript, boundary, question, registry, minted, life, over, lost>>

(* countSessionTranscript: a failure gives no boundary. *)
Count(i) ==
    /\ counting[i] = "asked"
    /\ counting' = [counting EXCEPT ![i] = "counted"]
    /\ \E n \in {Len(transcript), None} : counted' = [counted EXCEPT ![i] = n]
    /\ UNCHANGED <<ask, left, session, turns, transcript, boundary, question, registry, minted, life, over, lost>>

(***************************************************************************)
(* settleExchange, after the count: the end of the turn is reported, which *)
(* settles the ask or starts another turn of it, and if the exchange is    *)
(* over its boundary is journalled.                                        *)
(***************************************************************************)
TurnEnded(i) ==
    IF i \notin Typed THEN Settle(i) /\ UNCHANGED <<left, session, turns, question, registry>>
    ELSE IF left.nudges > 0
      THEN /\ left' = [left EXCEPT !.nudges = @ - 1]
           /\ turns' = Append(turns, Turn(i))
           /\ UNCHANGED <<ask, session, question, registry>>
    ELSE CancelAsk(i) /\ Settle(i) /\ UNCHANGED left

Reported(i) == session.accepted \/ ~Live(i)
Nudged(i) == ~Reported(i) /\ i \in Typed /\ left.nudges > 0

\* A fault, for the mutant runs only: whatever ask is current by now.
JournalAlways(i) ==
    boundary' = IF Nudged(i) \/ counted[i] = None THEN boundary
                ELSE [boundary EXCEPT ![i] = counted[i]]
JournalBoundary(i) ==
    boundary' = IF Nudged(i) \/ counted[i] = None \/ session.current # i THEN boundary
                ELSE [boundary EXCEPT ![i] = counted[i]]

Report(i) ==
    /\ counting[i] = "counted"
    /\ IF Reported(i) THEN UNCHANGED <<ask, left, session, turns, question, registry>> ELSE TurnEnded(i)
    /\ JournalBoundary(i)
    /\ counting' = [counting EXCEPT ![i] = "no"] /\ counted' = [counted EXCEPT ![i] = None]
    /\ UNCHANGED <<transcript, minted, life, over, lost>>

-----------------------------------------------------------------------------
(***************************************************************************)
(* The run is stopped, by the user or by a permanent failure of a model:   *)
(* abortInFlight cancels the live ask, the driver is disposed and forgets  *)
(* its session; the asks without an answer are asked again in a next life. *)
(* The turns of this one end unheard.                                      *)
(***************************************************************************)
StopRun ==
    /\ Withdraw
    /\ session' = NoSession /\ turns' = <<>> /\ counting' = [i \in Ask |-> "no"]
    /\ ask' = [i \in Ask |-> IF ask[i] = "live" THEN "queued" ELSE ask[i]]
    /\ over' = TRUE /\ lost' = 0
    /\ counted' = [i \in Ask |-> None]
    /\ UNCHANGED <<left, transcript, boundary, minted, life>>
Stop == ~over /\ StopRun

Resume ==
    /\ over /\ life < MaxLives
    /\ life' = life + 1 /\ over' = FALSE /\ minted' = 0
    /\ UNCHANGED <<ask, left, session, turns, counting, counted, transcript, boundary, question, registry, lost>>

(***************************************************************************)
(* onTurnRejected: nobody reads the results of its tools any more.  A turn *)
(* that ends as cancelled is not reported, on the ground that the engine   *)
(* has cancelled it; the runtime calls a turn cancelled also for an        *)
(* AbortError that came from elsewhere, and then the ask is lost.  A       *)
(* transient failure arms a re-drive in the place of any other; a          *)
(* permanent one stops the run; the rest fails the ask.                    *)
(***************************************************************************)
Unheard == UNCHANGED <<ask, session>>
FailAsk(i) == (IF Live(i) THEN Settle(i) ELSE UNCHANGED ask) /\ UNCHANGED session
\* A fault, for the mutant runs only: a failure is counted and no re-drive armed.
Forget(i) ==
    /\ session.attempts < MaxTransient
    /\ session' = [session EXCEPT !.attempts = @ + 1]
    /\ UNCHANGED ask
Redrive(i) ==
    /\ session.attempts < MaxTransient
    /\ session' = [session EXCEPT !.attempts = @ + 1, !.redrive = i]
    /\ UNCHANGED ask

Fail ==
    /\ Running({"going", "ending"})
    /\ turns' = Tail(turns)
    /\ Withdraw
    /\ \/ Unheard /\ lost' = IF First.phase = "going" THEN First.ask ELSE lost
       \/ ~session.cancelled /\ UNCHANGED lost /\ (FailAsk(First.ask) \/ Redrive(First.ask))
    /\ UNCHANGED <<left, counting, counted, transcript, boundary, minted, life, over>>
FailForGood ==
    /\ Running({"going", "ending"}) /\ ~session.cancelled
    /\ StopRun

(* The alarm of the re-drive: another turn, if the ask is still the one to carry. *)
Fire ==
    /\ session.redrive # None
    /\ session' = [session EXCEPT !.redrive = None]
    /\ turns' = IF session.accepted \/ session.cancelled \/ session.current # session.redrive
                  THEN turns ELSE Append(turns, Turn(session.redrive))
    /\ UNCHANGED <<ask, left, counting, counted, transcript, boundary, question, registry, minted, life, over, lost>>

Next ==
    \/ \E i \in Ask : Start(i) \/ Count(i) \/ Report(i)
    \/ Begin \/ Submit \/ Escalate \/ Resolve \/ Fail \/ FailForGood \/ Fire
    \/ \E q \in DOMAIN question : Answer(q)
    \/ Stop \/ Resume

(***************************************************************************)
(* A turn that no question keeps waiting ends, the store answers and       *)
(* alarms go off.  Nobody has to answer a question.                        *)
(***************************************************************************)
TurnEnds == Waiting = {} /\ (Resolve \/ Fail \/ FailForGood)
Spec == Init /\ [][Next]_vars
LiveSpec ==
    /\ Spec
    /\ WF_vars(Begin) /\ WF_vars(TurnEnds) /\ WF_vars(Fire)
    /\ \A i \in Ask : WF_vars(Count(i)) /\ WF_vars(Report(i))

-----------------------------------------------------------------------------
(* Properties.                                                             *)

(***************************************************************************)
(* Whatever turns fail, are nudged or are driven again: an ask the engine  *)
(* waits for is carried by one turn, one count or one armed re-drive, so   *)
(* it is neither forgotten nor worked on twice.  The one exception is an   *)
(* ask that is lost to an AbortError from elsewhere: nothing carries it.   *)
(***************************************************************************)
Carriers(i) ==
    Cardinality({n \in DOMAIN turns : turns[n].ask = i})
      + (IF counting[i] = "no" THEN 0 ELSE 1) + (IF session.redrive = i THEN 1 ELSE 0)
OneCarrier == \A i \in Ask : Live(i) => Carriers(i) = IF lost = i THEN 0 ELSE 1

(***************************************************************************)
(* The ports of a session route by its current ask and not by the turn     *)
(* that calls them: a turn that may still call a tool, or may still begin, *)
(* is one of the ask that is current, and the engine waits for it.         *)
(***************************************************************************)
PortsServeTheirAsk ==
    \A n \in DOMAIN turns :
        turns[n].phase # "ending" => turns[n].ask = session.current /\ Live(turns[n].ask)

(***************************************************************************)
(* The registry and the session hold the same questions, each has a turn   *)
(* that waits for its answer, and no answer reaches another question, over *)
(* the lives of the run that mint the same numbers.                        *)
(***************************************************************************)
QuestionsHaveListeners ==
    /\ Waiting = {registry.parked[id] : id \in DOMAIN registry.parked}
    /\ \A q \in Waiting : registry.parked[question[q].id] = q
                          /\ Running({"going"}) /\ First.ask = question[q].ask
    /\ \A q \in DOMAIN question : question[q].by \in {0, q}

(***************************************************************************)
(* The boundary journalled for an ask, where an amended run cuts the       *)
(* transcript it takes over, has every message of the ask before it and    *)
(* none of a later one.                                                    *)
(***************************************************************************)
BoundaryIsOwn ==
    \A i \in Ask : boundary[i] # None =>
        \A n \in DOMAIN transcript :
            /\ n <= boundary[i] => transcript[n] <= i
            /\ n > boundary[i] => transcript[n] # i

(* An ask ends unless a question of its waits for an answer or it is lost. *)
EveryAskEnds == \A i \in Ask : Live(i) ~> ~Live(i) \/ Waiting # {} \/ lost = i
=============================================================================
