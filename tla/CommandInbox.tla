---------------------------- MODULE CommandInbox ----------------------------
(***************************************************************************)
(* The command inbox of one session: every command a client delivers, and  *)
(* every question what became of one, goes through it.  A client repeats a *)
(* command under the same id when it has not heard of it.                  *)
(*                                                                         *)
(* A delivery holds the gate of its command while it looks for what is     *)
(* known of it, then the gate of the session until its execution has       *)
(* settled.  What is known: in flight, live (an input in a queue or a turn *)
(* that has not reached the transcript), the last settled ones, and then   *)
(* an index of the durable facts, read from the store once and kept until  *)
(* it is invalidated.                                                      *)
(*                                                                         *)
(* The execution is the gateway's: it writes an input into the ledger,     *)
(* pins it, runs it and settles it; the runtime later commits the input to *)
(* the transcript, or a user takes it out of the queue.                    *)
(***************************************************************************)
EXTENDS Integers, Sequences, FiniteSets, SequencesExt

CONSTANTS
    Command,        \* command ids of the session
    Input,          \* those that are inputs of a conversation
    Request,        \* deliveries and queries that may be under way at a time
    SettledLimit,   \* idempotencyTablePerSession (512)
    None

ASSUME InputAssumption == Input \subseteq Command
ASSUME LimitAssumption == SettledLimit \in Nat
ASSUME NoneAssumption == None \notin Request

VARIABLES
    req,        \* each request: what it is for and where it is
    keyGate,    \* per command, who holds its gate (first) and who waits
    sessionGate,\* the same for the session
    inFlight,   \* per command, the request that executes it
    live,       \* pinned inputs
    settled,    \* the settled LRU, oldest first
    ledger,     \* durable: what the store says of each command
    index,      \* the cached facts of the store: a set of commands, or None
    held,       \* inputs in the runtime's queue or in its turn
    events,     \* inputs whose commit or removal the gateway has yet to hear of
    ran,        \* history: executions of each input, counted to two
    adrift      \* history: inputs whose execution threw or that a resume failed to sweep

vars == <<req, keyGate, sessionGate, inFlight, live, settled, ledger, index, held, events, ran, adrift>>
memory == <<inFlight, live, settled>>
gates == <<keyGate, sessionGate>>
store == <<ledger, index, held, events>>
history == <<ran, adrift>>

Idle == [at |-> "idle", cmd |-> None, query |-> FALSE]
At(r, at) == req[r].at = at
Cmd(r) == req[r].cmd
Go(r, at) == req' = [req EXCEPT ![r].at = at]
HoldsKey(r) == keyGate[Cmd(r)] # <<>> /\ Head(keyGate[Cmd(r)]) = r
HoldsSession(r) == sessionGate # <<>> /\ Head(sessionGate) = r

(* release: only the holder passes a gate on. *)
Released(queue, r) == IF queue # <<>> /\ Head(queue) = r THEN Tail(queue) ELSE queue

(* The answer goes out; what the request held of the gates is given back. *)
AnswerOnly(r) ==
    /\ req' = [req EXCEPT ![r] = Idle]
    /\ keyGate' = [keyGate EXCEPT ![Cmd(r)] = Released(@, r)]
    /\ UNCHANGED sessionGate
Answer(r) ==
    /\ req' = [req EXCEPT ![r] = Idle]
    /\ keyGate' = [keyGate EXCEPT ![Cmd(r)] = Released(@, r)]
    /\ sessionGate' = Released(sessionGate, r)

(* rememberSettled: to the young end; the oldest goes when there are too many. *)
Remember(lru, c) ==
    LET grown == Append(Remove(lru, c), c)
    IN  IF Len(grown) > SettledLimit THEN Tail(grown) ELSE grown

(* loadPersistentCommandFacts: the inputs whose fate the ledger knows. *)
Facts == {c \in Command : ledger[c] \in {"promoted", "ended"}}

(* lookupExact, for a command that is not in flight. *)
Seen(c) == IF index = None THEN Facts ELSE index
Known(c) == c \in live \/ c \in Range(settled) \/ c \in Seen(c)
Consult(c) ==
    /\ settled' = IF c \notin live /\ c \in Range(settled) THEN Append(Remove(settled, c), c) ELSE settled
    /\ index' = IF c \in live \/ c \in Range(settled) THEN index ELSE Seen(c)

-----------------------------------------------------------------------------
Init ==
    /\ req = [r \in Request |-> Idle]
    /\ keyGate = [c \in Command |-> <<>>] /\ sessionGate = <<>>
    /\ inFlight = [c \in Command |-> None] /\ live = {} /\ settled = <<>>
    /\ ledger = [c \in Command |-> "none"] /\ index = None
    /\ held = {} /\ events = {}
    /\ ran = [c \in Input |-> 0] /\ adrift = {}

(* handle and queryOne: into the queue of the command's gate. *)
Deliver(r, c, query) ==
    /\ At(r, "idle")
    /\ req' = [req EXCEPT ![r] = [at |-> "keyed", cmd |-> c, query |-> query]]
    /\ keyGate' = [keyGate EXCEPT ![c] = Append(@, r)]
    /\ UNCHANGED <<sessionGate, memory, store, history>>

(* The command is in flight: wait for its final, the gate held. *)
Share(r) ==
    /\ At(r, "keyed") /\ HoldsKey(r) /\ inFlight[Cmd(r)] # None
    /\ Go(r, "sharing")
    /\ UNCHANGED <<gates, memory, store, history>>

Shared(r) ==
    /\ At(r, "sharing") /\ inFlight[Cmd(r)] = None
    /\ Answer(r)
    /\ UNCHANGED <<memory, store, history>>

(* What is known answers; otherwise a delivery queues for the session. *)
MissesFlight(r) ==
    /\ At(r, "keyed") /\ HoldsKey(r) /\ (inFlight[Cmd(r)] # None => Cmd(r) \in live)
    /\ Consult(Cmd(r))
    /\ IF Known(Cmd(r)) \/ req[r].query THEN Answer(r)
       ELSE /\ Go(r, "queued")
            /\ sessionGate' = Append(sessionGate, r)
            /\ UNCHANGED keyGate
    /\ UNCHANGED <<inFlight, live, ledger, held, events, history>>
LookUp(r) ==
    /\ At(r, "keyed") /\ HoldsKey(r) /\ inFlight[Cmd(r)] = None
    /\ Consult(Cmd(r))
    /\ IF Known(Cmd(r)) \/ req[r].query THEN Answer(r)
       ELSE /\ Go(r, "queued")
            /\ sessionGate' = Append(sessionGate, r)
            /\ UNCHANGED keyGate
    /\ UNCHANGED <<inFlight, live, ledger, held, events, history>>

(* The store cannot be read: queryUnavailable, before either gate is passed. *)
LookUpFails(r) ==
    /\ \/ At(r, "keyed") /\ HoldsKey(r)
       \/ At(r, "queued") /\ HoldsSession(r)
    /\ inFlight[Cmd(r)] = None /\ index = None
    /\ Cmd(r) \notin live \cup Range(settled)
    /\ Answer(r)
    /\ UNCHANGED <<memory, store, history>>

(* The session's turn has come: look again, then decide. *)
LookAgain(r) ==
    /\ At(r, "queued") /\ HoldsSession(r)
    /\ Known(Cmd(r)) /\ Consult(Cmd(r))
    /\ Answer(r)
    /\ UNCHANGED <<inFlight, live, ledger, held, events, history>>

Refuse(r, remember) ==
    /\ At(r, "queued") /\ HoldsSession(r) /\ ~Known(Cmd(r))
    /\ index' = Seen(Cmd(r))
    /\ settled' = IF remember THEN Remember(settled, Cmd(r)) ELSE settled
    /\ Answer(r)
    /\ UNCHANGED <<inFlight, live, ledger, held, events, history>>

(* Pinned first, then the command's gate is given back; the session's is kept. *)
Execute(r) ==
    /\ At(r, "queued") /\ HoldsSession(r) /\ ~Known(Cmd(r))
    /\ index' = Seen(Cmd(r))
    /\ inFlight' = [inFlight EXCEPT ![Cmd(r)] = r]
    /\ keyGate' = [keyGate EXCEPT ![Cmd(r)] = Tail(@)]
    /\ Go(r, "admitting")
    /\ UNCHANGED <<sessionGate, live, settled, ledger, held, events, history>>

-----------------------------------------------------------------------------
(* settle: once; a live input keeps its answer with its pin. *)
Settle(r, pinned) ==
    /\ inFlight' = [inFlight EXCEPT ![Cmd(r)] = None]
    /\ live' = pinned
    /\ settled' = IF Cmd(r) \in pinned THEN settled ELSE Remember(settled, Cmd(r))
    /\ req' = [req EXCEPT ![r] = Idle]
    /\ sessionGate' = Tail(sessionGate)
    /\ UNCHANGED keyGate

(* admitCommandInput, pinLiveInput and the start of executeCommand. *)
Admit(r) ==
    /\ At(r, "admitting")
    /\ IF Cmd(r) \in Input
         THEN /\ ledger' = [ledger EXCEPT ![Cmd(r)] = "admitted"]
              /\ live' = live \cup {Cmd(r)} /\ settled' = Remove(settled, Cmd(r))
              /\ held' = held \cup {Cmd(r)}
              /\ ran' = [ran EXCEPT ![Cmd(r)] = IF @ = 2 THEN 2 ELSE @ + 1]
         ELSE UNCHANGED <<ledger, live, settled, held, ran>>
    /\ Go(r, "running")
    /\ UNCHANGED <<gates, inFlight, index, events, adrift>>

AdmitFails(r) ==
    /\ At(r, "admitting")
    /\ Settle(r, live)
    /\ UNCHANGED <<store, history>>

Succeed(r) ==
    /\ At(r, "running")
    /\ Settle(r, live)
    /\ UNCHANGED <<store, history>>

(* A row of the ledger that has not ended yet. *)
EndRows(rows) == ledger' = [c \in Command |-> IF c \in rows /\ ledger[c] = "admitted" THEN "ended" ELSE ledger[c]]

(***************************************************************************)
(* executeCommand throws, with the input in the runtime's hands or not.    *)
(* The ledger is to cancel it; when that fails, it is only reported.       *)
(***************************************************************************)
Throw(r) ==
    /\ At(r, "running")
    /\ \E rows \in {{}, {Cmd(r)}} : EndRows(rows)
    /\ held' \in {held, held \ {Cmd(r)}}
    /\ adrift' = adrift \cup ({Cmd(r)} \cap Input)
    /\ Go(r, "cancelling")
    /\ UNCHANGED <<gates, memory, index, events, ran>>

Cancelled(r) ==
    /\ At(r, "cancelling")
    /\ Settle(r, live \ {Cmd(r)})
    /\ UNCHANGED <<store, history>>

(***************************************************************************)
(* The runtime commits an input to the transcript, whatever its row says,  *)
(* or a user takes it out of the queue: first in the store, then by an     *)
(* event to the gateway.                                                   *)
(***************************************************************************)
Commit(c, fate) ==
    /\ c \in held /\ held' = held \ {c}
    /\ IF fate = "promoted" THEN ledger' = [ledger EXCEPT ![c] = "promoted"] ELSE EndRows({c})
    /\ events' = events \cup {c}
    /\ UNCHANGED <<req, gates, memory, index, history>>

(* The runtime queues an input or edits it in its queue: pinned again by the event. *)
Queued(c) ==
    /\ c \in held
    /\ live' = live \cup {c} /\ settled' = Remove(settled, c)
    /\ UNCHANGED <<req, gates, inFlight, store, history>>

(* The event: the index is dropped, then the pin. Without the first, a fault for the mutant runs. *)
Unpin(c) ==
    /\ c \in events /\ events' = events \ {c}
    /\ live' = live \ {c}
    /\ settled' = IF c \in live THEN Remember(settled, c) ELSE settled
    /\ UNCHANGED <<req, gates, inFlight, ledger, held, history>>
OnlyUnpin(c) == Unpin(c) /\ UNCHANGED index
Committed(c) == Unpin(c) /\ index' = None

(***************************************************************************)
(* A session that is resumed discards the inputs its ledger still has as   *)
(* admitted; where the store fails, the rest is left as it is.             *)
(***************************************************************************)
Resume ==
    \E missed \in SUBSET {c \in Command : ledger[c] = "admitted"} :
        /\ EndRows(Command \ missed)
        /\ adrift' = adrift \cup missed

(***************************************************************************)
(* The resident runtime is put away and resumed: refused while an input is *)
(* pinned or in its hands; the index stays.                                *)
(***************************************************************************)
ClearSession ==
    /\ \A c \in Command : inFlight[c] = None
    /\ live = {} /\ held = {} /\ settled # <<>>
    /\ settled' = <<>>
    /\ Resume
    /\ UNCHANGED <<req, gates, inFlight, live, index, held, events, ran>>

(* The process dies; the session is resumed with nothing in memory. *)
Restart ==
    /\ req' = [r \in Request |-> Idle]
    /\ keyGate' = [c \in Command |-> <<>>] /\ sessionGate' = <<>>
    /\ inFlight' = [c \in Command |-> None] /\ live' = {} /\ settled' = <<>>
    /\ Resume
    /\ index' = None /\ held' = {} /\ events' = {}
    /\ UNCHANGED ran

Step(r) ==
    \/ Share(r) \/ Shared(r) \/ LookUp(r) \/ LookUpFails(r) \/ LookAgain(r)
    \/ \E remember \in BOOLEAN : Refuse(r, remember)
    \/ Execute(r) \/ Admit(r) \/ AdmitFails(r) \/ Succeed(r) \/ Throw(r) \/ Cancelled(r)

Next ==
    \/ \E r \in Request : Step(r)
    \/ \E r \in Request, c \in Command, query \in BOOLEAN : Deliver(r, c, query)
    \/ \E c \in Command, fate \in {"promoted", "ended"} : Commit(c, fate)
    \/ \E c \in Command : Queued(c) \/ Committed(c)
    \/ ClearSession \/ Restart

(***************************************************************************)
(* Reads of the store end, one way or the other, and so do executions: the *)
(* gateway settles in a finally.  Inputs need not leave the queue.         *)
(***************************************************************************)
Spec == Init /\ [][Next]_vars
LiveSpec == Spec /\ \A r \in Request : WF_vars(Step(r))

-----------------------------------------------------------------------------
(* Properties.                                                             *)

(***************************************************************************)
(* An input is executed once, however often it is delivered, whatever the  *)
(* LRU has forgotten, whenever the index was read and over restarts; but   *)
(* for one whose execution threw, which the gateway forgets to invalidate, *)
(* and one a resume could not sweep, which the index does not know.        *)
(***************************************************************************)
InputsRunOnce == \A c \in Input : ran[c] < 2 \/ c \in adrift

(***************************************************************************)
(* A command that is executing has no answer yet: a repeated delivery or a *)
(* query that is answered finds it settled.                                *)
(***************************************************************************)
Answered(r) == ~At(r, "idle") /\ At(r, "idle")'
AnswersAreFinal == [][\A r \in Request : Answered(r) => inFlight'[Cmd(r)] = None]_vars

(***************************************************************************)
(* Everybody is answered: repeated deliveries wait for the first with the  *)
(* gate of their command in hand, commands for one another with two.       *)
(***************************************************************************)
EveryRequestAnswered == \A r \in Request : ~At(r, "idle") ~> At(r, "idle")
=============================================================================
