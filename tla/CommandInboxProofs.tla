-------------------------- MODULE CommandInboxProofs --------------------------
(***************************************************************************)
(* An input is executed once and no answer runs ahead of its execution,    *)
(* for any number of commands and requests and any size of the LRU: what   *)
(* the LRU has forgotten, the pins or the durable facts still know.        *)
(***************************************************************************)
EXTENDS CommandInbox, SequenceTheorems, TLAPS

Place == {"idle", "keyed", "sharing", "queued", "admitting", "running", "cancelling"}
Waits == {"keyed", "sharing", "queued"}
Executing(r) == req[r].at \in {"admitting", "running", "cancelling"}
Durable(c) == ledger[c] \in {"promoted", "ended"}

TypeOK ==
    /\ req \in [Request -> [at : Place, cmd : Command \cup {None}, query : BOOLEAN]]
    /\ \A r \in Request : ~At(r, "idle") => Cmd(r) \in Command
    /\ keyGate \in [Command -> Seq(Request)] /\ sessionGate \in Seq(Request)
    /\ inFlight \in [Command -> Request \cup {None}]
    /\ ledger \in [Command -> {"none", "admitted", "promoted", "ended"}]
    /\ ran \in [Input -> 0..2]

(* Who is in a gate's queue, and who is at its head. *)
KeyGates ==
    /\ \A c \in Command : \A n \in DOMAIN keyGate[c] :
          req[keyGate[c][n]].at \in Waits /\ Cmd(keyGate[c][n]) = c
    /\ \A c \in Command : IsInjective(keyGate[c])
    /\ \A r \in Request : req[r].at \in {"sharing", "queued"} => HoldsKey(r)
SessionGates ==
    /\ \A n \in DOMAIN sessionGate : At(sessionGate[n], "queued") \/ Executing(sessionGate[n])
    /\ IsInjective(sessionGate)
    /\ \A r \in Request : Executing(r) => HoldsSession(r)

(* A command is in flight exactly while a request executes it. *)
Flights ==
    /\ \A r \in Request : Executing(r) => inFlight[Cmd(r)] = r
    /\ \A r \in Request : At(r, "queued") => inFlight[Cmd(r)] = None
    /\ \A c \in Command : inFlight[c] # None => Executing(inFlight[c]) /\ Cmd(inFlight[c]) = c

(* What the ledger, the pins, the runtime and the pending events say of an input. *)
Ledgers ==
    /\ \A c \in Command : ledger[c] # "none" => c \in Input /\ ran[c] # 0
    /\ \A c \in live \cup events \cup held : c \in Input /\ ledger[c] # "none"
    /\ \A c \in events : c \in adrift \/ Durable(c)
    /\ \A r \in Request : At(r, "cancelling") /\ Cmd(r) \in Input => Cmd(r) \in adrift
    /\ \A r \in Request : At(r, "admitting") /\ Cmd(r) \in Input => ran[Cmd(r)] = 0 \/ Cmd(r) \in adrift

(* An input that ran is pinned, or its fate is durable and in the index. *)
Remembered ==
    \A c \in Input : ran[c] = 0 \/ c \in adrift \/ c \in live
                       \/ (Durable(c) /\ (index = None \/ c \in index))

IInv == TypeOK /\ KeyGates /\ SessionGates /\ Flights /\ Ledgers /\ Remembered /\ InputsRunOnce

-----------------------------------------------------------------------------
LEMMA TailFacts ==
  ASSUME NEW g \in Seq(Request), g # <<>>, IsInjective(g)
  PROVE  /\ Tail(g) \in Seq(Request) /\ IsInjective(Tail(g))
         /\ \A n \in DOMAIN Tail(g) : /\ n + 1 \in DOMAIN g /\ Tail(g)[n] = g[n + 1]
                                      /\ Tail(g)[n] # Head(g)
<1>1. /\ Tail(g) \in Seq(Request) /\ Len(Tail(g)) = Len(g) - 1 /\ Len(g) \in Nat
      /\ \A n \in 1..Len(Tail(g)) : Tail(g)[n] = g[n + 1]
  BY HeadTailProperties, LenProperties
<1>2. DOMAIN g = 1..Len(g) /\ DOMAIN Tail(g) = 1..Len(Tail(g))
  BY <1>1, LenProperties
<1>3. 1 \in DOMAIN g /\ Head(g) = g[1]
  BY <1>1, <1>2, EmptySeq
<1>4. \A n \in DOMAIN Tail(g) : n + 1 \in DOMAIN g /\ Tail(g)[n] = g[n + 1]
  BY <1>1, <1>2
<1>5. \A n \in DOMAIN Tail(g) : Tail(g)[n] # Head(g)
  <2> SUFFICES ASSUME NEW n \in DOMAIN Tail(g), g[n + 1] = g[1] PROVE FALSE
    BY <1>3, <1>4
  <2>1. n + 1 = 1
    BY <1>3, <1>4 DEF IsInjective
  <2> QED BY <2>1, <1>2, <1>1
<1>6. IsInjective(Tail(g))
  <2> SUFFICES ASSUME NEW a \in DOMAIN Tail(g), NEW b \in DOMAIN Tail(g), Tail(g)[a] = Tail(g)[b]
               PROVE  a = b
    BY DEF IsInjective
  <2>1. a + 1 = b + 1
    BY <1>4 DEF IsInjective
  <2> QED BY <2>1, <1>2, <1>1
<1> QED BY <1>1, <1>4, <1>5, <1>6

LEMMA AppendFacts ==
  ASSUME NEW g \in Seq(Request), IsInjective(g), NEW r \in Request, \A n \in DOMAIN g : g[n] # r
  PROVE  /\ Append(g, r) \in Seq(Request) /\ IsInjective(Append(g, r)) /\ Append(g, r) # <<>>
         /\ g # <<>> => Head(Append(g, r)) = Head(g)
         /\ \A n \in DOMAIN Append(g, r) : Append(g, r)[n] = r \/ (n \in DOMAIN g /\ Append(g, r)[n] = g[n])
<1>1. /\ Append(g, r) \in Seq(Request) /\ Len(Append(g, r)) = Len(g) + 1 /\ Len(g) \in Nat
      /\ DOMAIN g = 1..Len(g) /\ DOMAIN Append(g, r) = 1..(Len(g) + 1)
      /\ \A n \in 1..Len(g) : Append(g, r)[n] = g[n]
      /\ Append(g, r)[Len(g) + 1] = r
  BY AppendProperties, LenProperties
<1>2. Append(g, r) # <<>> /\ (g # <<>> => Head(Append(g, r)) = Head(g))
  BY <1>1, EmptySeq
<1>3. \A n \in DOMAIN Append(g, r) : Append(g, r)[n] = r \/ (n \in DOMAIN g /\ Append(g, r)[n] = g[n])
  BY <1>1
<1>4. IsInjective(Append(g, r))
  BY <1>1 DEF IsInjective
<1> QED BY <1>1, <1>2, <1>3, <1>4

(***************************************************************************)
(* An answer: the gates that r held are passed on, nobody else's.          *)
(***************************************************************************)
LEMMA AnswerKeepsGates ==
  ASSUME TypeOK, KeyGates, SessionGates, NEW r \in Request,
         req[r].at \in Waits, HoldsKey(r), At(r, "queued") => HoldsSession(r), Answer(r)
  PROVE  /\ req' \in [Request -> [at : Place, cmd : Command \cup {None}, query : BOOLEAN]]
         /\ \A q \in Request : ~At(q, "idle")' => Cmd(q)' \in Command
         /\ keyGate' \in [Command -> Seq(Request)] /\ sessionGate' \in Seq(Request)
         /\ KeyGates' /\ SessionGates'
<1> DEFINE c == Cmd(r)
<1>1. c \in Command /\ ~At(r, "idle")
  BY DEF TypeOK, Waits, At
<1>2. /\ keyGate[c] \in Seq(Request) /\ keyGate[c] # <<>> /\ Head(keyGate[c]) = r
      /\ IsInjective(keyGate[c])
  BY <1>1 DEF TypeOK, HoldsKey, KeyGates
<1>3. keyGate' = [keyGate EXCEPT ![c] = Tail(keyGate[c])]
  BY <1>2, <1>1 DEF Answer, Released, TypeOK
<1>4. req' = [req EXCEPT ![r] = Idle] /\ Idle \in [at : Place, cmd : Command \cup {None}, query : BOOLEAN]
      /\ Idle.at = "idle"
  BY DEF Answer, Idle, Place
<1>5. /\ req' \in [Request -> [at : Place, cmd : Command \cup {None}, query : BOOLEAN]]
      /\ \A q \in Request : q # r => req'[q] = req[q]
      /\ req'[r] = Idle
  BY <1>4 DEF TypeOK
<1>6. \A q \in Request : ~At(q, "idle")' => Cmd(q)' \in Command
  BY <1>5, <1>4 DEF TypeOK, At, Cmd
<1>7. keyGate' \in [Command -> Seq(Request)] /\ keyGate'[c] = Tail(keyGate[c])
      /\ \A d \in Command : d # c => keyGate'[d] = keyGate[d]
  <2>1. Tail(keyGate[c]) \in Seq(Request)
    BY <1>2, TailFacts
  <2> QED BY <2>1, <1>1, <1>3 DEF TypeOK
<1>8. KeyGates'
  <2>1. ASSUME NEW d \in Command, NEW n \in DOMAIN keyGate'[d]
        PROVE  req'[keyGate'[d][n]].at \in Waits /\ req'[keyGate'[d][n]].cmd = d
    <3>1. CASE d = c
      <4> keyGate'[d] = Tail(keyGate[c]) /\ n \in DOMAIN Tail(keyGate[c])
        BY <1>7, <3>1, <2>1
      <4>1. n + 1 \in DOMAIN keyGate[c] /\ keyGate'[d][n] = keyGate[c][n + 1] /\ keyGate'[d][n] # r
        BY <1>2, TailFacts
      <4>2. keyGate[c][n + 1] \in Request
        BY <4>1, <1>2, LenProperties, ElementOfSeq
      <4> QED BY <4>1, <4>2, <1>1, <1>5, <3>1 DEF KeyGates, Cmd
    <3>2. CASE d # c
      <4>1. keyGate'[d] = keyGate[d] /\ keyGate[d] \in Seq(Request) /\ n \in DOMAIN keyGate[d]
        BY <1>7, <3>2, <2>1 DEF TypeOK
      <4>2. keyGate[d][n] \in Request
        BY <4>1, LenProperties, ElementOfSeq
      <4>3. req[keyGate[d][n]].at \in Waits /\ req[keyGate[d][n]].cmd = d
        BY <4>1, <2>1 DEF KeyGates, Cmd
      <4>4. keyGate[d][n] # r
        BY <4>3, <3>2 DEF Cmd
      <4> QED BY <4>1, <4>2, <4>3, <4>4, <1>5
    <3> QED BY <3>1, <3>2
  <2>2. ASSUME NEW d \in Command PROVE IsInjective(keyGate'[d])
    <3>1. CASE d = c
      BY <3>1, <1>2, <1>7, TailFacts
    <3>2. CASE d # c
      BY <3>2, <1>7, <2>2 DEF KeyGates
    <3> QED BY <3>1, <3>2
  <2>3. ASSUME NEW q \in Request, req'[q].at \in {"sharing", "queued"}
        PROVE  keyGate'[req'[q].cmd] # <<>> /\ Head(keyGate'[req'[q].cmd]) = q
    <3>1. q # r /\ req'[q] = req[q]
      BY <1>5, <1>4, <2>3
    <3>2. HoldsKey(q) /\ Cmd(q) \in Command
      BY <3>1, <2>3 DEF KeyGates, TypeOK, At
    <3>3. Cmd(q) # c
      BY <3>1, <3>2, <1>2 DEF HoldsKey
    <3> QED BY <3>1, <3>2, <3>3, <1>7 DEF HoldsKey, Cmd
  <2> QED BY <2>1, <2>2, <2>3 DEF KeyGates, HoldsKey, Cmd
<1>9. sessionGate' = IF At(r, "queued") THEN Tail(sessionGate) ELSE sessionGate
  <2>1. CASE At(r, "queued")
    BY <2>1 DEF Answer, Released, HoldsSession
  <2>2. CASE ~At(r, "queued")
    <3>1. ~Executing(r)
      BY DEF Waits, Executing
    <3>2. sessionGate # <<>> => 1 \in DOMAIN sessionGate /\ Head(sessionGate) = sessionGate[1]
      BY LenProperties, EmptySeq DEF TypeOK
    <3>3. sessionGate # <<>> => Head(sessionGate) # r
      BY <3>1, <3>2, <2>2 DEF SessionGates
    <3> QED BY <3>3, <2>2 DEF Answer, Released
  <2> QED BY <2>1, <2>2
<1>10. sessionGate' \in Seq(Request) /\ SessionGates'
  <2>1. CASE At(r, "queued")
    <3>1. sessionGate # <<>> /\ Head(sessionGate) = r /\ sessionGate \in Seq(Request) /\ IsInjective(sessionGate)
      BY <2>1 DEF HoldsSession, TypeOK, SessionGates
    <3>2. sessionGate' = Tail(sessionGate)
      BY <2>1, <1>9
    <3>3. /\ sessionGate' \in Seq(Request) /\ IsInjective(sessionGate')
          /\ \A n \in DOMAIN sessionGate' : /\ n + 1 \in DOMAIN sessionGate
                                            /\ sessionGate'[n] = sessionGate[n + 1] /\ sessionGate'[n] # r
      BY <3>1, <3>2, TailFacts
    <3>4. \A q \in Request : ~Executing(q)'
      <4>1. ~Executing(r)
        BY <2>1 DEF At, Executing
      <4>2. \A q \in Request : ~Executing(q)
        BY <4>1, <3>1 DEF SessionGates, HoldsSession
      <4> QED BY <4>2, <1>5, <1>4 DEF Executing
    <3>5. \A n \in DOMAIN sessionGate' :
              req'[sessionGate'[n]].at \in {"queued", "admitting", "running", "cancelling"}
      <4> TAKE n \in DOMAIN sessionGate'
      <4>1. sessionGate'[n] \in Request
        BY <3>3, LenProperties, ElementOfSeq
      <4>2. req[sessionGate'[n]].at \in {"queued", "admitting", "running", "cancelling"}
        BY <3>3 DEF SessionGates, At, Executing
      <4> QED BY <4>1, <4>2, <3>3, <1>5
    <3> QED BY <3>3, <3>4, <3>5 DEF SessionGates, At, Executing
  <2>2. CASE ~At(r, "queued")
    <3>1. sessionGate' = sessionGate /\ sessionGate \in Seq(Request)
      BY <2>2, <1>9 DEF TypeOK
    <3>2. \A n \in DOMAIN sessionGate : sessionGate[n] # r /\ sessionGate[n] \in Request
      <4>1. ~Executing(r)
        BY DEF Waits, Executing
      <4> QED BY <4>1, <2>2, <3>1, LenProperties, ElementOfSeq DEF SessionGates
    <3> QED BY <3>1, <3>2, <1>5, <1>4 DEF SessionGates, At, Executing, HoldsSession
  <2> QED BY <2>1, <2>2
<1> QED BY <1>5, <1>6, <1>7, <1>8, <1>10

LEMMA IndexKeepsRemembered ==
  ASSUME Remembered, NEW c, index' \in {index, Seen(c)}, UNCHANGED <<live, ledger, ran, adrift>>
  PROVE  Remembered'
<1> SUFFICES ASSUME NEW d \in Input, Durable(d), index = None \/ d \in index
             PROVE  index' = None \/ d \in index'
  BY DEF Remembered, Durable
<1>1. d \in Facts
  BY InputAssumption DEF Facts, Durable
<1> QED BY <1>1 DEF Seen

(* Steps that change no durable fact, no pin, no history. *)
quiet == <<live, ledger, held, events, ran, adrift>>

(* The conjuncts that speak of requests in their execution. *)
LEMMA QuietLedgers ==
  ASSUME Ledgers, UNCHANGED quiet,
         \A q \in Request : At(q, "cancelling")' \/ At(q, "admitting")' => req'[q] = req[q]
  PROVE  Ledgers'
BY DEF Ledgers, quiet, At, Cmd, Durable

LEMMA AnswerKeeps ==
  ASSUME IInv, NEW r \in Request, req[r].at \in Waits, HoldsKey(r),
         At(r, "queued") => HoldsSession(r), Answer(r), UNCHANGED <<inFlight, quiet>>,
         index' \in {index, Seen(Cmd(r))}
  PROVE  IInv'
<1>1. /\ req' = [req EXCEPT ![r] = Idle] /\ Idle.at = "idle" /\ req \in [Request -> [at : Place, cmd : Command \cup {None}, query : BOOLEAN]]
  BY DEF Answer, Idle, IInv, TypeOK
<1>2. \A q \in Request : req'[q] = IF q = r THEN Idle ELSE req[q]
  BY <1>1
<1>3. TypeOK' /\ KeyGates' /\ SessionGates'
  BY AnswerKeepsGates DEF IInv, TypeOK, quiet
<1>4. Flights'
  <2>1. ~Executing(r)
    BY DEF Waits, Executing
  <2>2. \A q \in Request : (Executing(q)' <=> Executing(q)) /\ (Executing(q) => Cmd(q)' = Cmd(q))
    BY <2>1, <1>2, <1>1 DEF Executing, Cmd
  <2>3. \A q \in Request : At(q, "queued")' => At(q, "queued") /\ Cmd(q)' = Cmd(q)
    BY <1>2, <1>1 DEF At, Cmd
  <2>4. \A d \in Command : inFlight[d] # None => inFlight[d] \in Request
    BY DEF IInv, TypeOK
  <2>5. ASSUME NEW d \in Command, inFlight[d] # None
        PROVE  req'[inFlight[d]].at \in {"admitting", "running", "cancelling"} /\ req'[inFlight[d]].cmd = d
    <3>1. Executing(inFlight[d]) /\ Cmd(inFlight[d]) = d /\ inFlight[d] \in Request
      BY <2>4, <2>5 DEF IInv, Flights
    <3>2. inFlight[d] # r
      BY <2>1, <3>1
    <3> QED BY <3>1, <3>2, <1>2 DEF Executing, Cmd
  <2> QED BY <2>2, <2>3, <2>5 DEF Flights, IInv, Executing, Cmd
<1>5. Ledgers'
  BY <1>1, <1>2, QuietLedgers DEF IInv, At
<1>6. Remembered' /\ InputsRunOnce'
  BY IndexKeepsRemembered DEF IInv, InputsRunOnce, quiet
<1> QED BY <1>3, <1>4, <1>5, <1>6 DEF IInv

-----------------------------------------------------------------------------
(* Before the execution. *)

LEMMA DeliverKeeps ==
  ASSUME IInv, NEW r \in Request, NEW c \in Command, NEW query \in BOOLEAN, Deliver(r, c, query)
  PROVE  IInv'
<1>1. /\ req \in [Request -> [at : Place, cmd : Command \cup {None}, query : BOOLEAN]]
      /\ req' = [req EXCEPT ![r] = [at |-> "keyed", cmd |-> c, query |-> query]]
      /\ keyGate \in [Command -> Seq(Request)] /\ keyGate' = [keyGate EXCEPT ![c] = Append(@, r)]
      /\ At(r, "idle")
  BY DEF Deliver, IInv, TypeOK
<1>2. /\ \A q \in Request : q # r => req'[q] = req[q]
      /\ req'[r].at = "keyed" /\ req'[r].cmd = c
  BY <1>1
<1>3. \A d \in Command : \A n \in DOMAIN keyGate[d] : keyGate[d][n] \in Request \ {r}
  <2> TAKE d \in Command
  <2> TAKE n \in DOMAIN keyGate[d]
  <2>1. keyGate[d][n] \in Request
    BY <1>1, LenProperties, ElementOfSeq
  <2>2. keyGate[d][n] # r
    BY <1>1 DEF IInv, KeyGates, Waits, At
  <2> QED BY <2>1, <2>2
<1>4. /\ Append(keyGate[c], r) \in Seq(Request) /\ IsInjective(Append(keyGate[c], r)) /\ Append(keyGate[c], r) # <<>>
      /\ keyGate[c] # <<>> => Head(Append(keyGate[c], r)) = Head(keyGate[c])
      /\ \A n \in DOMAIN Append(keyGate[c], r) :
            Append(keyGate[c], r)[n] = r \/ (n \in DOMAIN keyGate[c] /\ Append(keyGate[c], r)[n] = keyGate[c][n])
  <2>1. keyGate[c] \in Seq(Request) /\ IsInjective(keyGate[c]) /\ \A n \in DOMAIN keyGate[c] : keyGate[c][n] # r
    BY <1>1, <1>3 DEF IInv, KeyGates
  <2> QED BY <2>1, AppendFacts
<1>5. keyGate' \in [Command -> Seq(Request)] /\ \A d \in Command : keyGate'[d] = IF d = c THEN Append(keyGate[c], r) ELSE keyGate[d]
  BY <1>1, <1>4
<1>6. TypeOK'
  <2>1. req' \in [Request -> [at : Place, cmd : Command \cup {None}, query : BOOLEAN]]
    BY <1>1 DEF Place
  <2>2. \A q \in Request : ~At(q, "idle")' => Cmd(q)' \in Command
    BY <1>2 DEF IInv, TypeOK, At, Cmd
  <2> QED BY <2>1, <2>2, <1>5 DEF Deliver, IInv, TypeOK, memory, store, history
<1>7. KeyGates'
  <2>1. ASSUME NEW d \in Command, NEW n \in DOMAIN keyGate'[d]
        PROVE  req'[keyGate'[d][n]].at \in Waits /\ req'[keyGate'[d][n]].cmd = d
    <3>1. (d = c /\ keyGate'[d][n] = r) \/ (n \in DOMAIN keyGate[d] /\ keyGate'[d][n] = keyGate[d][n])
      BY <1>4, <1>5, <2>1
    <3> QED BY <3>1, <1>2, <1>3 DEF IInv, KeyGates, Waits, Cmd
  <2>2. \A d \in Command : IsInjective(keyGate'[d])
    BY <1>4, <1>5 DEF IInv, KeyGates
  <2>3. ASSUME NEW q \in Request, req'[q].at \in {"sharing", "queued"}
        PROVE  keyGate'[req'[q].cmd] # <<>> /\ Head(keyGate'[req'[q].cmd]) = q
    <3>1. q # r /\ req'[q] = req[q]
      BY <1>2, <2>3
    <3>2. HoldsKey(q) /\ Cmd(q) \in Command
      BY <3>1, <2>3 DEF IInv, KeyGates, TypeOK, At
    <3> QED BY <3>1, <3>2, <1>4, <1>5 DEF HoldsKey, Cmd
  <2> QED BY <2>1, <2>2, <2>3 DEF KeyGates, HoldsKey, Cmd
<1>8. SessionGates'
  <2>1. \A n \in DOMAIN sessionGate : sessionGate[n] \in Request \ {r}
    <3> TAKE n \in DOMAIN sessionGate
    <3>1. sessionGate[n] \in Request
      BY LenProperties, ElementOfSeq DEF IInv, TypeOK
    <3> QED BY <3>1, <1>1 DEF IInv, SessionGates, At, Executing
  <2> QED BY <2>1, <1>2 DEF Deliver, IInv, SessionGates, At, Executing, HoldsSession
<1>9. Flights'
  <2>1. \A d \in Command : inFlight[d] # None => inFlight[d] \in Request \ {r}
    <3> SUFFICES ASSUME NEW d \in Command, inFlight[d] # None PROVE inFlight[d] \in Request \ {r}
      OBVIOUS
    <3>1. inFlight[d] \in Request
      BY DEF IInv, TypeOK
    <3>2. Executing(inFlight[d])
      BY DEF IInv, Flights
    <3> QED BY <3>1, <3>2, <1>1 DEF Executing, At
  <2> QED BY <2>1, <1>2 DEF Deliver, memory, IInv, Flights, Executing, At, Cmd
<1>10. Ledgers'
  <2>1. \A q \in Request : At(q, "cancelling")' \/ At(q, "admitting")' => req'[q] = req[q]
    BY <1>2 DEF At
  <2> QED BY <2>1, QuietLedgers DEF Deliver, memory, store, history, quiet, IInv
<1>11. Remembered' /\ InputsRunOnce'
  BY DEF Deliver, memory, store, history, IInv, Remembered, InputsRunOnce, Durable
<1> QED BY <1>6, <1>7, <1>8, <1>9, <1>10, <1>11 DEF IInv

(* A request that waits goes on to another wait; it stays in its key's gate. *)
LEMMA WaitsOnKeepsKeyGates ==
  ASSUME IInv, NEW r \in Request, req[r].at \in Waits, HoldsKey(r), NEW at \in Waits, Go(r, at),
         UNCHANGED keyGate
  PROVE  /\ req' \in [Request -> [at : Place, cmd : Command \cup {None}, query : BOOLEAN]]
         /\ \A q \in Request : Cmd(q)' = Cmd(q) /\ req'[q].at = IF q = r THEN at ELSE req[q].at
         /\ \A q \in Request : ~At(q, "idle")' => Cmd(q)' \in Command
         /\ KeyGates'
<1>1. req \in [Request -> [at : Place, cmd : Command \cup {None}, query : BOOLEAN]]
      /\ req' = [req EXCEPT ![r].at = at] /\ at \in Place
  BY DEF IInv, TypeOK, Go, Waits, Place
<1>2. \A q \in Request : req'[q] = IF q = r THEN [req[r] EXCEPT !.at = at] ELSE req[q]
  BY <1>1
<1>3. \A q \in Request : Cmd(q)' = Cmd(q) /\ req'[q].at = IF q = r THEN at ELSE req[q].at
  BY <1>1, <1>2 DEF Cmd
<1>4. \A d \in Command : \A n \in DOMAIN keyGate[d] : keyGate[d][n] \in Request
  BY LenProperties, ElementOfSeq DEF IInv, TypeOK
<1>5. \A q \in Request : ~At(q, "idle")' => Cmd(q)' \in Command
  BY <1>3 DEF IInv, TypeOK, At, Waits
<1>6. KeyGates'
  <2>1. \A d \in Command : \A n \in DOMAIN keyGate[d] :
            req'[keyGate[d][n]].at \in Waits /\ req'[keyGate[d][n]].cmd = d
    BY <1>3, <1>4 DEF IInv, KeyGates, Cmd
  <2>2. \A q \in Request : req'[q].at \in {"sharing", "queued"} => HoldsKey(q)
    BY <1>3 DEF IInv, KeyGates
  <2> QED BY <2>1, <2>2, <1>3 DEF IInv, KeyGates, HoldsKey, Cmd
<1> QED BY <1>1, <1>2, <1>3, <1>5, <1>6

LEMMA ShareKeeps ==
  ASSUME IInv, NEW r \in Request, Share(r)
  PROVE  IInv'
<1>1. req[r].at \in Waits /\ HoldsKey(r) /\ Go(r, "sharing") /\ "sharing" \in Waits /\ UNCHANGED keyGate
  BY DEF Share, At, Waits, gates
<1>2. /\ req' \in [Request -> [at : Place, cmd : Command \cup {None}, query : BOOLEAN]]
      /\ \A q \in Request : Cmd(q)' = Cmd(q) /\ req'[q].at = IF q = r THEN "sharing" ELSE req[q].at
      /\ \A q \in Request : ~At(q, "idle")' => Cmd(q)' \in Command
      /\ KeyGates'
  BY <1>1, WaitsOnKeepsKeyGates
<1>3. TypeOK'
  BY <1>2 DEF IInv, TypeOK, Share, gates, memory, store, history
<1>4. At(r, "keyed")
  BY DEF Share
<1>5. \A q \in Request : (Executing(q)' <=> Executing(q)) /\ (At(q, "queued")' <=> At(q, "queued"))
  BY <1>2, <1>4 DEF Executing, At
<1>6. SessionGates'
  <2>1. \A n \in DOMAIN sessionGate : sessionGate[n] \in Request
    BY LenProperties, ElementOfSeq DEF IInv, TypeOK
  <2> QED BY <2>1, <1>5 DEF Share, gates, IInv, SessionGates, Executing, At, HoldsSession
<1>7. Flights'
  <2>1. \A d \in Command : inFlight[d] # None => inFlight[d] \in Request
    BY DEF IInv, TypeOK
  <2> QED BY <2>1, <1>2, <1>5 DEF Share, memory, IInv, Flights, Executing, At, Cmd
<1>8. Ledgers'
  <2>1. \A q \in Request : At(q, "cancelling")' \/ At(q, "admitting")' => req'[q] = req[q]
    BY <1>2 DEF At, Share, Go, IInv, TypeOK
  <2> QED BY <2>1, QuietLedgers DEF Share, memory, store, history, quiet, IInv
<1>9. Remembered' /\ InputsRunOnce'
  BY DEF Share, memory, store, history, IInv, Remembered, InputsRunOnce, Durable
<1> QED BY <1>2, <1>3, <1>6, <1>7, <1>8, <1>9 DEF IInv

LEMMA SharedKeeps ==
  ASSUME IInv, NEW r \in Request, Shared(r)
  PROVE  IInv'
<1>1. req[r].at \in Waits /\ HoldsKey(r) /\ ~At(r, "queued")
  BY DEF Shared, At, Waits, IInv, KeyGates
<1>2. Answer(r) /\ UNCHANGED <<inFlight, quiet, index>>
  BY DEF Shared, memory, store, history, quiet
<1> QED BY <1>1, <1>2, AnswerKeeps

LEMMA QueueKeeps ==
  ASSUME IInv, NEW r \in Request, At(r, "keyed"), HoldsKey(r), inFlight[Cmd(r)] = None,
         Go(r, "queued"), sessionGate' = Append(sessionGate, r),
         UNCHANGED <<keyGate, inFlight, quiet>>, index' \in {index, Seen(Cmd(r))}
  PROVE  IInv'
<1>1. req[r].at \in Waits /\ "queued" \in Waits
  BY DEF At, Waits
<1>2. /\ req' \in [Request -> [at : Place, cmd : Command \cup {None}, query : BOOLEAN]]
      /\ \A q \in Request : Cmd(q)' = Cmd(q) /\ req'[q].at = IF q = r THEN "queued" ELSE req[q].at
      /\ \A q \in Request : ~At(q, "idle")' => Cmd(q)' \in Command
      /\ KeyGates'
  BY <1>1, WaitsOnKeepsKeyGates
<1>3. sessionGate \in Seq(Request) /\ IsInjective(sessionGate) /\ \A n \in DOMAIN sessionGate : sessionGate[n] \in Request \ {r}
  <2>1. \A n \in DOMAIN sessionGate : sessionGate[n] \in Request
    BY LenProperties, ElementOfSeq DEF IInv, TypeOK
  <2> QED BY <2>1 DEF IInv, TypeOK, SessionGates, At, Executing
<1>4. /\ sessionGate' \in Seq(Request) /\ IsInjective(sessionGate') /\ sessionGate' # <<>>
      /\ sessionGate # <<>> => Head(sessionGate') = Head(sessionGate)
      /\ \A n \in DOMAIN sessionGate' : sessionGate'[n] = r \/ (n \in DOMAIN sessionGate /\ sessionGate'[n] = sessionGate[n])
  BY <1>3, AppendFacts
<1>5. TypeOK'
  BY <1>2, <1>4 DEF IInv, TypeOK, quiet
<1>6. \A q \in Request : (Executing(q)' <=> Executing(q)) /\ (At(q, "queued")' <=> At(q, "queued") \/ q = r)
  BY <1>2, <1>1 DEF Executing, At
<1>7. SessionGates'
  <2>1. ASSUME NEW n \in DOMAIN sessionGate'
        PROVE  req'[sessionGate'[n]].at \in {"queued", "admitting", "running", "cancelling"}
    <3>1. CASE sessionGate'[n] = r
      BY <3>1, <1>2
    <3>2. CASE n \in DOMAIN sessionGate /\ sessionGate'[n] = sessionGate[n]
      BY <3>2, <1>2, <1>3 DEF IInv, SessionGates, At, Executing
    <3> QED BY <3>1, <3>2, <1>4
  <2>2. ASSUME NEW q \in Request, Executing(q)' PROVE Head(sessionGate') = q
    BY <2>2, <1>6, <1>4 DEF IInv, SessionGates, HoldsSession
  <2> QED BY <2>1, <2>2, <1>4 DEF SessionGates, At, Executing, HoldsSession
<1>8. Flights'
  <2>1. \A d \in Command : inFlight[d] # None => inFlight[d] \in Request
    BY DEF IInv, TypeOK
  <2> QED BY <2>1, <1>2, <1>6 DEF IInv, Flights, Executing, At, Cmd
<1>9. Ledgers'
  <2>1. \A q \in Request : At(q, "cancelling")' \/ At(q, "admitting")' => req'[q] = req[q]
    BY <1>2 DEF At, Go, IInv, TypeOK
  <2> QED BY <2>1, QuietLedgers DEF IInv
<1>10. Remembered' /\ InputsRunOnce'
  BY IndexKeepsRemembered DEF IInv, InputsRunOnce, quiet
<1> QED BY <1>2, <1>5, <1>7, <1>8, <1>9, <1>10 DEF IInv

LEMMA LookUpKeeps ==
  ASSUME IInv, NEW r \in Request, LookUp(r)
  PROVE  IInv'
<1>1. /\ At(r, "keyed") /\ ~At(r, "queued") /\ req[r].at \in Waits /\ HoldsKey(r)
      /\ inFlight[Cmd(r)] = None /\ UNCHANGED <<inFlight, quiet>>
      /\ index' \in {index, Seen(Cmd(r))}
  BY DEF LookUp, At, Waits, Consult, quiet, history
<1>2. CASE Known(Cmd(r)) \/ req[r].query
  BY <1>1, <1>2, AnswerKeeps DEF LookUp
<1>3. CASE ~(Known(Cmd(r)) \/ req[r].query)
  BY <1>1, <1>3, QueueKeeps DEF LookUp
<1> QED BY <1>2, <1>3

LEMMA AnswersKeep ==
  ASSUME IInv, NEW r \in Request,
         LookUpFails(r) \/ LookAgain(r) \/ \E remember \in BOOLEAN : Refuse(r, remember)
  PROVE  IInv'
<1>1. req[r].at \in Waits /\ Answer(r) /\ (At(r, "queued") => HoldsSession(r))
  BY DEF LookUpFails, LookAgain, Refuse, At, Waits
<1>2. HoldsKey(r)
  BY DEF LookUpFails, LookAgain, Refuse, At, IInv, KeyGates
<1>3. UNCHANGED <<inFlight, quiet>> /\ index' \in {index, Seen(Cmd(r))}
  BY DEF LookUpFails, LookAgain, Refuse, memory, store, history, quiet, Consult
<1> QED BY <1>1, <1>2, <1>3, AnswerKeeps

-----------------------------------------------------------------------------
(* The execution. *)

LEMMA InSeq ==
  ASSUME NEW g \in Seq(Request)
  PROVE  \A n \in DOMAIN g : g[n] \in Request
BY LenProperties, ElementOfSeq

(* The holder of the session is the only one that executes. *)
LEMMA OneExecutes ==
  ASSUME IInv, NEW r \in Request, HoldsSession(r)
  PROVE  \A q \in Request : Executing(q) => q = r
BY DEF IInv, SessionGates, HoldsSession

LEMMA ExecuteKeeps ==
  ASSUME IInv, NEW r \in Request, Execute(r)
  PROVE  IInv'
<1> DEFINE c == Cmd(r)
<1>1. /\ At(r, "queued") /\ HoldsSession(r) /\ HoldsKey(r) /\ c \in Command
      /\ inFlight[c] = None /\ ~Known(c)
  BY DEF Execute, IInv, TypeOK, KeyGates, Flights, At
<1>2. req \in [Request -> [at : Place, cmd : Command \cup {None}, query : BOOLEAN]]
      /\ req' = [req EXCEPT ![r].at = "admitting"]
  BY DEF Execute, Go, IInv, TypeOK
<1>3. req' \in [Request -> [at : Place, cmd : Command \cup {None}, query : BOOLEAN]]
  BY <1>2 DEF Place
<1>4. \A q \in Request : Cmd(q)' = Cmd(q) /\ req'[q].at = IF q = r THEN "admitting" ELSE req[q].at
  BY <1>2 DEF Cmd
<1>5. keyGate' = [keyGate EXCEPT ![c] = Tail(keyGate[c])]
  BY DEF Execute
<1>6. /\ keyGate[c] \in Seq(Request) /\ keyGate[c] # <<>> /\ IsInjective(keyGate[c]) /\ Head(keyGate[c]) = r
  BY <1>1 DEF IInv, TypeOK, KeyGates, HoldsKey
<1>7. /\ Tail(keyGate[c]) \in Seq(Request) /\ IsInjective(Tail(keyGate[c]))
      /\ \A n \in DOMAIN Tail(keyGate[c]) : /\ n + 1 \in DOMAIN keyGate[c] /\ Tail(keyGate[c])[n] = keyGate[c][n + 1]
                                             /\ Tail(keyGate[c])[n] # r
  BY <1>6, TailFacts
<1>8. keyGate' \in [Command -> Seq(Request)] /\ \A d \in Command : keyGate'[d] = IF d = c THEN Tail(keyGate[c]) ELSE keyGate[d]
  BY <1>1, <1>5, <1>7 DEF IInv, TypeOK
<1>9. TypeOK'
  <2>1. inFlight' \in [Command -> Request \cup {None}]
    BY DEF Execute, IInv, TypeOK
  <2>2. \A q \in Request : ~At(q, "idle")' => Cmd(q)' \in Command
    BY <1>1, <1>4 DEF IInv, TypeOK, At
  <2> QED BY <2>1, <2>2, <1>3, <1>8 DEF Execute, IInv, TypeOK, history
<1>10. KeyGates'
  <2>1. ASSUME NEW d \in Command, NEW n \in DOMAIN keyGate'[d]
        PROVE  req'[keyGate'[d][n]].at \in Waits /\ req'[keyGate'[d][n]].cmd = d
    <3>1. CASE d = c
      <4>1. n + 1 \in DOMAIN keyGate[c] /\ keyGate'[d][n] = keyGate[c][n + 1] /\ keyGate'[d][n] # r
        <5> keyGate'[d] = Tail(keyGate[c]) /\ n \in DOMAIN Tail(keyGate[c])
          BY <1>8, <3>1, <2>1
        <5> QED BY <1>7
      <4> QED BY <4>1, <1>1, <1>4, <1>6, <3>1, InSeq DEF IInv, KeyGates, Cmd
    <3>2. CASE d # c
      <4>1. keyGate'[d] = keyGate[d] /\ n \in DOMAIN keyGate[d] /\ keyGate[d][n] \in Request
        BY <1>8, <3>2, <2>1, InSeq DEF IInv, TypeOK
      <4>2. req[keyGate[d][n]].at \in Waits /\ Cmd(keyGate[d][n]) = d
        BY <4>1 DEF IInv, KeyGates
      <4> QED BY <4>1, <4>2, <3>2, <1>4 DEF Cmd
    <3> QED BY <3>1, <3>2
  <2>2. \A d \in Command : IsInjective(keyGate'[d])
    BY <1>7, <1>8 DEF IInv, KeyGates
  <2>3. ASSUME NEW q \in Request, req'[q].at \in {"sharing", "queued"}
        PROVE  keyGate'[Cmd(q)] # <<>> /\ Head(keyGate'[Cmd(q)]) = q
    <3>1. q # r /\ HoldsKey(q) /\ Cmd(q) \in Command
      BY <2>3, <1>4 DEF IInv, KeyGates, TypeOK, At
    <3>2. Cmd(q) # c
      BY <3>1, <1>6 DEF HoldsKey
    <3> QED BY <3>1, <3>2, <1>8 DEF HoldsKey
  <2> QED BY <2>1, <2>2, <2>3, <1>4 DEF KeyGates, HoldsKey, Cmd
<1>11. SessionGates'
  <2>1. \A n \in DOMAIN sessionGate : sessionGate[n] \in Request
    BY InSeq DEF IInv, TypeOK
  <2>2. \A q \in Request : Executing(q)' => q = r
    BY <1>1, <1>4, OneExecutes DEF Executing
  <2>3. \A n \in DOMAIN sessionGate : req'[sessionGate[n]].at \in {"queued", "admitting", "running", "cancelling"}
    BY <2>1, <1>4 DEF IInv, SessionGates, At, Executing
  <2> QED BY <2>2, <2>3, <1>1 DEF Execute, IInv, SessionGates, At, Executing, HoldsSession
<1>12. Flights'
  <2>1. \A d \in Command : inFlight'[d] = IF d = c THEN r ELSE inFlight[d]
    BY <1>1 DEF Execute, IInv, TypeOK
  <2>2. \A d \in Command : inFlight[d] = None
    <3>1. ~Executing(r)
      BY <1>1 DEF At, Executing
    <3> QED BY <3>1, <1>1, OneExecutes DEF IInv, Flights, TypeOK
  <2>3. \A q \in Request : Executing(q)' => q = r
    BY <1>1, <1>4, OneExecutes DEF Executing
  <2>4. \A q \in Request : At(q, "queued")' => inFlight'[Cmd(q)] = None
    <3> SUFFICES ASSUME NEW q \in Request, At(q, "queued")' PROVE inFlight'[Cmd(q)] = None
      OBVIOUS
    <3>1. q # r /\ HoldsKey(q) /\ Cmd(q) \in Command
      BY <1>4 DEF IInv, KeyGates, TypeOK, At
    <3> QED BY <3>1, <2>1, <2>2, <1>6 DEF HoldsKey
  <2> QED BY <2>1, <2>2, <2>3, <2>4, <1>1, <1>4, NoneAssumption DEF Flights, Executing, Cmd, At
<1>13. Ledgers'
  <2>1. c \in Input => ran[c] = 0 \/ c \in adrift
    BY <1>1 DEF IInv, Remembered, Known, Seen, Facts, Durable
  <2>2. UNCHANGED <<live, ledger, held, events, ran, adrift>>
    BY DEF Execute, history
  <2>3. \A q \in Request : At(q, "cancelling")' /\ Cmd(q)' \in Input => Cmd(q)' \in adrift
    BY <1>4 DEF IInv, Ledgers, At
  <2>4. \A q \in Request : At(q, "admitting")' /\ Cmd(q)' \in Input => ran[Cmd(q)'] = 0 \/ Cmd(q)' \in adrift
    BY <2>1, <1>4 DEF IInv, Ledgers, At
  <2> QED BY <2>2, <2>3, <2>4 DEF IInv, Ledgers, Durable
<1>14. Remembered' /\ InputsRunOnce'
  BY IndexKeepsRemembered DEF IInv, InputsRunOnce, Execute, history
<1> QED BY <1>9, <1>10, <1>11, <1>12, <1>13, <1>14 DEF IInv

LEMMA SettleKeeps ==
  ASSUME IInv, NEW r \in Request, Executing(r), NEW pinned \in SUBSET live,
         \A c \in live \ pinned : c \in adrift, Settle(r, pinned), UNCHANGED <<store, history>>
  PROVE  IInv'
<1>1. req' = [req EXCEPT ![r] = Idle] /\ Idle.at = "idle" /\ Idle \in [at : Place, cmd : Command \cup {None}, query : BOOLEAN]
  BY DEF Settle, Idle, Place
<1>2. req' \in [Request -> [at : Place, cmd : Command \cup {None}, query : BOOLEAN]]
      /\ \A q \in Request : req'[q] = IF q = r THEN Idle ELSE req[q]
  BY <1>1 DEF IInv, TypeOK
<1>3. /\ sessionGate \in Seq(Request) /\ sessionGate # <<>> /\ IsInjective(sessionGate) /\ Head(sessionGate) = r
      /\ HoldsSession(r)
  BY DEF IInv, TypeOK, SessionGates, HoldsSession
<1>4. /\ sessionGate' \in Seq(Request) /\ IsInjective(sessionGate')
      /\ \A n \in DOMAIN sessionGate' : /\ n + 1 \in DOMAIN sessionGate
                                        /\ sessionGate'[n] = sessionGate[n + 1] /\ sessionGate'[n] # r
  BY <1>3, TailFacts DEF Settle
<1>5. Cmd(r) \in Command /\ \A d \in Command : inFlight'[d] = IF d = Cmd(r) THEN None ELSE inFlight[d]
  BY DEF Settle, IInv, TypeOK, Executing, At
<1>6. TypeOK'
  <2>1. inFlight' \in [Command -> Request \cup {None}]
    BY DEF Settle, IInv, TypeOK
  <2>2. \A q \in Request : ~At(q, "idle")' => Cmd(q)' \in Command
    BY <1>1, <1>2 DEF IInv, TypeOK, At, Cmd
  <2> QED BY <2>1, <2>2, <1>2, <1>4 DEF Settle, IInv, TypeOK, store, history
<1>7. KeyGates'
  <2>1. \A d \in Command : \A n \in DOMAIN keyGate[d] : keyGate[d][n] \in Request \ {r}
    <3> TAKE d \in Command
    <3> TAKE n \in DOMAIN keyGate[d]
    <3>1. keyGate[d][n] \in Request
      BY InSeq DEF IInv, TypeOK
    <3>2. req[keyGate[d][n]].at \in Waits
      BY DEF IInv, KeyGates
    <3> QED BY <3>1, <3>2 DEF Waits, Executing
  <2>2. \A d \in Command : \A n \in DOMAIN keyGate[d] :
            req'[keyGate[d][n]].at \in Waits /\ req'[keyGate[d][n]].cmd = d
    BY <2>1, <1>2 DEF IInv, KeyGates, Cmd
  <2>3. \A q \in Request : req'[q].at \in {"sharing", "queued"} => q # r /\ HoldsKey(q)
    BY <1>1, <1>2 DEF IInv, KeyGates
  <2> QED BY <2>2, <2>3, <1>2 DEF Settle, IInv, KeyGates, HoldsKey, Cmd
<1>8. \A q \in Request : ~Executing(q)'
  BY <1>1, <1>2, <1>3, OneExecutes DEF Executing
<1>9. SessionGates'
  <2>1. \A n \in DOMAIN sessionGate' : req'[sessionGate'[n]].at \in {"queued", "admitting", "running", "cancelling"}
    <3> TAKE n \in DOMAIN sessionGate'
    <3>1. sessionGate[n + 1] \in Request
      BY <1>3, <1>4, InSeq
    <3> QED BY <3>1, <1>4, <1>2 DEF IInv, SessionGates, At, Executing
  <2> QED BY <2>1, <1>8, <1>4 DEF SessionGates, At, Executing
<1>10. Flights'
  <2>1. \A d \in Command : inFlight'[d] = None
    BY <1>3, <1>5, OneExecutes DEF IInv, Flights, TypeOK
  <2>2. \A q \in Request : At(q, "queued")' => Cmd(q)' \in Command
    BY <1>6 DEF TypeOK, At
  <2> QED BY <2>1, <2>2, <1>8 DEF Flights
<1>11. Ledgers'
  <2>1. \A q \in Request : ~At(q, "cancelling")' /\ ~At(q, "admitting")'
    BY <1>8 DEF Executing, At
  <2>2. live' = pinned /\ UNCHANGED <<ledger, held, events, ran, adrift>>
    BY DEF Settle, store, history
  <2> QED BY <2>1, <2>2 DEF IInv, Ledgers, Durable
<1>12. Remembered' /\ InputsRunOnce'
  BY DEF Settle, store, history, IInv, Remembered, InputsRunOnce, Durable
<1> QED BY <1>6, <1>7, <1>9, <1>10, <1>11, <1>12 DEF IInv

LEMMA SettlesKeep ==
  ASSUME IInv, NEW r \in Request, AdmitFails(r) \/ Succeed(r) \/ Cancelled(r)
  PROVE  IInv'
<1>1. CASE AdmitFails(r) \/ Succeed(r)
  BY <1>1, SettleKeeps DEF AdmitFails, Succeed, At, Executing
<1>2. CASE Cancelled(r)
  <2>1. Cmd(r) \in live => Cmd(r) \in adrift
    BY <1>2 DEF Cancelled, IInv, Ledgers
  <2> QED BY <1>2, <2>1, SettleKeeps DEF Cancelled, At, Executing
<1> QED BY <1>1, <1>2

(* A step within the execution: the gates and the flights stay. *)
LEMMA RunsOn ==
  ASSUME IInv, NEW r \in Request, Executing(r), NEW at \in {"running", "cancelling"}, Go(r, at),
         UNCHANGED <<gates, inFlight>>
  PROVE  /\ req' \in [Request -> [at : Place, cmd : Command \cup {None}, query : BOOLEAN]]
         /\ \A q \in Request : ~At(q, "idle")' => Cmd(q)' \in Command
         /\ \A q \in Request : Cmd(q)' = Cmd(q) /\ req'[q].at = IF q = r THEN at ELSE req[q].at
         /\ KeyGates' /\ SessionGates' /\ Flights'
<1>1. req \in [Request -> [at : Place, cmd : Command \cup {None}, query : BOOLEAN]]
      /\ req' = [req EXCEPT ![r].at = at] /\ at \in Place
  BY DEF IInv, TypeOK, Go, Place
<1>2. \A q \in Request : Cmd(q)' = Cmd(q) /\ req'[q].at = IF q = r THEN at ELSE req[q].at
  BY <1>1 DEF Cmd
<1>3. req' \in [Request -> [at : Place, cmd : Command \cup {None}, query : BOOLEAN]]
  BY <1>1
<1>4. \A q \in Request : Executing(q)' <=> Executing(q)
  BY <1>2 DEF Executing
<1>5. \A q \in Request : /\ req'[q].at \in Waits <=> req[q].at \in Waits
                         /\ req'[q].at \in Waits => req'[q].at = req[q].at
  BY <1>2 DEF Waits, Executing
<1>6. KeyGates'
  <2>1. \A d \in Command : \A n \in DOMAIN keyGate[d] : keyGate[d][n] \in Request
    BY InSeq DEF IInv, TypeOK
  <2>2. \A d \in Command : \A n \in DOMAIN keyGate[d] :
            req'[keyGate[d][n]].at \in Waits /\ req'[keyGate[d][n]].cmd = d
    BY <2>1, <1>2, <1>5 DEF IInv, KeyGates, Cmd
  <2>3. \A q \in Request : req'[q].at \in {"sharing", "queued"} => HoldsKey(q)
    BY <1>5 DEF IInv, KeyGates, Waits
  <2> QED BY <2>2, <2>3, <1>2 DEF gates, IInv, KeyGates, HoldsKey, Cmd
<1>7. SessionGates'
  <2>1. \A n \in DOMAIN sessionGate : sessionGate[n] \in Request
    BY InSeq DEF IInv, TypeOK
  <2>2. \A n \in DOMAIN sessionGate : req'[sessionGate[n]].at \in {"queued", "admitting", "running", "cancelling"}
    BY <2>1, <1>2 DEF IInv, SessionGates, At, Executing
  <2> QED BY <2>2, <1>4 DEF gates, IInv, SessionGates, At, Executing, HoldsSession
<1>8. Flights'
  <2>1. \A d \in Command : inFlight[d] # None => inFlight[d] \in Request
    BY DEF IInv, TypeOK
  <2>2. \A q \in Request : At(q, "queued")' => At(q, "queued")
    BY <1>5 DEF Waits, At
  <2> QED BY <2>1, <2>2, <1>2, <1>4 DEF IInv, Flights, Executing, Cmd, At
<1> QED BY <1>2, <1>3, <1>6, <1>7, <1>8, <1>4 DEF IInv, TypeOK, At, Executing

LEMMA AdmitKeeps ==
  ASSUME IInv, NEW r \in Request, Admit(r)
  PROVE  IInv'
<1> DEFINE c == Cmd(r)
<1>1. /\ At(r, "admitting") /\ Executing(r) /\ Go(r, "running") /\ "running" \in {"running", "cancelling"}
      /\ UNCHANGED <<gates, inFlight>> /\ UNCHANGED <<index, events, adrift>> /\ c \in Command
  BY DEF Admit, At, Executing, IInv, TypeOK
<1>2. /\ req' \in [Request -> [at : Place, cmd : Command \cup {None}, query : BOOLEAN]]
      /\ \A q \in Request : ~At(q, "idle")' => Cmd(q)' \in Command
      /\ \A q \in Request : Cmd(q)' = Cmd(q) /\ req'[q].at = IF q = r THEN "running" ELSE req[q].at
      /\ KeyGates' /\ SessionGates' /\ Flights'
  BY <1>1, RunsOn
<1>3. \A q \in Request : At(q, "admitting")' \/ At(q, "cancelling")' => q # r /\ req'[q].at = req[q].at
  BY <1>2 DEF At
<1>4. \A q \in Request : q # r => ~Executing(q)
  <2>1. HoldsSession(r)
    BY <1>1 DEF IInv, SessionGates
  <2> QED BY <2>1, OneExecutes
<1>5. \A q \in Request : ~At(q, "admitting")' /\ ~At(q, "cancelling")'
  BY <1>3, <1>4 DEF Executing, At
<1>6. CASE c \notin Input
  <2>1. UNCHANGED <<ledger, live, held, ran>>
    BY <1>6 DEF Admit
  <2>2. TypeOK'
    BY <2>1, <1>1, <1>2 DEF IInv, TypeOK, gates
  <2>3. Ledgers'
    BY <2>1, <1>1, <1>5 DEF IInv, Ledgers, Durable
  <2>4. Remembered' /\ InputsRunOnce'
    BY <2>1, <1>1 DEF IInv, Remembered, InputsRunOnce, Durable
  <2> QED BY <2>2, <2>3, <2>4, <1>2 DEF IInv
<1>7. CASE c \in Input
  <2>1. /\ ledger' = [ledger EXCEPT ![c] = "admitted"] /\ live' = live \cup {c} /\ held' = held \cup {c}
        /\ ran' = [ran EXCEPT ![c] = IF @ = 2 THEN 2 ELSE @ + 1]
    BY <1>7 DEF Admit
  <2>2. \A d \in Command : ledger'[d] = IF d = c THEN "admitted" ELSE ledger[d]
    BY <2>1, <1>1 DEF IInv, TypeOK
  <2>3. /\ \A d \in Input : ran'[d] = IF d = c THEN (IF ran[c] = 2 THEN 2 ELSE ran[c] + 1) ELSE ran[d]
        /\ ran[c] \in 0..2
    BY <2>1, <1>7 DEF IInv, TypeOK
  <2>4. ran[c] = 0 \/ c \in adrift
    BY <1>1, <1>7 DEF IInv, Ledgers
  <2>5. TypeOK'
    <3>1. ledger' \in [Command -> {"none", "admitted", "promoted", "ended"}]
      BY <2>1 DEF IInv, TypeOK
    <3>2. (IF ran[c] = 2 THEN 2 ELSE ran[c] + 1) \in 0..2
      BY <2>3
    <3>3. ran' \in [Input -> 0..2]
      BY <2>1, <3>2 DEF IInv, TypeOK
    <3> QED BY <3>1, <3>3, <1>1, <1>2 DEF IInv, TypeOK, gates
  <2>6. c \in events => c \in adrift
    BY <2>4, <1>1 DEF IInv, Ledgers
  <2>7. Ledgers'
    <3>1. \A d \in Command : ledger'[d] # "none" => d \in Input /\ ran'[d] # 0
      BY <2>2, <2>3, <1>7 DEF IInv, Ledgers
    <3>2. \A d \in live' \cup events' \cup held' : d \in Input /\ ledger'[d] # "none"
      BY <2>1, <2>2, <1>1, <1>7, InputAssumption DEF IInv, Ledgers
    <3>3. \A d \in events' : d \in adrift' \/ Durable(d)'
      BY <2>2, <2>6, <1>1, InputAssumption DEF IInv, Ledgers, Durable
    <3> QED BY <3>1, <3>2, <3>3, <1>5 DEF Ledgers
  <2>8. Remembered'
    BY <2>1, <2>2, <2>3, <1>1, InputAssumption DEF IInv, Remembered, Durable
  <2>9. InputsRunOnce'
    BY <2>3, <2>4, <1>1 DEF IInv, InputsRunOnce
  <2> QED BY <2>5, <2>7, <2>8, <2>9, <1>2 DEF IInv
<1> QED BY <1>6, <1>7

(* A row that is ended was admitted; no other changes. *)
LEMMA EndedRows ==
  ASSUME TypeOK, NEW rows, EndRows(rows)
  PROVE  /\ ledger' \in [Command -> {"none", "admitted", "promoted", "ended"}]
         /\ \A c \in Command :
               /\ ledger'[c] = ledger[c] \/ (ledger[c] = "admitted" /\ ledger'[c] = "ended")
               /\ c \in rows => ledger'[c] # "admitted"
<1>1. /\ ledger' = [c \in Command |-> IF c \in rows /\ ledger[c] = "admitted" THEN "ended" ELSE ledger[c]]
      /\ ledger \in [Command -> {"none", "admitted", "promoted", "ended"}]
  BY DEF EndRows, TypeOK
<1> QED BY <1>1

LEMMA ThrowKeeps ==
  ASSUME IInv, NEW r \in Request, Throw(r)
  PROVE  IInv'
<1> DEFINE c == Cmd(r)
<1>1. /\ Executing(r) /\ Go(r, "cancelling") /\ "cancelling" \in {"running", "cancelling"}
      /\ UNCHANGED <<gates, inFlight>> /\ UNCHANGED <<live, index, events, ran>> /\ c \in Command
      /\ adrift' = adrift \cup ({c} \cap Input)
  BY DEF Throw, At, Executing, IInv, TypeOK, memory
<1>2. /\ req' \in [Request -> [at : Place, cmd : Command \cup {None}, query : BOOLEAN]]
      /\ \A q \in Request : ~At(q, "idle")' => Cmd(q)' \in Command
      /\ \A q \in Request : Cmd(q)' = Cmd(q) /\ req'[q].at = IF q = r THEN "cancelling" ELSE req[q].at
      /\ KeyGates' /\ SessionGates' /\ Flights'
  BY <1>1, RunsOn
<1>3. PICK rows : EndRows(rows)
  BY DEF Throw
<1>4. TypeOK'
  BY <1>3, <1>1, <1>2, EndedRows DEF IInv, TypeOK, gates
<1>6. held' \subseteq held
  BY DEF Throw
<1>7. /\ \A d \in Command : ledger'[d] = ledger[d] \/ (ledger[d] = "admitted" /\ ledger'[d] = "ended")
      /\ ledger' \in [Command -> {"none", "admitted", "promoted", "ended"}]
  BY <1>3, EndedRows DEF IInv
<1>5. Ledgers'
  <2>1. \A d \in Command : ledger'[d] # "none" => d \in Input /\ ran'[d] # 0
    BY <1>1, <1>6, <1>7 DEF IInv, Ledgers
  <2>2. \A d \in live' \cup events' \cup held' : d \in Input /\ ledger'[d] # "none"
    BY <1>1, <1>6, <1>7, InputAssumption DEF IInv, Ledgers
  <2>3. \A d \in events' : d \in adrift' \/ Durable(d)'
    BY <1>1, <1>6, <1>7, InputAssumption DEF IInv, Ledgers, Durable
  <2>4. \A q \in Request : At(q, "cancelling")' /\ Cmd(q)' \in Input => Cmd(q)' \in adrift'
    BY <1>1, <1>2 DEF IInv, Ledgers, At
  <2>5. \A q \in Request : At(q, "admitting")' /\ Cmd(q)' \in Input => ran'[Cmd(q)'] = 0 \/ Cmd(q)' \in adrift'
    BY <1>1, <1>2 DEF IInv, Ledgers, At
  <2> QED BY <2>1, <2>2, <2>3, <2>4, <2>5 DEF Ledgers
<1>8. Remembered' /\ InputsRunOnce'
  BY <1>1, <1>6, <1>7, InputAssumption DEF IInv, Remembered, InputsRunOnce, Durable
<1> QED BY <1>2, <1>4, <1>5, <1>8 DEF IInv

-----------------------------------------------------------------------------
(* What happens to inputs and to the process. *)

LEMMA GatesStay ==
  ASSUME IInv, UNCHANGED <<req, gates, inFlight>>
  PROVE  KeyGates' /\ SessionGates' /\ Flights'
BY DEF IInv, KeyGates, SessionGates, Flights, gates, HoldsKey, HoldsSession, Executing, At, Cmd

LEMMA CommitKeeps ==
  ASSUME IInv, NEW c \in Command, NEW fate \in {"promoted", "ended"}, Commit(c, fate)
  PROVE  IInv'
<1>1. /\ c \in held /\ held' = held \ {c} /\ events' = events \cup {c}
      /\ UNCHANGED <<req, gates, inFlight>> /\ UNCHANGED <<live, index, ran, adrift>>
  BY DEF Commit, memory, history
<1>2. KeyGates' /\ SessionGates' /\ Flights'
  BY <1>1, GatesStay
<1>3. c \in Input /\ ledger[c] # "none"
  BY <1>1 DEF IInv, Ledgers
<1>4. /\ ledger' \in [Command -> {"none", "admitted", "promoted", "ended"}]
      /\ \A d \in Command : ledger'[d] = ledger[d] \/ ledger'[d] \in {"promoted", "ended"}
      /\ \A d \in Command : ledger[d] \in {"none", "promoted", "ended"} /\ d # c => ledger'[d] = ledger[d]
      /\ ledger'[c] \in {"promoted", "ended"}
  <2>1. CASE fate = "promoted"
    <3>1. ledger' = [ledger EXCEPT ![c] = "promoted"] /\ ledger \in [Command -> {"none", "admitted", "promoted", "ended"}]
      BY <2>1 DEF Commit, IInv, TypeOK
    <3> QED BY <3>1
  <2>2. CASE fate = "ended"
    <3>1. EndRows({c}) /\ TypeOK /\ ledger[c] \in {"none", "admitted", "promoted", "ended"}
      BY <2>2 DEF Commit, IInv, TypeOK
    <3> QED BY <3>1, <1>3, EndedRows
  <2> QED BY <2>1, <2>2
<1>5. TypeOK'
  BY <1>1, <1>4 DEF IInv, TypeOK, gates, At, Cmd
<1>6. Ledgers'
  BY <1>1, <1>3, <1>4, InputAssumption DEF IInv, Ledgers, Durable, At, Cmd
<1>7. Remembered' /\ InputsRunOnce'
  BY <1>1, <1>4, InputAssumption DEF IInv, Remembered, InputsRunOnce, Durable
<1> QED BY <1>2, <1>5, <1>6, <1>7 DEF IInv

LEMMA QueuedKeeps ==
  ASSUME IInv, NEW c \in Command, Queued(c)
  PROVE  IInv'
<1>1. /\ c \in held /\ live' = live \cup {c}
      /\ UNCHANGED <<req, gates, inFlight>> /\ UNCHANGED <<ledger, index, held, events, ran, adrift>>
  BY DEF Queued, store, history
<1>2. KeyGates' /\ SessionGates' /\ Flights'
  BY <1>1, GatesStay
<1>3. TypeOK' /\ Ledgers'
  BY <1>1 DEF IInv, TypeOK, Ledgers, Durable, gates, At, Cmd
<1>4. Remembered' /\ InputsRunOnce'
  BY <1>1 DEF IInv, Remembered, InputsRunOnce, Durable
<1> QED BY <1>2, <1>3, <1>4 DEF IInv

LEMMA CommittedKeeps ==
  ASSUME IInv, NEW c \in Command, Committed(c)
  PROVE  IInv'
<1>1. c \in events /\ events' = events \ {c} /\ live' = live \ {c} /\ index' = None
      /\ UNCHANGED <<req, gates, inFlight>> /\ UNCHANGED <<ledger, held, ran, adrift>>
  BY DEF Committed, Unpin, history
<1>2. KeyGates' /\ SessionGates' /\ Flights'
  BY <1>1, GatesStay
<1>3. TypeOK'
  BY <1>1 DEF IInv, TypeOK, gates, At, Cmd
<1>4. Ledgers'
  BY <1>1 DEF IInv, Ledgers, Durable, At, Cmd
<1>5. Remembered'
  <2>1. c \in adrift \/ Durable(c)
    BY <1>1 DEF IInv, Ledgers
  <2> QED BY <2>1, <1>1 DEF IInv, Remembered, Durable
<1>6. InputsRunOnce'
  BY <1>1 DEF IInv, InputsRunOnce
<1> QED BY <1>2, <1>3, <1>4, <1>5, <1>6 DEF IInv

(* What a resume leaves admitted is adrift. *)
LEMMA ResumeSweeps ==
  ASSUME TypeOK, Resume
  PROVE  /\ ledger' \in [Command -> {"none", "admitted", "promoted", "ended"}]
         /\ \A c \in Command : ledger'[c] = ledger[c] \/ (ledger[c] = "admitted" /\ ledger'[c] = "ended")
         /\ \A c \in Command : ledger'[c] # "admitted" \/ c \in adrift'
         /\ adrift \subseteq adrift'
<1>1. PICK missed : EndRows(Command \ missed) /\ adrift' = adrift \cup missed
  BY DEF Resume
<1> QED BY <1>1, EndedRows

LEMMA ClearSessionKeeps ==
  ASSUME IInv, ClearSession
  PROVE  IInv'
<1>1. UNCHANGED <<req, gates, inFlight>> /\ UNCHANGED <<live, index, held, events, ran>> /\ Resume /\ TypeOK
  BY DEF ClearSession, IInv
<1>2. KeyGates' /\ SessionGates' /\ Flights'
  BY <1>1, GatesStay DEF IInv
<1>3. /\ ledger' \in [Command -> {"none", "admitted", "promoted", "ended"}]
      /\ \A c \in Command : ledger'[c] = ledger[c] \/ (ledger[c] = "admitted" /\ ledger'[c] = "ended")
      /\ adrift \subseteq adrift'
  BY <1>1, ResumeSweeps
<1>4. TypeOK'
  BY <1>1, <1>3 DEF TypeOK, gates, At, Cmd
<1>5. Ledgers'
  BY <1>1, <1>3, InputAssumption DEF IInv, Ledgers, Durable, At, Cmd
<1>6. Remembered' /\ InputsRunOnce'
  BY <1>1, <1>3, InputAssumption DEF IInv, Remembered, InputsRunOnce, Durable
<1> QED BY <1>2, <1>4, <1>5, <1>6 DEF IInv

LEMMA EmptyGate ==
  <<>> \in Seq(Request) /\ IsInjective(<<>>) /\ DOMAIN <<>> = {}
<1>1. <<>> \in Seq(Request) /\ DOMAIN <<>> = {}
  BY EmptySeq
<1> QED BY <1>1 DEF IsInjective

LEMMA RestartKeeps ==
  ASSUME IInv, Restart
  PROVE  IInv'
<1>1. /\ req' = [r \in Request |-> Idle] /\ Idle.at = "idle"
      /\ Idle \in [at : Place, cmd : Command \cup {None}, query : BOOLEAN]
  BY DEF Restart, Idle, Place
<1>2. \A r \in Request : req'[r].at = "idle"
  BY <1>1
<1>3. /\ ledger' \in [Command -> {"none", "admitted", "promoted", "ended"}]
      /\ \A c \in Command : ledger'[c] = ledger[c] \/ (ledger[c] = "admitted" /\ ledger'[c] = "ended")
      /\ \A c \in Command : ledger'[c] # "admitted" \/ c \in adrift'
      /\ adrift \subseteq adrift'
  BY ResumeSweeps DEF Restart, IInv
<1>4. TypeOK'
  BY <1>1, <1>2, <1>3, EmptyGate DEF Restart, IInv, TypeOK, At
<1>5. KeyGates' /\ SessionGates' /\ Flights'
  BY <1>2, EmptyGate DEF Restart, KeyGates, SessionGates, Flights, Executing, At
<1>6. Ledgers'
  <2>1. UNCHANGED ran /\ live' = {} /\ held' = {} /\ events' = {}
    BY DEF Restart
  <2>2. \A c \in Command : ledger'[c] # "none" => c \in Input /\ ran'[c] # 0
    BY <2>1, <1>3 DEF IInv, Ledgers
  <2> QED BY <2>1, <2>2, <1>2 DEF Ledgers, At
<1>7. Remembered'
  <2> SUFFICES ASSUME NEW c \in Input, ran[c] # 0, c \notin adrift' PROVE Durable(c)' /\ index' = None
    BY DEF Restart, Remembered
  <2>1. c \in Command /\ (c \in live \/ Durable(c))
    BY <1>3, InputAssumption DEF IInv, Remembered
  <2>2. ledger[c] \in {"admitted", "promoted", "ended"}
    BY <2>1 DEF IInv, Ledgers, Durable, TypeOK
  <2> QED BY <2>1, <2>2, <1>3 DEF Restart, Durable
<1>8. InputsRunOnce'
  BY <1>3 DEF Restart, IInv, InputsRunOnce
<1> QED BY <1>4, <1>5, <1>6, <1>7, <1>8 DEF IInv

-----------------------------------------------------------------------------
LEMMA InitHolds == Init => IInv
<1> SUFFICES ASSUME Init PROVE IInv
  OBVIOUS
<1>1. Idle.at = "idle" /\ Idle \in [at : Place, cmd : Command \cup {None}, query : BOOLEAN]
  BY DEF Idle, Place
<1>2. \A r \in Request : req[r].at = "idle"
  BY <1>1 DEF Init
<1>3. TypeOK
  BY <1>1, <1>2, EmptyGate DEF Init, TypeOK, At
<1>4. KeyGates /\ SessionGates /\ Flights
  BY <1>2, EmptyGate DEF Init, KeyGates, SessionGates, Flights, Executing, At
<1>5. Ledgers /\ Remembered /\ InputsRunOnce
  BY <1>2 DEF Init, Ledgers, Remembered, InputsRunOnce, At
<1> QED BY <1>3, <1>4, <1>5 DEF IInv

LEMMA StepKeeps ==
  ASSUME IInv, NEW r \in Request, Step(r)
  PROVE  IInv'
BY ShareKeeps, SharedKeeps, LookUpKeeps, AnswersKeep, ExecuteKeeps, AdmitKeeps, SettlesKeep, ThrowKeeps
   DEF Step

LEMMA NextKeeps == IInv /\ [Next]_vars => IInv'
<1> SUFFICES ASSUME IInv, [Next]_vars PROVE IInv'
  OBVIOUS
<1>1. CASE UNCHANGED vars
  <2>1. UNCHANGED <<req, gates, inFlight>> /\ UNCHANGED <<live, ledger, index, held, events, ran, adrift>>
    BY <1>1 DEF vars, gates
  <2>2. KeyGates' /\ SessionGates' /\ Flights'
    BY <2>1, GatesStay
  <2> QED BY <2>1, <2>2 DEF IInv, TypeOK, Ledgers, Remembered, InputsRunOnce, Durable, gates, At, Cmd
<1>2. CASE \E r \in Request : Step(r)
  BY <1>2, StepKeeps
<1>3. CASE \E r \in Request, c \in Command, query \in BOOLEAN : Deliver(r, c, query)
  BY <1>3, DeliverKeeps
<1>4. CASE \E c \in Command, fate \in {"promoted", "ended"} : Commit(c, fate)
  BY <1>4, CommitKeeps
<1>5. CASE \E c \in Command : Queued(c) \/ Committed(c)
  BY <1>5, QueuedKeeps, CommittedKeeps
<1>6. CASE ClearSession \/ Restart
  BY <1>6, ClearSessionKeeps, RestartKeeps
<1> QED BY <1>1, <1>2, <1>3, <1>4, <1>5, <1>6 DEF Next

LEMMA Invariance == Spec => []IInv
BY InitHolds, NextKeeps, PTL DEF Spec

(***************************************************************************)
(* handle and clearSession: an input is executed once, however often it is *)
(* delivered, whatever the LRU has dropped and over restarts, unless its   *)
(* execution threw or a resume failed to sweep it.                         *)
(***************************************************************************)
THEOREM ExecutedOnce == Spec => []InputsRunOnce
<1>1. IInv => InputsRunOnce
  BY DEF IInv
<1> QED BY <1>1, Invariance, PTL

(* A delivery behind both gates, and the one that executes. *)
AloneBehindTheGates ==
    \A r \in Request :
        /\ At(r, "queued") => HoldsKey(r) /\ inFlight[Cmd(r)] = None
        /\ Executing(r) => \A q \in Request : Executing(q) => q = r

(***************************************************************************)
(* handle, behind the session's gate: a delivery that has waited there     *)
(* never finds its own command in flight, because it has held the gate of  *)
(* the command all the time (the branch afterWaitPinned is never taken),   *)
(* and nobody executes beside the one that holds the session.              *)
(***************************************************************************)
THEOREM OneExecution == Spec => []AloneBehindTheGates
<1>1. IInv => AloneBehindTheGates
  BY OneExecutes DEF IInv, AloneBehindTheGates, KeyGates, SessionGates, Flights, At
<1> QED BY <1>1, Invariance, PTL

LEMMA AnswersFindNoFlight ==
  ASSUME IInv, [Next]_vars, NEW r \in Request, Answered(r)
  PROVE  inFlight'[Cmd(r)] = None
<1>1. At(r, "idle")' /\ ~At(r, "idle") /\ Cmd(r) \in Command /\ req'[r] # req[r]
      /\ req \in [Request -> [at : Place, cmd : Command \cup {None}, query : BOOLEAN]]
  BY DEF Answered, IInv, TypeOK, At
<1>2. CASE UNCHANGED vars
  BY <1>1, <1>2 DEF vars
<1>3. ASSUME NEW q \in Request, Step(q) PROVE inFlight'[Cmd(r)] = None
  <2>1. q = r
    BY <1>1, <1>3 DEF Step, Share, Shared, LookUp, LookUpFails, LookAgain, Refuse, Execute, Admit, AdmitFails,
       Succeed, Throw, Cancelled, Settle, Answer, Go
  <2>2. CASE Share(q) \/ Execute(q) \/ Admit(q) \/ Throw(q)
    BY <1>1, <2>1, <2>2 DEF Share, Execute, Admit, Throw, Go, At
  <2>3. CASE Shared(q) \/ LookUp(q) \/ LookUpFails(q)
    BY <2>1, <2>3 DEF Shared, LookUp, LookUpFails, memory
  <2>4. CASE LookAgain(q) \/ \E remember \in BOOLEAN : Refuse(q, remember)
    BY <2>1, <2>4 DEF LookAgain, Refuse, IInv, Flights
  <2>5. CASE AdmitFails(q) \/ Succeed(q) \/ Cancelled(q)
    BY <1>1, <2>1, <2>5 DEF AdmitFails, Succeed, Cancelled, Settle, IInv, TypeOK
  <2> QED BY <1>3, <2>2, <2>3, <2>4, <2>5 DEF Step
<1>4. ASSUME NEW q \in Request, NEW c \in Command, NEW query \in BOOLEAN, Deliver(q, c, query)
      PROVE  FALSE
  BY <1>1, <1>4 DEF Deliver, At
<1>5. CASE \E c \in Command : Queued(c) \/ Committed(c) \/ \E fate \in {"promoted", "ended"} : Commit(c, fate)
  BY <1>1, <1>5 DEF Queued, Commit, Committed, Unpin
<1>6. CASE ClearSession \/ Restart
  BY <1>1, <1>6 DEF ClearSession, Restart
<1> QED BY <1>2, <1>3, <1>4, <1>5, <1>6 DEF Next

(***************************************************************************)
(* handle and queryOne: no answer goes out while the command it is about   *)
(* is executing.                                                           *)
(***************************************************************************)
THEOREM NoAnswerBeforeItsEnd == Spec => AnswersAreFinal
<1>1. IInv /\ [Next]_vars => [\A r \in Request : Answered(r) => inFlight'[Cmd(r)] = None]_vars
  BY AnswersFindNoFlight
<1> QED BY <1>1, Invariance, PTL DEF Spec, AnswersAreFinal
=============================================================================
