--------------------------- MODULE AskDriverProofs ---------------------------
(***************************************************************************)
(* The asks of one sub-agent, for any number of them, any budgets and any  *)
(* number of lives.  The flags belong to the session and the turns to      *)
(* their asks; what ties the two together is that a turn which may still   *)
(* do something is one of the current ask.                                 *)
(***************************************************************************)
EXTENDS AskDriver, FiltersProofs, FiniteSetTheorems

Id == (1..Fragments) \X Nat
TurnType == [ask : Ask, phase : {"queued", "going", "ending"}]
SessionType == [current : Ask \cup {0}, accepted : BOOLEAN, cancelled : BOOLEAN, used : Nat,
                attempts : Nat, redrive : Ask \cup {None}]
QuestionType == [ask : Ask, id : Id, by : Nat, heard : {"waiting", "refused", "answered"}]
RegistryType == [parked : UNION {[D -> Nat] : D \in SUBSET Id}, retired : Seq(Id)]

AskType ==
    /\ ask \in [Ask -> {"queued", "live", "done"}] /\ left \in [repairs : Nat, nudges : Nat]
    /\ session \in SessionType /\ turns \in Seq(TurnType)
QuestionsType == question \in Seq(QuestionType) /\ registry \in RegistryType /\ minted \in Nat
StoreType ==
    /\ counting \in [Ask -> {"no", "asked", "counted"}] /\ counted \in [Ask -> Nat \cup {None}]
    /\ transcript \in Seq(Ask) /\ boundary \in [Ask -> Nat \cup {None}]
TypeOK == AskType /\ QuestionsType /\ StoreType

(* The asks come one after the other, and the live one is the current one. *)
OneByOne ==
    /\ \A i, j \in Ask : i < j /\ ask[j] # "queued" => ask[i] = "done"
    /\ \A i \in Ask : Live(i) => session.current = i /\ ~session.accepted /\ ~session.cancelled

(* The turns: one of each ask at most, and only the first one has begun. *)
Turned(i) == \E n \in DOMAIN turns : turns[n].ask = i
TurnsInOrder ==
    /\ \A n \in DOMAIN turns : n # 1 => turns[n].phase = "queued"
    /\ \A m, n \in DOMAIN turns : turns[m].ask = turns[n].ask => m = n
    /\ \A n \in DOMAIN turns : /\ counting[turns[n].ask] = "no" /\ ask[turns[n].ask] # "queued"
                               /\ turns[n].phase = "ending" => ask[turns[n].ask] = "done"
    /\ \A n \in DOMAIN turns : turns[n].phase = "ending" /\ turns[n].ask = session.current
                                  => session.accepted \/ session.cancelled

(* What carries an ask: a turn, a count or an alarm, and nothing else with it; a lost one, nothing. *)
Carried ==
    /\ \A i \in Ask : Live(i) => \/ lost # i /\ Turned(i) /\ session.redrive # i
                                 \/ lost # i /\ counting[i] # "no" /\ session.redrive # i
                                 \/ lost # i /\ ~Turned(i) /\ counting[i] = "no" /\ session.redrive = i
                                 \/ lost = i /\ ~Turned(i) /\ counting[i] = "no" /\ session.redrive # i
    /\ \A i \in Ask : counting[i] # "no" => ask[i] # "queued"
    /\ session.redrive # None /\ session.redrive = session.current => session.accepted \/ Live(session.redrive)
    /\ Live(session.redrive) => turns = <<>>

(* The registry and the questions that wait. *)
Parked ==
    /\ \A id \in DOMAIN registry.parked :
          registry.parked[id] \in Waiting /\ question[registry.parked[id]].id = id
    /\ \A q \in Waiting : question[q].id \in DOMAIN registry.parked /\ registry.parked[question[q].id] = q
Listening == \A q \in Waiting : Running({"going"}) /\ First.ask = question[q].ask

(* What the transcript holds and what has been counted of it. *)
Messages ==
    \A n \in DOMAIN transcript : /\ \A i \in Ask : ask[i] # "done" => transcript[n] <= i
                                 /\ session.current # 0 => transcript[n] <= session.current
Counts ==
    \A i \in Ask : counted[i] # None =>
        /\ counting[i] = "counted" /\ counted[i] <= Len(transcript)
        /\ \A n \in DOMAIN transcript : n > counted[i] => transcript[n] # i
Boundaries ==
    /\ \A i \in Ask : boundary[i] # None => ask[i] = "done" /\ boundary[i] <= Len(transcript)
    /\ BoundaryIsOwn

Carriage == OneByOne /\ TurnsInOrder /\ Carried /\ PortsServeTheirAsk
Questions == Parked /\ Listening
Store == Messages /\ Counts /\ Boundaries
IInv == TypeOK /\ Carriage /\ Questions /\ Store

(* As long as the registry remembers every id that has retired. *)
Remembered ==
    /\ \A q \in DOMAIN question : q \notin Waiting => question[q].id \in Range(registry.retired)
    /\ \A id \in DOMAIN registry.parked : id \notin Range(registry.retired)
    /\ \A q \in DOMAIN question : question[q].by \in {0, q}
    /\ Len(registry.retired) + Cardinality(Waiting) <= Len(question) + 1

-----------------------------------------------------------------------------
(* The queue of turns, one longer and one shorter. *)
LEMMA AppendTurn ==
  ASSUME AskType, NEW t \in TurnType
  PROVE  /\ Append(turns, t) \in Seq(TurnType) /\ Append(turns, t) # <<>>
         /\ Len(turns) \in Nat /\ DOMAIN turns = 1..Len(turns)
         /\ DOMAIN Append(turns, t) = 1..(Len(turns) + 1)
         /\ \A n \in DOMAIN turns : Append(turns, t)[n] = turns[n]
         /\ Append(turns, t)[Len(turns) + 1] = t
<1>1. turns \in Seq(TurnType)
  BY DEF AskType
<1> QED BY <1>1, AppendProperties, LenProperties

LEMMA TailTurns ==
  ASSUME AskType, turns # <<>>
  PROVE  /\ Tail(turns) \in Seq(TurnType) /\ 1 \in DOMAIN turns /\ First \in TurnType
         /\ Len(turns) \in Nat \ {0} /\ DOMAIN turns = 1..Len(turns)
         /\ DOMAIN Tail(turns) = 1..(Len(turns) - 1)
         /\ \A n \in DOMAIN Tail(turns) : n + 1 \in DOMAIN turns /\ Tail(turns)[n] = turns[n + 1]
<1>1. turns \in Seq(TurnType)
  BY DEF AskType
<1>2. /\ Tail(turns) \in Seq(TurnType) /\ Len(Tail(turns)) = Len(turns) - 1
      /\ \A n \in 1..Len(Tail(turns)) : Tail(turns)[n] = turns[n + 1]
  BY <1>1, HeadTailProperties
<1>3. Len(turns) \in Nat \ {0} /\ DOMAIN turns = 1..Len(turns) /\ DOMAIN Tail(turns) = 1..Len(Tail(turns))
  BY <1>1, <1>2, LenProperties, EmptySeq
<1>4. First \in TurnType
  BY <1>1, <1>3, ElementOfSeq DEF First
<1> QED BY <1>2, <1>3, <1>4

LEMMA FirstTurn ==
  ASSUME AskType, turns # <<>>, NEW phase \in {"queued", "going", "ending"}
  PROVE  /\ [turns EXCEPT ![1].phase = phase] \in Seq(TurnType)
         /\ DOMAIN [turns EXCEPT ![1].phase = phase] = DOMAIN turns /\ 1 \in DOMAIN turns
         /\ [turns EXCEPT ![1].phase = phase] # <<>>
         /\ \A n \in DOMAIN turns : /\ [turns EXCEPT ![1].phase = phase][n].ask = turns[n].ask
                                    /\ [turns EXCEPT ![1].phase = phase][n].phase
                                          = IF n = 1 THEN phase ELSE turns[n].phase
<1> DEFINE t == [First EXCEPT !.phase = phase]
           s == [turns EXCEPT ![1] = t]
<1>0. [turns EXCEPT ![1].phase = phase] = s
  BY DEF First
<1>1. turns \in Seq(TurnType) /\ 1 \in 1..Len(turns) /\ DOMAIN turns = 1..Len(turns) /\ First \in TurnType
  BY TailTurns DEF AskType
<1>2. t \in TurnType /\ t.ask = First.ask /\ t.phase = phase
  BY <1>1 DEF TurnType
<1> HIDE DEF t
<1>3. /\ s \in Seq(TurnType) /\ Len(s) = Len(turns)
      /\ \A n \in 1..Len(turns) : s[n] = IF n = 1 THEN t ELSE turns[n]
  BY <1>1, <1>2, ExceptSeq
<1>4. DOMAIN s = DOMAIN turns /\ s # <<>>
  BY <1>1, <1>3, LenProperties, EmptySeq
<1> QED BY <1>0, <1>1, <1>2, <1>3, <1>4 DEF First

(***************************************************************************)
(* Cancelling the current ask leaves of the queue at most the turn that is *)
(* running, and that one is ending.                                        *)
(***************************************************************************)
LEMMA AbortFacts ==
  ASSUME AskType, TurnsInOrder, PortsServeTheirAsk, NEW i \in Ask, session.current = i
  PROVE  /\ Abort(i) \in Seq(TurnType)
         /\ \A n \in DOMAIN Abort(i) : /\ n = 1 /\ turns # <<>> /\ Abort(i)[n].phase = "ending"
                                       /\ Abort(i)[n].ask = First.ask
<1> DEFINE stay == {t \in Range(turns) : ~(t.ask = i /\ t.phase = "queued")}
           kept == Keep(turns, stay)
           s == [n \in DOMAIN kept |-> IF kept[n].ask = i THEN [kept[n] EXCEPT !.phase = "ending"] ELSE kept[n]]
<1>0. Abort(i) = s
  BY DEF Abort
<1>1. turns \in Seq(TurnType) /\ Len(turns) \in Nat /\ DOMAIN turns = 1..Len(turns)
      /\ \A n \in DOMAIN turns : turns[n] \in TurnType
  BY LenProperties, ElementOfSeq DEF AskType
<1>2. IsInjective(turns)
  BY DEF IsInjective, TurnsInOrder
<1>3. kept \in Seq(TurnType) /\ Range(kept) = Range(turns) \cap stay /\ IsInjective(kept)
  BY <1>1, <1>2, KeepRange
<1>4. Len(kept) \in Nat /\ DOMAIN kept = 1..Len(kept) /\ \A n \in DOMAIN kept : kept[n] \in TurnType
  BY <1>3, LenProperties, ElementOfSeq
<1>5. \A t \in Range(turns) \cap stay : turns # <<>> /\ t = First
  <2> SUFFICES ASSUME NEW n \in DOMAIN turns, turns[n] \in stay PROVE turns # <<>> /\ turns[n] = First
    BY DEF Range
  <2>1. turns[n].phase # "queued"
    BY DEF PortsServeTheirAsk
  <2> QED BY <1>1, <2>1, EmptySeq DEF TurnsInOrder, First
<1>6. \A n \in DOMAIN kept : turns # <<>> /\ kept[n] = First /\ kept[n] \in stay
  <2> SUFFICES ASSUME NEW n \in DOMAIN kept PROVE turns # <<>> /\ kept[n] = First /\ kept[n] \in stay
    OBVIOUS
  <2>1. kept[n] \in Range(turns) \cap stay
    BY <1>3 DEF Range
  <2> HIDE DEF stay, kept
  <2> QED BY <2>1, <1>5
<1>7. \A n \in DOMAIN kept : n = 1
  BY <1>3, <1>4, <1>6 DEF IsInjective
<1>8. \A n \in DOMAIN kept : kept[n].ask # i => kept[n].phase = "ending"
  <2> SUFFICES ASSUME NEW n \in DOMAIN kept, kept[n].ask # i PROVE kept[n].phase = "ending"
    OBVIOUS
  <2>1. turns # <<>> /\ kept[n] = turns[1]
    BY <1>6 DEF First
  <2> QED BY <1>1, <2>1, TailTurns DEF PortsServeTheirAsk
<1>9. \A n \in DOMAIN kept : s[n] \in TurnType /\ s[n].phase = "ending" /\ s[n].ask = kept[n].ask
  BY <1>4, <1>8 DEF TurnType
<1> HIDE DEF kept
<1>10. s \in [1..Len(kept) -> TurnType] /\ DOMAIN s = DOMAIN kept
  BY <1>4, <1>9
<1> HIDE DEF s
<1>11. s \in Seq(TurnType)
  BY <1>4, <1>10, SameLength
<1> QED BY <1>0, <1>6, <1>7, <1>9, <1>10, <1>11

-----------------------------------------------------------------------------
(* The questions. *)
LEMMA QuestionFacts ==
  ASSUME QuestionsType
  PROVE  /\ Len(question) \in Nat /\ DOMAIN question = 1..Len(question)
         /\ \A q \in DOMAIN question : question[q] \in QuestionType
         /\ Waiting \subseteq DOMAIN question /\ IsFiniteSet(Waiting) /\ Cardinality(Waiting) \in Nat
         /\ registry.retired \in Seq(Id) /\ Len(registry.retired) \in Nat
         /\ DOMAIN registry.parked \subseteq Id
         /\ registry = [parked |-> registry.parked, retired |-> registry.retired]
<1>1. /\ Len(question) \in Nat /\ DOMAIN question = 1..Len(question)
      /\ \A q \in DOMAIN question : question[q] \in QuestionType
  BY LenProperties, ElementOfSeq DEF QuestionsType
<1>2. Waiting \in SUBSET (1..Len(question))
  BY <1>1 DEF Waiting
<1>3. IsFiniteSet(Waiting) /\ Cardinality(Waiting) \in Nat
  <2>1. 1 \in Int /\ Len(question) \in Int
    BY <1>1
  <2>2. IsFiniteSet(1..Len(question))
    BY <2>1, FS_Interval
  <2>3. IsFiniteSet(Waiting)
    BY <1>2, <2>2, FS_Subset
  <2> QED BY <2>3, FS_CardinalityType
<1>4. registry.retired \in Seq(Id) /\ registry.parked \in UNION {[D -> Nat] : D \in SUBSET Id}
      /\ registry = [parked |-> registry.parked, retired |-> registry.retired]
  BY DEF QuestionsType, RegistryType
<1> QED BY <1>1, <1>2, <1>3, <1>4, LenProperties

(* The ids of the questions that wait, each once. *)
LEMMA IdsOfFacts ==
  ASSUME QuestionsType
  PROVE  /\ IdsOf(Waiting) \in Seq(Id) /\ Len(IdsOf(Waiting)) = Cardinality(Waiting)
         /\ Range(IdsOf(Waiting)) = {question[q].id : q \in Waiting}
<1> DEFINE all == [q \in DOMAIN question |-> q]
           asked == Keep(all, Waiting)
           ids == [n \in DOMAIN asked |-> question[asked[n]].id]
<1>0. IdsOf(Waiting) = ids
  BY DEF IdsOf
<1>1. Len(question) \in Nat /\ DOMAIN question = 1..Len(question)
  BY QuestionFacts
<1>2. all \in [1..Len(question) -> Nat] /\ DOMAIN all = 1..Len(question)
  BY <1>1
<1>3. all \in Seq(Nat) /\ Range(all) = DOMAIN question /\ IsInjective(all)
  <2>1. all \in Seq(Nat)
    BY <1>1, <1>2, SameLength
  <2> QED BY <2>1 DEF Range, IsInjective
<1> HIDE DEF all
<1>4. asked \in Seq(Nat) /\ Range(asked) = Range(all) \cap Waiting /\ IsInjective(asked)
  BY <1>3, KeepRange
<1>5. Range(asked) = Waiting
  BY <1>3, <1>4, QuestionFacts
<1> HIDE DEF asked
<1>6. Len(asked) \in Nat /\ DOMAIN asked = 1..Len(asked)
  BY <1>4, LenProperties
<1>7. \A n \in 1..Len(asked) : asked[n] \in Waiting
  BY <1>5, <1>6 DEF Range
<1>8. asked \in Bijection(1..Len(asked), Waiting)
  <2>1. asked \in [1..Len(asked) -> Waiting]
    BY <1>4, <1>6, <1>7, LenProperties
  <2>2. asked \in Injection(1..Len(asked), Waiting)
    BY <1>4, <1>6, <2>1 DEF Injection, IsInjective
  <2>3. asked \in Surjection(1..Len(asked), Waiting)
    BY <1>5, <1>6, <2>1 DEF Surjection, Range
  <2> QED BY <2>2, <2>3 DEF Bijection
<1>9. Cardinality(Waiting) = Len(asked)
  <2>1. ExistsBijection(1..Len(asked), Waiting)
    BY <1>8 DEF ExistsBijection
  <2>2. 1 \in Int /\ Len(asked) \in Int
    BY <1>6
  <2>3. IsFiniteSet(1..Len(asked)) /\ Cardinality(1..Len(asked)) = IF 1 > Len(asked) THEN 0 ELSE Len(asked) - 1 + 1
    BY <2>2, FS_Interval
  <2>4. Cardinality(1..Len(asked)) = Len(asked)
    BY <1>6, <2>3
  <2> QED BY <2>1, <2>3, <2>4, FS_Bijection
<1>10. ids \in [1..Len(asked) -> Id]
  <2> SUFFICES ASSUME NEW n \in 1..Len(asked) PROVE question[asked[n]].id \in Id
    BY <1>6
  <2> QED BY <1>7, QuestionFacts DEF QuestionType
<1>11. Range(ids) = {question[q].id : q \in Waiting}
  <2>1. Range(ids) = {question[asked[n]].id : n \in DOMAIN asked}
    BY DEF Range
  <2> QED BY <2>1, <1>5 DEF Range
<1> HIDE DEF ids
<1>12. ids \in Seq(Id) /\ Len(ids) = Len(asked)
  BY <1>6, <1>10, SameLength
<1> QED BY <1>0, <1>9, <1>11, <1>12

(* Retired ids leave the registry, and are remembered while there is room. *)
LEMMA RetireFacts ==
  ASSUME NEW reg \in RegistryType, NEW ids \in Seq(Id)
  PROVE  /\ Retire(reg, ids) \in RegistryType
         /\ DOMAIN Retire(reg, ids).parked = DOMAIN reg.parked \ Range(ids)
         /\ \A id \in DOMAIN Retire(reg, ids).parked : Retire(reg, ids).parked[id] = reg.parked[id]
         /\ Len(reg.retired) + Len(ids) <= RetiredLimit =>
              /\ Len(Retire(reg, ids).retired) = Len(reg.retired) + Len(ids)
              /\ Range(Retire(reg, ids).retired) = Range(reg.retired) \cup Range(ids)
<1> DEFINE all == reg.retired \o ids
           last == IF Len(all) > RetiredLimit THEN SubSeq(all, Len(all) - RetiredLimit + 1, Len(all)) ELSE all
           parked == [id \in DOMAIN reg.parked \ Range(ids) |-> reg.parked[id]]
<1>1. /\ reg.retired \in Seq(Id) /\ reg.parked \in UNION {[D -> Nat] : D \in SUBSET Id}
      /\ Len(reg.retired) \in Nat /\ Len(ids) \in Nat
  BY LenProperties DEF RegistryType
<1>2. /\ all \in Seq(Id) /\ Len(all) = Len(reg.retired) + Len(ids)
      /\ Range(all) = Range(reg.retired) \cup Range(ids)
  BY <1>1, ConcatProperties, ConcatRange
<1>3. RetiredLimit \in Nat \ {0} /\ Len(all) \in Nat
  BY <1>1, <1>2, LimitAssumption
<1>4. Retire(reg, ids) = [parked |-> parked, retired |-> last]
  BY DEF Retire
<1> HIDE DEF all
<1>5. last \in Seq(Id)
  <2>1. CASE Len(all) > RetiredLimit
    <3>1. Len(all) - RetiredLimit + 1 \in Int /\ \A n \in (Len(all) - RetiredLimit + 1)..Len(all) : all[n] \in Id
      BY <2>1, <1>2, <1>3, ElementOfSeq
    <3>2. SubSeq(all, Len(all) - RetiredLimit + 1, Len(all)) \in Seq(Id)
      BY <3>1, <1>3, SubSeqProperties
    <3> QED BY <2>1, <3>2
  <2>2. CASE ~(Len(all) > RetiredLimit)
    BY <2>2, <1>2
  <2> QED BY <2>1, <2>2
<1>6. parked \in UNION {[D -> Nat] : D \in SUBSET Id} /\ DOMAIN parked = DOMAIN reg.parked \ Range(ids)
      /\ \A id \in DOMAIN parked : parked[id] = reg.parked[id]
  <2>1. PICK D \in SUBSET Id : reg.parked \in [D -> Nat]
    BY <1>1
  <2>2. D \ Range(ids) \in SUBSET Id /\ parked \in [D \ Range(ids) -> Nat]
    BY <2>1
  <2> QED BY <2>1, <2>2
<1>7. Len(all) <= RetiredLimit => last = all
  BY <1>3
<1> HIDE DEF parked, last
<1>8. Retire(reg, ids).parked = parked /\ Retire(reg, ids).retired = last
  BY <1>4
<1>9. Retire(reg, ids) \in RegistryType
  <2> DEFINE P == UNION {[D -> Nat] : D \in SUBSET Id}
             R == Seq(Id)
  <2>1. parked \in P /\ last \in R
    BY <1>5, <1>6
  <2> HIDE DEF P, R
  <2>2. Retire(reg, ids) \in [parked : P, retired : R]
    BY <1>4, <2>1
  <2> QED BY <2>2 DEF P, R, RegistryType
<1> QED BY <1>2, <1>6, <1>7, <1>8, <1>9

LEMMA RetireOne ==
  ASSUME NEW reg \in RegistryType, NEW id \in Id
  PROVE  /\ Retire(reg, <<id>>) \in RegistryType
         /\ DOMAIN Retire(reg, <<id>>).parked = DOMAIN reg.parked \ {id}
         /\ \A x \in DOMAIN Retire(reg, <<id>>).parked : Retire(reg, <<id>>).parked[x] = reg.parked[x]
         /\ Len(reg.retired) + 1 <= RetiredLimit =>
              /\ Len(Retire(reg, <<id>>).retired) = Len(reg.retired) + 1
              /\ Range(Retire(reg, <<id>>).retired) = Range(reg.retired) \cup {id}
<1> DEFINE ids == <<id>>
<1>1. ids \in Seq(Id) /\ Range(ids) = {id} /\ Len(ids) = 1
  BY DEF Range
<1> HIDE DEF ids
<1>2. /\ Retire(reg, ids) \in RegistryType
      /\ DOMAIN Retire(reg, ids).parked = DOMAIN reg.parked \ Range(ids)
      /\ \A x \in DOMAIN Retire(reg, ids).parked : Retire(reg, ids).parked[x] = reg.parked[x]
      /\ Len(reg.retired) + Len(ids) <= RetiredLimit =>
           /\ Len(Retire(reg, ids).retired) = Len(reg.retired) + Len(ids)
           /\ Range(Retire(reg, ids).retired) = Range(reg.retired) \cup Range(ids)
  BY <1>1, RetireFacts
<1> QED BY <1>1, <1>2 DEF ids

(***************************************************************************)
(* withdraw: nobody waits any more and nobody is parked; the ids that were *)
(* waited for have retired.                                                *)
(***************************************************************************)
LEMMA WithdrawKeeps ==
  ASSUME QuestionsType, Parked, Withdraw, minted' = minted
  PROVE  QuestionsType' /\ Questions' /\ Waiting' = {} /\ Len(question') = Len(question)
<1>1. DOMAIN question' = 1..Len(question) /\ Len(question) \in Nat
      /\ \A q \in DOMAIN question' : /\ question'[q] \in QuestionType /\ question'[q].heard # "waiting"
                                     /\ question'[q].id = question[q].id
  BY QuestionFacts DEF Withdraw, Waiting, QuestionType
<1>2. question' \in Seq(QuestionType) /\ Len(question') = Len(question)
  <2>1. question' \in [1..Len(question) -> QuestionType]
    BY <1>1 DEF Withdraw
  <2> QED BY <1>1, <2>1, SameLength
<1>3. Waiting' = {}
  BY <1>1 DEF Waiting
<1>4. registry' \in RegistryType /\ DOMAIN registry'.parked = DOMAIN registry.parked \ Range(IdsOf(Waiting))
  BY IdsOfFacts, RetireFacts DEF Withdraw, QuestionsType
<1>5. DOMAIN registry'.parked = {}
  BY <1>4, IdsOfFacts DEF Parked
<1> QED BY <1>2, <1>3, <1>4, <1>5 DEF QuestionsType, Questions, Parked, Listening

(* The room the registry has is enough for every question of the run. *)
RoomForAll == MaxQuestions < RetiredLimit

LEMMA WithdrawRemembers ==
  ASSUME QuestionsType, Parked, Withdraw, minted' = minted, Remembered, Len(question) <= MaxQuestions, RoomForAll
  PROVE  Remembered'
<1>1. Waiting' = {} /\ Len(question') = Len(question) /\ QuestionsType'
  BY WithdrawKeeps
<1>2. /\ MaxQuestions \in Nat /\ RetiredLimit \in Nat /\ Len(question) \in Nat
      /\ Len(registry.retired) \in Nat /\ Cardinality(Waiting) \in Nat
      /\ Len(registry.retired) + Cardinality(Waiting) <= Len(question) + 1
  BY BudgetAssumption, LimitAssumption, QuestionFacts DEF Remembered
<1>3. Len(registry.retired) + Len(IdsOf(Waiting)) <= RetiredLimit
  BY <1>2, IdsOfFacts DEF RoomForAll
<1>4. /\ Len(registry'.retired) = Len(registry.retired) + Cardinality(Waiting)
      /\ Range(registry'.retired) = Range(registry.retired) \cup {question[q].id : q \in Waiting}
      /\ DOMAIN registry'.parked = DOMAIN registry.parked \ {question[q].id : q \in Waiting}
  BY <1>3, IdsOfFacts, RetireFacts DEF Withdraw, QuestionsType
<1>5. \A q \in DOMAIN question' : /\ q \in DOMAIN question /\ question'[q].id = question[q].id
                                  /\ question'[q].by = question[q].by
  BY QuestionFacts DEF Withdraw, QuestionType
<1>6. \A q \in DOMAIN question' : question'[q].id \in Range(registry'.retired) /\ question'[q].by \in {0, q}
  <2> SUFFICES ASSUME NEW q \in DOMAIN question
               PROVE  question[q].id \in Range(registry'.retired) /\ question[q].by \in {0, q}
    BY <1>5
  <2> QED BY <1>4 DEF Remembered
<1>7. \A id \in DOMAIN registry'.parked : id \notin Range(registry'.retired)
  BY <1>4 DEF Remembered
<1>8. Len(registry'.retired) + Cardinality(Waiting') <= Len(question') + 1
  BY <1>1, <1>2, <1>4, FS_EmptySet
<1> QED BY <1>6, <1>7, <1>8 DEF Remembered

(* mintEscalationQuestionId: the first candidate that is free, if there is one. *)
LEMMA ShortestFacts ==
  ASSUME QuestionsType, Free # {}
  PROVE  Shortest \in Id /\ ~IsTaken(Shortest)
<1> DEFINE T == {id[1] : id \in Free}
<1>1. \A id \in Free : id[1] \in Nat /\ id \in Id /\ ~IsTaken(id)
  BY LimitAssumption DEF Free, Candidates, Id, QuestionsType
<1>2. T # {} /\ T \in SUBSET Nat
  BY <1>1
<1> HIDE DEF T
<1>3. PICK f \in T : \A m \in T : f <= m
  BY <1>2, LeastNat
<1>4. \E id \in Free : \A other \in Free : id[1] <= other[1]
  BY <1>3 DEF T
<1>5. Shortest \in Free
  BY <1>4 DEF Shortest
<1> QED BY <1>1, <1>5

(* The question that escalate adds, and the registry with its id. *)
Asked(id, journalled) ==
    [ask |-> session.current, id |-> id, by |-> 0, heard |-> IF journalled THEN "waiting" ELSE "refused"]
WithId(id) == [registry EXCEPT !.parked = [x \in DOMAIN @ \cup {id} |-> IF x = id THEN Len(question) + 1 ELSE @[x]]]

LEMMA WithIdFacts ==
  ASSUME QuestionsType, NEW id \in Id
  PROVE  /\ WithId(id) \in RegistryType /\ WithId(id).retired = registry.retired
         /\ DOMAIN WithId(id).parked = DOMAIN registry.parked \cup {id}
         /\ WithId(id).parked[id] = Len(question) + 1
         /\ \A x \in DOMAIN registry.parked : x # id => WithId(id).parked[x] = registry.parked[x]
<1> DEFINE f == [x \in DOMAIN registry.parked \cup {id} |->
                    IF x = id THEN Len(question) + 1 ELSE registry.parked[x]]
           P == UNION {[D -> Nat] : D \in SUBSET Id}
           R == Seq(Id)
<1>1. registry \in [parked : P, retired : R]
  BY DEF QuestionsType, RegistryType
<1>2. PICK D \in SUBSET Id : registry.parked \in [D -> Nat]
  BY <1>1
<1>3. f \in [D \cup {id} -> Nat] /\ D \cup {id} \in SUBSET Id
  BY <1>2, QuestionFacts
<1>4. f \in P
  BY <1>3
<1>5. WithId(id) = [registry EXCEPT !.parked = f]
  BY DEF WithId
<1> HIDE DEF P, R
<1>6. WithId(id) \in [parked : P, retired : R] /\ WithId(id).parked = f /\ WithId(id).retired = registry.retired
  BY <1>1, <1>4, <1>5
<1> QED BY <1>6 DEF P, R, RegistryType

LEMMA ParkKeeps ==
  ASSUME QuestionsType, Parked, session.current \in Ask, NEW id \in Id, ~IsTaken(id),
         NEW journalled \in BOOLEAN, Park(id, journalled), minted' \in Nat
  PROVE  /\ QuestionsType' /\ Parked'
         /\ \A q \in Waiting' : (q \in Waiting /\ question'[q] = question[q]) \/ question'[q].ask = session.current
         /\ Len(question') = Len(question) + 1
         /\ Waiting' = Waiting \cup (IF journalled THEN {Len(question) + 1} ELSE {})
         /\ question'[Len(question) + 1] = Asked(id, journalled)
         /\ \A q \in DOMAIN question : question'[q] = question[q]
         /\ DOMAIN registry'.parked = DOMAIN registry.parked \cup (IF journalled THEN {id} ELSE {})
         /\ registry' = IF journalled THEN WithId(id) ELSE Retire(WithId(id), <<id>>)
<1> DEFINE new == Asked(id, journalled)
<1>1. question' = Append(question, new) /\ registry' = IF journalled THEN WithId(id) ELSE Retire(WithId(id), <<id>>)
  BY DEF Park, Asked, WithId
<1>2. new \in QuestionType
  BY DEF Asked, QuestionType
<1>3. /\ question' \in Seq(QuestionType) /\ Len(question') = Len(question) + 1
      /\ \A q \in 1..Len(question) : question'[q] = question[q]
      /\ question'[Len(question) + 1] = new
  BY <1>1, <1>2, AppendProperties DEF QuestionsType
<1>4. Len(question) \in Nat /\ DOMAIN question = 1..Len(question) /\ DOMAIN question' = 1..(Len(question) + 1)
  BY <1>3, LenProperties DEF QuestionsType
<1>5. Waiting' = Waiting \cup (IF journalled THEN {Len(question) + 1} ELSE {})
  BY <1>3, <1>4 DEF Waiting, Asked
<1>7. /\ registry' \in RegistryType
      /\ DOMAIN registry'.parked = DOMAIN registry.parked \cup (IF journalled THEN {id} ELSE {})
      /\ \A x \in DOMAIN registry.parked : registry'.parked[x] = registry.parked[x]
      /\ journalled => registry'.parked[id] = Len(question) + 1
  <2>1. id \notin DOMAIN registry.parked
    BY DEF IsTaken
  <2>2. CASE journalled
    BY <1>1, <2>1, <2>2, WithIdFacts
  <2>3. CASE ~journalled
    <3>1. DOMAIN registry'.parked = DOMAIN WithId(id).parked \ {id} /\ registry' \in RegistryType
          /\ \A x \in DOMAIN registry'.parked : registry'.parked[x] = WithId(id).parked[x]
      BY <1>1, <2>3, WithIdFacts, RetireOne
    <3>2. DOMAIN registry'.parked = DOMAIN registry.parked
      BY <3>1, <2>1, WithIdFacts
    <3> QED BY <2>1, <2>3, <3>1, <3>2, WithIdFacts
  <2> QED BY <2>2, <2>3
<1>8. Parked'
  <2>1. ASSUME NEW x \in DOMAIN registry'.parked
        PROVE  registry'.parked[x] \in Waiting' /\ question'[registry'.parked[x]].id = x
    <3>1. CASE x \in DOMAIN registry.parked
      BY <3>1, <1>3, <1>4, <1>5, <1>7 DEF Parked, Waiting
    <3>2. CASE journalled /\ x = id
      BY <3>2, <1>3, <1>5, <1>7 DEF Asked
    <3> QED BY <2>1, <3>1, <3>2, <1>7
  <2>2. ASSUME NEW q \in Waiting'
        PROVE  question'[q].id \in DOMAIN registry'.parked /\ registry'.parked[question'[q].id] = q
    <3>1. CASE q \in Waiting
      BY <3>1, <1>3, <1>4, <1>7 DEF Parked, Waiting
    <3>2. CASE journalled /\ q = Len(question) + 1
      BY <3>2, <1>3, <1>7 DEF Asked
    <3> QED BY <2>2, <3>1, <3>2, <1>5
  <2> QED BY <2>1, <2>2 DEF Parked
<1>9. \A q \in Waiting' : (q \in Waiting /\ question'[q] = question[q]) \/ question'[q].ask = session.current
  BY <1>3, <1>4, <1>5 DEF Asked, Waiting
<1> QED BY <1>1, <1>3, <1>4, <1>5, <1>7, <1>8, <1>9 DEF QuestionsType

LEMMA ParkRemembers ==
  ASSUME QuestionsType, Parked, Remembered, RoomForAll, session.current \in Ask, NEW id \in Id, ~IsTaken(id),
         NEW journalled \in BOOLEAN, Park(id, journalled), minted' \in Nat, Len(question) < MaxQuestions
  PROVE  Remembered'
<1>1. /\ Len(question') = Len(question) + 1
      /\ Waiting' = Waiting \cup (IF journalled THEN {Len(question) + 1} ELSE {})
      /\ question'[Len(question) + 1] = Asked(id, journalled)
      /\ \A q \in DOMAIN question : question'[q] = question[q]
      /\ DOMAIN registry'.parked = DOMAIN registry.parked \cup (IF journalled THEN {id} ELSE {})
      /\ registry' = IF journalled THEN WithId(id) ELSE Retire(WithId(id), <<id>>)
      /\ QuestionsType'
  BY ParkKeeps
<1>2. /\ Len(question) \in Nat /\ DOMAIN question = 1..Len(question) /\ DOMAIN question' = 1..(Len(question) + 1)
      /\ Waiting \subseteq DOMAIN question /\ IsFiniteSet(Waiting) /\ Cardinality(Waiting) \in Nat
      /\ Len(registry.retired) \in Nat
      /\ Len(registry.retired) + Cardinality(Waiting) <= Len(question) + 1
      /\ MaxQuestions \in Nat /\ RetiredLimit \in Nat
  BY <1>1, QuestionFacts, LenProperties, BudgetAssumption, LimitAssumption DEF QuestionsType, Remembered
<1>4. CASE journalled
  <2>1. registry'.retired = registry.retired /\ Waiting' = Waiting \cup {Len(question) + 1}
    BY <1>1, <1>4, WithIdFacts
  <2>2. Cardinality(Waiting') = Cardinality(Waiting) + 1
    <3>1. Len(question) + 1 \notin Waiting
      BY <1>2
    <3> QED BY <2>1, <3>1, <1>2, FS_AddElement
  <2>3. \A q \in DOMAIN question' : q \notin Waiting' => q \in DOMAIN question /\ q \notin Waiting
    BY <1>2, <2>1
  <2>4. \A q \in DOMAIN question' : /\ q \notin Waiting' => question'[q].id \in Range(registry'.retired)
                                    /\ question'[q].by \in {0, q}
    BY <1>1, <1>2, <2>1, <2>3 DEF Remembered, Asked
  <2>5. \A x \in DOMAIN registry'.parked : x \notin Range(registry'.retired)
    BY <1>1, <1>4, <2>1 DEF Remembered, IsTaken
  <2>6. Len(registry'.retired) + Cardinality(Waiting') <= Len(question') + 1
    BY <1>1, <1>2, <2>1, <2>2
  <2> QED BY <2>4, <2>5, <2>6 DEF Remembered
<1>5. CASE ~journalled
  <2>1. registry' = Retire(WithId(id), <<id>>) /\ Waiting' = Waiting
    BY <1>1, <1>5
  <2>2. WithId(id) \in RegistryType /\ WithId(id).retired = registry.retired
        /\ Len(registry.retired) + 1 <= RetiredLimit
    BY <1>2, WithIdFacts DEF RoomForAll
  <2>3. /\ Len(registry'.retired) = Len(registry.retired) + 1
        /\ Range(registry'.retired) = Range(registry.retired) \cup {id}
    BY <2>1, <2>2, RetireOne
  <2>4. ASSUME NEW q \in DOMAIN question'
        PROVE  /\ q \notin Waiting' => question'[q].id \in Range(registry'.retired)
               /\ question'[q].by \in {0, q}
    <3>1. CASE q \in DOMAIN question
      BY <3>1, <1>1, <2>1, <2>3 DEF Remembered
    <3>2. CASE q = Len(question) + 1
      BY <3>2, <1>1, <2>3 DEF Asked
    <3> QED BY <3>1, <3>2, <1>2
  <2>5. \A x \in DOMAIN registry'.parked : x \notin Range(registry'.retired)
    BY <1>1, <1>5, <2>3 DEF Remembered, IsTaken
  <2>6. Len(registry'.retired) + Cardinality(Waiting') <= Len(question') + 1
    <3>1. Cardinality(Waiting') = Cardinality(Waiting) /\ Len(question') = Len(question) + 1
      BY <1>1, <2>1
    <3> QED BY <3>1, <1>2, <2>3
  <2> QED BY <2>4, <2>5, <2>6 DEF Remembered
<1> QED BY <1>4, <1>5

(* resolve: the answer ends the wait of exactly one question. *)
LEMMA AnswerFacts ==
  ASSUME QuestionsType, Parked, NEW q \in DOMAIN question, Answer(q),
         NEW p, p = registry.parked[question[q].id]
  PROVE  /\ p \in Waiting /\ question[p].id = question[q].id /\ Waiting' = Waiting \ {p}
         /\ question' \in Seq(QuestionType) /\ Len(question') = Len(question)
         /\ \A x \in DOMAIN question : question'[x].ask = question[x].ask /\ question'[x].id = question[x].id
         /\ \A x \in DOMAIN question : question'[x].by = IF x = p THEN q ELSE question[x].by
         /\ registry' = Retire(registry, <<question[q].id>>)
<1>1. /\ p \in Waiting /\ question[p].id = question[q].id
      /\ question' = [question EXCEPT ![p] = [question[p] EXCEPT !.heard = "answered", !.by = q]]
      /\ registry' = Retire(registry, <<question[q].id>>)
  BY DEF Answer, Parked
<1>2. /\ Len(question) \in Nat /\ DOMAIN question = 1..Len(question) /\ p \in 1..Len(question)
      /\ question[p] \in QuestionType /\ q \in Nat
  BY <1>1, QuestionFacts
<1> DEFINE new == [question[p] EXCEPT !.heard = "answered", !.by = q]
<1>3. /\ new \in QuestionType /\ new.ask = question[p].ask /\ new.id = question[p].id
      /\ new.by = q /\ new.heard = "answered"
  BY <1>2 DEF QuestionType
<1>4. question' = [question EXCEPT ![p] = new]
  BY <1>1
<1> HIDE DEF new
<1>5. /\ question' \in Seq(QuestionType) /\ Len(question') = Len(question)
      /\ \A x \in 1..Len(question) : question'[x] = IF x = p THEN new ELSE question[x]
  BY <1>2, <1>3, <1>4, ExceptSeq DEF QuestionsType
<1>6. DOMAIN question' = 1..Len(question)
  BY <1>5, LenProperties
<1>7. Waiting' = Waiting \ {p}
  BY <1>2, <1>3, <1>5, <1>6 DEF Waiting
<1>8. \A x \in DOMAIN question : /\ question'[x].ask = question[x].ask /\ question'[x].id = question[x].id
                                 /\ question'[x].by = IF x = p THEN q ELSE question[x].by
  BY <1>2, <1>3, <1>5
<1> QED BY <1>1, <1>5, <1>7, <1>8

LEMMA AnswerKeeps ==
  ASSUME IInv, NEW q \in DOMAIN question, Answer(q)
  PROVE  IInv'
<1> DEFINE p == registry.parked[question[q].id]
           id == question[q].id
<1>1. /\ p \in Waiting /\ question[p].id = id /\ Waiting' = Waiting \ {p}
      /\ question' \in Seq(QuestionType) /\ Len(question') = Len(question)
      /\ \A x \in DOMAIN question : question'[x].ask = question[x].ask /\ question'[x].id = question[x].id
      /\ registry' = Retire(registry, <<id>>)
  BY AnswerFacts DEF IInv, TypeOK, Questions
<1>2. id \in Id /\ Waiting \subseteq DOMAIN question /\ registry \in RegistryType
  BY QuestionFacts DEF IInv, TypeOK, QuestionType, QuestionsType
<1> HIDE DEF p, id
<1>3. /\ registry' \in RegistryType /\ DOMAIN registry'.parked = DOMAIN registry.parked \ {id}
      /\ \A x \in DOMAIN registry'.parked : registry'.parked[x] = registry.parked[x]
  BY <1>1, <1>2, RetireOne, ZenonT(60)
<1>4. UNCHANGED <<ask, left, session, turns, counting, counted, transcript, boundary, minted, life, over, lost>>
  BY DEF Answer
<1>5. Parked'
  <2>1. ASSUME NEW x \in DOMAIN registry'.parked
        PROVE  registry'.parked[x] \in Waiting' /\ question'[registry'.parked[x]].id = x
    <3>1. x # id /\ x \in DOMAIN registry.parked /\ registry'.parked[x] = registry.parked[x]
      BY <1>3
    <3>2. registry.parked[x] \in Waiting /\ question[registry.parked[x]].id = x
      BY <3>1 DEF IInv, Questions, Parked
    <3> QED BY <3>1, <3>2, <1>1, <1>2
  <2>2. ASSUME NEW x \in Waiting'
        PROVE  question'[x].id \in DOMAIN registry'.parked /\ registry'.parked[question'[x].id] = x
    BY <1>1, <1>2, <1>3 DEF IInv, Questions, Parked
  <2> QED BY <2>1, <2>2 DEF Parked
<1>6. Listening'
  BY <1>1, <1>2, <1>4 DEF IInv, Questions, Listening, Running, First
<1>7. TypeOK'
  BY <1>1, <1>3, <1>4 DEF IInv, TypeOK, AskType, QuestionsType, StoreType
<1>8. Carriage'
  BY <1>4 DEF IInv, Carriage, OneByOne, TurnsInOrder, Carried, PortsServeTheirAsk, Live, Turned
<1>9. Store'
  BY <1>4 DEF IInv, Store, Messages, Counts, Boundaries, BoundaryIsOwn
<1> QED BY <1>5, <1>6, <1>7, <1>8, <1>9 DEF IInv, Questions

LEMMA AnswerRemembers ==
  ASSUME IInv, Remembered, RoomForAll, Len(question) <= MaxQuestions, NEW q \in DOMAIN question, Answer(q)
  PROVE  Remembered'
<1>1. q \in Waiting
  BY DEF Remembered, Answer
<1>2. registry.parked[question[q].id] = q
  BY <1>1 DEF IInv, Questions, Parked
<1>3. /\ Waiting' = Waiting \ {q}
      /\ question' \in Seq(QuestionType) /\ Len(question') = Len(question)
      /\ \A x \in DOMAIN question : question'[x].id = question[x].id
      /\ \A x \in DOMAIN question : question'[x].by = IF x = q THEN q ELSE question[x].by
      /\ registry' = Retire(registry, <<question[q].id>>)
  BY <1>2, AnswerFacts DEF IInv, TypeOK, Questions
<1>4. /\ question[q].id \in Id /\ registry \in RegistryType /\ IsFiniteSet(Waiting) /\ Cardinality(Waiting) \in Nat
      /\ Len(question) \in Nat /\ DOMAIN question = 1..Len(question) /\ Len(registry.retired) \in Nat
      /\ MaxQuestions \in Nat /\ RetiredLimit \in Nat /\ Waiting \subseteq DOMAIN question
  BY QuestionFacts, BudgetAssumption, LimitAssumption DEF IInv, TypeOK, QuestionType, QuestionsType
<1>5. Cardinality(Waiting') = Cardinality(Waiting) - 1
  BY <1>1, <1>3, <1>4, FS_RemoveElement
<1>6. Cardinality(Waiting') \in Nat
  <2>1. IsFiniteSet(Waiting \ {q})
    BY <1>4, FS_RemoveElement
  <2> QED BY <2>1, <1>3, FS_CardinalityType
<1>7. Len(registry.retired) + 1 <= RetiredLimit
  BY <1>4, <1>5, <1>6 DEF Remembered, RoomForAll
<1>8. /\ Len(registry'.retired) = Len(registry.retired) + 1
      /\ Range(registry'.retired) = Range(registry.retired) \cup {question[q].id}
      /\ DOMAIN registry'.parked = DOMAIN registry.parked \ {question[q].id}
  BY <1>3, <1>4, <1>7, RetireOne
<1>9. DOMAIN question' = DOMAIN question
  BY <1>3, <1>4, LenProperties
<1>10. \A x \in DOMAIN question' : /\ x \notin Waiting' => question'[x].id \in Range(registry'.retired)
                                   /\ question'[x].by \in {0, x}
  BY <1>3, <1>8, <1>9 DEF Remembered
<1>11. \A x \in DOMAIN registry'.parked : x \notin Range(registry'.retired)
  BY <1>8 DEF Remembered
<1>12. Len(registry'.retired) + Cardinality(Waiting') <= Len(question') + 1
  BY <1>3, <1>4, <1>5, <1>8 DEF Remembered
<1> QED BY <1>10, <1>11, <1>12 DEF Remembered

-----------------------------------------------------------------------------
(* What holds of the sets and the live ask, for every step. *)
LEMMA Basics ==
  ASSUME IInv
  PROVE  /\ AskType /\ QuestionsType /\ StoreType /\ None \notin Ask \cup {0} /\ Ask \subseteq Nat \ {0}
         /\ \A i \in Ask : ask[i] \in {"queued", "live", "done"} /\ (Live(i) <=> ask[i] = "live")
         /\ \A i, j \in Ask : Live(i) /\ Live(j) => i = j
         /\ session.current \in Ask \cup {0} /\ session.redrive \in Ask \cup {None}
         /\ Len(turns) \in Nat /\ DOMAIN turns = 1..Len(turns) /\ \A n \in DOMAIN turns : turns[n] \in TurnType
         /\ Len(transcript) \in Nat /\ DOMAIN transcript = 1..Len(transcript)
         /\ \A n \in DOMAIN transcript : transcript[n] \in Ask
<1>1. AskType /\ QuestionsType /\ StoreType
  BY DEF IInv, TypeOK
<1>2. Ask \subseteq Nat \ {0} /\ None \notin Ask \cup {0}
  BY TypedAssumption DEF Ask
<1>3. \A i \in Ask : ask[i] \in {"queued", "live", "done"} /\ (Live(i) <=> ask[i] = "live")
  BY <1>1 DEF AskType, Live
<1>4. \A i, j \in Ask : Live(i) /\ Live(j) => i = j
  BY DEF IInv, Carriage, OneByOne
<1>5. session.current \in Ask \cup {0} /\ session.redrive \in Ask \cup {None}
  BY <1>1 DEF AskType, SessionType
<1>6. Len(turns) \in Nat /\ DOMAIN turns = 1..Len(turns) /\ \A n \in DOMAIN turns : turns[n] \in TurnType
  BY <1>1, LenProperties, ElementOfSeq DEF AskType
<1>7. /\ Len(transcript) \in Nat /\ DOMAIN transcript = 1..Len(transcript)
      /\ \A n \in DOMAIN transcript : transcript[n] \in Ask
  BY <1>1, LenProperties, ElementOfSeq DEF StoreType
<1> QED BY <1>1, <1>2, <1>3, <1>4, <1>5, <1>6, <1>7

(* A step that leaves the store alone, when no ask is live again that was done. *)
LEMMA StoreKept ==
  ASSUME IInv, UNCHANGED <<counted, transcript, boundary>>,
         \A i \in Ask : counted[i] # None => counting'[i] = counting[i],
         \A i \in Ask : ask'[i] # "done" => ask[i] # "done",
         session'.current = 0 \/ session'.current = session.current
           \/ (session'.current \in Ask /\ ask[session'.current] # "done")
  PROVE  Store'
<1>1. Messages'
  BY DEF IInv, Store, Messages
<1>2. Counts'
  BY DEF IInv, Store, Counts
<1>3. Boundaries'
  BY DEF IInv, Store, Boundaries, BoundaryIsOwn
<1> QED BY <1>1, <1>2, <1>3 DEF Store

(* startAsk: nothing of the earlier asks is left but a turn that is ending. *)
LEMMA StartKeeps ==
  ASSUME IInv, NEW i \in Ask, Start(i)
  PROVE  IInv'
<1>1. /\ ask[i] = "queued" /\ \A j \in 1..(i - 1) : ask[j] = "done"
      /\ Withdraw /\ session' = Anew(i) /\ left' = [repairs |-> Repairs, nudges |-> Nudges]
      /\ lost' = 0 /\ UNCHANGED <<counting, counted, transcript, boundary, minted>>
  BY DEF Start
<1>2. /\ session' \in SessionType /\ session'.current = i /\ session'.redrive = None
      /\ session'.accepted = FALSE /\ session'.cancelled = FALSE
  BY <1>1 DEF Anew, NoSession, SessionType
<1>3. \A j \in Ask : ~Live(j)
  <2> SUFFICES ASSUME NEW j \in Ask, ask[j] = "live" PROVE FALSE
    BY Basics
  <2>1. CASE j < i
    BY <2>1, <1>1, Basics
  <2>2. CASE i < j
    BY <2>2, <1>1 DEF IInv, Carriage, OneByOne
  <2>3. CASE j = i
    BY <2>3, <1>1
  <2> QED BY <2>1, <2>2, <2>3, Basics
<1>4. \A n \in DOMAIN turns : n = 1 /\ turns[n].phase = "ending"
  <2> SUFFICES ASSUME NEW n \in DOMAIN turns PROVE turns[n].phase = "ending"
    BY DEF IInv, Carriage, TurnsInOrder
  <2>1. turns[n].ask \in Ask
    BY Basics DEF TurnType
  <2> QED BY <2>1, <1>3 DEF IInv, Carriage, PortsServeTheirAsk
<1>5. QuestionsType' /\ Questions'
  BY <1>1, WithdrawKeeps, Basics DEF IInv, Questions
<1>6. left' \in [repairs : Nat, nudges : Nat]
  BY <1>1, BudgetAssumption
<1>7. \A j \in Ask : j < i => ask[j] = "done"
  BY <1>1, Basics
<1>8. counting[i] = "no" /\ ~Turned(i)
  BY <1>1, Basics DEF IInv, Carriage, Carried, TurnsInOrder, Turned
<1>9. CASE turns' = Append(turns, Turn(i)) /\ ask' = [ask EXCEPT ![i] = "live"]
  <2>1. Turn(i) \in TurnType /\ Turn(i).ask = i /\ Turn(i).phase = "queued"
    BY DEF Turn, TurnType
  <2>2. /\ turns' \in Seq(TurnType) /\ DOMAIN turns' = 1..(Len(turns) + 1)
        /\ \A n \in DOMAIN turns : turns'[n] = turns[n]
        /\ turns'[Len(turns) + 1] = Turn(i)
    BY <2>1, <1>9, Basics, AppendTurn
  <2>3. ask' \in [Ask -> {"queued", "live", "done"}] /\ ask'[i] = "live" /\ \A j \in Ask : j # i => ask'[j] = ask[j]
    BY <1>9, Basics DEF AskType
  <2>4. \A n \in DOMAIN turns' : n \in DOMAIN turns \/ n = Len(turns) + 1
    BY <2>2, Basics
  <2>5. TypeOK'
    BY <1>1, <1>2, <1>5, <1>6, <2>2, <2>3, Basics DEF TypeOK, AskType, StoreType
  <2>6. OneByOne'
    <3>1. \A j, k \in Ask : j < k /\ ask'[k] # "queued" => ask'[j] = "done"
      BY <1>1, <1>7, <2>3, Basics DEF IInv, Carriage, OneByOne
    <3>2. \A j \in Ask : Live(j)' => j = i
      BY <1>3, <2>3, Basics DEF Live
    <3> QED BY <3>1, <3>2, <1>2 DEF OneByOne
  <2>7. TurnsInOrder'
    <3>1. \A n \in DOMAIN turns' : n # 1 => turns'[n].phase = "queued"
      BY <1>4, <2>1, <2>2, <2>4
    <3>2. \A n \in DOMAIN turns : turns[n].ask # i
      BY <1>8 DEF Turned
    <3>3. \A m, n \in DOMAIN turns' : turns'[m].ask = turns'[n].ask => m = n
      BY <3>2, <2>1, <2>2, <2>4 DEF IInv, Carriage, TurnsInOrder
    <3>4. \A n \in DOMAIN turns' : /\ counting'[turns'[n].ask] = "no" /\ ask'[turns'[n].ask] # "queued"
                                   /\ turns'[n].phase = "ending" => ask'[turns'[n].ask] = "done"
      <4> SUFFICES ASSUME NEW n \in DOMAIN turns'
                   PROVE  /\ counting'[turns'[n].ask] = "no" /\ ask'[turns'[n].ask] # "queued"
                          /\ turns'[n].phase = "ending" => ask'[turns'[n].ask] = "done"
        OBVIOUS
      <4>1. CASE n = Len(turns) + 1
        BY <4>1, <1>1, <1>8, <2>1, <2>2, <2>3
      <4>2. CASE n \in DOMAIN turns
        <5>1. turns[n].ask \in Ask /\ turns[n].ask # i
          BY <4>2, <3>2, Basics DEF TurnType
        <5> QED BY <5>1, <4>2, <1>1, <2>2, <2>3 DEF IInv, Carriage, TurnsInOrder
      <4> QED BY <4>1, <4>2, <2>4
    <3>5. \A n \in DOMAIN turns' : turns'[n].phase = "ending" => turns'[n].ask # i
      BY <3>2, <2>1, <2>2, <2>4
    <3> QED BY <3>1, <3>3, <3>4, <3>5, <1>2 DEF TurnsInOrder
  <2>8. Carried'
    <3>1. Turned(i)'
      BY <2>1, <2>2, Basics DEF Turned
    <3>2. \A j \in Ask : Live(j)' => j = i
      BY <1>3, <2>3, Basics DEF Live
    <3>3. \A j \in Ask : counting'[j] # "no" => ask'[j] # "queued"
      BY <1>1, <2>3 DEF IInv, Carriage, Carried
    <3>4. ~Live(session.redrive)'
      BY <1>2, Basics DEF Live
    <3>5. lost' # i
      BY <1>1, Basics
    <3> QED BY <3>1, <3>2, <3>3, <3>4, <3>5, <1>2 DEF Carried
  <2>9. PortsServeTheirAsk'
    BY <1>2, <1>4, <2>1, <2>2, <2>3, <2>4 DEF PortsServeTheirAsk, Live
  <2>10. Store'
    BY <1>1, <1>2, <2>3, StoreKept
  <2> QED BY <1>5, <2>5, <2>6, <2>7, <2>8, <2>9, <2>10 DEF IInv, Carriage
<1>10. CASE Settle(i) /\ UNCHANGED turns
  <2>3. ask' \in [Ask -> {"queued", "live", "done"}] /\ ask'[i] = "done" /\ \A j \in Ask : j # i => ask'[j] = ask[j]
    BY <1>10, Basics DEF AskType, Settle
  <2>5. TypeOK'
    BY <1>1, <1>2, <1>5, <1>6, <1>10, <2>3, Basics DEF TypeOK, AskType, StoreType
  <2>1. \A j \in Ask : ~Live(j)'
    BY <1>3, <2>3, Basics DEF Live
  <2>6. OneByOne'
    <3>1. \A j, k \in Ask : j < k /\ ask[k] # "queued" => ask[j] = "done"
      BY DEF IInv, Carriage, OneByOne
    <3> QED BY <3>1, <1>1, <1>7, <2>1, <2>3 DEF OneByOne
  <2>7. TurnsInOrder'
    <3>1. \A n \in DOMAIN turns : turns[n].ask \in Ask
      BY Basics DEF TurnType
    <3>2. \A n \in DOMAIN turns' : turns'[n].ask # session'.current
      BY <1>2, <1>8, <1>10 DEF Turned
    <3> QED BY <3>1, <3>2, <1>1, <1>10, <2>3 DEF IInv, Carriage, TurnsInOrder
  <2>8. Carried'
    <3>1. ~Live(session.redrive)'
      BY <1>2, Basics DEF Live
    <3> QED BY <3>1, <1>1, <1>2, <2>1, <2>3 DEF IInv, Carriage, Carried
  <2>9. PortsServeTheirAsk'
    BY <1>4, <1>10 DEF PortsServeTheirAsk
  <2>10. Store'
    BY <1>1, <1>2, <2>3, StoreKept
  <2> QED BY <1>5, <2>5, <2>6, <2>7, <2>8, <2>9, <2>10 DEF IInv, Carriage
<1> QED BY <1>9, <1>10 DEF Start


(* A step that leaves the asks, the turns and the counts to themselves. *)
LEMMA CarriageKept ==
  ASSUME IInv, UNCHANGED <<ask, turns, counting, lost>>,
         /\ session'.current = session.current /\ session'.accepted = session.accepted
         /\ session'.cancelled = session.cancelled /\ session'.redrive = session.redrive
  PROVE  Carriage'
BY DEF IInv, Carriage, OneByOne, TurnsInOrder, Carried, PortsServeTheirAsk, Live, Turned

(***************************************************************************)
(* The turn at the head, when it may still do something: it is one of the  *)
(* current ask, and no other turn of that ask is in the queue.             *)
(***************************************************************************)
LEMMA HeadOfCurrent ==
  ASSUME IInv, Running({"queued", "going"})
  PROVE  /\ turns # <<>> /\ 1 \in DOMAIN turns /\ First \in TurnType /\ First.ask \in Ask
         /\ First.ask = session.current /\ Live(First.ask) /\ ask[First.ask] = "live"
         /\ counting[First.ask] = "no" /\ session.redrive # First.ask
         /\ \A n \in DOMAIN turns : n = 1
<1>1. turns # <<>> /\ 1 \in DOMAIN turns /\ First \in TurnType /\ First.ask \in Ask /\ First.phase # "ending"
  BY Basics, TailTurns DEF Running, TurnType
<1>2. First.ask = session.current /\ Live(First.ask)
  BY <1>1 DEF IInv, Carriage, PortsServeTheirAsk, First
<1>3. counting[First.ask] = "no"
  BY <1>1 DEF IInv, Carriage, TurnsInOrder, First
<1>4. session.redrive # First.ask
  BY <1>1, <1>2 DEF IInv, Carriage, Carried
<1>5. \A n \in DOMAIN turns : n = 1
  <2> SUFFICES ASSUME NEW n \in DOMAIN turns, n # 1 PROVE FALSE
    OBVIOUS
  <2>1. turns[n].phase # "ending"
    BY DEF IInv, Carriage, TurnsInOrder
  <2>2. turns[n].ask = turns[1].ask
    BY <2>1, <1>2 DEF IInv, Carriage, PortsServeTheirAsk, First
  <2> QED BY <2>2, <1>1 DEF IInv, Carriage, TurnsInOrder
<1> QED BY <1>1, <1>2, <1>3, <1>4, <1>5, Basics

(* The prompt of a turn goes behind everything the earlier asks have said. *)
LEMMA BeginKeeps ==
  ASSUME IInv, Begin
  PROVE  IInv'
<1> DEFINE i == First.ask
<1>1. /\ turns # <<>> /\ 1 \in DOMAIN turns /\ i \in Ask /\ i = session.current /\ Live(i) /\ ask[i] = "live"
      /\ counting[i] = "no" /\ First.phase = "queued"
  BY HeadOfCurrent DEF Begin, Running
<1>2. /\ turns' = [turns EXCEPT ![1].phase = "going"] /\ transcript' = Append(transcript, i)
      /\ UNCHANGED <<ask, left, session, counting, counted, boundary, question, registry, minted, lost>>
  BY DEF Begin
<1>3. /\ turns' \in Seq(TurnType) /\ DOMAIN turns' = DOMAIN turns /\ turns' # <<>>
      /\ \A n \in DOMAIN turns : /\ turns'[n].ask = turns[n].ask
                                 /\ turns'[n].phase = IF n = 1 THEN "going" ELSE turns[n].phase
  BY <1>1, <1>2, Basics, FirstTurn
<1>4. /\ transcript' \in Seq(Ask) /\ DOMAIN transcript' = 1..(Len(transcript) + 1)
      /\ Len(transcript') = Len(transcript) + 1
      /\ \A n \in DOMAIN transcript : transcript'[n] = transcript[n]
      /\ transcript'[Len(transcript) + 1] = i
  BY <1>1, <1>2, Basics, AppendProperties, LenProperties DEF StoreType
<1> HIDE DEF i
<1>5. \A n \in DOMAIN transcript' : n \in DOMAIN transcript \/ n = Len(transcript) + 1
  BY <1>4, Basics
<1>6. TypeOK'
  BY <1>2, <1>3, <1>4, Basics DEF TypeOK, AskType, QuestionsType, StoreType
<1>7. Carriage'
  <2>1. OneByOne'
    BY <1>2 DEF IInv, Carriage, OneByOne, Live
  <2>2. TurnsInOrder'
    BY <1>2, <1>3 DEF IInv, Carriage, TurnsInOrder
  <2>3. Carried'
    <3>1. \A j \in Ask : (Turned(j)' <=> Turned(j)) /\ (Live(j)' <=> Live(j))
      BY <1>2, <1>3 DEF Turned, Live
    <3>2. ~Live(session.redrive)
      BY <1>1 DEF IInv, Carriage, Carried
    <3> QED BY <3>1, <3>2, <1>2 DEF IInv, Carriage, Carried, Live
  <2>4. PortsServeTheirAsk'
    BY <1>1, <1>2, <1>3 DEF IInv, Carriage, PortsServeTheirAsk, Live, i, First
  <2> QED BY <2>1, <2>2, <2>3, <2>4 DEF Carriage
<1>8. Questions'
  <2>1. Waiting = {}
    BY <1>1 DEF IInv, Questions, Listening, Running
  <2>2. Parked'
    BY <1>2 DEF IInv, Questions, Parked, Waiting
  <2>3. Waiting' = {}
    BY <1>2, <2>1 DEF Waiting
  <2> QED BY <2>2, <2>3 DEF Questions, Listening
<1>9. Messages'
  <2>1. \A j \in Ask : ask[j] # "done" => i <= j
    BY <1>1, Basics DEF IInv, Carriage, OneByOne
  <2>2. i <= session.current
    BY <1>1, Basics
  <2> QED BY <1>2, <1>4, <1>5, <2>1, <2>2 DEF IInv, Store, Messages
<1>10. Counts'
  <2> SUFFICES ASSUME NEW j \in Ask, counted[j] # None
               PROVE  /\ counting[j] = "counted" /\ counted[j] <= Len(transcript')
                      /\ \A n \in DOMAIN transcript' : n > counted[j] => transcript'[n] # j
    BY <1>2 DEF Counts
  <2>1. /\ counting[j] = "counted" /\ counted[j] <= Len(transcript) /\ counted[j] \in Nat
        /\ \A n \in DOMAIN transcript : n > counted[j] => transcript[n] # j
    BY Basics DEF IInv, Store, Counts, StoreType
  <2>2. j # i
    BY <2>1, <1>1
  <2> QED BY <2>1, <2>2, <1>4, <1>5, Basics
<1>11. Boundaries'
  <2> SUFFICES ASSUME NEW j \in Ask, boundary[j] # None
               PROVE  /\ ask[j] = "done" /\ boundary[j] <= Len(transcript')
                      /\ \A n \in DOMAIN transcript' : /\ n <= boundary[j] => transcript'[n] <= j
                                                       /\ n > boundary[j] => transcript'[n] # j
    BY <1>2 DEF Boundaries, BoundaryIsOwn
  <2>1. /\ ask[j] = "done" /\ boundary[j] <= Len(transcript) /\ boundary[j] \in Nat
        /\ \A n \in DOMAIN transcript : /\ n <= boundary[j] => transcript[n] <= j
                                        /\ n > boundary[j] => transcript[n] # j
    BY Basics DEF IInv, Store, Boundaries, BoundaryIsOwn, StoreType
  <2>2. j # i
    BY <2>1, <1>1
  <2>3. ASSUME NEW n \in DOMAIN transcript'
        PROVE  /\ n <= boundary[j] => transcript'[n] <= j
               /\ n > boundary[j] => transcript'[n] # j
    <3>1. CASE n \in DOMAIN transcript
      BY <3>1, <2>1, <1>4
    <3>2. CASE n = Len(transcript) + 1
      <4>1. ~(n <= boundary[j])
        BY <3>2, <2>1, Basics
      <4> QED BY <4>1, <3>2, <2>2, <1>4
    <3> QED BY <3>1, <3>2, <1>5
  <2>4. boundary[j] <= Len(transcript')
    BY <2>1, <1>4, Basics
  <2> QED BY <2>1, <2>3, <2>4
<1> QED BY <1>6, <1>7, <1>8, <1>9, <1>10, <1>11 DEF IInv, Store

(***************************************************************************)
(* cancelAsk of the live ask, which settles it: a turn that is left is     *)
(* ending, and the ask it belongs to has its end.                          *)
(***************************************************************************)
LEMMA CancelKeeps ==
  ASSUME IInv, NEW i \in Ask, Live(i), CancelAsk(i), Settle(i), UNCHANGED <<left, minted>>,
         counting' \in [Ask -> {"no", "asked", "counted"}],
         \A j \in Ask : counting'[j] = counting[j] \/ counting'[j] = "no"
  PROVE  AskType' /\ QuestionsType' /\ Carriage' /\ Questions'
<1>1. session' = Cancelled /\ turns' = Abort(i) /\ Withdraw
  BY DEF CancelAsk
<1>2. session.current = i /\ ~session.accepted /\ ~session.cancelled /\ ask[i] = "live"
  BY Basics DEF IInv, Carriage, OneByOne
<1>3. /\ turns' \in Seq(TurnType)
      /\ \A n \in DOMAIN turns' : /\ n = 1 /\ turns # <<>> /\ turns'[n].phase = "ending"
                                  /\ turns'[n].ask = First.ask
  BY <1>1, <1>2, AbortFacts, Basics DEF IInv, Carriage
<1>4. /\ session' \in SessionType /\ session'.current = i /\ session'.cancelled = TRUE /\ session'.redrive = None
  BY <1>1, <1>2, Basics DEF Cancelled, AskType, SessionType
<1>5. ask' \in [Ask -> {"queued", "live", "done"}] /\ ask'[i] = "done" /\ \A j \in Ask : j # i => ask'[j] = ask[j]
  BY Basics DEF AskType, Settle
<1>6. QuestionsType' /\ Questions'
  BY <1>1, WithdrawKeeps, Basics DEF IInv, Questions
<1>7. AskType'
  BY <1>3, <1>4, <1>5, Basics DEF AskType
<1>8. \A j \in Ask : ~Live(j)'
  BY <1>2, <1>5, Basics DEF Live
<1>9. OneByOne'
  <2>1. \A j, k \in Ask : j < k /\ ask[k] # "queued" => ask[j] = "done"
    BY DEF IInv, Carriage, OneByOne
  <2> QED BY <2>1, <1>2, <1>5, <1>8 DEF OneByOne
<1>10. TurnsInOrder'
  <2>1. \A n \in DOMAIN turns' : counting'[turns'[n].ask] = "no" /\ ask'[turns'[n].ask] = "done"
    <3> SUFFICES ASSUME turns # <<>> PROVE counting'[First.ask] = "no" /\ ask'[First.ask] = "done"
      BY <1>3
    <3>1. First.ask \in Ask /\ 1 \in DOMAIN turns /\ First = turns[1]
      BY Basics, TailTurns DEF TurnType, First
    <3>2. counting[First.ask] = "no" /\ (First.ask # i => ask[First.ask] = "done")
      BY <3>1, <1>2 DEF IInv, Carriage, TurnsInOrder, PortsServeTheirAsk
    <3> QED BY <3>1, <3>2, <1>5
  <2> QED BY <2>1, <1>3, <1>4 DEF TurnsInOrder
<1>11. Carried'
  <2>1. \A j \in Ask : counting'[j] # "no" => ask'[j] # "queued"
    BY <1>5 DEF IInv, Carriage, Carried
  <2>2. ~Live(session.redrive)'
    BY <1>4, Basics DEF Live
  <2> QED BY <2>1, <2>2, <1>4, <1>8 DEF Carried
<1>12. PortsServeTheirAsk'
  BY <1>3 DEF PortsServeTheirAsk
<1> QED BY <1>6, <1>7, <1>9, <1>10, <1>11, <1>12 DEF Carriage

(* submit_result: accepted, repaired in the same turn, or the ask fails. *)
LEMMA SubmitKeeps ==
  ASSUME IInv, Submit
  PROVE  IInv'
<1> DEFINE i == session.current
<1>1. /\ Running({"going"}) /\ Waiting = {} /\ Live(i) /\ i \in Ask
      /\ UNCHANGED <<counting, counted, transcript, boundary, minted, lost>>
  BY DEF Submit, Live
<1>2. /\ turns # <<>> /\ 1 \in DOMAIN turns /\ First.ask = i /\ \A n \in DOMAIN turns : n = 1
      /\ ask[i] = "live"
  BY <1>1, HeadOfCurrent DEF Running
<1>3. CASE Accept(i)
  <2>1. /\ turns' = [turns EXCEPT ![1].phase = "ending"] /\ session' = [session EXCEPT !.accepted = TRUE]
        /\ Settle(i) /\ UNCHANGED <<left, question, registry>>
    BY <1>3 DEF Accept
  <2>2. /\ turns' \in Seq(TurnType) /\ DOMAIN turns' = DOMAIN turns
        /\ \A n \in DOMAIN turns' : turns'[n].ask = i /\ turns'[n].phase = "ending" /\ n = 1
    BY <1>2, <2>1, Basics, FirstTurn DEF First
  <2>3. /\ session' \in SessionType /\ session'.accepted = TRUE /\ session'.current = i
        /\ session'.redrive = session.redrive /\ session'.cancelled = session.cancelled
    BY <2>1, Basics DEF AskType, SessionType
  <2>4. ask' \in [Ask -> {"queued", "live", "done"}] /\ ask'[i] = "done" /\ \A j \in Ask : j # i => ask'[j] = ask[j]
    BY <1>1, <2>1, Basics DEF AskType, Settle
  <2>5. \A j \in Ask : ~Live(j)'
    BY <1>1, <2>4, Basics DEF Live
  <2>6. TypeOK'
    BY <1>1, <2>1, <2>2, <2>3, <2>4, Basics DEF TypeOK, AskType, QuestionsType, StoreType
  <2>7. OneByOne'
    BY <1>2, <2>4, <2>5, Basics DEF IInv, Carriage, OneByOne
  <2>8. TurnsInOrder'
    <3>1. counting[i] = "no"
      BY <1>2 DEF IInv, Carriage, TurnsInOrder, First
    <3> QED BY <3>1, <1>1, <2>2, <2>3, <2>4 DEF TurnsInOrder
  <2>9. Carried'
    <3>1. \A j \in Ask : counting'[j] # "no" => ask'[j] # "queued"
      BY <1>1, <2>4 DEF IInv, Carriage, Carried
    <3>2. ~Live(session.redrive)'
      BY <2>5 DEF Live
    <3> QED BY <3>1, <3>2, <2>3, <2>5 DEF Carried
  <2>10. PortsServeTheirAsk'
    BY <2>2 DEF PortsServeTheirAsk
  <2>11. Questions'
    <3>1. Waiting' = {}
      BY <1>1, <2>1 DEF Waiting
    <3>2. Parked'
      BY <2>1 DEF IInv, Questions, Parked, Waiting
    <3> QED BY <3>1, <3>2 DEF Questions, Listening
  <2>12. Store'
    BY <1>1, <2>3, <2>4, StoreKept
  <2> QED BY <2>6, <2>7, <2>8, <2>9, <2>10, <2>11, <2>12 DEF IInv, Carriage
<1>4. CASE Reject(i) /\ left.repairs > 0
  <2>1. /\ left' = [left EXCEPT !.repairs = @ - 1]
        /\ UNCHANGED <<ask, session, turns, question, registry>>
    BY <1>4 DEF Reject
  <2>2. left' \in [repairs : Nat, nudges : Nat]
    BY <1>4, <2>1, Basics DEF AskType
  <2>3. TypeOK'
    BY <1>1, <2>1, <2>2, Basics DEF TypeOK, AskType, QuestionsType, StoreType
  <2>4. Carriage'
    BY <1>1, <2>1, CarriageKept
  <2>5. Questions'
    BY <2>1 DEF IInv, Questions, Parked, Listening, Waiting, Running, First
  <2>6. Store'
    BY <1>1, <2>1, StoreKept
  <2> QED BY <2>3, <2>4, <2>5, <2>6 DEF IInv
<1>5. CASE Reject(i) /\ ~(left.repairs > 0)
  <2>1. CancelAsk(i) /\ Settle(i) /\ UNCHANGED left
    BY <1>5 DEF Reject
  <2>2. AskType' /\ QuestionsType' /\ Carriage' /\ Questions'
    BY <1>1, <2>1, CancelKeeps, Basics DEF StoreType
  <2>3. StoreType'
    BY <1>1, Basics DEF StoreType
  <2>4. Store'
    <3>1. \A j \in Ask : ask'[j] # "done" => ask[j] # "done"
      BY <1>2, <2>1, Basics DEF Settle, AskType
    <3>2. session'.current = session.current
      BY <2>1, Basics DEF CancelAsk, Cancelled, AskType, SessionType
    <3> QED BY <3>1, <3>2, <1>1, StoreKept
  <2> QED BY <2>2, <2>3, <2>4 DEF IInv, TypeOK
<1> QED BY <1>3, <1>4, <1>5 DEF Submit

(* escalate: the question belongs to the turn that runs. *)
LEMMA EscalateKeeps ==
  ASSUME IInv, Escalate
  PROVE  IInv'
<1>1. /\ Running({"going"}) /\ session' = [session EXCEPT !.used = @ + 1] /\ minted' = minted + 1
      /\ UNCHANGED <<ask, left, turns, counting, counted, transcript, boundary, lost>>
  BY DEF Escalate
<1>2. First.ask = session.current /\ session.current \in Ask
  BY <1>1, HeadOfCurrent DEF Running
<1>3. minted' \in Nat
  BY <1>1, Basics DEF QuestionsType
<1>4. /\ session' \in SessionType /\ session'.current = session.current /\ session'.accepted = session.accepted
      /\ session'.cancelled = session.cancelled /\ session'.redrive = session.redrive
  <2>1. session \in SessionType /\ session.used + 1 \in Nat
    BY Basics DEF AskType, SessionType
  <2> QED BY <2>1, <1>1 DEF SessionType
<1>5. AskType' /\ StoreType'
  BY <1>1, <1>4, Basics DEF AskType, StoreType
<1>6. Carriage'
  BY <1>1, <1>4, CarriageKept
<1>7. Store'
  BY <1>1, <1>4, StoreKept
<1>8. QuestionsType' /\ Questions'
  <2>1. CASE UNCHANGED <<question, registry>>
    BY <2>1, <1>1, <1>3, Basics
    DEF IInv, QuestionsType, Questions, Parked, Listening, Waiting, Running, First
  <2>2. CASE Free # {} /\ \E journalled \in BOOLEAN : Park(Shortest, journalled)
    <3>1. PICK journalled \in BOOLEAN : Park(Shortest, journalled)
      BY <2>2
    <3>2. Shortest \in Id /\ ~IsTaken(Shortest)
      BY <2>2, ShortestFacts, Basics
    <3>3. /\ QuestionsType' /\ Parked'
          /\ \A q \in Waiting' : (q \in Waiting /\ question'[q] = question[q]) \/ question'[q].ask = session.current
      BY <1>2, <1>3, <3>1, <3>2, ParkKeeps, Basics DEF IInv, Questions
    <3>4. Listening'
      BY <1>1, <1>2, <3>3 DEF IInv, Questions, Listening, Running, First
    <3> QED BY <3>3, <3>4 DEF Questions
  <2> QED BY <2>1, <2>2 DEF Escalate
<1> QED BY <1>5, <1>6, <1>7, <1>8 DEF IInv, TypeOK

(***************************************************************************)
(* The head of the queue is gone.  Every turn that is left has not begun,  *)
(* and is of another ask than the one that was at the head.                *)
(***************************************************************************)
LEMMA WithoutHead ==
  ASSUME IInv, turns # <<>>, turns' = Tail(turns)
  PROVE  /\ turns' \in Seq(TurnType) /\ First.ask \in Ask /\ First \in TurnType
         /\ counting[First.ask] = "no" /\ ask[First.ask] # "queued"
         /\ \A n \in DOMAIN turns' : n + 1 \in DOMAIN turns /\ turns'[n] = turns[n + 1]
         /\ \A n \in DOMAIN turns' : turns'[n].ask \in Ask /\ turns'[n].phase = "queued" /\ turns'[n].ask # First.ask
         /\ \A m, n \in DOMAIN turns' : turns'[m].ask = turns'[n].ask => m = n
         /\ \A i \in Ask : Turned(i)' <=> Turned(i) /\ i # First.ask
         /\ ~Live(session.redrive)
<1>1. /\ turns' \in Seq(TurnType) /\ 1 \in DOMAIN turns /\ First \in TurnType
      /\ Len(turns) \in Nat \ {0} /\ DOMAIN turns = 1..Len(turns) /\ DOMAIN turns' = 1..(Len(turns) - 1)
      /\ \A n \in DOMAIN turns' : n + 1 \in DOMAIN turns /\ turns'[n] = turns[n + 1]
  BY Basics, TailTurns
<1>2. First = turns[1]
  BY DEF First
<1>3. First.ask \in Ask /\ counting[First.ask] = "no" /\ ask[First.ask] # "queued"
  BY <1>1, <1>2 DEF IInv, Carriage, TurnsInOrder, TurnType
<1>4. ASSUME NEW n \in DOMAIN turns'
      PROVE  turns'[n].ask \in Ask /\ turns'[n].phase = "queued" /\ turns'[n].ask # First.ask
  <2>1. n + 1 \in DOMAIN turns /\ n + 1 # 1 /\ turns'[n] = turns[n + 1]
    BY <1>1
  <2>2. turns[n + 1] \in TurnType
    BY <2>1, Basics
  <2>3. turns[n + 1].phase = "queued" /\ turns[n + 1].ask # turns[1].ask
    BY <2>1, <1>1 DEF IInv, Carriage, TurnsInOrder
  <2> QED BY <2>1, <2>2, <2>3, <1>2 DEF TurnType
<1>5. \A m, n \in DOMAIN turns' : turns'[m].ask = turns'[n].ask => m = n
  <2> SUFFICES ASSUME NEW m \in DOMAIN turns', NEW n \in DOMAIN turns', turns'[m].ask = turns'[n].ask
               PROVE  m = n
    OBVIOUS
  <2>1. m + 1 = n + 1
    BY <1>1 DEF IInv, Carriage, TurnsInOrder
  <2> QED BY <2>1, <1>1
<1>6. ASSUME NEW i \in Ask, i # First.ask PROVE Turned(i)' <=> Turned(i)
  <2>1. ASSUME NEW n \in DOMAIN turns, turns[n].ask = i PROVE Turned(i)'
    <3>1. n # 1
      BY <2>1, <1>2, <1>6
    <3>2. n - 1 \in DOMAIN turns' /\ (n - 1) + 1 = n
      BY <3>1, <1>1
    <3>3. turns'[n - 1] = turns[n]
      BY <3>2, <1>1
    <3> QED BY <2>1, <3>2, <3>3 DEF Turned
  <2>2. ASSUME NEW n \in DOMAIN turns', turns'[n].ask = i PROVE Turned(i)
    BY <2>2, <1>1 DEF Turned
  <2> QED BY <2>1, <2>2 DEF Turned
<1>7. ASSUME NEW i \in Ask, i = First.ask PROVE ~Turned(i)'
  BY <1>4, <1>7 DEF Turned
<1>8. ~Live(session.redrive)
  BY DEF IInv, Carriage, Carried
<1> QED BY <1>1, <1>3, <1>4, <1>5, <1>6, <1>7, <1>8

(* The turn resolves: a live ask is carried by the count of its exchange. *)
LEMMA ResolveKeeps ==
  ASSUME IInv, Resolve
  PROVE  IInv'
<1> DEFINE i == First.ask
<1>1. /\ turns # <<>> /\ Waiting = {} /\ turns' = Tail(turns)
      /\ counting' = [counting EXCEPT ![i] = "asked"]
      /\ UNCHANGED <<ask, left, session, counted, transcript, boundary, question, registry, minted, lost>>
  BY DEF Resolve, Running
<1>2. /\ turns' \in Seq(TurnType) /\ i \in Ask /\ counting[i] = "no" /\ ask[i] # "queued"
      /\ \A n \in DOMAIN turns' : n + 1 \in DOMAIN turns /\ turns'[n] = turns[n + 1]
      /\ \A n \in DOMAIN turns' : turns'[n].ask \in Ask /\ turns'[n].phase = "queued" /\ turns'[n].ask # i
      /\ \A m, n \in DOMAIN turns' : turns'[m].ask = turns'[n].ask => m = n
      /\ \A j \in Ask : Turned(j)' <=> Turned(j) /\ j # i
      /\ ~Live(session.redrive)
  BY <1>1, WithoutHead
<1>3. Turned(i)
  BY <1>1, TailTurns, Basics DEF Turned, First
<1> HIDE DEF i
<1>4. /\ counting' \in [Ask -> {"no", "asked", "counted"}] /\ counting'[i] = "asked"
      /\ \A j \in Ask : j # i => counting'[j] = counting[j]
  BY <1>1, <1>2, Basics DEF StoreType
<1>5. TypeOK'
  BY <1>1, <1>2, <1>4, Basics DEF TypeOK, AskType, QuestionsType, StoreType
<1>6. OneByOne'
  BY <1>1 DEF IInv, Carriage, OneByOne, Live
<1>7. TurnsInOrder'
  <2>1. \A n \in DOMAIN turns' : counting'[turns'[n].ask] = "no" /\ ask'[turns'[n].ask] # "queued"
    BY <1>1, <1>2, <1>4 DEF IInv, Carriage, TurnsInOrder
  <2> QED BY <2>1, <1>2 DEF TurnsInOrder
<1>8. Carried'
  <2>1. \A j \in Ask : Live(j)' <=> Live(j)
    BY <1>1 DEF Live
  <2>2. ASSUME NEW j \in Ask, Live(j)'
        PROVE  \/ lost' # j /\ Turned(j)' /\ session'.redrive # j
               \/ lost' # j /\ counting'[j] # "no" /\ session'.redrive # j
               \/ lost' = j /\ ~Turned(j)' /\ counting'[j] = "no" /\ session'.redrive # j
    <3>1. Live(j) /\ session.redrive # j
      BY <2>1, <2>2, <1>2
    <3>2. CASE j = i
      <4>1. lost # i
        BY <3>1, <3>2, <1>3 DEF IInv, Carriage, Carried
      <4> QED BY <4>1, <3>1, <3>2, <1>1, <1>4
    <3>3. CASE j # i
      BY <3>1, <3>3, <1>1, <1>2, <1>4 DEF IInv, Carriage, Carried
    <3> QED BY <3>2, <3>3
  <2>3. \A j \in Ask : counting'[j] # "no" => ask'[j] # "queued"
    BY <1>1, <1>2, <1>4 DEF IInv, Carriage, Carried
  <2>4. ~Live(session.redrive)'
    BY <1>1, <1>2 DEF Live
  <2>5. session'.redrive # None /\ session'.redrive = session'.current => session'.accepted \/ Live(session.redrive)'
    BY <1>1 DEF IInv, Carriage, Carried, Live
  <2> QED BY <2>2, <2>3, <2>4, <2>5 DEF Carried
<1>9. PortsServeTheirAsk'
  BY <1>1, <1>2 DEF IInv, Carriage, PortsServeTheirAsk, Live
<1>10. Questions'
  <2>1. Waiting' = {}
    BY <1>1 DEF Waiting
  <2>2. Parked'
    BY <1>1 DEF IInv, Questions, Parked, Waiting
  <2> QED BY <2>1, <2>2 DEF Questions, Listening
<1>11. Store'
  <2>1. \A j \in Ask : counted[j] # None => counting'[j] = counting[j]
    BY <1>2, <1>4 DEF IInv, Store, Counts
  <2> QED BY <2>1, <1>1, StoreKept
<1> QED BY <1>5, <1>6, <1>7, <1>8, <1>9, <1>10, <1>11 DEF IInv, Carriage

(* The count of an exchange covers every message of its ask: the ask has no turn. *)
LEMMA CountKeeps ==
  ASSUME IInv, NEW i \in Ask, Count(i)
  PROVE  IInv'
<1>1. /\ counting[i] = "asked" /\ counting' = [counting EXCEPT ![i] = "counted"]
      /\ UNCHANGED <<ask, left, session, turns, transcript, boundary, question, registry, minted, lost>>
  BY DEF Count
<1>2. PICK n \in {Len(transcript), None} : counted' = [counted EXCEPT ![i] = n]
  BY DEF Count
<1>3. /\ counting' \in [Ask -> {"no", "asked", "counted"}] /\ counting'[i] = "counted"
      /\ \A j \in Ask : j # i => counting'[j] = counting[j]
  BY <1>1, Basics DEF StoreType
<1>4. /\ counted' \in [Ask -> Nat \cup {None}] /\ counted'[i] = n /\ \A j \in Ask : j # i => counted'[j] = counted[j]
  BY <1>2, Basics DEF StoreType
<1>5. TypeOK'
  BY <1>1, <1>3, <1>4, Basics DEF TypeOK, AskType, QuestionsType, StoreType
<1>6. Carriage'
  <2>1. \A j \in Ask : counting'[j] = "no" <=> counting[j] = "no"
    BY <1>1, <1>3
  <2>2. \A m \in DOMAIN turns : turns[m].ask \in Ask
    BY Basics DEF TurnType
  <2>3. TurnsInOrder'
    BY <2>1, <2>2, <1>1 DEF IInv, Carriage, TurnsInOrder
  <2>4. Carried'
    BY <2>1, <1>1 DEF IInv, Carriage, Carried, Live, Turned
  <2>5. OneByOne' /\ PortsServeTheirAsk'
    BY <1>1 DEF IInv, Carriage, OneByOne, PortsServeTheirAsk, Live
  <2> QED BY <2>3, <2>4, <2>5 DEF Carriage
<1>7. Questions'
  BY <1>1 DEF IInv, Questions, Parked, Listening, Waiting, Running, First
<1>8. Messages' /\ Boundaries'
  BY <1>1 DEF IInv, Store, Messages, Boundaries, BoundaryIsOwn
<1>9. Counts'
  <2> SUFFICES ASSUME NEW j \in Ask, counted'[j] # None
               PROVE  /\ counting'[j] = "counted" /\ counted'[j] <= Len(transcript)
                      /\ \A m \in DOMAIN transcript : m > counted'[j] => transcript[m] # j
    BY <1>1 DEF Counts
  <2>1. CASE j = i
    BY <2>1, <1>2, <1>3, <1>4, Basics
  <2>2. CASE j # i
    BY <2>2, <1>3, <1>4 DEF IInv, Store, Counts
  <2> QED BY <2>1, <2>2
<1> QED BY <1>5, <1>6, <1>7, <1>8, <1>9 DEF IInv, Store

(***************************************************************************)
(* settleExchange, as far as the store goes: what it journals is the count *)
(* of the ask's own exchange, taken while no later ask had begun, and the  *)
(* ask has its answer by then.                                             *)
(***************************************************************************)
LEMMA BoundaryKept ==
  ASSUME IInv, NEW i \in Ask, counting[i] = "counted", JournalBoundary(i),
         counted' = [counted EXCEPT ![i] = None], UNCHANGED transcript,
         \A j \in Ask : j # i => counting'[j] = counting[j],
         \A j \in Ask : ask'[j] # "done" => ask[j] # "done",
         ~Nudged(i) => ask'[i] = "done",
         session'.current = session.current
  PROVE  boundary' \in [Ask -> Nat \cup {None}] /\ Store'
<1>1. /\ counted' \in [Ask -> Nat \cup {None}] /\ counted'[i] = None
      /\ \A j \in Ask : j # i => counted'[j] = counted[j]
  BY Basics DEF StoreType
<1>2. Messages'
  BY DEF IInv, Store, Messages
<1>3. Counts'
  BY <1>1 DEF IInv, Store, Counts
<1>4. CASE boundary' = boundary
  BY <1>2, <1>3, <1>4, Basics DEF IInv, Store, Boundaries, BoundaryIsOwn, StoreType
<1>5. CASE ~Nudged(i) /\ counted[i] # None /\ session.current = i /\ boundary' = [boundary EXCEPT ![i] = counted[i]]
  <2>1. counted[i] \in Nat /\ counted[i] <= Len(transcript) /\ \A n \in DOMAIN transcript : n > counted[i] => transcript[n] # i
    BY <1>5, Basics DEF IInv, Store, Counts, StoreType
  <2>2. boundary' \in [Ask -> Nat \cup {None}] /\ boundary'[i] = counted[i]
        /\ \A j \in Ask : j # i => boundary'[j] = boundary[j]
    BY <1>5, <2>1, Basics DEF StoreType
  <2>3. \A n \in DOMAIN transcript : transcript[n] <= i
    BY <1>5, Basics DEF IInv, Store, Messages
  <2>4. Boundaries'
    <3> SUFFICES ASSUME NEW j \in Ask, boundary'[j] # None
                 PROVE  /\ ask'[j] = "done" /\ boundary'[j] <= Len(transcript)
                        /\ \A n \in DOMAIN transcript : /\ n <= boundary'[j] => transcript[n] <= j
                                                        /\ n > boundary'[j] => transcript[n] # j
      BY DEF Boundaries, BoundaryIsOwn
    <3>1. CASE j = i
      BY <3>1, <1>5, <2>1, <2>2, <2>3
    <3>2. CASE j # i
      BY <3>2, <2>2 DEF IInv, Store, Boundaries, BoundaryIsOwn
    <3> QED BY <3>1, <3>2
  <2> QED BY <1>2, <1>3, <2>2, <2>4 DEF Store
<1> QED BY <1>4, <1>5 DEF JournalBoundary

(* The end of a turn is reported: the answer, a nudge, or the end of the ask. *)
LEMMA ReportKeeps ==
  ASSUME IInv, NEW i \in Ask, Report(i)
  PROVE  IInv'
<1>1. /\ counting[i] = "counted" /\ counting' = [counting EXCEPT ![i] = "no"]
      /\ counted' = [counted EXCEPT ![i] = None] /\ JournalBoundary(i)
      /\ UNCHANGED <<transcript, minted, lost>>
  BY DEF Report
<1>2. /\ counting' \in [Ask -> {"no", "asked", "counted"}] /\ counting'[i] = "no"
      /\ \A j \in Ask : j # i => counting'[j] = counting[j]
  BY <1>1, Basics DEF StoreType
<1>3. ask[i] # "queued" /\ ~Turned(i) /\ (Live(i) => session.redrive # i /\ lost # i)
  BY <1>1 DEF IInv, Carriage, Carried, TurnsInOrder, Turned
<1>4. counted' \in [Ask -> Nat \cup {None}] /\ transcript' \in Seq(Ask)
  BY <1>1, Basics DEF StoreType
<1>5. CASE Reported(i) /\ UNCHANGED <<ask, left, session, turns, question, registry>>
  <2>1. ~Live(i)
    BY <1>5 DEF Reported, IInv, Carriage, OneByOne
  <2>2. ask'[i] = "done"
    BY <2>1, <1>3, <1>5, Basics
  <2>3. boundary' \in [Ask -> Nat \cup {None}] /\ Store'
    BY <1>1, <1>2, <1>5, <2>2, BoundaryKept
  <2>4. TypeOK'
    BY <1>1, <1>2, <1>4, <1>5, <2>3, Basics DEF TypeOK, AskType, QuestionsType, StoreType
  <2>5. Questions'
    BY <1>5 DEF IInv, Questions, Parked, Listening, Waiting, Running, First
  <2>6. OneByOne' /\ PortsServeTheirAsk'
    BY <1>5 DEF IInv, Carriage, OneByOne, PortsServeTheirAsk, Live
  <2>7. TurnsInOrder'
    <3>1. \A n \in DOMAIN turns : turns[n].ask \in Ask
      BY Basics DEF TurnType
    <3> QED BY <3>1, <1>2, <1>5 DEF IInv, Carriage, TurnsInOrder
  <2>8. Carried'
    <3>1. \A j \in Ask : (Live(j)' <=> Live(j)) /\ (Turned(j)' <=> Turned(j))
      BY <1>5 DEF Live, Turned
    <3>2. \A j \in Ask : Live(j) => counting'[j] = counting[j]
      BY <2>1, <1>2
    <3>3. \A j \in Ask : counting'[j] # "no" => ask'[j] # "queued"
      BY <1>2, <1>5 DEF IInv, Carriage, Carried
    <3>4. (Live(session.redrive)' => turns' = <<>>)
          /\ (session'.redrive # None /\ session'.redrive = session'.current
                => session'.accepted \/ Live(session.redrive)')
      BY <1>5 DEF IInv, Carriage, Carried, Live
    <3> QED BY <3>1, <3>2, <3>3, <3>4, <1>1, <1>5 DEF IInv, Carriage, Carried
  <2> QED BY <2>3, <2>4, <2>5, <2>6, <2>7, <2>8 DEF IInv, Carriage
<1>6. CASE ~Reported(i) /\ TurnEnded(i)
  <2>1. Live(i) /\ ask[i] = "live" /\ session.current = i /\ session.redrive # i
    BY <1>3, <1>6, Basics DEF Reported, IInv, Carriage, OneByOne
  <2>2. \A n \in DOMAIN turns : n = 1 /\ turns[n].phase = "ending" /\ turns[n].ask \in Ask /\ turns[n].ask # i
    <3> SUFFICES ASSUME NEW n \in DOMAIN turns
                 PROVE  turns[n].phase = "ending" /\ turns[n].ask \in Ask /\ turns[n].ask # i
      BY DEF IInv, Carriage, TurnsInOrder
    <3>1. turns[n].ask # i /\ turns[n].ask \in Ask
      BY <1>3, Basics DEF Turned, TurnType
    <3> QED BY <3>1, <2>1 DEF IInv, Carriage, PortsServeTheirAsk
  <2>3. CASE i \notin Typed
    <3>1. Settle(i) /\ UNCHANGED <<left, session, turns, question, registry>>
      BY <2>3, <1>6 DEF TurnEnded
    <3>2. ask' \in [Ask -> {"queued", "live", "done"}] /\ ask'[i] = "done" /\ \A j \in Ask : j # i => ask'[j] = ask[j]
      BY <3>1, Basics DEF AskType, Settle
    <3>3. \A j \in Ask : ~Live(j)'
      BY <2>1, <3>2, Basics DEF Live
    <3>4. boundary' \in [Ask -> Nat \cup {None}] /\ Store'
      BY <1>1, <1>2, <2>1, <3>1, <3>2, BoundaryKept
    <3>5. TypeOK'
      BY <1>1, <1>2, <1>4, <3>1, <3>2, <3>4, Basics DEF TypeOK, AskType, QuestionsType, StoreType
    <3>6. Questions'
      BY <3>1 DEF IInv, Questions, Parked, Listening, Waiting, Running, First
    <3>7. OneByOne'
      BY <2>1, <3>2, <3>3, Basics DEF IInv, Carriage, OneByOne
    <3>8. TurnsInOrder'
      BY <1>2, <2>2, <3>1, <3>2 DEF IInv, Carriage, TurnsInOrder
    <3>9. Carried'
      <4>1. \A j \in Ask : counting'[j] # "no" => ask'[j] # "queued"
        BY <1>2, <3>2 DEF IInv, Carriage, Carried
      <4>2. ~Live(session.redrive)'
        BY <3>3 DEF Live
      <4>3. session.redrive # session.current
        BY <2>1
      <4> QED BY <4>1, <4>2, <4>3, <3>1, <3>3 DEF Carried
    <3>10. PortsServeTheirAsk'
      BY <2>2, <3>1 DEF PortsServeTheirAsk
    <3> QED BY <3>4, <3>5, <3>6, <3>7, <3>8, <3>9, <3>10 DEF IInv, Carriage
  <2>4. CASE i \in Typed /\ left.nudges > 0
    <3>1. /\ left' = [left EXCEPT !.nudges = @ - 1] /\ turns' = Append(turns, Turn(i))
          /\ UNCHANGED <<ask, session, question, registry>>
      BY <2>4, <1>6 DEF TurnEnded
    <3>2. left' \in [repairs : Nat, nudges : Nat]
      <4>1. left \in [repairs : Nat, nudges : Nat]
        BY Basics DEF AskType
      <4> QED BY <4>1, <2>4, <3>1
    <3>3. Turn(i) \in TurnType /\ Turn(i).ask = i /\ Turn(i).phase = "queued"
      BY DEF Turn, TurnType
    <3>4. /\ turns' \in Seq(TurnType) /\ DOMAIN turns' = 1..(Len(turns) + 1)
          /\ \A n \in DOMAIN turns : turns'[n] = turns[n]
          /\ turns'[Len(turns) + 1] = Turn(i) /\ turns' # <<>>
      BY <3>1, <3>3, Basics, AppendTurn
    <3>5. \A n \in DOMAIN turns' : n \in DOMAIN turns \/ n = Len(turns) + 1
      BY <3>4, Basics
    <3>6. Nudged(i)
      BY <2>4, <1>6 DEF Nudged
    <3>7. boundary' \in [Ask -> Nat \cup {None}] /\ Store'
      BY <1>1, <1>2, <3>1, <3>6, BoundaryKept
    <3>8. TypeOK'
      BY <1>1, <1>2, <1>4, <3>1, <3>2, <3>4, <3>7, Basics DEF TypeOK, AskType, QuestionsType, StoreType
    <3>9. Waiting = {} /\ Questions'
      <4>1. \A q \in Waiting : FALSE
        BY <2>2, TailTurns, Basics DEF IInv, Questions, Listening, Running, First
      <4>2. Waiting' = {}
        BY <4>1, <3>1 DEF Waiting
      <4>3. Parked'
        BY <3>1 DEF IInv, Questions, Parked, Waiting
      <4> QED BY <4>1, <4>2, <4>3 DEF Questions, Listening
    <3>10. OneByOne'
      BY <3>1 DEF IInv, Carriage, OneByOne, Live
    <3>11. TurnsInOrder'
      <4>1. \A n \in DOMAIN turns' : n # 1 => turns'[n].phase = "queued"
        BY <2>2, <3>3, <3>4, <3>5
      <4>2. \A m, n \in DOMAIN turns' : turns'[m].ask = turns'[n].ask => m = n
        BY <2>2, <3>3, <3>4, <3>5
      <4>3. ASSUME NEW n \in DOMAIN turns'
            PROVE  /\ counting'[turns'[n].ask] = "no" /\ ask'[turns'[n].ask] # "queued"
                   /\ turns'[n].phase = "ending" => ask'[turns'[n].ask] = "done"
                   /\ turns'[n].phase = "ending" => turns'[n].ask # session'.current
        <5>1. CASE n = Len(turns) + 1
          BY <5>1, <1>2, <2>1, <3>1, <3>3, <3>4
        <5>2. CASE n \in DOMAIN turns
          BY <5>2, <1>2, <2>1, <2>2, <3>1, <3>4 DEF IInv, Carriage, TurnsInOrder
        <5> QED BY <5>1, <5>2, <3>5
      <4> QED BY <4>1, <4>2, <4>3 DEF TurnsInOrder
    <3>12. Carried'
      <4>1. Turned(i)'
        BY <3>3, <3>4, Basics DEF Turned
      <4>2. \A j \in Ask : Live(j)' => j = i
        BY <2>1, <3>1, Basics DEF Live
      <4>3. \A j \in Ask : counting'[j] # "no" => ask'[j] # "queued"
        BY <1>2, <3>1 DEF IInv, Carriage, Carried
      <4>4. ~Live(session.redrive)'
        BY <2>1, <3>1, <4>2 DEF Live
      <4>5. session'.redrive # session'.current
        BY <2>1, <3>1
      <4>6. lost' # i
        BY <1>1, <1>3, <2>1
      <4> QED BY <4>1, <4>2, <4>3, <4>4, <4>5, <4>6, <2>1, <3>1 DEF Carried
    <3>13. PortsServeTheirAsk'
      <4>1. Live(i)'
        BY <2>1, <3>1 DEF Live
      <4> QED BY <4>1, <2>1, <2>2, <3>1, <3>3, <3>4, <3>5 DEF PortsServeTheirAsk
    <3> QED BY <3>7, <3>8, <3>9, <3>10, <3>11, <3>12, <3>13 DEF IInv, Carriage
  <2>5. CASE i \in Typed /\ ~(left.nudges > 0)
    <3>1. CancelAsk(i) /\ Settle(i) /\ UNCHANGED left
      BY <2>5, <1>6 DEF TurnEnded
    <3>2. AskType' /\ QuestionsType' /\ Carriage' /\ Questions'
      <4>1. \A j \in Ask : counting'[j] = counting[j] \/ counting'[j] = "no"
        BY <1>2
      <4>2. UNCHANGED <<left, minted>>
        BY <1>1, <3>1
      <4> QED BY <4>1, <4>2, <1>2, <2>1, <3>1, CancelKeeps
    <3>3. ask'[i] = "done" /\ \A j \in Ask : ask'[j] # "done" => ask[j] # "done"
      BY <3>1, Basics DEF Settle, AskType
    <3>4. session'.current = session.current
      BY <3>1, Basics DEF CancelAsk, Cancelled, AskType, SessionType
    <3>5. boundary' \in [Ask -> Nat \cup {None}] /\ Store'
      BY <1>1, <1>2, <3>3, <3>4, BoundaryKept
    <3>6. StoreType'
      BY <1>2, <1>4, <3>5 DEF StoreType
    <3> QED BY <3>2, <3>5, <3>6 DEF IInv, TypeOK
  <2> QED BY <2>3, <2>4, <2>5
<1> QED BY <1>5, <1>6 DEF Report

(***************************************************************************)
(* The turn fails: its ask, if the engine still waits for it, is settled   *)
(* or has the alarm; the alarm of an ask that is not live harms no other,  *)
(* since a live ask behind a turn that is ending is carried by a turn.     *)
(***************************************************************************)
LEMMA FailKeeps ==
  ASSUME IInv, Fail
  PROVE  IInv'
<1>1. /\ Running({"going", "ending"}) /\ turns # <<>> /\ turns' = Tail(turns) /\ Withdraw
      /\ UNCHANGED <<left, counting, counted, transcript, boundary, minted>>
  BY DEF Fail, Running
<1>0. PICK i \in Ask : i = First.ask
  BY <1>1, WithoutHead
<1>2. /\ turns' \in Seq(TurnType) /\ i \in Ask /\ counting[i] = "no" /\ ask[i] # "queued"
      /\ \A n \in DOMAIN turns' : n + 1 \in DOMAIN turns /\ turns'[n] = turns[n + 1]
      /\ \A n \in DOMAIN turns' : turns'[n].ask \in Ask /\ turns'[n].phase = "queued" /\ turns'[n].ask # i
      /\ \A m, n \in DOMAIN turns' : turns'[m].ask = turns'[n].ask => m = n
      /\ \A j \in Ask : Turned(j)' <=> Turned(j) /\ j # i
      /\ ~Live(session.redrive)
  BY <1>0, <1>1, WithoutHead
<1>3. QuestionsType' /\ Questions'
  BY <1>1, WithdrawKeeps, Basics DEF IInv, Questions
<1>4. Live(i) => session.current = i /\ ~session.cancelled /\ First.phase = "going"
  <2>1. 1 \in DOMAIN turns /\ First = turns[1]
    BY <1>1, TailTurns, Basics DEF First
  <2>2. Live(i) => First.phase # "ending"
    BY <2>1, <1>0, Basics DEF IInv, Carriage, TurnsInOrder
  <2> QED BY <2>2, <1>1, <1>2 DEF IInv, Carriage, OneByOne, Running
<1>4a. Turned(i)
  BY <1>0, <1>1, TailTurns, Basics DEF Turned, First
<1>4b. First.phase = "going" => Live(i)
  <2>1. 1 \in DOMAIN turns /\ First = turns[1]
    BY <1>1, TailTurns, Basics DEF First
  <2> QED BY <2>1, <1>0 DEF IInv, Carriage, PortsServeTheirAsk
<1>5. Live(i) => turns' = <<>>
  <2> SUFFICES ASSUME Live(i) PROVE turns' = <<>>
    OBVIOUS
  <2>1. \A n \in DOMAIN turns : n = 1
    BY <1>1, <1>4, HeadOfCurrent DEF Running
  <2>2. DOMAIN turns' = {}
    <3> SUFFICES ASSUME NEW n \in DOMAIN turns' PROVE FALSE
      OBVIOUS
    <3>1. n + 1 = 1 /\ n \in 1..Len(turns')
      BY <2>1, <1>2, LenProperties
    <3>2. Len(turns') \in Nat
      BY <1>2, LenProperties
    <3> QED BY <3>1, <3>2
  <2> QED BY <2>2, <1>2, EmptySeq, LenProperties
<1>6. i = session.current /\ ~Live(i) => session.accepted \/ session.cancelled
  <2> SUFFICES ASSUME i = session.current, ~Live(i) PROVE session.accepted \/ session.cancelled
    OBVIOUS
  <2>1. 1 \in DOMAIN turns /\ First = turns[1]
    BY <1>1, TailTurns, Basics DEF First
  <2>2. First.phase = "ending"
    BY <2>1, <1>0, <1>1 DEF IInv, Carriage, PortsServeTheirAsk, Running
  <2> QED BY <2>1, <2>2, <1>0 DEF IInv, Carriage, TurnsInOrder
<1>7. StoreType'
  BY <1>1, Basics DEF StoreType
<1>8. ASSUME ask' \in [Ask -> {"queued", "live", "done"}], \A j \in Ask : j # i => ask'[j] = ask[j],
             ask'[i] = ask[i] \/ ask'[i] = "done", session' \in SessionType,
             session'.current = session.current, session'.accepted = session.accepted,
             session'.cancelled = session.cancelled,
             \/ ask'[i] # "live" /\ session'.redrive = session.redrive /\ lost' = lost
             \/ session'.redrive = i /\ ~session.cancelled /\ ask' = ask /\ lost' = lost
             \/ Live(i) /\ session'.redrive = session.redrive /\ ask' = ask /\ lost' = i
      PROVE  IInv'
  <2>0. ~Live(i)' <=> ask'[i] # "live"
    BY DEF Live
  <2>1. TypeOK'
    BY <1>1, <1>2, <1>3, <1>7, <1>8, Basics DEF TypeOK, AskType
  <2>2. \A j \in Ask : Live(j)' => Live(j)
    BY <1>2, <1>8, Basics DEF Live
  <2>3. \A j \in Ask : j # i => (Live(j)' <=> Live(j))
    BY <1>8 DEF Live
  <2>4. OneByOne'
    <3>1. \A j, k \in Ask : j < k /\ ask'[k] # "queued" => ask'[j] = "done"
      BY <1>2, <1>8 DEF IInv, Carriage, OneByOne
    <3> QED BY <3>1, <2>2, <1>8 DEF IInv, Carriage, OneByOne
  <2>5. TurnsInOrder'
    BY <1>1, <1>2, <1>8 DEF IInv, Carriage, TurnsInOrder
  <2>6. Carried'
    <3>1. ASSUME NEW j \in Ask, Live(j)'
          PROVE  \/ lost' # j /\ Turned(j)' /\ session'.redrive # j
                 \/ lost' # j /\ counting'[j] # "no" /\ session'.redrive # j
                 \/ lost' # j /\ ~Turned(j)' /\ counting'[j] = "no" /\ session'.redrive = j
                 \/ lost' = j /\ ~Turned(j)' /\ counting'[j] = "no" /\ session'.redrive # j
      <4>1. CASE j = i
        <5>1. Live(i) /\ ~Turned(i)' /\ counting'[i] = "no"
          BY <4>1, <3>1, <2>2, <1>1, <1>2
        <5>2. lost # i /\ session.redrive # i
          BY <5>1, <1>2, <1>4a DEF IInv, Carriage, Carried
        <5> QED BY <4>1, <3>1, <2>0, <5>1, <5>2, <1>8
      <4>2. CASE j # i
        <5>1. Live(j) /\ session.redrive # j
          BY <4>2, <3>1, <2>3, <1>2
        <5>2. session'.redrive # j
          BY <4>2, <5>1, <1>8
        <5>3. Live(i) => i = j
          BY <5>1, Basics
        <5>4. lost' = lost
          BY <4>2, <5>3, <1>8
        <5> QED BY <4>2, <5>1, <5>2, <5>4, <1>1, <1>2 DEF IInv, Carriage, Carried
      <4> QED BY <4>1, <4>2
    <3>2. \A j \in Ask : counting'[j] # "no" => ask'[j] # "queued"
      BY <1>1, <1>2, <1>8 DEF IInv, Carriage, Carried
    <3>3. session'.redrive # None /\ session'.redrive = session'.current
            => session'.accepted \/ Live(session.redrive)'
      <4>1. CASE session'.redrive = session.redrive /\ session.redrive # i
        BY <4>1, <1>2, <1>8 DEF IInv, Carriage, Carried
      <4>2. CASE ask'[i] # "live" /\ session'.redrive = session.redrive /\ session.redrive = i
        <5> SUFFICES ASSUME i = session.current PROVE session.accepted
          BY <4>2, <1>8
        <5> QED BY <4>2, <1>2, Basics DEF IInv, Carriage, Carried
      <4>3. CASE session'.redrive = i /\ ~session.cancelled /\ ask' = ask
        BY <4>3, <1>6, <1>8 DEF Live
      <4>4. CASE Live(i) /\ session'.redrive = session.redrive
        BY <4>1, <4>4, <1>2
      <4> QED BY <4>1, <4>2, <4>3, <4>4, <1>8
    <3>4. Live(session.redrive)' => turns' = <<>>
      <4>1. CASE session'.redrive = i
        BY <4>1, <1>2, <1>5, <2>2
      <4>2. CASE session'.redrive = session.redrive
        <5>1. session.redrive \in Ask => ~Live(session.redrive)
          BY <1>2
        <5>2. ~Live(session.redrive)'
          BY <4>2, <5>1, <2>2 DEF Live
        <5> QED BY <5>2
      <4> QED BY <4>1, <4>2, <1>8
    <3> QED BY <3>1, <3>2, <3>3, <3>4 DEF Carried
  <2>7. PortsServeTheirAsk'
    BY <1>2, <1>8, <2>3 DEF IInv, Carriage, PortsServeTheirAsk
  <2>8. Store'
    <3>1. \A j \in Ask : ask'[j] # "done" => ask[j] # "done"
      BY <1>8
    <3> QED BY <3>1, <1>1, <1>8, StoreKept
  <2> QED BY <1>3, <2>1, <2>4, <2>5, <2>6, <2>7, <2>8 DEF IInv, Carriage
<1>8a. ask \in [Ask -> {"queued", "live", "done"}] /\ session \in SessionType
       /\ (~Live(i) => ask[i] # "live")
  BY Basics DEF AskType
<1>9. CASE Unheard /\ lost' = IF First.phase = "going" THEN First.ask ELSE lost
  <2>1. ask' = ask /\ session' = session
    BY <1>9 DEF Unheard
  <2>2. CASE Live(i)
    <3>1. lost' = i
      BY <2>2, <1>0, <1>4, <1>9
    <3> QED BY <2>1, <2>2, <3>1, <1>8, <1>8a
  <2>3. CASE ~Live(i)
    <3>1. First.phase # "going"
      BY <2>3, <1>0, <1>4b
    <3>2. lost' = lost
      BY <3>1, <1>9
    <3> QED BY <2>1, <2>3, <3>2, <1>8, <1>8a
  <2> QED BY <2>2, <2>3
<1>10. CASE FailAsk(i) /\ UNCHANGED lost
  <2>1. session' = session /\ (Live(i) => Settle(i)) /\ (~Live(i) => ask' = ask)
    BY <1>10 DEF FailAsk
  <2>2. CASE Live(i)
    <3>1. ask' = [ask EXCEPT ![i] = "done"]
      BY <2>1, <2>2 DEF Settle
    <3>2. ask' \in [Ask -> {"queued", "live", "done"}] /\ ask'[i] = "done" /\ \A j \in Ask : j # i => ask'[j] = ask[j]
      BY <3>1, <1>2, Basics DEF AskType
    <3> QED BY <2>1, <3>2, <1>8, <1>8a, <1>10
  <2>3. CASE ~Live(i)
    BY <2>1, <2>3, <1>8, <1>8a, <1>10
  <2> QED BY <2>2, <2>3
<1>11. CASE Redrive(i) /\ ~session.cancelled /\ UNCHANGED lost
  <2>1. session' = [session EXCEPT !.attempts = @ + 1, !.redrive = i] /\ ask' = ask
    BY <1>11 DEF Redrive
  <2>2. /\ session' \in SessionType /\ session'.current = session.current /\ session'.accepted = session.accepted
        /\ session'.cancelled = session.cancelled /\ session'.redrive = i
    <3>1. session \in SessionType /\ session.attempts + 1 \in Nat
      BY Basics DEF AskType, SessionType
    <3> QED BY <2>1, <3>1, <1>2 DEF SessionType
  <2> QED BY <2>1, <2>2, <1>8, <1>11, Basics DEF AskType
<1> QED BY <1>0, <1>9, <1>10, <1>11 DEF Fail

(* The run is stopped: what is live is queued again, and nothing carries it. *)
LEMMA StopKeeps ==
  ASSUME IInv, StopRun
  PROVE  IInv'
<1>1. /\ Withdraw /\ session' = NoSession /\ turns' = <<>> /\ counting' = [i \in Ask |-> "no"]
      /\ ask' = [i \in Ask |-> IF ask[i] = "live" THEN "queued" ELSE ask[i]]
      /\ counted' = [i \in Ask |-> None] /\ UNCHANGED <<left, transcript, boundary, minted>>
  BY DEF StopRun
<1>2. /\ session' \in SessionType /\ session'.current = 0 /\ session'.redrive = None
  BY <1>1 DEF NoSession, SessionType
<1>3. QuestionsType' /\ Questions'
  BY <1>1, WithdrawKeeps, Basics DEF IInv, Questions
<1>4. \A i \in Ask : ask'[i] \in {"queued", "done"} /\ (ask'[i] = "done" <=> ask[i] = "done")
  BY <1>1, Basics
<1>5. AskType' /\ StoreType'
  BY <1>1, <1>2, <1>4, Basics DEF AskType, StoreType
<1>6. \A i \in Ask : ~Live(i)'
  BY <1>4 DEF Live
<1>7. OneByOne'
  BY <1>4, <1>6, Basics DEF IInv, Carriage, OneByOne
<1>8. TurnsInOrder' /\ PortsServeTheirAsk'
  BY <1>1 DEF TurnsInOrder, PortsServeTheirAsk
<1>9. Carried'
  BY <1>1, <1>2, <1>6, Basics DEF Carried
<1>10. Store'
  BY <1>1, <1>2, <1>4 DEF IInv, Store, Messages, Counts, Boundaries, BoundaryIsOwn
<1> QED BY <1>3, <1>5, <1>7, <1>8, <1>9, <1>10 DEF IInv, TypeOK, Carriage

(* The alarm of a re-drive: the live ask that had it gets a turn for it. *)
LEMMA FireKeeps ==
  ASSUME IInv, Fire
  PROVE  IInv'
<1>1. PICK i : i = session.redrive
  OBVIOUS
<1>2. /\ i # None /\ session' = [session EXCEPT !.redrive = None]
      /\ UNCHANGED <<ask, left, counting, counted, transcript, boundary, question, registry, minted, lost>>
  BY <1>1 DEF Fire
<1>3. i \in Ask /\ session \in SessionType
  BY <1>1, <1>2, Basics DEF AskType
<1>4. /\ session' \in SessionType /\ session'.current = session.current /\ session'.accepted = session.accepted
      /\ session'.cancelled = session.cancelled /\ session'.redrive = None
  BY <1>2, <1>3 DEF SessionType
<1>5. ~Live(session.redrive)' /\ \A j \in Ask : (Live(j)' <=> Live(j))
  BY <1>2, <1>4, Basics DEF Live
<1>6. OneByOne'
  BY <1>2, <1>4, <1>5 DEF IInv, Carriage, OneByOne
<1>7. Store'
  BY <1>2, <1>4, StoreKept
<1>8. StoreType' /\ QuestionsType'
  BY <1>2, Basics DEF StoreType, QuestionsType
<1>9. Live(i) => session.current = i /\ ~session.accepted /\ ~session.cancelled
  BY <1>3 DEF IInv, Carriage, OneByOne
<1>10. CASE Live(i)
  <2>1. turns' = Append(turns, Turn(i)) /\ turns = <<>>
    BY <1>1, <1>9, <1>10 DEF Fire, IInv, Carriage, Carried
  <2>2. /\ turns' = <<Turn(i)>> /\ Turn(i) \in TurnType /\ Turn(i).ask = i /\ Turn(i).phase = "queued"
    BY <2>1, <1>3 DEF Turn, TurnType
  <2>3. turns' \in Seq(TurnType) /\ DOMAIN turns' = {1} /\ turns'[1] = Turn(i)
    BY <2>2
  <2>4. /\ \A j \in Ask : Live(j) => j = i
        /\ ask[i] = "live" /\ counting[i] = "no" /\ session.current = i /\ lost # i
    <3>1. \A j \in Ask : Live(j) => j = i
      BY <1>3, <1>10, Basics
    <3> QED BY <3>1, <1>1, <1>3, <1>9, <1>10, Basics DEF IInv, Carriage, Carried
  <2>5. TurnsInOrder'
    BY <2>2, <2>3, <2>4, <1>2 DEF TurnsInOrder
  <2>6. PortsServeTheirAsk'
    BY <2>2, <2>3, <2>4, <1>2, <1>3, <1>4 DEF PortsServeTheirAsk, Live
  <2>7. Carried'
    <3>1. \A j \in Ask : Live(j)' => Turned(j)'
      BY <1>5, <2>2, <2>3, <2>4 DEF Turned
    <3>2. \A j \in Ask : session'.redrive # j
      BY <1>4, Basics
    <3>3. \A j \in Ask : counting'[j] # "no" => ask'[j] # "queued"
      BY <1>2 DEF IInv, Carriage, Carried
    <3>4. \A j \in Ask : Live(j)' => lost' # j
      BY <1>2, <1>5, <2>4
    <3> QED BY <3>1, <3>2, <3>3, <3>4, <1>4, <1>5 DEF Carried
  <2>8. Questions'
    <3>1. \A q \in Waiting : FALSE
      BY <2>1 DEF IInv, Questions, Listening, Running
    <3>2. Waiting' = {}
      BY <3>1, <1>2 DEF Waiting
    <3>3. Parked'
      BY <1>2 DEF IInv, Questions, Parked, Waiting
    <3> QED BY <3>2, <3>3 DEF Questions, Listening
  <2>9. AskType'
    BY <1>2, <1>4, <2>3, Basics DEF AskType
  <2> QED BY <1>6, <1>7, <1>8, <2>5, <2>6, <2>7, <2>8, <2>9 DEF IInv, TypeOK, Carriage
<1>11. CASE ~Live(i)
  <2>1. turns' = turns
    BY <1>1, <1>2, <1>11 DEF Fire, IInv, Carriage, Carried
  <2>2. TurnsInOrder' /\ PortsServeTheirAsk'
    BY <1>2, <1>4, <2>1 DEF IInv, Carriage, TurnsInOrder, PortsServeTheirAsk, Live
  <2>3. Carried'
    <3>1. \A j \in Ask : Live(j) => session.redrive # j
      BY <1>1, <1>11
    <3>2. \A j \in Ask : Turned(j)' <=> Turned(j)
      BY <2>1 DEF Turned
    <3>3. \A j \in Ask : session'.redrive # j
      BY <1>4, Basics
    <3> QED BY <3>1, <3>2, <3>3, <1>2, <1>4, <1>5 DEF IInv, Carriage, Carried
  <2>4. Questions'
    BY <1>2, <2>1 DEF IInv, Questions, Parked, Listening, Waiting, Running, First
  <2>5. AskType'
    BY <1>2, <1>4, <2>1, Basics DEF AskType
  <2> QED BY <1>6, <1>7, <1>8, <2>2, <2>3, <2>4, <2>5 DEF IInv, TypeOK, Carriage
<1> QED BY <1>10, <1>11

LEMMA InitHolds ==
  ASSUME Init
  PROVE  IInv
<1>1. /\ ask = [i \in Ask |-> "queued"] /\ left = [repairs |-> 0, nudges |-> 0]
      /\ session = NoSession /\ turns = <<>> /\ counting = [i \in Ask |-> "no"] /\ counted = [i \in Ask |-> None]
      /\ transcript = <<>> /\ boundary = [i \in Ask |-> None] /\ question = <<>> /\ minted = 0
  BY DEF Init
<1>2. AskType /\ StoreType
  BY <1>1 DEF AskType, StoreType, NoSession, SessionType
<1>3. registry.parked = <<>> /\ registry.retired \in Seq(Id)
      /\ registry = [parked |-> registry.parked, retired |-> registry.retired]
  <2> DEFINE id == <<1, 1>>
  <2>1. id \in Id /\ id \in (Nat \X Nat)
    BY LimitAssumption DEF Id
  <2> HIDE DEF id
  <2>2. <<id>> \in Seq(Id) /\ <<>> \in Seq(Id)
    BY <2>1
  <2> DEFINE none == <<>>
             one == <<id>>
  <2>3. registry = [parked |-> none, retired |-> none] \/ registry = [parked |-> none, retired |-> one]
    BY DEF Init, id
  <2>4. none \in Seq(Id) /\ one \in Seq(Id)
    BY <2>2
  <2> HIDE DEF none, one
  <2>5. /\ registry.parked = none /\ registry.retired \in Seq(Id)
        /\ registry = [parked |-> registry.parked, retired |-> registry.retired]
    BY <2>3, <2>4
  <2> QED BY <2>5 DEF none
<1>4. <<>> \in UNION {[D -> Nat] : D \in SUBSET Id}
  <2>1. <<>> \in [{} -> Nat] /\ {} \in SUBSET Id
    OBVIOUS
  <2> QED BY <2>1
<1>5. QuestionsType
  <2> DEFINE P == UNION {[D -> Nat] : D \in SUBSET Id}
             R == Seq(Id)
  <2>1. registry.parked \in P /\ registry.retired \in R
    BY <1>3, <1>4
  <2> HIDE DEF P, R
  <2>2. registry \in [parked : P, retired : R]
    BY <2>1, <1>3
  <2> QED BY <2>2, <1>1 DEF P, R, QuestionsType, RegistryType
<1>6. \A i \in Ask : ~Live(i)
  BY <1>1 DEF Live
<1>7. Carriage
  <2>1. OneByOne
    BY <1>1, <1>6 DEF OneByOne
  <2>2. TurnsInOrder /\ PortsServeTheirAsk
    BY <1>1 DEF TurnsInOrder, PortsServeTheirAsk
  <2>3. Carried
    BY <1>1, <1>6, TypedAssumption DEF Carried, NoSession, Live, Ask
  <2> QED BY <2>1, <2>2, <2>3 DEF Carriage
<1>8. Questions
  BY <1>1, <1>3 DEF Questions, Parked, Listening, Waiting
<1>9. Store
  BY <1>1 DEF Store, Messages, Counts, Boundaries, BoundaryIsOwn
<1> QED BY <1>2, <1>5, <1>7, <1>8, <1>9 DEF IInv, TypeOK

LEMMA EveryStep ==
  ASSUME IInv, [Next]_vars
  PROVE  IInv'
<1>1. ASSUME NEW i \in Ask, Start(i) PROVE IInv'
  BY <1>1, StartKeeps
<1>2. ASSUME NEW i \in Ask, Count(i) PROVE IInv'
  BY <1>2, CountKeeps
<1>3. ASSUME NEW i \in Ask, Report(i) PROVE IInv'
  BY <1>3, ReportKeeps
<1>4. CASE Begin
  BY <1>4, BeginKeeps
<1>5. CASE Submit
  BY <1>5, SubmitKeeps
<1>6. CASE Escalate
  BY <1>6, EscalateKeeps
<1>7. CASE Resolve
  BY <1>7, ResolveKeeps
<1>8. CASE Fail
  BY <1>8, FailKeeps
<1>9. CASE FailForGood \/ Stop
  BY <1>9, StopKeeps DEF FailForGood, Stop
<1>10. CASE Fire
  BY <1>10, FireKeeps
<1>11. ASSUME NEW q \in DOMAIN question, Answer(q) PROVE IInv'
  BY <1>11, AnswerKeeps
<1>12. CASE Resume \/ UNCHANGED vars
  <2>1. /\ UNCHANGED <<ask, left, session, turns, counting, counted, transcript, boundary, question, registry, lost>>
        /\ minted' \in Nat
    BY <1>12, Basics DEF Resume, vars, QuestionsType
  <2>2. TypeOK'
    BY <2>1 DEF IInv, TypeOK, AskType, QuestionsType, StoreType
  <2>3. Carriage'
    BY <2>1, CarriageKept
  <2>4. Questions'
    BY <2>1 DEF IInv, Questions, Parked, Listening, Waiting, Running, First
  <2>5. Store'
    BY <2>1, StoreKept
  <2> QED BY <2>2, <2>3, <2>4, <2>5 DEF IInv
<1> QED BY <1>1, <1>2, <1>3, <1>4, <1>5, <1>6, <1>7, <1>8, <1>9, <1>10, <1>11, <1>12 DEF Next

-----------------------------------------------------------------------------
(***************************************************************************)
(* The ids: while the registry has room for all of them, an id that was    *)
(* asked for once is parked or has retired, so no question gets it again.  *)
(***************************************************************************)
AllRemembered == Remembered /\ Len(question) <= MaxQuestions

LEMMA SameQuestions ==
  ASSUME AllRemembered, UNCHANGED <<question, registry>>
  PROVE  AllRemembered'
BY DEF AllRemembered, Remembered, Waiting

LEMMA WithdrawnQuestions ==
  ASSUME IInv, AllRemembered, RoomForAll, Withdraw, minted' = minted
  PROVE  AllRemembered'
<1>1. Remembered'
  BY WithdrawRemembers, Basics DEF IInv, Questions, AllRemembered
<1>2. Len(question') = Len(question)
  BY WithdrawKeeps, Basics DEF IInv, Questions
<1> QED BY <1>1, <1>2 DEF AllRemembered

LEMMA EveryStepRemembers ==
  ASSUME IInv, AllRemembered, RoomForAll, [Next]_vars
  PROVE  AllRemembered'
<1>1. ASSUME NEW i \in Ask, Start(i) PROVE AllRemembered'
  BY <1>1, WithdrawnQuestions DEF Start
<1>2. ASSUME NEW i \in Ask, Count(i) PROVE AllRemembered'
  BY <1>2, SameQuestions DEF Count
<1>3. ASSUME NEW i \in Ask, Report(i) PROVE AllRemembered'
  <2>1. UNCHANGED <<question, registry>> \/ (Withdraw /\ minted' = minted)
    BY <1>3 DEF Report, TurnEnded, CancelAsk
  <2> QED BY <2>1, SameQuestions, WithdrawnQuestions
<1>4. CASE Begin \/ Resolve \/ Fire \/ Resume \/ UNCHANGED vars
  BY <1>4, SameQuestions DEF Begin, Resolve, Fire, Resume, vars
<1>5. CASE Submit
  <2>1. UNCHANGED <<question, registry>> \/ (Withdraw /\ minted' = minted)
    BY <1>5 DEF Submit, Accept, Reject, CancelAsk
  <2> QED BY <2>1, SameQuestions, WithdrawnQuestions
<1>6. CASE Escalate
  <2>1. CASE UNCHANGED <<question, registry>>
    BY <2>1, SameQuestions
  <2>2. CASE Free # {} /\ \E journalled \in BOOLEAN : Park(Shortest, journalled)
    <3>1. PICK journalled \in BOOLEAN : Park(Shortest, journalled)
      BY <2>2
    <3>2. Shortest \in Id /\ ~IsTaken(Shortest)
      BY <2>2, ShortestFacts, Basics
    <3>3. session.current \in Ask /\ Len(question) < MaxQuestions /\ minted' \in Nat
      BY <1>6, HeadOfCurrent, Basics DEF Escalate, Running, QuestionsType
    <3>4. Remembered'
      BY <3>1, <3>2, <3>3, ParkRemembers, Basics DEF IInv, Questions, AllRemembered
    <3>5. Len(question') = Len(question) + 1
      BY <3>1, <3>2, <3>3, ParkKeeps, Basics DEF IInv, Questions
    <3>6. Len(question) \in Nat /\ MaxQuestions \in Nat
      BY QuestionFacts, BudgetAssumption, Basics
    <3> QED BY <3>3, <3>4, <3>5, <3>6 DEF AllRemembered
  <2> QED BY <1>6, <2>1, <2>2 DEF Escalate
<1>7. CASE Fail
  BY <1>7, WithdrawnQuestions DEF Fail
<1>8. CASE FailForGood \/ Stop
  BY <1>8, WithdrawnQuestions DEF FailForGood, Stop, StopRun
<1>9. ASSUME NEW q \in DOMAIN question, Answer(q) PROVE AllRemembered'
  <2>1. Remembered'
    BY <1>9, AnswerRemembers DEF AllRemembered
  <2>2. Len(question') = Len(question)
    BY <1>9, AnswerFacts, Basics DEF IInv, Questions
  <2> QED BY <2>1, <2>2 DEF AllRemembered
<1> QED BY <1>1, <1>2, <1>3, <1>4, <1>5, <1>6, <1>7, <1>8, <1>9 DEF Next

LEMMA InitRemembers ==
  ASSUME Init
  PROVE  AllRemembered
<1>1. question = <<>> /\ registry.parked = <<>> /\ Len(registry.retired) \in {0, 1}
  <2>1. Len(<<>>) = 0
    OBVIOUS
  <2> DEFINE one == << <<1, 1>> >>
  <2>2. Len(one) = 1
    OBVIOUS
  <2> HIDE DEF one
  <2>3. question = <<>>
        /\ registry \in {[parked |-> <<>>, retired |-> <<>>], [parked |-> <<>>, retired |-> one]}
    BY DEF Init, one
  <2> QED BY <2>1, <2>2, <2>3
<1>2. Waiting = {}
  BY <1>1 DEF Waiting
<1>3. Cardinality(Waiting) = 0
  BY <1>2, FS_EmptySet
<1>4. Len(question) = 0
  BY <1>1
<1>5. Len(question) <= MaxQuestions
  BY <1>4, BudgetAssumption
<1>6. DOMAIN question = {} /\ DOMAIN registry.parked = {}
  BY <1>1
<1>7. Len(registry.retired) + Cardinality(Waiting) <= Len(question) + 1
  <2> DEFINE r == Len(registry.retired)
             w == Cardinality(Waiting)
             n == Len(question)
  <2>1. r \in {0, 1} /\ w = 0 /\ n = 0
    BY <1>1, <1>3, <1>4
  <2> HIDE DEF r, w, n
  <2>2. r + w <= n + 1
    BY <2>1
  <2> QED BY <2>2 DEF r, w, n
<1> QED BY <1>5, <1>6, <1>7 DEF AllRemembered, Remembered

-----------------------------------------------------------------------------
(* Carried counts, as the run states it. *)
LEMMA CarriedByOne ==
  ASSUME IInv
  PROVE  OneCarrier
<1> SUFFICES ASSUME NEW i \in Ask, Live(i) PROVE Carriers(i) = IF lost = i THEN 0 ELSE 1
  BY DEF OneCarrier
<1> DEFINE T == {n \in DOMAIN turns : turns[n].ask = i}
<1>1. CASE Turned(i)
  <2>1. PICK n \in DOMAIN turns : turns[n].ask = i
    BY <1>1 DEF Turned
  <2>2. T = {n} /\ counting[i] = "no" /\ session.redrive # i /\ lost # i
    BY <2>1, <1>1 DEF IInv, Carriage, TurnsInOrder, Carried
  <2>3. Cardinality(T) = 1
    BY <2>2, FS_Singleton
  <2> QED BY <2>2, <2>3 DEF Carriers
<1>2. CASE ~Turned(i)
  <2>1. T = {}
    BY <1>2 DEF Turned
  <2>2. Cardinality(T) = 0
    BY <2>1, FS_EmptySet
  <2>3. \/ lost # i /\ counting[i] # "no" /\ session.redrive # i
        \/ lost # i /\ counting[i] = "no" /\ session.redrive = i
        \/ lost = i /\ counting[i] = "no" /\ session.redrive # i
    BY <1>2 DEF IInv, Carriage, Carried
  <2> QED BY <2>2, <2>3 DEF Carriers
<1> QED BY <1>1, <1>2

(***************************************************************************)
(* The inductive invariant: one ask after the other, the turns of each in  *)
(* their order, what carries the live one, the registry and the waiting    *)
(* questions, and what the store holds of the asks that are over.          *)
(***************************************************************************)
THEOREM Inductive == Spec => []IInv
<1>1. Init => IInv
  BY InitHolds
<1>2. IInv /\ [Next]_vars => IInv'
  BY EveryStep
<1> QED BY <1>1, <1>2, PTL DEF Spec

(***************************************************************************)
(* An ask the engine waits for is carried by exactly one turn, count or    *)
(* armed re-drive, whatever fails in whatever order: it is neither         *)
(* forgotten nor worked on twice.  Only an ask whose turn ended in an      *)
(* AbortError that no cancellation of its own has caused is carried by     *)
(* none, and it is not worked on either.                                   *)
(***************************************************************************)
THEOREM CarriedOnce == Spec => []OneCarrier
<1>1. IInv => OneCarrier
  BY CarriedByOne
<1> QED BY <1>1, Inductive, PTL

(***************************************************************************)
(* The ports of a session, which route by its current ask, are only called *)
(* by turns of that ask, and the engine waits for it.                      *)
(***************************************************************************)
THEOREM PortsAreOfTheCurrentAsk == Spec => []PortsServeTheirAsk
<1>1. IInv => PortsServeTheirAsk
  BY DEF IInv, Carriage
<1> QED BY <1>1, Inductive, PTL

(***************************************************************************)
(* A journalled boundary separates the messages of its ask from those of   *)
(* the later ones, however late the count of the exchange comes back.      *)
(***************************************************************************)
THEOREM BoundariesSeparate == Spec => []BoundaryIsOwn
<1>1. IInv => BoundaryIsOwn
  BY DEF IInv, Store, Boundaries
<1> QED BY <1>1, Inductive, PTL

(***************************************************************************)
(* Every parked question has the turn that asked it waiting for its answer *)
(* and gets no other, over all lives of the run, as long as fewer are      *)
(* asked than RETIRED_HISTORY_LIMIT (256): an id that is no longer         *)
(* remembered might be minted again.                                       *)
(***************************************************************************)
THEOREM AnswersReachTheirQuestions ==
  ASSUME RoomForAll
  PROVE  Spec => []QuestionsHaveListeners
<1>1. Init => AllRemembered
  BY InitRemembers
<1>2. IInv /\ AllRemembered /\ [Next]_vars => AllRemembered'
  BY EveryStepRemembers
<1>3. IInv /\ AllRemembered => QuestionsHaveListeners
  <2> SUFFICES ASSUME IInv, AllRemembered PROVE QuestionsHaveListeners
    OBVIOUS
  <2>1. Waiting = {registry.parked[id] : id \in DOMAIN registry.parked}
    BY DEF IInv, Questions, Parked
  <2> QED BY <2>1 DEF QuestionsHaveListeners, IInv, Questions, Parked, Listening, AllRemembered, Remembered
<1> QED BY <1>1, <1>2, <1>3, Inductive, PTL DEF Spec
=============================================================================
