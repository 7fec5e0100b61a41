------------------------ MODULE RunConcurrencyProofs ------------------------
(***************************************************************************)
(* First the seat gate alone, for every set of sub-agents, every limit and *)
(* every number of tools: its invariants are inductive once they are taken *)
(* together with the scheduler's side of the bargain, one ask per          *)
(* sub-agent.  Then the scheduler and the gate together: the two counts    *)
(* agree, and nothing is dispatched while a sub-agent is parked.           *)
(***************************************************************************)
EXTENDS RunConcurrency, FiniteSetTheorems, SequenceTheorems, TLAPS

(* The scheduler never has two asks of one sub-agent in flight. *)
OneAskPerKey == \A a, b \in instances : KeyOf[a] = KeyOf[b] => a = b

IInv ==
    /\ TypeOK
    /\ OneAskPerKey
    /\ NobodyCountedTwice
    /\ ParkedMeansFull
    /\ AccountsForEveryAsk
    /\ WaitersAreParked

-----------------------------------------------------------------------------
(* Lemmas about the FIFO.                                                  *)

Distinct(p) == \A i, j \in 1..Len(p) : p[i] = p[j] => i = j

(* The first n members of a FIFO without repetition are n. *)
LEMMA GrantedAreMany ==
    ASSUME NEW p \in Seq(Key), Distinct(p), NEW n \in 0..Len(p)
    PROVE  /\ IsFiniteSet({p[i] : i \in 1..n})
           /\ Cardinality({p[i] : i \in 1..n}) = n
<1> DEFINE T == {p[i] : i \in 1..n}
<1> DEFINE f == [i \in 1..n |-> p[i]]
<1>1. f \in Bijection(1..n, T)
  BY DEF Distinct, Bijection, Injection, Surjection, IsInjective
<1>2. ExistsBijection(1..n, T)
  BY <1>1 DEF ExistsBijection
<1>3. IsFiniteSet(1..n) /\ Cardinality(1..n) = n
  BY FS_Interval
<1> QED
  BY <1>2, <1>3, FS_Bijection

(* Taking one member out of a FIFO without repetition. *)
LEMMA TakenOut ==
    ASSUME NEW p \in Seq(Key), Distinct(p), NEW s \in 1..Len(p)
    PROVE  /\ RemoveAt(p, s) \in Seq(Key)
           /\ Distinct(RemoveAt(p, s))
           /\ Range(RemoveAt(p, s)) = Range(p) \ {p[s]}
           /\ Len(RemoveAt(p, s)) = Len(p) - 1
<1> DEFINE l == SubSeq(p, 1, s - 1)
           r == SubSeq(p, s + 1, Len(p))
           q == RemoveAt(p, s)
<1>1. q = l \o r
  BY DEF RemoveAt
<1>2. /\ l \in Seq(Key) /\ Len(l) = s - 1
      /\ \A i \in 1..(s - 1) : l[i] = p[i]
  BY SubSeqProperties
<1>3. /\ r \in Seq(Key) /\ Len(r) = Len(p) - s
      /\ \A i \in 1..(Len(p) - s) : r[i] = p[s + i]
  <2>1. \A i \in (s + 1)..Len(p) : p[i] \in Key
    OBVIOUS
  <2> QED
    BY <2>1, SubSeqProperties, s + 1 \in Int, Len(p) \in Int
<1> HIDE DEF l, r, q
<1>4. q \in Seq(Key) /\ Len(q) = Len(p) - 1
  <2>1. l \o r \in Seq(Key) /\ Len(l \o r) = Len(l) + Len(r)
    BY <1>2, <1>3, ConcatProperties
  <2>2. Len(q) = (s - 1) + (Len(p) - s)
    BY <2>1, <1>1, <1>2, <1>3, Zenon
  <2>3. Len(p) \in Nat /\ s \in Nat
    OBVIOUS
  <2>4. Len(q) = Len(p) - 1
    BY ONLY <2>2, <2>3
  <2> QED
    BY <2>1, <2>4, <1>1
<1>5. \A i \in 1..(Len(p) - 1) : q[i] = IF i < s THEN p[i] ELSE p[i + 1]
  <2> SUFFICES ASSUME NEW i \in 1..(Len(p) - 1)
               PROVE  q[i] = IF i < s THEN p[i] ELSE p[i + 1]
    OBVIOUS
  <2>1. q[i] = IF i <= Len(l) THEN l[i] ELSE r[i - Len(l)]
    BY <1>1, <1>2, <1>3, ConcatProperties
  <2>2. CASE i < s
    BY <2>1, <2>2, <1>2
  <2>3. CASE i >= s
    <3>1. i - Len(l) = i - (s - 1) /\ i - (s - 1) \in 1..(Len(p) - s)
      BY <2>3, <1>2
    <3>2. r[i - (s - 1)] = p[s + (i - (s - 1))] /\ s + (i - (s - 1)) = i + 1
      BY <3>1, <1>3
    <3> QED
      BY <2>1, <2>3, <3>1, <3>2, <1>2
  <2> QED
    BY <2>2, <2>3
<1>6. Distinct(q)
  <2> SUFFICES ASSUME NEW i \in 1..(Len(p) - 1), NEW j \in 1..(Len(p) - 1), q[i] = q[j]
               PROVE  i = j
    BY <1>4 DEF Distinct
  <2>1. PICK ii \in 1..Len(p) : q[i] = p[ii] /\ ii = IF i < s THEN i ELSE i + 1
    BY <1>5
  <2>2. PICK jj \in 1..Len(p) : q[j] = p[jj] /\ jj = IF j < s THEN j ELSE j + 1
    BY <1>5
  <2>3. ii = jj
    BY <2>1, <2>2 DEF Distinct
  <2> QED
    BY <2>1, <2>2, <2>3
<1>7. Range(q) = Range(p) \ {p[s]}
  <2>1. DOMAIN q = 1..(Len(p) - 1) /\ DOMAIN p = 1..Len(p)
    BY <1>4
  <2>2. Range(q) \subseteq Range(p) \ {p[s]}
    BY <2>1, <1>5 DEF Range, Distinct
  <2>3. ASSUME NEW k \in Range(p) \ {p[s]} PROVE k \in Range(q)
    <3>1. PICK j \in 1..Len(p) : p[j] = k /\ j # s
      BY <2>1 DEF Range
    <3>2. CASE j < s
      BY <3>1, <3>2, <2>1, <1>5 DEF Range
    <3>3. CASE j > s
      <4>1. j - 1 \in 1..(Len(p) - 1) /\ q[j - 1] = p[j]
        BY <3>1, <3>3, <1>5
      <4> QED
        BY <4>1, <3>1, <2>1 DEF Range
    <3> QED
      BY <3>1, <3>2, <3>3
  <2> QED
    BY <2>2, <2>3
<1> QED
  BY <1>4, <1>6, <1>7 DEF q

(* What a grant leaves: nobody is lost, doubled, or waits for a free seat. *)
LEMMA UnparkFacts ==
    ASSUME NEW l \in Nat, NEW w \in SUBSET Key, NEW p \in Seq(Key), Distinct(p),
           w \cap Range(p) = {}, NEW r \in [Key -> RequestState],
           \A k \in Key : r[k] = "waiting" <=> k \in Range(p),
           UnparkInto(l, w, p, r)
    PROVE  /\ working' \in SUBSET Key
           /\ parked' \in Seq(Key)
           /\ request' \in [Key -> RequestState]
           /\ Distinct(parked')
           /\ working' \cap Range(parked') = {}
           /\ working' \cup Range(parked') = w \cup Range(p)
           /\ parked' # <<>> => Cardinality(working') >= l
           /\ Cardinality(working') + Len(parked') = Cardinality(w) + Len(p)
           /\ \A k \in Key : request'[k] = "waiting" <=> k \in Range(parked')
<1> DEFINE n == Grants(l, w, p)
           granted == {p[i] : i \in 1..n}
<1>0. IsFiniteSet(w) /\ Cardinality(w) \in Nat
  BY FS_Subset, FS_CardinalityType, KeyAssumption
<1>1. n \in 0..Len(p)
  BY <1>0 DEF Grants
<1>2. /\ working' = w \cup granted
      /\ parked' = SubSeq(p, n + 1, Len(p))
      /\ request' = [k \in Key |-> IF k \in granted THEN "admitted" ELSE r[k]]
  BY DEF UnparkInto
<1>3. /\ parked' \in Seq(Key)
      /\ Len(parked') = Len(p) - n
      /\ \A i \in 1..(Len(p) - n) : parked'[i] = p[n + i]
  <2>1. \A i \in (n + 1)..Len(p) : p[i] \in Key
    BY <1>1
  <2> QED
    BY <2>1, <1>1, <1>2, SubSeqProperties, n + 1 \in Int, Len(p) \in Int
<1>4. granted \subseteq Key /\ granted \subseteq Range(p)
  BY <1>1 DEF Range
<1>5. Range(parked') = Range(p) \ granted
  <2>1. DOMAIN parked' = 1..(Len(p) - n) /\ DOMAIN p = 1..Len(p)
    BY <1>3
  <2>2. Range(parked') \subseteq Range(p) \ granted
    <3> SUFFICES ASSUME NEW i \in 1..(Len(p) - n)
                 PROVE  parked'[i] \in Range(p) \ granted
      BY <2>1 DEF Range
    <3>1. parked'[i] = p[n + i] /\ n + i \in 1..Len(p) /\ n + i > n
      BY <1>1, <1>3
    <3> QED
      BY <3>1, <2>1, <1>1 DEF Range, Distinct
  <2>3. ASSUME NEW k \in Range(p) \ granted PROVE k \in Range(parked')
    <3>1. PICK j \in 1..Len(p) : p[j] = k
      BY <2>1 DEF Range
    <3>2. j > n
      BY <3>1, <1>1
    <3>3. j - n \in 1..(Len(p) - n) /\ parked'[j - n] = p[n + (j - n)] /\ n + (j - n) = j
      BY <3>2, <1>1, <1>3
    <3> QED
      BY <3>1, <3>3, <2>1 DEF Range
  <2> QED
    BY <2>2, <2>3
<1>6. Distinct(parked')
  <2> SUFFICES ASSUME NEW i \in 1..(Len(p) - n), NEW j \in 1..(Len(p) - n),
                      parked'[i] = parked'[j]
               PROVE  i = j
    BY <1>3 DEF Distinct
  <2>1. p[n + i] = p[n + j] /\ n + i \in 1..Len(p) /\ n + j \in 1..Len(p)
    BY <1>1, <1>3
  <2>2. n + i = n + j
    BY <2>1 DEF Distinct
  <2> QED
    BY <2>2, <1>1
<1>7. request' \in [Key -> RequestState]
  BY <1>2 DEF RequestState
<1>8. Cardinality(working') = Cardinality(w) + n
  <2>1. IsFiniteSet(granted) /\ Cardinality(granted) = n
    BY <1>1, GrantedAreMany
  <2>2. Cardinality(w \cap granted) = 0
    BY <1>4, FS_EmptySet
  <2>3. Cardinality(w \cup granted)
          = Cardinality(w) + Cardinality(granted) - Cardinality(w \cap granted)
    BY ONLY <2>1, <1>0, FS_Union
  <2> QED
    BY <2>1, <2>2, <2>3, <1>0, <1>1, <1>2
<1>9. parked' # <<>> => Cardinality(working') >= l
  <2> SUFFICES ASSUME parked' # <<>> PROVE Cardinality(working') >= l
    OBVIOUS
  <2>1. n < Len(p)
    BY <1>1, <1>3
  <2>2. n >= l - Cardinality(w)
    BY <2>1, <1>0 DEF Grants
  <2> QED
    BY <2>2, <1>0, <1>1, <1>8
<1>10. Cardinality(working') + Len(parked') = Cardinality(w) + Len(p)
  BY <1>0, <1>1, <1>3, <1>8
<1> QED
  BY <1>2, <1>3, <1>4, <1>5, <1>6, <1>7, <1>9, <1>10
-----------------------------------------------------------------------------
(* The invariants.                                                         *)

LEMMA Initially == Init => IInv
<1> SUFFICES ASSUME Init PROVE IInv
  OBVIOUS
<1>1. Range(<<>>) = {}
  BY DEF Range
<1>2. Cardinality({}) = 0
  BY FS_EmptySet
<1> QED
  BY <1>1, <1>2, MaxLimitAssumption
     DEF Init, IInv, TypeOK, RequestState, OneAskPerKey, NobodyCountedTwice, ParkedMeansFull,
         AccountsForEveryAsk, WaitersAreParked, Parked, Occupied

(* setLimit *)
LEMMA SetLimitKeepsIInv ==
    ASSUME IInv, NEW n \in 0..MaxLimit, SetLimit(n)
    PROVE  IInv'
<1>1. Clamp(n) \in 1..MaxLimit /\ Clamp(n) \in Nat
  BY MaxLimitAssumption DEF Clamp
<1>2. /\ UnparkInto(Clamp(n), working, parked, request)
      /\ limit' = Clamp(n) /\ UNCHANGED <<instances, tools>>
  BY DEF SetLimit
<1>3. /\ working \in SUBSET Key /\ parked \in Seq(Key) /\ request \in [Key -> RequestState]
      /\ Distinct(parked) /\ working \cap Range(parked) = {}
      /\ \A k \in Key : request[k] = "waiting" <=> k \in Range(parked)
  <2>1. DOMAIN parked = 1..Len(parked)
    BY DEF IInv, TypeOK
  <2> QED
    BY <2>1 DEF IInv, TypeOK, NobodyCountedTwice, WaitersAreParked, Parked, Distinct
<1>4. /\ working' \in SUBSET Key
      /\ parked' \in Seq(Key)
      /\ request' \in [Key -> RequestState]
      /\ Distinct(parked')
      /\ working' \cap Range(parked') = {}
      /\ working' \cup Range(parked') = working \cup Range(parked)
      /\ parked' # <<>> => Cardinality(working') >= Clamp(n)
      /\ \A k \in Key : request'[k] = "waiting" <=> k \in Range(parked')
  BY <1>1, <1>2, <1>3, UnparkFacts, Zenon
<1> QED
  BY <1>1, <1>2, <1>4
     DEF IInv, TypeOK, OneAskPerKey, NobodyCountedTwice, ParkedMeansFull,
         AccountsForEveryAsk, WaitersAreParked, Parked, Occupied, Distinct

(* startAsk *)
LEMMA AskStartedKeepsIInv ==
    ASSUME IInv, NEW a \in Ask, AskStarted(a)
    PROVE  IInv'
<1> DEFINE k == KeyOf[a]
<1>1. k \in Key /\ k \notin working /\ k \notin Parked
  BY KeyOfAssumption DEF AskStarted, IInv, AccountsForEveryAsk
<1>2. /\ instances' = instances \cup {a} /\ working' = working \cup {k}
      /\ tools' = [tools EXCEPT ![k] = 0] /\ UNCHANGED <<limit, parked, request>>
  BY <1>1 DEF AskStarted
<1>3. Occupied' = Occupied \cup {k} /\ Parked' = Parked
  BY <1>2 DEF Occupied, Parked
<1>4. TypeOK'
  BY <1>1, <1>2 DEF IInv, TypeOK
<1>5. OneAskPerKey'
  BY <1>2 DEF AskStarted, Occupied, IInv, OneAskPerKey
<1>6. ParkedMeansFull'
  <2>1. IsFiniteSet(working) /\ Cardinality(working) \in Nat /\ limit \in Nat
    BY FS_Subset, FS_CardinalityType, KeyAssumption DEF IInv, TypeOK
  <2>2. Cardinality(working') = Cardinality(working) + 1
    BY <1>1, <1>2, <2>1, FS_AddElement
  <2> QED
    BY <2>1, <2>2, <1>2 DEF IInv, ParkedMeansFull
<1>7. NobodyCountedTwice' /\ AccountsForEveryAsk' /\ WaitersAreParked'
  BY <1>1, <1>2, <1>3 DEF IInv, NobodyCountedTwice, AccountsForEveryAsk, WaitersAreParked
<1> QED
  BY <1>4, <1>5, <1>6, <1>7 DEF IInv

(* acquire, which parks or lets through *)
LEMMA AcquireKeepsIInv ==
    ASSUME IInv, NEW k \in Key, Acquire(k)
    PROVE  IInv'
<1>1. UNCHANGED <<limit, instances, tools>> /\ OneAskPerKey' /\ Occupied' = Occupied
  BY DEF Acquire, IInv, OneAskPerKey, Occupied
<1>2. CASE UNCHANGED <<working, parked>> /\ request' = [request EXCEPT ![k] = "admitted"]
  <2>1. request[k] # "waiting" /\ k \notin Parked
    BY DEF Acquire, IInv, WaitersAreParked
  <2> QED
    BY <1>1, <1>2, <2>1 DEF IInv, TypeOK, RequestState, NobodyCountedTwice, ParkedMeansFull,
                            AccountsForEveryAsk, WaitersAreParked, Parked
<1>3. CASE NeedsSeat(k) /\ Cardinality(working) > limit /\ Park(k)
  <2>1. /\ working' = working \ {k} /\ parked' = Append(parked, k)
        /\ request' = [request EXCEPT ![k] = "waiting"] /\ k \in working
    BY <1>3 DEF Park, NeedsSeat
  <2>2. k \notin Parked /\ parked \in Seq(Key)
    BY <2>1 DEF IInv, TypeOK, NobodyCountedTwice
  <2>3. /\ parked' \in Seq(Key) /\ Len(parked') = Len(parked) + 1
        /\ \A i \in 1..(Len(parked) + 1) :
              parked'[i] = IF i <= Len(parked) THEN parked[i] ELSE k
    BY <2>1, <2>2
  <2>4. Parked' = Parked \cup {k}
    <3>1. DOMAIN parked' = 1..(Len(parked) + 1) /\ DOMAIN parked = 1..Len(parked)
      BY <2>2, <2>3
    <3> QED
      BY <3>1, <2>2, <2>3 DEF Parked, Range
  <2>5. \A i, j \in 1..Len(parked') : parked'[i] = parked'[j] => i = j
    <3>1. \A i \in 1..Len(parked) : parked[i] # k
      BY <2>2 DEF Parked, Range
    <3> QED
      BY <2>2, <2>3, <3>1 DEF IInv, NobodyCountedTwice
  <2>6. ParkedMeansFull'
    <3>1. IsFiniteSet(working) /\ Cardinality(working) \in Nat /\ limit \in Nat
      BY FS_Subset, FS_CardinalityType, KeyAssumption DEF IInv, TypeOK
    <3>2. Cardinality(working') = Cardinality(working) - 1
      BY <2>1, <3>1, FS_RemoveElement
    <3> QED
      BY <3>1, <3>2, <1>1, <1>3 DEF ParkedMeansFull
  <2>7. TypeOK' /\ WaitersAreParked'
    BY <1>1, <2>1, <2>3, <2>4 DEF IInv, TypeOK, RequestState, WaitersAreParked
  <2>8. NobodyCountedTwice' /\ AccountsForEveryAsk'
    BY <1>1, <2>1, <2>4, <2>5 DEF IInv, NobodyCountedTwice, AccountsForEveryAsk
  <2> QED
    BY <1>1, <2>6, <2>7, <2>8 DEF IInv
<1> QED
  BY <1>2, <1>3 DEF Acquire

(* The turn loop: requests and tools that end. *)
LEMMA TurnKeepsIInv ==
    ASSUME IInv, NEW k \in Key, RequestDone(k) \/ ToolDone(k)
    PROVE  IInv'
<1>1. /\ UNCHANGED <<limit, working, parked, instances>>
      /\ tools' \in [Key -> Nat]
      /\ request' = request \/ request' = [request EXCEPT ![k] = "idle"]
      /\ request' # request => request[k] = "admitted"
  <2>1. CASE RequestDone(k)
    <3>1. PICK started \in {0, 1} : tools' = [tools EXCEPT ![k] = @ + started]
      BY <2>1 DEF RequestDone
    <3>2. tools' \in [Key -> Nat]
      BY <3>1 DEF IInv, TypeOK
    <3> QED
      BY <2>1, <3>2 DEF RequestDone
  <2>2. CASE ToolDone(k)
    <3>1. tools' = [tools EXCEPT ![k] = @ - 1] /\ tools[k] > 0 /\ tools \in [Key -> Nat]
      BY <2>2 DEF ToolDone, IInv, TypeOK
    <3>2. tools' \in [Key -> Nat]
      BY <3>1
    <3> QED
      BY <2>2, <3>2 DEF ToolDone
  <2> QED
    BY <2>1, <2>2
<1>2. request' \in [Key -> RequestState]
  BY <1>1 DEF IInv, TypeOK, RequestState
<1>3. WaitersAreParked'
  BY <1>1 DEF IInv, TypeOK, WaitersAreParked, Parked
<1> QED
  BY <1>1, <1>2, <1>3 DEF IInv, TypeOK, OneAskPerKey, NobodyCountedTwice, ParkedMeansFull,
                          AccountsForEveryAsk, Parked, Occupied

(* A parked sub-agent that leaves the FIFO leaves it exactly once. *)
LEMMA LeaveFacts ==
    ASSUME IInv, NEW k \in Key, k \in Parked, Leave(k)
    PROVE  /\ parked' \in Seq(Key)
           /\ \A i, j \in 1..Len(parked') : parked'[i] = parked'[j] => i = j
           /\ Parked' = Parked \ {k}
           /\ parked # <<>>
           /\ request' = [request EXCEPT ![k] = "idle"]
<1>1. parked \in Seq(Key) /\ Distinct(parked) /\ DOMAIN parked = 1..Len(parked)
  BY DEF IInv, TypeOK, NobodyCountedTwice, Distinct
<1>2. \E i \in DOMAIN parked : parked[i] = k
  BY DEF Parked, Range
<1>3. Seat(k) \in 1..Len(parked) /\ parked[Seat(k)] = k
  BY <1>1, <1>2 DEF Seat
<1>4. parked' = RemoveAt(parked, Seat(k)) /\ request' = [request EXCEPT ![k] = "idle"]
  BY DEF Leave
<1>5. /\ RemoveAt(parked, Seat(k)) \in Seq(Key)
      /\ Distinct(RemoveAt(parked, Seat(k)))
      /\ Range(RemoveAt(parked, Seat(k))) = Range(parked) \ {parked[Seat(k)]}
  BY <1>1, <1>3, TakenOut, Zenon
<1>6. parked # <<>>
  BY <1>1, <1>3
<1> QED
  BY <1>3, <1>4, <1>5, <1>6 DEF Distinct, Parked

(* onAbort *)
LEMMA AbortParkedKeepsIInv ==
    ASSUME IInv, NEW k \in Key, AbortParked(k)
    PROVE  IInv'
<1>1. k \in Parked /\ Leave(k) /\ working' = working \cup {k}
      /\ UNCHANGED <<limit, instances, tools>>
  BY DEF AbortParked, BackToWork
<1>2. /\ parked' \in Seq(Key)
      /\ \A i, j \in 1..Len(parked') : parked'[i] = parked'[j] => i = j
      /\ Parked' = Parked \ {k}
      /\ parked # <<>>
      /\ request' = [request EXCEPT ![k] = "idle"]
  BY <1>1, LeaveFacts
<1>3. TypeOK' /\ OneAskPerKey' /\ Occupied' = Occupied
  BY <1>1, <1>2 DEF IInv, TypeOK, RequestState, OneAskPerKey, Occupied
<1>4. ParkedMeansFull'
  <2>1. IsFiniteSet(working) /\ Cardinality(working) \in Nat /\ limit \in Nat
    BY FS_Subset, FS_CardinalityType, KeyAssumption DEF IInv, TypeOK
  <2>2. Cardinality(working') >= Cardinality(working) /\ Cardinality(working') \in Nat
    <3>1. Cardinality(working \cup {k})
            = IF k \in working THEN Cardinality(working) ELSE Cardinality(working) + 1
      BY <2>1, FS_AddElement, Zenon
    <3> QED
      BY <1>1, <2>1, <3>1
  <2>3. Cardinality(working) >= limit
    BY <1>2 DEF IInv, ParkedMeansFull
  <2> QED
    BY <1>1, <2>1, <2>2, <2>3 DEF ParkedMeansFull
<1>5. NobodyCountedTwice' /\ AccountsForEveryAsk'
  BY <1>1, <1>2, <1>3 DEF IInv, NobodyCountedTwice, AccountsForEveryAsk
<1>6. WaitersAreParked'
  BY <1>2 DEF IInv, TypeOK, WaitersAreParked
<1> QED
  BY <1>3, <1>4, <1>5, <1>6 DEF IInv

(* node-settled *)
LEMMA AskSettledKeepsIInv ==
    ASSUME IInv, NEW a \in Ask, AskSettled(a)
    PROVE  IInv'
<1> DEFINE k == KeyOf[a]
<1>1. /\ a \in instances /\ k \in Key /\ instances' = instances \ {a}
      /\ UNCHANGED <<limit, tools>>
  BY KeyOfAssumption DEF AskSettled
<1>2. OneAskPerKey' /\ Occupied' = Occupied \ {k}
  BY <1>1 DEF IInv, OneAskPerKey, Occupied
<1>3. CASE k \in Parked
  <2>1. Leave(k) /\ UNCHANGED working
    BY <1>3 DEF AskSettled
  <2>2. /\ parked' \in Seq(Key)
        /\ \A i, j \in 1..Len(parked') : parked'[i] = parked'[j] => i = j
        /\ Parked' = Parked \ {k}
        /\ parked # <<>>
        /\ request' = [request EXCEPT ![k] = "idle"]
    BY <1>1, <1>3, <2>1, LeaveFacts
  <2>3. TypeOK'
    BY <1>1, <2>1, <2>2 DEF IInv, TypeOK, RequestState
  <2>4. k \notin working
    BY <1>3 DEF IInv, NobodyCountedTwice
  <2>5. NobodyCountedTwice' /\ AccountsForEveryAsk' /\ WaitersAreParked'
    BY <1>1, <1>2, <2>1, <2>2, <2>4
       DEF IInv, TypeOK, NobodyCountedTwice, AccountsForEveryAsk, WaitersAreParked
  <2>6. ParkedMeansFull'
    BY <1>1, <2>1, <2>2 DEF IInv, ParkedMeansFull
  <2> QED
    BY <1>2, <2>3, <2>5, <2>6 DEF IInv
<1>4. CASE k \notin Parked
  <2>1. k \in working
    BY <1>1, <1>4 DEF IInv, AccountsForEveryAsk, Occupied
  <2>2. UnparkInto(limit, working \ {k}, parked, request)
    BY <1>4, <2>1 DEF AskSettled
  <2>3. /\ working \ {k} \in SUBSET Key /\ parked \in Seq(Key)
        /\ request \in [Key -> RequestState] /\ limit \in Nat
        /\ Distinct(parked) /\ (working \ {k}) \cap Range(parked) = {}
        /\ \A j \in Key : request[j] = "waiting" <=> j \in Range(parked)
    BY DEF IInv, TypeOK, NobodyCountedTwice, WaitersAreParked, Parked, Distinct
  <2>4. /\ working' \in SUBSET Key
        /\ parked' \in Seq(Key)
        /\ request' \in [Key -> RequestState]
        /\ Distinct(parked')
        /\ working' \cap Range(parked') = {}
        /\ working' \cup Range(parked') = (working \ {k}) \cup Range(parked)
        /\ parked' # <<>> => Cardinality(working') >= limit
        /\ \A j \in Key : request'[j] = "waiting" <=> j \in Range(parked')
    BY <2>2, <2>3, UnparkFacts, Zenon
  <2>5. Occupied' = (working \ {k}) \cup Range(parked)
    BY <1>2, <1>4 DEF IInv, AccountsForEveryAsk, Parked
  <2>6. AccountsForEveryAsk'
    BY <2>4, <2>5 DEF AccountsForEveryAsk, Parked
  <2>7. TypeOK' /\ WaitersAreParked'
    BY <1>1, <2>4 DEF IInv, TypeOK, WaitersAreParked, Parked
  <2>8. NobodyCountedTwice' /\ ParkedMeansFull'
    BY <1>1, <2>4 DEF NobodyCountedTwice, ParkedMeansFull, Parked, Distinct
  <2> QED
    BY <1>2, <2>6, <2>7, <2>8 DEF IInv
<1> QED
  BY <1>3, <1>4

LEMMA StutterKeepsIInv == IInv /\ UNCHANGED vars => IInv'
BY DEF IInv, vars, TypeOK, OneAskPerKey, NobodyCountedTwice, ParkedMeansFull,
       AccountsForEveryAsk, WaitersAreParked, Parked, Occupied

LEMMA StepKeepsIInv == IInv /\ [Next]_vars => IInv'
<1> SUFFICES ASSUME IInv, [Next]_vars PROVE IInv'
  OBVIOUS
<1>1. ASSUME NEW n \in 0..MaxLimit, SetLimit(n) PROVE IInv'
  BY <1>1, SetLimitKeepsIInv
<1>2. ASSUME NEW a \in Ask, AskStarted(a) PROVE IInv'
  BY <1>2, AskStartedKeepsIInv
<1>3. ASSUME NEW a \in Ask, AskSettled(a) PROVE IInv'
  BY <1>3, AskSettledKeepsIInv
<1>4. ASSUME NEW k \in Key, Acquire(k) PROVE IInv'
  BY <1>4, AcquireKeepsIInv
<1>5. ASSUME NEW k \in Key, RequestDone(k) \/ ToolDone(k) PROVE IInv'
  BY <1>5, TurnKeepsIInv
<1>6. ASSUME NEW k \in Key, AbortParked(k) PROVE IInv'
  BY <1>6, AbortParkedKeepsIInv
<1>7. CASE UNCHANGED vars
  BY <1>7, StutterKeepsIInv
<1> QED
  BY <1>1, <1>2, <1>3, <1>4, <1>5, <1>6, <1>7 DEF Next

(* The inductive invariant holds in every reachable state of the gate. *)
THEOREM InductiveInvariant == Spec => []IInv
BY Initially, StepKeepsIInv, PTL DEF Spec

(***************************************************************************)
(* The gate's variables keep their types, the limit its range.             *)
(***************************************************************************)
THEOREM TypeCorrectness == Spec => []TypeOK
<1>1. IInv => TypeOK
  BY DEF IInv
<1> QED
  BY <1>1, InductiveInvariant, PTL

(***************************************************************************)
(* Whatever the number of sub-agents and wherever the limit moves, a       *)
(* parked sub-agent always waits behind a full set of seats, so somebody   *)
(* is working who will free one (the limit is at least one).               *)
(***************************************************************************)
THEOREM ParkedOnlyWhenFull == Spec => []ParkedMeansFull
<1>1. IInv => ParkedMeansFull
  BY DEF IInv
<1> QED
  BY <1>1, InductiveInvariant, PTL

(***************************************************************************)
(* The arithmetic the scheduler relies on: sub-agents with an ask in       *)
(* flight are the working ones and the parked ones, each counted once.     *)
(***************************************************************************)
THEOREM EveryAskCountedOnce == Spec => [](AccountsForEveryAsk /\ NobodyCountedTwice)
<1>1. IInv => AccountsForEveryAsk /\ NobodyCountedTwice
  BY DEF IInv
<1> QED
  BY <1>1, InductiveInvariant, PTL

(***************************************************************************)
(* A request sleeps inside acquireSeat exactly while it is in the FIFO.    *)
(***************************************************************************)
THEOREM NoForgottenWaiter == Spec => []WaitersAreParked
<1>1. IInv => WaitersAreParked
  BY DEF IInv
<1> QED
  BY <1>1, InductiveInvariant, PTL

-----------------------------------------------------------------------------
(* What the steps admit.                                                   *)

NewlyAdmitted(k) == request[k] # "admitted" /\ request'[k] = "admitted"

(***************************************************************************)
(* A grant serves the front of the FIFO and does not exceed the limit.     *)
(***************************************************************************)
LEMMA UnparkServesFront ==
    ASSUME NEW l \in Nat, NEW w \in SUBSET Key, NEW p \in Seq(Key), Distinct(p),
           NEW r \in [Key -> RequestState], UnparkInto(l, w, p, r)
    PROVE  /\ \A i, j \in 1..Len(p) :
                 i < j /\ p[j] \notin Range(parked') => p[i] \notin Range(parked')
           /\ \A k \in Key : r[k] # "admitted" /\ request'[k] = "admitted"
                               => Cardinality(working') <= l
<1> DEFINE n == Grants(l, w, p)
           granted == {p[i] : i \in 1..n}
<1>0. IsFiniteSet(w) /\ Cardinality(w) \in Nat
  BY FS_Subset, FS_CardinalityType, KeyAssumption
<1>1. n \in 0..Len(p) /\ (n > 0 => n <= l - Cardinality(w))
  BY <1>0 DEF Grants
<1>2. /\ working' = w \cup granted
      /\ parked' = SubSeq(p, n + 1, Len(p))
      /\ request' = [k \in Key |-> IF k \in granted THEN "admitted" ELSE r[k]]
  BY DEF UnparkInto
<1> HIDE DEF n
<1>3. /\ DOMAIN parked' = 1..(Len(p) - n)
      /\ \A i \in 1..(Len(p) - n) : parked'[i] = p[n + i]
  <2>1. \A i \in (n + 1)..Len(p) : p[i] \in Key
    BY <1>1
  <2> QED
    BY <2>1, <1>1, <1>2, SubSeqProperties, n + 1 \in Int, Len(p) \in Int
<1>4. ASSUME NEW j \in 1..Len(p), p[j] \notin Range(parked') PROVE j <= n
  <2>1. j > n => j - n \in 1..(Len(p) - n) /\ parked'[j - n] = p[n + (j - n)] /\ n + (j - n) = j
    BY <1>1, <1>3
  <2> QED
    BY <2>1, <1>1, <1>3, <1>4 DEF Range
<1>5. ASSUME NEW i \in 1..Len(p), i <= n PROVE p[i] \notin Range(parked')
  <2> SUFFICES ASSUME NEW m \in 1..(Len(p) - n), p[i] = p[n + m] PROVE FALSE
    BY <1>3 DEF Range
  <2> QED
    BY <1>1, <1>5 DEF Distinct
<1>6. \A i, j \in 1..Len(p) : i < j /\ p[j] \notin Range(parked') => p[i] \notin Range(parked')
  BY <1>1, <1>4, <1>5
<1>7. ASSUME NEW k \in Key, r[k] # "admitted", request'[k] = "admitted"
      PROVE  Cardinality(working') <= l
  <2>1. n > 0
    BY <1>1, <1>2, <1>7
  <2>2. IsFiniteSet(granted) /\ Cardinality(granted) = n
    BY <1>1, GrantedAreMany
  <2>3. Cardinality(w \cup granted)
          = Cardinality(w) + Cardinality(granted) - Cardinality(w \cap granted)
    BY ONLY <2>2, <1>0, FS_Union
  <2>4. Cardinality(w \cap granted) \in Nat
    BY <1>0, FS_Intersection, FS_CardinalityType
  <2> QED
    BY <2>1, <2>2, <2>3, <2>4, <1>0, <1>1, <1>2
<1> QED
  BY <1>6, <1>7

(***************************************************************************)
(* Each step of the gate serves the front of the FIFO, and those it admits *)
(* are within the limit, or need no seat.                                  *)
(***************************************************************************)
Orderly ==
    /\ \A i, j \in 1..Len(parked) :
          i < j /\ request[parked[j]] = "waiting" /\ request'[parked[j]] = "admitted"
             => parked[i] \notin Range(parked')
    /\ \A k \in Key : NewlyAdmitted(k) /\ k \in Occupied /\ tools[k] = 0
                        => Cardinality(working') <= limit'

(* Where nobody is admitted there is nothing to show. *)
LEMMA NobodyAdmitted ==
    ASSUME IInv, \A k \in Key : ~NewlyAdmitted(k)
    PROVE  Orderly
<1>1. \A j \in 1..Len(parked) : parked[j] \in Key
  BY DEF IInv, TypeOK
<1> QED
  BY <1>1 DEF Orderly, NewlyAdmitted

(* setLimit and the settlement of a working sub-agent's ask. *)
LEMMA UnparkOrderly ==
    ASSUME IInv, IInv', NEW w \in SUBSET working, UnparkInto(limit', w, parked, request)
    PROVE  Orderly
<1>1. /\ limit' \in Nat /\ w \in SUBSET Key /\ parked \in Seq(Key) /\ Distinct(parked)
      /\ request \in [Key -> RequestState]
  BY DEF IInv, TypeOK, NobodyCountedTwice, Distinct
<1>2. /\ \A i, j \in 1..Len(parked) :
            i < j /\ parked[j] \notin Range(parked') => parked[i] \notin Range(parked')
      /\ \A k \in Key : request[k] # "admitted" /\ request'[k] = "admitted"
                          => Cardinality(working') <= limit'
  BY <1>1, UnparkServesFront
<1>3. \A k \in Key : request'[k] = "admitted" => k \notin Range(parked')
  BY DEF IInv, WaitersAreParked, Parked
<1>4. \A j \in 1..Len(parked) : parked[j] \in Key
  BY <1>1
<1> QED
  BY <1>2, <1>3, <1>4 DEF Orderly, NewlyAdmitted

LEMMA StepOrderly == IInv /\ IInv' /\ [Next]_vars => [Orderly]_vars
<1> SUFFICES ASSUME IInv, IInv', Next PROVE Orderly
  OBVIOUS
<1>0. request \in [Key -> RequestState]
  BY DEF IInv, TypeOK
<1>1. ASSUME NEW n \in 0..MaxLimit, SetLimit(n) PROVE Orderly
  BY <1>1, UnparkOrderly DEF SetLimit
<1>2. ASSUME NEW a \in Ask, AskStarted(a) PROVE Orderly
  BY <1>2, NobodyAdmitted DEF AskStarted, NewlyAdmitted
<1>3. ASSUME NEW a \in Ask, AskSettled(a) PROVE Orderly
  <2>1. CASE UNCHANGED request \/ Leave(KeyOf[a])
    BY <2>1, <1>0, NobodyAdmitted DEF Leave, NewlyAdmitted
  <2>2. CASE UnparkInto(limit, working \ {KeyOf[a]}, parked, request)
    BY <2>2, <1>3, UnparkOrderly DEF AskSettled
  <2> QED
    BY <1>3, <2>1, <2>2 DEF AskSettled
<1>4. ASSUME NEW k \in Key, Acquire(k) PROVE Orderly
  <2>1. CASE Park(k)
    BY <2>1, <1>0, NobodyAdmitted DEF Park, NewlyAdmitted
  <2>2. CASE /\ ~(NeedsSeat(k) /\ Cardinality(working) > limit)
             /\ request' = [request EXCEPT ![k] = "admitted"]
             /\ UNCHANGED <<limit, working, parked>>
    <3>1. k \notin Parked
      BY <1>4 DEF Acquire, IInv, WaitersAreParked
    <3>2. k \in Occupied /\ tools[k] = 0 => Cardinality(working) <= limit
      <4>1. IsFiniteSet(working) /\ Cardinality(working) \in Nat /\ limit \in Nat
        BY FS_Subset, FS_CardinalityType, KeyAssumption DEF IInv, TypeOK
      <4> QED
        BY <4>1, <3>1, <2>2 DEF NeedsSeat, IInv, AccountsForEveryAsk
    <3>3. \A j \in Key : request'[j] # request[j] => j = k
      BY <2>2, <1>0
    <3>4. request[k] = "idle"
      BY <1>4 DEF Acquire
    <3>5. \A j \in 1..Len(parked) : parked[j] \in Key
      BY DEF IInv, TypeOK
    <3> QED
      BY <2>2, <3>2, <3>3, <3>4, <3>5 DEF Orderly, NewlyAdmitted
  <2> QED
    BY <1>4, <2>1, <2>2 DEF Acquire
<1>5. ASSUME NEW k \in Key, RequestDone(k) \/ ToolDone(k) PROVE Orderly
  BY <1>5, <1>0, NobodyAdmitted DEF RequestDone, ToolDone, NewlyAdmitted
<1>6. ASSUME NEW k \in Key, AbortParked(k) PROVE Orderly
  BY <1>6, <1>0, NobodyAdmitted DEF AbortParked, Leave, NewlyAdmitted
<1> QED
  BY <1>1, <1>2, <1>3, <1>4, <1>5, <1>6 DEF Next

(***************************************************************************)
(* Seats are given in the order in which sub-agents were parked.           *)
(***************************************************************************)
THEOREM SeatsInOrder == Spec => Fifo
<1>1. [Orderly]_vars
        => [\A i, j \in 1..Len(parked) :
               (i < j /\ request[parked[j]] = "waiting" /\ request'[parked[j]] = "admitted")
                  => parked[i] \notin Range(parked')]_vars
  BY DEF Orderly
<1> QED
  BY <1>1, StepOrderly, InductiveInvariant, PTL DEF Spec, Fifo

(***************************************************************************)
(* A lowered limit holds from the next turn step on: none is admitted      *)
(* while more sub-agents work than the limit allows.                       *)
(***************************************************************************)
THEOREM LoweringTakesEffect == Spec => NoTurnStepOverLimit
<1>1. [Orderly]_vars
        => [\A k \in Key :
               (request[k] # "admitted" /\ request'[k] = "admitted"
                /\ k \in Occupied /\ tools[k] = 0)
                  => Cardinality(working') <= limit']_vars
  BY DEF Orderly, NewlyAdmitted
<1> QED
  BY <1>1, StepOrderly, InductiveInvariant, PTL DEF Spec, NoTurnStepOverLimit

-----------------------------------------------------------------------------
(***************************************************************************)
(* The inductive invariant: the gate's own, plus what ties the scheduler's *)
(* asks to the gate's.  An actor has one ask in flight, which is either    *)
(* dispatching or known to the gate.                                       *)
(***************************************************************************)
InFlight == dispatching \cup instances
OneInFlight == \A a, b \in InFlight : KeyOf[a] = KeyOf[b] => a = b

RCInv ==
    /\ IInv
    /\ RCTypeOK
    /\ CountsAgree
    /\ OneInFlight
    /\ dispatching \cap instances = {}

-----------------------------------------------------------------------------
(* What the gate's actions do to its two counts.                           *)

Counted == Cardinality(working) + Len(parked)

LEMMA GateSizes ==
    ASSUME IInv
    PROVE  /\ IsFiniteSet(working) /\ Cardinality(working) \in Nat
           /\ Len(parked) \in Nat /\ limit \in Nat
BY FS_Subset, FS_CardinalityType, KeyAssumption DEF IInv, TypeOK

LEMMA SetLimitCounts ==
    ASSUME IInv, NEW n \in 1..MaxLimit, SetLimit(n)
    PROVE  Counted' = Counted /\ limit' = n /\ UNCHANGED instances
<1>1. Clamp(n) = n /\ n \in Nat
  BY DEF Clamp
<1>2. UnparkInto(n, working, parked, request) /\ limit' = n /\ UNCHANGED instances
  BY <1>1 DEF SetLimit
<1>3. /\ working \in SUBSET Key /\ parked \in Seq(Key) /\ request \in [Key -> RequestState]
      /\ Distinct(parked) /\ working \cap Range(parked) = {}
      /\ \A k \in Key : request[k] = "waiting" <=> k \in Range(parked)
  BY DEF IInv, TypeOK, NobodyCountedTwice, WaitersAreParked, Parked, Distinct
<1>4. Cardinality(working') + Len(parked') = Cardinality(working) + Len(parked)
  BY <1>1, <1>2, <1>3, UnparkFacts, Zenon
<1> QED
  BY <1>2, <1>4 DEF Counted

LEMMA AskStartedCounts ==
    ASSUME IInv, NEW a \in Ask, AskStarted(a)
    PROVE  /\ Counted' = Counted + 1
           /\ instances' = instances \cup {a} /\ UNCHANGED <<limit, parked>>
<1>1. KeyOf[a] \notin working /\ KeyOf[a] \notin Parked
  BY DEF AskStarted, IInv, AccountsForEveryAsk
<1>2. working' = working \cup {KeyOf[a]} /\ UNCHANGED <<limit, parked>>
      /\ instances' = instances \cup {a}
  BY <1>1 DEF AskStarted
<1>3. Cardinality(working \cup {KeyOf[a]}) = Cardinality(working) + 1
  BY <1>1, GateSizes, FS_AddElement
<1> QED
  BY <1>2, <1>3, GateSizes DEF Counted

LEMMA TurnLoopCounts ==
    ASSUME IInv, NEW k \in Key,
           Acquire(k) \/ RequestDone(k) \/ ToolDone(k) \/ AbortParked(k)
    PROVE  Counted' = Counted /\ UNCHANGED <<limit, instances>>
<1>1. CASE UNCHANGED <<limit, instances, working, parked>>
  BY <1>1 DEF Counted
<1>2. CASE Acquire(k) /\ Park(k)
  <2>1. /\ working' = working \ {k} /\ parked' = Append(parked, k)
        /\ UNCHANGED <<limit, instances>> /\ k \in working
    <3>1. k \in working
      <4>1. CASE k \in working
        BY <4>1
      <4>2. CASE k \notin working
        <5>1. request' = [request EXCEPT ![k] = "admitted"]
          BY <1>2, <4>2 DEF Acquire, NeedsSeat
        <5>2. request' = [request EXCEPT ![k] = "waiting"]
          BY <1>2 DEF Park
        <5> QED
          BY <5>1, <5>2 DEF IInv, TypeOK
      <4> QED
        BY <4>1, <4>2
    <3> QED
      BY <1>2, <3>1 DEF Acquire, Park
  <2>2. Cardinality(working \ {k}) = Cardinality(working) - 1
    BY <2>1, GateSizes, FS_RemoveElement
  <2>3. Len(parked') = Len(parked) + 1
    BY <2>1 DEF IInv, TypeOK
  <2> QED
    BY <2>1, <2>2, <2>3, GateSizes DEF Counted
<1>3. CASE AbortParked(k)
  <2>1. /\ k \in Parked /\ working' = working \cup {k} /\ UNCHANGED <<limit, instances>>
        /\ parked' = RemoveAt(parked, Seat(k))
    BY <1>3 DEF AbortParked, BackToWork, Leave
  <2>2. Cardinality(working \cup {k}) = Cardinality(working) + 1
    <3>1. k \notin working
      BY <2>1 DEF IInv, NobodyCountedTwice
    <3> QED
      BY <3>1, GateSizes, FS_AddElement
  <2>3. Len(parked') = Len(parked) - 1
    <3>1. parked \in Seq(Key) /\ Seat(k) \in 1..Len(parked) /\ Distinct(parked)
      <4>1. parked \in Seq(Key) /\ \E i \in DOMAIN parked : parked[i] = k
        BY <2>1 DEF IInv, TypeOK, Parked, Range
      <4>2. Distinct(parked)
        BY DEF IInv, NobodyCountedTwice, Distinct
      <4> QED
        BY <4>1, <4>2 DEF Seat
    <3> QED
      BY <2>1, <3>1, TakenOut, Zenon
  <2> QED
    BY <2>1, <2>2, <2>3, GateSizes DEF Counted
<1> QED
  BY <1>1, <1>2, <1>3 DEF Acquire, RequestDone, ToolDone

LEMMA SettledCounts ==
    ASSUME IInv, NEW a \in Ask, AskSettled(a), KeyOf[a] \notin Parked
    PROVE  /\ Counted' = Counted - 1
           /\ a \in instances /\ instances' = instances \ {a} /\ UNCHANGED limit
<1> DEFINE k == KeyOf[a]
<1>1. /\ a \in instances /\ instances' = instances \ {a} /\ UNCHANGED limit
      /\ k \in working
  BY KeyOfAssumption DEF AskSettled, IInv, AccountsForEveryAsk, Occupied
<1>2. UnparkInto(limit, working \ {k}, parked, request)
  BY <1>1 DEF AskSettled
<1>3. /\ working \ {k} \in SUBSET Key /\ parked \in Seq(Key)
      /\ request \in [Key -> RequestState] /\ limit \in Nat
      /\ Distinct(parked) /\ (working \ {k}) \cap Range(parked) = {}
      /\ \A j \in Key : request[j] = "waiting" <=> j \in Range(parked)
  BY DEF IInv, TypeOK, NobodyCountedTwice, WaitersAreParked, Parked, Distinct
<1>4. Cardinality(working') + Len(parked') = Cardinality(working \ {k}) + Len(parked)
  BY <1>2, <1>3, UnparkFacts, Zenon
<1>5. Cardinality(working \ {k}) = Cardinality(working) - 1
  BY <1>1, GateSizes, FS_RemoveElement
<1> QED
  BY <1>1, <1>4, <1>5, GateSizes DEF Counted

-----------------------------------------------------------------------------
(* What a pump does.                                                       *)

(* Asks of distinct sub-agents are finitely many. *)
LEMMA FinitelyMany ==
    ASSUME NEW T \in SUBSET Ask, \A a, b \in T : KeyOf[a] = KeyOf[b] => a = b
    PROVE  IsFiniteSet(T) /\ Cardinality(T) \in Nat
<1> DEFINE f == [a \in T |-> KeyOf[a]]
<1>1. f \in Injection(T, Key)
  BY KeyOfAssumption DEF Injection, IsInjective
<1> QED
  BY <1>1, FS_Injection, FS_CardinalityType, KeyAssumption

LEMMA PumpFacts ==
    ASSUME NEW waiting \in SUBSET Ask, NEW flying \in SUBSET Ask, IsFiniteSet(flying),
           NEW busy, \A a \in flying : KeyOf[a] \in busy,
           NEW active \in Int, NEW l \in Int,
           Pump(waiting, busy, active, flying, l)
    PROVE  /\ queued' \in SUBSET Ask /\ dispatching' \in SUBSET Ask
           /\ flying \subseteq dispatching' /\ IsFiniteSet(dispatching')
           /\ activeAsks' - Cardinality(dispatching') = active - Cardinality(flying)
           /\ activeAsks' \in Int /\ activeAsks' >= active
           /\ dispatching' = flying \/ activeAsks' <= l
           /\ \A a \in dispatching' \ flying : KeyOf[a] \notin busy
           /\ \A a, b \in dispatching' \ flying : KeyOf[a] = KeyOf[b] => a = b
<1>1. PICK taken \in SUBSET {a \in waiting : KeyOf[a] \notin busy} :
         /\ \A a, b \in taken : KeyOf[a] = KeyOf[b] => a = b
         /\ active + Cardinality(taken) <= l \/ taken = {}
         /\ queued' = waiting \ taken
         /\ dispatching' = flying \cup taken
         /\ activeAsks' = active + Cardinality(taken)
  BY DEF Pump
<1>2. IsFiniteSet(taken) /\ Cardinality(taken) \in Nat
  BY <1>1, FinitelyMany
<1>3. flying \cap taken = {} /\ Cardinality(flying \cap taken) = 0
  BY <1>1, FS_EmptySet
<1>4. /\ IsFiniteSet(flying \cup taken)
      /\ Cardinality(flying \cup taken)
           = Cardinality(flying) + Cardinality(taken) - Cardinality(flying \cap taken)
  BY <1>2, FS_Union
<1>5. Cardinality(flying) \in Nat
  BY FS_CardinalityType
<1> QED
  BY <1>1, <1>2, <1>3, <1>4, <1>5

-----------------------------------------------------------------------------
(* Every step of the composition keeps the invariant.                      *)

(* CountsAgree, with the gate's two counts under one name. *)
LEMMA CountsAgreeMeans ==
    CountsAgree <=> activeAsks = Counted + Cardinality(dispatching) /\ cap = limit
BY DEF CountsAgree, Counted

LEMMA RCSizes ==
    ASSUME RCInv
    PROVE  /\ IsFiniteSet(dispatching) /\ Cardinality(dispatching) \in Nat
           /\ Counted \in Nat /\ activeAsks \in Nat /\ cap \in 1..MaxLimit
           /\ queued \in SUBSET Ask /\ dispatching \in SUBSET Ask /\ instances \in SUBSET Ask
<1>1. \A a, b \in dispatching : KeyOf[a] = KeyOf[b] => a = b
  BY DEF RCInv, OneInFlight, InFlight
<1>2. dispatching \in SUBSET Ask /\ queued \in SUBSET Ask /\ instances \in SUBSET Ask
  BY DEF RCInv, RCTypeOK, TypeOK
<1>3. Counted \in Nat
  BY GateSizes DEF RCInv, Counted
<1> QED
  BY <1>1, <1>2, <1>3, FinitelyMany DEF RCInv, RCTypeOK

(* An ask is admitted: only the scheduler moves. *)
LEMMA AskAdmittedStep ==
    ASSUME RCInv, NEW a \in Ask, AskAdmitted(a)
    PROVE  RCInv' /\ UNCHANGED vars /\ (dispatching' \subseteq dispatching \/ activeAsks' <= cap')
<1>1. /\ Pump(queued \cup {a}, Busy, activeAsks, dispatching, cap)
      /\ UNCHANGED vars /\ cap' = cap
  BY DEF AskAdmitted
<1>2. \A b \in dispatching : KeyOf[b] \in Busy
  BY DEF Busy
<1>3. queued \cup {a} \in SUBSET Ask /\ activeAsks \in Int /\ cap \in Int
  BY RCSizes
<1>4. /\ queued' \in SUBSET Ask /\ dispatching' \in SUBSET Ask
      /\ dispatching \subseteq dispatching' /\ IsFiniteSet(dispatching')
      /\ activeAsks' - Cardinality(dispatching') = activeAsks - Cardinality(dispatching)
      /\ activeAsks' \in Int /\ activeAsks' >= activeAsks
      /\ dispatching' = dispatching \/ activeAsks' <= cap
      /\ \A b \in dispatching' \ dispatching : KeyOf[b] \notin Busy
      /\ \A b, c \in dispatching' \ dispatching : KeyOf[b] = KeyOf[c] => b = c
  BY <1>1, <1>2, <1>3, RCSizes, PumpFacts, Zenon
<1>5. IInv' /\ Counted' = Counted /\ UNCHANGED <<instances, limit>>
  BY <1>1, StutterKeepsIInv DEF RCInv, vars, Counted
<1>6. Cardinality(dispatching') \in Nat
  BY <1>4, FS_CardinalityType
<1>7. CountsAgree'
  <2>1. activeAsks = Counted + Cardinality(dispatching) /\ cap = limit
    BY CountsAgreeMeans DEF RCInv
  <2>2. activeAsks' = Counted' + Cardinality(dispatching')
    BY <2>1, <1>4, <1>5, <1>6, RCSizes
  <2> QED
    BY <2>1, <2>2, <1>1, <1>5 DEF CountsAgree, Counted
<1>8. OneInFlight' /\ (dispatching \cap instances = {})'
  BY <1>4, <1>5 DEF RCInv, OneInFlight, InFlight, Busy
<1>9. RCTypeOK'
  BY <1>1, <1>4, <1>5, RCSizes DEF RCTypeOK, IInv
<1> QED
  BY <1>1, <1>4, <1>5, <1>7, <1>8, <1>9 DEF RCInv

(* A session is ready: the ask moves from the scheduler to the gate. *)
LEMMA SessionReadyStep ==
    ASSUME RCInv, NEW a \in Ask, SessionReady(a)
    PROVE  RCInv' /\ dispatching' \subseteq dispatching
<1>1. /\ a \in dispatching /\ AskStarted(a) /\ dispatching' = dispatching \ {a}
      /\ UNCHANGED <<cap, activeAsks, queued>>
  BY DEF SessionReady
<1>2. IInv'
  BY <1>1, AskStartedKeepsIInv DEF RCInv
<1>3. Counted' = Counted + 1 /\ instances' = instances \cup {a} /\ UNCHANGED limit
  BY <1>1, AskStartedCounts DEF RCInv
<1>4. Cardinality(dispatching') = Cardinality(dispatching) - 1
  BY <1>1, RCSizes, FS_RemoveElement
<1>5. CountsAgree'
  <2>1. activeAsks = Counted + Cardinality(dispatching) /\ cap = limit
    BY CountsAgreeMeans DEF RCInv
  <2>2. activeAsks' = Counted' + Cardinality(dispatching')
    BY <2>1, <1>1, <1>3, <1>4, RCSizes
  <2> QED
    BY <2>1, <2>2, <1>1, <1>3 DEF CountsAgree, Counted
<1>6. OneInFlight' /\ (dispatching \cap instances = {})'
  BY <1>1, <1>3 DEF RCInv, OneInFlight, InFlight
<1>7. RCTypeOK'
  BY <1>1, <1>2, RCSizes DEF RCTypeOK, IInv
<1> QED
  BY <1>1, <1>2, <1>5, <1>6, <1>7 DEF RCInv

(* A session cannot be opened: its slot goes to the queues. *)
LEMMA SessionFailsStep ==
    ASSUME RCInv, NEW a \in Ask, SessionFails(a)
    PROVE  RCInv' /\ UNCHANGED vars /\ (dispatching' \subseteq dispatching \/ activeAsks' <= cap')
<1> DEFINE flying == dispatching \ {a}
           active == activeAsks - 1
<1>1. /\ a \in dispatching
      /\ Pump(queued, BusyBut(a), active, flying, cap)
      /\ UNCHANGED vars /\ cap' = cap
  BY DEF SessionFails, SlotsAfter
<1>2. \A b \in flying : KeyOf[b] \in BusyBut(a)
  BY DEF BusyBut
<1>3. /\ flying \in SUBSET Ask /\ IsFiniteSet(flying)
      /\ Cardinality(flying) = Cardinality(dispatching) - 1
  BY <1>1, RCSizes, FS_RemoveElement
<1>4. queued \in SUBSET Ask /\ active \in Int /\ cap \in Int
  BY RCSizes
<1> HIDE DEF flying, active
<1>5. /\ queued' \in SUBSET Ask /\ dispatching' \in SUBSET Ask
      /\ flying \subseteq dispatching' /\ IsFiniteSet(dispatching')
      /\ activeAsks' - Cardinality(dispatching') = active - Cardinality(flying)
      /\ activeAsks' \in Int /\ activeAsks' >= active
      /\ dispatching' = flying \/ activeAsks' <= cap
      /\ \A b \in dispatching' \ flying : KeyOf[b] \notin BusyBut(a)
      /\ \A b, c \in dispatching' \ flying : KeyOf[b] = KeyOf[c] => b = c
  BY <1>1, <1>2, <1>3, <1>4, PumpFacts, Zenon
<1>6. IInv' /\ Counted' = Counted /\ UNCHANGED <<instances, limit>>
  BY <1>1, StutterKeepsIInv DEF RCInv, vars, Counted
<1>7. Cardinality(dispatching') \in Nat
  BY <1>5, FS_CardinalityType
<1>8. activeAsks' = Counted' + Cardinality(dispatching') /\ cap = limit
  BY <1>3, <1>5, <1>6, <1>7, RCSizes, CountsAgreeMeans DEF RCInv, active
<1>9. CountsAgree'
  BY <1>8, <1>1, <1>6 DEF CountsAgree, Counted
<1>10. OneInFlight' /\ (dispatching \cap instances = {})'
  BY <1>1, <1>5, <1>6 DEF RCInv, OneInFlight, InFlight, BusyBut, flying
<1>11. RCTypeOK'
  BY <1>1, <1>5, <1>6, <1>7, <1>8, RCSizes DEF RCTypeOK, IInv
<1>12. dispatching' \subseteq dispatching \/ activeAsks' <= cap'
  BY <1>1, <1>5 DEF flying
<1> QED
  BY <1>1, <1>6, <1>9, <1>10, <1>11, <1>12 DEF RCInv

(* An ask is settled: the gate first, then the slot and the queues. *)
LEMMA SettleStep ==
    ASSUME RCInv, NEW a \in Ask, Settle(a)
    PROVE  RCInv' /\ (dispatching' \subseteq dispatching \/ activeAsks' <= cap')
<1> DEFINE active == activeAsks - 1
<1>1. /\ AskSettled(a) /\ KeyOf[a] \notin Parked
      /\ Pump(queued, BusyBut(a), active, dispatching, cap)
      /\ cap' = cap
  BY DEF Settle, SlotsAfter
<1>2. IInv'
  BY <1>1, AskSettledKeepsIInv DEF RCInv
<1>3. /\ Counted' = Counted - 1
      /\ a \in instances /\ instances' = instances \ {a} /\ UNCHANGED limit
  BY <1>1, SettledCounts DEF RCInv
<1>4. \A b \in dispatching : KeyOf[b] \in BusyBut(a)
  BY <1>3 DEF BusyBut, RCInv
<1>5. queued \in SUBSET Ask /\ active \in Int /\ cap \in Int
  BY RCSizes
<1> HIDE DEF active
<1>6. /\ queued' \in SUBSET Ask /\ dispatching' \in SUBSET Ask
      /\ dispatching \subseteq dispatching' /\ IsFiniteSet(dispatching')
      /\ activeAsks' - Cardinality(dispatching') = active - Cardinality(dispatching)
      /\ activeAsks' \in Int /\ activeAsks' >= active
      /\ dispatching' = dispatching \/ activeAsks' <= cap
      /\ \A b \in dispatching' \ dispatching : KeyOf[b] \notin BusyBut(a)
      /\ \A b, c \in dispatching' \ dispatching : KeyOf[b] = KeyOf[c] => b = c
  BY <1>1, <1>4, <1>5, RCSizes, PumpFacts, Zenon
<1>7. Cardinality(dispatching') \in Nat
  BY <1>6, FS_CardinalityType
<1>8. Counted' \in Nat
  BY <1>2, FS_Subset, FS_CardinalityType, KeyAssumption, SMTT(20) DEF Counted, IInv, TypeOK
<1>9. activeAsks' = Counted' + Cardinality(dispatching') /\ cap = limit
  BY <1>3, <1>6, <1>7, RCSizes, CountsAgreeMeans DEF RCInv, active
<1>10. CountsAgree'
  BY <1>9, <1>1, <1>3 DEF CountsAgree, Counted
<1>11. OneInFlight' /\ (dispatching \cap instances = {})'
  BY <1>3, <1>6 DEF RCInv, OneInFlight, InFlight, BusyBut
<1>12. RCTypeOK'
  BY <1>1, <1>2, <1>6, <1>7, <1>8, <1>9, RCSizes DEF RCTypeOK, IInv
<1> QED
  BY <1>1, <1>2, <1>6, <1>10, <1>11, <1>12 DEF RCInv

(* A retune: the engine's half pumps under the new cap, the gate follows. *)
LEMMA RetuneStep ==
    ASSUME RCInv, NEW n \in 1..MaxLimit, Retune(n)
    PROVE  RCInv' /\ (dispatching' \subseteq dispatching \/ activeAsks' <= cap')
<1>1. cap' = n /\ SetLimit(n)
  BY DEF Retune, RetuneEngine, RetuneGate
<1>2. IInv'
  <2>1. n \in 0..MaxLimit
    OBVIOUS
  <2> QED
    BY <1>1, <2>1, SetLimitKeepsIInv DEF RCInv
<1>3. Counted' = Counted /\ limit' = n /\ UNCHANGED instances
  BY <1>1, SetLimitCounts DEF RCInv
<1>4. /\ queued' \in SUBSET Ask /\ dispatching' \in SUBSET Ask
      /\ dispatching \subseteq dispatching' /\ IsFiniteSet(dispatching')
      /\ activeAsks' - Cardinality(dispatching') = activeAsks - Cardinality(dispatching)
      /\ activeAsks' \in Int /\ activeAsks' >= activeAsks
      /\ dispatching' = dispatching \/ activeAsks' <= n
      /\ \A b \in dispatching' \ dispatching : KeyOf[b] \notin Busy
      /\ \A b, c \in dispatching' \ dispatching : KeyOf[b] = KeyOf[c] => b = c
  <2>1. CASE UNCHANGED <<activeAsks, queued, dispatching>>
    BY <2>1, RCSizes
  <2>2. CASE Pump(queued, Busy, activeAsks, dispatching, n)
    <3>1. \A b \in dispatching : KeyOf[b] \in Busy
      BY DEF Busy
    <3>2. n \in Int /\ activeAsks \in Int
      BY RCSizes
    <3> QED
      BY <2>2, <3>1, <3>2, RCSizes, PumpFacts, Zenon
  <2> QED
    BY <2>1, <2>2 DEF Retune, RetuneEngine
<1>5. Cardinality(dispatching') \in Nat
  BY <1>4, FS_CardinalityType
<1>6. activeAsks' = Counted' + Cardinality(dispatching')
  BY <1>3, <1>4, <1>5, RCSizes, CountsAgreeMeans DEF RCInv
<1>7. CountsAgree'
  BY <1>1, <1>3, <1>6 DEF CountsAgree, Counted
<1>8. OneInFlight' /\ (dispatching \cap instances = {})'
  BY <1>3, <1>4 DEF RCInv, OneInFlight, InFlight, Busy
<1>9. RCTypeOK'
  BY <1>1, <1>2, <1>3, <1>4, <1>5, <1>6, RCSizes DEF RCTypeOK, IInv
<1> QED
  BY <1>1, <1>2, <1>4, <1>7, <1>8, <1>9 DEF RCInv

(* The turn loops leave the scheduler alone. *)
LEMMA TurnLoopStep ==
    ASSUME RCInv, NEW k \in Key, TurnLoop(k)
    PROVE  RCInv' /\ dispatching' = dispatching
<1>1. /\ Acquire(k) \/ RequestDone(k) \/ ToolDone(k) \/ AbortParked(k)
      /\ UNCHANGED <<cap, activeAsks, queued, dispatching>>
  BY DEF TurnLoop, scheduler
<1>2. IInv'
  BY <1>1, AcquireKeepsIInv, TurnKeepsIInv, AbortParkedKeepsIInv DEF RCInv
<1>3. Counted' = Counted /\ UNCHANGED <<limit, instances>>
  BY <1>1, TurnLoopCounts DEF RCInv
<1>4. CountsAgree'
  BY <1>1, <1>3 DEF RCInv, CountsAgree, Counted
<1> QED
  BY <1>1, <1>2, <1>3, <1>4 DEF RCInv, RCTypeOK, IInv, OneInFlight, InFlight

LEMMA RCInitially == RCInit => RCInv
<1> SUFFICES ASSUME RCInit PROVE RCInv
  OBVIOUS
<1>1. IInv
  BY Initially DEF RCInit
<1>2. Cardinality({}) = 0
  BY FS_EmptySet
<1> QED
  BY <1>1, <1>2 DEF RCInit, Init, RCInv, RCTypeOK, IInv, TypeOK, CountsAgree, OneInFlight, InFlight

(* A step that dispatches stays within the cap, so nobody may be parked. *)
LEMMA DispatchLeavesNobodyParked ==
    ASSUME RCInv', dispatching' \subseteq dispatching \/ activeAsks' <= cap',
           ~(dispatching' \subseteq dispatching)
    PROVE  parked' = <<>>
<1>1. activeAsks' <= cap' /\ cap' = limit' /\ limit' \in Nat
  BY DEF RCInv, CountsAgree, IInv, TypeOK
<1>2. activeAsks' = Cardinality(working') + Len(parked') + Cardinality(dispatching')
  BY DEF RCInv, CountsAgree
<1>3. \A a, b \in dispatching' : KeyOf[a] = KeyOf[b] => a = b
  BY DEF RCInv, OneInFlight, InFlight
<1>4. /\ Cardinality(dispatching') \in Nat /\ Cardinality(working') \in Nat
      /\ parked' \in Seq(Key)
  <2>1. dispatching' \in SUBSET Ask /\ working' \in SUBSET Key /\ parked' \in Seq(Key)
    BY DEF RCInv, RCTypeOK, TypeOK
  <2> QED
    BY <2>1, <1>3, FinitelyMany, FS_Subset, FS_CardinalityType, KeyAssumption
<1>5. parked' # <<>> => Cardinality(working') >= limit' /\ Len(parked') > 0
  BY <1>4 DEF RCInv, IInv, ParkedMeansFull
<1> QED
  BY <1>1, <1>2, <1>4, <1>5

LEMMA RCStep ==
    ASSUME RCInv, [RCNext]_allVars
    PROVE  /\ RCInv'
           /\ dispatching' \subseteq dispatching \/ activeAsks' <= cap'
           /\ [Next]_vars
<1>1. ASSUME NEW a \in Ask, AskAdmitted(a)
      PROVE  RCInv' /\ (dispatching' \subseteq dispatching \/ activeAsks' <= cap') /\ [Next]_vars
  BY <1>1, AskAdmittedStep
<1>2. ASSUME NEW a \in Ask, SessionReady(a)
      PROVE  RCInv' /\ (dispatching' \subseteq dispatching \/ activeAsks' <= cap') /\ [Next]_vars
  BY <1>2, SessionReadyStep DEF SessionReady, Next
<1>3. ASSUME NEW a \in Ask, SessionFails(a)
      PROVE  RCInv' /\ (dispatching' \subseteq dispatching \/ activeAsks' <= cap') /\ [Next]_vars
  BY <1>3, SessionFailsStep
<1>4. ASSUME NEW a \in Ask, Settle(a)
      PROVE  RCInv' /\ (dispatching' \subseteq dispatching \/ activeAsks' <= cap') /\ [Next]_vars
  BY <1>4, SettleStep DEF Settle, Next
<1>5. ASSUME NEW n \in 1..MaxLimit, Retune(n)
      PROVE  RCInv' /\ (dispatching' \subseteq dispatching \/ activeAsks' <= cap') /\ [Next]_vars
  <2>1. SetLimit(n) /\ n \in 0..MaxLimit
    BY <1>5 DEF Retune, RetuneGate
  <2> QED
    BY <1>5, <2>1, RetuneStep DEF Next
<1>6. ASSUME NEW k \in Key, TurnLoop(k)
      PROVE  RCInv' /\ (dispatching' \subseteq dispatching \/ activeAsks' <= cap') /\ [Next]_vars
  BY <1>6, TurnLoopStep DEF TurnLoop, Next
<1>7. CASE UNCHANGED allVars
  <2>1. UNCHANGED vars /\ UNCHANGED scheduler
    BY <1>7 DEF allVars
  <2>2. IInv'
    BY <2>1, StutterKeepsIInv DEF RCInv
  <2> QED
    BY <2>1, <2>2 DEF RCInv, RCTypeOK, IInv, CountsAgree, OneInFlight, InFlight, vars, scheduler
<1> QED
  BY <1>1, <1>2, <1>3, <1>4, <1>5, <1>6, <1>7 DEF RCNext

THEOREM RCInductiveInvariant == RCSpec => []RCInv
<1>1. RCInv /\ [RCNext]_allVars => RCInv'
  BY RCStep
<1> QED
  BY RCInitially, <1>1, PTL DEF RCSpec

(***************************************************************************)
(* "activeAsks = working + parked": the arithmetic that lets the two       *)
(* enforcement points work without knowing each other, once the asks that  *)
(* await their session are added.                                          *)
(***************************************************************************)
THEOREM SchedulerAndGateAgree == RCSpec => []CountsAgree
<1>1. RCInv => CountsAgree
  BY DEF RCInv
<1> QED
  BY <1>1, RCInductiveInvariant, PTL

(***************************************************************************)
(* No step of the scheduler, not even the pump of a retune that raises the *)
(* limit, dispatches an ask past a parked sub-agent.                       *)
(***************************************************************************)
THEOREM NothingDispatchedPastParked == RCSpec => NoDispatchPastParked
<1>1. RCInv /\ [RCNext]_allVars
        => [~(dispatching' \subseteq dispatching) => parked' = <<>>]_allVars
  BY RCStep, DispatchLeavesNobodyParked
<1> QED
  BY <1>1, RCInductiveInvariant, PTL DEF RCSpec, NoDispatchPastParked

(***************************************************************************)
(* The composition only does to the gate what the gate's specification     *)
(* allows, so everything proved of the gate alone holds in a run.          *)
(***************************************************************************)
THEOREM CompositionRunsTheGate == RCSpec => Spec
<1>1. RCInit => Init
  BY DEF RCInit
<1>2. RCInv /\ [RCNext]_allVars => [Next]_vars
  BY RCStep
<1> QED
  BY <1>1, <1>2, RCInductiveInvariant, PTL DEF RCSpec, Spec
=============================================================================
