--------------------------- MODULE RunServiceProofs ---------------------------
(***************************************************************************)
(* Who owns an engine and what its row says, for any number of runs,       *)
(* engines, services and pending calls.  The runs that are no amendments   *)
(* are those whose calls wait for nothing between check and launch.        *)
(***************************************************************************)
EXTENDS RunService, SequenceTheorems, FiniteSetTheorems, TLAPS

RowType == [status : Terminal \cup {"none", "running"},
            reason : {"none", "user", "interrupted", "superseded"}, from : Nat \cup {None}]
EngineType == [run : Nat, home : Nat, phase : {"live", "settled", "known"},
               verdict : Terminal \cup {"none"}]
CallType == [op : {"amend", "resume"}, run : Nat, engine : Nat \cup {None},
             at : {"settling", "quieting", "importing", "rebuilding"}, home : Nat]

Amending == {c \in Pending : calls[c].op = "amend"}

StoreType ==
    /\ rows \in Seq(RowType) /\ engines \in Seq(EngineType) /\ service \in Nat
    /\ state \in {"open", "closing", "closed", "down"}
    /\ registry \in [1..MaxRuns -> Nat \cup {None}]
TypeOK ==
    /\ StoreType /\ calls \in [Call -> CallType \cup {None}]
    /\ Len(rows) + Cardinality(Amending) <= MaxRuns

(* What refers to a run or to an engine. *)
Entries ==
    /\ \A e \in Engine : engines[e].run \in Run
    /\ \A r \in 1..MaxRuns : registry[r] # None => registry[r] \in Engine /\ engines[registry[r]].run = r
Callers ==
    /\ \A c \in Pending : calls[c].run \in Run
    /\ \A c \in Pending : calls[c].op = "resume" => ~Plain(calls[c].run)

(* A superseded run has nothing that could write into its row. *)
SupersededIsStill ==
    \A r \in Run : Plain(r) /\ Superseded(r) => \A e \in Engine : engines[e].run = r => ~Live(e)

Stays == \A r \in Run : Plain(r) /\ Superseded(r) => Superseded(r)'

IInv == TypeOK /\ Entries /\ Callers /\ PlainEngineOwned /\ NoLyingRow /\ SupersededIsStill

-----------------------------------------------------------------------------
LEMMA Domains ==
  ASSUME TypeOK
  PROVE  /\ Len(rows) \in Nat /\ Run = 1..Len(rows) /\ rows \in [Run -> RowType]
         /\ Len(engines) \in Nat /\ Engine = 1..Len(engines) /\ engines \in [Engine -> EngineType]
         /\ Cardinality(Amending) \in Nat /\ IsFiniteSet(Amending) /\ Run \subseteq 1..MaxRuns
<1>1. rows \in Seq(RowType) /\ engines \in Seq(EngineType)
  BY DEF TypeOK, StoreType
<1>2. IsFiniteSet(Amending) /\ Cardinality(Amending) \in Nat
  <2>1. Amending \in SUBSET Call
    BY DEF Amending, Pending
  <2> QED BY <2>1, CallAssumption, FS_Subset, FS_CardinalityType
<1>3. Len(rows) \in Nat /\ Run = 1..Len(rows) /\ rows \in [Run -> RowType]
  BY <1>1, LenProperties DEF Run
<1>4. Len(engines) \in Nat /\ Engine = 1..Len(engines) /\ engines \in [Engine -> EngineType]
  BY <1>1, LenProperties DEF Engine
<1>5. Len(rows) <= MaxRuns
  BY <1>2, <1>3, BoundAssumption DEF TypeOK, StoreType
<1> QED BY <1>2, <1>3, <1>4, <1>5, BoundAssumption

LEMMA SameLength ==
  ASSUME NEW S, NEW n \in Nat, NEW f \in [1..n -> S]
  PROVE  f \in Seq(S) /\ Len(f) = n /\ DOMAIN f = 1..n
<1>1. f \in UNION {[1..m -> S] : m \in Nat}
  OBVIOUS
<1>2. f \in Seq(S)
  BY <1>1, SeqDef
<1>3. Len(f) \in Nat /\ DOMAIN f = 1..Len(f)
  BY <1>2, LenProperties
<1>4. 1..Len(f) = 1..n
  BY <1>3
<1>5. Len(f) = n
  <2>1. CASE n = 0
    BY <2>1, <1>3, <1>4
  <2>2. CASE n > 0
    BY <2>2, <1>3, <1>4
  <2> QED BY <2>1, <2>2
<1> QED BY <1>2, <1>5

(* What a launch adds, to the engines, the rows and the registry. *)
LEMMA LaunchFacts ==
  ASSUME TypeOK, NEW r \in 1..(Len(rows) + 1), r <= MaxRuns, NEW from \in Nat \cup {None},
         NEW home \in Nat, NEW comesUp \in BOOLEAN, Launch(r, from, home, comesUp),
         NEW e, e = Len(engines) + 1
  PROVE  /\ engines' \in Seq(EngineType) /\ Engine' = Engine \cup {e} /\ e \notin Engine /\ e \in Nat
         /\ \A x \in Engine : engines'[x] = engines[x]
         /\ engines'[e].run = r /\ engines'[e].home = home
         /\ engines'[e].phase = IF comesUp THEN "live" ELSE "settled"
         /\ rows' \in Seq(RowType) /\ Run' = Run \cup {r}
         /\ Len(rows') = IF r \in Run THEN Len(rows) ELSE Len(rows) + 1
         /\ \A q \in Run : q # r => rows'[q] = rows[q]
         /\ rows'[r] = IF comesUp THEN Row("running", "none", from)
                       ELSE IF r \in Run THEN rows[r] ELSE Row("none", "none", from)
         /\ registry' \in [1..MaxRuns -> Nat \cup {None}]
         /\ registry' = IF home = service THEN [registry EXCEPT ![r] = e] ELSE registry
<1> DEFINE start == IF comesUp THEN [run |-> r, home |-> home, phase |-> "live", verdict |-> "none"]
                    ELSE [run |-> r, home |-> home, phase |-> "settled", verdict |-> "errored"]
           row == IF comesUp THEN Row("running", "none", from)
                  ELSE IF r \in Run THEN rows[r] ELSE Row("none", "none", from)
           known == IF r \in Run THEN rows ELSE Append(rows, row)
<1>0. /\ Len(rows) \in Nat /\ Run = 1..Len(rows) /\ rows \in [Run -> RowType] /\ rows \in Seq(RowType)
      /\ Len(engines) \in Nat /\ Engine = 1..Len(engines) /\ engines \in Seq(EngineType)
  BY Domains DEF TypeOK, StoreType
<1>1. engines' = Append(engines, start) /\ rows' = [known EXCEPT ![r] = row]
      /\ registry' = IF home = service THEN [registry EXCEPT ![r] = e] ELSE registry
  BY DEF Launch
<1>2. start \in EngineType /\ start.run = r /\ start.home = home
      /\ start.phase = IF comesUp THEN "live" ELSE "settled"
  <2>1. r \in Nat
    BY <1>0
  <2> QED BY <2>1 DEF EngineType, Terminal
<1>3. row \in RowType
  BY <1>0 DEF RowType, Row, Terminal
<1> HIDE DEF start, row
<1>4. /\ engines' \in Seq(EngineType) /\ Len(engines') = e
      /\ \A x \in 1..Len(engines) : engines'[x] = engines[x]
      /\ engines'[e] = start
  BY <1>0, <1>1, <1>2, AppendProperties
<1>5. Engine' = 1..e
  BY <1>4, LenProperties DEF Engine
<1>6. known \in Seq(RowType) /\ r \in 1..Len(known)
      /\ Len(known) = (IF r \in Run THEN Len(rows) ELSE Len(rows) + 1)
      /\ \A q \in 1..Len(rows) : known[q] = rows[q]
  <2>1. CASE r \in Run
    BY <2>1, <1>0
  <2>2. CASE r \notin Run
    BY <2>2, <1>0, <1>3, AppendProperties
  <2> QED BY <2>1, <2>2
<1> HIDE DEF known
<1>7. /\ rows' \in Seq(RowType) /\ Len(rows') = Len(known)
      /\ \A q \in 1..Len(known) : rows'[q] = IF q = r THEN row ELSE known[q]
  BY <1>1, <1>3, <1>6, ExceptSeq
<1>8. Run' = 1..Len(known)
  BY <1>6, <1>7, LenProperties DEF Run
<1>9. Run' = Run \cup {r}
  BY <1>0, <1>6, <1>8
<1>10. \A q \in Run : q # r => rows'[q] = rows[q]
  BY <1>0, <1>6, <1>7
<1>11. rows'[r] = row
  BY <1>6, <1>7
<1>12. registry' \in [1..MaxRuns -> Nat \cup {None}]
  BY <1>0, <1>1 DEF TypeOK, StoreType
<1> QED BY <1>0, <1>1, <1>2, <1>4, <1>5, <1>6, <1>7, <1>9, <1>10, <1>11, <1>12 DEF row

(* What an abort does to the engines in S and to their rows. *)
LEMMA AbortFacts ==
  ASSUME TypeOK, NEW S \in SUBSET Engine,
         NEW reason \in {"user", "interrupted", "superseded"}, Abort(S, reason)
  PROVE  /\ engines' \in Seq(EngineType) /\ Engine' = Engine
         /\ \A e \in Engine : /\ engines'[e].run = engines[e].run /\ engines'[e].home = engines[e].home
                              /\ engines'[e].phase = IF e \in S /\ Live(e) THEN "settled" ELSE engines[e].phase
         /\ rows' \in Seq(RowType) /\ Run' = Run /\ Len(rows') = Len(rows)
         /\ \A r \in Run : rows'[r].from = rows[r].from
         /\ \A r \in Run : (\E e \in S : Live(e) /\ engines[e].run = r)
                              => rows'[r].status = "stopped" /\ rows'[r].reason = reason
         /\ \A r \in Run : (\A e \in S : Live(e) => engines[e].run # r) => rows'[r] = rows[r]
<1>0. /\ Len(rows) \in Nat /\ Run = 1..Len(rows) /\ rows \in [Run -> RowType]
      /\ Len(engines) \in Nat /\ Engine = 1..Len(engines) /\ engines \in [Engine -> EngineType]
  BY Domains
<1> DEFINE hit == {e \in S : Live(e)}
<1>1. /\ engines' = [e \in Engine |-> IF e \in hit
                       THEN [engines[e] EXCEPT !.phase = "settled", !.verdict = "stopped"] ELSE engines[e]]
      /\ rows' = [r \in Run |-> IF \E e \in hit : engines[e].run = r
                    THEN Row("stopped", reason, rows[r].from) ELSE rows[r]]
  BY DEF Abort
<1>2. \A e \in Engine : [engines[e] EXCEPT !.phase = "settled", !.verdict = "stopped"] \in EngineType
  BY <1>0, ZenonT(40) DEF EngineType, Terminal
<1>3. engines' \in [1..Len(engines) -> EngineType]
  BY <1>0, <1>1, <1>2
<1>4. \A r \in Run : Row("stopped", reason, rows[r].from) \in RowType
  BY <1>0 DEF RowType, Row, Terminal
<1>5. rows' \in [1..Len(rows) -> RowType]
  BY <1>0, <1>1, <1>4
<1>6. engines' \in Seq(EngineType) /\ Engine' = Engine
  BY <1>0, <1>3, SameLength DEF Engine
<1>7. rows' \in Seq(RowType) /\ Run' = Run /\ Len(rows') = Len(rows)
  BY <1>0, <1>5, SameLength DEF Run
<1>8. \A e \in Engine : /\ engines'[e].run = engines[e].run /\ engines'[e].home = engines[e].home
                        /\ engines'[e].phase = IF e \in S /\ Live(e) THEN "settled" ELSE engines[e].phase
  BY <1>0, <1>1 DEF EngineType
<1>9. \A r \in Run : (\E e \in S : Live(e) /\ engines[e].run = r)
                        => rows'[r] = Row("stopped", reason, rows[r].from)
  BY <1>1
<1>10. \A r \in Run : (\A e \in S : Live(e) => engines[e].run # r) => rows'[r] = rows[r]
  BY <1>1
<1> \A f : /\ Row("stopped", reason, f).from = f
           /\ Row("stopped", reason, f).status = "stopped" /\ Row("stopped", reason, f).reason = reason
  BY DEF Row
<1>11. \A r \in Run : rows'[r].from = rows[r].from
  <2> SUFFICES ASSUME NEW r \in Run PROVE rows'[r].from = rows[r].from
    OBVIOUS
  <2>1. CASE \E e \in S : Live(e) /\ engines[e].run = r
    BY <2>1, <1>9
  <2>2. CASE ~\E e \in S : Live(e) /\ engines[e].run = r
    BY <2>2, <1>10
  <2> QED BY <2>1, <2>2
<1>12. \A r \in Run : (\E e \in S : Live(e) /\ engines[e].run = r)
                        => rows'[r].status = "stopped" /\ rows'[r].reason = reason
  BY <1>9
<1> QED BY <1>6, <1>7, <1>8, <1>10, <1>11, <1>12

(* A call that begins, and one that goes on or returns. *)
LEMMA BeginFacts ==
  ASSUME TypeOK, NEW c \in Call, calls[c] = None, NEW x \in CallType, Begin(c, x)
  PROVE  /\ calls' \in [Call -> CallType \cup {None}]
         /\ Pending' \subseteq Pending \cup {c} /\ calls'[c] = x
         /\ \A d \in Pending : calls'[d] = calls[d]
         /\ Cardinality(Amending') <= Cardinality(Amending) + IF x.op = "amend" THEN 1 ELSE 0
<1>1. calls' \in [Call -> CallType \cup {None}] /\ calls'[c] = x
      /\ \A d \in Call : d # c => calls'[d] = calls[d]
  BY DEF TypeOK, StoreType, Begin
<1>2. Pending' \subseteq Pending \cup {c}
  BY <1>1 DEF Pending
<1>3. \A d \in Pending : calls'[d] = calls[d]
  BY <1>1 DEF Pending
<1>4. IsFiniteSet(Amending) /\ Cardinality(Amending) \in Nat
  BY Domains
<1>5. CASE x.op = "amend"
  <2>1. Amending' \in SUBSET (Amending \cup {c})
    BY <1>1 DEF Amending, Pending
  <2>2. IsFiniteSet(Amending \cup {c}) /\ Cardinality(Amending \cup {c}) <= Cardinality(Amending) + 1
    <3>1. /\ IsFiniteSet(Amending \cup {c})
          /\ Cardinality(Amending \cup {c}) = IF c \in Amending THEN Cardinality(Amending)
                                             ELSE Cardinality(Amending) + 1
      BY <1>4, FS_AddElement
    <3> QED BY <3>1, <1>4
  <2>3. Cardinality(Amending') <= Cardinality(Amending \cup {c}) /\ IsFiniteSet(Amending')
    BY <2>1, <2>2, FS_Subset
  <2>4. Cardinality(Amending') \in Nat /\ Cardinality(Amending \cup {c}) \in Nat
    BY <2>2, <2>3, FS_CardinalityType
  <2> QED BY <1>1, <1>2, <1>3, <1>4, <1>5, <2>2, <2>3, <2>4
<1>6. CASE x.op # "amend"
  <2>1. Amending' \in SUBSET Amending
    BY <1>1, <1>6 DEF Amending, Pending
  <2>2. Cardinality(Amending') <= Cardinality(Amending)
    BY <1>4, <2>1, FS_Subset
  <2> QED BY <1>1, <1>2, <1>3, <1>4, <1>6, <2>2
<1> QED BY <1>5, <1>6

LEMMA ProceedFacts ==
  ASSUME TypeOK, NEW c \in Pending, NEW at \in {"quieting", "importing"}, Proceed(c, at)
  PROVE  /\ calls' \in [Call -> CallType \cup {None}]
         /\ Pending' \subseteq Pending /\ Amending' \subseteq Amending
         /\ \A d \in Pending : calls'[d].run = calls[d].run /\ calls'[d].op = calls[d].op
<1>1. c \in Call /\ calls[c] \in CallType
  BY DEF Pending, TypeOK
<1>2. [calls[c] EXCEPT !.at = at] \in CallType /\ calls' = [calls EXCEPT ![c] = [calls[c] EXCEPT !.at = at]]
  BY <1>1 DEF Proceed, CallType
<1>3. calls' \in [Call -> CallType \cup {None}]
  BY <1>1, <1>2 DEF TypeOK, StoreType
<1>4. \A d \in Call : d # c => calls'[d] = calls[d]
  BY <1>2 DEF TypeOK, StoreType
<1>5. calls'[c].run = calls[c].run /\ calls'[c].op = calls[c].op
  BY <1>1, <1>2 DEF TypeOK, StoreType, CallType
<1> QED BY <1>3, <1>4, <1>5 DEF Pending, Amending

LEMMA ReturnFacts ==
  ASSUME TypeOK, NEW c \in Pending, Return(c)
  PROVE  /\ calls' \in [Call -> CallType \cup {None}]
         /\ Pending' = Pending \ {c} /\ Amending' = Amending \ {c}
         /\ \A d \in Pending' : calls'[d] = calls[d]
<1>1. calls' = [calls EXCEPT ![c] = None] /\ c \in Call
  BY DEF Return, Pending
<1> QED BY <1>1 DEF TypeOK, StoreType, Pending, Amending

-----------------------------------------------------------------------------
(***************************************************************************)
(* A launch.  An engine of a plain run is launched by an open service into *)
(* its own registry, and only when no other engine of the run is live.     *)
(***************************************************************************)
LEMMA LaunchKeeps ==
  ASSUME IInv, NEW r \in 1..(Len(rows) + 1), r <= MaxRuns, NEW from \in Nat \cup {None},
         NEW home \in Nat, NEW comesUp \in BOOLEAN, Launch(r, from, home, comesUp),
         UNCHANGED <<service, state>>,
         r \in Run => from = rows[r].from,
         from = None => /\ state = "open" /\ home = service
                        /\ r \in Run => ~EntryInFlight(r) /\ Resumable(rows[r])
  PROVE  /\ Entries' /\ PlainEngineOwned' /\ NoLyingRow' /\ SupersededIsStill' /\ Stays
         /\ \A q \in Run : q \in Run' /\ Plain(q)' = Plain(q)
         /\ StoreType' /\ Len(rows') = IF r \in Run THEN Len(rows) ELSE Len(rows) + 1
<1> DEFINE e == Len(engines) + 1
<1> TypeOK
  BY DEF IInv
<1>0. /\ Run = 1..Len(rows) /\ Engine = 1..Len(engines) /\ Run \subseteq 1..MaxRuns
      /\ Len(rows) \in Nat /\ Len(engines) \in Nat /\ rows \in [Run -> RowType]
  BY Domains
<1>new. e = Len(engines) + 1
  OBVIOUS
<1> HIDE DEF e
<1>added. /\ engines' \in Seq(EngineType) /\ Engine' = Engine \cup {e} /\ e \notin Engine /\ e \in Nat
          /\ \A x \in Engine : engines'[x] = engines[x]
          /\ engines'[e].run = r /\ engines'[e].home = home
          /\ engines'[e].phase = IF comesUp THEN "live" ELSE "settled"
          /\ rows' \in Seq(RowType) /\ Run' = Run \cup {r}
          /\ Len(rows') = IF r \in Run THEN Len(rows) ELSE Len(rows) + 1
          /\ \A q \in Run : q # r => rows'[q] = rows[q]
          /\ rows'[r] = IF comesUp THEN Row("running", "none", from)
                        ELSE IF r \in Run THEN rows[r] ELSE Row("none", "none", from)
          /\ registry' \in [1..MaxRuns -> Nat \cup {None}]
          /\ registry' = IF home = service THEN [registry EXCEPT ![r] = e] ELSE registry
  BY ONLY TypeOK, r \in 1..(Len(rows) + 1), r <= MaxRuns, from \in Nat \cup {None}, home \in Nat,
          comesUp \in BOOLEAN, Launch(r, from, home, comesUp), <1>new, LaunchFacts
<1>1. /\ Engine' = Engine \cup {e} /\ e \notin Engine /\ e \in Nat
      /\ \A x \in Engine : engines'[x] = engines[x]
      /\ engines'[e].run = r /\ engines'[e].home = home
      /\ engines'[e].phase = IF comesUp THEN "live" ELSE "settled"
      /\ Run' = Run \cup {r}
      /\ \A q \in Run : q # r => rows'[q] = rows[q]
      /\ rows'[r] = IF comesUp THEN Row("running", "none", from)
                    ELSE IF r \in Run THEN rows[r] ELSE Row("none", "none", from)
      /\ registry' \in [1..MaxRuns -> Nat \cup {None}]
      /\ registry' = IF home = service THEN [registry EXCEPT ![r] = e] ELSE registry
  BY <1>added
<1>2. \A q \in Run : rows'[q].from = rows[q].from /\ rows'[r].from = from
  BY <1>1 DEF Row
<1>15. StoreType' /\ Len(rows') = IF r \in Run THEN Len(rows) ELSE Len(rows) + 1
  <2>1. /\ engines' \in Seq(EngineType) /\ rows' \in Seq(RowType)
        /\ registry' \in [1..MaxRuns -> Nat \cup {None}]
        /\ Len(rows') = IF r \in Run THEN Len(rows) ELSE Len(rows) + 1
    BY <1>added
  <2> QED BY <2>1 DEF StoreType, TypeOK
<1>3. \A q \in Run : q \in Run' /\ Plain(q)' = Plain(q)
  BY <1>1, <1>2 DEF Plain
<1>4. \A x \in Engine : /\ engines[x].run \in Run /\ Live(x)' = Live(x)
                        /\ engines'[x].run = engines[x].run /\ engines'[x].home = engines[x].home
  BY <1>1 DEF Live, IInv, Entries
<1>5. r \in 1..MaxRuns /\ registry \in [1..MaxRuns -> Nat \cup {None}]
  BY <1>0 DEF TypeOK, StoreType
<1>6. \A q \in 1..MaxRuns : q # r => registry'[q] = registry[q]
  BY <1>1, <1>5
<1>7. home = service => registry'[r] = e
  BY <1>1, <1>5
<1>8. registry'[r] = e \/ registry'[r] = registry[r]
  BY <1>1, <1>5
<1>9. Entries'
  <2>1. \A x \in Engine' : engines'[x].run \in Run'
    BY <1>1, <1>4
  <2>2. ASSUME NEW q \in 1..MaxRuns, registry'[q] # None
        PROVE  registry'[q] \in Engine' /\ engines'[registry'[q]].run = q
    <3>1. CASE registry'[q] = registry[q]
      BY <3>1, <2>2, <1>1, <1>4 DEF IInv, Entries
    <3>2. CASE registry'[q] = e /\ q = r
      BY <3>2, <1>1
    <3> QED BY <3>1, <3>2, <1>6, <1>8
  <2> QED BY <2>1, <2>2 DEF Entries
<1>10. PlainEngineOwned'
  <2> SUFFICES ASSUME NEW x \in Engine', Live(x)', Plain(engines[x].run)' PROVE Owned(x)'
    BY DEF PlainEngineOwned
  <2>1. CASE x = e
    <3>1. from = None
      BY <2>1, <1>1 DEF Plain, Row
    <3> QED BY <3>1, <2>1, <1>1, <1>7 DEF Owned
  <2>2. CASE x \in Engine
    <3>1. Live(x) /\ Plain(engines[x].run) /\ engines[x].run \in Run
      BY <2>2, <1>3, <1>4
    <3>2. Owned(x)
      BY <3>1, <2>2 DEF IInv, PlainEngineOwned
    <3>3. engines[x].run # r
      <4> SUFFICES ASSUME engines[x].run = r PROVE FALSE
        OBVIOUS
      <4>1. from = None /\ r \in Run
        BY <3>1 DEF Plain
      <4>2. EntryInFlight(r)
        BY <3>1, <3>2, <2>2, <1>0, NoneAssumption DEF EntryInFlight, Unknown, Owned, Live
      <4> QED BY <4>1, <4>2
    <3>4. registry'[engines[x].run] = registry[engines[x].run]
      BY <3>1, <3>3, <1>0, <1>6
    <3> QED BY <3>2, <3>4, <2>2, <1>4 DEF Owned
  <2> QED BY <2>1, <2>2, <1>1
<1>11. NoLyingRow'
  <2> SUFFICES ASSUME state' = "open", NEW q \in Run', rows'[q].status = "running"
               PROVE  \E x \in Engine' : Live(x)' /\ engines'[x].run = q
    BY DEF NoLyingRow
  <2>1. CASE q = r /\ comesUp
    BY <2>1, <1>1 DEF Live
  <2>2. CASE q \in Run /\ rows'[q] = rows[q]
    <3>1. PICK x \in Engine : Live(x) /\ engines[x].run = q
      BY <2>2 DEF IInv, NoLyingRow
    <3> QED BY <3>1, <1>1, <1>4
  <2>3. CASE q = r /\ ~comesUp /\ r \notin Run
    BY <2>3, <1>1 DEF Row
  <2> QED BY <2>1, <2>2, <2>3, <1>1
<1>12. r \in Run /\ Plain(r) => ~Superseded(r)
  BY DEF Plain, Superseded, Resumable
<1>13. Stays
  BY <1>1, <1>12 DEF Stays, Superseded
<1>14. SupersededIsStill'
  <2> SUFFICES ASSUME NEW q \in Run', Plain(q)', Superseded(q)', NEW x \in Engine',
                      engines'[x].run = q, Live(x)'
               PROVE  FALSE
    BY DEF SupersededIsStill
  <2>1. q \in Run /\ q # r /\ Superseded(q) /\ Plain(q)
    <3>1. q # r
      BY <1>1, <1>12, <1>3 DEF Superseded, Row
    <3> QED BY <3>1, <1>1, <1>3 DEF Superseded
  <2>2. x \in Engine /\ Live(x) /\ engines[x].run = q
    BY <2>1, <1>1, <1>4
  <2> QED BY <2>1, <2>2 DEF IInv, SupersededIsStill
<1> QED BY <1>3, <1>9, <1>10, <1>11, <1>13, <1>14, <1>15

(***************************************************************************)
(* An abort of engines that are the entries of their runs.  It stops every *)
(* live engine of a plain run it hits, so a row it calls superseded has    *)
(* nobody left to write it again.                                          *)
(***************************************************************************)
LEMMA AbortKeeps ==
  ASSUME IInv, NEW S \in SUBSET Engine, \A e \in S : registry[engines[e].run] = e,
         NEW reason \in {"user", "interrupted", "superseded"}, Abort(S, reason),
         UNCHANGED <<service, registry>>,
         state' = state \/ (state' = "closing" /\ \A e \in Engine : Live(e) /\ Owned(e) => e \in S)
  PROVE  /\ Entries' /\ PlainEngineOwned' /\ NoLyingRow' /\ SupersededIsStill' /\ Stays
         /\ \A q \in Run : q \in Run' /\ Plain(q)' = Plain(q)
         /\ StoreType' /\ Len(rows') = Len(rows)
<1> TypeOK
  BY DEF IInv
<1>1. /\ Engine' = Engine /\ Run' = Run
      /\ \A e \in Engine : /\ engines'[e].run = engines[e].run /\ engines'[e].home = engines[e].home
                           /\ engines'[e].phase = IF e \in S /\ Live(e) THEN "settled" ELSE engines[e].phase
      /\ \A r \in Run : rows'[r].from = rows[r].from
      /\ \A r \in Run : (\E e \in S : Live(e) /\ engines[e].run = r)
                           => rows'[r].status = "stopped" /\ rows'[r].reason = reason
      /\ \A r \in Run : (\A e \in S : Live(e) => engines[e].run # r) => rows'[r] = rows[r]
  BY AbortFacts
<1>10. StoreType' /\ Len(rows') = Len(rows)
  <2>1. engines' \in Seq(EngineType) /\ rows' \in Seq(RowType) /\ Len(rows') = Len(rows)
    BY AbortFacts
  <2> QED BY <2>1 DEF StoreType, TypeOK
<1>2. \A e \in Engine : Live(e)' = (Live(e) /\ e \notin S)
  BY <1>1 DEF Live
<1>3. \A q \in Run : q \in Run' /\ Plain(q)' = Plain(q)
  BY <1>1 DEF Plain
<1>4. \A e \in Engine : engines[e].run \in Run
  BY DEF IInv, Entries
<1>5. Entries'
  BY <1>1 DEF IInv, Entries
<1>6. PlainEngineOwned'
  <2> SUFFICES ASSUME NEW e \in Engine', Live(e)', Plain(engines[e].run)' PROVE Owned(e)'
    BY DEF PlainEngineOwned
  <2>1. e \in Engine /\ Live(e) /\ e \notin S /\ Plain(engines[e].run)
    BY <1>1, <1>2, <1>3, <1>4
  <2>2. Owned(e)
    BY <2>1 DEF IInv, PlainEngineOwned
  <2> QED BY <2>1, <2>2, <1>1 DEF Owned
<1>7. NoLyingRow'
  <2> SUFFICES ASSUME state' = "open", NEW q \in Run, rows'[q].status = "running"
               PROVE  \E e \in Engine : Live(e)' /\ engines'[e].run = q
    BY <1>1 DEF NoLyingRow
  <2>1. rows'[q] = rows[q] /\ ~\E e \in S : Live(e) /\ engines[e].run = q
    BY <1>1
  <2>2. PICK e \in Engine : Live(e) /\ engines[e].run = q
    BY <2>1 DEF IInv, NoLyingRow
  <2> QED BY <2>1, <2>2, <1>1, <1>2
<1>8. Stays
  <2> SUFFICES ASSUME NEW r \in Run, Plain(r), Superseded(r) PROVE Superseded(r)'
    BY DEF Stays
  <2>1. \A e \in S : Live(e) => engines[e].run # r
    BY DEF IInv, SupersededIsStill
  <2> QED BY <2>1, <1>1 DEF Superseded
<1>9. SupersededIsStill'
  <2> SUFFICES ASSUME NEW r \in Run, Plain(r), Superseded(r)', NEW e \in Engine,
                      engines[e].run = r, Live(e), e \notin S
               PROVE  FALSE
    BY <1>1, <1>2, <1>3, ZenonT(40) DEF SupersededIsStill
  <2>1. CASE \E x \in S : Live(x) /\ engines[x].run = r
    <3>1. Owned(e)
      BY DEF IInv, PlainEngineOwned
    <3> QED BY <3>1, <2>1 DEF Owned
  <2>2. CASE ~\E x \in S : Live(x) /\ engines[x].run = r
    <3>1. Superseded(r)
      BY <2>2, <1>1 DEF Superseded
    <3> QED BY <3>1 DEF IInv, SupersededIsStill
  <2> QED BY <2>1, <2>2
<1> QED BY <1>3, <1>5, <1>6, <1>7, <1>8, <1>9, <1>10

-----------------------------------------------------------------------------
(* A step that changes no call, and one that only ends or moves one on. *)
LEMMA CallersKept ==
  ASSUME IInv, \A q \in Run : q \in Run' /\ Plain(q)' = Plain(q), Pending' \subseteq Pending,
         \A d \in Pending' : calls'[d].run = calls[d].run /\ calls'[d].op = calls[d].op
  PROVE  Callers'
BY DEF IInv, Callers

LEMMA CallsUnchanged ==
  ASSUME IInv, \A q \in Run : q \in Run' /\ Plain(q)' = Plain(q), StoreType', UNCHANGED calls,
         Len(rows') + Cardinality(Amending) <= MaxRuns
  PROVE  TypeOK' /\ Callers'
<1>1. Pending' = Pending /\ Amending' = Amending
  BY DEF Pending, Amending
<1>2. TypeOK'
  BY <1>1 DEF IInv, TypeOK
<1> QED BY <1>1, <1>2, CallersKept

LEMMA SubmitKeeps ==
  ASSUME IInv, NEW comesUp \in BOOLEAN, Submit(comesUp)
  PROVE  IInv' /\ Stays
<1>1. /\ state = "open" /\ Launch(Len(rows) + 1, None, service, comesUp)
      /\ UNCHANGED <<service, state, awaited, kept, calls>>
      /\ Len(rows) + Cardinality(Amending) < MaxRuns
  BY DEF Submit, Mintable, Amending
<1>2. /\ Len(rows) \in Nat /\ Cardinality(Amending) \in Nat /\ Run = 1..Len(rows) /\ service \in Nat
  BY Domains DEF IInv, TypeOK, StoreType
<1>3. Len(rows) + 1 \in 1..(Len(rows) + 1) /\ Len(rows) + 1 <= MaxRuns /\ Len(rows) + 1 \notin Run
  BY <1>1, <1>2, BoundAssumption
<1>4. /\ Entries' /\ PlainEngineOwned' /\ NoLyingRow' /\ SupersededIsStill' /\ Stays
      /\ \A q \in Run : q \in Run' /\ Plain(q)' = Plain(q)
      /\ StoreType' /\ Len(rows') = Len(rows) + 1
  BY <1>1, <1>2, <1>3, LaunchKeeps
<1>5. TypeOK' /\ Callers'
  BY <1>1, <1>2, <1>4, CallsUnchanged, BoundAssumption
<1> QED BY <1>4, <1>5 DEF IInv

LEMMA ResumeNowKeeps ==
  ASSUME IInv, NEW r \in Run, NEW comesUp \in BOOLEAN, ResumeNow(r, comesUp)
  PROVE  IInv' /\ Stays
<1>1. /\ state = "open" /\ ~EntryInFlight(r) /\ Resumable(rows[r]) /\ rows[r].from = None
      /\ Launch(r, None, service, comesUp)
      /\ UNCHANGED <<service, state, awaited, kept, calls>>
  BY DEF ResumeNow, MayResume
<1>2. /\ Len(rows) \in Nat /\ Run = 1..Len(rows) /\ Run \subseteq 1..MaxRuns /\ service \in Nat
      /\ MaxRuns \in Nat /\ Len(rows) + Cardinality(Amending) <= MaxRuns
  BY Domains, BoundAssumption DEF IInv, TypeOK, StoreType
<1>3. r \in 1..(Len(rows) + 1) /\ r <= MaxRuns
  BY <1>2
<1>4. /\ Entries' /\ PlainEngineOwned' /\ NoLyingRow' /\ SupersededIsStill' /\ Stays
      /\ \A q \in Run : q \in Run' /\ Plain(q)' = Plain(q)
      /\ StoreType' /\ Len(rows') = Len(rows)
  BY <1>1, <1>2, <1>3, LaunchKeeps
<1>5. TypeOK' /\ Callers'
  BY <1>1, <1>2, <1>4, CallsUnchanged
<1> QED BY <1>4, <1>5 DEF IInv

LEMMA AmendLaunchesKeeps ==
  ASSUME IInv, NEW c \in Call, NEW comesUp \in BOOLEAN, AmendLaunches(c, comesUp)
  PROVE  IInv' /\ Stays
<1>1. /\ c \in Amending /\ c \in Pending
      /\ Launch(Len(rows) + 1, calls[c].run, calls[c].home, comesUp)
      /\ Return(c) /\ UNCHANGED <<service, state, awaited, kept>>
  BY DEF AmendLaunches, At, Amending, Pending
<1>2. /\ Len(rows) \in Nat /\ Run = 1..Len(rows) /\ MaxRuns \in Nat
      /\ IsFiniteSet(Amending) /\ Cardinality(Amending) \in Nat
      /\ Len(rows) + Cardinality(Amending) <= MaxRuns
  BY Domains, BoundAssumption DEF IInv, TypeOK
<1>3. /\ Cardinality(Amending \ {c}) = Cardinality(Amending) - 1
      /\ Cardinality(Amending \ {c}) \in Nat
  BY <1>1, <1>2, FS_RemoveElement, FS_CardinalityType
<1>4. Len(rows) + 1 \in 1..(Len(rows) + 1) /\ Len(rows) + 1 <= MaxRuns /\ Len(rows) + 1 \notin Run
  BY <1>2, <1>3
<1>5. calls[c].run \in Nat /\ calls[c].home \in Nat
  BY <1>1 DEF IInv, TypeOK, CallType, Pending
<1>6. /\ Entries' /\ PlainEngineOwned' /\ NoLyingRow' /\ SupersededIsStill' /\ Stays
      /\ \A q \in Run : q \in Run' /\ Plain(q)' = Plain(q)
      /\ StoreType' /\ Len(rows') = Len(rows) + 1
  <2>1. calls[c].run # None
    BY <1>5, NoneAssumption
  <2> QED BY <1>1, <1>4, <1>5, <2>1, LaunchKeeps
<1>7. /\ calls' \in [Call -> CallType \cup {None}] /\ Pending' = Pending \ {c}
      /\ Amending' = Amending \ {c} /\ \A d \in Pending' : calls'[d] = calls[d]
  BY <1>1, ReturnFacts DEF IInv
<1>8. Callers'
  BY <1>6, <1>7, CallersKept
<1>9. TypeOK'
  BY <1>2, <1>3, <1>6, <1>7 DEF TypeOK
<1> QED BY <1>6, <1>8, <1>9 DEF IInv

LEMMA ResumeLaunchesKeeps ==
  ASSUME IInv, NEW c \in Call, NEW comesUp \in BOOLEAN, ResumeLaunches(c, comesUp)
  PROVE  IInv' /\ Stays
<1> DEFINE r == calls[c].run
<1>1. /\ c \in Pending /\ calls[c].op = "resume"
      /\ Launch(r, rows[r].from, calls[c].home, comesUp)
      /\ Return(c) /\ UNCHANGED <<service, state, awaited, kept>>
  BY DEF ResumeLaunches, At, Pending
<1>2. /\ Len(rows) \in Nat /\ Run = 1..Len(rows) /\ Run \subseteq 1..MaxRuns /\ MaxRuns \in Nat
      /\ IsFiniteSet(Amending) /\ Cardinality(Amending) \in Nat /\ rows \in [Run -> RowType]
      /\ Len(rows) + Cardinality(Amending) <= MaxRuns
  BY Domains, BoundAssumption DEF IInv, TypeOK
<1>3. r \in Run /\ rows[r].from # None /\ calls[c].home \in Nat
  BY <1>1 DEF IInv, Callers, Plain, TypeOK, CallType, Pending
<1>4. r \in 1..(Len(rows) + 1) /\ r <= MaxRuns /\ rows[r].from \in Nat \cup {None}
  BY <1>2, <1>3 DEF RowType
<1>5. /\ Entries' /\ PlainEngineOwned' /\ NoLyingRow' /\ SupersededIsStill' /\ Stays
      /\ \A q \in Run : q \in Run' /\ Plain(q)' = Plain(q)
      /\ StoreType' /\ Len(rows') = Len(rows)
  BY <1>1, <1>3, <1>4, LaunchKeeps
<1>6. /\ calls' \in [Call -> CallType \cup {None}] /\ Pending' = Pending \ {c}
      /\ Amending' = Amending \ {c} /\ \A d \in Pending' : calls'[d] = calls[d]
  BY <1>1, ReturnFacts DEF IInv
<1>7. Callers'
  BY <1>5, <1>6, CallersKept
<1>8. Cardinality(Amending \ {c}) <= Cardinality(Amending) /\ Cardinality(Amending \ {c}) \in Nat
  <2>1. Amending \ {c} \in SUBSET Amending
    OBVIOUS
  <2> QED BY <2>1, <1>2, FS_Subset, FS_CardinalityType
<1>9. TypeOK'
  BY <1>2, <1>5, <1>6, <1>8 DEF TypeOK
<1> QED BY <1>5, <1>7, <1>9 DEF IInv

LEMMA AmendKeeps ==
  ASSUME IInv, NEW c \in Call, NEW p \in Run, Amend(c, p)
  PROVE  IInv' /\ Stays
<1>1. calls[c] = None /\ state = "open" /\ Len(rows) + Cardinality(Amending) < MaxRuns
      /\ UNCHANGED <<service, state, awaited, registry, kept>>
  BY DEF Amend, Mintable, Amending
<1>2. /\ Len(rows) \in Nat /\ Run = 1..Len(rows) /\ Run \subseteq 1..MaxRuns /\ MaxRuns \in Nat
      /\ Cardinality(Amending) \in Nat /\ Engine \subseteq Nat
      /\ registry \in [1..MaxRuns -> Nat \cup {None}] /\ service \in Nat
  BY Domains, BoundAssumption DEF IInv, TypeOK, StoreType
<1> DEFINE x(e, at) == Waiting("amend", p, e, at)
<1>3. \A e \in Nat \cup {None} : \A at \in {"settling", "quieting"} :
         x(e, at) \in CallType /\ x(e, at).op = "amend" /\ x(e, at).run = p
  BY <1>2 DEF Waiting, CallType
<1>4. PICK e \in Nat \cup {None}, at \in {"settling", "quieting"} : Begin(c, x(e, at))
  BY <1>2 DEF Amend
<1>5. /\ calls' \in [Call -> CallType \cup {None}]
      /\ Pending' \subseteq Pending \cup {c} /\ calls'[c] = x(e, at)
      /\ \A d \in Pending : calls'[d] = calls[d]
      /\ Cardinality(Amending') <= Cardinality(Amending) + 1
  BY <1>1, <1>3, <1>4, BeginFacts DEF IInv
<1>6. /\ Entries' /\ PlainEngineOwned' /\ NoLyingRow' /\ SupersededIsStill' /\ Stays
      /\ \A q \in Run : q \in Run' /\ Plain(q)' = Plain(q)
      /\ StoreType' /\ Len(rows') = Len(rows)
  <2>1. CASE EntryInFlight(p)
    <3>1. Abort({registry[p]}, "superseded")
      BY <2>1 DEF Amend, Supersede
    <3>2. registry[p] \in Engine /\ engines[registry[p]].run = p
      BY <2>1, <1>2 DEF EntryInFlight, IInv, Entries
    <3>3. {registry[p]} \in SUBSET Engine
          /\ \A y \in {registry[p]} : registry[engines[y].run] = y
      BY <3>2
    <3> QED BY <1>1, <3>1, <3>3, AbortKeeps
  <2>2. CASE ~EntryInFlight(p)
    <3>1. UNCHANGED <<engines, rows, state, registry, service>>
      BY <2>2, <1>1 DEF Amend
    <3>2. Entries' /\ PlainEngineOwned' /\ NoLyingRow' /\ SupersededIsStill'
      BY <3>1 DEF IInv, Entries, PlainEngineOwned, NoLyingRow, SupersededIsStill, Run, Engine, Owned,
                  Live, Plain, Superseded
    <3>3. Stays /\ \A q \in Run : q \in Run' /\ Plain(q)' = Plain(q)
      BY <3>1 DEF Stays, Superseded, Plain, Run
    <3>4. StoreType'
      BY <3>1 DEF IInv, TypeOK, StoreType
    <3> QED BY <3>1, <3>2, <3>3, <3>4
  <2> QED BY <2>1, <2>2
<1>7. Callers'
  <2>1. \A d \in Pending' : d \in Pending \/ (d = c /\ calls'[d].run = p /\ calls'[d].op = "amend")
    BY <1>3, <1>5
  <2> QED BY <2>1, <1>5, <1>6 DEF IInv, Callers
<1>8. TypeOK'
  <2>1. Cardinality(Amending') \in Nat
    <3>1. Amending' \in SUBSET Call
      BY DEF Amending, Pending
    <3> QED BY <3>1, CallAssumption, FS_Subset, FS_CardinalityType
  <2> QED BY <2>1, <1>1, <1>2, <1>5, <1>6 DEF TypeOK
<1> QED BY <1>6, <1>7, <1>8 DEF IInv

(* The steps of a call that touch no row, no engine and no entry. *)
LEMMA StoreUnchanged ==
  ASSUME IInv, UNCHANGED <<rows, engines, service, state, registry>>
  PROVE  /\ Entries' /\ PlainEngineOwned' /\ NoLyingRow' /\ SupersededIsStill' /\ Stays
         /\ \A q \in Run : q \in Run' /\ Plain(q)' = Plain(q)
         /\ StoreType' /\ Len(rows') = Len(rows)
<1>1. Entries' /\ PlainEngineOwned' /\ NoLyingRow' /\ SupersededIsStill'
  BY DEF IInv, Entries, PlainEngineOwned, NoLyingRow, SupersededIsStill, Run, Engine, Owned,
         Live, Plain, Superseded
<1>2. Stays /\ \A q \in Run : q \in Run' /\ Plain(q)' = Plain(q)
  BY DEF Stays, Superseded, Plain, Run
<1>3. StoreType'
  BY DEF IInv, TypeOK, StoreType
<1> QED BY <1>1, <1>2, <1>3

LEMMA FewerAmending ==
  ASSUME IInv, Amending' \in SUBSET Amending, Len(rows') = Len(rows), StoreType',
         calls' \in [Call -> CallType \cup {None}]
  PROVE  TypeOK'
<1>1. /\ Len(rows) \in Nat /\ IsFiniteSet(Amending) /\ Cardinality(Amending) \in Nat
      /\ Len(rows) + Cardinality(Amending) <= MaxRuns /\ MaxRuns \in Nat
  BY Domains, BoundAssumption DEF IInv, TypeOK
<1>2. Cardinality(Amending') <= Cardinality(Amending) /\ Cardinality(Amending') \in Nat
  BY <1>1, FS_Subset, FS_CardinalityType
<1> QED BY <1>1, <1>2 DEF TypeOK

LEMMA CallWaitsKeeps ==
  ASSUME IInv, NEW c \in Call, AmendSettled(c) \/ AmendImports(c)
  PROVE  IInv' /\ Stays
<1>1. /\ c \in Pending /\ UNCHANGED <<rows, engines, service, state, awaited, registry, kept>>
      /\ Proceed(c, "quieting") \/ Proceed(c, "importing") \/ Return(c)
  BY DEF AmendSettled, AmendImports, At, Pending
<1>2. /\ calls' \in [Call -> CallType \cup {None}] /\ Pending' \subseteq Pending
      /\ Amending' \in SUBSET Amending
      /\ \A d \in Pending' : calls'[d].run = calls[d].run /\ calls'[d].op = calls[d].op
  <2>1. CASE Proceed(c, "quieting") \/ Proceed(c, "importing")
    BY <1>1, <2>1, ProceedFacts DEF IInv
  <2>2. CASE Return(c)
    BY <1>1, <2>2, ReturnFacts DEF IInv
  <2> QED BY <1>1, <2>1, <2>2
<1>3. /\ Entries' /\ PlainEngineOwned' /\ NoLyingRow' /\ SupersededIsStill' /\ Stays
      /\ \A q \in Run : q \in Run' /\ Plain(q)' = Plain(q)
      /\ StoreType' /\ Len(rows') = Len(rows)
  BY <1>1, StoreUnchanged
<1> QED BY <1>2, <1>3, CallersKept, FewerAmending DEF IInv

LEMMA ResumeRebuildsKeeps ==
  ASSUME IInv, NEW c \in Call, NEW r \in Run, ResumeRebuilds(c, r)
  PROVE  IInv' /\ Stays
<1>1. /\ calls[c] = None /\ rows[r].from # None
      /\ Begin(c, Waiting("resume", r, None, "rebuilding"))
      /\ UNCHANGED <<rows, engines, service, state, awaited, registry, kept>>
  BY DEF ResumeRebuilds
<1> DEFINE x == Waiting("resume", r, None, "rebuilding")
<1>2. x \in CallType /\ x.op = "resume" /\ x.run = r
  BY Domains DEF Waiting, CallType, IInv, TypeOK, StoreType
<1>3. /\ calls' \in [Call -> CallType \cup {None}]
      /\ Pending' \subseteq Pending \cup {c} /\ calls'[c] = x
      /\ \A d \in Pending : calls'[d] = calls[d]
      /\ Cardinality(Amending') <= Cardinality(Amending) + 0
  BY <1>1, <1>2, BeginFacts DEF IInv
<1>4. /\ Entries' /\ PlainEngineOwned' /\ NoLyingRow' /\ SupersededIsStill' /\ Stays
      /\ \A q \in Run : q \in Run' /\ Plain(q)' = Plain(q)
      /\ StoreType' /\ Len(rows') = Len(rows)
  BY <1>1, StoreUnchanged
<1>5. Callers'
  <2>1. \A d \in Pending' : d \in Pending \/ (d = c /\ calls'[d].run = r)
    BY <1>2, <1>3
  <2>2. ~Plain(r)
    BY <1>1 DEF Plain
  <2> QED BY <2>1, <2>2, <1>3, <1>4 DEF IInv, Callers
<1>6. TypeOK'
  <2>1. Amending' \in SUBSET Amending
    BY <1>2, <1>3 DEF Amending
  <2> QED BY <2>1, <1>3, <1>4, FewerAmending
<1> QED BY <1>4, <1>5, <1>6 DEF IInv

LEMMA CancelKeeps ==
  ASSUME IInv, NEW r \in Run, Cancel(r)
  PROVE  IInv' /\ Stays
<1>1. /\ EntryInFlight(r) /\ Abort({registry[r]}, "user")
      /\ UNCHANGED <<service, state, awaited, registry, kept, calls>>
  BY DEF Cancel
<1>2. registry[r] \in Engine /\ engines[registry[r]].run = r
  BY <1>1, Domains DEF EntryInFlight, IInv, Entries
<1>3. {registry[r]} \in SUBSET Engine /\ \A y \in {registry[r]} : registry[engines[y].run] = y
  BY <1>2
<1>4. /\ Entries' /\ PlainEngineOwned' /\ NoLyingRow' /\ SupersededIsStill' /\ Stays
      /\ \A q \in Run : q \in Run' /\ Plain(q)' = Plain(q)
      /\ StoreType' /\ Len(rows') = Len(rows)
  BY <1>1, <1>3, AbortKeeps
<1>5. TypeOK' /\ Callers'
  BY <1>1, <1>4, CallsUnchanged DEF IInv, TypeOK
<1> QED BY <1>4, <1>5 DEF IInv

(* The engine that settles had no superseded row, and was nobody else's. *)
LEMMA EngineSettlesKeeps ==
  ASSUME IInv, NEW e \in Engine, NEW verdict \in {"completed", "stopped"}, EngineSettles(e, verdict)
  PROVE  IInv' /\ Stays
<1> DEFINE p == engines[e].run
           why == IF verdict = "stopped" THEN "interrupted" ELSE "none"
<1>0. /\ Len(rows) \in Nat /\ Run = 1..Len(rows) /\ rows \in [Run -> RowType] /\ rows \in Seq(RowType)
      /\ Len(engines) \in Nat /\ Engine = 1..Len(engines) /\ engines \in [Engine -> EngineType]
  BY Domains DEF IInv, TypeOK, StoreType
<1>1. /\ Live(e) /\ p \in Run
      /\ engines' = [engines EXCEPT ![e] = [engines[e] EXCEPT !.phase = "settled", !.verdict = verdict]]
      /\ rows' = [rows EXCEPT ![p] = Row(verdict, why, rows[p].from)]
      /\ UNCHANGED <<service, state, awaited, registry, kept, calls>>
  BY <1>0 DEF EngineSettles, IInv, Entries, EngineType
<1>2. Row(verdict, why, rows[p].from) \in RowType
  BY <1>0, <1>1 DEF Row, RowType, Terminal
<1>3. [engines[e] EXCEPT !.phase = "settled", !.verdict = verdict] \in EngineType
  BY <1>0 DEF EngineType, Terminal
<1>4. engines' \in Seq(EngineType) /\ Engine' = Engine
  BY <1>0, <1>1, <1>3, SameLength DEF Engine
<1>5. rows' \in Seq(RowType) /\ Run' = Run /\ Len(rows') = Len(rows)
  BY <1>0, <1>1, <1>2, SameLength DEF Run
<1>6. /\ \A x \in Engine : /\ engines'[x].run = engines[x].run /\ engines'[x].home = engines[x].home
                           /\ Live(x)' = (Live(x) /\ x # e)
      /\ \A r \in Run : rows'[r].from = rows[r].from /\ (r # p => rows'[r] = rows[r])
      /\ rows'[p].status = verdict /\ rows'[p].reason = why
  <2>1. \A x \in Engine : x # e => engines'[x] = engines[x]
    BY <1>0, <1>1
  <2>2. /\ engines'[e].run = engines[e].run /\ engines'[e].home = engines[e].home
        /\ engines'[e].phase = "settled"
    BY <1>0, <1>1 DEF EngineType
  <2>3. \A r \in Run : r # p => rows'[r] = rows[r]
    BY <1>0, <1>1
  <2>4. rows'[p] = Row(verdict, why, rows[p].from)
    BY <1>0, <1>1
  <2>5. rows'[p].status = verdict /\ rows'[p].reason = why /\ rows'[p].from = rows[p].from
    BY <2>4 DEF Row
  <2> QED BY <2>1, <2>2, <2>3, <2>5 DEF Live
<1>7. \A q \in Run : q \in Run' /\ Plain(q)' = Plain(q)
  BY <1>5, <1>6 DEF Plain
<1>8. Entries'
  BY <1>1, <1>4, <1>5, <1>6 DEF IInv, Entries
<1>9. PlainEngineOwned'
  <2> SUFFICES ASSUME NEW x \in Engine', Live(x)', Plain(engines[x].run)' PROVE Owned(x)'
    BY DEF PlainEngineOwned
  <2>1. x \in Engine /\ Live(x) /\ engines[x].run \in Run
    BY <1>4, <1>6 DEF IInv, Entries
  <2>2. Plain(engines[x].run)
    BY <2>1, <1>6 DEF Plain
  <2>3. Owned(x)
    BY <2>1, <2>2 DEF IInv, PlainEngineOwned
  <2> QED BY <2>1, <2>3, <1>1, <1>6 DEF Owned
<1>10. NoLyingRow'
  <2> SUFFICES ASSUME state = "open", NEW r \in Run, rows'[r].status = "running"
               PROVE  \E x \in Engine : Live(x)' /\ engines'[x].run = r
    BY <1>1, <1>4, <1>5 DEF NoLyingRow
  <2>1. r # p /\ rows[r].status = "running"
    BY <1>6
  <2>2. PICK x \in Engine : Live(x) /\ engines[x].run = r
    BY <2>1 DEF IInv, NoLyingRow
  <2> QED BY <2>1, <2>2, <1>6
<1>11. Plain(p) => ~Superseded(p)
  BY <1>1 DEF IInv, SupersededIsStill
<1>12. Stays
  BY <1>1, <1>6, <1>11 DEF Stays, Superseded
<1>13. SupersededIsStill'
  <2> SUFFICES ASSUME NEW r \in Run, Plain(r), Superseded(r)', NEW x \in Engine,
                      engines[x].run = r, Live(x)
               PROVE  FALSE
    BY <1>4, <1>5, <1>6, <1>7 DEF SupersededIsStill
  <2>1. r # p
    BY <1>6 DEF Superseded
  <2>2. Superseded(r)
    BY <2>1, <1>6 DEF Superseded
  <2> QED BY <2>2 DEF IInv, SupersededIsStill
<1>14. StoreType'
  BY <1>1, <1>4, <1>5 DEF IInv, TypeOK, StoreType
<1>15. TypeOK' /\ Callers'
  BY <1>1, <1>5, <1>7, <1>14, CallsUnchanged DEF IInv, TypeOK
<1> QED BY <1>8, <1>9, <1>10, <1>12, <1>13, <1>15 DEF IInv

(* What goes out of the registry has no live engine. *)
LEMMA DeliverKeeps ==
  ASSUME IInv, NEW e \in Engine, Deliver(e)
  PROVE  IInv' /\ Stays
<1>0. /\ Len(engines) \in Nat /\ Engine = 1..Len(engines) /\ engines \in [Engine -> EngineType]
      /\ registry \in [1..MaxRuns -> Nat \cup {None}] /\ Run \subseteq 1..MaxRuns
  BY Domains DEF IInv, TypeOK, StoreType
<1>1. /\ engines[e].phase = "settled"
      /\ engines' = [engines EXCEPT ![e] = [engines[e] EXCEPT !.phase = "known"]]
      /\ UNCHANGED <<rows, service, state, awaited, calls>>
  BY DEF Deliver
<1>2. [engines[e] EXCEPT !.phase = "known"] \in EngineType
  BY <1>0 DEF EngineType
<1>3. engines' \in Seq(EngineType) /\ Engine' = Engine
  BY <1>0, <1>1, <1>2, SameLength DEF Engine
<1>4. \A x \in Engine : /\ engines'[x].run = engines[x].run /\ engines'[x].home = engines[x].home
                        /\ Live(x)' = Live(x)
  <2>1. \A x \in Engine : x # e => engines'[x] = engines[x]
    BY <1>0, <1>1
  <2>2. /\ engines'[e].run = engines[e].run /\ engines'[e].home = engines[e].home
        /\ engines'[e].phase = "known"
    BY <1>0, <1>1 DEF EngineType
  <2> QED BY <2>1, <2>2, <1>1 DEF Live
<1>5. /\ registry' \in [1..MaxRuns -> Nat \cup {None}]
      /\ \A r \in 1..MaxRuns : \/ registry'[r] = registry[r]
                               \/ registry'[r] = None /\ (registry[r] = e \/ ~Unknown(registry[r]))
  <2>1. CASE engines[e].home # service
    BY <2>1, <1>0 DEF Deliver
  <2>2. CASE engines[e].home = service
    <3> DEFINE order == Append(kept, engines[e].run)
               full == Len(order) > TerminalLimit
    <3>1. registry' = [r \in DOMAIN registry |->
                         IF full /\ Evicts(order, r, e) THEN None ELSE registry[r]]
      BY <2>2 DEF Deliver
    <3> HIDE DEF order, full
    <3> QED BY <3>1, <1>0 DEF Evicts
  <2> QED BY <2>1, <2>2
<1>6. \A r \in 1..MaxRuns : registry[r] # None /\ Live(registry[r]) => registry'[r] = registry[r]
  BY <1>1, <1>5 DEF Live, Unknown
<1>7. Run' = Run /\ \A q \in Run : q \in Run' /\ Plain(q)' = Plain(q)
  BY <1>1 DEF Run, Plain
<1>8. Entries'
  BY <1>1, <1>3, <1>4, <1>5, <1>7 DEF IInv, Entries
<1>9. PlainEngineOwned'
  <2> SUFFICES ASSUME NEW x \in Engine, Live(x), Plain(engines[x].run)
               PROVE  registry'[engines[x].run] = x /\ Owned(x)
    BY <1>1, <1>3, <1>4 DEF PlainEngineOwned, Plain, Owned
  <2>1. Owned(x) /\ engines[x].run \in 1..MaxRuns
    BY <1>0 DEF IInv, PlainEngineOwned, Entries
  <2> QED BY <2>1, <1>0, <1>6, NoneAssumption DEF Owned
<1>10. NoLyingRow' /\ SupersededIsStill'
  BY <1>1, <1>3, <1>4, <1>7 DEF IInv, NoLyingRow, SupersededIsStill, Superseded, Plain
<1>11. Stays
  BY <1>1 DEF Stays, Superseded
<1>12. StoreType'
  BY <1>1, <1>3, <1>5 DEF IInv, TypeOK, StoreType
<1>13. TypeOK' /\ Callers'
  BY <1>1, <1>7, <1>12, CallsUnchanged DEF IInv, TypeOK
<1> QED BY <1>8, <1>9, <1>10, <1>11, <1>13 DEF IInv

LEMMA CloseKeeps ==
  ASSUME IInv, Close
  PROVE  IInv' /\ Stays
<1>1. /\ state' = "closing" /\ UNCHANGED <<service, registry, kept, calls>>
      /\ Abort({registry[r] : r \in {q \in DOMAIN registry : EntryInFlight(q)}}, "interrupted")
  BY DEF Close
<1> DEFINE S == {registry[r] : r \in {q \in DOMAIN registry : EntryInFlight(q)}}
<1>2. registry \in [1..MaxRuns -> Nat \cup {None}] /\ Run \subseteq 1..MaxRuns /\ Engine \subseteq Nat
  BY Domains DEF IInv, TypeOK, StoreType
<1>3. S \in SUBSET Engine /\ \A e \in S : registry[engines[e].run] = e
  BY <1>2 DEF IInv, Entries, EntryInFlight
<1>4. \A e \in Engine : Live(e) /\ Owned(e) => e \in S
  <2> SUFFICES ASSUME NEW e \in Engine, Live(e), Owned(e) PROVE e \in S
    OBVIOUS
  <2>1. engines[e].run \in 1..MaxRuns /\ registry[engines[e].run] = e /\ e # None
    BY <1>2, NoneAssumption DEF IInv, Entries, Owned
  <2>2. EntryInFlight(engines[e].run)
    BY <2>1 DEF EntryInFlight, Unknown, Live
  <2> QED BY <2>1, <2>2, <1>2
<1>5. /\ Entries' /\ PlainEngineOwned' /\ NoLyingRow' /\ SupersededIsStill' /\ Stays
      /\ \A q \in Run : q \in Run' /\ Plain(q)' = Plain(q)
      /\ StoreType' /\ Len(rows') = Len(rows)
  <2> HIDE DEF S
  <2>1. Abort(S, "interrupted")
    BY <1>1 DEF S
  <2> QED BY <2>1, <1>1, <1>3, <1>4, AbortKeeps
<1>6. TypeOK' /\ Callers'
  BY <1>1, <1>5, CallsUnchanged DEF IInv, TypeOK
<1> QED BY <1>5, <1>6 DEF IInv

LEMMA CloseEndsKeeps ==
  ASSUME IInv, CloseEnds
  PROVE  IInv' /\ Stays
<1>1. /\ state = "closing" /\ state' = "closed"
      /\ UNCHANGED <<rows, engines, service, awaited, registry, kept, calls>>
  BY DEF CloseEnds
<1>2. Entries' /\ NoLyingRow' /\ SupersededIsStill'
  BY <1>1 DEF IInv, Entries, NoLyingRow, SupersededIsStill, Run, Engine, Live, Plain, Superseded
<1>3. PlainEngineOwned'
  BY <1>1 DEF IInv, PlainEngineOwned, Engine, Owned, Live, Plain
<1>4. Stays /\ \A q \in Run : q \in Run' /\ Plain(q)' = Plain(q)
  BY <1>1 DEF Stays, Superseded, Plain, Run
<1>5. StoreType'
  BY <1>1 DEF IInv, TypeOK, StoreType
<1>6. TypeOK' /\ Callers'
  BY <1>1, <1>4, <1>5, CallsUnchanged DEF IInv, TypeOK
<1> QED BY <1>2, <1>3, <1>4, <1>6 DEF IInv

LEMMA CrashKeeps ==
  ASSUME IInv, Crash
  PROVE  IInv' /\ Stays
<1>0. /\ Len(engines) \in Nat /\ Engine = 1..Len(engines) /\ engines \in [Engine -> EngineType]
  BY Domains DEF IInv
<1>1. /\ state' = "down" /\ calls' = [c \in Call |-> None]
      /\ engines' = [e \in Engine |-> [engines[e] EXCEPT !.phase = "known"]]
      /\ UNCHANGED <<rows, service, awaited, registry, kept>>
  BY DEF Crash
<1>2. \A e \in Engine : [engines[e] EXCEPT !.phase = "known"] \in EngineType
  BY <1>0 DEF EngineType
<1>3. engines' \in [1..Len(engines) -> EngineType]
  BY <1>0, <1>1, <1>2
<1>4. engines' \in Seq(EngineType) /\ Engine' = Engine
  BY <1>0, <1>3, SameLength DEF Engine
<1>5. \A x \in Engine : engines'[x].run = engines[x].run /\ ~Live(x)'
  BY <1>0, <1>1 DEF EngineType, Live
<1>6. Run' = Run /\ \A q \in Run : q \in Run' /\ Plain(q)' = Plain(q)
  BY <1>1 DEF Run, Plain
<1>7. Entries' /\ PlainEngineOwned' /\ NoLyingRow' /\ SupersededIsStill' /\ Stays
  BY <1>1, <1>4, <1>5, <1>6 DEF IInv, Entries, PlainEngineOwned, NoLyingRow, SupersededIsStill, Stays,
                                Superseded
<1>8. Pending' = {} /\ Amending' = {}
  BY <1>1 DEF Pending, Amending
<1>9. TypeOK'
  <2>1. StoreType' /\ calls' \in [Call -> CallType \cup {None}] /\ Amending' \in SUBSET Amending
    BY <1>1, <1>4, <1>8 DEF IInv, TypeOK, StoreType
  <2> QED BY <2>1, <1>1, FewerAmending
<1>10. Callers'
  BY <1>8 DEF Callers
<1> QED BY <1>7, <1>9, <1>10 DEF IInv

(***************************************************************************)
(* Reconciling: rows nobody settled become stopped and interrupted, and    *)
(* terminal ones stay, the superseded among them.                          *)
(***************************************************************************)
LEMMA ReconcileFacts ==
  ASSUME IInv, ReconcileAll
  PROVE  /\ rows' \in Seq(RowType) /\ Run' = Run /\ Len(rows') = Len(rows)
         /\ \A r \in Run : /\ rows'[r].from = rows[r].from /\ rows'[r].status # "running"
                           /\ Superseded(r)' = Superseded(r)
<1>1. /\ Len(rows) \in Nat /\ Run = 1..Len(rows) /\ rows \in [Run -> RowType]
      /\ rows' = [r \in Run |-> Reconciled(rows[r])]
  BY Domains DEF IInv, ReconcileAll
<1>2. \A row \in RowType : /\ Reconciled(row) \in RowType /\ Reconciled(row).from = row.from
                           /\ Reconciled(row).status # "running"
                           /\ (Reconciled(row).status = "stopped" /\ Reconciled(row).reason = "superseded")
                              = (row.status = "stopped" /\ row.reason = "superseded")
  BY DEF Reconciled, Row, RowType, Terminal
<1>3. rows' \in [1..Len(rows) -> RowType]
  BY <1>1, <1>2
<1>4. rows' \in Seq(RowType) /\ Run' = Run /\ Len(rows') = Len(rows)
  BY <1>1, <1>3, SameLength DEF Run
<1>5. \A r \in Run : rows'[r] = Reconciled(rows[r]) /\ rows[r] \in RowType
  BY <1>1
<1> QED BY <1>2, <1>4, <1>5 DEF Superseded

LEMMA OpenKeeps ==
  ASSUME IInv, Open
  PROVE  IInv' /\ Stays
<1>1. /\ state \in {"closed", "down"} /\ state' = "open" /\ service' = service + 1
      /\ registry' = [r \in DOMAIN registry |-> None] /\ ReconcileAll
      /\ UNCHANGED <<engines, calls>>
  BY DEF Open
<1>2. /\ rows' \in Seq(RowType) /\ Run' = Run /\ Len(rows') = Len(rows)
      /\ \A r \in Run : /\ rows'[r].from = rows[r].from /\ rows'[r].status # "running"
                        /\ Superseded(r)' = Superseded(r)
  BY <1>1, ReconcileFacts
<1>3. \A q \in Run : q \in Run' /\ Plain(q)' = Plain(q)
  BY <1>2 DEF Plain
<1>4. Engine' = Engine /\ \A e \in Engine : engines'[e] = engines[e] /\ Live(e)' = Live(e)
  BY <1>1 DEF Engine, Live
<1>5. StoreType' /\ registry' = [r \in 1..MaxRuns |-> None]
  <2>1. registry' = [r \in 1..MaxRuns |-> None]
    BY <1>1 DEF IInv, TypeOK, StoreType
  <2> QED BY <2>1, <1>1, <1>2 DEF IInv, TypeOK, StoreType
<1>6. Entries'
  BY <1>2, <1>4, <1>5 DEF IInv, Entries
<1>7. PlainEngineOwned'
  <2>1. \A e \in Engine : ~(Live(e) /\ Plain(engines[e].run))
    BY <1>1 DEF IInv, PlainEngineOwned, Owned
  <2>2. \A e \in Engine : engines[e].run \in Run
    BY DEF IInv, Entries
  <2> QED BY <2>1, <2>2, <1>2, <1>4 DEF PlainEngineOwned, Plain
<1>8. NoLyingRow'
  BY <1>2 DEF NoLyingRow
<1>9. Stays /\ SupersededIsStill'
  BY <1>2, <1>3, <1>4 DEF Stays, IInv, SupersededIsStill
<1>10. TypeOK' /\ Callers'
  BY <1>1, <1>2, <1>3, <1>5, CallsUnchanged DEF IInv, TypeOK
<1> QED BY <1>6, <1>7, <1>8, <1>9, <1>10 DEF IInv

LEMMA ForeignReconcileKeeps ==
  ASSUME IInv, ForeignReconcile
  PROVE  IInv' /\ Stays
<1>1. ReconcileAll /\ UNCHANGED <<engines, service, state, awaited, registry, kept, calls>>
  BY DEF ForeignReconcile
<1>2. /\ rows' \in Seq(RowType) /\ Run' = Run /\ Len(rows') = Len(rows)
      /\ \A r \in Run : /\ rows'[r].from = rows[r].from /\ rows'[r].status # "running"
                        /\ Superseded(r)' = Superseded(r)
  BY <1>1, ReconcileFacts
<1>3. \A q \in Run : q \in Run' /\ Plain(q)' = Plain(q)
  BY <1>2 DEF Plain
<1>4. Engine' = Engine /\ \A e \in Engine : /\ engines'[e] = engines[e] /\ Live(e)' = Live(e)
                                            /\ Owned(e)' = Owned(e) /\ engines[e].run \in Run
  BY <1>1 DEF Engine, Live, Owned, IInv, Entries
<1>5. Entries' /\ PlainEngineOwned' /\ NoLyingRow'
  BY <1>1, <1>2, <1>4 DEF IInv, Entries, PlainEngineOwned, Plain, NoLyingRow
<1>6. Stays /\ SupersededIsStill'
  BY <1>2, <1>3, <1>4 DEF Stays, IInv, SupersededIsStill
<1>7. StoreType'
  BY <1>1, <1>2 DEF IInv, TypeOK, StoreType
<1>8. TypeOK' /\ Callers'
  BY <1>1, <1>2, <1>3, <1>7, CallsUnchanged DEF IInv, TypeOK
<1> QED BY <1>5, <1>6, <1>8 DEF IInv

-----------------------------------------------------------------------------
LEMMA Initially == Init => IInv
<1> SUFFICES ASSUME Init PROVE IInv
  OBVIOUS
<1>1. /\ rows = <<>> /\ engines = <<>> /\ service = 1 /\ state = "open"
      /\ registry = [r \in 1..MaxRuns |-> None] /\ calls = [c \in Call |-> None]
  BY DEF Init
<1>2. rows \in Seq(RowType) /\ engines \in Seq(EngineType) /\ Len(rows) = 0
      /\ Run = {} /\ Engine = {}
  BY <1>1 DEF Run, Engine
<1>3. Amending = {} /\ Pending = {}
  BY <1>1 DEF Amending, Pending
<1>4. StoreType
  BY <1>1, <1>2 DEF StoreType
<1>5. TypeOK
  BY <1>1, <1>2, <1>3, <1>4, BoundAssumption, FS_EmptySet DEF TypeOK
<1>6. Entries /\ Callers /\ PlainEngineOwned /\ NoLyingRow /\ SupersededIsStill
  BY <1>1, <1>2, <1>3 DEF Entries, Callers, PlainEngineOwned, NoLyingRow, SupersededIsStill
<1> QED BY <1>5, <1>6 DEF IInv

LEMMA EveryStep == IInv /\ [Next]_vars => IInv' /\ Stays
<1> SUFFICES ASSUME IInv, [Next]_vars PROVE IInv' /\ Stays
  OBVIOUS
<1>1. ASSUME NEW comesUp \in BOOLEAN, Submit(comesUp) \/ \E r \in Run : ResumeNow(r, comesUp)
      PROVE  IInv' /\ Stays
  BY <1>1, SubmitKeeps, ResumeNowKeeps
<1>2. ASSUME NEW c \in Call, CallStep(c) PROVE IInv' /\ Stays
  BY <1>2, CallWaitsKeeps, AmendLaunchesKeeps, ResumeLaunchesKeeps DEF CallStep
<1>3. ASSUME NEW c \in Call, NEW r \in Run, Amend(c, r) \/ ResumeRebuilds(c, r)
      PROVE  IInv' /\ Stays
  BY <1>3, AmendKeeps, ResumeRebuildsKeeps
<1>4. ASSUME NEW r \in Run, Cancel(r) PROVE IInv' /\ Stays
  BY <1>4, CancelKeeps
<1>5. ASSUME NEW e \in Engine, Deliver(e) \/ \E v \in {"completed", "stopped"} : EngineSettles(e, v)
      PROVE  IInv' /\ Stays
  BY <1>5, DeliverKeeps, EngineSettlesKeeps
<1>6. CASE Close \/ CloseEnds \/ Crash \/ Open \/ ForeignReconcile
  BY <1>6, CloseKeeps, CloseEndsKeeps, CrashKeeps, OpenKeeps, ForeignReconcileKeeps
<1>7. CASE UNCHANGED vars
  <2>1. UNCHANGED <<rows, engines, service, state, registry>> /\ UNCHANGED calls
    BY <1>7 DEF vars
  <2>2. /\ Entries' /\ PlainEngineOwned' /\ NoLyingRow' /\ SupersededIsStill' /\ Stays
        /\ \A q \in Run : q \in Run' /\ Plain(q)' = Plain(q)
        /\ StoreType' /\ Len(rows') = Len(rows)
    BY <2>1, StoreUnchanged
  <2>3. TypeOK' /\ Callers'
    BY <2>1, <2>2, CallsUnchanged DEF IInv, TypeOK
  <2> QED BY <2>2, <2>3 DEF IInv
<1> QED BY <1>1, <1>2, <1>3, <1>4, <1>5, <1>6, <1>7 DEF Next

(* The inductive invariant holds in every reachable state. *)
THEOREM Inductive == Spec => []IInv
<1>1. IInv /\ [Next]_vars => IInv'
  BY EveryStep
<1> QED BY Initially, <1>1, PTL DEF Spec

(***************************************************************************)
(* Every live engine of a run that is no amendment is the entry of its run *)
(* in the open service: somebody can cancel it, close() waits for it, and  *)
(* there is no second one.  However many services, calls, crashes and      *)
(* engines cross.                                                          *)
(***************************************************************************)
THEOREM PlainRunsAreOwned == Spec => []PlainEngineOwned
<1>1. IInv => PlainEngineOwned
  BY DEF IInv
<1> QED BY <1>1, Inductive, PTL

(***************************************************************************)
(* reconcileOrphanRuns: while the session is open every row that says      *)
(* running has a live engine behind it.                                    *)
(***************************************************************************)
THEOREM RowsTellTheTruth == Spec => []NoLyingRow
<1>1. IInv => NoLyingRow
  BY DEF IInv
<1> QED BY <1>1, Inductive, PTL

(***************************************************************************)
(* synthesizeRunStatus: while the service is open, a run that is no        *)
(* amendment is told as running or pending exactly while its settlement    *)
(* has still to be announced, whatever was evicted and whatever another    *)
(* instance wrote into the row.  Nothing is said of amended runs, nor of   *)
(* which of the terminal statuses is told.                                 *)
(***************************************************************************)
THEOREM ReadersAreToldTheTruth == Spec => []StatusIsHonest
<1>1. IInv => StatusIsHonest
  <2> SUFFICES ASSUME IInv, state = "open", NEW r \in Run, Plain(r)
               PROVE  Told(r) \in {"running", "pending"} <=> EntryInFlight(r)
    BY DEF StatusIsHonest
  <2>0. /\ rows \in [Run -> RowType] /\ engines \in [Engine -> EngineType] /\ Run \subseteq 1..MaxRuns
        /\ Engine \subseteq Nat
    BY Domains DEF IInv
  <2>1. rows[r].status \in Terminal \cup {"none", "running"}
    BY <2>0 DEF RowType
  <2>2. CASE registry[r] = None
    <3>1. rows[r].status # "running"
      <4> SUFFICES ASSUME rows[r].status = "running" PROVE FALSE
        OBVIOUS
      <4>1. PICK e \in Engine : Live(e) /\ engines[e].run = r
        BY DEF IInv, NoLyingRow
      <4>2. registry[r] = e
        BY <4>1 DEF IInv, PlainEngineOwned, Owned
      <4> QED BY <4>2, <2>0, <2>2, NoneAssumption
    <3> QED BY <3>1, <2>1, <2>2 DEF Told, EntryInFlight, Terminal
  <2>3. CASE registry[r] # None
    <3>1. registry[r] \in Engine
      BY <2>0, <2>3 DEF IInv, Entries
    <3>2. /\ engines[registry[r]].phase \in {"live", "settled", "known"}
          /\ engines[registry[r]].verdict \in Terminal \cup {"none"}
      BY <2>0, <3>1 DEF EngineType
    <3> QED BY <3>2, <2>1, <2>3 DEF Told, EntryInFlight, Unknown, Terminal
  <2> QED BY <2>2, <2>3
<1> QED BY <1>1, Inductive, PTL

(***************************************************************************)
(* amend: a run that is no amendment and was superseded stays so, across   *)
(* resumes, late settlements, closes, crashes and reconciliations.  It is  *)
(* false of amended runs.                                                  *)
(***************************************************************************)
THEOREM SupersededStaysSo == Spec => SupersededForGood
<1>1. IInv /\ [Next]_vars => [\A r \in Run : Plain(r) /\ Superseded(r) => Superseded(r)']_vars
  BY EveryStep DEF Stays
<1> QED BY <1>1, Inductive, PTL DEF Spec, SupersededForGood
=============================================================================
