------------------------- MODULE DataRootLockProofs -------------------------
(***************************************************************************)
(* The data root has one owner, for any number of processes that acquire,  *)
(* recover, release and die.  Neither the contents of a file nor its       *)
(* number is needed: who created it, and whether its creator is alive, is. *)
(***************************************************************************)
EXTENDS DataRootLock, TLAPS

Leaving == {"leaving", "lifting", "lifted"}
Gated == {"recording", "checking", "retrying"}

(* What the local state of p says of the files p has created. *)
Shape(p, l) ==
    /\ l.lock # None => l.lock[1] = p /\ l.at \in {"writing", "holding"} \cup Leaving
    /\ l.gate # None => l.gate[1] = p /\ l.at \in Gated \cup {"writing", "claiming", "claimed"} \cup Leaving
    /\ l.at \in {"writing", "holding"} => l.lock # None
    /\ l.at \in Gated => l.gate # None
    /\ l.at \in Leaving => l.gate # None \/ l.lock # None
    /\ l.at \in Leaving /\ l.then = "holding" => l.gate # None /\ l.lock # None

(***************************************************************************)
(* As long as nothing is torn: a live process's gate and lock are at their *)
(* paths until it lifts them itself, and what the one in the gate claims   *)
(* is the lock of somebody dead, who will not write into it any more.      *)
(***************************************************************************)
Dead(f) == f # None /\ ~Alive(f[1])
GateInPlace(l) == l.gate # None /\ l.at # "lifted" => dir["recovery"] = l.gate
LockInPlace(l) == l.lock # None /\ (l.at = "lifted" => l.gate # None) => dir["lock"] = l.lock
ClaimsTheDead(l) ==
    /\ l.at = "claiming" /\ l.gate # None => Dead(dir["lock"]) /\ Raw(dir["lock"]) = l.seen
    /\ l.at = "claimed" /\ l.gate # None => Dead(l.taken) /\ Raw(l.taken) = l.seen
LiftsItsOwn(l) == l.at = "lifted" => l.taken = IF l.gate = None THEN l.lock ELSE l.gate
Sound(l) == GateInPlace(l) /\ LockInPlace(l) /\ ClaimsTheDead(l) /\ LiftsItsOwn(l)

IInv ==
    /\ TypeOK
    /\ \A p \in Proc : Shape(p, me[p])
    /\ torn \/ \A p \in Proc : Sound(me[p])

-----------------------------------------------------------------------------
(* A step of p: the types, the shape of p, and that p alone has moved.     *)
Moves(p) == TypeOK' /\ Shape(p, me'[p]) /\ \A q \in Proc \ {p} : me'[q] = me[q]

LEMMA NewFile ==
  ASSUME TypeOK, NEW p \in Proc, NEW path \in Path, Create(p, path)
  PROVE  /\ New(p) \in File /\ New(p)[1] = p /\ New(p) # None
         /\ made' \in [Proc -> 0..MaxFiles]
         /\ dir' \in [Path -> File \cup {None}] /\ dir'[path] = New(p)
         /\ dir[path] = None /\ \A x \in Path \ {path} : dir'[x] = dir[x]
  BY NoneAssumption, BoundAssumption DEF TypeOK, New, File, Create

LEMMA AgainFacts ==
  ASSUME NEW l \in Local
  PROVE  /\ Again(l) \in Local /\ Again(l).at \in {"out", "observing"}
         /\ Again(l).lock = l.lock /\ Again(l).gate = l.gate
<1>1. l.tries \in 0..(MaxTries - 1)
  BY DEF Local
<1>2. CASE l.tries + 1 = MaxTries
  <2>1. Again(l) = [l EXCEPT !.at = "out", !.tries = 0] /\ 0 \in 0..(MaxTries - 1)
    BY <1>2, BoundAssumption DEF Again
  <2> QED
    BY <2>1 DEF Local
<1>3. CASE l.tries + 1 # MaxTries
  <2>1. /\ Again(l) = [l EXCEPT !.at = "observing", !.tries = l.tries + 1]
        /\ l.tries + 1 \in 0..(MaxTries - 1)
    BY <1>1, <1>3, BoundAssumption DEF Again
  <2> QED
    BY <2>1 DEF Local
<1> QED
  BY <1>2, <1>3

LEMMA LeftFacts ==
  ASSUME NEW l \in Local
  PROVE  /\ Left(l) \in Local /\ Left(l).at \in {"out", "observing", "holding"}
         /\ Left(l).gate = None
         /\ Left(l).at = "holding" => l.then = "holding"
         /\ Left(l).lock = IF l.then = "holding" THEN l.lock ELSE None
         /\ l.then = "holding" => Left(l).at = "holding"
<1> DEFINE free == [l EXCEPT !.gate = None, !.taken = None, !.then = "out",
                          !.lock = IF l.then = "holding" THEN @ ELSE None]
<1>1. /\ free \in Local /\ free.gate = None
      /\ free.lock = IF l.then = "holding" THEN l.lock ELSE None
  BY DEF Local
<1>2. CASE l.then = "observing"
  <2>1. Left(l) = Again(free)
    BY <1>2 DEF Left
  <2> QED
    BY <1>1, <1>2, <2>1, AgainFacts
<1>3. CASE l.then # "observing"
  <2>1. Left(l) = [free EXCEPT !.at = l.then, !.tries = 0]
    BY <1>3 DEF Left
  <2>2. l.then \in {"out", "holding"} /\ 0 \in 0..(MaxTries - 1)
    BY <1>3, BoundAssumption DEF Local
  <2> HIDE DEF free
  <2>3. /\ [free EXCEPT !.at = l.then, !.tries = 0] \in Local
        /\ [free EXCEPT !.at = l.then, !.tries = 0].at = l.then
        /\ [free EXCEPT !.at = l.then, !.tries = 0].gate = free.gate
        /\ [free EXCEPT !.at = l.then, !.tries = 0].lock = free.lock
    BY <1>1, <2>2 DEF Local
  <2> QED
    BY <1>1, <2>1, <2>2, <2>3
<1> QED
  BY <1>2, <1>3

(***************************************************************************)
(* What the step of p leaves of the soundness of q: all of it, if the path *)
(* of a gate or a lock of q, and the lock q is about to claim, are left    *)
(* alone.  Files of the dead are not written into.                         *)
(***************************************************************************)
Needs(l) == (l.lock # None /\ (l.at = "lifted" => l.gate # None)) \/ (l.at = "claiming" /\ l.gate # None)
LEMMA OthersStaySound ==
  ASSUME IInv, NEW p \in Proc, NEW q \in Proc \ {p}, Moves(p), ~torn, Alive(p),
         \A f \in File : f[1] # p => (f \in written' <=> f \in written),
         me[q].gate # None /\ me[q].at # "lifted" => dir'["recovery"] = dir["recovery"],
         Needs(me[q]) => dir'["lock"] = dir["lock"]
  PROVE  Sound(me[q])'
<1>1. Sound(me[q]) /\ me'[q] = me[q] /\ me[q] \in Local
  BY DEF IInv, Moves, TypeOK
<1>2. dir["lock"] \in File \cup {None} /\ me[q].taken \in File \cup {None}
  BY <1>1 DEF IInv, TypeOK, Path, Local
<1>3. ASSUME NEW f \in File \cup {None}, Dead(f)
      PROVE  Dead(f)' /\ Raw(f)' = Raw(f)
  <2>1. f \in File /\ f[1] \in Proc /\ f[1] # p
    BY <1>3 DEF Dead, File, Alive
  <2> QED
    BY <1>3, <2>1 DEF Dead, Alive, At, Raw, Moves
<1>4. GateInPlace(me[q])' /\ LockInPlace(me[q])' /\ LiftsItsOwn(me[q])'
  BY <1>1 DEF Sound, GateInPlace, LockInPlace, LiftsItsOwn, Needs
<1>5. ClaimsTheDead(me[q])'
  BY <1>1, <1>2, <1>3 DEF Sound, ClaimsTheDead, Needs
<1> QED
  BY <1>4, <1>5 DEF Sound

(* Who holds neither lock nor gate has nothing to be wrong about. *)
LEMMA EmptyHanded ==
  ASSUME NEW p \in Proc, me'[p].lock = None, me'[p].gate = None, me'[p].at # "lifted"
  PROVE  Sound(me[p])'
  BY DEF Sound, GateInPlace, LockInPlace, ClaimsTheDead, LiftsItsOwn

(* A lock or a gate in place is that of somebody alive, and of one only. *)
LEMMA AliveInPlace ==
  ASSUME IInv, ~torn, NEW q \in Proc
  PROVE  /\ me[q].gate # None /\ me[q].at # "lifted" =>
               dir["recovery"] # None /\ dir["recovery"][1] = q /\ Alive(q)
         /\ me[q].lock # None /\ (me[q].at = "lifted" => me[q].gate # None) =>
               dir["lock"] # None /\ dir["lock"][1] = q /\ Alive(q)
         /\ me[q].at = "claiming" /\ me[q].gate # None => Dead(dir["lock"])
  BY DEF IInv, Shape, Sound, GateInPlace, LockInPlace, ClaimsTheDead, Alive, At, Gated, Leaving

(* What every step keeps, and the three ways it may change the directory. *)
Keeps(p) == Moves(p) /\ (~torn' => ~torn /\ \A q \in Proc : Sound(me[q])')

LEMMA DirStays ==
  ASSUME IInv, NEW p \in Proc, Moves(p), ~torn, Alive(p), Sound(me[p])', dir' = dir,
         \A f \in File : f[1] # p => (f \in written' <=> f \in written)
  PROVE  \A q \in Proc : Sound(me[q])'
<1>1. ASSUME NEW q \in Proc \ {p} PROVE Sound(me[q])'
  BY <1>1, OthersStaySound
<1> QED
  BY <1>1

LEMMA LockMoves ==
  ASSUME IInv, NEW p \in Proc, Moves(p), ~torn, Alive(p), Sound(me[p])',
         dir'["recovery"] = dir["recovery"], written' = written,
         \/ dir["lock"] = None
         \/ dir["lock"] # None /\ dir["lock"][1] = p
         \/ Dead(dir["lock"]) /\ me[p].gate # None /\ me[p].at = "claiming"
  PROVE  \A q \in Proc : Sound(me[q])'
<1>1. ASSUME NEW q \in Proc \ {p} PROVE Sound(me[q])'
  <2>1. ~Needs(me[q])
    BY AliveInPlace DEF Needs, Dead
  <2> QED
    BY <2>1, OthersStaySound
<1> QED
  BY <1>1

LEMMA GateMoves ==
  ASSUME IInv, NEW p \in Proc, Moves(p), ~torn, Alive(p), Sound(me[p])',
         dir'["lock"] = dir["lock"], written' = written,
         ~LiveCreator(dir["recovery"]) \/ dir["recovery"][1] = p
  PROVE  \A q \in Proc : Sound(me[q])'
<1>1. ASSUME NEW q \in Proc \ {p} PROVE Sound(me[q])'
  <2>1. ~(me[q].gate # None /\ me[q].at # "lifted")
    BY AliveInPlace DEF LiveCreator
  <2> QED
    BY <2>1, OthersStaySound
<1> QED
  BY <1>1

-----------------------------------------------------------------------------
LEMMA AcquireStep ==
  ASSUME IInv, NEW p \in Proc, Acquire(p)
  PROVE  Keeps(p)
<1>0. TypeOK /\ me[p] \in Local /\ me[p].at = "out" /\ Alive(p) /\ me[p].gate = None /\ me[p].lock = None
  BY DEF IInv, TypeOK, Acquire, At, Alive, Shape, Gated, Leaving
<1>1. CASE Create(p, "lock") /\ GoWith(p, "writing", "lock", New(p))
  <2>1. /\ New(p) \in File /\ New(p)[1] = p /\ New(p) # None
        /\ made' \in [Proc -> 0..MaxFiles]
        /\ dir' \in [Path -> File \cup {None}] /\ dir'["lock"] = New(p)
        /\ dir["lock"] = None /\ \A x \in Path \ {"lock"} : dir'[x] = dir[x]
    BY <1>0, <1>1, NewFile DEF Path
  <2>2. /\ me' \in [Proc -> Local] /\ \A q \in Proc \ {p} : me'[q] = me[q]
        /\ me'[p].lock = New(p) /\ me'[p].at = "writing" /\ me'[p].gate = None
    BY <1>0, <1>1, <2>1 DEF TypeOK, GoWith, Local
  <2>3. Moves(p)
    BY <1>0, <1>1, <2>1, <2>2 DEF Moves, TypeOK, Create, Shape, Gated, Leaving
  <2>4. Sound(me[p])'
    BY <2>1, <2>2 DEF Sound, GateInPlace, LockInPlace, ClaimsTheDead, LiftsItsOwn
  <2>5. torn' = torn /\ written' = written /\ dir'["recovery"] = dir["recovery"]
    BY <1>1, <2>1 DEF Create, Path
  <2> QED
    BY <1>0, <2>1, <2>3, <2>4, <2>5, LockMoves DEF Keeps
<1>2. CASE Exists("lock") /\ Go(p, "observing")
  <2>1. /\ me' \in [Proc -> Local] /\ \A q \in Proc \ {p} : me'[q] = me[q]
        /\ me'[p].lock = None /\ me'[p].at = "observing" /\ me'[p].gate = None
    BY <1>0, <1>2 DEF TypeOK, Go, Local
  <2>2. Moves(p)
    BY <1>0, <1>2, <2>1 DEF Moves, TypeOK, Exists, Shape, Gated, Leaving
  <2> QED
    BY <1>0, <1>2, <2>1, <2>2, EmptyHanded, DirStays DEF Keeps, Exists
<1> QED
  BY <1>1, <1>2 DEF Acquire

LEMMA WriteStep ==
  ASSUME IInv, NEW p \in Proc, Write(p)
  PROVE  Keeps(p)
<1>0. /\ TypeOK /\ me[p] \in Local /\ me[p].at = "writing" /\ Alive(p)
      /\ me[p].lock # None /\ me[p].lock[1] = p /\ me[p].lock \in File
  BY DEF IInv, TypeOK, Write, At, Alive, Shape, Gated, Leaving, Local
<1>1. /\ me' \in [Proc -> Local] /\ \A q \in Proc \ {p} : me'[q] = me[q]
      /\ me'[p].lock = me[p].lock /\ me'[p].gate = me[p].gate
      /\ me'[p].at = IF me[p].gate = None THEN "holding" ELSE "leaving"
  BY <1>0 DEF TypeOK, Write, Go, GoWith, Local
<1>2. Moves(p)
  BY <1>0, <1>1 DEF Moves, TypeOK, IInv, Write, Shape, Gated, Leaving
<1>3. dir' = dir /\ torn' = torn /\ \A f \in File : f[1] # p => (f \in written' <=> f \in written)
  BY <1>0 DEF Write
<1>4. ASSUME ~torn PROVE Sound(me[p])'
  BY <1>0, <1>1, <1>3, <1>4 DEF IInv, Sound, GateInPlace, LockInPlace, ClaimsTheDead, LiftsItsOwn
<1> QED
  BY <1>0, <1>2, <1>3, <1>4, DirStays DEF Keeps

LEMMA ObserveStep ==
  ASSUME IInv, NEW p \in Proc, Observe(p)
  PROVE  Keeps(p)
<1>0. TypeOK /\ me[p] \in Local /\ me[p].at = "observing" /\ Alive(p) /\ me[p].gate = None /\ me[p].lock = None
  BY DEF IInv, TypeOK, Observe, At, Alive, Shape, Gated, Leaving
<1>1. /\ me' \in [Proc -> Local] /\ \A q \in Proc \ {p} : me'[q] = me[q]
      /\ me'[p].lock = None /\ me'[p].gate = None /\ me'[p].at \in {"out", "asking"}
  BY <1>0, BoundAssumption DEF TypeOK, Observe, Go, GoWith, Local
<1>2. Moves(p)
  BY <1>0, <1>1 DEF Moves, TypeOK, Observe, Shape, Gated, Leaving
<1> QED
  BY <1>0, <1>1, <1>2, EmptyHanded, DirStays DEF Keeps, Observe

LEMMA AskGateStep ==
  ASSUME IInv, NEW p \in Proc, AskGate(p)
  PROVE  Keeps(p)
<1>0. TypeOK /\ me[p] \in Local /\ me[p].at = "asking" /\ Alive(p) /\ me[p].gate = None /\ me[p].lock = None
  BY DEF IInv, TypeOK, AskGate, At, Alive, Shape, Gated, Leaving
<1>1. CASE Create(p, "recovery") /\ GoWith(p, "recording", "gate", New(p))
  <2>1. /\ New(p) \in File /\ New(p)[1] = p /\ New(p) # None
        /\ made' \in [Proc -> 0..MaxFiles]
        /\ dir' \in [Path -> File \cup {None}] /\ dir'["recovery"] = New(p)
        /\ dir["recovery"] = None /\ \A x \in Path \ {"recovery"} : dir'[x] = dir[x]
    BY <1>0, <1>1, NewFile DEF Path
  <2>2. /\ me' \in [Proc -> Local] /\ \A q \in Proc \ {p} : me'[q] = me[q]
        /\ me'[p].gate = New(p) /\ me'[p].at = "recording" /\ me'[p].lock = None
    BY <1>0, <1>1, <2>1 DEF TypeOK, GoWith, Local
  <2>3. Moves(p)
    BY <1>0, <1>1, <2>1, <2>2 DEF Moves, TypeOK, Create, Shape, Gated, Leaving
  <2>4. Sound(me[p])'
    BY <2>1, <2>2 DEF Sound, GateInPlace, LockInPlace, ClaimsTheDead, LiftsItsOwn
  <2>5. torn' = torn /\ written' = written /\ dir'["lock"] = dir["lock"]
    BY <1>1, <2>1 DEF Create, Path
  <2> QED
    BY <1>0, <2>1, <2>3, <2>4, <2>5, GateMoves DEF Keeps, LiveCreator
<1>2. CASE Exists("recovery") /\ Go(p, "weighing")
  <2>1. /\ me' \in [Proc -> Local] /\ \A q \in Proc \ {p} : me'[q] = me[q]
        /\ me'[p].lock = None /\ me'[p].at = "weighing" /\ me'[p].gate = None
    BY <1>0, <1>2 DEF TypeOK, Go, Local
  <2>2. Moves(p)
    BY <1>0, <1>2, <2>1 DEF Moves, TypeOK, Exists, Shape, Gated, Leaving
  <2> QED
    BY <1>0, <1>2, <2>1, <2>2, EmptyHanded, DirStays DEF Keeps, Exists
<1> QED
  BY <1>1, <1>2 DEF AskGate

LEMMA RecordStep ==
  ASSUME IInv, NEW p \in Proc, Record(p)
  PROVE  Keeps(p)
<1>0. /\ TypeOK /\ me[p] \in Local /\ me[p].at = "recording" /\ Alive(p) /\ me[p].lock = None
      /\ me[p].gate # None /\ me[p].gate[1] = p /\ me[p].gate \in File
  BY DEF IInv, TypeOK, Record, At, Alive, Shape, Gated, Leaving, Local
<1>1. /\ me' \in [Proc -> Local] /\ \A q \in Proc \ {p} : me'[q] = me[q]
      /\ me'[p].lock = None /\ me'[p].gate = me[p].gate /\ me'[p].at = "checking"
  BY <1>0 DEF TypeOK, Record, Go, Local
<1>2. Moves(p)
  BY <1>0, <1>1 DEF Moves, TypeOK, Record, Shape, Gated, Leaving
<1>3. dir' = dir /\ torn' = torn /\ \A f \in File : f[1] # p => (f \in written' <=> f \in written)
  BY <1>0 DEF Record
<1>4. ASSUME ~torn PROVE Sound(me[p])'
  BY <1>0, <1>1, <1>3, <1>4 DEF IInv, Sound, GateInPlace, LockInPlace, ClaimsTheDead, LiftsItsOwn
<1> QED
  BY <1>0, <1>2, <1>3, <1>4, DirStays DEF Keeps

LEMMA WeighGateStep ==
  ASSUME IInv, NEW p \in Proc, WeighGate(p)
  PROVE  Keeps(p)
<1>0. TypeOK /\ me[p] \in Local /\ me[p].at = "weighing" /\ Alive(p) /\ me[p].gate = None /\ me[p].lock = None
  BY DEF IInv, TypeOK, WeighGate, At, Alive, Shape, Gated, Leaving
<1>1. /\ me' \in [Proc -> Local] /\ \A q \in Proc \ {p} : me'[q] = me[q]
      /\ me'[p].lock = None /\ me'[p].gate = None /\ me'[p].at \in {"out", "observing", "claiming"}
  <2>1. CASE dir["recovery"] = None \/ LiveOwner(dir["recovery"])
    <3>1. me' = [me EXCEPT ![p] = Again(me[p])]
      BY <2>1 DEF WeighGate
    <3> QED
      BY <1>0, <3>1, AgainFacts DEF TypeOK
  <2>2. CASE ~(dir["recovery"] = None \/ LiveOwner(dir["recovery"]))
    <3>1. GoWith(p, "claiming", "seen", Raw(dir["recovery"]))
      BY <2>2 DEF WeighGate
    <3>2. Raw(dir["recovery"]) \in File \cup {None}
      BY <1>0 DEF TypeOK, Raw, Path
    <3> QED
      BY <1>0, <3>1, <3>2 DEF TypeOK, GoWith, Local
  <2> QED
    BY <2>1, <2>2
<1>2. Moves(p)
  BY <1>0, <1>1 DEF Moves, TypeOK, WeighGate, Shape, Gated, Leaving
<1> QED
  BY <1>0, <1>1, <1>2, EmptyHanded, DirStays DEF Keeps, WeighGate

LEMMA CheckStep ==
  ASSUME IInv, NEW p \in Proc, Check(p)
  PROVE  Keeps(p)
<1>0. /\ TypeOK /\ me[p] \in Local /\ me[p].at = "checking" /\ Alive(p) /\ me[p].lock = None
      /\ me[p].gate # None /\ me[p].gate[1] = p /\ dir["lock"] \in File \cup {None}
  BY DEF IInv, TypeOK, Check, At, Alive, Shape, Gated, Leaving, Local, Path
<1>1. Raw(dir["lock"]) \in File \cup {None}
  BY <1>0 DEF Raw
<1>2. /\ me' \in [Proc -> Local] /\ \A q \in Proc \ {p} : me'[q] = me[q]
      /\ me'[p].lock = None /\ me'[p].gate = me[p].gate
      /\ me'[p].at \in {"retrying", "leaving", "claiming"}
      /\ me'[p].at = "leaving" => me'[p].then = "out"
      /\ me'[p].at = "claiming" => /\ dir["lock"] # None /\ ~LiveOwner(dir["lock"])
                                   /\ me'[p].seen = Raw(dir["lock"])
  BY <1>0, <1>1 DEF TypeOK, Check, Go, GoWith, Local
<1>3. Moves(p)
  <2>1. torn' \in BOOLEAN /\ UNCHANGED <<dir, written, made>>
    BY <1>0 DEF Check, TypeOK, Blank, LiveCreator
  <2> QED
    BY <1>0, <1>2, <2>1 DEF Moves, TypeOK, Shape, Gated, Leaving
<1>4. dir' = dir /\ written' = written /\ (~torn' => ~torn /\ ~Blank(dir["lock"]))
  BY DEF Check
<1>5. ASSUME ~torn' PROVE Sound(me[p])'
  <2>1. GateInPlace(me[p])'
    BY <1>0, <1>2, <1>4, <1>5 DEF IInv, Sound, GateInPlace
  <2>2. ASSUME me'[p].at = "claiming" PROVE Dead(dir["lock"])' /\ Raw(dir["lock"])' = me'[p].seen
    <3>1. Dead(dir["lock"])
      BY <1>2, <1>4, <1>5, <2>2 DEF Dead, LiveOwner, Blank, LiveCreator, Raw
    <3>2. dir["lock"][1] \in Proc \ {p}
      BY <1>0, <3>1 DEF Dead, File
    <3> QED
      BY <1>2, <1>4, <2>2, <3>1, <3>2 DEF Dead, Alive, At, Raw
  <2> QED
    BY <1>2, <2>1, <2>2 DEF Sound, LockInPlace, ClaimsTheDead, LiftsItsOwn
<1> QED
  BY <1>0, <1>3, <1>4, <1>5, DirStays DEF Keeps

LEMMA AfterClaimFacts ==
  ASSUME NEW l \in Local
  PROVE  /\ AfterClaim(l) \in Local /\ AfterClaim(l).lock = l.lock /\ AfterClaim(l).gate = l.gate
         /\ l.gate = None => AfterClaim(l).at \in {"out", "observing"}
         /\ l.gate # None => AfterClaim(l).at = "retrying"
<1>1. CASE l.gate = None
  BY <1>1, AgainFacts DEF AfterClaim
<1>2. CASE l.gate # None
  BY <1>2 DEF AfterClaim, Local
<1> QED
  BY <1>1, <1>2

(* claimStalePath, the rename: of a dead gate, or of a dead owner's lock. *)
LEMMA ClaimStep ==
  ASSUME IInv, NEW p \in Proc, Claim(p)
  PROVE  Keeps(p)
<1>0. /\ TypeOK /\ me[p] \in Local /\ me[p].at = "claiming" /\ Alive(p) /\ me[p].lock = None
      /\ me[p].gate # None => me[p].gate[1] = p
      /\ ClaimPath(p) \in Path /\ dir[ClaimPath(p)] \in File \cup {None}
  BY DEF IInv, TypeOK, Claim, At, Alive, Shape, Gated, Leaving, ClaimPath, Path
<1>1. CASE dir[ClaimPath(p)] = None
  <2>1. me' = [me EXCEPT ![p] = AfterClaim(me[p])] /\ UNCHANGED <<dir, written, made, torn>>
    BY <1>1 DEF Claim
  <2>2. /\ me' \in [Proc -> Local] /\ \A q \in Proc \ {p} : me'[q] = me[q]
        /\ me'[p].lock = None /\ me'[p].gate = me[p].gate
        /\ me'[p].at \in {"out", "observing", "retrying"}
        /\ me'[p].at = "retrying" <=> me'[p].gate # None
    BY <1>0, <2>1, AfterClaimFacts DEF TypeOK
  <2>3. Moves(p)
    BY <1>0, <2>1, <2>2 DEF Moves, TypeOK, Shape, Gated, Leaving
  <2>4. ASSUME ~torn PROVE Sound(me[p])'
    BY <1>0, <2>1, <2>2, <2>4 DEF IInv, Sound, GateInPlace, LockInPlace, ClaimsTheDead, LiftsItsOwn
  <2> QED
    BY <1>0, <2>1, <2>3, <2>4, DirStays DEF Keeps
<1>2. CASE dir[ClaimPath(p)] # None
  <2> DEFINE f == dir[ClaimPath(p)]
  <2>1. /\ dir' = [dir EXCEPT ![ClaimPath(p)] = None] /\ UNCHANGED <<written, made>>
        /\ GoWith(p, "claimed", "taken", f)
        /\ torn' = (torn \/ (me[p].gate = None /\ LiveCreator(f)))
    BY <1>2 DEF Claim, Take
  <2>2. /\ me' \in [Proc -> Local] /\ \A q \in Proc \ {p} : me'[q] = me[q]
        /\ me'[p].lock = None /\ me'[p].gate = me[p].gate /\ me'[p].at = "claimed"
        /\ me'[p].taken = f /\ me'[p].seen = me[p].seen
    BY <1>0, <2>1, ZenonT(30) DEF TypeOK, GoWith, Local
  <2>3. /\ dir' \in [Path -> File \cup {None}]
        /\ \A x \in Path \ {ClaimPath(p)} : dir'[x] = dir[x]
    BY <1>0, <2>1 DEF TypeOK
  <2>4. torn' \in BOOLEAN
    BY <1>0, <2>1 DEF TypeOK, LiveCreator
  <2>5. Moves(p)
    BY <1>0, <2>1, <2>2, <2>3, <2>4 DEF Moves, TypeOK, Shape, Gated, Leaving
  <2>6. CASE me[p].gate = None
    <3>1. Sound(me[p])'
      BY <2>2, <2>6, EmptyHanded
    <3>2. ~torn' => ~torn /\ ~LiveCreator(dir["recovery"]) /\ dir'["lock"] = dir["lock"]
      BY <2>1, <2>3, <2>6 DEF ClaimPath, Path
    <3> QED
      BY <1>0, <2>1, <2>5, <3>1, <3>2, GateMoves DEF Keeps
  <2>7. CASE me[p].gate # None
    <3>1. f = dir["lock"] /\ dir'["recovery"] = dir["recovery"] /\ torn' = torn
      BY <1>0, <2>1, <2>3, <2>7 DEF ClaimPath, Path, TypeOK
    <3>2. ASSUME ~torn PROVE Dead(f) /\ Raw(f) = me[p].seen /\ dir["recovery"] = me[p].gate
      BY <1>0, <2>7, <3>1, <3>2 DEF IInv, Sound, ClaimsTheDead, GateInPlace
    <3>3. ASSUME ~torn PROVE Dead(me[p].taken)' /\ Raw(me[p].taken)' = me'[p].seen
      <4>1. Dead(f) /\ f[1] \in Proc \ {p} /\ Raw(f) = me[p].seen
        BY <1>0, <3>1, <3>2, <3>3 DEF Dead, File
      <4> QED
        BY <2>1, <2>2, <4>1 DEF Dead, Alive, At, Raw
    <3>4. ASSUME ~torn PROVE Sound(me[p])'
      <4>1. ClaimsTheDead(me[p])'
        BY <2>2, <3>3, <3>4 DEF ClaimsTheDead
      <4> QED
        BY <2>2, <3>1, <3>2, <3>4, <4>1 DEF Sound, GateInPlace, LockInPlace, LiftsItsOwn
    <3> QED
      BY <1>0, <2>1, <2>5, <2>7, <3>1, <3>2, <3>4, LockMoves DEF Keeps
  <2> QED
    BY <2>6, <2>7
<1> QED
  BY <1>1, <1>2

(* The look at what was renamed.  Only a gate is ever put back, and never over a live one. *)
LEMMA ClaimedStep ==
  ASSUME IInv, NEW p \in Proc, Claimed(p)
  PROVE  Keeps(p)
<1>0. /\ TypeOK /\ me[p] \in Local /\ me[p].at = "claimed" /\ Alive(p) /\ me[p].lock = None
      /\ me[p].gate # None => me[p].gate[1] = p
      /\ ClaimPath(p) \in Path /\ me[p].taken \in File \cup {None}
  BY DEF IInv, TypeOK, Claimed, At, Alive, Shape, Gated, Leaving, ClaimPath, Path, Local
<1>1. /\ AfterClaim(me[p]) \in Local /\ AfterClaim(me[p]).lock = None /\ AfterClaim(me[p]).gate = me[p].gate
      /\ me[p].gate = None => AfterClaim(me[p]).at \in {"out", "observing"}
      /\ me[p].gate # None => AfterClaim(me[p]).at = "retrying"
  BY <1>0, AfterClaimFacts
<1>2. me' = [me EXCEPT ![p] = [AfterClaim(me[p]) EXCEPT !.taken = None, !.seen = None]]
  BY DEF Claimed
<1>3. /\ me' \in [Proc -> Local] /\ \A q \in Proc \ {p} : me'[q] = me[q]
      /\ me'[p].lock = None /\ me'[p].gate = me[p].gate
      /\ me[p].gate = None => me'[p].at \in {"out", "observing"}
      /\ me[p].gate # None => me'[p].at = "retrying"
  BY <1>0, <1>1, <1>2 DEF TypeOK, Local
<1>4. /\ dir' \in [Path -> File \cup {None}] /\ torn' \in BOOLEAN
      /\ \A x \in Path \ {ClaimPath(p)} : dir'[x] = dir[x]
  BY <1>0 DEF TypeOK, Claimed, PutBack, LiveCreator
<1>5. Moves(p)
  BY <1>0, <1>3, <1>4 DEF Moves, TypeOK, Claimed, Shape, Gated, Leaving
<1>6. CASE Raw(me[p].taken) = me[p].seen
  <2>1. dir' = dir /\ torn' = torn /\ written' = written
    BY <1>6 DEF Claimed
  <2>2. ASSUME ~torn PROVE Sound(me[p])'
    BY <1>0, <1>3, <2>1, <2>2 DEF IInv, Sound, GateInPlace, LockInPlace, ClaimsTheDead, LiftsItsOwn
  <2> QED
    BY <1>0, <1>5, <2>1, <2>2, DirStays DEF Keeps
<1>7. CASE Raw(me[p].taken) # me[p].seen
  <2>1. PutBack(p, ClaimPath(p)) /\ written' = written
    BY <1>7 DEF Claimed
  <2>2. ~torn' => ~torn
    BY <2>1 DEF PutBack
  <2>3. ASSUME ~torn PROVE me[p].gate = None
    BY <1>0, <1>7, <2>3 DEF IInv, Sound, ClaimsTheDead
  <2>4. CASE me[p].gate = None
    <3>1. Sound(me[p])'
      BY <1>3, <2>4, EmptyHanded
    <3>2. dir'["lock"] = dir["lock"] /\ (~torn' => ~LiveCreator(dir["recovery"]))
      BY <1>4, <2>1, <2>4 DEF ClaimPath, Path, PutBack
    <3> QED
      BY <1>0, <1>5, <2>1, <2>2, <3>1, <3>2, GateMoves DEF Keeps
  <2> QED
    BY <1>5, <2>2, <2>3, <2>4 DEF Keeps
<1> QED
  BY <1>6, <1>7

LEMMA RetryStep ==
  ASSUME IInv, NEW p \in Proc, Retry(p)
  PROVE  Keeps(p)
<1>0. /\ TypeOK /\ me[p] \in Local /\ me[p].at = "retrying" /\ Alive(p) /\ me[p].lock = None
      /\ me[p].gate # None /\ me[p].gate[1] = p
  BY DEF IInv, TypeOK, Retry, At, Alive, Shape, Gated, Leaving
<1>1. CASE Create(p, "lock") /\ GoWith(p, "writing", "lock", New(p))
  <2>1. /\ New(p) \in File /\ New(p)[1] = p /\ New(p) # None
        /\ made' \in [Proc -> 0..MaxFiles]
        /\ dir' \in [Path -> File \cup {None}] /\ dir'["lock"] = New(p)
        /\ dir["lock"] = None /\ \A x \in Path \ {"lock"} : dir'[x] = dir[x]
    BY <1>0, <1>1, NewFile DEF Path
  <2>2. /\ me' \in [Proc -> Local] /\ \A q \in Proc \ {p} : me'[q] = me[q]
        /\ me'[p].lock = New(p) /\ me'[p].at = "writing" /\ me'[p].gate = me[p].gate
    BY <1>0, <1>1, <2>1 DEF TypeOK, GoWith, Local
  <2>3. Moves(p)
    BY <1>0, <1>1, <2>1, <2>2 DEF Moves, TypeOK, Create, Shape, Gated, Leaving
  <2>4. torn' = torn /\ written' = written /\ dir'["recovery"] = dir["recovery"]
    BY <1>1, <2>1 DEF Create, Path
  <2>5. ASSUME ~torn PROVE Sound(me[p])'
    BY <1>0, <2>1, <2>2, <2>4, <2>5 DEF IInv, Sound, GateInPlace, LockInPlace, ClaimsTheDead, LiftsItsOwn
  <2> QED
    BY <1>0, <2>1, <2>3, <2>4, <2>5, LockMoves DEF Keeps
<1>2. CASE Exists("lock") /\ GoWith(p, "leaving", "then", "observing")
  <2>1. /\ me' \in [Proc -> Local] /\ \A q \in Proc \ {p} : me'[q] = me[q]
        /\ me'[p].lock = None /\ me'[p].at = "leaving" /\ me'[p].gate = me[p].gate
        /\ me'[p].then = "observing"
    BY <1>0, <1>2, ZenonT(30) DEF TypeOK, GoWith, Local
  <2>2. Moves(p)
    BY <1>0, <1>2, <2>1 DEF Moves, TypeOK, Exists, Shape, Gated, Leaving
  <2>3. ASSUME ~torn PROVE Sound(me[p])'
    BY <1>0, <1>2, <2>1, <2>3 DEF Exists, IInv, Sound, GateInPlace, LockInPlace, ClaimsTheDead, LiftsItsOwn
  <2> QED
    BY <1>0, <1>2, <2>2, <2>3, DirStays DEF Keeps, Exists
<1> QED
  BY <1>1, <1>2 DEF Retry

LEMMA ReleaseStep ==
  ASSUME IInv, NEW p \in Proc, Release(p)
  PROVE  Keeps(p)
<1>0. /\ TypeOK /\ me[p] \in Local /\ me[p].at = "holding" /\ Alive(p) /\ me[p].gate = None
      /\ me[p].lock # None /\ me[p].lock[1] = p
  BY DEF IInv, TypeOK, Release, At, Alive, Shape, Gated, Leaving
<1>1. /\ me' \in [Proc -> Local] /\ \A q \in Proc \ {p} : me'[q] = me[q]
      /\ me'[p].lock = me[p].lock /\ me'[p].at = "leaving" /\ me'[p].gate = None /\ me'[p].then = "out"
  BY <1>0, ZenonT(30) DEF TypeOK, Release, GoWith, Local
<1>2. Moves(p)
  BY <1>0, <1>1 DEF Moves, TypeOK, Release, Shape, Gated, Leaving
<1>3. ASSUME ~torn PROVE Sound(me[p])'
  BY <1>0, <1>1, <1>3 DEF Release, IInv, Sound, GateInPlace, LockInPlace, ClaimsTheDead, LiftsItsOwn
<1> QED
  BY <1>0, <1>2, <1>3, DirStays DEF Keeps, Release

(* The end of releaseOwnedPath, with the directory as it is: the local state alone. *)
LEMMA LeftShape ==
  ASSUME IInv, NEW p \in Proc, me[p].at \in Leaving, me' = [me EXCEPT ![p] = Left(me[p])]
  PROVE  /\ me' \in [Proc -> Local] /\ \A q \in Proc \ {p} : me'[q] = me[q]
         /\ Shape(p, me'[p]) /\ me'[p].gate = None
         /\ me'[p].at \in {"out", "observing", "holding"}
         /\ me'[p].lock # None =>
              me'[p].lock = me[p].lock /\ me[p].gate # None /\ me'[p].at = "holding"
<1>0. TypeOK /\ me[p] \in Local /\ Shape(p, me[p])
  BY DEF IInv, TypeOK
<1>1. me' \in [Proc -> Local] /\ me'[p] = Left(me[p]) /\ \A q \in Proc \ {p} : me'[q] = me[q]
  BY <1>0, LeftFacts DEF TypeOK
<1>2. /\ me'[p].at \in {"out", "observing", "holding"} /\ me'[p].gate = None
      /\ me'[p].at = "holding" <=> me[p].then = "holding"
      /\ me'[p].lock = IF me[p].then = "holding" THEN me[p].lock ELSE None
  BY <1>0, <1>1, LeftFacts
<1> QED
  BY <1>0, <1>1, <1>2 DEF Shape, Gated, Leaving

LEMMA LeftSound ==
  ASSUME IInv, NEW p \in Proc, me[p].at \in Leaving, me' = [me EXCEPT ![p] = Left(me[p])],
         ~torn, dir'["lock"] = dir["lock"]
  PROVE  Sound(me[p])'
<1>1. /\ me'[p].gate = None /\ me'[p].at \in {"out", "observing", "holding"}
      /\ me'[p].lock # None => me'[p].lock = me[p].lock /\ me[p].gate # None
  BY LeftShape
<1> QED
  BY <1>1 DEF IInv, Sound, GateInPlace, LockInPlace, ClaimsTheDead, LiftsItsOwn

LEMMA LeaveStep ==
  ASSUME IInv, NEW p \in Proc, Leave(p)
  PROVE  Keeps(p)
<1>0. TypeOK /\ me[p] \in Local /\ me[p].at = "leaving" /\ Alive(p) /\ Shape(p, me[p])
      /\ UNCHANGED <<dir, written, made, torn>>
  BY DEF IInv, TypeOK, Leave, At, Alive
<1>1. CASE Go(p, "lifting")
  <2>1. /\ me' \in [Proc -> Local] /\ \A q \in Proc \ {p} : me'[q] = me[q]
        /\ me'[p].lock = me[p].lock /\ me'[p].at = "lifting" /\ me'[p].gate = me[p].gate
        /\ me'[p].then = me[p].then
    BY <1>0, <1>1 DEF TypeOK, Go, Local
  <2>2. Moves(p)
    BY <1>0, <2>1 DEF Moves, TypeOK, Shape, Gated, Leaving
  <2>3. ASSUME ~torn PROVE Sound(me[p])'
    BY <1>0, <2>1, <2>3 DEF IInv, Sound, GateInPlace, LockInPlace, ClaimsTheDead, LiftsItsOwn
  <2> QED
    BY <1>0, <2>2, <2>3, DirStays DEF Keeps
<1>2. CASE me' = [me EXCEPT ![p] = Left(me[p])]
  <2>1. Moves(p)
    BY <1>0, <1>2, LeftShape DEF Moves, TypeOK, Leaving
  <2>2. ASSUME ~torn PROVE Sound(me[p])'
    BY <1>0, <1>2, <2>2, LeftSound DEF Leaving
  <2> QED
    BY <1>0, <2>1, <2>2, DirStays DEF Keeps
<1> QED
  BY <1>1, <1>2 DEF Leave

(* The rename of what is at the path: as long as nothing is torn, p's own. *)
LEMMA LiftStep ==
  ASSUME IInv, NEW p \in Proc, Lift(p)
  PROVE  Keeps(p)
<1>0. TypeOK /\ me[p] \in Local /\ me[p].at = "lifting" /\ Alive(p) /\ Shape(p, me[p])
      /\ LeavePath(p) \in Path /\ dir[LeavePath(p)] \in File \cup {None}
      /\ torn' = torn
  BY DEF IInv, TypeOK, Lift, At, Alive, LeavePath, Path
<1>1. ASSUME ~torn
      PROVE  dir[LeavePath(p)] = (IF me[p].gate = None THEN me[p].lock ELSE me[p].gate)
             /\ dir[LeavePath(p)] # None /\ dir[LeavePath(p)][1] = p
  BY <1>0, <1>1 DEF IInv, Sound, GateInPlace, LockInPlace, LeavePath, Shape, Leaving
<1>2. CASE dir[LeavePath(p)] = None
  <2>1. me' = [me EXCEPT ![p] = Left(me[p])] /\ UNCHANGED <<dir, written, made>>
    BY <1>2 DEF Lift
  <2>2. Moves(p)
    BY <1>0, <2>1, LeftShape DEF Moves, TypeOK, Leaving
  <2> QED
    BY <1>0, <1>1, <1>2, <2>2 DEF Keeps
<1>3. CASE dir[LeavePath(p)] # None
  <2>1. /\ dir' = [dir EXCEPT ![LeavePath(p)] = None] /\ UNCHANGED <<written, made>>
        /\ GoWith(p, "lifted", "taken", dir[LeavePath(p)])
    BY <1>3 DEF Lift, Take
  <2>2. /\ me' \in [Proc -> Local] /\ \A q \in Proc \ {p} : me'[q] = me[q]
        /\ me'[p].lock = me[p].lock /\ me'[p].gate = me[p].gate /\ me'[p].at = "lifted"
        /\ me'[p].taken = dir[LeavePath(p)] /\ me'[p].then = me[p].then
    BY <1>0, <2>1 DEF TypeOK, GoWith, Local
  <2>3. /\ dir' \in [Path -> File \cup {None}]
        /\ \A x \in Path \ {LeavePath(p)} : dir'[x] = dir[x]
    BY <1>0, <2>1 DEF TypeOK
  <2>4. Moves(p)
    BY <1>0, <2>1, <2>2, <2>3 DEF Moves, TypeOK, Shape, Gated, Leaving
  <2>5. CASE me[p].gate = None
    <3>1. LeavePath(p) = "lock" /\ dir'["recovery"] = dir["recovery"]
      BY <2>3, <2>5 DEF LeavePath, Path
    <3>2. ASSUME ~torn PROVE Sound(me[p])'
      BY <1>1, <2>2, <2>5, <3>2 DEF Sound, GateInPlace, LockInPlace, ClaimsTheDead, LiftsItsOwn
    <3> QED
      BY <1>0, <1>1, <2>1, <2>4, <3>1, <3>2, LockMoves DEF Keeps
  <2>6. CASE me[p].gate # None
    <3>1. LeavePath(p) = "recovery" /\ dir'["lock"] = dir["lock"]
      BY <2>3, <2>6 DEF LeavePath, Path
    <3>2. ASSUME ~torn PROVE Sound(me[p])'
      BY <1>0, <1>1, <2>2, <2>6, <3>1, <3>2
         DEF IInv, Sound, GateInPlace, LockInPlace, ClaimsTheDead, LiftsItsOwn
    <3> QED
      BY <1>0, <1>1, <2>1, <2>4, <3>1, <3>2, GateMoves DEF Keeps
  <2> QED
    BY <2>5, <2>6
<1> QED
  BY <1>2, <1>3

LEMMA LiftedStep ==
  ASSUME IInv, NEW p \in Proc, Lifted(p)
  PROVE  Keeps(p)
<1>0. TypeOK /\ me[p] \in Local /\ me[p].at = "lifted" /\ Alive(p) /\ Shape(p, me[p])
      /\ LeavePath(p) \in Path /\ me[p].taken \in File \cup {None}
  BY DEF IInv, TypeOK, Lifted, At, Alive, LeavePath, Path, Local
<1>1. me' = [me EXCEPT ![p] = Left(me[p])] /\ UNCHANGED <<written, made>>
  BY DEF Lifted
<1>2. dir' \in [Path -> File \cup {None}] /\ torn' \in BOOLEAN /\ (~torn' => ~torn)
  BY <1>0 DEF TypeOK, Lifted, PutBack, LiveCreator
<1>3. Moves(p)
  BY <1>0, <1>1, <1>2, LeftShape DEF Moves, TypeOK, Leaving
<1>4. ASSUME ~torn PROVE dir' = dir
  BY <1>0, <1>4 DEF IInv, Sound, LiftsItsOwn, Own, Lifted
<1>5. ASSUME ~torn PROVE Sound(me[p])'
  BY <1>0, <1>1, <1>4, <1>5, LeftSound DEF Leaving
<1> QED
  BY <1>0, <1>1, <1>2, <1>3, <1>4, <1>5, DirStays DEF Keeps

LEMMA CrashStep ==
  ASSUME IInv, NEW p \in Proc, Crash(p)
  PROVE  Keeps(p)
<1>0. TypeOK /\ Fresh("dead") \in Local
  BY BoundAssumption DEF IInv, Fresh, Local
<1>1. /\ me' \in [Proc -> Local] /\ \A q \in Proc \ {p} : me'[q] = me[q]
      /\ me'[p] = Fresh("dead") /\ UNCHANGED <<dir, written, made, torn>>
  BY <1>0 DEF TypeOK, Crash
<1>2. me'[p].lock = None /\ me'[p].gate = None /\ me'[p].at = "dead"
  BY <1>1 DEF Fresh
<1>3. Moves(p)
  BY <1>0, <1>1, <1>2 DEF Moves, TypeOK, Shape, Gated, Leaving
<1> QED
  BY <1>1, <1>2, <1>3, EmptyHanded, DirStays DEF Keeps, Crash

-----------------------------------------------------------------------------
LEMMA Start == Init => IInv
<1> SUFFICES ASSUME Init PROVE IInv
  OBVIOUS
<1>1. Fresh("out") \in Local
  BY BoundAssumption DEF Fresh, Local
<1>2. \A p \in Proc : me[p] = Fresh("out")
  BY DEF Init
<1>3. \A p \in Proc : me[p].lock = None /\ me[p].gate = None /\ me[p].at = "out"
  BY <1>2 DEF Fresh
<1>4. TypeOK
  <2>1. 0 \in 0..MaxFiles
    BY BoundAssumption
  <2>2. dir \in [Path -> File \cup {None}] /\ made \in [Proc -> 0..MaxFiles] /\ me \in [Proc -> Local]
    BY <1>1, <2>1 DEF Init
  <2> QED
    BY <2>2 DEF Init, TypeOK
<1> QED
  BY <1>3, <1>4 DEF IInv, Shape, Gated, Leaving, Sound, GateInPlace, LockInPlace, ClaimsTheDead, LiftsItsOwn

LEMMA EveryStepKeeps ==
  ASSUME IInv, NEW p \in Proc, Step(p) \/ Acquire(p) \/ Release(p) \/ Crash(p)
  PROVE  Keeps(p)
BY WriteStep, ObserveStep, AskGateStep, RecordStep, WeighGateStep, CheckStep, ClaimStep, ClaimedStep,
   RetryStep, LeaveStep, LiftStep, LiftedStep, AcquireStep, ReleaseStep, CrashStep DEF Step

LEMMA Inductive == IInv /\ [Next]_vars => IInv'
<1> SUFFICES ASSUME IInv, [Next]_vars PROVE IInv'
  OBVIOUS
<1>1. CASE Next
  <2>1. PICK p \in Proc : Keeps(p)
    BY <1>1, EveryStepKeeps DEF Next
  <2>2. \A q \in Proc : Shape(q, me'[q])
    BY <2>1 DEF Keeps, Moves, IInv
  <2> QED
    <3>1. TypeOK' /\ torn' \in BOOLEAN
      BY <2>1 DEF Keeps, Moves, TypeOK
    <3> QED
      BY <2>1, <2>2, <3>1, Z3 DEF Keeps, IInv
<1>2. CASE UNCHANGED vars
  BY <1>2 DEF vars, IInv, TypeOK, Sound, GateInPlace, LockInPlace, ClaimsTheDead, LiftsItsOwn, Dead, Raw, Alive, At
<1> QED
  BY <1>1, <1>2

LEMMA Invariance == Spec => []IInv
<1> QED
  BY Start, Inductive, PTL DEF Spec

(* The local states, the files and the paths stay in their types. *)
THEOREM TypeCorrectness == Spec => []TypeOK
<1>1. IInv => TypeOK
  BY DEF IInv
<1> QED
  BY <1>1, Invariance, PTL

(***************************************************************************)
(* acquire, the recovery of a stale lock and release: for any number of    *)
(* processes there is one owner of the data root, whose file is at the     *)
(* path, unless a blank lock was weighed as stale, or the gate of a live   *)
(* process, written or blank, was claimed or overwritten.                  *)
(***************************************************************************)
THEOREM OneHolder == Spec => []OneHolderUnlessTorn
<1>1. IInv => OneHolderUnlessTorn
  <2> SUFFICES ASSUME IInv, ~torn
               PROVE  AtMostOneHolder /\ \A p \in Holders : dir["lock"] = me[p].lock
    BY DEF OneHolderUnlessTorn
  <2>1. \A p \in Holders : p \in Proc /\ dir["lock"] = me[p].lock /\ me[p].lock[1] = p
    BY DEF IInv, Holders, At, Shape, Sound, LockInPlace
  <2> QED
    BY <2>1 DEF AtMostOneHolder
<1> QED
  BY <1>1, Invariance, PTL
=============================================================================
