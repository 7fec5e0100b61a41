---------------------------- MODULE DataRootLock ----------------------------
(***************************************************************************)
(* The lock on the data root of the server: a file that is created         *)
(* exclusively and then gets its owner's pid and token written into it.    *)
(*                                                                         *)
(* Creating and writing are two steps.  A process that finds the file of a *)
(* dead owner, or a blank one, takes it away under a second file of the    *)
(* same kind, the recovery gate.  A path is taken away by renaming it to a *)
(* name of one's own, looked at there, and deleted or renamed back over    *)
(* whatever is at the path by then.  Between any two calls of the file     *)
(* system the other processes move, and any process may die.               *)
(*                                                                         *)
(* A file is <<p, n>>, the n-th its process has created: that is its inode *)
(* and, once it is written, the pid and token in it.                       *)
(***************************************************************************)
EXTENDS Integers, FiniteSets

CONSTANTS
    Proc,       \* processes, each with a pid that is not used again
    MaxTries,   \* attempts acquire() makes (100 in the code)
    MaxFiles,   \* bound: files a process creates
    None

ASSUME NoneAssumption == None \notin Proc \X (Nat \ {0})
ASSUME BoundAssumption == MaxTries \in Nat \ {0} /\ MaxFiles \in Nat \ {0}

VARIABLES
    dir,        \* what is at the two paths
    written,    \* the files their creator has written its record into
    made,       \* number of files each process has created
    me,         \* the local state of each process
    torn        \* history: a blank lock was weighed as stale, or a live process's gate,
                \* written or not, was claimed or overwritten

vars == <<dir, written, made, me, torn>>

NotTorn == ~torn

Path == {"lock", "recovery"}
File == Proc \X (1..MaxFiles)

(***************************************************************************)
(* The local state: where the process is in the code, its own lock and     *)
(* gate, what it read of the file it is about to claim, the file it has    *)
(* renamed, the attempts made, and where releaseOwnedPath returns to.      *)
(***************************************************************************)
Local == [at : {"out", "dead", "writing", "observing", "asking", "recording", "weighing",
                "checking", "claiming", "claimed", "retrying", "leaving", "lifting",
                "lifted", "holding"},
          lock : File \cup {None}, gate : File \cup {None}, seen : File \cup {None},
          taken : File \cup {None}, tries : 0..(MaxTries - 1), then : {"out", "observing", "holding"}]

At(p, at) == me[p].at = at
Alive(p) == ~At(p, "dead")

(* readOwner: the raw text of a file.  Blank files read alike. *)
Raw(f) == IF f \in written THEN f ELSE None
LiveCreator(f) == f # None /\ Alive(f[1])
Blank(f) == LiveCreator(f) /\ f \notin written
LiveOwner(f) == f # None /\ Raw(f) # None /\ Alive(Raw(f)[1])

Go(p, at) == me' = [me EXCEPT ![p].at = at]
GoWith(p, at, field, value) == me' = [me EXCEPT ![p].at = at, ![p][field] = value]

(* Another attempt, or the error after the last one. *)
Again(l) == IF l.tries + 1 = MaxTries THEN [l EXCEPT !.at = "out", !.tries = 0]
            ELSE [l EXCEPT !.at = "observing", !.tries = @ + 1]

-----------------------------------------------------------------------------
Fresh(at) == [at |-> at, lock |-> None, gate |-> None, seen |-> None, taken |-> None,
              tries |-> 0, then |-> "out"]
Init ==
    /\ dir = [x \in Path |-> None] /\ written = {} /\ made = [p \in Proc |-> 0]
    /\ me = [p \in Proc |-> Fresh("out")]
    /\ torn = FALSE

(* open(path, "wx"): the new file, blank. *)
New(p) == <<p, made[p] + 1>>
Create(p, path) ==
    /\ dir[path] = None /\ made[p] < MaxFiles
    /\ dir' = [dir EXCEPT ![path] = New(p)]
    /\ made' = [made EXCEPT ![p] = @ + 1]
    /\ UNCHANGED <<written, torn>>
Exists(path) == dir[path] # None /\ UNCHANGED <<dir, written, made, torn>>

(* acquire: the first tryAcquireOnce. *)
Acquire(p) ==
    /\ At(p, "out")
    /\ \/ Create(p, "lock") /\ GoWith(p, "writing", "lock", New(p))
       \/ Exists("lock") /\ Go(p, "observing")

(* writeFile: into the file, wherever its name is by now. *)
Write(p) ==
    /\ At(p, "writing")
    /\ written' = written \cup {me[p].lock}
    /\ IF me[p].gate = None THEN Go(p, "holding") ELSE GoWith(p, "leaving", "then", "holding")
    /\ UNCHANGED <<dir, made, torn>>

(* The head of the loop: a live owner ends the attempt. *)
Observe(p) ==
    /\ At(p, "observing")
    /\ IF LiveOwner(dir["lock"]) THEN GoWith(p, "out", "tries", 0) ELSE Go(p, "asking")
    /\ UNCHANGED <<dir, written, made, torn>>

(* tryAcquireRecoveryGate. *)
AskGate(p) ==
    /\ At(p, "asking")
    /\ \/ Create(p, "recovery") /\ GoWith(p, "recording", "gate", New(p))
       \/ Exists("recovery") /\ Go(p, "weighing")

Record(p) ==
    /\ At(p, "recording")
    /\ written' = written \cup {me[p].gate}
    /\ Go(p, "checking")
    /\ UNCHANGED <<dir, made, torn>>

(* The gate of somebody who died is cleared; left alone, a fault for the mutant runs. *)
OnlyWait(p) ==
    /\ At(p, "weighing")
    /\ me' = [me EXCEPT ![p] = Again(@)]
    /\ UNCHANGED <<dir, written, made, torn>>
WeighGate(p) ==
    /\ At(p, "weighing")
    /\ IF dir["recovery"] = None \/ LiveOwner(dir["recovery"])
         THEN me' = [me EXCEPT ![p] = Again(@)]
         ELSE GoWith(p, "claiming", "seen", Raw(dir["recovery"]))
    /\ UNCHANGED <<dir, written, made, torn>>

(* Inside the gate: the owner is read again.  Without it, a fault for the mutant runs. *)
BlindCheck(p) ==
    /\ At(p, "checking")
    /\ IF dir["lock"] = None THEN Go(p, "retrying")
       ELSE GoWith(p, "claiming", "seen", Raw(dir["lock"]))
    /\ UNCHANGED <<dir, written, made, torn>>
Check(p) ==
    /\ At(p, "checking")
    /\ IF dir["lock"] = None THEN Go(p, "retrying")
       ELSE IF LiveOwner(dir["lock"]) THEN GoWith(p, "leaving", "then", "out")
       ELSE GoWith(p, "claiming", "seen", Raw(dir["lock"]))
    /\ torn' = (torn \/ Blank(dir["lock"]))
    /\ UNCHANGED <<dir, written, made>>

(* rename to the quarantine. *)
Take(p, path, at) ==
    /\ dir' = [dir EXCEPT ![path] = None]
    /\ GoWith(p, at, "taken", dir[path])
    /\ UNCHANGED <<written, made>>

(***************************************************************************)
(* claimStalePath: on the gate by one who has none, on the lock by the one *)
(* who has it.  A file that reads as it did before is deleted, any other   *)
(* is put back.                                                            *)
(***************************************************************************)
ClaimPath(p) == IF me[p].gate = None THEN "recovery" ELSE "lock"
AfterClaim(l) == IF l.gate = None THEN Again(l) ELSE [l EXCEPT !.at = "retrying"]

Claim(p) ==
    /\ At(p, "claiming")
    /\ LET f == dir[ClaimPath(p)]
       IN IF f = None THEN me' = [me EXCEPT ![p] = AfterClaim(@)] /\ UNCHANGED <<dir, written, made, torn>>
          ELSE /\ Take(p, ClaimPath(p), "claimed")
               /\ torn' = (torn \/ (me[p].gate = None /\ LiveCreator(f)))

PutBack(p, path) ==
    /\ dir' = [dir EXCEPT ![path] = me[p].taken]
    /\ torn' = (torn \/ (path = "recovery" /\ LiveCreator(dir[path])))
Claimed(p) ==
    /\ At(p, "claimed")
    /\ IF Raw(me[p].taken) = me[p].seen THEN UNCHANGED <<dir, torn>> ELSE PutBack(p, ClaimPath(p))
    /\ me' = [me EXCEPT ![p] = [AfterClaim(@) EXCEPT !.taken = None, !.seen = None]]
    /\ UNCHANGED <<written, made>>

(* tryAcquireOnce inside the gate. *)
Retry(p) ==
    /\ At(p, "retrying")
    /\ \/ Create(p, "lock") /\ GoWith(p, "writing", "lock", New(p))
       \/ Exists("lock") /\ GoWith(p, "leaving", "then", "observing")

-----------------------------------------------------------------------------
(* release: from here on the process no longer counts as the owner. *)
Release(p) ==
    /\ At(p, "holding")
    /\ GoWith(p, "leaving", "then", "out")
    /\ UNCHANGED <<dir, written, made, torn>>

(* releaseOwnedPath: of the gate if there is one, else of the lock. *)
LeavePath(p) == IF me[p].gate = None THEN "lock" ELSE "recovery"
Own(p) == IF me[p].gate = None THEN me[p].lock ELSE me[p].gate

(* The end of releaseOwnedPath, and of acquire unless another attempt follows. *)
Left(l) ==
    LET free == [l EXCEPT !.gate = None, !.taken = None, !.then = "out",
                          !.lock = IF l.then = "holding" THEN @ ELSE None]
    IN  IF l.then = "observing" THEN Again(free) ELSE [free EXCEPT !.at = l.then, !.tries = 0]

Leave(p) ==
    /\ At(p, "leaving")
    /\ LET f == dir[LeavePath(p)]
       IN IF f # None /\ Raw(f) = Own(p) THEN Go(p, "lifting") ELSE me' = [me EXCEPT ![p] = Left(@)]
    /\ UNCHANGED <<dir, written, made, torn>>

Lift(p) ==
    /\ At(p, "lifting")
    /\ IF dir[LeavePath(p)] # None THEN Take(p, LeavePath(p), "lifted")
       ELSE me' = [me EXCEPT ![p] = Left(@)] /\ UNCHANGED <<dir, written, made>>
    /\ UNCHANGED torn

Lifted(p) ==
    /\ At(p, "lifted")
    /\ IF me[p].taken = Own(p) THEN UNCHANGED <<dir, torn>> ELSE PutBack(p, LeavePath(p))
    /\ me' = [me EXCEPT ![p] = Left(@)]
    /\ UNCHANGED <<written, made>>

(* The process dies; what it has renamed stays where nobody looks. *)
Crash(p) ==
    /\ Alive(p)
    /\ me' = [me EXCEPT ![p] = Fresh("dead")]
    /\ UNCHANGED <<dir, written, made, torn>>

Step(p) ==
    \/ Write(p) \/ Observe(p) \/ AskGate(p) \/ Record(p) \/ WeighGate(p) \/ Check(p)
    \/ Claim(p) \/ Claimed(p) \/ Retry(p) \/ Leave(p) \/ Lift(p) \/ Lifted(p)

Next == \E p \in Proc : Step(p) \/ Acquire(p) \/ Release(p) \/ Crash(p)

(* Calls of the file system return; nobody has to start, to release or to die. *)
Spec == Init /\ [][Next]_vars
LiveSpec == Spec /\ \A p \in Proc : WF_vars(Step(p))

-----------------------------------------------------------------------------
(* Properties.                                                             *)

TypeOK ==
    /\ dir \in [Path -> File \cup {None}]
    /\ written \subseteq File
    /\ made \in [Proc -> 0..MaxFiles]
    /\ me \in [Proc -> Local]
    /\ torn \in BOOLEAN

Holders == {p \in Proc : At(p, "holding")}

(***************************************************************************)
(* The data root has one owner at a time, over every crash and recovery,   *)
(* and its file is at the path for everybody to see, unless one of three   *)
(* things has happened: a lock file was weighed as stale while it was      *)
(* still blank, the gate file of a live process, written or blank, was     *)
(* claimed by one who had been looking at a dead one's, or it was          *)
(* overwritten when a file was renamed back.                               *)
(***************************************************************************)
AtMostOneHolder == \A p, q \in Holders : p = q
OneHolderUnlessTorn ==
    torn \/ (AtMostOneHolder /\ \A p \in Holders : dir["lock"] = me[p].lock)

(***************************************************************************)
(* acquire after a crash: a process that comes upon what the dead have     *)
(* left, when nobody else is alive, gets the lock.                         *)
(***************************************************************************)
Alone(p) == Alive(p) /\ \A q \in Proc \ {p} : ~Alive(q)
Room(p) == made[p] + 2 <= MaxFiles  \* for a gate and a lock, within the bound
SuccessorGetsIn ==
    \A p \in Proc : NotTorn /\ Alone(p) /\ At(p, "observing") /\ me[p].tries = 0 /\ Room(p)
                      ~> ~Alive(p) \/ At(p, "holding")
=============================================================================
