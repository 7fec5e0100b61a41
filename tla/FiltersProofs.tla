--------------------------- MODULE FiltersProofs ---------------------------
(***************************************************************************)
(* What Keep keeps: the elements of the set, in the order of the sequence; *)
(* and what the range of a sequence is after the other operations on it.   *)
(* The induction is by the least counterexample: the induction theorems of *)
(* the library take an operator, which the provers cannot instantiate.     *)
(***************************************************************************)
EXTENDS Filters, Functions, SequenceTheorems, WellFoundedInduction, TLAPS

(* A set of numbers that is not empty has a least element. *)
THEOREM LeastNat ==
  ASSUME NEW T \in SUBSET Nat, T # {}
  PROVE  \E n \in T : \A m \in T : n <= m
<1> DEFINE R == OpToRel(<, Nat)
<1>1. IsWellFoundedOn(R, Nat)
  BY NatLessThanWellFounded
<1>2. \A x, y \in Nat : y < x => <<y, x>> \in R
  BY DEF OpToRel
<1> HIDE DEF R
<1>3. \E x \in T : \A y \in T : ~ (<<y, x>> \in R)
  BY <1>1, WFMin
<1>4. PICK x \in T : \A y \in T : ~ (<<y, x>> \in R)
  BY <1>3
<1>5. ASSUME NEW y \in T, y < x PROVE FALSE
  BY <1>2, <1>4, <1>5
<1>6. \A y \in T : x <= y
  BY <1>5
<1> QED BY <1>6

-----------------------------------------------------------------------------
(* One step of Keep, and the function it is the last value of. *)
OneMore(s, S, t, n) == IF s[n] \in S THEN Append(t, s[n]) ELSE t
IsUpTo(s, S, k, f) == f = [n \in 0..k |-> IF n = 0 THEN <<>> ELSE OneMore(s, S, f[n - 1], n)]

LEMMA UpToExists ==
  ASSUME NEW s, NEW S, NEW W \in Nat
  PROVE  \E f : IsUpTo(s, S, W, f)
<1> DEFINE Bad == {k \in Nat : ~\E f : IsUpTo(s, S, k, f)}
<1> SUFFICES ASSUME Bad # {} PROVE FALSE
  OBVIOUS
<1>1. PICK k \in Bad : \A m \in Bad : k <= m
  BY LeastNat
<1>2. CASE k = 0
  <2>1. IsUpTo(s, S, 0, [n \in 0..0 |-> <<>>])
    BY DEF IsUpTo
  <2> QED BY <2>1, <1>1, <1>2
<1>3. CASE k # 0
  <2>1. k \in Nat /\ k - 1 \in Nat /\ k - 1 \notin Bad
    BY <1>1, <1>3
  <2>2. PICK h : IsUpTo(s, S, k - 1, h)
    BY <2>1
  <2> DEFINE g == [n \in 0..k |-> IF n = k THEN OneMore(s, S, h[k - 1], k) ELSE h[n]]
  <2>3. \A n \in 0..k : g[n] = IF n = 0 THEN <<>> ELSE OneMore(s, S, g[n - 1], n)
    <3> TAKE n \in 0..k
    <3>1. CASE n = k
      <4>1. k - 1 \in 0..k /\ k - 1 # k
        BY <2>1
      <4>2. g[k] = OneMore(s, S, h[k - 1], k) /\ g[k - 1] = h[k - 1]
        BY <2>1, <4>1
      <4> QED BY <3>1, <4>2, <1>3
    <3>2. CASE n # k
      <4>1. n \in 0..(k - 1)
        BY <3>2, <2>1
      <4>2. h[n] = IF n = 0 THEN <<>> ELSE OneMore(s, S, h[n - 1], n)
        BY <4>1, <2>2 DEF IsUpTo
      <4>3. n # 0 => n - 1 \in 0..k /\ n - 1 # k
        BY <4>1, <2>1
      <4>4. g[n] = h[n]
        BY <3>2
      <4>5. n # 0 => g[n - 1] = h[n - 1]
        BY <4>3
      <4> HIDE DEF g
      <4> QED BY <4>2, <4>4, <4>5
    <3> QED BY <3>1, <3>2
  <2>4. g = [n \in 0..k |-> g[n]]
    OBVIOUS
  <2> HIDE DEF g
  <2>5. IsUpTo(s, S, k, g)
    BY <2>3, <2>4 DEF IsUpTo
  <2> QED BY <2>5, <1>1
<1> QED BY <1>2, <1>3

LEMMA KeepIsUpTo ==
  ASSUME NEW T, NEW s \in Seq(T), NEW S
  PROVE  \E f : /\ Keep(s, S) = f[Len(s)] /\ f[0] = <<>>
                /\ \A n \in 1..Len(s) : f[n] = OneMore(s, S, f[n - 1], n)
<1> DEFINE F(f) == f = [n \in 0..Len(s) |->
                          IF n = 0 THEN <<>>
                          ELSE IF s[n] \in S THEN Append(f[n - 1], s[n]) ELSE f[n - 1]]
           u == CHOOSE f : F(f)
<1>0. Len(s) \in Nat
  BY LenProperties
<1>1. \E f : F(f)
  <2>1. PICK f : IsUpTo(s, S, Len(s), f)
    BY <1>0, UpToExists
  <2>2. F(f)
    BY <2>1 DEF IsUpTo, OneMore
  <2> HIDE DEF F
  <2> QED BY <2>2
<1>2. F(u)
  BY <1>1
<1>3. Keep(s, S) = u[Len(s)]
  <2>1. KeepOf(s, S) = u[Len(s)]
    BY DEF KeepOf
  <2>2. {KeepOf(t, S) : t \in {s}} = {u[Len(s)]}
    BY <2>1
  <2> HIDE DEF u
  <2> QED BY <2>2 DEF Keep
<1> HIDE DEF u
<1>4. u[0] = <<>>
  BY <1>0, <1>2
<1>5. ASSUME NEW n \in 1..Len(s) PROVE u[n] = OneMore(s, S, u[n - 1], n)
  <2>1. n \in 0..Len(s) /\ n # 0
    BY <1>0
  <2> QED BY <2>1, <1>2 DEF OneMore
<1> QED BY <1>3, <1>4, <1>5

(***************************************************************************)
(* The indices kept, in increasing order: the whole of what Keep does.     *)
(***************************************************************************)
Picks(s, S, k, t, g) ==
    /\ g \in [1..Len(t) -> 1..k]
    /\ \A i \in 1..Len(t) : t[i] = s[g[i]] /\ s[g[i]] \in S
    /\ \A n \in 1..k : s[n] \in S => \E i \in 1..Len(t) : g[i] = n
    /\ \A i, j \in 1..Len(t) : i < j => g[i] < g[j]

LEMMA PicksOneMore ==
  ASSUME NEW T, NEW s \in Seq(T), NEW S, NEW k \in 1..Len(s), NEW t \in Seq(T), NEW g,
         Picks(s, S, k - 1, t, g)
  PROVE  OneMore(s, S, t, k) \in Seq(T) /\ \E h : Picks(s, S, k, OneMore(s, S, t, k), h)
<1>0. Len(s) \in Nat /\ s[k] \in T /\ Len(t) \in Nat /\ k \in Nat /\ k - 1 \in Nat
  BY LenProperties, ElementOfSeq
<1>1. CASE s[k] \notin S
  <2>1. OneMore(s, S, t, k) = t
    BY <1>1 DEF OneMore
  <2>2. Picks(s, S, k, t, g)
    BY <1>0, <1>1 DEF Picks
  <2> QED BY <2>1, <2>2
<1>2. CASE s[k] \in S
  <2> DEFINE u == Append(t, s[k])
             h == [i \in 1..(Len(t) + 1) |-> IF i = Len(t) + 1 THEN k ELSE g[i]]
  <2>1. OneMore(s, S, t, k) = u
    BY <1>2 DEF OneMore
  <2>2. /\ u \in Seq(T) /\ Len(u) = Len(t) + 1 /\ u[Len(t) + 1] = s[k]
        /\ \A i \in 1..Len(t) : u[i] = t[i]
    BY <1>0, AppendProperties
  <2>3. /\ h[Len(t) + 1] = k /\ \A i \in 1..Len(t) : h[i] = g[i] /\ g[i] \in 1..(k - 1)
        /\ h \in [1..(Len(t) + 1) -> 1..k]
    <3>1. g \in [1..Len(t) -> 1..(k - 1)]
      BY DEF Picks
    <3>2. \A i \in 1..Len(t) : i \in 1..(Len(t) + 1) /\ i # Len(t) + 1 /\ g[i] \in 1..(k - 1)
      BY <1>0, <3>1
    <3>3. \A i \in 1..Len(t) : h[i] = g[i]
      BY <3>2
    <3>4. Len(t) + 1 \in 1..(Len(t) + 1) /\ h[Len(t) + 1] = k
      BY <1>0
    <3>5. \A i \in 1..(Len(t) + 1) : (IF i = Len(t) + 1 THEN k ELSE g[i]) \in 1..k
      <4> SUFFICES ASSUME NEW i \in 1..(Len(t) + 1), i # Len(t) + 1 PROVE g[i] \in 1..k
        BY <1>0
      <4>1. i \in 1..Len(t)
        BY <1>0
      <4>2. g[i] \in 1..(k - 1)
        BY <3>1, <4>1
      <4> QED BY <4>2, <1>0
    <3> QED BY <3>2, <3>3, <3>4, <3>5
  <2> HIDE DEF u, h
  <2>4. \A i \in 1..Len(u) : u[i] = s[h[i]] /\ s[h[i]] \in S
    BY <1>0, <1>2, <2>2, <2>3 DEF Picks
  <2>5. \A n \in 1..k : s[n] \in S => \E i \in 1..Len(u) : h[i] = n
    <3> SUFFICES ASSUME NEW n \in 1..k, s[n] \in S PROVE \E i \in 1..Len(u) : h[i] = n
      OBVIOUS
    <3>1. CASE n = k
      BY <3>1, <1>0, <2>2, <2>3
    <3>2. CASE n # k
      <4>1. PICK i \in 1..Len(t) : g[i] = n
        BY <3>2, <1>0 DEF Picks
      <4> QED BY <4>1, <1>0, <2>2, <2>3
    <3> QED BY <3>1, <3>2
  <2>6. \A i, j \in 1..Len(u) : i < j => h[i] < h[j]
    <3> SUFFICES ASSUME NEW i \in 1..Len(u), NEW j \in 1..Len(u), i < j PROVE h[i] < h[j]
      OBVIOUS
    <3>1. i \in 1..Len(t)
      BY <1>0, <2>2
    <3>2. CASE j = Len(t) + 1
      BY <3>1, <3>2, <1>0, <2>3
    <3>3. CASE j \in 1..Len(t)
      BY <3>1, <3>3, <2>3 DEF Picks
    <3> QED BY <3>2, <3>3, <1>0, <2>2
  <2>7. Picks(s, S, k, u, h)
    BY <2>2, <2>3, <2>4, <2>5, <2>6 DEF Picks
  <2> QED BY <2>1, <2>2, <2>7
<1> QED BY <1>1, <1>2

(* Keep(s, S) is s at the indices whose elements are in S, in their order. *)
THEOREM KeepFacts ==
  ASSUME NEW T, NEW s \in Seq(T), NEW S
  PROVE  Keep(s, S) \in Seq(T) /\ \E g : Picks(s, S, Len(s), Keep(s, S), g)
<1>0. Len(s) \in Nat
  BY LenProperties
<1>1. PICK f : /\ Keep(s, S) = f[Len(s)] /\ f[0] = <<>>
               /\ \A n \in 1..Len(s) : f[n] = OneMore(s, S, f[n - 1], n)
  BY KeepIsUpTo
<1> DEFINE Good(k) == f[k] \in Seq(T) /\ \E g : Picks(s, S, k, f[k], g)
           Bad == {k \in 0..Len(s) : ~Good(k)}
<1>2. Bad = {}
  <2> SUFFICES ASSUME Bad # {} PROVE FALSE
    OBVIOUS
  <2>1. PICK k \in Bad : \A m \in Bad : k <= m
    <3>1. Bad \in SUBSET Nat
      BY <1>0
    <3> HIDE DEF Bad
    <3> QED BY <3>1, LeastNat
  <2>2. k \in 0..Len(s) /\ ~Good(k)
    OBVIOUS
  <2>3. CASE k = 0
    <3>1. f[0] \in Seq(T) /\ Len(f[0]) = 0
      BY <1>1
    <3>2. Picks(s, S, 0, f[0], [i \in 1..0 |-> 1])
      BY <3>1 DEF Picks
    <3> QED BY <3>1, <3>2, <2>2, <2>3
  <2>4. CASE k # 0
    <3>1. k \in 1..Len(s) /\ k - 1 \in 0..Len(s) /\ k - 1 \in Nat /\ k \in Nat
      BY <2>2, <2>4, <1>0
    <3>2. Good(k - 1)
      <4> SUFFICES ASSUME ~Good(k - 1) PROVE FALSE
        OBVIOUS
      <4>1. k - 1 \in Bad
        BY <3>1
      <4> QED BY <4>1, <2>1, <3>1, SMTT(20)
    <3>3. PICK g : Picks(s, S, k - 1, f[k - 1], g)
      BY <3>2
    <3>4. f[k] = OneMore(s, S, f[k - 1], k)
      BY <3>1, <1>1
    <3>5. Good(k)
      <4>1. f[k - 1] \in Seq(T)
        BY <3>2
      <4>2. OneMore(s, S, f[k - 1], k) \in Seq(T)
            /\ \E h : Picks(s, S, k, OneMore(s, S, f[k - 1], k), h)
        BY <3>1, <3>3, <4>1, PicksOneMore
      <4> QED BY <4>2, <3>4
    <3> QED BY <3>5, <2>2
  <2> QED BY <2>3, <2>4
<1>3. Good(Len(s))
  BY <1>0, <1>2
<1> QED BY <1>1, <1>3

(* Keep drops what is not in S, loses nothing else and repeats nothing. *)
THEOREM KeepRange ==
  ASSUME NEW T, NEW s \in Seq(T), NEW S
  PROVE  /\ Keep(s, S) \in Seq(T)
         /\ Range(Keep(s, S)) = Range(s) \cap S
         /\ IsInjective(s) => IsInjective(Keep(s, S))
<1> DEFINE t == Keep(s, S)
<1>1. t \in Seq(T)
  BY KeepFacts
<1>2. PICK g : Picks(s, S, Len(s), t, g)
  BY KeepFacts
<1> HIDE DEF t
<1>3. /\ DOMAIN s = 1..Len(s) /\ Len(s) \in Nat /\ DOMAIN t = 1..Len(t) /\ Len(t) \in Nat
  BY <1>1, LenProperties
<1>4. Range(t) = Range(s) \cap S
  <2>1. ASSUME NEW i \in DOMAIN t PROVE t[i] \in Range(s) /\ t[i] \in S
    <3>1. g[i] \in DOMAIN s /\ t[i] = s[g[i]] /\ s[g[i]] \in S
      BY <2>1, <1>2, <1>3 DEF Picks
    <3> QED BY <3>1 DEF Range
  <2>2. ASSUME NEW n \in DOMAIN s, s[n] \in S PROVE s[n] \in Range(t)
    <3>1. PICK i \in 1..Len(t) : g[i] = n
      BY <2>2, <1>2, <1>3 DEF Picks
    <3>2. t[i] = s[n]
      BY <3>1, <1>2 DEF Picks
    <3> QED BY <3>1, <3>2, <1>3 DEF Range
  <2> QED BY <2>1, <2>2 DEF Range
<1>5. ASSUME IsInjective(s) PROVE IsInjective(t)
  <2> SUFFICES ASSUME NEW a \in DOMAIN t, NEW b \in DOMAIN t, t[a] = t[b] PROVE a = b
    BY DEF IsInjective
  <2>1. g[a] = g[b] /\ g[a] \in 1..Len(s) /\ g[b] \in 1..Len(s)
    BY <1>2, <1>3, <1>5 DEF Picks, IsInjective
  <2>2. a \in Nat /\ b \in Nat /\ ~(a < b) /\ ~(b < a)
    BY <2>1, <1>2, <1>3 DEF Picks
  <2> QED BY <2>2
<1> QED BY <1>1, <1>4, <1>5 DEF t

(* A sequence in increasing order of f stays so. *)
THEOREM KeepSorted ==
  ASSUME NEW T, NEW s \in Seq(T), NEW S, NEW f,
         \A m, n \in DOMAIN s : m < n => f[s[m]] < f[s[n]]
  PROVE  \A m, n \in DOMAIN Keep(s, S) : m < n => f[Keep(s, S)[m]] < f[Keep(s, S)[n]]
<1> DEFINE t == Keep(s, S)
<1>1. t \in Seq(T)
  BY KeepFacts
<1>2. PICK g : Picks(s, S, Len(s), t, g)
  BY KeepFacts
<1> HIDE DEF t
<1>3. /\ DOMAIN s = 1..Len(s) /\ Len(s) \in Nat /\ DOMAIN t = 1..Len(t) /\ Len(t) \in Nat
  BY <1>1, LenProperties
<1>4. \A m, n \in DOMAIN t : m < n => f[t[m]] < f[t[n]]
  BY <1>2, <1>3 DEF Picks
<1> QED BY <1>4 DEF t

-----------------------------------------------------------------------------
(* Two sequences that share no element, one after the other. *)
THEOREM ConcatRange ==
  ASSUME NEW T, NEW s \in Seq(T), NEW t \in Seq(T)
  PROVE  /\ s \o t \in Seq(T) /\ Range(s \o t) = Range(s) \cup Range(t)
         /\ IsInjective(s) /\ IsInjective(t) /\ Range(s) \cap Range(t) = {} => IsInjective(s \o t)
<1> DEFINE u == s \o t
<1>1. /\ u \in Seq(T) /\ Len(u) = Len(s) + Len(t) /\ Len(s) \in Nat /\ Len(t) \in Nat
      /\ \A i \in 1..(Len(s) + Len(t)) : u[i] = IF i <= Len(s) THEN s[i] ELSE t[i - Len(s)]
  BY ConcatProperties, LenProperties
<1>2. DOMAIN s = 1..Len(s) /\ DOMAIN t = 1..Len(t) /\ DOMAIN u = 1..(Len(s) + Len(t))
  BY <1>1, LenProperties
<1> HIDE DEF u
<1>3. ASSUME NEW i \in DOMAIN u
      PROVE  \/ i \in DOMAIN s /\ u[i] = s[i]
             \/ i - Len(s) \in DOMAIN t /\ u[i] = t[i - Len(s)] /\ i \notin DOMAIN s
  BY <1>1, <1>2
<1>4. /\ \A i \in DOMAIN s : i \in DOMAIN u /\ u[i] = s[i]
      /\ \A i \in DOMAIN t : i + Len(s) \in DOMAIN u /\ u[i + Len(s)] = t[i]
  <2>1. ASSUME NEW i \in DOMAIN t PROVE i + Len(s) \in DOMAIN u /\ u[i + Len(s)] = t[i]
    <3>1. i + Len(s) \in 1..(Len(s) + Len(t)) /\ ~(i + Len(s) <= Len(s)) /\ i + Len(s) - Len(s) = i
      BY <1>1, <1>2
    <3>2. u[i + Len(s)] = t[i + Len(s) - Len(s)]
      BY <3>1, <1>1
    <3> QED BY <3>1, <3>2, <1>2
  <2>2. ASSUME NEW i \in DOMAIN s PROVE i \in DOMAIN u /\ u[i] = s[i]
    BY <1>1, <1>2
  <2> QED BY <2>1, <2>2
<1>5. Range(u) = Range(s) \cup Range(t)
  BY <1>3, <1>4 DEF Range
<1>6. ASSUME IsInjective(s), IsInjective(t), Range(s) \cap Range(t) = {} PROVE IsInjective(u)
  <2> SUFFICES ASSUME NEW a \in DOMAIN u, NEW b \in DOMAIN u, u[a] = u[b] PROVE a = b
    BY DEF IsInjective
  <2>1. \A i \in DOMAIN s, j \in DOMAIN t : s[i] # t[j]
    BY <1>6 DEF Range
  <2>2. CASE a \in DOMAIN s /\ b \in DOMAIN s
    BY <2>2, <1>4, <1>6 DEF IsInjective
  <2>3. CASE a \notin DOMAIN s /\ b \notin DOMAIN s
    <3>1. a - Len(s) = b - Len(s)
      BY <2>3, <1>3, <1>6 DEF IsInjective
    <3> QED BY <3>1, <1>1, <1>2
  <2> QED BY <2>1, <2>2, <2>3, <1>3
<1> QED BY <1>1, <1>5, <1>6 DEF u

(* A function on 1..n is a sequence. *)
THEOREM SameLength ==
  ASSUME NEW T, NEW n \in Nat, NEW f \in [1..n -> T]
  PROVE  f \in Seq(T) /\ Len(f) = n /\ DOMAIN f = 1..n
<1>1. f \in UNION {[1..m -> T] : m \in Nat}
  OBVIOUS
<1>2. f \in Seq(T)
  BY <1>1, SeqDef
<1>3. Len(f) \in Nat /\ DOMAIN f = 1..Len(f)
  BY <1>2, LenProperties
<1>4. 1..Len(f) = 1..n
  BY <1>3
<1>5. Len(f) = n
  <2>1. CASE n = 0
    BY <2>1, <1>3, <1>4
  <2>2. CASE n > 0
    BY <2>2, <1>3, <1>4
  <2> QED BY <2>1, <2>2
<1> QED BY <1>2, <1>5
=============================================================================
