---------------------------- MODULE LitDep_proofs ----------------------------
(* Proofs about LitDep: the counters of the literals are exact, every join is *)
(* safe and complete, and a statement is refused exactly for the variables    *)
(* that cannot be bound, for all statements and whatever the scores choose.   *)
(*                                                                            *)
(* The argument: a counter is the number of occurrences whose variable is not *)
(* bound yet, so a literal that has counted down to zero waits for bound      *)
(* variables only; and what is bound while a formula is ordered is what the   *)
(* literals joined so far bind.  A literal whose needs are met is in the      *)
(* queue, or has been taken from it, and then what it binds is bound: with an *)
(* empty queue what is bound is closed, hence all that can be bound.  That    *)
(* the recursive definition Bindable is the least closed set takes induction, *)
(* which is proved here for sets of numbers.                                  *)
EXTENDS LitDep, FiniteSetTheorems, SequenceTheorems, TLAPS

(* What the first n literals of a join bind. *)
JoinedBinds(join, n) == UNION {Binds(frm, join[j]) : j \in 1 .. n}

(* The occurrences of variables that are bound, and not bound. *)
Bound(W, B) == {w \in W : Name(w) \in B}
Unbound(W, B) == {w \in W : Name(w) \notin B}

Typed ==
    /\ stm \in Statements /\ frm \in Formulas /\ open \subseteq Formulas
    /\ phase \in {"check", "order", "ordered", "unsafe"}
    /\ DOMAIN count = DOMAIN LitsOf(frm)
    /\ queue \in Seq(DOMAIN LitsOf(frm)) /\ joined \in Seq(DOMAIN LitsOf(frm))
    /\ bound \subseteq VarsOf(frm)

QueueReady == \A i \in 1 .. Len(queue) : WaitsFor(frm, queue[i]) \subseteq bound

BoundByJoin == phase \in {"order", "ordered"} => bound = JoinedBinds(joined, Len(joined))

JoinedAfter == \A i \in 1 .. Len(joined) : WaitsFor(frm, joined[i]) \subseteq JoinedBinds(joined, i - 1)

Inv == Typed /\ CountsExact /\ QueueReady /\ BoundByJoin /\ JoinedAfter

(* What more can be bound once the variables B are. *)
Step(f, B) == UNION {Binds(f, l) : l \in {k \in DOMAIN LitsOf(f) : WaitsFor(f, k) \subseteq B}}

(* The variables of the formulas F that cannot be bound. *)
Refused(F) == UNION {VarsOf(f) \ Bindable(f) : f \in F}

(* check() reports formula by formula, and binds nothing that cannot be bound. *)
Reported ==
    /\ frm \notin open
    /\ phase = "check" => bound \subseteq Bindable(frm) /\ unsafe = Refused(Formulas \ (open \cup {frm}))

(* A literal whose needs are met waits in the queue, or was taken from it. *)
Dispatched ==
    \A l \in DOMAIN LitsOf(frm) : WaitsFor(frm, l) \subseteq bound =>
        \/ l \in ToSet(queue)
        \/ Binds(frm, l) \subseteq bound /\ (phase \in {"order", "ordered"} => l \in ToSet(joined))

(* No literal is in the queue or the join twice. *)
Distinct ==
    /\ IsInjective(queue) /\ IsInjective(joined) /\ ToSet(queue) \cap ToSet(joined) = {}
    /\ phase \in {"check", "unsafe"} => joined = <<>>
    /\ phase = "ordered" => queue = <<>>

ExactInv == Inv /\ Reported /\ SafetyExact /\ Dispatched /\ Distinct

------------------------------------------------------------------------------
(* Induction, and what a monotone function of finite sets is iterated to. *)
LEMMA LeastElement ==
  ASSUME NEW T \in SUBSET Nat, T # {}
  PROVE  \E x \in T : \A y \in T : x <= y
<1> DEFINE D(n) == 0 .. n
           F == {D(n) : n \in T}
<1>1. \A n \in Nat : IsFiniteSet(D(n)) /\ D(n) \in SUBSET Nat
  BY FS_Interval
<1>2. F \subseteq FiniteSubsetsOf(Nat) /\ F # {}
  BY <1>1 DEF FiniteSubsetsOf
<1>3. IsWellFoundedOn(StrictSubsetOrdering(Nat), FiniteSubsetsOf(Nat))
  BY FS_StrictSubsetOrderingWellFounded
<1>4. PICK d \in F : \A e \in F : ~(<<e, d>> \in StrictSubsetOrdering(Nat))
  <2> HIDE DEF F
  <2> QED
    BY <1>2, <1>3, WFMin
<1>5. PICK x \in T : d = D(x)
  OBVIOUS
<1>6. ASSUME NEW y \in T, y < x PROVE FALSE
  <2>1. <<D(y), D(x)>> \in StrictSubsetOrdering(Nat)
    <3>1. D(y) \subseteq D(x) /\ D(y) # D(x)
      BY <1>6
    <3>2. D(x) \in SUBSET Nat /\ D(y) \in SUBSET Nat
      BY <1>1
    <3> HIDE DEF D
    <3> QED
      BY <3>1, <3>2 DEF StrictSubsetOrdering
  <2> QED
    BY <2>1, <1>4, <1>5
<1> QED
  BY <1>6

(* Induction over the natural numbers, for sets.                           *)
LEMMA Induction ==
  ASSUME NEW S \in SUBSET Nat, 0 \in S, \A n \in S : n + 1 \in S
  PROVE  S = Nat
<1> SUFFICES ASSUME S # Nat PROVE FALSE
  OBVIOUS
<1>1. Nat \ S \in SUBSET Nat /\ Nat \ S # {}
  OBVIOUS
<1>2. PICK x \in Nat \ S : \A y \in Nat \ S : x <= y
  BY <1>1, LeastElement
<1>3. x - 1 \in S
  BY <1>2
<1>4. x - 1 + 1 = x
  BY <1>2
<1> QED
  BY <1>3, <1>4

Iterates(it, U, G, b) == it \in [Nat -> U] /\ it[0] = b /\ \A n \in Nat : it[n + 1] = G[it[n]]
Monotone(G, V) == \A B, C \in SUBSET V : B \subseteq C => G[B] \subseteq G[C]
IsLeast(B, G, V) == G[B] = B /\ \A C \in SUBSET V : G[C] \subseteq C => B \subseteq C

(* A function may be defined by recursion: its parts on 0 .. n exist, and   *)
(* agree with each other.                                                  *)
LEMMA Iteration ==
  ASSUME NEW U, NEW G \in [U -> U], NEW b \in U
  PROVE  \E f : Iterates(f, U, G, b)
<1> DEFINE IsPart(f, n) == f[0] = b /\ \A k \in Nat : k + 1 <= n => f[k + 1] = G[f[k]]
           Part(n) == {f \in [Nat -> U] : IsPart(f, n)}
           S == {n \in Nat : \E f \in Part(n) : TRUE}
           A == {k \in Nat : \A n, m \in Nat : \A f \in Part(n), g \in Part(m) : k <= n /\ k <= m => f[k] = g[k]}
<1>1. 0 \in S
  <2>1. [k \in Nat |-> b] \in Part(0)
    OBVIOUS
  <2> QED
    BY <2>1
<1>2. ASSUME NEW n \in S PROVE n + 1 \in S
  <2>1. PICK f \in Part(n) : TRUE
    OBVIOUS
  <2> DEFINE h == [k \in Nat |-> IF k <= n THEN f[k] ELSE G[f[n]]]
  <2>2. h \in [Nat -> U]
    BY <2>1
  <2>3. h[0] = b
    BY <2>1
  <2>4. ASSUME NEW k \in Nat, k + 1 <= n + 1 PROVE h[k + 1] = G[h[k]]
    <3>1. CASE k + 1 <= n
      BY <3>1, <2>1
    <3>2. CASE k = n
      BY <3>2, <2>1
    <3> QED
      BY <2>4, <3>1, <3>2
  <2>5. h \in Part(n + 1)
    BY <2>2, <2>3, <2>4
  <2> QED
    BY <2>5
<1>3. S = Nat
  <2> HIDE DEF S
  <2>1. S \in SUBSET Nat
    BY DEF S
  <2> QED
    BY <1>1, <1>2, <2>1, Induction
<1>4. A = Nat
  <2>1. A \in SUBSET Nat /\ 0 \in A
    OBVIOUS
  <2>2. ASSUME NEW k \in A PROVE k + 1 \in A
    <3>1. ASSUME NEW n \in Nat, NEW m \in Nat, NEW f \in Part(n), NEW g \in Part(m), k + 1 <= n, k + 1 <= m
          PROVE  f[k + 1] = g[k + 1]
      <4>1. k \in Nat /\ k <= n /\ k <= m
        BY <3>1
      <4>2. f[k] = g[k]
        <5> HIDE DEF Part
        <5> QED
          BY <4>1
      <4>3. f[k + 1] = G[f[k]] /\ g[k + 1] = G[g[k]]
        BY <3>1, <4>1
      <4> QED
        BY <4>2, <4>3
    <3> HIDE DEF Part
    <3> QED
      BY <3>1
  <2> HIDE DEF A
  <2> QED
    BY <2>1, <2>2, Induction
<1> DEFINE at(n) == CHOOSE f : f \in Part(n)
           F == [n \in Nat |-> at(n)[n]]
<1>5. \A n \in Nat : at(n) \in Part(n)
  BY <1>3
<1>6. F \in [Nat -> U]
  BY <1>5
<1>7. F[0] = b
  BY <1>5
<1>8. ASSUME NEW n \in Nat PROVE F[n + 1] = G[F[n]]
  <2>1. at(n + 1) \in Part(n + 1) /\ at(n) \in Part(n)
    <3> HIDE DEF Part, at
    <3> QED
      BY <1>5
  <2> HIDE DEF at
  <2>2. at(n + 1)[n + 1] = G[at(n + 1)[n]]
    BY <2>1
  <2>3. at(n + 1)[n] = at(n)[n]
    <3> HIDE DEF Part
    <3>1. n \in A
      <4> HIDE DEF A
      <4> QED
        BY <1>4
    <3>2. n + 1 \in Nat /\ n <= n + 1 /\ n <= n
      OBVIOUS
    <3> QED
      BY <2>1, <3>1, <3>2
  <2> QED
    BY <2>2, <2>3
<1> QED
  BY <1>6, <1>7, <1>8 DEF Iterates

LEMMA Strictly == \A a, b \in Nat : a <= b /\ b # a => a < b
OBVIOUS

(* The iteration of a monotone function of finite sets reaches the least   *)
(* set that it does not extend, in as many steps as there are elements.    *)
LEMMA LeastFixpoint ==
  ASSUME NEW V, IsFiniteSet(V), NEW G \in [SUBSET V -> SUBSET V], Monotone(G, V),
         NEW it, Iterates(it, SUBSET V, G, {})
  PROVE  IsLeast(it[Cardinality(V) + 1], G, V)
<1>0. /\ it \in [Nat -> SUBSET V] /\ it[0] = {} /\ \A n \in Nat : it[n + 1] = G[it[n]]
      /\ \A B, C \in SUBSET V : B \subseteq C => G[B] \subseteq G[C]
  BY DEF Iterates, Monotone
<1> DEFINE Grows == {n \in Nat : it[n] \subseteq it[n + 1]}
           Large == {n \in Nat : it[n + 1] = it[n] \/ Cardinality(it[n]) >= n}
<1>1. Grows = Nat
  <2>1. Grows \in SUBSET Nat /\ 0 \in Grows
    BY <1>0
  <2>2. ASSUME NEW n \in Grows PROVE n + 1 \in Grows
    BY <1>0
  <2> HIDE DEF Grows
  <2> QED
    BY <2>1, <2>2, Induction
<1>2. \A n \in Nat : IsFiniteSet(it[n]) /\ Cardinality(it[n]) \in Nat /\ Cardinality(it[n]) <= Cardinality(V)
  BY <1>0, FS_Subset, FS_CardinalityType
<1>3. Large = Nat
  <2>1. Large \in SUBSET Nat /\ 0 \in Large
    BY <1>0, <1>2
  <2>2. ASSUME NEW n \in Large PROVE n + 1 \in Large
    <3>1. CASE it[n + 1] = it[n]
      BY <1>0, <3>1
    <3>2. CASE it[n + 1] # it[n]
      <4>1. it[n] \in SUBSET it[n + 1] /\ it[n] # it[n + 1] /\ IsFiniteSet(it[n + 1])
        <5>1. n \in Nat /\ n + 1 \in Nat /\ n \in Grows
          <6> HIDE DEF Grows
          <6> QED
            BY <1>1
        <5>2. it[n] \subseteq it[n + 1] /\ IsFiniteSet(it[n + 1])
          BY <5>1, <1>2
        <5> QED
          BY <5>2, <3>2
      <4>2. Cardinality(it[n]) < Cardinality(it[n + 1])
        <5> DEFINE big == it[n + 1]
                   small == it[n]
        <5>1. IsFiniteSet(big) /\ small \in SUBSET big /\ small # big
          BY <4>1
        <5>3. Cardinality(small) \in Nat /\ Cardinality(big) \in Nat
          BY <1>2
        <5> HIDE DEF big, small
        <5>2. Cardinality(small) <= Cardinality(big) /\ Cardinality(big) # Cardinality(small)
          BY <5>1, FS_Subset
        <5>4. Cardinality(small) < Cardinality(big)
          BY <5>2, <5>3, Strictly
        <5> QED
          BY <5>4 DEF big, small
      <4>3. Cardinality(it[n]) >= n
        BY <3>2
      <4> QED
        BY <1>2, <4>2, <4>3
    <3> QED
      BY <3>1, <3>2
  <2> HIDE DEF Large
  <2> QED
    BY <2>1, <2>2, Induction
<1>4. G[it[Cardinality(V) + 1]] = it[Cardinality(V) + 1]
  <2> DEFINE n == Cardinality(V) + 1
  <2>1. Cardinality(V) \in Nat /\ n \in Nat
    BY FS_CardinalityType
  <2>2. ~(Cardinality(it[n]) >= n)
    BY <2>1, <1>2
  <2>3. it[n + 1] = it[n]
    BY <2>1, <2>2, <1>3
  <2> QED
    BY <1>0, <2>1, <2>3
<1>5. ASSUME NEW C \in SUBSET V, G[C] \subseteq C PROVE \A n \in Nat : it[n] \subseteq C
  <2> DEFINE Below == {n \in Nat : it[n] \subseteq C}
  <2>1. Below \in SUBSET Nat /\ 0 \in Below
    BY <1>0
  <2>2. ASSUME NEW n \in Below PROVE n + 1 \in Below
    BY <1>0, <1>5
  <2> HIDE DEF Below
  <2>3. Below = Nat
    BY <2>1, <2>2, Induction
  <2> QED
    BY <2>3 DEF Below
<1>6. Cardinality(V) + 1 \in Nat
  BY FS_CardinalityType
<1> QED
  BY <1>4, <1>5, <1>6 DEF IsLeast

------------------------------------------------------------------------------
(* A set listed in some order: every element once. *)
LEMMA Listed ==
  ASSUME NEW S, NEW s \in SetToSeqs(S), IsFiniteSet(S)
  PROVE  IsInjective(s) /\ ToSet(s) = S
<1> DEFINE D == 1 .. Cardinality(S)
<1>1. Cardinality(S) \in Nat
  BY FS_CardinalityType
<1>2. s \in [D -> S] /\ IsInjective(s)
  BY <1>1 DEF SetToSeqs, IsInjective
<1>3. Cardinality(D) = Cardinality(S)
  BY <1>1, FS_Interval
<1>4. s \in Injection(D, S)
  BY <1>2 DEF Injection, IsInjective
<1>5. s \in Surjection(D, S)
  <2> HIDE DEF D
  <2> QED
    BY <1>3, <1>4, FS_Injection
<1>6. \A x \in S : \E i \in D : s[i] = x
  BY <1>5 DEF Surjection
<1> QED
  BY <1>2, <1>6 DEF ToSet

(* Front and RemoveAt, element by element. *)
LEMMA FrontOf ==
  ASSUME NEW S, NEW s \in Seq(S), s # <<>>
  PROVE  /\ Front(s) \in Seq(S) /\ Len(Front(s)) = Len(s) - 1
         /\ \A i \in 1 .. Len(s) - 1 : Front(s)[i] = s[i]
<1> DEFINE n == Len(s) - 1
           front == SubSeq(s, 1, n)
<1>1. n \in Nat /\ \A i \in 1 .. n : s[i] \in S
  BY EmptySeq, ElementOfSeq
<1> HIDE DEF n
<1>2. /\ front \in Seq(S)
      /\ Len(front) = IF 1 <= n THEN n - 1 + 1 ELSE 0
      /\ \A i \in 1 .. n - 1 + 1 : front[i] = s[1 + i - 1]
  BY <1>1, SubSeqProperties
<1> HIDE DEF front
<1>3. front \in Seq(S) /\ Len(front) = n /\ \A i \in 1 .. n : front[i] = s[i]
  BY <1>1, <1>2
<1> QED
  BY <1>3 DEF Front, front, n

LEMMA RemovedAt ==
  ASSUME NEW S, NEW s \in Seq(S), NEW i \in 1 .. Len(s)
  PROVE  /\ RemoveAt(s, i) \in Seq(S) /\ Len(RemoveAt(s, i)) = Len(s) - 1
         /\ \A j \in 1 .. Len(s) - 1 : RemoveAt(s, i)[j] = IF j < i THEN s[j] ELSE s[j + 1]
<1> DEFINE a == SubSeq(s, 1, i - 1)
           b == SubSeq(s, i + 1, Len(s))
           rest == RemoveAt(s, i)
<1>1. Len(s) \in Nat /\ \A k \in 1 .. Len(s) : s[k] \in S
  BY ElementOfSeq, LenProperties
<1>2. a \in Seq(S) /\ Len(a) = i - 1 /\ \A j \in 1 .. i - 1 : a[j] = s[j]
  <2>1. /\ a \in Seq(S) /\ Len(a) = IF 1 <= i - 1 THEN i - 1 - 1 + 1 ELSE 0
        /\ \A j \in 1 .. i - 1 - 1 + 1 : a[j] = s[1 + j - 1]
    BY <1>1, SubSeqProperties
  <2> QED
    BY <1>1, <2>1
<1>3. b \in Seq(S) /\ Len(b) = Len(s) - i /\ \A j \in 1 .. Len(s) - i : b[j] = s[i + j]
  <2>1. /\ b \in Seq(S) /\ Len(b) = IF i + 1 <= Len(s) THEN Len(s) - (i + 1) + 1 ELSE 0
        /\ \A j \in 1 .. Len(s) - (i + 1) + 1 : b[j] = s[i + 1 + j - 1]
    BY <1>1, SubSeqProperties
  <2> QED
    BY <1>1, <2>1
<1>4. rest = a \o b
  BY DEF RemoveAt
<1> HIDE DEF a, b, rest
<1>5. /\ rest \in Seq(S) /\ Len(rest) = Len(a) + Len(b)
      /\ \A j \in 1 .. Len(a) + Len(b) : rest[j] = IF j <= Len(a) THEN a[j] ELSE b[j - Len(a)]
  BY <1>2, <1>3, <1>4, ConcatProperties
<1>6. Len(rest) = Len(s) - 1
  BY <1>1, <1>2, <1>3, <1>5
<1>7. ASSUME NEW j \in 1 .. Len(s) - 1
      PROVE  rest[j] = IF j < i THEN s[j] ELSE s[j + 1]
  <2>1. CASE j < i
    <3>1. j \in 1 .. Len(a) + Len(b) /\ j <= Len(a) /\ j \in 1 .. i - 1
      BY <1>1, <1>2, <1>3, <2>1
    <3>2. rest[j] = a[j] /\ a[j] = s[j]
      BY <1>2, <1>5, <3>1
    <3> QED
      BY <2>1, <3>2
  <2>2. CASE ~(j < i)
    <3> DEFINE m == j - (i - 1)
    <3>1. m \in 1 .. Len(s) - i /\ i + m = j + 1
      BY <1>1, <2>2
    <3>2. rest[j] = b[m]
      BY <1>1, <1>2, <1>3, <1>5, <2>2
    <3> HIDE DEF m
    <3>3. b[m] = s[i + m]
      BY <3>1, <1>3
    <3> QED
      BY <2>2, <3>1, <3>2, <3>3
  <2> QED
    BY <2>1, <2>2
<1> QED
  BY <1>5, <1>6, <1>7 DEF rest

LEMMA Elements ==
  ASSUME NEW S, NEW s \in Seq(S)
  PROVE  /\ DOMAIN s = 1 .. Len(s) /\ Len(s) \in Nat /\ ToSet(s) \subseteq S
         /\ ToSet(s) = {s[i] : i \in 1 .. Len(s)}
<1>1. DOMAIN s = 1 .. Len(s) /\ Len(s) \in Nat /\ \A i \in 1 .. Len(s) : s[i] \in S
  BY LenProperties, ElementOfSeq
<1> QED
  BY <1>1 DEF ToSet

(* Taking an element out of a sequence without repetition takes it out of the set. *)
LEMMA TakenAt ==
  ASSUME NEW S, NEW s \in Seq(S), IsInjective(s), NEW i \in 1 .. Len(s)
  PROVE  IsInjective(RemoveAt(s, i)) /\ ToSet(RemoveAt(s, i)) = ToSet(s) \ {s[i]}
<1>1. PICK rest : rest = RemoveAt(s, i)
  OBVIOUS
<1>2. PICK n : n = Len(s)
  OBVIOUS
<1>3. n \in Nat /\ DOMAIN s = 1 .. n /\ DOMAIN rest = 1 .. n - 1 /\ i \in 1 .. n
  BY <1>1, <1>2, RemovedAt, Elements
<1>4. \A j \in 1 .. n - 1 : rest[j] = IF j < i THEN s[j] ELSE s[j + 1]
  BY <1>1, <1>2, RemovedAt
<1>5. \A j, k \in 1 .. n : s[j] = s[k] => j = k
  BY <1>3 DEF IsInjective
<1>6. IsInjective(rest)
  <2> SUFFICES ASSUME NEW j \in 1 .. n - 1, NEW k \in 1 .. n - 1, rest[j] = rest[k] PROVE j = k
    BY <1>3 DEF IsInjective
  <2>1. j \in 1 .. n /\ j + 1 \in 1 .. n /\ k \in 1 .. n /\ k + 1 \in 1 .. n
    BY <1>3
  <2>2. CASE j < i /\ k < i
    BY <1>4, <1>5, <2>1, <2>2
  <2>3. CASE j < i /\ ~(k < i)
    BY <1>3, <1>4, <1>5, <2>1, <2>3
  <2>4. CASE ~(j < i) /\ k < i
    BY <1>3, <1>4, <1>5, <2>1, <2>4
  <2>5. CASE ~(j < i) /\ ~(k < i)
    <3>1. j + 1 = k + 1
      BY <1>4, <1>5, <2>1, <2>5
    <3> QED
      BY <3>1
  <2> QED
    BY <2>2, <2>3, <2>4, <2>5
<1>7. ASSUME NEW x \in ToSet(rest) PROVE x \in ToSet(s) \ {s[i]}
  <2>1. PICK j \in 1 .. n - 1 : x = rest[j]
    BY <1>3 DEF ToSet
  <2>2. PICK k \in 1 .. n : x = s[k] /\ k # i
    <3>1. CASE j < i
      BY <1>3, <1>4, <2>1, <3>1
    <3>2. CASE ~(j < i)
      <4>1. j + 1 \in 1 .. n /\ j + 1 # i /\ x = s[j + 1]
        BY <1>3, <1>4, <2>1, <3>2
      <4> QED
        BY <4>1
    <3> QED
      BY <3>1, <3>2
  <2> QED
    BY <1>3, <1>5, <2>2 DEF ToSet
<1>8. ASSUME NEW x \in ToSet(s) \ {s[i]} PROVE x \in ToSet(rest)
  <2>1. PICK k \in 1 .. n : x = s[k] /\ k # i
    BY <1>3 DEF ToSet
  <2>2. CASE k < i
    <3>1. k \in 1 .. n - 1 /\ rest[k] = x
      BY <1>3, <1>4, <2>1, <2>2
    <3> QED
      BY <1>3, <3>1 DEF ToSet
  <2>3. CASE k > i
    <3>1. k - 1 \in 1 .. n - 1 /\ ~(k - 1 < i) /\ k - 1 + 1 = k
      BY <1>3, <2>3
    <3>2. rest[k - 1] = x
      BY <1>4, <2>1, <3>1
    <3> QED
      BY <1>3, <3>1, <3>2 DEF ToSet
  <2> QED
    BY <1>3, <2>1, <2>2, <2>3
<1> QED
  BY <1>1, <1>6, <1>7, <1>8

LEMMA TakenLast ==
  ASSUME NEW S, NEW s \in Seq(S), IsInjective(s), s # <<>>
  PROVE  /\ IsInjective(Front(s)) /\ ToSet(Front(s)) = ToSet(s) \ {s[Len(s)]}
         /\ s[Len(s)] \in ToSet(s)
<1>1. PICK rest : rest = Front(s)
  OBVIOUS
<1>2. PICK n : n = Len(s)
  OBVIOUS
<1>3. n \in Nat \ {0} /\ DOMAIN s = 1 .. n /\ DOMAIN rest = 1 .. n - 1
  BY <1>1, <1>2, FrontOf, Elements, EmptySeq
<1>4. \A j \in 1 .. n - 1 : rest[j] = s[j]
  BY <1>1, <1>2, FrontOf
<1>5. \A j, k \in 1 .. n : s[j] = s[k] => j = k
  BY <1>3 DEF IsInjective
<1>6. IsInjective(rest)
  BY <1>3, <1>4, <1>5 DEF IsInjective
<1>7. ToSet(rest) = ToSet(s) \ {s[n]}
  BY <1>3, <1>4, <1>5 DEF ToSet
<1>8. s[n] \in ToSet(s)
  BY <1>3 DEF ToSet
<1> QED
  BY <1>1, <1>2, <1>6, <1>7, <1>8

LEMMA Concatenated ==
  ASSUME NEW S, NEW a \in Seq(S), NEW b \in Seq(S), IsInjective(a), IsInjective(b), ToSet(a) \cap ToSet(b) = {}
  PROVE  IsInjective(a \o b) /\ ToSet(a \o b) = ToSet(a) \cup ToSet(b)
<1>1. PICK c : c = a \o b
  OBVIOUS
<1>2. PICK m, n : m = Len(a) /\ n = Len(b)
  OBVIOUS
<1>3. /\ m \in Nat /\ n \in Nat /\ DOMAIN a = 1 .. m /\ DOMAIN b = 1 .. n /\ DOMAIN c = 1 .. m + n
      /\ \A j \in 1 .. m + n : c[j] = IF j <= m THEN a[j] ELSE b[j - m]
  <2>1. c \in Seq(S) /\ Len(c) = Len(a) + Len(b) /\ \A j \in 1 .. Len(a) + Len(b) : c[j] = IF j <= Len(a) THEN a[j] ELSE b[j - Len(a)]
    BY <1>1, ConcatProperties
  <2> QED
    BY <1>2, <2>1, Elements
<1>4. \A j \in 1 .. m : j \in 1 .. m + n /\ c[j] = a[j] /\ a[j] \in ToSet(a)
  BY <1>3 DEF ToSet
<1>5. \A j \in 1 .. n : m + j \in 1 .. m + n /\ c[m + j] = b[j] /\ b[j] \in ToSet(b)
  <2> SUFFICES ASSUME NEW j \in 1 .. n PROVE m + j \in 1 .. m + n /\ c[m + j] = b[j] /\ b[j] \in ToSet(b)
    OBVIOUS
  <2>1. m + j \in 1 .. m + n /\ ~(m + j <= m) /\ m + j - m = j
    BY <1>3
  <2>2. c[m + j] = b[m + j - m]
    BY <1>3, <2>1
  <2> QED
    BY <1>3, <2>1, <2>2 DEF ToSet
<1>6. \A j \in 1 .. m + n : j \in 1 .. m \/ \E k \in 1 .. n : j = m + k
  <2> SUFFICES ASSUME NEW j \in 1 .. m + n, ~(j \in 1 .. m) PROVE \E k \in 1 .. n : j = m + k
    OBVIOUS
  <2>1. j - m \in 1 .. n /\ j = m + (j - m)
    BY <1>3
  <2> QED
    BY <2>1
<1>7. IsInjective(c)
  <2> SUFFICES ASSUME NEW i \in 1 .. m + n, NEW j \in 1 .. m + n, c[i] = c[j] PROVE i = j
    BY <1>3 DEF IsInjective
  <2>1. CASE i \in 1 .. m /\ j \in 1 .. m
    BY <1>3, <1>4, <2>1 DEF IsInjective
  <2>2. CASE i \in 1 .. m /\ ~(j \in 1 .. m)
    BY <1>4, <1>5, <1>6, <2>2
  <2>3. CASE ~(i \in 1 .. m) /\ j \in 1 .. m
    BY <1>4, <1>5, <1>6, <2>3
  <2>4. CASE ~(i \in 1 .. m) /\ ~(j \in 1 .. m)
    <3>1. PICK k \in 1 .. n, l \in 1 .. n : i = m + k /\ j = m + l
      BY <1>6, <2>4
    <3>2. b[k] = b[l]
      BY <1>5, <3>1
    <3> QED
      BY <1>3, <3>1, <3>2 DEF IsInjective
  <2> QED
    BY <2>1, <2>2, <2>3, <2>4
<1>8. ToSet(c) = ToSet(a) \cup ToSet(b)
  <2>1. ToSet(c) \subseteq ToSet(a) \cup ToSet(b)
    <3> SUFFICES ASSUME NEW j \in 1 .. m + n PROVE c[j] \in ToSet(a) \cup ToSet(b)
      BY <1>3 DEF ToSet
    <3> QED
      BY <1>4, <1>5, <1>6
  <2>2. ToSet(a) \subseteq ToSet(c)
    BY <1>3, <1>4 DEF ToSet
  <2>3. ToSet(b) \subseteq ToSet(c)
    <3> SUFFICES ASSUME NEW j \in 1 .. n PROVE b[j] \in ToSet(c)
      BY <1>3 DEF ToSet
    <3> QED
      BY <1>3, <1>5 DEF ToSet
  <2> QED
    BY <2>1, <2>2, <2>3
<1> QED
  BY <1>1, <1>7, <1>8

LEMMA Appended ==
  ASSUME NEW S, NEW s \in Seq(S), IsInjective(s), NEW e \in S, e \notin ToSet(s)
  PROVE  IsInjective(Append(s, e)) /\ ToSet(Append(s, e)) = ToSet(s) \cup {e}
<1>1. PICK c : c = Append(s, e)
  OBVIOUS
<1>2. PICK n : n = Len(s)
  OBVIOUS
<1>3. c \in Seq(S) /\ Len(c) = n + 1 /\ c[n + 1] = e /\ \A j \in 1 .. n : c[j] = s[j]
  BY <1>1, <1>2, AppendProperties
<1>4. n \in Nat /\ DOMAIN s = 1 .. n /\ DOMAIN c = 1 .. n + 1
  BY <1>2, <1>3, Elements
<1>5. \A j \in 1 .. n : s[j] # e
  BY <1>4 DEF ToSet
<1>6. IsInjective(c)
  BY <1>3, <1>4, <1>5 DEF IsInjective
<1>7. ToSet(c) = ToSet(s) \cup {e}
  BY <1>3, <1>4 DEF ToSet
<1> QED
  BY <1>1, <1>6, <1>7

------------------------------------------------------------------------------
(* The occurrences a literal may wait for are finitely many. *)
LEMMA ImageFinite ==
  ASSUME NEW S, NEW T, IsFiniteSet(S), NEW f \in [S -> T], \A t \in T : \E s \in S : f[s] = t
  PROVE  IsFiniteSet(T)
<1>1. f \in Surjection(S, T)
  BY DEF Surjection
<1> QED
  BY <1>1, FS_Surjection

LEMMA InsideFinite ==
  ASSUME stm \in Statements, NEW l \in DOMAIN stm
  PROVE  IsFiniteSet(Inside(l))
<1> DEFINE occ(k, i) == {<<o, k, i>> : o \in stm[l].inner[k][i].occurs}
           in(k) == UNION {occ(k, i) : i \in DOMAIN stm[l].inner[k]}
<1>1. ASSUME NEW k \in DOMAIN stm[l].inner, NEW i \in DOMAIN stm[l].inner[k]
      PROVE  IsFiniteSet(occ(k, i))
  <2>1. IsFiniteSet(stm[l].inner[k][i].occurs)
    BY LitDepAssumption
  <2> DEFINE f == [o \in stm[l].inner[k][i].occurs |-> <<o, k, i>>]
  <2>2. f \in [stm[l].inner[k][i].occurs -> occ(k, i)] /\ \A t \in occ(k, i) : \E s \in stm[l].inner[k][i].occurs : f[s] = t
    OBVIOUS
  <2> HIDE DEF f, occ
  <2> QED
    BY <2>1, <2>2, ImageFinite
<1> HIDE DEF occ
<1>2. ASSUME NEW k \in DOMAIN stm[l].inner
      PROVE  IsFiniteSet(in(k))
  <2> DEFINE D == DOMAIN stm[l].inner[k]
             f == [i \in D |-> occ(k, i)]
             T == {occ(k, i) : i \in D}
  <2>1. IsFiniteSet(D)
    <3>1. D = 1 .. Len(stm[l].inner[k]) /\ Len(stm[l].inner[k]) \in Int
      BY LitDepAssumption
    <3> QED
      BY <3>1, FS_Interval
  <2>2. f \in [D -> T] /\ \A t \in T : \E i \in D : f[i] = t
    OBVIOUS
  <2>4. \A t \in T : IsFiniteSet(t)
    BY <1>1
  <2>5. in(k) = UNION T
    OBVIOUS
  <2> HIDE DEF D, f, T, in
  <2>3. IsFiniteSet(T)
    BY <2>1, <2>2, ImageFinite
  <2> QED
    BY <2>3, <2>4, <2>5, FS_UNION
<1> HIDE DEF in
<1> DEFINE D == DOMAIN stm[l].inner
           f == [k \in D |-> in(k)]
           T == {in(k) : k \in D}
<1>3. IsFiniteSet(D)
  BY LitDepAssumption
<1>4. f \in [D -> T] /\ \A t \in T : \E k \in D : f[k] = t
  OBVIOUS
<1>6. \A t \in T : IsFiniteSet(t)
  BY <1>2
<1>7. Inside(l) = UNION T
  BY DEF Inside, in, occ
<1> HIDE DEF D, f, T
<1>5. IsFiniteSet(T)
  BY <1>3, <1>4, ImageFinite
<1> QED
  BY <1>5, <1>6, <1>7, FS_UNION

LEMMA WaitsFinite ==
  ASSUME stm \in Statements, NEW f \in Formulas, NEW l \in DOMAIN LitsOf(f)
  PROVE  IsFiniteSet(Waits(f, l))
<1>1. IsFiniteSet(LitsOf(f)[l].occurs)
  BY LitDepAssumption DEF LitsOf, Formulas, Outer
<1>2. IsFiniteSet(Own(f, l))
  <2> DEFINE S == LitsOf(f)[l].occurs
             g == [o \in S |-> <<o, 0, 0>>]
  <2>1. g \in [S -> Own(f, l)] /\ \A t \in Own(f, l) : \E s \in S : g[s] = t
    BY DEF Own
  <2>2. IsFiniteSet(S)
    BY <1>1
  <2> HIDE DEF g, S
  <2> QED
    BY <2>1, <2>2, ImageFinite
<1>3. CASE f = Outer
  <2>1. l \in DOMAIN stm
    BY <1>3 DEF LitsOf
  <2>2. IsFiniteSet(Own(f, l) \cup Inside(l))
    BY <1>2, <2>1, InsideFinite, FS_Union
  <2>3. Waits(f, l) \in SUBSET (Own(f, l) \cup Inside(l))
    BY DEF Waits
  <2> QED
    BY <2>2, <2>3, FS_Subset
<1>4. CASE f # Outer
  <2>1. Waits(f, l) \in SUBSET Own(f, l)
    BY <1>4 DEF Waits
  <2> QED
    BY <1>2, <2>1, FS_Subset
<1> QED
  BY <1>3, <1>4

LEMMA LitsFinite ==
  ASSUME stm \in Statements, NEW f \in Formulas
  PROVE  IsFiniteSet(DOMAIN LitsOf(f))
<1>1. DOMAIN LitsOf(f) = 1 .. Len(LitsOf(f)) /\ Len(LitsOf(f)) \in Int
  BY LitDepAssumption DEF LitsOf, Formulas, Outer
<1> QED
  BY <1>1, FS_Interval

LEMMA OccurringFinite ==
  ASSUME NEW lits, IsFiniteSet(DOMAIN lits), \A l \in DOMAIN lits : IsFiniteSet(lits[l].occurs)
  PROVE  IsFiniteSet(Occurring(lits))
<1> DEFINE D == DOMAIN lits
           F == {lits[l].occurs : l \in D}
           f == [l \in D |-> lits[l].occurs]
           g == [o \in UNION F |-> o.name]
<1>1. IsFiniteSet(F)
  <2>1. f \in [D -> F] /\ \A t \in F : \E l \in D : f[l] = t
    OBVIOUS
  <2> HIDE DEF F, f
  <2> QED
    BY <2>1, ImageFinite
<1>2. IsFiniteSet(UNION F)
  <2>1. \A t \in F : IsFiniteSet(t)
    OBVIOUS
  <2> HIDE DEF F
  <2> QED
    BY <1>1, <2>1, FS_UNION
<1>3. g \in [UNION F -> Occurring(lits)] /\ \A t \in Occurring(lits) : \E o \in UNION F : g[o] = t
  BY DEF Occurring
<1> HIDE DEF F, g
<1> QED
  BY <1>2, <1>3, ImageFinite

LEMMA VarsFinite ==
  ASSUME stm \in Statements, NEW f \in Formulas
  PROVE  IsFiniteSet(VarsOf(f))
<1> DEFINE lits == LitsOf(f)
<1>1. DOMAIN lits = 1 .. Len(lits) /\ Len(lits) \in Int
  BY LitDepAssumption DEF LitsOf, Formulas, Outer
<1>2. \A l \in DOMAIN lits : IsFiniteSet(lits[l].occurs)
  BY LitDepAssumption DEF LitsOf, Formulas, Outer
<1>3. VarsOf(f) \in SUBSET Occurring(lits)
  BY DEF VarsOf, LitsOf
<1> HIDE DEF lits
<1>4. IsFiniteSet(DOMAIN lits)
  BY <1>1, FS_Interval
<1>5. IsFiniteSet(Occurring(lits))
  BY <1>2, <1>4, OccurringFinite
<1> QED
  BY <1>3, <1>5, FS_Subset

(* Bindable is the least set of variables that is closed under the binding *)
(* of literals that wait for nothing else.                                 *)
LEMMA BindableIsLeast ==
  ASSUME stm \in Statements, NEW f \in Formulas
  PROVE  /\ Bindable(f) \subseteq VarsOf(f)
         /\ Step(f, Bindable(f)) \subseteq Bindable(f)
         /\ \A C \in SUBSET VarsOf(f) : Step(f, C) \subseteq C => Bindable(f) \subseteq C
<1> DEFINE V == VarsOf(f)
           U == SUBSET V
           G == [B \in U |-> Step(f, B)]
           IsIt(s) == s = [n \in Nat |->
                            IF n = 0 THEN {}
                            ELSE LET before == s[n - 1]
                                 IN UNION {Binds(f, l) : l \in {k \in DOMAIN LitsOf(f) : WaitsFor(f, k) \subseteq before}}]
           set == CHOOSE s : IsIt(s)
<1>1. G \in [U -> U] /\ {} \in U /\ \A B : Step(f, B) \in U
  BY DEF Step, Binds
<1>2. \E s : IsIt(s)
  <2>0. PICK it : Iterates(it, U, G, {})
    <3> HIDE DEF G, U
    <3> QED
      BY <1>1, Iteration
  <2>1. it \in [Nat -> U] /\ it[0] = {} /\ \A n \in Nat : it[n + 1] = G[it[n]]
    BY <2>0 DEF Iterates
  <2>2. ASSUME NEW n \in Nat, n # 0 PROVE it[n] = Step(f, it[n - 1])
    <3>1. n - 1 \in Nat /\ n - 1 + 1 = n
      BY <2>2
    <3>2. it[n - 1 + 1] = G[it[n - 1]] /\ it[n - 1] \in U
      BY <2>1, <3>1
    <3>3. G[it[n - 1]] = Step(f, it[n - 1])
      BY <3>2
    <3> HIDE DEF G
    <3> QED
      BY <3>1, <3>2, <3>3
  <2>3. it = [n \in Nat |-> it[n]]
    BY <2>1
  <2>4. it = [n \in Nat |-> IF n = 0 THEN {} ELSE Step(f, it[n - 1])]
    BY <2>1, <2>2, <2>3
  <2>5. IsIt(it)
    BY <2>4 DEF Step
  <2> QED
    BY <2>5
<1>3. IsIt(set)
  BY <1>2
<1>4. Bindable(f) = set[Cardinality(V) + 1]
  BY DEF Bindable
<1> HIDE DEF set
<1>5. set = [n \in Nat |-> IF n = 0 THEN {} ELSE Step(f, set[n - 1])]
  BY <1>3 DEF Step
<1>6. set[0] = {} /\ \A n \in Nat : set[n + 1] = Step(f, set[n])
  <2>1. ASSUME NEW n \in Nat PROVE set[n + 1] = Step(f, set[n])
    <3>1. n + 1 \in Nat /\ n + 1 # 0 /\ n + 1 - 1 = n
      OBVIOUS
    <3>2. set[n + 1] = IF n + 1 = 0 THEN {} ELSE Step(f, set[n + 1 - 1])
      BY <1>5, <3>1
    <3> QED
      BY <3>1, <3>2
  <2> QED
    BY <1>5, <2>1
<1>7. set \in [Nat -> U]
  <2>1. \A n \in Nat : (IF n = 0 THEN {} ELSE Step(f, set[n - 1])) \in U
    <3> HIDE DEF U
    <3> QED
      BY <1>1
  <2> DEFINE h == [n \in Nat |-> IF n = 0 THEN {} ELSE Step(f, set[n - 1])]
  <2>2. h \in [Nat -> U]
    <3> HIDE DEF U
    <3> QED
      BY <2>1
  <2>3. set = h
    BY <1>5
  <2> HIDE DEF h
  <2> QED
    BY <2>2, <2>3
<1>8. \A n \in Nat : set[n + 1] = G[set[n]]
  BY <1>6, <1>7
<1>9. \A B, C \in U : B \subseteq C => G[B] \subseteq G[C]
  BY DEF Step
<1>10. IsFiniteSet(V)
  BY VarsFinite
<1>11. Iterates(set, U, G, {}) /\ Monotone(G, V)
  BY <1>6, <1>7, <1>8, <1>9 DEF Iterates, Monotone
<1>12. IsLeast(Bindable(f), G, V)
  <2> HIDE DEF G, V
  <2> QED
    BY <1>1, <1>4, <1>10, <1>11, LeastFixpoint
<1>13. Bindable(f) \in U
  <2>1. Cardinality(V) + 1 \in Nat
    BY <1>10, FS_CardinalityType
  <2> QED
    BY <1>4, <1>7, <2>1
<1>14. Step(f, Bindable(f)) \subseteq Bindable(f)
  BY <1>12, <1>13 DEF IsLeast
<1>15. \A C \in U : Step(f, C) \subseteq C => Bindable(f) \subseteq C
  BY <1>12 DEF IsLeast
<1> QED
  BY <1>13, <1>14, <1>15

(* Telling a literal of the news takes as many from its count as it waits for them. *)
LEMMA CountTold ==
  ASSUME NEW W, IsFiniteSet(W), NEW B, NEW N
  PROVE  /\ Cardinality(Unbound(W, B \cup N)) = Cardinality(Unbound(W, B)) - Cardinality(Bound(W, N \ B))
         /\ Cardinality(Unbound(W, B \cup N)) = 0 => Unbound(W, B \cup N) = {}
<1> DEFINE left == Unbound(W, B \cup N)
           before == Unbound(W, B)
           told == Bound(W, N \ B)
<1>1. IsFiniteSet(left) /\ IsFiniteSet(told)
  <2>1. left \in SUBSET W /\ told \in SUBSET W
    BY DEF Bound, Unbound
  <2> QED
    BY <2>1, FS_Subset
<1>2. before = left \cup told /\ left \cap told = {}
  BY DEF Bound, Unbound
<1> HIDE DEF left, before, told
<1>3. Cardinality(before) = Cardinality(left) + Cardinality(told) - Cardinality({})
  BY <1>1, <1>2, FS_Union
<1>4. Cardinality(left) \in Nat /\ Cardinality(told) \in Nat /\ Cardinality({}) = 0
  BY <1>1, FS_CardinalityType, FS_EmptySet
<1>5. Cardinality(left) = 0 => left = {}
  BY <1>1, FS_EmptySet
<1>6. Cardinality(left) = Cardinality(before) - Cardinality(told)
  BY <1>3, <1>4
<1> QED
  BY <1>5, <1>6 DEF left, before, told

(* A counter is zero exactly if all its literal waits for is bound. *)
LEMMA CountZero ==
  ASSUME NEW W, IsFiniteSet(W), NEW B
  PROVE  /\ Cardinality(Unbound(W, B)) \in Nat
         /\ Cardinality(Unbound(W, B)) = 0 <=> {Name(w) : w \in W} \subseteq B
<1>1. Unbound(W, B) \in SUBSET W /\ (Unbound(W, B) = {} <=> {Name(w) : w \in W} \subseteq B)
  BY DEF Unbound
<1>2. IsFiniteSet(Unbound(W, B))
  BY <1>1, FS_Subset
<1>3. Cardinality(Unbound(W, B)) = 0 <=> Unbound(W, B) = {}
  BY <1>2, FS_EmptySet
<1> QED
  BY <1>1, <1>2, <1>3, FS_CardinalityType

LEMMA Permuted ==
  ASSUME NEW S, NEW s \in SetToSeqs(S), IsFiniteSet(S)
  PROVE  s \in Seq(S)
<1>1. Cardinality(S) \in Nat
  BY FS_CardinalityType
<1> QED
  BY <1>1 DEF SetToSeqs

(* The operators depend on the statement alone. *)
LEMMA SameStatement ==
  ASSUME stm' = stm, NEW f
  PROVE  /\ Formulas' = Formulas
         /\ \A g : LitsOf(g)' = LitsOf(g) /\ VarsOf(g)' = VarsOf(g)
         /\ \A g, l : Waits(g, l)' = Waits(g, l) /\ WaitsFor(g, l)' = WaitsFor(g, l) /\ Binds(g, l)' = Binds(g, l)
BY DEF Formulas, LitsOf, VarsOf, Occurring, Waits, WaitsFor, Binds, Own, Inside, Name, Outer

LEMMA SameBindable ==
  ASSUME stm' = stm, NEW f
  PROVE  Bindable(f)' = Bindable(f)
BY SMT DEF Bindable, LitsOf, VarsOf, Occurring, Waits, WaitsFor, Binds, Own, Inside, Name, Outer

LEMMA SameVerdict ==
  ASSUME stm' = stm
  PROVE  /\ \A f : VarsOf(f)' = VarsOf(f) /\ Bindable(f)' = Bindable(f)
         /\ \A F : Refused(F)' = Refused(F)
<1>1. \A f : VarsOf(f)' = VarsOf(f)
  BY SameStatement
<1>2. \A f : Bindable(f)' = Bindable(f)
  BY SameBindable
<1> QED
  BY <1>1, <1>2 DEF Refused

------------------------------------------------------------------------------
(* A formula is begun with nothing bound: each literal counts all it waits for. *)
LEMMA BeginInv ==
  ASSUME Typed, stm' = stm, NEW f \in Formulas, Begin(f),
         phase' \in {"check", "order", "ordered", "unsafe"}, open' \subseteq Formulas
  PROVE  Inv'
<1> DEFINE L == LitsOf(f)
           ready == {l \in DOMAIN L : Waits(f, l) = {}}
<1>1. /\ Formulas' = Formulas /\ LitsOf(frm)' = L /\ VarsOf(frm)' = VarsOf(f)
      /\ \A l : Waits(frm, l)' = Waits(f, l)
      /\ \A l : WaitsFor(frm, l)' = WaitsFor(f, l)
  BY SameStatement DEF Begin
<1>2. IsFiniteSet(DOMAIN L)
  <2>1. stm \in Statements
    BY DEF Typed
  <2>2. DOMAIN L = 1 .. Len(L) /\ Len(L) \in Int
    BY <2>1, LitDepAssumption DEF LitsOf, Formulas, Outer
  <2> QED
    BY <2>2, FS_Interval
<1>3. IsFiniteSet(ready)
  BY <1>2, FS_Subset
<1>4. queue' \in Seq(ready)
  BY <1>3, Permuted DEF Begin, Ready
<1>5. queue' \in Seq(DOMAIN L) /\ \A i \in 1 .. Len(queue') : queue'[i] \in ready
  BY <1>4, SeqMonotonic, ElementOfSeq
<1>6. Typed'
  BY <1>1, <1>5 DEF Typed, Begin
<1>7. CountsExact'
  <2>1. \A l \in DOMAIN L : count'[l] = Cardinality(Waits(f, l))
    BY DEF Begin
  <2>2. \A l : {w \in Waits(f, l) : Name(w) \notin {}} = Waits(f, l)
    OBVIOUS
  <2>3. DOMAIN count' = DOMAIN L /\ bound' = {}
    BY DEF Begin
  <2> QED
    BY <1>1, <2>1, <2>2, <2>3 DEF CountsExact, Name
<1>8. QueueReady'
  BY <1>1, <1>5 DEF QueueReady, WaitsFor
<1>9. BoundByJoin' /\ JoinedAfter'
  <2>1. joined' = <<>> /\ bound' = {} /\ Len(joined') = 0
    BY DEF Begin
  <2> QED
    BY <2>1 DEF BoundByJoin, JoinedAfter, JoinedBinds
<1> QED
  BY <1>6, <1>7, <1>8, <1>9 DEF Inv

(* A literal that has been told all it waits for may enter the queue. *)
LEMMA PropagateInv ==
  ASSUME Inv, stm' = stm, frm' = frm, NEW l \in DOMAIN LitsOf(frm),
         NEW rest \in Seq(DOMAIN LitsOf(frm)), \A i \in 1 .. Len(rest) : WaitsFor(frm, rest[i]) \subseteq bound,
         Propagate(l, rest)
  PROVE  /\ CountsExact' /\ QueueReady'
         /\ DOMAIN count' = DOMAIN LitsOf(frm)' /\ queue' \in Seq(DOMAIN LitsOf(frm)') /\ bound' \subseteq VarsOf(frm)'
<1> DEFINE L == LitsOf(frm)
<1>1. /\ LitsOf(frm)' = L /\ VarsOf(frm)' = VarsOf(frm)
      /\ \A k : Waits(frm, k)' = Waits(frm, k)
      /\ \A k : WaitsFor(frm, k)' = WaitsFor(frm, k)
  BY SameStatement
<1>2. DOMAIN count = DOMAIN L /\ DOMAIN count' = DOMAIN L /\ count' = Told(l)
  BY DEF Inv, Typed, Propagate, Told
<1>3. bound' = bound \cup News(l) /\ bound' \subseteq VarsOf(frm)
  BY DEF Propagate, News, Inv, Typed, Binds
<1>4. ASSUME NEW k \in DOMAIN L
      PROVE  /\ count'[k] = Cardinality({w \in Waits(frm, k) : Name(w) \notin bound'})
             /\ count'[k] = 0 => WaitsFor(frm, k) \subseteq bound'
  <2>1. IsFiniteSet(Waits(frm, k))
    BY WaitsFinite DEF Inv, Typed
  <2>2. count[k] = Cardinality(Unbound(Waits(frm, k), bound))
    BY <1>2 DEF Inv, CountsExact, Unbound
  <2>3. count'[k] = count[k] - Cardinality(Bound(Waits(frm, k), News(l)))
    BY <1>2 DEF Told, Bound
  <2>4. News(l) \ bound = News(l)
    BY DEF News
  <2> DEFINE left == Unbound(Waits(frm, k), bound \cup News(l))
  <2>5. /\ Cardinality(left) = Cardinality(Unbound(Waits(frm, k), bound))
                               - Cardinality(Bound(Waits(frm, k), News(l) \ bound))
        /\ Cardinality(left) = 0 => left = {}
    BY <2>1, CountTold
  <2>6. count'[k] = Cardinality(left)
    BY <2>2, <2>3, <2>4, <2>5
  <2>7. left = {w \in Waits(frm, k) : Name(w) \notin bound'}
    BY <1>3 DEF Unbound
  <2>8. left = {} => WaitsFor(frm, k) \subseteq bound'
    BY <2>7 DEF WaitsFor
  <2> QED
    BY <2>5, <2>6, <2>7, <2>8
<1>5. CountsExact'
  BY <1>1, <1>2, <1>4 DEF CountsExact
<1>6. PICK order \in SetToSeqs(Woken(l)) : queue' = rest \o order
  BY DEF Propagate
<1>7. IsFiniteSet(Woken(l)) /\ Woken(l) \in SUBSET DOMAIN L
  <2>1. stm \in Statements /\ frm \in Formulas
    BY DEF Inv, Typed
  <2>2. DOMAIN L = 1 .. Len(L) /\ Len(L) \in Int
    BY <2>1, LitDepAssumption DEF LitsOf, Formulas, Outer
  <2>3. IsFiniteSet(DOMAIN L)
    BY <2>2, FS_Interval
  <2>4. Woken(l) \in SUBSET DOMAIN L
    BY <1>2 DEF Woken
  <2> QED
    BY <2>3, <2>4, FS_Subset
<1>8. order \in Seq(Woken(l))
  BY <1>7, Permuted
<1>9. order \in Seq(DOMAIN L) /\ \A i \in 1 .. Len(order) : order[i] \in Woken(l)
  BY <1>7, <1>8, SeqMonotonic, ElementOfSeq
<1>10. \A i \in 1 .. Len(order) : WaitsFor(frm, order[i]) \subseteq bound'
  BY <1>2, <1>4, <1>7, <1>9 DEF Woken
<1>11. /\ queue' \in Seq(DOMAIN L) /\ Len(queue') = Len(rest) + Len(order)
       /\ \A i \in 1 .. Len(queue') : queue'[i] = IF i <= Len(rest) THEN rest[i] ELSE order[i - Len(rest)]
  BY <1>6, <1>9, ConcatProperties
<1>12. QueueReady'
  <2> SUFFICES ASSUME NEW i \in 1 .. Len(queue') PROVE WaitsFor(frm, queue'[i]) \subseteq bound'
    BY <1>1 DEF QueueReady
  <2>1. Len(rest) \in Nat /\ Len(order) \in Nat
    BY <1>9, LenProperties
  <2>2. CASE i <= Len(rest)
    <3>1. i \in 1 .. Len(rest) /\ queue'[i] = rest[i]
      BY <2>1, <2>2, <1>11
    <3> QED
      BY <3>1, <1>3
  <2>3. CASE ~(i <= Len(rest))
    <3>1. i - Len(rest) \in 1 .. Len(order) /\ queue'[i] = order[i - Len(rest)]
      BY <2>1, <2>3, <1>11
    <3> QED
      BY <3>1, <1>10
  <2> QED
    BY <2>2, <2>3
<1> QED
  BY <1>1, <1>2, <1>3, <1>5, <1>11, <1>12

------------------------------------------------------------------------------
LEMMA InitInv == Init => Inv
<1> SUFFICES ASSUME Init PROVE Inv
  OBVIOUS
<1> DEFINE ready == {l \in DOMAIN stm : Waits(Outer, l) = {}}
<1>1. LitsOf(Outer) = stm /\ Outer \in Formulas /\ open \subseteq Formulas
  BY DEF LitsOf, Formulas, Init
<1>2. IsFiniteSet(ready)
  <2>1. DOMAIN stm = 1 .. Len(stm) /\ Len(stm) \in Int
    BY LitDepAssumption DEF Init
  <2>2. IsFiniteSet(DOMAIN stm)
    BY <2>1, FS_Interval
  <2> QED
    BY <2>2, FS_Subset
<1>3. queue \in Seq(ready)
  BY <1>1, <1>2, Permuted DEF Init, Ready
<1>4. queue \in Seq(DOMAIN stm) /\ \A i \in 1 .. Len(queue) : queue[i] \in ready
  BY <1>3, SeqMonotonic, ElementOfSeq
<1>5. Typed
  BY <1>1, <1>4 DEF Typed, Init
<1>6. CountsExact
  <2>1. \A l : {w \in Waits(frm, l) : Name(w) \notin {}} = Waits(frm, l)
    OBVIOUS
  <2> QED
    BY <2>1 DEF CountsExact, Init
<1>7. QueueReady
  BY <1>4 DEF QueueReady, WaitsFor, Init
<1>8. BoundByJoin /\ JoinedAfter
  <2>1. joined = <<>> /\ bound = {} /\ Len(joined) = 0
    BY DEF Init
  <2> QED
    BY <2>1 DEF BoundByJoin, JoinedAfter, JoinedBinds
<1> QED
  BY <1>5, <1>6, <1>7, <1>8 DEF Inv

(* What stays when only the other variables change. *)
LEMMA JoinKept ==
  ASSUME Inv, stm' = stm, frm' = frm, joined' = joined
  PROVE  JoinedAfter'
<1>1. \A k : WaitsFor(frm, k)' = WaitsFor(frm, k) /\ Binds(frm, k)' = Binds(frm, k)
  BY SameStatement
<1> QED
  BY <1>1 DEF Inv, JoinedAfter, JoinedBinds

LEMMA CheckInv == Inv /\ Check => Inv'
<1> SUFFICES ASSUME Inv, Check PROVE Inv'
  OBVIOUS
<1> DEFINE l == queue[Len(queue)]
           rest == Front(queue)
<1>1. queue \in Seq(DOMAIN LitsOf(frm)) /\ queue # <<>> /\ Len(queue) \in Nat \ {0}
  BY EmptySeq DEF Inv, Typed, Check
<1>2. l \in DOMAIN LitsOf(frm)
  BY <1>1, ElementOfSeq
<1>3. /\ rest \in Seq(DOMAIN LitsOf(frm)) /\ Len(rest) = Len(queue) - 1
      /\ \A i \in 1 .. Len(queue) - 1 : rest[i] = queue[i]
  BY <1>1, FrontOf
<1>4. \A i \in 1 .. Len(rest) : WaitsFor(frm, rest[i]) \subseteq bound
  BY <1>1, <1>3 DEF Inv, QueueReady
<1>5. Propagate(l, rest) /\ stm' = stm /\ frm' = frm /\ joined' = joined /\ phase' = phase /\ open' = open /\ phase = "check"
  BY DEF Check
<1>6. /\ CountsExact' /\ QueueReady'
      /\ DOMAIN count' = DOMAIN LitsOf(frm)' /\ queue' \in Seq(DOMAIN LitsOf(frm)') /\ bound' \subseteq VarsOf(frm)'
  BY <1>2, <1>3, <1>4, <1>5, PropagateInv
<1>7. Formulas' = Formulas /\ LitsOf(frm)' = LitsOf(frm)
  BY <1>5, SameStatement
<1>8. Typed'
  BY <1>5, <1>6, <1>7 DEF Inv, Typed
<1> QED
  BY <1>5, <1>6, <1>8, JoinKept DEF Inv, BoundByJoin

LEMMA OrderInv == Inv /\ Order => Inv'
<1> SUFFICES ASSUME Inv, Order PROVE Inv'
  OBVIOUS
<1>1. PICK i \in DOMAIN queue : Propagate(queue[i], Without(i)) /\ joined' = Append(joined, queue[i])
  BY DEF Order
<1> DEFINE l == queue[i]
           rest == Without(i)
           L == DOMAIN LitsOf(frm)
<1>2. /\ queue \in Seq(L) /\ joined \in Seq(L) /\ Len(queue) \in Nat /\ Len(joined) \in Nat
      /\ DOMAIN queue = 1 .. Len(queue)
  BY LenProperties DEF Inv, Typed
<1>3. l \in L
  BY <1>2, ElementOfSeq
<1>4. rest \in Seq(L) /\ \A j \in 1 .. Len(rest) : \E k \in 1 .. Len(queue) : rest[j] = queue[k]
  <2>1. /\ rest \in Seq(L) /\ Len(rest) = Len(queue) - 1
        /\ \A j \in 1 .. Len(queue) - 1 : rest[j] = IF j < i THEN queue[j] ELSE queue[j + 1]
    BY <1>2, RemovedAt DEF Without
  <2> HIDE DEF rest
  <2>2. \A j \in 1 .. Len(queue) - 1 : j \in 1 .. Len(queue) /\ j + 1 \in 1 .. Len(queue)
    BY <1>2
  <2> QED
    BY <2>1, <2>2
<1>5. /\ \A j \in 1 .. Len(rest) : WaitsFor(frm, rest[j]) \subseteq bound
      /\ WaitsFor(frm, l) \subseteq bound
  BY <1>2, <1>4 DEF Inv, QueueReady
<1>6. stm' = stm /\ frm' = frm /\ phase' = phase /\ open' = open /\ phase = "order" /\ bound' = bound \cup Binds(frm, l)
  BY <1>1 DEF Order, Propagate
<1>7. /\ CountsExact' /\ QueueReady'
      /\ DOMAIN count' = DOMAIN LitsOf(frm)' /\ queue' \in Seq(DOMAIN LitsOf(frm)') /\ bound' \subseteq VarsOf(frm)'
  BY <1>1, <1>3, <1>4, <1>5, <1>6, PropagateInv
<1>8. /\ Formulas' = Formulas /\ LitsOf(frm)' = LitsOf(frm)
      /\ \A k : WaitsFor(frm, k)' = WaitsFor(frm, k) /\ Binds(frm, k)' = Binds(frm, k)
  BY <1>6, SameStatement
<1>9. /\ joined' \in Seq(L) /\ Len(joined') = Len(joined) + 1 /\ joined'[Len(joined) + 1] = l
      /\ \A j \in 1 .. Len(joined) : joined'[j] = joined[j]
  BY <1>1, <1>2, <1>3, AppendProperties
<1>10. Typed'
  BY <1>6, <1>7, <1>8, <1>9 DEF Inv, Typed
<1>11. \A n \in 0 .. Len(joined) : JoinedBinds(joined', n) = JoinedBinds(joined, n)
  BY <1>2, <1>9 DEF JoinedBinds
<1>12. bound = JoinedBinds(joined, Len(joined))
  BY <1>6 DEF Inv, BoundByJoin
<1>13. BoundByJoin'
  <2>1. JoinedBinds(joined', Len(joined) + 1) = JoinedBinds(joined, Len(joined)) \cup Binds(frm, l)
    BY <1>2, <1>9 DEF JoinedBinds
  <2>2. bound' = UNION {Binds(frm, joined'[j]) : j \in 1 .. Len(joined')}
    BY <1>6, <1>9, <1>12, <2>1 DEF JoinedBinds
  <2> QED
    BY <1>8, <2>2 DEF BoundByJoin, JoinedBinds
<1>14. JoinedAfter'
  <2> SUFFICES ASSUME NEW j \in 1 .. Len(joined') PROVE WaitsFor(frm, joined'[j]) \subseteq JoinedBinds(joined', j - 1)
    BY <1>6, <1>8 DEF JoinedAfter, JoinedBinds
  <2>1. CASE j \in 1 .. Len(joined)
    <3>1. j - 1 \in 0 .. Len(joined)
      BY <1>2, <2>1
    <3> QED
      BY <1>9, <1>11, <2>1, <3>1 DEF Inv, JoinedAfter
  <2>2. CASE j = Len(joined) + 1
    <3>1. JoinedBinds(joined', j - 1) = bound /\ joined'[j] = l
      <4>1. j - 1 = Len(joined) /\ Len(joined) \in 0 .. Len(joined)
        BY <1>2, <2>2
      <4> QED
        BY <1>9, <1>11, <1>12, <2>2, <4>1
    <3> QED
      BY <3>1, <1>5
  <2> QED
    BY <1>2, <1>9, <2>1, <2>2
<1> QED
  BY <1>7, <1>10, <1>13, <1>14 DEF Inv

LEMMA NextInv == Inv /\ [Next]_vars => Inv'
<1> SUFFICES ASSUME Inv, [Next]_vars PROVE Inv'
  OBVIOUS
<1>1. CASE Check
  BY <1>1, CheckInv
<1>2. CASE Order
  BY <1>2, OrderInv
<1>3. CASE EndCheck
  <2>1. stm' = stm /\ Typed
    BY <1>3 DEF EndCheck, Inv
  <2>2. CASE open # {}
    <3>1. PICK f \in open : Begin(f) /\ open' = open \ {f} /\ phase' = phase
      BY <1>3, <2>2 DEF EndCheck
    <3>2. f \in Formulas /\ open' \subseteq Formulas /\ phase' \in {"check", "order", "ordered", "unsafe"}
      BY <2>1, <3>1 DEF Typed
    <3> QED
      BY <2>1, <3>1, <3>2, BeginInv
  <2>3. CASE ~(open # {})
    <3>1. Begin(Outer) /\ open' \subseteq Formulas /\ Outer \in Formulas /\ phase' \in {"check", "order", "ordered", "unsafe"}
      BY <1>3, <2>3 DEF EndCheck, Formulas
    <3> QED
      BY <2>1, <3>1, BeginInv
  <2> QED
    BY <2>2, <2>3
<1>4. CASE EndOrder
  <2>1. stm' = stm /\ Typed /\ phase = "order"
    BY <1>4 DEF EndOrder, Inv
  <2>2. CASE open # {}
    <3>1. PICK f \in open : Begin(f) /\ open' = open \ {f} /\ phase' = phase
      BY <1>4, <2>2 DEF EndOrder
    <3>2. f \in Formulas /\ open' \subseteq Formulas /\ phase' \in {"check", "order", "ordered", "unsafe"}
      BY <2>1, <3>1 DEF Typed
    <3> QED
      BY <2>1, <3>1, <3>2, BeginInv
  <2>3. CASE ~(open # {})
    <3>1. phase' = "ordered" /\ UNCHANGED <<stm, frm, open, count, bound, queue, joined>>
      BY <1>4, <2>3 DEF EndOrder
    <3>2. /\ Formulas' = Formulas /\ LitsOf(frm)' = LitsOf(frm) /\ VarsOf(frm)' = VarsOf(frm)
          /\ \A k : Waits(frm, k)' = Waits(frm, k) /\ WaitsFor(frm, k)' = WaitsFor(frm, k) /\ Binds(frm, k)' = Binds(frm, k)
      BY <3>1, SameStatement
    <3>6. Typed'
      BY <3>1, <3>2 DEF Inv, Typed
    <3>3. QueueReady'
      BY <3>1, <3>2 DEF Inv, QueueReady
    <3>7. JoinedAfter'
      <4>1. \A i \in 1..Len(joined) : WaitsFor(frm, joined[i]) \subseteq JoinedBinds(joined, i - 1)
        BY DEF Inv, JoinedAfter
      <4> QED
        BY <3>1, <3>2, <4>1 DEF JoinedAfter, JoinedBinds
    <3>4. CountsExact'
      BY <3>1, <3>2 DEF Inv, CountsExact
    <3>5. BoundByJoin'
      BY <2>1, <3>1, <3>2 DEF Inv, BoundByJoin, JoinedBinds
    <3> QED
      BY <3>3, <3>4, <3>5, <3>6, <3>7 DEF Inv
  <2> QED
    BY <2>2, <2>3
<1>5. CASE UNCHANGED vars
  <2>1. /\ Formulas' = Formulas /\ LitsOf(frm)' = LitsOf(frm) /\ VarsOf(frm)' = VarsOf(frm)
        /\ \A k : Waits(frm, k)' = Waits(frm, k) /\ WaitsFor(frm, k)' = WaitsFor(frm, k) /\ Binds(frm, k)' = Binds(frm, k)
    BY <1>5, SameStatement DEF vars
  <2>4. Typed'
    BY <1>5, <2>1 DEF Inv, Typed, vars
  <2>2. QueueReady'
    BY <1>5, <2>1 DEF Inv, QueueReady, vars
  <2>5. JoinedAfter'
    <3>1. \A i \in 1..Len(joined) : WaitsFor(frm, joined[i]) \subseteq JoinedBinds(joined, i - 1)
      BY DEF Inv, JoinedAfter
    <3> QED
      BY <1>5, <2>1, <3>1 DEF JoinedAfter, JoinedBinds, vars
  <2>3. CountsExact' /\ BoundByJoin'
    BY <1>5, <2>1 DEF Inv, CountsExact, BoundByJoin, JoinedBinds, vars
  <2> QED
    BY <2>2, <2>3, <2>4, <2>5 DEF Inv
<1>6. CASE Stop
  BY <1>5, <1>6 DEF Stop
<1> QED
  BY <1>1, <1>2, <1>3, <1>4, <1>5, <1>6 DEF Next

LEMMA Invariant == Spec => []Inv
BY InitInv, NextInv, PTL DEF Spec

------------------------------------------------------------------------------
LEMMA NotQueued ==
  ASSUME ExactInv, NEW k \in ToSet(queue) \cup ToSet(joined)
  PROVE  WaitsFor(frm, k) \subseteq bound /\ k \in DOMAIN LitsOf(frm)
<1>1. queue \in Seq(DOMAIN LitsOf(frm)) /\ joined \in Seq(DOMAIN LitsOf(frm))
  BY DEF ExactInv, Inv, Typed
<1>2. /\ ToSet(queue) = {queue[i] : i \in 1 .. Len(queue)} /\ ToSet(queue) \subseteq DOMAIN LitsOf(frm)
      /\ ToSet(joined) = {joined[i] : i \in 1 .. Len(joined)} /\ ToSet(joined) \subseteq DOMAIN LitsOf(frm)
      /\ Len(joined) \in Nat
  BY <1>1, Elements
<1>3. CASE k \in ToSet(queue)
  BY <1>2, <1>3 DEF ExactInv, Inv, QueueReady
<1>4. CASE k \in ToSet(joined)
  <2>1. phase = "check" \/ phase = "unsafe" \/ bound = JoinedBinds(joined, Len(joined))
    BY DEF ExactInv, Inv, Typed, BoundByJoin
  <2>2. CASE phase \in {"check", "unsafe"}
    BY <1>4, <2>2 DEF ExactInv, Distinct, ToSet
  <2>3. CASE bound = JoinedBinds(joined, Len(joined))
    <3>1. PICK i \in 1 .. Len(joined) : k = joined[i]
      BY <1>2, <1>4
    <3>2. WaitsFor(frm, k) \subseteq JoinedBinds(joined, i - 1)
      BY <3>1 DEF ExactInv, Inv, JoinedAfter
    <3>3. JoinedBinds(joined, i - 1) \subseteq JoinedBinds(joined, Len(joined))
      BY <1>2 DEF JoinedBinds
    <3> QED
      BY <1>2, <1>4, <2>3, <3>2, <3>3
  <2> QED
    BY <2>1, <2>2, <2>3
<1> QED
  BY <1>3, <1>4

(* Binding the variables of a literal wakes the literals that waited for   *)
(* nothing else, and none of those in the queue or the join.               *)
LEMMA PropagateWakes ==
  ASSUME ExactInv, Inv', stm' = stm, frm' = frm, NEW l \in DOMAIN LitsOf(frm),
         NEW rest, Propagate(l, rest)
  PROVE  /\ Woken(l) \cap (ToSet(queue) \cup ToSet(joined)) = {}
         /\ \A k \in DOMAIN LitsOf(frm) :
                WaitsFor(frm, k) \subseteq bound' => WaitsFor(frm, k) \subseteq bound \/ k \in Woken(l)
         /\ IsFiniteSet(Woken(l)) /\ Woken(l) \subseteq DOMAIN LitsOf(frm)
<1>1. DOMAIN count = DOMAIN LitsOf(frm) /\ stm \in Statements /\ frm \in Formulas /\ CountsExact
  BY DEF ExactInv, Inv, Typed
<1>2. /\ LitsOf(frm)' = LitsOf(frm) /\ \A k : Waits(frm, k)' = Waits(frm, k)
  BY SameStatement
<1>3. count' = Told(l) /\ DOMAIN count' = DOMAIN LitsOf(frm)
  BY <1>1 DEF Propagate, Told
<1>4. ASSUME NEW k \in DOMAIN LitsOf(frm)
      PROVE  /\ count[k] \in Nat /\ count'[k] \in Nat
             /\ count[k] = 0 <=> WaitsFor(frm, k) \subseteq bound
             /\ count'[k] = 0 <=> WaitsFor(frm, k) \subseteq bound'
  <2>1. IsFiniteSet(Waits(frm, k))
    BY <1>1, WaitsFinite
  <2>2. count[k] = Cardinality(Unbound(Waits(frm, k), bound))
    BY <1>1 DEF CountsExact, Unbound
  <2>3. count'[k] = Cardinality(Unbound(Waits(frm, k), bound'))
    <3>1. CountsExact'
      BY DEF Inv
    <3>2. count'[k] = Cardinality({w \in Waits(frm, k)' : Name(w) \notin bound'})
      BY <1>3, <3>1 DEF CountsExact, Name
    <3>3. Waits(frm, k)' = Waits(frm, k)
      BY <1>2
    <3> HIDE DEF Waits
    <3> QED
      BY <3>2, <3>3 DEF Unbound
  <2>4. WaitsFor(frm, k) = {Name(w) : w \in Waits(frm, k)}
    BY DEF WaitsFor
  <2> HIDE DEF WaitsFor, Waits
  <2> QED
    BY <2>1, <2>2, <2>3, <2>4, CountZero
<1>5. Woken(l) \subseteq DOMAIN LitsOf(frm) /\ IsFiniteSet(Woken(l))
  <2>1. Woken(l) \in SUBSET DOMAIN LitsOf(frm)
    BY <1>1 DEF Woken
  <2> QED
    BY <1>1, <2>1, LitsFinite, FS_Subset
<1>6. \A k \in DOMAIN LitsOf(frm) :
          WaitsFor(frm, k) \subseteq bound' => WaitsFor(frm, k) \subseteq bound \/ k \in Woken(l)
  BY <1>1, <1>3, <1>4 DEF Woken
<1>7. ASSUME NEW k \in Woken(l), k \in ToSet(queue) \cup ToSet(joined) PROVE FALSE
  <2>1. WaitsFor(frm, k) \subseteq bound
    BY <1>7, NotQueued
  <2>2. count[k] > 0 /\ k \in DOMAIN LitsOf(frm)
    BY <1>5 DEF Woken
  <2> QED
    BY <1>4, <2>1, <2>2
<1> QED
  BY <1>5, <1>6, <1>7

LEMMA PropagateExact ==
  ASSUME ExactInv, Inv', stm' = stm, frm' = frm, NEW l \in ToSet(queue),
         NEW rest \in Seq(DOMAIN LitsOf(frm)), IsInjective(rest), ToSet(rest) = ToSet(queue) \ {l}, Propagate(l, rest)
  PROVE  /\ IsInjective(queue')
         /\ ToSet(queue') = ToSet(rest) \cup Woken(l)
         /\ \A k \in DOMAIN LitsOf(frm) : WaitsFor(frm, k) \subseteq bound' =>
                \/ k = l \/ k \in ToSet(queue')
                \/ Binds(frm, k) \subseteq bound' /\ (phase \in {"order", "ordered"} => k \in ToSet(joined))
         /\ Binds(frm, l) \subseteq bound'
         /\ phase = "check" => bound' \subseteq Bindable(frm)
<1>1. l \in DOMAIN LitsOf(frm) /\ WaitsFor(frm, l) \subseteq bound
  BY NotQueued
<1>2. /\ Woken(l) \cap (ToSet(queue) \cup ToSet(joined)) = {}
      /\ \A k \in DOMAIN LitsOf(frm) :
                WaitsFor(frm, k) \subseteq bound' => WaitsFor(frm, k) \subseteq bound \/ k \in Woken(l)
      /\ IsFiniteSet(Woken(l)) /\ Woken(l) \subseteq DOMAIN LitsOf(frm)
  BY <1>1, PropagateWakes
<1>3. bound' = bound \cup Binds(frm, l)
  BY DEF Propagate
<1>4. PICK order \in SetToSeqs(Woken(l)) : queue' = rest \o order
  BY DEF Propagate
<1>5. order \in Seq(DOMAIN LitsOf(frm)) /\ IsInjective(order) /\ ToSet(order) = Woken(l)
  <2>1. order \in Seq(Woken(l)) /\ IsInjective(order) /\ ToSet(order) = Woken(l)
    BY <1>2, Permuted, Listed
  <2> QED
    BY <1>2, <2>1, SeqMonotonic
<1>6. IsInjective(queue') /\ ToSet(queue') = ToSet(rest) \cup Woken(l)
  <2>1. ToSet(rest) \cap ToSet(order) = {}
    BY <1>2, <1>5
  <2> QED
    BY <1>4, <1>5, <2>1, Concatenated
<1>7. ASSUME NEW k \in DOMAIN LitsOf(frm), WaitsFor(frm, k) \subseteq bound', k # l, k \notin ToSet(queue')
      PROVE  Binds(frm, k) \subseteq bound' /\ (phase \in {"order", "ordered"} => k \in ToSet(joined))
  <2>1. WaitsFor(frm, k) \subseteq bound /\ k \notin ToSet(queue)
    BY <1>2, <1>6, <1>7
  <2> QED
    BY <1>3, <2>1 DEF ExactInv, Dispatched
<1>8. phase = "check" => bound' \subseteq Bindable(frm)
  <2> SUFFICES ASSUME phase = "check" PROVE Binds(frm, l) \subseteq Bindable(frm)
    BY <1>3 DEF ExactInv, Reported
  <2>1. WaitsFor(frm, l) \subseteq Bindable(frm)
    BY <1>1 DEF ExactInv, Reported
  <2>2. Step(frm, Bindable(frm)) \subseteq Bindable(frm)
    BY BindableIsLeast DEF ExactInv, Inv, Typed
  <2> HIDE DEF Bindable
  <2> QED
    BY <1>1, <2>1, <2>2 DEF Step
<1> QED
  BY <1>3, <1>6, <1>7, <1>8

(* With an empty queue what is bound is closed. *)
LEMMA QueueEmptied ==
  ASSUME ExactInv, queue = <<>>
  PROVE  /\ Bindable(frm) \subseteq bound
         /\ phase = "check" => bound = Bindable(frm)
         /\ phase \in {"order", "ordered"} => ToSet(joined) = DOMAIN LitsOf(frm)
<1>1. stm \in Statements /\ frm \in Formulas /\ bound \in SUBSET VarsOf(frm)
  BY DEF ExactInv, Inv, Typed
<1>2. ToSet(queue) = {}
  BY DEF ToSet
<1>3. Step(frm, bound) \subseteq bound
  BY <1>2 DEF ExactInv, Dispatched, Step
<1>4. Bindable(frm) \subseteq bound
  BY <1>1, <1>3, BindableIsLeast
<1>5. phase = "check" => bound = Bindable(frm)
  BY <1>4 DEF ExactInv, Reported
<1>6. ASSUME phase \in {"order", "ordered"}
      PROVE  ToSet(joined) = DOMAIN LitsOf(frm)
  <2>1. VarsOf(frm) \subseteq bound
    BY <1>1, <1>4, <1>6 DEF ExactInv, SafetyExact
  <2>2. \A l : WaitsFor(frm, l) \subseteq VarsOf(frm)
    BY DEF WaitsFor, Waits
  <2>3. DOMAIN LitsOf(frm) \subseteq ToSet(joined)
    BY <1>2, <1>6, <2>1, <2>2 DEF ExactInv, Dispatched
  <2>4. ToSet(joined) \subseteq DOMAIN LitsOf(frm)
    BY Elements DEF ExactInv, Inv, Typed
  <2> QED
    BY <2>3, <2>4
<1> QED
  BY <1>4, <1>5, <1>6

(* What a formula is begun with. *)
LEMMA BeginExact ==
  ASSUME Inv', stm' = stm, stm \in Statements, NEW f \in Formulas, Begin(f), phase' \in {"check", "order", "unsafe"}
  PROVE  Dispatched' /\ Distinct'
<1> DEFINE ready == {l \in DOMAIN LitsOf(f) : Waits(f, l) = {}}
<1>1. /\ LitsOf(frm)' = LitsOf(f)
      /\ \A l : WaitsFor(frm, l)' = WaitsFor(f, l)
  BY SameStatement DEF Begin
<1>2. IsFiniteSet(ready)
  BY LitsFinite, FS_Subset
<1>3. IsInjective(queue') /\ ToSet(queue') = ready
  BY <1>2, Listed DEF Begin, Ready
<1>4. bound' = {} /\ joined' = <<>> /\ ToSet(joined') = {} /\ IsInjective(joined')
  BY DEF Begin, ToSet, IsInjective
<1>5. \A l \in DOMAIN LitsOf(f) : WaitsFor(f, l) \subseteq {} => l \in ToSet(queue')
  BY <1>3 DEF WaitsFor
<1>6. Dispatched'
  BY <1>1, <1>4, <1>5 DEF Dispatched
<1>7. Distinct'
  BY <1>3, <1>4 DEF Distinct
<1> QED
  BY <1>6, <1>7

LEMMA InitExact == Init => ExactInv
<1> SUFFICES ASSUME Init PROVE ExactInv
  OBVIOUS
<1> DEFINE ready == {l \in DOMAIN stm : Waits(Outer, l) = {}}
<1>0. Inv
  BY InitInv
<1>1. LitsOf(Outer) = stm /\ Outer \in Formulas /\ stm \in Statements /\ frm = Outer
  BY DEF LitsOf, Formulas, Init
<1>2. IsFiniteSet(ready)
  BY <1>1, LitsFinite, FS_Subset
<1>3. IsInjective(queue) /\ ToSet(queue) = ready
  BY <1>1, <1>2, Listed DEF Init, Ready
<1>4. bound = {} /\ joined = <<>> /\ ToSet(joined) = {} /\ IsInjective(joined) /\ unsafe = {} /\ phase = "check"
  BY DEF Init, ToSet, IsInjective
<1>5. Dispatched
  BY <1>1, <1>3, <1>4 DEF Dispatched, WaitsFor
<1>6. Distinct
  BY <1>3, <1>4 DEF Distinct
<1>7. Reported
  <2>1. Formulas \ (open \cup {frm}) = {} /\ frm \notin open
    BY <1>1 DEF Init
  <2>2. Refused({}) = {}
    BY DEF Refused
  <2> QED
    BY <1>4, <2>1, <2>2 DEF Reported
<1>8. SafetyExact
  BY <1>4 DEF SafetyExact
<1> QED
  BY <1>0, <1>5, <1>6, <1>7, <1>8 DEF ExactInv

LEMMA CheckExact == ExactInv /\ Check /\ Inv' => ExactInv'
<1> SUFFICES ASSUME ExactInv, Check, Inv' PROVE ExactInv'
  OBVIOUS
<1> DEFINE l == queue[Len(queue)]
           rest == Front(queue)
<1>1. queue \in Seq(DOMAIN LitsOf(frm)) /\ queue # <<>> /\ IsInjective(queue)
  BY DEF ExactInv, Inv, Typed, Distinct, Check
<1>2. /\ rest \in Seq(DOMAIN LitsOf(frm)) /\ IsInjective(rest) /\ ToSet(rest) = ToSet(queue) \ {l} /\ l \in ToSet(queue)
  BY <1>1, FrontOf, TakenLast
<1>3. Propagate(l, rest) /\ UNCHANGED <<stm, phase, frm, open, joined, unsafe>> /\ phase = "check"
  BY DEF Check
<1> HIDE DEF l, rest
<1>4. /\ IsInjective(queue')
      /\ \A k \in DOMAIN LitsOf(frm) : WaitsFor(frm, k) \subseteq bound' =>
                \/ k = l \/ k \in ToSet(queue')
                \/ Binds(frm, k) \subseteq bound' /\ (phase \in {"order", "ordered"} => k \in ToSet(joined))
      /\ Binds(frm, l) \subseteq bound' /\ bound' \subseteq Bindable(frm)
  BY <1>2, <1>3, PropagateExact
<1>5. /\ LitsOf(frm)' = LitsOf(frm) /\ Formulas' = Formulas
      /\ \A k : WaitsFor(frm, k)' = WaitsFor(frm, k) /\ Binds(frm, k)' = Binds(frm, k)
  BY <1>3, SameStatement
<1>6. \A f : Bindable(f)' = Bindable(f) /\ \A F : Refused(F)' = Refused(F)
  BY <1>3, SameVerdict
<1>7. Dispatched'
  BY <1>3, <1>4, <1>5 DEF Dispatched
<1>8. Distinct'
  BY <1>3, <1>4 DEF ExactInv, Distinct, ToSet
<1>9. Reported'
  BY <1>3, <1>4, <1>5, <1>6 DEF ExactInv, Reported
<1>10. SafetyExact'
  BY <1>3 DEF SafetyExact
<1> QED
  BY <1>7, <1>8, <1>9, <1>10 DEF ExactInv

LEMMA OrderExact == ExactInv /\ Order /\ Inv' => ExactInv'
<1> SUFFICES ASSUME ExactInv, Order, Inv' PROVE ExactInv'
  OBVIOUS
<1>1. PICK i \in DOMAIN queue : Propagate(queue[i], Without(i)) /\ joined' = Append(joined, queue[i])
  BY DEF Order
<1> DEFINE l == queue[i]
           rest == Without(i)
           L == DOMAIN LitsOf(frm)
<1>2. /\ queue \in Seq(L) /\ joined \in Seq(L) /\ IsInjective(queue) /\ IsInjective(joined)
      /\ ToSet(queue) \cap ToSet(joined) = {}
  BY DEF ExactInv, Inv, Typed, Distinct
<1>3. rest \in Seq(L) /\ IsInjective(rest) /\ ToSet(rest) = ToSet(queue) \ {l} /\ l \in ToSet(queue) /\ l \in L
  <2>1. i \in 1 .. Len(queue) /\ l \in ToSet(queue) /\ ToSet(queue) \subseteq L
    BY <1>2, Elements DEF ToSet
  <2> QED
    BY <1>2, <2>1, RemovedAt, TakenAt DEF Without
<1>4. Propagate(l, rest) /\ UNCHANGED <<stm, phase, frm, open, unsafe>> /\ phase = "order" /\ joined' = Append(joined, l)
  BY <1>1 DEF Order
<1> HIDE DEF l, rest
<1>5. /\ IsInjective(queue') /\ ToSet(queue') = ToSet(rest) \cup Woken(l)
      /\ \A k \in L : WaitsFor(frm, k) \subseteq bound' =>
                \/ k = l \/ k \in ToSet(queue')
                \/ Binds(frm, k) \subseteq bound' /\ (phase \in {"order", "ordered"} => k \in ToSet(joined))
      /\ Binds(frm, l) \subseteq bound'
  BY <1>3, <1>4, PropagateExact
<1>6. IsInjective(joined') /\ ToSet(joined') = ToSet(joined) \cup {l}
  BY <1>2, <1>3, <1>4, Appended
<1>7. Woken(l) \cap (ToSet(queue) \cup ToSet(joined)) = {}
  BY <1>3, <1>4, PropagateWakes
<1>8. /\ LitsOf(frm)' = LitsOf(frm) /\ Formulas' = Formulas /\ VarsOf(frm)' = VarsOf(frm)
      /\ \A k : WaitsFor(frm, k)' = WaitsFor(frm, k) /\ Binds(frm, k)' = Binds(frm, k)
  BY <1>4, SameStatement
<1>9. \A f : Bindable(f)' = Bindable(f) /\ VarsOf(f)' = VarsOf(f)
  BY <1>4, SameVerdict
<1>10. Dispatched'
  BY <1>4, <1>5, <1>6, <1>8 DEF Dispatched
<1>11. Distinct'
  BY <1>2, <1>3, <1>4, <1>5, <1>6, <1>7 DEF Distinct
<1>12. Reported' /\ SafetyExact'
  BY <1>4, <1>8, <1>9 DEF ExactInv, Reported, SafetyExact
<1> QED
  BY <1>10, <1>11, <1>12 DEF ExactInv

LEMMA EndCheckExact == ExactInv /\ EndCheck /\ Inv' => ExactInv'
<1> SUFFICES ASSUME ExactInv, EndCheck, Inv' PROVE ExactInv'
  OBVIOUS
<1>1. /\ stm \in Statements /\ frm \in Formulas /\ open \subseteq Formulas /\ frm \notin open
      /\ unsafe = Refused(Formulas \ (open \cup {frm})) /\ stm' = stm
      /\ unsafe' = unsafe \cup (VarsOf(frm) \ bound)
  BY DEF ExactInv, Inv, Typed, Reported, EndCheck
<1>2. bound = Bindable(frm)
  BY QueueEmptied DEF EndCheck
<1>3. unsafe' = Refused(Formulas \ open)
  BY <1>1, <1>2 DEF Refused
<1>4. /\ Formulas' = Formulas /\ \A f : VarsOf(f)' = VarsOf(f) /\ Bindable(f)' = Bindable(f)
      /\ \A F : Refused(F)' = Refused(F)
  BY <1>1, SameStatement, SameVerdict
<1>5. CASE open # {}
  <2>1. PICK f \in open : Begin(f) /\ open' = open \ {f} /\ phase' = phase
    BY <1>5 DEF EndCheck
  <2>2. phase' = "check" /\ frm' = f /\ bound' = {} /\ f \in Formulas
    BY <1>1, <2>1 DEF Begin, EndCheck
  <2>3. Dispatched' /\ Distinct'
    BY <1>1, <2>1, <2>2, BeginExact
  <2>4. Formulas \ (open' \cup {frm'}) = Formulas \ open
    BY <2>1, <2>2
  <2>5. Reported'
    BY <1>3, <1>4, <2>1, <2>2, <2>4 DEF Reported
  <2>6. SafetyExact'
    BY <2>2 DEF SafetyExact
  <2> QED
    BY <2>3, <2>5, <2>6 DEF ExactInv
<1>6. CASE ~(open # {})
  <2>1. Begin(Outer) /\ open' = Formulas \ {Outer} /\ phase' = IF unsafe' = {} THEN "order" ELSE "unsafe"
    BY <1>6 DEF EndCheck
  <2>2. Outer \in Formulas /\ frm' = Outer /\ phase' \in {"order", "unsafe"}
    BY <2>1 DEF Formulas, Begin
  <2>3. Dispatched' /\ Distinct'
    BY <1>1, <2>1, <2>2, BeginExact
  <2>4. Reported'
    BY <2>1, <2>2 DEF Reported
  <2>5. unsafe' = UNION {VarsOf(f) \ Bindable(f) : f \in Formulas}
    BY <1>3, <1>6 DEF Refused
  <2>6. \A f \in Formulas : Bindable(f) \subseteq VarsOf(f)
    BY <1>1, BindableIsLeast
  <2>7. SafetyExact'
    BY <1>4, <2>1, <2>5, <2>6 DEF SafetyExact
  <2> QED
    BY <2>3, <2>4, <2>7 DEF ExactInv
<1> QED
  BY <1>5, <1>6

LEMMA EndOrderExact == ExactInv /\ EndOrder /\ Inv' => ExactInv'
<1> SUFFICES ASSUME ExactInv, EndOrder, Inv' PROVE ExactInv'
  OBVIOUS
<1>1. stm' = stm /\ stm \in Statements /\ open \subseteq Formulas /\ phase = "order" /\ unsafe' = unsafe
  BY DEF ExactInv, Inv, Typed, EndOrder
<1>2. /\ Formulas' = Formulas /\ \A f : VarsOf(f)' = VarsOf(f) /\ Bindable(f)' = Bindable(f)
  BY <1>1, SameStatement, SameVerdict
<1>3. CASE open # {}
  <2>1. PICK f \in open : Begin(f) /\ open' = open \ {f} /\ phase' = phase
    BY <1>3 DEF EndOrder
  <2>2. phase' = "order" /\ frm' = f /\ f \in Formulas
    BY <1>1, <2>1 DEF Begin
  <2>3. Dispatched' /\ Distinct'
    BY <1>1, <2>1, <2>2, BeginExact
  <2>4. Reported' /\ SafetyExact'
    BY <1>1, <1>2, <2>1, <2>2 DEF ExactInv, Reported, SafetyExact
  <2> QED
    BY <2>3, <2>4 DEF ExactInv
<1>4. CASE ~(open # {})
  <2>1. phase' = "ordered" /\ UNCHANGED <<frm, open, count, bound, queue, joined>> /\ queue = <<>>
    BY <1>4 DEF EndOrder
  <2>2. /\ LitsOf(frm)' = LitsOf(frm)
        /\ \A k : WaitsFor(frm, k)' = WaitsFor(frm, k) /\ Binds(frm, k)' = Binds(frm, k)
    BY <1>1, <2>1, SameStatement
  <2>3. Dispatched'
    BY <1>1, <2>1, <2>2 DEF ExactInv, Dispatched
  <2>4. Distinct'
    BY <2>1 DEF ExactInv, Distinct
  <2>5. Reported' /\ SafetyExact'
    BY <1>1, <1>2, <2>1 DEF ExactInv, Reported, SafetyExact
  <2> QED
    BY <2>3, <2>4, <2>5 DEF ExactInv
<1> QED
  BY <1>3, <1>4

LEMMA NextExact == ExactInv /\ [Next]_vars => ExactInv'
<1> SUFFICES ASSUME ExactInv, [Next]_vars PROVE ExactInv'
  OBVIOUS
<1>1. Inv'
  BY NextInv DEF ExactInv
<1>2. ASSUME UNCHANGED vars PROVE ExactInv'
  <2>1. /\ stm' = stm /\ Formulas' = Formulas /\ LitsOf(frm)' = LitsOf(frm)
        /\ \A k : WaitsFor(frm, k)' = WaitsFor(frm, k) /\ Binds(frm, k)' = Binds(frm, k)
    BY <1>2, SameStatement DEF vars
  <2>2. /\ \A f : VarsOf(f)' = VarsOf(f) /\ Bindable(f)' = Bindable(f)
        /\ \A F : Refused(F)' = Refused(F)
    BY <2>1, SameVerdict
  <2>3. Dispatched' /\ Distinct'
    BY <1>2, <2>1 DEF ExactInv, Dispatched, Distinct, vars
  <2>4. Reported' /\ SafetyExact'
    BY <1>2, <2>1, <2>2 DEF ExactInv, Reported, SafetyExact, vars
  <2> QED
    BY <1>1, <2>3, <2>4 DEF ExactInv
<1> QED
  BY <1>1, <1>2, CheckExact, OrderExact, EndCheckExact, EndOrderExact DEF Next, Stop

LEMMA ExactInvariant == Spec => []ExactInv
BY InitExact, NextExact, PTL DEF Spec

------------------------------------------------------------------------------
(* The queue and the join hold literals of the formula, and only its own      *)
(* variables are bound (FormulaNode).                                         *)
THEOREM TypeCorrect == Spec => []TypeOK
<1>1. Inv => TypeOK
  <2> SUFFICES ASSUME Inv PROVE TypeOK
    OBVIOUS
  <2>1. ToSet(queue) \cup ToSet(joined) \subseteq DOMAIN count
    <3>1. /\ DOMAIN queue = 1 .. Len(queue) /\ \A i \in 1 .. Len(queue) : queue[i] \in DOMAIN LitsOf(frm)
          /\ DOMAIN joined = 1 .. Len(joined) /\ \A i \in 1 .. Len(joined) : joined[i] \in DOMAIN LitsOf(frm)
      BY LenProperties, ElementOfSeq DEF Inv, Typed
    <3> QED
      BY <3>1 DEF Inv, Typed, ToSet
  <2> QED
    BY <2>1 DEF Inv, Typed, TypeOK
<1> QED
  BY <1>1, Invariant, PTL

(* No literal is told more often than it waits: assert(done_ > 0).            *)
THEOREM CountsCorrect == Spec => []CountsExact
<1>1. Inv => CountsExact
  BY DEF Inv
<1> QED
  BY <1>1, Invariant, PTL

(* Whatever order the scores choose (FormulaNode::order), a literal is joined *)
(* after all it needs is bound.                                               *)
THEOREM JoinCorrect == Spec => []JoinIsSafe
<1>1. Inv => JoinIsSafe
  <2> SUFFICES ASSUME Inv, NEW i \in DOMAIN joined
               PROVE  LET boundBefore == UNION {Binds(frm, joined[j]) : j \in 1 .. i - 1}
                          needs == {Name(w) : w \in {v \in Own(frm, joined[i]) : ~v[1].bind}}
                          inside == IF frm = Outer THEN {Name(w) : w \in Inside(joined[i])} ELSE {}
                      IN (needs \cup inside) \cap VarsOf(frm) \subseteq boundBefore
    BY DEF JoinIsSafe
  <2> DEFINE needs == {Name(w) : w \in {v \in Own(frm, joined[i]) : ~v[1].bind}}
             inside == IF frm = Outer THEN {Name(w) : w \in Inside(joined[i])} ELSE {}
  <2>1. WaitsFor(frm, joined[i]) \subseteq JoinedBinds(joined, i - 1)
    BY LenProperties DEF Inv, Typed, JoinedAfter
  <2>2. needs \cap VarsOf(frm) \subseteq WaitsFor(frm, joined[i])
    BY DEF WaitsFor, Waits
  <2>3. inside \cap VarsOf(frm) \subseteq WaitsFor(frm, joined[i])
    BY DEF WaitsFor, Waits
  <2> QED
    BY <2>1, <2>2, <2>3 DEF JoinedBinds
<1> QED
  BY <1>1, Invariant, PTL

(* check() refuses a statement exactly for the variables that no literal can  *)
(* bind, in any of its formulas, whatever the order of the queue              *)
(* (FormulaNode::check).                                                      *)
THEOREM SafetyCorrect == Spec => []SafetyExact
<1>1. ExactInv => SafetyExact
  BY DEF ExactInv
<1> QED
  BY <1>1, ExactInvariant, PTL

(* Each literal of a safe statement is joined, and none twice                 *)
(* (FormulaNode::order).                                                      *)
THEOREM CompleteCorrect == Spec => []JoinIsComplete
<1>1. ExactInv => JoinIsComplete
  <2> SUFFICES ASSUME ExactInv PROVE JoinIsComplete
    OBVIOUS
  <2>1. phase = "ordered" => queue = <<>>
    BY DEF ExactInv, Distinct
  <2> QED
    BY <2>1, QueueEmptied DEF ExactInv, Distinct, JoinIsComplete
<1> QED
  BY <1>1, ExactInvariant, PTL
==============================================================================
