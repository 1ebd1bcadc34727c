------------------------ MODULE CspPropagation_proofs ------------------------
(* Proofs about CspPropagation: for every theory and every way to propagate *)
(* and to clone, as long as nothing is minimized, what GecodeSolver keeps   *)
(* for each level stays aligned with clasp's levels.                        *)
(*                                                                          *)
(* The argument: a literal in the queue is true on the last level of clasp, *)
(* so what is added to the assignment belongs to the level it is noted for. *)
(* A backjump in the middle of a call takes away a level, and the call sees *)
(* that before it uses what it had computed from the longer assignment: what*)
(* is known of its variables is known only as long as oldDL is the level.   *)
(*                                                                          *)
(* From that, each space that is kept has been told its own prefix of the   *)
(* assignment and no more, whatever was cloned, moved up or made again.     *)
EXTENDS CspPropagation, WellFoundedInduction, NaturalsInduction, TLAPS

(* The part of the assignment that belongs to a level, the last one with    *)
(* what is not told yet.                                                    *)
Depth == Len(dl)
Length == Len(assignment)
Height == Len(spaces)
End(i) == IF i = Depth THEN Length ELSE assLength[i]
Full == assLength[Depth] = Length

OnLevel(lits) == \A k \in DOMAIN lits : level[lits[k]] = DL

IsSequence(s) == \E S : s \in Seq(S)

Records == [lit : Literals, key : Int, level : Nat, len : Nat]
Roots == [kept : {TRUE}, lits : SUBSET Literals, bound : {NoBound}]
Calls == [return : {"search", "redo", "each"}, place : Nat, clits : Seq(Literals), stop : Nat,
          caller : {"propagate", "hasAnswer"}, oldDL : Nat]

TypeOK ==
    /\ DL \in Nat /\ propagated \in Nat
    /\ level \in [Literals -> Int]
    /\ pending \in Seq(Literals) /\ propQueue \in Seq(Literals) /\ assignment \in Seq(Literals)
    /\ dl \in Seq(Nat) /\ assLength \in Seq(Nat)
    /\ IsSequence(spaces)
    /\ derived \subseteq Literals
    /\ impliedLits \subseteq Records
    /\ call \in Calls
    /\ ~option.optimize /\ ~updateOpt

(* clasp's trail. *)
Trail ==
    /\ \A l \in Literals : level[l] = Free \/ level[l] \in 0 .. DL
    /\ \A l \in Literals : level[l] = Free \/ level[-l] = Free
    /\ OnLevel(pending)

(* What GecodeSolver keeps. *)
Book ==
    /\ Depth >= 1 /\ Len(assLength) >= Depth /\ Len(assLength) <= Depth
    /\ dl[1] = 0 /\ assLength[1] = 0
    /\ \A i, j \in 1 .. Depth : i < j => dl[i] < dl[j] /\ assLength[i] < assLength[j]
    /\ dl[Depth] <= DL
    /\ watched = {dl[i] : i \in 2 .. Depth}
    /\ Height \in 1 .. Depth /\ spaces[1] \in Roots
    /\ propagated <= Length /\ assLength[Depth] <= Length
    /\ Depth <= 1 => assignment = <<>>
    /\ \A i \in 2 .. Depth : \A k \in assLength[i - 1] + 1 .. End(i) : level[assignment[k]] = dl[i]

(* The places of a call, those included to which it comes back. *)
Within(p) ==
    \/ pc = p
    \/ pc \in {"tell", "more"} /\ call.return = p
    \/ pc = "undo" /\ (jump.resume = p \/ (jump.resume = "more" /\ call.return = p))

AtSearch ==
    Within("search") =>
        /\ Full \/ (pc = "undo" /\ jump.goal < dl[Depth])
        /\ IF pc = "search" THEN OnLevel(propQueue) ELSE propQueue = <<>>
AtFixpoint == pc = "fixpoint" => Full /\ propQueue = <<>> /\ pending = <<>>
AtOld ==
    Within("old") =>
        /\ Full /\ call.oldDL >= DL /\ call.clits = <<>>
        /\ call.oldDL = DL => OnLevel(propQueue)
AtFilter == pc = "filter" => Full /\ OnLevel(propQueue) /\ OnLevel(call.clits)
AtFinish ==
    pc = "finish" =>
        /\ Full /\ propQueue = <<>> /\ call.oldDL = DL /\ OnLevel(call.clits)
        /\ call.caller = "propagate" => call.clits # <<>> /\ DL > 0
AtRedo ==
    Within("redo") =>
        /\ Full /\ propQueue = <<>> /\ call.oldDL >= DL
        /\ call.oldDL = DL =>
            /\ call.stop <= Length /\ Height >= 2 /\ OnLevel(call.clits)
            /\ call.caller = "propagate" => call.clits # <<>> /\ DL > 0
AtEach ==
    Within("each") =>
        /\ propQueue = <<>> /\ call.oldDL >= DL
        /\ IF call.oldDL = DL
           THEN /\ DL > 0 /\ dl[Depth] = DL /\ assLength[Depth - 1] <= propagated
                /\ Length = propagated + Len(call.clits)
                /\ call.clits = <<>> => Full
           ELSE Full
AtConflict == pc = "conflict" => Full \/ dl[Depth] = DL

AtTell == pc = "tell" => call.place \in 1 .. Depth /\ (call.return # "search" => call.oldDL = DL)
AtMore == pc = "more" => call.place >= 1
AtUndo ==
    pc = "undo" =>
        /\ jump.resume \in {"search", "old", "more"} /\ jump.goal \in Nat
        /\ jump.resume = "more" => call.place >= 1
        /\ jump.lit \in Literals
        /\ \A l \in {jump.lit, -jump.lit} : level[l] = Free \/ level[l] > jump.goal

Places ==
    pc \in {"search", "fixpoint", "conflict", "undo", "unsat", "model", "old", "filter", "finish",
            "redo", "each", "tell", "more"}

Control ==
    /\ Places /\ AtSearch /\ AtFixpoint /\ AtOld /\ AtFilter /\ AtFinish /\ AtRedo /\ AtEach
    /\ AtConflict /\ AtTell /\ AtMore /\ AtUndo

IndInv == TypeOK /\ Trail /\ Book /\ Control

Inv == ~option.optimize => IndInv
-----------------------------------------------------------------------------
LEMMA Negation ==
  ASSUME NEW l \in Literals
  PROVE  l \in Int /\ -l \in Literals /\ -(-l) = l /\ -l # l /\ l # 0
<1>1. \A a \in Atoms : a \in Int /\ a > 0
  BY CspAssumption
<1> QED BY <1>1 DEF Literals

(* Changes of the last space leave the root alone, or there as it was.      *)
LEMMA LastReplaced ==
  ASSUME NEW s, IsSequence(s), Len(s) >= 1, NEW x
  PROVE  /\ IsSequence(WithCurrent(s, x))
         /\ Len(WithCurrent(s, x)) = Len(s)
         /\ WithCurrent(s, x)[1] = IF Len(s) = 1 THEN x ELSE s[1]
<1>1. PICK S : s \in Seq(S)
  BY DEF IsSequence
<1>2. s \in Seq(S \cup {x})
  BY <1>1
<1> DEFINE t == WithCurrent(s, x)
<1>3. t \in Seq(S \cup {x}) /\ Len(t) = Len(s)
  BY <1>1, <1>2 DEF WithCurrent
<1>4. t[1] = IF Len(s) = 1 THEN x ELSE s[1]
  BY <1>1 DEF WithCurrent
<1> QED BY <1>3, <1>4 DEF IsSequence

LEMMA Appended ==
  ASSUME NEW s, IsSequence(s), NEW x
  PROVE  /\ IsSequence(Append(s, x)) /\ Len(Append(s, x)) = Len(s) + 1
         /\ Len(s) >= 1 => Append(s, x)[1] = s[1]
<1>1. PICK S : s \in Seq(S)
  BY DEF IsSequence
<1>2. s \in Seq(S \cup {x})
  BY <1>1
<1>3. Append(s, x) \in Seq(S \cup {x}) /\ Len(Append(s, x)) = Len(s) + 1
  BY <1>2
<1>4. Len(s) >= 1 => Append(s, x)[1] = s[1]
  BY <1>2
<1> QED BY <1>3, <1>4 DEF IsSequence

LEMMA Shortened ==
  ASSUME NEW s, IsSequence(s), Len(s) >= 2
  PROVE  IsSequence(Front(s)) /\ Len(Front(s)) = Len(s) - 1 /\ Front(s)[1] = s[1]
<1>1. PICK S : s \in Seq(S)
  BY DEF IsSequence
<1>2. Front(s) \in Seq(S) /\ Len(Front(s)) = Len(s) - 1 /\ Front(s)[1] = s[1]
  BY <1>1 DEF Front
<1> QED BY <1>2 DEF IsSequence

(* A space that is made again, or is there already, is put in the place of  *)
(* the last one.                                                            *)
LEMMA CurrentPlaced ==
  ASSUME TypeOK, Book, NEW n
  PROVE  LET s == WithCurrent(spaces, CurrentAfter(n))
         IN  IsSequence(s) /\ Len(s) = Len(spaces) /\ s[1] \in Roots
<1>1. IsSequence(spaces) /\ Len(spaces) >= 1 /\ spaces[1] \in Roots /\ Len(spaces) \in Nat
  BY DEF TypeOK, Book, Height
<1>2. CASE Len(spaces) = 1
  <2>1. CurrentAfter(n) = spaces[1]
    BY <1>1, <1>2 DEF CurrentAfter, Last, Roots
  <2> QED BY <1>1, <1>2, <2>1, LastReplaced
<1>3. CASE Len(spaces) # 1
  BY <1>1, <1>3, LastReplaced
<1> QED BY <1>2, <1>3

LEMMA ToldPlaced ==
  ASSUME TypeOK, Book, NEW n, NEW lits \in SUBSET Literals
  PROVE  LET s == WithCurrent(spaces, With(CurrentAfter(n), lits))
         IN  IsSequence(s) /\ Len(s) = Len(spaces) /\ s[1] \in Roots
<1>1. IsSequence(spaces) /\ Len(spaces) >= 1 /\ spaces[1] \in Roots /\ Len(spaces) \in Nat
  BY DEF TypeOK, Book, Height
<1>2. CASE Len(spaces) = 1
  <2>1. CurrentAfter(n) = spaces[1]
    BY <1>1, <1>2 DEF CurrentAfter, Last, Roots
  <2>2. With(spaces[1], lits) \in Roots
    BY <1>1 DEF Roots, With
  <2> QED BY <1>1, <1>2, <2>1, <2>2, LastReplaced
<1>3. CASE Len(spaces) # 1
  BY <1>1, <1>3, LastReplaced
<1> QED BY <1>2, <1>3

LEMMA SpacePushed ==
  ASSUME TypeOK, Book, PushSpace
  PROVE  IsSequence(spaces') /\ Height' = Height + 1 /\ spaces'[1] \in Roots
<1>1. IsSequence(spaces) /\ Len(spaces) >= 1 /\ spaces[1] \in Roots /\ Len(spaces) \in Nat
  BY DEF TypeOK, Book, Height
<1>2. CASE Clones
  <2>1. spaces' = Append(WithCurrent(spaces, Current), Current)
    BY <1>2 DEF PushSpace
  <2> QED BY <1>1, <2>1, CurrentPlaced, Appended DEF Current, Height
<1>3. CASE ~Clones
  <2>1. spaces' = Append(WithCurrent(spaces, Moved), Last(spaces)) /\ Len(spaces) # 1
    BY <1>3 DEF PushSpace, Clones
  <2> QED BY <1>1, <2>1, LastReplaced, Appended DEF Height
<1> QED BY <1>2, <1>3

-----------------------------------------------------------------------------
LEMMA InitTrue == Init /\ ~option.optimize => IndInv
<1> SUFFICES ASSUME Init, ~option.optimize PROVE IndInv
  OBVIOUS
<1> USE DEF Init
<1>1. TypeOK
  <2>1. IsSequence(spaces)
    <3>1. spaces \in Seq({Space({}, NoBound)})
      OBVIOUS
    <3> QED BY <3>1 DEF IsSequence
  <2> QED BY <2>1 DEF TypeOK, Calls, Records, NoCall, Closure, Free
<1>2. Trail
  BY DEF Trail, OnLevel
<1>3. Book
  BY DEF Book, Roots, Space, End, Depth, Length, Height
<1>4. Control
  BY DEF Control, Places, AtSearch, AtFixpoint, AtOld, AtFilter, AtFinish, AtRedo, AtEach, AtConflict,
         AtTell, AtMore, AtUndo, Within, Full, NoCall, NoJump, OnLevel, Depth, Length, Height
<1> QED BY <1>1, <1>2, <1>3, <1>4 DEF IndInv

-----------------------------------------------------------------------------
LEMMA BookFacts ==
  ASSUME TypeOK, Book
  PROVE  /\ DL \in Nat /\ Depth \in Nat /\ Depth >= 1 /\ Length \in Nat
         /\ \A i \in 1 .. Depth : dl[i] \in Nat /\ assLength[i] \in Nat
         /\ \A i \in 1 .. Depth : dl[i] <= dl[Depth] /\ assLength[i] <= assLength[Depth]
         /\ dl[Depth] \in Nat /\ dl[Depth] <= DL /\ dl[1] = 0 /\ assLength[1] = 0
         /\ assLength[Depth] \in Nat /\ assLength[Depth] <= Length
         /\ \A k \in 1 .. Length : assignment[k] \in Literals
         /\ propagated \in Nat /\ propagated <= Length
         /\ Height \in 1 .. Depth /\ IsSequence(spaces) /\ spaces[1] \in Roots
<1>1. DL \in Nat /\ propagated \in Nat /\ dl \in Seq(Nat) /\ assLength \in Seq(Nat) /\ assignment \in Seq(Literals)
      /\ IsSequence(spaces)
  BY DEF TypeOK
<1>2. Depth \in Nat /\ Depth >= 1 /\ Len(assLength) \in Nat /\ Length \in Nat
      /\ Depth <= Len(assLength)
  BY <1>1 DEF Book, Depth, Length
<1>3. \A i \in 1 .. Depth : dl[i] \in Nat /\ assLength[i] \in Nat
  BY <1>1, <1>2 DEF Depth
<1>4. \A i \in 1 .. Depth : dl[i] <= dl[Depth] /\ assLength[i] <= assLength[Depth]
  BY <1>2, <1>3 DEF Book
<1>5. \A k \in 1 .. Length : assignment[k] \in Literals
  BY <1>1 DEF Length
<1> QED BY <1>1, <1>2, <1>3, <1>4, <1>5 DEF Book

(* The literals of a level are true on it.                                  *)
LEMMA Segments ==
  ASSUME TypeOK, Book, NEW i \in 2 .. Depth, NEW k \in assLength[i - 1] + 1 .. End(i)
  PROVE  k \in 1 .. Length /\ level[assignment[k]] = dl[i]
<1>1. i - 1 \in 1 .. Depth /\ assLength[i - 1] \in Nat /\ assLength[i] \in Nat /\ End(i) <= Length /\ End(i) \in Nat
  BY BookFacts DEF End
<1>2. k \in 1 .. Length
  BY <1>1, BookFacts
<1>3. level[assignment[k]] = dl[i]
  BY DEF Book
<1> QED BY <1>2, <1>3

LEMMA SameRecords ==
  ASSUME Book, UNCHANGED <<DL, level, watched, book>>
  PROVE  Book'
BY DEF Book, book, Depth, Length, Height, End

LEMMA SameBook ==
  ASSUME Trail, Book, UNCHANGED <<trail, book>>
  PROVE  Trail' /\ Book'
BY SameRecords DEF Trail, trail, OnLevel

LEMMA SameTypes ==
  ASSUME TypeOK, UNCHANGED <<theory, DL, level, book, updateOpt>>,
         pending' \in Seq(Literals), propQueue' \in Seq(Literals), derived' \subseteq Literals,
         impliedLits' \subseteq Records, call' \in Calls
  PROVE  TypeOK'
BY DEF TypeOK, theory, book, Depth, Length, Height

LEMMA ClashKeeps == ASSUME IndInv, Clash PROVE IndInv'
<1> USE DEF IndInv, Clash
<1>1. TypeOK'
  BY SameTypes DEF TypeOK, trail, learnt, optimum
<1>2. Trail' /\ Book'
  BY SameBook
<1>3. Control'
  BY DEF trail, book, Depth, Length, Height, Control, Places, AtSearch, AtFixpoint, AtOld, AtFilter, AtFinish, AtRedo, AtEach, AtConflict,
         AtTell, AtMore, AtUndo, Within, Full
<1> QED BY <1>1, <1>2, <1>3

LEMMA GiveUpKeeps == ASSUME IndInv, GiveUp PROVE IndInv'
<1> USE DEF IndInv, GiveUp
<1>1. TypeOK'
  BY SameTypes DEF TypeOK, trail, learnt, optimum
<1>2. Trail' /\ Book'
  BY SameBook
<1>3. Control'
  BY DEF Control, Places, AtSearch, AtFixpoint, AtOld, AtFilter, AtFinish, AtRedo, AtEach, AtConflict,
         AtTell, AtMore, AtUndo, Within
<1> QED BY <1>1, <1>2, <1>3

LEMMA ResolveKeeps == ASSUME IndInv, Resolve PROVE IndInv'
<1> USE DEF IndInv
<1>0. UNCHANGED <<DL, level, watched, book>> /\ pending' = <<>>
  BY DEF Resolve
<1>1. TypeOK'
  BY SameTypes DEF TypeOK, trail, learnt, optimum, Resolve
<1>2. Trail' /\ Book'
  BY <1>0, SameRecords DEF Trail, OnLevel
<1>3. PICK n \in 0 .. DL, l \in TrueLits :
        level[l] > n /\ jump' = [NoJump EXCEPT !.goal = n, !.lit = -l]
  BY DEF Resolve
<1>4. l \in Literals /\ -l \in Literals /\ -(-l) = l /\ level[-l] = Free /\ level[l] <= DL /\ n \in Nat
  BY <1>3, Negation DEF TrueLits, IsTrue, Trail, TypeOK, Free
<1>5. jump'.goal = n /\ jump'.lit = -l /\ jump'.resume = "search" /\ pc' = "undo" /\ propQueue' = <<>>
  BY <1>3 DEF Resolve, NoJump
<1>6. Full \/ dl[Depth] = DL
  BY DEF Resolve, Control, AtConflict
<1>7. AtSearch'
  BY <1>0, <1>3, <1>4, <1>5, <1>6 DEF AtSearch, Within, Full, book, Depth, Length, Height, TypeOK
<1>8. AtUndo'
  BY <1>0, <1>3, <1>4, <1>5 DEF AtUndo
<1>9. Control'
  BY <1>5, <1>7, <1>8 DEF Control, Places, AtFixpoint, AtOld, AtFilter, AtFinish, AtRedo, AtEach, AtConflict,
                          AtTell, AtMore, Within
<1> QED BY <1>1, <1>2, <1>9

(* A literal that is free becomes true on the last level.                   *)
LEMMA AssignKeeps ==
  ASSUME TypeOK, Trail, Book, NEW l \in Literals, NEW n \in Nat, Assign(l, n), IsFree(l),
         DL' = n, n = DL \/ (n = DL + 1 /\ pending = <<>>), UNCHANGED <<watched, book>>
  PROVE  /\ level' \in [Literals -> Int] /\ pending' \in Seq(Literals)
         /\ Trail' /\ Book'
         /\ \A k \in Literals : level[k] # Free => level'[k] = level[k]
<1>1. level' = [level EXCEPT ![l] = n] /\ pending' = Append(pending, l)
  BY DEF Assign
<1>2. level' \in [Literals -> Int] /\ pending' \in Seq(Literals)
  BY <1>1 DEF TypeOK
<1>3. level[l] = Free /\ level[-l] = Free
  BY DEF IsFree, IsTrue, IsFalse
<1>4. \A k \in Literals : level[k] # Free => level'[k] = level[k]
  BY <1>1, <1>3 DEF TypeOK
<1>5. Trail'
  <2>1. ASSUME NEW k \in Literals
        PROVE  /\ level'[k] = Free \/ level'[k] \in 0 .. n
               /\ level'[k] = Free \/ level'[-k] = Free
    <3>1. level'[k] = (IF k = l THEN n ELSE level[k]) /\ level'[-k] = (IF -k = l THEN n ELSE level[-k])
      BY <1>1, Negation DEF TypeOK
    <3>2. level[k] = Free \/ level[k] \in 0 .. DL
      BY DEF Trail
    <3>3. level[k] = Free \/ level[-k] = Free
      BY DEF Trail
    <3>4. -k = l => k = -l
      BY Negation
    <3> QED BY <1>3, <3>1, <3>2, <3>3, <3>4, Negation DEF TypeOK
  <2>2. ASSUME NEW k \in DOMAIN pending'
        PROVE  level'[pending'[k]] = n
    BY <1>1, <1>3, <1>4 DEF Trail, TypeOK, OnLevel, Free
  <2> QED BY <2>1, <2>2 DEF Trail, OnLevel
<1>6. Book'
  <2>1. ASSUME NEW i \in 2 .. Depth, NEW k \in assLength[i - 1] + 1 .. End(i)
        PROVE  level'[assignment[k]] = dl[i]
    <3>1. level[assignment[k]] = dl[i] /\ dl[i] \in Nat /\ assignment[k] \in Literals
      BY Segments, BookFacts
    <3> QED BY <3>1, <1>4 DEF Free
  <2>2. dl[Depth] <= n
    BY BookFacts
  <2> QED BY <2>1, <2>2 DEF Book, book, Depth, Length, Height, End
<1> QED BY <1>2, <1>4, <1>5, <1>6

LEMMA DecideKeeps == ASSUME IndInv, Decide PROVE IndInv'
<1> USE DEF IndInv
<1>1. PICK l \in Literals : IsFree(l) /\ Assign(l, DL + 1)
  BY DEF Decide
<1>2. pending = <<>> /\ propQueue = <<>> /\ Full
  BY DEF Decide, Control, AtFixpoint
<1>3. DL' = DL + 1 /\ DL \in Nat /\ UNCHANGED <<watched, book>>
  BY DEF Decide, TypeOK
<1>4. level' \in [Literals -> Int] /\ pending' \in Seq(Literals) /\ Trail' /\ Book'
  BY <1>1, <1>2, <1>3, AssignKeeps
<1>5. TypeOK'
  BY <1>3, <1>4 DEF TypeOK, Decide, theory, book, Depth, Length, Height, learnt, optimum
<1>6. Control'
  BY <1>2, <1>3 DEF Decide, Control, Places, AtSearch, AtFixpoint, AtOld, AtFilter, AtFinish, AtRedo, AtEach, AtConflict,
         AtTell, AtMore, AtUndo, Within, Full, OnLevel, book, Depth, Length, Height
<1> QED BY <1>4, <1>5, <1>6

LEMMA DecideOtherKeeps == ASSUME IndInv, DecideOther PROVE IndInv'
<1> USE DEF IndInv
<1>1. pc = "fixpoint" /\ pc' = pc /\ DL' = DL + 1 /\ UNCHANGED <<level, pending, watched, book, propQueue>>
  BY DEF DecideOther
<1>2. pending = <<>> /\ propQueue = <<>> /\ Full
  BY <1>1 DEF Control, AtFixpoint
<1>3. TypeOK'
  BY <1>1 DEF TypeOK, DecideOther, theory, book, Depth, Length, Height, learnt, optimum
<1>4. Trail'
  BY <1>1, <1>2 DEF Trail, OnLevel, TypeOK
<1>5. Book'
  <2>1. dl[Depth] <= DL + 1
    BY BookFacts
  <2> QED BY <1>1, <2>1 DEF Book, book, Depth, Length, Height, End
<1>6. Control'
  BY <1>1, <1>2 DEF Control, Places, AtSearch, AtFixpoint, AtOld, AtFilter, AtFinish, AtRedo, AtEach, AtConflict,
         AtTell, AtMore, AtUndo, Within, Full, book, Depth, Length, Height
<1> QED BY <1>3, <1>4, <1>5, <1>6

LEMMA InferKeeps == ASSUME IndInv, Infer PROVE IndInv'
<1> USE DEF IndInv
<1>1. PICK l \in Literals : IsFree(l) /\ Assign(l, DL)
  BY DEF Infer
<1>2. pc = "search" /\ pc' = pc /\ UNCHANGED <<DL, watched, book, propQueue>>
  BY DEF Infer
<1>3. level' \in [Literals -> Int] /\ pending' \in Seq(Literals) /\ Trail' /\ Book'
      /\ \A k \in Literals : level[k] # Free => level'[k] = level[k]
  BY <1>1, <1>2, AssignKeeps DEF TypeOK
<1>4. TypeOK'
  BY <1>2, <1>3 DEF TypeOK, Infer, theory, book, Depth, Length, Height, learnt, optimum
<1>5. AtSearch'
  BY <1>2, <1>3 DEF Control, AtSearch, Within, Full, OnLevel, book, Depth, Length, Height, TypeOK, Free
<1>6. Control'
  BY <1>2, <1>5 DEF Control, Places, AtFixpoint, AtOld, AtFilter, AtFinish, AtRedo, AtEach, AtConflict,
         AtTell, AtMore, AtUndo, Within
<1> QED BY <1>3, <1>4, <1>6

LEMMA PropagateLiteralKeeps == ASSUME IndInv, PropagateLiteral PROVE IndInv'
<1> USE DEF IndInv
<1>1. /\ pc = "search" /\ pc' = pc /\ UNCHANGED <<DL, level, watched, book>>
      /\ pending # <<>> /\ pending' = Tail(pending) /\ propQueue' = Append(propQueue, Head(pending))
  BY DEF PropagateLiteral
<1>2. TypeOK'
  BY <1>1 DEF TypeOK, PropagateLiteral, theory, book, Depth, Length, Height, learnt, optimum
<1>3. Trail' /\ Book'
  BY <1>1, SameRecords DEF Trail, TypeOK, OnLevel
<1>4. AtSearch'
  <2>1. Full /\ OnLevel(propQueue)
    BY <1>1 DEF Control, AtSearch, Within
  <2>2. level[Head(pending)] = DL
    BY <1>1 DEF Trail, OnLevel, TypeOK
  <2>3. ASSUME NEW k \in DOMAIN propQueue' PROVE level[propQueue'[k]] = DL
    BY <1>1, <2>1, <2>2 DEF OnLevel, TypeOK
  <2> QED BY <1>1, <2>1, <2>3 DEF AtSearch, Full, OnLevel, book, Depth, Length, Height
<1>5. Control'
  BY <1>1, <1>4 DEF Control, Places, AtFixpoint, AtOld, AtFilter, AtFinish, AtRedo, AtEach, AtConflict,
         AtTell, AtMore, AtUndo, Within
<1> QED BY <1>2, <1>3, <1>5

LEMMA ArriveKeeps == ASSUME IndInv, Arrive PROVE IndInv'
<1> USE DEF IndInv
<1>1. pc = "undo" /\ DL = jump.goal /\ pc' = jump.resume /\ UNCHANGED <<DL, watched, book, propQueue, call>>
  BY DEF Arrive
<1>0. ~(jump.goal < dl[Depth])
  BY <1>1, BookFacts
<1>2. jump.lit \in Literals /\ -jump.lit \in Literals /\ jump.lit # 0 /\ IsFree(jump.lit)
  BY <1>1, Negation DEF Control, AtUndo, IsFree, IsTrue, IsFalse, Trail, TypeOK, Free
<1>3. level' \in [Literals -> Int] /\ pending' \in Seq(Literals) /\ Trail' /\ Book'
      /\ \A k \in Literals : level[k] # Free => level'[k] = level[k]
  BY <1>1, <1>2, AssignKeeps DEF Arrive, TypeOK
<1>4. TypeOK'
  BY <1>1, <1>3 DEF TypeOK, Arrive, theory, book, Depth, Length, Height, optimum
<1>5. ASSUME NEW lits \in Seq(Literals), OnLevel(lits)
      PROVE  \A k \in DOMAIN lits : level'[lits[k]] = DL
  BY <1>3, <1>5 DEF OnLevel, TypeOK, Free
<1>6. Full' = Full
  BY <1>1 DEF Full, book, Depth, Length, Height
<1>7. ASSUME jump.resume = "search" PROVE Control'
  <2>1. AtSearch'
    <3>1. Full /\ propQueue = <<>>
      BY <1>0, <1>1, <1>7 DEF Control, AtSearch, Within
    <3> QED BY <1>1, <1>6, <1>7, <3>1 DEF AtSearch, OnLevel
  <2> QED BY <1>1, <1>7, <2>1 DEF Control, Places, AtFixpoint, AtOld, AtFilter, AtFinish, AtRedo, AtEach, AtConflict,
             AtTell, AtMore, AtUndo, Within
<1>8. ASSUME jump.resume = "old" PROVE Control'
  <2>1. AtOld'
    <3>1. Full /\ call.oldDL >= DL /\ call.clits = <<>> /\ (call.oldDL = DL => OnLevel(propQueue))
      BY <1>1, <1>8 DEF Control, AtOld, Within
    <3>2. propQueue \in Seq(Literals)
      BY DEF TypeOK
    <3> QED BY <1>1, <1>5, <1>6, <3>1, <3>2 DEF AtOld, OnLevel
  <2> QED BY <1>1, <1>8, <2>1 DEF Control, Places, AtSearch, AtFixpoint, AtFilter, AtFinish, AtRedo, AtEach, AtConflict,
             AtTell, AtMore, AtUndo, Within
<1>9. ASSUME jump.resume = "more" PROVE Control'
  <2>1. AtSearch'
    <3>1. call.return = "search" => propQueue = <<>> /\ Full
      BY <1>0, <1>1, <1>9 DEF Control, AtSearch, Within
    <3> QED BY <1>1, <1>6, <1>9, <3>1 DEF AtSearch, Within
  <2>2. AtRedo'
    <3>1. call.clits \in Seq(Literals)
      BY DEF TypeOK, Calls
    <3>2. call.return = "redo" => Within("redo")
      BY <1>1, <1>9 DEF Within
    <3> QED BY <1>1, <1>5, <1>6, <1>9, <3>1, <3>2 DEF Control, AtRedo, Within, OnLevel, book, Depth, Length, Height
  <2>3. AtEach'
    BY <1>1, <1>6, <1>9 DEF Control, AtEach, Within, book, Depth, Length, Height
  <2>4. AtMore'
    BY <1>1, <1>9 DEF Control, AtUndo, AtMore
  <2>5. AtOld'
    BY <1>1, <1>9 DEF AtOld, Within, TypeOK, Calls
  <2> QED BY <1>1, <1>9, <2>1, <2>2, <2>3, <2>4, <2>5
          DEF Control, Places, AtFixpoint, AtFilter, AtFinish, AtConflict, AtTell, AtUndo
<1>10. Control'
  BY <1>1, <1>7, <1>8, <1>9 DEF Control, AtUndo
<1> QED BY <1>3, <1>4, <1>10

LEMMA Prefixed ==
  ASSUME NEW S, NEW s \in Seq(S), NEW n \in 0 .. Len(s)
  PROVE  /\ SubSeq(s, 1, n) \in Seq(S) /\ Len(SubSeq(s, 1, n)) = n
         /\ \A i \in 1 .. n : SubSeq(s, 1, n)[i] = s[i]
OBVIOUS

LEMMA MinOfTwo ==
  ASSUME NEW a \in Nat, NEW b \in Nat
  PROVE  Min({a, b}) \in Nat /\ Min({a, b}) <= a /\ Min({a, b}) <= b
<1>1. \E x \in {a, b} : \A y \in {a, b} : x <= y
  OBVIOUS
<1>2. Min({a, b}) = CHOOSE x \in {a, b} : \A y \in {a, b} : x <= y
  BY Zenon DEF Min
<1>3. Min({a, b}) \in {a, b} /\ \A y \in {a, b} : Min({a, b}) <= y
  BY <1>1, <1>2, Zenon
<1> QED BY <1>3

(* undo() drops the last level and what belongs to it.                      *)
LEMMA LevelDropped ==
  ASSUME TypeOK, Book, PopLevel, Depth >= 2
  PROVE  /\ dl' \in Seq(Nat) /\ assLength' \in Seq(Nat) /\ assignment' \in Seq(Literals)
         /\ Depth' = Depth - 1 /\ Len(assLength') <= Depth - 1 /\ Len(assLength') >= Depth - 1
         /\ Length' = assLength[Depth - 1] /\ Length' <= Length
         /\ \A i \in 1 .. Depth - 1 : dl'[i] = dl[i] /\ assLength'[i] = assLength[i]
         /\ \A k \in 1 .. Length' : assignment'[k] = assignment[k]
         /\ propagated' \in Nat /\ propagated' <= Length'
         /\ IsSequence(spaces') /\ Height' \in 1 .. Depth' /\ spaces'[1] \in Roots
<1>1. dl \in Seq(Nat) /\ assLength \in Seq(Nat) /\ assignment \in Seq(Literals) /\ propagated \in Nat
  BY DEF TypeOK
<1>2. Depth \in Nat /\ Depth - 1 \in 1 .. Depth /\ Depth - 1 \in 0 .. Len(dl) /\ Depth - 1 \in 0 .. Len(assLength)
  BY <1>1 DEF Book, Depth
<1>3. assLength[Depth - 1] \in Nat /\ assLength[Depth - 1] <= Length /\ Length \in Nat
  BY <1>2, BookFacts
<1>4. assLength[Depth - 1] \in 0 .. Len(assignment)
  BY <1>3 DEF Length
<1>5. Len(assLength) <= Depth /\ Len(assLength) >= Depth
  BY DEF Book
<1>6. dl' = SubSeq(dl, 1, Depth - 1) /\ assLength' = SubSeq(assLength, 1, Depth - 1)
  <2>1. Len(assLength) = Depth
    BY <1>1, <1>2, <1>5
  <2> QED BY <2>1 DEF PopLevel, Front, Depth
<1>7. assignment' = SubSeq(assignment, 1, assLength[Depth - 1])
      /\ propagated' = Min({propagated, assLength[Depth - 1]})
  BY DEF PopLevel, Depth
<1>8. /\ dl' \in Seq(Nat) /\ Depth' = Depth - 1 /\ \A i \in 1 .. Depth - 1 : dl'[i] = dl[i]
  <2>1. Len(SubSeq(dl, 1, Depth - 1)) = Depth - 1 /\ SubSeq(dl, 1, Depth - 1) \in Seq(Nat)
        /\ \A i \in 1 .. Depth - 1 : SubSeq(dl, 1, Depth - 1)[i] = dl[i]
    BY <1>1, <1>2, Prefixed, Zenon
  <2>2. Depth' = Len(dl')
    BY DEF Depth
  <2> QED BY <1>6, <2>1, <2>2, Zenon
<1>9. /\ assLength' \in Seq(Nat) /\ Len(assLength') = Depth - 1
      /\ \A i \in 1 .. Depth - 1 : assLength'[i] = assLength[i]
  <2>1. Len(SubSeq(assLength, 1, Depth - 1)) = Depth - 1 /\ SubSeq(assLength, 1, Depth - 1) \in Seq(Nat)
        /\ \A i \in 1 .. Depth - 1 : SubSeq(assLength, 1, Depth - 1)[i] = assLength[i]
    BY <1>1, <1>2, Prefixed, Zenon
  <2> QED BY <1>6, <2>1, Zenon
<1>10. /\ assignment' \in Seq(Literals) /\ Length' = assLength[Depth - 1]
       /\ \A k \in 1 .. assLength[Depth - 1] : assignment'[k] = assignment[k]
  <2> DEFINE m == assLength[Depth - 1]
  <2>1. Len(SubSeq(assignment, 1, m)) = m /\ SubSeq(assignment, 1, m) \in Seq(Literals)
        /\ \A i \in 1 .. m : SubSeq(assignment, 1, m)[i] = assignment[i]
    BY <1>1, <1>4, Prefixed, Zenon
  <2>2. Length' = Len(assignment')
    BY DEF Length
  <2> QED BY <1>7, <2>1, <2>2, Zenon
<1>11. propagated' \in Nat /\ propagated' <= assLength[Depth - 1]
  BY <1>1, <1>3, <1>7, MinOfTwo
<1>12. IsSequence(spaces') /\ Height' \in 1 .. Depth - 1 /\ spaces'[1] \in Roots
  <2>1. IsSequence(spaces) /\ Len(spaces) \in 1 .. Depth /\ spaces[1] \in Roots
    BY BookFacts DEF Height
  <2>2. spaces' = IF Len(spaces) > Depth - 1 THEN Front(spaces) ELSE spaces
    BY DEF PopLevel, Depth
  <2>3. CASE Len(spaces) > Depth - 1
    BY <1>2, <2>1, <2>2, <2>3, Shortened DEF Height
  <2>4. CASE ~(Len(spaces) > Depth - 1)
    BY <1>2, <2>1, <2>2, <2>4 DEF Height
  <2> QED BY <2>3, <2>4
<1>13. Len(assLength') <= Depth - 1 /\ Len(assLength') >= Depth - 1
  BY <1>2, <1>9
<1> QED BY <1>3, <1>8, <1>9, <1>10, <1>11, <1>12, <1>13

LEMMA UndoLevelKeeps == ASSUME IndInv, UndoLevel PROVE IndInv'
<1> USE DEF IndInv
<1> DEFINE n == Depth
<1>1. /\ pc = "undo" /\ DL > jump.goal /\ jump.goal \in Nat /\ DL' = DL - 1 /\ DL \in Nat
      /\ level' = [l \in Literals |-> IF level[l] = DL THEN Free ELSE level[l]]
      /\ pending' = <<>> /\ UNCHANGED <<jump, pc, call>>
  BY DEF UndoLevel, Control, AtUndo, TypeOK
<1>2. level' \in [Literals -> Int]
  BY <1>1 DEF TypeOK, Free
<1>3. Trail'
  <2>1. ASSUME NEW l \in Literals
        PROVE  /\ level'[l] = Free \/ level'[l] \in 0 .. DL - 1
               /\ level'[l] = Free \/ level'[-l] = Free
    BY <1>1, Negation DEF Trail, TypeOK, Free
  <2> QED BY <1>1, <2>1 DEF Trail, OnLevel
<1>4. AtUndo'
  BY <1>1, Negation DEF Control, AtUndo, TypeOK
<1>5. CASE DL \in watched
  <2>1. PopLevel /\ watched' = watched \ {DL}
    BY <1>5 DEF UndoLevel
  <2>2. dl[n] = DL /\ n >= 2 /\ n \in Nat /\ n - 1 \in 1 .. n
    <3>1. PICK i \in 2 .. n : DL = dl[i]
      BY <1>5 DEF Book
    <3>2. dl[i] <= dl[n] /\ dl[n] <= DL
      BY <3>1, BookFacts
    <3> QED BY <3>1, <3>2, BookFacts
  <2>3. /\ dl' \in Seq(Nat) /\ assLength' \in Seq(Nat) /\ assignment' \in Seq(Literals)
        /\ propagated' \in Nat /\ IsSequence(spaces')
    BY <2>1, <2>2, LevelDropped
  <2>4. /\ Depth' = n - 1 /\ Len(assLength') <= n - 1 /\ Len(assLength') >= n - 1
        /\ Length' = assLength[n - 1] /\ Length' <= Length
        /\ propagated' <= Length' /\ Height' \in 1 .. Depth' /\ spaces'[1] \in Roots
    BY <2>1, <2>2, LevelDropped
  <2>5. /\ \A i \in 1 .. n - 1 : dl'[i] = dl[i] /\ assLength'[i] = assLength[i]
        /\ \A k \in 1 .. Length' : assignment'[k] = assignment[k]
    BY <2>1, <2>2, LevelDropped
  <2>6. \A i \in 1 .. n - 1 : dl[i] < DL /\ dl[i] \in Nat /\ assLength[i] \in Nat /\ assLength[i] <= assLength[n - 1]
    <3>1. ASSUME NEW i \in 1 .. n - 1
          PROVE  dl[i] < DL /\ assLength[i] <= assLength[n - 1]
      <4>1. dl[i] < dl[n] /\ (i < n - 1 => assLength[i] < assLength[n - 1])
        BY <2>2 DEF Book
      <4>2. assLength[i] \in Nat /\ assLength[n - 1] \in Nat
        BY <2>2, BookFacts
      <4> QED BY <2>2, <4>1, <4>2
    <3> QED BY <2>2, <3>1, BookFacts
  <2>8. propQueue' = <<>> /\ propQueue' \in Seq(Literals)
    BY <2>1 DEF PopLevel
  <2>9. TypeOK'
    BY <1>1, <1>2, <2>3, <2>8 DEF TypeOK, UndoLevel, theory, optimum
  <2>10. Book'
    <3>1. ASSUME NEW i \in 2 .. n - 1, NEW k \in assLength'[i - 1] + 1 .. End(i)'
          PROVE  level'[assignment'[k]] = dl'[i]
      <4>1. i \in 1 .. n - 1 /\ i - 1 \in 1 .. n - 1 /\ i \in 2 .. Depth /\ i # n
        BY <2>2
      <4>2. End(i)' = assLength[i] /\ assLength'[i - 1] = assLength[i - 1] /\ End(i) = assLength[i]
        BY <2>4, <2>5, <4>1 DEF End
      <4>3. k \in 1 .. assLength[n - 1] /\ k \in assLength[i - 1] + 1 .. End(i)
        <5>1. k \in assLength[i - 1] + 1 .. assLength[i]
          BY <4>2
        <5>2. assLength[i - 1] \in Nat /\ assLength[i] \in Nat /\ assLength[i] <= assLength[n - 1] /\ assLength[n - 1] \in Nat
          BY <2>2, <2>6, <4>1
        <5> QED BY <4>2, <5>1, <5>2
      <4>4. level[assignment[k]] = dl[i] /\ assignment[k] \in Literals
        <5>1. level[assignment[k]] = dl[i] /\ k \in 1 .. Length
          BY <4>1, <4>3, Segments
        <5> QED BY <5>1, BookFacts
      <4>5. dl'[i] = dl[i] /\ dl[i] # DL /\ assignment'[k] = assignment[k]
        BY <1>1, <2>4, <2>5, <2>6, <4>1, <4>3
      <4> QED BY <1>1, <4>4, <4>5
    <3>2. watched' = {dl'[i] : i \in 2 .. n - 1}
      <4>1. watched = {dl[i] : i \in 2 .. n}
        BY DEF Book
      <4>2. \A i \in 2 .. n - 1 : dl'[i] = dl[i] /\ dl[i] # DL
        BY <1>1, <2>2, <2>5, <2>6
      <4> QED BY <2>1, <2>2, <4>1, <4>2
    <3>3. \A i, j \in 1 .. n - 1 : i < j => dl'[i] < dl'[j] /\ assLength'[i] < assLength'[j]
      <4>1. \A i, j \in 1 .. n - 1 : i < j => dl[i] < dl[j] /\ assLength[i] < assLength[j]
        BY <2>2 DEF Book
      <4> QED BY <2>5, <4>1
    <3>4. n - 1 <= 1 => assignment' = <<>>
      <4>1. n - 1 <= 1 => Length' <= 0
        BY <2>2, <2>4, BookFacts
      <4> QED BY <2>3, <4>1 DEF Length
    <3>5. dl'[1] = 0 /\ assLength'[1] = 0 /\ dl'[n - 1] <= DL - 1 /\ assLength'[n - 1] <= Length'
      <4>1. 1 \in 1 .. n - 1 /\ n - 1 \in 1 .. n - 1
        BY <2>2
      <4>2. dl[1] = 0 /\ assLength[1] = 0
        BY BookFacts
      <4>3. dl[n - 1] < DL /\ dl[n - 1] \in Nat /\ assLength[n - 1] \in Nat
        BY <2>6, <4>1
      <4>4. dl'[1] = dl[1] /\ assLength'[1] = assLength[1] /\ dl'[n - 1] = dl[n - 1] /\ assLength'[n - 1] = assLength[n - 1]
        BY <2>5, <4>1
      <4>5. assLength'[n - 1] <= Length'
        BY <2>4, <4>3, <4>4
      <4> QED BY <1>1, <4>2, <4>3, <4>4, <4>5
    <3>6. Depth' >= 1 /\ Len(assLength') >= Depth' /\ Len(assLength') <= Depth'
      BY <2>2, <2>4
    <3>7. \A i \in 2 .. Depth' : \A k \in assLength'[i - 1] + 1 .. End(i)' : level'[assignment'[k]] = dl'[i]
      BY <2>4, <3>1
    <3> QED BY <1>1, <2>4, <3>2, <3>3, <3>4, <3>5, <3>6, <3>7 DEF Book
  <2>11. Full'
    BY <2>2, <2>4, <2>5 DEF Full
  <2>12. Control'
    BY <1>1, <1>4, <2>8, <2>11 DEF Control, Places, AtSearch, AtFixpoint, AtOld, AtFilter, AtFinish, AtRedo, AtEach, AtConflict,
             AtTell, AtMore, Within, TypeOK, Calls
  <2> QED BY <1>3, <2>9, <2>10, <2>12
<1>6. CASE DL \notin watched
  <2>1. UNCHANGED <<watched, book, propQueue>>
    BY <1>6 DEF UndoLevel
  <2>2. dl[n] < DL
    <3>1. n \in Nat /\ n >= 1 /\ dl[n] \in Nat /\ dl[n] <= DL /\ dl[1] = 0
      BY BookFacts
    <3>2. CASE n <= 1
      BY <1>1, <3>1, <3>2
    <3>3. CASE n >= 2
      BY <1>1, <1>6, <3>1, <3>3 DEF Book
    <3> QED BY <3>1, <3>2, <3>3
  <2>3. TypeOK'
    BY <1>1, <1>2, <2>1 DEF TypeOK, UndoLevel, theory, optimum, book, Depth, Length, Height
  <2>4. Book'
    <3>1. ASSUME NEW i \in 2 .. n, NEW k \in assLength[i - 1] + 1 .. End(i)
          PROVE  level'[assignment[k]] = dl[i]
      <4>1. dl[i] <= dl[n] /\ dl[i] \in Nat /\ dl[n] \in Nat
        BY BookFacts
      <4>2. level[assignment[k]] = dl[i] /\ assignment[k] \in Literals
        BY Segments, BookFacts
      <4> QED BY <1>1, <2>2, <4>1, <4>2
    <3>2. dl[n] <= DL - 1
      BY <1>1, <2>2, BookFacts
    <3>3. UNCHANGED <<Depth, Length, Height, dl, assLength, assignment, spaces, propagated, watched>>
      BY <2>1 DEF book, Depth, Length, Height
    <3>4. \A i \in 2 .. Depth : End(i)' = End(i)
      BY <3>3 DEF End
    <3>5. \A i \in 2 .. Depth' : \A k \in assLength'[i - 1] + 1 .. End(i)' : level'[assignment'[k]] = dl'[i]
      BY <3>1, <3>3, <3>4
    <3>6. dl'[Depth'] <= DL'
      BY <1>1, <3>2, <3>3
    <3> QED BY <3>3, <3>5, <3>6 DEF Book
  <2>5. Full' = Full
    BY <2>1 DEF Full, book, Depth, Length, Height
  <2>6. AtEach'
    <3>1. Within("each")' = Within("each")
      BY <1>1 DEF Within
    <3>2. call.oldDL \in Nat
      BY DEF TypeOK, Calls
    <3> QED BY <1>1, <2>1, <2>2, <2>5, <3>1, <3>2 DEF Control, AtEach
  <2>7. AtOld' /\ AtRedo'
    BY <1>1, <2>1, <2>5 DEF Control, AtOld, AtRedo, Within, TypeOK, Calls
  <2>8. AtSearch'
    BY <1>1, <2>1, <2>5 DEF Control, AtSearch, Within, book, Depth, Length, Height
  <2>9. Control'
    BY <1>1, <1>4, <2>6, <2>7, <2>8 DEF Control, Places, AtFixpoint, AtFilter, AtFinish, AtConflict, AtTell, AtMore
  <2> QED BY <1>3, <2>3, <2>4, <2>9
<1> QED BY <1>5, <1>6

-----------------------------------------------------------------------------
(* What has to hold at the place a step leads to.                           *)
LEMMA ToSearch ==
  ASSUME pc' = "search", Full', OnLevel(propQueue)'
  PROVE  Control'
BY DEF Control, Places, AtSearch, AtFixpoint, AtOld, AtFilter, AtFinish, AtRedo, AtEach, AtConflict,
       AtTell, AtMore, AtUndo, Within

LEMMA ToFixpoint ==
  ASSUME pc' = "fixpoint", Full', propQueue' = <<>>, pending' = <<>>
  PROVE  Control'
BY DEF Control, Places, AtSearch, AtFixpoint, AtOld, AtFilter, AtFinish, AtRedo, AtEach, AtConflict,
       AtTell, AtMore, AtUndo, Within

LEMMA ToConflict ==
  ASSUME pc' = "conflict", (Full \/ dl[Depth] = DL)'
  PROVE  Control'
BY DEF Control, Places, AtSearch, AtFixpoint, AtOld, AtFilter, AtFinish, AtRedo, AtEach, AtConflict,
       AtTell, AtMore, AtUndo, Within

LEMMA ToOld ==
  ASSUME pc' = "old", Full', call'.oldDL = DL', call'.clits = <<>>, OnLevel(propQueue)', DL' \in Nat
  PROVE  Control'
BY DEF Control, Places, AtSearch, AtFixpoint, AtOld, AtFilter, AtFinish, AtRedo, AtEach, AtConflict,
       AtTell, AtMore, AtUndo, Within

LEMMA ToFilter ==
  ASSUME pc' = "filter", Full', OnLevel(propQueue)', OnLevel(call.clits)'
  PROVE  Control'
BY DEF Control, Places, AtSearch, AtFixpoint, AtOld, AtFilter, AtFinish, AtRedo, AtEach, AtConflict,
       AtTell, AtMore, AtUndo, Within

LEMMA ToFinish ==
  ASSUME pc' = "finish", AtFinish'
  PROVE  Control'
BY DEF Control, Places, AtSearch, AtFixpoint, AtOld, AtFilter, AtRedo, AtEach, AtConflict,
       AtTell, AtMore, AtUndo, Within

LEMMA ToRedo ==
  ASSUME pc' = "redo", AtRedo'
  PROVE  Control'
BY DEF Control, Places, AtSearch, AtFixpoint, AtOld, AtFilter, AtFinish, AtEach, AtConflict,
       AtTell, AtMore, AtUndo, Within

LEMMA ToEach ==
  ASSUME pc' = "each", AtEach'
  PROVE  Control'
BY DEF Control, Places, AtSearch, AtFixpoint, AtOld, AtFilter, AtFinish, AtRedo, AtConflict,
       AtTell, AtMore, AtUndo, Within

(* Steps that change at most the spaces and how far they have got.          *)
LEMMA NewSpaces ==
  ASSUME Trail, Book, UNCHANGED <<trail, assignment, dl, assLength>>,
         Height' \in 1 .. Depth, spaces'[1] \in Roots, propagated' <= Length
  PROVE  Trail' /\ Book' /\ Full' = Full /\ Depth' = Depth /\ Length' = Length
<1>1. UNCHANGED <<Depth, Length, Full>>
  BY DEF Depth, Length, Full
<1>2. \A i \in 2 .. Depth : End(i)' = End(i)
  BY <1>1 DEF End
<1>3. UNCHANGED <<DL, level, pending, watched>>
  BY DEF trail
<1>4. \A i \in 2 .. Depth' : \A k \in assLength'[i - 1] + 1 .. End(i)' : level'[assignment'[k]] = dl'[i]
  BY <1>1, <1>2, <1>3 DEF Book
<1>5. Book'
  BY <1>1, <1>3, <1>4 DEF Book
<1>6. Trail'
  BY <1>3 DEF Trail, OnLevel
<1> QED BY <1>1, <1>5, <1>6

LEMMA Replaced ==
  ASSUME TypeOK, Trail, Book, UNCHANGED <<trail, assignment, dl, assLength, propagated>>,
         IsSequence(spaces'), Len(spaces') = Len(spaces), spaces'[1] \in Roots
  PROVE  Trail' /\ Book' /\ Full' = Full /\ Depth' = Depth /\ Length' = Length
<1>1. Height' \in 1 .. Depth
  <2>1. Height' = Height
    BY Zenon DEF Height
  <2> QED BY <2>1, BookFacts
<1> QED BY <1>1, NewSpaces, BookFacts

LEMMA NoCallTyped == NoCall \in Calls
BY DEF NoCall, Calls

LEMMA CallTyped ==
  ASSUME NEW n \in Nat
  PROVE  [NoCall EXCEPT !.oldDL = n] \in Calls
<1>1. ASSUME NEW c \in Calls PROVE [c EXCEPT !.oldDL = n] \in Calls
  BY DEF Calls
<1> QED BY <1>1, NoCallTyped

LEMMA CallChanged ==
  ASSUME NEW c \in Calls, NEW lits \in Seq(Literals)
  PROVE  [c EXCEPT !.clits = lits] \in Calls /\ [c EXCEPT !.clits = lits].clits = lits
BY DEF Calls

LEMMA InSearch ==
  ASSUME Control, pc = "search"
  PROVE  Full /\ OnLevel(propQueue)
BY DEF Control, AtSearch, Within

LEMMA InOld ==
  ASSUME Control, pc = "old"
  PROVE  Full /\ call.oldDL >= DL /\ call.clits = <<>> /\ (call.oldDL = DL => OnLevel(propQueue))
BY DEF Control, AtOld, Within

LEMMA InFilter ==
  ASSUME Control, pc = "filter"
  PROVE  Full /\ OnLevel(propQueue) /\ OnLevel(call.clits)
BY DEF Control, AtFilter

-----------------------------------------------------------------------------
LEMMA PropagateKeeps == ASSUME IndInv, Propagate PROVE IndInv'
<1> USE DEF IndInv
<1>1. pc = "search" /\ ~updateOpt
  BY DEF Propagate, Control, Places, TypeOK
<1>2. /\ UNCHANGED <<theory, DL, level, trail, assignment, dl, assLength, propagated, pending, propQueue>>
      /\ spaces' = WithCurrent(spaces, Current)
  BY DEF Propagate, trail
<1>3. IsSequence(spaces') /\ Len(spaces') = Len(spaces) /\ spaces'[1] \in Roots
  BY <1>2, CurrentPlaced DEF Current
<1>4. Trail' /\ Book' /\ Full' = Full
  BY <1>2, <1>3, Replaced
<1>5. Full /\ OnLevel(propQueue)
  BY <1>1, InSearch
<1>6. CASE Failed(Current)
  <2>1. pc' = "conflict" /\ call' = NoCall /\ derived' = {} /\ UNCHANGED <<updateOpt, impliedLits>>
    BY <1>6 DEF Propagate, SetConflict, Return
  <2>2. TypeOK'
    BY <1>2, <1>3, <2>1, NoCallTyped DEF TypeOK, theory
  <2> QED BY <1>4, <1>5, <2>1, <2>2, ToConflict
<1>7. CASE ~Failed(Current)
  <2>1. /\ pc' = "old" /\ UNCHANGED <<updateOpt, impliedLits, derived>>
        /\ call' = [NoCall EXCEPT !.oldDL = DL]
    BY <1>1, <1>7 DEF Propagate
  <2>2. call' \in Calls /\ call'.oldDL = DL /\ call'.clits = <<>> /\ DL \in Nat
    BY <2>1, CallTyped DEF TypeOK, NoCall
  <2>3. TypeOK'
    BY <1>2, <1>3, <2>1, <2>2 DEF TypeOK, theory
  <2>4. OnLevel(propQueue)'
    BY <1>2, <1>5 DEF OnLevel
  <2> QED BY <1>2, <1>4, <1>5, <2>1, <2>2, <2>3, <2>4, ToOld
<1> QED BY <1>6, <1>7

LEMMA ImplyOldKeeps == ASSUME IndInv, ImplyOld PROVE IndInv'
<1> USE DEF IndInv
<1>1. /\ pc = "old" /\ pc' = "undo"
      /\ UNCHANGED <<theory, DL, level, trail, book, pending, propQueue, derived, call, updateOpt>>
  BY DEF ImplyOld, Imply, trail, optimum
<1>2. PICK e \in NextOld : IsFree(e.lit) /\ Imply(e.lit, e.len, e.level, "old") /\ impliedLits' = impliedLits \ {e}
  BY DEF ImplyOld
<1>3. e \in Records
  BY DEF NextOld, Old, TypeOK
<1>4. PICK k \in (IF option.lazy THEN {e.level} ELSE 0 .. e.level) :
        jump' = [goal |-> k, lit |-> e.lit, len |-> IF option.lazy THEN e.len ELSE Free, resume |-> "old"]
  BY <1>2 DEF Imply
<1>5. k \in Nat /\ e.lit \in Literals
  BY <1>3, <1>4 DEF Records
<1>6. TypeOK'
  BY <1>1, <1>2, SameTypes DEF TypeOK
<1>7. Trail' /\ Book'
  BY <1>1, SameBook
<1>8. Full' /\ call.oldDL >= DL /\ call.clits = <<>> /\ (call.oldDL = DL => OnLevel(propQueue))
  <2>1. Full' = Full
    BY <1>1 DEF book, Full, Depth, Length
  <2> QED BY <1>1, <2>1, InOld
<1>9. AtOld'
  BY <1>1, <1>8 DEF AtOld, OnLevel
<1>10. AtUndo'
  <2>1. level[e.lit] = Free /\ level[-e.lit] = Free
    BY <1>2 DEF IsFree, IsTrue, IsFalse
  <2> QED BY <1>1, <1>4, <1>5, <2>1 DEF AtUndo
<1>11. Control'
  BY <1>1, <1>4, <1>9, <1>10 DEF Control, Places, AtSearch, AtFixpoint, AtFilter, AtFinish, AtRedo, AtEach, AtConflict,
     AtTell, AtMore, Within
<1> QED BY <1>6, <1>7, <1>11

LEMMA DropOldKeeps == ASSUME IndInv, DropOld PROVE IndInv'
<1> USE DEF IndInv
<1>1. /\ pc = "old" /\ pc' = pc
      /\ UNCHANGED <<theory, DL, level, trail, book, pending, propQueue, derived, call, updateOpt, jump>>
  BY DEF DropOld, trail, optimum
<1>2. PICK e \in NextOld :
        impliedLits' = (impliedLits \ {e}) \cup
            IF e.level < DL /\ level[e.lit] > e.level THEN {[e EXCEPT !.key = level[e.lit]]} ELSE {}
  BY DEF DropOld
<1>3. e \in Records
  BY DEF NextOld, Old, TypeOK
<1>4. [e EXCEPT !.key = level[e.lit]] \in Records
  BY <1>3 DEF Records, TypeOK
<1>5. impliedLits' \subseteq Records
  BY <1>2, <1>4 DEF TypeOK
<1>6. TypeOK'
  BY <1>1, <1>5, SameTypes DEF TypeOK
<1>7. Trail' /\ Book'
  BY <1>1, SameBook
<1>8. Full' = Full
  BY <1>1 DEF book, Full, Depth, Length
<1>9. AtOld'
  BY <1>1, <1>8, InOld DEF AtOld, OnLevel
<1>10. Control'
  BY <1>1, <1>9 DEF Control, Places, AtSearch, AtFixpoint, AtFilter, AtFinish, AtRedo, AtEach, AtConflict,
     AtTell, AtMore, AtUndo, Within
<1> QED BY <1>6, <1>7, <1>10

(* A conflict that is set where everything is noted.                        *)
LEMMA ConflictKeeps ==
  ASSUME IndInv, Full \/ dl[Depth] = DL, NEW lits, SetConflict(lits),
         UNCHANGED <<theory, trail, book, updateOpt>>,
         propQueue' \in Seq(Literals), impliedLits' \subseteq Records
  PROVE  IndInv'
<1> USE DEF IndInv
<1>1. pc' = "conflict" /\ call' = NoCall /\ derived' = {}
  BY DEF SetConflict, Return
<1>2. Trail' /\ Book'
  BY SameBook
<1>3. UNCHANGED <<DL, level, pending, Full, Depth, dl>>
  BY DEF trail, book, Full, Depth, Length
<1>4. TypeOK'
  BY <1>1, <1>3, SameTypes, NoCallTyped DEF TypeOK
<1>5. Control'
  BY <1>1, <1>3, ToConflict
<1> QED BY <1>2, <1>4, <1>5

(* A call that ends goes back to clasp.                                     *)
LEMMA ReturnKeeps ==
  ASSUME IndInv, Full, propQueue' = <<>>,
         Return("search") \/ (pending = <<>> /\ Return("fixpoint")),
         UNCHANGED <<theory, trail, book, learnt, optimum>>
  PROVE  IndInv'
<1> USE DEF IndInv
<1>1. call' = NoCall /\ derived' = {}
  BY DEF Return
<1>2. Trail' /\ Book'
  BY SameBook
<1>3. UNCHANGED <<DL, level, pending, Full, impliedLits, updateOpt>>
  BY DEF trail, book, Full, Depth, Length, learnt, optimum
<1>4. TypeOK'
  BY <1>1, <1>3, SameTypes, NoCallTyped DEF TypeOK
<1>5. CASE pc' = "search"
  BY <1>2, <1>3, <1>4, <1>5, ToSearch DEF OnLevel
<1>6. CASE pc' = "fixpoint"
  <2>1. pending = <<>>
    BY <1>6 DEF Return
  <2> QED BY <1>2, <1>3, <1>4, <1>6, <2>1, ToFixpoint
<1> QED BY <1>5, <1>6 DEF Return

LEMMA RefuteOldKeeps == ASSUME IndInv, RefuteOld PROVE IndInv'
<1>1. PICK e \in NextOld : SetConflict(Prefix(e.len) \cup {-e.lit}) /\ impliedLits' = impliedLits \ {e}
  BY DEF RefuteOld
<1>2. pc = "old" /\ UNCHANGED <<theory, trail, book, updateOpt, propQueue>>
  BY DEF RefuteOld, optimum
<1>3. Full
  BY <1>2, InOld DEF IndInv
<1>4. propQueue' \in Seq(Literals) /\ impliedLits' \subseteq Records
  BY <1>1, <1>2 DEF IndInv, TypeOK
<1> QED BY <1>1, <1>2, <1>3, <1>4, ConflictKeeps

LEMMA OldDoneKeeps == ASSUME IndInv, OldDone PROVE IndInv'
<1>1. pc = "old" /\ UNCHANGED <<theory, trail, book, learnt, optimum>>
  BY DEF OldDone
<1>2. Full /\ call.oldDL >= DL /\ call.clits = <<>> /\ (call.oldDL = DL => OnLevel(propQueue))
  BY <1>1, InOld DEF IndInv
<1>3. CASE call.oldDL > DL
  <2>1. propQueue' = <<>> /\ Return("search")
    BY <1>3 DEF OldDone
  <2> QED BY <1>1, <1>2, <2>1, ReturnKeeps
<1>4. CASE ~(call.oldDL > DL)
  <2>1. pc' = "filter" /\ UNCHANGED <<propQueue, derived, call>>
    BY <1>4 DEF OldDone
  <2>2. UNCHANGED <<DL, level, pending, Full, impliedLits, updateOpt>>
    BY <1>1 DEF trail, book, Full, Depth, Length, learnt, optimum
  <2>3. TypeOK'
    BY <1>1, <2>1, <2>2, SameTypes DEF IndInv, TypeOK
  <2>4. Trail' /\ Book'
    BY <1>1, SameBook DEF IndInv
  <2>5. call.oldDL = DL
    BY <1>2, <1>4 DEF IndInv, TypeOK, Calls
  <2>6. OnLevel(propQueue)' /\ OnLevel(call.clits)'
    BY <1>2, <2>1, <2>2, <2>5 DEF OnLevel
  <2> QED BY <1>2, <2>1, <2>2, <2>3, <2>4, <2>6, ToFilter DEF IndInv
<1> QED BY <1>3, <1>4

LEMMA ExamineKeeps == ASSUME IndInv, Examine PROVE IndInv'
<1>1. /\ pc = "filter" /\ pc' = pc /\ propQueue # <<>> /\ propQueue' = Tail(propQueue)
      /\ call' = (IF Head(propQueue) \in Known THEN call ELSE [call EXCEPT !.clits = Append(@, Head(propQueue))])
      /\ UNCHANGED <<theory, trail, book, learnt, optimum, derived>>
  BY DEF Examine
<1>2. Full /\ OnLevel(propQueue) /\ OnLevel(call.clits)
  BY <1>1, InFilter DEF IndInv
<1>3. propQueue \in Seq(Literals) /\ call \in Calls /\ call.clits \in Seq(Literals)
  BY DEF IndInv, TypeOK, Calls
<1>4. Head(propQueue) \in Literals /\ propQueue' \in Seq(Literals) /\ level[Head(propQueue)] = DL
  BY <1>1, <1>2, <1>3 DEF OnLevel
<1>5. call' \in Calls
  <2>1. Append(call.clits, Head(propQueue)) \in Seq(Literals)
    BY <1>3, <1>4
  <2> QED BY <1>1, <1>3, <2>1, CallChanged
<1>6. UNCHANGED <<DL, level, pending, Full, impliedLits, updateOpt>>
  BY <1>1 DEF trail, book, Full, Depth, Length, learnt, optimum
<1>7. TypeOK'
  BY <1>1, <1>4, <1>5, <1>6, SameTypes DEF IndInv, TypeOK
<1>8. Trail' /\ Book'
  BY <1>1, SameBook DEF IndInv
<1>9. OnLevel(propQueue)'
  BY <1>1, <1>2, <1>3, <1>6 DEF OnLevel
<1>10. OnLevel(call.clits)'
  <2>1. CASE Head(propQueue) \in Known
    BY <1>1, <1>2, <1>6, <2>1 DEF OnLevel
  <2>2. CASE Head(propQueue) \notin Known
    <3>1. call'.clits = Append(call.clits, Head(propQueue))
      BY <1>1, <1>3, <2>2 DEF Calls
    <3>2. ASSUME NEW k \in DOMAIN call'.clits
          PROVE  level[call'.clits[k]] = DL
      BY <1>2, <1>3, <1>4, <3>1 DEF OnLevel
    <3> QED BY <1>6, <3>2 DEF OnLevel
  <2> QED BY <2>1, <2>2
<1> QED BY <1>1, <1>2, <1>6, <1>7, <1>8, <1>9, <1>10, ToFilter DEF IndInv

LEMMA RefuteKeeps == ASSUME IndInv, Refute PROVE IndInv'
<1>1. /\ pc = "filter" /\ SetConflict(Prefix(propagated) \cup {Head(propQueue)})
      /\ UNCHANGED <<theory, trail, book, updateOpt, propQueue, impliedLits>>
  BY DEF Refute, optimum, learnt
<1>2. Full
  BY <1>1, InFilter DEF IndInv
<1>3. propQueue' \in Seq(Literals) /\ impliedLits' \subseteq Records
  BY <1>1 DEF IndInv, TypeOK
<1> QED BY <1>1, <1>2, <1>3, ConflictKeeps

LEMMA NothingNewKeeps == ASSUME IndInv, NothingNew PROVE IndInv'
<1>1. /\ pc = "filter" /\ propQueue' = <<>>
      /\ UNCHANGED <<theory, trail, book, learnt, optimum>>
      /\ Return("search") \/ (pending = <<>> /\ Return("fixpoint"))
  BY DEF NothingNew, Examined
<1>2. Full
  BY <1>1, InFilter DEF IndInv
<1> QED BY <1>1, <1>2, ReturnKeeps

(* On level 0 there is only the root.                                       *)
LEMMA OnlyRoot ==
  ASSUME TypeOK, Book, DL = 0
  PROVE  Depth = 1 /\ Len(spaces) = 1
<1>1. Depth \in Nat /\ Depth >= 1 /\ dl[1] = 0 /\ dl[Depth] <= 0 /\ Height \in 1 .. Depth
  BY BookFacts
<1>2. CASE Depth > 1
  <2>1. dl[1] < dl[Depth] /\ dl[Depth] \in Nat
    BY <1>1, <1>2, BookFacts DEF Book
  <2> QED BY <1>1, <2>1
<1>3. CASE Depth = 1
  BY <1>1, <1>3 DEF Height
<1> QED BY <1>1, <1>2, <1>3

LEMMA PropagateRootKeeps == ASSUME IndInv, PropagateRoot PROVE IndInv'
<1> USE DEF IndInv
<1> DEFINE space == With(Last(spaces), ToSet(New))
<1>1. /\ pc = "filter" /\ DL = 0 /\ spaces' = WithCurrent(spaces, space) /\ propQueue' = <<>>
      /\ UNCHANGED <<theory, trail, assignment, dl, assLength, propagated, learnt, optimum>>
      /\ IF Failed(space) THEN SetConflict({})
         ELSE pc' = "tell" /\ call' = NoCall /\ derived' = Closure(space) \ Known
  BY DEF PropagateRoot, Examined
<1>2. IsSequence(spaces) /\ Len(spaces) = 1 /\ spaces[1] \in Roots
  BY <1>1, OnlyRoot, BookFacts
<1>3. New \in Seq(Literals)
  BY DEF New, TypeOK, Calls
<1>4. ToSet(New) \subseteq Literals
  BY <1>3 DEF ToSet
<1>5. space \in Roots
  BY <1>2, <1>4 DEF With, Last, Roots
<1>6. IsSequence(spaces') /\ Len(spaces') = Len(spaces) /\ spaces'[1] \in Roots
  BY <1>1, <1>2, <1>5, LastReplaced
<1>7. Trail' /\ Book' /\ Full' = Full /\ Depth' = Depth
  BY <1>1, <1>6, Replaced
<1>8. UNCHANGED <<DL, level, pending, impliedLits, updateOpt>>
  BY <1>1 DEF trail, learnt, optimum
<1>9. call' = NoCall /\ derived' \subseteq Literals
  BY <1>1 DEF SetConflict, Return, Closure
<1>10. TypeOK'
  BY <1>1, <1>6, <1>8, <1>9, NoCallTyped DEF TypeOK, theory
<1>11. Full
  BY <1>1, InFilter
<1>12. Control'
  <2>1. CASE Failed(space)
    <3>1. pc' = "conflict"
      BY <1>1, <2>1 DEF SetConflict, Return
    <3> QED BY <1>7, <1>11, <3>1, ToConflict
  <2>2. CASE ~Failed(space)
    <3>1. pc' = "tell" /\ call'.return = "search" /\ call'.place = 1
      BY <1>1, <1>9, <2>2 DEF NoCall
    <3>2. AtTell'
      BY <1>7, <3>1, OnlyRoot, <1>1 DEF AtTell
    <3>3. AtSearch'
      BY <1>1, <1>7, <1>11, <3>1 DEF AtSearch
    <3> QED BY <3>1, <3>2, <3>3 DEF Control, Places, AtFixpoint, AtOld, AtFilter, AtFinish, AtRedo, AtEach, AtConflict,
               AtMore, AtUndo, Within
  <2> QED BY <2>1, <2>2
<1> QED BY <1>7, <1>10, <1>12

LEMMA CatchUpKeeps == ASSUME IndInv, CatchUp PROVE IndInv'
<1> USE DEF IndInv
<1>1. /\ pc = "filter" /\ pc' = "finish" /\ call.clits # <<>> /\ DL > 0 /\ derived' = {}
      /\ call' = [NoCall EXCEPT !.clits = call.clits, !.oldDL = DL]
      /\ propQueue' = <<>> /\ UNCHANGED <<theory, trail, book, learnt, optimum>>
  BY DEF CatchUp, Examined, New
<1>2. call.clits \in Seq(Literals) /\ DL \in Nat
  BY DEF TypeOK, Calls
<1>3. call' = [return |-> "search", place |-> 1, clits |-> call.clits, stop |-> 0, caller |-> "propagate", oldDL |-> DL]
  BY <1>1 DEF NoCall
<1>4. call' \in Calls
  BY <1>2, <1>3 DEF Calls
<1>5. UNCHANGED <<DL, level, pending, Full, impliedLits, updateOpt>>
  BY <1>1 DEF trail, book, Full, Depth, Length, learnt, optimum
<1>6. TypeOK'
  BY <1>1, <1>4, <1>5, SameTypes DEF TypeOK
<1>7. Trail' /\ Book'
  BY <1>1, SameBook
<1>8. AtFinish'
  <2>1. Full /\ OnLevel(call.clits)
    BY <1>1, InFilter
  <2> QED BY <1>1, <1>3, <1>5, <2>1 DEF AtFinish, OnLevel
<1> QED BY <1>1, <1>6, <1>7, <1>8, ToFinish

LEMMA InFinish ==
  ASSUME Control, pc = "finish"
  PROVE  /\ Full /\ propQueue = <<>> /\ call.oldDL = DL /\ OnLevel(call.clits)
         /\ call.caller = "propagate" => call.clits # <<>> /\ DL > 0
BY DEF Control, AtFinish

LEMMA HasAnswerKeeps == ASSUME IndInv, HasAnswer PROVE IndInv'
<1> USE DEF IndInv
<1>1. /\ pc = "fixpoint" /\ pc' = "finish"
      /\ call' = [NoCall EXCEPT !.oldDL = DL, !.caller = "hasAnswer"]
      /\ UNCHANGED <<theory, trail, book, learnt, optimum, propQueue, derived>>
  BY DEF HasAnswer
<1>2. DL \in Nat
  BY DEF TypeOK
<1>3. call' = [return |-> "search", place |-> 1, clits |-> <<>>, stop |-> 0, caller |-> "hasAnswer", oldDL |-> DL]
  BY <1>1 DEF NoCall
<1>4. call' \in Calls
  BY <1>2, <1>3 DEF Calls
<1>5. UNCHANGED <<DL, level, pending, Full, impliedLits, updateOpt>>
  BY <1>1 DEF trail, book, Full, Depth, Length, learnt, optimum
<1>6. TypeOK'
  BY <1>1, <1>4, <1>5, SameTypes DEF TypeOK
<1>7. Trail' /\ Book'
  BY <1>1, SameBook
<1>8. AtFinish'
  <2>1. Full /\ propQueue = <<>>
    BY <1>1 DEF Control, AtFixpoint
  <2>2. call'.clits = <<>> /\ call'.oldDL = DL /\ call'.caller = "hasAnswer"
    BY <1>3
  <2>3. OnLevel(call.clits)'
    BY <2>2 DEF OnLevel
  <2> QED BY <1>1, <1>5, <2>1, <2>2, <2>3 DEF AtFinish
<1> QED BY <1>1, <1>6, <1>7, <1>8, ToFinish

LEMMA EnumerateKeeps == ASSUME IndInv, Enumerate PROVE IndInv'
<1> USE DEF IndInv
<1>1. /\ pc = "finish" /\ pc' \in {"model", "conflict"} /\ call' = NoCall /\ derived' = {} /\ ~updateOpt'
      /\ spaces' = WithCurrent(spaces, Current)
      /\ UNCHANGED <<theory, trail, propQueue, assignment, dl, assLength, propagated, impliedLits>>
  BY DEF Enumerate, Caught, Return, TypeOK, optimum, learnt
<1>2. IsSequence(spaces') /\ Len(spaces') = Len(spaces) /\ spaces'[1] \in Roots
  BY <1>1, CurrentPlaced DEF Current
<1>3. Trail' /\ Book' /\ Full' = Full
  BY <1>1, <1>2, Replaced
<1>4. TypeOK'
  BY <1>1, <1>2, NoCallTyped DEF TypeOK, theory, trail
<1>5. Full
  BY <1>1, InFinish
<1>6. CASE pc' = "conflict"
  BY <1>3, <1>4, <1>5, <1>6, ToConflict
<1>7. CASE pc' = "model"
  BY <1>3, <1>4, <1>7 DEF Control, Places, AtSearch, AtFixpoint, AtOld, AtFilter, AtFinish, AtRedo, AtEach, AtConflict,
     AtTell, AtMore, AtUndo, Within
<1> QED BY <1>1, <1>6, <1>7

LEMMA InRedo ==
  ASSUME Control, pc = "redo"
  PROVE  /\ Full /\ propQueue = <<>> /\ call.oldDL >= DL
         /\ call.oldDL = DL =>
              /\ call.stop <= Length /\ Height >= 2 /\ OnLevel(call.clits)
              /\ call.caller = "propagate" => call.clits # <<>> /\ DL > 0
BY DEF Control, AtRedo, Within

LEMMA InEach ==
  ASSUME Control, pc = "each"
  PROVE  /\ propQueue = <<>> /\ call.oldDL >= DL
         /\ IF call.oldDL = DL
            THEN /\ DL > 0 /\ dl[Depth] = DL /\ assLength[Depth - 1] <= propagated
                 /\ Length = propagated + Len(call.clits)
                 /\ call.clits = <<>> => Full
            ELSE Full
BY DEF Control, AtEach, Within

LEMMA FinishKeeps == ASSUME IndInv, Finish PROVE IndInv'
<1> USE DEF IndInv
<1> DEFINE n == Height
<1>1. /\ pc = "finish" /\ pc' = "redo" /\ derived' = {}
      /\ UNCHANGED <<theory, trail, propQueue, assignment, dl, assLength, propagated, impliedLits, updateOpt>>
  BY DEF Finish, optimum, learnt
<1>2. /\ Full /\ propQueue = <<>> /\ call.oldDL = DL /\ OnLevel(call.clits)
      /\ call.caller = "propagate" => call.clits # <<>> /\ DL > 0
  BY <1>1, InFinish
<1>3. propagated < assLength[Depth]
  <2>1. Last(assLength) = assLength[Depth]
    <3>1. Len(assLength) = Depth
      <4>1. Len(assLength) >= Depth /\ Len(assLength) <= Depth /\ Len(assLength) \in Nat /\ Depth \in Nat
        BY BookFacts DEF Book, TypeOK
      <4> QED BY <4>1
    <3> QED BY <3>1 DEF Last
  <2> QED BY <2>1 DEF Finish
<1>4. n \in 1 .. Depth /\ Depth \in Nat /\ propagated \in Nat /\ assLength[1] = 0
  BY BookFacts
<1>5. \E stop \in Nat :
        /\ call' = [call EXCEPT !.stop = stop] /\ stop <= Length
        /\ IsSequence(spaces') /\ Height' \in 2 .. Depth /\ spaces'[1] \in Roots
  <2>1. CASE assLength[n] > propagated
    <3>1. call' = [call EXCEPT !.stop = assLength[n]] /\ spaces' = spaces
      BY <2>1 DEF Finish, Height
    <3>2. n >= 2
      BY <1>4, <2>1
    <3>3. assLength[n] \in Nat /\ assLength[n] <= Length
      BY <1>4, BookFacts
    <3>4. Height' = n
      BY <3>1 DEF Height
    <3> QED BY <1>4, <3>1, <3>2, <3>3, <3>4, BookFacts
  <2>2. CASE ~(assLength[n] > propagated)
    <3>1. call' = [call EXCEPT !.stop = assLength[n + 1]] /\ PushSpace
      BY <2>2 DEF Finish, Height
    <3>2. n # Depth
      BY <1>3, <1>4, <2>2, BookFacts
    <3>3. n + 1 \in 1 .. Depth
      BY <1>4, <3>2
    <3>4. assLength[n + 1] \in Nat /\ assLength[n + 1] <= Length
      BY <3>3, BookFacts
    <3>5. IsSequence(spaces') /\ Height' = n + 1 /\ spaces'[1] \in Roots
      BY <3>1, SpacePushed
    <3>6. Height' \in 2 .. Depth
      BY <1>4, <3>3, <3>5
    <3> QED BY <3>1, <3>4, <3>5, <3>6
  <2> QED BY <2>1, <2>2
<1>6. PICK stop \in Nat :
        /\ call' = [call EXCEPT !.stop = stop] /\ stop <= Length
        /\ IsSequence(spaces') /\ Height' \in 2 .. Depth /\ spaces'[1] \in Roots
  BY <1>5
<1>7. Trail' /\ Book' /\ Full' = Full /\ Length' = Length
  BY <1>1, <1>4, <1>6, NewSpaces, BookFacts
<1>8. call' \in Calls /\ call'.stop = stop /\ UNCHANGED <<call.clits, call.oldDL, call.caller>>
  BY <1>6 DEF TypeOK, Calls
<1>9. UNCHANGED <<DL, level, pending>>
  BY <1>1 DEF trail
<1>10. TypeOK'
  BY <1>1, <1>6, <1>8, <1>9 DEF TypeOK, theory
<1>11. AtRedo'
  <2>1. DL \in Nat /\ Height' >= 2
    BY <1>6 DEF TypeOK
  <2>2. OnLevel(call.clits)'
    BY <1>2, <1>8, <1>9 DEF OnLevel
  <2> QED BY <1>1, <1>2, <1>6, <1>7, <1>8, <1>9, <2>1, <2>2 DEF AtRedo
<1> QED BY <1>1, <1>7, <1>10, <1>11, ToRedo

LEMMA RedoDoneKeeps == ASSUME IndInv, RedoDone PROVE IndInv'
<1> USE DEF IndInv
<1>1. /\ pc = "redo" /\ pc' = "finish" /\ call.oldDL <= DL
      /\ UNCHANGED <<theory, trail, propQueue, book, impliedLits, updateOpt, derived, call>>
  BY DEF RedoDone, learnt, optimum
<1>2. UNCHANGED <<DL, level, pending, Full>>
  BY <1>1 DEF trail, book, Full, Depth, Length
<1>3. TypeOK'
  BY <1>1, <1>2, SameTypes DEF TypeOK
<1>4. Trail' /\ Book'
  BY <1>1, SameBook
<1>5. call.oldDL = DL
  BY <1>1, InRedo DEF TypeOK, Calls
<1>6. AtFinish'
  BY <1>1, <1>2, <1>5, InRedo DEF AtFinish, OnLevel
<1> QED BY <1>1, <1>3, <1>4, <1>6, ToFinish

LEMMA BackjumpedKeeps == ASSUME IndInv, Backjumped PROVE IndInv'
<1>1. /\ pc \in {"redo", "each"} /\ call.oldDL > DL /\ Return("search")
      /\ UNCHANGED <<theory, trail, book, learnt, optimum, propQueue>>
  BY DEF Backjumped
<1>2. call.oldDL # DL
  BY <1>1 DEF IndInv, TypeOK, Calls
<1>3. Full /\ propQueue = <<>>
  BY <1>1, <1>2, InRedo, InEach DEF IndInv
<1> QED BY <1>1, <1>3, ReturnKeeps

LEMMA EachDoneKeeps == ASSUME IndInv, EachDone PROVE IndInv'
<1>1. /\ pc = "each" /\ call.oldDL <= DL /\ call.clits = <<>>
      /\ Return("search") \/ (pending = <<>> /\ Return("fixpoint"))
      /\ UNCHANGED <<theory, trail, book, learnt, optimum, propQueue>>
  BY DEF EachDone
<1>2. call.oldDL = DL
  BY <1>1, InEach DEF IndInv, TypeOK, Calls
<1>3. Full /\ propQueue = <<>>
  BY <1>1, <1>2, InEach DEF IndInv
<1> QED BY <1>1, <1>3, ReturnKeeps

-----------------------------------------------------------------------------
(* The next literal goes to the current space: a conflict, or what Gecode   *)
(* derives is told.                                                         *)
LEMMA TellFacts ==
  ASSUME TypeOK, Book, NEW l \in Literals, NEW rest \in Seq(Literals), NEW next \in {"redo", "each"},
         Tell(l, rest, next)
  PROVE  /\ IsSequence(spaces') /\ Len(spaces') = Len(spaces) /\ spaces'[1] \in Roots
         /\ propagated' = propagated + 1 /\ derived' \subseteq Literals /\ call' \in Calls
         /\ \/ pc' = "conflict"
            \/ /\ pc' = "tell" /\ call'.place \in 1 .. Depth /\ call'.return = next /\ call'.clits = rest
               /\ UNCHANGED <<call.oldDL, call.stop, call.caller>>
<1> DEFINE space == With(CurrentAfter(propagated + 1), {l})
<1>1. spaces' = WithCurrent(spaces, space) /\ propagated' = propagated + 1
  BY DEF Tell
<1>2. IsSequence(spaces') /\ Len(spaces') = Len(spaces) /\ spaces'[1] \in Roots
  BY <1>1, ToldPlaced
<1>3. CASE Failed(space)
  <2>1. pc' = "conflict" /\ call' = NoCall /\ derived' = {}
    BY <1>3 DEF Tell, SetConflict, Return
  <2> QED BY <1>1, <1>2, <2>1, NoCallTyped
<1>4. CASE ~Failed(space)
  <2>1. /\ pc' = "tell" /\ derived' = derived \cup (Closure(space) \ Closure(CurrentAfter(propagated + 1)))
        /\ call' = [call EXCEPT !.place = Len(spaces), !.return = next, !.clits = rest]
    BY <1>4 DEF Tell
  <2>2. derived' \subseteq Literals
    BY <2>1 DEF TypeOK, Closure
  <2>3. Len(spaces) \in 1 .. Depth /\ Len(spaces) \in Nat
    BY BookFacts DEF Height
  <2>4. call \in Calls
    BY DEF TypeOK
  <2>5. call' \in Calls
    BY <2>1, <2>3, <2>4 DEF Calls
  <2>6. /\ call'.place = Len(spaces) /\ call'.return = next /\ call'.clits = rest
        /\ UNCHANGED <<call.oldDL, call.stop, call.caller>>
    BY <2>1, <2>4 DEF Calls
  <2> QED BY <1>1, <1>2, <2>1, <2>2, <2>3, <2>5, <2>6
<1> QED BY <1>3, <1>4

(* The places a call comes back to, seen from the middle of it.             *)
LEMMA ToTell ==
  ASSUME pc' = "tell", AtTell', AtSearch', AtRedo', AtEach', call'.return \in {"search", "redo", "each"}
  PROVE  Control'
BY DEF Control, Places, AtFixpoint, AtOld, AtFilter, AtFinish, AtConflict, AtMore, AtUndo, Within

LEMMA RedoKeeps == ASSUME IndInv, Redo PROVE IndInv'
<1> USE DEF IndInv
<1>1. /\ pc = "redo" /\ call.oldDL <= DL /\ propagated < call.stop
      /\ Tell(assignment[propagated + 1], call.clits, "redo")
      /\ UNCHANGED <<theory, trail, propQueue, assignment, dl, assLength, impliedLits, updateOpt>>
  BY DEF Redo, learnt, optimum
<1>2. call.oldDL = DL
  BY <1>1, InRedo DEF TypeOK, Calls
<1>3. /\ Full /\ propQueue = <<>> /\ call.stop <= Length /\ Height >= 2 /\ OnLevel(call.clits)
      /\ call.caller = "propagate" => call.clits # <<>> /\ DL > 0
  BY <1>1, <1>2, InRedo
<1>4. call.stop \in Nat /\ call.clits \in Seq(Literals) /\ propagated \in Nat
  BY DEF TypeOK, Calls
<1>5. propagated + 1 \in 1 .. Length
  BY <1>1, <1>3, <1>4, BookFacts
<1>6. assignment[propagated + 1] \in Literals
  BY <1>5, BookFacts
<1>7. /\ IsSequence(spaces') /\ Len(spaces') = Len(spaces) /\ spaces'[1] \in Roots
      /\ propagated' = propagated + 1 /\ derived' \subseteq Literals /\ call' \in Calls
      /\ \/ pc' = "conflict"
         \/ /\ pc' = "tell" /\ call'.place \in 1 .. Depth /\ call'.return = "redo" /\ call'.clits = call.clits
            /\ UNCHANGED <<call.oldDL, call.stop, call.caller>>
  BY <1>1, <1>4, <1>6, TellFacts
<1>8. Height' = Height
  BY <1>7, Zenon DEF Height
<1>9. Trail' /\ Book' /\ Full' = Full /\ Depth' = Depth /\ Length' = Length
  BY <1>1, <1>5, <1>7, <1>8, NewSpaces, BookFacts
<1>10. UNCHANGED <<DL, level, pending>>
  BY <1>1 DEF trail
<1>11. TypeOK'
  BY <1>1, <1>4, <1>7, <1>10 DEF TypeOK, theory
<1>12. CASE pc' = "conflict"
  BY <1>3, <1>9, <1>11, <1>12, ToConflict
<1>13. CASE pc' = "tell"
  <2>1. /\ call'.place \in 1 .. Depth /\ call'.return = "redo" /\ call'.clits = call.clits
        /\ UNCHANGED <<call.oldDL, call.stop, call.caller>>
    BY <1>7, <1>13
  <2>2. AtTell'
    BY <1>2, <1>9, <1>10, <1>13, <2>1 DEF AtTell
  <2>3. OnLevel(call.clits)' /\ DL \in Nat
    BY <1>3, <1>10, <2>1 DEF OnLevel, TypeOK
  <2>4. AtRedo'
    BY <1>1, <1>2, <1>3, <1>8, <1>9, <1>10, <2>1, <2>3 DEF AtRedo
  <2>5. AtSearch' /\ AtEach'
    BY <1>13, <2>1 DEF AtSearch, AtEach, Within
  <2> QED BY <1>9, <1>11, <1>13, <2>1, <2>2, <2>4, <2>5, ToTell
<1> QED BY <1>7, <1>12, <1>13

(* What is told reaches a level's end, or goes past it.                     *)
LEMMA NewEnd ==
  ASSUME TypeOK, Trail, Book, UNCHANGED <<trail, assignment, dl>>, Depth >= 2,
         Height' = Height, spaces'[1] \in Roots, propagated' \in Nat, propagated' <= Length,
         assLength' = [assLength EXCEPT ![Depth] = propagated'], assLength[Depth - 1] < propagated'
  PROVE  /\ Trail' /\ Book' /\ assLength' \in Seq(Nat) /\ Depth' = Depth /\ Length' = Length
         /\ assLength'[Depth] = propagated' /\ assLength'[Depth - 1] = assLength[Depth - 1]
<1>1. UNCHANGED <<Depth, Length>> /\ Depth \in Nat /\ Depth - 1 \in 1 .. Depth
  BY BookFacts DEF Depth, Length
<1>2. UNCHANGED <<DL, level, pending, watched>>
  BY DEF trail
<1>3. assLength \in Seq(Nat) /\ Len(assLength) >= Depth /\ Len(assLength) <= Depth
  BY DEF TypeOK, Book
<1>4. /\ assLength' \in Seq(Nat) /\ Len(assLength') >= Depth /\ Len(assLength') <= Depth
  BY <1>1, <1>3
<1>5. /\ assLength'[Depth] = propagated'
      /\ \A i \in 1 .. Depth - 1 : assLength'[i] = assLength[i]
  BY <1>1, <1>3
<1>6. \A i \in 1 .. Depth - 1 : assLength[i] \in Nat /\ assLength[i] <= assLength[Depth - 1]
  <2>1. ASSUME NEW i \in 1 .. Depth - 1
        PROVE  assLength[i] \in Nat /\ assLength[i] <= assLength[Depth - 1]
    <3>1. i \in 1 .. Depth /\ assLength[i] \in Nat /\ assLength[Depth - 1] \in Nat
      BY <1>1, BookFacts
    <3>2. i < Depth - 1 => assLength[i] < assLength[Depth - 1]
      BY <1>1, <3>1 DEF Book
    <3> QED BY <1>1, <3>1, <3>2
  <2> QED BY <2>1
<1>7. \A i, j \in 1 .. Depth : i < j => dl[i] < dl[j] /\ assLength'[i] < assLength'[j]
  <2>1. ASSUME NEW i \in 1 .. Depth, NEW j \in 1 .. Depth, i < j
        PROVE  dl[i] < dl[j] /\ assLength'[i] < assLength'[j]
    <3>1. dl[i] < dl[j] /\ assLength[i] < assLength[j] /\ i \in 1 .. Depth - 1
      BY <1>1, <2>1 DEF Book
    <3>2. assLength'[i] = assLength[i] /\ assLength[i] \in Nat /\ assLength[i] <= assLength[Depth - 1] /\ assLength[Depth - 1] \in Nat
      BY <1>1, <1>5, <1>6, <3>1
    <3>3. CASE j = Depth
      BY <1>5, <3>1, <3>2, <3>3
    <3>4. CASE j # Depth
      <4>1. j \in 1 .. Depth - 1
        BY <1>1, <3>4
      <4> QED BY <1>5, <3>1, <3>2, <4>1
    <3> QED BY <3>3, <3>4
  <2> QED BY <2>1
<1>8. \A i \in 2 .. Depth : assLength'[i - 1] = assLength[i - 1] /\ End(i)' = End(i)
  <2>1. ASSUME NEW i \in 2 .. Depth
        PROVE  assLength'[i - 1] = assLength[i - 1] /\ End(i)' = End(i)
    <3>1. i - 1 \in 1 .. Depth - 1 /\ (i # Depth => i \in 1 .. Depth - 1)
      BY <1>1
    <3> QED BY <1>1, <1>5, <3>1 DEF End
  <2> QED BY <2>1
<1>9. \A i \in 2 .. Depth' : \A k \in assLength'[i - 1] + 1 .. End(i)' : level'[assignment'[k]] = dl'[i]
  BY <1>1, <1>2, <1>8 DEF Book
<1>10. assLength'[1] = 0
  BY <1>1, <1>5, BookFacts
<1>11. Book'
  <2>1. dl'[Depth'] <= DL' /\ dl'[1] = 0 /\ watched' = {dl'[i] : i \in 2 .. Depth'}
    BY <1>1, <1>2 DEF Book
  <2>2. Height' \in 1 .. Depth' /\ ~(Depth' <= 1)
    BY <1>1, BookFacts
  <2> QED BY <1>1, <1>4, <1>5, <1>7, <1>9, <1>10, <2>1, <2>2 DEF Book
<1>12. Trail'
  BY <1>2 DEF Trail, OnLevel
<1> QED BY <1>1, <1>4, <1>5, <1>11, <1>12

LEMMA EachKeeps == ASSUME IndInv, Each PROVE IndInv'
<1> USE DEF IndInv
<1> DEFINE l == Head(call.clits)
           rest == Tail(call.clits)
<1>1. /\ pc = "each" /\ call.oldDL <= DL /\ call.clits # <<>> /\ Tell(l, rest, "each")
      /\ assLength' = IF pc' = "tell" THEN [assLength EXCEPT ![Depth] = propagated + 1] ELSE assLength
      /\ UNCHANGED <<theory, trail, propQueue, assignment, dl, impliedLits, updateOpt>>
  BY DEF Each, learnt, optimum, Depth
<1>2. call.oldDL = DL
  BY <1>1, InEach DEF TypeOK, Calls
<1>3. /\ propQueue = <<>> /\ DL > 0 /\ dl[Depth] = DL /\ assLength[Depth - 1] <= propagated
      /\ Length = propagated + Len(call.clits)
  BY <1>1, <1>2, InEach
<1>4. call.clits \in Seq(Literals) /\ propagated \in Nat /\ Length \in Nat /\ assLength \in Seq(Nat)
  BY BookFacts DEF TypeOK, Calls
<1>5. /\ l \in Literals /\ rest \in Seq(Literals) /\ Len(call.clits) \in Nat /\ Len(call.clits) >= 1
      /\ Len(rest) = Len(call.clits) - 1
  BY <1>1, <1>4
<1>6. Depth >= 2 /\ Depth \in Nat
  BY <1>3, BookFacts
<1>7. /\ IsSequence(spaces') /\ Len(spaces') = Len(spaces) /\ spaces'[1] \in Roots
      /\ propagated' = propagated + 1 /\ derived' \subseteq Literals /\ call' \in Calls
      /\ \/ pc' = "conflict"
         \/ /\ pc' = "tell" /\ call'.place \in 1 .. Depth /\ call'.return = "each" /\ call'.clits = rest
            /\ UNCHANGED <<call.oldDL, call.stop, call.caller>>
  BY <1>1, <1>5, TellFacts
<1>8. Height' = Height
  BY <1>7, Zenon DEF Height
<1>9. UNCHANGED <<DL, level, pending>>
  BY <1>1 DEF trail
<1>10. propagated' <= Length /\ propagated' \in Nat
  BY <1>3, <1>4, <1>5, <1>7
<1>11. CASE pc' = "conflict"
  <2>1. assLength' = assLength
    BY <1>1, <1>11
  <2>2. Trail' /\ Book' /\ Depth' = Depth
    BY <1>1, <1>7, <1>8, <1>10, <2>1, NewSpaces, BookFacts
  <2>3. TypeOK'
    BY <1>1, <1>7, <1>9, <1>10, <2>1 DEF TypeOK, theory
  <2>4. dl'[Depth'] = DL'
    BY <1>1, <1>3, <1>9, <2>2
  <2> QED BY <1>11, <2>2, <2>3, <2>4, ToConflict
<1>12. CASE pc' = "tell"
  <2>1. /\ call'.place \in 1 .. Depth /\ call'.return = "each" /\ call'.clits = rest
        /\ UNCHANGED <<call.oldDL, call.stop, call.caller>>
    BY <1>7, <1>12
  <2>2. assLength' = [assLength EXCEPT ![Depth] = propagated']
    BY <1>1, <1>7, <1>12
  <2>3. assLength[Depth - 1] < propagated' /\ assLength[Depth - 1] \in Nat
    <3>1. Depth - 1 \in 1 .. Depth
      BY <1>6
    <3>2. assLength[Depth - 1] \in Nat
      BY <3>1, BookFacts
    <3> QED BY <1>3, <1>4, <1>7, <3>2
  <2>4. /\ Trail' /\ Book' /\ assLength' \in Seq(Nat) /\ Depth' = Depth /\ Length' = Length
        /\ assLength'[Depth] = propagated' /\ assLength'[Depth - 1] = assLength[Depth - 1]
    BY <1>1, <1>6, <1>7, <1>8, <1>10, <2>2, <2>3, NewEnd
  <2>5. TypeOK'
    BY <1>1, <1>7, <1>9, <1>10, <2>4 DEF TypeOK, theory
  <2>6. AtTell'
    BY <1>2, <1>9, <1>12, <2>1, <2>4 DEF AtTell
  <2>7. AtEach'
    <3>1. Length' = propagated' + Len(call'.clits)
      <4>1. Len(call'.clits) = Len(call.clits) - 1
        BY <1>5, <2>1, Zenon
      <4>2. Length' = (propagated + 1) + (Len(call.clits) - 1)
        <5>1. PICK m \in Nat : m = Len(call.clits)
          BY <1>5
        <5>2. Length' = propagated + m
          BY <1>3, <2>4, <5>1, Zenon
        <5>3. Length' = (propagated + 1) + (m - 1)
          BY <1>4, <5>2
        <5> QED BY <5>1, <5>3, Zenon
      <4> QED BY <1>7, <4>1, <4>2, Zenon
    <3>2. call'.clits = <<>> => Full'
      <4>1. ASSUME call'.clits = <<>> PROVE Length' = propagated'
        <5>1. Len(call'.clits) = 0
          BY <4>1
        <5>2. Length' = propagated' + 0
          BY <3>1, <5>1, Zenon
        <5>3. \A p \in Nat : p + 0 = p
          OBVIOUS
        <5> QED BY <1>10, <5>2, <5>3, Zenon
      <4> QED BY <2>4, <4>1 DEF Full
    <3>3. dl'[Depth'] = DL' /\ DL' > 0 /\ call'.oldDL = DL' /\ DL' \in Nat
      BY <1>1, <1>2, <1>3, <1>9, <2>1, <2>4 DEF TypeOK
    <3>4. assLength'[Depth' - 1] <= propagated'
      BY <1>10, <2>3, <2>4
    <3>5. propQueue' = <<>>
      BY <1>1, <1>3
    <3> QED BY <3>1, <3>2, <3>3, <3>4, <3>5 DEF AtEach
  <2>8. AtSearch' /\ AtRedo'
    BY <1>12, <2>1 DEF AtSearch, AtRedo, Within
  <2> QED BY <1>12, <2>1, <2>4, <2>5, <2>6, <2>7, <2>8, ToTell
<1> QED BY <1>7, <1>11, <1>12

(* What holds in the middle of propagateNewLiteralsToClasp().               *)
LEMMA InTell ==
  ASSUME Control, pc \in {"tell", "more"}, call \in Calls
  PROVE  /\ call.place \in Nat /\ call.place >= 1
         /\ call.return = "search" => Full /\ propQueue = <<>>
         /\ call.return = "redo" => Full /\ propQueue = <<>>
         /\ call.return = "each" => Full \/ dl[Depth] = DL
<1>1. call.place \in Nat /\ call.place >= 1
  <2>1. CASE pc = "tell"
    BY <2>1 DEF Control, AtTell
  <2>2. CASE pc = "more"
    BY <2>2 DEF Control, AtMore, Calls
  <2> QED BY <2>1, <2>2
<1>2. call.return = "search" => Full /\ propQueue = <<>>
  BY DEF Control, AtSearch, Within
<1>3. call.return = "redo" => Full /\ propQueue = <<>>
  BY DEF Control, AtRedo, Within
<1>4. call.return = "each" => Full \/ dl[Depth] = DL
  BY DEF Control, AtEach, Within
<1> QED BY <1>1, <1>2, <1>3, <1>4

LEMMA ContradictKeeps == ASSUME IndInv, Contradict PROVE IndInv'
<1> USE DEF IndInv
<1>1. /\ pc = "tell" /\ pc' = "conflict" /\ call' = NoCall /\ derived' = {}
      /\ UNCHANGED <<theory, trail, propQueue, assignment, dl, assLength, impliedLits, updateOpt>>
  BY DEF Contradict, SetConflict, Return, learnt, optimum
<1>2. call \in Calls
  BY DEF TypeOK
<1>3. Full \/ dl[Depth] = DL
  BY <1>1, <1>2, InTell DEF Calls
<1>4. /\ IsSequence(spaces') /\ Height' \in 1 .. Depth /\ spaces'[1] \in Roots
      /\ propagated' \in Nat /\ propagated' <= Length
  <2>1. CASE call.return = "redo"
    <3>1. spaces' = Front(spaces) /\ propagated' = assLength[Height - 1]
      BY <2>1 DEF Contradict, Height
    <3>2. call.oldDL = DL
      BY <1>1, <2>1 DEF Control, AtTell
    <3>3. Height >= 2
      BY <1>1, <2>1, <3>2 DEF Control, AtRedo, Within
    <3>4. Height \in 1 .. Depth /\ Depth \in Nat /\ IsSequence(spaces) /\ spaces[1] \in Roots
      BY BookFacts
    <3>5. Height - 1 \in 1 .. Depth
      BY <3>3, <3>4
    <3>6. assLength[Height - 1] \in Nat /\ assLength[Height - 1] <= Length
      BY <3>5, BookFacts
    <3>7. IsSequence(spaces') /\ Height' = Height - 1 /\ spaces'[1] = spaces[1]
      BY <3>1, <3>3, <3>4, Shortened DEF Height
    <3> QED BY <3>1, <3>4, <3>5, <3>6, <3>7
  <2>2. CASE call.return # "redo"
    <3>1. UNCHANGED <<spaces, propagated>>
      BY <2>2 DEF Contradict
    <3>2. Height' = Height
      BY <3>1 DEF Height
    <3> QED BY <3>1, <3>2, BookFacts
  <2> QED BY <2>1, <2>2
<1>5. Trail' /\ Book' /\ Full' = Full /\ Depth' = Depth
  BY <1>1, <1>4, NewSpaces
<1>6. UNCHANGED <<DL, level, pending>>
  BY <1>1 DEF trail
<1>7. TypeOK'
  BY <1>1, <1>4, <1>6, NoCallTyped DEF TypeOK, theory
<1>8. (Full \/ dl[Depth] = DL)'
  BY <1>1, <1>3, <1>5, <1>6
<1> QED BY <1>1, <1>5, <1>7, <1>8, ToConflict

(* The call goes on where it came from: nothing else has changed.           *)
LEMMA GoesOn ==
  ASSUME IndInv, pc \in {"tell", "more"}, pc' = call.return,
         UNCHANGED <<theory, trail, book, propQueue, call, updateOpt>>,
         derived' \subseteq Literals, impliedLits' \subseteq Records
  PROVE  IndInv'
<1> USE DEF IndInv
<1>1. call \in Calls /\ call' = call /\ call.return \in {"search", "redo", "each"}
  BY DEF TypeOK, Calls
<1>2. UNCHANGED <<DL, level, pending, dl, assLength, assignment, propagated, Full, Depth, Length, Height>>
  BY DEF trail, book, Full, Depth, Length, Height
<1>3. TypeOK'
  BY <1>1, <1>2, SameTypes DEF TypeOK
<1>4. Trail' /\ Book'
  BY SameBook
<1>5. CASE call.return = "search"
  <2>1. Full' /\ propQueue' = <<>>
    BY <1>1, <1>2, <1>5, InTell
  <2>2. OnLevel(propQueue)'
    BY <2>1 DEF OnLevel
  <2> QED BY <1>3, <1>4, <1>5, <2>1, <2>2, ToSearch
<1>6. CASE call.return = "redo"
  <2>1. Within("redo") /\ Within("redo")'
    BY <1>6 DEF Within
  <2>2. AtRedo'
    BY <1>1, <1>2, <2>1 DEF Control, AtRedo, OnLevel
  <2> QED BY <1>3, <1>4, <1>6, <2>2, ToRedo
<1>7. CASE call.return = "each"
  <2>1. Within("each") /\ Within("each")'
    BY <1>7 DEF Within
  <2>2. AtEach'
    BY <1>1, <1>2, <2>1 DEF Control, AtEach
  <2> QED BY <1>3, <1>4, <1>7, <2>2, ToEach
<1> QED BY <1>1, <1>5, <1>6, <1>7

(* The level and the size of the part of the assignment a literal is        *)
(* derived from.                                                            *)
LEMMA PlaceFacts ==
  ASSUME TypeOK, Book, call.place \in 1 .. Depth
  PROVE  Level \in Nat /\ Size \in Nat
BY BookFacts DEF Level, Size, Depth

LEMMA RememberKeeps == ASSUME IndInv, Remember PROVE IndInv'
<1>1. /\ pc = "tell" /\ pc' = call.return
      /\ UNCHANGED <<theory, trail, book, propQueue, call, updateOpt>>
      /\ derived' = IF call.return = "search" THEN {} ELSE derived
      /\ impliedLits' = impliedLits \cup
           {[lit |-> l, key |-> level[l], level |-> Level, len |-> Size] : l \in {k \in derived : level[k] > Level}}
  BY DEF Remember, optimum
<1>2. Level \in Nat /\ Size \in Nat
  <2>1. call.place \in 1 .. Depth
    BY <1>1 DEF IndInv, Control, AtTell
  <2> QED BY <2>1, PlaceFacts DEF IndInv
<1>3. derived \subseteq Literals /\ derived' \subseteq Literals /\ impliedLits \subseteq Records
  BY <1>1 DEF IndInv, TypeOK
<1>4. ASSUME NEW l \in derived
      PROVE  [lit |-> l, key |-> level[l], level |-> Level, len |-> Size] \in Records
  <2>1. l \in Literals /\ level[l] \in Int
    BY <1>3 DEF IndInv, TypeOK
  <2> QED BY <1>2, <2>1 DEF Records
<1>5. impliedLits' \subseteq Records
  BY <1>1, <1>3, <1>4
<1> QED BY <1>1, <1>3, <1>5, GoesOn

LEMMA AllToldKeeps == ASSUME IndInv, AllTold PROVE IndInv'
<1>1. /\ pc = "more" /\ pc' = call.return /\ derived' = {}
      /\ UNCHANGED <<theory, trail, book, propQueue, call, updateOpt, impliedLits>>
  BY DEF AllTold, optimum, learnt
<1>2. impliedLits' \subseteq Records
  BY <1>1 DEF IndInv, TypeOK, Calls
<1> QED BY <1>1, <1>2, GoesOn

LEMMA TellLiteralKeeps == ASSUME IndInv, TellLiteral PROVE IndInv'
<1> USE DEF IndInv
<1>1. /\ pc \in {"tell", "more"} /\ pc' = "undo" /\ (pc = "more" => ~TooFar)
      /\ UNCHANGED <<theory, trail, book, propQueue, derived, call, impliedLits, updateOpt>>
  BY DEF TellLiteral, Imply, learnt, optimum
<1>2. PICK l \in Untold : Imply(l, Size, Level, "more")
  BY DEF TellLiteral
<1>3. call \in Calls /\ call' = call /\ call.return \in {"search", "redo", "each"}
  BY <1>1 DEF TypeOK, Calls
<1>4. call.place \in 1 .. Depth
  <2>1. call.place \in Nat /\ call.place >= 1
    BY <1>1, <1>3, InTell
  <2>2. CASE pc = "tell"
    BY <2>2 DEF Control, AtTell
  <2>3. CASE pc = "more"
    BY <1>1, <2>1, <2>3, BookFacts DEF TooFar, Depth
  <2> QED BY <1>1, <2>2, <2>3
<1>5. Level \in Nat
  BY <1>4, PlaceFacts
<1>6. PICK k \in (IF option.lazy THEN {Level} ELSE 0 .. Level) :
        jump' = [goal |-> k, lit |-> l, len |-> IF option.lazy THEN Size ELSE Free, resume |-> "more"]
  BY <1>2 DEF Imply
<1>7. k \in Nat /\ (option.lazy => k = Level)
  BY <1>5, <1>6
<1>8. l \in Literals /\ -l \in Literals
  BY <1>2, Negation DEF Untold, TypeOK
<1>9. \A m \in {l, -l} : level[m] = Free \/ level[m] > k
  <2>1. CASE IsFree(l)
    BY <2>1 DEF IsFree, IsTrue, IsFalse
  <2>2. CASE ~IsFree(l)
    <3>1. option.lazy /\ IsTrue(l) /\ level[l] > Level
      BY <1>2, <2>2 DEF Untold
    <3>2. level[-l] = Free
      BY <1>8, <3>1 DEF Trail, IsTrue
    <3> QED BY <1>7, <3>1, <3>2
  <2> QED BY <2>1, <2>2
<1>10. UNCHANGED <<DL, level, pending, dl, assLength, assignment, propagated, Full, Depth, Length, Height>>
  BY <1>1 DEF trail, book, Full, Depth, Length, Height
<1>11. TypeOK'
  BY <1>1, <1>10, SameTypes DEF TypeOK
<1>12. Trail' /\ Book'
  BY <1>1, SameBook
<1>13. jump'.resume = "more" /\ jump'.goal = k /\ jump'.lit = l
  BY <1>6
<1>14. AtUndo'
  BY <1>1, <1>3, <1>4, <1>7, <1>8, <1>9, <1>10, <1>13 DEF AtUndo
<1>15. AtSearch'
  <2>1. call.return = "search" => Full /\ propQueue = <<>>
    BY <1>1, <1>3, InTell
  <2> QED BY <1>1, <1>3, <1>10, <1>13, <2>1 DEF AtSearch, Within
<1>16. AtRedo'
  <2>1. Within("redo")' => Within("redo")
    BY <1>1, <1>3, <1>13 DEF Within
  <2> QED BY <1>1, <1>3, <1>10, <2>1 DEF Control, AtRedo, OnLevel
<1>17. AtEach'
  <2>1. Within("each")' => Within("each")
    BY <1>1, <1>3, <1>13 DEF Within
  <2> QED BY <1>1, <1>3, <1>10, <2>1 DEF Control, AtEach
<1>18. AtOld'
  BY <1>1, <1>3, <1>13 DEF AtOld, Within
<1>19. Control'
  BY <1>1, <1>14, <1>15, <1>16, <1>17, <1>18 DEF Control, Places, AtFixpoint, AtFilter, AtFinish, AtConflict, AtTell, AtMore
<1> QED BY <1>11, <1>12, <1>19

-----------------------------------------------------------------------------
(* New literals of the last level are added to the assignment: to a level   *)
(* of their own, or to the end of the last one.                             *)
LEMMA Concatenated ==
  ASSUME NEW S, NEW s \in Seq(S), NEW t \in Seq(S)
  PROVE  /\ s \o t \in Seq(S) /\ Len(s \o t) = Len(s) + Len(t)
         /\ \A k \in 1 .. Len(s) : (s \o t)[k] = s[k]
         /\ \A k \in Len(s) + 1 .. Len(s) + Len(t) : k - Len(s) \in DOMAIN t /\ (s \o t)[k] = t[k - Len(s)]
OBVIOUS

LEMMA Longer ==
  ASSUME TypeOK, Book, NEW lits \in Seq(Literals), lits # <<>>, OnLevel(lits), assignment' = assignment \o lits
  PROVE  /\ assignment' \in Seq(Literals) /\ Length' \in Nat /\ Length' > Length
         /\ Len(lits) \in Nat /\ Length' = Length + Len(lits)
         /\ \A k \in 1 .. Length : assignment'[k] = assignment[k]
         /\ \A k \in Length + 1 .. Length' : level[assignment'[k]] = DL
<1>1. assignment \in Seq(Literals) /\ Length \in Nat /\ Len(lits) \in Nat /\ Len(lits) >= 1
  <2>1. Len(lits) \in Nat /\ Len(lits) >= 1
    OBVIOUS
  <2> QED BY <2>1, BookFacts DEF TypeOK
<1>2. /\ assignment' \in Seq(Literals) /\ Length' = Length + Len(lits)
      /\ \A k \in 1 .. Length : assignment'[k] = assignment[k]
  <2>1. /\ assignment \o lits \in Seq(Literals) /\ Len(assignment \o lits) = Len(assignment) + Len(lits)
        /\ \A k \in 1 .. Len(assignment) : (assignment \o lits)[k] = assignment[k]
    BY <1>1, Concatenated, Zenon
  <2>2. Length' = Len(assignment') /\ Length = Len(assignment)
    BY DEF Length
  <2> QED BY <2>1, <2>2, Zenon
<1>3. ASSUME NEW k \in Length + 1 .. Length + Len(lits)
      PROVE  level[assignment'[k]] = DL
  <2>1. k \in Len(assignment) + 1 .. Len(assignment) + Len(lits)
    BY DEF Length
  <2>2. k - Len(assignment) \in DOMAIN lits /\ (assignment \o lits)[k] = lits[k - Len(assignment)]
    BY <1>1, <2>1, Concatenated, Zenon
  <2>3. level[lits[k - Len(assignment)]] = DL
    BY <2>2, Zenon DEF OnLevel
  <2> QED BY <2>2, <2>3, Zenon
<1>4. Length + Len(lits) > Length /\ Length + Len(lits) \in Nat
  BY <1>1
<1> QED BY <1>1, <1>2, <1>3, <1>4, Zenon

(* All levels but the last end where they did.                              *)
LEMMA MoreOnLevel ==
  ASSUME TypeOK, Trail, Book, NEW lits \in Seq(Literals), lits # <<>>, OnLevel(lits),
         assignment' = assignment \o lits, UNCHANGED <<trail, dl, propagated>>, dl[Depth] = DL, DL > 0,
         assLength' = assLength \/ assLength' = [assLength EXCEPT ![Depth] = Length'],
         Height' \in 1 .. Depth, spaces'[1] \in Roots
  PROVE  /\ Trail' /\ Book' /\ assignment' \in Seq(Literals) /\ assLength' \in Seq(Nat)
         /\ Depth' = Depth /\ Length' = Length + Len(lits)
<1>1. UNCHANGED <<DL, level, pending, watched, Depth>> /\ Depth \in Nat /\ Depth >= 2 /\ DL \in Nat
  <2>1. UNCHANGED <<DL, level, pending, watched, Depth>>
    BY DEF trail, Depth
  <2> QED BY <2>1, BookFacts
<1>2. /\ assignment' \in Seq(Literals) /\ Length' \in Nat /\ Length' > Length
      /\ \A k \in 1 .. Length : assignment'[k] = assignment[k]
      /\ \A k \in Length + 1 .. Length' : level[assignment'[k]] = DL
  BY Longer
<1>3. assLength \in Seq(Nat) /\ Len(assLength) >= Depth /\ Len(assLength) <= Depth
  BY DEF TypeOK, Book
<1>4. /\ assLength' \in Seq(Nat) /\ Len(assLength') >= Depth /\ Len(assLength') <= Depth
      /\ \A i \in 1 .. Depth - 1 : assLength'[i] = assLength[i]
      /\ assLength'[Depth] \in {assLength[Depth], Length'}
  <2>1. Length' \in Nat
    BY <1>2
  <2>2. CASE assLength' = assLength
    BY <1>1, <1>3, <2>2
  <2>3. CASE assLength' = [assLength EXCEPT ![Depth] = Length']
    BY <1>1, <1>3, <2>1, <2>3
  <2> QED BY <2>2, <2>3
<1>5. Length \in Nat /\ assLength[Depth] \in Nat /\ assLength[Depth] <= Length
  BY BookFacts
<1>6. \A i, j \in 1 .. Depth : i < j => dl[i] < dl[j] /\ assLength'[i] < assLength'[j]
  <2>1. ASSUME NEW i \in 1 .. Depth, NEW j \in 1 .. Depth, i < j
        PROVE  dl[i] < dl[j] /\ assLength'[i] < assLength'[j]
    <3>1. dl[i] < dl[j] /\ assLength[i] < assLength[j] /\ i \in 1 .. Depth - 1
      BY <1>1, <2>1 DEF Book
    <3>2. assLength'[i] = assLength[i] /\ assLength[i] \in Nat
      BY <1>4, <3>1, BookFacts
    <3>3. CASE j = Depth
      BY <1>2, <1>4, <1>5, <3>1, <3>2, <3>3
    <3>4. CASE j # Depth
      <4>1. j \in 1 .. Depth - 1
        BY <1>1, <3>4
      <4> QED BY <1>4, <3>1, <3>2, <4>1
    <3> QED BY <3>3, <3>4
  <2> QED BY <2>1
<1>7. ASSUME NEW i \in 2 .. Depth, NEW k \in assLength'[i - 1] + 1 .. End(i)'
      PROVE  level[assignment'[k]] = dl[i]
  <2>1. i - 1 \in 1 .. Depth - 1 /\ i - 1 \in 1 .. Depth /\ (i # Depth => i \in 1 .. Depth - 1)
    BY <1>1
  <2>2. assLength'[i - 1] = assLength[i - 1] /\ assLength[i - 1] \in Nat
    BY <1>4, <2>1, BookFacts
  <2>3. CASE i = Depth
    <3>1. End(i)' = Length' /\ End(i) = Length
      BY <1>1, <2>3 DEF End
    <3>2. k \in assLength[i - 1] + 1 .. Length'
      BY <2>2, <3>1
    <3>3. CASE k <= Length
      <4>1. k \in 1 .. Length /\ k \in assLength[i - 1] + 1 .. End(i)
        BY <1>5, <2>2, <3>1, <3>2, <3>3
      <4>2. level[assignment[k]] = dl[i]
        BY <4>1, Segments
      <4> QED BY <1>2, <4>1, <4>2
    <3>4. CASE ~(k <= Length)
      <4>1. k \in Length + 1 .. Length'
        BY <1>5, <2>2, <3>2, <3>4
      <4> QED BY <1>2, <2>3, <4>1
    <3> QED BY <3>3, <3>4
  <2>4. CASE i # Depth
    <3>1. End(i)' = assLength'[i] /\ assLength'[i] = assLength[i] /\ End(i) = assLength[i]
      BY <1>1, <1>4, <2>1, <2>4 DEF End
    <3>2. k \in assLength[i - 1] + 1 .. End(i)
      BY <2>2, <3>1
    <3>3. level[assignment[k]] = dl[i] /\ k \in 1 .. Length
      BY <3>2, Segments
    <3> QED BY <1>2, <3>3
  <2> QED BY <2>3, <2>4
<1>8. \A i \in 2 .. Depth' : \A k \in assLength'[i - 1] + 1 .. End(i)' : level'[assignment'[k]] = dl'[i]
  BY <1>1, <1>7
<1>9. Book'
  <2>1. dl'[Depth'] <= DL' /\ dl'[1] = 0 /\ watched' = {dl'[i] : i \in 2 .. Depth'}
    BY <1>1 DEF Book
  <2>2. assLength'[1] = 0
    BY <1>1, <1>4, BookFacts
  <2>3. propagated' <= Length' /\ assLength'[Depth'] <= Length' /\ ~(Depth' <= 1)
    BY <1>1, <1>2, <1>4, <1>5, BookFacts
  <2> QED BY <1>1, <1>4, <1>6, <1>8, <2>1, <2>2, <2>3 DEF Book
<1>10. Trail'
  BY <1>1 DEF Trail, OnLevel
<1>11. Length' = Length + Len(lits)
  BY Longer
<1> QED BY <1>1, <1>2, <1>4, <1>9, <1>10, <1>11, Zenon

LEMMA NewLevel ==
  ASSUME TypeOK, Trail, Book, Full, NEW lits \in Seq(Literals), lits # <<>>, OnLevel(lits),
         assignment' = assignment \o lits, UNCHANGED <<DL, level, pending, propagated>>, dl[Depth] # DL,
         dl' = Append(dl, DL), assLength' = Append(assLength, Length'), watched' = watched \cup {DL},
         Height' \in 1 .. Depth + 1, spaces'[1] \in Roots
  PROVE  /\ Trail' /\ Book' /\ assignment' \in Seq(Literals) /\ assLength' \in Seq(Nat) /\ dl' \in Seq(Nat)
         /\ Depth' = Depth + 1 /\ Length' = Length + Len(lits)
         /\ dl'[Depth + 1] = DL /\ assLength'[Depth + 1] = Length' /\ assLength'[Depth] = assLength[Depth]
<1>1. Depth \in Nat /\ Depth >= 1 /\ DL \in Nat /\ dl[Depth] < DL /\ Length \in Nat /\ assLength[Depth] = Length
  BY BookFacts DEF Full
<1>2. /\ assignment' \in Seq(Literals) /\ Length' \in Nat /\ Length' > Length
      /\ \A k \in 1 .. Length : assignment'[k] = assignment[k]
      /\ \A k \in Length + 1 .. Length' : level[assignment'[k]] = DL
  BY Longer
<1>3. /\ dl' \in Seq(Nat) /\ Depth' = Depth + 1 /\ dl'[Depth + 1] = DL
      /\ \A i \in 1 .. Depth : dl'[i] = dl[i]
  BY <1>1 DEF TypeOK, Depth
<1>4. /\ assLength' \in Seq(Nat) /\ Len(assLength') >= Depth + 1 /\ Len(assLength') <= Depth + 1
      /\ \A i \in 1 .. Depth : assLength'[i] = assLength[i]
      /\ assLength'[Depth + 1] = Length'
  <2>1. assLength \in Seq(Nat) /\ Len(assLength) >= Depth /\ Len(assLength) <= Depth
    BY DEF TypeOK, Book
  <2> QED BY <1>1, <1>2, <2>1
<1>5. \A i, j \in 1 .. Depth + 1 : i < j => dl'[i] < dl'[j] /\ assLength'[i] < assLength'[j]
  <2>1. ASSUME NEW i \in 1 .. Depth + 1, NEW j \in 1 .. Depth + 1, i < j
        PROVE  dl'[i] < dl'[j] /\ assLength'[i] < assLength'[j]
    <3>1. i \in 1 .. Depth
      BY <1>1, <2>1
    <3>2. dl'[i] = dl[i] /\ assLength'[i] = assLength[i] /\ dl[i] \in Nat /\ assLength[i] \in Nat
          /\ dl[i] <= dl[Depth] /\ assLength[i] <= assLength[Depth] /\ dl[Depth] \in Nat
      BY <1>3, <1>4, <3>1, BookFacts
    <3>3. CASE j = Depth + 1
      <4>1. dl'[j] = DL /\ assLength'[j] = Length'
        BY <1>3, <1>4, <3>3
      <4>2. dl[i] < DL
        BY <1>1, <3>2
      <4>3. assLength[i] < Length'
        BY <1>1, <1>2, <3>2
      <4> QED BY <3>2, <4>1, <4>2, <4>3
    <3>4. CASE j # Depth + 1
      <4>1. j \in 1 .. Depth
        BY <1>1, <3>4
      <4>2. dl[i] < dl[j] /\ assLength[i] < assLength[j]
        BY <2>1, <3>1, <4>1 DEF Book
      <4> QED BY <1>3, <1>4, <3>2, <4>1, <4>2
    <3> QED BY <3>3, <3>4
  <2> QED BY <2>1
<1>6. ASSUME NEW i \in 2 .. Depth + 1, NEW k \in assLength'[i - 1] + 1 .. End(i)'
      PROVE  level[assignment'[k]] = dl'[i]
  <2>1. i - 1 \in 1 .. Depth /\ (i # Depth + 1 => i \in 2 .. Depth /\ i \in 1 .. Depth)
    BY <1>1
  <2>2. assLength'[i - 1] = assLength[i - 1] /\ assLength[i - 1] \in Nat
    BY <1>4, <2>1, BookFacts
  <2>3. CASE i = Depth + 1
    <3>1. End(i)' = Length' /\ assLength[i - 1] = Length
      BY <1>1, <1>3, <2>3 DEF End
    <3>2. k \in Length + 1 .. Length'
      BY <2>2, <3>1
    <3> QED BY <1>2, <1>3, <2>3, <3>2
  <2>4. CASE i # Depth + 1
    <3>1. i \in 2 .. Depth /\ i \in 1 .. Depth
      BY <2>1, <2>4
    <3>2. End(i)' = assLength'[i] /\ assLength'[i] = assLength[i]
      BY <1>3, <1>4, <2>4, <3>1 DEF End
    <3>3. End(i) = assLength[i]
      BY <1>1 DEF End
    <3>4. k \in assLength[i - 1] + 1 .. End(i)
      BY <2>2, <3>2, <3>3
    <3>5. level[assignment[k]] = dl[i] /\ k \in 1 .. Length
      BY <3>1, <3>4, Segments
    <3> QED BY <1>2, <1>3, <3>1, <3>5
  <2> QED BY <2>3, <2>4
<1>7. \A i \in 2 .. Depth' : \A k \in assLength'[i - 1] + 1 .. End(i)' : level'[assignment'[k]] = dl'[i]
  BY <1>3, <1>6
<1>8. Book'
  <2>1. dl'[Depth'] <= DL' /\ dl'[1] = 0 /\ assLength'[1] = 0
    <3>1. 1 \in 1 .. Depth /\ dl[1] = 0 /\ assLength[1] = 0
      BY <1>1, BookFacts
    <3>2. dl'[1] = 0 /\ assLength'[1] = 0
      BY <1>3, <1>4, <3>1
    <3>3. dl'[Depth'] = DL /\ DL' = DL
      BY <1>3
    <3> QED BY <1>1, <3>2, <3>3
  <2>2. watched' = {dl'[i] : i \in 2 .. Depth'}
    <3>1. watched = {dl[i] : i \in 2 .. Depth}
      BY DEF Book
    <3>2. ASSUME NEW i \in 2 .. Depth
          PROVE  dl'[i] = dl[i] /\ i \in 2 .. Depth + 1
      <4>1. i \in 1 .. Depth /\ i \in 2 .. Depth + 1
        BY <1>1
      <4> QED BY <1>3, <4>1, Zenon
    <3>3. Depth' = Depth + 1 /\ dl'[Depth + 1] = DL /\ Depth + 1 \in 2 .. Depth + 1
      BY <1>1, <1>3
    <3>4. \A i \in 2 .. Depth + 1 : i \in 2 .. Depth \/ i = Depth + 1
      BY <1>1
    <3>5. ASSUME NEW x PROVE x \in watched' <=> x \in {dl'[i] : i \in 2 .. Depth + 1}
      <4>1. x \in watched' => x \in {dl'[i] : i \in 2 .. Depth + 1}
        BY <3>1, <3>2, <3>3, Zenon
      <4>2. x \in {dl'[i] : i \in 2 .. Depth + 1} => x \in watched'
        BY <3>1, <3>2, <3>3, <3>4, Zenon
      <4> QED BY <4>1, <4>2
    <3> QED BY <3>3, <3>5, Zenon
  <2>3. propagated' <= Length' /\ assLength'[Depth'] <= Length' /\ ~(Depth' <= 1)
    BY <1>1, <1>2, <1>3, <1>4, BookFacts
  <2>4. \A i, j \in 1 .. Depth' : i < j => dl'[i] < dl'[j] /\ assLength'[i] < assLength'[j]
    BY <1>3, <1>5
  <2>5. Depth' >= 1 /\ Len(assLength') >= Depth' /\ Len(assLength') <= Depth' /\ Height' \in 1 .. Depth'
    BY <1>1, <1>3, <1>4
  <2> QED BY <1>7, <2>1, <2>2, <2>3, <2>4, <2>5 DEF Book
<1>9. Trail'
  BY DEF Trail, OnLevel
<1>10. Length' = Length + Len(lits)
  BY Longer
<1>11. assLength'[Depth] = assLength[Depth]
  BY <1>1, <1>4
<1> QED BY <1>2, <1>3, <1>4, <1>8, <1>9, <1>10, <1>11, Zenon

LEMMA LastOfLevels ==
  ASSUME TypeOK, Book
  PROVE  Last(dl) = dl[Depth] /\ Last(assLength) = assLength[Depth]
<1>1. Len(assLength) = Depth
  <2>1. Len(assLength) >= Depth /\ Len(assLength) <= Depth /\ Len(assLength) \in Nat /\ Depth \in Nat
    BY BookFacts DEF Book, TypeOK
  <2> QED BY <2>1
<1> QED BY <1>1 DEF Last, Depth

LEMMA PostponeKeeps == ASSUME IndInv, Postpone PROVE IndInv'
<1> USE DEF IndInv
<1>1. /\ pc = "filter" /\ call.clits # <<>> /\ DL > 0 /\ propQueue' = <<>>
      /\ assignment' = assignment \o call.clits
      /\ Return("search") \/ (pending = <<>> /\ Return("fixpoint"))
      /\ UNCHANGED <<theory, DL, level, pending, spaces, propagated, impliedLits, updateOpt>>
  BY DEF Postpone, Examined, New, learnt, optimum
<1>2. Full /\ OnLevel(call.clits)
  BY <1>1, InFilter
<1>3. call.clits \in Seq(Literals)
  BY DEF TypeOK, Calls
<1>4. Height' = Height /\ Height \in 1 .. Depth /\ Depth \in Nat /\ IsSequence(spaces') /\ spaces'[1] \in Roots
      /\ propagated' \in Nat
  <2>1. Height' = Height
    BY <1>1 DEF Height
  <2> QED BY <1>1, <2>1, BookFacts
<1>5. Trail' /\ Book' /\ Full' /\ assignment' \in Seq(Literals) /\ assLength' \in Seq(Nat) /\ dl' \in Seq(Nat)
  <2>1. CASE dl[Depth] # DL
    <3>1. dl' = Append(dl, DL) /\ assLength' = Append(assLength, Length') /\ watched' = watched \cup {DL}
      BY <2>1, LastOfLevels DEF Postpone, Length
    <3>2. Height' \in 1 .. Depth + 1
      BY <1>4
    <3>3. /\ Trail' /\ Book' /\ assignment' \in Seq(Literals) /\ assLength' \in Seq(Nat) /\ dl' \in Seq(Nat)
          /\ Depth' = Depth + 1 /\ assLength'[Depth + 1] = Length'
      BY <1>1, <1>2, <1>3, <1>4, <2>1, <3>1, <3>2, NewLevel
    <3> QED BY <3>3 DEF Full
  <2>2. CASE dl[Depth] = DL
    <3>1. assLength' = [assLength EXCEPT ![Depth] = Length'] /\ UNCHANGED <<dl, watched>>
      BY <2>2, LastOfLevels DEF Postpone, Length, Depth
    <3>2. /\ Trail' /\ Book' /\ assignment' \in Seq(Literals) /\ assLength' \in Seq(Nat) /\ Depth' = Depth
      BY <1>1, <1>2, <1>3, <1>4, <2>2, <3>1, MoreOnLevel DEF trail
    <3>3. dl' \in Seq(Nat) /\ assLength \in Seq(Nat) /\ Len(assLength) >= Depth /\ Depth \in Nat /\ Depth >= 1
      BY <3>1, BookFacts DEF TypeOK, Book
    <3>4. assLength'[Depth] = Length'
      BY <3>1, <3>3
    <3> QED BY <3>2, <3>3, <3>4 DEF Full
  <2> QED BY <2>1, <2>2
<1>6. call' = NoCall /\ derived' = {} /\ pc' \in {"search", "fixpoint"} /\ (pc' = "fixpoint" => pending = <<>>)
  BY <1>1 DEF Return
<1>7. TypeOK'
  BY <1>1, <1>4, <1>5, <1>6, NoCallTyped DEF TypeOK, theory
<1>8. OnLevel(propQueue)'
  BY <1>1 DEF OnLevel
<1>9. CASE pc' = "search"
  BY <1>5, <1>7, <1>8, <1>9, ToSearch
<1>10. CASE pc' = "fixpoint"
  BY <1>1, <1>5, <1>6, <1>7, <1>10, ToFixpoint
<1> QED BY <1>6, <1>9, <1>10

LEMMA InsertKeeps == ASSUME IndInv, Insert PROVE IndInv'
<1> USE DEF IndInv
<1>1. /\ pc = "finish" /\ pc' = "each" /\ call.caller = "propagate"
      /\ assignment' = assignment \o call.clits
      /\ UNCHANGED <<theory, DL, level, pending, propQueue, propagated, impliedLits, updateOpt, derived, call>>
  BY DEF Insert, Caught, learnt, optimum
<1>2. propagated = assLength[Depth]
  BY LastOfLevels DEF Insert, Caught
<1>3. /\ Full /\ propQueue = <<>> /\ call.oldDL = DL /\ OnLevel(call.clits)
      /\ call.clits # <<>> /\ DL > 0
  BY <1>1, InFinish
<1>4. call.clits \in Seq(Literals) /\ call \in Calls
  BY DEF TypeOK, Calls
<1>5. propagated = Length /\ propagated \in Nat /\ Depth \in Nat /\ Depth >= 1 /\ Height \in 1 .. Depth
  BY <1>2, <1>3, BookFacts DEF Full
<1>6. /\ Trail' /\ Book' /\ assignment' \in Seq(Literals) /\ assLength' \in Seq(Nat) /\ dl' \in Seq(Nat)
      /\ IsSequence(spaces') /\ Length' = Length + Len(call.clits)
      /\ dl'[Depth'] = DL /\ assLength'[Depth' - 1] <= propagated
  <2>1. CASE dl[Depth] # DL
    <3>1. /\ dl' = Append(dl, DL) /\ assLength' = Append(assLength, Length') /\ watched' = watched \cup {DL}
          /\ PushSpace
      BY <2>1, LastOfLevels DEF Insert, Length
    <3>2. IsSequence(spaces') /\ Height' = Height + 1 /\ spaces'[1] \in Roots
      BY <3>1, SpacePushed
    <3>3. Height' \in 1 .. Depth + 1
      BY <1>5, <3>2
    <3>4. /\ Trail' /\ Book' /\ assignment' \in Seq(Literals) /\ assLength' \in Seq(Nat) /\ dl' \in Seq(Nat)
          /\ Depth' = Depth + 1 /\ Length' = Length + Len(call.clits)
          /\ dl'[Depth + 1] = DL /\ assLength'[Depth] = assLength[Depth]
      BY <1>1, <1>3, <1>4, <2>1, <3>1, <3>2, <3>3, NewLevel
    <3>5. dl'[Depth'] = DL
      BY <3>4, Zenon
    <3>6. Depth' - 1 = Depth
      BY <1>5, <3>4
    <3>7. assLength'[Depth' - 1] <= propagated
      BY <1>2, <1>5, <3>4, <3>6
    <3> QED BY <3>2, <3>4, <3>5, <3>7, Zenon
  <2>2. CASE dl[Depth] = DL
    <3>1. UNCHANGED <<dl, watched, assLength, spaces>>
      BY <2>2, LastOfLevels DEF Insert
    <3>2. Height' \in 1 .. Depth /\ IsSequence(spaces') /\ spaces'[1] \in Roots
      <4>1. Height' = Height
        BY <3>1 DEF Height
      <4> QED BY <3>1, <4>1, BookFacts
    <3>3. /\ Trail' /\ Book' /\ assignment' \in Seq(Literals) /\ assLength' \in Seq(Nat) /\ Depth' = Depth
          /\ Length' = Length + Len(call.clits)
      BY <1>1, <1>3, <1>4, <2>2, <3>1, <3>2, MoreOnLevel DEF trail
    <3>4. dl' \in Seq(Nat) /\ dl'[Depth'] = DL
      BY <2>2, <3>1, <3>3 DEF TypeOK
    <3>5. assLength'[Depth' - 1] <= propagated
      <4>1. Depth >= 2
        BY <1>3, <1>5, <2>2, BookFacts
      <4>2. Depth - 1 \in 1 .. Depth
        BY <1>5, <4>1
      <4>3. assLength[Depth - 1] <= assLength[Depth]
        BY <4>2, BookFacts
      <4> QED BY <1>2, <3>1, <3>3, <4>3
    <3> QED BY <3>2, <3>3, <3>4, <3>5, Zenon
  <2> QED BY <2>1, <2>2
<1>7. TypeOK'
  <2>1. UNCHANGED <<worlds, option>>
    BY <1>1 DEF theory
  <2>2. call' \in Calls /\ propagated' \in Nat
    BY <1>1, <1>4, <1>5
  <2> QED BY <1>1, <1>6, <2>1, <2>2 DEF TypeOK
<1>8. AtEach'
  <2>1. Length' = propagated' + Len(call'.clits)
    BY <1>1, <1>5, <1>6, Zenon
  <2>2. /\ propQueue' = <<>> /\ call'.oldDL >= DL' /\ call'.oldDL = DL' /\ DL' > 0
    BY <1>1, <1>3 DEF TypeOK
  <2>3. dl'[Depth'] = DL' /\ assLength'[Depth' - 1] <= propagated' /\ call'.clits # <<>>
    BY <1>1, <1>3, <1>6
  <2> QED BY <2>1, <2>2, <2>3 DEF AtEach
<1> QED BY <1>1, <1>6, <1>7, <1>8, ToEach

-----------------------------------------------------------------------------
(* Every step keeps the invariant.                                          *)
LEMMA DoneKeeps == ASSUME IndInv, UNCHANGED vars PROVE IndInv'
<1>1. UNCHANGED <<theory, trail, jump, propQueue, book, derived, impliedLits, updateOpt, pc, call>>
  BY DEF vars, learnt, optimum
<1>2. UNCHANGED <<DL, level, pending, Full, Depth, Length, Height, dl, assLength, propagated>>
  BY <1>1 DEF trail, book, Full, Depth, Length, Height
<1>3. TypeOK'
  BY <1>1, <1>2, SameTypes DEF IndInv, TypeOK
<1>4. Trail' /\ Book'
  BY <1>1, SameBook DEF IndInv
<1>5. Control'
  BY <1>1, <1>2 DEF IndInv, Control, Places, AtSearch, AtFixpoint, AtOld, AtFilter, AtFinish, AtRedo, AtEach, AtConflict,
     AtTell, AtMore, AtUndo, Within, OnLevel
<1> QED BY <1>3, <1>4, <1>5 DEF IndInv

(* Nothing is minimized.                                                    *)
LEMMA NotMinimizing ==
  ASSUME IndInv
  PROVE  ~NextAnswer /\ ~NextModel /\ ~Minimize /\ ~NextSpace /\ ~Minimized
BY DEF IndInv, TypeOK, Control, Places, NextAnswer, NextModel, Minimize, NextSpace, Minimized

LEMMA StepKeeps == ASSUME IndInv, [Next]_vars PROVE IndInv'
<1>1. CASE Next
  BY <1>1, NotMinimizing, DoneKeeps, DecideKeeps, DecideOtherKeeps, InferKeeps, ClashKeeps, PropagateLiteralKeeps,
     ResolveKeeps, GiveUpKeeps, UndoLevelKeeps, ArriveKeeps, PropagateKeeps, ImplyOldKeeps, DropOldKeeps,
     RefuteOldKeeps, OldDoneKeeps, ExamineKeeps, RefuteKeeps, NothingNewKeeps, PropagateRootKeeps,
     PostponeKeeps, CatchUpKeeps, FinishKeeps, RedoKeeps, RedoDoneKeeps, BackjumpedKeeps, InsertKeeps,
     EachKeeps, EachDoneKeeps, ContradictKeeps, RememberKeeps, TellLiteralKeeps, AllToldKeeps,
     HasAnswerKeeps, EnumerateKeeps DEF Next, Done
<1> QED BY <1>1, DoneKeeps

(* The command line does not change.                                        *)
LEMMA OptionStays == [Next]_vars => UNCHANGED option
<1> SUFFICES ASSUME [Next]_vars PROVE option' = option
  OBVIOUS
<1>1. CASE UNCHANGED vars
  BY <1>1 DEF vars, theory
<1>2. CASE Next
  <2>1. UNCHANGED theory \/ UNCHANGED vars
    BY <1>2 DEF Next, Decide, DecideOther, Infer, Clash, PropagateLiteral, Resolve, GiveUp, UndoLevel, Arrive,
       Propagate, ImplyOld, DropOld, RefuteOld, OldDone, Examine, Refute, NothingNew, PropagateRoot, Postpone, CatchUp,
       Finish, Redo, RedoDone, Backjumped, Insert, Each, EachDone, Contradict, Remember, TellLiteral, AllTold,
       HasAnswer, Enumerate, NextAnswer, NextModel, Minimize, NextSpace, Minimized, Done
  <2> QED BY <2>1 DEF vars, theory
<1> QED BY <1>1, <1>2

LEMMA Invariant == Spec => []Inv
<1>1. Init => Inv
  BY InitTrue DEF Inv
<1>2. Inv /\ [Next]_vars => Inv'
  BY StepKeeps, OptionStays DEF Inv
<1> QED BY <1>1, <1>2, PTL DEF Spec

LEMMA LevelsAligned == ASSUME IndInv PROVE Aligned
<1> USE DEF IndInv
<1>1. dl \in Seq(Nat) /\ Depth \in Nat /\ Depth >= 1 /\ Height \in 1 .. Depth
  BY BookFacts DEF TypeOK
<1>2. Len(dl) = Len(assLength)
  <2>1. Len(assLength) >= Depth /\ Len(assLength) <= Depth /\ Len(assLength) \in Nat
    BY DEF Book, TypeOK
  <2> QED BY <1>1, <2>1 DEF Depth
<1>3. Len(spaces) \in 1 .. Len(dl) /\ Root.kept
  BY <1>1, BookFacts DEF Depth, Height, Root, Roots
<1>4. Last(dl) <= DL /\ propagated <= Len(assignment) /\ Last(assLength) <= Len(assignment)
  BY BookFacts, LastOfLevels DEF Length
<1>5. watched = ToSet(Tail(dl))
  <2>1. /\ Len(Tail(dl)) = Len(dl) - 1 /\ Tail(dl) \in Seq(Nat)
        /\ \A i \in 1 .. Len(dl) - 1 : Tail(dl)[i] = dl[i + 1]
    BY <1>1 DEF Depth
  <2>2. ToSet(Tail(dl)) = {Tail(dl)[i] : i \in 1 .. Depth - 1}
    <3>1. DOMAIN Tail(dl) = 1 .. Len(Tail(dl))
      BY <1>1 DEF Depth
    <3>2. DOMAIN Tail(dl) = 1 .. Depth - 1
      BY <2>1, <3>1, Zenon DEF Depth
    <3> QED BY <3>2, Zenon DEF ToSet
  <2>3. \A i \in 1 .. Depth - 1 : i + 1 \in 2 .. Depth /\ Tail(dl)[i] = dl[i + 1]
    BY <1>1, <2>1 DEF Depth
  <2>4. \A i \in 2 .. Depth : i - 1 \in 1 .. Depth - 1 /\ Tail(dl)[i - 1] = dl[i]
    <3>1. ASSUME NEW i \in 2 .. Depth PROVE i - 1 \in 1 .. Depth - 1 /\ (i - 1) + 1 = i
      BY <1>1
    <3> QED BY <2>3, <3>1
  <2>5. watched = {dl[i] : i \in 2 .. Depth}
    BY DEF Book
  <2>6. ASSUME NEW x PROVE x \in watched <=> x \in ToSet(Tail(dl))
    <3>1. x \in watched => x \in ToSet(Tail(dl))
      BY <2>2, <2>4, <2>5, Zenon
    <3>2. x \in ToSet(Tail(dl)) => x \in watched
      BY <2>2, <2>3, <2>5, Zenon
    <3> QED BY <3>1, <3>2
  <2> QED BY <2>6
<1>6. ASSUME NEW i \in 2 .. Len(dl)
      PROVE  /\ dl[i - 1] < dl[i] /\ assLength[i - 1] < assLength[i]
             /\ \A l \in Segment(i) : level[l] = dl[i]
  <2>1. i \in 2 .. Depth /\ i \in 1 .. Depth /\ i - 1 \in 1 .. Depth /\ i - 1 < i
    BY <1>1 DEF Depth
  <2>2. dl[i - 1] < dl[i] /\ assLength[i - 1] < assLength[i]
    BY <2>1 DEF Book
  <2>3. assLength[i - 1] \in Nat /\ assLength[i] \in Nat /\ assLength[i] <= End(i) /\ End(i) \in Nat
    BY <2>1, BookFacts DEF End
  <2>4. ASSUME NEW k \in assLength[i - 1] + 1 .. assLength[i]
        PROVE  level[assignment[k]] = dl[i]
    <3>1. k \in assLength[i - 1] + 1 .. End(i)
      BY <2>3
    <3> QED BY <2>1, <3>1, Segments
  <2> QED BY <2>2, <2>4 DEF Segment
<1> QED BY <1>2, <1>3, <1>4, <1>5, <1>6 DEF Aligned

(* The arrays of GecodeSolver stay aligned with clasp's levels, through     *)
(* every backjump in the middle of a call, when nothing is minimized.       *)
THEOREM AlignedCorrect == Spec => [](~option.optimize => Aligned)
<1>1. Inv => (~option.optimize => Aligned)
  BY LevelsAligned DEF Inv
<1> QED BY <1>1, Invariant, PTL

-----------------------------------------------------------------------------
(* What the spaces know.                                                    *)
AllSpaces == [kept : BOOLEAN, lits : SUBSET Literals, bound : {NoBound}]

Part(s, n) == {s[k] : k \in 1 .. n}
Piece(s, m, n) == {s[k] : k \in m + 1 .. n}

(* How far the last space has got: into the part of its own level.          *)
Reach ==
    /\ Height >= 2 => assLength[Height - 1] <= propagated
    /\ Height < Depth => propagated <= assLength[Height]

SpacesTyped == \A i \in 1 .. Height : spaces[i] \in AllSpaces

(* Of h spaces, each that is kept knows what its level says; the last one   *)
(* has been told p literals.                                                *)
Knows(sps, asg, ends, h, p) ==
    \A i \in 1 .. h : sps[i].kept =>
        sps[i].lits = sps[1].lits \cup Part(asg, IF i = h THEN p ELSE ends[i])
SpacesKnow == Knows(spaces, assignment, assLength, Height, propagated)

(* A call tells its literals to the space of their level.                   *)
AtRedoSpaces == Within("redo") /\ call.oldDL = DL => call.stop <= assLength[Height]
AtEachSpaces ==
    Within("each") /\ call.oldDL = DL =>
        Height = Depth /\ \A k \in 1 .. Len(call.clits) : assignment[propagated + k] = call.clits[k]

SpacesInv == Reach /\ SpacesTyped /\ SpacesKnow
Spaces == SpacesInv /\ AtRedoSpaces /\ AtEachSpaces

-----------------------------------------------------------------------------
(* Sets of natural numbers have a smallest element, and a greatest one if   *)
(* they are bounded.                                                        *)
Less == {ss \in Nat \X Nat : ss[1] < ss[2]}

LEMMA LessWellFounded == IsWellFoundedOn(Less, Nat)
BY NatLessThanWellFounded DEF OpToRel, Less

LEMMA Smallest ==
  ASSUME NEW S \in SUBSET Nat, S # {}
  PROVE  \E x \in S : \A y \in S : x <= y
<1>1. PICK x \in S : \A y \in S : <<y, x>> \notin Less
  BY LessWellFounded, WFMin
<1>2. ASSUME NEW y \in S PROVE x <= y
  <2>1. x \in Nat /\ y \in Nat
    OBVIOUS
  <2>2. <<y, x>> \in Nat \X Nat
    BY <2>1
  <2>3. y < x => <<y, x>> \in Less
    BY <2>2 DEF Less
  <2> QED BY <1>1, <2>1, <2>3
<1> QED BY <1>2

LEMMA Greatest ==
  ASSUME NEW S \in SUBSET Nat, S # {}, NEW n \in Nat, \A x \in S : x <= n
  PROVE  Max(S) \in S /\ \A y \in S : y <= Max(S)
<1> DEFINE T == {n - x : x \in S}
<1>1. T \in SUBSET Nat /\ T # {}
  <2>1. ASSUME NEW x \in S PROVE n - x \in Nat
    <3>1. x \in Nat /\ x <= n
      OBVIOUS
    <3> QED BY <3>1
  <2> QED BY <2>1
<1>2. PICK z \in T : \A y \in T : z <= y
  BY <1>1, Smallest
<1>3. PICK m \in S : z = n - m
  OBVIOUS
<1>4. ASSUME NEW y \in S PROVE m >= y
  <2>1. n - y \in T /\ m \in Nat /\ y \in Nat
    OBVIOUS
  <2>2. n - m <= n - y
    BY <1>2, <1>3, <2>1
  <2> QED BY <2>1, <2>2
<1>5. \E x \in S : \A y \in S : x >= y
  BY <1>4
<1>6. Max(S) = CHOOSE x \in S : \A y \in S : x >= y
  BY Zenon DEF Max
<1>7. Max(S) \in S /\ \A y \in S : Max(S) >= y
  BY <1>5, <1>6, Zenon
<1>8. Max(S) \in Nat
  BY <1>7
<1> QED BY <1>7, <1>8

(* Parts of the assignment.                                                 *)
LEMMA PartFacts ==
  ASSUME NEW s
  PROVE  /\ Part(s, 0) = {}
         /\ \A n \in Nat : Part(s, n + 1) = Part(s, n) \cup {s[n + 1]}
<1>1. Part(s, 0) = {}
  BY DEF Part
<1>2. ASSUME NEW n \in Nat PROVE Part(s, n + 1) = Part(s, n) \cup {s[n + 1]}
  <2>1. \A k : k \in 1 .. n + 1 <=> (k \in 1 .. n \/ k = n + 1)
    OBVIOUS
  <2>2. ASSUME NEW x PROVE x \in Part(s, n + 1) <=> x \in Part(s, n) \cup {s[n + 1]}
    BY <2>1, Zenon DEF Part
  <2> QED BY <2>2
<1> QED BY <1>1, <1>2

LEMMA PartSplit ==
  ASSUME NEW s, NEW m \in Nat, NEW n \in Nat, m <= n
  PROVE  Part(s, n) = Part(s, m) \cup Piece(s, m, n)
<1>1. \A k : k \in 1 .. n <=> (k \in 1 .. m \/ k \in m + 1 .. n)
  OBVIOUS
<1>2. ASSUME NEW x PROVE x \in Part(s, n) <=> x \in Part(s, m) \cup Piece(s, m, n)
  BY <1>1, Zenon DEF Part, Piece
<1> QED BY <1>2

LEMMA PartSame ==
  ASSUME NEW s, NEW t, NEW n, \A k \in 1 .. n : s[k] = t[k]
  PROVE  Part(s, n) = Part(t, n)
BY Zenon DEF Part

LEMMA PartOfSequence ==
  ASSUME NEW S, NEW s \in Seq(S), NEW m \in Nat, NEW n \in Nat, m <= n, n <= Len(s)
  PROVE  /\ ToSet(SubSeq(s, m + 1, n)) = Piece(s, m, n)
         /\ Piece(s, m, n) \subseteq S
<1> DEFINE t == SubSeq(s, m + 1, n)
<1>1. DOMAIN t = 1 .. n - m /\ \A k \in 1 .. n - m : t[k] = s[m + k]
  OBVIOUS
<1>2. ToSet(t) = {t[k] : k \in 1 .. n - m}
  BY <1>1, Zenon DEF ToSet
<1>3. \A k \in 1 .. n - m : m + k \in m + 1 .. n /\ t[k] = s[m + k]
  BY <1>1
<1>4. \A k \in m + 1 .. n : k - m \in 1 .. n - m /\ t[k - m] = s[k]
  <2>1. ASSUME NEW k \in m + 1 .. n PROVE k - m \in 1 .. n - m /\ m + (k - m) = k
    OBVIOUS
  <2> QED BY <1>1, <2>1
<1>5. ASSUME NEW x PROVE x \in ToSet(t) <=> x \in Piece(s, m, n)
  <2>1. x \in ToSet(t) => x \in Piece(s, m, n)
    BY <1>2, <1>3, Zenon DEF Piece
  <2>2. x \in Piece(s, m, n) => x \in ToSet(t)
    BY <1>2, <1>4, Zenon DEF Piece
  <2> QED BY <2>1, <2>2
<1>6. \A k \in m + 1 .. n : s[k] \in S
  OBVIOUS
<1> QED BY <1>5, <1>6 DEF Piece

LEMMA PartTold ==
  ASSUME NEW S, NEW s \in Seq(S), NEW m \in Nat, NEW n \in Nat, m <= n, n <= Len(s)
  PROVE  /\ ToSet(SubSeq(s, m + 1, n)) \in SUBSET S
         /\ Part(s, n) = Part(s, m) \cup ToSet(SubSeq(s, m + 1, n))
<1>1. /\ ToSet(SubSeq(s, m + 1, n)) = Piece(s, m, n)
      /\ Piece(s, m, n) \subseteq S
  BY PartOfSequence, Zenon
<1>2. Part(s, n) = Part(s, m) \cup Piece(s, m, n)
  BY PartSplit, Zenon
<1> QED BY <1>1, <1>2, Zenon

LEMMA PrefixIs ==
  ASSUME TypeOK, NEW n \in Nat, n <= Length
  PROVE  Prefix(n) = Part(assignment, n) /\ Part(assignment, n) \subseteq Literals
<1>1. assignment \in Seq(Literals) /\ n <= Len(assignment)
  BY DEF TypeOK, Length
<1>2. PICK m \in Nat : m = 0 /\ m <= n /\ m + 1 = 1
  OBVIOUS
<1>3. /\ ToSet(SubSeq(assignment, m + 1, n)) \in SUBSET Literals
      /\ Part(assignment, n) = Part(assignment, m) \cup ToSet(SubSeq(assignment, m + 1, n))
  BY <1>1, <1>2, PartTold
<1>4. Part(assignment, m) = {}
  BY <1>2, PartFacts
<1> QED BY <1>2, <1>3, <1>4, Zenon DEF Prefix

(* Sequences of spaces.                                                     *)
LEMMA ReplacedElements ==
  ASSUME NEW s, IsSequence(s), Len(s) >= 1, NEW x
  PROVE  \A i \in 1 .. Len(s) : WithCurrent(s, x)[i] = IF i = Len(s) THEN x ELSE s[i]
<1>1. PICK S : s \in Seq(S)
  BY DEF IsSequence
<1> QED BY <1>1 DEF WithCurrent

LEMMA AppendedElements ==
  ASSUME NEW s, IsSequence(s), NEW x
  PROVE  /\ \A i \in 1 .. Len(s) : Append(s, x)[i] = s[i]
         /\ Append(s, x)[Len(s) + 1] = x
<1>1. PICK S : s \in Seq(S)
  BY DEF IsSequence
<1>2. s \in Seq(S \cup {x})
  BY <1>1
<1> QED BY <1>2

LEMMA FrontElements ==
  ASSUME NEW s, IsSequence(s), Len(s) >= 2
  PROVE  \A i \in 1 .. Len(s) - 1 : Front(s)[i] = s[i]
<1>1. PICK S : s \in Seq(S)
  BY DEF IsSequence
<1> QED BY <1>1 DEF Front

LEMMA WithFacts ==
  ASSUME NEW space \in AllSpaces, NEW lits \in SUBSET Literals
  PROVE  /\ With(space, lits) \in AllSpaces /\ With(space, lits).kept = space.kept
         /\ With(space, lits).lits = space.lits \cup lits
BY DEF AllSpaces, With

-----------------------------------------------------------------------------
(* What the spaces know, when one of them changes.                          *)
LEMMA KnowsReplaced ==
  ASSUME NEW sps, IsSequence(sps), NEW h \in Nat, h >= 1, Len(sps) = h,
         NEW asg, NEW ends, NEW p, NEW q, Knows(sps, asg, ends, h, p),
         NEW x, x.kept => x.lits = sps[1].lits \cup Part(asg, q)
  PROVE  Knows(WithCurrent(sps, x), asg, ends, h, q)
<1> DEFINE t == WithCurrent(sps, x)
<1>1. \A i \in 1 .. h : t[i] = IF i = h THEN x ELSE sps[i]
  BY ReplacedElements
<1>2. SUFFICES ASSUME NEW i \in 1 .. h, t[i].kept
               PROVE  t[i].lits = t[1].lits \cup Part(asg, IF i = h THEN q ELSE ends[i])
  BY Zenon DEF Knows
<1>3. CASE i = h /\ h = 1
  <2>1. t[i] = x /\ t[1] = x
    BY <1>1, <1>3
  <2>2. x.lits = sps[1].lits \cup Part(asg, q)
    BY <1>2, <2>1
  <2> QED BY <1>3, <2>1, <2>2
<1>4. CASE i = h /\ h # 1
  <2>1. t[i] = x /\ t[1] = sps[1]
    BY <1>1, <1>4
  <2> QED BY <1>2, <1>4, <2>1
<1>5. CASE i # h
  <2>1. t[i] = sps[i] /\ t[1] = sps[1]
    BY <1>1, <1>5
  <2>2. sps[i].lits = sps[1].lits \cup Part(asg, ends[i])
    BY <1>2, <1>5, <2>1 DEF Knows
  <2> QED BY <1>5, <2>1, <2>2
<1> QED BY <1>3, <1>4, <1>5

LEMMA KnowsAppended ==
  ASSUME NEW sps, IsSequence(sps), NEW h \in Nat, h >= 1, Len(sps) = h,
         NEW asg, NEW ends, NEW p, Knows(sps, asg, ends, h, p), ends[h] = p,
         NEW x, x.kept => x.lits = sps[1].lits \cup Part(asg, p)
  PROVE  Knows(Append(sps, x), asg, ends, h + 1, p)
<1> DEFINE t == Append(sps, x)
<1>1. (\A i \in 1 .. h : t[i] = sps[i]) /\ t[h + 1] = x
  BY AppendedElements
<1>2. SUFFICES ASSUME NEW i \in 1 .. h + 1, t[i].kept
               PROVE  t[i].lits = t[1].lits \cup Part(asg, IF i = h + 1 THEN p ELSE ends[i])
  BY Zenon DEF Knows
<1>3. t[1] = sps[1]
  BY <1>1
<1>4. CASE i = h + 1
  BY <1>1, <1>2, <1>3, <1>4
<1>5. CASE i # h + 1
  <2>1. i \in 1 .. h /\ t[i] = sps[i]
    BY <1>1, <1>5
  <2>2. sps[i].lits = sps[1].lits \cup Part(asg, IF i = h THEN p ELSE ends[i])
    BY <1>2, <2>1 DEF Knows
  <2>3. (IF i = h THEN p ELSE ends[i]) = ends[i]
    OBVIOUS
  <2> QED BY <1>3, <1>5, <2>1, <2>2, <2>3
<1> QED BY <1>4, <1>5

LEMMA KnowsFront ==
  ASSUME NEW sps, IsSequence(sps), NEW h \in Nat, h >= 2, Len(sps) = h,
         NEW asg, NEW ends, NEW p, Knows(sps, asg, ends, h, p)
  PROVE  Knows(Front(sps), asg, ends, h - 1, ends[h - 1])
<1> DEFINE t == Front(sps)
<1>1. \A i \in 1 .. h - 1 : t[i] = sps[i]
  BY FrontElements
<1>2. SUFFICES ASSUME NEW i \in 1 .. h - 1, t[i].kept
               PROVE  t[i].lits = t[1].lits \cup Part(asg, IF i = h - 1 THEN ends[h - 1] ELSE ends[i])
  BY Zenon DEF Knows
<1>3. t[1] = sps[1] /\ t[i] = sps[i] /\ i # h /\ i \in 1 .. h
  BY <1>1
<1>4. sps[i].lits = sps[1].lits \cup Part(asg, ends[i])
  BY <1>2, <1>3 DEF Knows
<1>5. (IF i = h - 1 THEN ends[h - 1] ELSE ends[i]) = ends[i]
  OBVIOUS
<1> QED BY <1>3, <1>4, <1>5

(* The assignment may change beyond what any space was told.                *)
LEMMA KnowsSame ==
  ASSUME NEW sps, NEW h \in Nat, NEW asg, NEW ends, NEW p \in Nat, NEW asg2, NEW ends2,
         Knows(sps, asg, ends, h, p),
         \A i \in 1 .. h - 1 : ends2[i] = ends[i] /\ ends[i] \in Nat /\ ends[i] <= p,
         \A k \in 1 .. p : asg2[k] = asg[k]
  PROVE  Knows(sps, asg2, ends2, h, p)
<1>1. SUFFICES ASSUME NEW i \in 1 .. h, sps[i].kept
               PROVE  sps[i].lits = sps[1].lits \cup Part(asg2, IF i = h THEN p ELSE ends2[i])
  BY Zenon DEF Knows
<1> DEFINE n == IF i = h THEN p ELSE ends[i]
<1>2. n \in Nat /\ n <= p /\ n = IF i = h THEN p ELSE ends2[i]
  OBVIOUS
<1>3. \A k \in 1 .. n : asg2[k] = asg[k]
  BY <1>2
<1>4. Part(asg2, n) = Part(asg, n)
  BY <1>3, PartSame
<1>5. sps[i].lits = sps[1].lits \cup Part(asg, n)
  BY <1>1 DEF Knows
<1> QED BY <1>2, <1>4, <1>5

-----------------------------------------------------------------------------
LEMMA ReachFacts ==
  ASSUME TypeOK, Book, Reach
  PROVE  /\ Height \in Nat /\ Height >= 1 /\ Len(spaces) = Height /\ IsSequence(spaces)
         /\ \A i \in 1 .. Height - 1 : assLength[i] \in Nat /\ assLength[i] <= propagated
<1>1. /\ Height \in 1 .. Depth /\ Depth \in Nat /\ IsSequence(spaces) /\ propagated \in Nat
      /\ \A i \in 1 .. Depth : assLength[i] \in Nat
  BY BookFacts
<1>2. ASSUME NEW i \in 1 .. Height - 1 PROVE assLength[i] \in Nat /\ assLength[i] <= propagated
  <2>1. Height >= 2 /\ Height - 1 \in 1 .. Depth /\ i \in 1 .. Depth
    BY <1>1
  <2>2. assLength[Height - 1] <= propagated
    BY <2>1 DEF Reach
  <2>3. i < Height - 1 => assLength[i] < assLength[Height - 1]
    BY <2>1 DEF Book
  <2> QED BY <1>1, <2>1, <2>2, <2>3
<1>3. Height \in Nat /\ Height >= 1
  BY <1>1
<1> QED BY <1>1, <1>2, <1>3, Zenon DEF Height

(* The current space, made again if it was moved, knows all it was told.    *)
LEMMA CurrentFacts ==
  ASSUME TypeOK, Book, SpacesInv, NEW n \in Nat, propagated <= n, n <= Length
  PROVE  LET space == CurrentAfter(n)
         IN  /\ space \in AllSpaces /\ space.kept
             /\ space.lits = Root.lits \cup Part(assignment, IF Last(spaces).kept THEN propagated ELSE n)
<1> DEFINE h == Height
           S == {j \in DOMAIN spaces : spaces[j].kept}
<1>1. /\ h \in Nat /\ h >= 1 /\ IsSequence(spaces) /\ DOMAIN spaces = 1 .. h
      /\ \A i \in 1 .. h - 1 : assLength[i] \in Nat /\ assLength[i] <= propagated
  <2>1. Len(spaces) = Height
    BY ReachFacts DEF SpacesInv
  <2>2. DOMAIN spaces = 1 .. Len(spaces)
    BY ReachFacts DEF SpacesInv, IsSequence
  <2> QED BY <2>1, <2>2, ReachFacts DEF SpacesInv
<1>2. Last(spaces) = spaces[h] /\ propagated \in Nat
  BY BookFacts DEF Last, Height
<1>3. CASE spaces[h].kept
  <2>1. CurrentAfter(n) = spaces[h]
    BY <1>2, <1>3 DEF CurrentAfter
  <2>2. spaces[h] \in AllSpaces /\ spaces[h].lits = spaces[1].lits \cup Part(assignment, propagated)
    BY <1>1, <1>3 DEF SpacesInv, SpacesTyped, SpacesKnow, Knows
  <2> QED BY <1>2, <1>3, <2>1, <2>2 DEF Root
<1>4. CASE ~spaces[h].kept
  <2>1. S \in SUBSET Nat /\ 1 \in S /\ \A x \in S : x <= h
    <3>1. spaces[1].kept
      BY BookFacts DEF Roots
    <3>2. \A x \in 1 .. h : x \in Nat /\ x <= h
      BY <1>1
    <3>3. 1 \in 1 .. h
      BY <1>1
    <3> QED BY <1>1, <3>1, <3>2, <3>3, Zenon
  <2>2. Max(S) \in S
    BY <1>1, <2>1, Greatest
  <2>3. PICK i \in 1 .. h - 1 : i = Max(S) /\ spaces[i].kept /\ i # h /\ i \in 1 .. h
    <3>1. Max(S) \in 1 .. h /\ spaces[Max(S)].kept
      BY <1>1, <2>2
    <3>2. Max(S) # h
      BY <1>4, <3>1
    <3>3. \A x \in 1 .. h : x # h => x \in 1 .. h - 1
      BY <1>1
    <3> HIDE DEF S
    <3> QED BY <3>1, <3>2, <3>3, Zenon
  <2>4. PICK m : m = assLength[i]
    OBVIOUS
  <2>5. PICK more : more = ToSet(SubSeq(assignment, m + 1, n))
    OBVIOUS
  <2>6. CurrentAfter(n) = With(spaces[i], more)
    BY <1>2, <1>4, <2>3, <2>4, <2>5 DEF CurrentAfter
  <2>7. spaces[i] \in AllSpaces /\ spaces[i].lits = spaces[1].lits \cup Part(assignment, m)
    BY <1>1, <2>3, <2>4 DEF SpacesInv, SpacesTyped, SpacesKnow, Knows
  <2>8. m \in Nat /\ m <= n
    <3>1. m \in Nat /\ m <= propagated
      BY <1>1, <2>3, <2>4
    <3> QED BY <1>2, <3>1
  <2>9. assignment \in Seq(Literals) /\ n <= Len(assignment)
    BY DEF TypeOK, Length
  <2>10. more \in SUBSET Literals /\ Part(assignment, n) = Part(assignment, m) \cup more
    BY <2>5, <2>8, <2>9, PartTold
  <2>12. /\ CurrentAfter(n) \in AllSpaces /\ CurrentAfter(n).kept = spaces[i].kept
         /\ CurrentAfter(n).lits = spaces[i].lits \cup more
    BY <2>6, <2>7, <2>10, WithFacts, Zenon
  <2>13. CurrentAfter(n).lits = Root.lits \cup Part(assignment, n)
    BY <2>7, <2>10, <2>12 DEF Root
  <2> QED BY <1>2, <1>4, <2>3, <2>12, <2>13
<1> QED BY <1>3, <1>4

(* The last space is told literals up to n.                                 *)
LEMMA LastTold ==
  ASSUME TypeOK, Book, SpacesInv, NEW n \in Nat, propagated <= n, n <= Length,
         NEW x \in AllSpaces, x.kept, x.lits = Root.lits \cup Part(assignment, n),
         spaces' = WithCurrent(spaces, x), propagated' = n
  PROVE  /\ Height' = Height /\ SpacesTyped'
         /\ Knows(spaces', assignment, assLength, Height, propagated')
<1> DEFINE h == Height
<1>1. h \in Nat /\ h >= 1 /\ Len(spaces) = h /\ IsSequence(spaces)
  BY ReachFacts DEF SpacesInv
<1>2. Height' = Height
  BY <1>1, LastReplaced DEF Height
<1>3. SpacesTyped'
  <2>1. \A i \in 1 .. h : spaces'[i] = IF i = h THEN x ELSE spaces[i]
    BY <1>1, ReplacedElements
  <2> QED BY <1>2, <2>1 DEF SpacesInv, SpacesTyped
<1>4. Knows(spaces, assignment, assLength, h, propagated)
  BY DEF SpacesInv, SpacesKnow
<1>5. x.lits = spaces[1].lits \cup Part(assignment, n)
  BY DEF Root
<1>6. Knows(spaces', assignment, assLength, h, n)
  BY <1>1, <1>4, <1>5, KnowsReplaced
<1> QED BY <1>2, <1>3, <1>6

-----------------------------------------------------------------------------
(* The places of a call that still needs what it knows of the spaces.       *)
LEMMA NotTelling ==
  ASSUME SpacesInv', ~Within("redo")', ~Within("each")'
  PROVE  Spaces'
BY DEF Spaces, AtRedoSpaces, AtEachSpaces

LEMMA SpacesSame ==
  ASSUME Spaces, UNCHANGED <<book, DL, call>>,
         Within("redo")' => Within("redo"), Within("each")' => Within("each")
  PROVE  Spaces'
<1>1. UNCHANGED <<DL, dl, assLength, assignment, propagated, spaces, Depth, Height>>
  BY DEF book, Depth, Height
<1>2. Reach'
  BY <1>1 DEF Spaces, SpacesInv, Reach
<1>3. SpacesTyped' /\ SpacesKnow'
  BY <1>1, Zenon DEF Spaces, SpacesInv, SpacesTyped, SpacesKnow
<1>4. AtRedoSpaces'
  BY <1>1 DEF Spaces, AtRedoSpaces
<1>5. AtEachSpaces'
  BY <1>1 DEF Spaces, AtEachSpaces
<1> QED BY <1>2, <1>3, <1>4, <1>5 DEF Spaces, SpacesInv

LEMMA SpacesLeft ==
  ASSUME Spaces, UNCHANGED book, ~Within("redo")', ~Within("each")'
  PROVE  Spaces'
<1>1. UNCHANGED <<dl, assLength, assignment, propagated, spaces, Depth, Height>>
  BY DEF book, Depth, Height
<1>2. Reach'
  BY <1>1 DEF Spaces, SpacesInv, Reach
<1>3. SpacesTyped' /\ SpacesKnow'
  BY <1>1, Zenon DEF Spaces, SpacesInv, SpacesTyped, SpacesKnow
<1> QED BY <1>2, <1>3, NotTelling DEF SpacesInv

LEMMA SpacesInit == Init => Spaces
<1> SUFFICES ASSUME Init PROVE Spaces
  OBVIOUS
<1>1. Height = 1 /\ Depth = 1 /\ propagated = 0 /\ spaces[1] = Space({}, NoBound)
  BY DEF Init, Height, Depth
<1>2. Reach
  BY <1>1 DEF Reach
<1>3. SpacesTyped
  <2>1. Space({}, NoBound) \in AllSpaces
    BY DEF Space, AllSpaces
  <2>2. ASSUME NEW i \in 1 .. 1 PROVE spaces[i] \in AllSpaces
    BY <1>1, <2>1
  <2> QED BY <1>1, <2>2 DEF SpacesTyped
<1>4. SpacesKnow
  <2>1. Part(assignment, 0) = {}
    BY PartFacts
  <2>2. ASSUME NEW i \in 1 .. 1
        PROVE  spaces[i].lits = spaces[1].lits \cup Part(assignment, IF i = 1 THEN 0 ELSE assLength[i])
    BY <1>1, <2>1
  <2> QED BY <1>1, <2>2 DEF SpacesKnow, Knows
<1>5. ~Within("redo") /\ ~Within("each")
  BY DEF Init, NoCall, Within
<1> QED BY <1>2, <1>3, <1>4, <1>5 DEF Spaces, SpacesInv, AtRedoSpaces, AtEachSpaces

(* Steps that leave the book of GecodeSolver alone.                         *)
LEMMA QuietSteps ==
  ASSUME IndInv, Spaces,
         \/ Decide \/ DecideOther \/ Infer \/ Clash \/ PropagateLiteral \/ Resolve \/ GiveUp
         \/ ImplyOld \/ DropOld \/ RefuteOld \/ OldDone \/ Examine \/ Refute \/ NothingNew \/ CatchUp
         \/ RedoDone \/ Backjumped \/ EachDone \/ HasAnswer
  PROVE  Spaces'
<1>1. UNCHANGED book
  BY DEF Decide, DecideOther, Infer, Clash, PropagateLiteral, Resolve, GiveUp, ImplyOld, DropOld, RefuteOld,
         OldDone, Examine, Refute, NothingNew, CatchUp, RedoDone, Backjumped, EachDone, HasAnswer
<1>2. pc' \in {"search", "fixpoint", "conflict", "unsat", "old", "filter", "finish"} \/ (pc' = "undo" /\ jump'.resume # "more" /\ jump'.resume \notin {"redo", "each"})
  <2>1. CASE Resolve
    BY <2>1 DEF Resolve, NoJump
  <2>2. CASE ImplyOld
    BY <2>2 DEF ImplyOld, Imply
  <2>3. CASE Decide \/ DecideOther \/ Infer \/ Clash \/ PropagateLiteral \/ GiveUp \/ DropOld
    BY <2>3 DEF Decide, DecideOther, Infer, Clash, PropagateLiteral, GiveUp, DropOld
  <2>4. CASE RefuteOld \/ OldDone \/ Examine \/ Refute \/ NothingNew \/ CatchUp \/ RedoDone \/ Backjumped \/ EachDone \/ HasAnswer
    BY <2>4 DEF RefuteOld, OldDone, Examine, Examined, Refute, NothingNew, CatchUp, RedoDone, Backjumped, EachDone, HasAnswer, SetConflict, Return
  <2> QED BY <2>1, <2>2, <2>3, <2>4
<1>3. ~Within("redo")' /\ ~Within("each")'
  BY <1>2 DEF Within
<1> QED BY <1>1, <1>3, SpacesLeft

(* Steps inside of a call that tells clasp what was derived.                *)
LEMMA TellingSteps ==
  ASSUME IndInv, Spaces, Arrive \/ Remember \/ TellLiteral \/ AllTold
  PROVE  Spaces'
<1>1. CASE Arrive
  <2>1. /\ pc = "undo" /\ pc' = jump.resume /\ UNCHANGED <<book, DL, call>> /\ jump.resume \in {"search", "old", "more"}
    BY <1>1 DEF Arrive, IndInv, Control, AtUndo
  <2>2. (Within("redo")' => Within("redo")) /\ (Within("each")' => Within("each"))
    BY <2>1 DEF Within
  <2> QED BY <2>1, <2>2, SpacesSame
<1>2. CASE Remember \/ AllTold
  <2>1. /\ pc \in {"tell", "more"} /\ pc' = call.return /\ UNCHANGED <<book, DL, call>>
    BY <1>2 DEF Remember, AllTold, trail
  <2>2. call.return \in {"search", "redo", "each"}
    BY DEF IndInv, TypeOK, Calls
  <2>3. (Within("redo")' => Within("redo")) /\ (Within("each")' => Within("each"))
    BY <2>1, <2>2 DEF Within
  <2> QED BY <2>1, <2>3, SpacesSame
<1>3. CASE TellLiteral
  <2>1. /\ pc \in {"tell", "more"} /\ pc' = "undo" /\ UNCHANGED <<book, DL, call>> /\ jump'.resume = "more"
    BY <1>3 DEF TellLiteral, Imply, trail
  <2>2. (Within("redo")' => Within("redo")) /\ (Within("each")' => Within("each"))
    BY <2>1 DEF Within
  <2> QED BY <2>1, <2>2, SpacesSame
<1> QED BY <1>1, <1>2, <1>3

(* The last space is told nothing, or the literals of an assignment.        *)
LEMMA CurrentKept ==
  ASSUME IndInv, Spaces, spaces' = WithCurrent(spaces, Current),
         UNCHANGED <<assignment, dl, assLength, propagated>>
  PROVE  SpacesInv'
<1> USE DEF IndInv, Spaces
<1>1. propagated \in Nat /\ propagated <= Length /\ propagated <= propagated
  BY BookFacts
<1>2. /\ Current \in AllSpaces /\ Current.kept
      /\ Current.lits = Root.lits \cup Part(assignment, propagated)
  BY <1>1, CurrentFacts DEF Current
<1>3. Height' = Height /\ SpacesTyped' /\ Knows(spaces', assignment, assLength, Height, propagated')
  BY <1>1, <1>2, LastTold
<1>4. Depth' = Depth
  BY DEF Depth
<1>5. Reach'
  BY <1>3, <1>4 DEF SpacesInv, Reach
<1>6. SpacesKnow'
  BY <1>3, Zenon DEF SpacesKnow
<1> QED BY <1>3, <1>5, <1>6 DEF SpacesInv

LEMMA PropagateSpaces == ASSUME IndInv, Spaces, Propagate PROVE Spaces'
<1>1. spaces' = WithCurrent(spaces, Current) /\ UNCHANGED <<assignment, dl, assLength, propagated>>
  BY DEF Propagate
<1>2. pc' \in {"conflict", "minimize", "old"}
  BY DEF Propagate, SetConflict, Return
<1>3. ~Within("redo")' /\ ~Within("each")'
  BY <1>2 DEF Within
<1> QED BY <1>1, <1>3, CurrentKept, NotTelling

LEMMA EnumerateSpaces == ASSUME IndInv, Spaces, Enumerate PROVE Spaces'
<1>1. spaces' = WithCurrent(spaces, Current) /\ UNCHANGED <<assignment, dl, assLength, propagated>>
  BY DEF Enumerate
<1>2. pc' \in {"conflict", "model"}
  BY DEF Enumerate, Return
<1>3. ~Within("redo")' /\ ~Within("each")'
  BY <1>2 DEF Within
<1> QED BY <1>1, <1>3, CurrentKept, NotTelling

(* The next literal of the assignment is told to the last space.            *)
LEMMA TellSpaces ==
  ASSUME IndInv, Spaces, NEW l \in Literals, NEW rest, NEW next, Tell(l, rest, next),
         propagated + 1 <= Length, l = assignment[propagated + 1],
         assignment' = assignment, \A i \in 1 .. Height - 1 : assLength'[i] = assLength[i]
  PROVE  propagated' = propagated + 1 /\ Height' = Height /\ SpacesTyped' /\ SpacesKnow'
<1> USE DEF IndInv, Spaces
<1>1. propagated \in Nat /\ propagated + 1 \in Nat /\ propagated <= propagated + 1
  BY BookFacts
<1> DEFINE old == CurrentAfter(propagated + 1)
           space == With(old, {l})
<1>2. spaces' = WithCurrent(spaces, space) /\ propagated' = propagated + 1
  BY DEF Tell
<1>3. /\ old \in AllSpaces /\ old.kept
      /\ old.lits = Root.lits \cup Part(assignment, IF Last(spaces).kept THEN propagated ELSE propagated + 1)
  BY <1>1, CurrentFacts
<1>4. Part(assignment, propagated + 1) = Part(assignment, propagated) \cup {l}
  BY <1>1, PartFacts
<1>5. space \in AllSpaces /\ space.kept /\ space.lits = old.lits \cup {l}
  <2>1. {l} \in SUBSET Literals
    OBVIOUS
  <2> HIDE DEF old
  <2> QED BY <1>3, <2>1, WithFacts
<1>6. space.lits = Root.lits \cup Part(assignment, propagated + 1)
  <2> HIDE DEF old, space
  <2> QED BY <1>3, <1>4, <1>5
<1>7. Height' = Height /\ SpacesTyped' /\ Knows(spaces', assignment, assLength, Height, propagated')
  <2> HIDE DEF old, space
  <2> QED BY <1>1, <1>2, <1>5, <1>6, LastTold
<1>8. Height \in Nat /\ \A i \in 1 .. Height - 1 : assLength[i] \in Nat /\ assLength[i] <= propagated
  BY ReachFacts DEF SpacesInv
<1>9. Knows(spaces', assignment', assLength', Height, propagated')
  <2>1. \A i \in 1 .. Height - 1 : assLength'[i] = assLength[i] /\ assLength[i] \in Nat /\ assLength[i] <= propagated'
    BY <1>1, <1>2, <1>8
  <2>2. \A k \in 1 .. propagated' : assignment'[k] = assignment[k]
    BY Zenon
  <2>3. propagated' \in Nat
    BY <1>1, <1>2
  <2> QED BY <1>7, <1>8, <2>1, <2>2, <2>3, KnowsSame, Zenon
<1>10. SpacesKnow'
  BY <1>7, <1>9, Zenon DEF SpacesKnow
<1> QED BY <1>2, <1>7, <1>10

LEMMA RedoSpaces == ASSUME IndInv, Spaces, Redo PROVE Spaces'
<1> USE DEF IndInv, Spaces
<1>1. /\ pc = "redo" /\ call.oldDL <= DL /\ propagated < call.stop
      /\ Tell(assignment[propagated + 1], call.clits, "redo")
      /\ UNCHANGED <<DL, assignment, dl, assLength>>
  BY DEF Redo, trail
<1>2. call.oldDL = DL
  BY <1>1, InRedo DEF TypeOK, Calls
<1>3. call.stop <= Length /\ call.stop \in Nat /\ propagated \in Nat /\ call.clits \in Seq(Literals)
  BY <1>1, <1>2, InRedo DEF TypeOK, Calls
<1>4. call.stop <= assLength[Height]
  BY <1>1, <1>2 DEF AtRedoSpaces, Within
<1>5. propagated + 1 \in 1 .. Length /\ propagated + 1 <= Length
  BY <1>1, <1>3, BookFacts
<1>6. assignment[propagated + 1] \in Literals
  BY <1>5, BookFacts
<1>7. propagated' = propagated + 1 /\ Height' = Height /\ SpacesTyped' /\ SpacesKnow'
  BY <1>1, <1>5, <1>6, TellSpaces
<1>8. Depth' = Depth
  BY <1>1 DEF Depth
<1>9. Reach'
  <2>1. Height \in 1 .. Depth /\ \A i \in 1 .. Depth : assLength[i] \in Nat
    BY BookFacts
  <2>2. propagated + 1 <= assLength[Height]
    BY <1>1, <1>3, <1>4, <2>1
  <2>3. Height >= 2 => assLength[Height - 1] <= propagated + 1
    <3>1. Height >= 2 => Height - 1 \in 1 .. Depth
      BY <2>1, BookFacts
    <3> QED BY <1>3, <2>1, <3>1 DEF SpacesInv, Reach
  <2> QED BY <1>1, <1>7, <1>8, <2>2, <2>3 DEF Reach
<1>10. \/ pc' = "conflict"
       \/ pc' = "tell" /\ call'.return = "redo" /\ UNCHANGED <<call.oldDL, call.stop, call.caller>>
  BY <1>1, <1>3, <1>6, TellFacts
<1>11. CASE pc' = "conflict"
  BY <1>7, <1>9, <1>11, NotTelling DEF Within, SpacesInv
<1>12. CASE pc' = "tell" /\ call'.return = "redo" /\ UNCHANGED <<call.oldDL, call.stop, call.caller>>
  <2>1. ~Within("each")'
    BY <1>12 DEF Within
  <2>2. AtRedoSpaces'
    BY <1>1, <1>4, <1>7, <1>12 DEF AtRedoSpaces
  <2> QED BY <1>7, <1>9, <2>1, <2>2 DEF SpacesInv, AtEachSpaces
<1> QED BY <1>10, <1>11, <1>12

LEMMA EachSpaces == ASSUME IndInv, Spaces, Each PROVE Spaces'
<1> USE DEF IndInv, Spaces
<1> DEFINE l == Head(call.clits)
           rest == Tail(call.clits)
<1>1. /\ pc = "each" /\ call.oldDL <= DL /\ call.clits # <<>> /\ Tell(l, rest, "each")
      /\ assLength' = IF pc' = "tell" THEN [assLength EXCEPT ![Depth] = propagated + 1] ELSE assLength
      /\ UNCHANGED <<DL, assignment, dl>>
  BY DEF Each, trail, Depth
<1>2. call.oldDL = DL
  BY <1>1, InEach DEF TypeOK, Calls
<1>3. Length = propagated + Len(call.clits)
  BY <1>1, <1>2, InEach
<1>4. call.clits \in Seq(Literals) /\ propagated \in Nat /\ Length \in Nat /\ assLength \in Seq(Nat)
  BY BookFacts DEF TypeOK, Calls
<1>5. /\ l \in Literals /\ rest \in Seq(Literals) /\ Len(call.clits) \in Nat /\ Len(call.clits) >= 1
      /\ l = call.clits[1] /\ Len(rest) = Len(call.clits) - 1 /\ \A k \in 1 .. Len(rest) : rest[k] = call.clits[k + 1]
  BY <1>1, <1>4
<1>6. Height = Depth /\ \A k \in 1 .. Len(call.clits) : assignment[propagated + k] = call.clits[k]
  BY <1>1, <1>2 DEF AtEachSpaces, Within
<1>7. l = assignment[propagated + 1] /\ propagated + 1 <= Length
  <2>1. l = assignment[propagated + 1]
    BY <1>5, <1>6
  <2>2. PICK m \in Nat : m = Len(call.clits) /\ m >= 1
    BY <1>5
  <2>3. Length = propagated + m
    BY <1>3, <2>2, Zenon
  <2>4. propagated + 1 <= Length
    BY <1>4, <2>2, <2>3
  <2> QED BY <2>1, <2>4
<1>8. Depth \in Nat /\ Depth >= 1 /\ Len(assLength) >= Depth /\ \A i \in 1 .. Height - 1 : assLength'[i] = assLength[i]
  <2>1. Depth \in Nat /\ Depth >= 1
    BY BookFacts
  <2>2. ASSUME NEW i \in 1 .. Height - 1 PROVE assLength'[i] = assLength[i]
    <3>1. i # Depth
      BY <1>6, <2>1
    <3> QED BY <1>1, <1>4, <3>1
  <2>3. Len(assLength) >= Depth
    BY DEF Book
  <2> QED BY <2>1, <2>2, <2>3
<1>9. propagated' = propagated + 1 /\ Height' = Height /\ SpacesTyped' /\ SpacesKnow'
  <2> HIDE DEF l, rest
  <2> QED BY <1>1, <1>5, <1>7, <1>8, TellSpaces
<1>10. Depth' = Depth
  BY <1>1 DEF Depth
<1>11. Reach'
  <2>1. ASSUME Height >= 2 PROVE assLength'[Height - 1] <= propagated + 1
    <3>1. Height - 1 \in 1 .. Height - 1 /\ Height - 1 \in 1 .. Depth
      BY <1>6, <1>8, <2>1
    <3>2. assLength[Height - 1] \in Nat /\ assLength[Height - 1] <= propagated
      BY <2>1, <3>1, BookFacts DEF SpacesInv, Reach
    <3> QED BY <1>4, <1>8, <3>1, <3>2
  <2> QED BY <1>6, <1>8, <1>9, <1>10, <2>1 DEF Reach
<1>12. \/ pc' = "conflict"
       \/ pc' = "tell" /\ call'.return = "each" /\ call'.clits = rest /\ UNCHANGED <<call.oldDL, call.stop, call.caller>>
  <2> HIDE DEF l, rest
  <2> QED BY <1>1, <1>5, TellFacts
<1>13. CASE pc' = "conflict"
  BY <1>9, <1>11, <1>13, NotTelling DEF Within, SpacesInv
<1>14. CASE pc' = "tell" /\ call'.return = "each" /\ call'.clits = rest
  <2>1. ~Within("redo")'
    BY <1>14 DEF Within
  <2>2. ASSUME NEW k \in 1 .. Len(rest) PROVE assignment[propagated + 1 + k] = rest[k]
    <3>1. k \in Nat /\ k + 1 \in 1 .. Len(call.clits)
      BY <1>5
    <3>2. assignment[propagated + (k + 1)] = call.clits[k + 1] /\ rest[k] = call.clits[k + 1]
      BY <1>5, <1>6, <3>1
    <3>3. propagated + 1 + k = propagated + (k + 1)
      BY <1>4, <3>1
    <3> QED BY <3>2, <3>3
  <2>3. AtEachSpaces'
    <3> HIDE DEF rest
    <3> QED BY <1>1, <1>6, <1>9, <1>10, <1>14, <2>2 DEF AtEachSpaces
  <2> QED BY <1>9, <1>11, <2>1, <2>3 DEF SpacesInv, AtRedoSpaces
<1> QED BY <1>12, <1>13, <1>14

(* A derived literal is false: a space that was made again is dropped.      *)
LEMMA SpaceDropped ==
  ASSUME TypeOK, Book, SpacesInv, Height >= 2, spaces' = Front(spaces),
         NEW asg, NEW ends, \A i \in 1 .. Height - 1 : ends[i] = assLength[i],
         \A k \in 1 .. assLength[Height - 1] : asg[k] = assignment[k]
  PROVE  /\ Height' = Height - 1 /\ SpacesTyped'
         /\ Knows(spaces', asg, ends, Height - 1, assLength[Height - 1])
<1> DEFINE h == Height
<1>1. /\ h \in Nat /\ Len(spaces) = h /\ IsSequence(spaces)
      /\ \A i \in 1 .. h - 1 : assLength[i] \in Nat /\ assLength[i] <= propagated
  BY ReachFacts DEF SpacesInv
<1>2. Height' = h - 1
  BY <1>1, Shortened DEF Height
<1>3. \A i \in 1 .. h - 1 : spaces'[i] = spaces[i]
  BY <1>1, FrontElements
<1>4. SpacesTyped'
  BY <1>1, <1>2, <1>3 DEF SpacesInv, SpacesTyped
<1>5. Knows(spaces', assignment, assLength, h - 1, assLength[h - 1])
  BY <1>1, KnowsFront DEF SpacesInv, SpacesKnow
<1>6. /\ h - 1 \in Nat /\ assLength[h - 1] \in Nat
      /\ \A i \in 1 .. (h - 1) - 1 : ends[i] = assLength[i] /\ assLength[i] \in Nat /\ assLength[i] <= assLength[h - 1]
  <2>1. h - 1 \in Nat /\ h - 1 \in 1 .. h - 1
    BY <1>1
  <2>2. ASSUME NEW i \in 1 .. (h - 1) - 1
        PROVE  ends[i] = assLength[i] /\ assLength[i] \in Nat /\ assLength[i] <= assLength[h - 1]
    <3>1. i \in 1 .. h - 1 /\ i < h - 1 /\ i \in 1 .. Depth /\ h - 1 \in 1 .. Depth
      BY <1>1, BookFacts
    <3>2. assLength[i] < assLength[h - 1] /\ assLength[i] \in Nat /\ assLength[h - 1] \in Nat
      BY <3>1, BookFacts DEF Book
    <3> QED BY <3>1, <3>2
  <2> QED BY <1>1, <2>1, <2>2
<1>7. Knows(spaces', asg, ends, h - 1, assLength[h - 1])
  BY <1>5, <1>6, KnowsSame, Zenon
<1> QED BY <1>2, <1>4, <1>7

LEMMA ContradictSpaces == ASSUME IndInv, Spaces, Contradict PROVE Spaces'
<1> USE DEF IndInv, Spaces
<1>1. pc = "tell" /\ pc' = "conflict" /\ UNCHANGED <<assignment, dl, assLength>> /\ Depth' = Depth
  BY DEF Contradict, SetConflict, Return, Depth
<1>2. ~Within("redo")' /\ ~Within("each")'
  BY <1>1 DEF Within
<1>3. CASE call.return = "redo"
  <2>1. spaces' = Front(spaces) /\ propagated' = assLength[Height - 1]
    BY <1>3 DEF Contradict, Height
  <2>2. Height >= 2
    <3>1. call.oldDL = DL
      BY <1>1, <1>3 DEF Control, AtTell
    <3> QED BY <1>1, <1>3, <3>1 DEF Control, AtRedo, Within
  <2>3. /\ Height' = Height - 1 /\ SpacesTyped'
        /\ Knows(spaces', assignment, assLength, Height - 1, assLength[Height - 1])
    BY <2>1, <2>2, SpaceDropped
  <2>4. SpacesKnow'
    BY <1>1, <2>1, <2>3, Zenon DEF SpacesKnow
  <2>5. Reach'
    <3>1. Height \in 1 .. Depth /\ Depth \in Nat
      BY BookFacts
    <3>2. Height - 1 \in 1 .. Depth /\ Height' \in 1 .. Depth
      BY <2>2, <2>3, <3>1
    <3>3. assLength[Height'] \in Nat /\ propagated' = assLength[Height']
      BY <2>1, <2>3, <3>2, BookFacts
    <3>4. Height' >= 2 => assLength[Height' - 1] \in Nat /\ assLength[Height' - 1] < assLength[Height']
      <4>1. Height' >= 2 => Height' - 1 \in 1 .. Depth /\ Height' - 1 < Height'
        <5>1. PICK g \in 1 .. Depth : g = Height'
          BY <3>2
        <5>2. g >= 2 => g - 1 \in 1 .. Depth /\ g - 1 < g
          BY <3>1
        <5> QED BY <5>1, <5>2, Zenon
      <4> QED BY <3>2, <4>1, BookFacts DEF Book
    <3> QED BY <1>1, <3>3, <3>4 DEF Reach
  <2> QED BY <1>2, <2>3, <2>4, <2>5, NotTelling DEF SpacesInv
<1>4. CASE call.return # "redo"
  <2>1. UNCHANGED book
    BY <1>1, <1>4 DEF Contradict, book
  <2> QED BY <1>2, <2>1, SpacesLeft
<1> QED BY <1>3, <1>4

LEMMA MinIs ==
  ASSUME NEW a \in Nat, NEW b \in Nat
  PROVE  Min({a, b}) = IF a <= b THEN a ELSE b
<1>1. Min({a, b}) \in Nat /\ Min({a, b}) <= a /\ Min({a, b}) <= b
  BY MinOfTwo
<1>2. \E x \in {a, b} : \A y \in {a, b} : x <= y
  OBVIOUS
<1>3. Min({a, b}) = CHOOSE x \in {a, b} : \A y \in {a, b} : x <= y
  BY Zenon DEF Min
<1>4. Min({a, b}) \in {a, b}
  BY <1>2, <1>3, Zenon
<1> QED BY <1>1, <1>4

(* undo(): clasp's level is dropped, with its space if there is one.        *)
LEMMA UndoSpaces == ASSUME IndInv, Spaces, UndoLevel PROVE Spaces'
<1> USE DEF IndInv, Spaces
<1> DEFINE n == Depth
<1>1. /\ pc = "undo" /\ pc' = "undo" /\ DL' = DL - 1 /\ DL \in Nat /\ UNCHANGED <<jump, call>>
  BY DEF UndoLevel, TypeOK
<1>2. /\ Within("redo")' => call'.oldDL # DL'
      /\ Within("each")' => call'.oldDL # DL'
  <2>1. Within("redo") => call.oldDL >= DL
    BY DEF Control, AtRedo
  <2>2. Within("each") => call.oldDL >= DL
    BY DEF Control, AtEach
  <2>3. (Within("redo")' => Within("redo")) /\ (Within("each")' => Within("each"))
    BY <1>1 DEF Within
  <2>4. call.oldDL \in Nat
    BY DEF TypeOK, Calls
  <2> QED BY <1>1, <2>1, <2>2, <2>3, <2>4
<1>3. SpacesInv'
  <2>1. CASE DL \in watched
    <3>1. PopLevel
      BY <2>1 DEF UndoLevel
    <3>2. dl[n] = DL /\ n >= 2 /\ n \in Nat /\ n - 1 \in 1 .. n
      <4>1. PICK i \in 2 .. n : DL = dl[i]
        BY <2>1 DEF Book
      <4>2. dl[i] <= dl[n] /\ dl[n] <= DL
        BY <4>1, BookFacts
      <4> QED BY <4>1, <4>2, BookFacts
    <3>3. /\ Depth' = n - 1 /\ Length' = assLength[n - 1]
          /\ \A i \in 1 .. n - 1 : assLength'[i] = assLength[i]
          /\ \A k \in 1 .. Length' : assignment'[k] = assignment[k]
      BY <3>1, <3>2, LevelDropped
    <3>4. assLength[n - 1] \in Nat /\ propagated \in Nat /\ Height \in 1 .. n /\ \A i \in 1 .. n : assLength[i] \in Nat
      BY <3>2, BookFacts
    <3>5. propagated' = Min({propagated, assLength[n - 1]})
      BY <3>1 DEF PopLevel, Depth
    <3>6. propagated' = IF propagated <= assLength[n - 1] THEN propagated ELSE assLength[n - 1]
      BY <3>4, <3>5, MinIs
    <3>7. CASE Height = n
      <4>1. spaces' = Front(spaces)
        BY <3>1, <3>2, <3>7 DEF PopLevel, Depth, Height
      <4>2. propagated' = assLength[n - 1]
        <5>1. assLength[n - 1] <= propagated
          BY <3>2, <3>7 DEF SpacesInv, Reach
        <5> QED BY <3>4, <3>6, <5>1
      <4>3. /\ Height' = n - 1 /\ SpacesTyped'
            /\ Knows(spaces', assignment', assLength', n - 1, assLength[n - 1])
        BY <3>2, <3>3, <3>7, <4>1, SpaceDropped
      <4>4. SpacesKnow'
        BY <4>2, <4>3, Zenon DEF SpacesKnow
      <4>5. Reach'
        <5>1. ASSUME n - 1 >= 2 PROVE assLength'[(n - 1) - 1] <= propagated'
          <6>1. (n - 1) - 1 \in 1 .. n - 1 /\ (n - 1) - 1 \in 1 .. n /\ (n - 1) - 1 < n - 1
            BY <3>2, <5>1
          <6>2. assLength[(n - 1) - 1] < assLength[n - 1]
            BY <3>2, <6>1 DEF Book
          <6>3. assLength[(n - 1) - 1] \in Nat /\ assLength'[(n - 1) - 1] = assLength[(n - 1) - 1]
            BY <3>3, <3>4, <6>1
          <6> QED BY <3>4, <4>2, <6>2, <6>3
        <5>2. ~(n - 1 < n - 1)
          BY <3>2
        <5> QED BY <3>3, <4>3, <5>1, <5>2 DEF Reach
      <4> QED BY <4>3, <4>4, <4>5 DEF SpacesInv
    <3>8. CASE Height # n
      <4>1. UNCHANGED spaces
        BY <3>1, <3>2, <3>4, <3>8 DEF PopLevel, Depth, Height
      <4>2. Height \in 1 .. n - 1 /\ Height < n /\ Height' = Height
        BY <3>2, <3>4, <3>8, <4>1 DEF Height
      <4>3. assLength[Height] <= assLength[n - 1]
        <5>1. Height < n - 1 => assLength[Height] < assLength[n - 1]
          BY <3>2, <3>4 DEF Book
        <5> QED BY <3>2, <3>4, <4>2, <5>1
      <4>4. propagated <= assLength[Height] /\ propagated' = propagated
        <5>1. propagated <= assLength[Height]
          BY <4>2 DEF SpacesInv, Reach
        <5> QED BY <3>4, <3>6, <4>3, <5>1
      <4>5. SpacesTyped'
        BY <4>1, <4>2, Zenon DEF SpacesInv, SpacesTyped
      <4>6. SpacesKnow'
        <5>1. Height \in Nat /\ \A i \in 1 .. Height - 1 : assLength[i] \in Nat /\ assLength[i] <= propagated
          BY ReachFacts DEF SpacesInv
        <5>2. \A i \in 1 .. Height - 1 : assLength'[i] = assLength[i]
          BY <3>2, <3>3, <3>4, <4>2
        <5>3. \A k \in 1 .. propagated : assignment'[k] = assignment[k]
          <6>1. propagated <= assLength[n - 1]
            BY <3>4, <4>3, <4>4
          <6> QED BY <3>3, <3>4, <6>1
        <5>4. Knows(spaces, assignment', assLength', Height, propagated)
          BY <3>4, <5>1, <5>2, <5>3, KnowsSame, Zenon DEF SpacesInv, SpacesKnow
        <5> QED BY <4>1, <4>2, <4>4, <5>4, Zenon DEF SpacesKnow
      <4>7. Reach'
        <5>1. Height >= 2 => Height - 1 \in 1 .. n - 1
          BY <3>2, <4>2
        <5>2. assLength'[Height] = assLength[Height] /\ (Height >= 2 => assLength'[Height - 1] = assLength[Height - 1])
          BY <3>3, <4>2, <5>1
        <5> QED BY <4>2, <4>4, <5>2 DEF SpacesInv, Reach
      <4> QED BY <4>5, <4>6, <4>7 DEF SpacesInv
    <3> QED BY <3>7, <3>8
  <2>2. CASE DL \notin watched
    <3>1. UNCHANGED <<book, dl, assLength, assignment, propagated, spaces, Depth, Height>>
      BY <2>2 DEF UndoLevel, book, Depth, Height
    <3>2. Reach'
      BY <3>1 DEF SpacesInv, Reach
    <3> QED BY <3>1, <3>2, Zenon DEF SpacesInv, SpacesTyped, SpacesKnow
  <2> QED BY <2>1, <2>2
<1> QED BY <1>2, <1>3 DEF AtRedoSpaces, AtEachSpaces

(* A level of its own: its space is a clone or the one below.               *)
LEMMA SpacesPushed ==
  ASSUME TypeOK, Book, SpacesInv, PushSpace, assLength[Height] = propagated
  PROVE  /\ Height' = Height + 1 /\ SpacesTyped'
         /\ Knows(spaces', assignment, assLength, Height + 1, propagated)
<1> DEFINE h == Height
<1>1. /\ h \in Nat /\ h >= 1 /\ Len(spaces) = h /\ IsSequence(spaces)
  BY ReachFacts DEF SpacesInv
<1>2. propagated \in Nat /\ propagated <= Length /\ propagated <= propagated
  BY BookFacts
<1>3. /\ Current \in AllSpaces /\ Current.kept
      /\ Current.lits = Root.lits \cup Part(assignment, propagated)
  BY <1>2, CurrentFacts DEF Current
<1>4. h = 1 => spaces[1].kept /\ spaces[1].lits = spaces[1].lits \cup Part(assignment, propagated)
  <2>1. spaces[1].kept
    BY BookFacts DEF Roots
  <2> QED BY <1>1, <2>1 DEF SpacesInv, SpacesKnow, Knows
<1>5. Height' = h + 1
  BY SpacePushed
<1>6. CASE Clones
  <2> DEFINE t == WithCurrent(spaces, Current)
  <2>1. spaces' = Append(t, Current)
    BY <1>6 DEF PushSpace
  <2>2. IsSequence(t) /\ Len(t) = h /\ t[1] = IF h = 1 THEN Current ELSE spaces[1]
    BY <1>1, LastReplaced
  <2>3. \A i \in 1 .. h : t[i] = IF i = h THEN Current ELSE spaces[i]
    BY <1>1, ReplacedElements
  <2>4. Current.lits = spaces[1].lits \cup Part(assignment, propagated)
    BY <1>3 DEF Root
  <2>5. Knows(t, assignment, assLength, h, propagated)
    BY <1>1, <2>4, KnowsReplaced DEF SpacesInv, SpacesKnow
  <2>6. Current.lits = t[1].lits \cup Part(assignment, propagated)
    <3>1. CASE h = 1
      <4>1. t[1] = Current
        BY <2>2, <3>1
      <4> QED BY <2>4, <4>1
    <3>2. CASE h # 1
      BY <2>2, <2>4, <3>2
    <3> QED BY <3>1, <3>2
  <2>7. Knows(Append(t, Current), assignment, assLength, h + 1, propagated)
    <3> HIDE DEF t
    <3> QED BY <1>1, <2>2, <2>5, <2>6, KnowsAppended
  <2>8. SpacesTyped'
    <3>1. (\A i \in 1 .. h : spaces'[i] = t[i]) /\ spaces'[h + 1] = Current
      <4> HIDE DEF t
      <4> QED BY <2>1, <2>2, AppendedElements
    <3>2. ASSUME NEW i \in 1 .. h + 1 PROVE spaces'[i] \in AllSpaces
      <4>1. CASE i = h + 1
        BY <1>3, <3>1, <4>1
      <4>2. CASE i # h + 1
        <5>1. i \in 1 .. h
          BY <1>1, <4>2
        <5>2. t[i] \in AllSpaces
          BY <1>3, <2>3, <5>1 DEF SpacesInv, SpacesTyped
        <5> QED BY <3>1, <5>1, <5>2
      <4> QED BY <4>1, <4>2
    <3> QED BY <1>5, <3>2 DEF SpacesTyped
  <2> QED BY <1>5, <2>1, <2>7, <2>8
<1>7. CASE ~Clones
  <2> DEFINE t == WithCurrent(spaces, Moved)
  <2>1. spaces' = Append(t, spaces[h]) /\ h # 1
    <3>1. spaces' = Append(t, Last(spaces)) /\ Len(spaces) # 1
      BY <1>7 DEF PushSpace, Clones
    <3>2. Last(spaces) = spaces[h]
      BY DEF Last, Height
    <3> QED BY <1>1, <3>1, <3>2
  <2>2. IsSequence(t) /\ Len(t) = h /\ t[1] = IF h = 1 THEN Moved ELSE spaces[1]
    BY <1>1, LastReplaced
  <2>3. \A i \in 1 .. h : t[i] = IF i = h THEN Moved ELSE spaces[i]
    BY <1>1, ReplacedElements
  <2>4. Moved \in AllSpaces /\ ~Moved.kept
    BY DEF Moved, AllSpaces
  <2>5. Knows(t, assignment, assLength, h, propagated)
    BY <1>1, <2>4, KnowsReplaced DEF SpacesInv, SpacesKnow
  <2>6. spaces[h].kept => spaces[h].lits = t[1].lits \cup Part(assignment, propagated)
    BY <1>1, <2>1, <2>2 DEF SpacesInv, SpacesKnow, Knows
  <2>7. Knows(Append(t, spaces[h]), assignment, assLength, h + 1, propagated)
    <3> HIDE DEF t
    <3> QED BY <1>1, <2>2, <2>5, <2>6, KnowsAppended
  <2>8. SpacesTyped'
    <3>1. (\A i \in 1 .. h : spaces'[i] = t[i]) /\ spaces'[h + 1] = spaces[h]
      <4> HIDE DEF t
      <4> QED BY <2>1, <2>2, AppendedElements
    <3>2. ASSUME NEW i \in 1 .. h + 1 PROVE spaces'[i] \in AllSpaces
      <4>1. CASE i = h + 1
        BY <1>1, <3>1, <4>1 DEF SpacesInv, SpacesTyped
      <4>2. CASE i # h + 1
        <5>1. i \in 1 .. h
          BY <1>1, <4>2
        <5>2. t[i] \in AllSpaces
          BY <2>3, <2>4, <5>1 DEF SpacesInv, SpacesTyped
        <5> QED BY <3>1, <5>1, <5>2
      <4> QED BY <4>1, <4>2
    <3> QED BY <1>5, <3>2 DEF SpacesTyped
  <2> QED BY <1>5, <2>1, <2>7, <2>8
<1> QED BY <1>6, <1>7

(* How far the last space is from the end of its level.                     *)
LEMMA ReachEnd ==
  ASSUME TypeOK, Book, Reach
  PROVE  /\ propagated < assLength[Depth] /\ ~(assLength[Height] > propagated) =>
                Height < Depth /\ assLength[Height] = propagated
         /\ propagated = assLength[Depth] => Height = Depth
<1>1. /\ Height \in 1 .. Depth /\ Depth \in Nat /\ propagated \in Nat
      /\ \A i \in 1 .. Depth : assLength[i] \in Nat
  BY BookFacts
<1>2. Height < Depth => propagated <= assLength[Height] /\ assLength[Height] < assLength[Depth]
  BY <1>1 DEF Reach, Book
<1>3. Depth \in 1 .. Depth /\ (Height < Depth \/ Height = Depth)
  BY <1>1
<1>4. assLength[Depth] \in Nat /\ assLength[Height] \in Nat
  BY <1>1, <1>3
<1> QED BY <1>1, <1>2, <1>3, <1>4

LEMMA FinishSpaces == ASSUME IndInv, Spaces, Finish PROVE Spaces'
<1> USE DEF IndInv, Spaces
<1> DEFINE n == Height
<1>1. /\ pc = "finish" /\ pc' = "redo" /\ UNCHANGED <<DL, assignment, dl, assLength, propagated>> /\ Depth' = Depth
      /\ propagated < assLength[Depth]
  BY LastOfLevels DEF Finish, trail, Depth
<1>2. ~Within("each")'
  BY <1>1 DEF Within
<1>3. Height \in 1 .. Depth /\ Depth \in Nat /\ propagated \in Nat /\ \A i \in 1 .. Depth : assLength[i] \in Nat
  BY BookFacts
<1>4. call \in Calls
  BY DEF TypeOK
<1>5. CASE assLength[n] > propagated
  <2>1. call'.stop = assLength[n] /\ UNCHANGED spaces
    BY <1>4, <1>5 DEF Finish, Height, Calls
  <2>2. UNCHANGED Height
    BY <2>1 DEF Height
  <2>3. SpacesInv'
    <3>1. Reach'
      BY <1>1, <2>2 DEF SpacesInv, Reach
    <3> QED BY <1>1, <2>1, <2>2, <3>1, Zenon DEF SpacesInv, SpacesTyped, SpacesKnow
  <2>4. AtRedoSpaces'
    BY <1>1, <1>3, <2>1, <2>2 DEF AtRedoSpaces
  <2> QED BY <1>2, <2>3, <2>4 DEF AtEachSpaces
<1>6. CASE ~(assLength[n] > propagated)
  <2>1. n < Depth /\ assLength[n] = propagated
    BY <1>1, <1>6, ReachEnd DEF SpacesInv
  <2>2. call'.stop = assLength[n + 1] /\ PushSpace
    BY <1>4, <1>6 DEF Finish, Height, Calls
  <2>3. /\ Height' = n + 1 /\ SpacesTyped'
        /\ Knows(spaces', assignment, assLength, n + 1, propagated)
    BY <2>1, <2>2, SpacesPushed
  <2>4. SpacesKnow'
    BY <1>1, <2>3, Zenon DEF SpacesKnow
  <2>5. Reach'
    <3>1. n + 1 \in 1 .. Depth /\ n \in 1 .. Depth /\ (n + 1) - 1 = n /\ n < n + 1
      BY <1>3, <2>1
    <3>2. assLength[n] < assLength[n + 1] /\ assLength[n + 1] \in Nat
      BY <1>3, <3>1 DEF Book
    <3> QED BY <1>1, <1>3, <2>1, <2>3, <3>1, <3>2 DEF Reach
  <2>6. AtRedoSpaces'
    <3>1. n + 1 \in 1 .. Depth
      BY <1>3, <2>1
    <3> QED BY <1>1, <1>3, <2>2, <2>3, <3>1 DEF AtRedoSpaces
  <2> QED BY <1>2, <2>3, <2>4, <2>5, <2>6 DEF SpacesInv, AtEachSpaces
<1> QED BY <1>5, <1>6

LEMMA NewEntry ==
  ASSUME NEW S, NEW s \in Seq(S), NEW x
  PROVE  Len(Append(s, x)) = Len(s) + 1
<1>1. s \in Seq(S \cup {x})
  OBVIOUS
<1> QED BY <1>1

LEMMA Continued ==
  ASSUME NEW S, NEW s \in Seq(S), NEW t \in Seq(S)
  PROVE  \A k \in 1 .. Len(t) : (s \o t)[Len(s) + k] = t[k]
OBVIOUS

(* Literals are appended to the assignment.                                 *)
LEMMA PostponeSpaces == ASSUME IndInv, Spaces, Postpone PROVE Spaces'
<1> USE DEF IndInv, Spaces
<1>1. /\ pc = "filter" /\ pc' \in {"search", "fixpoint"} /\ UNCHANGED <<spaces, propagated>> /\ Height' = Height
      /\ assignment' = assignment \o call.clits
  BY DEF Postpone, Examined, New, Return, Height
<1>2. ~Within("redo")' /\ ~Within("each")'
  BY <1>1 DEF Within
<1>3. Full /\ OnLevel(call.clits) /\ call.clits # <<>> /\ call.clits \in Seq(Literals)
  BY <1>1, InFilter DEF TypeOK, Calls, Postpone, New
<1>4. /\ Depth \in Nat /\ Depth >= 1 /\ Height \in 1 .. Depth /\ propagated \in Nat /\ propagated <= Length /\ Length \in Nat
      /\ \A i \in 1 .. Depth : assLength[i] \in Nat
      /\ assLength \in Seq(Nat) /\ dl \in Seq(Nat) /\ Len(assLength) >= Depth
  BY BookFacts DEF TypeOK, Book
<1>5. \A k \in 1 .. Length : assignment'[k] = assignment[k]
  BY <1>1, <1>3, Longer
<1>6. \/ dl' = Append(dl, DL) /\ assLength' = Append(assLength, Length')
      \/ UNCHANGED dl /\ assLength' = [assLength EXCEPT ![Depth] = Length']
  BY DEF Postpone, Length, Depth
<1>7. /\ Depth' \in {Depth, Depth + 1}
      /\ \A i \in 1 .. Depth - 1 : assLength'[i] = assLength[i]
      /\ Depth' = Depth + 1 => assLength'[Depth] = assLength[Depth]
  <2>1. CASE dl' = Append(dl, DL) /\ assLength' = Append(assLength, Length')
    <3>1. Depth' = Depth + 1
      BY <1>4, <2>1, NewEntry DEF Depth
    <3>2. \A i \in 1 .. Depth : assLength'[i] = assLength[i]
      <4>1. \A i \in 1 .. Depth : i \in 1 .. Len(assLength)
        BY <1>4
      <4>2. IsSequence(assLength)
        BY <1>4 DEF IsSequence
      <4> QED BY <2>1, <4>1, <4>2, AppendedElements
    <3> QED BY <1>4, <3>1, <3>2
  <2>2. CASE UNCHANGED dl /\ assLength' = [assLength EXCEPT ![Depth] = Length']
    <3>1. Depth' = Depth
      BY <2>2 DEF Depth
    <3>2. \A i \in 1 .. Depth - 1 : assLength'[i] = assLength[i]
      <4>1. ASSUME NEW i \in 1 .. Depth - 1 PROVE i # Depth /\ i \in DOMAIN assLength
        BY <1>4
      <4> QED BY <1>4, <2>2, <4>1
    <3>3. Depth' # Depth + 1
      BY <1>4, <3>1
    <3> QED BY <3>1, <3>2, <3>3
  <2> QED BY <1>6, <2>1, <2>2
<1>8. SpacesKnow'
  <2>1. Height \in Nat /\ \A i \in 1 .. Height - 1 : assLength[i] \in Nat /\ assLength[i] <= propagated
    BY ReachFacts DEF SpacesInv
  <2>2. \A i \in 1 .. Height - 1 : assLength'[i] = assLength[i]
    BY <1>4, <1>7
  <2>3. \A k \in 1 .. propagated : assignment'[k] = assignment[k]
    BY <1>4, <1>5
  <2>4. Knows(spaces, assignment', assLength', Height, propagated)
    BY <1>4, <2>1, <2>2, <2>3, KnowsSame, Zenon DEF SpacesInv, SpacesKnow
  <2> QED BY <1>1, <2>4, Zenon DEF SpacesKnow
<1>9. Reach'
  <2>1. Height >= 2 => assLength'[Height - 1] = assLength[Height - 1]
    BY <1>4, <1>7
  <2>2. ASSUME Height < Depth' PROVE propagated <= assLength'[Height]
    <3>1. CASE Height < Depth
      <4>1. assLength'[Height] = assLength[Height]
        BY <1>4, <1>7, <3>1
      <4> QED BY <3>1, <4>1 DEF SpacesInv, Reach
    <3>2. CASE Height = Depth
      <4>1. Depth' = Depth + 1
        BY <1>4, <1>7, <2>2, <3>2
      <4>2. assLength'[Height] = Length
        BY <1>3, <1>7, <3>2, <4>1 DEF Full
      <4> QED BY <1>4, <4>2
    <3> QED BY <1>4, <3>1, <3>2
  <2> QED BY <1>1, <2>1, <2>2 DEF SpacesInv, Reach
<1>10. SpacesTyped'
  BY <1>1, Zenon DEF SpacesInv, SpacesTyped
<1> QED BY <1>2, <1>8, <1>9, <1>10, NotTelling DEF SpacesInv

LEMMA InsertSpaces == ASSUME IndInv, Spaces, Insert PROVE Spaces'
<1> USE DEF IndInv, Spaces
<1>1. /\ pc = "finish" /\ pc' = "each" /\ UNCHANGED <<DL, propagated, call>>
      /\ call.caller = "propagate" /\ assignment' = assignment \o call.clits
  BY DEF Insert, Caught
<1>2. ~Within("redo")'
  BY <1>1 DEF Within
<1>3. propagated = assLength[Depth]
  BY LastOfLevels DEF Insert, Caught
<1>4. /\ Full /\ OnLevel(call.clits) /\ call.clits # <<>> /\ call.clits \in Seq(Literals)
  BY <1>1, InFinish DEF TypeOK, Calls
<1>5. /\ Depth \in Nat /\ Depth >= 1 /\ propagated = Length /\ propagated \in Nat /\ Height = Depth
      /\ assLength \in Seq(Nat) /\ dl \in Seq(Nat) /\ Len(assLength) >= Depth
  <2>1. Height = Depth
    BY <1>3, ReachEnd DEF SpacesInv
  <2> QED BY <1>3, <1>4, <2>1, BookFacts DEF Full, TypeOK, Book
<1>6. \A k \in 1 .. Length : assignment'[k] = assignment[k]
  BY <1>1, <1>4, Longer
<1>7. \A k \in 1 .. Len(call.clits) : assignment'[propagated + k] = call.clits[k]
  <2>1. assignment \in Seq(Literals)
    BY DEF TypeOK
  <2>2. \A k \in 1 .. Len(call.clits) : (assignment \o call.clits)[Len(assignment) + k] = call.clits[k]
    BY <1>4, <2>1, Continued
  <2>3. propagated = Len(assignment)
    BY <1>5, Zenon DEF Length
  <2> QED BY <1>1, <2>2, <2>3, Zenon
<1>8. /\ Height \in Nat /\ \A i \in 1 .. Height - 1 : assLength[i] \in Nat /\ assLength[i] <= propagated
  BY ReachFacts DEF SpacesInv
<1>9. CASE DL # Last(dl)
  <2>1. PushSpace /\ dl' = Append(dl, DL) /\ assLength' = Append(assLength, Length')
    BY <1>9 DEF Insert, Length
  <2>2. Depth' = Depth + 1
    BY <1>5, <2>1, NewEntry DEF Depth
  <2>3. \A i \in 1 .. Depth : assLength'[i] = assLength[i]
    <3>1. \A i \in 1 .. Depth : i \in 1 .. Len(assLength)
      BY <1>5
    <3>2. IsSequence(assLength)
      BY <1>5 DEF IsSequence
    <3> QED BY <2>1, <3>1, <3>2, AppendedElements
  <2>4. /\ Height' = Depth + 1 /\ SpacesTyped'
        /\ Knows(spaces', assignment, assLength, Depth + 1, propagated)
    BY <1>3, <1>5, <2>1, SpacesPushed
  <2>5. Knows(spaces', assignment', assLength', Depth + 1, propagated)
    <3>1. Depth + 1 \in Nat
      BY <1>5
    <3>2. ASSUME NEW i \in 1 .. (Depth + 1) - 1
          PROVE  assLength'[i] = assLength[i] /\ assLength[i] \in Nat /\ assLength[i] <= propagated
      <4>1. i \in 1 .. Depth
        BY <1>5
      <4> QED BY <1>3, <2>3, <4>1, BookFacts
    <3>3. \A k \in 1 .. propagated : assignment'[k] = assignment[k]
      BY <1>5, <1>6
    <3> QED BY <1>5, <2>4, <3>1, <3>2, <3>3, KnowsSame, Zenon
  <2>6. SpacesKnow'
    BY <1>1, <2>4, <2>5, Zenon DEF SpacesKnow
  <2>7. Reach'
    <3>1. (Depth + 1) - 1 = Depth /\ Depth \in 1 .. Depth /\ ~(Depth + 1 < Depth + 1)
      BY <1>5
    <3>2. assLength'[(Depth + 1) - 1] = propagated
      BY <1>3, <2>3, <3>1
    <3>3. propagated' = propagated /\ propagated <= propagated
      BY <1>1, <1>5
    <3> QED BY <2>2, <2>4, <3>1, <3>2, <3>3 DEF Reach
  <2>8. AtEachSpaces'
    BY <1>1, <1>7, <2>2, <2>4 DEF AtEachSpaces
  <2> QED BY <1>2, <2>4, <2>6, <2>7, <2>8 DEF SpacesInv, AtRedoSpaces
<1>10. CASE DL = Last(dl)
  <2>1. UNCHANGED <<spaces, dl, assLength>> /\ Height' = Height /\ Depth' = Depth
    BY <1>10 DEF Insert, Height, Depth
  <2>2. \A k \in 1 .. propagated : assignment'[k] = assignment[k]
    BY <1>5, <1>6
  <2>3. Knows(spaces, assignment', assLength', Height, propagated)
    BY <1>5, <1>8, <2>1, <2>2, KnowsSame, Zenon DEF SpacesInv, SpacesKnow
  <2>4. SpacesKnow'
    BY <1>1, <2>1, <2>3, Zenon DEF SpacesKnow
  <2>5. Reach'
    BY <1>1, <2>1 DEF SpacesInv, Reach
  <2>6. SpacesTyped'
    BY <2>1, Zenon DEF SpacesInv, SpacesTyped
  <2>7. AtEachSpaces'
    BY <1>1, <1>5, <1>7, <2>1 DEF AtEachSpaces
  <2> QED BY <1>2, <2>4, <2>5, <2>6, <2>7 DEF SpacesInv, AtRedoSpaces
<1> QED BY <1>9, <1>10

LEMMA PropagateRootSpaces == ASSUME IndInv, Spaces, PropagateRoot PROVE Spaces'
<1> USE DEF IndInv, Spaces
<1> DEFINE space == With(Last(spaces), ToSet(New))
<1>1. /\ DL = 0 /\ spaces' = WithCurrent(spaces, space)
      /\ UNCHANGED <<assignment, dl, assLength, propagated>>
      /\ pc' = "conflict" \/ (pc' = "tell" /\ call'.return = "search")
  BY DEF PropagateRoot, SetConflict, Return, NoCall
<1>2. ~Within("redo")' /\ ~Within("each")'
  BY <1>1 DEF Within
<1>3. Depth = 1 /\ Len(spaces) = 1 /\ Height = 1
  BY <1>1, OnlyRoot DEF Height
<1>4. assignment = <<>> /\ propagated = 0
  <2>1. assignment = <<>>
    BY <1>3 DEF Book
  <2>2. Length = 0
    BY <2>1 DEF Length
  <2> QED BY <2>1, <2>2, BookFacts
<1>5. IsSequence(spaces) /\ spaces[1] \in Roots
  BY BookFacts
<1>6. space \in Roots
  <2>1. New \in Seq(Literals)
    BY DEF New, TypeOK, Calls
  <2>2. ToSet(New) \subseteq Literals
    BY <2>1 DEF ToSet
  <2> QED BY <1>3, <1>5, <2>2 DEF With, Last, Roots
<1>7. Len(spaces') = 1 /\ spaces'[1] = space
  BY <1>1, <1>3, <1>5, LastReplaced
<1>8. Height' = 1 /\ Depth' = 1
  BY <1>1, <1>3, <1>7 DEF Height, Depth
<1>9. SpacesTyped'
  <2>1. space \in AllSpaces
    BY <1>6 DEF Roots, AllSpaces
  <2>2. ASSUME NEW i \in 1 .. 1 PROVE spaces'[i] \in AllSpaces
    BY <1>7, <2>1
  <2> QED BY <1>8, <2>2 DEF SpacesTyped
<1>10. SpacesKnow'
  <2>1. Part(assignment', 0) = {}
    BY PartFacts
  <2>2. ASSUME NEW i \in 1 .. 1
        PROVE  spaces'[i].lits = spaces'[1].lits \cup Part(assignment', IF i = 1 THEN 0 ELSE assLength'[i])
    BY <2>1
  <2> QED BY <1>1, <1>4, <1>8, <2>2 DEF SpacesKnow, Knows
<1>11. Reach'
  BY <1>8 DEF Reach
<1> QED BY <1>2, <1>9, <1>10, <1>11, NotTelling DEF SpacesInv

-----------------------------------------------------------------------------
LEMMA SpacesStep == ASSUME IndInv, Spaces, [Next]_vars PROVE Spaces'
<1>1. CASE Next
  <2>1. CASE UNCHANGED vars
    <3>1. UNCHANGED <<book, DL, call, pc, jump>>
      BY <2>1 DEF vars, trail
    <3> QED BY <3>1, SpacesSame DEF Within
  <2> QED BY <1>1, <2>1, NotMinimizing, QuietSteps, TellingSteps, UndoSpaces, PropagateSpaces, PropagateRootSpaces,
     PostponeSpaces, FinishSpaces, RedoSpaces, InsertSpaces, EachSpaces, ContradictSpaces, EnumerateSpaces DEF Next, Done
<1>2. CASE UNCHANGED vars
  <2>1. UNCHANGED <<book, DL, call, pc, jump>>
    BY <1>2 DEF vars, trail
  <2> QED BY <2>1, SpacesSame DEF Within
<1> QED BY <1>1, <1>2

InvSpaces == ~option.optimize => IndInv /\ Spaces

LEMMA SpacesInvariant == Spec => []InvSpaces
<1>1. Init => InvSpaces
  BY InitTrue, SpacesInit DEF InvSpaces
<1>2. InvSpaces /\ [Next]_vars => InvSpaces'
  BY StepKeeps, SpacesStep, OptionStays DEF InvSpaces
<1> QED BY <1>1, <1>2, PTL DEF Spec

LEMMA SpacesAre == ASSUME IndInv, Spaces PROVE SpacesExact
<1> USE DEF IndInv, Spaces
<1>1. Len(spaces) = Height /\ DOMAIN spaces = 1 .. Len(spaces)
  <2>1. Len(spaces) = Height
    BY ReachFacts DEF SpacesInv
  <2>2. DOMAIN spaces = 1 .. Len(spaces)
    BY ReachFacts DEF SpacesInv, IsSequence
  <2> QED BY <2>1, <2>2
<1>2. ASSUME NEW i \in 1 .. Height, spaces[i].kept
      PROVE  spaces[i].lits = Root.lits \cup Prefix(IF i = Height THEN propagated ELSE assLength[i])
  <2>1. i \in 1 .. Depth
    BY BookFacts
  <2>2. PICK n : n = IF i = Height THEN propagated ELSE assLength[i]
    OBVIOUS
  <2>3. n \in Nat /\ n <= Length
    <3>1. /\ propagated \in Nat /\ propagated <= Length /\ assLength[i] \in Nat
          /\ assLength[i] <= assLength[Depth] /\ assLength[Depth] <= Length /\ assLength[Depth] \in Nat /\ Length \in Nat
      BY <2>1, BookFacts
    <3> QED BY <2>2, <3>1
  <2>4. Prefix(n) = Part(assignment, n)
    BY <2>3, PrefixIs
  <2>5. spaces[i].lits = spaces[1].lits \cup Part(assignment, n)
    BY <1>2, <2>2 DEF SpacesInv, SpacesKnow, Knows
  <2> QED BY <2>2, <2>4, <2>5, Zenon DEF Root
<1> QED BY <1>1, <1>2, Zenon DEF SpacesExact

(* A space that is there knows the literals of its levels and not more,     *)
(* whether it was kept, cloned, moved or made again.                        *)
THEOREM SpacesCorrect == Spec => [](~option.optimize => SpacesExact)
<1>1. InvSpaces => (~option.optimize => SpacesExact)
  BY SpacesAre DEF InvSpaces
<1> QED BY <1>1, SpacesInvariant, PTL

--------------------------------------------------------------------------------
(* From here on: what GecodeSolver tells clasp is right - its conflicts,    *)
(* its reasons and its answers - for every set of solutions in the theory.  *)
(*                                                                          *)
(* The argument: a space knows its prefix of the assignment, so what it     *)
(* derives follows from that prefix, and from any longer one.  A literal    *)
(* that is told with a prefix is told on the level of the place it was      *)
(* derived at, and the levels of the prefix are not above it: as long as    *)
(* clasp keeps the literal it keeps the prefix.  What is true on level 0    *)
(* holds in every solution, since it follows from the root alone.  Every    *)
(* true literal was noted, follows from what was noted on its level, or     *)
(* waits somewhere on the last level, so that an answer, for which nothing  *)
(* may wait, decides every literal as clasp has it.                         *)

(* What Gecode knows when it was told some literals, and what holds in all  *)
(* worlds that have a solution.                                             *)
Forces(lits, l) == \A w \in worlds : lits \subseteq w.lits => l \in w.lits
Fails(lits) == \A w \in worlds : ~(lits \subseteq w.lits)
Certain(l) == \A w \in worlds : w.real => l \in w.lits
Impossible(lits) == \A w \in worlds : w.real => ~(lits \subseteq w.lits)

Base == Root.lits
Told(n) == Base \cup Part(assignment, n)

Types == worlds \in Theories /\ best = NoBound /\ litToAssPosition \in [Literals -> Int]

(* What is true on level 0 is true in every solution.                       *)
Truths ==
    /\ \A l \in Base : Certain(l)
    /\ \A l \in Literals : level[l] = 0 => Certain(l)
    /\ pc = "undo" /\ jump.goal = 0 => Certain(jump.lit)

(* A conflict is one, and the search ends where there is no solution.       *)
Conflicts ==
    /\ pc = "conflict" => conflict \subseteq TrueLits /\ Impossible(conflict)
    /\ pc = "unsat" => Impossible({})

(* What is being told to clasp follows from what the space was told, unless *)
(* the space is gone.                                                       *)
Deriving == pc \in {"tell", "more"} \/ (pc = "undo" /\ jump.resume = "more")
Collecting == (pc \in {"redo", "each"} \/ (pc = "finish" /\ call.caller = "propagate")) /\ call.oldDL = DL
Follows == \A l \in derived : Forces(Told(propagated), l)
Derived ==
    /\ Deriving /\ call.place <= Depth => call.place = Height /\ Follows
    /\ Collecting => Follows

(* A reason: the first n literals hold on level k and imply l.              *)
Reason(n, l, k) ==
    /\ n \in 0 .. Length
    /\ \A j \in 1 .. n : level[assignment[j]] <= k
    /\ Forces(Told(n), l)
Settled == pc \in {"fixpoint", "filter", "finish"} \/ (call.oldDL = DL /\ (Within("redo") \/ Within("each")))
Entries ==
    /\ \A e \in impliedLits : e.level < e.key /\ (e.level <= DL => Reason(e.len, e.lit, e.level))
    /\ Settled => \A e \in impliedLits : e.key <= DL
Positions ==
    /\ \A l \in Literals : litToAssPosition[l] # Free => IsTrue(l) /\ Reason(litToAssPosition[l], l, level[l])
    /\ pc = "undo" /\ jump.len # Free => Reason(jump.len, jump.lit, jump.goal)

(* The space fails with the last literal it was told, if it does, and then  *)
(* clasp takes that literal back.                                           *)
LastLevel == level[assignment[propagated]]
TakenBack ==
    /\ propagated >= 1 /\ ~Fails(Told(propagated - 1))
    /\ \/ pc = "conflict" /\ \A l \in conflict : level[l] <= LastLevel
       \/ pc = "undo" /\ jump.goal < LastLevel
Alive == pc = "unsat" \/ (pc = "conflict" /\ conflict = {}) \/ ~Fails(Told(propagated)) \/ TakenBack

(* Every true literal was noted, or follows from what was noted on its      *)
(* level or below, or it waits on the last level, or is taken back.         *)
Noted(l) == Forces(Base \cup {assignment[j] : j \in {i \in 1 .. Length : level[assignment[i]] <= level[l]}}, l)
Waits(l) ==
    \/ l \in ToSet(pending)
    \/ l \in ToSet(propQueue) /\ ~(Within("old") /\ call.oldDL > DL)
    \/ l \in ToSet(call.clits) /\ (pc \in {"filter", "finish"} \/ (Within("redo") /\ call.oldDL = DL))
Ending == pc = "conflict" \/ (pc = "undo" /\ jump.goal < DL)
AllNoted == pc = "unsat" \/ \A l \in TrueLits : Noted(l) \/ (level[l] = DL /\ (Waits(l) \/ Ending))

(* Nothing is left when clasp asks for an answer, and an answer is one.     *)
Asked == call.caller = "hasAnswer" /\ call.oldDL = DL /\ (pc = "finish" \/ Within("redo"))
Total == \A a \in Atoms : ~IsFree(a)
Answering == Asked => pending = <<>> /\ call.clits = <<>> /\ Total
Answered == pc = "model" => \E w \in worlds : w.real /\ w.lits = TrueLits

(* A space that was moved up knows nothing.                                 *)
Moves == \A i \in 1 .. Height : ~spaces[i].kept => spaces[i].lits = {}

Facts ==
    /\ Types /\ Truths /\ Conflicts /\ Derived /\ Entries /\ Positions /\ Alive
    /\ Moves /\ AllNoted /\ Answering /\ Answered
InvFacts == ~option.optimize => IndInv /\ Spaces /\ Facts

-----------------------------------------------------------------------------
(* Worlds.                                                                  *)
LEMMA WorldFacts ==
  ASSUME Types, NEW w \in worlds
  PROVE  /\ w.cost < NoBound /\ w.lits \subseteq Literals
         /\ \A l \in Literals : l \in w.lits <=> -l \notin w.lits
<1>1. PICK known \in Theories : w \in known
  BY DEF Types
<1>2. w.cost \in 0 .. NoBound - 1 /\ w.lits \subseteq Literals /\ \A a \in Atoms : a \in w.lits <=> -a \notin w.lits
  BY <1>1, CspAssumption
<1>3. w.cost < NoBound
  BY <1>2 DEF NoBound
<1>4. ASSUME NEW l \in Literals PROVE l \in w.lits <=> -l \notin w.lits
  <2>1. CASE l \in Atoms
    BY <1>2, <2>1
  <2>2. CASE l \notin Atoms
    <3>1. PICK a \in Atoms : l = -a
      BY <2>2 DEF Literals
    <3>2. -l = a
      BY <3>1, CspAssumption
    <3> QED BY <1>2, <3>1, <3>2
  <2> QED BY <2>1, <2>2
<1> QED BY <1>2, <1>3, <1>4

(* Without a bound a space is what it was told.                             *)
LEMMA AgreeIs ==
  ASSUME Types, NEW space, space.bound = NoBound
  PROVE  /\ Agree(space) = {w \in worlds : space.lits \subseteq w.lits}
         /\ Failed(space) <=> Fails(space.lits)
         /\ \A l : l \in Closure(space) <=> l \in Literals /\ Forces(space.lits, l)
<1>1. Agree(space) = {w \in worlds : space.lits \subseteq w.lits}
  BY WorldFacts DEF Agree
<1>2. Failed(space) <=> Fails(space.lits)
  BY <1>1 DEF Failed, Fails
<1>3. \A l : l \in Closure(space) <=> l \in Literals /\ Forces(space.lits, l)
  BY <1>1 DEF Closure, Forces
<1> QED BY <1>1, <1>2, <1>3

LEMMA SolutionsAre ==
  ASSUME Types, NEW lits
  PROVE  /\ Solutions(lits) = {w \in worlds : w.real /\ lits \subseteq w.lits}
         /\ Solutions(lits) = {} <=> Impossible(lits)
<1>1. Solutions(lits) = {w \in worlds : w.real /\ lits \subseteq w.lits}
  BY WorldFacts DEF Solutions, Types
<1> QED BY <1>1 DEF Impossible

LEMMA MoreTold ==
  ASSUME NEW lits, NEW more, lits \subseteq more
  PROVE  /\ \A l : Forces(lits, l) => Forces(more, l)
         /\ Fails(lits) => Fails(more)
         /\ Impossible(lits) => Impossible(more)
BY DEF Forces, Fails, Impossible

LEMMA PartMore ==
  ASSUME NEW s, NEW m \in Nat, NEW n \in Nat, m <= n
  PROVE  Part(s, m) \subseteq Part(s, n)
<1>1. Part(s, n) = Part(s, m) \cup Piece(s, m, n)
  BY PartSplit
<1> QED BY <1>1

LEMMA ToldMore ==
  ASSUME NEW m \in Nat, NEW n \in Nat, m <= n
  PROVE  /\ \A l : Forces(Told(m), l) => Forces(Told(n), l)
         /\ Fails(Told(m)) => Fails(Told(n))
<1>1. Told(m) \subseteq Told(n)
  BY PartMore DEF Told
<1> QED BY <1>1, MoreTold

(* What fails whatever the solution is impossible.                          *)
LEMMA FailsFor ==
  ASSUME Truths, NEW lits, Fails(Base \cup lits)
  PROVE  Impossible(lits)
BY DEF Truths, Certain, Fails, Impossible

-----------------------------------------------------------------------------
(* Each literal of the assignment has a level of its own, in this order.    *)
LEMMA OfLevel ==
  ASSUME TypeOK, Book, NEW k \in 1 .. Length
  PROVE  \E i \in 2 .. Depth : /\ assLength[i - 1] < k /\ k <= End(i) /\ level[assignment[k]] = dl[i]
                               /\ dl[i] \in watched /\ dl[i] > 0
<1> DEFINE S == {i \in 1 .. Depth : assLength[i] < k}
           m == Max(S)
<1>1. /\ Depth \in Nat /\ Depth >= 1 /\ assLength[1] = 0 /\ dl[1] = 0 /\ k \in Nat /\ k >= 1
      /\ \A i \in 1 .. Depth : assLength[i] \in Nat /\ dl[i] \in Nat
  BY BookFacts
<1>2. S \in SUBSET Nat /\ S # {} /\ \A x \in S : x <= Depth
  <2>1. 1 \in S
    BY <1>1
  <2> QED BY <1>1, <2>1
<1>3. m \in S /\ \A y \in S : y <= m
  BY <1>1, <1>2, Greatest
<1>4. Depth >= 2
  <2>1. Depth <= 1 => Length = 0
    BY DEF Book, Length
  <2> QED BY <1>1, <2>1
<1>5. m \in 1 .. Depth /\ assLength[m] < k
  BY <1>3
<1>6. PICK i \in 2 .. Depth : assLength[i - 1] < k /\ k <= End(i)
  <2> HIDE DEF m
  <2>1. CASE m = Depth
    <3>1. assLength[Depth - 1] < assLength[Depth] /\ Depth - 1 \in 1 .. Depth
      BY <1>1, <1>4 DEF Book
    <3>2. assLength[Depth - 1] < k
      BY <1>1, <1>5, <2>1, <3>1
    <3>3. k <= End(Depth)
      BY DEF End
    <3> QED BY <1>1, <1>4, <3>2, <3>3
  <2>2. CASE m # Depth
    <3>1. m + 1 \in 2 .. Depth /\ (m + 1) - 1 = m /\ m + 1 \in 1 .. Depth
      BY <1>1, <1>5, <2>2
    <3>2. ~(assLength[m + 1] < k)
      <4>1. assLength[m + 1] < k => m + 1 <= m
        BY <1>3, <3>1 DEF m
      <4> QED BY <1>5, <4>1
    <3>3. k <= assLength[m + 1]
      BY <1>1, <3>1, <3>2
    <3>4. k <= End(m + 1)
      BY <3>3 DEF End
    <3> QED BY <1>5, <3>1, <3>4
  <2> QED BY <2>1, <2>2
<1>7. k \in assLength[i - 1] + 1 .. End(i) /\ i \in 1 .. Depth
  <2>1. i - 1 \in 1 .. Depth /\ assLength[i - 1] \in Nat /\ End(i) \in Nat
    BY <1>1, BookFacts DEF End
  <2> QED BY <1>1, <1>6, <2>1
<1>8. level[assignment[k]] = dl[i]
  BY <1>7, Segments
<1>9. dl[i] \in watched /\ dl[i] > 0
  <2>1. dl[1] < dl[i] /\ dl[i] \in Nat
    BY <1>1, <1>7 DEF Book
  <2> QED BY <1>1, <2>1 DEF Book
<1> QED BY <1>6, <1>8, <1>9

LEMMA AssignedFacts ==
  ASSUME TypeOK, Book, NEW k \in 1 .. Length
  PROVE  /\ assignment[k] \in Literals /\ level[assignment[k]] \in 1 .. DL
         /\ level[assignment[k]] \in watched /\ level[assignment[k]] <= dl[Depth]
<1>1. assignment[k] \in Literals
  BY BookFacts
<1>2. PICK i \in 2 .. Depth : level[assignment[k]] = dl[i] /\ dl[i] \in watched /\ dl[i] > 0
  BY OfLevel
<1>3. dl[i] <= dl[Depth] /\ dl[i] \in Nat /\ dl[Depth] \in Nat /\ dl[Depth] <= DL /\ DL \in Nat
  BY BookFacts
<1> QED BY <1>1, <1>2, <1>3

LEMMA InOrder ==
  ASSUME TypeOK, Book, NEW k \in 1 .. Length, NEW j \in 1 .. k
  PROVE  level[assignment[j]] <= level[assignment[k]]
<1>1. j \in 1 .. Length /\ j \in Nat /\ k \in Nat /\ j <= k
  BY BookFacts
<1>2. PICK a \in 2 .. Depth : assLength[a - 1] < j /\ level[assignment[j]] = dl[a]
  BY <1>1, OfLevel
<1>3. PICK b \in 2 .. Depth : k <= End(b) /\ level[assignment[k]] = dl[b]
  BY OfLevel
<1>4. a \in 1 .. Depth /\ b \in 1 .. Depth /\ a - 1 \in 1 .. Depth /\ Depth \in Nat
      /\ \A i \in 1 .. Depth : assLength[i] \in Nat /\ dl[i] \in Nat
  BY BookFacts
<1>5. a <= b
  <2>1. SUFFICES ASSUME b < a PROVE FALSE
    BY <1>4
  <2>2. End(b) = assLength[b]
    BY <1>4, <2>1 DEF End
  <2>3. b < a - 1 => assLength[b] < assLength[a - 1]
    BY <1>4 DEF Book
  <2>4. assLength[b] <= assLength[a - 1]
    BY <1>4, <2>1, <2>3
  <2> QED BY <1>1, <1>2, <1>3, <1>4, <2>2, <2>4
<1>6. a < b => dl[a] < dl[b]
  BY <1>4 DEF Book
<1> QED BY <1>2, <1>3, <1>4, <1>5, <1>6

(* The part of the assignment of the levels up to a place.                  *)
LEMMA PlaceLevels ==
  ASSUME TypeOK, Book, call.place \in 1 .. Depth
  PROVE  Size \in 0 .. Length /\ \A j \in 1 .. Size : level[assignment[j]] <= Level
<1> DEFINE i == call.place
<1>1. /\ Depth \in Nat /\ Length \in Nat /\ propagated \in Nat /\ propagated <= Length /\ i \in Nat
      /\ assLength[Depth] \in Nat /\ assLength[Depth] <= Length
      /\ \A x \in 1 .. Depth : assLength[x] \in Nat /\ dl[x] \in Nat /\ assLength[x] <= assLength[Depth]
  BY BookFacts
<1>2. Size = (IF i = Depth THEN propagated ELSE assLength[i]) /\ Level = dl[i]
  BY DEF Size, Level, Depth
<1>3. assLength[i] \in Nat /\ assLength[i] <= Length
  BY <1>1
<1>4. Size \in 0 .. Length
  BY <1>1, <1>2, <1>3
<1>5. ASSUME NEW j \in 1 .. Size PROVE level[assignment[j]] <= dl[i]
  <2>1. j \in 1 .. Length
    BY <1>1, <1>4
  <2>2. CASE i = Depth
    BY <2>1, <2>2, AssignedFacts
  <2>3. CASE i # Depth
    <3>1. PICK a \in 2 .. Depth : assLength[a - 1] < j /\ level[assignment[j]] = dl[a]
      BY <2>1, OfLevel
    <3>2. j \in Nat /\ j <= assLength[i] /\ a - 1 \in 1 .. Depth /\ a \in 1 .. Depth
      BY <1>1, <1>2, <1>3, <2>3
    <3>3. a - 1 < i
      <4>1. i < a - 1 => assLength[i] < assLength[a - 1]
        BY <1>1, <3>2 DEF Book
      <4> QED BY <1>1, <3>1, <3>2, <4>1
    <3>4. a < i => dl[a] < dl[i]
      BY <3>2 DEF Book
    <3> QED BY <1>1, <3>1, <3>2, <3>3, <3>4
  <2> QED BY <2>2, <2>3
<1> QED BY <1>2, <1>4, <1>5

-----------------------------------------------------------------------------
(* The root is told nothing, except on level 0.                             *)
LEMMA RootReplaced ==
  ASSUME IndInv, spaces' = WithCurrent(spaces, Current) \/ (Height >= 2 /\ \E x : spaces' = WithCurrent(spaces, x))
  PROVE  Base' = Base
<1>1. IsSequence(spaces) /\ Len(spaces) >= 1 /\ spaces[1] \in Roots /\ Len(spaces) = Height /\ Height \in Nat
  BY BookFacts DEF IndInv, Height
<1>2. PICK x : spaces' = WithCurrent(spaces, x) /\ (x = Current \/ Height >= 2)
  OBVIOUS
<1>3. Len(spaces) = 1 => Current = spaces[1]
  BY <1>1 DEF Current, CurrentAfter, Last, Roots
<1>4. spaces'[1] = spaces[1]
  <2>1. WithCurrent(spaces, x)[1] = IF Len(spaces) = 1 THEN x ELSE spaces[1]
    BY <1>1, LastReplaced
  <2> QED BY <1>1, <1>2, <1>3, <2>1
<1> QED BY <1>4 DEF Base, Root

LEMMA RootPushed ==
  ASSUME IndInv, PushSpace
  PROVE  Base' = Base
<1>1. IsSequence(spaces) /\ Len(spaces) >= 1 /\ spaces[1] \in Roots /\ Len(spaces) = Height /\ Height \in Nat
  BY BookFacts DEF IndInv, Height
<1>2. Len(spaces) = 1 => Current = spaces[1]
  BY <1>1 DEF Current, CurrentAfter, Last, Roots
<1>3. ASSUME NEW x, Len(spaces) = 1 => x = spaces[1]
      PROVE  \A y : Append(WithCurrent(spaces, x), y)[1] = spaces[1]
  <2>1. /\ IsSequence(WithCurrent(spaces, x)) /\ Len(WithCurrent(spaces, x)) = Len(spaces)
        /\ WithCurrent(spaces, x)[1] = IF Len(spaces) = 1 THEN x ELSE spaces[1]
    BY <1>1, LastReplaced
  <2> QED BY <1>1, <1>3, <2>1, Appended
<1>4. CASE Clones
  BY <1>2, <1>3, <1>4 DEF PushSpace, Base, Root
<1>5. CASE ~Clones
  <2>1. Len(spaces) # 1
    BY <1>5 DEF Clones
  <2> QED BY <1>3, <1>5, <2>1 DEF PushSpace, Base, Root
<1> QED BY <1>4, <1>5

LEMMA RootFront ==
  ASSUME IndInv, Height >= 2, spaces' = Front(spaces)
  PROVE  Base' = Base
<1>1. IsSequence(spaces) /\ Len(spaces) = Height
  BY BookFacts DEF IndInv, Height
<1> QED BY <1>1, Shortened DEF Base, Root

(* Where literals are told: in a space of the last level, or below it.      *)
LEMMA InEachCall ==
  ASSUME IndInv, Spaces, pc = "each", call.oldDL <= DL
  PROVE  /\ call.oldDL = DL /\ Height = Depth /\ Height >= 2
         /\ Length = propagated + Len(call.clits)
         /\ \A k \in 1 .. Len(call.clits) : assignment[propagated + k] = call.clits[k]
<1>1. Within("each")
  BY DEF Within
<1>2. call.oldDL = DL
  BY <1>1 DEF IndInv, Control, AtEach, TypeOK, Calls
<1>3. DL > 0 /\ dl[Depth] = DL /\ Length = propagated + Len(call.clits)
  BY <1>1, <1>2 DEF IndInv, Control, AtEach
<1>4. Height = Depth /\ \A k \in 1 .. Len(call.clits) : assignment[propagated + k] = call.clits[k]
  BY <1>1, <1>2 DEF Spaces, AtEachSpaces
<1>5. Depth \in Nat /\ Depth >= 1 /\ dl[1] = 0
  BY BookFacts DEF IndInv
<1> QED BY <1>2, <1>3, <1>4, <1>5

LEMMA InRedoCall ==
  ASSUME IndInv, Spaces, pc = "redo", call.oldDL <= DL
  PROVE  /\ call.oldDL = DL /\ Height >= 2 /\ call.stop <= Length
         /\ call.stop <= assLength[Height] /\ Full /\ propQueue = <<>>
<1>1. Within("redo")
  BY DEF Within
<1>2. call.oldDL = DL
  BY <1>1 DEF IndInv, Control, AtRedo, TypeOK, Calls
<1> QED BY <1>1, <1>2 DEF IndInv, Control, AtRedo, Spaces, AtRedoSpaces

(* Steps that change neither what clasp has assigned nor what is noted and  *)
(* told, and the other ones that leave the root alone.                      *)
Still == UNCHANGED <<worlds, DL, level, assignment, propagated>> /\ Base' = Base
StillStep ==
    \/ Clash \/ PropagateLiteral \/ Resolve \/ GiveUp \/ Propagate \/ ImplyOld \/ DropOld \/ RefuteOld \/ OldDone
    \/ Examine \/ Refute \/ NothingNew \/ CatchUp \/ Finish \/ RedoDone \/ Backjumped \/ EachDone \/ Remember
    \/ TellLiteral \/ AllTold \/ HasAnswer \/ Enumerate \/ Done
LooseStep ==
    \/ StillStep \/ Decide \/ DecideOther \/ Infer \/ Arrive \/ UndoLevel \/ Redo \/ Each \/ Contradict
    \/ Postpone \/ Insert

LEMMA AllSteps ==
  ASSUME IndInv
  PROVE  Next => LooseStep \/ PropagateRoot
BY NotMinimizing DEF Next, LooseStep, StillStep

LEMMA RootStays ==
  ASSUME IndInv, Spaces, LooseStep
  PROVE  Base' = Base
<1>1. CASE UNCHANGED spaces
  BY <1>1 DEF Base, Root
<1>2. CASE Propagate \/ Enumerate
  BY <1>2, RootReplaced DEF Propagate, Enumerate
<1>3. CASE Finish \/ Insert
  <2>1. UNCHANGED spaces \/ PushSpace
    BY <1>3 DEF Finish, Insert
  <2> QED BY <1>1, <2>1, RootPushed
<1>4. CASE Redo
  <2>1. Height >= 2
    BY <1>4, InRedoCall DEF Redo
  <2> QED BY <1>4, <2>1, RootReplaced DEF Redo, Tell
<1>5. CASE Each
  <2>1. Height >= 2
    BY <1>5, InEachCall DEF Each
  <2> QED BY <1>5, <2>1, RootReplaced DEF Each, Tell
<1>6. CASE Contradict
  <2>1. CASE call.return = "redo"
    <3>1. call.oldDL = DL
      BY <1>6, <2>1 DEF Contradict, IndInv, Control, AtTell
    <3>2. Height >= 2
      BY <1>6, <2>1, <3>1 DEF Contradict, IndInv, Control, AtRedo, Within
    <3> QED BY <1>6, <2>1, <3>2, RootFront DEF Contradict
  <2>2. CASE call.return # "redo"
    BY <1>1, <1>6, <2>2 DEF Contradict
  <2> QED BY <2>1, <2>2
<1>7. CASE UndoLevel
  <2>1. CASE DL \in watched
    <3>1. PICK i \in 2 .. Depth : DL = dl[i]
      BY <2>1 DEF IndInv, Book
    <3>2. UNCHANGED spaces \/ (spaces' = Front(spaces) /\ Height > Depth - 1)
      BY <1>7, <2>1 DEF UndoLevel, PopLevel, Height, Depth
    <3>3. Depth >= 2 /\ Depth \in Nat /\ Height \in 1 .. Depth
      BY <3>1, BookFacts DEF IndInv
    <3> QED BY <1>1, <3>2, <3>3, RootFront
  <2>2. CASE DL \notin watched
    BY <1>1, <1>7, <2>2 DEF UndoLevel, book
  <2> QED BY <2>1, <2>2
<1>8. CASE \/ Decide \/ DecideOther \/ Infer \/ Clash \/ PropagateLiteral \/ Resolve \/ GiveUp \/ Arrive
           \/ ImplyOld \/ DropOld \/ RefuteOld \/ OldDone \/ Examine \/ Refute \/ NothingNew \/ Postpone
           \/ CatchUp \/ RedoDone \/ Backjumped \/ EachDone \/ Remember \/ TellLiteral \/ AllTold \/ HasAnswer
  BY <1>1, <1>8 DEF Decide, DecideOther, Infer, Clash, PropagateLiteral, Resolve, GiveUp, Arrive, ImplyOld, DropOld,
     RefuteOld, OldDone, Examine, Refute, NothingNew, Postpone, CatchUp, RedoDone, Backjumped, EachDone, Remember,
     TellLiteral, AllTold, HasAnswer, book
<1>9. CASE Done
  BY <1>1, <1>9 DEF Done, vars, book
<1> QED BY <1>2, <1>3, <1>4, <1>5, <1>6, <1>7, <1>8, <1>9 DEF LooseStep, StillStep

-----------------------------------------------------------------------------
LEMMA StillSteps ==
  ASSUME IndInv, Spaces, StillStep
  PROVE  Still
<1>1. UNCHANGED <<worlds, DL, level, assignment, propagated>>
  BY DEF StillStep, Clash, PropagateLiteral, Resolve, GiveUp, Propagate, ImplyOld, DropOld, RefuteOld, OldDone,
     Examine, Refute, NothingNew, CatchUp, Finish, RedoDone, Backjumped, EachDone, Remember, TellLiteral, AllTold,
     HasAnswer, Enumerate, Done, theory, trail, book, vars
<1> QED BY <1>1, RootStays DEF Still, LooseStep

LEMMA StillFacts ==
  ASSUME Still
  PROVE  /\ Length' = Length /\ TrueLits' = TrueLits /\ LastLevel' = LastLevel
         /\ \A n : Told(n)' = Told(n)
         /\ \A lits, l : Forces(lits, l)' <=> Forces(lits, l)
         /\ \A lits : Fails(lits)' <=> Fails(lits)
         /\ \A lits : Impossible(lits)' <=> Impossible(lits)
         /\ \A n, l, k : Reason(n, l, k)' <=> Reason(n, l, k)
         /\ \A l \in Literals : Noted(l)' <=> Noted(l)
<1> USE DEF Still
<1>1. Length' = Length /\ TrueLits' = TrueLits /\ LastLevel' = LastLevel
  BY DEF Length, TrueLits, IsTrue, LastLevel
<1>2. \A n : Told(n)' = Told(n)
  BY DEF Told, Part
<1>3. /\ \A lits, l : Forces(lits, l)' <=> Forces(lits, l)
      /\ \A lits : Fails(lits)' <=> Fails(lits)
      /\ \A lits : Impossible(lits)' <=> Impossible(lits)
  BY DEF Forces, Fails, Impossible
<1>4. \A n, l, k : Reason(n, l, k)' <=> Reason(n, l, k)
  BY <1>1, <1>2, <1>3 DEF Reason
<1>5. \A l \in Literals : Noted(l)' <=> Noted(l)
  BY <1>1, <1>3 DEF Noted
<1> QED BY <1>1, <1>2, <1>3, <1>4, <1>5

-----------------------------------------------------------------------------
LEMMA WorldsStay ==
  ASSUME LooseStep \/ PropagateRoot
  PROVE  worlds' = worlds
<1>1. UNCHANGED theory \/ UNCHANGED vars
  BY DEF LooseStep, StillStep, Decide, DecideOther, Infer, Clash, PropagateLiteral, Resolve, GiveUp, UndoLevel, Arrive,
     Propagate, ImplyOld, DropOld, RefuteOld, OldDone, Examine, Refute, NothingNew, PropagateRoot, Postpone, CatchUp,
     Finish, Redo, RedoDone, Backjumped, Insert, Each, EachDone, Contradict, Remember, TellLiteral, AllTold,
     HasAnswer, Enumerate, Done
<1> QED BY <1>1 DEF vars, theory

LEMMA TypesKept ==
  ASSUME IndInv, Types, Positions, LooseStep \/ PropagateRoot
  PROVE  Types'
<1>1. worlds' \in Theories
  BY WorldsStay DEF Types
<1>2. best' = NoBound
  <2>1. CASE Enumerate
    BY <2>1 DEF Enumerate, IndInv, TypeOK, Types, optimum
  <2>2. CASE ~Enumerate
    <3>1. UNCHANGED best \/ UNCHANGED vars
      BY <2>2 DEF LooseStep, StillStep, Decide, DecideOther, Infer, Clash, PropagateLiteral, Resolve, GiveUp, UndoLevel,
         Arrive, Propagate, ImplyOld, DropOld, RefuteOld, OldDone, Examine, Refute, NothingNew, PropagateRoot, Postpone,
         CatchUp, Finish, Redo, RedoDone, Backjumped, Insert, Each, EachDone, Contradict, Remember, TellLiteral, AllTold,
         HasAnswer, Done, optimum
    <3> QED BY <3>1 DEF vars, optimum, Types
  <2> QED BY <2>1, <2>2
<1>3. litToAssPosition' \in [Literals -> Int]
  <2>1. CASE UndoLevel
    BY <2>1 DEF UndoLevel, Types, Free
  <2>2. CASE Arrive
    <3>1. jump.len = Free \/ jump.len \in Int
      BY <2>2 DEF Arrive, Positions, Reason
    <3>2. litToAssPosition' = litToAssPosition \/ litToAssPosition' = [litToAssPosition EXCEPT ![jump.lit] = jump.len]
      BY <2>2 DEF Arrive
    <3>3. jump.len = Free => litToAssPosition' = litToAssPosition
      BY <2>2 DEF Arrive
    <3> QED BY <3>1, <3>2, <3>3 DEF Types
  <2>3. CASE ~UndoLevel /\ ~Arrive
    <3>1. UNCHANGED litToAssPosition \/ UNCHANGED vars
      BY <2>3 DEF LooseStep, StillStep, Decide, DecideOther, Infer, Clash, PropagateLiteral, Resolve, GiveUp,
         Propagate, ImplyOld, DropOld, RefuteOld, OldDone, Examine, Refute, NothingNew, PropagateRoot, Postpone,
         CatchUp, Finish, Redo, RedoDone, Backjumped, Insert, Each, EachDone, Contradict, Remember, TellLiteral, AllTold,
         HasAnswer, Enumerate, Done, learnt
    <3> QED BY <3>1 DEF vars, learnt, Types
  <2> QED BY <2>1, <2>2, <2>3
<1> QED BY <1>1, <1>2, <1>3 DEF Types

-----------------------------------------------------------------------------
(* Truths.                                                                  *)

(* What is implied by literals that are true in every solution is.          *)
LEMMA CertainFrom ==
  ASSUME NEW lits, \A k \in lits : Certain(k),
         NEW l, Forces(lits, l) \/ \A w \in worlds : w.real /\ lits \subseteq w.lits => l \in w.lits
  PROVE  Certain(l)
BY DEF Certain, Forces

LEMMA UpToNothing ==
  ASSUME TypeOK, Trail, Truths
  PROVE  \A k \in UpTo(0) : Certain(k)
<1>1. ASSUME NEW k \in UpTo(0) PROVE k \in Literals /\ level[k] = 0
  BY DEF UpTo, TrueLits, IsTrue, Trail, TypeOK, Free
<1> QED BY <1>1 DEF Truths

(* A literal that clasp infers on level 0, by itself or from Gecode.        *)
LEMMA ImpliesCertain ==
  ASSUME TypeOK, Trail, Types, Truths, NEW l \in Literals, Implies(UpTo(0), l)
  PROVE  Certain(l)
<1>1. \A w \in worlds : w.real /\ UpTo(0) \subseteq w.lits => l \in w.lits
  BY SolutionsAre DEF Implies
<1> QED BY <1>1, UpToNothing, CertainFrom

LEMMA ImplyFacts ==
  ASSUME IndInv, Spaces, Types, NEW l \in Literals, NEW n \in 0 .. Length, NEW m \in Nat, NEW next, Imply(l, n, m, next)
  PROVE  /\ pc' = "undo" /\ jump'.goal \in 0 .. m /\ jump'.lit = l /\ jump'.resume = next
         /\ jump'.len = (IF option.lazy THEN n ELSE Free) /\ (option.lazy => jump'.goal = m)
         /\ Forces(Told(n), l)
         /\ jump'.goal = 0 => Forces(Base, l)
<1>1. PICK k \in (IF option.lazy THEN {m} ELSE 0 .. m) :
        /\ l \in Closure(With(Root, {a \in Prefix(n) : level[a] <= k}))
        /\ jump' = [goal |-> k, lit |-> l, len |-> IF option.lazy THEN n ELSE Free, resume |-> next]
  BY DEF Imply
<1>2. k \in 0 .. m /\ (option.lazy => k = m)
  BY <1>1
<1>3. /\ Prefix(n) = Part(assignment, n) /\ Part(assignment, n) \subseteq Literals
  BY PrefixIs DEF IndInv
<1> DEFINE lits == {a \in Prefix(n) : level[a] <= k}
           space == With(Root, lits)
<1>4. space.bound = NoBound /\ space.lits = Base \cup lits
  <2>1. Root \in Roots
    BY BookFacts DEF IndInv, Root
  <2> QED BY <2>1 DEF Roots, With, Base
<1>5. Forces(Base \cup lits, l)
  BY <1>1, <1>4, AgreeIs
<1>6. Forces(Told(n), l)
  <2>1. Base \cup lits \subseteq Told(n)
    BY <1>3 DEF Told
  <2> QED BY <1>5, <2>1, MoreTold
<1>7. ASSUME k = 0 PROVE lits = {}
  <2>1. ASSUME NEW a \in Part(assignment, n) PROVE ~(level[a] <= 0)
    <3>1. PICK j \in 1 .. n : a = assignment[j]
      BY DEF Part
    <3>2. j \in 1 .. Length
      BY <3>1, BookFacts DEF IndInv
    <3>3. level[a] \in 1 .. DL /\ DL \in Nat
      BY <3>1, <3>2, AssignedFacts, BookFacts DEF IndInv
    <3> QED BY <3>3
  <2> QED BY <1>3, <1>7, <2>1
<1> QED BY <1>1, <1>2, <1>5, <1>6, <1>7 DEF Imply

(* The places from which clasp is told to go back.                          *)
LEMMA OldFacts ==
  ASSUME IndInv, Entries, NEW e \in Old, e.level <= DL
  PROVE  e.lit \in Literals /\ e.len \in 0 .. Length /\ e.level \in Nat /\ Reason(e.len, e.lit, e.level)
<1>1. e \in Records /\ e \in impliedLits
  BY DEF Old, IndInv, TypeOK
<1> QED BY <1>1 DEF Records, Entries, Reason

LEMMA ImplyOldFacts ==
  ASSUME IndInv, Spaces, Types, Entries, ImplyOld
  PROVE  \E e \in Old : /\ e.level <= DL /\ Reason(e.len, e.lit, e.level)
                        /\ pc' = "undo" /\ jump'.goal \in 0 .. e.level /\ jump'.lit = e.lit /\ jump'.resume = "old"
                        /\ jump'.len = (IF option.lazy THEN e.len ELSE Free) /\ (option.lazy => jump'.goal = e.level)
                        /\ (jump'.goal = 0 => Forces(Base, e.lit))
<1>1. PICK e \in NextOld : e.level <= DL /\ Imply(e.lit, e.len, e.level, "old")
  BY DEF ImplyOld
<1>2. e \in Old
  BY DEF NextOld
<1>3. e.lit \in Literals /\ e.len \in 0 .. Length /\ e.level \in Nat /\ Reason(e.len, e.lit, e.level)
  BY <1>1, <1>2, OldFacts
<1> QED BY <1>1, <1>2, <1>3, ImplyFacts

LEMMA TellLiteralFacts ==
  ASSUME IndInv, Spaces, Types, TellLiteral
  PROVE  \E l \in derived : /\ l \in Literals /\ call.place \in 1 .. Depth
                            /\ pc' = "undo" /\ jump'.goal \in 0 .. Level /\ jump'.lit = l /\ jump'.resume = "more"
                            /\ jump'.len = (IF option.lazy THEN Size ELSE Free) /\ (option.lazy => jump'.goal = Level)
                            /\ Forces(Told(Size), l)
                            /\ (jump'.goal = 0 => Forces(Base, l))
<1>1. pc \in {"tell", "more"} /\ (pc = "more" => ~TooFar)
  BY DEF TellLiteral
<1>2. PICK l \in Untold : Imply(l, Size, Level, "more")
  BY DEF TellLiteral
<1>3. l \in derived /\ l \in Literals
  BY <1>2 DEF Untold, IndInv, TypeOK
<1>4. call.place \in 1 .. Depth
  <2>1. call.place \in Nat /\ call.place >= 1
    BY <1>1, InTell DEF IndInv, TypeOK
  <2>2. pc = "tell" => call.place \in 1 .. Depth
    BY DEF IndInv, Control, AtTell
  <2>3. pc = "more" => call.place <= Depth
    BY <1>1, <2>1, BookFacts DEF TooFar, Depth, IndInv
  <2> QED BY <1>1, <2>1, <2>2, <2>3, BookFacts DEF IndInv
<1>5. Size \in 0 .. Length /\ Level \in Nat
  BY <1>4, PlaceLevels, PlaceFacts DEF IndInv
<1> QED BY <1>2, <1>3, <1>4, <1>5, ImplyFacts

LEMMA CertainStays ==
  ASSUME worlds' = worlds
  PROVE  \A l : Certain(l)' <=> Certain(l)
BY DEF Certain

LEMMA TruthsFrame ==
  ASSUME Truths, worlds' = worlds, Base' = Base,
         \A l \in Literals : level'[l] = 0 => level[l] = 0 \/ Certain(l),
         pc' = "undo" /\ jump'.goal = 0 => Certain(jump'.lit)
  PROVE  Truths'
BY CertainStays DEF Truths, Certain

(* Where clasp goes when it is sent back.                                   *)
LEMMA OtherPlaces ==
  ASSUME LooseStep \/ PropagateRoot, ~Resolve, ~ImplyOld, ~TellLiteral, ~Done,
         pc # "undo" \/ ~UndoLevel, IndInv
  PROVE  pc' # "undo"
<1>1. CASE Decide \/ DecideOther \/ Infer \/ Clash \/ PropagateLiteral \/ GiveUp \/ Arrive \/ Propagate \/ DropOld
  BY <1>1 DEF Decide, DecideOther, Infer, Clash, PropagateLiteral, GiveUp, Arrive, Propagate, DropOld, SetConflict, Return,
     IndInv, Control, AtUndo
<1>2. CASE RefuteOld \/ OldDone \/ Examine \/ Refute \/ NothingNew \/ PropagateRoot \/ Postpone \/ CatchUp \/ Finish
  BY <1>2 DEF RefuteOld, OldDone, Examine, Refute, NothingNew, PropagateRoot, Postpone, CatchUp, Finish, SetConflict, Return
<1>3. CASE Redo \/ RedoDone \/ Backjumped \/ Insert \/ Each \/ EachDone \/ Contradict \/ HasAnswer \/ Enumerate
  BY <1>3 DEF Redo, RedoDone, Backjumped, Insert, Each, EachDone, Contradict, HasAnswer, Enumerate, Tell, SetConflict, Return
<1>4. CASE Remember \/ AllTold
  BY <1>4 DEF Remember, AllTold, IndInv, TypeOK, Calls
<1> QED BY <1>1, <1>2, <1>3, <1>4 DEF LooseStep, StillStep, UndoLevel

LEMMA StillPlaces ==
  ASSUME StillStep
  PROVE  pc # "undo"
BY DEF StillStep, Clash, PropagateLiteral, Resolve, GiveUp, Propagate, ImplyOld, DropOld, RefuteOld, OldDone,
   Examine, Refute, NothingNew, Examined, CatchUp, Finish, RedoDone, Backjumped, EachDone, Remember, TellLiteral, AllTold,
   HasAnswer, Enumerate, Caught, Done

LEMMA ResolveFacts ==
  ASSUME IndInv, Resolve
  PROVE  \E n \in 0 .. DL, l \in Literals :
            /\ -l \in Literals /\ n < LevelOf(conflict) /\ Implies(UpTo(n), -l)
            /\ pc' = "undo" /\ jump'.goal = n /\ jump'.lit = -l /\ jump'.len = Free /\ jump'.resume = "search"
<1>1. PICK n \in 0 .. DL, l \in TrueLits :
        n < LevelOf(conflict) /\ Implies(UpTo(n), -l) /\ jump' = [NoJump EXCEPT !.goal = n, !.lit = -l]
  BY DEF Resolve
<1>2. l \in Literals /\ -l \in Literals
  BY Negation DEF TrueLits
<1> QED BY <1>1, <1>2 DEF NoJump, Resolve

LEMMA TruthsStill ==
  ASSUME IndInv, Spaces, Types, Truths, Entries, StillStep
  PROVE  Truths'
<1>1. worlds' = worlds /\ level' = level /\ Base' = Base
  BY StillSteps DEF Still
<1>2. ASSUME pc' = "undo", jump'.goal = 0 PROVE Certain(jump'.lit)
  <2>1. CASE Resolve
    BY <1>2, <2>1, ResolveFacts, ImpliesCertain DEF IndInv
  <2>2. CASE ImplyOld
    BY <1>2, <2>2, ImplyOldFacts, CertainFrom DEF Truths
  <2>3. CASE TellLiteral
    BY <1>2, <2>3, TellLiteralFacts, CertainFrom DEF Truths
  <2>4. CASE Done
    BY <1>2, <2>4 DEF Done, vars, Truths
  <2> QED BY <1>2, <2>1, <2>2, <2>3, <2>4, OtherPlaces, StillPlaces DEF LooseStep
<1> QED BY <1>1, <1>2, TruthsFrame

LEMMA TruthsKept ==
  ASSUME IndInv, Spaces, Types, Truths, Entries, LooseStep \/ PropagateRoot
  PROVE  Truths'
<1>1. worlds' = worlds /\ (LooseStep => Base' = Base)
  BY WorldsStay, RootStays
<1>2. CASE StillStep
  BY <1>2, TruthsStill
<1>3. CASE DecideOther \/ Redo \/ Each \/ Contradict \/ Postpone \/ Insert
  <2>1. level' = level /\ pc' # "undo"
    BY <1>3 DEF DecideOther, Redo, Each, Contradict, Postpone, Insert, trail, Tell, SetConflict, Return
  <2> QED BY <1>1, <1>3, <2>1, TruthsFrame DEF LooseStep
<1>4. CASE Decide \/ Infer
  <2>1. pc' = "search" /\ DL \in Nat /\ level \in [Literals -> Int]
    BY <1>4 DEF Decide, Infer, IndInv, TypeOK
  <2>2. PICK l \in Literals : \/ level' = [level EXCEPT ![l] = DL + 1]
                              \/ level' = [level EXCEPT ![l] = DL] /\ Implies(TrueLits, l)
    BY <1>4 DEF Decide, Infer, Assign
  <2>3. ASSUME DL = 0, Implies(TrueLits, l) PROVE Certain(l)
    <3>1. TrueLits = UpTo(0)
      BY <2>3 DEF TrueLits, IsTrue, UpTo, IndInv, TypeOK, Trail, Free
    <3> QED BY <2>3, <3>1, ImpliesCertain DEF IndInv
  <2>4. \A k \in Literals : level'[k] = 0 => level[k] = 0 \/ Certain(k)
    BY <2>1, <2>2, <2>3
  <2> QED BY <1>1, <1>4, <2>1, <2>4, TruthsFrame DEF LooseStep
<1>5. CASE Arrive
  <2>1. /\ pc = "undo" /\ DL = jump.goal /\ pc' # "undo" /\ jump.lit \in Literals
        /\ level' = level \/ level' = [level EXCEPT ![jump.lit] = DL]
    BY <1>5 DEF Arrive, Assign, IndInv, Control, AtUndo
  <2>2. \A k \in Literals : level'[k] = 0 => level[k] = 0 \/ Certain(k)
    BY <2>1 DEF Truths, IndInv, TypeOK
  <2> QED BY <1>1, <1>5, <2>1, <2>2, TruthsFrame DEF LooseStep
<1>6. CASE UndoLevel
  <2>1. /\ pc = "undo" /\ jump' = jump
        /\ level' = [l \in Literals |-> IF level[l] = DL THEN Free ELSE level[l]]
    BY <1>6 DEF UndoLevel
  <2>2. \A k \in Literals : level'[k] = 0 => level[k] = 0
    BY <2>1 DEF Free
  <2>3. jump'.goal = 0 => Certain(jump'.lit)
    BY <2>1 DEF Truths
  <2> QED BY <1>1, <1>6, <2>2, <2>3, TruthsFrame DEF LooseStep
<1>7. CASE PropagateRoot
  <2>1. /\ pc = "filter" /\ DL = 0 /\ level' = level /\ pc' # "undo"
        /\ spaces' = WithCurrent(spaces, With(Last(spaces), ToSet(New)))
    BY <1>7 DEF PropagateRoot, Examined, trail, SetConflict, Return
  <2>2. IsSequence(spaces) /\ Len(spaces) = 1 /\ spaces[1] \in Roots
    BY <2>1, OnlyRoot, BookFacts DEF IndInv
  <2>3. Base' = Base \cup ToSet(New)
    BY <2>1, <2>2, LastReplaced DEF Base, Root, With, Last, Roots
  <2>4. \A l \in ToSet(New) : l \in Literals /\ level[l] = 0
    <3>1. New \in Seq(Literals) /\ OnLevel(New)
      BY <2>1, InFilter DEF New, IndInv, TypeOK, Calls
    <3> QED BY <2>1, <3>1 DEF ToSet, OnLevel
  <2> QED BY <1>1, <2>1, <2>3, <2>4, CertainStays DEF Truths
<1> QED BY <1>2, <1>3, <1>4, <1>5, <1>6, <1>7 DEF LooseStep

-----------------------------------------------------------------------------
(* Conflicts.                                                               *)
LEMMA PrefixTrue ==
  ASSUME TypeOK, Book, NEW n \in 0 .. Length
  PROVE  /\ Prefix(n) \subseteq TrueLits
         /\ \A l \in Prefix(n) : \E j \in 1 .. n : j \in 1 .. Length /\ l = assignment[j]
         /\ Base \cup Prefix(n) = Told(n)
<1>1. Prefix(n) = Part(assignment, n)
  BY PrefixIs
<1>2. ASSUME NEW l \in Prefix(n) PROVE l \in TrueLits /\ \E j \in 1 .. n : j \in 1 .. Length /\ l = assignment[j]
  <2>1. PICK j \in 1 .. n : l = assignment[j]
    BY <1>1 DEF Part
  <2>2. j \in 1 .. Length
    BY BookFacts
  <2>3. l \in Literals /\ level[l] \in 1 .. DL /\ DL \in Nat
    BY <2>1, <2>2, AssignedFacts, BookFacts
  <2> QED BY <2>1, <2>2, <2>3 DEF TrueLits, IsTrue, Free
<1> QED BY <1>1, <1>2 DEF Told

LEMMA SetConflictFacts ==
  ASSUME Types, Truths, NEW lits \in SUBSET TrueLits, SetConflict(lits), lits = {} => Impossible({})
  PROVE  /\ pc' = "conflict" /\ conflict' \subseteq lits /\ Impossible(conflict')
         /\ lits = {} => conflict' = {}
<1>1. pc' = "conflict"
  BY DEF SetConflict, Return
<1>2. CASE lits = {}
  <2>1. conflict' = {}
    BY <1>2 DEF SetConflict
  <2> QED BY <1>1, <1>2, <2>1
<1>3. CASE lits # {}
  <2>1. PICK c \in SUBSET lits : conflict' = c /\ Failed(Space(Root.lits \cup c, best))
    BY <1>3 DEF SetConflict
  <2>2. Space(Root.lits \cup c, best).bound = NoBound /\ Space(Root.lits \cup c, best).lits = Base \cup c
    BY DEF Space, Types, Base
  <2>3. Fails(Base \cup c)
    BY <2>1, <2>2, AgreeIs
  <2> QED BY <1>1, <1>3, <2>1, <2>3, FailsFor
<1> QED BY <1>2, <1>3

LEMMA ConflictSet ==
  ASSUME worlds' = worlds, level' = level, pc' = "conflict", conflict' \subseteq TrueLits, Impossible(conflict')
  PROVE  Conflicts'
BY DEF Conflicts, TrueLits, IsTrue, Impossible

(* A space that is told the literals of the assignment, and more.           *)
LEMMA CurrentIs ==
  ASSUME IndInv, Spaces, NEW n \in 0 .. Length, propagated <= n, n <= propagated + 1
  PROVE  /\ CurrentAfter(n).bound = NoBound
         /\ n = propagated => CurrentAfter(n).lits = Told(n)
         /\ n = propagated + 1 => CurrentAfter(n).lits \cup {assignment[n]} = Told(n)
<1>1. n \in Nat /\ n <= Length /\ propagated \in Nat
  BY BookFacts DEF IndInv
<1>2. /\ CurrentAfter(n) \in AllSpaces
      /\ CurrentAfter(n).lits = Base \cup Part(assignment, IF Last(spaces).kept THEN propagated ELSE n)
  BY <1>1, CurrentFacts DEF IndInv, Spaces, Base
<1>3. CurrentAfter(n).bound = NoBound
  BY <1>2 DEF AllSpaces
<1>4. n = propagated => CurrentAfter(n).lits = Told(n)
  BY <1>2 DEF Told
<1>5. ASSUME n = propagated + 1 PROVE CurrentAfter(n).lits \cup {assignment[n]} = Told(n)
  <2>1. Part(assignment, n) = Part(assignment, propagated) \cup {assignment[n]}
    BY <1>1, <1>5, PartFacts
  <2> QED BY <1>2, <2>1 DEF Told
<1> QED BY <1>3, <1>4, <1>5

LEMMA PropagateFacts ==
  ASSUME IndInv, Spaces, Types
  PROVE  Failed(Current) <=> Fails(Told(propagated))
<1>1. propagated \in 0 .. Length /\ propagated <= propagated /\ propagated <= propagated + 1
  BY BookFacts DEF IndInv
<1>2. Current.bound = NoBound /\ Current.lits = Told(propagated)
  BY <1>1, CurrentIs DEF Current
<1> QED BY <1>2, AgreeIs

(* The literal after those that were told is told.                          *)
LEMMA TellingFacts ==
  ASSUME IndInv, Spaces, Types, propagated + 1 \in 1 .. Length, NEW rest, NEW next,
         Tell(assignment[propagated + 1], rest, next)
  PROVE  /\ propagated' = propagated + 1
         /\ \/ Fails(Told(propagated + 1)) /\ SetConflict(Prefix(propagated + 1))
            \/ /\ ~Fails(Told(propagated + 1)) /\ pc' = "tell"
               /\ call' = [call EXCEPT !.place = Len(spaces), !.return = next, !.clits = rest]
               /\ derived' \subseteq derived \cup {l \in Literals : Forces(Told(propagated + 1), l)}
<1> DEFINE n == propagated + 1
           l == assignment[n]
           space == With(CurrentAfter(n), {l})
<1>1. n \in 0 .. Length /\ propagated <= n /\ n <= propagated + 1
  BY BookFacts DEF IndInv
<1>2. CurrentAfter(n).bound = NoBound /\ CurrentAfter(n).lits \cup {l} = Told(n) /\ CurrentAfter(n) \in AllSpaces
  <2>1. n \in Nat /\ n <= Length
    BY <1>1, BookFacts DEF IndInv
  <2> QED BY <1>1, <2>1, CurrentIs, CurrentFacts DEF IndInv, Spaces
<1>3. space.bound = NoBound /\ space.lits = Told(n)
  BY <1>2 DEF With, AllSpaces
<1>4. (Failed(space) <=> Fails(Told(n))) /\ \A k : k \in Closure(space) <=> k \in Literals /\ Forces(Told(n), k)
  BY <1>3, AgreeIs
<1>5. /\ propagated' = n
      /\ IF Failed(space) THEN SetConflict(Prefix(n))
         ELSE /\ derived' = derived \cup (Closure(space) \ Closure(CurrentAfter(n)))
              /\ pc' = "tell" /\ call' = [call EXCEPT !.place = Len(spaces), !.return = next, !.clits = rest]
  BY DEF Tell
<1> HIDE DEF space
<1> QED BY <1>4, <1>5

LEMMA RedoFacts ==
  ASSUME IndInv, Spaces, Types, Redo
  PROVE  /\ propagated + 1 \in 1 .. Length /\ call.oldDL = DL
         /\ Tell(assignment[propagated + 1], call.clits, "redo")
<1>1. call.oldDL = DL /\ call.stop <= Length /\ propagated < call.stop /\ call.stop \in Nat
  BY InRedoCall DEF Redo, IndInv, TypeOK, Calls
<1> QED BY <1>1, BookFacts DEF Redo, IndInv

LEMMA EachFacts ==
  ASSUME IndInv, Spaces, Types, Each
  PROVE  /\ propagated + 1 \in 1 .. Length /\ call.oldDL = DL
         /\ Tell(assignment[propagated + 1], Tail(call.clits), "each")
<1>1. /\ call.oldDL = DL /\ Length = propagated + Len(call.clits) /\ call.clits # <<>>
      /\ \A k \in 1 .. Len(call.clits) : assignment[propagated + k] = call.clits[k]
  BY InEachCall DEF Each
<1>2. PICK lits \in Seq(Literals) : lits = call.clits
  BY DEF IndInv, TypeOK, Calls
<1>3. Len(lits) \in Nat /\ Len(lits) >= 1 /\ Head(lits) = lits[1]
  BY <1>1, <1>2
<1>4. assignment[propagated + 1] = Head(lits)
  BY <1>1, <1>2, <1>3
<1>5. propagated + 1 \in 1 .. Length
  BY <1>1, <1>2, <1>3, BookFacts DEF IndInv
<1> QED BY <1>1, <1>2, <1>4, <1>5 DEF Each

LEMMA ContradictFacts ==
  ASSUME IndInv, Spaces, Types, Derived, Contradict
  PROVE  \E lits \in SUBSET TrueLits : lits # {} /\ SetConflict(lits)
<1>1. PICK l \in derived : IsFalse(l) /\ SetConflict(Prefix(Size) \cup {-l})
  BY DEF Contradict
<1>2. -l \in TrueLits
  BY <1>1, Negation DEF IsFalse, TrueLits, IsTrue, IndInv, TypeOK
<1>3. Size \in 0 .. Length
  BY PlaceLevels DEF Contradict, IndInv, Control, AtTell
<1>4. Prefix(Size) \subseteq TrueLits
  BY <1>3, PrefixTrue DEF IndInv
<1> QED BY <1>1, <1>2, <1>4

LEMMA RefuteOldFacts ==
  ASSUME IndInv, Spaces, Types, Entries, RefuteOld
  PROVE  \E lits \in SUBSET TrueLits : lits # {} /\ SetConflict(lits)
<1>1. PICK e \in NextOld : IsFalse(e.lit) /\ e.level < DL /\ SetConflict(Prefix(e.len) \cup {-e.lit})
  BY DEF RefuteOld
<1>2. e \in Old /\ e \in Records
  BY DEF NextOld, Old, IndInv, TypeOK
<1>3. e.lit \in Literals /\ e.len \in 0 .. Length
  BY <1>1, <1>2, OldFacts, BookFacts DEF Records, IndInv
<1>4. -e.lit \in TrueLits
  BY <1>1, <1>3, Negation DEF IsFalse, TrueLits, IsTrue
<1>5. Prefix(e.len) \subseteq TrueLits
  BY <1>3, PrefixTrue DEF IndInv
<1> QED BY <1>1, <1>4, <1>5

LEMMA RefuteFacts ==
  ASSUME IndInv, Spaces, Types, Refute
  PROVE  \E lits \in SUBSET TrueLits : lits # {} /\ SetConflict(lits)
<1>1. pc = "filter" /\ propQueue # <<>> /\ SetConflict(Prefix(propagated) \cup {Head(propQueue)})
  BY DEF Refute
<1>2. Head(propQueue) \in TrueLits
  <2>1. OnLevel(propQueue) /\ propQueue \in Seq(Literals) /\ DL \in Nat
    BY <1>1, InFilter DEF IndInv, TypeOK
  <2>2. Head(propQueue) \in Literals /\ level[Head(propQueue)] = DL
    BY <1>1, <2>1 DEF OnLevel
  <2> QED BY <2>1, <2>2 DEF TrueLits, IsTrue, Free
<1>3. Prefix(propagated) \subseteq TrueLits
  BY PrefixTrue, BookFacts DEF IndInv
<1> QED BY <1>1, <1>2, <1>3

LEMMA PropagateRootFacts ==
  ASSUME IndInv, Spaces, Types, PropagateRoot
  PROVE  LET lits == ToSet(call.clits)
         IN  /\ Base' = Base \cup lits /\ Length = 0 /\ propagated = 0 /\ Depth = 1 /\ DL = 0 /\ Height' = 1
             /\ \A l \in lits : l \in Literals /\ level[l] = 0
             /\ UNCHANGED <<DL, level, pending, watched, assignment, dl, propagated>>
             /\ \/ Fails(Base \cup lits) /\ SetConflict({})
                \/ /\ ~Fails(Base \cup lits) /\ pc' = "tell" /\ call' = NoCall
                   /\ derived' \subseteq {l \in Literals : Forces(Base \cup lits, l)}
<1> DEFINE lits == ToSet(call.clits)
           space == With(Last(spaces), lits)
<1>1. /\ pc = "filter" /\ DL = 0 /\ spaces' = WithCurrent(spaces, space)
      /\ UNCHANGED <<DL, level, pending, watched, assignment, dl, propagated>>
      /\ IF Failed(space) THEN SetConflict({}) ELSE pc' = "tell" /\ call' = NoCall /\ derived' = Closure(space) \ Known
  BY DEF PropagateRoot, Examined, New, trail
<1>2. Depth = 1 /\ Len(spaces) = 1 /\ IsSequence(spaces) /\ spaces[1] \in Roots /\ Length \in Nat /\ propagated \in Nat
      /\ propagated <= Length
  BY <1>1, OnlyRoot, BookFacts DEF IndInv
<1>3. Length = 0 /\ propagated = 0
  <2>1. assignment = <<>>
    BY <1>2 DEF IndInv, Book
  <2> QED BY <1>2, <2>1 DEF Length
<1>4. space.bound = NoBound /\ space.lits = Base \cup lits
  BY <1>2 DEF Last, Roots, With, Base, Root
<1>5. Base' = Base \cup lits /\ Height' = 1
  <2> HIDE DEF space
  <2>1. spaces'[1] = space /\ Len(spaces') = 1
    BY <1>1, <1>2, LastReplaced
  <2> QED BY <1>4, <2>1 DEF Base, Root, Height
<1>6. \A l \in lits : l \in Literals /\ level[l] = 0
  <2>1. call.clits \in Seq(Literals) /\ OnLevel(call.clits)
    BY <1>1, InFilter DEF IndInv, TypeOK, Calls
  <2> QED BY <1>1, <2>1 DEF ToSet, OnLevel
<1>7. (Failed(space) <=> Fails(Base \cup lits)) /\ \A k : k \in Closure(space) <=> k \in Literals /\ Forces(Base \cup lits, k)
  BY <1>4, AgreeIs
<1> HIDE DEF space
<1>8. \/ Fails(Base \cup lits) /\ SetConflict({})
      \/ /\ ~Fails(Base \cup lits) /\ pc' = "tell" /\ call' = NoCall
         /\ derived' \subseteq {l \in Literals : Forces(Base \cup lits, l)}
  BY <1>1, <1>7
<1> QED BY <1>1, <1>2, <1>3, <1>5, <1>6, <1>8

LEMMA EnumerateFacts ==
  ASSUME IndInv, Spaces, Types, Enumerate
  PROVE  /\ Asked /\ pc' \in {"model", "conflict"} /\ call' = NoCall /\ derived' = {} /\ propQueue = <<>>
         /\ pc' = "conflict" =>
              conflict' = Prefix(Length) /\ \A w \in worlds : w.real => ~(Told(Length) \subseteq w.lits)
         /\ pc' = "model" => \E w \in worlds : w.real /\ Told(Length) \subseteq w.lits
<1>1. pc = "finish" /\ call.caller = "hasAnswer" /\ propagated = Last(assLength)
  BY DEF Enumerate, Caught
<1>2. Full /\ propQueue = <<>> /\ call.oldDL = DL
  BY <1>1 DEF IndInv, Control, AtFinish
<1>3. propagated = Length /\ Length \in Nat
  <2>1. Len(assLength) = Depth
    BY BookFacts DEF IndInv, Book, TypeOK
  <2> QED BY <1>1, <1>2, <2>1, BookFacts DEF Last, Full, IndInv
<1>4. Current.bound = NoBound /\ Current.lits = Told(Length)
  BY <1>3, CurrentIs DEF Current
<1>5. Answers(Current) = {w \in worlds : w.real /\ Told(Length) \subseteq w.lits}
  BY <1>4, AgreeIs DEF Answers
<1>6. ToSet(assignment) = Prefix(Length)
  <2>1. assignment \in Seq(Literals)
    BY DEF IndInv, TypeOK
  <2>2. SubSeq(assignment, 1, Len(assignment)) = assignment
    BY <2>1
  <2> QED BY <2>2 DEF Prefix, Length
<1>7. \/ Answers(Current) # {} /\ Return("model")
      \/ Answers(Current) = {} /\ conflict' = ToSet(assignment) /\ Return("conflict")
  BY DEF Enumerate
<1>8. pc' \in {"model", "conflict"} /\ call' = NoCall /\ derived' = {}
  BY <1>7 DEF Return
<1>9. pc' = "conflict" => conflict' = Prefix(Length) /\ Answers(Current) = {}
  BY <1>6, <1>7 DEF Return
<1>10. pc' = "model" => Answers(Current) # {}
  BY <1>7 DEF Return
<1> QED BY <1>1, <1>2, <1>5, <1>8, <1>9, <1>10 DEF Asked

(* What is implied on level 0 is no reason for a conflict.                  *)
LEMMA LevelZero ==
  ASSUME IndInv, Types, Truths, Conflicts, pc = "conflict", LevelOf(conflict) = 0
  PROVE  Impossible({})
<1>1. conflict \subseteq TrueLits /\ Impossible(conflict)
  BY DEF Conflicts
<1>2. ASSUME NEW l \in conflict PROVE Certain(l)
  <2> DEFINE S == {level[k] : k \in conflict}
  <2>1. \A k \in conflict : k \in Literals /\ level[k] \in Nat /\ level[k] <= DL
    BY <1>1 DEF TrueLits, IsTrue, IndInv, Trail, TypeOK
  <2>2. S \in SUBSET Nat /\ S # {} /\ DL \in Nat /\ \A x \in S : x <= DL
    BY <1>2, <2>1 DEF IndInv, TypeOK
  <2>3. \A y \in S : y <= Max(S)
    BY <2>2, Greatest
  <2>4. Max(S) = 0
    BY <1>2 DEF LevelOf
  <2>5. level[l] = 0
    BY <2>1, <2>3, <2>4
  <2> QED BY <2>1, <2>5 DEF Truths
<1> QED BY <1>1, <1>2 DEF Certain, Impossible

LEMMA ConflictsKept ==
  ASSUME IndInv, Spaces, Types, Truths, Entries, Derived, Conflicts, LooseStep \/ PropagateRoot
  PROVE  Conflicts'
<1>1. worlds' = worlds
  BY WorldsStay
<1>2. CASE RefuteOld \/ Refute \/ Contradict
  <2>1. PICK lits \in SUBSET TrueLits : lits # {} /\ SetConflict(lits)
    BY <1>2, RefuteOldFacts, RefuteFacts, ContradictFacts
  <2>2. pc' = "conflict" /\ conflict' \subseteq lits /\ Impossible(conflict')
    BY <2>1, SetConflictFacts
  <2>3. level' = level
    BY <1>2 DEF RefuteOld, Refute, Contradict, trail
  <2> QED BY <1>1, <2>2, <2>3, ConflictSet
<1>3. CASE Redo \/ Each
  <2>1. propagated + 1 \in 1 .. Length /\ \E rest, next : Tell(assignment[propagated + 1], rest, next)
    BY <1>3, RedoFacts, EachFacts
  <2>2. \/ pc' = "tell"
        \/ Fails(Told(propagated + 1)) /\ SetConflict(Prefix(propagated + 1))
    BY <2>1, TellingFacts
  <2>3. level' = level
    BY <1>3 DEF Redo, Each, trail
  <2>4. CASE pc' = "tell"
    BY <2>4 DEF Conflicts
  <2>5. CASE Fails(Told(propagated + 1)) /\ SetConflict(Prefix(propagated + 1))
    <3>1. Prefix(propagated + 1) \subseteq TrueLits /\ Base \cup Prefix(propagated + 1) = Told(propagated + 1)
      BY <2>1, PrefixTrue DEF IndInv
    <3>2. Prefix(propagated + 1) = {} => Impossible({})
      BY <2>5, <3>1, FailsFor
    <3>3. pc' = "conflict" /\ conflict' \subseteq Prefix(propagated + 1) /\ Impossible(conflict')
      BY <2>5, <3>1, <3>2, SetConflictFacts
    <3> QED BY <1>1, <2>3, <3>1, <3>3, ConflictSet
  <2> QED BY <2>2, <2>4, <2>5
<1>4. CASE Propagate
  <2>1. level' = level /\ (pc' = "conflict" => Failed(Current) /\ SetConflict(Prefix(propagated))) /\ pc' # "unsat"
    BY <1>4 DEF Propagate, trail, SetConflict, Return
  <2>2. CASE pc' = "conflict"
    <3>1. propagated \in 0 .. Length
      BY BookFacts DEF IndInv
    <3>2. Prefix(propagated) \subseteq TrueLits /\ Base \cup Prefix(propagated) = Told(propagated)
      BY <3>1, PrefixTrue DEF IndInv
    <3>3. Prefix(propagated) = {} => Impossible({})
      BY <2>1, <2>2, <3>2, PropagateFacts, FailsFor
    <3>4. pc' = "conflict" /\ conflict' \subseteq Prefix(propagated) /\ Impossible(conflict')
      BY <2>1, <2>2, <3>2, <3>3, SetConflictFacts
    <3> QED BY <1>1, <2>1, <3>2, <3>4, ConflictSet
  <2> QED BY <2>1, <2>2 DEF Conflicts
<1>5. CASE PropagateRoot
  <2>1. PICK lits : /\ \A l \in lits : l \in Literals /\ level[l] = 0
                    /\ pc' = "tell" \/ (Fails(Base \cup lits) /\ SetConflict({}))
                    /\ level' = level
    BY <1>5, PropagateRootFacts
  <2>2. CASE pc' = "tell"
    BY <2>2 DEF Conflicts
  <2>3. CASE Fails(Base \cup lits) /\ SetConflict({})
    <3>1. Impossible({})
      BY <2>1, <2>3 DEF Truths, Certain, Fails, Impossible
    <3>2. pc' = "conflict" /\ conflict' = {} /\ Impossible(conflict')
      BY <2>3, <3>1, SetConflictFacts
    <3> QED BY <1>1, <2>1, <3>2, ConflictSet
  <2> QED BY <2>1, <2>2, <2>3
<1>6. CASE Enumerate
  <2>1. level' = level /\ Length \in 0 .. Length
    BY <1>6, BookFacts DEF Enumerate, trail, IndInv
  <2>2. /\ pc' \in {"model", "conflict"}
        /\ pc' = "conflict" => conflict' = Prefix(Length) /\ \A w \in worlds : w.real => ~(Told(Length) \subseteq w.lits)
    BY <1>6, EnumerateFacts
  <2>3. Prefix(Length) \subseteq TrueLits /\ Base \cup Prefix(Length) = Told(Length)
    BY <2>1, PrefixTrue DEF IndInv
  <2>4. CASE pc' = "conflict"
    <3>1. Impossible(Prefix(Length))
      BY <2>2, <2>3, <2>4 DEF Impossible, Truths, Certain
    <3> QED BY <1>1, <2>1, <2>2, <2>3, <2>4, <3>1, ConflictSet
  <2> QED BY <2>2, <2>4 DEF Conflicts
<1>7. CASE Clash
  <2>1. level' = level /\ pc' = "conflict" /\ conflict' = TrueLits /\ Solutions(TrueLits) = {}
    BY <1>7 DEF Clash, trail
  <2> QED BY <1>1, <2>1, SolutionsAre, ConflictSet
<1>8. CASE GiveUp
  <2>1. pc' = "unsat" /\ pc = "conflict" /\ LevelOf(conflict) = 0
    BY <1>8 DEF GiveUp
  <2>2. Impossible({})
    BY <2>1, LevelZero
  <2> QED BY <1>1, <2>1, <2>2 DEF Conflicts, Impossible
<1>9. CASE Done
  BY <1>9 DEF Done, vars, theory, trail, Conflicts, TrueLits, IsTrue, Impossible
<1>10. CASE \/ Decide \/ DecideOther \/ Infer \/ PropagateLiteral \/ Resolve \/ Arrive \/ ImplyOld \/ DropOld \/ OldDone
            \/ Examine \/ NothingNew \/ Postpone \/ CatchUp \/ Finish \/ RedoDone \/ Backjumped \/ Insert \/ EachDone
            \/ Remember \/ TellLiteral \/ AllTold \/ HasAnswer \/ UndoLevel
  <2>1. pc' \notin {"conflict", "unsat"}
    <3>1. CASE \/ Decide \/ DecideOther \/ Infer \/ PropagateLiteral \/ Resolve \/ Arrive \/ ImplyOld \/ DropOld \/ OldDone
               \/ UndoLevel
      BY <3>1 DEF Decide, DecideOther, Infer, PropagateLiteral, Resolve, Arrive, ImplyOld, Imply, DropOld, OldDone, Return,
         IndInv, Control, AtUndo, UndoLevel
    <3>2. CASE \/ Examine \/ NothingNew \/ Postpone \/ CatchUp \/ Finish \/ RedoDone \/ Backjumped \/ Insert \/ EachDone
      BY <3>2 DEF Examine, NothingNew, Postpone, CatchUp, Finish, RedoDone, Backjumped, Insert, EachDone, Return
    <3>3. CASE Remember \/ TellLiteral \/ AllTold \/ HasAnswer
      BY <3>3 DEF Remember, TellLiteral, Imply, AllTold, HasAnswer, IndInv, TypeOK, Calls
    <3> QED BY <1>10, <3>1, <3>2, <3>3
  <2> QED BY <2>1 DEF Conflicts
<1> QED BY <1>2, <1>3, <1>4, <1>5, <1>6, <1>7, <1>8, <1>9, <1>10 DEF LooseStep, StillStep

-----------------------------------------------------------------------------
(* Derived.                                                                 *)
LEMMA NothingDerived ==
  ASSUME ~Deriving', derived' = {} \/ ~Collecting'
  PROVE  Derived'
BY DEF Derived, Follows

(* undo() takes literals from the end of the assignment, or none.           *)
LEMMA UndoFacts ==
  ASSUME IndInv, Spaces, UndoLevel
  PROVE  /\ pc = "undo" /\ pc' = "undo" /\ DL > jump.goal /\ DL' = DL - 1 /\ DL \in Nat /\ pending' = <<>>
         /\ UNCHANGED <<jump, call, derived, impliedLits, worlds>>
         /\ level' = [l \in Literals |-> IF level[l] = DL THEN Free ELSE level[l]]
         /\ Length' \in Nat /\ Length' <= Length /\ propagated' \in Nat /\ propagated' <= propagated
         /\ \A k \in 1 .. Length' : assignment'[k] = assignment[k]
         /\ \A k \in 1 .. Length : k <= Length' <=> level[assignment[k]] # DL
         /\ propagated > propagated' => \A k \in 1 .. propagated : k > propagated' => k > Length'
         /\ call.place \in Nat /\ call.place <= Depth' /\ call.place = Height =>
              Height' = Height /\ propagated' = propagated /\ call.place <= Depth
<1>1. /\ pc = "undo" /\ pc' = "undo" /\ DL > jump.goal /\ DL' = DL - 1 /\ DL \in Nat /\ pending' = <<>>
      /\ UNCHANGED <<jump, call, derived, impliedLits, worlds>>
      /\ level' = [l \in Literals |-> IF level[l] = DL THEN Free ELSE level[l]]
  BY DEF UndoLevel, theory, IndInv, TypeOK
<1>2. /\ Depth \in Nat /\ Depth >= 1 /\ Length \in Nat /\ propagated \in Nat /\ propagated <= Length
      /\ Height \in 1 .. Depth /\ \A i \in 1 .. Depth : assLength[i] \in Nat /\ dl[i] \in Nat /\ assLength[i] <= Length
  <2>1. \A i \in 1 .. Depth : assLength[i] <= assLength[Depth] /\ assLength[i] \in Nat
    BY BookFacts DEF IndInv
  <2>2. assLength[Depth] \in Nat /\ assLength[Depth] <= Length /\ Length \in Nat
    BY BookFacts DEF IndInv
  <2>3. \A i \in 1 .. Depth : assLength[i] <= Length
    BY <2>1, <2>2
  <2> QED BY <2>3, BookFacts DEF IndInv
<1>3. CASE DL \notin watched
  <2>1. UNCHANGED <<assignment, propagated, Length, Depth, Height>>
    BY <1>3 DEF UndoLevel, book, Length, Depth, Height
  <2>2. \A k \in 1 .. Length : level[assignment[k]] # DL
    BY <1>3, AssignedFacts DEF IndInv
  <2> QED BY <1>1, <1>2, <2>1, <2>2
<1>4. CASE DL \in watched
  <2> DEFINE n == assLength[Depth - 1]
  <2>1. PopLevel
    BY <1>4 DEF UndoLevel
  <2>2. dl[Depth] = DL /\ Depth >= 2 /\ Depth - 1 \in 1 .. Depth
    <3>1. PICK i \in 2 .. Depth : DL = dl[i]
      BY <1>4 DEF IndInv, Book
    <3>2. dl[i] <= dl[Depth] /\ dl[Depth] <= DL
      BY <3>1, BookFacts DEF IndInv
    <3> QED BY <1>2, <3>1, <3>2, BookFacts DEF IndInv
  <2>3. Depth' = Depth - 1 /\ Length' = n /\ \A k \in 1 .. Length' : assignment'[k] = assignment[k]
    BY <2>1, <2>2, LevelDropped DEF IndInv
  <2>4. n \in Nat /\ n <= Length
    BY <1>2, <2>2
  <2>5. propagated' = IF propagated <= n THEN propagated ELSE n
    <3>1. propagated' = Min({propagated, n})
      BY <2>1 DEF PopLevel, Depth
    <3> HIDE DEF n
    <3> QED BY <1>2, <2>4, <3>1, MinIs
  <2>6. ASSUME NEW k \in 1 .. Length PROVE k <= n <=> level[assignment[k]] # DL
    <3>1. PICK i \in 2 .. Depth : assLength[i - 1] < k /\ k <= End(i) /\ level[assignment[k]] = dl[i]
      BY OfLevel DEF IndInv
    <3>2. CASE i = Depth
      BY <2>2, <2>4, <3>1, <3>2
    <3>3. CASE i # Depth
      <4>1. i \in 1 .. Depth /\ i < Depth /\ k <= assLength[i]
        BY <1>2, <3>1, <3>3 DEF End
      <4>2. i < Depth - 1 => assLength[i] < n
        BY <2>2, <4>1 DEF IndInv, Book
      <4>3. dl[i] < dl[Depth]
        BY <1>2, <4>1 DEF IndInv, Book
      <4> QED BY <1>2, <2>2, <2>4, <3>1, <4>1, <4>2, <4>3
    <3> QED BY <3>2, <3>3
  <2>7. ASSUME call.place \in Nat, call.place <= Depth', call.place = Height
        PROVE  Height' = Height /\ propagated' = propagated /\ call.place <= Depth
    <3>1. Height <= Depth - 1 /\ Height \in 1 .. Depth
      BY <1>2, <2>3, <2>7
    <3>2. spaces' = spaces
      BY <1>2, <2>1, <3>1 DEF PopLevel, Height, Depth
    <3>3. propagated <= assLength[Height]
      BY <1>2, <3>1 DEF Spaces, SpacesInv, Reach
    <3>4. Height < Depth - 1 => assLength[Height] < n
      BY <1>2, <2>2, <3>1 DEF IndInv, Book
    <3>5. propagated <= n
      BY <1>2, <2>4, <3>1, <3>3, <3>4
    <3> QED BY <1>2, <2>5, <2>7, <3>1, <3>2, <3>5 DEF Height
  <2>8. propagated' \in Nat /\ propagated' <= propagated
    BY <1>2, <2>4, <2>5
  <2>9. propagated > propagated' => \A k \in 1 .. propagated : k > propagated' => k > Length'
    BY <1>2, <2>3, <2>4, <2>5
  <2> QED BY <1>1, <1>2, <2>3, <2>4, <2>6, <2>7, <2>8, <2>9
<1> QED BY <1>3, <1>4

(* What was told is told still, and follows still.                          *)
LEMMA ToldStays ==
  ASSUME worlds' = worlds, Base' = Base, NEW n, \A k \in 1 .. n : assignment'[k] = assignment[k]
  PROVE  /\ Told(n)' = Told(n)
         /\ \A l : Forces(Told(n), l)' <=> Forces(Told(n), l)
         /\ Fails(Told(n))' <=> Fails(Told(n))
<1>1. Told(n)' = Told(n)
  BY PartSame DEF Told
<1> QED BY <1>1 DEF Forces, Fails

LEMMA InsertFacts ==
  ASSUME IndInv, Insert \/ Postpone
  PROVE  /\ call.clits \in Seq(Literals) /\ assignment' = assignment \o call.clits
         /\ UNCHANGED <<DL, level, pending, propagated>>
         /\ Length' = Length + Len(call.clits) /\ \A k \in 1 .. Length : assignment'[k] = assignment[k]
         /\ \A k \in 1 .. Len(call.clits) : assignment'[Length + k] = call.clits[k]
         /\ OnLevel(call.clits)
<1>1. PICK lits \in Seq(Literals) : lits = call.clits
  BY DEF IndInv, TypeOK, Calls
<1>2. assignment' = assignment \o lits /\ UNCHANGED <<DL, level, pending, propagated>>
  BY <1>1 DEF Insert, Postpone, New
<1>3. assignment \in Seq(Literals)
  BY DEF IndInv, TypeOK
<1>4. /\ Length' = Length + Len(lits) /\ \A k \in 1 .. Length : assignment'[k] = assignment[k]
      /\ \A k \in 1 .. Len(lits) : assignment'[Length + k] = lits[k]
  BY <1>2, <1>3 DEF Length
<1>5. OnLevel(call.clits)
  <2>1. CASE Insert
    BY <2>1 DEF Insert, Caught, IndInv, Control, AtFinish
  <2>2. CASE Postpone
    BY <2>2, InFilter DEF Postpone, Examined, IndInv
  <2> QED BY <2>1, <2>2
<1> QED BY <1>1, <1>2, <1>4, <1>5

LEMMA DerivedStill ==
  ASSUME Still, Derived, derived' \subseteq derived,
         Deriving' => Deriving /\ UNCHANGED <<call, Depth, Height>>,
         Collecting' => Collecting \/ (Deriving /\ call.place <= Depth)
  PROVE  Derived'
<1>1. PICK p : p = propagated
  OBVIOUS
<1>2. Follows => Follows'
  BY <1>1, StillFacts DEF Follows, Still
<1> QED BY <1>2 DEF Derived

LEMMA DerivedReturned ==
  ASSUME IndInv, Spaces, Types, Derived, Remember \/ AllTold \/ TellLiteral \/ RedoDone
  PROVE  Derived'
<1>1. Still
  BY StillSteps DEF StillStep
<1>2. CASE Remember
  <2>1. pc = "tell" /\ pc' = call.return /\ call' = call /\ call.place \in 1 .. Depth
    BY <1>2 DEF Remember, IndInv, Control, AtTell
  <2>2. derived' \subseteq derived /\ ~Deriving' /\ Deriving
    BY <1>2, <2>1 DEF Deriving, IndInv, TypeOK, Calls, Remember
  <2>3. call.place <= Depth
    BY <2>1, BookFacts DEF IndInv
  <2> QED BY <1>1, <2>2, <2>3, DerivedStill
<1>3. CASE AllTold
  BY <1>3, NothingDerived DEF AllTold, Deriving, IndInv, TypeOK, Calls
<1>4. CASE TellLiteral
  <2>1. pc \in {"tell", "more"} /\ pc' = "undo" /\ UNCHANGED <<call, derived, Depth, Height>>
    BY <1>4 DEF TellLiteral, Imply, book, Depth, Height
  <2> QED BY <1>1, <2>1, DerivedStill DEF Deriving, Collecting
<1>5. CASE RedoDone
  <2>1. pc = "redo" /\ pc' = "finish" /\ UNCHANGED <<call, derived, DL>>
    BY <1>5 DEF RedoDone, trail
  <2> QED BY <1>1, <2>1, DerivedStill DEF Deriving, Collecting
<1> QED BY <1>2, <1>3, <1>4, <1>5

LEMMA DerivedTold ==
  ASSUME IndInv, Spaces, Types, Derived, Redo \/ Each
  PROVE  Derived'
<1>1. /\ propagated + 1 \in 1 .. Length /\ call.oldDL = DL /\ pc \in {"redo", "each"}
      /\ \E rest, next : next \in {"redo", "each"} /\ Tell(assignment[propagated + 1], rest, next)
  BY RedoFacts, EachFacts DEF Redo, Each
<1>2. PICK n : n = propagated + 1
  OBVIOUS
<1>3. /\ propagated' = n
      /\ \/ pc' = "conflict"
         \/ /\ pc' = "tell" /\ call'.place = Height
            /\ derived' \subseteq derived \cup {l \in Literals : Forces(Told(n), l)}
  <2>1. PICK rest, next : Tell(assignment[propagated + 1], rest, next)
    BY <1>1
  <2>2. /\ propagated' = propagated + 1
        /\ \/ SetConflict(Prefix(propagated + 1))
           \/ /\ pc' = "tell"
              /\ call' = [call EXCEPT !.place = Len(spaces), !.return = next, !.clits = rest]
              /\ derived' \subseteq derived \cup {l \in Literals : Forces(Told(propagated + 1), l)}
    BY <1>1, <2>1, TellingFacts
  <2>3. call \in Calls
    BY DEF IndInv, TypeOK
  <2> QED BY <1>2, <2>2, <2>3 DEF SetConflict, Return, Calls, Height
<1>4. CASE pc' = "conflict"
  BY <1>4, NothingDerived DEF Deriving, Collecting
<1>5. CASE pc' # "conflict"
  <2>1. Follows
    BY <1>1 DEF Derived, Collecting
  <2>2. \A l \in derived' : Forces(Told(n), l)
    <3>1. \A l : Forces(Told(propagated), l) => Forces(Told(n), l)
      <4>1. propagated \in Nat /\ n \in Nat /\ propagated <= n
        BY <1>2, BookFacts DEF IndInv
      <4> QED BY <4>1, ToldMore
    <3> QED BY <1>3, <1>5, <2>1, <3>1 DEF Follows
  <2>3. worlds' = worlds /\ Base' = Base /\ assignment' = assignment
    BY WorldsStay, RootStays DEF LooseStep, Redo, Each
  <2>4. Follows'
    BY <1>3, <2>2, <2>3, ToldStays DEF Follows
  <2>5. Height' = Height
    <3>1. spaces' = WithCurrent(spaces, With(CurrentAfter(propagated + 1), {assignment[propagated + 1]}))
      BY <1>1 DEF Tell
    <3>2. assignment[propagated + 1] \in Literals
      BY <1>1, AssignedFacts DEF IndInv
    <3> QED BY <3>1, <3>2, ToldPlaced DEF IndInv, Height
  <2> QED BY <1>3, <1>5, <2>4, <2>5 DEF Derived
<1> QED BY <1>4, <1>5

LEMMA DerivedKept ==
  ASSUME IndInv, Spaces, Types, Derived, LooseStep \/ PropagateRoot
  PROVE  Derived'
<1>1. CASE Remember \/ AllTold \/ TellLiteral \/ RedoDone
  BY <1>1, DerivedReturned
<1>2. CASE Redo \/ Each
  BY <1>2, DerivedTold
<1>3. CASE Arrive
  <2>1. pc = "undo" /\ pc' = jump.resume /\ pc' \in {"search", "old", "more"} /\ UNCHANGED <<call, derived, book>>
    BY <1>3 DEF Arrive, IndInv, Control, AtUndo
  <2>2. CASE pc' # "more"
    BY <2>1, <2>2, NothingDerived DEF Deriving, Collecting
  <2>3. CASE pc' = "more"
    <3>1. UNCHANGED <<assignment, propagated, Depth, Height>>
      BY <2>1 DEF book, Depth, Height
    <3>2. worlds' = worlds /\ Base' = Base
      BY <1>3, WorldsStay, RootStays DEF LooseStep
    <3>3. PICK p : p = propagated
      OBVIOUS
    <3>4. Follows => Follows'
      BY <2>1, <3>1, <3>2, <3>3, ToldStays DEF Follows
    <3> QED BY <2>1, <2>3, <3>1, <3>4 DEF Derived, Deriving, Collecting
  <2> QED BY <2>2, <2>3
<1>4. CASE UndoLevel
  <2>1. /\ pc = "undo" /\ pc' = "undo" /\ UNCHANGED <<jump, call, derived>>
        /\ Length' \in Nat /\ propagated' \in Nat
        /\ \A k \in 1 .. Length' : assignment'[k] = assignment[k]
        /\ call.place \in Nat /\ call.place <= Depth' /\ call.place = Height =>
              Height' = Height /\ propagated' = propagated /\ call.place <= Depth
    BY <1>4, UndoFacts
  <2>2. SUFFICES ASSUME Deriving', call'.place <= Depth' PROVE (call.place = Height /\ Follows)'
    BY <2>1 DEF Derived, Collecting
  <2>3. Deriving /\ call.place \in Nat
    BY <2>1, <2>2 DEF Deriving, IndInv, TypeOK, Calls
  <2>4. call.place <= Depth
    <3>1. Depth' <= Depth /\ Depth' \in Nat /\ Depth \in Nat
      <4>1. CASE DL \in watched
        <5>1. PICK i \in 2 .. Depth : DL = dl[i]
          BY <4>1 DEF IndInv, Book
        <5>2. Depth >= 2 /\ Depth \in Nat
          BY <5>1, BookFacts DEF IndInv
        <5>3. Depth' = Depth - 1
          BY <1>4, <4>1, <5>2, LevelDropped DEF IndInv, UndoLevel
        <5> QED BY <5>2, <5>3
      <4>2. CASE DL \notin watched
        <5>1. Depth' = Depth
          BY <1>4, <4>2 DEF UndoLevel, book, Depth
        <5> QED BY <5>1, BookFacts DEF IndInv
      <4> QED BY <4>1, <4>2
    <3> QED BY <2>1, <2>2, <2>3, <3>1
  <2>5. call.place = Height /\ Follows
    BY <2>3, <2>4 DEF Derived
  <2>6. Height' = Height /\ propagated' = propagated
    BY <2>1, <2>2, <2>3, <2>5
  <2>7. worlds' = worlds /\ Base' = Base
    BY <1>4, WorldsStay, RootStays DEF LooseStep
  <2>8. PICK p : p = propagated
    OBVIOUS
  <2>9. \A k \in 1 .. p : assignment'[k] = assignment[k]
    <3>1. propagated' <= Length'
      <4>1. IndInv'
        BY <1>4, UndoLevelKeeps
      <4> QED BY <4>1 DEF IndInv, Book
    <3> QED BY <2>1, <2>6, <2>8, <3>1
  <2>10. Follows'
    BY <2>1, <2>5, <2>6, <2>7, <2>8, <2>9, ToldStays DEF Follows
  <2> QED BY <2>1, <2>5, <2>6, <2>10
<1>5. CASE Insert
  <2>1. pc = "finish" /\ call.caller = "propagate" /\ pc' = "each" /\ UNCHANGED <<call, derived, DL, propagated>>
    BY <1>5 DEF Insert, Caught
  <2>2. worlds' = worlds /\ Base' = Base
    BY <1>5, WorldsStay, RootStays DEF LooseStep
  <2>3. PICK p : p = propagated
    OBVIOUS
  <2>4. \A k \in 1 .. p : assignment'[k] = assignment[k]
    BY <1>5, <2>3, InsertFacts, BookFacts DEF IndInv
  <2>5. Follows => Follows'
    BY <2>1, <2>2, <2>3, <2>4, ToldStays DEF Follows
  <2> QED BY <2>1, <2>5 DEF Derived, Deriving, Collecting
<1>6. CASE PropagateRoot
  <2>1. PICK lits : /\ Base' = Base \cup lits /\ propagated' = 0 /\ Depth = 1 /\ dl' = dl /\ Height' = 1
                    /\ \/ SetConflict({})
                       \/ /\ pc' = "tell" /\ call' = NoCall
                          /\ derived' \subseteq {l \in Literals : Forces(Base \cup lits, l)}
    BY <1>6, PropagateRootFacts
  <2>2. CASE pc' = "tell"
    <3>1. Told(propagated)' = Base \cup lits
      BY <2>1, PartFacts DEF Told
    <3>2. Follows'
      BY <1>6, <2>1, <2>2, <3>1, WorldsStay DEF Follows, Forces, SetConflict, Return
    <3>3. call'.place = 1
      BY <2>1, <2>2 DEF NoCall, SetConflict, Return
    <3> QED BY <2>1, <2>2, <3>2, <3>3 DEF Derived, Collecting
  <2>3. CASE pc' # "tell"
    BY <2>1, <2>3, NothingDerived DEF SetConflict, Return, Deriving, Collecting
  <2> QED BY <2>2, <2>3
<1>7. CASE CatchUp \/ Finish
  BY <1>7, NothingDerived DEF CatchUp, Finish, Deriving
<1>8. CASE \/ Decide \/ DecideOther \/ Infer \/ Clash \/ PropagateLiteral \/ Resolve \/ GiveUp \/ Propagate \/ ImplyOld
           \/ DropOld \/ RefuteOld \/ OldDone \/ Examine \/ Refute \/ NothingNew \/ Postpone \/ Backjumped \/ EachDone
           \/ Contradict \/ Enumerate \/ HasAnswer \/ Done
  <2>1. ~Deriving' /\ ~Collecting'
    <3>1. CASE Decide \/ DecideOther \/ Infer \/ Clash \/ PropagateLiteral \/ GiveUp \/ Propagate \/ DropOld
      BY <3>1 DEF Decide, DecideOther, Infer, Clash, PropagateLiteral, GiveUp, Propagate, DropOld,
         SetConflict, Return, Deriving, Collecting
    <3>5. CASE Resolve \/ ImplyOld
      <4>1. pc' = "undo" /\ jump'.resume \in {"search", "old"}
        <5>1. CASE Resolve
          BY <5>1, ResolveFacts
        <5>2. CASE ImplyOld
          <6>1. \E e, k : pc' = "undo" /\ jump' = [goal |-> k, lit |-> e.lit,
                                   len |-> IF option.lazy THEN e.len ELSE Free, resume |-> "old"]
            BY <5>2 DEF ImplyOld, Imply
          <6> QED BY <6>1
        <5> QED BY <3>5, <5>1, <5>2
      <4> QED BY <4>1 DEF Deriving, Collecting
    <3>2. CASE RefuteOld \/ OldDone \/ Examine \/ Refute \/ NothingNew \/ Postpone \/ Backjumped \/ EachDone
      BY <3>2 DEF RefuteOld, OldDone, Examine, Refute, NothingNew, Postpone, Backjumped, EachDone,
         SetConflict, Return, Deriving, Collecting
    <3>3. CASE Contradict \/ Enumerate \/ Done
      BY <3>3 DEF Contradict, Enumerate, Done, vars, SetConflict, Return, Deriving, Collecting
    <3>4. CASE HasAnswer
      BY <3>4 DEF HasAnswer, NoCall, Deriving, Collecting
    <3> QED BY <1>8, <3>1, <3>2, <3>3, <3>4, <3>5
  <2> QED BY <2>1, NothingDerived
<1> QED BY <1>1, <1>2, <1>3, <1>4, <1>5, <1>6, <1>7, <1>8 DEF LooseStep, StillStep

-----------------------------------------------------------------------------
(* Reasons.                                                                 *)
LEMMA ReasonStays ==
  ASSUME worlds' = worlds, Base \subseteq Base', NEW n, NEW l, NEW k, Reason(n, l, k),
         Length' \in Nat, n <= Length', \A j \in 1 .. n : assignment'[j] = assignment[j] /\ level'[assignment[j]] <= k
  PROVE  Reason(n, l, k)'
<1>1. n \in 0 .. Length'
  BY DEF Reason
<1>2. \A j \in 1 .. n : level'[assignment'[j]] <= k
  OBVIOUS
<1>3. Forces(Told(n), l)'
  <2>1. Part(assignment', n) = Part(assignment, n)
    BY PartSame
  <2>2. Told(n) \subseteq Told(n)'
    BY <2>1 DEF Told
  <2>3. Forces(Told(n), l)
    BY DEF Reason
  <2>4. PICK more : more = Told(n)'
    OBVIOUS
  <2>5. Forces(more, l)
    BY <2>2, <2>3, <2>4, MoreTold
  <2> QED BY <2>4, <2>5 DEF Forces
<1> QED BY <1>1, <1>2, <1>3 DEF Reason

LEMMA ReasonUndone ==
  ASSUME IndInv, Spaces, UndoLevel, NEW n, NEW l, NEW k \in Int, Reason(n, l, k), k < DL
  PROVE  Reason(n, l, k)'
<1>1. /\ worlds' = worlds /\ Length' \in Nat /\ DL \in Nat
      /\ level' = [x \in Literals |-> IF level[x] = DL THEN Free ELSE level[x]]
      /\ \A j \in 1 .. Length' : assignment'[j] = assignment[j]
      /\ \A j \in 1 .. Length : j <= Length' <=> level[assignment[j]] # DL
  BY UndoFacts
<1>2. Base' = Base
  BY RootStays DEF LooseStep
<1>3. n \in 0 .. Length /\ \A j \in 1 .. n : level[assignment[j]] <= k
  BY DEF Reason
<1>4. \A j \in 1 .. n : j \in 1 .. Length /\ level[assignment[j]] # DL /\ assignment[j] \in Literals
  <2>1. ASSUME NEW j \in 1 .. n PROVE j \in 1 .. Length /\ level[assignment[j]] # DL /\ assignment[j] \in Literals
    <3>1. j \in 1 .. Length
      BY <1>3, BookFacts DEF IndInv
    <3>2. level[assignment[j]] \in 1 .. DL /\ level[assignment[j]] <= k /\ assignment[j] \in Literals
      BY <1>3, <3>1, AssignedFacts DEF IndInv
    <3> QED BY <1>1, <3>1, <3>2
  <2> QED BY <2>1
<1>5. n <= Length'
  <2>1. CASE n = 0
    BY <1>1, <2>1
  <2>2. CASE n # 0
    <3>1. n \in 1 .. n
      BY <1>3, <2>2
    <3> QED BY <1>1, <1>4, <3>1
  <2> QED BY <2>1, <2>2
<1>6. \A j \in 1 .. n : assignment'[j] = assignment[j] /\ level'[assignment[j]] <= k
  BY <1>1, <1>3, <1>4, <1>5
<1> QED BY <1>1, <1>2, <1>5, <1>6, ReasonStays

(* What is assigned to a free literal changes nothing for the others.       *)
LEMMA AssignFacts ==
  ASSUME IndInv, Decide \/ Infer \/ Arrive
  PROVE  \E l \in Literals : /\ IsFree(l) /\ level' = [level EXCEPT ![l] = DL'] /\ pending' = Append(pending, l)
                             /\ DL' \in Nat /\ UNCHANGED <<book, call, propQueue, derived, impliedLits>>
                             /\ Arrive => l = jump.lit
                             /\ Arrive \/ Infer => DL' = DL
                             /\ Decide => DL' = DL + 1
<1>1. CASE Decide
  <2>1. PICK l \in Literals : IsFree(l) /\ Assign(l, DL + 1)
    BY <1>1 DEF Decide
  <2>2. /\ DL' = DL + 1 /\ DL \in Nat /\ pc = "fixpoint" /\ pc' = "search"
        /\ UNCHANGED <<book, call, propQueue, derived, impliedLits>>
    BY <1>1 DEF Decide, IndInv, TypeOK, learnt
  <2>3. level' = [level EXCEPT ![l] = DL'] /\ pending' = Append(pending, l) /\ DL' \in Nat
    BY <2>1, <2>2 DEF Assign
  <2>4. ~Arrive /\ ~Infer
    BY <2>2 DEF Arrive, Infer
  <2> QED BY <2>1, <2>2, <2>3, <2>4
<1>2. CASE Infer
  <2>1. PICK l \in Literals : IsFree(l) /\ Assign(l, DL)
    BY <1>2 DEF Infer
  <2>2. /\ DL' = DL /\ DL \in Nat /\ pc = "search"
        /\ UNCHANGED <<book, call, propQueue, derived, impliedLits>>
    BY <1>2 DEF Infer, IndInv, TypeOK, learnt
  <2> QED BY <1>2, <2>1, <2>2 DEF Assign, Arrive, Decide
<1>3. CASE Arrive
  <2>1. pc = "undo" /\ DL = jump.goal /\ jump.lit \in Literals /\ UNCHANGED <<DL, book, call, propQueue, derived, impliedLits>>
    BY <1>3 DEF Arrive, IndInv, Control, AtUndo
  <2>2. jump.lit # 0 /\ IsFree(jump.lit)
    BY <2>1, Negation DEF IndInv, Control, AtUndo, IsFree, IsTrue, IsFalse, Trail, TypeOK, Free
  <2>3. level' = [level EXCEPT ![jump.lit] = DL] /\ pending' = Append(pending, jump.lit) /\ DL \in Nat
    BY <1>3, <2>2 DEF Arrive, Assign, IndInv, TypeOK
  <2> QED BY <1>3, <2>1, <2>2, <2>3 DEF Decide, Infer
<1> QED BY <1>1, <1>2, <1>3

LEMMA TrueStays ==
  ASSUME IndInv, Decide \/ Infer \/ Arrive
  PROVE  \A l \in Literals : IsTrue(l) => level'[l] = level[l]
BY AssignFacts DEF IsFree, IsTrue, IndInv, TypeOK

LEMMA ReasonKept ==
  ASSUME IndInv, Spaces, Types, LooseStep \/ PropagateRoot, ~UndoLevel, NEW n, NEW l, NEW k, Reason(n, l, k)
  PROVE  Reason(n, l, k)'
<1>1. worlds' = worlds
  BY WorldsStay
<1>2. n \in 0 .. Length /\ Length \in Nat /\ \A j \in 1 .. n : level[assignment[j]] <= k
  BY BookFacts DEF Reason, IndInv
<1>3. CASE StillStep
  BY <1>3, StillSteps, StillFacts
<1>4. CASE Decide \/ Infer \/ Arrive
  <2>1. UNCHANGED <<assignment, Length>> /\ Base' = Base
    BY <1>4, RootStays DEF LooseStep, Decide, Infer, Arrive, book, Length
  <2>2. \A j \in 1 .. n : level'[assignment[j]] <= k
    <3>1. ASSUME NEW j \in 1 .. n PROVE level'[assignment[j]] = level[assignment[j]]
      <4>1. j \in 1 .. Length
        BY <1>2
      <4>2. assignment[j] \in Literals /\ level[assignment[j]] \in 1 .. DL /\ DL \in Nat
        BY <4>1, AssignedFacts, BookFacts DEF IndInv
      <4> QED BY <1>4, <4>2, TrueStays DEF IsTrue, Free
    <3> QED BY <1>2, <3>1
  <2> QED BY <1>1, <1>2, <2>1, <2>2, ReasonStays
<1>5. CASE DecideOther \/ Redo \/ Each \/ Contradict
  <2>1. UNCHANGED <<level, assignment, Length>> /\ Base' = Base
    BY <1>5, RootStays DEF LooseStep, DecideOther, Redo, Each, Contradict, trail, book, Length
  <2> QED BY <1>1, <1>2, <2>1, ReasonStays
<1>6. CASE Postpone \/ Insert
  <2>1. Base' = Base
    BY <1>6, RootStays DEF LooseStep
  <2>2. level' = level /\ \A j \in 1 .. Length : assignment'[j] = assignment[j]
    BY <1>6, InsertFacts
  <2>3. Length' \in Nat /\ Length <= Length'
    <3>1. Length' = Length + Len(call.clits) /\ call.clits \in Seq(Literals)
      BY <1>6, InsertFacts
    <3>2. Len(call.clits) \in Nat
      BY <3>1
    <3> QED BY <1>2, <3>1, <3>2
  <2> QED BY <1>1, <1>2, <2>1, <2>2, <2>3, ReasonStays
<1>7. CASE PropagateRoot
  <2>1. Base \subseteq Base' /\ UNCHANGED <<level, assignment, Length>>
    BY <1>7, PropagateRootFacts DEF Length
  <2> QED BY <1>1, <1>2, <2>1, ReasonStays
<1> QED BY <1>3, <1>4, <1>5, <1>6, <1>7 DEF LooseStep

-----------------------------------------------------------------------------
(* Entries.                                                                 *)
LEMMA SettledCalls ==
  ASSUME IndInv, Spaces, Redo \/ Each \/ Remember \/ AllTold \/ TellLiteral \/ Arrive, Settled'
  PROVE  Settled
<1>1. CASE Redo \/ Each
  <2>1. call.oldDL = DL /\ pc \in {"redo", "each"}
    BY <1>1, InRedoCall, InEachCall DEF Redo, Each
  <2> QED BY <2>1 DEF Settled, Within
<1>2. CASE Remember \/ AllTold
  <2>1. pc \in {"tell", "more"} /\ pc' = call.return /\ UNCHANGED <<call, DL>> /\ call.return \in {"search", "redo", "each"}
    BY <1>2 DEF Remember, AllTold, trail, IndInv, TypeOK, Calls
  <2> QED BY <2>1 DEF Settled, Within
<1>3. CASE TellLiteral
  <2>1. pc \in {"tell", "more"} /\ pc' = "undo" /\ jump'.resume = "more" /\ UNCHANGED <<call, DL>>
    BY <1>3 DEF TellLiteral, Imply, trail
  <2> QED BY <2>1 DEF Settled, Within
<1>4. CASE Arrive
  <2>1. pc = "undo" /\ pc' = jump.resume /\ jump.resume \in {"search", "old", "more"} /\ UNCHANGED <<call, DL>>
    BY <1>4 DEF Arrive, IndInv, Control, AtUndo
  <2> QED BY <2>1 DEF Settled, Within
<1> QED BY <1>1, <1>2, <1>3, <1>4

LEMMA SettledSteps ==
  ASSUME IndInv, Spaces, Types, LooseStep \/ PropagateRoot, ~Decide, ~DecideOther, ~UndoLevel, Settled'
  PROVE  Settled \/ Old = {}
<1>1. CASE Redo \/ Each \/ Remember \/ AllTold \/ TellLiteral \/ Arrive
  BY <1>1, SettledCalls
<1>2. CASE EachDone
  BY <1>2, InEachCall DEF EachDone, Settled, Within
<1>3. CASE RedoDone
  BY <1>3, InRedoCall DEF RedoDone, Settled, Within
<1>4. CASE OldDone
  BY <1>4 DEF OldDone
<1>5. CASE NothingNew \/ Postpone \/ Examine \/ CatchUp \/ HasAnswer \/ Finish \/ Insert
  BY <1>5 DEF NothingNew, Examined, Postpone, Examine, CatchUp, HasAnswer, Finish, Insert, Caught, Settled
<1>6. CASE PropagateRoot
  BY <1>6, PropagateRootFacts DEF SetConflict, Return, Settled, Within, NoCall
<1>7. CASE Infer \/ Clash \/ PropagateLiteral \/ GiveUp \/ Propagate \/ DropOld \/ RefuteOld \/ Refute \/ Backjumped \/ Contradict
  BY <1>7 DEF Infer, Clash, PropagateLiteral, GiveUp, Propagate, DropOld, RefuteOld, Refute, Backjumped, Contradict,
     SetConflict, Return, Settled, Within
<1>8. CASE Resolve
  <2>1. pc' = "undo" /\ jump'.resume = "search"
    BY <1>8, ResolveFacts
  <2> QED BY <2>1 DEF Settled, Within
<1>9. CASE ImplyOld
  <2>1. \E e, k : pc' = "undo" /\ jump' = [goal |-> k, lit |-> e.lit,
                           len |-> IF option.lazy THEN e.len ELSE Free, resume |-> "old"]
    BY <1>9 DEF ImplyOld, Imply
  <2> QED BY <2>1 DEF Settled, Within
<1>10. CASE Enumerate
  BY <1>10, EnumerateFacts DEF Settled, Within
<1>11. CASE Done
  BY <1>11 DEF Done, vars, Settled, Within
<1> QED BY <1>1, <1>2, <1>3, <1>4, <1>5, <1>6, <1>7, <1>8, <1>9, <1>10, <1>11 DEF LooseStep, StillStep

LEMMA EntriesFrame ==
  ASSUME IndInv, Entries, DL' = DL, Settled' => Settled \/ Old = {},
         \A n, l, k : Reason(n, l, k) => Reason(n, l, k)',
         \A e \in impliedLits' : e \in impliedLits \/ (e.level < e.key /\ e.key <= DL /\ Reason(e.len, e.lit, e.level))
  PROVE  Entries'
<1>1. ASSUME NEW e \in impliedLits'
      PROVE  /\ e.level < e.key /\ (e.level <= DL => Reason(e.len, e.lit, e.level)')
             /\ Settled' => e.key <= DL
  <2>1. CASE e \in impliedLits
    <3>1. e.level < e.key /\ (e.level <= DL => Reason(e.len, e.lit, e.level))
      BY <2>1 DEF Entries
    <3>2. Settled => e.key <= DL
      BY <2>1 DEF Entries
    <3>3. Old = {} => e.key <= DL
      <4>1. e.key \in Int /\ DL \in Nat
        BY <2>1 DEF IndInv, TypeOK, Records
      <4> QED BY <2>1, <4>1 DEF Old
    <3> QED BY <3>1, <3>2, <3>3
  <2>2. CASE e.level < e.key /\ e.key <= DL /\ Reason(e.len, e.lit, e.level)
    BY <2>2
  <2> QED BY <2>1, <2>2
<1> QED BY <1>1 DEF Entries, Reason

(* A literal that is derived is explained by what its space was told.       *)
LEMMA DerivedReason ==
  ASSUME IndInv, Spaces, Types, Derived, pc \in {"tell", "more"}, call.place \in 1 .. Depth, NEW l \in derived
  PROVE  Reason(Size, l, Level)
<1>1. Size \in 0 .. Length /\ \A j \in 1 .. Size : level[assignment[j]] <= Level
  BY PlaceLevels DEF IndInv
<1>2. call.place <= Depth
  BY BookFacts DEF IndInv
<1>3. call.place = Height /\ Forces(Told(propagated), l)
  BY <1>2 DEF Derived, Deriving, Follows
<1>4. propagated <= Size
  <2>1. CASE call.place = Depth
    BY <2>1, BookFacts DEF Size, Depth, IndInv
  <2>2. CASE call.place # Depth
    <3>1. propagated <= assLength[Height]
      BY <1>2, <1>3, <2>2, BookFacts DEF Spaces, SpacesInv, Reach, IndInv
    <3> QED BY <1>3, <2>2, <3>1 DEF Size, Depth
  <2> QED BY <2>1, <2>2
<1>5. Size \in Nat /\ propagated \in Nat
  BY <1>1, BookFacts DEF IndInv
<1>6. Forces(Told(Size), l)
  BY <1>3, <1>4, <1>5, ToldMore
<1> QED BY <1>1, <1>6 DEF Reason

LEMMA EntriesKept ==
  ASSUME IndInv, Spaces, Types, Derived, Entries, LooseStep \/ PropagateRoot
  PROVE  Entries'
<1>1. CASE UndoLevel
  <2>1. DL' = DL - 1 /\ DL \in Nat /\ UNCHANGED <<impliedLits, jump, call>> /\ pc = "undo" /\ pc' = "undo"
    BY <1>1, UndoFacts
  <2>2. ~Settled'
    <3>1. call.oldDL \in Nat
      BY DEF IndInv, TypeOK, Calls
    <3>2. Within("redo") \/ Within("each") => call.oldDL >= DL
      BY DEF IndInv, Control, AtRedo, AtEach
    <3>3. Within("redo")' \/ Within("each")' => Within("redo") \/ Within("each")
      BY <2>1 DEF Within
    <3> QED BY <2>1, <3>1, <3>2, <3>3 DEF Settled
  <2>3. ASSUME NEW e \in impliedLits, e.level <= DL - 1
        PROVE  Reason(e.len, e.lit, e.level)'
    <3>1. e.level \in Nat
      BY DEF IndInv, TypeOK, Records
    <3>2. Reason(e.len, e.lit, e.level) /\ e.level < DL /\ e.level \in Int
      BY <2>1, <2>3, <3>1 DEF Entries
    <3> QED BY <1>1, <3>2, ReasonUndone
  <2> QED BY <2>1, <2>2, <2>3 DEF Entries, Reason
<1>2. CASE ~UndoLevel
  <2>1. \A n, l, k : Reason(n, l, k) => Reason(n, l, k)'
    BY <1>2, ReasonKept
  <2>2. CASE Decide \/ DecideOther
    <3>1. DL' = DL + 1 /\ DL \in Nat /\ pc = "fixpoint" /\ UNCHANGED impliedLits
      BY <2>2 DEF Decide, DecideOther, IndInv, TypeOK, learnt
    <3>2. \A e \in impliedLits : e.level < e.key /\ e.key <= DL /\ Reason(e.len, e.lit, e.level) /\ e.key \in Int /\ e.level \in Nat
      BY <3>1 DEF Entries, Settled, IndInv, TypeOK, Records
    <3>3. ASSUME NEW e \in impliedLits'
          PROVE  e.level < e.key /\ Reason(e.len, e.lit, e.level)' /\ e.key <= DL'
      <4>1. e.level < e.key /\ e.key <= DL /\ Reason(e.len, e.lit, e.level) /\ e.key \in Int
        BY <3>1, <3>2
      <4> QED BY <2>1, <3>1, <4>1
    <3> QED BY <3>3 DEF Entries, Reason
  <2>3. CASE ~Decide /\ ~DecideOther
    <3>1. Settled' => Settled \/ Old = {}
      BY <1>2, <2>3, SettledSteps
    <3>2. DL' = DL
      BY <1>2, <2>3, StillSteps, PropagateRootFacts, InsertFacts DEF Still, LooseStep, Infer, Arrive, Redo, Each, Contradict, trail
    <3>3. CASE Remember
      <4>1. pc = "tell" /\ call.place \in 1 .. Depth
        BY <3>3 DEF Remember, IndInv, Control, AtTell
      <4>2. impliedLits' = impliedLits \cup
              {[lit |-> l, key |-> level[l], level |-> Level, len |-> Size] : l \in {k \in derived : level[k] > Level}}
        BY <3>3 DEF Remember
      <4>3. ASSUME NEW l \in derived, level[l] > Level
            PROVE  Level < level[l] /\ level[l] <= DL /\ Reason(Size, l, Level)
        <5>1. l \in Literals /\ Level \in Nat /\ DL \in Nat
          BY <4>1, PlaceFacts DEF IndInv, TypeOK
        <5>2. level[l] \in 0 .. DL \/ level[l] = Free
          BY <5>1 DEF IndInv, Trail
        <5> QED BY <4>1, <4>3, <5>1, <5>2, DerivedReason DEF Free
      <4> QED BY <2>1, <3>1, <3>2, <4>2, <4>3, EntriesFrame
    <3>4. CASE DropOld
      <4>1. PICK e \in Old : impliedLits' = (impliedLits \ {e}) \cup
              IF e.level < DL /\ level[e.lit] > e.level THEN {[e EXCEPT !.key = level[e.lit]]} ELSE {}
        BY <3>4 DEF DropOld, NextOld
      <4>2. e \in impliedLits /\ e \in Records
        BY DEF Old, IndInv, TypeOK
      <4>3. ASSUME e.level < DL, level[e.lit] > e.level
            PROVE  LET f == [e EXCEPT !.key = level[e.lit]]
                   IN  f.level < f.key /\ f.key <= DL /\ Reason(f.len, f.lit, f.level)
        <5>1. e.lit \in Literals /\ e.level \in Nat /\ DL \in Nat /\ e.len \in Nat
          BY <4>2 DEF Records, IndInv, TypeOK
        <5>2. level[e.lit] \in 0 .. DL \/ level[e.lit] = Free
          BY <5>1 DEF IndInv, Trail
        <5>3. Reason(e.len, e.lit, e.level)
          BY <4>2, <4>3, <5>1 DEF Entries
        <5> QED BY <4>2, <4>3, <5>1, <5>2, <5>3 DEF Records, Free
      <4> QED BY <2>1, <3>1, <3>2, <4>1, <4>3, EntriesFrame
    <3>5. CASE ~Remember /\ ~DropOld
      <4>1. impliedLits' \subseteq impliedLits
        <5>1. CASE Propagate
          BY <5>1 DEF Propagate, IndInv, TypeOK
        <5>2. CASE \/ Clash \/ PropagateLiteral \/ Resolve \/ GiveUp \/ ImplyOld \/ RefuteOld \/ OldDone \/ Examine \/ Refute
                   \/ NothingNew \/ CatchUp \/ Finish \/ RedoDone \/ Backjumped \/ EachDone \/ TellLiteral \/ AllTold \/ HasAnswer
          BY <5>2 DEF Clash, PropagateLiteral, Resolve, GiveUp, ImplyOld, RefuteOld, OldDone, Examine, Refute,
             NothingNew, CatchUp, Finish, RedoDone, Backjumped, EachDone, TellLiteral, AllTold, HasAnswer, learnt
        <5>3. CASE Enumerate \/ Done \/ Infer \/ Arrive \/ Redo \/ Each \/ Contradict \/ Postpone \/ Insert \/ PropagateRoot
          BY <5>3 DEF Enumerate, Done, Infer, Arrive, Redo, Each, Contradict, Postpone, Insert, PropagateRoot, learnt, vars
        <5> QED BY <1>2, <2>3, <3>5, <5>1, <5>2, <5>3 DEF LooseStep, StillStep
      <4> QED BY <2>1, <3>1, <3>2, <4>1, EntriesFrame
    <3> QED BY <3>3, <3>4, <3>5
  <2> QED BY <2>2, <2>3
<1> QED BY <1>1, <1>2

-----------------------------------------------------------------------------
(* Positions.                                                               *)
LEMMA LevelsKept ==
  ASSUME IndInv, Spaces, Types, LooseStep \/ PropagateRoot, ~UndoLevel
  PROVE  \A l \in Literals : IsTrue(l) => level'[l] = level[l]
<1>1. CASE StillStep
  BY <1>1, StillSteps DEF Still
<1>2. CASE Decide \/ Infer \/ Arrive
  BY <1>2, TrueStays
<1>3. CASE DecideOther \/ Redo \/ Each \/ Contradict \/ Postpone \/ Insert \/ PropagateRoot
  BY <1>3 DEF DecideOther, Redo, Each, Contradict, Postpone, Insert, PropagateRoot, trail
<1> QED BY <1>1, <1>2, <1>3 DEF LooseStep

LEMMA PositionStays ==
  ASSUME LooseStep \/ PropagateRoot, ~UndoLevel, ~Arrive
  PROVE  UNCHANGED litToAssPosition
<1>1. CASE \/ Clash \/ PropagateLiteral \/ Resolve \/ GiveUp \/ Propagate \/ ImplyOld \/ DropOld \/ RefuteOld \/ OldDone
           \/ Examine \/ Refute
  BY <1>1 DEF Clash, PropagateLiteral, Resolve, GiveUp, Propagate, ImplyOld, DropOld, RefuteOld, OldDone,
     Examine, Refute, learnt
<1>2. CASE \/ NothingNew \/ CatchUp \/ Finish \/ RedoDone \/ Backjumped \/ EachDone \/ Remember \/ TellLiteral
           \/ AllTold \/ HasAnswer \/ Enumerate \/ Done
  BY <1>2 DEF NothingNew, CatchUp, Finish, RedoDone, Backjumped, EachDone, Remember, TellLiteral, AllTold, HasAnswer,
     Enumerate, Done, learnt, vars
<1>3. CASE Decide \/ DecideOther \/ Infer \/ Redo \/ Each \/ Contradict \/ Postpone \/ Insert \/ PropagateRoot
  BY <1>3 DEF Decide, DecideOther, Infer, Redo, Each, Contradict, Postpone, Insert, PropagateRoot, learnt
<1> QED BY <1>1, <1>2, <1>3 DEF LooseStep, StillStep

LEMMA PositionsKept ==
  ASSUME IndInv, Spaces, Types, Entries, Positions, LooseStep \/ PropagateRoot
  PROVE  Positions'
<1>1. CASE UndoLevel
  <2>1. /\ DL \in Nat /\ DL > jump.goal /\ UNCHANGED jump /\ pc = "undo" /\ pc' = "undo"
        /\ level' = [l \in Literals |-> IF level[l] = DL THEN Free ELSE level[l]]
    BY <1>1, UndoFacts
  <2>2. litToAssPosition' = [l \in Literals |-> IF level[l] = DL THEN Free ELSE litToAssPosition[l]]
    BY <1>1 DEF UndoLevel
  <2>3. ASSUME NEW l \in Literals, litToAssPosition'[l] # Free
        PROVE  IsTrue(l)' /\ Reason(litToAssPosition[l], l, level[l])' /\ litToAssPosition'[l] = litToAssPosition[l]
    <3>1. level[l] # DL /\ litToAssPosition'[l] = litToAssPosition[l] /\ level'[l] = level[l]
      BY <2>1, <2>2, <2>3
    <3>2. IsTrue(l) /\ Reason(litToAssPosition[l], l, level[l])
      BY <2>3, <3>1 DEF Positions
    <3>3. level[l] \in 0 .. DL
      BY <3>2 DEF IsTrue, IndInv, Trail
    <3>4. PICK n, k : n = litToAssPosition[l] /\ k = level[l]
      OBVIOUS
    <3>5. k \in Int /\ k < DL /\ Reason(n, l, k)
      BY <2>1, <3>1, <3>2, <3>3, <3>4
    <3>6. Reason(n, l, k)'
      BY <1>1, <3>5, ReasonUndone
    <3> QED BY <3>1, <3>2, <3>4, <3>6 DEF IsTrue, Reason
  <2>4. jump.len # Free => Reason(jump.len, jump.lit, jump.goal)'
    <3>1. SUFFICES ASSUME jump.len # Free PROVE Reason(jump.len, jump.lit, jump.goal)'
      OBVIOUS
    <3>2. PICK n, l, k : n = jump.len /\ l = jump.lit /\ k = jump.goal
      OBVIOUS
    <3>3. k \in Int
      BY <2>1, <3>2 DEF IndInv, Control, AtUndo
    <3>4. Reason(n, l, k)
      BY <2>1, <3>1, <3>2 DEF Positions
    <3>5. Reason(n, l, k)'
      BY <1>1, <2>1, <3>2, <3>3, <3>4, ReasonUndone
    <3> QED BY <2>1, <3>2, <3>5
  <2> QED BY <2>1, <2>3, <2>4 DEF Positions, Reason, IsTrue
<1>2. CASE ~UndoLevel
  <2>1. \A n, l, k : Reason(n, l, k) => Reason(n, l, k)'
    BY <1>2, ReasonKept
  <2>2. \A l \in Literals : IsTrue(l) => level'[l] = level[l]
    BY <1>2, LevelsKept
  <2>3. ASSUME NEW l \in Literals, litToAssPosition[l] # Free
        PROVE  IsTrue(l)' /\ \A n, k : n = litToAssPosition[l] /\ k = level'[l] => Reason(n, l, k)'
    <3>1. IsTrue(l) /\ Reason(litToAssPosition[l], l, level[l]) /\ level'[l] = level[l]
      BY <2>2, <2>3 DEF Positions
    <3> QED BY <2>1, <3>1 DEF IsTrue
  <2>4. SUFFICES /\ \A l \in Literals : litToAssPosition'[l] # Free =>
                      IsTrue(l)' /\ \A n, k : n = litToAssPosition'[l] /\ k = level'[l] => Reason(n, l, k)'
                 /\ pc' = "undo" /\ jump'.len # Free =>
                      \A n, l, k : n = jump'.len /\ l = jump'.lit /\ k = jump'.goal => Reason(n, l, k)'
    BY DEF Positions, Reason
  <2>5. CASE Arrive
    <3>1. /\ pc = "undo" /\ pc' # "undo" /\ jump.lit \in Literals /\ DL = jump.goal /\ DL' = DL
          /\ litToAssPosition' = IF jump.len = Free THEN litToAssPosition ELSE [litToAssPosition EXCEPT ![jump.lit] = jump.len]
      BY <2>5 DEF Arrive, IndInv, Control, AtUndo
    <3>2. level' = [level EXCEPT ![jump.lit] = DL]
      BY <2>5, <3>1, AssignFacts
    <3>3. jump.len # Free => \A n, l, k : n = jump.len /\ l = jump.lit /\ k = DL => Reason(n, l, k)'
      <4>1. jump.len # Free => \A n, l, k : n = jump.len /\ l = jump.lit /\ k = DL => Reason(n, l, k)
        BY <3>1 DEF Positions
      <4> QED BY <2>1, <4>1
    <3>4. level'[jump.lit] = DL /\ DL \in Nat /\ DL # Free
      BY <3>1, <3>2 DEF IndInv, TypeOK, Free
    <3>5. ASSUME NEW l \in Literals, litToAssPosition'[l] # Free
          PROVE  IsTrue(l)' /\ \A n, k : n = litToAssPosition'[l] /\ k = level'[l] => Reason(n, l, k)'
      <4>1. CASE litToAssPosition'[l] = litToAssPosition[l]
        BY <2>3, <3>5, <4>1
      <4>2. CASE l = jump.lit /\ jump.len # Free /\ litToAssPosition'[l] = jump.len
        BY <3>3, <3>4, <4>2 DEF IsTrue
      <4> QED BY <3>1, <4>1, <4>2 DEF Types
    <3> QED BY <3>1, <3>5
  <2>6. CASE ~Arrive
    <3>1. litToAssPosition' = litToAssPosition
      BY <1>2, <2>6, PositionStays
    <3>2. CASE Resolve
      BY <2>3, <3>1, <3>2, ResolveFacts
    <3>3. CASE ImplyOld
      <4>1. PICK e \in Old : /\ Reason(e.len, e.lit, e.level) /\ jump'.lit = e.lit
                             /\ jump'.len = (IF option.lazy THEN e.len ELSE Free) /\ (option.lazy => jump'.goal = e.level)
        BY <3>3, ImplyOldFacts
      <4>2. Reason(e.len, e.lit, e.level)'
        BY <2>1, <4>1
      <4>3. jump'.len # Free => \A n, l, k : n = jump'.len /\ l = jump'.lit /\ k = jump'.goal => Reason(n, l, k)'
        BY <4>1, <4>2
      <4> QED BY <2>3, <3>1, <4>3
    <3>4. CASE TellLiteral
      <4>1. PICK l \in derived : /\ call.place \in 1 .. Depth /\ jump'.lit = l
                                 /\ jump'.len = (IF option.lazy THEN Size ELSE Free) /\ (option.lazy => jump'.goal = Level)
                                 /\ Forces(Told(Size), l)
        BY <3>4, TellLiteralFacts
      <4>2. Reason(Size, l, Level)
        BY <4>1, PlaceLevels DEF Reason, IndInv
      <4>3. PICK n, k : n = Size /\ k = Level
        OBVIOUS
      <4>4. Reason(n, l, k)'
        BY <2>1, <4>2, <4>3
      <4>5. jump'.len # Free => \A m, x, j : m = jump'.len /\ x = jump'.lit /\ j = jump'.goal => Reason(m, x, j)'
        BY <4>1, <4>3, <4>4
      <4> QED BY <2>3, <3>1, <4>5
    <3>5. CASE Done
      <4>1. pc # "undo" /\ UNCHANGED pc
        BY <3>5 DEF Done, vars
      <4> QED BY <2>3, <3>1, <4>1
    <3>6. CASE ~Resolve /\ ~ImplyOld /\ ~TellLiteral /\ ~Done
      BY <1>2, <2>3, <3>1, <3>6, OtherPlaces
    <3> QED BY <3>2, <3>3, <3>4, <3>5, <3>6
  <2> QED BY <2>5, <2>6
<1> QED BY <1>1, <1>2

-----------------------------------------------------------------------------
(* The spaces do not fail, or clasp is about to go back.                    *)
LEMMA GreatestLevel ==
  ASSUME IndInv, Conflicts, pc = "conflict", conflict # {}, propagated >= 1, \A l \in conflict : level[l] <= LastLevel
  PROVE  LevelOf(conflict) <= LastLevel /\ LastLevel \in Int /\ LevelOf(conflict) \in Int
<1> DEFINE S == {level[k] : k \in conflict}
<1>1. \A k \in conflict : k \in Literals /\ level[k] \in Nat /\ level[k] <= DL
  BY DEF Conflicts, TrueLits, IsTrue, IndInv, Trail, TypeOK
<1>2. S \in SUBSET Nat /\ S # {} /\ DL \in Nat /\ \A x \in S : x <= DL
  BY <1>1 DEF IndInv, TypeOK
<1>3. Max(S) \in S
  BY <1>2, Greatest
<1>4. LevelOf(conflict) = Max(S)
  BY DEF LevelOf
<1>5. propagated \in 1 .. Length
  BY BookFacts DEF IndInv
<1>6. LastLevel \in Int
  BY <1>5, AssignedFacts, BookFacts DEF LastLevel, IndInv
<1> QED BY <1>2, <1>3, <1>4, <1>6

LEMMA AliveWhere ==
  ASSUME Alive, pc \notin {"unsat", "conflict", "undo"}
  PROVE  ~Fails(Told(propagated))
BY DEF Alive, TakenBack

LEMMA AliveStill ==
  ASSUME IndInv, Spaces, Types, Conflicts, Alive, StillStep
  PROVE  Alive'
<1>1. propagated' = propagated /\ \A n : Fails(Told(n))' <=> Fails(Told(n))
  <2>1. \A n : Told(n)' = Told(n)
    BY StillSteps, StillFacts
  <2>2. \A lits : Fails(lits)' <=> Fails(lits)
    BY StillSteps, StillFacts
  <2>3. ASSUME NEW n PROVE Fails(Told(n))' <=> Fails(Told(n))
    <3>1. PICK t : t = Told(n)
      OBVIOUS
    <3>2. Told(n)' = t
      BY <2>1, <3>1
    <3>3. Fails(Told(n))' <=> Fails(t)'
      BY <3>2 DEF Fails
    <3> QED BY <2>2, <3>1, <3>3
  <2> QED BY <2>3, StillSteps DEF Still
<1>2. CASE ~Fails(Told(propagated))
  <2>1. PICK p : p = propagated
    OBVIOUS
  <2>2. ~Fails(Told(p))'
    BY <1>1, <1>2, <2>1
  <2>3. ~Fails(Told(propagated))'
    BY <1>1, <2>1, <2>2 DEF Told, Fails
  <2> QED BY <2>3 DEF Alive
<1>3. CASE Fails(Told(propagated))
  <2>1. pc \in {"unsat", "conflict"}
    BY <1>3, StillPlaces, AliveWhere
  <2>2. CASE pc = "unsat"
    <3>1. Done
      BY <2>2 DEF StillStep, Clash, PropagateLiteral, Resolve, GiveUp, Propagate, ImplyOld, DropOld, RefuteOld, OldDone,
         Examine, Refute, NothingNew, Examined, CatchUp, Finish, RedoDone, Backjumped, EachDone, Remember, TellLiteral, AllTold,
         HasAnswer, Enumerate, Caught
    <3> QED BY <2>2, <3>1 DEF Done, vars, Alive
  <2>3. CASE pc = "conflict"
    <3>1. Resolve \/ GiveUp
      BY <2>3 DEF StillStep, Clash, PropagateLiteral, Propagate, ImplyOld, DropOld, RefuteOld, OldDone,
         Examine, Refute, NothingNew, Examined, CatchUp, Finish, RedoDone, Backjumped, EachDone, Remember, TellLiteral, AllTold,
         HasAnswer, Enumerate, Caught, Done
    <3>2. CASE GiveUp
      BY <3>2 DEF GiveUp, Alive
    <3>3. CASE Resolve
      <4>1. LevelOf(conflict) > 0 /\ conflict # {}
        BY <3>3 DEF Resolve, LevelOf
      <4>2. /\ propagated >= 1 /\ ~Fails(Told(propagated - 1))
            /\ \A l \in conflict : level[l] <= LastLevel
        BY <1>3, <2>3, <4>1 DEF Alive, TakenBack
      <4>3. PICK n \in 0 .. DL : n < LevelOf(conflict) /\ pc' = "undo" /\ jump'.goal = n
        BY <3>3, ResolveFacts
      <4>4. LevelOf(conflict) <= LastLevel
        BY <2>3, <4>1, <4>2, GreatestLevel
      <4>5. LastLevel \in Int /\ LevelOf(conflict) \in Int
        BY <2>3, <4>1, <4>2, GreatestLevel
      <4>6. jump'.goal < LastLevel
        BY <4>3, <4>4, <4>5
      <4>7. LastLevel' = LastLevel
        BY StillSteps, StillFacts
      <4>8. PICK p : p = propagated - 1
        OBVIOUS
      <4>9. ~Fails(Told(p))' /\ propagated' - 1 = p
        BY <1>1, <4>2, <4>8
      <4>10. ~Fails(Told(propagated - 1))'
        BY <4>9 DEF Told, Fails
      <4> QED BY <1>1, <4>2, <4>3, <4>6, <4>7, <4>10 DEF Alive, TakenBack
    <3> QED BY <3>1, <3>2, <3>3
  <2> QED BY <2>1, <2>2, <2>3
<1> QED BY <1>2, <1>3

LEMMA ToldOnlyThis ==
  ASSUME NEW n, Fails(Told(propagated))', propagated' = n
  PROVE  Fails(Told(n))'
BY DEF Told, Fails

LEMMA AliveTold ==
  ASSUME IndInv, Spaces, Types, Truths, ~Fails(Told(propagated)), Redo \/ Each
  PROVE  Alive'
<1> DEFINE p == propagated
<1>1. PICK rest, next : propagated + 1 \in 1 .. Length /\ Tell(assignment[propagated + 1], rest, next)
  BY RedoFacts, EachFacts
<1>2. /\ propagated' = propagated + 1
      /\ \/ Fails(Told(propagated + 1)) /\ SetConflict(Prefix(propagated + 1))
         \/ ~Fails(Told(propagated + 1))
  BY <1>1, TellingFacts
<1>3. UNCHANGED <<level, assignment, DL>> /\ worlds' = worlds /\ Base' = Base
  BY WorldsStay, RootStays DEF LooseStep, Redo, Each, trail
<1>4. propagated \in Nat
  BY BookFacts DEF IndInv
<1>5. PICK n : n = propagated + 1
  OBVIOUS
<1>6. Fails(Told(n))' <=> Fails(Told(n))
  BY <1>3, ToldStays
<1>7. CASE ~Fails(Told(n))
  BY <1>2, <1>5, <1>6, <1>7, ToldOnlyThis DEF Alive
<1>8. CASE Fails(Told(n))
  <2>1. SetConflict(Prefix(n)) /\ n \in 1 .. Length
    BY <1>1, <1>2, <1>5, <1>8
  <2>2. /\ Prefix(n) \subseteq TrueLits
        /\ \A l \in Prefix(n) : \E j \in 1 .. n : l = assignment[j]
    BY <2>1, PrefixTrue DEF IndInv
  <2>3. pc' = "conflict" /\ (Prefix(n) = {} => conflict' = {}) /\ (Prefix(n) # {} => conflict' \subseteq Prefix(n))
    <3>1. CASE Prefix(n) = {}
      BY <2>1, <3>1 DEF SetConflict, Return
    <3>2. CASE Prefix(n) # {}
      BY <2>1, <3>2 DEF SetConflict, Return
    <3> QED BY <3>1, <3>2
  <2>4. \A l \in Prefix(n) : level[l] <= level[assignment[n]]
    BY <2>1, <2>2, InOrder DEF IndInv
  <2>5. LastLevel' = level[assignment[n]]
    BY <1>2, <1>3, <1>5 DEF LastLevel
  <2>6. \A l \in conflict' : level'[l] <= LastLevel'
    BY <1>3, <2>3, <2>4, <2>5
  <2>7. PICK m : m = propagated
    OBVIOUS
  <2>8. ~Fails(Told(m))
    BY <2>7
  <2>9. ~Fails(Told(m))'
    BY <1>3, <2>8, ToldStays
  <2>10. propagated' - 1 = m /\ propagated' >= 1
    BY <1>2, <1>4, <2>7
  <2>11. ~Fails(Told(propagated - 1))'
    BY <2>9, <2>10 DEF Told, Fails
  <2> QED BY <2>3, <2>6, <2>10, <2>11 DEF Alive, TakenBack
<1> QED BY <1>7, <1>8

LEMMA AliveFewer ==
  ASSUME ~Fails(Told(propagated)), worlds' = worlds, Base' = Base, propagated \in Nat,
         NEW n \in Nat, propagated' = n, n <= propagated, \A k \in 1 .. n : assignment'[k] = assignment[k]
  PROVE  Alive'
<1>1. ~Fails(Told(n))
  BY ToldMore
<1>2. ~Fails(Told(n))'
  BY <1>1, ToldStays
<1> QED BY <1>2, ToldOnlyThis DEF Alive

LEMMA AliveUndone ==
  ASSUME IndInv, Spaces, Types, Alive, UndoLevel
  PROVE  Alive'
<1>1. /\ worlds' = worlds /\ pc = "undo" /\ pc' = "undo" /\ UNCHANGED jump
      /\ Length' \in Nat /\ Length' <= Length /\ propagated' \in Nat /\ propagated' <= propagated
      /\ level' = [l \in Literals |-> IF level[l] = DL THEN Free ELSE level[l]]
      /\ \A k \in 1 .. Length' : assignment'[k] = assignment[k]
      /\ \A k \in 1 .. Length : k <= Length' <=> level[assignment[k]] # DL
  BY UndoFacts
<1>2. Base' = Base
  BY RootStays DEF LooseStep
<1>3. propagated' <= Length'
  BY UndoLevelKeeps DEF IndInv, Book
<1>4. propagated \in Nat /\ Length \in Nat /\ propagated <= Length
  BY BookFacts DEF IndInv
<1>5. \A k \in 1 .. propagated' : assignment'[k] = assignment[k]
  BY <1>1, <1>3
<1>6. CASE ~Fails(Told(propagated))
  <2>1. PICK n \in Nat : n = propagated'
    BY <1>1
  <2> QED BY <1>1, <1>2, <1>4, <1>5, <1>6, <2>1, AliveFewer
<1>7. CASE Fails(Told(propagated))
  <2>1. propagated >= 1 /\ ~Fails(Told(propagated - 1)) /\ jump.goal < LastLevel
    BY <1>1, <1>7 DEF Alive, TakenBack
  <2>2. PICK n \in Nat : n = propagated - 1
    BY <1>4, <2>1
  <2>3. CASE propagated' = propagated
    <3>1. ~Fails(Told(n))'
      <4>1. \A k \in 1 .. n : assignment'[k] = assignment[k]
        BY <1>4, <1>5, <2>2, <2>3
      <4> QED BY <1>1, <1>2, <2>1, <2>2, <4>1, ToldStays
    <3>2. ~Fails(Told(propagated - 1))'
      BY <2>2, <2>3, <3>1 DEF Told, Fails
    <3>3. propagated \in 1 .. Length /\ propagated \in 1 .. propagated'
      BY <1>4, <2>1, <2>3
    <3>4. level[assignment[propagated]] # DL /\ assignment[propagated] \in Literals
      BY <1>1, <1>3, <2>3, <3>3, AssignedFacts DEF IndInv
    <3>5. LastLevel' = LastLevel
      BY <1>1, <1>5, <2>3, <3>3, <3>4 DEF LastLevel
    <3> QED BY <1>1, <2>1, <2>3, <3>2, <3>5 DEF Alive, TakenBack
  <2>4. CASE propagated' # propagated
    <3>1. PICK m \in Nat : m = propagated'
      BY <1>1
    <3>2. m <= n
      BY <1>1, <1>4, <2>2, <2>4, <3>1
    <3>3. ~Fails(Told(m))
      BY <2>1, <2>2, <3>2, ToldMore
    <3>4. ~Fails(Told(m))'
      BY <1>1, <1>2, <1>5, <3>1, <3>3, ToldStays
    <3> QED BY <3>1, <3>4, ToldOnlyThis DEF Alive
  <2> QED BY <2>3, <2>4
<1> QED BY <1>6, <1>7

LEMMA AliveKept ==
  ASSUME IndInv, Spaces, Types, Truths, Conflicts, Alive, LooseStep \/ PropagateRoot
  PROVE  Alive'
<1>1. worlds' = worlds /\ (LooseStep => Base' = Base) /\ propagated \in Nat /\ propagated <= Length /\ Length \in Nat
  BY WorldsStay, RootStays, BookFacts DEF IndInv
<1>2. PICK n \in Nat : n = propagated
  BY <1>1
<1>3. CASE StillStep
  BY <1>3, AliveStill
<1>4. CASE UndoLevel
  BY <1>4, AliveUndone
<1>5. CASE Redo \/ Each
  <2>1. ~Fails(Told(propagated))
    BY <1>5, AliveWhere DEF Redo, Each
  <2> QED BY <1>5, <2>1, AliveTold
<1>6. CASE Decide \/ DecideOther \/ Infer
  <2>1. ~Fails(Told(propagated)) /\ UNCHANGED <<assignment, propagated>>
    BY <1>6, AliveWhere DEF Decide, DecideOther, Infer, book
  <2> QED BY <1>1, <1>2, <1>6, <2>1, AliveFewer DEF LooseStep
<1>7. CASE Postpone \/ Insert
  <2>1. ~Fails(Told(propagated))
    BY <1>7, AliveWhere DEF Postpone, Insert, Examined, Caught
  <2>2. propagated' = propagated /\ \A k \in 1 .. Length : assignment'[k] = assignment[k]
    BY <1>7, InsertFacts
  <2>3. \A k \in 1 .. n : assignment'[k] = assignment[k]
    BY <1>1, <1>2, <2>2
  <2> QED BY <1>1, <1>2, <1>7, <2>1, <2>2, <2>3, AliveFewer DEF LooseStep
<1>8. CASE Contradict
  <2>1. ~Fails(Told(propagated)) /\ assignment' = assignment
    BY <1>8, AliveWhere DEF Contradict
  <2>2. CASE call.return = "redo"
    <3>1. propagated' = assLength[Height - 1]
      BY <1>8, <2>2 DEF Contradict, Height
    <3>2. call.oldDL = DL
      BY <1>8, <2>2 DEF Contradict, IndInv, Control, AtTell
    <3>3. Height >= 2
      BY <1>8, <2>2, <3>2 DEF Contradict, IndInv, Control, AtRedo, Within
    <3>4. Height \in 1 .. Depth /\ \A i \in 1 .. Depth : assLength[i] \in Nat
      BY BookFacts DEF IndInv
    <3>5. Height - 1 \in 1 .. Depth
      BY <3>3, <3>4, BookFacts DEF IndInv
    <3>6. assLength[Height - 1] \in Nat /\ assLength[Height - 1] <= propagated
      BY <3>3, <3>4, <3>5 DEF Spaces, SpacesInv, Reach
    <3>7. PICK m \in Nat : m = assLength[Height - 1]
      BY <3>6
    <3> QED BY <1>1, <1>8, <2>1, <3>1, <3>6, <3>7, AliveFewer DEF LooseStep
  <2>3. CASE call.return # "redo"
    <3>1. propagated' = propagated
      BY <1>8, <2>3 DEF Contradict
    <3> QED BY <1>1, <1>2, <1>8, <2>1, <3>1, AliveFewer DEF LooseStep
  <2> QED BY <2>2, <2>3
<1>9. CASE Arrive
  <2>1. pc = "undo" /\ DL = jump.goal /\ UNCHANGED <<assignment, propagated>>
    BY <1>9 DEF Arrive, book
  <2>2. ~Fails(Told(propagated))
    <3>1. SUFFICES ASSUME Fails(Told(propagated)) PROVE FALSE
      OBVIOUS
    <3>2. propagated >= 1 /\ jump.goal < LastLevel
      BY <2>1, <3>1 DEF Alive, TakenBack
    <3>3. propagated \in 1 .. Length
      BY <1>1, <3>2
    <3>4. LastLevel \in 1 .. DL /\ DL \in Nat
      BY <3>3, AssignedFacts, BookFacts DEF LastLevel, IndInv
    <3> QED BY <2>1, <3>2, <3>4
  <2> QED BY <1>1, <1>2, <1>9, <2>1, <2>2, AliveFewer DEF LooseStep
<1>10. CASE PropagateRoot
  <2> DEFINE lits == ToSet(call.clits)
  <2>1. /\ Base' = Base \cup lits /\ propagated = 0 /\ propagated' = propagated
        /\ \/ Fails(Base \cup lits) /\ SetConflict({})
           \/ ~Fails(Base \cup lits)
    BY <1>10, PropagateRootFacts
  <2>2. CASE SetConflict({})
    BY <2>2 DEF SetConflict, Return, Alive
  <2>3. CASE ~Fails(Base \cup lits)
    <3>1. PICK b : b = Base \cup lits
      OBVIOUS
    <3>2. Told(propagated)' = b
      BY <2>1, <3>1, PartFacts DEF Told
    <3>3. ~Fails(b)
      BY <2>3, <3>1
    <3>4. ~Fails(Told(propagated))'
      BY <1>1, <3>2, <3>3 DEF Fails
    <3> QED BY <3>4 DEF Alive
  <2> QED BY <2>1, <2>2, <2>3
<1> QED BY <1>3, <1>4, <1>5, <1>6, <1>7, <1>8, <1>9, <1>10 DEF LooseStep

-----------------------------------------------------------------------------
(* What was moved up knows nothing.                                         *)
LEMMA MovesReplaced ==
  ASSUME IndInv, Moves, NEW x, x.kept, spaces' = WithCurrent(spaces, x)
  PROVE  Moves'
<1>1. IsSequence(spaces) /\ Len(spaces) >= 1 /\ Len(spaces) = Height
  BY BookFacts DEF IndInv, Height
<1>2. Height' = Height
  BY <1>1, LastReplaced DEF Height
<1>3. \A i \in 1 .. Height : spaces'[i] = IF i = Height THEN x ELSE spaces[i]
  BY <1>1, ReplacedElements
<1> QED BY <1>2, <1>3 DEF Moves

LEMMA MovesPushed ==
  ASSUME IndInv, Spaces, Moves, PushSpace
  PROVE  Moves'
<1>1. IsSequence(spaces) /\ Len(spaces) >= 1 /\ Len(spaces) = Height /\ Height \in Nat
  BY BookFacts DEF IndInv, Height
<1>2. ASSUME NEW x, x.kept \/ x.lits = {}, NEW y, y.kept \/ y.lits = {}, spaces' = Append(WithCurrent(spaces, x), y)
      PROVE  Moves'
  <2>1. IsSequence(WithCurrent(spaces, x)) /\ Len(WithCurrent(spaces, x)) = Height
    BY <1>1, LastReplaced
  <2>2. \A i \in 1 .. Height : WithCurrent(spaces, x)[i] = IF i = Height THEN x ELSE spaces[i]
    BY <1>1, ReplacedElements
  <2>3. PICK t : t = WithCurrent(spaces, x)
    OBVIOUS
  <2>4. Len(Append(t, y)) = Height + 1 /\ Append(t, y)[Height + 1] = y /\ \A i \in 1 .. Height : Append(t, y)[i] = t[i]
    BY <2>1, <2>3, Appended, AppendedElements
  <2>5. Height' = Height + 1 /\ spaces'[Height + 1] = y
        /\ \A i \in 1 .. Height : spaces'[i] = IF i = Height THEN x ELSE spaces[i]
    BY <1>2, <2>2, <2>3, <2>4 DEF Height
  <2>6. ASSUME NEW i \in 1 .. Height + 1, ~spaces'[i].kept PROVE spaces'[i].lits = {}
    <3>1. CASE i = Height + 1
      BY <1>2, <2>5, <2>6, <3>1
    <3>2. CASE i # Height + 1
      <4>1. i \in 1 .. Height
        BY <1>1, <3>2
      <4> QED BY <1>2, <2>5, <2>6, <4>1 DEF Moves
    <3> QED BY <3>1, <3>2
  <2> QED BY <2>5, <2>6 DEF Moves
<1>3. Current.kept
  BY CurrentFacts, BookFacts DEF Current, Spaces, IndInv
<1>4. Last(spaces).kept \/ Last(spaces).lits = {}
  <2>1. Last(spaces) = spaces[Height] /\ Height \in 1 .. Height
    BY <1>1 DEF Last
  <2> QED BY <2>1 DEF Moves
<1>5. CASE Clones
  BY <1>2, <1>3, <1>5 DEF PushSpace
<1>6. CASE ~Clones
  <2>1. Moved.lits = {}
    BY DEF Moved
  <2> QED BY <1>2, <1>4, <1>6, <2>1 DEF PushSpace
<1> QED BY <1>5, <1>6

LEMMA MovesFront ==
  ASSUME IndInv, Moves, Height >= 2, spaces' = Front(spaces)
  PROVE  Moves'
<1>1. IsSequence(spaces) /\ Len(spaces) = Height /\ Height \in Nat
  BY BookFacts DEF IndInv, Height
<1>2. Height' = Height - 1 /\ \A i \in 1 .. Height - 1 : spaces'[i] = spaces[i]
  BY <1>1, Shortened, FrontElements DEF Height
<1>3. \A i \in 1 .. Height - 1 : i \in 1 .. Height
  BY <1>1
<1> QED BY <1>2, <1>3 DEF Moves

LEMMA MovesTold ==
  ASSUME IndInv, Spaces, Moves, NEW l \in Literals, NEW rest, NEW next, Tell(l, rest, next), propagated + 1 <= Length
  PROVE  Moves'
<1>1. CurrentAfter(propagated + 1) \in AllSpaces /\ CurrentAfter(propagated + 1).kept
  BY CurrentFacts, BookFacts DEF Spaces, IndInv
<1>2. With(CurrentAfter(propagated + 1), {l}).kept
  BY <1>1, WithFacts
<1> QED BY <1>2, MovesReplaced DEF Tell

LEMMA MovesKept ==
  ASSUME IndInv, Spaces, Types, Moves, LooseStep \/ PropagateRoot
  PROVE  Moves'
<1>1. CASE UNCHANGED spaces
  BY <1>1 DEF Moves, Height
<1>2. CASE Propagate \/ Enumerate
  <2>1. Current.kept
    BY CurrentFacts, BookFacts DEF Current, Spaces, IndInv
  <2> QED BY <1>2, <2>1, MovesReplaced DEF Propagate, Enumerate
<1>3. CASE Finish \/ Insert
  <2>1. UNCHANGED spaces \/ PushSpace
    BY <1>3 DEF Finish, Insert
  <2> QED BY <1>1, <2>1, MovesPushed
<1>4. CASE Redo \/ Each
  <2>1. PICK rest, next : propagated + 1 \in 1 .. Length /\ Tell(assignment[propagated + 1], rest, next)
    BY <1>4, RedoFacts, EachFacts
  <2>2. assignment[propagated + 1] \in Literals /\ propagated + 1 <= Length
    BY <2>1, AssignedFacts DEF IndInv
  <2> QED BY <2>1, <2>2, MovesTold
<1>5. CASE Contradict
  <2>1. CASE call.return = "redo"
    <3>1. call.oldDL = DL
      BY <1>5, <2>1 DEF Contradict, IndInv, Control, AtTell
    <3>2. Height >= 2
      BY <1>5, <2>1, <3>1 DEF Contradict, IndInv, Control, AtRedo, Within
    <3> QED BY <1>5, <2>1, <3>2, MovesFront DEF Contradict
  <2>2. CASE call.return # "redo"
    BY <1>1, <1>5, <2>2 DEF Contradict
  <2> QED BY <2>1, <2>2
<1>6. CASE UndoLevel
  <2>1. CASE DL \in watched
    <3>1. PICK i \in 2 .. Depth : DL = dl[i]
      BY <2>1 DEF IndInv, Book
    <3>2. UNCHANGED spaces \/ (spaces' = Front(spaces) /\ Height > Depth - 1)
      BY <1>6, <2>1 DEF UndoLevel, PopLevel, Height, Depth
    <3>3. Depth >= 2 /\ Depth \in Nat /\ Height \in 1 .. Depth
      BY <3>1, BookFacts DEF IndInv
    <3> QED BY <1>1, <3>2, <3>3, MovesFront
  <2>2. CASE DL \notin watched
    BY <1>1, <1>6, <2>2 DEF UndoLevel, book
  <2> QED BY <2>1, <2>2
<1>7. CASE PropagateRoot
  <2>1. IsSequence(spaces) /\ Len(spaces) = 1 /\ spaces[1] \in Roots
    BY <1>7, OnlyRoot, BookFacts DEF PropagateRoot, IndInv
  <2>2. With(Last(spaces), ToSet(New)).kept
    BY <2>1 DEF With, Last, Roots
  <2> QED BY <1>7, <2>2, MovesReplaced DEF PropagateRoot
<1>8. CASE \/ Decide \/ DecideOther \/ Infer \/ Clash \/ PropagateLiteral \/ Resolve \/ GiveUp \/ Arrive
           \/ ImplyOld \/ DropOld \/ RefuteOld \/ OldDone \/ Examine \/ Refute \/ NothingNew \/ Postpone
           \/ CatchUp \/ RedoDone \/ Backjumped \/ EachDone \/ Remember \/ TellLiteral \/ AllTold \/ HasAnswer
  BY <1>1, <1>8 DEF Decide, DecideOther, Infer, Clash, PropagateLiteral, Resolve, GiveUp, Arrive, ImplyOld, DropOld,
     RefuteOld, OldDone, Examine, Refute, NothingNew, Postpone, CatchUp, RedoDone, Backjumped, EachDone, Remember,
     TellLiteral, AllTold, HasAnswer, book
<1>9. CASE Done
  BY <1>1, <1>9 DEF Done, vars, book
<1> QED BY <1>2, <1>3, <1>4, <1>5, <1>6, <1>7, <1>8, <1>9 DEF LooseStep, StillStep

-----------------------------------------------------------------------------
(* What was noted, and what waits.                                          *)
LEMMA Elements ==
  ASSUME NEW S, NEW s \in Seq(S), NEW x
  PROVE  /\ ToSet(<<>>) = {}
         /\ \A y : y \in ToSet(Append(s, x)) <=> y \in ToSet(s) \/ y = x
         /\ s # <<>> => \A y : y \in ToSet(s) <=> y = Head(s) \/ y \in ToSet(Tail(s))
         /\ \A y : y \in ToSet(s) <=> \E k \in 1 .. Len(s) : y = s[k]
<1>1. ToSet(<<>>) = {}
  BY DEF ToSet
<1>2. \A y : y \in ToSet(s) <=> \E k \in 1 .. Len(s) : y = s[k]
  BY DEF ToSet
<1>3. ASSUME NEW y PROVE y \in ToSet(Append(s, x)) <=> y \in ToSet(s) \/ y = x
  <2> DEFINE t == Append(s, x)
  <2>1. /\ DOMAIN t = 1 .. Len(s) + 1 /\ Len(s) \in Nat /\ t[Len(s) + 1] = x
        /\ \A k \in 1 .. Len(s) : t[k] = s[k]
    OBVIOUS
  <2>2. y \in ToSet(t) <=> \E k \in 1 .. Len(s) + 1 : y = t[k]
    <3> HIDE DEF t
    <3> QED BY <2>1 DEF ToSet
  <2> HIDE DEF t
  <2>3. PICK n \in Nat : n = Len(s)
    BY <2>1
  <2>4. 1 .. n + 1 = (1 .. n) \cup {n + 1}
    BY <2>3
  <2>5. y \in ToSet(t) <=> (\E k \in 1 .. n : y = t[k]) \/ y = t[n + 1]
    BY <2>2, <2>3, <2>4
  <2>6. y \in ToSet(t) <=> (\E k \in 1 .. n : y = s[k]) \/ y = x
    BY <2>1, <2>3, <2>5
  <2>7. y \in ToSet(t) <=> y \in ToSet(s) \/ y = x
    BY <1>2, <2>3, <2>6
  <2> QED BY <2>7 DEF t
<1>4. ASSUME s # <<>>, NEW y PROVE y \in ToSet(s) <=> y = Head(s) \/ y \in ToSet(Tail(s))
  <2> DEFINE t == Tail(s)
  <2>1. Len(s) \in Nat /\ Len(s) >= 1 /\ Head(s) = s[1] /\ DOMAIN t = 1 .. Len(s) - 1
    BY <1>4
  <2>2. \A k \in 1 .. Len(s) - 1 : t[k] = s[k + 1]
    BY <1>4
  <2> HIDE DEF t
  <2>3. y \in ToSet(t) <=> \E k \in 1 .. Len(s) - 1 : y = t[k]
    BY <2>1 DEF ToSet
  <2>4. PICK n \in Nat : n = Len(s) /\ n >= 1
    BY <2>1
  <2>5. y \in ToSet(t) <=> \E k \in 1 .. n - 1 : y = s[k + 1]
    BY <2>2, <2>3, <2>4
  <2>6. y \in ToSet(s) <=> \E k \in 1 .. n : y = s[k]
    BY <1>2, <2>4
  <2>7. (\E k \in 1 .. n - 1 : y = s[k + 1]) <=> \E k \in 2 .. n : y = s[k]
    <3>1. ASSUME NEW k \in 1 .. n - 1, y = s[k + 1] PROVE \E j \in 2 .. n : y = s[j]
      <4>1. k + 1 \in 2 .. n
        BY <2>4
      <4> QED BY <3>1, <4>1
    <3>2. ASSUME NEW k \in 2 .. n, y = s[k] PROVE \E j \in 1 .. n - 1 : y = s[j + 1]
      <4>1. k - 1 \in 1 .. n - 1 /\ (k - 1) + 1 = k
        BY <2>4
      <4> QED BY <3>2, <4>1
    <3> QED BY <3>1, <3>2
  <2>8. 1 .. n = {1} \cup (2 .. n)
    BY <2>4
  <2>9. y \in ToSet(s) <=> y = s[1] \/ y \in ToSet(t)
    BY <2>5, <2>6, <2>7, <2>8
  <2> QED BY <2>1, <2>9 DEF t
<1> QED BY <1>1, <1>2, <1>3, <1>4

LEMMA NotedStays ==
  ASSUME worlds' = worlds, Base \subseteq Base', NEW l, Noted(l), level'[l] = level[l],
         \A j \in 1 .. Length : level[assignment[j]] <= level[l] =>
            j \in 1 .. Length' /\ assignment'[j] = assignment[j] /\ level'[assignment[j]] = level[assignment[j]]
  PROVE  Noted(l)'
<1>1. PICK old : old = Base \cup {assignment[j] : j \in {i \in 1 .. Length : level[assignment[i]] <= level[l]}}
  OBVIOUS
<1>2. PICK new : new = (Base \cup {assignment[j] : j \in {i \in 1 .. Length : level[assignment[i]] <= level[l]}})'
  OBVIOUS
<1>3. \A x \in old : x \in new
  <2>1. ASSUME NEW j \in 1 .. Length, level[assignment[j]] <= level[l] PROVE assignment[j] \in new
    <3>1. j \in 1 .. Length' /\ assignment'[j] = assignment[j] /\ level'[assignment'[j]] <= level'[l]
      BY <2>1
    <3>2. assignment'[j] \in new
      BY <1>2, <3>1
    <3> QED BY <3>1, <3>2
  <2>2. \A x \in Base : x \in new
    BY <1>2
  <2> QED BY <1>1, <2>1, <2>2
<1>4. Forces(old, l)
  BY <1>1 DEF Noted
<1>5. Forces(new, l)
  BY <1>3, <1>4, MoreTold
<1>6. Forces(new, l)'
  BY <1>5 DEF Forces
<1> QED BY <1>2, <1>6 DEF Noted, Forces

(* What was told is noted on the last level.                                *)
LEMMA ToldNoted ==
  ASSUME IndInv, NEW lits, lits \subseteq Told(propagated), NEW l, level[l] = DL, Forces(lits, l)
  PROVE  Noted(l)
<1> DEFINE all == Base \cup {assignment[j] : j \in {i \in 1 .. Length : level[assignment[i]] <= level[l]}}
<1>1. ASSUME NEW x \in lits PROVE x \in all
  <2>1. CASE x \in Base
    BY <2>1
  <2>2. CASE x \notin Base
    <3>1. PICK k \in 1 .. propagated : x = assignment[k]
      BY <2>2 DEF Told, Part
    <3>2. k \in 1 .. Length
      BY BookFacts DEF IndInv
    <3>3. level[assignment[k]] <= DL
      BY <3>2, AssignedFacts, BookFacts DEF IndInv
    <3> QED BY <3>1, <3>2, <3>3
  <2> QED BY <2>1, <2>2
<1>2. Forces(all, l)
  <2> HIDE DEF all
  <2>1. lits \subseteq all
    BY <1>1
  <2> QED BY <2>1, MoreTold
<1> QED BY <1>2 DEF Noted

LEMMA KnownNoted ==
  ASSUME IndInv, Spaces, Types, Moves, NEW l \in Known, level[l] = DL
  PROVE  Noted(l)
<1>1. PICK space : space = Last(spaces)
  OBVIOUS
<1>2. space = spaces[Height] /\ Height \in 1 .. Height /\ Height \in Nat
  BY <1>1, BookFacts DEF Last, Height, IndInv
<1>3. space \in AllSpaces /\ space.bound = NoBound
  BY <1>2 DEF Spaces, SpacesInv, SpacesTyped, AllSpaces
<1>4. Forces(space.lits, l)
  BY <1>1, <1>3, AgreeIs DEF Known
<1>5. CASE space.kept
  <2>1. space.lits = Base \cup Part(assignment, propagated)
    BY <1>2, <1>5 DEF Spaces, SpacesInv, SpacesKnow, Knows, Base, Root
  <2> QED BY <1>4, <2>1, ToldNoted DEF Told
<1>6. CASE ~space.kept
  <2>1. space.lits = {}
    BY <1>2, <1>6 DEF Moves
  <2> QED BY <1>4, <2>1, ToldNoted
<1> QED BY <1>5, <1>6

-----------------------------------------------------------------------------
(* Who waits goes on waiting, unless it is noted or a conflict ends it.     *)
LEMMA WaitsFrame ==
  ASSUME UNCHANGED <<pending, propQueue, call, DL>>,
         Within("old")' => Within("old"),
         pc \in {"filter", "finish"} => pc' \in {"filter", "finish"} \/ call.clits = <<>>,
         Within("redo") => Within("redo")' \/ pc' \in {"filter", "finish"} \/ call.oldDL # DL,
         call.clits \in Seq(Literals), NEW l, Waits(l)
  PROVE  Waits(l)'
<1>1. ToSet(call.clits) # {} => call.clits # <<>>
  BY Elements
<1> QED BY <1>1 DEF Waits

LEMMA WaitsElsewhere ==
  ASSUME UNCHANGED <<pending, propQueue>>, ~Within("old")',
         pc \notin {"filter", "finish"}, ~Within("redo") \/ call.oldDL # DL, NEW l, Waits(l)
  PROVE  Waits(l)'
BY DEF Waits

LEMMA WaitsSame ==
  ASSUME IndInv, ImplyOld \/ DropOld \/ Remember \/ TellLiteral \/ AllTold \/ RedoDone \/ Done, NEW l, Waits(l)
  PROVE  Waits(l)'
<1>1. call.clits \in Seq(Literals) /\ call.return \in {"search", "redo", "each"}
  BY DEF IndInv, TypeOK, Calls
<1>2. UNCHANGED <<pending, propQueue, call, DL>>
  BY DEF ImplyOld, DropOld, Remember, TellLiteral, AllTold, RedoDone, Done, trail, vars
<1>3. CASE ImplyOld
  <2>1. \E e, k : pc' = "undo" /\ jump' = [goal |-> k, lit |-> e.lit,
                           len |-> IF option.lazy THEN e.len ELSE Free, resume |-> "old"]
    BY <1>3 DEF ImplyOld, Imply
  <2>2. pc' = "undo" /\ jump'.resume = "old" /\ pc = "old"
    BY <1>3, <2>1 DEF ImplyOld
  <2> QED BY <1>1, <1>2, <2>2, WaitsFrame DEF Within
<1>4. CASE TellLiteral
  <2>1. pc \in {"tell", "more"} /\ pc' = "undo" /\ jump'.resume = "more"
    BY <1>4 DEF TellLiteral, Imply
  <2> QED BY <1>1, <1>2, <2>1, WaitsFrame DEF Within
<1>5. CASE Remember \/ AllTold
  <2>1. pc \in {"tell", "more"} /\ pc' = call.return
    BY <1>5 DEF Remember, AllTold
  <2> QED BY <1>1, <1>2, <2>1, WaitsFrame DEF Within
<1>6. CASE RedoDone
  <2>1. pc = "redo" /\ pc' = "finish"
    BY <1>6 DEF RedoDone
  <2> QED BY <1>1, <1>2, <2>1, WaitsFrame DEF Within
<1>7. CASE DropOld \/ Done
  <2>1. UNCHANGED <<pc, jump>>
    BY <1>7 DEF DropOld, Done, vars
  <2> QED BY <1>1, <1>2, <2>1, WaitsFrame DEF Within
<1> QED BY <1>3, <1>4, <1>5, <1>6, <1>7

LEMMA WaitsStill ==
  ASSUME IndInv, Spaces, Types, Conflicts, Moves, Answering, StillStep, NEW l \in Literals, level[l] = DL, Waits(l) \/ Ending
  PROVE  Waits(l)' \/ Ending' \/ Noted(l) \/ pc' = "unsat"
<1>1. pc # "undo"
  BY StillPlaces
<1>2. /\ pending \in Seq(Literals) /\ propQueue \in Seq(Literals) /\ call.clits \in Seq(Literals)
      /\ DL \in Nat /\ call.oldDL \in Nat /\ ToSet(<<>>) = {}
  BY Elements DEF IndInv, TypeOK, Calls
<1>3. CASE Clash \/ RefuteOld \/ Refute
  BY <1>3 DEF Clash, RefuteOld, Refute, SetConflict, Return, Ending
<1>4. CASE GiveUp
  BY <1>4 DEF GiveUp
<1>5. CASE Resolve
  <2>1. PICK n \in 0 .. DL : n < LevelOf(conflict) /\ pc' = "undo" /\ jump'.goal = n
    BY <1>5, ResolveFacts
  <2>2. LevelOf(conflict) <= DL /\ LevelOf(conflict) \in Int
    <3> DEFINE S == {level[k] : k \in conflict}
    <3>1. \A k \in conflict : level[k] \in Nat /\ level[k] <= DL
      BY <1>5 DEF Resolve, Conflicts, TrueLits, IsTrue, IndInv, Trail, TypeOK
    <3>2. S \in SUBSET Nat /\ \A x \in S : x <= DL
      BY <3>1
    <3>3. conflict # {} => Max(S) \in S
      BY <1>2, <3>2, Greatest
    <3> QED BY <1>2, <3>2, <3>3 DEF LevelOf
  <2>3. DL' = DL
    BY <1>5 DEF Resolve
  <2> QED BY <1>2, <2>1, <2>2, <2>3 DEF Ending
<1>6. CASE PropagateLiteral
  <2>1. pc = "search" /\ pc' = "search" /\ pending # <<>> /\ propQueue' = Append(propQueue, Head(pending))
        /\ pending' = Tail(pending)
    BY <1>6 DEF PropagateLiteral
  <2>2. l \in ToSet(pending) \/ l \in ToSet(propQueue)
    BY <1>1, <2>1 DEF Waits, Ending, Within
  <2>3. l \in ToSet(pending') \/ l \in ToSet(propQueue')
    <3>1. PICK x : x = Head(pending)
      OBVIOUS
    <3>2. \A y : y \in ToSet(Append(propQueue, x)) <=> y \in ToSet(propQueue) \/ y = x
      BY <1>2, Elements
    <3>3. \A y : y \in ToSet(pending) <=> y = x \/ y \in ToSet(Tail(pending))
      BY <1>2, <2>1, <3>1, Elements
    <3> QED BY <2>1, <2>2, <3>1, <3>2, <3>3
  <2>4. ~Within("old")'
    BY <2>1 DEF Within
  <2> QED BY <2>3, <2>4 DEF Waits
<1>7. CASE Propagate
  <2>1. pc = "search" /\ UNCHANGED <<pending, propQueue, DL>>
    BY <1>7 DEF Propagate, IndInv, Control, Places, trail
  <2>2. pc' = "conflict" \/ (pc' = "old" /\ call'.oldDL = DL)
    <3>1. CASE Failed(Current)
      BY <1>7, <3>1 DEF Propagate, SetConflict, Return
    <3>2. CASE ~Failed(Current)
      BY <1>7, <3>2 DEF Propagate, NoCall, IndInv, TypeOK
    <3> QED BY <3>1, <3>2
  <2>3. l \in ToSet(pending) \/ l \in ToSet(propQueue)
    BY <1>1, <2>1 DEF Waits, Ending, Within
  <2> QED BY <1>2, <2>1, <2>2, <2>3 DEF Waits, Ending
<1>8. CASE ImplyOld \/ DropOld \/ Remember \/ TellLiteral \/ AllTold \/ RedoDone \/ Done
  <2>1. CASE Ending
    <3>1. Done
      BY <1>1, <1>8, <2>1 DEF Ending, ImplyOld, DropOld, Remember, TellLiteral, AllTold, RedoDone
    <3>2. pc # "conflict"
      BY <3>1 DEF Done
    <3> QED BY <1>1, <2>1, <3>2 DEF Ending
  <2>2. CASE ~Ending
    BY <1>8, <2>2, WaitsSame
  <2> QED BY <2>1, <2>2
<1>9. CASE OldDone
  <2>1. /\ pc = "old" /\ call.clits = <<>> /\ UNCHANGED <<pending, DL>>
        /\ \/ call.oldDL > DL /\ pc' = "search"
           \/ call.oldDL = DL /\ pc' = "filter" /\ UNCHANGED <<propQueue, call>>
    BY <1>2, <1>9 DEF OldDone, Return, trail, IndInv, Control, AtOld, Within
  <2> QED BY <1>2, <2>1 DEF Waits, Ending, Within
<1>10. CASE Examine
  <2>1. /\ pc = "filter" /\ pc' = "filter" /\ propQueue # <<>> /\ propQueue' = Tail(propQueue) /\ UNCHANGED <<pending, DL>>
        /\ call' = IF Head(propQueue) \in Known THEN call ELSE [call EXCEPT !.clits = Append(@, Head(propQueue))]
    BY <1>10 DEF Examine, trail
  <2>2. l \in ToSet(pending) \/ l \in ToSet(propQueue) \/ l \in ToSet(call.clits)
    BY <2>1 DEF Waits, Ending
  <2>3. PICK x : x = Head(propQueue)
    OBVIOUS
  <2>4. \A y : y \in ToSet(propQueue) <=> y = x \/ y \in ToSet(Tail(propQueue))
    BY <1>2, <2>1, <2>3, Elements
  <2>5. \A y : y \in ToSet(Append(call.clits, x)) <=> y \in ToSet(call.clits) \/ y = x
    BY <1>2, Elements
  <2>6. ~Within("old")'
    BY <2>1 DEF Within
  <2>7. CASE x \in Known
    <3>1. l = x => Noted(l)
      BY <2>7, KnownNoted
    <3> QED BY <2>1, <2>2, <2>3, <2>4, <2>6, <2>7, <3>1 DEF Waits
  <2>8. CASE x \notin Known
    <3>1. call'.clits = Append(call.clits, x)
      BY <2>1, <2>3, <2>8 DEF IndInv, TypeOK, Calls
    <3>2. l \in ToSet(pending') \/ l \in ToSet(propQueue') \/ l \in ToSet(call'.clits)
      <4>1. PICK c : c = call'.clits
        OBVIOUS
      <4>2. \A y : y \in ToSet(c) <=> y \in ToSet(call.clits) \/ y = x
        BY <2>5, <3>1, <4>1
      <4> QED BY <2>1, <2>2, <2>4, <4>1, <4>2
    <3> QED BY <2>1, <2>6, <3>2 DEF Waits
  <2> QED BY <2>7, <2>8
<1>11. CASE NothingNew
  <2>1. pc = "filter" /\ call.clits = <<>> /\ UNCHANGED <<pending, propQueue>> /\ pc' \in {"search", "fixpoint"}
    BY <1>11 DEF NothingNew, Examined, New, Return, trail
  <2> QED BY <1>2, <2>1 DEF Waits, Ending, Within
<1>12. CASE CatchUp
  <2>1. /\ pc = "filter" /\ pc' = "finish" /\ UNCHANGED <<pending, propQueue, DL>>
        /\ call' = [NoCall EXCEPT !.clits = New, !.oldDL = DL]
    BY <1>12 DEF CatchUp, Examined, trail
  <2>2. call'.clits = call.clits
    BY <2>1 DEF NoCall, New
  <2> QED BY <2>1, <2>2 DEF Waits, Ending, Within
<1>13. CASE Finish
  <2>1. /\ pc = "finish" /\ pc' = "redo" /\ UNCHANGED <<pending, propQueue, DL>> /\ call.oldDL = DL
        /\ \E n : call' = [call EXCEPT !.stop = n]
    BY <1>13 DEF Finish, trail, IndInv, Control, AtFinish
  <2>2. call'.clits = call.clits /\ call'.oldDL = call.oldDL
    BY <2>1 DEF IndInv, TypeOK, Calls
  <2> QED BY <2>1, <2>2 DEF Waits, Ending, Within
<1>14. CASE Backjumped \/ EachDone \/ HasAnswer
  <2>1. /\ UNCHANGED <<pending, propQueue>> /\ pc \in {"redo", "each", "fixpoint"} /\ (pc = "redo" => call.oldDL # DL)
        /\ pc' \in {"search", "fixpoint", "finish"}
    BY <1>2, <1>14 DEF Backjumped, EachDone, HasAnswer, Return, trail
  <2>2. Waits(l)
    BY <2>1 DEF Ending
  <2> QED BY <2>1, <2>2, WaitsElsewhere DEF Within
<1>15. CASE Enumerate
  <2>1. pc' \in {"model", "conflict"} /\ Asked /\ call.clits = <<>> /\ pc = "finish" /\ UNCHANGED <<pending, propQueue>>
    BY <1>15, EnumerateFacts DEF Answering, Enumerate, Caught, trail
  <2> QED BY <1>2, <2>1 DEF Waits, Ending, Within
<1> QED BY <1>3, <1>4, <1>5, <1>6, <1>7, <1>8, <1>9, <1>10, <1>11, <1>12, <1>13, <1>14, <1>15 DEF StillStep

LEMMA NotedKept ==
  ASSUME IndInv, Spaces, Types, LooseStep \/ PropagateRoot, ~UndoLevel, NEW l \in Literals, IsTrue(l), Noted(l)
  PROVE  Noted(l)'
<1>1. CASE StillStep
  BY <1>1, StillSteps, StillFacts
<1>2. CASE ~StillStep
  <2>1. worlds' = worlds
    BY WorldsStay
  <2>2. Base \subseteq Base'
    BY RootStays, PropagateRootFacts
  <2>3. \A k \in Literals : IsTrue(k) => level'[k] = level[k]
    BY LevelsKept
  <2>4. Length \in Nat /\ Length' \in Nat /\ Length <= Length' /\ \A j \in 1 .. Length : assignment'[j] = assignment[j]
    <3>1. Length \in Nat
      BY BookFacts DEF IndInv
    <3>2. CASE Postpone \/ Insert
      <4>1. /\ Length' = Length + Len(call.clits) /\ call.clits \in Seq(Literals)
            /\ \A j \in 1 .. Length : assignment'[j] = assignment[j]
        BY <3>2, InsertFacts
      <4>2. Len(call.clits) \in Nat
        BY <4>1
      <4> QED BY <3>1, <4>1, <4>2
    <3>3. CASE ~Postpone /\ ~Insert
      <4>1. UNCHANGED assignment
        BY <1>2, <3>3 DEF LooseStep, Decide, DecideOther, Infer, Arrive, Redo, Each, Contradict, PropagateRoot, book
      <4> QED BY <3>1, <4>1 DEF Length
    <3> QED BY <3>2, <3>3
  <2>5. ASSUME NEW j \in 1 .. Length
        PROVE  j \in 1 .. Length' /\ assignment'[j] = assignment[j] /\ level'[assignment[j]] = level[assignment[j]]
    <3>1. assignment[j] \in Literals /\ level[assignment[j]] \in 1 .. DL /\ DL \in Nat
      BY AssignedFacts, BookFacts DEF IndInv
    <3>2. IsTrue(assignment[j])
      BY <3>1 DEF IsTrue, Free
    <3> QED BY <2>3, <2>4, <3>1, <3>2
  <2>6. level'[l] = level[l]
    BY <2>3
  <2> QED BY <2>1, <2>2, <2>5, <2>6, NotedStays
<1> QED BY <1>1, <1>2

(* What is appended to the assignment is noted.                             *)
LEMMA InsertNoted ==
  ASSUME IndInv, Spaces, Insert \/ Postpone, NEW l \in Literals, l \in ToSet(call.clits)
  PROVE  Noted(l)'
<1>1. /\ call.clits \in Seq(Literals) /\ Length' = Length + Len(call.clits) /\ level' = level
      /\ \A k \in 1 .. Len(call.clits) : assignment'[Length + k] = call.clits[k]
  BY InsertFacts
<1>2. PICK k \in 1 .. Len(call.clits) : l = call.clits[k]
  <2>1. PICK s \in Seq(Literals) : s = call.clits
    BY <1>1
  <2>2. \A y : y \in ToSet(s) <=> \E k \in 1 .. Len(s) : y = s[k]
    BY Elements
  <2>3. \E k \in 1 .. Len(s) : l = s[k]
    BY <2>1, <2>2
  <2> QED BY <2>1, <2>3
<1>3. Length \in Nat /\ Len(call.clits) \in Nat
  BY <1>1, BookFacts DEF IndInv
<1>4. Length + k \in 1 .. Length' /\ assignment'[Length + k] = l
  BY <1>1, <1>2, <1>3
<1>5. level'[l] \in Int
  BY <1>1 DEF IndInv, TypeOK
<1>6. PICK lits : lits = (Base \cup {assignment[j] : j \in {i \in 1 .. Length : level[assignment[i]] <= level[l]}})'
  OBVIOUS
<1>7. l \in lits
  <2>1. PICK n : n = Length + k
    OBVIOUS
  <2>2. n \in 1 .. Length' /\ assignment'[n] = l /\ level'[assignment'[n]] <= level'[l]
    BY <1>4, <1>5, <2>1
  <2> QED BY <1>6, <2>2
<1>8. Forces(lits, l)'
  BY <1>7 DEF Forces
<1> QED BY <1>6, <1>8 DEF Noted, Forces

LEMMA AllNotedUndone ==
  ASSUME IndInv, Spaces, AllNoted, UndoLevel
  PROVE  AllNoted'
<1>1. /\ pc = "undo" /\ worlds' = worlds /\ DL \in Nat /\ Length' \in Nat
      /\ level' = [l \in Literals |-> IF level[l] = DL THEN Free ELSE level[l]]
      /\ \A k \in 1 .. Length' : assignment'[k] = assignment[k]
      /\ \A k \in 1 .. Length : k <= Length' <=> level[assignment[k]] # DL
  BY UndoFacts
<1>2. Base' = Base
  BY RootStays DEF LooseStep
<1>3. ASSUME NEW l \in Literals, level'[l] # Free PROVE Noted(l)'
  <2>1. level[l] # DL /\ level'[l] = level[l] /\ level[l] # Free
    BY <1>1, <1>3
  <2>2. Noted(l) /\ level[l] \in 0 .. DL
    BY <1>1, <2>1 DEF AllNoted, TrueLits, IsTrue, IndInv, Trail
  <2>3. ASSUME NEW j \in 1 .. Length, level[assignment[j]] <= level[l]
        PROVE  j \in 1 .. Length' /\ assignment'[j] = assignment[j] /\ level'[assignment[j]] = level[assignment[j]]
    <3>1. assignment[j] \in Literals /\ level[assignment[j]] \in 1 .. DL
      BY AssignedFacts DEF IndInv
    <3>2. level[assignment[j]] # DL
      BY <1>1, <2>1, <2>2, <2>3, <3>1
    <3>3. j \in 1 .. Length'
      BY <1>1, <3>2
    <3> QED BY <1>1, <3>1, <3>2, <3>3
  <2> QED BY <1>1, <1>2, <2>1, <2>2, <2>3, NotedStays
<1> QED BY <1>3 DEF AllNoted, TrueLits, IsTrue

LEMMA AllNotedKept ==
  ASSUME IndInv, Spaces, Types, Conflicts, Moves, Answering, AllNoted, LooseStep \/ PropagateRoot
  PROVE  AllNoted'
<1>1. CASE UndoLevel
  BY <1>1, AllNotedUndone
<1>2. CASE StillStep
  <2>1. level' = level /\ DL' = DL /\ TrueLits' = TrueLits
    BY <1>2, StillSteps, StillFacts DEF Still
  <2>2. pc = "unsat" => pc' = "unsat"
    BY <1>2 DEF StillStep, Clash, PropagateLiteral, Resolve, GiveUp, Propagate, ImplyOld, DropOld, RefuteOld, OldDone,
       Examine, Refute, NothingNew, Examined, CatchUp, Finish, RedoDone, Backjumped, EachDone, Remember, TellLiteral, AllTold,
       HasAnswer, Enumerate, Caught, Done, vars
  <2>3. ASSUME pc # "unsat", pc' # "unsat", NEW l \in TrueLits
        PROVE  Noted(l)' \/ (level'[l] = DL' /\ (Waits(l)' \/ Ending'))
    <3>1. l \in Literals /\ IsTrue(l)
      BY DEF TrueLits
    <3>2. Noted(l) => Noted(l)'
      BY <1>2, <3>1, StillSteps, StillFacts
    <3>3. Noted(l) \/ (level[l] = DL /\ (Waits(l) \/ Ending))
      BY <2>3 DEF AllNoted
    <3> QED BY <1>2, <2>1, <2>3, <3>1, <3>2, <3>3, WaitsStill
  <2> QED BY <2>1, <2>2, <2>3 DEF AllNoted
<1>3. CASE ~UndoLevel /\ ~StillStep
  <2>1. pc # "unsat" /\ pc # "conflict"
    BY <1>3 DEF LooseStep, Decide, DecideOther, Infer, Arrive, Redo, Each, Contradict, Postpone, Insert, PropagateRoot,
       Examined, Caught
  <2>2. \A l \in Literals : IsTrue(l) /\ Noted(l) => Noted(l)'
    BY <1>3, NotedKept
  <2>3. \A l \in Literals : IsTrue(l) => level'[l] = level[l]
    BY <1>3, LevelsKept
  <2>4. \A l \in Literals : IsTrue(l) => Noted(l) \/ (level[l] = DL /\ (Waits(l) \/ Ending))
    BY <2>1 DEF AllNoted, TrueLits
  <2>5. ~Ending
    <3>1. CASE Arrive
      BY <2>1, <3>1 DEF Ending, Arrive, IndInv, TypeOK
    <3>2. CASE ~Arrive
      <4>1. pc # "undo"
        BY <1>3, <3>2 DEF LooseStep, Decide, DecideOther, Infer, Redo, Each, Contradict, Postpone, Insert, PropagateRoot,
           Examined, Caught
      <4> QED BY <2>1, <4>1 DEF Ending
    <3> QED BY <3>1, <3>2
  <2>6. pending \in Seq(Literals) /\ call.clits \in Seq(Literals) /\ DL \in Nat /\ call.oldDL \in Nat /\ ToSet(<<>>) = {}
    BY Elements DEF IndInv, TypeOK, Calls
  <2>7. CASE Decide \/ DecideOther
    <3>1. pc = "fixpoint" /\ pending = <<>> /\ propQueue = <<>>
      BY <2>7 DEF Decide, DecideOther, IndInv, Control, AtFixpoint
    <3>2. \A l \in Literals : IsTrue(l) => Noted(l)'
      BY <2>2, <2>4, <2>5, <2>6, <3>1 DEF Waits, Within
    <3>3. CASE Decide
      <4>1. PICK k \in Literals : level' = [level EXCEPT ![k] = DL'] /\ pending' = Append(pending, k)
        BY <3>3, AssignFacts
      <4>2. k \in ToSet(pending') /\ level'[k] = DL'
        BY <2>6, <4>1, Elements DEF IndInv, TypeOK
      <4>3. \A l \in Literals : IsTrue(l)' => IsTrue(l) \/ l = k
        BY <4>1 DEF IsTrue, IndInv, TypeOK
      <4> QED BY <3>2, <4>2, <4>3 DEF AllNoted, TrueLits, Waits
    <3>4. CASE DecideOther
      <4>1. level' = level
        BY <3>4 DEF DecideOther
      <4> QED BY <3>2, <4>1 DEF AllNoted, TrueLits, IsTrue
    <3> QED BY <2>7, <3>3, <3>4
  <2>8. CASE Infer \/ Arrive
    <3>1. PICK k \in Literals : /\ level' = [level EXCEPT ![k] = DL'] /\ pending' = Append(pending, k)
                                /\ UNCHANGED <<propQueue, call, DL>>
      BY <2>8, AssignFacts
    <3>2. /\ k \in ToSet(pending') /\ level'[k] = DL'
          /\ \A l : l \in ToSet(pending) => l \in ToSet(pending')
      BY <2>6, <3>1, Elements DEF IndInv, TypeOK
    <3>3. \A l \in Literals : IsTrue(l)' => IsTrue(l) \/ l = k
      BY <3>1 DEF IsTrue, IndInv, TypeOK
    <3>4. /\ Within("old")' => Within("old")
          /\ Within("redo") => Within("redo")'
          /\ pc \notin {"filter", "finish"}
      <4>1. CASE Infer
        BY <4>1 DEF Infer, Within
      <4>2. CASE Arrive
        <5>1. pc = "undo" /\ pc' = jump.resume /\ jump.resume \in {"search", "old", "more"} /\ call.return # "old"
          BY <4>2 DEF Arrive, IndInv, Control, AtUndo, TypeOK, Calls
        <5> QED BY <3>1, <5>1 DEF Within
      <4> QED BY <2>8, <4>1, <4>2
    <3>5. \A l : Waits(l) => Waits(l)'
      BY <3>1, <3>2, <3>4 DEF Waits
    <3>6. \A l \in Literals : IsTrue(l) => Noted(l)' \/ (level'[l] = DL' /\ Waits(l)')
      BY <2>2, <2>3, <2>4, <2>5, <3>1, <3>5
    <3>7. Waits(k)'
      BY <3>2 DEF Waits
    <3> QED BY <3>2, <3>3, <3>6, <3>7 DEF AllNoted, TrueLits
  <2>9. CASE Redo \/ Each \/ Contradict
    <3>1. UNCHANGED <<DL, level, pending, propQueue>>
      BY <2>9 DEF Redo, Each, Contradict, trail
    <3>2. Ending' \/ \A l : Waits(l) => Waits(l)'
      <4>1. CASE Redo \/ Each
        <5>1. PICK rest, next : /\ propagated + 1 \in 1 .. Length /\ Tell(assignment[propagated + 1], rest, next)
                                /\ \/ pc = "redo" /\ rest = call.clits /\ next = "redo"
                                   \/ pc = "each" /\ next = "each"
          BY <4>1, RedoFacts, EachFacts DEF Redo, Each
        <5>2. \/ pc' = "conflict"
              \/ pc' = "tell" /\ call' = [call EXCEPT !.place = Len(spaces), !.return = next, !.clits = rest]
          BY <5>1, TellingFacts DEF SetConflict, Return
        <5>3. CASE pc' = "conflict"
          BY <5>3 DEF Ending
        <5>4. CASE pc' = "tell" /\ call' = [call EXCEPT !.place = Len(spaces), !.return = next, !.clits = rest]
          <6>1. call'.return = next /\ call'.clits = rest /\ call'.oldDL = call.oldDL
            BY <5>4 DEF IndInv, TypeOK, Calls
          <6>2. ~Within("old")'
            BY <5>1, <5>4, <6>1 DEF Within
          <6> QED BY <3>1, <5>1, <5>4, <6>1, <6>2 DEF Waits, Within
        <5> QED BY <5>2, <5>3, <5>4
      <4>2. CASE Contradict
        BY <4>2 DEF Contradict, SetConflict, Return, Ending
      <4> QED BY <2>9, <4>1, <4>2
    <3> QED BY <2>2, <2>4, <2>5, <3>1, <3>2 DEF AllNoted, TrueLits, IsTrue
  <2>10. CASE Postpone \/ Insert
    <3>1. UNCHANGED <<DL, level, pending>> /\ pc \in {"filter", "finish"} /\ propQueue = <<>>
      BY <2>10, InsertFacts DEF Postpone, Insert, Examined, Caught, IndInv, Control, AtFinish
    <3>2. ASSUME NEW l \in Literals, IsTrue(l), ~Noted(l)'
          PROVE  Waits(l)' /\ level'[l] = DL'
      <4>1. level[l] = DL /\ Waits(l)
        BY <2>2, <2>4, <2>5, <3>2
      <4>2. l \notin ToSet(call.clits)
        BY <2>10, <3>2, InsertNoted
      <4>3. l \in ToSet(pending)
        BY <2>6, <3>1, <4>1, <4>2 DEF Waits
      <4> QED BY <3>1, <4>1, <4>3 DEF Waits
    <3> QED BY <3>1, <3>2 DEF AllNoted, TrueLits, IsTrue
  <2>11. CASE PropagateRoot
    <3> DEFINE lits == ToSet(call.clits)
    <3>1. Base' = Base \cup lits /\ UNCHANGED <<DL, level, pending>>
      BY <2>11, PropagateRootFacts
    <3>2. pc = "filter" /\ propQueue = <<>>
      BY <2>11 DEF PropagateRoot, Examined
    <3>3. ASSUME NEW l \in Literals, IsTrue(l), ~Noted(l)'
          PROVE  Waits(l)' /\ level'[l] = DL'
      <4>1. level[l] = DL /\ Waits(l)
        BY <2>2, <2>4, <2>5, <3>3
      <4>2. l \notin lits
        <5>1. SUFFICES ASSUME l \in Base' PROVE FALSE
          BY <3>1
        <5> QED BY <3>3, <5>1 DEF Noted, Forces
      <4>3. l \in ToSet(pending)
        BY <2>6, <3>2, <4>1, <4>2 DEF Waits
      <4> QED BY <3>1, <4>1, <4>3 DEF Waits
    <3> QED BY <3>1, <3>3 DEF AllNoted, TrueLits, IsTrue
  <2> QED BY <1>3, <2>7, <2>8, <2>9, <2>10, <2>11 DEF LooseStep
<1> QED BY <1>1, <1>2, <1>3

-----------------------------------------------------------------------------
(* Answers.                                                                 *)
LEMMA EitherWay ==
  ASSUME Total, NEW l \in Literals
  PROVE  IsTrue(l) \/ IsTrue(-l)
<1>1. PICK a \in Atoms : l = a \/ l = -a
  BY DEF Literals
<1>2. IsTrue(a) \/ IsTrue(-a)
  BY DEF Total, IsFree, IsFalse, IsTrue
<1>3. a \in Nat /\ -(-a) = a
  BY CspAssumption
<1> QED BY <1>1, <1>2, <1>3

LEMMA AskedBefore ==
  ASSUME IndInv, Spaces, Types, LooseStep \/ PropagateRoot, ~HasAnswer, ~Arrive, Asked'
  PROVE  /\ Asked /\ UNCHANGED <<pending, call.clits, level>>
<1>1. call.oldDL \in Nat /\ DL \in Nat /\ call.return \in {"search", "redo", "each"}
  BY DEF IndInv, TypeOK, Calls
<1>2. ~UndoLevel
  <2>1. SUFFICES ASSUME UndoLevel PROVE FALSE
    OBVIOUS
  <2>2. DL' = DL - 1 /\ UNCHANGED <<jump, call>> /\ pc = "undo" /\ pc' = "undo"
    BY <2>1, UndoFacts
  <2>3. Within("redo") /\ call.oldDL = DL - 1
    BY <2>2 DEF Asked, Within
  <2> QED BY <1>1, <2>3 DEF IndInv, Control, AtRedo
<1>3. CASE Remember \/ AllTold
  <2>1. pc \in {"tell", "more"} /\ pc' = call.return /\ UNCHANGED <<call, DL, level, pending>>
    BY <1>3 DEF Remember, AllTold, trail
  <2> QED BY <1>1, <2>1 DEF Asked, Within
<1>4. CASE TellLiteral
  <2>1. pc \in {"tell", "more"} /\ pc' = "undo" /\ jump'.resume = "more" /\ UNCHANGED <<call, DL, level, pending>>
    BY <1>4 DEF TellLiteral, Imply, trail
  <2> QED BY <2>1 DEF Asked, Within
<1>5. CASE RedoDone
  <2>1. pc = "redo" /\ pc' = "finish" /\ UNCHANGED <<call, DL, level, pending>>
    BY <1>5 DEF RedoDone, trail
  <2> QED BY <2>1 DEF Asked, Within
<1>6. CASE Done
  BY <1>6 DEF Done, vars, trail, Asked, Within
<1>7. CASE Finish
  <2>1. /\ pc = "finish" /\ pc' = "redo" /\ UNCHANGED <<pending, level, DL>>
        /\ \E n : call' = [call EXCEPT !.stop = n]
    BY <1>7 DEF Finish, trail
  <2>2. call'.clits = call.clits /\ call'.oldDL = call.oldDL /\ call'.caller = call.caller
    BY <2>1 DEF IndInv, TypeOK, Calls
  <2> QED BY <2>1, <2>2 DEF Asked
<1>8. CASE Redo \/ Each
  <2>1. PICK rest, next : /\ propagated + 1 \in 1 .. Length /\ Tell(assignment[propagated + 1], rest, next)
                          /\ \/ pc = "redo" /\ rest = call.clits /\ next = "redo"
                             \/ pc = "each" /\ next = "each"
    BY <1>8, RedoFacts, EachFacts DEF Redo, Each
  <2>2. \/ pc' = "conflict"
        \/ pc' = "tell" /\ call' = [call EXCEPT !.place = Len(spaces), !.return = next, !.clits = rest]
    BY <2>1, TellingFacts DEF SetConflict, Return
  <2>3. pc' = "tell" /\ call' = [call EXCEPT !.place = Len(spaces), !.return = next, !.clits = rest]
    BY <2>2 DEF Asked, Within
  <2>4. call'.return = next /\ call'.clits = rest /\ call'.oldDL = call.oldDL /\ call'.caller = call.caller
    BY <2>3 DEF IndInv, TypeOK, Calls
  <2>5. next = "redo"
    BY <2>1, <2>3, <2>4 DEF Asked, Within
  <2>6. UNCHANGED <<DL, level, pending>>
    BY <1>8 DEF Redo, Each, trail
  <2> QED BY <2>1, <2>4, <2>5, <2>6 DEF Asked, Within
<1>9. CASE ImplyOld
  <2>1. \E e, k : pc' = "undo" /\ jump' = [goal |-> k, lit |-> e.lit,
                           len |-> IF option.lazy THEN e.len ELSE Free, resume |-> "old"]
    BY <1>9 DEF ImplyOld, Imply
  <2> QED BY <2>1 DEF Asked, Within
<1>10. CASE Resolve
  BY <1>10, ResolveFacts DEF Asked, Within
<1>11. CASE CatchUp
  BY <1>11 DEF CatchUp, Asked, NoCall
<1>12. CASE Decide \/ DecideOther \/ Infer \/ Clash \/ PropagateLiteral \/ GiveUp \/ DropOld \/ RefuteOld \/ OldDone \/ Refute
  BY <1>12 DEF Decide, DecideOther, Infer, Clash, PropagateLiteral, GiveUp, DropOld, RefuteOld, OldDone, Refute,
     SetConflict, Return, Asked, Within
<1>13. CASE Propagate
  BY <1>13 DEF Propagate, SetConflict, Return, Asked, Within, IndInv, TypeOK
<1>14. CASE Examine \/ NothingNew \/ Backjumped \/ EachDone \/ Contradict \/ Postpone \/ Insert
  BY <1>14 DEF Examine, NothingNew, Backjumped, EachDone, Contradict, Postpone, Insert, SetConflict, Return, Asked, Within
<1>15. CASE Enumerate
  BY <1>15, EnumerateFacts DEF Asked, Within
<1>16. CASE PropagateRoot
  BY <1>16, PropagateRootFacts DEF SetConflict, Return, NoCall, Asked
<1> QED BY <1>2, <1>3, <1>4, <1>5, <1>6, <1>7, <1>8, <1>9, <1>10, <1>11, <1>12, <1>13, <1>14, <1>15, <1>16
        DEF LooseStep, StillStep

LEMMA AnsweringKept ==
  ASSUME IndInv, Spaces, Types, Answering, LooseStep \/ PropagateRoot
  PROVE  Answering'
<1>1. CASE HasAnswer
  <2>1. call' = [NoCall EXCEPT !.oldDL = DL, !.caller = "hasAnswer"] /\ pending = <<>> /\ Total /\ UNCHANGED <<pending, level>>
    BY <1>1 DEF HasAnswer, Total, IndInv, Control, AtFixpoint, trail
  <2>2. call'.clits = <<>> /\ Total'
    BY <2>1 DEF NoCall, Total, IsFree, IsTrue, IsFalse
  <2> QED BY <2>1, <2>2 DEF Answering
<1>2. CASE Arrive
  <2>1. pc = "undo" /\ pc' = jump.resume /\ jump.resume \in {"search", "old", "more"} /\ UNCHANGED <<call, DL>>
    BY <1>2 DEF Arrive, IndInv, Control, AtUndo
  <2>2. Asked' => Total
    BY <2>1 DEF Asked, Within, Answering
  <2>3. PICK l \in Literals : IsFree(l)
    BY <1>2, AssignFacts
  <2>4. ~Total
    BY <2>3, EitherWay DEF IsFree, IsFalse, IsTrue
  <2> QED BY <2>2, <2>4 DEF Answering
<1>3. CASE ~HasAnswer /\ ~Arrive
  <2>1. Asked' => Asked /\ UNCHANGED <<pending, call.clits, level>>
    BY <1>3, AskedBefore
  <2>2. level' = level /\ Total => Total'
    BY DEF Total, IsFree, IsTrue, IsFalse
  <2> QED BY <2>1, <2>2 DEF Answering
<1> QED BY <1>1, <1>2, <1>3

(* All that is true follows from what Gecode was told when it has an answer.*)
LEMMA AnsweredKept ==
  ASSUME IndInv, Spaces, Types, AllNoted, Answering, Answered, LooseStep \/ PropagateRoot
  PROVE  Answered'
<1>1. CASE Enumerate
  <2>1. SUFFICES ASSUME pc' = "model" PROVE \E w \in worlds' : w.real /\ w.lits = TrueLits'
    BY DEF Answered
  <2>2. Asked /\ propQueue = <<>> /\ \E w \in worlds : w.real /\ Told(Length) \subseteq w.lits
    BY <1>1, <2>1, EnumerateFacts
  <2>3. PICK w \in worlds : w.real /\ Told(Length) \subseteq w.lits
    BY <2>2
  <2>4. pc = "finish" /\ pending = <<>> /\ call.clits = <<>> /\ Total /\ ToSet(<<>>) = {}
    <3>1. ToSet(<<>>) = {}
      BY DEF ToSet
    <3>2. pc = "finish"
      BY <1>1 DEF Enumerate, Caught
    <3> QED BY <2>2, <3>1, <3>2 DEF Answering
  <2>5. ASSUME NEW l \in TrueLits PROVE l \in w.lits
    <3>1. Noted(l)
      BY <2>2, <2>4 DEF AllNoted, Waits, Ending
    <3>2. PICK lits : lits = Base \cup {assignment[j] : j \in {i \in 1 .. Length : level[assignment[i]] <= level[l]}}
      OBVIOUS
    <3>3. lits \subseteq Told(Length)
      BY <3>2 DEF Told, Part
    <3> QED BY <2>3, <3>1, <3>2, <3>3 DEF Noted, Forces
  <2>6. ASSUME NEW l \in w.lits PROVE l \in TrueLits
    <3>1. l \in Literals /\ -l \notin w.lits /\ -l \in Literals
      BY WorldFacts, Negation
    <3>2. IsTrue(l) \/ IsTrue(-l)
      BY <2>4, <3>1, EitherWay
    <3> QED BY <2>5, <3>1, <3>2 DEF TrueLits
  <2>7. worlds' = worlds /\ TrueLits' = TrueLits
    BY <1>1, StillSteps, StillFacts DEF Still, StillStep
  <2> QED BY <2>3, <2>5, <2>6, <2>7
<1>2. CASE ~Enumerate
  <2>1. CASE Done
    BY <2>1 DEF Done, vars, theory, trail, Answered, TrueLits, IsTrue
  <2>2. CASE ~Done
    <3>1. pc' # "model"
      <4>1. CASE Remember \/ AllTold
        BY <4>1 DEF Remember, AllTold, IndInv, TypeOK, Calls
      <4>2. CASE ImplyOld \/ TellLiteral
        BY <4>2 DEF ImplyOld, TellLiteral, Imply
      <4>3. CASE Decide \/ DecideOther \/ Infer \/ Clash \/ PropagateLiteral \/ GiveUp \/ DropOld \/ RefuteOld \/ OldDone \/ Refute
        BY <4>3 DEF Decide, DecideOther, Infer, Clash, PropagateLiteral, GiveUp, DropOld, RefuteOld, OldDone, Refute,
           SetConflict, Return
      <4>4. CASE Examine \/ NothingNew \/ Backjumped \/ EachDone \/ Contradict \/ Postpone \/ Insert \/ HasAnswer \/ RedoDone
        BY <4>4 DEF Examine, NothingNew, Backjumped, EachDone, Contradict, Postpone, Insert, HasAnswer, RedoDone, SetConflict, Return
      <4>5. CASE Propagate \/ CatchUp \/ Finish \/ Redo \/ Each \/ PropagateRoot \/ Resolve
        BY <4>5 DEF Propagate, CatchUp, Finish, Redo, Each, PropagateRoot, Resolve, Tell, SetConflict, Return
      <4>6. CASE UndoLevel \/ Arrive
        BY <4>6 DEF UndoLevel, Arrive, IndInv, Control, AtUndo
      <4> QED BY <1>2, <2>2, <4>1, <4>2, <4>3, <4>4, <4>5, <4>6 DEF LooseStep, StillStep
    <3> QED BY <3>1 DEF Answered
  <2> QED BY <2>1, <2>2
<1> QED BY <1>1, <1>2

-----------------------------------------------------------------------------
(* The invariant.                                                           *)
LEMMA FactsInit == Init => Facts
<1> SUFFICES ASSUME Init PROVE Facts
  OBVIOUS
<1>1. /\ worlds \in Theories /\ level = [l \in Literals |-> Free] /\ litToAssPosition = [l \in Literals |-> Free]
      /\ best = NoBound /\ impliedLits = {} /\ assignment = <<>> /\ propagated = 0 /\ dl = <<0>>
      /\ derived = Closure(Root) /\ pc = (IF Failed(Root) THEN "unsat" ELSE "tell") /\ call = NoCall
  BY DEF Init
<1>2. /\ spaces[1] = Space({}, NoBound) /\ Height = 1 /\ Depth = 1 /\ Length = 0
  BY DEF Init, Height, Depth, Length
<1>3. Root.kept /\ Root.lits = {} /\ Root.bound = NoBound /\ Base = {}
  BY <1>2 DEF Root, Base, Space
<1>4. Types
  BY <1>1 DEF Types, Free
<1>5. /\ Failed(Root) <=> Fails(Told(propagated))
      /\ \A l \in derived : Forces(Told(propagated), l)
  <2>1. Told(propagated) = {}
    BY <1>1, <1>3, PartFacts DEF Told
  <2>2. PICK space : space = Root
    OBVIOUS
  <2>3. Failed(space) <=> Fails(space.lits)
    BY <1>3, <1>4, <2>2, AgreeIs
  <2>4. \A l : l \in Closure(space) => Forces(space.lits, l)
    BY <1>3, <1>4, <2>2, AgreeIs
  <2> QED BY <1>1, <1>3, <2>1, <2>2, <2>3, <2>4
<1>6. Truths
  BY <1>1, <1>3 DEF Truths, Free
<1>7. Conflicts
  <2>1. Failed(Root) => Impossible({})
    <3>1. Told(propagated) = {}
      BY <1>1, <1>3, PartFacts DEF Told
    <3> QED BY <1>5, <3>1 DEF Fails, Impossible
  <2> QED BY <1>1, <2>1 DEF Conflicts
<1>8. Derived
  BY <1>1, <1>2, <1>5 DEF Derived, Deriving, Collecting, Follows, NoCall
<1>9. Entries /\ Positions
  BY <1>1 DEF Entries, Positions
<1>10. Alive
  BY <1>1, <1>5 DEF Alive
<1>11. Moves
  BY <1>2, <1>3 DEF Moves, Root
<1>12. AllNoted
  BY <1>1 DEF AllNoted, TrueLits, IsTrue
<1>13. Answering /\ Answered
  BY <1>1 DEF Answering, Asked, Answered, NoCall
<1> QED BY <1>4, <1>6, <1>7, <1>8, <1>9, <1>10, <1>11, <1>12, <1>13 DEF Facts

LEMMA FactsSame ==
  ASSUME Facts, UNCHANGED vars
  PROVE  Facts'
<1>1. /\ UNCHANGED <<worlds, option, DL, level, pending, watched, conflict, jump, propQueue, assignment, dl, assLength>>
      /\ UNCHANGED <<spaces, propagated, derived, impliedLits, litToAssPosition, best, pc, call>>
  BY DEF vars, theory, trail, book, learnt, optimum
<1>2. UNCHANGED <<Base, Length, Height, Depth, TrueLits>> /\ \A n : Told(n)' = Told(n)
  BY <1>1 DEF Base, Root, Length, Height, Depth, TrueLits, IsTrue, Told
<1>3. Types' /\ Truths' /\ Conflicts' /\ Moves' /\ Answered'
  BY <1>1, <1>2 DEF Facts, Types, Truths, Certain, Conflicts, Impossible, Moves, Answered
<1>4. Derived'
  BY <1>1, <1>2 DEF Facts, Derived, Deriving, Collecting, Follows, Forces, Told
<1>5. Entries' /\ Positions'
  BY <1>1, <1>2 DEF Facts, Entries, Positions, Reason, Settled, Within, IsTrue, Forces, Told
<1>6. Alive'
  BY <1>1, <1>2 DEF Facts, Alive, TakenBack, Fails, LastLevel, Told
<1>7. AllNoted' /\ Answering'
  BY <1>1, <1>2 DEF Facts, AllNoted, Noted, Forces, Waits, Ending, Within, Answering, Asked, Total, IsFree, IsTrue, IsFalse
<1> QED BY <1>3, <1>4, <1>5, <1>6, <1>7 DEF Facts

LEMMA FactsStep == ASSUME IndInv, Spaces, Facts, [Next]_vars PROVE Facts'
<1>1. CASE UNCHANGED vars
  BY <1>1, FactsSame
<1>2. CASE Next
  <2>1. LooseStep \/ PropagateRoot
    BY <1>2, AllSteps
  <2>2. Types' /\ Truths' /\ Conflicts' /\ Derived' /\ Entries'
    BY <2>1, TypesKept, TruthsKept, ConflictsKept, DerivedKept, EntriesKept DEF Facts
  <2>3. Positions' /\ Alive' /\ Moves'
    BY <2>1, PositionsKept, AliveKept, MovesKept DEF Facts
  <2>4. AllNoted' /\ Answering' /\ Answered'
    BY <2>1, AllNotedKept, AnsweringKept, AnsweredKept DEF Facts
  <2> QED BY <2>2, <2>3, <2>4 DEF Facts
<1> QED BY <1>1, <1>2

LEMMA FactsInvariant == Spec => []InvFacts
<1>1. Init => InvFacts
  BY InitTrue, SpacesInit, FactsInit DEF InvFacts
<1>2. InvFacts /\ [Next]_vars => InvFacts'
  BY StepKeeps, SpacesStep, FactsStep, OptionStays DEF InvFacts
<1> QED BY <1>1, <1>2, PTL DEF Spec

(* What the facts say.                                                      *)
LEMMA ConflictFacts == ASSUME IndInv, Spaces, Facts, ~option.optimize PROVE ConflictHolds
<1> USE DEF Facts
<1>1. ConflictIsTrue
  BY DEF Conflicts, ConflictIsTrue
<1>2. pc = "conflict" => Solutions(conflict) = {}
  BY SolutionsAre DEF Conflicts
<1>3. pc = "search" => ~Failed(Current)
  BY AliveWhere, PropagateFacts
<1>4. pc # "call"
  BY DEF IndInv, Control, Places
<1> QED BY <1>1, <1>2, <1>3, <1>4 DEF ConflictHolds

LEMMA ReasonExplains ==
  ASSUME IndInv, Types, NEW n, NEW l \in Literals, NEW k, Reason(n, l, k)
  PROVE  Explains(n, l, k)
<1>1. n \in 0 .. Length /\ Forces(Told(n), l) /\ Length \in Nat
  BY BookFacts DEF Reason, IndInv
<1>2. n <= Len(assignment)
  BY <1>1 DEF Length
<1>3. /\ Prefix(n) \subseteq TrueLits /\ Base \cup Prefix(n) = Told(n)
      /\ \A x \in Prefix(n) : \E j \in 1 .. n : x = assignment[j]
  BY <1>1, PrefixTrue DEF IndInv
<1>4. Prefix(n) \subseteq UpTo(k)
  BY <1>3 DEF UpTo, Reason
<1>5. PICK space : space = Space(Root.lits \cup Prefix(n), best)
  OBVIOUS
<1>6. space.bound = NoBound /\ space.lits = Told(n)
  BY <1>3, <1>5 DEF Space, Types, Base
<1>7. l \in Closure(space)
  BY <1>1, <1>6, AgreeIs
<1> QED BY <1>2, <1>4, <1>5, <1>7 DEF Explains

LEMMA ReasonFacts == ASSUME IndInv, Facts PROVE ReasonsHold
<1>1. ASSUME NEW l \in Literals, litToAssPosition[l] # Free
      PROVE  IsTrue(l) /\ Explains(litToAssPosition[l], l, level[l])
  BY <1>1, ReasonExplains DEF Facts, Positions
<1>2. ASSUME NEW e \in impliedLits, e.level <= DL
      PROVE  Explains(e.len, e.lit, e.level)
  <2>1. e.lit \in Literals /\ Reason(e.len, e.lit, e.level)
    BY <1>2 DEF Facts, Entries, IndInv, TypeOK, Records
  <2> QED BY <2>1, ReasonExplains DEF Facts
<1> QED BY <1>1, <1>2 DEF ReasonsHold

LEMMA AnswerFacts == ASSUME IndInv, Facts, ~option.optimize PROVE AnswersRight
BY SolutionsAre DEF Facts, Answered, Conflicts, AnswersRight

(* A conflict that is set for clasp is true and is one, and propagate() is  *)
(* never called with a space that has failed, when nothing is minimized.    *)
THEOREM ConflictsCorrect == Spec => [](~option.optimize => ConflictHolds)
<1>1. InvFacts => (~option.optimize => ConflictHolds)
  BY ConflictFacts DEF InvFacts
<1> QED BY <1>1, FactsInvariant, PTL

(* The prefix that was noted for a literal by its length is still its       *)
(* reason, and so is that of the better reasons that wait, whenever clasp   *)
(* asks for it.                                                             *)
THEOREM ReasonsCorrect == Spec => [](~option.optimize => ReasonsHold)
<1>1. InvFacts => (~option.optimize => ReasonsHold)
  BY ReasonFacts DEF InvFacts
<1> QED BY <1>1, FactsInvariant, PTL

(* An answer is a solution with just the literals that are true, and when   *)
(* the search stops without one there is none.                              *)
THEOREM AnswersCorrect == Spec => [](~option.optimize => AnswersRight)
<1>1. InvFacts => (~option.optimize => AnswersRight)
  BY AnswerFacts DEF InvFacts
<1> QED BY <1>1, FactsInvariant, PTL
=============================================================================
