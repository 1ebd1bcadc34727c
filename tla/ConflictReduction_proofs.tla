---------------------- MODULE ConflictReduction_proofs ----------------------
(* Proofs about ConflictReduction: for every theory and every length, what  *)
(* a variant returns is still a conflict, and the variants that are called  *)
(* irreducible return nothing that could be dropped.                        *)
(*                                                                          *)
(* The argument: the literals taken over never fail alone and always fail   *)
(* with those that are left; the clone has the taken ones and those of the  *)
(* rest that were passed, and does not fail.  A literal is taken when it    *)
(* makes the clone fail, so without it nothing does that comes after.       *)
EXTENDS ConflictReduction, TLAPS

(* What may still be taken. *)
Left ==
    IF method \in Linear THEN from .. to
    ELSE IF method \in Ranges THEN 1 .. at
    ELSE Literals \ (IF method \in Clones THEN kept ELSE done)

(* What the clone has beside the literals taken. *)
Passed ==
    IF method \in Forward THEN from .. at - 1
    ELSE IF method \in Linear THEN at + 1 .. to
    ELSE done \ kept

Spared == IF last THEN {Length} ELSE {}

Working == phase \in {"clone", "scan"}

Typed == TypeOK /\ theory \in Theories

AtStart ==
    /\ IsReason => ~last
    /\ phase = "start" => result = {} /\ from = 1 /\ to = Length /\ Failed(Literals \cup Extra)
    /\ phase = "clone" => method \in Clones

Progress == Working => original = result \cup Extra /\ ~Failed(original) /\ Failed(original \cup Left)

Scanning ==
    phase = "scan" =>
        /\ method \in Linear => at \in from .. to
        /\ method \in Ranges => at \in 1 .. Length
        /\ method \in Connected => at \in 0 .. Length /\ kept \subseteq done
        /\ method \in Clones => tester = original \cup Passed /\ ~Failed(tester)

Needed == Working /\ method \in Clones => \A i \in result \ Spared : ~Failed((original \cup Left) \ {i})

Finished == ResultFails /\ Irreducible

Inv == Typed /\ AtStart /\ Progress /\ Scanning /\ Needed /\ Finished

Kinds ==
    /\ method \in Linear \/ method \in Ranges \/ method \in Connected
    /\ method \in Linear => method \in Clones /\ method \notin Ranges /\ method \notin Connected
    /\ method \in Ranges => method \notin Clones /\ method \notin Connected /\ method \notin Linear
    /\ method \in Connected => method \notin Linear /\ method \notin Ranges /\ method \notin Forward
    /\ method \in Forward => method \in Linear

------------------------------------------------------------------------------
LEMMA MethodKinds ==
  ASSUME method \in Methods
  PROVE  Kinds
BY ReductionAssumption DEF Kinds, Linear, Ranges, Connected, Clones, Forward

LEMMA Consistent ==
  ASSUME theory \in Theories
  PROVE  \A w \in theory : w.true \cap w.false = {}
BY ReductionAssumption

(* A literal that is derived adds nothing to what fails. *)
LEMMA DerivedAddsNothing ==
  ASSUME NEW S, NEW T, NEW i, IsTrue(S, i), Failed(S \cup T)
  PROVE  Failed(S \cup (T \ {i}))
<1> SUFFICES ASSUME NEW w \in theory, S \cup (T \ {i}) \subseteq w.true
             PROVE  FALSE
  BY DEF Failed
<1>1. i \in w.true
  BY DEF IsTrue
<1>2. S \cup T \subseteq w.true
  BY <1>1
<1> QED
  BY <1>2 DEF Failed

(* A literal whose complement is derived makes a space fail. *)
LEMMA ContradictionFails ==
  ASSUME theory \in Theories, NEW S, NEW i, IsFalse(S, i)
  PROVE  Failed(S \cup {i})
<1> SUFFICES ASSUME NEW w \in theory, S \cup {i} \subseteq w.true
             PROVE  FALSE
  BY DEF Failed
<1>1. i \in w.true /\ i \in w.false
  BY DEF IsFalse
<1> QED
  BY <1>1, Consistent

LEMMA FailedMonotone ==
  ASSUME NEW S, NEW T, S \subseteq T, Failed(S)
  PROVE  Failed(T)
BY DEF Failed

------------------------------------------------------------------------------
LEMMA InitInv == Init => Inv
<1> SUFFICES ASSUME Init PROVE Inv
  OBVIOUS
<1>0. Length \in Nat
  BY ReductionAssumption
<1>1. Typed
  BY <1>0 DEF Init, Typed, TypeOK
<1>2. AtStart
  BY DEF Init, AtStart
<1>3. Progress /\ Scanning /\ Needed /\ Finished
  BY DEF Init, Progress, Scanning, Needed, Finished, ResultFails, Irreducible, Working
<1> QED
  BY <1>1, <1>2, <1>3 DEF Inv

------------------------------------------------------------------------------
LEMMA NothingToDoInv ==
  ASSUME Inv, NothingToDo
  PROVE  Inv'
<1> USE DEF NothingToDo, inputs, window, visits
<1>0. Length \in Nat /\ Kinds /\ Typed /\ AtStart /\ Progress /\ Scanning /\ Needed /\ Finished
  BY ReductionAssumption, MethodKinds DEF Inv, Typed, TypeOK
<1>1. Typed'
  BY <1>0 DEF Typed, TypeOK, Kinds, Literals, Constraints, Negated, Extra, IsReason, Scanning
<1>2. AtStart'
  BY <1>0 DEF AtStart, Kinds, IsReason, Failed, Literals, Extra
<1>3. Progress'
  BY <1>0 DEF Progress, Working, Left, Failed, Kinds, Typed, TypeOK, Scanning, Passed, Extra, IsReason, Literals, AtStart
<1>4. Scanning'
  BY <1>0 DEF Scanning, Progress, Working, Left, Passed, Failed, Kinds, Typed, TypeOK, Literals, Extra, IsReason
<1>5. Needed'
  BY <1>0 DEF Needed, Progress, Working, Left, Passed, Failed, Kinds, Typed, TypeOK, Scanning, Spared, Extra, IsReason
<1>6. Finished'
  <2>1. result = {} /\ Failed(Literals \cup Extra) /\ theory' = theory /\ method' = method
    BY <1>0 DEF AtStart
  <2>2. Length = 0 => Literals = {}
    BY <1>0 DEF Literals
  <2>3. Failed(result \cup Extra)
    <3>1. CASE Length = 0
      BY <3>1, <2>1, <2>2
    <3>2. CASE Failed({})
      BY <3>2, FailedMonotone
    <3> QED
      BY <3>1, <3>2
  <2> QED
    BY <2>1, <2>3 DEF Finished, ResultFails, Irreducible, Failed, Extra, IsReason
<1> QED
  BY <1>1, <1>2, <1>3, <1>4, <1>5, <1>6 DEF Inv

LEMMA StartInv ==
  ASSUME Inv, Start
  PROVE  Inv'
<1> USE DEF Start, inputs, window, visits, StopOrGoOn, Begin
<1>0. Length \in Nat /\ Kinds /\ Typed /\ AtStart /\ Progress /\ Scanning /\ Needed /\ Finished
  BY ReductionAssumption, MethodKinds DEF Inv, Typed, TypeOK
<1>1. Typed'
  BY <1>0 DEF Typed, TypeOK, Kinds, Literals, Constraints, Negated, Extra, IsReason, Scanning
<1>2. AtStart'
  BY <1>0 DEF AtStart, Kinds, IsReason, Failed, Literals, Extra
<1>3. Progress'
  BY <1>0 DEF Progress, Working, Left, Failed, Kinds, Typed, TypeOK, Scanning, Passed, Extra, IsReason, Literals, AtStart
<1>4. Scanning'
  <2>1. phase' = "scan" => method \notin Clones /\ ~Failed(original')
    BY DEF Begin
  <2>2. method \in Connected /\ phase' = "scan" => at' \in 0 .. Length /\ kept' \subseteq done'
    BY <1>0 DEF Kinds
  <2>3. ASSUME method \in Ranges, phase' = "scan"
        PROVE  at' \in 1 .. Length
    <3>1. at' = to' /\ to' \in 0 .. Length
      BY <2>3, <1>0 DEF Kinds
    <3>2. ASSUME to' = 0
          PROVE  FALSE
      <4>1. last /\ Length = 1
        BY <3>2, <1>0
      <4>2. Literals \cup Extra = original'
        BY <4>1, <1>0 DEF Literals
      <4> QED
        BY <4>2, <2>1, <2>3, <1>0 DEF AtStart
    <3> QED
      BY <3>1, <3>2, <1>0
  <2> QED
    BY <2>1, <2>2, <2>3, <1>0 DEF Scanning, Kinds
<1>5. Needed'
  BY <1>0 DEF Needed, Progress, Working, Left, Passed, Failed, Kinds, Typed, TypeOK, Scanning, Spared, Extra, IsReason
<1>6. Finished'
  BY <1>0 DEF Finished, ResultFails, Irreducible, Needed, Progress, Working, Left, Failed, Kinds, Spared, Extra, IsReason, AtStart
<1> QED
  BY <1>1, <1>2, <1>3, <1>4, <1>5, <1>6 DEF Inv

LEMMA CloneInv ==
  ASSUME Inv, Clone
  PROVE  Inv'
<1> USE DEF Clone, inputs, window, visits
<1>0. Length \in Nat /\ Kinds /\ Typed /\ AtStart /\ Progress /\ Scanning /\ Needed /\ Finished
  BY ReductionAssumption, MethodKinds DEF Inv, Typed, TypeOK
<1>a. from \in Nat /\ to \in Nat /\ method \in Clones /\ theory' = theory /\ method' = method
  BY <1>0 DEF Typed, TypeOK, AtStart
<1>b. method \in Linear => from <= to
  <2> SUFFICES ASSUME method \in Linear, from > to
               PROVE  FALSE
    BY <1>a
  <2>1. Left = {}
    BY <1>a DEF Left
  <2> QED
    BY <2>1, <1>0 DEF Progress, Working, Failed
<1>1. Typed'
  BY <1>0 DEF Typed, TypeOK, Kinds, Literals, Constraints, Negated, Extra, IsReason, Scanning
<1>2. AtStart'
  BY <1>0 DEF AtStart, Kinds, IsReason, Failed, Literals, Extra
<1>3. Progress'
  BY <1>0 DEF Progress, Working, Left, Failed, Kinds, Typed, TypeOK, Scanning, Passed, Extra, IsReason, Literals, AtStart
<1>4. Scanning'
  <2>1. method \in Linear => at' \in from' .. to'
    BY <1>a, <1>b, <1>0 DEF Kinds
  <2>2. method \in Connected => at' \in 0 .. Length /\ kept' \subseteq done'
    BY <1>0 DEF Kinds
  <2>3. Passed' = {}
    BY <1>a, <1>b, <1>0 DEF Passed, Kinds
  <2>4. tester' = original' /\ ~Failed(original)
    BY <1>0 DEF Progress, Working
  <2>5. ~Failed(tester)'
    BY <2>4, <1>a DEF Failed
  <2> QED
    BY <2>1, <2>2, <2>3, <2>4, <2>5, <1>a, <1>0 DEF Scanning, Kinds
<1>5. Needed'
  BY <1>0 DEF Needed, Progress, Working, Left, Passed, Failed, Kinds, Typed, TypeOK, Scanning, Spared, Extra, IsReason
<1>6. Finished'
  BY <1>a, <1>b, <1>0 DEF Finished, ResultFails, Irreducible, Kinds
<1> QED
  BY <1>1, <1>2, <1>3, <1>4, <1>5, <1>6 DEF Inv

LEMMA ScanFailsInv ==
  ASSUME Inv, ScanFails
  PROVE  Inv'
<1> USE DEF ScanFails, inputs, window, visits, Take, DropFrom, KeepFrom, StopOrGoOn, Begin
<1>0. Length \in Nat /\ Kinds /\ Typed /\ AtStart /\ Progress /\ Scanning /\ Needed /\ Finished
  BY ReductionAssumption, MethodKinds DEF Inv, Typed, TypeOK
<1>a. at \in from .. to /\ from \in Nat /\ to \in Nat /\ theory' = theory /\ method' = method /\ last' = last /\ method \in Clones
  BY <1>0 DEF Scanning, Typed, TypeOK, Kinds
<1>b. Left = from .. to
  BY DEF Left
<1>c. tester = original \cup Passed /\ ~Failed(tester)
  BY <1>0, <1>a DEF Scanning
<1>d. Passed = IF method \in Forward THEN from .. at - 1 ELSE at + 1 .. to
  BY <1>0 DEF Passed, Kinds
<1>e. original = result \cup Extra /\ ~Failed(original) /\ Failed(original \cup Left)
  BY <1>0 DEF Progress, Working
<1>f. Left' = from' .. to' /\ Extra' = Extra /\ Spared' = Spared
  BY <1>a DEF Left, Extra, IsReason, Spared
<1>g. Left' = (IF method \in Forward THEN Passed ELSE Passed \cup {at})
  <2>1. CASE method \in Forward
    BY <2>1, <1>a, <1>d, <1>f
  <2>2. CASE method \notin Forward
    <3>1. from' = at /\ to' = to
      BY <2>2
    <3>2. at .. to = (at + 1 .. to) \cup {at}
      BY <1>a
    <3> QED
      BY <2>2, <3>1, <3>2, <1>d, <1>f
  <2> QED
    BY <2>1, <2>2
<1>h. Failed(original' \cup Left')
  <2>1. tester \cup {at} \subseteq original' \cup Left'
    BY <1>c, <1>g
  <2> QED
    BY <2>1, FailedMonotone
<1>i. original' = result' \cup Extra
  BY <1>e
<1>j. \A i \in result' \ Spared : ~Failed((original' \cup Left') \ {i})
  <2> SUFFICES ASSUME NEW i \in result' \ Spared, Failed((original' \cup Left') \ {i})
               PROVE  FALSE
    OBVIOUS
  <2>1. CASE i = at
    <3>1. (original' \cup Left') \ {i} \subseteq tester
      BY <2>1, <1>c, <1>g
    <3> QED
      BY <3>1, <1>c, FailedMonotone
  <2>2. CASE i \in result
    <3>1. Left' \cup {at} \subseteq Left
      BY <1>a, <1>b, <1>d, <1>g
    <3>2. (original' \cup Left') \ {i} \subseteq (original \cup Left) \ {i} \/ i = at
      BY <3>1
    <3>3. ~Failed((original \cup Left) \ {i})
      BY <2>2, <1>0, <1>a DEF Needed, Working
    <3> QED
      BY <2>1, <3>2, <3>3, FailedMonotone
  <2> QED
    BY <2>1, <2>2
<1>1. Typed'
  BY <1>0 DEF Typed, TypeOK, Kinds, Literals, Constraints, Negated, Extra, IsReason, Scanning
<1>2. AtStart'
  BY <1>0 DEF AtStart, Kinds, IsReason, Failed, Literals, Extra
<1>3. Progress'
  <2>1. phase' = IF Failed(original') THEN "done" ELSE Begin
    OBVIOUS
  <2> QED
    BY <2>1, <1>h, <1>i, <1>f, <1>a DEF Progress, Working, Failed
<1>4. Scanning'
  BY <1>0 DEF Scanning, Progress, Working, Left, Passed, Failed, Kinds, Typed, TypeOK, Literals, Extra, IsReason
<1>5. Needed'
  BY <1>j, <1>f, <1>a DEF Needed, Failed
<1>6. Finished'
  <2> SUFFICES ASSUME phase' = "done"
               PROVE  Finished'
    BY <1>a DEF Finished, ResultFails, Irreducible
  <2>1. Failed(original')
    BY <1>a DEF Begin
  <2>2. \A i \in result' \ Spared : ~Failed((result' \ {i}) \cup Extra)
    <3> SUFFICES ASSUME NEW i \in result' \ Spared, Failed((result' \ {i}) \cup Extra)
                 PROVE  FALSE
      OBVIOUS
    <3>1. i \notin Extra
      BY <1>0, <1>1 DEF Extra, Typed, TypeOK, Literals, Negated
    <3>2. (result' \ {i}) \cup Extra \subseteq (original' \cup Left') \ {i}
      BY <3>1, <1>i
    <3> QED
      BY <3>2, <1>j, FailedMonotone
  <2> QED
    BY <2>1, <2>2, <1>a, <1>i, <1>f DEF Finished, ResultFails, Irreducible, Failed, Spared
<1> QED
  BY <1>1, <1>2, <1>3, <1>4, <1>5, <1>6 DEF Inv

LEMMA ScanReachesEndInv ==
  ASSUME Inv, ScanReachesEnd
  PROVE  Inv'
<1> USE DEF ScanReachesEnd, inputs, window, visits, Take, DropFrom, KeepFrom, StopOrGoOn, Begin, OtherEnd, NextToEnd
<1>0. Length \in Nat /\ Kinds /\ Typed /\ AtStart /\ Progress /\ Scanning /\ Needed /\ Finished
  BY ReductionAssumption, MethodKinds DEF Inv, Typed, TypeOK
<1>a. at \in from .. to /\ from \in Nat /\ to \in Nat /\ theory' = theory /\ method' = method /\ last' = last /\ method \in Clones
  BY <1>0 DEF Scanning, Typed, TypeOK, Kinds
<1>b. Left = from .. to
  BY DEF Left
<1>c. tester = original \cup Passed /\ ~Failed(tester)
  BY <1>0, <1>a DEF Scanning
<1>d. Passed = IF method \in Forward THEN from .. at - 1 ELSE at + 1 .. to
  BY <1>0 DEF Passed, Kinds
<1>e. original = result \cup Extra /\ ~Failed(original) /\ Failed(original \cup Left)
  BY <1>0 DEF Progress, Working
<1>f. Left' = from' .. to' /\ Extra' = Extra /\ Spared' = Spared
  BY <1>a DEF Left, Extra, IsReason, Spared
<1>h. Left \subseteq Passed \cup {at} \cup {OtherEnd} /\ OtherEnd \in Left /\ Left' = Left \ {OtherEnd}
  BY <1>a, <1>b, <1>d, <1>f
<1>i. original' = result' \cup Extra
  BY <1>e
<1>j. \A i \in result' \ Spared : ~Failed((original' \cup Left') \ {i})
  <2> SUFFICES ASSUME NEW i \in result' \ Spared, Failed((original' \cup Left') \ {i})
               PROVE  FALSE
    OBVIOUS
  <2>1. CASE i = OtherEnd
    <3>1. (original' \cup Left') \ {i} \subseteq tester \cup {at}
      BY <2>1, <1>c, <1>h
    <3> QED
      BY <3>1, FailedMonotone
  <2>2. CASE i \in result
    <3>1. (original' \cup Left') \ {i} \subseteq (original \cup Left) \ {i} \/ i = OtherEnd
      BY <1>h
    <3>3. ~Failed((original \cup Left) \ {i})
      BY <2>2, <1>0, <1>a DEF Needed, Working
    <3> QED
      BY <2>1, <3>1, <3>3, FailedMonotone
  <2> QED
    BY <2>1, <2>2
<1>1. Typed'
  BY <1>0 DEF Typed, TypeOK, Kinds, Literals, Constraints, Negated, Extra, IsReason, Scanning
<1>2. AtStart'
  BY <1>0 DEF AtStart, Kinds, IsReason, Failed, Literals, Extra
<1>3. Progress'
  BY <1>0 DEF Progress, Working, Left, Failed, Kinds, Typed, TypeOK, Scanning, Passed, Extra, IsReason, Literals, AtStart
<1>4. Scanning'
  BY <1>0 DEF Scanning, Progress, Working, Left, Passed, Failed, Kinds, Typed, TypeOK, Literals, Extra, IsReason
<1>5. Needed'
  BY <1>j, <1>f, <1>a DEF Needed, Failed
<1>6. Finished'
  <2> SUFFICES ASSUME phase' = "done"
               PROVE  Finished'
    BY <1>a DEF Finished, ResultFails, Irreducible
  <2>1. Failed(original')
    BY <1>a DEF Begin
  <2>2. \A i \in result' \ Spared : ~Failed((result' \ {i}) \cup Extra)
    <3> SUFFICES ASSUME NEW i \in result' \ Spared, Failed((result' \ {i}) \cup Extra)
                 PROVE  FALSE
      OBVIOUS
    <3>1. i \notin Extra
      BY <1>0, <1>1 DEF Extra, Typed, TypeOK, Literals, Negated
    <3>2. (result' \ {i}) \cup Extra \subseteq (original' \cup Left') \ {i}
      BY <3>1, <1>i
    <3> QED
      BY <3>2, <1>j, FailedMonotone
  <2> QED
    BY <2>1, <2>2, <1>a, <1>i, <1>f DEF Finished, ResultFails, Irreducible, Failed, Spared
<1> QED
  BY <1>1, <1>2, <1>3, <1>4, <1>5, <1>6 DEF Inv

LEMMA ScanGoesOnInv ==
  ASSUME Inv, ScanGoesOn
  PROVE  Inv'
<1> USE DEF ScanGoesOn, inputs, window, visits, NextToEnd
<1>0. Length \in Nat /\ Kinds /\ Typed /\ AtStart /\ Progress /\ Scanning /\ Needed /\ Finished
  BY ReductionAssumption, MethodKinds DEF Inv, Typed, TypeOK
<1>a. at \in from .. to /\ from \in Nat /\ to \in Nat /\ theory' = theory /\ method' = method /\ last' = last /\ method \in Clones
  BY <1>0 DEF Scanning, Typed, TypeOK, Kinds
<1>b. Left = from .. to
  BY DEF Left
<1>c. tester = original \cup Passed /\ ~Failed(tester)
  BY <1>0, <1>a DEF Scanning
<1>d. Passed = IF method \in Forward THEN from .. at - 1 ELSE at + 1 .. to
  BY <1>0 DEF Passed, Kinds
<1>e. original = result \cup Extra /\ ~Failed(original) /\ Failed(original \cup Left)
  BY <1>0 DEF Progress, Working
<1>f. Left' = from' .. to' /\ Extra' = Extra /\ Spared' = Spared
  BY <1>a DEF Left, Extra, IsReason, Spared
<1>1. Typed'
  BY <1>0 DEF Typed, TypeOK, Kinds, Literals, Constraints, Negated, Extra, IsReason, Scanning
<1>2. AtStart'
  BY <1>0 DEF AtStart, Kinds, IsReason, Failed, Literals, Extra
<1>3. Progress'
  BY <1>0 DEF Progress, Working, Left, Failed, Kinds, Typed, TypeOK, Scanning, Passed, Extra, IsReason, Literals, AtStart
<1>4. Scanning'
  <2> SUFFICES ASSUME phase' = "scan"
               PROVE  Scanning'
    BY DEF Scanning
  <2>1. at' \in from' .. to'
    OBVIOUS
  <2>2. Passed' = Passed \cup {at}
    BY <1>a, <1>d, <1>0, <2>1 DEF Passed, Kinds
  <2>3. tester' = original' \cup Passed' /\ ~Failed(tester)'
    BY <2>2, <1>c, <1>a DEF Failed
  <2> QED
    BY <2>1, <2>3, <1>0, <1>a DEF Scanning, Kinds
<1>5. Needed'
  BY <1>0 DEF Needed, Progress, Working, Left, Passed, Failed, Kinds, Typed, TypeOK, Scanning, Spared, Extra, IsReason
<1>6. Finished'
  BY <1>0 DEF Finished, ResultFails, Irreducible, Needed, Progress, Working, Left, Failed, Kinds, Spared, Extra, IsReason, AtStart
<1> QED
  BY <1>1, <1>2, <1>3, <1>4, <1>5, <1>6 DEF Inv

LEMMA RangeSkipsInv ==
  ASSUME Inv, RangeSkips
  PROVE  Inv'
<1> USE DEF RangeSkips, inputs, window, visits
<1>0. Length \in Nat /\ Kinds /\ Typed /\ AtStart /\ Progress /\ Scanning /\ Needed /\ Finished
  BY ReductionAssumption, MethodKinds DEF Inv, Typed, TypeOK
<1>a. at \in 1 .. Length /\ theory' = theory /\ method' = method /\ last' = last /\ method \in Ranges
  BY <1>0 DEF Scanning, Ranges
<1>b. method \notin Clones /\ method \notin Linear /\ method \notin Connected /\ theory \in Theories
  BY <1>a, <1>0 DEF Kinds, Typed
<1>c. Left = 1 .. at /\ Left' = 1 .. at'
  BY <1>a, <1>b DEF Left
<1>d. original = result \cup Extra /\ ~Failed(original) /\ Failed(original \cup Left)
  BY <1>0 DEF Progress, Working
<1>e. Failed(original \cup Left')
  <2>1. Left' = Left \ {at}
    BY <1>a, <1>c
  <2> QED
    BY <2>1, <1>d, DerivedAddsNothing
<1>f. at' > 0
  <2> SUFFICES ASSUME at' = 0
               PROVE  FALSE
    BY <1>a
  <2>1. original \cup Left' = original
    BY <1>c
  <2> QED
    BY <2>1, <1>d, <1>e
<1>1. Typed'
  BY <1>0, <1>a DEF Typed, TypeOK
<1>2. AtStart'
  BY <1>0 DEF AtStart, Kinds, IsReason, Failed, Literals, Extra
<1>3. Progress'
  BY <1>a, <1>d, <1>e DEF Progress, Working, Failed, Extra, IsReason
<1>4. Scanning'
  <2>1. at' \in 1 .. Length
    BY <1>a, <1>f, <1>0
  <2> QED
    BY <1>a, <1>b, <2>1 DEF Scanning
<1>5. Needed'
  BY <1>0 DEF Needed, Progress, Working, Left, Passed, Failed, Kinds, Typed, TypeOK, Scanning, Spared, Extra, IsReason
<1>6. Finished'
  BY <1>f DEF Finished, ResultFails, Irreducible
<1> QED
  BY <1>1, <1>2, <1>3, <1>4, <1>5, <1>6 DEF Inv

LEMMA RangeClosesInv ==
  ASSUME Inv, RangeCloses
  PROVE  Inv'
<1> USE DEF RangeCloses, inputs, window, visits
<1>0. Length \in Nat /\ Kinds /\ Typed /\ AtStart /\ Progress /\ Scanning /\ Needed /\ Finished
  BY ReductionAssumption, MethodKinds DEF Inv, Typed, TypeOK
<1>a. at \in 1 .. Length /\ theory' = theory /\ method' = method /\ last' = last /\ method \in Ranges
  BY <1>0 DEF Scanning, Ranges
<1>b. method \notin Clones /\ method \notin Linear /\ method \notin Connected /\ theory \in Theories
  BY <1>a, <1>0 DEF Kinds, Typed
<1>c. Left = 1 .. at /\ Left' = 1 .. at'
  BY <1>a, <1>b DEF Left
<1>d. original = result \cup Extra /\ ~Failed(original) /\ Failed(original \cup Left)
  BY <1>0 DEF Progress, Working
<1>1. Typed'
  BY <1>0, <1>a DEF Typed, TypeOK, Literals
<1>2. AtStart'
  BY <1>0 DEF AtStart, Kinds, IsReason, Failed, Literals, Extra
<1>3. Progress'
  BY <1>0 DEF Progress, Working, Left, Failed, Kinds, Typed, TypeOK, Scanning, Passed, Extra, IsReason, Literals, AtStart
<1>4. Scanning'
  BY <1>0 DEF Scanning, Progress, Working, Left, Passed, Failed, Kinds, Typed, TypeOK, Literals, Extra, IsReason
<1>5. Needed'
  BY <1>0 DEF Needed, Progress, Working, Left, Passed, Failed, Kinds, Typed, TypeOK, Scanning, Spared, Extra, IsReason
<1>6. Finished'
  <2>1. Failed(original \cup {at})
    BY <1>b, ContradictionFails
  <2> QED
    BY <2>1, <1>a, <1>b, <1>d DEF Finished, ResultFails, Irreducible, Failed, Extra, IsReason
<1> QED
  BY <1>1, <1>2, <1>3, <1>4, <1>5, <1>6 DEF Inv

LEMMA RangeTakesInv ==
  ASSUME Inv, RangeTakes
  PROVE  Inv'
<1> USE DEF RangeTakes, inputs, window, visits, Take
<1>0. Length \in Nat /\ Kinds /\ Typed /\ AtStart /\ Progress /\ Scanning /\ Needed /\ Finished
  BY ReductionAssumption, MethodKinds DEF Inv, Typed, TypeOK
<1>1. Typed'
  BY <1>0 DEF Typed, TypeOK, Kinds, Literals, Constraints, Negated, Extra, IsReason, Scanning
<1>2. AtStart'
  BY <1>0 DEF AtStart, Kinds, IsReason, Failed, Literals, Extra
<1>3. Progress'
  BY <1>0 DEF Progress, Working, Left, Failed, Kinds, Typed, TypeOK, Scanning, Passed, Extra, IsReason, Literals, AtStart
<1>4. Scanning'
  BY <1>0 DEF Scanning, Progress, Working, Left, Passed, Failed, Kinds, Typed, TypeOK, Literals, Extra, IsReason
<1>5. Needed'
  BY <1>0 DEF Needed, Progress, Working, Left, Passed, Failed, Kinds, Typed, TypeOK, Scanning, Spared, Extra, IsReason
<1>6. Finished'
  BY <1>0 DEF Finished, ResultFails, Irreducible, Needed, Progress, Working, Left, Failed, Kinds, Spared, Extra, IsReason, AtStart
<1> QED
  BY <1>1, <1>2, <1>3, <1>4, <1>5, <1>6 DEF Inv

LEMMA VisitSkipsInv ==
  ASSUME Inv, VisitSkips
  PROVE  Inv'
<1> USE DEF VisitSkips, inputs, window, visits, Visiting, Touches
<1>0. Length \in Nat /\ Kinds /\ Typed /\ AtStart /\ Progress /\ Scanning /\ Needed /\ Finished
  BY ReductionAssumption, MethodKinds DEF Inv, Typed, TypeOK
<1>1. Typed'
  BY <1>0 DEF Typed, TypeOK, Kinds, Literals, Constraints, Negated, Extra, IsReason, Scanning
<1>2. AtStart'
  BY <1>0 DEF AtStart, Kinds, IsReason, Failed, Literals, Extra
<1>3. Progress'
  BY <1>0 DEF Progress, Working, Left, Failed, Kinds, Typed, TypeOK, Scanning, Passed, Extra, IsReason, Literals, AtStart
<1>4. Scanning'
  BY <1>0 DEF Scanning, Progress, Working, Left, Passed, Failed, Kinds, Typed, TypeOK, Literals, Extra, IsReason
<1>5. Needed'
  BY <1>0 DEF Needed, Progress, Working, Left, Passed, Failed, Kinds, Typed, TypeOK, Scanning, Spared, Extra, IsReason
<1>6. Finished'
  BY <1>0 DEF Finished, ResultFails, Irreducible, Needed, Progress, Working, Left, Failed, Kinds, Spared, Extra, IsReason, AtStart
<1> QED
  BY <1>1, <1>2, <1>3, <1>4, <1>5, <1>6 DEF Inv

LEMMA VisitKnowsInv ==
  ASSUME Inv, VisitKnows
  PROVE  Inv'
<1> USE DEF VisitKnows, inputs, window, visits, Visiting
<1>0. Length \in Nat /\ Kinds /\ Typed /\ AtStart /\ Progress /\ Scanning /\ Needed /\ Finished
  BY ReductionAssumption, MethodKinds DEF Inv, Typed, TypeOK
<1>1. Typed'
  BY <1>0 DEF Typed, TypeOK, Kinds, Literals, Constraints, Negated, Extra, IsReason, Scanning
<1>2. AtStart'
  BY <1>0 DEF AtStart, Kinds, IsReason, Failed, Literals, Extra
<1>3. Progress'
  <2>1. Left' = Left \ {at} /\ theory' = theory
    BY <1>0 DEF Left, Kinds
  <2>2. original = result \cup Extra /\ ~Failed(original) /\ Failed(original \cup Left)
    BY <1>0 DEF Progress, Working
  <2>3. Failed(original \cup (Left \ {at}))
    BY <2>2, DerivedAddsNothing
  <2> QED
    BY <2>1, <2>2, <2>3 DEF Progress, Working, Failed, Extra, IsReason
<1>4. Scanning'
  BY <1>0 DEF Scanning, Progress, Working, Left, Passed, Failed, Kinds, Typed, TypeOK, Literals, Extra, IsReason
<1>5. Needed'
  BY <1>0 DEF Needed, Progress, Working, Left, Passed, Failed, Kinds, Typed, TypeOK, Scanning, Spared, Extra, IsReason
<1>6. Finished'
  BY <1>0 DEF Finished, ResultFails, Irreducible, Needed, Progress, Working, Left, Failed, Kinds, Spared, Extra, IsReason, AtStart
<1> QED
  BY <1>1, <1>2, <1>3, <1>4, <1>5, <1>6 DEF Inv

LEMMA VisitClosesInv ==
  ASSUME Inv, VisitCloses
  PROVE  Inv'
<1> USE DEF VisitCloses, inputs, window, visits, Visiting
<1>0. Length \in Nat /\ Kinds /\ Typed /\ AtStart /\ Progress /\ Scanning /\ Needed /\ Finished
  BY ReductionAssumption, MethodKinds DEF Inv, Typed, TypeOK
<1>a. at \in Literals /\ theory' = theory /\ method' = method /\ last' = last /\ kept \subseteq done
  BY <1>0 DEF Scanning, Typed, TypeOK, Literals
<1>b. Left = Literals \ (IF method \in Clones THEN kept ELSE done)
  BY <1>0 DEF Left, Kinds
<1>c. method \in Clones => tester = original \cup (done \ kept) /\ ~Failed(tester)
  BY <1>0 DEF Scanning, Passed, Kinds
<1>d. original = result \cup Extra /\ ~Failed(original) /\ Failed(original \cup Left)
  BY <1>0 DEF Progress, Working
<1>e. Extra' = Extra /\ Spared' = Spared
  BY <1>a DEF Extra, IsReason, Spared
<1>f. \A i \in Literals : i \notin Extra
  BY <1>0 DEF Extra, Literals, Negated
<1>1. Typed'
  BY <1>0 DEF Typed, TypeOK, Kinds, Literals, Constraints, Negated, Extra, IsReason, Scanning
<1>2. AtStart'
  BY <1>0 DEF AtStart, Kinds, IsReason, Failed, Literals, Extra
<1>3. Progress'
  BY <1>0 DEF Progress, Working, Left, Failed, Kinds, Typed, TypeOK, Scanning, Passed, Extra, IsReason, Literals, AtStart
<1>4. Scanning'
  BY <1>0 DEF Scanning, Progress, Working, Left, Passed, Failed, Kinds, Typed, TypeOK, Literals, Extra, IsReason
<1>5. Needed'
  BY <1>0 DEF Needed, Progress, Working, Left, Passed, Failed, Kinds, Typed, TypeOK, Scanning, Spared, Extra, IsReason
<1>6. Finished'
  <2>1. Failed(original \cup {at})
    BY <1>0, ContradictionFails DEF Typed
  <2>2. ASSUME method \in Clones
        PROVE  \A i \in result' \ Spared : ~Failed((result' \ {i}) \cup Extra)
    <3> SUFFICES ASSUME NEW i \in result' \ Spared, Failed((result' \ {i}) \cup Extra)
                 PROVE  FALSE
      OBVIOUS
    <3>1. CASE i = at
      <4>1. (result' \ {i}) \cup Extra \subseteq original
        BY <3>1, <1>d
      <4> QED
        BY <4>1, <1>d, FailedMonotone
    <3>2. CASE i \in result
      <4>1. i \notin Extra /\ at \in Left
        BY <3>2, <1>0, <1>f, <2>2, <1>a, <1>b DEF Typed, TypeOK
      <4>2. (result' \ {i}) \cup Extra \subseteq (original \cup Left) \ {i}
        BY <4>1, <1>d
      <4>3. ~Failed((original \cup Left) \ {i})
        BY <3>2, <2>2, <1>0 DEF Needed, Working
      <4> QED
        BY <4>2, <4>3, FailedMonotone
    <3> QED
      BY <3>1, <3>2
  <2> QED
    BY <2>1, <2>2, <1>a, <1>d, <1>e DEF Finished, ResultFails, Irreducible, Failed, Spared
<1> QED
  BY <1>1, <1>2, <1>3, <1>4, <1>5, <1>6 DEF Inv

LEMMA VisitFailsInv ==
  ASSUME Inv, VisitFails
  PROVE  Inv'
<1> USE DEF VisitFails, inputs, window, visits, Visited, Visiting, Touches, Take, StopOrGoOn, Begin, SettledBy
<1>0. Length \in Nat /\ Kinds /\ Typed /\ AtStart /\ Progress /\ Scanning /\ Needed /\ Finished
  BY ReductionAssumption, MethodKinds DEF Inv, Typed, TypeOK
<1>a. at \in Literals /\ theory' = theory /\ method' = method /\ last' = last /\ kept \subseteq done
  BY <1>0 DEF Scanning, Typed, TypeOK, Literals
<1>b. Left = Literals \ (IF method \in Clones THEN kept ELSE done)
  BY <1>0 DEF Left, Kinds
<1>c. method \in Clones => tester = original \cup (done \ kept) /\ ~Failed(tester)
  BY <1>0 DEF Scanning, Passed, Kinds
<1>d. original = result \cup Extra /\ ~Failed(original) /\ Failed(original \cup Left)
  BY <1>0 DEF Progress, Working
<1>e. Extra' = Extra /\ Spared' = Spared
  BY <1>a DEF Extra, IsReason, Spared
<1>f. \A i \in Literals : i \notin Extra
  BY <1>0 DEF Extra, Literals, Negated
<1>g. Left' = (done \ kept) \ {at}
  BY <1>a, <1>0 DEF Left, Kinds, Typed, TypeOK
<1>i. original' = result' \cup Extra
  BY <1>d
<1>j. \A i \in result' \ Spared : ~Failed((original' \cup Left') \ {i})
  <2> SUFFICES ASSUME NEW i \in result' \ Spared, Failed((original' \cup Left') \ {i})
               PROVE  FALSE
    OBVIOUS
  <2>1. CASE i = at
    <3>1. (original' \cup Left') \ {i} \subseteq tester
      BY <2>1, <1>c, <1>g
    <3> QED
      BY <3>1, <1>c, FailedMonotone
  <2>2. CASE i \in result
    <3>1. Left' \cup {at} \subseteq Left
      BY <1>a, <1>b, <1>g, <1>0 DEF Typed, TypeOK
    <3>2. (original' \cup Left') \ {i} \subseteq (original \cup Left) \ {i} \/ i = at
      BY <3>1
    <3>3. ~Failed((original \cup Left) \ {i})
      BY <2>2, <1>0, <1>a DEF Needed, Working
    <3> QED
      BY <2>1, <3>2, <3>3, FailedMonotone
  <2> QED
    BY <2>1, <2>2
<1>1. Typed'
  BY <1>0, <1>a DEF Typed, TypeOK, Literals, Constraints
<1>2. AtStart'
  BY <1>0 DEF AtStart, Kinds, IsReason, Failed, Literals, Extra
<1>3. Progress'
  BY <1>0 DEF Progress, Working, Left, Failed, Kinds, Typed, TypeOK, Scanning, Passed, Extra, IsReason, Literals, AtStart
<1>4. Scanning'
  BY <1>0 DEF Scanning, Progress, Working, Left, Passed, Failed, Kinds, Typed, TypeOK, Literals, Extra, IsReason
<1>5. Needed'
  BY <1>j, <1>e, <1>a DEF Needed, Failed
<1>6. Finished'
  <2> SUFFICES ASSUME phase' = "done"
               PROVE  Finished'
    BY <1>a DEF Finished, ResultFails, Irreducible
  <2>1. Failed(original')
    BY <1>a DEF Begin, StopOrGoOn
  <2>2. \A i \in result' \ Spared : ~Failed((result' \ {i}) \cup Extra)
    <3> SUFFICES ASSUME NEW i \in result' \ Spared, Failed((result' \ {i}) \cup Extra)
                 PROVE  FALSE
      OBVIOUS
    <3>1. i \notin Extra
      BY <1>0, <1>1 DEF Extra, Typed, TypeOK, Literals, Negated
    <3>2. (result' \ {i}) \cup Extra \subseteq (original' \cup Left') \ {i}
      BY <3>1, <1>i
    <3> QED
      BY <3>2, <1>j, FailedMonotone
  <2> QED
    BY <2>1, <2>2, <1>a, <1>i, <1>e DEF Finished, ResultFails, Irreducible, Failed, Spared
<1> QED
  BY <1>1, <1>2, <1>3, <1>4, <1>5, <1>6 DEF Inv

LEMMA VisitAddsInv ==
  ASSUME Inv, VisitAdds
  PROVE  Inv'
<1> USE DEF VisitAdds, inputs, window, visits, Visited, Visiting, Touches
<1>0. Length \in Nat /\ Kinds /\ Typed /\ AtStart /\ Progress /\ Scanning /\ Needed /\ Finished
  BY ReductionAssumption, MethodKinds DEF Inv, Typed, TypeOK
<1>1. Typed'
  BY <1>0 DEF Typed, TypeOK, Kinds, Literals, Constraints, Negated, Extra, IsReason, Scanning
<1>2. AtStart'
  BY <1>0 DEF AtStart, Kinds, IsReason, Failed, Literals, Extra
<1>3. Progress'
  BY <1>0 DEF Progress, Working, Left, Failed, Kinds, Typed, TypeOK, Scanning, Passed, Extra, IsReason, Literals, AtStart
<1>4. Scanning'
  BY <1>0 DEF Scanning, Progress, Working, Left, Passed, Failed, Kinds, Typed, TypeOK, Literals, Extra, IsReason
<1>5. Needed'
  BY <1>0 DEF Needed, Progress, Working, Left, Passed, Failed, Kinds, Typed, TypeOK, Scanning, Spared, Extra, IsReason
<1>6. Finished'
  BY <1>0 DEF Finished, ResultFails, Irreducible, Needed, Progress, Working, Left, Failed, Kinds, Spared, Extra, IsReason, AtStart
<1> QED
  BY <1>1, <1>2, <1>3, <1>4, <1>5, <1>6 DEF Inv

LEMMA VisitTakesInv ==
  ASSUME Inv, VisitTakes
  PROVE  Inv'
<1> USE DEF VisitTakes, inputs, window, visits, Visited, Visiting, Touches, Take
<1>0. Length \in Nat /\ Kinds /\ Typed /\ AtStart /\ Progress /\ Scanning /\ Needed /\ Finished
  BY ReductionAssumption, MethodKinds DEF Inv, Typed, TypeOK
<1>1. Typed'
  BY <1>0 DEF Typed, TypeOK, Kinds, Literals, Constraints, Negated, Extra, IsReason, Scanning
<1>2. AtStart'
  BY <1>0 DEF AtStart, Kinds, IsReason, Failed, Literals, Extra
<1>3. Progress'
  BY <1>0 DEF Progress, Working, Left, Failed, Kinds, Typed, TypeOK, Scanning, Passed, Extra, IsReason, Literals, AtStart
<1>4. Scanning'
  BY <1>0 DEF Scanning, Progress, Working, Left, Passed, Failed, Kinds, Typed, TypeOK, Literals, Extra, IsReason
<1>5. Needed'
  BY <1>0 DEF Needed, Progress, Working, Left, Passed, Failed, Kinds, Typed, TypeOK, Scanning, Spared, Extra, IsReason
<1>6. Finished'
  BY <1>0 DEF Finished, ResultFails, Irreducible, Needed, Progress, Working, Left, Failed, Kinds, Spared, Extra, IsReason, AtStart
<1> QED
  BY <1>1, <1>2, <1>3, <1>4, <1>5, <1>6 DEF Inv

LEMMA NextPassInv ==
  ASSUME Inv, NextPass
  PROVE  Inv'
<1> USE DEF NextPass, inputs, window, visits, NextChecker
<1>0. Length \in Nat /\ Kinds /\ Typed /\ AtStart /\ Progress /\ Scanning /\ Needed /\ Finished
  BY ReductionAssumption, MethodKinds DEF Inv, Typed, TypeOK
<1>1. Typed'
  BY <1>0 DEF Typed, TypeOK, Kinds, Literals, Constraints, Negated, Extra, IsReason, Scanning
<1>2. AtStart'
  BY <1>0 DEF AtStart, Kinds, IsReason, Failed, Literals, Extra
<1>3. Progress'
  BY <1>0 DEF Progress, Working, Left, Failed, Kinds, Typed, TypeOK, Scanning, Passed, Extra, IsReason, Literals, AtStart
<1>4. Scanning'
  BY <1>0 DEF Scanning, Progress, Working, Left, Passed, Failed, Kinds, Typed, TypeOK, Literals, Extra, IsReason
<1>5. Needed'
  BY <1>0 DEF Needed, Progress, Working, Left, Passed, Failed, Kinds, Typed, TypeOK, Scanning, Spared, Extra, IsReason
<1>6. Finished'
  BY <1>0 DEF Finished, ResultFails, Irreducible, Needed, Progress, Working, Left, Failed, Kinds, Spared, Extra, IsReason, AtStart
<1> QED
  BY <1>1, <1>2, <1>3, <1>4, <1>5, <1>6 DEF Inv

LEMMA StepInv == Inv /\ [Next]_vars => Inv'
<1> SUFFICES ASSUME Inv, [Next]_vars
             PROVE  Inv'
  OBVIOUS
<1>1. CASE UNCHANGED vars
  BY <1>1 DEF vars, inputs, window, visits, Inv, Typed, TypeOK, AtStart, Progress, Scanning, Needed, Finished, ResultFails,
      Irreducible, Working, Left, Passed, Spared, Extra, IsReason, Failed
<1>2. CASE NothingToDo \/ Start \/ Clone
  BY <1>2, NothingToDoInv, StartInv, CloneInv
<1>3. CASE ScanFails \/ ScanReachesEnd \/ ScanGoesOn
  BY <1>3, ScanFailsInv, ScanReachesEndInv, ScanGoesOnInv
<1>4. CASE RangeSkips \/ RangeCloses \/ RangeTakes
  BY <1>4, RangeSkipsInv, RangeClosesInv, RangeTakesInv
<1>5. CASE VisitSkips \/ VisitKnows \/ VisitCloses \/ VisitFails \/ VisitAdds \/ VisitTakes \/ NextPass
  BY <1>5, VisitSkipsInv, VisitKnowsInv, VisitClosesInv, VisitFailsInv, VisitAddsInv, VisitTakesInv, NextPassInv
<1> QED
  BY <1>1, <1>2, <1>3, <1>4, <1>5 DEF Next

LEMMA InvImpliesMore == Inv => AlwaysMoreToVisit
<1> SUFFICES ASSUME Inv, Visiting, done = Literals
             PROVE  FALSE
  BY DEF AlwaysMoreToVisit
<1>1. Kinds /\ Progress /\ Scanning
  BY MethodKinds DEF Inv, Typed, TypeOK
<1>2. original = result \cup Extra /\ ~Failed(original) /\ Failed(original \cup Left)
  BY <1>1 DEF Progress, Working, Visiting
<1>3. CASE method \in Clones
  <2>1. Left = Passed
    BY <1>1, <1>3 DEF Left, Passed, Kinds, Visiting
  <2>2. tester = original \cup Passed /\ ~Failed(tester)
    BY <1>1, <1>3 DEF Scanning, Visiting
  <2> QED
    BY <1>2, <2>1, <2>2
<1>4. CASE method \notin Clones
  <2>1. Left = {}
    BY <1>1, <1>4 DEF Left, Kinds, Visiting
  <2> QED
    BY <1>2, <2>1 DEF Failed
<1> QED
  BY <1>3, <1>4

THEOREM AlwaysInv == Spec => []Inv
<1>1. Init => Inv
  BY InitInv
<1>2. Inv /\ [Next]_vars => Inv'
  BY StepInv
<1> QED
  BY <1>1, <1>2, PTL DEF Spec

(* Every place of an iterator lies in the list (the iterators of shrink and *)
(* generate).                                                               *)
THEOREM TypeCorrect == Spec => []TypeOK
<1>1. Inv => TypeOK
  BY DEF Inv, Typed
<1> QED
  BY <1>1, AlwaysInv, PTL

(* What any variant returns is still a conflict: the assertion behind Ende. *)
THEOREM ResultsFail == Spec => []ResultFails
<1>1. Inv => ResultFails
  BY DEF Inv, Finished
<1> QED
  BY <1>1, AlwaysInv, PTL

(* The linear variants, CCIISCA and CCIRSRA return nothing that could be    *)
(* dropped, but for the last literal when it is taken over unasked.         *)
THEOREM ResultsIrreducible == Spec => []Irreducible
<1>1. Inv => Irreducible
  BY DEF Inv, Finished
<1> QED
  BY <1>1, AlwaysInv, PTL

(* The connected variants always find a literal that they have not visited: *)
(* their assertion before each visit.                                       *)
THEOREM MoreToVisit == Spec => []AlwaysMoreToVisit
<1>1. Inv => AlwaysMoreToVisit
  BY InvImpliesMore
<1> QED
  BY <1>1, AlwaysInv, PTL
==============================================================================
