-------------------------- MODULE ConflictReduction --------------------------
(***************************************************************************)
(* How clingcon shortens what Gecode tells the solver: a conflict (a list  *)
(* of literals that Gecode cannot satisfy, gecodeconflict.cpp) or the      *)
(* reason of a propagated literal l (a list that together with ~l is a     *)
(* conflict, gecodereason.cpp).  Each variant starts from a clone of the   *)
(* root space, adds literals of the list to it and keeps those it needs.   *)
(*                                                                         *)
(* A literal is its place in the list.  What Gecode derives is given by a  *)
(* set of worlds, the fixpoints it can end in: it derives what all worlds  *)
(* that agree with a space agree on, and fails where there is none.  Every *)
(* monotone propagation is of this form, complete or not.                  *)
(***************************************************************************)
EXTENDS Integers, FiniteSets

CONSTANTS
    Length,     \* the length of the list
    Theories,   \* sets of worlds; a world is [true, false], sets of literals
    Variables,  \* varSets_: the constraint variables of each literal, by place
    Methods     \* the variants to run

Negated == Length + 1       \* ~l, of which there is a constraint as well
Literals == 1 .. Length
Constraints == 1 .. Length + 1

Linear == {"LinearIISCA", "FwdLinearIISCA", "LinearIRSRA", "FwdLinearIRSRA"}
Forward == {"FwdLinearIISCA", "FwdLinearIRSRA"}
Ranges == {"RangeCA", "RangeIRSRA"}
Connected == {"CCIISCA", "CCRangeCA", "CCIRSRA", "CCRangeRA"}
Clones == Linear \cup {"CCIISCA", "CCIRSRA"}
Reasons == {"LinearIRSRA", "FwdLinearIRSRA", "RangeIRSRA", "CCIRSRA", "CCRangeRA"}

ASSUME ReductionAssumption ==
    /\ Length \in Nat
    /\ \A theory \in Theories : \A w \in theory :
        w.true \subseteq Constraints /\ w.false \subseteq Constraints /\ w.true \cap w.false = {}
    /\ Methods \subseteq Linear \cup Ranges \cup Connected

VARIABLES
    theory,     \* the worlds of the root space
    method,     \* the variant
    last,       \* the flag of shrink(): the last literal is in the conflict
    phase,      \* "start", "clone", "scan" or "done"
    result,     \* newConflict, reason
    original,   \* the literals the space original has
    tester,     \* those of its clone
    from, to,   \* what is left of the list: start and the place before end
    at,         \* the place of the iterator
    done, kept, \* done and conflictDone, reasonDone
    checker,    \* the variables of what has been looked at
    resultChecker, \* conflictChecker, reasonChecker
    seen        \* checker when the pass over the list began

window == <<from, to>>
visits == <<done, kept, checker, resultChecker, seen>>
inputs == <<theory, method, last>>
vars == <<inputs, phase, result, original, tester, window, at, visits>>

-----------------------------------------------------------------------------
(* status() == SS_FAILED                                                   *)
Failed(lits) == \A w \in theory : ~(lits \subseteq w.true)

(* getValueOfConstraint()                                                  *)
IsTrue(lits, i) == \A w \in theory : lits \subseteq w.true => i \in w.true
IsFalse(lits, i) == \A w \in theory : lits \subseteq w.true => i \in w.false

IsReason == method \in Reasons
Extra == IF IsReason THEN {Negated} ELSE {}

-----------------------------------------------------------------------------
Init ==
    /\ theory \in Theories /\ method \in Methods /\ last \in BOOLEAN
    /\ IsReason => ~last
    /\ Failed(Literals \cup Extra)
    /\ phase = "start"
    /\ result = {} /\ original = {} /\ tester = {}
    /\ from = 1 /\ to = Length /\ at = 0
    /\ done = {} /\ kept = {} /\ checker = {} /\ resultChecker = {} /\ seen = {}

(* The variants with a clone of original begin again with a new one.       *)
Begin == IF method \in Clones THEN "clone" ELSE "scan"

StopOrGoOn == phase' = IF Failed(original') THEN "done" ELSE Begin

(* An empty list stays, and a root space that failed explains all.         *)
NothingToDo ==
    /\ phase = "start" /\ (Length = 0 \/ Failed({}))
    /\ phase' = "done"
    /\ UNCHANGED <<inputs, result, original, tester, window, at, visits>>

(* The last literal of a conflict is taken over if the flag says so; ~l is *)
(* in the space of a reason and not in the result.                         *)
Start ==
    /\ phase = "start" /\ Length > 0 /\ ~Failed({})
    /\ LET first == IF last THEN {Length} ELSE {}
       IN /\ original' = first \cup Extra
          /\ result' = first /\ kept' = first /\ done' = first
          /\ to' = IF last THEN Length - 1 ELSE Length
          /\ at' = IF method \in Connected THEN Length ELSE to'
          /\ resultChecker' = IF last THEN Variables[Length] ELSE {}
          /\ checker' = Variables[IF IsReason THEN Negated ELSE Length]
    /\ seen' = checker' /\ tester' = original'
    /\ StopOrGoOn
    /\ UNCHANGED <<inputs, from>>

(* original->clone(), while there is something left of the list.           *)
Clone ==
    /\ phase = "clone"
    /\ tester' = original /\ done' = kept /\ seen' = checker
    /\ at' = CASE method \in Connected -> Length [] method \in Forward -> from [] OTHER -> to
    /\ phase' = IF method \in Linear /\ from > to THEN "done" ELSE "scan"
    /\ UNCHANGED <<inputs, result, original, window, kept, checker, resultChecker>>

Take(i) == original' = original \cup {i} /\ result' = result \cup {i}

-----------------------------------------------------------------------------
(* The linear variants add literal after literal to the clone.  When it    *)
(* fails, the literal is needed and those beyond it are not; when all but  *)
(* the one at the other end have been added in vain, that one is needed.   *)
KeepFrom(i) == from' = i /\ to' = to        \* backward: start = it

DropBefore(i) == from' = from /\ to' = i - 2    \* mutant: end is one too low

DropFrom(i) == from' = from /\ to' = i - 1  \* forward: end = it

ScanFails ==
    /\ phase = "scan" /\ method \in Linear /\ Failed(tester \cup {at})
    /\ Take(at)
    /\ IF method \in Forward THEN DropFrom(at) ELSE KeepFrom(at)
    /\ StopOrGoOn
    /\ UNCHANGED <<inputs, tester, at, visits>>

OtherEnd == IF method \in Forward THEN to ELSE from
NextToEnd == IF method \in Forward THEN at = to - 1 ELSE at = from + 1

ScanReachesEnd ==
    /\ phase = "scan" /\ method \in Linear /\ ~Failed(tester \cup {at}) /\ NextToEnd
    /\ Take(OtherEnd)
    /\ IF method \in Forward THEN DropFrom(to) ELSE KeepFrom(from + 1)
    /\ StopOrGoOn
    /\ UNCHANGED <<inputs, tester, at, visits>>

(* Behind the end of the list a scan begins again with a new clone.        *)
ScanGoesOn ==
    /\ phase = "scan" /\ method \in Linear /\ ~Failed(tester \cup {at}) /\ ~NextToEnd
    /\ at' = IF method \in Forward THEN at + 1 ELSE at - 1
    /\ tester' = tester \cup {at}
    /\ phase' = IF at' \in from .. to THEN "scan" ELSE "clone"
    /\ UNCHANGED <<inputs, result, original, window, visits>>

-----------------------------------------------------------------------------
(* RangeCA and RangeIRSRA take literals from the end of the list until the *)
(* space fails.  RangeCA looks at the value of a literal first.            *)
RangeSkips ==
    /\ phase = "scan" /\ method = "RangeCA" /\ IsTrue(original, at)
    /\ at' = at - 1
    /\ phase' = IF at' = 0 THEN "done" ELSE "scan"
    /\ UNCHANGED <<inputs, result, original, tester, window, visits>>

RangeCloses ==
    /\ phase = "scan" /\ method = "RangeCA" /\ ~IsTrue(original, at) /\ IsFalse(original, at)
    /\ result' = result \cup {at}
    /\ phase' = "done"
    /\ UNCHANGED <<inputs, original, tester, window, at, visits>>

RangeTakes ==
    /\ phase = "scan" /\ method \in Ranges
    /\ method = "RangeCA" => ~IsTrue(original, at) /\ ~IsFalse(original, at)
    /\ Take(at)
    /\ at' = at - 1
    /\ phase' = IF Failed(original') \/ at' = 0 THEN "done" ELSE "scan"
    /\ UNCHANGED <<inputs, tester, window, visits>>

-----------------------------------------------------------------------------
(* The connected variants visit, pass after pass, the literals that share  *)
(* a variable with those visited before.                                   *)
Visiting == phase = "scan" /\ method \in Connected /\ at > 0
Touches(i) == checker \cap Variables[i] # {}

VisitSkips ==
    /\ Visiting
    /\ at \in done \/ (~IsTrue(original, at) /\ ~IsFalse(original, at) /\ ~Touches(at))
    /\ at' = at - 1
    /\ UNCHANGED <<inputs, phase, result, original, tester, window, visits>>

VisitKnows ==
    /\ Visiting /\ at \notin done /\ IsTrue(original, at)
    /\ at' = at - 1
    /\ checker' = checker \cup Variables[at]
    /\ done' = done \cup {at} /\ kept' = kept \cup {at}
    /\ UNCHANGED <<inputs, phase, result, original, tester, window, resultChecker, seen>>

VisitCloses ==
    /\ Visiting /\ at \notin done /\ ~IsTrue(original, at) /\ IsFalse(original, at)
    /\ result' = result \cup {at}
    /\ phase' = "done"
    /\ UNCHANGED <<inputs, original, tester, window, at, visits>>

Visited == Visiting /\ at \notin done /\ ~IsTrue(original, at) /\ ~IsFalse(original, at) /\ Touches(at)

SettledAlone(i) == {i}              \* mutant: conflictDone|=~done is missing

(* The variants that end up irreducible add the literal to the clone; when *)
(* it fails, what the clone does not have is never looked at again.        *)
SettledBy(i) == {i} \cup (Literals \ done)

VisitFails ==
    /\ Visited /\ method \in Clones /\ Failed(tester \cup {at})
    /\ Take(at)
    /\ done' = done \cup {at}
    /\ kept' = kept \cup SettledBy(at)
    /\ resultChecker' = resultChecker \cup Variables[at]
    /\ checker' = resultChecker'
    /\ StopOrGoOn
    /\ UNCHANGED <<inputs, tester, window, at, seen>>

VisitAdds ==
    /\ Visited /\ method \in Clones /\ ~Failed(tester \cup {at})
    /\ tester' = tester \cup {at}
    /\ done' = done \cup {at}
    /\ checker' = checker \cup Variables[at]
    /\ at' = at - 1
    /\ UNCHANGED <<inputs, phase, result, original, window, kept, resultChecker, seen>>

(* The others take every literal they visit until the space fails.         *)
VisitTakes ==
    /\ Visited /\ method \notin Clones
    /\ Take(at)
    /\ done' = done \cup {at}
    /\ checker' = IF Failed(original') THEN checker ELSE checker \cup Variables[at]
    /\ phase' = IF Failed(original') THEN "done" ELSE "scan"
    /\ at' = at - 1
    /\ UNCHANGED <<inputs, tester, window, kept, resultChecker, seen>>

(* A pass that brought no new variable is followed by one over the rest.   *)
AllVariables == UNION {Variables[i] : i \in Constraints}

SameChecker == checker      \* mutant: checker.set() is missing

NextChecker == IF seen = checker THEN AllVariables ELSE checker

NextPass ==
    /\ phase = "scan" /\ method \in Connected /\ at = 0
    /\ checker' = NextChecker
    /\ seen' = checker' /\ at' = Length
    /\ UNCHANGED <<inputs, phase, result, original, tester, window, done, kept, resultChecker>>

Next ==
    \/ NothingToDo \/ Start \/ Clone
    \/ ScanFails \/ ScanReachesEnd \/ ScanGoesOn
    \/ RangeSkips \/ RangeCloses \/ RangeTakes
    \/ VisitSkips \/ VisitKnows \/ VisitCloses \/ VisitFails \/ VisitAdds \/ VisitTakes \/ NextPass
    \/ phase = "done" /\ UNCHANGED vars

Spec == Init /\ [][Next]_vars

(* Each step of a variant is sequential code.                              *)
FairSpec == Spec /\ WF_vars(Next)

-----------------------------------------------------------------------------
TypeOK ==
    /\ method \in Methods /\ last \in BOOLEAN
    /\ phase \in {"start", "clone", "scan", "done"}
    /\ result \subseteq Literals /\ original \subseteq Constraints /\ tester \subseteq Constraints
    /\ from \in 1 .. Length + 1 /\ to \in 0 .. Length /\ at \in 0 .. Length + 1
    /\ done \subseteq Literals /\ kept \subseteq Literals

(* What is left of a conflict is one: the assertion behind Ende.           *)
ResultFails == phase = "done" => Failed(result \cup Extra)

(* The variants that are called irreducible leave no literal that could be *)
(* dropped, but for the one that was taken over as surely conflicting.     *)
Irreducible ==
    phase = "done" /\ method \in Clones =>
        \A i \in result \ (IF last THEN {Length} ELSE {}) : ~Failed((result \ {i}) \cup Extra)

(* A literal is visited at most once between two clones ("should not       *)
(* happen, otherwise i would have found a reason before and exit").        *)
AlwaysMoreToVisit ==
    Visiting => done # Literals

(* Every variant ends.                                                     *)
ReductionEnds == <>(phase = "done")
=============================================================================
