---------------------------- MODULE CspPropagation ----------------------------
(***************************************************************************)
(* The dialogue of clasp and Gecode (gecodesolver.cpp): clasp assigns      *)
(* literals of constraints on decision levels, GecodeSolver tells them to  *)
(* a stack of search spaces, one for each level that has such literals,    *)
(* and tells clasp what Gecode derives and where it fails.  Telling clasp  *)
(* a literal may make clasp backjump, which calls undo() of GecodeSolver   *)
(* in the middle of its own propagation: pc is the place in the code, and  *)
(* clasp acts in "search", "fixpoint", "conflict", "undo" and "model".     *)
(*                                                                         *)
(* A literal is an atom's number or its negative.  What Gecode knows is a  *)
(* set of worlds, truth values of all literals with a cost: a space        *)
(* derives what the worlds that agree with it have in common and fails if  *)
(* there is none.  Only the real worlds have a solution of the variables;  *)
(* the others are what propagation alone does not see.                     *)
(***************************************************************************)
EXTENDS Integers, Sequences, FiniteSets, SequencesExt, FiniteSetsExt

CONSTANTS
    Atoms,      \* the atoms of constraints: 1 .. n
    Theories,   \* sets of worlds [lits, cost, real]
    Options     \* records [lazy, delay, cloning, optimize, others]: the command
                \* line, and a bound on the decisions on other atoms

Literals == Atoms \cup {-a : a \in Atoms}
Free == -1
NoBound == 2    \* above every cost

ASSUME CspAssumption ==
    /\ Atoms \subseteq Nat \ {0}
    /\ \A theory \in Theories : \A w \in theory :
        w.cost \in 0 .. NoBound - 1 /\ w.lits \subseteq Literals /\ \A a \in Atoms : a \in w.lits <=> -a \notin w.lits
    /\ \A o \in Options : {o.delay, o.cloning, o.others} \subseteq Nat /\ {o.lazy, o.optimize} \subseteq BOOLEAN

VARIABLES
    worlds, option,
    (* clasp *)
    DL,         \* s_->decisionLevel()
    level,      \* the level of each true literal, Free for the others
    pending,    \* assigned, but not yet propagated by clasp
    watched,    \* the levels with an undo watch
    conflict,   \* the conflict that was set
    jump,       \* a backjump: where it goes, what it makes true there (0: nothing), why, who waits
    (* GecodeSolver *)
    propQueue, assignment, dl, assLength, spaces, propagated,
    copies, delays, \* deepCopyCounter_, cspPropDelayCounter_
    derived,    \* derivedLits_
    impliedLits,
    litToAssPosition,   \* of the literals whose antecedent is dummyReason_
    best, updateOpt,    \* optValues, updateOpt_
    pc,         \* the place in the code
    call        \* the local variables of the call, see NoCall

theory == <<worlds, option>>
trail == <<DL, level, pending, watched>>
book == <<assignment, dl, assLength, spaces, propagated>>
counters == <<copies, delays>>
learnt == <<impliedLits, litToAssPosition>>
optimum == <<best, updateOpt>>
vars == <<theory, trail, conflict, jump, propQueue, book, counters, derived, learnt, optimum, pc, call>>

(* return: where propagateNewLiteralsToClasp() goes on; place: the index   *)
(* of the space it is called for; clits: what is left of the literals;     *)
(* stop: the end of the loop of finishPropagation(), caller: who called it; *)
(* oldDL: the level before.  They end with the call, as derivedLits_ does,  *)
(* which every use clears first.                                           *)
NoCall == [return |-> "search", place |-> 1, clits |-> <<>>, stop |-> 0, caller |-> "propagate", oldDL |-> 0]
NoJump == [goal |-> 0, lit |-> 0, len |-> Free, resume |-> "search"]
Return(p) == pc' = p /\ call' = NoCall /\ derived' = {}
-----------------------------------------------------------------------------
IsTrue(l) == level[l] # Free
IsFalse(l) == level[-l] # Free
IsFree(l) == ~IsTrue(l) /\ ~IsFalse(l)
TrueLits == {l \in Literals : IsTrue(l)}
UpTo(n) == {l \in TrueLits : level[l] <= n}
LevelOf(lits) == IF lits = {} THEN 0 ELSE Max({level[l] : l \in lits})

Prefix(n) == ToSet(SubSeq(assignment, 1, n))

(* What Gecode knows of the literals it was told, under a bound.           *)
Agree(space) == {w \in worlds : space.lits \subseteq w.lits /\ w.cost < space.bound}
Failed(space) == Agree(space) = {}
Closure(space) == {l \in Literals : \A w \in Agree(space) : l \in w.lits}

Space(lits, bound) == [kept |-> TRUE, lits |-> lits, bound |-> bound]
Moved == [kept |-> FALSE, lits |-> {}, bound |-> NoBound]
With(space, lits) == [space EXCEPT !.lits = @ \cup lits]
Root == spaces[1]

(* The solutions clasp looks for: the meaning of its clauses.              *)
Solutions(lits) == {w \in worlds : w.real /\ lits \subseteq w.lits /\ w.cost < best}
Implies(lits, l) == \A w \in Solutions(lits) : l \in w.lits

BelowOnly(n) ==     \* mutant: what the space that was moved knew is not told again
    IF Last(spaces).kept THEN Last(spaces) ELSE spaces[Max({j \in DOMAIN spaces : spaces[j].kept})]

(* getCurrentSpace(): a space that was moved up is made again from the     *)
(* nearest one below, and what it derives is not recorded.                 *)
CurrentAfter(n) ==
    IF Last(spaces).kept THEN Last(spaces)
    ELSE LET i == Max({j \in DOMAIN spaces : spaces[j].kept})
         IN With(spaces[i], ToSet(SubSeq(assignment, assLength[i] + 1, n)))
Current == CurrentAfter(propagated)
WithCurrent(sps, space) == [sps EXCEPT ![Len(sps)] = space]

(* A space for the next level: a clone, or the one below itself.           *)
NextCopies == IF option.cloning # 0 THEN copies + 1 ELSE copies
Clones == NextCopies = option.cloning \/ Len(spaces) = 1
PushSpace ==
    /\ copies' = IF Clones THEN 0 ELSE NextCopies
    /\ spaces' = IF Clones THEN Append(WithCurrent(spaces, Current), Current)
                 ELSE Append(WithCurrent(spaces, Moved), Last(spaces))

-----------------------------------------------------------------------------
Init ==
    /\ worlds \in Theories /\ option \in Options
    /\ option.optimize <=> \E w \in worlds : w.cost # 0
    /\ DL = 0 /\ level = [l \in Literals |-> Free] /\ pending = <<>> /\ watched = {}
    /\ conflict = {} /\ jump = NoJump
    /\ propQueue = <<>> /\ assignment = <<>> /\ propagated = 0
    /\ dl = <<0>> /\ assLength = <<0>> /\ spaces = <<Space({}, NoBound)>>
    /\ copies = (IF option.cloning = 0 THEN 1 ELSE 0) /\ delays = 1
    /\ impliedLits = {} /\ litToAssPosition = [l \in Literals |-> Free]
    /\ best = NoBound /\ updateOpt = FALSE
    /\ derived = Closure(Root)
    /\ pc = (IF Failed(Root) THEN "unsat" ELSE "tell")
    /\ call = NoCall

(* ----- clasp ----------------------------------------------------------- *)
Assign(l, n) ==
    /\ level' = [level EXCEPT ![l] = n]
    /\ pending' = Append(pending, l)

Decide ==
    /\ pc = "fixpoint"
    /\ DL' = DL + 1
    /\ \E l \in {k \in Literals : IsFree(k)} : Assign(l, DL + 1)
    /\ pc' = "search"
    /\ UNCHANGED <<theory, watched, conflict, jump, propQueue, book, counters, derived, learnt, optimum, call>>

(* A decision on an atom without a constraint.                             *)
DecideOther ==
    /\ pc = "fixpoint" /\ \E l \in Literals : IsFree(l)
    /\ DL + Cardinality({a \in Atoms : IsFree(a)}) < Cardinality(Atoms) + option.others
    /\ DL' = DL + 1
    /\ UNCHANGED <<theory, level, pending, watched, conflict, jump, propQueue, book, counters, derived, learnt, optimum, pc, call>>

(* Unit propagation of the clauses clasp has, whichever it learnt.         *)
Infer ==
    /\ pc = "search" /\ pending = <<>> /\ Solutions(TrueLits) # {}
    /\ \E l \in Literals :
        /\ IsFree(l) /\ Implies(TrueLits, l)
        /\ DL > 0 => ~Implies(UpTo(DL - 1), l)
        /\ Assign(l, DL)
    /\ UNCHANGED <<theory, DL, watched, conflict, jump, propQueue, book, counters, derived, learnt, optimum, pc, call>>

Clash ==
    /\ pc = "search" /\ Solutions(TrueLits) = {}
    /\ conflict' = TrueLits
    /\ pc' = "conflict"
    /\ UNCHANGED <<theory, trail, jump, propQueue, book, counters, derived, learnt, optimum, call>>

(* propagateLiteral(): a watched literal became true.                      *)
PropagateLiteral ==
    /\ pc = "search" /\ pending # <<>>
    /\ propQueue' = Append(propQueue, Head(pending))
    /\ pending' = Tail(pending)
    /\ UNCHANGED <<theory, DL, level, watched, conflict, jump, book, counters, derived, learnt, optimum, pc, call>>

(* clasp resolves a conflict: reset(), and a literal of the conflict is    *)
(* refuted on a lower level.  A conflict on level 0 ends the search.       *)
Resolve ==
    /\ pc = "conflict" /\ LevelOf(conflict) > 0
    /\ \E n \in 0 .. DL, l \in TrueLits :
        /\ n < LevelOf(conflict) /\ level[l] > n /\ Implies(UpTo(n), -l)
        /\ jump' = [NoJump EXCEPT !.goal = n, !.lit = -l]
    /\ conflict' = {}
    /\ propQueue' = <<>> /\ pending' = <<>>
    /\ pc' = "undo"
    /\ UNCHANGED <<theory, DL, level, watched, book, counters, derived, learnt, optimum, call>>

GiveUp ==
    /\ pc = "conflict" /\ LevelOf(conflict) = 0
    /\ pc' = "unsat"
    /\ UNCHANGED <<theory, trail, conflict, jump, propQueue, book, counters, derived, learnt, optimum, call>>

PopKeeps ==     \* mutant: propagated_ stays
    LET n == assLength[Len(dl) - 1]
    IN  /\ dl' = Front(dl) /\ assLength' = Front(assLength)
        /\ assignment' = SubSeq(assignment, 1, n) /\ propagated' = propagated
        /\ spaces' = IF Len(spaces) > Len(dl) - 1 THEN Front(spaces) ELSE spaces
        /\ propQueue' = <<>>

(* undo(): the last level of GecodeSolver is dropped.                      *)
PopLevel ==
    LET n == assLength[Len(dl) - 1]
    IN  /\ dl' = Front(dl) /\ assLength' = Front(assLength)
        /\ assignment' = SubSeq(assignment, 1, n)
        /\ propagated' = Min({propagated, n})
        /\ spaces' = IF Len(spaces) > Len(dl) - 1 THEN Front(spaces) ELSE spaces
        /\ propQueue' = <<>>

UndoLevel ==
    /\ pc = "undo" /\ DL > jump.goal
    /\ DL' = DL - 1
    /\ level' = [l \in Literals |-> IF level[l] = DL THEN Free ELSE level[l]]
    /\ litToAssPosition' = [l \in Literals |-> IF level[l] = DL THEN Free ELSE litToAssPosition[l]]
    /\ pending' = <<>>     \* what is not propagated is on the last level
    /\ IF DL \in watched THEN PopLevel /\ watched' = watched \ {DL}
       ELSE UNCHANGED <<watched, book, propQueue>>
    /\ UNCHANGED <<theory, conflict, jump, counters, derived, impliedLits, optimum, pc, call>>

Arrive ==
    /\ pc = "undo" /\ DL = jump.goal
    /\ IF jump.lit = 0 THEN UNCHANGED <<level, pending>> ELSE Assign(jump.lit, DL)
    /\ pc' = jump.resume /\ jump' = NoJump
    /\ litToAssPosition' = IF jump.len = Free THEN litToAssPosition ELSE [litToAssPosition EXCEPT ![jump.lit] = jump.len]
    /\ UNCHANGED <<theory, DL, watched, conflict, propQueue, book, counters, derived, impliedLits, optimum, call>>

(* GecodeSolver tells clasp that the prefix of length n implies l: clasp   *)
(* backjumps to the level on which it is implied.  With lazy learning that *)
(* is level m and the reason is made when clasp asks for it; otherwise the *)
(* reason is made now from a part of the prefix and clasp takes its level. *)
Imply(l, n, m, next) ==
    /\ \E k \in IF option.lazy THEN {m} ELSE 0 .. m :
        /\ l \in Closure(With(Root, {a \in Prefix(n) : level[a] <= k}))
        /\ jump' = [goal |-> k, lit |-> l, len |-> IF option.lazy THEN n ELSE Free, resume |-> next]
    /\ pc' = "undo"

(* setConflict(): shrunk to a part that fails, see ConflictReduction.      *)
SetConflict(lits) ==
    /\ conflict' \in IF lits = {} THEN {{}} ELSE {c \in SUBSET lits : Failed(Space(Root.lits \cup c, best))}
    /\ Return("conflict")

-----------------------------------------------------------------------------
(* propagate(), which clasp calls when its own propagation is done.        *)
Propagate ==
    /\ (pc = "search" /\ pending = <<>>) \/ pc = "call"
    /\ spaces' = WithCurrent(spaces, Current)
    /\ IF Failed(Current) THEN SetConflict(Prefix(propagated)) /\ UNCHANGED <<updateOpt, impliedLits>>
       ELSE /\ call' = [NoCall EXCEPT !.oldDL = DL]
            /\ IF updateOpt THEN pc' = "minimize" /\ updateOpt' = FALSE /\ impliedLits' = {}
               ELSE pc' = "old" /\ UNCHANGED <<updateOpt, impliedLits>>
            /\ UNCHANGED <<conflict, derived>>
    /\ UNCHANGED <<theory, trail, jump, propQueue, assignment, dl, assLength, propagated, counters, litToAssPosition, best>>

(* propagateOldLits(): literals that were true for a worse reason, on a    *)
(* level that is gone; e.level is where they hold anyway.                  *)
Old == {e \in impliedLits : e.key > DL}
NextOld == {e \in Old : \A f \in Old : f.key <= e.key}

ImplyOld ==
    /\ pc = "old"
    /\ \E e \in NextOld :
        /\ IsFree(e.lit) /\ e.level <= DL
        /\ Imply(e.lit, e.len, e.level, "old")
        /\ impliedLits' = impliedLits \ {e}
    /\ UNCHANGED <<theory, trail, conflict, propQueue, book, counters, derived, litToAssPosition, optimum, call>>

DropOld ==
    /\ pc = "old"
    /\ \E e \in NextOld :
        /\ IF IsFree(e.lit) THEN e.level > DL
           ELSE DL <= e.level \/ IsTrue(e.lit) \/ level[-e.lit] < e.level
        /\ impliedLits' = (impliedLits \ {e}) \cup
            IF e.level < DL /\ level[e.lit] > e.level THEN {[e EXCEPT !.key = level[e.lit]]} ELSE {}
    /\ UNCHANGED <<theory, trail, conflict, jump, propQueue, book, counters, derived, litToAssPosition, optimum, pc, call>>

RefuteOld ==
    /\ pc = "old"
    /\ \E e \in NextOld :
        /\ IsFalse(e.lit) /\ e.level < DL /\ level[-e.lit] >= e.level
        /\ SetConflict(Prefix(e.len) \cup {-e.lit})
        /\ impliedLits' = impliedLits \ {e}
    /\ UNCHANGED <<theory, trail, jump, propQueue, book, counters, litToAssPosition, optimum>>

OldDoneGoesOn ==     \* mutant: the queue is not cleared after a backjump
    /\ pc = "old" /\ Old = {}
    /\ pc' = "filter"
    /\ UNCHANGED <<theory, trail, conflict, jump, propQueue, book, counters, derived, learnt, optimum, call>>


OldDone ==
    /\ pc = "old" /\ Old = {}
    /\ IF call.oldDL > DL THEN propQueue' = <<>> /\ Return("search")
       ELSE pc' = "filter" /\ UNCHANGED <<propQueue, derived, call>>
    /\ UNCHANGED <<theory, trail, conflict, jump, book, counters, learnt, optimum>>

(* The queue against the current space: what the space knows already is    *)
(* dropped, and what it refutes is a conflict.                             *)
Known == Closure(Last(spaces))

Examine ==
    /\ pc = "filter" /\ propQueue # <<>> /\ -Head(propQueue) \notin Known
    /\ call' = IF Head(propQueue) \in Known THEN call ELSE [call EXCEPT !.clits = Append(@, Head(propQueue))]
    /\ propQueue' = Tail(propQueue)
    /\ UNCHANGED <<theory, trail, conflict, jump, book, counters, derived, learnt, optimum, pc>>

Refute ==
    /\ pc = "filter" /\ propQueue # <<>> /\ -Head(propQueue) \in Known
    /\ SetConflict(Prefix(propagated) \cup {Head(propQueue)})
    /\ UNCHANGED <<theory, trail, jump, propQueue, book, counters, learnt, optimum>>

Examined == pc = "filter" /\ propQueue = <<>>
New == call.clits

NothingNew ==
    /\ Examined /\ New = <<>>
    /\ Return(IF pending = <<>> THEN "fixpoint" ELSE "search")
    /\ UNCHANGED <<theory, trail, conflict, jump, propQueue, book, counters, learnt, optimum>>

(* _propagate() on level 0: the literals belong to the root space.         *)
PropagateRoot ==
    /\ Examined /\ New # <<>> /\ DL = 0
    /\ LET space == With(Last(spaces), ToSet(New))
       IN  /\ spaces' = WithCurrent(spaces, space)
           /\ IF Failed(space) THEN SetConflict({})
              ELSE pc' = "tell" /\ call' = NoCall /\ derived' = Closure(space) \ Known /\ UNCHANGED conflict
    /\ UNCHANGED <<theory, trail, jump, propQueue, assignment, dl, assLength, propagated, counters, learnt, optimum>>

Due == option.delay # 0 /\ delays + 1 > option.delay

(* It is not yet time: the literals are only noted.                        *)
Postpone ==
    /\ Examined /\ New # <<>> /\ DL > 0 /\ ~Due
    /\ delays' = IF option.delay = 0 THEN delays ELSE delays + 1
    /\ assignment' = assignment \o New
    /\ IF DL # Last(dl)
       THEN dl' = Append(dl, DL) /\ assLength' = Append(assLength, Len(assignment')) /\ watched' = watched \cup {DL}
       ELSE assLength' = [assLength EXCEPT ![Len(dl)] = Len(assignment')] /\ UNCHANGED <<dl, watched>>
    /\ Return(IF pending = <<>> THEN "fixpoint" ELSE "search")
    /\ UNCHANGED <<theory, DL, level, pending, conflict, jump, propQueue, spaces, propagated, copies, learnt, optimum>>

CatchUp ==
    /\ Examined /\ New # <<>> /\ DL > 0 /\ Due
    /\ delays' = 1
    /\ call' = [NoCall EXCEPT !.clits = New, !.oldDL = DL]
    /\ pc' = "finish" /\ derived' = {}
    /\ UNCHANGED <<theory, trail, conflict, jump, propQueue, book, copies, learnt, optimum>>

(* finishPropagation(): the rest of the current space, then the next one.  *)
Finish ==
    /\ pc = "finish" /\ propagated < Last(assLength)
    /\ LET n == Len(spaces)
       IN IF assLength[n] > propagated
          THEN call' = [call EXCEPT !.stop = assLength[n]] /\ UNCHANGED <<copies, spaces>>
          ELSE call' = [call EXCEPT !.stop = assLength[n + 1]] /\ PushSpace
    /\ pc' = "redo" /\ derived' = {}
    /\ UNCHANGED <<theory, trail, conflict, jump, propQueue, assignment, dl, assLength, propagated, delays, learnt, optimum>>

(* The next literal of the assignment goes to the current space.           *)
Tell(l, rest, next) ==
    LET old == CurrentAfter(propagated + 1)
        space == With(old, {l})
    IN  /\ spaces' = WithCurrent(spaces, space)
        /\ propagated' = propagated + 1
        /\ IF Failed(space) THEN SetConflict(Prefix(propagated + 1))
           ELSE /\ derived' = derived \cup (Closure(space) \ Closure(old))
                /\ pc' = "tell" /\ call' = [call EXCEPT !.place = Len(spaces), !.return = next, !.clits = rest]
                /\ UNCHANGED conflict

Redo ==
    /\ pc = "redo" /\ call.oldDL <= DL /\ propagated < call.stop
    /\ Tell(assignment[propagated + 1], call.clits, "redo")
    /\ UNCHANGED <<theory, trail, jump, propQueue, assignment, dl, assLength, counters, learnt, optimum>>

RedoDone ==
    /\ pc = "redo" /\ call.oldDL <= DL /\ propagated = call.stop
    /\ pc' = "finish"
    /\ UNCHANGED <<theory, trail, conflict, jump, propQueue, book, counters, derived, learnt, optimum, call>>

(* clasp went back meanwhile: the callers give up.                         *)
Backjumped ==
    /\ pc \in {"redo", "each"} /\ call.oldDL > DL
    /\ Return("search")
    /\ UNCHANGED <<theory, trail, conflict, jump, propQueue, book, counters, learnt, optimum>>

CaughtEarly(caller) == pc = "finish" /\ call.caller = caller    \* mutant: nothing is caught up on


Caught(caller) == pc = "finish" /\ propagated = Last(assLength) /\ call.caller = caller

(* The new literals of _propagate(), with a space for a new level.         *)
Insert ==
    /\ Caught("propagate")
    /\ assignment' = assignment \o call.clits
    /\ IF DL # Last(dl)
       THEN /\ PushSpace
            /\ watched' = watched \cup {DL}
            /\ dl' = Append(dl, DL) /\ assLength' = Append(assLength, Len(assignment'))
       ELSE UNCHANGED <<spaces, copies, watched, dl, assLength>>
    /\ pc' = "each"
    /\ UNCHANGED <<theory, DL, level, pending, conflict, jump, propQueue, propagated, delays, derived, learnt, optimum, call>>

Each ==
    /\ pc = "each" /\ call.oldDL <= DL /\ call.clits # <<>>
    /\ Tell(Head(call.clits), Tail(call.clits), "each")
    /\ assLength' = IF pc' = "tell" THEN [assLength EXCEPT ![Len(dl)] = propagated + 1] ELSE assLength
    /\ UNCHANGED <<theory, trail, jump, propQueue, assignment, dl, counters, learnt, optimum>>

EachDone ==
    /\ pc = "each" /\ call.oldDL <= DL /\ call.clits = <<>>
    /\ Return(IF pending = <<>> THEN "fixpoint" ELSE "search")
    /\ UNCHANGED <<theory, trail, conflict, jump, propQueue, book, counters, learnt, optimum>>

-----------------------------------------------------------------------------
(* propagateNewLiteralsToClasp(place).                                     *)
Level == dl[call.place]
WholeSize == propagated     \* mutant: the reason is all that was told


Size == IF call.place = Len(dl) THEN propagated ELSE assLength[call.place]

(* A derived literal is false.  finishPropagation() then drops the space.  *)
Contradict ==
    /\ pc = "tell"
    /\ \E l \in derived : IsFalse(l) /\ SetConflict(Prefix(Size) \cup {-l})
    /\ IF call.return = "redo"
       THEN spaces' = Front(spaces) /\ propagated' = assLength[Len(spaces) - 1]
       ELSE UNCHANGED <<spaces, propagated>>
    /\ UNCHANGED <<theory, trail, jump, propQueue, assignment, dl, assLength, counters, learnt, optimum>>

(* All are true already: the better reasons are remembered.                *)
Remember ==
    /\ pc = "tell" /\ derived \subseteq TrueLits
    /\ impliedLits' = impliedLits \cup
        {[lit |-> l, key |-> level[l], level |-> Level, len |-> Size] : l \in {k \in derived : level[k] > Level}}
    /\ pc' = call.return /\ derived' = IF call.return = "search" THEN {} ELSE derived
    /\ UNCHANGED <<theory, trail, conflict, jump, propQueue, book, counters, litToAssPosition, optimum, call>>

(* One after the other is implied, unless clasp went back too far.         *)
TooFar == call.place > Len(dl)
Untold == {l \in derived : IsFree(l) \/ (option.lazy /\ IsTrue(l) /\ level[l] > Level)}

TellLiteral ==
    /\ \/ pc = "tell" /\ (\E l \in derived : IsFree(l)) /\ \A l \in derived : ~IsFalse(l)
       \/ pc = "more" /\ ~TooFar
    /\ \E l \in Untold : Imply(l, Size, Level, "more")
    /\ UNCHANGED <<theory, trail, conflict, propQueue, book, counters, derived, learnt, optimum, call>>

AllTold ==
    /\ pc = "more" /\ (TooFar \/ Untold = {})
    /\ pc' = call.return /\ derived' = {}
    /\ UNCHANGED <<theory, trail, conflict, jump, propQueue, book, counters, learnt, optimum, call>>

-----------------------------------------------------------------------------
(* hasAnswer(): clasp has a total assignment; the rest of it is told, then *)
(* Gecode searches for values of the variables.                            *)
HasAnswer ==
    /\ pc = "fixpoint" /\ \A a \in Atoms : ~IsFree(a)
    /\ call' = [NoCall EXCEPT !.oldDL = DL, !.caller = "hasAnswer"]
    /\ pc' = "finish"
    /\ UNCHANGED <<theory, trail, conflict, jump, propQueue, book, counters, derived, learnt, optimum>>

Answers(space) == {w \in Agree(space) : w.real}
Enumerate ==
    /\ Caught("hasAnswer")
    /\ spaces' = WithCurrent(spaces, Current)
    /\ IF Answers(Current) # {}
       THEN /\ \E w \in Answers(Current) : best' = IF option.optimize THEN w.cost ELSE best
            /\ updateOpt' = option.optimize
            /\ Return("model") /\ UNCHANGED conflict
       ELSE conflict' = ToSet(assignment) /\ Return("conflict") /\ UNCHANGED optimum
    /\ UNCHANGED <<theory, trail, jump, propQueue, assignment, dl, assLength, propagated, counters, learnt>>

NextAnswer ==
    /\ pc = "model" /\ option.optimize
    /\ \E w \in Answers(Last(spaces)) : w.cost < best /\ best' = w.cost
    /\ UNCHANGED <<theory, trail, conflict, jump, propQueue, book, counters, derived, learnt, updateOpt, pc, call>>

(* clasp looks for a better model, from a level below.                     *)
NextModel ==
    /\ pc = "model" /\ option.optimize /\ \A w \in Answers(Last(spaces)) : w.cost >= best
    /\ IF DL = 0 THEN pc' = "unsat" /\ UNCHANGED jump
       ELSE pc' = "undo" /\ \E n \in 0 .. DL - 1 : jump' = [NoJump EXCEPT !.goal = n]
    /\ UNCHANGED <<theory, trail, conflict, propQueue, book, counters, derived, learnt, optimum, call>>

(* propagateMinimize(): the new bound goes to every space that is there.   *)
Minimize ==
    /\ pc = "minimize" /\ call.place <= Len(spaces) /\ spaces[call.place].kept
    /\ LET space == [spaces[call.place] EXCEPT !.bound = best]
           size == IF call.place = Len(spaces) THEN propagated ELSE assLength[call.place]
       IN  /\ spaces' = [spaces EXCEPT ![call.place] = space]
           /\ IF Failed(space) THEN SetConflict(Prefix(size)) /\ propQueue' = <<>>
              ELSE /\ derived' = Closure(space) \ Closure(spaces[call.place])
                   /\ pc' = IF derived' = {} THEN "next" ELSE "tell"
                   /\ call' = [call EXCEPT !.return = "minimized"]
                   /\ UNCHANGED <<conflict, propQueue>>
    /\ UNCHANGED <<theory, trail, jump, assignment, dl, assLength, propagated, counters, learnt, optimum>>

NextSpace ==
    /\ \/ pc = "minimize" /\ call.place <= Len(spaces) /\ ~spaces[call.place].kept
       \/ pc = "next"
       \/ pc = "minimized" /\ call.place < Len(spaces) /\ dl[call.place + 1] <= DL
    /\ pc' = "minimize" /\ call' = [call EXCEPT !.place = @ + 1]
    /\ UNCHANGED <<theory, trail, conflict, jump, propQueue, book, counters, derived, learnt, optimum>>

Minimized ==
    /\ \/ pc = "minimize" /\ call.place > Len(spaces)
       \/ pc = "minimized" /\ (call.place < Len(spaces) => dl[call.place + 1] > DL)
    /\ Return("call")
    /\ UNCHANGED <<theory, trail, conflict, jump, propQueue, book, counters, learnt, optimum>>

Done == pc \in {"unsat", "model"} /\ (pc = "model" => ~option.optimize) /\ UNCHANGED vars

Next ==
    \/ Decide \/ DecideOther \/ Infer \/ Clash \/ PropagateLiteral \/ Resolve \/ GiveUp \/ UndoLevel \/ Arrive
    \/ Propagate \/ ImplyOld \/ DropOld \/ RefuteOld \/ OldDone \/ Examine \/ Refute \/ NothingNew \/ PropagateRoot
    \/ Postpone \/ CatchUp \/ Finish \/ Redo \/ RedoDone \/ Backjumped \/ Insert \/ Each \/ EachDone
    \/ Contradict \/ Remember \/ TellLiteral \/ AllTold
    \/ HasAnswer \/ Enumerate \/ NextAnswer \/ NextModel \/ Minimize \/ NextSpace \/ Minimized \/ Done

Spec == Init /\ [][Next]_vars

-----------------------------------------------------------------------------
(* The arrays of GecodeSolver belong together: each level with literals    *)
(* has its end in the assignment, its literals are true on that very level *)
(* (so undo() drops what clasp drops), clasp calls undo() for it, and no   *)
(* two levels end at the same place (the assertions of undo() and          *)
(* _propagate()).                                                          *)
Segment(i) == {assignment[k] : k \in assLength[i - 1] + 1 .. assLength[i]}
Aligned ==
    /\ Len(dl) = Len(assLength) /\ Len(spaces) \in 1 .. Len(dl) /\ Root.kept
    /\ watched = ToSet(Tail(dl)) /\ Last(dl) <= DL
    /\ propagated <= Len(assignment) /\ Last(assLength) <= Len(assignment)
    /\ \A i \in 2 .. Len(dl) :
        /\ dl[i - 1] < dl[i] /\ assLength[i - 1] < assLength[i]
        /\ \A l \in Segment(i) : level[l] = dl[i]

(* "spaces_[dl_[Y]] is the fully propagated space of decision level dl[Y]": *)
(* a space that is there knows the literals of its levels, not more.       *)
SpacesExact ==
    \A i \in DOMAIN spaces : spaces[i].kept =>
        spaces[i].lits = Root.lits \cup Prefix(IF i = Len(spaces) THEN propagated ELSE assLength[i])

(* "conflict is the assigned variables in the index space" (setConflict()): *)
(* clasp is given a conflict of literals that are true.                    *)
ConflictIsTrue == pc = "conflict" => conflict \subseteq TrueLits

(* A conflict that is set for clasp is true, and it is one. A space that   *)
(* is there when propagate() is called has failed only if clasp is on      *)
(* level 0; one that is made again has not (the assertions there), unless  *)
(* propagateMinimize() gave a bound to the one below and passed it over.   *)
ConflictHolds ==
    /\ ConflictIsTrue
    /\ pc = "conflict" => Solutions(conflict) = {}
    /\ (pc = "search" /\ pending = <<>>) \/ pc = "call" =>
        IF Last(spaces).kept THEN Failed(Current) => DL = 0 ELSE Failed(Current) => option.optimize

(* The reason of a literal is made when clasp asks for it, from a prefix   *)
(* of the assignment that was noted by its length: it must still be the    *)
(* same prefix, hold on the level of the literal and imply it.  So must    *)
(* the better reasons that wait until clasp goes back.                     *)
Explains(n, l, k) ==
    /\ n <= Len(assignment)
    /\ Prefix(n) \subseteq UpTo(k)
    /\ l \in Closure(Space(Root.lits \cup Prefix(n), best))
ReasonsHold ==
    /\ \A l \in Literals : litToAssPosition[l] # Free => IsTrue(l) /\ Explains(litToAssPosition[l], l, level[l])
    /\ \A e \in impliedLits : e.level <= DL => Explains(e.len, e.lit, e.level)

(* When the search stops with an answer, it is one; when it stops without, *)
(* there is none, or none better than the last.                            *)
AnswersRight ==
    /\ pc = "model" => \E w \in worlds : w.real /\ w.lits = TrueLits /\ (option.optimize => w.cost = best)
    /\ pc = "unsat" => Solutions({}) = {}

=============================================================================
