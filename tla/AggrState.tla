------------------------------ MODULE AggrState ------------------------------
(***************************************************************************)
(* A ground aggregate from its first instance to its rules.  The grounder  *)
(* keeps the range of values it can still have, or for an assignment the   *)
(* values themselves, and decides from it whether the literal can match    *)
(* and whether it is a fact (libgringo/src/sumaggrlit.cpp,                 *)
(* minmaxaggrlit.cpp, aggrlit.cpp).  The statement of the aggregate is     *)
(* joined whenever its conditions have new instances, so more than once if *)
(* they depend on it, and is to see each value once.  The converter        *)
(* collects the instances and prints them when the step is over            *)
(* (LparseAggr).  The rules and the decisions are compared with what the   *)
(* aggregate means.                                                        *)
(*                                                                         *)
(* An element is a key of the set with its weight and with the instances   *)
(* of conditions that give it; they are ground in any order, and between   *)
(* any two of them the statement may be joined unless the aggregate is     *)
(* complete.                                                               *)
(***************************************************************************)
EXTENDS LparseAggr

CONSTANTS Aggregates,   \* kind, head, sign, assign, posWeights, complete and bounds
          Elements,     \* sets of [set, weight, insts]: what is going to be ground
          Allowed       \* sets of values that the other literals of the body allow

VARIABLES aggr,         \* the AggrLit
          coming,       \* <<element, number>> of the instances to be ground
          sets,         \* AggrState::sets_: the keys known, and those that are facts
          min, max,     \* the range of the value
          match, fact,  \* match() and fact_ of the state
          values,       \* AssignAggrState::assign_, or the marks of a BoundAggrState
          allowed,      \* the values that the other literals allow
          enqueued,     \* SimpleStatement::enqueued_
          finished,     \* AggrIndex::finished_
          given,        \* the values the statement has been ground with
          subst, heads, \* AggrState::subst_, and the heads that are in their domain
          late,         \* what was ground after a join: facts, heads (history)
          conds,        \* AggrCondPrinter: the instances collected for a key
          order,        \* the elements as sorted when they were printed
          rules         \* what finish() has printed, or NoRules

joinVars == <<allowed, finished, given, heads>>
vars == <<aggr, coming, sets, min, max, match, fact, values, enqueued, subst, late, joinVars,
          conds, order, rules>>

NoRules == {Basic(<<"not yet">>, <<>>)}

-----------------------------------------------------------------------------

(* AggrCond::grounded(): literals that are facts are not printed; an       *)
(* instance all of whose literals are facts is one.                        *)
IsFact(inst) == inst.head = NoAtom /\ inst.lits = <<>>

(* SumBoundAggrState::accumulate() and MinMaxBoundAggrState::accumulate(). *)
NewMin(a, m, w, isNew, newFact) ==
    CASE a.kind = "sum" -> m + (IF isNew THEN IF newFact \/ w < 0 THEN w ELSE 0
                                ELSE IF newFact /\ w >= 0 THEN w ELSE 0)
      [] a.kind = "min" -> IF isNew /\ w < m THEN w ELSE m
      [] a.kind = "max" -> IF newFact /\ w > m THEN w ELSE m

NewMax(a, m, w, isNew, newFact) ==
    CASE a.kind = "sum" -> m + (IF isNew THEN IF newFact \/ w >= 0 THEN w ELSE 0
                                ELSE IF newFact /\ w < 0 THEN w ELSE 0)
      [] a.kind = "min" -> IF newFact /\ w < m THEN w ELSE m
      [] a.kind = "max" -> IF isNew /\ w > m THEN w ELSE m

(* BoundAggrState::checkBounds(): some or every value is out of bounds.    *)
Empty(a) == IF a.lleq /\ a.uleq THEN a.upper < a.lower ELSE a.upper <= a.lower
SomeOut(a, lo, hi) == Empty(a) \/ ~AtLeast(a, lo) \/ ~AtMost(a, hi)
AllOut(a, lo, hi) == Empty(a) \/ ~AtLeast(a, hi) \/ ~AtMost(a, lo)

Matches(a, lo, hi) == IF a.sign THEN SomeOut(a, lo, hi) ELSE ~AllOut(a, lo, hi)
Decided(a, lo, hi) == IF a.sign THEN AllOut(a, lo, hi) ELSE ~SomeOut(a, lo, hi)

(* The value of no element.                                                *)
Neutral(a) == CASE a.kind = "sum" -> 0 [] a.kind = "min" -> Sup [] a.kind = "max" -> Inf

OnlyLower(a) == a.lower # Inf /\ a.upper = Sup
OnlyUpper(a) == a.upper # Sup /\ a.lower = Inf

GrowingAnyWeight(a) ==           \* mutant: weights may be negative
    CASE a.kind = "sum" -> IF a.sign THEN OnlyUpper(a) ELSE OnlyLower(a)
      [] a.kind = "min" -> IF a.sign THEN OnlyLower(a) ELSE OnlyUpper(a)
      [] a.kind = "max" -> IF a.sign THEN OnlyUpper(a) ELSE OnlyLower(a)

(* SumAggrLit::fact(), MinMaxAggrLit::fact() and AggrLit::fact(): more     *)
(* instances cannot make the literal false again, or there are no more.    *)
Growing(a) ==
    CASE a.kind = "sum" -> a.posWeights /\ IF a.sign THEN OnlyUpper(a) ELSE OnlyLower(a)
      [] a.kind = "min" -> IF a.sign THEN OnlyLower(a) ELSE OnlyUpper(a)
      [] a.kind = "max" -> IF a.sign THEN OnlyUpper(a) ELSE OnlyLower(a)
LitFact == fact /\ ~aggr.head /\ (Growing(aggr) \/ aggr.complete)

-----------------------------------------------------------------------------
(* Assign: a value the aggregate may have, whether the statement has still *)
(* to see it, and whether a rule with it was printed.  A BoundAggrState    *)
(* has these two marks for the literal as a whole.                         *)
Fresh(val) == [val |-> val, new |-> TRUE, locked |-> FALSE]

(* sort() and unique() by value: of two equal ones the locked one stays,   *)
(* and then the one that is not new.                                       *)
Unique(vs) ==
    LET before(u, v) == IF u.locked # v.locked THEN u.locked ELSE ~u.new /\ v.new
    IN  {v \in vs : ~\E u \in vs : u.val = v.val /\ before(u, v)}

(* SumAssignAggrState::doAccumulate(): as long as there are only facts, a  *)
(* value that no rule was printed for is changed in place.                 *)
SumValues(vs, onlyFacts, w) ==
    LET changed == {v \in vs : onlyFacts /\ ~v.locked}
        kept == vs \ changed
    IN  Unique({[v EXCEPT !.val = @ + w] : v \in changed} \cup kept
               \cup {Fresh(v.val + w) : v \in kept})

(* MinMaxAssignAggrState::doAccumulate(): a new fact removes what it       *)
(* beats; fixed_ is the fact that has done so.                             *)
Beats(a, v, w) == IF a.kind = "max" THEN v > w ELSE v < w
Fixed == IF aggr.kind = "max" THEN min ELSE max
ExtremeValues(a, vs, w, newFact) ==
    LET kept == IF newFact THEN {v \in vs : ~Beats(a, w, v.val)} ELSE vs
    IN  kept \cup IF \E v \in kept : v.val = w THEN {} ELSE {Fresh(w)}

Accumulated(w, isNew, newFact) ==
    CASE ~aggr.assign -> values
      [] aggr.assign /\ aggr.kind = "sum" ->
           IF isNew THEN SumValues(values, fact /\ newFact, w) ELSE values
      [] aggr.assign /\ aggr.kind # "sum" ->
           IF Beats(aggr, w, Fixed) /\ (isNew \/ newFact)
           THEN ExtremeValues(aggr, values, w, newFact) ELSE values

(* fact_: with facts only there is one value.                              *)
OneValue(vs, w, isNew, newFact) ==
    CASE aggr.kind = "sum" -> fact /\ (isNew => newFact)
      [] aggr.kind # "sum" -> IF Beats(aggr, w, Fixed) THEN Cardinality(vs) = 1 ELSE fact

-----------------------------------------------------------------------------

Init ==
    /\ aggr \in Aggregates
    /\ coming \in {Instances(elements) : elements \in Elements}
    /\ aggr.posWeights => \A i \in coming : i[1].weight >= 0
    /\ ~aggr.head => \A i \in coming : i[1].insts[i[2]].head = NoAtom
    /\ sets = [known |-> {}, facts |-> {}]
    /\ min = Neutral(aggr)
    /\ max = Neutral(aggr)
    /\ match = (aggr.assign \/ Matches(aggr, Neutral(aggr), Neutral(aggr)))
    /\ fact = (aggr.assign \/ Decided(aggr, Neutral(aggr), Neutral(aggr)))
    /\ values = {Fresh(Neutral(aggr))}
    /\ allowed \in Allowed
    /\ ~aggr.assign => Neutral(aggr) \in allowed
    /\ enqueued = TRUE
    /\ finished = FALSE
    /\ given = {}
    /\ subst = {}
    /\ heads = {}
    /\ late = [fact |-> FALSE, head |-> FALSE]
    /\ conds = {}
    /\ order = <<>>
    /\ rules = NoRules

(* AggrCond::grounded(): AggrState::accumulate() and then the printer.     *)
Ground(i) ==
    /\ i \in coming
    /\ LET e == i[1]
           inst == e.insts[i[2]]
           isNew == e.set \notin sets.known
           newFact == IsFact(inst) /\ e.set \notin sets.facts
       IN  /\ sets' = [known |-> sets.known \cup {e.set},
                       facts |-> sets.facts \cup (IF IsFact(inst) THEN {e.set} ELSE {})]
           /\ min' = NewMin(aggr, min, e.weight, isNew, newFact)
           /\ max' = NewMax(aggr, max, e.weight, isNew, newFact)
           /\ values' = Accumulated(e.weight, isNew, newFact)
           /\ match' = (aggr.assign \/ Matches(aggr, min', max'))
           /\ fact' = IF aggr.assign THEN OneValue(values', e.weight, isNew, newFact)
                      ELSE Decided(aggr, min', max')
           /\ subst' = subst \cup IF isNew THEN {inst.head} \ {NoAtom} ELSE {}
           /\ late' = [fact |-> late.fact \/ (finished /\ IsFact(inst)),
                       head |-> late.head \/ (finished /\ inst.head # NoAtom)]
           /\ conds' = conds \cup {[set |-> e.set, weight |-> e.weight, inst |-> inst]}
    /\ coming' = coming \ {i}
    /\ enqueued' = TRUE
    /\ UNCHANGED <<aggr, joinVars, order, rules>>

(* AggrIndex::firstMatch() and nextMatch(): the values the statement is    *)
(* ground with.  What is not new only counts the first time.               *)
Seen ==
    {v \in values :
        /\ match \/ v.locked \/ aggr.head
        /\ v.val \in allowed
        /\ v.new \/ ~finished}

(* SimpleStatement::ground(): the join, grounded() with AggrLit::          *)
(* grounded() and addDomain(), and finish().                               *)
Join ==
    /\ enqueued
    /\ aggr.complete => coming = {}
    /\ given' = given \cup {v.val : v \in Seen}
    /\ LET locked(v) == v.locked \/ (v \in Seen /\ ~aggr.head)
       IN  values' = {[v EXCEPT !.locked = locked(v), !.new = @ /\ ~match /\ ~locked(v)] :
                         v \in values}
    /\ IF aggr.head /\ Seen # {} /\ match
       THEN heads' = heads \cup subst /\ subst' = {}
       ELSE UNCHANGED <<heads, subst>>
    /\ finished' = TRUE
    /\ enqueued' = FALSE
    /\ UNCHANGED <<aggr, coming, sets, min, max, match, fact, allowed, late, conds, order, rules>>

(* The order of instances, pairs of a head and literals, as far as it does *)
(* not depend on the numbers of the atoms; simplify() sorts those of a     *)
(* key.                                                                    *)
Rank(inst) ==
    CASE IsFact(inst) -> 0
      [] inst.head = NoAtom /\ inst.lits # <<>> -> IF inst.lits[1].pos THEN 2 ELSE 1
      [] inst.head # NoAtom -> 3

Collected ==
    LET insts(set) == {c.inst : c \in {d \in conds : d.set = set}}
        simplified(set) == SetToSortSeq(insts(set), LAMBDA i, j : Rank(i) < Rank(j))
    IN  {[set |-> c.set, weight |-> c.weight, insts |-> simplified(c.set)] : c \in conds}

(* CondLess                                                                *)
Orders(elems) ==
    {s \in SetToSeqs(elems) :
        \A i, j \in DOMAIN s : i < j => Rank(s[i].insts[1]) <= Rank(s[j].insts[1])}

(* The literals that are printed: an assignment is one with both bounds    *)
(* for each value it was given.                                            *)
Literals ==
    IF aggr.assign
    THEN {[aggr EXCEPT !.lower = val, !.lleq = TRUE, !.upper = val, !.uleq = TRUE] : val \in given}
    ELSE {aggr}

(* AggrLitPrinter::finish(), at the end of the step.                       *)
Finish ==
    /\ coming = {}
    /\ ~enqueued
    /\ rules = NoRules
    /\ aggr' \in Literals
    /\ order' \in Orders(Merged(aggr', Collected))
    /\ rules' = Printed(aggr', Merged(aggr', Collected), order')
    /\ UNCHANGED <<coming, sets, min, max, match, fact, values, enqueued, subst, late, joinVars, conds>>

Next == (\E i \in coming : Ground(i)) \/ Join \/ Finish

Spec == Init /\ [][Next]_vars

-----------------------------------------------------------------------------
(***************************************************************************)
(* What an aggregate means in an interpretation: a set X of atoms.         *)
(***************************************************************************)

LitTrue(lit, X) == (lit.atom \in X) = lit.pos
InstTrue(inst, X) ==
    /\ inst.head # NoAtom => inst.head \in X
    /\ \A k \in DOMAIN inst.lits : LitTrue(inst.lits[k], X)

(* All instances, those that are not ground yet included.                  *)
AllConds ==
    conds \cup {[set |-> i[1].set, weight |-> i[1].weight, inst |-> i[1].insts[i[2]]] :
                   i \in coming}

Value(X) ==
    LET true == {[set |-> c.set, weight |-> c.weight] :
                   c \in {d \in AllConds : InstTrue(d.inst, X)}}
        weights == {e.weight : e \in true}
    IN  CASE aggr.kind = "sum" -> SumOver(true, LAMBDA e : e.weight)
          [] aggr.kind = "min" -> Min({Sup} \cup weights)
          [] aggr.kind = "max" -> Max({Inf} \cup weights)

Holds(X) == AtLeast(aggr, Value(X)) /\ AtMost(aggr, Value(X))

Heads == {c.inst.head : c \in AllConds} \ {NoAtom}
Atoms == Heads \cup UNION {{c.inst.lits[k].atom : k \in DOMAIN c.inst.lits} : c \in AllConds}
Interpretations == SUBSET Atoms

-----------------------------------------------------------------------------
(***************************************************************************)
(* What the printed rules mean.  No symbol depends on itself, so a model   *)
(* makes an auxiliary symbol true exactly when a rule for it applies.      *)
(***************************************************************************)

(* The atoms a model is free in: the body's symbol is defined by the       *)
(* rules.                                                                  *)
Free == Atoms \cup (IF aggr.head THEN {Symbol} ELSE {})

Applies(rule, isTrue(_)) ==
    SumOver({k \in DOMAIN rule.body : isTrue(rule.body[k].atom) = rule.body[k].pos},
            LAMBDA k : rule.weights[k]) >= rule.bound

True(X, symbol) ==
    LET symbols == Atoms \cup {Symbol, FalseSymbol} \cup {r.head : r \in rules}
                   \cup UNION {{r.body[k].atom : k \in DOMAIN r.body} : r \in rules}
        true[s \in symbols] ==
            IF s \in Free THEN s \in X
            ELSE \E r \in rules : r.head = s /\ Applies(r, LAMBDA t : true[t])
    IN  true[symbol]

(* X respects the rules for the atoms that are heads, and is supported.    *)
IsModel(X) ==
    LET applies(r) == Applies(r, LAMBDA s : True(X, s)) IN
    /\ ~True(X, FalseSymbol)
    /\ \A r \in rules : r.head \in Heads /\ ~r.choice /\ applies(r) => r.head \in X
    /\ \A h \in X \cap Heads : \E r \in rules : r.head = h /\ applies(r)

(* An atom may be chosen where its condition holds.                        *)
MayHave(h, X) == \E c \in AllConds : c.inst.head = h /\ InstTrue(c.inst, X)

Right ==
    IF aggr.head
    THEN \A X \in SUBSET Free :
           IsModel(X) <=> IF Symbol \in X
                          THEN Holds(X \ {Symbol}) /\ \A h \in X \cap Heads : MayHave(h, X)
                          ELSE X \cap Heads = {}
    ELSE \A X \in Interpretations : True(X, Symbol) <=> Holds(X)

-----------------------------------------------------------------------------

(* A literal that is called a fact is true in every interpretation,        *)
(* whatever is ground later; an assignment then has one value.             *)
FactsSound ==
    LitFact /\ (aggr.complete => coming = {}) =>
        \A X \in Interpretations :
            IF aggr.assign THEN \A v \in values : v.val = Value(X) ELSE Holds(X) # aggr.sign

(* What the grounder does with instances that come after a join: a sum     *)
(* changed in place by a fact is not new again, a head that has matched is *)
(* not, and a key is given to one head only.                               *)
LateFact == aggr.assign /\ aggr.kind = "sum" /\ late.fact
LateHead == late.head
SharedKey == \E c, d \in conds : c.set = d.set /\ c.inst.head # d.inst.head

(* When nothing is left to do, the statement has been ground with every    *)
(* value of the aggregate that the other literals allow, with the literal  *)
(* if it can be true, and the heads of an aggregate that can hold are in   *)
(* their domains, so that what depends on them is ground.                  *)
NothingLeftOut ==
    coming = {} /\ ~enqueued =>
        \A X \in Interpretations :
            CASE aggr.assign -> Value(X) \in given \/ Value(X) \notin allowed \/ LateFact
              [] aggr.head -> Heads \subseteq heads \/ ~Holds(X) \/ LateHead \/ SharedKey
              [] OTHER -> given # {} \/ Holds(X) = aggr.sign

(* The decisions on partial knowledge: rules lose a literal that is called *)
(* a fact and are not printed for one that does not match.                 *)
DecisionsSound == FactsSound /\ NothingLeftOut

(* The cases in which the converter prints something else, see RulesRight. *)
NoInstance == conds = {}
FactWithOthers == \E c, d \in conds : c.set = d.set /\ IsFact(c.inst) /\ ~IsFact(d.inst)
OneChoice ==
    /\ aggr.head
    /\ Singleton(aggr, Merged(aggr, Collected))
    /\ \/ HasLower(aggr, Merged(aggr, Collected)) /\ HasUpper(aggr, Merged(aggr, Collected))
       \/ HasLower(aggr, Merged(aggr, Collected)) /\ \E c \in conds : c.inst.lits # <<>>
       \/ aggr.kind = "min"
       \/ aggr.kind = "sum" /\ \E e \in Merged(aggr, Collected) : e.weight < 0
OutOfStep ==
    /\ aggr.kind # "sum"
    /\ BoundsPrinted(aggr, Merged(aggr, Collected))
    /\ LET needed == Needed(aggr, Merged(aggr, Collected), order) IN
         \E i \in needed : \E j \in DOMAIN order \ needed : j < i

(* A rule that wants all literals where some of them are enough.           *)
WantsTooMuch(n) ==
    /\ n.bound \in 1..n.total
    /\ n.total - n.largest < n.bound /\ n.bound <= n.total - n.least
AllWanted ==
    /\ aggr.kind = "sum"
    /\ BoundsPrinted(aggr, Merged(aggr, Collected))
    /\ \/ HasLower(aggr, Merged(aggr, Collected)) /\ WantsTooMuch(LowerSum(aggr, order))
       \/ HasUpper(aggr, Merged(aggr, Collected)) /\ WantsTooMuch(UpperSum(aggr, order))

(* The printed rules have the models the aggregate has: in a body its      *)
(* symbol is true where the aggregate holds, in a head the symbol allows   *)
(* the choices under which it holds.  The code prints something else for   *)
(* an aggregate without instances (NoInstance, finish), for an element     *)
(* that a fact and another instance give (FactWithOthers, handleCond), for *)
(* some heads with one element (OneChoice, handleAggr), for sums with a    *)
(* bound only the largest weight is needed for (AllWanted, printSum) and   *)
(* where elements of #min and #max are passed over (OutOfStep, printAggr). *)
RulesRight ==
    /\ rules # NoRules
    /\ ~NoInstance /\ ~FactWithOthers /\ ~OneChoice /\ ~OutOfStep /\ ~AllWanted
    => Right

(* "mp :- lit. if lit.weight >= lower and lit.weight <= upper" and "ap :-  *)
(* lit. lit.weight < lower", says printAggr: the rules for #min and #max   *)
(* in a body are about the literals of the elements with these weights.    *)
MinMaxAsWritten ==
    /\ rules # NoRules /\ ~LitFact
    /\ aggr.kind # "sum" /\ ~aggr.head
    /\ ~NoInstance /\ ~FactWithOthers
    => Right
=============================================================================
