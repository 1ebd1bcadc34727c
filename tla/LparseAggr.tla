----------------------------- MODULE LparseAggr -----------------------------
(***************************************************************************)
(* How LparseConverter prints a ground aggregate                           *)
(* (libgringo/src/output/lparseaggr_impl.cpp): the symbol of the aggregate *)
(* is defined, or as a head constrained, by basic, choice and weight       *)
(* rules.                                                                  *)
(*                                                                         *)
(* An aggregate "a" has a kind ("sum", "min" or "max"), a place (head or   *)
(* body) and two bounds, each with a flag that says whether it belongs to  *)
(* the range.  An element has a weight and a sequence of instances, in     *)
(* which each has a head (None when there is none) and a sequence of       *)
(* literals.  A literal has an atom and a sign.  The symbols the converter *)
(* allocates are named for what they stand for; a constraint rule is a     *)
(* weight rule with weights of one, and a basic rule one whose bound is    *)
(* the number of its literals.                                             *)
(***************************************************************************)
EXTENDS Integers, Sequences, SequencesExt, FiniteSets, FiniteSetsExt

NoAtom == <<"none">>               \* the symbol 0
Symbol == <<"aggregate">>          \* AggrTodoVal::symbol
FalseSymbol == <<"false">>         \* LparseConverter::falseSymbol

(* Val::inf() and Val::sup() are below and above every weight of a case.   *)
Inf == -99
Sup == 99

Pos(atom) == [atom |-> atom, pos |-> TRUE]
Neg(atom) == [atom |-> atom, pos |-> FALSE]
Negate(lit) == [lit EXCEPT !.pos = ~@]
None == Pos(NoAtom)                \* the literal 0

When(condition, rules) == IF condition THEN rules ELSE {}

-----------------------------------------------------------------------------
(***************************************************************************)
(* Rules.                                                                  *)
(***************************************************************************)

Given(lits) == SelectSeq(lits, LAMBDA l : l # None)

(* printBasicRule, which passes over the literals that are 0.              *)
Basic(head, lits) ==
    LET given == Given(lits) IN
    [head |-> head, choice |-> FALSE, bound |-> Len(given), body |-> given,
     weights |-> [i \in DOMAIN given |-> 1]]

(* printWeightRule, and printConstraintRule when every weight is one.      *)
Weight(head, bound, lits, weights) ==
    [head |-> head, choice |-> FALSE, bound |-> bound, body |-> lits,
     weights |-> weights]

(* printChoiceRule, an atom at a time.                                     *)
Choice(head, lits) == [Basic(head, lits) EXCEPT !.choice = TRUE]

SumOver(S, f(_)) == FoldSet(LAMBDA x, sum : f(x) + sum, 0, S)

-----------------------------------------------------------------------------
(***************************************************************************)
(* What is known of the value before anything is printed.                  *)
(***************************************************************************)

(* combine(): the weight of two elements that have the same instances.     *)
Combined(a, v, w) ==
    CASE a.kind = "sum" -> v + w
      [] a.kind = "min" -> Min({v, w})
      [] a.kind = "max" -> Max({v, w})

(* sort and combine_adjacent: elements with the same instances become one. *)
Merged(a, elements) ==
    LET same(insts) == {e \in elements : e.insts = insts}
        one(e, w) == Combined(a, w, e.weight)
        first(insts) == CHOOSE e \in same(insts) : TRUE
    IN  {[insts |-> insts,
          weight |-> FoldSet(one, first(insts).weight, same(insts) \ {first(insts)})] :
            insts \in {e.insts : e \in elements}}

(* analyze(), over all elements.                                           *)
Least(a, elems) ==
    IF a.kind = "sum"
    THEN SumOver({e \in elems : e.weight < 0}, LAMBDA e : e.weight)
    ELSE IF a.kind = "min" THEN Min({Sup} \cup {e.weight : e \in elems}) ELSE Inf

Greatest(a, elems) ==
    IF a.kind = "sum"
    THEN SumOver({e \in elems : e.weight > 0}, LAMBDA e : e.weight)
    ELSE IF a.kind = "max" THEN Max({Inf} \cup {e.weight : e \in elems}) ELSE Sup

AtLeast(a, v) == IF a.lleq THEN v >= a.lower ELSE v > a.lower
AtMost(a, v) == IF a.uleq THEN v <= a.upper ELSE v < a.upper

(* checkBounds()                                                           *)
IsFalse(a, elems) ==
    \/ ~AtLeast(a, Greatest(a, elems))
    \/ ~AtMost(a, Least(a, elems))
    \/ IF a.lleq /\ a.uleq THEN a.upper < a.lower ELSE a.upper <= a.lower
HasLower(a, elems) == ~IsFalse(a, elems) /\ ~AtLeast(a, Least(a, elems))
HasUpper(a, elems) == ~IsFalse(a, elems) /\ ~AtMost(a, Greatest(a, elems))
HasBound(a, elems) == HasLower(a, elems) \/ HasUpper(a, elems)

-----------------------------------------------------------------------------
(***************************************************************************)
(* handleAggr(): the conditions and the choices.                           *)
(***************************************************************************)

(* One element whose instances all have the same head is not chosen: a     *)
(* lower bound makes it follow, an upper bound forbids it.                 *)
Singleton(a, elems) ==
    /\ HasBound(a, elems)
    /\ \E e \in elems :
         /\ elems = {e}
         /\ \E h \in {e.insts[k].head : k \in DOMAIN e.insts} \ {NoAtom} :
              \A k \in DOMAIN e.insts : e.insts[k].head = h

(* The symbol an instance's literals get: their own when there is one; the *)
(* instances without a head share one symbol, which is then a disjunction. *)
CondLit(e, k) ==
    LET inst == e.insts[k] IN
    CASE Len(inst.lits) = 0 -> None
      [] Len(inst.lits) = 1 -> inst.lits[1]
      [] OTHER -> Pos(IF inst.head = NoAtom THEN <<"no head", e>> ELSE <<"cond", e, k>>)

Instances(elems) == UNION {{<<e, k>> : k \in DOMAIN e.insts} : e \in elems}

CondRules(elems) ==
    {Basic(CondLit(i[1], i[2]).atom, i[1].insts[i[2]].lits) :
        i \in {j \in Instances(elems) : Len(j[1].insts[j[2]].lits) > 1}}

(* The literals that stand for an instance's condition in a rule.          *)
Body(a, elems, e, k) ==
    IF HasBound(a, elems) THEN Given(<<CondLit(e, k)>>) ELSE e.insts[k].lits

HeadRule(a, elems, e, k) ==
    LET head == e.insts[k].head
        body == Body(a, elems, e, k) \o <<Pos(Symbol)>>
    IN  IF ~Singleton(a, elems) THEN Choice(head, body)
        ELSE IF HasLower(a, elems) THEN Basic(head, body)
        ELSE Basic(FalseSymbol, body \o <<Pos(head)>>)

HandleRules(a, elems) ==
    IF IsFalse(a, elems)
    THEN When(a.head, {Basic(FalseSymbol, <<Pos(Symbol)>>)})
    ELSE When(HasBound(a, elems), CondRules(elems))
         \cup {HeadRule(a, elems, i[1], i[2]) :
                 i \in {j \in Instances(elems) : j[1].insts[j[2]].head # NoAtom}}
         \cup When(~a.head /\ ~HasBound(a, elems), {Basic(Symbol, <<>>)})

(* handleAggr() returns true: the bounds are to be printed.                *)
BoundsPrinted(a, elems) == HasBound(a, elems) /\ ~Singleton(a, elems)

-----------------------------------------------------------------------------
(***************************************************************************)
(* getCondSym(): the symbol of an element, from its heads and from the     *)
(* conditions read at the position "at" of the list "conds".               *)
(***************************************************************************)

(* handleCond(): "sym" stands for the instances so far, "rules" define it. *)
HandleCond(e, s, cond, head) ==
    LET headLit == Pos(head)
        complex == cond # None /\ headLit # None
        own == Pos(<<"element", e>>)
        c == IF s.sym # None THEN s.sym
             ELSE IF complex THEN own
             ELSE IF cond # None THEN cond ELSE headLit
        single == s.single /\ ~(s.sym = None /\ complex)
        other == complex \/ headLit \notin {None, c} \/ cond \notin {None, c}
    IN  IF ~other THEN [s EXCEPT !.sym = c]
        ELSE [sym |-> own, single |-> FALSE,
              rules |-> s.rules
                        \cup When(single, {Basic(own.atom, <<c>>)})
                        \cup {Basic(own.atom, <<cond, headLit>>)}]

CondSym(e, conds, at) ==
    FoldLeftDomain(LAMBDA s, k : HandleCond(e, s, conds[at + k], e.insts[k].head),
                   [sym |-> None, single |-> TRUE, rules |-> {}], e.insts)

(* The conditions of all elements, in the order of the elements.           *)
Conds(order) ==
    FlattenSeq([i \in DOMAIN order |->
                  [k \in DOMAIN order[i].insts |-> CondLit(order[i], k)]])

(* Where the conditions of an element are read: the iterator has moved     *)
(* over those of the elements before it that were read, which are those of *)
(* "read".                                                                 *)
ReadAt(order, i, read) ==
    SumOver({j \in read : j < i}, LAMBDA j : Len(order[j].insts))

-----------------------------------------------------------------------------
(***************************************************************************)
(* printSum(): a symbol that is true when the sum reaches the bound.       *)
(***************************************************************************)

(* The sum without the elements that are always there and without negative *)
(* weights: a negative one is the positive one of the negated literal.     *)
Normal(start, order, syms) ==
    LET some == {i \in DOMAIN order : syms[i] # None}
        weight(i) == order[i].weight
        abs(i) == IF weight(i) < 0 THEN -weight(i) ELSE weight(i)
        places == SelectSeq([i \in DOMAIN order |-> i], LAMBDA i : i \in some)
    IN  [bound |-> start - SumOver(DOMAIN order \ some, weight)
                         - SumOver({i \in some : weight(i) < 0}, weight),
         total |-> SumOver(some, abs),
         least |-> Min({abs(i) : i \in some} \cup {Sup}),
         largest |-> Max({abs(i) : i \in some} \cup {0}),
         weights |-> [n \in DOMAIN places |-> abs(places[n])],
         lits |-> [n \in DOMAIN places |->
                     LET i == places[n] IN IF weight(i) < 0 THEN Negate(syms[i]) ELSE syms[i]]]

PrintSum(sym, n) ==
    IF n.bound > n.total THEN {}
    ELSE IF n.bound <= 0 THEN {Basic(sym, <<>>)}
    ELSE IF n.total - n.largest < n.bound THEN {Basic(sym, n.lits)}
    ELSE {Weight(sym, n.bound, n.lits, n.weights)}

Cond(order, i) == CondSym(order[i], Conds(order), ReadAt(order, i, DOMAIN order))
CondSyms(order) == [i \in DOMAIN order |-> Cond(order, i).sym]

LowerSum(a, order) == Normal(a.lower + (IF a.lleq THEN 0 ELSE 1), order, CondSyms(order))
UpperSumOffByOne(a, order) ==    \* mutant: the bound itself is too much already
    Normal(a.upper - (IF a.uleq THEN 0 ELSE 1), order, CondSyms(order))
UpperSum(a, order) == Normal(a.upper + (IF a.uleq THEN 1 ELSE 0), order, CondSyms(order))

(* SumAggrLitPrinter::printAggr() after handleAggr().                      *)
SumRules(a, elems, order) ==
    LET lower == HasLower(a, elems)
        upper == HasUpper(a, elems)
        l == IF ~lower THEN None
             ELSE IF ~upper /\ ~a.head THEN Pos(Symbol) ELSE Pos(<<"lower">>)
        u == IF upper THEN Pos(<<"upper">>) ELSE None
        notU == IF upper THEN Negate(u) ELSE None
    IN  UNION {Cond(order, i).rules : i \in DOMAIN order}
        \cup When(lower, PrintSum(l.atom, LowerSum(a, order)))
        \cup When(upper, PrintSum(u.atom, UpperSum(a, order)))
        \cup When(a.head /\ lower, {Basic(FalseSymbol, <<Pos(Symbol), Negate(l)>>)})
        \cup When(a.head /\ upper, {Basic(FalseSymbol, <<Pos(Symbol), u>>)})
        \cup When(~a.head /\ l # Pos(Symbol), {Basic(Symbol, <<l, notU>>)})

-----------------------------------------------------------------------------
(***************************************************************************)
(* MinMaxAggrLitPrinter::printAggr() after handleAggr(): "mp" is true when *)
(* an element lies where the monotone bound wants one, "ap" when one lies  *)
(* where the other bound wants none.                                       *)
(***************************************************************************)

NeedsM(a, elems, w) ==
    /\ IF a.kind = "min" THEN HasUpper(a, elems) ELSE HasLower(a, elems)
    /\ HasLower(a, elems) => AtLeast(a, w)
    /\ HasUpper(a, elems) => AtMost(a, w)

NeedsA(a, elems, w) ==
    IF a.kind = "min" THEN HasLower(a, elems) /\ ~AtLeast(a, w)
    ELSE HasUpper(a, elems) /\ ~AtMost(a, w)

(* The elements whose conditions are read: the iterator over the           *)
(* conditions stays where it is for an element that is not needed.         *)
Needed(a, elems, order) ==
    {i \in DOMAIN order : NeedsM(a, elems, order[i].weight) \/ NeedsA(a, elems, order[i].weight)}

MinMaxRules(a, elems, order) ==
    LET needed == Needed(a, elems, order)
        cond == [i \in needed |-> CondSym(order[i], Conds(order), ReadAt(order, i, needed))]
        hasA == IF a.kind = "min" THEN HasLower(a, elems) ELSE HasUpper(a, elems)
        hasM == IF a.kind = "min" THEN HasUpper(a, elems) ELSE HasLower(a, elems)
        ap == IF hasA THEN Pos(<<"ap">>) ELSE None
        mp == IF ~hasM THEN None
              ELSE IF ~hasA /\ ~a.head THEN Pos(Symbol) ELSE Pos(<<"mp">>)
        notAp == IF hasA THEN Negate(ap) ELSE None
    IN  UNION {cond[i].rules : i \in needed}
        \cup {Basic(mp.atom, <<cond[i].sym>>) :
                 i \in {j \in needed : NeedsM(a, elems, order[j].weight)}}
        \cup {Basic(ap.atom, <<cond[i].sym>>) :
                 i \in {j \in needed : NeedsA(a, elems, order[j].weight)}}
        \cup When(a.head /\ hasM, {Basic(FalseSymbol, <<Pos(Symbol), Negate(mp)>>)})
        \cup When(a.head /\ hasA, {Basic(FalseSymbol, <<Pos(Symbol), ap>>)})
        \cup When(~a.head /\ mp # Pos(Symbol), {Basic(Symbol, <<mp, notAp>>)})

(* finish(): nothing is printed for an aggregate without instances.        *)
(* "order" is the order sort() gave to the elements, which depends on      *)
(* their symbols.                                                          *)
Printed(a, elems, order) ==
    When(elems # {},
         HandleRules(a, elems)
         \cup When(BoundsPrinted(a, elems),
                   IF a.kind = "sum" THEN SumRules(a, elems, order) ELSE MinMaxRules(a, elems, order)))

=============================================================================
