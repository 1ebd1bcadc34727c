------------------------------ MODULE Grounding ------------------------------
(***************************************************************************)
(* gringo's instantiation of a program (libgringo: grounder, instantiator, *)
(* predindex, domain, formula, rule, predlit).                             *)
(*                                                                         *)
(* The statements of a component are instantiated until nothing changes.   *)
(* A statement joins the literals of its body from left to right; the      *)
(* index of a positive literal lists the atoms it matches, those behind    *)
(* its mark finished_ being new since the statement was instantiated last. *)
(* Only joins with something new are grounded.  What a statement adds to   *)
(* the domain of its head is passed on, when the statement is through, to  *)
(* the literals of the same component, whose statements are queued.        *)
(*                                                                         *)
(* The order of the statements of a component and of independent           *)
(* components is left open.  A statement whose atoms are a fact is not     *)
(* printed again, and literals that are facts are not printed: the rules   *)
(* printed must mean what the program means.                               *)
(***************************************************************************)
EXTENDS Integers, Sequences, FiniteSets, SequencesExt, StableModels

CONSTANTS
    Programs,   \* the programs to be instantiated
    Consts,     \* the values of terms, among them the steps
    MaxStep     \* how many steps are grounded

(***************************************************************************)
(* A program has the fields rules, a function from names to rules, base    *)
(* and cumulative, the sets of names in each module, arity, a function     *)
(* from predicates, and facts, the facts of its text for each predicate.   *)
(* A rule has a head and a body; a literal has a predicate, arguments and  *)
(* a kind: "pos", "neg", "inc" for #cumulative, or "none" for the head of  *)
(* a constraint.  An argument below zero is a variable.                    *)
(***************************************************************************)
IsVar(t) == t < 0
VarsOf(lit) == {t \in ToSet(lit.args) : IsVar(t)}

(* A predicate is a name with an arity.                                    *)
PredLitOf(p, lit) ==
    /\ lit.pred \in DOMAIN p.arity
    /\ lit.args \in [1 .. p.arity[lit.pred] -> Int]
    /\ \A i \in DOMAIN lit.args : IsVar(lit.args[i]) \/ lit.args[i] \in Consts

BindsIn(body, i, v) == body[i].kind \in {"pos", "inc"} /\ v \in VarsOf(body[i])

(* Rules are safe: LitDep::Graph checks that the order of the body binds   *)
(* the variables of what is negated, and of the head.  The parser adds     *)
(* #cumulative to the rules of its part, and it is joined first.           *)
WellFormedRule(p, r) ==
    LET head == p.rules[r].head
        body == p.rules[r].body
    IN /\ body \in Seq(Range(body))
       /\ \A i \in DOMAIN body : body[i].kind \in {"pos", "neg", "inc"}
       /\ \A i \in DOMAIN body : body[i].kind \in {"pos", "neg"} => PredLitOf(p, body[i])
       /\ \A i \in DOMAIN body : body[i].kind = "neg" =>
               \A v \in VarsOf(body[i]) : \E j \in 1 .. i - 1 : BindsIn(body, j, v)
       /\ \A i \in DOMAIN body : body[i].kind = "inc" =>
               /\ r \in p.cumulative
               /\ body[i].args \in [1 .. 1 -> Int] /\ IsVar(body[i].args[1])
               /\ \A j \in 1 .. i - 1 : ~(body[j].kind = "pos" /\ body[i].args[1] \in VarsOf(body[j]))
       /\ head.kind # "none" =>
               /\ PredLitOf(p, head)
               /\ \A v \in VarsOf(head) : \E j \in DOMAIN body : BindsIn(body, j, v)

WellFormed(p) ==
    /\ IsFiniteSet(DOMAIN p.rules)
    /\ p.base \cup p.cumulative = DOMAIN p.rules
    /\ p.base \cap p.cumulative = {}
    /\ DOMAIN p.facts = DOMAIN p.arity
    /\ \A q \in DOMAIN p.arity :
            /\ p.arity[q] \in Nat
            /\ p.facts[q] \in Seq([1 .. p.arity[q] -> Consts])
            /\ IsInjective(p.facts[q])
    /\ \A r \in DOMAIN p.rules : WellFormedRule(p, r)

ASSUME GroundingAssumption ==
    /\ Consts \subseteq Nat /\ Consts # {}
    /\ MaxStep \in Nat
    /\ 1 .. MaxStep \subseteq Consts
    /\ \A p \in Programs : WellFormed(p)

VARIABLES
    prog,
    reach,      \* what each statement depends on, as analyze found it
    comps,      \* Module::components_ that are still to be grounded in this pass
    done,       \* names of the statements whose components have been grounded
    step,       \* IncConfig::incStep; 0 while the base is grounded
    dom,        \* Domain::vals_, per predicate
    fact,       \* atoms whose ValVecSet::Index::fact is set
    idx,        \* the indices of a statement's Instantiator, NoIndex before init
    queue,      \* Grounder::queue_
    startNew,   \* PredLit::startNew_ of each statement's head
    run,        \* the local state of Instantiator::ground
    grounded,   \* history: the instances for which grounded() was called
    printed     \* history: the rules printed

vars == <<prog, reach, comps, done, step, dom, fact, idx, queue, startNew, run, grounded, printed>>

NoIndex == <<>>
NoRun == [stm |-> "none"]

Names == DOMAIN prog.rules
HeadOf(r) == prog.rules[r].head
Body(r) == prog.rules[r].body
Levels(r) == 1 .. Len(Body(r)) + 1      \* level 1 is the NewOnceIndex
Lit(r, l) == Body(r)[l - 1]             \* the literal of a level above 1

(* The values of the variables of a literal that is matched with a tuple.  *)
Binding(lit, tuple) ==
    [v \in VarsOf(lit) |-> tuple[CHOOSE i \in DOMAIN lit.args : lit.args[i] = v]]

Value(t, env) == IF IsVar(t) THEN env[t] ELSE t
Apply(lit, env) == [i \in DOMAIN lit.args |-> Value(lit.args[i], env)]
Atom(lit, env) == <<lit.pred, Apply(lit, env)>>

(* Term::unify on each argument, with no variable bound before.            *)
Unifies(lit, tuple) ==
    \A i \in DOMAIN lit.args : tuple[i] = Value(lit.args[i], Binding(lit, tuple))

-----------------------------------------------------------------------------
(* The dependency analysis, by what it promises (module StmDep has the     *)
(* algorithm): components bottom-up, which literals are complete, and      *)
(* which literals a head provides for.                                     *)

Compatible(a, b) ==
    /\ a.pred = b.pred
    /\ \E tuple \in [DOMAIN a.args -> Consts] : Unifies(a, tuple) /\ Unifies(b, tuple)

(* Module::compatible: the base provides for the cumulative part.          *)
ModuleOf(r) == IF r \in prog.base THEN 0 ELSE 1
Provides(r, s, lit) ==
    ModuleOf(r) <= ModuleOf(s) /\ lit.kind \in {"pos", "neg"} /\ Compatible(HeadOf(r), lit)

DependsOn(s) == {r \in Names : \E i \in DOMAIN Body(s) : Provides(r, s, Body(s)[i])}

(* What a statement reaches is in every set that holds what it depends on  *)
(* and what the members of the set depend on.                              *)
Reach ==
    LET closed == {set \in SUBSET Names : \A r \in set : DependsOn(r) \subseteq set}
    IN [s \in Names |-> {r \in Names : \A set \in closed : DependsOn(s) \subseteq set => r \in set}]

Component(s) == {s} \cup {r \in reach[s] : s \in reach[r]}

(* Of the providers of a literal, none is in its own component.            *)
Complete(s, lit) == \A r \in Names : Provides(r, s, lit) => r \notin Component(s)

(* The orders in which the components of a module may be grounded.         *)
Orders(stms) ==
    {o \in SetToSeqs({Component(s) : s \in stms}) :
            \A i, j \in DOMAIN o : i < j => \A s \in o[i] : reach[s] \cap o[j] = {}}

-----------------------------------------------------------------------------
NewIndex(lit) ==
    CASE lit.kind = "pos" -> [entries |-> <<>>, finished |-> 0, lastExtend |-> 0]
      [] lit.kind = "inc" -> [finished |-> 0]
      [] lit.kind = "neg" -> [finished |-> 0]

NewInst(r) == [l \in Levels(r) |-> IF l = 1 THEN [finished |-> FALSE] ELSE NewIndex(Lit(r, l))]

(* Domain::extend: the atoms from an offset on become entries.  The code   *)
(* drops those that do not unify; here they stay and match nothing.        *)
Extended(index, lit, offset) ==
    [index EXCEPT !.entries = @ \o SubSeq(dom[lit.pred], offset + 1, Len(dom[lit.pred])),
                  !.lastExtend = IF offset < Len(dom[lit.pred]) THEN Len(dom[lit.pred]) ELSE @]

InitIndex(index, lit) ==
    IF lit.kind = "pos" THEN Extended(index, lit, index.lastExtend) ELSE index

HasNew(r, inst, l) ==
    CASE l = 1 -> ~inst[1].finished
      [] l > 1 /\ Lit(r, l).kind = "pos" ->
            \E p \in inst[l].finished + 1 .. Len(inst[l].entries) : Unifies(Lit(r, l), inst[l].entries[p])
      [] l > 1 /\ Lit(r, l).kind = "inc" -> inst[l].finished # step
      [] l > 1 /\ Lit(r, l).kind = "neg" -> FALSE

InitInst(r) ==
    LET inst == IF idx[r] = NoIndex THEN NewInst(r) ELSE idx[r]
    IN [l \in Levels(r) |-> IF l = 1 THEN inst[1] ELSE InitIndex(inst[l], Lit(r, l))]

AnyNew(r, inst) == \E l \in Levels(r) : HasNew(r, inst, l)

-----------------------------------------------------------------------------
FactsOf(p) == UNION {{q} \X ToSet(p.facts[q]) : q \in DOMAIN p.facts}

(* The facts of the text are instantiated while it is parsed.               *)
Init ==
    /\ prog \in Programs
    /\ reach = Reach
    /\ comps \in Orders(prog.base)
    /\ done = {}
    /\ step = 0
    /\ dom = prog.facts
    /\ fact = FactsOf(prog)
    /\ idx = [r \in Names |-> NoIndex]
    /\ queue = <<>>
    /\ startNew = [r \in Names |-> 0]
    /\ run = NoRun
    /\ grounded = <<>>
    /\ printed = {GroundRule(f, {}, {}) : f \in FactsOf(prog)}

(* Grounder::ground: the statements of the next component are initialised, *)
(* and those with something new are queued.                                *)
StartComponent ==
    /\ run = NoRun /\ queue = <<>> /\ comps # <<>>
    /\ queue' \in SetToSeqs({r \in Head(comps) : AnyNew(r, InitInst(r))})
    /\ idx' = [r \in Names |-> IF r \in Head(comps) THEN InitInst(r) ELSE idx[r]]
    /\ comps' = Tail(comps)
    /\ done' = done \cup Head(comps)
    /\ UNCHANGED <<prog, reach, step, dom, fact, startNew, run, grounded, printed>>

(* GringoApp::groundStep: the cumulative module is grounded for a step.    *)
StartStep ==
    /\ run = NoRun /\ queue = <<>> /\ comps = <<>> /\ step < MaxStep
    /\ step' = step + 1
    /\ comps' \in Orders(prog.cumulative)
    /\ done' = done \ prog.cumulative
    /\ UNCHANGED <<prog, reach, dom, fact, idx, queue, startNew, run, grounded, printed>>

AllQueued == queue       \* mutant: pop_front() is missing

Remaining == Tail(queue)

(* Grounder::ground_ takes the next statement, SimpleStatement::ground     *)
(* clears enqueued_, and Instantiator::ground looks for the last level     *)
(* that has something new.                                                 *)
Dequeue ==
    /\ run = NoRun /\ queue # <<>>
    /\ LET r == Head(queue)
       IN run' = [stm |-> r, l |-> 0, matched |-> TRUE, cur |-> [l \in Levels(r) |-> 0],
                  new |-> [l \in Levels(r) |-> FALSE], numNew |-> 0,
                  lastNew |-> LET news == {l \in Levels(r) : HasNew(r, idx[r], l)}
                              IN IF news = {} THEN 0 ELSE Max(news)]
    /\ queue' = Remaining
    /\ UNCHANGED <<prog, reach, comps, done, step, dom, fact, idx, startNew, grounded, printed>>

-----------------------------------------------------------------------------
(* The levels from 2 to l that bind a variable, and the value it gets: the *)
(* literals that come later only match the same value.                     *)
Binders(r, l, v) == {i \in 2 .. l : BindsIn(Body(r), i - 1, v)}

BoundAt(r, cur, i, v) ==
    IF Lit(r, i).kind = "inc" THEN step ELSE Binding(Lit(r, i), idx[r][i].entries[cur[i]])[v]

Env(r, cur, l) ==
    [v \in UNION {VarsOf(Lit(r, i)) : i \in {j \in 2 .. l : Lit(r, j).kind \in {"pos", "inc"}}} |->
        BoundAt(r, cur, CHOOSE i \in Binders(r, l, v) : TRUE, v)]

(* The entries below a position that agree with what is bound already;     *)
(* they are visited backwards.                                             *)
Matches(r, cur, l, below) ==
    LET env == Env(r, cur, l - 1)
        lit == Lit(r, l)
        Agrees(tuple) == \A v \in VarsOf(lit) \cap DOMAIN env : Binding(lit, tuple)[v] = env[v]
    IN {p \in 1 .. below - 1 : Unifies(lit, idx[r][l].entries[p]) /\ Agrees(idx[r][l].entries[p])}

NoMatch == [ok |-> FALSE, new |-> FALSE, pos |-> 0]

PredMatch(r, cur, l, below) ==
    LET matches == Matches(r, cur, l, below)
    IN IF matches = {} THEN NoMatch
       ELSE [ok |-> TRUE, pos |-> Max(matches), new |-> Max(matches) > idx[r][l].finished]

FirstMatch(r, cur, l) ==
    IF l = 1 THEN [ok |-> TRUE, new |-> ~idx[r][1].finished, pos |-> 0]
    ELSE CASE Lit(r, l).kind = "pos" -> PredMatch(r, cur, l, Len(idx[r][l].entries) + 1)
           [] Lit(r, l).kind = "inc" -> [ok |-> TRUE, new |-> HasNew(r, idx[r], l), pos |-> 0]
           [] Lit(r, l).kind = "neg" -> [NoMatch EXCEPT !.ok = Atom(Lit(r, l), Env(r, cur, l - 1)) \notin fact]

NextMatch(r, cur, l) ==
    IF l > 1 /\ Lit(r, l).kind = "pos" THEN PredMatch(r, cur, l, cur[l]) ELSE NoMatch

Count(b) == IF b THEN 1 ELSE 0

GoesBackUnmatched == ~run.matched    \* mutant: what has been joined before is joined again

(* The search goes back: the level had no match, or nothing on the way is  *)
(* new and nothing further on is.                                          *)
GoesBack == ~run.matched \/ (run.numNew = 0 /\ run.l = run.lastNew)
BackTo == IF run.matched THEN run.l ELSE run.l - 1

Recounted(l, m) == run.numNew - Count(run.new[l]) + Count(m.ok /\ m.new)

Backtrack ==
    /\ run # NoRun /\ GoesBack /\ BackTo # 0
    /\ LET l == BackTo
           m == NextMatch(run.stm, run.cur, l)
       IN run' = [run EXCEPT !.l = l, !.matched = m.ok, !.cur[l] = m.pos, !.new[l] = m.new,
                             !.numNew = Recounted(l, m)]
    /\ UNCHANGED <<prog, reach, comps, done, step, dom, fact, idx, queue, startNew, grounded, printed>>

Advance ==
    /\ run # NoRun /\ ~GoesBack /\ run.l < Len(Body(run.stm)) + 1
    /\ LET l == run.l + 1
           m == FirstMatch(run.stm, run.cur, l)
       IN run' = [run EXCEPT !.l = l, !.matched = m.ok, !.cur[l] = m.pos, !.new[l] = m.new,
                             !.numNew = @ + Count(m.ok /\ m.new)]
    /\ UNCHANGED <<prog, reach, comps, done, step, dom, fact, idx, queue, startNew, grounded, printed>>

-----------------------------------------------------------------------------
HasHead(r) == HeadOf(r).kind # "none"

InDomain(atom) == atom[2] \in ToSet(dom[atom[1]])

(* Mutant: what is not in the domain yet is taken for false.               *)
FactTooEarly(r, lit, env) ==
    CASE lit.kind = "inc" -> TRUE
      [] lit.kind = "pos" -> Atom(lit, env) \in fact
      [] lit.kind = "neg" -> ~InDomain(Atom(lit, env))

(* PredLit::fact                                                           *)
IsFact(r, lit, env) ==
    CASE lit.kind = "inc" -> TRUE
      [] lit.kind = "pos" -> Atom(lit, env) \in fact
      [] lit.kind = "neg" -> Complete(r, lit) /\ ~InDomain(Atom(lit, env))

(* The literals of a kind that are printed, as atoms.                      *)
PrintedBody(r, kind, env) ==
    {Atom(lit, env) : lit \in {b \in ToSet(Body(r)) : b.kind = kind /\ ~IsFact(r, b, env)}}

(* Mutant: only the last new atom is remembered.                           *)
AddLast(r, atom, isFact) ==
    /\ dom' = IF InDomain(atom) THEN dom ELSE [dom EXCEPT ![atom[1]] = Append(@, atom[2])]
    /\ fact' = IF isFact THEN fact \cup {atom} ELSE fact
    /\ startNew' = IF InDomain(atom) THEN startNew
                   ELSE [startNew EXCEPT ![r] = Len(dom[atom[1]]) + 1]

(* Domain::insert, and what PredLit::addDomain remembers.                  *)
AddDomain(r, atom, isFact) ==
    LET isNew == ~InDomain(atom)
    IN /\ dom' = IF isNew THEN [dom EXCEPT ![atom[1]] = Append(@, atom[2])] ELSE dom
       /\ fact' = IF isFact THEN fact \cup {atom} ELSE fact
       /\ startNew' = IF isNew /\ startNew[r] = 0
                      THEN [startNew EXCEPT ![r] = Len(dom[atom[1]]) + 1] ELSE startNew

(* Rule::grounded, called with a complete join.                            *)
Ground ==
    /\ run # NoRun /\ ~GoesBack /\ run.l = Len(Body(run.stm)) + 1
    /\ LET r == run.stm
           env == Env(r, run.cur, run.l)
           head == Atom(HeadOf(r), env)
           isFact == \A i \in DOMAIN Body(r) : IsFact(r, Body(r)[i], env)
           rule == GroundRule(IF HasHead(r) THEN head ELSE NoAtom,
                              PrintedBody(r, "pos", env), PrintedBody(r, "neg", env))
       IN /\ grounded' = Append(grounded, <<r, env>>)
          /\ IF HasHead(r) /\ head \in fact
             THEN UNCHANGED <<dom, fact, startNew, printed>>
             ELSE /\ printed' = printed \cup {rule}
                  /\ IF HasHead(r) THEN AddDomain(r, head, isFact)
                     ELSE UNCHANGED <<dom, fact, startNew>>
    /\ run' = [run EXCEPT !.l = @ + 1, !.matched = FALSE]
    /\ UNCHANGED <<prog, reach, comps, done, step, idx, queue>>

(* Instantiator::finish: what was joined is old from now on.               *)
FinishInst(r) ==
    [l \in Levels(r) |->
        CASE l = 1 -> [finished |-> TRUE]
          [] l > 1 /\ Lit(r, l).kind = "pos" -> [idx[r][l] EXCEPT !.finished = Len(idx[r][l].entries)]
          [] l > 1 /\ Lit(r, l).kind = "inc" -> [idx[r][l] EXCEPT !.finished = step]
          [] l > 1 /\ Lit(r, l).kind = "neg" -> idx[r][l]]

(* The literals that the head of r provides for (Builder::analyze).        *)
ProvidedBy(r) ==
    {w \in UNION {{s} \X (2 .. Len(Body(s)) + 1) : s \in Component(r)} :
        Provides(r, w[1], Lit(w[1], w[2])) /\ ~Complete(w[1], Lit(w[1], w[2]))}

(* The rest of SimpleStatement::ground: finish, and PredLit::endGround     *)
(* passes the new atoms of the head on.                                    *)
Finish ==
    /\ run # NoRun /\ GoesBack /\ BackTo = 0
    /\ LET r == run.stm
           inst == [idx EXCEPT ![r] = FinishInst(r)]
           targets == IF startNew[r] = 0 THEN {}
                      ELSE {w \in ProvidedBy(r) : Lit(w[1], w[2]).kind = "pos" /\ inst[w[1]] # NoIndex}
           extended(w) == Extended(inst[w[1]][w[2]], Lit(w[1], w[2]), startNew[r] - 1)
           tuples(w) == dom[Lit(w[1], w[2]).pred]
           unified(w) == \E i \in startNew[r] .. Len(tuples(w)) : Unifies(Lit(w[1], w[2]), tuples(w)[i])
           woken == {w[1] : w \in {x \in targets : unified(x)}}
       IN /\ idx' = [s \in Names |-> IF inst[s] = NoIndex THEN NoIndex
                        ELSE [l \in Levels(s) |-> IF <<s, l>> \in targets THEN extended(<<s, l>>) ELSE inst[s][l]]]
          /\ \E order \in SetToSeqs(woken \ ToSet(queue)) : queue' = queue \o order
          /\ startNew' = [startNew EXCEPT ![r] = 0]
    /\ run' = NoRun
    /\ UNCHANGED <<prog, reach, comps, done, step, dom, fact, grounded, printed>>

Idle == run = NoRun /\ queue = <<>>
AllGrounded == Idle /\ comps = <<>> /\ step = MaxStep

Stop == AllGrounded /\ UNCHANGED vars

Next ==
    \/ StartComponent \/ StartStep \/ Dequeue
    \/ Backtrack \/ Advance \/ Ground \/ Finish
    \/ Stop

Spec == Init /\ [][Next]_vars

(* One thread runs this loop, and nothing in it waits.                     *)
FairSpec == Spec /\ WF_vars(Next)
-----------------------------------------------------------------------------
(* The instances of a rule over the atoms there are, the step being fixed. *)
VarsIn(r) == UNION {VarsOf(Body(r)[i]) : i \in DOMAIN Body(r)}
Instances(r) == [VarsIn(r) -> Consts]

(* An instance that has to be grounded: its positive body may be true, and *)
(* no negative literal is known to be false.                               *)
Applies(r, env) ==
    \A i \in DOMAIN Body(r) :
        LET lit == Body(r)[i] IN
        CASE lit.kind = "pos" -> InDomain(Atom(lit, env))
          [] lit.kind = "neg" -> Atom(lit, env) \notin fact
          [] lit.kind = "inc" -> Value(lit.args[1], env) = step

(* The base is grounded once: it does not see what a step derives for a    *)
(* literal of it.                                                          *)
Overtaken(s) ==
    /\ s \in prog.base /\ step > 0
    /\ \E r \in prog.cumulative : \E i \in DOMAIN Body(s) :
            HasHead(r) /\ Body(s)[i].kind = "pos" /\ Compatible(HeadOf(r), Body(s)[i])

(* The join may skip what has been joined before, but it must not miss     *)
(* anything: when the queue is empty, every rule of the components done    *)
(* has been grounded for every instance that applies.                      *)
NothingMissed ==
    Idle => \A r \in {s \in done : ~Overtaken(s)} : \A env \in Instances(r) : Applies(r, env) => <<r, env>> \in ToSet(grounded)

(* ... and no instance is grounded twice, whatever order the statements    *)
(* are queued in and however often they are queued again.                  *)
NothingTwice == IsInjective(grounded)

(* The program, instantiated with every value and step.                    *)
NaiveRules ==
    LET atoms(r, kind, env) == {Atom(b, env) : b \in {c \in ToSet(Body(r)) : c.kind = kind}}
        steps(r, env) == {Value(b.args[1], env) : b \in {c \in ToSet(Body(r)) : c.kind = "inc"}}
        instances(r) == {env \in Instances(r) : steps(r, env) \subseteq 1 .. MaxStep}
    IN {GroundRule(f, {}, {}) : f \in FactsOf(prog)} \cup
       UNION {{GroundRule(IF HasHead(r) THEN Atom(HeadOf(r), env) ELSE NoAtom,
                          atoms(r, "pos", env), atoms(r, "neg", env)) : env \in instances(r)} : r \in Names}

(* What is printed has the stable models of the program, although rules    *)
(* with false bodies, rules for facts, and literals that are facts are     *)
(* left out.                                                               *)
SameModels == AllGrounded => Stable(printed) = Stable(NaiveRules)

(* The loop over the queue ends: the domains are finite.                   *)
GroundingEnds == <>AllGrounded
=============================================================================
