------------------------------ MODULE CspInit ------------------------------
(***************************************************************************)
(* How clingcon hands constraints to Gecode (gecodesolver.cpp: initialize, *)
(* guessDomains, the constructor of SearchSpace and the functions that     *)
(* post constraints).  Domains are guessed from the constraints that are   *)
(* decided at the top level; then these are posted, and the others are     *)
(* tied to a Boolean that the solver may set.  hasAnswer() asks for a      *)
(* solution.                                                               *)
(*                                                                         *)
(* A constraint relates a variable or a number with a variable or a        *)
(* number, or it is a Boolean combination.  Gecode is taken to be exact.   *)
(***************************************************************************)
EXTENDS IntervalSet, FiniteSets

CONSTANTS
    Problems,   \* sequences of constraints with the value of their literal
    Variables,
    Low, High,  \* Int::Limits
    Domain      \* the domain of #domain, an interval

ASSUME CspAssumption ==
    /\ Low \in Int /\ High \in Int /\ Low <= Domain.left /\ Domain.right <= High + 1

VARIABLES
    problem,    \* constraints_: a sequence of [con, value]
    guessed,    \* how many constraints initialize() has looked at
    domains,    \* domains_: a list of intervals for some variables
    posted,     \* the constraints of the root space that hold
    reified,    \* the Boolean of each constraint: "free", "true" or "false"
    phase,      \* "guess", "post", "failed" or "solve"
    answer      \* what hasAnswer() returned, for the current assignment

vars == <<problem, guessed, domains, posted, reified, phase, answer>>

Full == Interval(Low, High + 1)

Simple(op, left, right) == [op |-> op, left |-> left, right |-> right]
Compound == {"and", "or", "xor", "eqv"}

-----------------------------------------------------------------------------
(* getSet: the values that a relation with a number leaves to a variable.  *)
GetSet(op, x) ==
    CASE op = ">" -> <<Interval(x + 1, High + 1)>>
      [] op = "<" -> <<Interval(Low, x)>>
      [] op = ">=" -> <<Interval(x, High + 1)>>
      [] op = "<=" -> <<Interval(Low, x + 1)>>
      [] op = "=" -> <<Interval(x, x + 1)>>
      [] op = "!=" -> Complement(<<Interval(x, x + 1)>>, Full)

NotTurned(op) == op     \* mutant: the relation is not turned round

Turned(op) ==
    CASE op = ">" -> "<" [] op = "<" -> ">" [] op = ">=" -> "<=" [] op = "<=" -> ">="
      [] op \in {"=", "!="} -> op

IsVariable(term) == term \in Variables

GuessRelation(c) ==
    CASE IsVariable(c.left) /\ ~IsVariable(c.right) -> [v \in {c.left} |-> GetSet(c.op, c.right)]
      [] ~IsVariable(c.left) /\ IsVariable(c.right) -> [v \in {c.right} |-> GetSet(Turned(c.op), c.left)]
      [] OTHER -> <<>>

(* The maps of two constraints: intersect() keeps what is in one of them,  *)
(* the others only what is in both.                                        *)
IntersectMaps(a, b) ==
    [v \in DOMAIN a \cup DOMAIN b |->
        CASE v \notin DOMAIN b -> a[v] [] v \notin DOMAIN a -> b[v] [] OTHER -> Intersect(a[v], b[v])]

UniteMaps(a, b) == [v \in DOMAIN a \cap DOMAIN b |-> Unite(a[v], b[v])]

Not(list) == Complement(list, Full)

(* (a \/ b) /\ (-a \/ -b)                                                  *)
XorMaps(a, b) ==
    [v \in DOMAIN a \cap DOMAIN b |-> Intersect(Unite(a[v], b[v]), Unite(Not(a[v]), Not(b[v])))]

(* (a /\ b) \/ (-a /\ -b)                                                  *)
EqMaps(a, b) ==
    [v \in DOMAIN a \cap DOMAIN b |-> Unite(Intersect(a[v], b[v]), Intersect(Not(a[v]), Not(b[v])))]

(* guessDomainsImpl, for constraints that nest no deeper than two levels.  *)
Combine(op, a, b) ==
    CASE op = "and" -> IntersectMaps(a, b) [] op = "or" -> UniteMaps(a, b)
      [] op = "xor" -> XorMaps(a, b) [] op = "eqv" -> EqMaps(a, b)

GuessDeep(c) ==
    IF c.op \in Compound THEN Combine(c.op, GuessRelation(c.left), GuessRelation(c.right)) ELSE GuessRelation(c)

GuessImpl(c) ==
    IF c.op \in Compound THEN Combine(c.op, GuessDeep(c.left), GuessDeep(c.right)) ELSE GuessRelation(c)

Guess(c, val) == LET m == GuessImpl(c) IN IF val THEN m ELSE [v \in DOMAIN m |-> Not(m[v])]

AddToDomain(domain, add) ==
    [v \in DOMAIN domain \cup DOMAIN add |->
        CASE v \notin DOMAIN add -> domain[v] [] v \notin DOMAIN domain -> add[v]
          [] OTHER -> Intersect(domain[v], add[v])]

-----------------------------------------------------------------------------
(* What a constraint means, for a valuation of the variables.              *)
Relation(op, x, y) ==
    CASE op = ">" -> x > y [] op = "<" -> x < y [] op = ">=" -> x >= y
      [] op = "<=" -> x <= y [] op = "=" -> x = y [] op = "!=" -> x # y

Connect(op, a, b) ==
    CASE op = "and" -> a /\ b [] op = "or" -> a \/ b [] op = "xor" -> a # b [] op = "eqv" -> a = b

HoldsSimple(c, val) ==
    LET value(t) == IF IsVariable(t) THEN val[t] ELSE t IN Relation(c.op, value(c.left), value(c.right))
HoldsDeep(c, val) ==
    IF c.op \in Compound THEN Connect(c.op, HoldsSimple(c.left, val), HoldsSimple(c.right, val)) ELSE HoldsSimple(c, val)
Holds(c, val) ==
    IF c.op \in Compound THEN Connect(c.op, HoldsDeep(c.left, val), HoldsDeep(c.right, val)) ELSE HoldsSimple(c, val)

-----------------------------------------------------------------------------
Init ==
    /\ problem \in Problems
    /\ guessed = 0
    /\ domains = <<>>
    /\ posted = {}
    /\ reified = [i \in DOMAIN problem |-> problem[i].value]
    /\ phase = "guess"
    /\ answer = "none"

(* initialize(): domains are guessed of the constraints that are decided.  *)
GuessDomains ==
    /\ phase = "guess" /\ guessed < Len(problem)
    /\ guessed' = guessed + 1
    /\ LET p == problem[guessed + 1]
       IN domains' = IF p.value = "free" THEN domains ELSE AddToDomain(domains, Guess(p.con, p.value = "true"))
    /\ phase' = IF guessed' = Len(problem) THEN "post" ELSE "guess"
    /\ UNCHANGED <<problem, posted, reified, answer>>

PostNegated(p) == [con |-> p.con, val |-> FALSE]    \* mutant: every constraint is posted negated

(* generateConstraint(c, val): a relation is posted with its value, a      *)
(* combination is posted negated.                                          *)
PostDecided(p) == [con |-> p.con, val |-> p.con.op \notin Compound /\ p.value = "true"]

(* SearchSpace::SearchSpace.                                               *)
BuildSpace ==
    /\ phase = "post"
    /\ domains' = [v \in Variables |-> IF v \in DOMAIN domains THEN Intersect(domains[v], <<Domain>>) ELSE <<Domain>>]
    /\ posted' = {PostDecided(problem[i]) : i \in {k \in DOMAIN problem : problem[k].value # "free"}}
    /\ phase' = IF \E v \in Variables : domains'[v] = <<>> THEN "failed" ELSE "solve"
    /\ UNCHANGED <<problem, guessed, reified, answer>>

Unassigned == {i \in DOMAIN problem : reified[i] = "free"}

(* The solver decides a literal and the space is told.                     *)
Assign ==
    /\ phase = "solve"
    /\ \E i \in Unassigned, v \in {"true", "false"} : reified' = [reified EXCEPT ![i] = v]
    /\ answer' = "none"
    /\ UNCHANGED <<problem, guessed, domains, posted, phase>>

(* What is in the space: the domains, what is posted, and the Booleans of  *)
(* the constraints that were free.                                         *)
InSpace(val) ==
    /\ \A v \in Variables : val[v] \in ValuesOf(domains[v])
    /\ \A p \in posted : Holds(p.con, val) = p.val
    /\ \A i \in DOMAIN problem :
        problem[i].value = "free" /\ reified[i] # "free" => Holds(problem[i].con, val) = (reified[i] = "true")

Valuations == [Variables -> Domain.left .. Domain.right - 1]

(* hasAnswer() searches the space when all literals are assigned.          *)
HasAnswer ==
    /\ phase \in {"solve", "failed"} /\ answer = "none"
    /\ phase = "solve" => \A i \in DOMAIN reified : reified[i] # "free"
    /\ answer' = IF phase = "solve" /\ \E val \in Valuations : InSpace(val) THEN "yes" ELSE "no"
    /\ UNCHANGED <<problem, guessed, domains, posted, reified, phase>>

Stop == answer # "none" /\ UNCHANGED vars

Next == GuessDomains \/ BuildSpace \/ Assign \/ HasAnswer \/ Stop

Spec == Init /\ [][Next]_vars
-----------------------------------------------------------------------------
(* The valuations that the assignment asks for.                            *)
Solutions(values) ==
    {val \in Valuations : \A i \in DOMAIN problem : values[i] # "free" => Holds(problem[i].con, val) = (values[i] = "true")}

(* A conjunction of what is said of different variables: the domains of    *)
(* its map do not imply it one by one, only together.                      *)
Joint(c, left, right) == c.op = "and" /\ DOMAIN left # DOMAIN right

JointDeep(c) == Joint(c, GuessRelation(c.left), GuessRelation(c.right))
HasJoint(c) ==
    /\ c.op \in Compound
    /\ Joint(c, GuessDeep(c.left), GuessDeep(c.right)) \/ JointDeep(c.left) \/ JointDeep(c.right)

(* guessDomains(c, false), xorit() and eq() take the complement of a       *)
(* domain of each variable for the negation of a constraint. That of a     *)
(* conjunction like x = 1 $and y < 2 falls short of it: x = 1, y = 3 is    *)
(* lost when it is decided false.                                          *)
ComplementsJoint(p) ==
    /\ p.value = "false" \/ (p.value = "true" /\ p.con.op \in {"xor", "eqv"})
    /\ HasJoint(p.con)

(* domains_ holds a domain for each variable (gecodesolver.h): a list of   *)
(* ascending intervals, none empty and no two touching, as every operation *)
(* on such lists expects. Guessing only takes values that no solution has. *)
(* Two cases are excepted: a conjunction that is complemented domain by    *)
(* domain, and a union without a position to go on from.                   *)
GuessKeepsSolutions ==
    \A v \in DOMAIN domains :
        \/ domains[v] = Undefined
        \/ \E i \in 1 .. guessed : ComplementsJoint(problem[i])
        \/ /\ WellFormed(domains[v])
           /\ \A val \in Solutions([i \in DOMAIN problem |-> problem[i].value]) : val[v] \in ValuesOf(domains[v])

(* hasAnswer() returns true if there is a solution for the assignment of   *)
(* the constraints' literals, and false elsewise (gecodesolver.h).         *)
AnswerExact ==
    answer # "none" => (answer = "yes") = (Solutions(reified) # {})

(* It does so when no combination of constraints is decided at the top     *)
(* level: generateConstraint(c, val) posts such a one negated whatever its *)
(* value is.                                                               *)
AnswerExactIfUndecided ==
    (\A i \in DOMAIN problem : problem[i].con.op \in Compound => problem[i].value = "free") => AnswerExact
=============================================================================
