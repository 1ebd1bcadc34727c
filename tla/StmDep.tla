------------------------------- MODULE StmDep -------------------------------
(***************************************************************************)
(* The dependency analysis of gringo (libgringo: stmdep.cpp and the        *)
(* modules of grounder.cpp).  Statements and the predicates of their heads *)
(* are the nodes of a graph; a depth-first search finds its strongly       *)
(* connected components, which are the order in which the program is       *)
(* grounded.  Each component is stratified or not, domain literals may     *)
(* only use what is stratified below, and a literal is complete if         *)
(* everything that provides for it is grounded before its statement.       *)
(*                                                                         *)
(* The search reads and overwrites one number per node, visited_: what is  *)
(* called the low link elsewhere.  Terms are abstracted to 0 for anything  *)
(* and other numbers for constants; warnings and the dot file are left     *)
(* out, and so is the order in which the edges of a node were entered: the *)
(* search takes them in any order.                                         *)
(***************************************************************************)
EXTENDS Integers, Sequences, FiniteSets, SequencesExt

CONSTANT Programs

(***************************************************************************)
(* A program has a sequence of statements and a set of external domains.   *)
(* A statement has a module (0 the base, 1 the cumulative, 2 the volatile  *)
(* part), a flag choice and a sequence of literals.  A literal occurs in a *)
(* domain, with an argument, in the head or in the body, for the domain of *)
(* a variable or not, below literals with the monotonicities of its path.  *)
(***************************************************************************)
Modules == 0 .. 2
Literal == [dom : Nat, arg : Nat, head : BOOLEAN, domain : BOOLEAN,
            path : Seq({"monotone", "antimonotone", "nonmonotone"})]
Statement == [module : Modules, choice : BOOLEAN, lits : Seq(Literal)]

ASSUME ProgramsAssumption == Programs \subseteq [stms : Seq(Statement), external : SUBSET Nat]

VARIABLES
    prog,
    depend,     \* depend_ of each node: nodes and types
    todo,       \* todo_, each with its provided and, of its literal, complete
    phase,      \* "visit", "search", "complete", "done", or "error"
    index,      \* Tarjan::index_
    visited,    \* visited_ of each node: 0, 1 when marked, or a number + 2
    component,  \* component_ of each node: 0 for none
    components, \* Tarjan::components_: is the component stratified?
    order,      \* Module::components_, per module, without the empty ones
    stack,      \* dfsStack_
    provide     \* PredLit::provide_ of the heads: pairs of a head and a todo

vars == <<prog, depend, todo, phase, index, visited, component, components, order, stack, provide>>

Stms == DOMAIN prog.stms
LitsOf(s) == DOMAIN prog.stms[s].lits
LitAt(s, i) == prog.stms[s].lits[i]
ModuleAt(n) == prog.stms[n[2]].module

(* Builder::visit(Lit): what the literals around a literal make of it.     *)
Below(outer, inner) ==
    CASE outer = "monotone" -> inner
      [] outer = "antimonotone" -> "antimonotone"
      [] outer = "nonmonotone" -> IF inner = "antimonotone" THEN inner ELSE outer

Monotonicity(lit) == FoldLeft(Below, "monotone", lit.path)

(* Builder::visit(PredLit): a head that is not negated is a node of its    *)
(* own, everything else is to be resolved once all heads are known.        *)
IsNode(s, i) ==
    LitAt(s, i).head /\ ~LitAt(s, i).domain /\ Monotonicity(LitAt(s, i)) # "antimonotone"

TypeOf(lit) ==
    IF lit.domain THEN "DOM"
    ELSE IF lit.head \/ Monotonicity(lit) # "monotone" THEN "NEG" ELSE "POS"

StmNode(s) == <<"stm", s, 0>>
PredNode(s, i) == <<"pred", s, i>>
Places == UNION {{<<s, i>> : i \in LitsOf(s)} : s \in Stms}
StmNodes == {StmNode(s) : s \in Stms}
PredNodes == {PredNode(w[1], w[2]) : w \in {v \in Places : IsNode(v[1], v[2])}}
Nodes == StmNodes \cup PredNodes
Todos == {w \in Places : ~IsNode(w[1], w[2])}

Edge(node, type) == [to |-> node, type |-> type]
Targets(n) == {e.to : e \in depend[n]}

(* What Builder::visit leaves behind for one statement: an aggregate or a  *)
(* choice in the head depends on itself.                                   *)
OwnEdges(s) ==
    {Edge(n, "NEG") : n \in {m \in PredNodes :
        m[2] = s /\ (Monotonicity(LitAt(s, m[3])) # "monotone" \/ prog.stms[s].choice)}}

IsExternal(w) == LitAt(w[1], w[2]).dom \in prog.external

(* Module::reachable: volatile sees cumulative sees base.                  *)
Reachable(from, to) == to <= from

Compatible(s, i, w) ==
    LET head == LitAt(s, i)
        lit == LitAt(w[1], w[2])
    IN /\ Reachable(prog.stms[w[1]].module, prog.stms[s].module)
       /\ head.dom = lit.dom
       /\ head.arg = 0 \/ lit.arg = 0 \/ head.arg = lit.arg

(* The heads of predNodes_ that a todo depends on.                         *)
Providers(w) == {n \in PredNodes : Compatible(n[2], n[3], w)}

-----------------------------------------------------------------------------
Init ==
    /\ prog \in Programs
    /\ depend = [n \in Nodes |-> IF n \in StmNodes THEN OwnEdges(n[2])
                                 ELSE {Edge(StmNode(n[2]), "POS")}]
    /\ todo = [w \in Todos |-> [from |-> {}, provided |-> 0, complete |-> FALSE]]
    /\ phase = "visit"
    /\ index = 0
    /\ visited = [n \in Nodes |-> 0]
    /\ component = [n \in Nodes |-> 0]
    /\ components = <<>>
    /\ order = [m \in Modules |-> <<>>]
    /\ stack = <<>>
    /\ provide = {}

(* Builder::analyze: a todo depends on the heads it is compatible with; it *)
(* is complete at once if there are none.                                  *)
Resolve ==
    /\ phase = "visit"
    /\ depend' = [n \in Nodes |->
            depend[n] \cup UNION {{Edge(m, TypeOf(LitAt(w[1], w[2]))) : m \in Providers(w)} :
                                     w \in {v \in Todos : StmNode(v[1]) = n}}]
    /\ todo' = [w \in Todos |->
            LET from == Providers(w)
            IN [from |-> from, provided |-> Cardinality(from), complete |-> from = {} /\ ~IsExternal(w)]]
    /\ phase' = "search"
    /\ UNCHANGED <<prog, index, visited, component, components, order, stack, provide>>

Marked(n) == visited[n] >= 1
Top == stack[Len(stack)]
Unmarked(n) == {m \in Targets(n) : ~Marked(m)}

(* if(!x->visited()) x->visited(++index_)                                  *)
Numbered(n) == IF visited[n] = 1 THEN index + 2 ELSE visited[n]
IndexAfter(n) == IF visited[n] = 1 THEN index + 1 ELSE index

(* Tarjan::start: all statements are roots, then all predicates.           *)
Start ==
    /\ phase = "search" /\ stack = <<>>
    /\ LET open(set) == {n \in set : ~Marked(n)}
       IN \E n \in IF open(StmNodes) # {} THEN open(StmNodes) ELSE open(PredNodes) :
            /\ stack' = <<n>>
            /\ visited' = [visited EXCEPT ![n] = 1]
    /\ UNCHANGED <<prog, depend, todo, phase, index, component, components, order, provide>>

Descend ==
    /\ phase = "search" /\ stack # <<>> /\ Unmarked(Top) # {}
    /\ \E y \in Unmarked(Top) :
          /\ stack' = Append(stack, y)
          /\ visited' = [visited EXCEPT ![Top] = Numbered(Top), ![y] = 1]
    /\ index' = IndexAfter(Top)
    /\ UNCHANGED <<prog, depend, todo, phase, component, components, order, provide>>

(* Mutant: hasComponent() is not tested.                                   *)
LowLinkOfAll(n) ==
    LET lower == {visited[m] : m \in {k \in Targets(n) \ {n} : visited[k] < Numbered(n)}}
    IN IF lower = {} THEN Numbered(n) ELSE Min(lower)

(* Node::root: the least number of an open neighbour, if it is less.       *)
LowLink(n) ==
    LET lower == {visited[m] : m \in {k \in Targets(n) \ {n} : component[k] = 0 /\ visited[k] < Numbered(n)}}
    IN IF lower = {} THEN Numbered(n) ELSE Min(lower)

IsRoot(n) == LowLink(n) = Numbered(n)

Leave ==
    /\ phase = "search" /\ stack # <<>> /\ Unmarked(Top) = {} /\ ~IsRoot(Top)
    /\ visited' = [visited EXCEPT ![Top] = LowLink(Top)]
    /\ index' = IndexAfter(Top)
    /\ stack' = Front(stack)
    /\ UNCHANGED <<prog, depend, todo, phase, component, components, order, provide>>

(* Tarjan::component: all that is reachable from the root and still open,  *)
(* the least set with the root that no edge to an open node leaves.        *)
Collected(root) ==
    LET open == {n \in Nodes : component[n] = 0}
        kept == {set \in SUBSET open : root \in set /\ \A n \in set : Targets(n) \cap open \subseteq set}
    IN {n \in open : \A set \in kept : n \in set}

Edges(set) == UNION {depend[n] : n \in set}

StratifiedBelow(e) == FALSE         \* mutant: components below are not looked at

(* Below the component there is one that is not stratified, or it has a    *)
(* cycle through a negative literal.                                       *)
UnstratifiedBelow(e) == component[e.to] > 0 /\ ~components[component[e.to]]

IsStratified(set) ==
    \A e \in Edges(set) : ~UnstratifiedBelow(e) /\ (component[e.to] = 0 => e.type # "NEG")

(* Tarjan::checkDom throws.                                                *)
DomainError(set) ==
    \E e \in Edges(set) : e.type = "DOM" /\ (component[e.to] = 0 \/ UnstratifiedBelow(e))

(* Mutant: the component's number is the next one.                         *)
CountedNext(t, stms, comp) ==
    LET n == Cardinality({m \in t.from : m[2] \in stms})
    IN IF n > 0 /\ n = t.provided THEN comp + 1 ELSE t.provided - n

(* StmNode::addToComponent: the last provider of a todo leaves its own     *)
(* component in the counter.                                               *)
Counted(t, stms, comp) ==
    LET n == Cardinality({m \in t.from : m[2] \in stms})
    IN IF n > 0 /\ n = t.provided THEN comp ELSE t.provided - n

CloseComponent ==
    /\ phase = "search" /\ stack # <<>> /\ Unmarked(Top) = {} /\ IsRoot(Top)
    /\ LET set == Collected(Top)
           comp == Len(components)
           stms == {n[2] : n \in set \cap StmNodes}
       IN /\ phase' = IF DomainError(set) THEN "error" ELSE "search"
          /\ component' = [n \in Nodes |-> IF n \in set THEN comp + 1 ELSE component[n]]
          /\ components' = Append(components, IsStratified(set))
          /\ todo' = [w \in Todos |-> [todo[w] EXCEPT !.provided = Counted(todo[w], stms, comp)]]
          /\ order' = IF stms = {} THEN order ELSE [order EXCEPT ![ModuleAt(Top)] = Append(@, stms)]
    /\ visited' = [visited EXCEPT ![Top] = Numbered(Top)]
    /\ index' = IndexAfter(Top)
    /\ stack' = Front(stack)
    /\ UNCHANGED <<prog, depend, provide>>

(* The end of Builder::analyze: what is complete, and whom a head tells    *)
(* about new atoms.                                                        *)
ComponentOf(n) == component[n] - 1

Complete ==
    /\ phase = "search" /\ stack = <<>> /\ \A n \in Nodes : Marked(n)
    /\ LET isComplete(w) ==
            todo[w].complete \/ (todo[w].provided < ComponentOf(StmNode(w[1])) /\ ~IsExternal(w))
       IN /\ todo' = [w \in Todos |-> [todo[w] EXCEPT !.complete = isComplete(w)]]
          /\ provide' = {v \in PredNodes \X Todos :
                LET w == v[2]
                IN v[1] \in todo[w].from /\ ~isComplete(w) /\ ComponentOf(v[1]) = todo[w].provided}
    /\ phase' = "done"
    /\ UNCHANGED <<prog, depend, index, visited, component, components, order, stack>>

Stop == phase \in {"done", "error"} /\ UNCHANGED vars

Next == Resolve \/ Start \/ Descend \/ Leave \/ CloseComponent \/ Complete \/ Stop

Spec == Init /\ [][Next]_vars
-----------------------------------------------------------------------------
(* Reference definitions: the sets of nodes that no edge leaves, and what  *)
(* is reached from a node, the least of them that has it.                  *)
Closed == {set \in SUBSET Nodes : \A n \in set : Targets(n) \subseteq set}

Reach(n) == LET kept == {set \in Closed : n \in set} IN {m \in Nodes : \A set \in kept : m \in set}

(* The numbers that root() overwrites still find the strongly connected    *)
(* components: two nodes share one exactly if each reaches the other, that *)
(* is if no closed set separates them.                                     *)
ComponentsAreCycles ==
    LET closed == Closed
    IN \A n, m \in Nodes : component[n] > 0 =>
            (component[m] = component[n] <=> \A set \in closed : n \in set <=> m \in set)

(* What a statement depends on is grounded before it or with it, and a     *)
(* component is in one module (an assertion of Tarjan::component).         *)
BottomUp ==
    \A n, m \in Nodes : component[n] > 0 =>
        /\ m \in Targets(n) => component[m] \in 1 .. component[n]
        /\ component[m] = component[n] => ModuleAt(m) = ModuleAt(n)

(* Every statement is grounded, once, in its module.                       *)
EachOnce ==
    phase = "done" => \A s \in Stms : \A m \in Modules :
        Cardinality({k \in DOMAIN order[m] : s \in order[m][k]}) = IF m = prog.stms[s].module THEN 1 ELSE 0

(* The order in which the statements are grounded.                         *)
ComponentsRight == ComponentsAreCycles /\ BottomUp /\ EachOnce

(* A cycle through negation below a node, found edge by edge.              *)
NegativeCycleBelow(n) ==
    \E m \in Reach(n) : \E e \in depend[m] : e.type = "NEG" /\ m \in Reach(e.to)

(* The analysis refuses a program exactly if the domain of a variable      *)
(* depends on itself or on a cycle through negation.                       *)
DomainsAreStratified ==
    LET unsafe(n, e) == e.type = "DOM" /\ (n \in Reach(e.to) \/ NegativeCycleBelow(e.to))
        bad == {n \in Nodes : \E e \in depend[n] : unsafe(n, e)}
    IN /\ phase = "done" => bad = {}
       /\ phase = "error" => bad # {}

(* A literal is called complete exactly if no statement that may still add *)
(* an atom to it is grounded with its statement or later.                  *)
CompleteIsBelow ==
    phase = "done" => \A w \in Todos :
        LET later == {n \in Providers(w) : component[StmNode(n[2])] >= component[StmNode(w[1])]}
        IN todo[w].complete <=> later = {} /\ ~IsExternal(w)

(* New atoms are passed on to exactly the literals that wait for them: the *)
(* others take them when their component begins.  An external literal has  *)
(* no index and is told in vain.                                           *)
ProvidedWithin ==
    phase = "done" => \A w \in Todos : ~IsExternal(w) =>
        {v[1] : v \in {u \in provide : u[2] = w}} =
            {n \in Providers(w) : component[StmNode(n[2])] = component[StmNode(w[1])]}

(* What is known to be complete, and who is told of what is not.           *)
AtomsReachAll == CompleteIsBelow /\ ProvidedWithin
=============================================================================
