----------------------------- MODULE MCGrounding -----------------------------
(* Programs for TLC: joins of a recursive predicate with itself, facts     *)
(* that are derived late, loops through negation, and steps.               *)
EXTENDS Grounding

X == -1
Y == -2
Z == -3
T == -4
Pos(p, args) == [kind |-> "pos", pred |-> p, args |-> args]
Neg(p, args) == [kind |-> "neg", pred |-> p, args |-> args]
Inc(t) == [kind |-> "inc", pred |-> "inc", args |-> <<t>>]
Constraint == [kind |-> "none", pred |-> "none", args |-> <<>>]
Rule(h, body) == [head |-> h, body |-> body]

(* The facts of every predicate of a program, few of which have any.       *)
Facts(arity, given) == [p \in DOMAIN arity |-> IF p \in DOMAIN given THEN given[p] ELSE <<>>]
Program(base, cumulative, rules, arity, given) ==
    [rules |-> rules, base |-> base, cumulative |-> cumulative, arity |-> arity, facts |-> Facts(arity, given)]

Lists(S, n) == {s \in BoundedSeq(S, n) : IsInjective(s)}

(* reachability: r(X,Y) :- e(X,Y).  r(X,Z) :- r(X,Y), r(Y,Z).              *)
(* cut(X) :- n(X), not r(1,X).  :- r(X,X).                                 *)
Reachability(edges) ==
    Program({"edge", "join", "cut", "loop"}, {},
               [edge |-> Rule(Pos("r", <<X, Y>>), <<Pos("e", <<X, Y>>)>>),
                join |-> Rule(Pos("r", <<X, Z>>), <<Pos("r", <<X, Y>>), Pos("r", <<Y, Z>>)>>),
                cut |-> Rule(Pos("cut", <<X>>), <<Pos("n", <<X>>), Neg("r", <<1, X>>)>>),
                loop |-> Rule(Constraint, <<Neg("cut", <<1>>), Pos("r", <<X, X>>)>>)],
            [e |-> 2, r |-> 2, n |-> 1, cut |-> 1],
            [e |-> edges, n |-> <<<<1>>, <<2>>>>])

EdgeLists == Lists({<<1, 2>>, <<2, 1>>, <<2, 3>>, <<3, 1>>}, 3)

(* a(X) :- n(X), not b(X).  b(X) :- n(X), not a(X).  c(X) :- a(X), m(Y), d(Y). *)
(* d(X) :- c(X).  d(X) :- m(X), not k(X).  k(X) :- d(X), b(X).  :- k(1), c(2). *)
Guesses(ns, ms) ==
    Program({"a", "b", "c", "d", "f", "h", "k"}, {},
               [a |-> Rule(Pos("a", <<X>>), <<Pos("n", <<X>>), Neg("b", <<X>>)>>),
                b |-> Rule(Pos("b", <<X>>), <<Neg("a", <<1>>), Pos("n", <<X>>)>>),
                c |-> Rule(Pos("c", <<X>>), <<Pos("a", <<X>>), Pos("d", <<Y>>)>>),
                d |-> Rule(Pos("d", <<X>>), <<Pos("c", <<X>>)>>),
                f |-> Rule(Pos("d", <<X>>), <<Pos("m", <<X>>), Neg("h", <<X>>)>>),
                h |-> Rule(Pos("h", <<1>>), <<Pos("d", <<2>>), Pos("n", <<X>>)>>),
                k |-> Rule(Constraint, <<Pos("h", <<X>>), Pos("c", <<2>>)>>)],
            [n |-> 1, m |-> 1, a |-> 1, b |-> 1, c |-> 1, d |-> 1, h |-> 1],
            [n |-> ns, m |-> ms])

FactLists == Lists({<<1>>, <<2>>}, 2)

Before == 3     \* the time before the first step

(* IncLit scores lowest, so it is joined first in every rule.              *)
(* base: at(X,1) :- s(X).  step T: at(Y,T) :- #cumulative T, nxt(S,T), at(X,S), *)
(* e(X,Y), not stay(X,S).  stay(X,T) :- ..., not go(X,T).  go(X,T) :- ..., not stay(X,T). *)
Steps(edges) ==
    Program({"start"}, {"stay", "go", "keep", "move"},
               [start |-> Rule(Pos("at", <<X, Before>>), <<Pos("s", <<X>>)>>),
                stay |-> Rule(Pos("stay", <<X, T>>), <<Inc(T), Pos("at", <<X, Y>>), Pos("nxt", <<Y, T>>), Neg("go", <<X, T>>)>>),
                go |-> Rule(Pos("go", <<X, T>>), <<Inc(T), Pos("nxt", <<Y, T>>), Pos("at", <<X, Y>>), Neg("stay", <<X, T>>)>>),
                keep |-> Rule(Pos("at", <<X, T>>), <<Inc(T), Pos("stay", <<X, T>>)>>),
                move |-> Rule(Pos("at", <<Y, T>>), <<Inc(T), Pos("go", <<X, T>>), Pos("e", <<X, Y>>)>>)],
            [s |-> 1, at |-> 2, nxt |-> 2, stay |-> 2, go |-> 2, e |-> 2],
            [s |-> <<<<1>>>>, nxt |-> <<<<Before, 1>>, <<1, 2>>>>, e |-> edges])

BasePrograms == {Reachability(es) : es \in EdgeLists} \cup {Guesses(ns, ms) : ns, ms \in FactLists}
StepPrograms == {Steps(es) : es \in Lists({<<1, 2>>, <<2, 1>>}, 2)}
AllPrograms == BasePrograms \cup StepPrograms
=============================================================================
