--------------------------- MODULE MCCspPropagation ---------------------------
(* Theories for TLC: two or three worlds, up to the names of the atoms and *)
(* their signs, real or not, with costs when there is something to         *)
(* minimize; the ways to propagate, to clone and to learn.                 *)
EXTENDS CspPropagation

World(true, cost, real) == [lits |-> true \cup {-a : a \in Atoms \ true}, cost |-> cost, real |-> real]
Upto(n) == {a \in Atoms : a <= n}
Others == {Upto(n) : n \in 0 .. Cardinality(Atoms)}

Pairs(costs) == {{World(Atoms, c, r), World(s, d, q)} : c, d \in costs, r, q \in BOOLEAN, s \in Others}
Thirds == {{}, {2}, {1, 3}}
Triples == {{World(Atoms, 0, r), World(s, 0, q), World(t, 0, p)} : r, q, p \in BOOLEAN, s \in {{1}, {1, 2}}, t \in Thirds}
Costs == {{World(Atoms, 0, r), World(s, 0, TRUE), World(t, 1, TRUE)} : r \in BOOLEAN, s \in Others, t \in Thirds}
SomeTheories == {{}} \cup Pairs(0 .. 1) \cup Triples \cup Costs

Option(l, p, o, n) == [lazy |-> l, delay |-> p[1], cloning |-> p[2], optimize |-> o, others |-> n]
SomeOptions ==
    {Option(l, p, FALSE, 1) : l \in BOOLEAN, p \in {<<1, 2>>, <<0, 1>>, <<2, 0>>}}
        \cup {Option(l, <<2, 2>>, TRUE, 0) : l \in BOOLEAN}

(* Minimizing, with a decision on an atom that no constraint knows.        *)
Minimizing == {Option(l, <<2, 2>>, TRUE, 1) : l \in BOOLEAN}
=============================================================================
