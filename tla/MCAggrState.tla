----------------------------- MODULE MCAggrState -----------------------------
(* Aggregates for TLC: up to three elements with one or two instances each. *)
EXTENDS AggrState

p == <<"atom", "p">>
q == <<"atom", "q">>
h == <<"atom", "h">>
g == <<"atom", "g">>

Inst(head, lits) == [head |-> head, lits |-> lits]
Facts == <<Inst(NoAtom, <<>>)>>
If(lits) == <<Inst(NoAtom, lits)>>
Choose(head, lits) == <<Inst(head, lits)>>

(* What gives an element: one instance, or two. *)
BodyInsts ==
    {Facts, If(<<Pos(p)>>), If(<<Neg(q)>>), If(<<Pos(p), Pos(q)>>), Facts \o If(<<Pos(p)>>),
     If(<<Pos(p)>>) \o If(<<Neg(q)>>), If(<<Pos(p), Pos(q)>>) \o If(<<Neg(p), Neg(q)>>)}
HeadInsts ==
    {Facts, If(<<Neg(p)>>), Choose(h, <<>>), Choose(g, <<>>), Choose(h, <<Pos(p)>>),
     Choose(g, <<Pos(p), Neg(q)>>), Choose(h, <<Pos(p)>>) \o Choose(h, <<Neg(q)>>),
     Choose(h, <<>>) \o Choose(g, <<Pos(q)>>), If(<<Pos(q)>>) \o Choose(h, <<Neg(p), Pos(q)>>)}

Element(set, weight, insts) == [set |-> set, weight |-> weight, insts |-> insts]
Weights == {-1, 1, 3}
Firsts(insts) == {Element(1, w, i) : w \in Weights, i \in insts}
Seconds(insts) == {Element(2, 2, i) : i \in insts} \cup {Element(2, 1, i) : i \in {j \in insts : Len(j) = 1}}
Third == Element(3, 1, If(<<Pos(q)>>))

Sets(insts) ==
    {{}} \cup {{a} : a \in Firsts(insts)} \cup {{a, b} : a \in Firsts(insts), b \in Seconds(insts)}
    \cup {{a, b, Third} : a \in {e \in Firsts(insts) : e.weight = -1}, b \in {e \in Seconds(insts) : e.weight = 2 /\ Len(e.insts) = 1}}
TheElements == Sets(BodyInsts) \cup Sets(HeadInsts)

Bounds == {<<Inf, TRUE, 1, TRUE>>, <<1, FALSE, Sup, TRUE>>, <<2, TRUE, Sup, TRUE>>, <<0, TRUE, 3, FALSE>>,
           <<2, TRUE, 2, TRUE>>, <<Inf, TRUE, 2, FALSE>>}
Kinds == {"sum", "min", "max"}
Aggregate(kind, head, sign, posWeights, complete, b) ==
    [kind |-> kind, head |-> head, sign |-> sign, assign |-> FALSE, posWeights |-> posWeights,
     complete |-> complete,
     lower |-> b[1], lleq |-> b[2], upper |-> b[3], uleq |-> b[4]]
TheAggregates ==
    {Aggregate(k, FALSE, s, k = "sum" /\ s, c, b) : k \in Kinds, s \in BOOLEAN, c \in BOOLEAN, b \in Bounds}
    \cup {Aggregate(k, FALSE, FALSE, TRUE, FALSE, b) : k \in {"sum"}, b \in Bounds}
    \cup {Aggregate(k, TRUE, FALSE, FALSE, FALSE, b) : k \in Kinds, b \in Bounds}
    \cup {[Aggregate(k, FALSE, FALSE, FALSE, c, <<Inf, TRUE, Sup, TRUE>>) EXCEPT !.assign = TRUE] :
             k \in Kinds, c \in BOOLEAN}

(* The other literals allow every value, or one. *)
Everything == {Inf, Sup} \cup -5..8
TheAllowed == {Everything, {1}, {3}}
=============================================================================
