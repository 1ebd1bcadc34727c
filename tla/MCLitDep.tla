------------------------------ MODULE MCLitDep ------------------------------
(* Statements for TLC: three literals over three variables, bound or       *)
(* needed; and a literal with a formula inside that shares its variables.  *)
EXTENDS LitDep

Names == {"x", "y", "z"}
Binding(v) == [name |-> v, bind |-> TRUE, at |-> 1]
Needing(v, n) == [name |-> v, bind |-> FALSE, at |-> n]
Lit(occurs) == [occurs |-> occurs, inner |-> <<>>]

(* Literals such as p(X,Y+1), X=Y or not p(X,X).                           *)
Simple ==
    {Lit({})} \cup {Lit({Binding(v)}) : v \in Names} \cup {Lit({Needing(v, 1), Needing(v, 2)}) : v \in Names} \cup
    {Lit({Binding(v), Needing(w, 1)}) : v, w \in Names} \cup {Lit({Binding("x"), Binding("y")})}

Plain == [1 .. 3 -> Simple]

(* An aggregate: its value may be bound, its conditions are formulas.      *)
Aggregates ==
    {[occurs |-> occurs, inner |-> inner] :
        occurs \in {{}, {Binding("x")}, {Needing("y", 1)}},
        inner \in {<<f>> : f \in [1 .. 2 -> Simple]} \cup
                  {<<<<a>>, <<b>>>> : a, b \in {Lit({Binding("x")}), Lit({Binding("z"), Needing("x", 1)})}}}

Nested == {<<a, b>> : a \in Aggregates, b \in {Lit({Binding("y")}), Lit({Binding("x"), Needing("y", 1)}), Lit({Needing("x", 1)}), Lit({})}}

SmallStatements == Plain \cup Nested
=============================================================================
