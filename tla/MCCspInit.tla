----------------------------- MODULE MCCspInit -----------------------------
(* Problems for TLC: relations between two variables and numbers, and      *)
(* combinations of them.                                                   *)
EXTENDS CspInit

CONSTANTS x, y

Ops == {">", "<", ">=", "<=", "=", "!="}
Both == {x, y}
IntMin == -2
TheDomain == Interval(0, 4)
Values == {"true", "false", "free"}

Relations ==
    {Simple(op, x, k) : op \in Ops, k \in {0, 2}} \cup {Simple(op, k, y) : op \in Ops, k \in {1}} \cup
    {Simple(op, x, y) : op \in {"<", "="}}

With(cons, values) == {[con |-> c, value |-> v] : c \in cons, v \in values}

SimpleProblems == {<<a, b, c>> : a \in With(Relations, Values), b \in With(Relations, {"true", "free"}), c \in With({Simple("<", x, y), Simple("!=", x, 3)}, Values)}

Combinations(ops) ==
    {Simple(op, a, b) : op \in ops, a \in {Simple("=", x, 1), Simple(">", x, 0), Simple("!=", x, 2)},
                        b \in {Simple("=", x, 3), Simple("<", y, 2), Simple("<=", x, 2)}}

TrueProblems == {<<a, b>> : a \in With(Combinations({"and", "or"}), {"true"}), b \in With(Relations, Values)}
FreeProblems == {<<a, b>> : a \in With(Combinations(Compound), {"free"}), b \in With(Relations, Values)}

(* Combinations decided either way, with a part for both variables.        *)
Decided == With({Simple("<", x, y), Simple("!=", x, 2), Simple(">", y, 0)}, {"true", "false"})
DecidedProblems == {<<a, b>> : a \in With(Combinations(Compound), {"true", "false"}), b \in Decided}

(* Combinations of combinations, whose lists have up to three intervals.   *)
Inner ==
    {Simple(op, a, b) : op \in Compound, a \in {Simple(">", x, 0), Simple("!=", x, 1), Simple("<=", y, 2)},
                        b \in {Simple("<", x, 3), Simple("!=", x, 3), Simple("!=", y, 1), Simple("<", x, y)}}
NestedProblems ==
    {<<a, b>> : a \in With({Simple(op, c, d) : op \in Compound, c \in Inner,
                               d \in {Simple("=", x, 1), Simple("!=", y, 2), Simple("and", Simple("!=", x, 0), Simple("!=", x, 2))}},
                            {"true", "false"}),
                b \in With({Simple("<", x, y)}, {"true", "false"})}
AllProblems == SimpleProblems \cup FreeProblems \cup TrueProblems \cup DecidedProblems \cup NestedProblems
=============================================================================
