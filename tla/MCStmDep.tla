------------------------------ MODULE MCStmDep ------------------------------
(* Small programs for TLC: every graph of three statements with positive   *)
(* and negative literals, and pairs of statements with domain literals,    *)
(* choices, aggregates, externals, constants and modules.                  *)
EXTENDS StmDep

InBody(d, a, path, domain) == [dom |-> d, arg |-> a, head |-> FALSE, domain |-> domain, path |-> path]
InHead(d, a, path) == [dom |-> d, arg |-> a, head |-> TRUE, domain |-> FALSE, path |-> path]

Pos == <<"monotone">>
Neg == <<"antimonotone">>
Sum == <<"nonmonotone", "monotone">>

Stm(m, choice, lits) == [module |-> m, choice |-> choice, lits |-> lits]

(* Statement i has the head i and, for each statement, no literal or one.  *)
Literals(kinds) ==
    LET lit(d) == CASE kinds[d] = "none" -> <<>>
                    [] kinds[d] = "pos" -> <<InBody(d, 0, Pos, FALSE)>>
                    [] kinds[d] = "neg" -> <<InBody(d, 0, Neg, FALSE)>>
                    [] kinds[d] = "dom" -> <<InBody(d, 0, Pos, TRUE)>>
    IN FlattenSeq([d \in DOMAIN kinds |-> lit(d)])

Graphs(bodies) ==
    {[stms |-> [s \in DOMAIN b |-> Stm(0, FALSE, <<InHead(s, 0, Pos)>> \o Literals(b[s]))], external |-> {}] :
        b \in bodies}

Occurrences(heads, bodies) ==
    {<<h, b>> : h \in heads, b \in bodies} \cup {<<h>> : h \in heads}

(* Two domains, of which one may be external; arguments 1, 2 or anything.  *)
Pairs ==
    LET stms == {Stm(m, c, lits) : m \in 0 .. 1, c \in BOOLEAN,
                    lits \in Occurrences({InHead(1, 0, Pos), InHead(1, 1, Pos), InHead(2, 0, Sum), InHead(2, 0, Neg)},
                                         {InBody(1, 2, Pos, FALSE), InBody(1, 0, Sum, FALSE), InBody(2, 0, Neg, FALSE),
                                          InBody(2, 0, Pos, TRUE), InBody(1, 1, Pos, FALSE)})}
    IN {[stms |-> <<a, b>>, external |-> e] : a \in stms, b \in {t \in stms : ~t.choice}, e \in {{}, {1}}}

(* At most two literals in a statement, of which one may be negative, and  *)
(* at most five in the program.                                            *)
Triples ==
    LET bodies == {b \in [1 .. 3 -> {"none", "pos", "neg"}] :
                       (\E d \in 1 .. 3 : b[d] = "none") /\ Cardinality({d \in 1 .. 3 : b[d] = "neg"}) <= 1}
    IN Graphs({b \in [1 .. 3 -> bodies] : Cardinality({w \in (1 .. 3) \X (1 .. 3) : b[w[1]][w[2]] # "none"}) <= 5})
Domains == Graphs([1 .. 2 -> [1 .. 2 -> {"none", "pos", "neg", "dom"}]])
SmallPrograms == Triples \cup Domains \cup Pairs
=============================================================================
