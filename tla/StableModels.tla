---------------------------- MODULE StableModels ----------------------------
(***************************************************************************)
(* What a ground logic program means: the definition that the models of    *)
(* the grounder and of its outputs are compared with.  A ground rule is a  *)
(* record of its head, an atom or NoAtom for an integrity constraint, and  *)
(* of the sets of atoms of its positive and of its negative body.          *)
(***************************************************************************)
EXTENDS Naturals, FiniteSets

CONSTANT NoAtom

GroundRule(head, pos, neg) == [head |-> head, pos |-> pos, neg |-> neg]

(* The least set of atoms that is closed under rules without negation: one *)
(* more level of it is derived at a time, and there are no more levels     *)
(* than rules.                                                             *)
Least(rules) ==
    LET level[n \in Nat] ==
            IF n = 0 THEN {}
            ELSE LET below == level[n - 1] IN {r.head : r \in {s \in rules : s.pos \subseteq below}}
    IN level[Cardinality({r.head : r \in rules})]

Definite(program) == {r \in program : r.head # NoAtom}

Reduct(program, atoms) == {r \in Definite(program) : r.neg \cap atoms = {}}

Violates(rule, atoms) == rule.head = NoAtom /\ rule.pos \subseteq atoms /\ rule.neg \cap atoms = {}

(* Only the truth of the atoms below a negation has to be guessed.         *)
Stable(program) ==
    LET guessed == UNION {r.neg : r \in program}
        Candidate(g) == Least(Reduct(program, g))
    IN {m \in {Candidate(g) : g \in {h \in SUBSET guessed : Candidate(h) \cap guessed = h}} :
            \A r \in program : ~Violates(r, m)}
=============================================================================
