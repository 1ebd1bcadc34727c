------------------------------- MODULE LitDep -------------------------------
(***************************************************************************)
(* Safety and the order of a join (libgringo: litdep.cpp, and the levels   *)
(* of variables from formula.cpp).  The literals of a formula bind some    *)
(* variables and need others.  check() finds the variables nobody can      *)
(* bind; order() joins the literals, the cheapest of those that have all   *)
(* they need first.  A literal may hold formulas of its own: a variable of *)
(* such a formula that occurs outside of it too belongs to the outer one,  *)
(* and the literal needs it.                                               *)
(*                                                                         *)
(* Which of the literals scores best is left open.  Names stand for        *)
(* variables; anonymous ones are names that occur once.                    *)
(***************************************************************************)
EXTENDS Integers, Sequences, FiniteSets, SequencesExt

CONSTANT Statements

(***************************************************************************)
(* A statement is a sequence of literals.  A literal has a set occurs of   *)
(* the occurrences of variables in it, each [name, bind, at], and a        *)
(* sequence inner of formulas, which are sequences of literals without     *)
(* inner ones.                                                             *)
(***************************************************************************)
ASSUME LitDepAssumption ==
    \A s \in Statements :
        /\ DOMAIN s = 1 .. Len(s) /\ Len(s) \in Nat
        /\ \A l \in DOMAIN s :
            /\ IsFiniteSet(s[l].occurs) /\ IsFiniteSet(DOMAIN s[l].inner)
            /\ \A k \in DOMAIN s[l].inner :
                /\ DOMAIN s[l].inner[k] = 1 .. Len(s[l].inner[k]) /\ Len(s[l].inner[k]) \in Nat
                /\ \A i \in DOMAIN s[l].inner[k] : IsFiniteSet(s[l].inner[k][i].occurs)

VARIABLES
    stm,
    phase,      \* "check", "order", "ordered" or "unsafe"
    frm,        \* which FormulaNode: Outer, or the <<literal, number>> of an inner one
    open,       \* the formulas that are still to be checked, or ordered
    count,      \* LitNode::done_: how many variables each literal waits for
    bound,      \* the variables of the formula with VarNode::done_
    queue,      \* literals that wait for nothing
    joined,     \* the literals given to the instantiator, in order
    unsafe      \* the variables that check() reports

vars == <<stm, phase, frm, open, count, bound, queue, joined, unsafe>>

Outer == <<0, 0>>
Formulas == {Outer} \cup UNION {{l} \X DOMAIN stm[l].inner : l \in DOMAIN stm}
LitsOf(f) == IF f = Outer THEN stm ELSE stm[f[1]].inner[f[2]]

Occurring(lits) == {o.name : o \in UNION {lits[l].occurs : l \in DOMAIN lits}}

(* VarCollector: the statement is visited before the formulas inside, so   *)
(* that a variable belongs to the outermost formula it occurs in.          *)
VarsOf(f) == IF f = Outer THEN Occurring(stm) ELSE Occurring(LitsOf(f)) \ Occurring(stm)

(* Builder::visit(VarTerm): an occurrence binds if it can and its formula  *)
(* is the one the variable belongs to; otherwise the literal of the        *)
(* variable's formula waits for it, once for each occurrence.              *)
Own(f, l) == {<<o, 0, 0>> : o \in LitsOf(f)[l].occurs}

Inside(l) ==
    UNION {UNION {{<<o, k, i>> : o \in stm[l].inner[k][i].occurs} : i \in DOMAIN stm[l].inner[k]} :
            k \in DOMAIN stm[l].inner}

Name(w) == w[1].name

Binds(f, l) == {Name(w) : w \in {v \in Own(f, l) : v[1].bind /\ Name(v) \in VarsOf(f)}}

(* Mutant: formulas inside do not keep a literal waiting.                  *)
WaitsAlone(f, l) == {w \in Own(f, l) : ~w[1].bind /\ Name(w) \in VarsOf(f)}

Waits(f, l) ==
    {w \in Own(f, l) : ~w[1].bind /\ Name(w) \in VarsOf(f)} \cup
    (IF f = Outer THEN {w \in Inside(l) : Name(w) \in VarsOf(Outer)} ELSE {})

WaitsFor(f, l) == {Name(w) : w \in Waits(f, l)}

-----------------------------------------------------------------------------
(* FormulaNode::reset, and the literals that wait for nothing; their order *)
(* is left open.                                                           *)
Ready(f) == SetToSeqs({l \in DOMAIN LitsOf(f) : Waits(f, l) = {}})

Begin(f) ==
    /\ frm' = f
    /\ count' = [l \in DOMAIN LitsOf(f) |-> Cardinality(Waits(f, l))]
    /\ bound' = {}
    /\ queue' \in Ready(f)
    /\ joined' = <<>>

Init ==
    /\ stm \in Statements
    /\ phase = "check"
    /\ frm = Outer
    /\ open = Formulas \ {Outer}
    /\ count = [l \in DOMAIN stm |-> Cardinality(Waits(Outer, l))]
    /\ bound = {}
    /\ queue \in Ready(Outer)
    /\ joined = <<>>
    /\ unsafe = {}

(* LitNode::check: each variable the literal binds is done, if it was not, *)
(* and tells the literals that wait for it, once for each occurrence.      *)
News(l) == Binds(frm, l) \ bound

(* Mutant: a literal is told once of a variable, however often it occurs.  *)
ToldOnce(l) == [k \in DOMAIN count |-> count[k] - Cardinality(WaitsFor(frm, k) \cap News(l))]

Told(l) == [k \in DOMAIN count |-> count[k] - Cardinality({w \in Waits(frm, k) : Name(w) \in News(l)})]

Woken(l) == {k \in DOMAIN count : count[k] > 0 /\ Told(l)[k] = 0}

Propagate(l, rest) ==
    /\ count' = Told(l)
    /\ bound' = bound \cup Binds(frm, l)
    /\ \E order \in SetToSeqs(Woken(l)) : queue' = rest \o order

(* FormulaNode::check takes from the back ...                              *)
Check ==
    /\ phase = "check" /\ queue # <<>>
    /\ Propagate(queue[Len(queue)], Front(queue))
    /\ UNCHANGED <<stm, phase, frm, open, joined, unsafe>>

(* ... and reports what is left, before the next formula's turn.           *)
EndCheck ==
    /\ phase = "check" /\ queue = <<>>
    /\ unsafe' = unsafe \cup (VarsOf(frm) \ bound)
    /\ IF open # {}
       THEN \E f \in open : Begin(f) /\ open' = open \ {f} /\ phase' = phase
       ELSE /\ phase' = IF unsafe' = {} THEN "order" ELSE "unsafe"
            /\ open' = Formulas \ {Outer}
            /\ Begin(Outer)
    /\ UNCHANGED stm

WithoutLast(i) == Front(queue)      \* mutant: the last literal is erased, not the least

Without(i) == RemoveAt(queue, i)

(* FormulaNode::order takes the least score.                               *)
Order ==
    /\ phase = "order"
    /\ \E i \in DOMAIN queue : Propagate(queue[i], Without(i)) /\ joined' = Append(joined, queue[i])
    /\ UNCHANGED <<stm, phase, frm, open, unsafe>>

EndOrder ==
    /\ phase = "order" /\ queue = <<>>
    /\ IF open # {}
       THEN \E f \in open : Begin(f) /\ open' = open \ {f} /\ phase' = phase
       ELSE phase' = "ordered" /\ UNCHANGED <<frm, open, count, bound, queue, joined>>
    /\ UNCHANGED <<stm, unsafe>>

Stop == phase \in {"ordered", "unsafe"} /\ UNCHANGED vars

Next == Check \/ EndCheck \/ Order \/ EndOrder \/ Stop

Spec == Init /\ [][Next]_vars
-----------------------------------------------------------------------------
TypeOK ==
    /\ phase \in {"check", "order", "ordered", "unsafe"}
    /\ frm \in Formulas /\ open \subseteq Formulas
    /\ bound \subseteq VarsOf(frm)
    /\ DOMAIN count = DOMAIN LitsOf(frm)
    /\ ToSet(queue) \cup ToSet(joined) \subseteq DOMAIN count

(* assert(done_ > 0) in LitNode::propagate never fails: a literal has been *)
(* told as often as it waits for a variable that is done.                  *)
CountsExact ==
    \A l \in DOMAIN count : count[l] = Cardinality({w \in Waits(frm, l) : Name(w) \notin bound})

(* The variables that can be bound, without the queue: those some literal  *)
(* binds that waits only for such variables.                               *)
Bindable(f) ==
    LET set[n \in Nat] ==
            IF n = 0 THEN {}
            ELSE LET before == set[n - 1]
                 IN UNION {Binds(f, l) : l \in {k \in DOMAIN LitsOf(f) : WaitsFor(f, k) \subseteq before}}
    IN set[Cardinality(VarsOf(f)) + 1]

(* A statement is refused exactly for the variables that cannot be bound.  *)
SafetyExact ==
    /\ phase = "unsafe" => unsafe = UNION {VarsOf(f) \ Bindable(f) : f \in Formulas}
    /\ phase \in {"order", "ordered"} => \A f \in Formulas : VarsOf(f) = Bindable(f)

(* A literal is joined when all it needs is bound, by literals joined      *)
(* before it or, for an inner formula, by the statement around it: what it *)
(* must not bind itself, and every variable of a formula inside it that    *)
(* occurs outside.                                                         *)
JoinIsSafe ==
    phase = "order" => \A i \in DOMAIN joined :
        LET boundBefore == UNION {Binds(frm, joined[j]) : j \in 1 .. i - 1}
            needs == {Name(w) : w \in {v \in Own(frm, joined[i]) : ~v[1].bind}}
            inside == IF frm = Outer THEN {Name(w) : w \in Inside(joined[i])} ELSE {}
        IN (needs \cup inside) \cap VarsOf(frm) \subseteq boundBefore

(* A safe statement is joined completely, each literal once.               *)
JoinIsComplete ==
    /\ IsInjective(joined)
    /\ phase = "ordered" \/ (phase = "order" /\ queue = <<>>) => ToSet(joined) = DOMAIN LitsOf(frm)
=============================================================================
