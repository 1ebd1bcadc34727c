----------------------------- MODULE RuleLifetime -----------------------------
(* What oclingo promises a controller about the rules it sends: for how long   *)
(* each of them takes part in solving.  Nothing is said about how a rule is     *)
(* switched off; OnlineOutput does that with guard atoms and is shown to        *)
(* implement this specification.                                                *)
(*                                                                              *)
(*   cumulative  forever                                                        *)
(*   query       until the next message of the controller (#volatile.)          *)
(*   decay       while clock < until (#volatile : w., or a #volatile w part)    *)
(*   assert      until its term is retracted (#assert : t. / #retract : t.)     *)
EXTENDS Integers

CONSTANTS
    Terms,      \* ground terms of #assert and #retract
    NoTerm,     \* the term of a rule that is not asserted
    MaxStep,    \* bound on the step counter
    MaxWindow,  \* bound on the window of a volatile rule
    MaxRules    \* bound on the number of rules sent

VARIABLES
    clock,      \* the incremental step the program is grounded for
    sent,       \* how many rules there have been
    rules,      \* the rules sent so far
    live        \* those that still take part in solving

lifeVars == <<clock, sent, rules, live>>

Kinds == {"cumulative", "query", "decay", "assert"}

Rule == [id: 1..MaxRules, kind: Kinds, until: 0..(MaxStep + MaxWindow),
         term: Terms \cup {NoTerm}]

LifeInit ==
    /\ clock = 1
    /\ sent = 0
    /\ rules = {}
    /\ live = {}

(* A rule joins the program.  A volatile rule whose time is already over is     *)
(* accepted, and never takes part.                                              *)
Send(r) ==
    /\ r.id = sent + 1
    /\ sent' = r.id
    /\ rules' = rules \cup {r}
    /\ live' = IF r.kind = "decay" /\ r.until <= clock THEN live ELSE live \cup {r}
    /\ UNCHANGED clock

(* The step counter moves on; what is over leaves only when the step is         *)
(* settled, before the next solving.                                            *)
Advance ==
    /\ clock < MaxStep
    /\ clock' = clock + 1
    /\ UNCHANGED <<sent, rules, live>>

Settle ==
    /\ live' = {r \in live : r.kind = "decay" => r.until > clock}
    /\ UNCHANGED <<clock, sent, rules>>

EndQuery ==
    /\ live' = {r \in live : r.kind # "query"}
    /\ UNCHANGED <<clock, sent, rules>>

Retract(t) ==
    /\ live' = {r \in live : ~(r.kind = "assert" /\ r.term = t)}
    /\ UNCHANGED <<clock, sent, rules>>

LifeNext ==
    \/ \E r \in Rule : Send(r)
    \/ Advance
    \/ Settle
    \/ EndQuery
    \/ \E t \in Terms : Retract(t)

LifeSpec == LifeInit /\ [][LifeNext]_lifeVars
===============================================================================
