----------------------------- MODULE OnlineOutput -----------------------------
(* The translation of rules with a limited lifetime (ClaspOutput, oClaspOutput,  *)
(* ExtVolPrinter, IncPrinter).  clasp cannot remove a rule, so every such rule   *)
(* gets a guard: an atom that occurs negated in its body, false (frozen) while   *)
(* the rule is to hold, and made a fact, once and for all, when the rule ends.   *)
(* Three dictionaries map a reason to end a rule to its current guard: the       *)
(* expiry step (volUids), the asserted term (assertUids) and the next message    *)
(* (queryAtom).  Rules that end for the same reason share a guard, so forgetting *)
(* to renew one, or renewing it too early, kills or revives the rules of others. *)
EXTENDS Integers

CONSTANTS
    Terms,      \* ground terms of #assert and #retract
    NoTerm,     \* the term of a rule that is not asserted
    Externals,  \* atoms declared #external by the program
    MaxStep,    \* bound on incStep and on the steps a controller asks for
    MaxWindow,  \* bound on the window of #volatile : w
    MaxRules    \* bound on the number of guarded rules

ASSUME OutputAssumption ==
    /\ NoTerm \notin Terms
    /\ MaxStep \in Nat \ {0}
    /\ MaxWindow \in Nat \ {0}
    /\ MaxRules \in Nat

VARIABLES
    phase,          \* where FromGringo<OCLINGO>::read is
    incStep,        \* IncConfig::incStep
    controllerStep, \* ExternalKnowledge::controller_step_
    nextAtom,       \* the next atom ProgramBuilder::newAtom returns
    frozen,         \* atoms frozen in the ProgramBuilder
    facts,          \* guards that have been given a fact
    volUids,        \* expiry step -> guard, 0 for none
    assertUids,     \* term -> guard, 0 for none
    queryAtom,      \* vol_atom_, 0 for none
    trueAtom,       \* trueAtom_, 0 for none
    symbolMap,      \* external atom -> its symbol, 0 while it has none
    newSymbols,     \* external atoms that got their symbol since the last finalize
    externalAtoms,  \* step -> external atoms declared in it and not forgotten
    sent,           \* number of rules printed
    rules,          \* the rules printed
    guard           \* rule -> its guard, 0 for a rule without one

builderVars == <<nextAtom, frozen, facts>>
dictVars    == <<volUids, assertUids, queryAtom, trueAtom>>
extVars     == <<symbolMap, newSymbols, externalAtoms>>
ruleVars    == <<sent, rules, guard>>
stepVars    == <<phase, incStep, controllerStep>>
vars        == <<stepVars, builderVars, dictVars, extVars, ruleVars>>

Steps   == 0..MaxStep
Windows == 1..MaxWindow
Keys    == 1..(MaxStep + MaxWindow)
RuleIds == 1..MaxRules

Live == {r \in rules : guard[r.id] \notin facts}

Lifetime == INSTANCE RuleLifetime WITH clock <- incStep, live <- Live

Rule == Lifetime!Rule

Phases == {"ground", "grounded", "premature", "solve", "input", "stepped", "quiet"}

TypeOK ==
    /\ phase \in Phases
    /\ incStep \in 1..MaxStep
    /\ controllerStep \in Steps
    /\ nextAtom \in Nat
    /\ frozen \subseteq Nat
    /\ facts \subseteq Nat \ {0}
    /\ volUids \in [Keys -> Nat]
    /\ assertUids \in [Terms -> Nat]
    /\ queryAtom \in Nat
    /\ trueAtom \in Nat
    /\ symbolMap \in [Externals -> Nat]
    /\ newSymbols \subseteq Externals
    /\ externalAtoms \in [Steps -> SUBSET Nat]
    /\ sent \in 0..MaxRules
    /\ rules \subseteq Rule
    /\ guard \in [RuleIds -> Nat]

(* Atom 1 is false_, which LparseConverter::initialize takes first; the base     *)
(* part is grounded as step 1.                                                   *)
Init ==
    /\ phase = "ground"
    /\ incStep = 1
    /\ controllerStep = 1
    /\ nextAtom = 2
    /\ frozen = {}
    /\ facts = {}
    /\ volUids = [k \in Keys |-> 0]
    /\ assertUids = [t \in Terms |-> 0]
    /\ queryAtom = 0
    /\ trueAtom = 0
    /\ symbolMap = [e \in Externals |-> 0]
    /\ newSymbols = {}
    /\ externalAtoms = [k \in Steps |-> {}]
    /\ sent = 0
    /\ rules = {}
    /\ guard = [i \in RuleIds |-> 0]

-------------------------------------------------------------------------------
(* Guards. *)

(* symbol() followed by freeze(): atom is new, and frozen. *)
NewFrozenAtom(atom) ==
    /\ atom = nextAtom
    /\ nextAtom' = nextAtom + 1
    /\ frozen' = frozen \cup {atom}

(* getNewVolUid(step) returns atom. *)
GetNewVolUid(step, atom) ==
    \/ /\ step < incStep + 1            \* out of order: the guard is already true
       /\ trueAtom = 0
       /\ atom = nextAtom
       /\ trueAtom' = atom
       /\ nextAtom' = nextAtom + 1
       /\ facts' = facts \cup {atom}
       /\ UNCHANGED <<frozen, volUids>>
    \/ /\ step < incStep + 1
       /\ trueAtom # 0
       /\ atom = trueAtom
       /\ UNCHANGED <<builderVars, volUids, trueAtom>>
    \/ /\ step >= incStep + 1
       /\ volUids[step] = 0
       /\ NewFrozenAtom(atom)
       /\ volUids' = [volUids EXCEPT ![step] = atom]
       /\ UNCHANGED <<facts, trueAtom>>
    \/ /\ step >= incStep + 1
       /\ volUids[step] # 0
       /\ atom = volUids[step]
       /\ UNCHANGED <<builderVars, volUids, trueAtom>>

(* Mutant: the dictionary is not looked up. *)
GetNewAssertAtom(term, atom) ==
    /\ NewFrozenAtom(atom)
    /\ assertUids' = [assertUids EXCEPT ![term] = atom]
    /\ UNCHANGED facts

(* getAssertAtom(term) returns atom. *)
GetAssertAtom(term, atom) ==
    \/ /\ assertUids[term] = 0
       /\ NewFrozenAtom(atom)
       /\ assertUids' = [assertUids EXCEPT ![term] = atom]
       /\ UNCHANGED facts
    \/ /\ assertUids[term] # 0
       /\ atom = assertUids[term]
       /\ UNCHANGED <<builderVars, assertUids>>

(* getQueryAtom() returns atom. *)
GetQueryAtom(atom) ==
    \/ /\ queryAtom = 0
       /\ NewFrozenAtom(atom)
       /\ queryAtom' = atom
       /\ UNCHANGED facts
    \/ /\ queryAtom # 0
       /\ atom = queryAtom
       /\ UNCHANGED <<builderVars, queryAtom>>

-------------------------------------------------------------------------------
(* Rules.  doAdd prints a rule and lets the printer of the current part add the *)
(* guard to its body.                                                           *)

PrintRule(kind, until, term, atom) ==
    /\ sent < MaxRules
    /\ sent' = sent + 1
    /\ rules' = rules \cup {[id |-> sent + 1, kind |-> kind, until |-> until, term |-> term]}
    /\ guard' = [guard EXCEPT ![sent + 1] = atom]

(* Rules are printed while a message is parsed, if no step is outstanding, or    *)
(* when the queued ones are drained after the steps it asked for.                *)
MayAdd ==
    \/ phase \in {"input", "stepped"} /\ controllerStep <= incStep
    \/ phase = "premature"

AddCumulative ==
    /\ MayAdd
    /\ PrintRule("cumulative", 0, NoTerm, 0)
    /\ UNCHANGED <<stepVars, builderVars, dictVars, extVars>>

AddQuery ==
    /\ MayAdd
    /\ \E atom \in 1..nextAtom :
        /\ GetQueryAtom(atom)
        /\ PrintRule("query", 0, NoTerm, atom)
    /\ UNCHANGED <<stepVars, volUids, assertUids, trueAtom, extVars>>

(* A window is relative to the step of the controller, not to incStep. *)
AddDecay(window) ==
    /\ MayAdd
    /\ \E atom \in 1..nextAtom :
        /\ GetNewVolUid(controllerStep + window, atom)
        /\ PrintRule("decay", controllerStep + window, NoTerm, atom)
    /\ UNCHANGED <<stepVars, assertUids, queryAtom, extVars>>

AddAssert(term) ==
    /\ MayAdd
    /\ \E atom \in 1..nextAtom :
        /\ GetAssertAtom(term, atom)
        /\ PrintRule("assert", 0, term, atom)
    /\ UNCHANGED <<stepVars, volUids, queryAtom, trueAtom, extVars>>

(* Mutant: the guard stays in assertUids_ after its fact. *)
RetractAtomKept(term) ==
    /\ phase \in {"input", "stepped"}
    /\ assertUids[term] # 0
    /\ facts' = facts \cup {assertUids[term]}
    /\ UNCHANGED <<stepVars, nextAtom, frozen, dictVars, extVars, ruleVars>>

(* retractAtom: an unknown term is only reported. *)
RetractAtom(term) ==
    /\ phase \in {"input", "stepped"}
    /\ assertUids[term] # 0
    /\ facts' = facts \cup {assertUids[term]}
    /\ assertUids' = [assertUids EXCEPT ![term] = 0]
    /\ UNCHANGED <<stepVars, nextAtom, frozen, volUids, queryAtom, trueAtom, extVars, ruleVars>>

(* A rule of a #volatile w part of the program, printed while it is grounded. *)
GroundVolatile(window) ==
    /\ phase = "ground"
    /\ \E atom \in 1..nextAtom :
        /\ GetNewVolUid(incStep + window, atom)
        /\ PrintRule("decay", incStep + window, NoTerm, atom)
    /\ UNCHANGED <<stepVars, assertUids, queryAtom, extVars>>

-------------------------------------------------------------------------------
(* External atoms. *)

(* LparseConverter::symbol(PredLitRep): an atom of an external predicate is      *)
(* printed for the first time.                                                   *)
NewSymbol(e) ==
    /\ phase = "ground" \/ MayAdd
    /\ symbolMap[e] = 0
    /\ symbolMap' = [symbolMap EXCEPT ![e] = nextAtom]
    /\ nextAtom' = nextAtom + 1
    /\ newSymbols' = newSymbols \cup {e}
    /\ UNCHANGED <<stepVars, frozen, facts, dictVars, externalAtoms, ruleVars>>

(* #forget of the program, of a message, and one that has waited: after the      *)
(* rules that waited too, or without any. *)
MayForget == phase = "ground" \/ MayAdd \/ (phase = "grounded" /\ incStep = controllerStep)

(* Mutant: the list of the step is not erased. *)
ForgetStepKept(step) ==
    /\ MayForget
    /\ externalAtoms[step] # {}
    /\ frozen' = frozen \ externalAtoms[step]
    /\ UNCHANGED <<stepVars, nextAtom, facts, dictVars, extVars, ruleVars>>

(* forgetStep(step) *)
ForgetStep(step) ==
    /\ MayForget
    /\ externalAtoms[step] # {}
    /\ frozen' = frozen \ externalAtoms[step]
    /\ externalAtoms' = [externalAtoms EXCEPT ![step] = {}]
    /\ UNCHANGED <<stepVars, nextAtom, facts, dictVars, symbolMap, newSymbols, ruleVars>>

-------------------------------------------------------------------------------
(* Steps. *)

(* Mutant: the guard is kept after its fact. *)
QueryAtomKept == facts' = (IF queryAtom # 0 THEN facts \cup {queryAtom} ELSE facts) /\ UNCHANGED queryAtom

(* deactivateQueryAtom() *)
DeactivateQueryAtom ==
    /\ facts' = IF queryAtom # 0 THEN facts \cup {queryAtom} ELSE facts
    /\ queryAtom' = 0

(* read() after a complete message: deactivateQueryAtom. *)
ReadInput ==
    /\ phase = "solve"
    /\ phase' = "input"
    /\ DeactivateQueryAtom
    /\ UNCHANGED <<incStep, controllerStep, nextAtom, frozen, volUids, assertUids, trueAtom,
                   extVars, ruleVars>>

(* read() without one. *)
ReadNothing ==
    /\ phase = "solve"
    /\ phase' = "quiet"
    /\ UNCHANGED <<incStep, controllerStep, builderVars, dictVars, extVars, ruleVars>>

(* setStep: only the first #step of a message counts. *)
SetControllerStep(step) ==
    /\ phase = "input"
    /\ phase' = "stepped"
    /\ controllerStep' = step
    /\ UNCHANGED <<incStep, builderVars, dictVars, extVars, ruleVars>>

(* One round of the grounding loop of read(), which catches up with the controller. *)
GroundStep ==
    /\ \/ phase \in {"input", "stepped", "quiet"}
       \/ phase = "grounded" /\ incStep < controllerStep
    /\ incStep < MaxStep
    /\ incStep' = incStep + 1
    /\ phase' = "ground"
    /\ UNCHANGED <<controllerStep, builderVars, dictVars, extVars, ruleVars>>

Declared == {symbolMap[e] : e \in newSymbols}

(* Mutant: the bound of volUids_ is too low. *)
ExpiredLate == {k \in Keys : k < incStep}

(* Up to lower_bound(incStep + 1). *)
Expired == {k \in Keys : k < incStep + 1}

(* doFinalize: declare the new externals, end the volatile rules whose step has  *)
(* come, and make sure that a guard for the next step exists.                    *)
DoFinalize ==
    /\ externalAtoms' = [externalAtoms EXCEPT ![incStep] = @ \cup Declared]
    /\ newSymbols' = {}
    /\ facts' = facts \cup ({volUids[k] : k \in Expired} \ {0})
    /\ \/ /\ volUids[incStep + 1] = 0
          /\ volUids' = [k \in Keys |-> IF k \in Expired THEN 0
                                        ELSE IF k = incStep + 1 THEN nextAtom
                                        ELSE volUids[k]]
          /\ nextAtom' = nextAtom + 1
          /\ frozen' = frozen \cup Declared \cup {nextAtom}
       \/ /\ volUids[incStep + 1] # 0
          /\ volUids' = [k \in Keys |-> IF k \in Expired THEN 0 ELSE volUids[k]]
          /\ nextAtom' = nextAtom
          /\ frozen' = frozen \cup Declared
    /\ UNCHANGED <<incStep, controllerStep, assertUids, queryAtom, trueAtom, symbolMap, ruleVars>>

FinalizeStep ==
    /\ phase = "ground"
    /\ phase' = "grounded"
    /\ DoFinalize

(* The controller's step is reached, and rules wait for it. *)
BeginPremature ==
    /\ phase = "grounded"
    /\ incStep = controllerStep
    /\ phase' = "premature"
    /\ UNCHANGED <<incStep, controllerStep, builderVars, dictVars, extVars, ruleVars>>

(* Nothing waits. *)
SkipPremature ==
    /\ phase = "grounded"
    /\ incStep >= controllerStep
    /\ phase' = "solve"
    /\ UNCHANGED <<incStep, controllerStep, builderVars, dictVars, extVars, ruleVars>>

FinalizePremature ==
    /\ phase = "premature"
    /\ phase' = "solve"
    /\ DoFinalize

(* No new step: endIteration and finalize. *)
FinalizeIteration ==
    /\ phase \in {"input", "stepped", "quiet"}
    /\ controllerStep <= incStep
    /\ phase' = "solve"
    /\ DoFinalize

Next ==
    \/ AddCumulative
    \/ AddQuery
    \/ \E w \in Windows : AddDecay(w)
    \/ \E t \in Terms : AddAssert(t)
    \/ \E t \in Terms : RetractAtom(t)
    \/ \E w \in Windows : GroundVolatile(w)
    \/ \E e \in Externals : NewSymbol(e)
    \/ \E k \in Steps : ForgetStep(k)
    \/ ReadInput
    \/ ReadNothing
    \/ \E k \in Steps : SetControllerStep(k)
    \/ GroundStep
    \/ FinalizeStep
    \/ BeginPremature
    \/ SkipPremature
    \/ FinalizePremature
    \/ FinalizeIteration

Spec == Init /\ [][Next]_vars
-------------------------------------------------------------------------------
(* Properties. *)

GuardedBy(r, atom) == atom # 0 /\ guard[r.id] = atom

(* A rule that is still live hangs on the guard its own reason to end will make  *)
(* true: no guard is renewed while a rule needs the old one (claspoutput.cpp's   *)
(* volUids_ and assertUids_, oclaspoutput.cpp's vol_atom_).                      *)
LiveRulesEndable ==
    \A r \in Live :
        /\ r.kind = "cumulative" => guard[r.id] = 0
        /\ r.kind = "query"      => GuardedBy(r, queryAtom)
        /\ r.kind = "decay"      => GuardedBy(r, volUids[r.until])
        /\ r.kind = "assert"     => GuardedBy(r, assertUids[r.term])

(* At solving time a volatile rule holds exactly if its window covers the step   *)
(* solved: a rule of window w sent at step c holds in steps c to c + w - 1,      *)
(* whenever it was printed and whichever rules share its guard (doFinalize,      *)
(* getNewVolUid and getVolTimeDecayAtom together).                               *)
VolatileExact ==
    phase = "solve" =>
        \A r \in rules : r.kind = "decay" => (r \in Live <=> incStep < r.until)

(* While clasp solves, the guard of the next step exists and is open, so that    *)
(* nothing learnt is put on its top level (the note in doFinalize).              *)
VolatileAtomAlways ==
    phase = "solve" =>
        /\ volUids[incStep + 1] # 0
        /\ volUids[incStep + 1] \in frozen \ facts

(* An external atom that was declared stays open until its step is forgotten,    *)
(* and a #forget releases nothing but external atoms (printExternalTableEntry    *)
(* and forgetStep).                                                              *)
ExternalsExact ==
    \A e \in Externals \ newSymbols :
        symbolMap[e] # 0 =>
            (symbolMap[e] \in frozen <=> \E k \in Steps : symbolMap[e] \in externalAtoms[k])

Open == frozen \ facts

(* clasp refuses a rule for an atom of an earlier step unless it is frozen. A    *)
(* guard that a #retract, a message or the end of a step makes a fact is open:   *)
(* it was frozen, no earlier step has made it a fact, and no other expiry step   *)
(* ends with it. An atom that becomes a fact otherwise is new (retractAtom,      *)
(* deactivateQueryAtom, doFinalize and getNewVolUid). A #retract that ends a     *)
(* guard again would leave every variable as it is, so it is the states in which *)
(* one may come that are spoken of.                                              *)
FactsOnlyOnOpenAtoms ==
    [][/\ phase \in {"input", "stepped"} => \A t \in Terms : assertUids[t] \in Open \cup {0}
       /\ ReadInput => queryAtom \in Open \cup {0}
       /\ FinalizeStep \/ FinalizePremature \/ FinalizeIteration =>
            \A k \in Expired : volUids[k] # 0 =>
                volUids[k] \in Open /\ \A j \in Expired : volUids[j] = volUids[k] => j = k
       /\ \A a \in facts' \ facts : a \in Open \/ a >= nextAtom]_vars

(* Guards implement the lifetimes RuleLifetime promises. *)
ImplementsLifetime == Lifetime!LifeSpec

-------------------------------------------------------------------------------
(* The inductive invariant behind these properties. *)

AtomsTaken ==
    /\ nextAtom > 0
    /\ \A a \in frozen \cup facts : 0 < a /\ a < nextAtom
    /\ \A k \in Keys : volUids[k] < nextAtom
    /\ \A t \in Terms : assertUids[t] < nextAtom
    /\ \A e \in Externals : symbolMap[e] < nextAtom
    /\ queryAtom < nextAtom
    /\ trueAtom < nextAtom

SlotsOpen ==
    /\ \A k \in Keys : volUids[k] # 0 => volUids[k] \in frozen \ facts
    /\ \A t \in Terms : assertUids[t] # 0 => assertUids[t] \in frozen \ facts
    /\ queryAtom # 0 => queryAtom \in frozen \ facts
    /\ trueAtom # 0 => trueAtom \in facts

SlotsDistinct ==
    /\ \A k \in Keys : volUids[k] # 0 =>
        /\ \A j \in Keys : volUids[j] = volUids[k] => j = k
        /\ \A t \in Terms : volUids[k] # assertUids[t]
        /\ volUids[k] # queryAtom
    /\ \A t \in Terms : assertUids[t] # 0 =>
        /\ \A u \in Terms : assertUids[u] = assertUids[t] => u = t
        /\ assertUids[t] # queryAtom

ExternalsApart ==
    /\ \A e \in Externals : symbolMap[e] # 0 =>
        /\ \A k \in Keys : volUids[k] # symbolMap[e]
        /\ \A t \in Terms : assertUids[t] # symbolMap[e]
        /\ queryAtom # symbolMap[e]
    /\ \A k \in Steps : \A a \in externalAtoms[k] : \E e \in Externals : a = symbolMap[e] /\ a # 0
    /\ \A e \in newSymbols : symbolMap[e] # 0

SymbolsDistinct ==
    /\ \A e \in newSymbols : symbolMap[e] \notin frozen /\ \A k \in Steps : symbolMap[e] \notin externalAtoms[k]
    /\ \A e, f \in Externals : symbolMap[e] = symbolMap[f] /\ symbolMap[e] # 0 => e = f
    /\ \A j, k \in Steps : \A a \in externalAtoms[j] : a \in externalAtoms[k] => j = k

RulesWellFormed ==
    /\ \A r \in rules :
        /\ r.id <= sent
        /\ r.kind = "decay" => r.until \in Keys
        /\ r.kind = "assert" => r.term \in Terms
    /\ \A r, s \in rules : r.id = s.id => r = s

OpenWindows ==
    \A r \in rules : r.kind = "decay" /\ incStep < r.until => GuardedBy(r, volUids[r.until])

Settled ==
    phase # "ground" =>
        /\ \A k \in Keys : k <= incStep => volUids[k] = 0
        /\ volUids[incStep + 1] # 0

IndInv ==
    /\ TypeOK
    /\ AtomsTaken
    /\ SlotsOpen
    /\ SlotsDistinct
    /\ ExternalsApart
    /\ RulesWellFormed
    /\ LiveRulesEndable
    /\ OpenWindows
    /\ Settled
    /\ SymbolsDistinct
    /\ ExternalsExact
===============================================================================
