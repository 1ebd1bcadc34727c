-------------------------- MODULE OnlineOutput_proofs --------------------------
(* Proofs about OnlineOutput: guards and dictionaries stay consistent, volatile   *)
(* rules hold for exactly their window, and guards implement RuleLifetime.        *)
(*                                                                                *)
(* The argument: an atom that enters a dictionary is new, hence unlike every      *)
(* other slot and every fact (Fresh); a slot is emptied only together with the    *)
(* fact for its atom; so a rule whose guard is not a fact still hangs on the slot *)
(* of its own reason to end.                                                      *)
EXTENDS OnlineOutput, TLAPS

(* What a rule printed at this point must satisfy to end for its own reason. *)
NewRuleEndable(kind, until, term, atom) ==
    /\ kind = "cumulative" => atom = 0
    /\ kind = "query" => atom # 0 /\ atom = queryAtom'
    /\ kind = "decay" => \/ atom \in facts' /\ until <= incStep
                         \/ atom # 0 /\ atom = volUids'[until]
    /\ kind = "assert" => atom # 0 /\ atom = assertUids'[term]

(* No guard in use is replaced. *)
SlotsKept ==
    /\ facts \subseteq facts'
    /\ \A k \in Keys : volUids[k] # 0 => volUids'[k] = volUids[k]
    /\ \A t \in Terms : assertUids[t] # 0 => assertUids'[t] = assertUids[t]
    /\ queryAtom # 0 => queryAtom' = queryAtom
    /\ incStep' = incStep

(* The consistency of the slots alone. *)
SlotInv == AtomsTaken /\ SlotsOpen /\ SlotsDistinct /\ ExternalsApart

-------------------------------------------------------------------------------
(* Printing a rule whose guard is the one of its reason to end. *)
LEMMA PrintRuleKeeps ==
  ASSUME IndInv, SlotsKept,
         NEW kind \in Lifetime!Kinds, NEW until \in 0..(MaxStep + MaxWindow),
         NEW term \in Terms \cup {NoTerm}, NEW atom \in Nat,
         kind = "decay" => until \in Keys, kind = "assert" => term \in Terms,
         PrintRule(kind, until, term, atom),
         NewRuleEndable(kind, until, term, atom)
  PROVE  /\ RulesWellFormed' /\ LiveRulesEndable' /\ OpenWindows'
         /\ rules' \subseteq Rule /\ guard' \in [RuleIds -> Nat] /\ sent' \in 0..MaxRules
<1> DEFINE new == [id |-> sent + 1, kind |-> kind, until |-> until, term |-> term]
<1>1. /\ new.id = sent + 1 /\ new.kind = kind /\ new.until = until /\ new.term = term
      /\ sent' = sent + 1 /\ rules' = rules \cup {new} /\ sent \in Nat /\ sent + 1 \in RuleIds
      /\ guard' = [guard EXCEPT ![sent + 1] = atom]
  BY OutputAssumption DEF PrintRule, IndInv, TypeOK, RuleIds
<1>2. \A r \in rules : r.id \in Nat /\ r.id \in RuleIds /\ r.id <= sent /\ r.until \in 0..(MaxStep + MaxWindow)
  BY DEF IndInv, TypeOK, Rule, Lifetime!Rule, RulesWellFormed, RuleIds
<1>3. /\ new \in Rule
      /\ guard \in [RuleIds -> Nat] /\ rules \subseteq Rule /\ sent' \in 0..MaxRules
  BY <1>1 DEF Rule, Lifetime!Rule, IndInv, TypeOK, PrintRule, RuleIds
<1>4. guard'[new.id] = atom /\ \A r \in rules : guard'[r.id] = guard[r.id]
  BY <1>1, <1>2, <1>3
<1>7. \A r \in rules : /\ r.kind = "decay" => r.until \in Keys
                       /\ r.kind = "assert" => r.term \in Terms
  BY DEF IndInv, RulesWellFormed
<1>5. RulesWellFormed'
  <2>1. \A r, s \in rules : r.id = s.id => r = s
    BY DEF IndInv, RulesWellFormed
  <2> HIDE DEF new
  <2>2. \A r \in rules : r.id < sent + 1
     BY <1>1, <1>2
  <2> QED BY <1>1, <1>2, <1>7, <2>1, <2>2 DEF RulesWellFormed
<1> HIDE DEF new
<1>9. incStep \in Nat /\ until \in Nat
  BY OutputAssumption DEF IndInv, TypeOK
<1>6. LiveRulesEndable'
  <2> SUFFICES ASSUME NEW r \in rules', guard'[r.id] \notin facts'
               PROVE /\ r.kind = "cumulative" => guard'[r.id] = 0
                     /\ r.kind = "query"      => guard'[r.id] # 0 /\ guard'[r.id] = queryAtom'
                     /\ r.kind = "decay"      => guard'[r.id] # 0 /\ guard'[r.id] = volUids'[r.until]
                     /\ r.kind = "assert"     => guard'[r.id] # 0 /\ guard'[r.id] = assertUids'[r.term]
    BY DEF LiveRulesEndable, Live, GuardedBy
  <2>1. CASE r = new
    BY <1>1, <1>4, <2>1 DEF NewRuleEndable
  <2>2. CASE r \in rules
    <3>1. r \in Live /\ guard'[r.id] = guard[r.id]
      BY <2>2, <1>4 DEF Live, SlotsKept
    <3> QED BY <3>1, <2>2, <1>7 DEF IndInv, LiveRulesEndable, GuardedBy, SlotsKept
  <2> QED BY <1>1, <2>1, <2>2
<1>8. OpenWindows'
  <2> SUFFICES ASSUME NEW r \in rules', r.kind = "decay", incStep' < r.until
               PROVE  guard'[r.id] # 0 /\ guard'[r.id] = volUids'[r.until]
    BY DEF OpenWindows, GuardedBy
  <2>1. CASE r = new
    BY <1>1, <1>4, <2>1, <1>9 DEF NewRuleEndable, SlotsKept
  <2>2. CASE r \in rules
    BY <2>2, <1>4, <1>7 DEF IndInv, OpenWindows, GuardedBy, SlotsKept
  <2> QED BY <1>1, <2>1, <2>2
<1> QED
  BY <1>1, <1>3, <1>5, <1>6, <1>8

-------------------------------------------------------------------------------
(* Looking up a guard. *)

(* a new frozen atom is unlike any other atom *)
LEMMA Fresh ==
  ASSUME IndInv
  PROVE  /\ nextAtom \in Nat /\ nextAtom # 0 /\ nextAtom + 1 \in Nat /\ nextAtom \notin facts /\ nextAtom \notin frozen
         /\ \A k \in Keys : volUids[k] # nextAtom /\ volUids[k] < nextAtom + 1 /\ volUids[k] \in Nat
         /\ \A t \in Terms : assertUids[t] # nextAtom /\ assertUids[t] < nextAtom + 1 /\ assertUids[t] \in Nat
         /\ \A e \in Externals : symbolMap[e] # nextAtom /\ symbolMap[e] < nextAtom + 1 /\ symbolMap[e] \in Nat
         /\ queryAtom # nextAtom /\ queryAtom < nextAtom + 1
         /\ trueAtom # nextAtom /\ trueAtom < nextAtom + 1
         /\ \A a \in frozen \cup facts : 0 < a /\ a < nextAtom + 1
         /\ nextAtom > 0 /\ nextAtom + 1 > 0 /\ nextAtom < nextAtom + 1 
  BY DEF IndInv, TypeOK, AtomsTaken

(* getNewVolUid leaves every slot consistent, and returns the guard of its step. *)
LEMMA NewVolUidSlots ==
  ASSUME IndInv, NEW step \in Keys, NEW atom \in Nat, GetNewVolUid(step, atom),
         UNCHANGED <<incStep, assertUids, queryAtom, extVars>>
  PROVE  /\ SlotInv' /\ SlotsKept
         /\ NewRuleEndable("decay", step, NoTerm, atom)
<1> USE DEF SlotInv, IndInv, extVars
<1>t. volUids \in [Keys -> Nat] /\ incStep \in Nat /\ step \in Nat
  BY OutputAssumption DEF TypeOK, Keys
<1>1. CASE step < incStep + 1 /\ trueAtom = 0
  <2>1. /\ atom = nextAtom /\ trueAtom' = atom /\ nextAtom' = nextAtom + 1 
        /\ facts' = facts \cup {atom} /\ frozen' = frozen /\ volUids' = volUids
    BY <1>1, <1>t DEF GetNewVolUid, builderVars
  <2>2. AtomsTaken'
    BY <2>1, Fresh DEF AtomsTaken
  <2>3. SlotsOpen'
    BY <2>1, Fresh DEF SlotsOpen
  <2>4. SlotsDistinct' /\ ExternalsApart'
    BY <2>1 DEF SlotsDistinct, ExternalsApart
  <2>5. SlotsKept /\ NewRuleEndable("decay", step, NoTerm, atom)
    BY <2>1, <1>1, <1>t DEF SlotsKept, NewRuleEndable
  <2> QED BY <2>2, <2>3, <2>4, <2>5
<1>2. CASE /\ UNCHANGED <<nextAtom, facts, frozen, volUids, trueAtom>>
           /\ \/ step < incStep + 1 /\ trueAtom # 0 /\ atom = trueAtom
              \/ step >= incStep + 1 /\ volUids[step] # 0 /\ atom = volUids[step]
  BY <1>2, <1>t DEF AtomsTaken, SlotsOpen, SlotsDistinct, ExternalsApart, SlotsKept, NewRuleEndable
<1>3. CASE step >= incStep + 1 /\ volUids[step] = 0
  <2>1. /\ atom = nextAtom /\ trueAtom' = trueAtom /\ nextAtom' = nextAtom + 1 
        /\ frozen' = frozen \cup {atom} /\ facts' = facts 
        /\ volUids' = [volUids EXCEPT ![step] = atom]
    BY <1>3, <1>t DEF GetNewVolUid, NewFrozenAtom
  <2>6. volUids'[step] = atom /\ \A k \in Keys : k # step => volUids'[k] = volUids[k]
    BY <2>1, <1>t
  <2>2. AtomsTaken'
    BY <2>1, <2>6, Fresh DEF AtomsTaken
  <2>3. SlotsOpen'
    BY <2>1, <2>6, Fresh DEF SlotsOpen
  <2>4. SlotsDistinct'
    BY <2>1, <2>6, Fresh DEF SlotsDistinct
  <2>7. ExternalsApart'
    BY <2>1, <2>6, Fresh DEF ExternalsApart
  <2>5. SlotsKept /\ NewRuleEndable("decay", step, NoTerm, atom)
    BY <2>1, <2>6, <1>3, <1>t, Fresh DEF SlotsKept, NewRuleEndable
  <2> QED BY <2>2, <2>3, <2>4, <2>5, <2>7
<1> QED
  BY <1>1, <1>2, <1>3 DEF GetNewVolUid, builderVars

(* getAssertAtom does so for the slot of its term. *)
LEMMA AssertAtomSlots ==
  ASSUME IndInv, NEW term \in Terms, NEW atom \in Nat, GetAssertAtom(term, atom),
         UNCHANGED <<incStep, volUids, queryAtom, trueAtom, extVars>>
  PROVE  /\ SlotInv' /\ SlotsKept
         /\ NewRuleEndable("assert", 0, term, atom)
<1> USE DEF SlotInv, IndInv, extVars
<1>t. assertUids \in [Terms -> Nat]
  BY DEF TypeOK
<1>1. CASE assertUids[term] = 0
  <2>1. /\ atom = nextAtom /\ nextAtom' = nextAtom + 1 
        /\ frozen' = frozen \cup {atom} /\ facts' = facts 
        /\ assertUids' = [assertUids EXCEPT ![term] = atom]
    BY <1>1 DEF GetAssertAtom, NewFrozenAtom
  <2>6. assertUids'[term] = atom /\ \A k \in Terms : k # term => assertUids'[k] = assertUids[k]
    BY <2>1, <1>t
  <2>2. AtomsTaken'
    BY <2>1, <2>6, Fresh DEF AtomsTaken
  <2>3. SlotsOpen'
    BY <2>1, <2>6, Fresh DEF SlotsOpen
  <2>4. SlotsDistinct'
    BY <2>1, <2>6, Fresh DEF SlotsDistinct
  <2>7. ExternalsApart'
    BY <2>1, <2>6, Fresh DEF ExternalsApart
  <2>5. SlotsKept /\ NewRuleEndable("assert", 0, term, atom)
    BY <2>1, <2>6, <1>1, Fresh DEF SlotsKept, NewRuleEndable
  <2> QED BY <2>2, <2>3, <2>4, <2>5, <2>7
<1>2. CASE assertUids[term] # 0
  <2>1. atom = assertUids[term] /\ UNCHANGED <<nextAtom, facts, frozen, assertUids>>
    BY <1>2 DEF GetAssertAtom, builderVars
  <2> QED
    BY <1>2, <2>1 DEF AtomsTaken, SlotsOpen, SlotsDistinct, ExternalsApart, SlotsKept, NewRuleEndable
<1> QED
  BY <1>1, <1>2

(* getQueryAtom does so for its one slot. *)
LEMMA QueryAtomSlots ==
  ASSUME IndInv, NEW atom \in Nat, GetQueryAtom(atom),
         UNCHANGED <<incStep, volUids, assertUids, trueAtom, extVars>>
  PROVE  /\ SlotInv' /\ SlotsKept
         /\ NewRuleEndable("query", 0, NoTerm, atom)
<1> USE DEF SlotInv, IndInv, extVars
<1>1. CASE queryAtom = 0
  <2>1. /\ atom = nextAtom /\ nextAtom' = nextAtom + 1 
        /\ frozen' = frozen \cup {atom} /\ facts' = facts 
        /\ queryAtom' = atom
    BY <1>1 DEF GetQueryAtom, NewFrozenAtom
  <2>2. AtomsTaken' /\ SlotsOpen'
    BY <2>1, Fresh DEF AtomsTaken, SlotsOpen
  <2>4. SlotsDistinct' /\ ExternalsApart'
    BY <2>1, Fresh DEF SlotsDistinct, ExternalsApart
  <2>5. SlotsKept /\ NewRuleEndable("query", 0, NoTerm, atom)
    BY <2>1, <1>1, Fresh DEF SlotsKept, NewRuleEndable
  <2> QED BY <2>2, <2>4, <2>5
<1>2. CASE queryAtom # 0
  <2>1. atom = queryAtom /\ UNCHANGED <<nextAtom, facts, frozen, queryAtom>>
    BY <1>2 DEF GetQueryAtom, builderVars
  <2> QED
    BY <1>2, <2>1 DEF AtomsTaken, SlotsOpen, SlotsDistinct, ExternalsApart, SlotsKept, NewRuleEndable
<1> QED
  BY <1>1, <1>2

(* doFinalize empties the expired slots with a fact for each, and fills the next one. *)
LEMMA FinalizeKeeps ==
  ASSUME IndInv, DoFinalize
  PROVE  /\ SlotInv' /\ RulesWellFormed' /\ LiveRulesEndable' /\ OpenWindows'
         /\ \A k \in Keys : k <= incStep' => volUids'[k] = 0
         /\ volUids'[incStep' + 1] # 0
<1> USE DEF SlotInv, IndInv
<1>t. incStep \in Nat /\ incStep + 1 \in Keys /\ incStep \in Steps /\ Keys \subseteq Nat
  BY OutputAssumption DEF TypeOK, Keys, Steps
<1>x. /\ volUids \in [Keys -> Nat] /\ externalAtoms \in [Steps -> SUBSET Nat]
      /\ symbolMap \in [Externals -> Nat]
  BY DEF TypeOK
<1>v. nextAtom \in Nat /\ frozen \subseteq Nat /\ facts \subseteq Nat /\ Declared \subseteq Nat
  BY DEF TypeOK, Declared
<1>u. UNCHANGED <<incStep, assertUids, queryAtom, trueAtom, symbolMap, sent, rules, guard>>
  BY DEF DoFinalize, ruleVars
<1>e. /\ newSymbols' = {}
      /\ externalAtoms' = [externalAtoms EXCEPT ![incStep] = @ \cup Declared]
      /\ facts' = facts \cup ({volUids[k] : k \in Expired} \ {0})
  BY DEF DoFinalize
<1>d. \A a \in Declared : \E e \in Externals : a = symbolMap[e] /\ a # 0
  BY DEF Declared, ExternalsApart, TypeOK
<1>f. \A a : a \in facts' <=> a \in facts \/ (a # 0 /\ \E k \in Keys : k <= incStep /\ volUids[k] = a)
  BY <1>t, <1>x, <1>e DEF Expired
(* the new dictionary: nothing up to incStep, a guard for the next step, the rest as before *)
<1>1. PICK atom \in Nat :
        /\ volUids' = [k \in Keys |-> IF k \in Expired THEN 0 ELSE IF k = incStep + 1 THEN atom ELSE volUids[k]]
        /\ \/ volUids[incStep + 1] = 0 /\ atom = nextAtom /\ nextAtom' = nextAtom + 1
              /\ frozen' = frozen \cup Declared \cup {nextAtom}
           \/ volUids[incStep + 1] # 0 /\ atom = volUids[incStep + 1] /\ nextAtom' = nextAtom
              /\ frozen' = frozen \cup Declared
  <2>1. CASE volUids[incStep + 1] = 0
    BY <2>1, Fresh DEF DoFinalize
  <2>2. CASE volUids[incStep + 1] # 0
    <3>1. volUids' = [k \in Keys |-> IF k \in Expired THEN 0 ELSE volUids[k]]
      BY <2>2 DEF DoFinalize
    <3>2. volUids' = [k \in Keys |-> IF k \in Expired THEN 0 ELSE IF k = incStep + 1 THEN volUids[incStep + 1] ELSE volUids[k]]
      BY <3>1, <1>t, <1>x
    <3> QED BY <2>2, <3>2, <1>t, <1>x DEF DoFinalize
  <2> QED BY <2>1, <2>2
<1>2. /\ \A k \in Keys : k <= incStep => volUids'[k] = 0
      /\ volUids'[incStep + 1] = atom
      /\ \A k \in Keys : k > incStep + 1 => volUids'[k] = volUids[k]
      /\ \A k \in Keys : k <= incStep \/ k = incStep + 1 \/ k > incStep + 1
  BY <1>1, <1>t, <1>x DEF Expired
<1>3. atom # 0 /\ (volUids[incStep + 1] # 0 => atom = volUids[incStep + 1])
  BY <1>1, <1>t, <1>x, Fresh
<1>m. \/ volUids[incStep + 1] = 0 /\ atom = nextAtom
      \/ volUids[incStep + 1] # 0 /\ atom = volUids[incStep + 1]
  BY <1>1
<1>g. /\ nextAtom' \in Nat /\ nextAtom <= nextAtom' /\ atom < nextAtom'
      /\ \A a \in Declared : 0 < a /\ a < nextAtom
      /\ \A a : a \in frozen' <=> a \in frozen \/ a \in Declared \/ (a = atom /\ volUids[incStep + 1] = 0)
  BY <1>1, <1>t, <1>x, <1>d, Fresh DEF AtomsTaken
<1>4. AtomsTaken'
  <2>1. \A a \in frozen' \cup facts' : 0 < a /\ a < nextAtom'
    <3>1. \A a \in frozen \cup facts : 0 < a /\ a < nextAtom
      BY DEF AtomsTaken
    <3>2. \A a \in frozen' : 0 < a /\ a < nextAtom'
      <4> SUFFICES ASSUME NEW a \in frozen' PROVE 0 < a /\ a < nextAtom'
        OBVIOUS
      <4>1. CASE a \in frozen
        BY <4>1, <3>1, <1>v, <1>g
      <4>2. CASE a \in Declared
        BY <4>2, <1>v, <1>g
      <4>3. CASE a = atom
        BY <4>3, <1>3, <1>g
      <4> QED BY <4>1, <4>2, <4>3, <1>g
    <3>3. \A k \in Keys : volUids[k] \in Nat /\ volUids[k] < nextAtom
      BY <1>t, <1>x DEF AtomsTaken
    <3>4. \A a \in facts' : 0 < a /\ a < nextAtom'
      <4> SUFFICES ASSUME NEW a \in facts' PROVE 0 < a /\ a < nextAtom'
        OBVIOUS
      <4>1. CASE a \in facts
        BY <4>1, <3>1, <1>v, <1>g
      <4>2. CASE a # 0 /\ \E k \in Keys : k <= incStep /\ volUids[k] = a
        BY <4>2, <3>3, <1>v, <1>g
      <4> QED BY <4>1, <4>2, <1>f
    <3> QED BY <3>2, <3>4
  <2>2. \A k \in Keys : volUids'[k] < nextAtom'
    BY <1>2, <1>g, <1>t, <1>x, Fresh DEF AtomsTaken
  <2> QED BY <2>1, <2>2, <1>u, <1>g, Fresh DEF AtomsTaken, TypeOK
<1>h. \A a \in Nat : a \in frozen \ facts /\ (\A k \in Keys : volUids[k] # a) => a \in frozen' \ facts'
  BY <1>f, <1>g
<1>5. SlotsOpen'
  <2>1. \A k \in Keys : k > incStep + 1 /\ volUids'[k] # 0 => volUids'[k] \in frozen' \ facts'
    BY <1>2, <1>t, <1>x, <1>f, <1>g DEF SlotsOpen, SlotsDistinct
  <2>2. atom \in frozen' \ facts'
    <3>1. CASE volUids[incStep + 1] = 0
      BY <3>1, <1>1, <1>f, <1>g, Fresh
    <3>2. CASE volUids[incStep + 1] # 0
      BY <3>2, <1>3, <1>t, <1>x, <1>f, <1>g DEF SlotsOpen, SlotsDistinct
    <3> QED BY <3>1, <3>2
  <2>3. \A t \in Terms : assertUids[t] # 0 => assertUids[t] \in frozen' \ facts'
    BY <1>f, <1>g DEF SlotsOpen, SlotsDistinct
  <2>4. queryAtom # 0 => queryAtom \in frozen' \ facts'
    BY <1>f, <1>g DEF SlotsOpen, SlotsDistinct
  <2>5. trueAtom # 0 => trueAtom \in facts'
    BY <1>f DEF SlotsOpen
  <2> QED BY <2>1, <2>2, <2>3, <2>4, <2>5, <1>2, <1>u DEF SlotsOpen
<1>k. \A k \in Keys : volUids'[k] # 0 =>
        \/ volUids'[k] = volUids[k]
        \/ k = incStep + 1 /\ volUids[k] = 0 /\ volUids'[k] = nextAtom
  <2> TAKE k \in Keys
  <2>1. CASE k <= incStep
    BY <2>1, <1>2
  <2>2. CASE k = incStep + 1
    BY <2>2, <1>m, <1>2
  <2>3. CASE k > incStep + 1
    BY <2>3, <1>2
  <2> QED BY <2>1, <2>2, <2>3, <1>2
<1>6. SlotsDistinct'
  BY <1>k, <1>u, Fresh DEF SlotsDistinct
<1>7. ExternalsApart'
  <2>1. \A e \in Externals : symbolMap[e] # 0 => \A k \in Keys : volUids'[k] # symbolMap[e]
    BY <1>k, Fresh DEF ExternalsApart
  <2>2. \A k \in Steps : \A a \in externalAtoms'[k] : \E e \in Externals : a = symbolMap[e] /\ a # 0
    BY <1>e, <1>d, <1>t, <1>x DEF ExternalsApart
  <2> QED BY <2>1, <2>2, <1>u, <1>e DEF ExternalsApart
<1>8. RulesWellFormed'
  BY <1>u DEF RulesWellFormed
<1>w. \A r \in rules : /\ r.kind = "decay" => r.until \in Keys
                       /\ r.kind = "assert" => r.term \in Terms
                       /\ r.id \in RuleIds
  BY DEF RulesWellFormed, TypeOK, Rule, Lifetime!Rule, RuleIds
<1>9. LiveRulesEndable'
  <2> SUFFICES ASSUME NEW r \in rules, guard[r.id] \notin facts'
               PROVE  /\ r.kind = "cumulative" => guard[r.id] = 0
                      /\ r.kind = "query"      => GuardedBy(r, queryAtom)
                      /\ r.kind = "decay"      => guard[r.id] # 0 /\ guard[r.id] = volUids'[r.until]
                      /\ r.kind = "assert"     => GuardedBy(r, assertUids[r.term])
    BY <1>u DEF LiveRulesEndable, Live, GuardedBy
  <2>1. r \in Live
    BY <1>f DEF Live
  <2>2. ASSUME r.kind = "decay" PROVE guard[r.id] # 0 /\ guard[r.id] = volUids'[r.until]
    <3>1. r.until \in Keys /\ guard[r.id] # 0 /\ guard[r.id] = volUids[r.until]
      BY <2>1, <2>2, <1>w DEF LiveRulesEndable, GuardedBy
    <3>2. ~(r.until <= incStep)
      BY <3>1, <1>f
    <3> QED BY <3>1, <3>2, <1>2, <1>3, <1>t, <1>x
  <2> QED BY <2>1, <2>2 DEF LiveRulesEndable
<1>10. OpenWindows'
  <2> SUFFICES ASSUME NEW r \in rules, r.kind = "decay", incStep < r.until
               PROVE  guard[r.id] # 0 /\ guard[r.id] = volUids'[r.until]
    BY <1>u DEF OpenWindows, GuardedBy
  <2>1. r.until \in Keys /\ guard[r.id] # 0 /\ guard[r.id] = volUids[r.until]
    BY <1>w DEF OpenWindows, GuardedBy
  <2>2. r.until \in Nat
    BY <2>1, <1>t
  <2>3. r.until = incStep + 1 \/ r.until > incStep + 1
    BY <2>2, <1>t
  <2> QED BY <2>1, <2>3, <1>2, <1>3
<1> QED
  BY <1>2, <1>3, <1>4, <1>5, <1>6, <1>7, <1>8, <1>9, <1>10, <1>u

-------------------------------------------------------------------------------
(* Types. *)

(* The types of the initial state. *)
LEMMA TypeInitial == Init => TypeOK
  BY OutputAssumption
  DEF Init, TypeOK, Phases, Steps, Keys, RuleIds

(* The types of what getNewVolUid changes. *)
LEMMA NewVolUidType ==
  ASSUME TypeOK, nextAtom > 0, NEW step \in Keys, NEW atom \in Nat, GetNewVolUid(step, atom)
  PROVE  /\ nextAtom' \in Nat /\ frozen' \subseteq Nat /\ facts' \subseteq Nat \ {0}
         /\ volUids' \in [Keys -> Nat] /\ trueAtom' \in Nat
<1> USE DEF TypeOK, GetNewVolUid, NewFrozenAtom, builderVars
<1>1. volUids' \in [Keys -> Nat]
  OBVIOUS
<1>2. nextAtom' \in Nat /\ trueAtom' \in Nat
  OBVIOUS
<1>3. frozen' \subseteq Nat
  OBVIOUS
<1>4. facts' = facts \/ facts' = facts \cup {nextAtom}
  BY DEF GetNewVolUid, builderVars, NewFrozenAtom
<1>5. nextAtom \in Nat \ {0} /\ facts \subseteq Nat \ {0}
  OBVIOUS
<1> HIDE DEF TypeOK, GetNewVolUid, NewFrozenAtom, builderVars
<1>6. facts' \subseteq Nat \ {0}
  BY <1>4, <1>5
<1> QED
  BY <1>1, <1>2, <1>3, <1>6

(* The types of what getAssertAtom changes. *)
LEMMA AssertAtomType ==
  ASSUME TypeOK, NEW term \in Terms, NEW atom \in Nat, GetAssertAtom(term, atom)
  PROVE  /\ nextAtom' \in Nat /\ frozen' \subseteq Nat /\ facts' \subseteq Nat \ {0}
         /\ assertUids' \in [Terms -> Nat]
<1> USE DEF TypeOK, GetAssertAtom, NewFrozenAtom, builderVars
<1>1. assertUids' \in [Terms -> Nat]
  OBVIOUS
<1>2. nextAtom' \in Nat
  OBVIOUS
<1>3. frozen' \subseteq Nat /\ facts' \subseteq Nat \ {0}
  OBVIOUS
<1> QED
  BY <1>1, <1>2, <1>3

(* The types of what getQueryAtom changes. *)
LEMMA QueryAtomType ==
  ASSUME TypeOK, NEW atom \in Nat, GetQueryAtom(atom)
  PROVE  /\ nextAtom' \in Nat /\ frozen' \subseteq Nat /\ facts' \subseteq Nat \ {0}
         /\ queryAtom' \in Nat
<1> USE DEF TypeOK, GetQueryAtom, NewFrozenAtom, builderVars
<1>1. nextAtom' \in Nat /\ queryAtom' \in Nat
  OBVIOUS
<1>2. frozen' \subseteq Nat /\ facts' \subseteq Nat \ {0}
  OBVIOUS
<1> QED
  BY <1>1, <1>2

(* doFinalize preserves the types. *)
LEMMA FinalizeType ==
  ASSUME TypeOK, DoFinalize, phase' \in Phases
  PROVE  TypeOK'
<1> USE DEF TypeOK
<1>1. incStep + 1 \in Keys /\ incStep \in Steps
  BY OutputAssumption DEF Keys, Steps
<1>2. {volUids[k] : k \in Expired} \subseteq Nat
  BY DEF Expired
<1>3. Declared \subseteq Nat
  BY DEF Declared
<1>4. facts' \subseteq Nat \ {0}
  BY <1>2 DEF DoFinalize
<1>5. externalAtoms' \in [Steps -> SUBSET Nat]
  BY <1>1, <1>3 DEF DoFinalize
<1>6. volUids' \in [Keys -> Nat]
  <2>1. CASE volUids[incStep + 1] = 0
    BY <2>1 DEF DoFinalize
  <2>2. CASE volUids[incStep + 1] # 0
    BY <2>2 DEF DoFinalize
  <2> QED
    BY <2>1, <2>2
<1>7. nextAtom' \in Nat
  BY DEF DoFinalize
<1>8. frozen' \subseteq Nat
  <2>1. frozen' = frozen \cup Declared \/ frozen' = frozen \cup Declared \cup {nextAtom}
    BY DEF DoFinalize
  <2> QED
    BY <2>1, <1>3
<1>10. UNCHANGED <<incStep, controllerStep, assertUids>>
  BY DEF DoFinalize
<1>11. UNCHANGED <<queryAtom, trueAtom, symbolMap>>
  BY DEF DoFinalize
<1>12. sent' = sent /\ rules' = rules /\ guard' = guard /\ newSymbols' = {}
  BY DEF DoFinalize, ruleVars
<1> QED
  BY <1>4, <1>5, <1>6, <1>7, <1>8, <1>10, <1>11, <1>12

-------------------------------------------------------------------------------
(* External atoms. *)

ExternalInv == SymbolsDistinct /\ ExternalsExact

(* A new frozen atom, or none, does not disturb the external atoms. *)
LEMMA FreezeKeepsExternals ==
  ASSUME IndInv, UNCHANGED extVars, frozen' = frozen \/ frozen' = frozen \cup {nextAtom}
  PROVE  ExternalInv'
<1>1. \A e \in Externals : symbolMap[e] # nextAtom
  BY Fresh
<1>2. \A e \in Externals : symbolMap[e] \in frozen' <=> symbolMap[e] \in frozen
  BY <1>1
<1>3. newSymbols \subseteq Externals
  BY DEF IndInv, TypeOK
<1> QED
  BY <1>2, <1>3 DEF ExternalInv, IndInv, SymbolsDistinct, ExternalsExact, extVars

(* doFinalize declares the new externals, each of them once. *)
LEMMA FinalizeKeepsExternals ==
  ASSUME IndInv, DoFinalize
  PROVE  ExternalInv'
<1>1. /\ symbolMap \in [Externals -> Nat] /\ externalAtoms \in [Steps -> SUBSET Nat]
      /\ newSymbols \subseteq Externals /\ incStep \in Steps
  BY OutputAssumption DEF IndInv, TypeOK, Steps
<1>2. /\ newSymbols' = {} /\ symbolMap' = symbolMap
      /\ externalAtoms' = [externalAtoms EXCEPT ![incStep] = @ \cup Declared]
  BY DEF DoFinalize
<1>3. /\ externalAtoms'[incStep] = externalAtoms[incStep] \cup Declared
      /\ \A k \in Steps : k # incStep => externalAtoms'[k] = externalAtoms[k]
  BY <1>1, <1>2
<1>4. frozen' = frozen \cup Declared \/ frozen' = frozen \cup Declared \cup {nextAtom}
  BY DEF DoFinalize
<1>5. \A e \in Externals : symbolMap[e] # 0 => (symbolMap[e] \in Declared <=> e \in newSymbols)
  BY <1>1 DEF Declared, IndInv, SymbolsDistinct
<1>6. \A e \in Externals : symbolMap[e] # 0 =>
        (symbolMap[e] \in frozen' <=> symbolMap[e] \in frozen \/ e \in newSymbols)
  BY <1>4, <1>5, Fresh
<1>7. \A a \in Declared : \A k \in Steps : a \notin externalAtoms[k]
  BY DEF Declared, IndInv, SymbolsDistinct
<1>8. \A j, k \in Steps : \A a \in externalAtoms'[j] : a \in externalAtoms'[k] => j = k
  BY <1>3, <1>7 DEF IndInv, SymbolsDistinct
<1>9. SymbolsDistinct'
  BY <1>2, <1>8 DEF IndInv, SymbolsDistinct
<1>10. ExternalsExact'
  <2> SUFFICES ASSUME NEW e \in Externals, symbolMap[e] # 0
               PROVE  symbolMap[e] \in frozen' <=> \E k \in Steps : symbolMap[e] \in externalAtoms'[k]
    BY <1>2 DEF ExternalsExact
  <2>1. CASE e \in newSymbols
    BY <2>1, <1>1, <1>3, <1>5, <1>6
  <2>2. CASE e \notin newSymbols
    BY <2>2, <1>1, <1>3, <1>5, <1>6 DEF IndInv, ExternalsExact
  <2> QED
    BY <2>1, <2>2
<1> QED
  BY <1>9, <1>10 DEF ExternalInv

-------------------------------------------------------------------------------
(* The invariant is inductive. *)

(* The invariant holds initially. *)
LEMMA Initial == Init => IndInv
<1> SUFFICES ASSUME Init PROVE IndInv
  OBVIOUS
<1>1. TypeOK
  BY TypeInitial
<1>2. AtomsTaken /\ SlotsOpen /\ SlotsDistinct
  BY DEF Init, AtomsTaken, SlotsOpen, SlotsDistinct
<1>3. ExternalsApart /\ SymbolsDistinct /\ ExternalsExact
  BY DEF Init, ExternalsApart, SymbolsDistinct, ExternalsExact
<1>4. RulesWellFormed /\ LiveRulesEndable /\ OpenWindows /\ Settled
  BY DEF Init, RulesWellFormed, LiveRulesEndable, Live, OpenWindows, Settled
<1> QED
  BY <1>1, <1>2, <1>3, <1>4 DEF IndInv

(* Settled needs only that slots are kept and none up to incStep is filled. *)
LEMMA SettledKept ==
  ASSUME IndInv, SlotsKept, UNCHANGED phase,
         phase # "ground" => \A k \in Keys : k <= incStep => volUids'[k] = volUids[k]
  PROVE  Settled'
<1>1. incStep + 1 \in Keys
  BY OutputAssumption DEF IndInv, TypeOK, Keys
<1> QED
  BY <1>1 DEF IndInv, Settled, SlotsKept

(* A cumulative rule preserves the invariant: it has no guard. *)
LEMMA AddCumulativeStep == IndInv /\ AddCumulative => IndInv'
<1> SUFFICES ASSUME IndInv, AddCumulative PROVE IndInv'
  OBVIOUS
<1>1. PrintRule("cumulative", 0, NoTerm, 0) /\ UNCHANGED <<stepVars, builderVars, dictVars, extVars>>
  BY DEF AddCumulative
<1>2. SlotsKept /\ NewRuleEndable("cumulative", 0, NoTerm, 0)
  BY <1>1 DEF SlotsKept, NewRuleEndable, stepVars, builderVars, dictVars
<1>3. "cumulative" \in Lifetime!Kinds /\ 0 \in 0..(MaxStep + MaxWindow) /\ 0 \in Nat
  BY OutputAssumption DEF Lifetime!Kinds
<1>4. /\ RulesWellFormed' /\ LiveRulesEndable' /\ OpenWindows'
      /\ rules' \subseteq Rule /\ guard' \in [RuleIds -> Nat] /\ sent' \in 0..MaxRules
  BY <1>1, <1>2, <1>3, PrintRuleKeeps
<1>5. TypeOK'
  BY <1>1, <1>4 DEF IndInv, TypeOK, stepVars, builderVars, dictVars, extVars
<1>6. SlotInv'
  BY <1>1 DEF IndInv, SlotInv, AtomsTaken, SlotsOpen, SlotsDistinct, ExternalsApart,
              builderVars, dictVars, extVars
<1>7. ExternalInv'
  BY <1>1, FreezeKeepsExternals DEF builderVars
<1>8. Settled'
  BY <1>1, <1>2, SettledKept DEF stepVars, dictVars
<1> QED
  BY <1>4, <1>5, <1>6, <1>7, <1>8 DEF IndInv, SlotInv, ExternalInv

(* A rule of #volatile. preserves it: its guard is the query atom. *)
LEMMA AddQueryStep == IndInv /\ AddQuery => IndInv'
<1> SUFFICES ASSUME IndInv, AddQuery PROVE IndInv'
  OBVIOUS
<1>1. PICK atom \in 1..nextAtom : GetQueryAtom(atom) /\ PrintRule("query", 0, NoTerm, atom)
  BY DEF AddQuery
<1>2. atom \in Nat /\ UNCHANGED <<stepVars, volUids, assertUids, trueAtom, extVars>>
  BY DEF AddQuery, IndInv, TypeOK
<1>3. SlotInv' /\ SlotsKept /\ NewRuleEndable("query", 0, NoTerm, atom)
  BY <1>1, <1>2, QueryAtomSlots DEF stepVars
<1>4. "query" \in Lifetime!Kinds /\ 0 \in 0..(MaxStep + MaxWindow)
  BY OutputAssumption DEF Lifetime!Kinds
<1>5. /\ RulesWellFormed' /\ LiveRulesEndable' /\ OpenWindows'
      /\ rules' \subseteq Rule /\ guard' \in [RuleIds -> Nat] /\ sent' \in 0..MaxRules
  BY <1>1, <1>2, <1>3, <1>4, PrintRuleKeeps
<1>6. /\ nextAtom' \in Nat /\ frozen' \subseteq Nat /\ facts' \subseteq Nat \ {0} /\ queryAtom' \in Nat
  BY <1>1, <1>2, QueryAtomType DEF IndInv
<1>7. TypeOK'
  BY <1>2, <1>5, <1>6 DEF IndInv, TypeOK, stepVars, extVars
<1>8. ExternalInv'
  BY <1>1, <1>2, FreezeKeepsExternals DEF GetQueryAtom, NewFrozenAtom, builderVars
<1>9. Settled'
  BY <1>2, <1>3, SettledKept DEF stepVars
<1> QED
  BY <1>3, <1>5, <1>7, <1>8, <1>9 DEF IndInv, SlotInv, ExternalInv

(* A rule of #assert preserves it: its guard is the one of the term. *)
LEMMA AddAssertStep == \A term \in Terms : IndInv /\ AddAssert(term) => IndInv'
<1> SUFFICES ASSUME NEW term \in Terms, IndInv, AddAssert(term) PROVE IndInv'
  OBVIOUS
<1>1. PICK atom \in 1..nextAtom : GetAssertAtom(term, atom) /\ PrintRule("assert", 0, term, atom)
  BY DEF AddAssert
<1>2. atom \in Nat /\ UNCHANGED <<stepVars, volUids, queryAtom, trueAtom, extVars>>
  BY DEF AddAssert, IndInv, TypeOK
<1>3. SlotInv' /\ SlotsKept /\ NewRuleEndable("assert", 0, term, atom)
  BY <1>1, <1>2, AssertAtomSlots DEF stepVars
<1>4. "assert" \in Lifetime!Kinds /\ 0 \in 0..(MaxStep + MaxWindow)
  BY OutputAssumption DEF Lifetime!Kinds
<1>5. /\ RulesWellFormed' /\ LiveRulesEndable' /\ OpenWindows'
      /\ rules' \subseteq Rule /\ guard' \in [RuleIds -> Nat] /\ sent' \in 0..MaxRules
  BY <1>1, <1>2, <1>3, <1>4, PrintRuleKeeps
<1>6. /\ nextAtom' \in Nat /\ frozen' \subseteq Nat /\ facts' \subseteq Nat \ {0}
      /\ assertUids' \in [Terms -> Nat]
  BY <1>1, <1>2, AssertAtomType DEF IndInv
<1>7. TypeOK'
  BY <1>2, <1>5, <1>6 DEF IndInv, TypeOK, stepVars, extVars
<1>8. ExternalInv'
  BY <1>1, <1>2, FreezeKeepsExternals DEF GetAssertAtom, NewFrozenAtom, builderVars
<1>9. Settled'
  BY <1>2, <1>3, SettledKept DEF stepVars
<1> QED
  BY <1>3, <1>5, <1>7, <1>8, <1>9 DEF IndInv, SlotInv, ExternalInv

(* A volatile rule of the controller or of the program. *)
LEMMA DecayStep ==
  ASSUME IndInv, NEW step \in Keys, NEW atom \in 1..nextAtom,
         GetNewVolUid(step, atom), PrintRule("decay", step, NoTerm, atom),
         UNCHANGED <<stepVars, assertUids, queryAtom, extVars>>
  PROVE  IndInv'
<1>2. atom \in Nat
  BY DEF IndInv, TypeOK
<1>3. SlotInv' /\ SlotsKept /\ NewRuleEndable("decay", step, NoTerm, atom)
  BY <1>2, NewVolUidSlots DEF stepVars
<1>4. "decay" \in Lifetime!Kinds /\ step \in 0..(MaxStep + MaxWindow)
  BY OutputAssumption DEF Lifetime!Kinds, Keys
<1>5. /\ RulesWellFormed' /\ LiveRulesEndable' /\ OpenWindows'
      /\ rules' \subseteq Rule /\ guard' \in [RuleIds -> Nat] /\ sent' \in 0..MaxRules
  BY <1>2, <1>3, <1>4, PrintRuleKeeps
<1>6. /\ nextAtom' \in Nat /\ frozen' \subseteq Nat /\ facts' \subseteq Nat \ {0}
      /\ volUids' \in [Keys -> Nat] /\ trueAtom' \in Nat
  BY <1>2, NewVolUidType DEF IndInv, AtomsTaken
<1>7. TypeOK'
  BY <1>5, <1>6 DEF IndInv, TypeOK, stepVars, extVars
<1>8. ExternalInv'
  BY <1>2, FreezeKeepsExternals DEF GetNewVolUid, NewFrozenAtom, builderVars
<1>9. Settled'
  <2>1. incStep \in Nat /\ step \in Nat /\ volUids \in [Keys -> Nat] /\ Keys \subseteq Nat
    BY OutputAssumption DEF IndInv, TypeOK, Keys
  <2>2. CASE step >= incStep + 1 /\ volUids[step] = 0
    BY <2>1, <2>2, <1>3, SettledKept DEF GetNewVolUid, stepVars
  <2>3. CASE volUids' = volUids
    BY <2>3, <1>3, SettledKept DEF stepVars
  <2> QED
    BY <2>2, <2>3 DEF GetNewVolUid, builderVars
<1> QED
  BY <1>3, <1>5, <1>7, <1>8, <1>9 DEF IndInv, SlotInv, ExternalInv

(* A rule of #volatile : w preserves it. *)
LEMMA AddDecayStep == \A w \in Windows : IndInv /\ AddDecay(w) => IndInv'
<1> SUFFICES ASSUME NEW w \in Windows, IndInv, AddDecay(w) PROVE IndInv'
  OBVIOUS
<1>1. controllerStep + w \in Keys
  BY OutputAssumption DEF IndInv, TypeOK, Steps, Windows, Keys
<1> QED
  BY <1>1, DecayStep DEF AddDecay

(* So does a rule of a #volatile w part of the program. *)
LEMMA GroundVolatileStep == \A w \in Windows : IndInv /\ GroundVolatile(w) => IndInv'
<1> SUFFICES ASSUME NEW w \in Windows, IndInv, GroundVolatile(w) PROVE IndInv'
  OBVIOUS
<1>1. incStep + w \in Keys
  BY OutputAssumption DEF IndInv, TypeOK, Steps, Windows, Keys
<1> QED
  BY <1>1, DecayStep DEF GroundVolatile

(* A retract preserves the invariant: fact and erasure come together. *)
LEMMA RetractStep == \A term \in Terms : IndInv /\ RetractAtom(term) => IndInv'
<1> SUFFICES ASSUME NEW term \in Terms, IndInv, RetractAtom(term) PROVE IndInv'
  OBVIOUS
<1> DEFINE atom == assertUids[term]
<1>1. /\ atom # 0 /\ facts' = facts \cup {atom} /\ assertUids' = [assertUids EXCEPT ![term] = 0]
      /\ UNCHANGED <<stepVars, nextAtom, frozen, volUids, queryAtom, trueAtom, extVars, ruleVars>>
  BY DEF RetractAtom
<1>2. assertUids \in [Terms -> Nat] /\ atom \in Nat
  BY DEF IndInv, TypeOK
<1>3. assertUids'[term] = 0 /\ \A t \in Terms : t # term => assertUids'[t] = assertUids[t]
  BY <1>1, <1>2
<1>4. atom \in frozen /\ 0 < atom /\ atom < nextAtom
  BY <1>1 DEF IndInv, SlotsOpen, AtomsTaken
<1>5. /\ \A k \in Keys : volUids[k] # 0 => volUids[k] # atom
      /\ \A t \in Terms : t # term => assertUids[t] # atom
      /\ queryAtom # atom
      /\ \A e \in Externals : symbolMap[e] # 0 => symbolMap[e] # atom
  BY <1>1 DEF IndInv, SlotsDistinct, ExternalsApart
<1>6. TypeOK'
  <2>1. facts' \subseteq Nat \ {0} /\ assertUids' \in [Terms -> Nat]
    BY <1>1, <1>2 DEF IndInv, TypeOK
  <2> QED
    BY <1>1, <2>1 DEF IndInv, TypeOK, stepVars, extVars, ruleVars
<1> HIDE DEF atom
<1>7. AtomsTaken'
  BY <1>1, <1>3, <1>4 DEF IndInv, AtomsTaken, extVars
<1>8. SlotsOpen'
  BY <1>1, <1>3, <1>5 DEF IndInv, SlotsOpen
<1>9. SlotsDistinct'
  BY <1>1, <1>3 DEF IndInv, SlotsDistinct
<1>10. ExternalsApart'
  BY <1>1, <1>3 DEF IndInv, ExternalsApart, extVars
<1>11. RulesWellFormed' /\ OpenWindows' /\ Settled'
  BY <1>1 DEF IndInv, RulesWellFormed, OpenWindows, GuardedBy, Settled, ruleVars, stepVars
<1>12. ExternalInv'
  BY <1>1, FreezeKeepsExternals
<1>13. LiveRulesEndable'
  <2> SUFFICES ASSUME NEW r \in rules, guard[r.id] \notin facts'
               PROVE  /\ r.kind = "cumulative" => guard[r.id] = 0
                      /\ r.kind = "query"      => GuardedBy(r, queryAtom)
                      /\ r.kind = "decay"      => GuardedBy(r, volUids[r.until])
                      /\ r.kind = "assert"     => GuardedBy(r, assertUids'[r.term])
    BY <1>1 DEF LiveRulesEndable, Live, GuardedBy, ruleVars
  <2>1. r \in Live /\ guard[r.id] # atom
    BY <1>1 DEF Live
  <2>2. r.kind = "assert" => r.term \in Terms
    BY DEF IndInv, RulesWellFormed
  <2>3. r.kind = "assert" => GuardedBy(r, assertUids[r.term])
    BY <2>1 DEF IndInv, LiveRulesEndable
  <2>4. r.kind = "assert" => r.term # term
    BY <2>1, <2>3 DEF GuardedBy, atom
  <2>5. r.kind = "assert" => GuardedBy(r, assertUids'[r.term])
    BY <2>2, <2>3, <2>4, <1>3 DEF GuardedBy
  <2> QED
    BY <2>1, <2>5 DEF IndInv, LiveRulesEndable
<1> QED
  BY <1>6, <1>7, <1>8, <1>9, <1>10, <1>11, <1>12, <1>13 DEF IndInv, ExternalInv

(* A message preserves it: the query atom is dropped with its fact. *)
LEMMA ReadInputStep == IndInv /\ ReadInput => IndInv'
<1> SUFFICES ASSUME IndInv, ReadInput PROVE IndInv'
  OBVIOUS
<1>1. /\ phase = "solve" /\ phase' = "input" /\ queryAtom' = 0
      /\ facts' = IF queryAtom # 0 THEN facts \cup {queryAtom} ELSE facts
      /\ UNCHANGED <<incStep, controllerStep, nextAtom, frozen, volUids, assertUids, trueAtom,
                     extVars, ruleVars>>
  BY DEF ReadInput, DeactivateQueryAtom
<1>2. \A a : a \in facts' <=> a \in facts \/ (a = queryAtom /\ a # 0)
  BY <1>1
<1>3. TypeOK'
  BY <1>1 DEF IndInv, TypeOK, Phases, extVars, ruleVars
<1>4. AtomsTaken'
  BY <1>1 DEF IndInv, TypeOK, AtomsTaken, extVars
<1>5. SlotsOpen'
  BY <1>1, <1>2 DEF IndInv, SlotsOpen, SlotsDistinct
<1>6. SlotsDistinct' /\ ExternalsApart'
  BY <1>1 DEF IndInv, SlotsDistinct, ExternalsApart, extVars
<1>7. RulesWellFormed' /\ OpenWindows' /\ Settled'
  BY <1>1 DEF IndInv, RulesWellFormed, OpenWindows, GuardedBy, Settled, ruleVars
<1>8. ExternalInv'
  BY <1>1, FreezeKeepsExternals
<1>9. LiveRulesEndable'
  BY <1>1, <1>2 DEF IndInv, LiveRulesEndable, Live, GuardedBy, ruleVars
<1> QED
  BY <1>3, <1>4, <1>5, <1>6, <1>7, <1>8, <1>9 DEF IndInv, ExternalInv

(* The symbol of a new external is no guard. *)
LEMMA NewSymbolStep == \A e \in Externals : IndInv /\ NewSymbol(e) => IndInv'
<1> SUFFICES ASSUME NEW e \in Externals, IndInv, NewSymbol(e) PROVE IndInv'
  OBVIOUS
<1>1. /\ symbolMap[e] = 0 /\ symbolMap' = [symbolMap EXCEPT ![e] = nextAtom]
      /\ nextAtom' = nextAtom + 1 /\ newSymbols' = newSymbols \cup {e}
      /\ UNCHANGED <<stepVars, frozen, facts, dictVars, externalAtoms, ruleVars>>
  BY DEF NewSymbol
<1>2. symbolMap \in [Externals -> Nat]
  BY DEF IndInv, TypeOK
<1>3. symbolMap'[e] = nextAtom /\ \A f \in Externals : f # e => symbolMap'[f] = symbolMap[f]
  BY <1>1, <1>2
<1>4. TypeOK'
  <2>1. symbolMap' \in [Externals -> Nat] /\ newSymbols' \subseteq Externals /\ nextAtom' \in Nat
    BY <1>1, <1>2 DEF IndInv, TypeOK
  <2> QED
    BY <1>1, <2>1 DEF IndInv, TypeOK, stepVars, dictVars, ruleVars
<1>5. AtomsTaken'
  BY <1>1, <1>3, Fresh DEF AtomsTaken, dictVars
<1>6. SlotsOpen' /\ SlotsDistinct'
  BY <1>1 DEF IndInv, SlotsOpen, SlotsDistinct, dictVars
<1>7. \A k \in Steps : \A a \in externalAtoms[k] : a # nextAtom
  BY Fresh DEF IndInv, ExternalsApart
<1>8. ExternalsApart'
  BY <1>1, <1>3, Fresh DEF IndInv, ExternalsApart, dictVars
<1>9. SymbolsDistinct'
  BY <1>1, <1>3, <1>7, Fresh DEF IndInv, TypeOK, SymbolsDistinct
<1>10. ExternalsExact'
  BY <1>1, <1>3 DEF IndInv, ExternalsExact
<1>11. RulesWellFormed' /\ OpenWindows' /\ Settled' /\ LiveRulesEndable'
  BY <1>1 DEF IndInv, RulesWellFormed, OpenWindows, GuardedBy, Settled, LiveRulesEndable, Live,
              ruleVars, dictVars, stepVars
<1> QED
  BY <1>4, <1>5, <1>6, <1>8, <1>9, <1>10, <1>11 DEF IndInv

(* A #forget releases no guard. *)
LEMMA ForgetStepStep == \A k \in Steps : IndInv /\ ForgetStep(k) => IndInv'
<1> SUFFICES ASSUME NEW k \in Steps, IndInv, ForgetStep(k) PROVE IndInv'
  OBVIOUS
<1>1. /\ frozen' = frozen \ externalAtoms[k] /\ externalAtoms' = [externalAtoms EXCEPT ![k] = {}]
      /\ UNCHANGED <<stepVars, nextAtom, facts, dictVars, symbolMap, newSymbols, ruleVars>>
  BY DEF ForgetStep
<1>2. externalAtoms \in [Steps -> SUBSET Nat]
  BY DEF IndInv, TypeOK
<1>3. externalAtoms'[k] = {} /\ \A j \in Steps : j # k => externalAtoms'[j] = externalAtoms[j]
  BY <1>1, <1>2
<1>4. TypeOK'
  <2>1. externalAtoms' \in [Steps -> SUBSET Nat] /\ frozen' \subseteq Nat
    BY <1>1, <1>2 DEF IndInv, TypeOK
  <2> QED
    BY <1>1, <2>1 DEF IndInv, TypeOK, stepVars, dictVars, ruleVars
<1>5. \A a \in externalAtoms[k] : \E e \in Externals : a = symbolMap[e] /\ a # 0
  BY DEF IndInv, ExternalsApart
<1>6. AtomsTaken'
  BY <1>1 DEF IndInv, AtomsTaken, dictVars
<1>7. /\ \A j \in Keys : volUids[j] \notin externalAtoms[k]
      /\ \A t \in Terms : assertUids[t] \notin externalAtoms[k]
      /\ queryAtom \notin externalAtoms[k]
  BY <1>5 DEF IndInv, ExternalsApart
<1>8. SlotsOpen'
  BY <1>1, <1>7 DEF IndInv, SlotsOpen, dictVars
<1>9. SlotsDistinct'
  BY <1>1 DEF IndInv, SlotsDistinct, dictVars
<1>10. ExternalsApart'
  BY <1>1, <1>3 DEF IndInv, ExternalsApart, dictVars
<1>11. SymbolsDistinct'
  BY <1>1, <1>3 DEF IndInv, SymbolsDistinct
<1>12. ExternalsExact'
  BY <1>1, <1>3 DEF IndInv, ExternalsExact, SymbolsDistinct
<1>13. RulesWellFormed' /\ OpenWindows' /\ Settled' /\ LiveRulesEndable'
  BY <1>1 DEF IndInv, RulesWellFormed, OpenWindows, GuardedBy, Settled, LiveRulesEndable, Live,
              ruleVars, dictVars, stepVars
<1> QED
  BY <1>4, <1>6, <1>8, <1>9, <1>10, <1>11, <1>12, <1>13 DEF IndInv

(* A new step preserves it: no slot of a step before it is in use. *)
LEMMA GroundStepStep == IndInv /\ GroundStep => IndInv'
<1> SUFFICES ASSUME IndInv, GroundStep PROVE IndInv'
  OBVIOUS
<1>1. /\ incStep < MaxStep /\ incStep' = incStep + 1 /\ phase' = "ground"
      /\ UNCHANGED <<controllerStep, builderVars, dictVars, extVars, ruleVars>>
  BY DEF GroundStep
<1>2. TypeOK'
  BY <1>1, OutputAssumption DEF IndInv, TypeOK, Phases, builderVars, dictVars, extVars, ruleVars
<1>3. AtomsTaken' /\ SlotsOpen' /\ SlotsDistinct' /\ ExternalsApart'
  BY <1>1 DEF IndInv, AtomsTaken, SlotsOpen, SlotsDistinct, ExternalsApart, builderVars, dictVars, extVars
<1>4. ExternalInv'
  BY <1>1, FreezeKeepsExternals DEF builderVars
<1>5. RulesWellFormed' /\ LiveRulesEndable' /\ Settled'
  BY <1>1 DEF IndInv, RulesWellFormed, LiveRulesEndable, Live, GuardedBy, Settled,
              builderVars, dictVars, ruleVars
<1>6. OpenWindows'
  <2>1. incStep \in Nat /\ \A r \in rules : r.kind = "decay" => r.until \in Nat
    BY OutputAssumption DEF IndInv, TypeOK, RulesWellFormed, Keys
  <2> QED
    BY <1>1, <2>1 DEF IndInv, OpenWindows, GuardedBy, dictVars, ruleVars
<1> QED
  BY <1>2, <1>3, <1>4, <1>5, <1>6 DEF IndInv, ExternalInv

(* Each of the three places that call doFinalize preserves the invariant. *)
LEMMA FinalizeStepKeeps ==
  ASSUME IndInv, DoFinalize, phase' \in Phases
  PROVE  IndInv'
<1>1. TypeOK'
  BY FinalizeType DEF IndInv
<1>2. /\ SlotInv' /\ RulesWellFormed' /\ LiveRulesEndable' /\ OpenWindows' /\ Settled'
  BY FinalizeKeeps DEF Settled
<1>3. ExternalInv'
  BY FinalizeKeepsExternals
<1> QED
  BY <1>1, <1>2, <1>3 DEF IndInv, SlotInv, ExternalInv

(* A step that only moves phase and controllerStep. *)
LEMMA PhaseStep ==
  ASSUME IndInv, phase' \in Phases, phase' = "ground" => phase = "ground",
         phase = "ground" => phase' = "ground",
         controllerStep' \in Steps,
         UNCHANGED <<incStep, builderVars, dictVars, extVars, ruleVars>>
  PROVE  IndInv'
<1>1. TypeOK'
  BY DEF IndInv, TypeOK, builderVars, dictVars, extVars, ruleVars
<1>2. AtomsTaken' /\ SlotsOpen' /\ SlotsDistinct' /\ ExternalsApart'
  BY DEF IndInv, AtomsTaken, SlotsOpen, SlotsDistinct, ExternalsApart, builderVars, dictVars, extVars
<1>3. ExternalInv'
  BY FreezeKeepsExternals DEF builderVars
<1>4. RulesWellFormed' /\ LiveRulesEndable' /\ OpenWindows'
  BY DEF IndInv, RulesWellFormed, LiveRulesEndable, Live, OpenWindows, GuardedBy,
         builderVars, dictVars, ruleVars
<1>5. Settled'
  BY DEF IndInv, Settled, dictVars
<1> QED
  BY <1>1, <1>2, <1>3, <1>4, <1>5 DEF IndInv, ExternalInv

(* The invariant is inductive: one case per action. *)
LEMMA Inductive == IndInv /\ [Next]_vars => IndInv'
<1> SUFFICES ASSUME IndInv, [Next]_vars PROVE IndInv'
  OBVIOUS
<1>0. controllerStep \in Steps /\ phase \in Phases
  BY DEF IndInv, TypeOK
<1>1. CASE AddCumulative
  BY <1>1, AddCumulativeStep
<1>2. CASE AddQuery
  BY <1>2, AddQueryStep
<1>3. CASE \E w \in Windows : AddDecay(w)
  BY <1>3, AddDecayStep
<1>4. CASE \E t \in Terms : AddAssert(t)
  BY <1>4, AddAssertStep
<1>5. CASE \E t \in Terms : RetractAtom(t)
  BY <1>5, RetractStep
<1>6. CASE \E w \in Windows : GroundVolatile(w)
  BY <1>6, GroundVolatileStep
<1>7. CASE \E e \in Externals : NewSymbol(e)
  BY <1>7, NewSymbolStep
<1>8. CASE \E k \in Steps : ForgetStep(k)
  BY <1>8, ForgetStepStep
<1>9. CASE ReadInput
  BY <1>9, ReadInputStep
<1>10. CASE ReadNothing
  BY <1>0, <1>10, PhaseStep DEF ReadNothing, Phases
<1>11. CASE \E k \in Steps : SetControllerStep(k)
  BY <1>11, PhaseStep DEF SetControllerStep, Phases
<1>12. CASE GroundStep
  BY <1>12, GroundStepStep
<1>13. CASE FinalizeStep
  BY <1>13, FinalizeStepKeeps DEF FinalizeStep, Phases
<1>14. CASE BeginPremature
  BY <1>0, <1>14, PhaseStep DEF BeginPremature, Phases
<1>15. CASE SkipPremature
  BY <1>0, <1>15, PhaseStep DEF SkipPremature, Phases
<1>16. CASE FinalizePremature
  BY <1>16, FinalizeStepKeeps DEF FinalizePremature, Phases
<1>17. CASE FinalizeIteration
  BY <1>17, FinalizeStepKeeps DEF FinalizeIteration, Phases
<1>18. CASE UNCHANGED vars
  BY <1>0, <1>18, PhaseStep DEF vars, stepVars
<1> QED
  BY <1>1, <1>2, <1>3, <1>4, <1>5, <1>6, <1>7, <1>8, <1>9, <1>10, <1>11, <1>12, <1>13, <1>14,
     <1>15, <1>16, <1>17, <1>18 DEF Next

(* Every reachable state satisfies the inductive invariant (the three dictionaries of
    guards, their atoms and the externals of claspoutput.cpp and oclaspoutput.cpp). *)
THEOREM Invariant == Spec => []IndInv
  BY Initial, Inductive, PTL DEF Spec

(* Every variable keeps its type; in particular no step, window or expiry step    *)
(* leaves the range its dictionary is indexed by.                                 *)
THEOREM TypeCorrect == Spec => []TypeOK
  BY Invariant, PTL DEF IndInv

(* A live rule hangs on the guard of its own reason to end, in every execution.   *)
THEOREM RulesEndable == Spec => []LiveRulesEndable
  BY Invariant, PTL DEF IndInv

(* External atoms stay open exactly until their step is forgotten.                *)
THEOREM ExternalsCorrect == Spec => []ExternalsExact
  BY Invariant, PTL DEF IndInv

(* What Settled, OpenWindows and LiveRulesEndable say of volatile rules. *)
LEMMA VolatileFromInvariant == IndInv => VolatileExact
<1> SUFFICES ASSUME IndInv, phase = "solve", NEW r \in rules, r.kind = "decay"
             PROVE  r \in Live <=> incStep < r.until
  BY DEF VolatileExact
<1>1. incStep \in Nat /\ r.until \in Keys /\ r.until \in Nat
  BY OutputAssumption DEF IndInv, TypeOK, RulesWellFormed, Keys
<1>2. ASSUME incStep < r.until PROVE r \in Live
  BY <1>1, <1>2 DEF IndInv, OpenWindows, GuardedBy, SlotsOpen, Live
<1>3. ASSUME r \in Live, ~(incStep < r.until) PROVE FALSE
  <2>1. volUids[r.until] = 0
    BY <1>1, <1>3 DEF IndInv, Settled
  <2> QED
    BY <1>3, <2>1 DEF IndInv, LiveRulesEndable, GuardedBy
<1> QED
  BY <1>2, <1>3

(* While clasp solves, a volatile rule holds exactly if its window covers the     *)
(* step: doFinalize ends the rules of every step that has come, and no other.     *)
THEOREM VolatileCorrect == Spec => []VolatileExact
  BY Invariant, VolatileFromInvariant, PTL

(* What Settled and SlotsOpen say of the guard of the next step. *)
LEMMA VolatileAtomFromInvariant == IndInv => VolatileAtomAlways
<1>1. ASSUME IndInv PROVE incStep + 1 \in Keys
  BY <1>1, OutputAssumption DEF IndInv, TypeOK, Keys
<1> QED
  BY <1>1 DEF IndInv, Settled, SlotsOpen, VolatileAtomAlways

(* While clasp solves there is an open guard for the next step.                   *)
THEOREM VolatileAtomCorrect == Spec => []VolatileAtomAlways
  BY Invariant, VolatileAtomFromInvariant, PTL

(* What a #retract, a message and the end of a step end are slots, which the      *)
(* invariant says are open, and each a slot of its own.                           *)
LEMMA EndedOpen ==
  ASSUME IndInv
  PROVE  /\ \A t \in Terms : assertUids[t] \in Open \cup {0}
         /\ queryAtom \in Open \cup {0}
         /\ \A k \in Keys : volUids[k] # 0 =>
                volUids[k] \in Open /\ \A j \in Keys : volUids[j] = volUids[k] => j = k
<1>1. \A t \in Terms : assertUids[t] \in Open \cup {0}
  BY DEF IndInv, SlotsOpen, Open
<1>2. queryAtom \in Open \cup {0}
  BY DEF IndInv, SlotsOpen, Open
<1>3. \A k \in Keys : volUids[k] # 0 =>
        volUids[k] \in Open /\ \A j \in Keys : volUids[j] = volUids[k] => j = k
  BY DEF IndInv, SlotsOpen, SlotsDistinct, Open
<1> QED
  BY <1>1, <1>2, <1>3

(* Under the invariant every action makes open or new atoms facts. *)
LEMMA FactStep == IndInv /\ Next => \A a \in facts' \ facts : a \in Open \/ a >= nextAtom
<1> SUFFICES ASSUME IndInv, Next, NEW a \in facts', a \notin facts
             PROVE  a \in Open \/ a >= nextAtom
  OBVIOUS
<1>1. nextAtom \in Nat
  BY DEF IndInv, TypeOK
<1>2. ASSUME NEW step, NEW atom, GetNewVolUid(step, atom) PROVE a \in Open \/ a >= nextAtom
  BY <1>1, <1>2 DEF GetNewVolUid, NewFrozenAtom, builderVars
<1>3. ASSUME DoFinalize PROVE a \in Open
  <2>1. \E k \in Keys : volUids[k] = a /\ a # 0
    BY <1>3 DEF DoFinalize, Expired
  <2> QED
    BY <2>1, EndedOpen
<1>4. CASE \/ AddCumulative \/ ReadNothing \/ GroundStep \/ BeginPremature \/ SkipPremature
           \/ \E e \in Externals : NewSymbol(e)
           \/ \E k \in Steps : ForgetStep(k) \/ SetControllerStep(k)
  BY <1>4 DEF AddCumulative, ReadNothing, GroundStep, BeginPremature, SkipPremature, NewSymbol,
              ForgetStep, SetControllerStep, builderVars
<1>5. CASE AddQuery
  BY <1>5 DEF AddQuery, GetQueryAtom, NewFrozenAtom, builderVars
<1>6. CASE \E t \in Terms : AddAssert(t)
  BY <1>6 DEF AddAssert, GetAssertAtom, NewFrozenAtom, builderVars
<1>7. CASE \E w \in Windows : AddDecay(w)
  BY <1>2, <1>7 DEF AddDecay
<1>8. CASE \E w \in Windows : GroundVolatile(w)
  BY <1>2, <1>8 DEF GroundVolatile
<1>9. CASE \E t \in Terms : RetractAtom(t)
  <2>1. PICK t \in Terms : RetractAtom(t)
    BY <1>9
  <2> QED
    BY <2>1, EndedOpen DEF RetractAtom
<1>10. CASE ReadInput
  BY <1>10, EndedOpen DEF ReadInput, DeactivateQueryAtom
<1>11. CASE FinalizeStep \/ FinalizePremature \/ FinalizeIteration
  BY <1>3, <1>11 DEF FinalizeStep, FinalizePremature, FinalizeIteration
<1> QED
  BY <1>4, <1>5, <1>6, <1>7, <1>8, <1>9, <1>10, <1>11 DEF Next

(* clasp is never asked to define an atom of an earlier step that is not frozen,  *)
(* and no guard is ended twice.                                                   *)
THEOREM FactsCorrect == Spec => FactsOnlyOnOpenAtoms
<1> DEFINE Ends ==
      /\ phase \in {"input", "stepped"} => \A t \in Terms : assertUids[t] \in Open \cup {0}
      /\ ReadInput => queryAtom \in Open \cup {0}
      /\ FinalizeStep \/ FinalizePremature \/ FinalizeIteration =>
            \A k \in Expired : volUids[k] # 0 =>
                volUids[k] \in Open /\ \A j \in Expired : volUids[j] = volUids[k] => j = k
      /\ \A a \in facts' \ facts : a \in Open \/ a >= nextAtom
<1>1. IndInv /\ [Next]_vars => [Ends]_vars
  <2> SUFFICES ASSUME IndInv, Next PROVE Ends
    OBVIOUS
  <2>1. \A a \in facts' \ facts : a \in Open \/ a >= nextAtom
    BY FactStep
  <2>2. Expired \subseteq Keys
    BY DEF Expired
  <2> QED
    BY <2>1, <2>2, EndedOpen
<1> QED
  BY <1>1, Invariant, PTL DEF Spec, FactsOnlyOnOpenAtoms

-------------------------------------------------------------------------------
(* Guards implement lifetimes. *)

(* The guard of a live rule is an atom that is taken, so a new atom is not it.    *)
LEMMA LiveGuards ==
  ASSUME IndInv, NEW r \in Live
  PROVE  /\ guard[r.id] \in Nat /\ guard[r.id] < nextAtom /\ guard[r.id] \notin facts
         /\ r \in rules /\ r.id # sent + 1 /\ r.id \in RuleIds
<1>1. /\ r \in rules /\ r.id \in RuleIds /\ r.id <= sent /\ sent \in Nat /\ guard \in [RuleIds -> Nat]
      /\ r.id \in Nat /\ nextAtom \in Nat
      /\ r.kind \in {"cumulative", "query", "decay", "assert"}
      /\ r.kind = "decay" => r.until \in Keys
      /\ r.kind = "assert" => r.term \in Terms
  BY DEF Live, IndInv, TypeOK, RulesWellFormed, Rule, Lifetime!Rule, Lifetime!Kinds, RuleIds
<1>2. guard[r.id] < nextAtom
  BY <1>1 DEF IndInv, LiveRulesEndable, GuardedBy, AtomsTaken
<1> QED
  BY <1>1, <1>2 DEF Live

(* Printing a rule sends it. *)
LEMMA PrintSends ==
  ASSUME IndInv, IndInv', UNCHANGED incStep,
         NEW kind, NEW until \in Nat, NEW term, NEW atom,
         PrintRule(kind, until, term, atom),
         facts' = facts \/ facts' = facts \cup {nextAtom},
         atom \in facts' <=> kind = "decay" /\ until <= incStep
  PROVE  Lifetime!LifeNext
<1> DEFINE new == [id |-> sent + 1, kind |-> kind, until |-> until, term |-> term]
<1>1. /\ sent < MaxRules /\ sent' = sent + 1 /\ rules' = rules \cup {new}
      /\ guard' = [guard EXCEPT ![sent + 1] = atom]
      /\ new.id = sent + 1 /\ new.kind = kind /\ new.until = until
  BY DEF PrintRule
<1>2. sent + 1 \in RuleIds /\ guard \in [RuleIds -> Nat]
  BY <1>1, OutputAssumption DEF IndInv, TypeOK, RuleIds
<1>3. new \in Lifetime!Rule
  BY <1>1 DEF IndInv, TypeOK, Rule
<1> HIDE DEF new
<1>4. guard'[sent + 1] = atom /\ \A i \in RuleIds : i # sent + 1 => guard'[i] = guard[i]
  BY <1>1, <1>2
<1>5. \A r \in rules : r.id # sent + 1 /\ r.id \in RuleIds
  BY DEF IndInv, TypeOK, RulesWellFormed, Rule, Lifetime!Rule, RuleIds
<1>6. \A r \in rules : guard'[r.id] \in facts' <=> guard[r.id] \in facts
  <2> SUFFICES ASSUME NEW r \in rules PROVE guard[r.id] \in facts' <=> guard[r.id] \in facts
    BY <1>4, <1>5
  <2>1. CASE r \in Live
    <3>1. guard[r.id] # nextAtom
      BY <2>1, LiveGuards DEF IndInv, TypeOK
    <3> QED
      BY <3>1
  <2>2. CASE r \notin Live
    BY <2>2 DEF Live
  <2> QED
    BY <2>1, <2>2
<1>7. Live' = IF kind = "decay" /\ until <= incStep THEN Live ELSE Live \cup {new}
  BY <1>1, <1>4, <1>6 DEF Live
<1>8. Lifetime!Send(new)
  BY <1>1, <1>7 DEF Lifetime!Send
<1> QED
  BY <1>3, <1>8 DEF Lifetime!LifeNext

(* A step that neither prints a rule nor gives a fact. *)
LEMMA StutterStep ==
  ASSUME UNCHANGED <<incStep, facts, ruleVars>>
  PROVE  UNCHANGED Lifetime!lifeVars
  BY DEF Lifetime!lifeVars, Live, ruleVars

(* A volatile rule is a Send of RuleLifetime, out of order or not. *)
LEMMA DecaySends ==
  ASSUME IndInv, IndInv', NEW step \in Keys, NEW atom \in 1..nextAtom,
         GetNewVolUid(step, atom), PrintRule("decay", step, NoTerm, atom), UNCHANGED incStep
  PROVE  Lifetime!LifeNext
<1>1. step \in Nat /\ incStep \in Nat
  BY OutputAssumption DEF IndInv, TypeOK, Keys
<1>2. facts' = facts \/ facts' = facts \cup {nextAtom}
  BY DEF GetNewVolUid, builderVars, NewFrozenAtom
<1>3. atom \in facts' <=> step <= incStep
  <2>1. CASE step < incStep + 1
    <3>1. atom \in facts'
      BY <2>1, <1>1 DEF GetNewVolUid, builderVars, IndInv, SlotsOpen
    <3> QED
      BY <2>1, <3>1, <1>1
  <2>2. CASE step >= incStep + 1
    <3>1. facts' = facts /\ (atom = nextAtom \/ (volUids[step] # 0 /\ atom = volUids[step]))
      BY <2>2, <1>1 DEF GetNewVolUid, builderVars, NewFrozenAtom
    <3>2. atom \notin facts
      BY <3>1, Fresh DEF IndInv, SlotsOpen
    <3> QED
      BY <2>2, <3>1, <3>2, <1>1
  <2> QED
    BY <2>1, <2>2, <1>1
<1> QED
  BY <1>1, <1>2, <1>3, PrintSends

(* doFinalize is a Settle of RuleLifetime. *)
LEMMA FinalizeSettles ==
  ASSUME IndInv, DoFinalize
  PROVE  Lifetime!Settle
<1>1. UNCHANGED <<incStep, sent, rules, guard>> /\ facts' = facts \cup ({volUids[k] : k \in Expired} \ {0})
  BY DEF DoFinalize, ruleVars
<1>2. Live' = {r \in Live : r.kind = "decay" => r.until > incStep}
  <2>1. \A r \in Live : guard[r.id] \notin facts' <=> (r.kind = "decay" => r.until > incStep)
    <3> SUFFICES ASSUME NEW r \in Live
                 PROVE  guard[r.id] \in facts' <=> r.kind = "decay" /\ ~(r.until > incStep)
      OBVIOUS
    <3>0. r.kind \in {"cumulative", "query", "decay", "assert"} /\ incStep \in Nat
      BY LiveGuards, OutputAssumption DEF IndInv, TypeOK, Rule, Lifetime!Rule, Lifetime!Kinds
    <3>1. guard[r.id] \in facts' <=> \E k \in Keys : k < incStep + 1 /\ volUids[k] = guard[r.id] /\ guard[r.id] # 0
      BY <1>1, LiveGuards DEF Expired
    <3>2. CASE r.kind = "decay"
      <4>1. r.until \in Keys /\ r.until \in Nat /\ volUids[r.until] # 0 /\ guard[r.id] = volUids[r.until]
        BY <3>2, LiveGuards, OutputAssumption
        DEF IndInv, RulesWellFormed, LiveRulesEndable, GuardedBy, Keys
      <4>2. \A k \in Keys : volUids[k] = guard[r.id] => k = r.until
        BY <4>1 DEF IndInv, SlotsDistinct
      <4> QED
        BY <3>0, <3>1, <3>2, <4>1, <4>2
    <3>3. CASE r.kind # "decay"
      <4>1. r.kind = "assert" => r.term \in Terms
        BY LiveGuards DEF IndInv, RulesWellFormed
      <4>2. \A k \in Keys : volUids[k] = guard[r.id] => guard[r.id] = 0
        BY <3>0, <3>3, <4>1 DEF IndInv, SlotsDistinct, LiveRulesEndable, GuardedBy
      <4> QED
        BY <3>1, <3>3, <4>2
    <3> QED
      BY <3>2, <3>3
  <2> QED
    BY <2>1, <1>1 DEF Live
<1> QED
  BY <1>1, <1>2 DEF Lifetime!Settle

(* Every step is a step of RuleLifetime or changes nothing it sees. *)
LEMMA RefinesStep == IndInv /\ IndInv' /\ [Next]_vars => [Lifetime!LifeNext]_(Lifetime!lifeVars)
<1> SUFFICES ASSUME IndInv, IndInv', [Next]_vars
             PROVE  Lifetime!LifeNext \/ UNCHANGED Lifetime!lifeVars
  OBVIOUS
<1>0. /\ 0 \notin facts /\ 0 \in Nat /\ nextAtom \in Nat /\ 0 # nextAtom
      /\ \A k \in Keys : k \in Nat
  BY Fresh, OutputAssumption DEF Keys
<1>1. CASE AddCumulative
  BY <1>0, <1>1, PrintSends DEF AddCumulative, stepVars, builderVars
<1>2. CASE AddQuery
  <2>1. PICK atom \in 1..nextAtom : GetQueryAtom(atom) /\ PrintRule("query", 0, NoTerm, atom)
    BY <1>2 DEF AddQuery
  <2>2. facts' = facts /\ UNCHANGED incStep
    BY <1>2, <2>1 DEF AddQuery, GetQueryAtom, builderVars, stepVars
  <2>3. atom \notin facts
    BY <2>1, Fresh DEF GetQueryAtom, NewFrozenAtom, IndInv, SlotsOpen
  <2> QED
    BY <1>0, <2>1, <2>2, <2>3, PrintSends
<1>3. ASSUME NEW w \in Windows, AddDecay(w) PROVE Lifetime!LifeNext
  <2>1. controllerStep + w \in Keys
    BY OutputAssumption DEF IndInv, TypeOK, Steps, Windows, Keys
  <2> QED
    BY <1>3, <2>1, DecaySends DEF AddDecay, stepVars
<1>4. ASSUME NEW t \in Terms, AddAssert(t) PROVE Lifetime!LifeNext
  <2>1. PICK atom \in 1..nextAtom : GetAssertAtom(t, atom) /\ PrintRule("assert", 0, t, atom)
    BY <1>4 DEF AddAssert
  <2>2. facts' = facts /\ UNCHANGED incStep
    BY <1>4, <2>1 DEF AddAssert, GetAssertAtom, builderVars, stepVars
  <2>3. atom \notin facts
    BY <2>1, Fresh DEF GetAssertAtom, NewFrozenAtom, IndInv, SlotsOpen
  <2> QED
    BY <1>0, <2>1, <2>2, <2>3, PrintSends
<1>5. ASSUME NEW t \in Terms, RetractAtom(t) PROVE Lifetime!LifeNext
  <2>1. /\ assertUids[t] # 0 /\ facts' = facts \cup {assertUids[t]}
        /\ UNCHANGED <<incStep, sent, rules, guard>>
    BY <1>5 DEF RetractAtom, stepVars, ruleVars
  <2>2. \A r \in Live : guard[r.id] = assertUids[t] <=> r.kind = "assert" /\ r.term = t
    <3> SUFFICES ASSUME NEW r \in Live
                 PROVE  guard[r.id] = assertUids[t] <=> r.kind = "assert" /\ r.term = t
      OBVIOUS
    <3>1. /\ r.kind \in {"cumulative", "query", "decay", "assert"}
          /\ r.kind = "assert" => r.term \in Terms
          /\ r.kind = "decay" => r.until \in Keys
      BY LiveGuards DEF IndInv, TypeOK, Rule, Lifetime!Rule, Lifetime!Kinds, RulesWellFormed
    <3> QED
      BY <2>1, <3>1 DEF IndInv, SlotsDistinct, LiveRulesEndable, GuardedBy
  <2>3. Live' = {r \in Live : ~(r.kind = "assert" /\ r.term = t)}
    BY <2>1, <2>2 DEF Live
  <2> QED
    BY <2>1, <2>3 DEF Lifetime!LifeNext, Lifetime!Retract
<1>6. ASSUME NEW w \in Windows, GroundVolatile(w) PROVE Lifetime!LifeNext
  <2>1. incStep + w \in Keys
    BY OutputAssumption DEF IndInv, TypeOK, Steps, Windows, Keys
  <2> QED
    BY <1>6, <2>1, DecaySends DEF GroundVolatile, stepVars
<1>7. CASE \/ ReadNothing \/ BeginPremature \/ SkipPremature \/ UNCHANGED vars
           \/ \E e \in Externals : NewSymbol(e)
           \/ \E k \in Steps : ForgetStep(k) \/ SetControllerStep(k)
  BY <1>7, StutterStep DEF ReadNothing, BeginPremature, SkipPremature, NewSymbol, ForgetStep,
           SetControllerStep, vars, stepVars, builderVars
<1>8. CASE ReadInput
  <2>1. /\ facts' = IF queryAtom # 0 THEN facts \cup {queryAtom} ELSE facts
        /\ UNCHANGED <<incStep, sent, rules, guard>>
    BY <1>8 DEF ReadInput, DeactivateQueryAtom, ruleVars
  <2>2. \A r \in Live : queryAtom # 0 /\ guard[r.id] = queryAtom <=> r.kind = "query"
    <3> SUFFICES ASSUME NEW r \in Live
                 PROVE  queryAtom # 0 /\ guard[r.id] = queryAtom <=> r.kind = "query"
      OBVIOUS
    <3>1. /\ r.kind \in {"cumulative", "query", "decay", "assert"}
          /\ r.kind = "assert" => r.term \in Terms
          /\ r.kind = "decay" => r.until \in Keys
      BY LiveGuards DEF IndInv, TypeOK, Rule, Lifetime!Rule, Lifetime!Kinds, RulesWellFormed
    <3> QED
      BY <3>1 DEF IndInv, SlotsDistinct, LiveRulesEndable, GuardedBy
  <2>3. Live' = {r \in Live : r.kind # "query"}
    BY <2>1, <2>2 DEF Live
  <2> QED
    BY <2>1, <2>3 DEF Lifetime!LifeNext, Lifetime!EndQuery
<1>9. CASE GroundStep
  <2>1. Live' = Live /\ sent' = sent /\ rules' = rules /\ incStep < MaxStep /\ incStep' = incStep + 1
    BY <1>9 DEF GroundStep, Live, builderVars, ruleVars
  <2> QED
    BY <2>1 DEF Lifetime!LifeNext, Lifetime!Advance
<1>10. CASE FinalizeStep \/ FinalizePremature \/ FinalizeIteration
  BY <1>10, FinalizeSettles
  DEF FinalizeStep, FinalizePremature, FinalizeIteration, Lifetime!LifeNext
<1> QED
  BY <1>1, <1>2, <1>3, <1>4, <1>5, <1>6, <1>7, <1>8, <1>9, <1>10 DEF Next

(* The initial states agree. *)
LEMMA RefinesInit == Init => Lifetime!LifeInit
  BY DEF Init, Lifetime!LifeInit, Live

(* Guard atoms implement the lifetimes RuleLifetime promises: each step of the    *)
(* translation sends, ends or settles rules as that specification does, or        *)
(* changes nothing it can see.                                                    *)
THEOREM Refinement == Spec => ImplementsLifetime
  BY RefinesInit, RefinesStep, Invariant, PTL DEF Spec, ImplementsLifetime, Lifetime!LifeSpec
-------------------------------------------------------------------------------
(* What a step does to the rules that are there and to the one it prints, for    *)
(* System_proofs. *)

(* Facts stay, and so do rules and their guards. *)
LEMMA OldRules ==
  ASSUME IndInv, [Next]_vars
  PROVE  /\ facts \subseteq facts' /\ sent \in Nat
         /\ \A r \in rules : r \in rules' /\ r.id \in 1..sent /\ guard'[r.id] = guard[r.id]
<1>1. sent \in Nat /\ guard \in [RuleIds -> Nat]
  BY OutputAssumption DEF IndInv, TypeOK
<1>2. \A r \in rules : r.id \in RuleIds /\ r.id \in 1..sent
  BY <1>1 DEF IndInv, TypeOK, RulesWellFormed, Rule, Lifetime!Rule, RuleIds
<1>3. ASSUME NEW kind, NEW until, NEW term, NEW atom, PrintRule(kind, until, term, atom)
      PROVE  \A r \in rules : r \in rules' /\ guard'[r.id] = guard[r.id]
  <2> SUFFICES ASSUME NEW r \in rules PROVE r \in rules' /\ guard'[r.id] = guard[r.id]
    OBVIOUS
  <2>1. r.id # sent + 1 /\ r.id \in RuleIds
    BY <1>1, <1>2
  <2>2. r \in rules' /\ guard' = [guard EXCEPT ![sent + 1] = atom]
    BY <1>3 DEF PrintRule
  <2> QED
    BY <1>1, <2>1, <2>2
<1>4. CASE AddCumulative
  BY <1>2, <1>3, <1>1, <1>4 DEF AddCumulative, builderVars
<1>5. CASE AddQuery
  <2>1. PICK atom \in 1..nextAtom : GetQueryAtom(atom) /\ PrintRule("query", 0, NoTerm, atom)
    BY <1>5 DEF AddQuery
  <2>2. facts' = facts
    BY <2>1 DEF GetQueryAtom, builderVars
  <2> QED
    BY <1>1, <1>2, <1>3, <2>1, <2>2
<1>6. ASSUME NEW t \in Terms, AddAssert(t)
      PROVE  facts \subseteq facts' /\ \A r \in rules : r \in rules' /\ guard'[r.id] = guard[r.id]
  <2>1. PICK atom \in 1..nextAtom : GetAssertAtom(t, atom) /\ PrintRule("assert", 0, t, atom)
    BY <1>6 DEF AddAssert
  <2>2. facts' = facts
    BY <2>1 DEF GetAssertAtom, builderVars
  <2> QED
    BY <1>3, <2>1, <2>2
<1>7. ASSUME NEW key, NEW atom, GetNewVolUid(key, atom), PrintRule("decay", key, NoTerm, atom)
      PROVE  facts \subseteq facts' /\ \A r \in rules : r \in rules' /\ guard'[r.id] = guard[r.id]
  <2>1. facts \subseteq facts'
    BY <1>7 DEF GetNewVolUid, builderVars
  <2> QED
    BY <1>3, <1>7, <2>1
<1>8. CASE (\E w \in Windows : AddDecay(w)) \/ (\E w \in Windows : GroundVolatile(w))
  BY <1>1, <1>2, <1>7, <1>8 DEF AddDecay, GroundVolatile
<1>9. CASE FinalizeStep \/ FinalizePremature \/ FinalizeIteration
  BY <1>1, <1>2, <1>9 DEF FinalizeStep, FinalizePremature, FinalizeIteration, DoFinalize, ruleVars
<1>10. CASE ReadInput \/ \E t \in Terms : RetractAtom(t)
  BY <1>1, <1>2, <1>10 DEF ReadInput, DeactivateQueryAtom, RetractAtom, ruleVars
<1>11. CASE (\E e \in Externals : NewSymbol(e)) \/ (\E k \in Steps : ForgetStep(k)) \/ UNCHANGED vars
  BY <1>1, <1>2, <1>11 DEF NewSymbol, ForgetStep, ruleVars, builderVars, vars
<1>12. CASE ReadNothing \/ (\E k \in Steps : SetControllerStep(k)) \/ GroundStep \/ BeginPremature \/ SkipPremature
  BY <1>1, <1>2, <1>12 DEF ReadNothing, SetControllerStep, GroundStep, BeginPremature, SkipPremature,
                           ruleVars, builderVars
<1> QED
  BY <1>1, <1>2, <1>4, <1>5, <1>6, <1>8, <1>9, <1>10, <1>11, <1>12 DEF Next

(* A rule stays live while its guard stays in its slot. *)
LEMMA LiveKept ==
  ASSUME IndInv, IndInv', [Next]_vars, NEW r \in rules
  PROVE  /\ r.kind = "cumulative" /\ r \in Live => r \in Live'
         /\ r.kind = "query" /\ (queryAtom # 0 => queryAtom' = queryAtom) => (r \in Live <=> r \in Live')
         /\ r.kind = "assert" /\ (assertUids[r.term] # 0 => assertUids'[r.term] = assertUids[r.term])
              => (r \in Live <=> r \in Live')
<1>1. r \in rules' /\ guard'[r.id] = guard[r.id] /\ facts \subseteq facts'
  BY OldRules
<1>2. r \in Live' => r \in Live
  BY <1>1 DEF Live
<1>3. ASSUME r \in Live, r.kind = "cumulative" PROVE r \in Live'
  <2>1. guard[r.id] = 0 /\ 0 \notin facts'
    BY <1>3 DEF IndInv, LiveRulesEndable, TypeOK
  <2> QED
    BY <1>1, <2>1 DEF Live
<1>4. ASSUME r \in Live, r.kind = "query", queryAtom # 0 => queryAtom' = queryAtom PROVE r \in Live'
  <2>1. guard[r.id] = queryAtom /\ queryAtom # 0
    BY <1>4 DEF IndInv, LiveRulesEndable, GuardedBy
  <2>2. queryAtom' \notin facts'
    BY <1>4, <2>1 DEF IndInv, SlotsOpen
  <2> QED
    BY <1>1, <1>4, <2>1, <2>2 DEF Live
<1>5. ASSUME r \in Live, r.kind = "assert", assertUids[r.term] # 0 => assertUids'[r.term] = assertUids[r.term]
      PROVE  r \in Live'
  <2>1. guard[r.id] = assertUids[r.term] /\ assertUids[r.term] # 0 /\ r.term \in Terms
    BY <1>5 DEF IndInv, LiveRulesEndable, GuardedBy, RulesWellFormed, Live
  <2>2. assertUids'[r.term] \notin facts'
    BY <1>5, <2>1 DEF IndInv, SlotsOpen
  <2> QED
    BY <1>1, <1>5, <2>1, <2>2 DEF Live
<1> QED
  BY <1>2, <1>3, <1>4, <1>5

(* Rule r is printed, and no other rule ends. *)
Prints(r) ==
    /\ r.id = sent + 1
    /\ sent' = sent + 1
    /\ rules' = rules \cup {r}
    /\ queryAtom # 0 => queryAtom' = queryAtom
    /\ \A t \in Terms : assertUids[t] # 0 => assertUids'[t] = assertUids[t]

(* What is printed ends for the reason it is printed with, and holds until then. *)
LEMMA Printed ==
  ASSUME IndInv, IndInv'
  PROVE  /\ AddCumulative => \E r : Prints(r) /\ r.kind = "cumulative" /\ r \in Live'
         /\ AddQuery => \E r : Prints(r) /\ r.kind = "query" /\ r \in Live'
         /\ \A w \in Windows : AddDecay(w) => \E r : Prints(r) /\ r.kind = "decay" /\ r.until = controllerStep + w
         /\ \A t \in Terms : AddAssert(t) => \E r : Prints(r) /\ r.kind = "assert" /\ r.term = t /\ r \in Live'
         /\ \A w \in Windows : GroundVolatile(w) => \E r : Prints(r)
<1> DEFINE new(kind, until, term) == [id |-> sent + 1, kind |-> kind, until |-> until, term |-> term]
<1>1. sent \in Nat /\ guard \in [RuleIds -> Nat]
  BY OutputAssumption DEF IndInv, TypeOK
<1>2. ASSUME NEW kind, NEW until, NEW term, NEW atom, PrintRule(kind, until, term, atom)
      PROVE  /\ new(kind, until, term).id = sent + 1
             /\ sent' = sent + 1
             /\ rules' = rules \cup {new(kind, until, term)}
             /\ guard'[sent + 1] = atom
  <2>1. sent + 1 \in RuleIds /\ guard' = [guard EXCEPT ![sent + 1] = atom]
    BY <1>1, <1>2, OutputAssumption DEF PrintRule, RuleIds, IndInv, TypeOK
  <2> QED
    BY <1>1, <1>2, <2>1 DEF PrintRule
<1>3. ASSUME AddCumulative
      PROVE  \E r : Prints(r) /\ r.kind = "cumulative" /\ r \in Live'
  <2>1. PrintRule("cumulative", 0, NoTerm, 0) /\ UNCHANGED dictVars
    BY <1>3 DEF AddCumulative
  <2>2. 0 \notin facts'
    BY DEF IndInv, TypeOK
  <2> WITNESS new("cumulative", 0, NoTerm)
  <2> QED
    BY <1>2, <2>1, <2>2 DEF Prints, Live, dictVars
<1>4. ASSUME AddQuery
      PROVE  \E r : Prints(r) /\ r.kind = "query" /\ r \in Live'
  <2>1. PICK atom \in 1..nextAtom : GetQueryAtom(atom) /\ PrintRule("query", 0, NoTerm, atom)
    BY <1>4 DEF AddQuery
  <2>2. assertUids' = assertUids
    BY <1>4 DEF AddQuery
  <2>3. queryAtom' = atom /\ atom # 0 /\ (queryAtom # 0 => queryAtom' = queryAtom)
    BY <2>1 DEF GetQueryAtom
  <2>4. atom \notin facts'
    BY <2>3 DEF IndInv, SlotsOpen
  <2> WITNESS new("query", 0, NoTerm)
  <2> QED
    BY <1>2, <2>1, <2>2, <2>3, <2>4 DEF Prints, Live
<1>5. ASSUME NEW t \in Terms, AddAssert(t)
      PROVE  \E r : Prints(r) /\ r.kind = "assert" /\ r.term = t /\ r \in Live'
  <2>1. PICK atom \in 1..nextAtom : GetAssertAtom(t, atom) /\ PrintRule("assert", 0, t, atom)
    BY <1>5 DEF AddAssert
  <2>2. queryAtom' = queryAtom /\ assertUids \in [Terms -> Nat]
    BY <1>5 DEF AddAssert, IndInv, TypeOK
  <2>3. assertUids'[t] = atom /\ atom # 0 /\ \A u \in Terms : assertUids[u] # 0 => assertUids'[u] = assertUids[u]
    BY <2>1, <2>2 DEF GetAssertAtom
  <2>4. atom \notin facts'
    BY <2>3 DEF IndInv, SlotsOpen
  <2> WITNESS new("assert", 0, t)
  <2> QED
    BY <1>2, <2>1, <2>2, <2>3, <2>4 DEF Prints, Live
<1>6. ASSUME NEW w \in Windows, AddDecay(w)
      PROVE  \E r : Prints(r) /\ r.kind = "decay" /\ r.until = controllerStep + w
  <2>1. PICK atom \in 1..nextAtom : PrintRule("decay", controllerStep + w, NoTerm, atom)
    BY <1>6 DEF AddDecay
  <2>2. queryAtom' = queryAtom /\ assertUids' = assertUids
    BY <1>6 DEF AddDecay
  <2> WITNESS new("decay", controllerStep + w, NoTerm)
  <2> QED
    BY <1>2, <2>1, <2>2 DEF Prints
<1>7. ASSUME NEW w \in Windows, GroundVolatile(w)
      PROVE  \E r : Prints(r)
  <2>1. PICK atom \in 1..nextAtom : PrintRule("decay", incStep + w, NoTerm, atom)
    BY <1>7 DEF GroundVolatile
  <2>2. queryAtom' = queryAtom /\ assertUids' = assertUids
    BY <1>7 DEF GroundVolatile
  <2> WITNESS new("decay", incStep + w, NoTerm)
  <2> QED
    BY <1>2, <2>1, <2>2 DEF Prints
<1> QED
  BY <1>3, <1>4, <1>5, <1>6, <1>7
===============================================================================
