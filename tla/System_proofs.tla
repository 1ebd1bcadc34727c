---------------------------- MODULE System_proofs ----------------------------
(* Proofs about the two systems that are built around Session.                   *)
(*                                                                               *)
(* OnlineClingo, the session with its output: each of its steps is one of        *)
(* Session and one, or none, of OnlineOutput, so that the invariants of both     *)
(* carry over; and with them, each rule holds for as long as it was written for. *)
(*                                                                               *)
(* Controller, the session with the controller: with messages that arrive whole, *)
(* taking turns keeps every message and every answer in its place.  At most one  *)
(* message is under way and at most one report of a step is unread, and never    *)
(* both; the invariant follows the message through socket, stream buffer and     *)
(* parser, and says at which places of a round the server may be meanwhile.      *)
EXTENDS OnlineClingo, Controller, Session_proofs, FiniteSetTheorems

-------------------------------------------------------------------------------
(* OnlineClingo: the two halves. *)

(* The session in OnlineClingo behaves like Session. *)
LEMMA SessionStep == [ClingoNext]_clingoVars => [Next]_vars
<1> SUFFICES ASSUME [ClingoNext]_clingoVars PROVE [Next]_vars
  OBVIOUS
<1>1. CASE UNCHANGED clingoVars \/ Over
  BY <1>1 DEF clingoVars, Over
<1>2. CASE ForgetNext \/ GroundProgram \/ Settle
  BY <1>2 DEF ForgetNext, GroundProgram, Settle
<1>3. CASE ReadMessage \/ ReadNothing \/ ParseMessage
  BY <1>3 DEF ReadMessage, ReadNothing, ParseMessage, ParseStep, ParseRule, ParseRetract, ParseForget,
              ParseOther, Next, ServerNext, Parse
<1>4. CASE DecideOnStep \/ BeginStep \/ PrintPremature \/ LeavePremature
  BY <1>4 DEF DecideOnStep, BeginStep, PrintPremature, LeavePremature, Next, ServerNext
<1>5. CASE ServeRound \/ Client
  BY <1>5 DEF ServeRound, Client, Next, ServerNext
<1> QED
  BY <1>1, <1>2, <1>3, <1>4, <1>5 DEF ClingoNext, ClingoServer

(* The steps that do not call the output. *)
Aside == ServeRound \/ Client \/ ParseOther \/ ParseForget \/ LeavePremature \/ Over

(* They leave alone the steps that the output shares with the session. *)
LEMMA AsideKeeps == Aside => UNCHANGED <<incStep, controllerStep, outputVars, source, written, printed>>
<1> SUFFICES ASSUME Aside PROVE UNCHANGED <<incStep, controllerStep, outputVars, source, written, printed>>
  OBVIOUS
<1> USE DEF stepVars, Keep, historyVars
<1>1. CASE ServeRound
  BY <1>1 DEF ServeRound, ReportConflict, CheckBound, Get, AddInput, RunOne, Preprocess, Poll, FindModel,
              SolveEnd, NextRound
<1>2. CASE Client
  BY <1>2 DEF Client, ClientNext, ClientSend, ClientReceive, ClientClose, serverVars
<1>3. CASE ParseOther
  BY <1>3 DEF ParseOther, Cumulative, Volatile, VolatileWindow, Assert, SetPart, SyntaxError, EndStep,
              Stop, RunPastTheEnd
<1>4. CASE ParseForget \/ LeavePremature
  BY <1>4 DEF ParseForget, Forget, ForgetRange, LeavePremature, EndPremature
<1>5. CASE Over
  BY <1>5 DEF Over, clingoVars, vars
<1> QED
  BY <1>1, <1>2, <1>3, <1>4, <1>5 DEF Aside

(* The part, window and term of what is printed are among those the output       *)
(* knows. *)
LEMMA PrintStep ==
  ASSUME NEW e \in RuleEntry, NEW i, e.part = "assert" => e.term \in Terms, PrintEntry(e, i)
  PROVE  Output!Next
<1>1. e.window \in 0..IntMax
  BY DEF RuleEntry
<1>2. CASE e.part = "volatile" /\ e.window > 0 /\ Output!AddDecay(e.window)
  <2>1. e.window \in 1..IntMax
    BY <1>1, <1>2, SessionAssumption
  <2> QED
    BY <1>2, <2>1 DEF Output!Next, Output!Windows
<1> QED
  BY <1>2 DEF PrintEntry, Output!Next
(* What waits first is what was written next. *)
LEMMA PrematureWritten ==
  ASSUME RuleInv, stacks # <<>>
  PROVE  /\ PrematureEntry \in RuleEntry
         /\ Head(stacks) = Len(printed) + 1
         /\ Head(stacks) \in 1..Len(written)
         /\ written[Head(stacks)].part = PrematureEntry.part
         /\ written[Head(stacks)].window = PrematureEntry.window
         /\ written[Head(stacks)].term = PrematureEntry.term
         /\ written[Head(stacks)].at = PrematureEntry.at
<1>1. TypeOK /\ QueuesParallel /\ RulesAsWritten
  BY DEF RuleInv, StepInv
<1>2. PrematureEntry \in RuleEntry
  BY <1>1, TakeType
<1>3. /\ Len(stacks) \in Nat \ {0} /\ Len(volStack) = Len(stacks) /\ Len(assertStack) = Len(stacks)
      /\ Len(printed) \in Nat
  BY <1>1, EmptySeq, LenProperties DEF TypeOK, QueuesParallel
<1>4. Head(stacks) = stacks[1] /\ Head(volStack) = volStack[1] /\ Head(assertStack) = assertStack[1]
  BY <1>1, <1>3 DEF TypeOK
<1>5. 1 \in 1..Len(stacks)
  BY <1>3
<1>6. /\ stacks[1] = Len(printed) + 1
      /\ written[stacks[1]].part = volStack[1].part
      /\ written[stacks[1]].window = volStack[1].window
      /\ written[stacks[1]].term = assertStack[1]
      /\ written[stacks[1]].at = controllerStep
      /\ Len(written) = Len(printed) + Len(stacks)
  BY <1>1, <1>5 DEF RulesAsWritten
<1> QED
  BY <1>2, <1>3, <1>4, <1>6 DEF PrematureEntry, Entry

(* The output in OnlineClingo behaves like OnlineOutput. *)
LEMMA OutputStep == RuleInv /\ TermsKnown /\ [ClingoNext]_clingoVars => [Output!Next]_(Output!vars)
<1> SUFFICES ASSUME RuleInv, TermsKnown, [ClingoNext]_clingoVars PROVE [Output!Next]_(Output!vars)
  OBVIOUS
<1> DEFINE Same == UNCHANGED <<incStep, controllerStep, outputVars>>
<1>1. Same => UNCHANGED Output!vars
  BY DEF outputVars, Output!vars, Output!stepVars, Output!builderVars, Output!dictVars, Output!extVars,
         Output!ruleVars
<1>2. TypeOK /\ RulesAsWritten
  BY DEF RuleInv, StepInv
<1>3. CASE UNCHANGED clingoVars
  BY <1>1, <1>3 DEF clingoVars, vars, stepVars
<1>4. CASE Aside
  BY <1>1, <1>4, AsideKeeps
<1>5. CASE ReadMessage \/ ReadNothing
  BY <1>5 DEF ReadMessage, ReadNothing, Output!Next
<1>6. CASE ParseStep
  <2>1. CASE gotStep
    BY <1>1, <1>6, <2>1 DEF ParseStep, SetStep
  <2>2. CASE ~gotStep
    <3>1. Head(text).n \in 0..IntMax
      BY <1>2, <1>6, HeadStatement DEF ParseStep, SetStep, Reading
    <3> QED
      BY <1>6, <2>2, <3>1 DEF ParseStep, Output!Next, Output!Steps
  <2> QED
    BY <2>1, <2>2
<1>7. CASE ParseRule
  <2>1. CASE NeedsNewStep
    BY <1>1, <1>7, <2>1 DEF ParseRule, AddRule, stepVars, Keep
  <2>2. CASE ~NeedsNewStep
    <3>1. Entry(part, window, term) \in RuleEntry
      BY <1>2 DEF Entry, RuleEntry, TypeOK
    <3>2. Entry(part, window, term).part = "assert" => Entry(part, window, term).term \in Terms
      BY DEF Entry, TermsKnown
    <3> QED
      BY <1>7, <2>2, <3>1, <3>2, PrintStep DEF ParseRule
  <2> QED
    BY <2>1, <2>2
<1>8. CASE ParseRetract
  <2>1. CASE assertUids[Head(text).t] = 0
    BY <1>1, <1>8, <2>1 DEF ParseRetract, Retract, RetractTerm, stepVars
  <2>2. CASE assertUids[Head(text).t] # 0
    <3>1. Head(text) \in Statement /\ Head(text).op = "retract"
      BY <1>2, <1>8, HeadStatement DEF ParseRetract, Retract, Reading
    <3>2. Head(text).t \in Terms
      BY <3>1 DEF Statement
    <3> QED
      BY <1>8, <2>2, <3>2 DEF ParseRetract, RetractTerm, Output!Next
  <2> QED
    BY <2>1, <2>2
<1>9. CASE ForgetNext
  <2>1. CASE externalAtoms[Head(forgetting)] = {}
    BY <1>1, <1>9, <2>1 DEF ForgetNext, vars, stepVars
  <2>2. CASE externalAtoms[Head(forgetting)] # {}
    <3>1. Head(forgetting) \in 0..IntMax
      BY <1>9, HeadTailProperties DEF ForgetNext, TermsKnown
    <3> QED
      BY <1>9, <2>2, <3>1 DEF ForgetNext, Output!Next, Output!Steps
  <2> QED
    BY <2>1, <2>2
<1>10. CASE DecideOnStep \/ BeginStep
  BY <1>1, <1>10 DEF DecideOnStep, Decide, BeginStep, Output!Next, stepVars
<1>11. CASE GroundProgram
  BY <1>11, ClingoAssumption, SessionAssumption DEF GroundProgram, Output!Next, Output!Windows, Output!Steps
<1>12. CASE PrintPremature
  <2>1. CASE phase = "grounded" /\ controllerStep = step /\ stacks # <<>>
    BY <1>12, <2>1 DEF PrintPremature, Output!Next
  <2>2. CASE ~(phase = "grounded" /\ controllerStep = step /\ stacks # <<>>)
    <3>1. AddPrematureRule /\ PrintEntry(PrematureEntry, Head(stacks)) /\ stacks # <<>>
      BY <1>12, <2>2 DEF PrintPremature, AddPrematureRule
    <3>2. PrematureEntry.part = "assert" => PrematureEntry.term \in Terms
      BY <3>1, PrematureWritten DEF TermsKnown
    <3> QED
      BY <3>1, <3>2, PrematureWritten, PrintStep
  <2> QED
    BY <2>1, <2>2
<1>13. CASE Settle
  BY <1>13 DEF Settle, Output!Next
<1> HIDE DEF Same
<1> QED
  BY <1>3, <1>4, <1>5, <1>6, <1>7, <1>8, <1>9, <1>10, <1>11, <1>12, <1>13
  DEF ClingoNext, ClingoServer, ParseMessage, Aside

-------------------------------------------------------------------------------
(* How long rules hold. *)

(* OutputAssumption of the instance, for its theorems. *)
LEMMA OutputHolds == Output!OutputAssumption
  BY ClingoAssumption, SessionAssumption DEF Output!OutputAssumption

(* A rule that was right stays so while what it was written under, its message   *)
(* and the guards in use stay. *)
LEMMA OldLives ==
  ASSUME ClingoInv, Output!IndInv', [Output!Next]_(Output!vars),
         \A i \in 1..sent : source'[i] = source[i],
         \A i \in 1..Len(printed) : i \in 1..Len(printed') /\ written'[i] = written[i] /\ messageOf'[i] = messageOf[i],
         Current' = Current,
         \A i \in 1..Len(printed) : i \in retracted' <=> i \in retracted,
         queryAtom # 0 => queryAtom' = queryAtom,
         \A t \in Terms : assertUids[t] # 0 => assertUids'[t] = assertUids[t],
         NEW r \in rules
  PROVE  LiveRight(r)'
<1>1. LiveRight(r) /\ r \in rules /\ r.id \in 1..sent
  BY OutputHolds, Output!OldRules DEF Output!OldRules, ClingoInv, HoldInv, LivesRight
<1>2. source'[r.id] = source[r.id]
  BY <1>1
<1> SUFFICES ASSUME source[r.id] # 0 PROVE LiveRight(r)'
  BY <1>2 DEF LiveRight
<1>3. r.kind = "assert" => r.term \in Terms
  BY DEF ClingoInv, Output!IndInv, Output!RulesWellFormed
<1>4. /\ r.kind = "cumulative" /\ r \in Output!Live => r \in Output!Live'
      /\ r.kind = "query" => (r \in Output!Live <=> r \in Output!Live')
      /\ r.kind = "assert" => (r \in Output!Live <=> r \in Output!Live')
  BY <1>3, OutputHolds, Output!LiveKept DEF Output!LiveKept, ClingoInv
<1>5. source[r.id] \in 1..Len(printed)
  BY <1>1 DEF LiveRight
<1>6. Matches(r, written[source[r.id]]) => Matches(r, written'[source'[r.id]])
  BY <1>2, <1>5
<1> QED
  BY <1>1, <1>2, <1>4, <1>5, <1>6 DEF LiveRight

(* A step in which no rule is printed, parsed, or ended for a message or a term. *)
LEMMA QuietLives ==
  ASSUME ClingoInv, Output!IndInv', [Output!Next]_(Output!vars),
         UNCHANGED <<rules, source, printed, written, messageOf, retracted, queryAtom, assertUids>>,
         Current' = Current
  PROVE  LivesRight'
<1> SUFFICES ASSUME NEW r \in rules PROVE LiveRight(r)'
  BY DEF LivesRight
<1> QED
  BY OldLives
(* The steps that print a rule. *)
PrintSteps ==
    \/ ParseRule /\ ~NeedsNewStep
    \/ PrintPremature /\ AddPrematureRule /\ PrintEntry(PrematureEntry, Head(stacks))
    \/ GroundProgram /\ \E w \in ProgramWindows : Output!GroundVolatile(w) /\ source' = Append(source, 0)

HoldSteps == ReadMessage \/ ParseRule \/ ParseRetract \/ PrintSteps

holdVars == <<sent, rules, source, printed, written, messageOf, retracted, queryAtom, assertUids>>

(* Only these steps touch what LivesRight speaks of. *)
LEMMA HoldVarsKept ==
  ASSUME [ClingoNext]_clingoVars, ~HoldSteps
  PROVE  UNCHANGED holdVars
<1> USE DEF holdVars, KeepHistory
<1>1. CASE UNCHANGED clingoVars
  BY <1>1 DEF clingoVars, vars, historyVars, outputVars
<1>2. CASE Aside
  <2>1. UNCHANGED <<messageOf, retracted>>
    BY <1>2 DEF Aside, ServeRound, Client, ParseOther, ParseForget, LeavePremature, Over, clingoVars
  <2> QED
    BY <1>2, <2>1, AsideKeeps DEF outputVars
<1>3. CASE ReadNothing
  BY <1>3 DEF ReadNothing, NoInput, Output!ReadNothing, Output!dictVars, Output!ruleVars, historyVars
<1>4. CASE ParseStep
  <2>1. CASE gotStep
    BY <1>4, <2>1 DEF ParseStep, SetStep, historyVars, outputVars
  <2>2. CASE ~gotStep
    BY <1>4, <2>2 DEF ParseStep, SetStep, historyVars, Output!SetControllerStep, Output!dictVars, Output!ruleVars
  <2> QED
    BY <2>1, <2>2
<1>5. CASE ForgetNext
  <2>1. CASE externalAtoms[Head(forgetting)] = {}
    BY <1>5, <2>1 DEF ForgetNext, vars, historyVars, outputVars
  <2>2. CASE externalAtoms[Head(forgetting)] # {}
    BY <1>5, <2>2 DEF ForgetNext, vars, historyVars, Output!ForgetStep, Output!dictVars, Output!ruleVars
  <2> QED
    BY <2>1, <2>2
<1>6. CASE DecideOnStep
  <2>1. CASE MayStep
    BY <1>6, <2>1 DEF DecideOnStep, Decide, historyVars, outputVars
  <2>2. CASE ~MayStep
    BY <1>6, <2>2 DEF DecideOnStep, Decide, historyVars, Output!FinalizeIteration, Output!DoFinalize, Output!ruleVars
  <2> QED
    BY <2>1, <2>2
<1>7. CASE BeginStep
  BY <1>7 DEF BeginStep, GroundStep, historyVars, Output!GroundStep, Output!dictVars, Output!ruleVars
<1>8. CASE GroundProgram
  <2>1. UNCHANGED <<vars, source, messageOf, retracted>>
        /\ \/ \E e \in Externals : Output!NewSymbol(e)
           \/ \E k \in 0..IntMax : Output!ForgetStep(k)
           \/ Output!FinalizeStep
    BY <1>8 DEF GroundProgram, HoldSteps, PrintSteps
  <2> QED
    BY <2>1 DEF vars, historyVars, Output!NewSymbol, Output!ForgetStep, Output!FinalizeStep, Output!DoFinalize,
                Output!dictVars, Output!ruleVars
<1>9. CASE PrintPremature
  <2>1. Output!BeginPremature /\ UNCHANGED <<vars, source, messageOf, retracted>>
    BY <1>9 DEF PrintPremature, HoldSteps, PrintSteps
  <2> QED
    BY <2>1 DEF vars, historyVars, Output!BeginPremature, Output!dictVars, Output!ruleVars
<1>10. CASE Settle
  BY <1>10 DEF Settle, vars, historyVars, Output!SkipPremature, Output!FinalizePremature, Output!DoFinalize,
               Output!dictVars, Output!ruleVars
<1> QED
  BY <1>1, <1>2, <1>3, <1>4, <1>5, <1>6, <1>7, <1>8, <1>9, <1>10
  DEF ClingoNext, ClingoServer, ParseMessage, Aside, HoldSteps

(* A message is the current one from its first statement until the next. *)
LEMMA CurrentKept == [ClingoNext]_clingoVars /\ ~ReadMessage => Current' = Current
<1> SUFFICES ASSUME [ClingoNext]_clingoVars, ~ReadMessage PROVE Current' = Current
  OBVIOUS
<1> USE DEF Current, historyVars
<1>1. CASE UNCHANGED vars
  BY <1>1 DEF vars
<1>2. CASE UNCHANGED <<pc, parsedMessages>>
  BY <1>2
<1>3. CASE ParseOther
  BY <1>3 DEF ParseOther, Cumulative, Volatile, VolatileWindow, Assert, SetPart, SyntaxError, EndStep,
              Stop, RunPastTheEnd, Reading
<1>4. CASE ServeRound
  BY <1>4 DEF ServeRound, ReportConflict, CheckBound, Get, AddInput, RunOne, Preprocess, Poll, FindModel,
              SolveEnd, NextRound
<1>5. CASE ReadNothing \/ DecideOnStep \/ BeginStep \/ LeavePremature
  BY <1>5 DEF ReadNothing, NoInput, DecideOnStep, Decide, BeginStep, GroundStep, LeavePremature, EndPremature
<1>6. CASE ParseStep \/ ParseRule \/ ParseRetract \/ ParseForget
  BY <1>6 DEF ParseStep, SetStep, ParseRule, AddRule, ParseRetract, Retract, ParseForget, Forget, ForgetRange
<1>7. CASE PrintPremature
  BY <1>7 DEF PrintPremature, AddPrematureRule, vars
<1>8. CASE Client
  BY <1>8 DEF Client, ClientNext, ClientSend, ClientReceive, ClientClose, serverVars
<1> QED
  BY <1>1, <1>2, <1>3, <1>4, <1>5, <1>6, <1>7, <1>8
  DEF ClingoNext, ClingoServer, ParseMessage, ForgetNext, GroundProgram, Settle, Over, clingoVars
(* A rule of a message that is printed, at once or after it has waited. *)
LEMMA PrintLives ==
  ASSUME ClingoInv, Output!IndInv', NEW e \in RuleEntry, NEW i, PrintEntry(e, i),
         e.part = "assert" => e.term \in Terms,
         e.at = controllerStep,
         i = Len(printed) + 1, i \in 1..Len(printed'),
         written'[i].part = e.part, written'[i].window = e.window,
         written'[i].term = e.term, written'[i].at = e.at,
         messageOf'[i] = Current, Current' = Current, retracted' = retracted,
         \A j \in 1..Len(printed) : j \in 1..Len(printed') /\ written'[j] = written[j] /\ messageOf'[j] = messageOf[j]
  PROVE  LivesRight'
<1>1. /\ Output!IndInv /\ source \in Seq(Nat) /\ Len(source) = sent /\ retracted \subseteq 1..Len(printed)
      /\ Len(printed) \in Nat /\ sent \in Nat
  BY LenProperties DEF ClingoInv, HoldInv, Histories, RuleInv, StepInv, TypeOK
<1>2. source' = Append(source, i) /\ i \in Nat
  BY <1>1 DEF PrintEntry
<1>3. source'[sent + 1] = i /\ \A j \in 1..sent : source'[j] = source[j]
  BY <1>1, <1>2, AppendProperties
<1>4. [Output!Next]_(Output!vars)
  BY PrintStep
<1>5. \E r : /\ Output!Prints(r)
             /\ Matches(r, written'[i])
             /\ r.kind # "decay" => r \in Output!Live'
  <2>1. e.window \in 0..IntMax
    BY DEF RuleEntry
  <2>2. CASE e.part = "cumulative" /\ Output!AddCumulative
    <3>1. PICK r : Output!Prints(r) /\ r.kind = "cumulative" /\ r \in Output!Live'
      BY <1>1, <2>2, OutputHolds, Output!Printed DEF Output!Printed
    <3> QED
      BY <2>2, <3>1 DEF Matches
  <2>3. CASE e.part = "volatile" /\ e.window = 0 /\ Output!AddQuery
    <3>1. PICK r : Output!Prints(r) /\ r.kind = "query" /\ r \in Output!Live'
      BY <1>1, <2>3, OutputHolds, Output!Printed DEF Output!Printed
    <3> QED
      BY <2>3, <3>1 DEF Matches
  <2>4. CASE e.part = "volatile" /\ e.window > 0 /\ Output!AddDecay(e.window)
    <3>1. e.window \in Output!Windows
      BY <2>1, <2>4, SessionAssumption DEF Output!Windows
    <3>2. PICK r : Output!Prints(r) /\ r.kind = "decay" /\ r.until = controllerStep + e.window
      BY <1>1, <2>4, <3>1, OutputHolds, Output!Printed DEF Output!Printed
    <3> QED
      BY <2>4, <3>2 DEF Matches
  <2>5. CASE e.part = "assert" /\ Output!AddAssert(e.term)
    <3>1. PICK r : Output!Prints(r) /\ r.kind = "assert" /\ r.term = e.term /\ r \in Output!Live'
      BY <1>1, <2>5, OutputHolds, Output!Printed DEF Output!Printed
    <3> QED
      BY <2>5, <3>1 DEF Matches
  <2> QED
    BY <2>2, <2>3, <2>4, <2>5 DEF PrintEntry
<1>6. PICK new : /\ Output!Prints(new)
                 /\ Matches(new, written'[i])
                 /\ new.kind # "decay" => new \in Output!Live'
  BY <1>5
<1>7. /\ new.id = sent + 1 /\ rules' = rules \cup {new}
      /\ queryAtom # 0 => queryAtom' = queryAtom
      /\ \A t \in Terms : assertUids[t] # 0 => assertUids'[t] = assertUids[t]
  BY <1>6 DEF Output!Prints
<1>8. LiveRight(new)'
  <2>1. source'[new.id] = i /\ i \notin retracted'
    BY <1>1, <1>3, <1>7
  <2> QED
    BY <1>6, <2>1 DEF LiveRight
<1>9. \A r \in rules : LiveRight(r)'
  BY <1>3, <1>4, <1>7, OldLives
<1> QED
  BY <1>7, <1>8, <1>9 DEF LivesRight

(* A rule is parsed. *)
LEMMA ParseRuleLives == ClingoInv /\ Output!IndInv' /\ ParseRule => LivesRight'
<1> SUFFICES ASSUME ClingoInv, Output!IndInv', ParseRule PROVE LivesRight'
  OBVIOUS
<1> DEFINE e == Entry(part, window, term)
<1>1. TypeOK /\ RulesAsWritten /\ Histories /\ TermsKnown
  BY DEF ClingoInv, HoldInv, RuleInv, StepInv
<1>2. e \in RuleEntry /\ e.at = controllerStep /\ (e.part = "assert" => e.term \in Terms)
  BY <1>1 DEF Entry, RuleEntry, TypeOK, TermsKnown
<1>3. /\ written \in Seq(RuleEntry) /\ printed \in Seq(RuleEntry) /\ messageOf \in Seq(Nat)
      /\ Len(messageOf) = Len(written) /\ parsedMessages + 1 \in Nat
      /\ Len(written) \in Nat /\ Len(printed) \in Nat /\ Len(printed) <= Len(written)
  BY <1>1, LenProperties DEF TypeOK, Histories, RulesAsWritten
<1>4. pc = "parse" /\ pc' = pc /\ parsedMessages' = parsedMessages
  BY DEF ParseRule, AddRule, Reading
<1>5. Current = parsedMessages + 1 /\ Current' = Current
  BY <1>4 DEF Current
<1>6. written' = Append(written, e) /\ messageOf' = Append(messageOf, parsedMessages + 1) /\ retracted' = retracted
  BY DEF ParseRule, AddRule
<1>7. /\ \A j \in 1..Len(written) : written'[j] = written[j] /\ messageOf'[j] = messageOf[j]
      /\ written'[Len(written) + 1] = e
      /\ messageOf'[Len(written) + 1] = Current
  <2> HIDE DEF e
  <2> QED
    BY <1>2, <1>3, <1>5, <1>6, AppendProperties
<1>8. CASE NeedsNewStep
  <2>1. UNCHANGED <<outputVars, source, printed, incStep, controllerStep>>
    BY <1>8 DEF ParseRule, AddRule, Keep, stepVars
  <2>2. UNCHANGED Output!vars
    BY <2>1 DEF outputVars, Output!vars, Output!stepVars, Output!builderVars, Output!dictVars,
                Output!extVars, Output!ruleVars
  <2>3. rules' = rules /\ queryAtom' = queryAtom /\ assertUids' = assertUids
    BY <2>1 DEF outputVars
  <2> SUFFICES ASSUME NEW r \in rules PROVE LiveRight(r)'
    BY <2>3 DEF LivesRight
  <2> HIDE DEF e
  <2> QED
    BY <1>3, <1>5, <1>6, <1>7, <2>1, <2>2, <2>3, OldLives
<1>9. CASE ~NeedsNewStep
  <2>1. PrintEntry(e, Len(written) + 1) /\ printed' = Append(printed, e) /\ stacks = <<>>
    BY <1>9 DEF ParseRule, AddRule, NeedsNewStep
  <2>2. Len(written) = Len(printed)
    BY <1>1, <1>3, <2>1, EmptySeq DEF RulesAsWritten
  <2> HIDE DEF e
  <2>3. Len(printed') = Len(printed) + 1
    BY <1>2, <1>3, <2>1, AppendProperties
  <2> QED
    BY <1>2, <1>3, <1>5, <1>6, <1>7, <2>1, <2>2, <2>3, PrintLives
<1> QED
  BY <1>8, <1>9

(* A rule that has waited is printed. *)
LEMMA PrematureLives ==
  ClingoInv /\ Output!IndInv' /\ AddPrematureRule /\ PrintEntry(PrematureEntry, Head(stacks)) /\ KeepHistory => LivesRight'
<1> SUFFICES ASSUME ClingoInv, Output!IndInv', AddPrematureRule, PrintEntry(PrematureEntry, Head(stacks)), KeepHistory
             PROVE  LivesRight'
  OBVIOUS
<1>1. TypeOK /\ RulesAsWritten /\ Histories /\ TermsKnown /\ RuleInv
  BY DEF ClingoInv, HoldInv, RuleInv, StepInv
<1>2. /\ stacks # <<>> /\ printed' = Append(printed, PrematureEntry) /\ written' = written
      /\ pc' = pc /\ parsedMessages' = parsedMessages /\ messageOf' = messageOf /\ retracted' = retracted
  BY DEF AddPrematureRule, KeepHistory
<1>3. Current' = Current
  BY <1>2 DEF Current
<1>4. printed \in Seq(RuleEntry) /\ PrematureEntry \in RuleEntry /\ Len(printed) \in Nat
  BY <1>1, <1>2, PrematureWritten, LenProperties DEF TypeOK
<1>5. Len(printed') = Len(printed) + 1
  BY <1>2, <1>4, AppendProperties
<1>6. PrematureEntry.at = controllerStep /\ (PrematureEntry.part = "assert" => PrematureEntry.term \in Terms)
  BY <1>1, <1>2, PrematureWritten DEF PrematureEntry, Entry, TermsKnown
<1>7. messageOf[Head(stacks)] = Current
  BY <1>1, <1>2, <1>4, PrematureWritten DEF Histories
<1> QED
  BY <1>1, <1>2, <1>3, <1>4, <1>5, <1>6, <1>7, PrematureWritten, PrintLives
(* A volatile rule of the program may share its guard with those of messages. *)
LEMMA GroundLives ==
  ASSUME ClingoInv, Output!IndInv', GroundProgram, NEW w \in ProgramWindows, Output!GroundVolatile(w),
         source' = Append(source, 0)
  PROVE  LivesRight'
<1>1. source \in Seq(Nat) /\ Len(source) = sent /\ sent \in Nat /\ Output!IndInv
  BY LenProperties DEF ClingoInv, HoldInv, Histories
<1>2. source'[sent + 1] = 0 /\ \A j \in 1..sent : source'[j] = source[j]
  BY <1>1, AppendProperties
<1>3. UNCHANGED <<printed, written, messageOf, retracted, pc, parsedMessages>>
  BY DEF GroundProgram, KeepHistory, vars, historyVars
<1>4. w \in Output!Windows
  BY ClingoAssumption DEF Output!Windows
<1>5. PICK new : Output!Prints(new)
  BY <1>1, <1>4, OutputHolds, Output!Printed DEF Output!Printed
<1>6. [Output!Next]_(Output!vars)
  BY <1>4 DEF Output!Next
<1>7. /\ new.id = sent + 1 /\ rules' = rules \cup {new}
      /\ queryAtom # 0 => queryAtom' = queryAtom
      /\ \A t \in Terms : assertUids[t] # 0 => assertUids'[t] = assertUids[t]
  BY <1>5 DEF Output!Prints
<1>8. LiveRight(new)'
  BY <1>2, <1>7 DEF LiveRight
<1>9. \A r \in rules : LiveRight(r)'
  BY <1>2, <1>3, <1>6, <1>7, OldLives DEF Current
<1> QED
  BY <1>7, <1>8, <1>9 DEF LivesRight

(* The rules of the last message that hold until the next one end, and no others. *)
LEMMA ReadLives == ClingoInv /\ Output!IndInv' /\ ReadMessage => LivesRight'
<1> SUFFICES ASSUME ClingoInv, Output!IndInv', ReadMessage PROVE LivesRight'
  OBVIOUS
<1>1. TypeOK /\ RulesAsWritten /\ Histories /\ Output!IndInv /\ LivesRight
  BY DEF ClingoInv, HoldInv, RuleInv, StepInv
<1>2. /\ UNCHANGED <<source, printed, written, messageOf, retracted, parsedMessages>>
      /\ pc = "input" /\ pc' = "parse"
  BY DEF ReadMessage, KeepHistory, BeginParse, historyVars
<1>3. /\ UNCHANGED <<rules, guard, assertUids>>
      /\ facts' = IF queryAtom # 0 THEN facts \cup {queryAtom} ELSE facts
  BY DEF ReadMessage, Output!ReadInput, Output!DeactivateQueryAtom, Output!ruleVars
<1>4. Current = parsedMessages /\ Current' = parsedMessages + 1 /\ parsedMessages \in Nat
  BY <1>1, <1>2 DEF Current, TypeOK
<1>5. [Output!Next]_(Output!vars)
  BY DEF ReadMessage, Output!Next
<1> SUFFICES ASSUME NEW r \in rules, source[r.id] # 0 PROVE LiveRight(r)'
  BY <1>2, <1>3 DEF LivesRight, LiveRight
<1>6. LiveRight(r) /\ source[r.id] \in 1..Len(printed)
  BY <1>1 DEF LivesRight, LiveRight
<1>7. /\ r.kind = "cumulative" /\ r \in Output!Live => r \in Output!Live'
      /\ r.kind = "assert" => (r \in Output!Live <=> r \in Output!Live')
  BY <1>1, <1>3, <1>5, OutputHolds, Output!LiveKept DEF Output!LiveKept
<1>8. r.kind = "query" => r \notin Output!Live'
  <2> SUFFICES ASSUME r.kind = "query", r \in Output!Live' PROVE FALSE
    OBVIOUS
  <2>1. r \in Output!Live
    BY <1>3 DEF Output!Live
  <2>2. queryAtom # 0 /\ guard[r.id] = queryAtom
    BY <1>1, <2>1 DEF Output!IndInv, Output!LiveRulesEndable, Output!GuardedBy
  <2> QED
    BY <1>3, <2>2 DEF Output!Live
<1>9. messageOf[source[r.id]] \in Nat /\ messageOf[source[r.id]] <= parsedMessages
  <2>1. source[r.id] \in 1..Len(written)
    <3>1. Len(printed) \in Nat /\ Len(stacks) \in Nat
      BY <1>1, LenProperties DEF TypeOK
    <3> QED
      BY <1>1, <1>6, <3>1 DEF RulesAsWritten
  <2> QED
    BY <1>1, <1>4, <2>1, ElementOfSeq DEF Histories
<1> QED
  BY <1>2, <1>4, <1>6, <1>7, <1>8, <1>9 DEF LiveRight

(* The rules of a term that is retracted end, and no others. *)
LEMMA RetractLives == ClingoInv /\ Output!IndInv' /\ [Output!Next]_(Output!vars) /\ ParseRetract => LivesRight'
<1> SUFFICES ASSUME ClingoInv, Output!IndInv', [Output!Next]_(Output!vars), ParseRetract PROVE LivesRight'
  OBVIOUS
<1> DEFINE t == Head(text).t
<1>1. TypeOK /\ RulesAsWritten /\ Histories /\ Output!IndInv /\ LivesRight /\ RuleInv /\ TermsKnown
  BY DEF ClingoInv, HoldInv, RuleInv, StepInv
<1>2. /\ UNCHANGED <<source, printed, written, messageOf, pc, parsedMessages>>
      /\ retracted' = retracted \cup Asserted(t)
  BY DEF ParseRetract, Retract, historyVars
<1>3. t \in Terms
  <2>1. Head(text) \in Statement /\ Head(text).op = "retract"
    BY <1>1, HeadStatement DEF ParseRetract, Retract, Reading
  <2> QED
    BY <2>1 DEF Statement
<1> HIDE DEF t
<1>4. assertUids \in [Terms -> Nat]
  BY <1>1 DEF Output!IndInv, Output!TypeOK
<1>5. /\ UNCHANGED <<rules, guard, queryAtom>>
      /\ \A u \in Terms : u # t => assertUids'[u] = assertUids[u]
      /\ assertUids[t] # 0 => assertUids[t] \in facts'
  <2>1. CASE assertUids[t] = 0
    BY <2>1 DEF ParseRetract, RetractTerm, outputVars, t
  <2>2. CASE assertUids[t] # 0
    <3>1. Output!RetractAtom(t)
      BY <2>2 DEF ParseRetract, RetractTerm, t
    <3> QED
      BY <1>4, <2>2, <3>1 DEF Output!RetractAtom, Output!ruleVars
  <2> QED
    BY <2>1, <2>2
<1>6. Current' = Current
  BY <1>2 DEF Current
<1> SUFFICES ASSUME NEW r \in rules, source[r.id] # 0 PROVE LiveRight(r)'
  BY <1>2, <1>5 DEF LivesRight, LiveRight
<1> DEFINE i == source[r.id]
<1>7. LiveRight(r) /\ i \in 1..Len(printed) /\ printed[i] = written[i]
  BY <1>1 DEF LivesRight, LiveRight, RulesAsWritten
<1>8. r.kind = "assert" => r.term \in Terms
  BY <1>1 DEF Output!IndInv, Output!RulesWellFormed
<1>9. CASE r.kind # "assert"
  <2>1. /\ r.kind = "cumulative" /\ r \in Output!Live => r \in Output!Live'
        /\ r.kind = "query" => (r \in Output!Live <=> r \in Output!Live')
    BY <1>1, <1>5, OutputHolds, Output!LiveKept DEF Output!LiveKept
  <2> QED
    BY <1>2, <1>6, <1>7, <1>9, <2>1 DEF LiveRight
<1>10. CASE r.kind = "assert"
  <2>1. written[i].part = "assert" /\ written[i].term = r.term
    BY <1>7, <1>10 DEF LiveRight, Matches
  <2>2. i \in Asserted(t) <=> r.term = t
    BY <1>7, <2>1 DEF Asserted
  <2>3. CASE r.term = t
    <3>1. r \notin Output!Live'
      <4> SUFFICES ASSUME r \in Output!Live' PROVE FALSE
        OBVIOUS
      <4>1. r \in Output!Live
        BY <1>1, <1>5, OutputHolds, Output!OldRules DEF Output!OldRules, Output!Live
      <4>2. guard[r.id] = assertUids[t] /\ assertUids[t] # 0
        BY <1>1, <1>10, <2>3, <4>1 DEF Output!IndInv, Output!LiveRulesEndable, Output!GuardedBy
      <4> QED
        BY <1>5, <4>2 DEF Output!Live
    <3> QED
      BY <1>2, <1>7, <1>10, <2>2, <2>3, <3>1 DEF LiveRight
  <2>4. CASE r.term # t
    <3>1. r \in Output!Live <=> r \in Output!Live'
      BY <1>1, <1>5, <1>8, <1>10, <2>4, OutputHolds, Output!LiveKept DEF Output!LiveKept
    <3> QED
      BY <1>2, <1>7, <1>10, <2>2, <2>4, <3>1 DEF LiveRight
  <2> QED
    BY <2>3, <2>4
<1> QED
  BY <1>9, <1>10

(* Rules hold for as long as they are to. *)
LEMMA LivesKept == ClingoInv /\ Output!IndInv' /\ [ClingoNext]_clingoVars => LivesRight'
<1> SUFFICES ASSUME ClingoInv, Output!IndInv', [ClingoNext]_clingoVars PROVE LivesRight'
  OBVIOUS
<1>0. [Output!Next]_(Output!vars)
  BY OutputStep DEF ClingoInv, HoldInv
<1>1. CASE ~HoldSteps
  <2>1. Current' = Current /\ UNCHANGED holdVars
    BY <1>1, CurrentKept, HoldVarsKept DEF HoldSteps
  <2> QED
    BY <1>0, <2>1, QuietLives DEF holdVars
<1>2. CASE ReadMessage
  BY <1>2, ReadLives
<1>3. CASE ParseRule
  BY <1>3, ParseRuleLives
<1>4. CASE ParseRetract
  BY <1>0, <1>4, RetractLives
<1>5. CASE PrintSteps /\ ~ParseRule
  BY <1>5, PrematureLives, GroundLives DEF PrintSteps, PrintPremature
<1> QED
  BY <1>1, <1>2, <1>3, <1>4, <1>5 DEF HoldSteps
-------------------------------------------------------------------------------
(* Histories, terms and phases. *)

(* A rule that is printed has its place. *)
LEMMA PrintCounts ==
  ASSUME NEW e, NEW i, PrintEntry(e, i)
  PROVE  sent' = sent + 1 /\ source' = Append(source, i)
  BY DEF PrintEntry, Output!AddCumulative, Output!AddQuery, Output!AddDecay, Output!AddAssert, Output!PrintRule

(* There is a place for each rule that was printed and a message for each that    *)
(* was parsed. *)
LEMMA HistoriesKept == ClingoInv /\ [ClingoNext]_clingoVars => Histories'
<1> SUFFICES ASSUME ClingoInv, [ClingoNext]_clingoVars PROVE Histories'
  OBVIOUS
<1>1. TypeOK /\ RulesAsWritten /\ Histories /\ RuleInv /\ TermsKnown /\ WaitsForStep
  BY DEF ClingoInv, HoldInv, RuleInv, StepInv
<1>2. /\ Len(printed) \in Nat /\ Len(stacks) \in Nat /\ Len(written) = Len(printed) + Len(stacks)
      /\ printed \in Seq(RuleEntry) /\ written \in Seq(RuleEntry)
      /\ source \in Seq(Nat) /\ Len(source) = sent /\ messageOf \in Seq(Nat) /\ Len(messageOf) = Len(written)
      /\ parsedMessages \in Nat
  BY <1>1, LenProperties DEF TypeOK, RulesAsWritten, Histories
<1>3. CASE ~HoldSteps
  <2>1. Current' = Current /\ UNCHANGED holdVars
    BY <1>3, CurrentKept, HoldVarsKept DEF HoldSteps
  <2> QED
    BY <1>1, <2>1 DEF Histories, holdVars
<1>4. CASE ReadMessage
  <2>1. /\ UNCHANGED <<source, printed, written, messageOf, retracted, parsedMessages, sent>>
        /\ pc = "input" /\ pc' = "parse"
    BY <1>4 DEF ReadMessage, KeepHistory, BeginParse, historyVars, Output!ReadInput, Output!ruleVars
  <2>2. stacks = <<>> /\ Len(stacks) = 0
    BY <1>1, <2>1, EmptySeq DEF WaitsForStep, Waiting
  <2>3. \A i \in 1..Len(written) : messageOf[i] \in Nat
    BY <1>2, ElementOfSeq
  <2> QED
    BY <1>1, <1>2, <2>1, <2>2, <2>3 DEF Histories, Current
<1>5. CASE ParseRetract
  <2>1. /\ UNCHANGED <<source, printed, written, messageOf, pc, parsedMessages>>
        /\ retracted' = retracted \cup Asserted(Head(text).t)
    BY <1>5 DEF ParseRetract, Retract, historyVars
  <2>2. sent' = sent
    BY <1>5 DEF ParseRetract, RetractTerm, outputVars, Output!RetractAtom, Output!ruleVars
  <2> QED
    BY <1>1, <2>1, <2>2 DEF Histories, Asserted, Current
<1>6. CASE ParseRule
  <2>1. /\ pc = "parse" /\ pc' = pc /\ parsedMessages' = parsedMessages
        /\ written' = Append(written, Entry(part, window, term))
        /\ messageOf' = Append(messageOf, parsedMessages + 1) /\ retracted' = retracted
    BY <1>6 DEF ParseRule, AddRule, Reading
  <2>2. Current = parsedMessages + 1 /\ Current' = Current
    BY <2>1 DEF Current
  <2>3. Entry(part, window, term) \in RuleEntry
    BY <1>1 DEF Entry, RuleEntry, TypeOK
  <2>4. Len(written') = Len(written) + 1 /\ Len(messageOf') = Len(written) + 1 /\ messageOf' \in Seq(Nat)
    BY <1>2, <2>1, <2>3, AppendProperties
  <2>5. Len(written) \in Nat /\ messageOf'[Len(written) + 1] = Current
    <3>1. parsedMessages + 1 \in Nat /\ Len(messageOf) = Len(written) /\ messageOf \in Seq(Nat)
      BY <1>2
    <3>2. messageOf'[Len(messageOf) + 1] = parsedMessages + 1
      BY <2>1, <3>1, AppendProperties
    <3> QED
      BY <2>2, <3>1, <3>2, LenProperties
  <2>6. \A i \in 1..Len(written') :
          /\ messageOf'[i] <= Current
          /\ i > Len(printed) => messageOf'[i] = Current
    <3> SUFFICES ASSUME NEW i \in 1..Len(written')
                 PROVE  messageOf'[i] <= Current /\ (i > Len(printed) => messageOf'[i] = Current)
      OBVIOUS
    <3>1. CASE i = Len(written) + 1
      BY <1>2, <2>2, <2>5, <3>1
    <3>2. CASE i # Len(written) + 1
      <4>1. i \in 1..Len(written)
        BY <2>4, <2>5, <3>2
      <4>2. messageOf'[i] = messageOf[i]
        BY <1>2, <2>1, <4>1, AppendProperties
      <4> QED
        BY <1>1, <4>1, <4>2 DEF Histories
    <3> QED
      BY <3>1, <3>2
  <2>7. CASE NeedsNewStep
    <3>1. UNCHANGED <<sent, source, printed>>
      BY <1>6, <2>7 DEF ParseRule, AddRule, Keep, outputVars
    <3> QED
      BY <1>1, <2>1, <2>2, <2>4, <2>6, <3>1 DEF Histories
  <2>8. CASE ~NeedsNewStep
    <3>1. PrintEntry(Entry(part, window, term), Len(written) + 1) /\ printed' = Append(printed, Entry(part, window, term))
      BY <1>6, <2>8 DEF ParseRule, AddRule
    <3>2. sent' = sent + 1 /\ source' = Append(source, Len(written) + 1)
      BY <3>1, PrintCounts
    <3>3. source' \in Seq(Nat) /\ Len(source') = sent' /\ Len(printed') = Len(printed) + 1
      BY <1>2, <2>3, <3>1, <3>2, AppendProperties
    <3> QED
      BY <1>1, <1>2, <2>1, <2>2, <2>4, <2>6, <3>3 DEF Histories
  <2> QED
    BY <2>7, <2>8
<1>7. CASE PrintSteps /\ ~ParseRule
  <2>1. UNCHANGED <<written, messageOf, retracted, pc, parsedMessages>>
    BY <1>7 DEF PrintSteps, PrintPremature, AddPrematureRule, GroundProgram, KeepHistory, vars, historyVars
  <2>2. \E i \in Nat : sent' = sent + 1 /\ source' = Append(source, i)
    <3>1. CASE \E w \in ProgramWindows : Output!GroundVolatile(w) /\ source' = Append(source, 0)
      BY <3>1 DEF Output!GroundVolatile, Output!PrintRule
    <3>2. CASE AddPrematureRule /\ PrintEntry(PrematureEntry, Head(stacks))
      <4>1. Head(stacks) \in Nat
        BY <1>1, <1>2, <3>2, PrematureWritten DEF AddPrematureRule
      <4> QED
        BY <3>2, <4>1, PrintCounts
    <3> QED
      BY <1>7, <3>1, <3>2 DEF PrintSteps
  <2>3. source' \in Seq(Nat) /\ Len(source') = sent'
    BY <1>2, <2>2, AppendProperties
  <2>4. printed' = printed \/ Len(printed') = Len(printed) + 1
    <3>1. CASE GroundProgram
      BY <3>1 DEF GroundProgram, vars, historyVars
    <3>2. CASE AddPrematureRule
      BY <1>1, <1>2, <3>2, PrematureWritten, AppendProperties DEF AddPrematureRule
    <3> QED
      BY <1>7, <3>1, <3>2 DEF PrintSteps
  <2> QED
    BY <1>1, <1>2, <2>1, <2>3, <2>4 DEF Histories, Current
<1> QED
  BY <1>3, <1>4, <1>5, <1>6, <1>7 DEF HoldSteps

(* The parser is in the part #assert only with a term. *)
LEMMA PartKept ==
  TypeOK /\ [Next]_vars /\ (part = "assert" => term \in Terms) => (part' = "assert" => term' \in Terms)
<1> SUFFICES ASSUME TypeOK, [Next]_vars, part = "assert" => term \in Terms
             PROVE  part' = "assert" => term' \in Terms
  OBVIOUS
<1> USE DEF parserVars
<1>1. CASE UNCHANGED vars
  BY <1>1 DEF vars
<1>2. CASE Assert \/ Retract
  <2>1. Head(text) \in Statement /\ Head(text).op \in {"assert", "retract"}
    BY <1>2, HeadStatement DEF Assert, Retract, Reading
  <2>2. Head(text).t \in Terms
    BY <2>1 DEF Statement
  <2> QED
    BY <1>2, <2>2 DEF Assert, Retract
<1>3. CASE Parse /\ ~Assert /\ ~Retract
  BY <1>3 DEF Parse, SetStep, SetPart, Cumulative, Volatile, VolatileWindow, AddRule, Forget, ForgetRange,
              SyntaxError, EndStep, Stop, RunPastTheEnd
<1>4. CASE ServerNext /\ ~Parse
  BY <1>4 DEF ServerNext, ReportConflict, CheckBound, Get, AddInput, RunOne, BeginParse, NoInput, Decide,
              GroundStep, AddPrematureRule, EndPremature, Preprocess, Poll, FindModel, SolveEnd, NextRound
<1>5. CASE ClientNext
  BY <1>5 DEF ClientNext, ClientSend, ClientReceive, ClientClose, serverVars
<1> QED
  BY <1>1, <1>2, <1>3, <1>4, <1>5 DEF Next

(* The steps of a range are in the range of an int. *)
LEMMA RangeType ==
  ASSUME NEW from \in 0..IntMax, NEW to \in 0..IntMax
  PROVE  StepRange(from, to) \in Seq(0..IntMax)
<1>1. IntMax \in Nat /\ from \in Nat /\ to \in Nat
  BY SessionAssumption
<1>2. \A i \in 1 .. to - from + 1 : from + i - 1 \in 0..IntMax
  BY <1>1
<1>3. \E n \in Nat : 1 .. to - from + 1 = 1..n
  <2>1. CASE to >= from
    <3>1. to - from + 1 \in Nat
      BY <1>1, <2>1
    <3> QED
      BY <3>1
  <2>2. CASE to < from
    <3>1. 1 .. to - from + 1 = 1..0
      BY <1>1, <2>2
    <3> QED
      BY <3>1
  <2> QED
    BY <1>1, <2>1, <2>2
<1>4. PICK n \in Nat : 1 .. to - from + 1 = 1..n
  BY <1>3
<1>5. StepRange(from, to) = [i \in 1..n |-> from + i - 1]
  BY <1>4 DEF StepRange
<1>6. \A i \in 1..n : from + i - 1 \in 0..IntMax
  BY <1>2, <1>4
<1>7. StepRange(from, to) \in [1..n -> 0..IntMax]
  BY <1>5, <1>6
<1> QED
  BY <1>7, SeqDef

(* What is still to be forgotten are steps. *)
LEMMA ForgettingKept == TypeOK /\ TermsKnown /\ [ClingoNext]_clingoVars => forgetting' \in Seq(0..IntMax)
<1> SUFFICES ASSUME TypeOK, TermsKnown, [ClingoNext]_clingoVars PROVE forgetting' \in Seq(0..IntMax)
  OBVIOUS
<1> DEFINE Ints == 0..IntMax
<1>1. forgetting \in Seq(Ints) /\ <<>> \in Seq(Ints)
  BY DEF TermsKnown
<1>2. CASE UNCHANGED forgetting
  BY <1>1, <1>2
<1>3. CASE ForgetNext
  BY <1>1, <1>3, HeadTailProperties DEF ForgetNext
<1>4. CASE ParseForget
  <2>1. Head(text).n \in Ints /\ Head(text).m \in Ints
    BY <1>4, HeadStatement DEF ParseForget, Forget, ForgetRange, Reading
  <2>2. <<Head(text).n>> \in Seq(Ints) /\ StepRange(Head(text).n, Head(text).m) \in Seq(Ints)
    BY <2>1, RangeType
  <2> QED
    BY <1>1, <1>4, <2>2 DEF ParseForget
<1>5. CASE LeavePremature
  <2>1. forget \in Ints /\ forgetRange.from \in Ints /\ forgetRange.to \in Ints
    BY DEF TypeOK
  <2>2. <<forget>> \in Seq(Ints) /\ StepRange(forgetRange.from, forgetRange.to) \in Seq(Ints)
    BY <2>1, RangeType
  <2>3. Slots \in Seq(Ints)
    <3> HIDE DEF Ints
    <3> QED
      BY <1>1, <2>2, ConcatProperties DEF Slots
  <2> QED
    BY <1>1, <1>5, <2>3 DEF LeavePremature
<1> QED
  BY <1>2, <1>3, <1>4, <1>5
  DEF ClingoNext, ClingoServer, ReadMessage, ReadNothing, ParseMessage, ParseStep, ParseRule, ParseRetract,
      ParseOther, DecideOnStep, BeginStep, PrintPremature, ServeRound, GroundProgram, Settle, Client, Over, Keep,
      PrintEntry, clingoVars

(* Terms are known wherever they are used. *)
LEMMA TermsKept == ClingoInv /\ [ClingoNext]_clingoVars => TermsKnown'
<1> SUFFICES ASSUME ClingoInv, [ClingoNext]_clingoVars PROVE TermsKnown'
  OBVIOUS
<1>1. TypeOK /\ TermsKnown
  BY DEF ClingoInv, HoldInv, RuleInv, StepInv
<1>2. part' = "assert" => term' \in Terms
  BY <1>1, PartKept, SessionStep DEF TermsKnown
<1>3. forgetting' \in Seq(0..IntMax)
  BY <1>1, ForgettingKept
<1>4. \A i \in 1..Len(written') : written'[i].part = "assert" => written'[i].term \in Terms
  <2>1. CASE AddRule
    <3>1. written' = Append(written, Entry(part, window, term)) /\ written \in Seq(RuleEntry)
          /\ Entry(part, window, term) \in RuleEntry
      BY <1>1, <2>1 DEF AddRule, Entry, RuleEntry, TypeOK
    <3>2. Entry(part, window, term).part = "assert" => Entry(part, window, term).term \in Terms
      BY <1>1 DEF Entry, TermsKnown
    <3>3. \A i \in 1..Len(written) : written[i].part = "assert" => written[i].term \in Terms
      BY <1>1 DEF TermsKnown
    <3>4. /\ Len(written) \in Nat /\ Len(written') = Len(written) + 1
          /\ \A i \in 1..Len(written) : written'[i] = written[i]
          /\ written'[Len(written) + 1] = Entry(part, window, term)
      BY <3>1, AppendProperties, LenProperties
    <3> QED
      BY <3>2, <3>3, <3>4
  <2>2. CASE ~AddRule
    <3>1. written' = written
      BY <2>2, SessionStep, SeqVarsKept DEF QueueSteps, seqVars, AddPrematureRule
    <3> QED
      BY <1>1, <3>1 DEF TermsKnown
  <2> QED
    BY <2>1, <2>2
<1> QED
  BY <1>2, <1>3, <1>4 DEF TermsKnown

(* clasp solves what has been finalized. *)
LEMMA SettledKept == SolvedSettled /\ [ClingoNext]_clingoVars => SolvedSettled'
<1> SUFFICES ASSUME SolvedSettled, [ClingoNext]_clingoVars, pc' = "solve" PROVE phase' = "solve"
  BY DEF SolvedSettled
<1>1. CASE UNCHANGED clingoVars
  BY <1>1 DEF SolvedSettled, clingoVars, vars, outputVars
<1>2. CASE Client
  BY <1>2 DEF SolvedSettled, Client, ClientNext, ClientSend, ClientReceive, ClientClose, serverVars, Keep, outputVars
<1>3. CASE ServeRound
  BY <1>3 DEF ServeRound, Keep, outputVars
<1>4. CASE ForgetNext
  BY <1>4 DEF SolvedSettled, ForgetNext, vars, outputVars, Output!ForgetStep, Output!stepVars
<1>5. CASE GroundProgram \/ Settle
  BY <1>5 DEF SolvedSettled, GroundProgram, Settle, vars, Output!SkipPremature, Output!FinalizePremature
<1>6. CASE ReadMessage \/ ReadNothing \/ DecideOnStep \/ BeginStep \/ LeavePremature
  BY <1>6 DEF ReadMessage, BeginParse, ReadNothing, NoInput, DecideOnStep, Decide, BeginStep, GroundStep,
              LeavePremature, EndPremature
<1>7. CASE ParseMessage
  BY <1>7 DEF ParseMessage, ParseStep, ParseRule, ParseRetract, ParseForget, ParseOther, SetStep, AddRule, Retract,
              Forget, ForgetRange, Cumulative, Volatile, VolatileWindow, Assert, SetPart, SyntaxError, EndStep, Stop,
              RunPastTheEnd, Reading
<1>8. CASE PrintPremature
  BY <1>8 DEF SolvedSettled, PrintPremature, AddPrematureRule, vars, Output!BeginPremature
<1>9. CASE Over
  BY <1>9 DEF Over, clingoVars, vars
<1> QED
  BY <1>1, <1>2, <1>3, <1>4, <1>5, <1>6, <1>7, <1>8, <1>9 DEF ClingoNext, ClingoServer
-------------------------------------------------------------------------------
(* The theorems. *)

(* It holds before the first message. *)
LEMMA ClingoInitial == ClingoInit => ClingoInv
<1> SUFFICES ASSUME ClingoInit PROVE ClingoInv
  OBVIOUS
<1>1. RuleInv /\ PollInv
  BY Initial DEF ClingoInit
<1>2. Output!IndInv
  BY OutputHolds, Output!Initial DEF Output!Initial, ClingoInit
<1>3. TermsKnown /\ SolvedSettled
  BY DEF ClingoInit, Init, TermsKnown, SolvedSettled
<1>4. Histories /\ LivesRight
  BY DEF ClingoInit, Init, Output!Init, Histories, LivesRight
<1> QED
  BY <1>1, <1>2, <1>3, <1>4 DEF ClingoInv, HoldInv

(* Every step keeps it. *)
LEMMA ClingoInductive == ClingoInv /\ [ClingoNext]_clingoVars => ClingoInv'
<1> SUFFICES ASSUME ClingoInv, [ClingoNext]_clingoVars PROVE ClingoInv'
  OBVIOUS
<1>1. RuleInv' /\ PollInv'
  BY SessionStep, Inductive DEF ClingoInv
<1>2. Output!IndInv'
  BY OutputHolds, OutputStep, Output!Inductive DEF Output!Inductive, ClingoInv, HoldInv
<1>3. LivesRight'
  BY <1>2, LivesKept
<1>4. TermsKnown' /\ Histories' /\ SolvedSettled'
  BY TermsKept, HistoriesKept, SettledKept DEF ClingoInv, HoldInv
<1> QED
  BY <1>1, <1>2, <1>3, <1>4 DEF ClingoInv, HoldInv

(* The invariants of the session, of the output and of what joins them hold      *)
(* throughout read() and the solving between its calls. *)
THEOREM ClingoInvariant == ClingoSpec => []ClingoInv
<1> QED
  BY ClingoInitial, ClingoInductive, PTL DEF ClingoSpec

(* Joined with the output, the session does nothing that it may not do alone: all *)
(* that is proved of Session holds here. *)
THEOREM ImplementsSession == ClingoSpec => Spec
<1>1. ClingoInit => Init
  BY DEF ClingoInit
<1> QED
  BY <1>1, SessionStep, PTL DEF ClingoSpec, Spec

(* read(), the parser and addPrematureKnowledge call the output only in the order *)
(* that OnlineOutput assumes, and with steps, windows and terms it knows. *)
THEOREM ImplementsOutput == ClingoSpec => Output!Spec
<1>1. ClingoInit => Output!Init
  BY DEF ClingoInit
<1>2. ClingoInv /\ [ClingoNext]_clingoVars => [Output!Next]_(Output!vars)
  BY OutputStep DEF ClingoInv, HoldInv
<1> QED
  BY <1>1, <1>2, ClingoInvariant, PTL DEF ClingoSpec, Output!Spec

(* While clasp solves, a rule of a message takes part exactly if it is to hold    *)
(* (add, doAdd, retract, addPrematureKnowledge, deactivateQueryAtom and           *)
(* doFinalize together). *)
THEOREM HoldCorrect == ClingoSpec => []RulesHoldAsWritten
<1>1. ClingoInv => RulesHoldAsWritten
  <2> SUFFICES ASSUME ClingoInv, pc = "solve", NEW r \in rules, source[r.id] # 0
               PROVE  r \in Output!Live <=> Holds(source[r.id])
    BY DEF RulesHoldAsWritten
  <2> DEFINE e == written[source[r.id]]
  <2>1. LiveRight(r)
    BY DEF ClingoInv, HoldInv, LivesRight
  <2>2. r.kind = "decay" => (r \in Output!Live <=> incStep < r.until)
    <3>1. phase = "solve"
      BY DEF ClingoInv, HoldInv, SolvedSettled
    <3>2. Output!VolatileExact
      BY OutputHolds, Output!VolatileFromInvariant DEF Output!VolatileFromInvariant, ClingoInv
    <3> QED
      BY <3>1, <3>2 DEF Output!VolatileExact
  <2>3. Current = parsedMessages
    BY DEF Current
  <2>4. Matches(r, e)
    BY <2>1 DEF LiveRight
  <2>5. CASE e.part = "cumulative"
    BY <2>1, <2>4, <2>5 DEF Matches, LiveRight, Holds
  <2>6. CASE e.part = "volatile" /\ e.window = 0
    BY <2>1, <2>3, <2>4, <2>6 DEF Matches, LiveRight, Holds
  <2>7. CASE e.part = "volatile" /\ e.window > 0
    <3>1. r.kind = "decay" /\ r.until = e.at + e.window
      BY <2>4, <2>7 DEF Matches
    <3>2. Holds(source[r.id]) <=> incStep < e.at + e.window
      BY <2>7 DEF Holds
    <3> QED
      BY <2>2, <3>1, <3>2
  <2>8. CASE e.part = "assert"
    BY <2>1, <2>4, <2>8 DEF Matches, LiveRight, Holds
  <2> QED
    BY <2>4, <2>5, <2>6, <2>7, <2>8 DEF Matches
<1> QED
  BY <1>1, ClingoInvariant, PTL

(* To a controller that writes messages the server keeps what RuleLifetime        *)
(* promises (ExtVolPrinter and oClaspOutput, as the session calls them). *)
THEOREM LifetimesKept == ClingoSpec => Output!ImplementsLifetime
<1> QED
  BY OutputHolds, ImplementsOutput, Output!Refinement DEF Output!Refinement

-------------------------------------------------------------------------------
(* Controller: the invariant of the session and of taking turns. *)
SystemInv == RuleInv /\ PollInv /\ TurnInv

-------------------------------------------------------------------------------
(* Buffers and reports. *)

LEMMA CompleteMessage ==
  ASSUME NEW b, b \in Seq(Statement), Complete(b)
  PROVE  b # <<>> /\ HasMessage(b) /\ Ends(b) = {Len(b)}
<1>1. NUL.op = "nul"
  BY DEF NUL
<1>2. Len(b) \in Nat /\ Len(b) >= 2 /\ b[Len(b)] = NUL /\ b[Len(b) - 1] # NUL
  BY <1>1 DEF Complete
<1>3. \A i \in 1..Len(b) - 2 : b[i] # NUL
  BY <1>1 DEF Complete
<1>4. \A i \in 1..Len(b) : b[i] = NUL <=> i = Len(b)
  BY <1>2, <1>3
<1> QED
  BY <1>2, <1>4 DEF HasMessage, Ends

LEMMA CompleteRest ==
  ASSUME NEW b, b \in Seq(Statement), Complete(b), Head(b).op \notin {"endstep", "stop"}
  PROVE  Complete(Tail(b))
<1>1. Len(b) \in Nat /\ Len(b) >= 2 /\ b[1] = Head(b)
  BY DEF Complete
<1>2. Len(b) # 2
  BY <1>1 DEF Complete
<1>3. Len(Tail(b)) = Len(b) - 1 /\ \A i \in 1..Len(b) - 1 : Tail(b)[i] = b[i + 1]
  BY <1>1
<1> QED
  BY <1>1, <1>2, <1>3 DEF Complete

LEMMA NoEnds == Ends(<<>>) = {} /\ Cardinality(Ends(<<>>)) = 0
<1>1. Ends(<<>>) = {}
  BY DEF Ends
<1> QED
  BY <1>1, FS_EmptySet

LEMMA OneEnd ==
  ASSUME NEW b, b \in Seq(Statement), Complete(b)
  PROVE  Cardinality(Ends(b)) = 1
  BY CompleteMessage, FS_Singleton

LEMMA OutboxKept ==
  ASSUME outbox' = outbox
  PROVE  (Told' <=> Told) /\ (TellsOnce' <=> TellsOnce)
  BY DEF Told, TellsOnce

LEMMA SayOther ==
  ASSUME outbox \in Seq(Reports), NEW r, Say(r), ~StepReport(r)
  PROVE  (Told' <=> Told) /\ (TellsOnce => TellsOnce') /\ (~open => outbox' = outbox)
<1>1. CASE open
  <2>1. /\ Len(outbox') = Len(outbox) + 1 /\ Len(outbox) \in Nat
        /\ outbox'[Len(outbox) + 1] = r
        /\ \A i \in 1..Len(outbox) : outbox'[i] = outbox[i]
    BY <1>1 DEF Say
  <2>2. \A i \in 1..Len(outbox') : StepReport(outbox'[i]) <=> i \in 1..Len(outbox) /\ StepReport(outbox[i])
    BY <2>1
  <2> QED
    BY <1>1, <2>1, <2>2 DEF Told, TellsOnce
<1>2. CASE ~open
  BY <1>2, OutboxKept DEF Say
<1> QED
  BY <1>1, <1>2

LEMMA SayStep ==
  ASSUME outbox \in Seq(Reports), NEW r, Say(r), ~Told
  PROVE  TellsOnce' /\ (~open => outbox' = outbox /\ ~Told')
<1>1. CASE open
  <2>1. /\ Len(outbox') = Len(outbox) + 1 /\ Len(outbox) \in Nat
        /\ \A i \in 1..Len(outbox) : outbox'[i] = outbox[i]
    BY <1>1 DEF Say
  <2>2. \A i \in 1..Len(outbox') : StepReport(outbox'[i]) => i = Len(outbox) + 1
    BY <2>1 DEF Told
  <2> QED
    BY <1>1, <2>2 DEF TellsOnce
<1>2. CASE ~open
  BY <1>2, OutboxKept DEF Say, Told, TellsOnce
<1> QED
  BY <1>1, <1>2

LEMMA Received ==
  ASSUME outbox \in Seq(Reports), outbox # <<>>, outbox' = Tail(outbox), TellsOnce
  PROVE  TellsOnce' /\ (StepReport(Head(outbox)) => Told /\ ~Told') /\ (~StepReport(Head(outbox)) => (Told' <=> Told))
<1>1. /\ Len(outbox') = Len(outbox) - 1 /\ Len(outbox) \in Nat \ {0} /\ outbox[1] = Head(outbox)
      /\ \A i \in 1..Len(outbox) - 1 : outbox'[i] = outbox[i + 1]
  OBVIOUS
<1>2. TellsOnce'
  <2> SUFFICES ASSUME NEW i \in 1..Len(outbox'), NEW j \in 1..Len(outbox'),
                      StepReport(outbox'[i]), StepReport(outbox'[j])
               PROVE  i = j
    BY DEF TellsOnce
  <2>1. StepReport(outbox[i + 1]) /\ StepReport(outbox[j + 1]) /\ i + 1 \in 1..Len(outbox) /\ j + 1 \in 1..Len(outbox)
    BY <1>1
  <2>2. i + 1 = j + 1
    BY <2>1 DEF TellsOnce
  <2> QED
    BY <2>2
<1>3. ASSUME StepReport(Head(outbox)) PROVE Told /\ ~Told'
  <2>1. Told
    BY <1>1, <1>3 DEF Told
  <2>2. ASSUME NEW i \in 1..Len(outbox'), StepReport(outbox'[i]) PROVE FALSE
    <3>1. StepReport(outbox[i + 1]) /\ StepReport(outbox[1]) /\ i + 1 \in 1..Len(outbox) /\ 1 \in 1..Len(outbox)
      BY <1>1, <1>3, <2>2
    <3>2. i + 1 = 1
      BY <3>1 DEF TellsOnce
    <3> QED
      BY <3>2
  <2> QED
    BY <2>1, <2>2 DEF Told
<1>4. ASSUME ~StepReport(Head(outbox)) PROVE Told' <=> Told
  <2>1. ASSUME NEW i \in 1..Len(outbox), StepReport(outbox[i]) PROVE i - 1 \in 1..Len(outbox') /\ StepReport(outbox'[i - 1])
    BY <1>1, <1>4, <2>1
  <2>2. ASSUME NEW i \in 1..Len(outbox'), StepReport(outbox'[i]) PROVE i + 1 \in 1..Len(outbox) /\ StepReport(outbox[i + 1])
    BY <1>1, <2>2
  <2> QED
    BY <2>1, <2>2 DEF Told
<1> QED
  BY <1>2, <1>3, <1>4

-------------------------------------------------------------------------------
(* What the steps of the server do to the message and to the turn. *)

(* What TurnInv reads, apart from pc, the texts and the reports. *)
stillVars == <<conflict, result, stopped, model, newInput, step, op, sbuf, inbox, clientVars, parsedMessages>>

(* A statement is read that is not the end of its message. *)
ReadsOn ==
    /\ pc = "parse" /\ pc' = "parse"
    /\ text # <<>> /\ text' = Tail(text) /\ Head(text).op \notin {"endstep", "stop"}
    /\ outbox' = outbox \/ Say("warning")
    /\ UNCHANGED stillVars

LEMMA Statements == Parse => ReadsOn \/ EndStep \/ Stop \/ RunPastTheEnd
<1> SUFFICES ASSUME Parse PROVE ReadsOn \/ EndStep \/ Stop \/ RunPastTheEnd
  OBVIOUS
<1> USE DEF ReadsOn, stillVars, Reading, SetPart, solverVars, flagVars, stepVars, socketVars, historyVars
<1>1. CASE SetStep
  BY <1>1 DEF SetStep
<1>2. CASE Cumulative \/ Volatile \/ VolatileWindow \/ Assert
  BY <1>2 DEF Cumulative, Volatile, VolatileWindow, Assert
<1>3. CASE Retract \/ SyntaxError
  BY <1>3 DEF Retract, SyntaxError
<1>4. CASE AddRule
  BY <1>4 DEF AddRule
<1>5. CASE Forget \/ ForgetRange
  BY <1>5 DEF Forget, ForgetRange
<1> QED
  BY <1>1, <1>2, <1>3, <1>4, <1>5 DEF Parse

(* While nothing is under way and the connection is open, no handler can run. *)
LEMMA NothingArrives ==
  ASSUME TypeOK, Located, ~UnderWay
  PROVE  ~RunHandler
  BY DEF Located, RunHandler

LEMMA HandlerTakesAll ==
  ASSUME TypeOK, ~Fragments, Located, UnderWay, pc = "wait", RunHandler
  PROVE  sbuf' = inbox /\ inbox' = <<>> /\ newInput' /\ op' = "none"
<1>1. op = "receiving" /\ sbuf = <<>> /\ Complete(inbox) /\ inbox \in Seq(Statement)
  BY DEF Located, RunHandler, TypeOK
<1>2. /\ sbuf' = sbuf \o SubSeq(inbox, 1, Len(inbox))
      /\ inbox' = SubSeq(inbox, Len(inbox) + 1, Len(inbox))
      /\ IF HasMessage(sbuf') THEN ReadUntilHandler ELSE UNCHANGED <<op, newInput, reading>>
  BY <1>1 DEF RunHandler
<1>3. sbuf' = inbox /\ inbox' = <<>>
  BY <1>1, <1>2
<1>4. HasMessage(inbox)
  BY <1>1, CompleteMessage
<1> QED
  BY <1>2, <1>3, <1>4 DEF ReadUntilHandler, HasMessage

-------------------------------------------------------------------------------
(* The invariant. *)

LEMMA ServerKeepsTurn ==
  ASSUME RuleInv, wait, OneAtATime, Located, AsksInTurn, Searched, ~Fragments, ServerNext, UNCHANGED controllerVars
  PROVE  OneAtATime' /\ Located' /\ AsksInTurn' /\ Searched'
<1> USE DEF OneAtATime, AsksInTurn, Searched, UnderWay, Asked, StepReport, controllerVars,
            solverVars, stepVars, flagVars, socketVars, clientVars, historyVars
<1>0. /\ TypeOK /\ step = incStep
      /\ outbox \in Seq(Reports) /\ sentMessages \in Nat /\ parsedMessages \in Nat
      /\ step \in Int /\ bound \in Int
  BY DEF RuleInv, StepInv, StepsMirror, TypeOK
<1>1. CASE ReportConflict
  BY <1>0, <1>1, SayOther DEF ReportConflict, Located
<1>2. CASE CheckBound
  <2>1. CASE ~model /\ incStep >= bound
    BY <1>0, <1>2, <2>1, SayStep DEF CheckBound, Located
  <2>2. CASE ~(~model /\ incStep >= bound)
    BY <1>0, <1>2, <2>2, OutboxKept DEF CheckBound, Located
  <2> QED
    BY <2>1, <2>2
<1>3. CASE Get
  <2>1. ~HasMessage(sbuf)
    BY <1>3 DEF Get, Located, HasMessage
  <2>2. CASE reading
    BY <1>0, <1>3, <2>2, OutboxKept DEF Get, Located
  <2>3. CASE ~reading
    BY <1>0, <1>3, <2>1, <2>3, SayOther DEF Get, StartRead, Located
  <2> QED
    BY <2>2, <2>3
<1>4. CASE AddInput
  <2>1. CASE model
    BY <1>0, <1>4, <2>1, SayStep DEF AddInput, MustWait, Located
  <2>2. CASE ~model
    BY <1>0, <1>4, <2>2, OutboxKept DEF AddInput, MustWait, Located
  <2> QED
    BY <2>1, <2>2
<1>5. CASE RunOne
  <2>1. CASE RunHandler /\ pc' = "input"
    <3>1. UnderWay
      BY <1>0, <1>5, <2>1, NothingArrives DEF RunOne
    <3>2. sbuf' = inbox /\ inbox' = <<>> /\ newInput' /\ op' = "none" /\ Complete(inbox)
      BY <1>0, <1>5, <2>1, <3>1, HandlerTakesAll DEF RunOne, Located
    <3>3. Complete(sbuf)'
      BY <3>2 DEF Complete
    <3> QED
      BY <1>0, <1>5, <2>1, <3>1, <3>2, <3>3, OutboxKept DEF RunOne, Located
  <2>2. CASE ConnectionClosed /\ pc' = "failed" /\ UNCHANGED <<reading, newInput, socketVars>>
    <3>1. ~UnderWay
      BY <1>5, <2>2 DEF RunOne, ConnectionClosed, Located, Complete
    <3> QED
      BY <1>0, <1>5, <2>2, <3>1, OutboxKept DEF RunOne, ConnectionClosed, Located, Told
  <2> QED
    BY <1>5, <2>1, <2>2 DEF RunOne
<1>6. CASE BeginParse
  <2>1. UnderWay /\ Complete(sbuf) /\ text' = sbuf
    BY <1>6 DEF BeginParse, Located
  <2>2. Complete(text)'
    BY <2>1 DEF Complete
  <2> QED
    BY <1>0, <1>6, <2>1, <2>2, OutboxKept DEF BeginParse, Located
<1>7. CASE NoInput
  BY <1>0, <1>7, OutboxKept DEF NoInput, Located
<1>8. CASE Parse
  <2>1. pc = "parse"
    BY <1>8, Statements DEF ReadsOn, EndStep, Stop, RunPastTheEnd
  <2>2. UnderWay /\ Complete(text) /\ inbox = <<>> /\ sbuf = <<>> /\ text # <<>> /\ text \in Seq(Statement)
    BY <1>0, <2>1, CompleteMessage DEF Located, TypeOK
  <2>3. CASE ReadsOn
    <3>1. Complete(text)'
      BY <2>2, <2>3, CompleteRest DEF ReadsOn, Complete
    <3>2. (Told' <=> Told) /\ TellsOnce' /\ (~open => outbox' = outbox)
      BY <1>0, <2>3, SayOther, OutboxKept DEF ReadsOn
    <3> QED
      BY <1>0, <2>2, <2>3, <3>1, <3>2 DEF ReadsOn, stillVars, Located
  <2>4. CASE EndStep
    BY <1>0, <2>2, <2>4, OutboxKept DEF EndStep, Located
  <2>5. CASE Stop
    BY <1>0, <2>2, <2>5, OutboxKept DEF Stop, Located
  <2>6. CASE RunPastTheEnd
    BY <2>2, <2>6 DEF RunPastTheEnd
  <2> QED
    BY <1>8, <2>3, <2>4, <2>5, <2>6, Statements
<1>9. CASE Decide
  BY <1>0, <1>9, OutboxKept DEF Decide, Located
<1>10. CASE GroundStep
  BY <1>0, <1>10, OutboxKept DEF GroundStep, CountStep, Located
<1>11. CASE AddPrematureRule \/ EndPremature
  BY <1>0, <1>11, OutboxKept DEF AddPrematureRule, EndPremature, Located
<1>12. CASE Preprocess
  BY <1>0, <1>12, OutboxKept DEF Preprocess, Located
<1>13. CASE Poll
  <2>1. ~UnderWay
    BY <1>13 DEF Poll
  <2>2. ConnectionClosed /\ pc' = "failed" /\ UNCHANGED <<reading, newInput, socketVars, stopped, solverStopped>>
    BY <1>0, <1>13, <2>1, NothingArrives DEF Poll
  <2> QED
    BY <1>0, <1>13, <2>1, <2>2, OutboxKept DEF Poll, Located
<1>14. CASE FindModel
  BY <1>0, <1>14, SayOther DEF FindModel, Located
<1>15. CASE SolveEnd
  BY <1>0, <1>15, OutboxKept DEF SolveEnd, Located
<1>16. CASE NextRound
  BY <1>0, <1>16, OutboxKept DEF NextRound, Located
<1> QED
  BY <1>1, <1>2, <1>3, <1>4, <1>5, <1>6, <1>7, <1>8, <1>9, <1>10, <1>11, <1>12, <1>13, <1>14, <1>15, <1>16
     DEF ServerNext

LEMMA ClientKeepsTurn ==
  ASSUME RuleInv, wait, OneAtATime, Located, AsksInTurn, Searched, ControllerNext
  PROVE  wait' /\ OneAtATime' /\ Located' /\ AsksInTurn' /\ Searched'
<1> USE DEF OneAtATime, AsksInTurn, Searched, UnderWay, Asked, controllerVars, serverVars,
            solverVars, stepVars, flagVars, socketVars, clientVars, historyVars
<1>0. /\ TypeOK /\ outbox \in Seq(Reports) /\ sentMessages \in Nat /\ parsedMessages \in Nat
      /\ step \in Int /\ bound \in Int
  BY DEF RuleInv, StepInv, TypeOK
<1>c. ASSUME outbox' = <<>> PROVE ~Told' /\ TellsOnce'
  BY <1>c DEF Told, TellsOnce
<1>1. CASE ReceiveStep
  BY <1>0, <1>1, Received DEF ReceiveStep, ClientReceive, Located, Complete
<1>2. CASE ReceiveOther
  BY <1>0, <1>2, Received DEF ReceiveOther, ClientReceive, Located, Complete
<1>3. CASE Die
  BY <1>0, <1>3, <1>c DEF Die, ClientClose, Located, Complete
<1>4. CASE \E m \in Messages : SendInput(m)
  <2>1. PICK m \in Messages : SendInput(m)
    BY <1>4
  <2>2. turn = "talk" /\ ~UnderWay /\ ~Told /\ inbox = <<>> /\ sbuf = <<>> /\ ~newInput /\ op # "ready"
    BY <2>1 DEF SendInput, Located
  <2>3. pc \in {"get", "addInput", "wait"}
    BY <1>0, <2>2 DEF TypeOK, Phases, Located
  <2>4. inbox' = Append(m, NUL) /\ Complete(Append(m, NUL))
    <3>1. m \in Seq(Statement) /\ NUL \in Statement
      BY SessionAssumption DEF NUL, Statement
    <3> QED
      BY <2>1, <2>2, <3>1, ControllerAssumption DEF SendInput
  <2>5. Complete(inbox)'
    BY <2>4 DEF Complete
  <2>6. UnderWay' /\ sentMessages' = parsedMessages' + 1 /\ UNCHANGED <<pc, newInput, sbuf, op, model, step, bound, conflict, result, stopped>>
    BY <1>0, <2>1, <2>2 DEF SendInput
  <2>7. Located'
    BY <2>2, <2>3, <2>5, <2>6 DEF Located
  <2>8. ~Told' /\ TellsOnce'
    BY <2>1, <2>2, <1>c, OutboxKept DEF SendInput
  <2>9. OneAtATime'
    BY <2>1, <2>2, <2>6, <2>8 DEF SendInput
  <2>10. AsksInTurn' /\ Searched' /\ wait'
    BY <2>1, <2>2, <2>3, <2>6 DEF SendInput
  <2> QED
    BY <2>7, <2>9, <2>10
<1>5. ~(\E m \in Messages : ThreadSends(m)) /\ ~ThreadStops
  BY DEF ThreadSends, ThreadStops
<1> QED
  BY <1>1, <1>2, <1>3, <1>4, <1>5 DEF ControllerNext

(* "#stop." is sent and the socket closed in one step, which is none of Session;  *)
(* all others are. *)
LEMMA SessionSteps == [SystemNext]_allVars => [Next]_vars \/ \E m \in Messages : SendInput(m)
<1> SUFFICES ASSUME [SystemNext]_allVars PROVE [Next]_vars \/ \E m \in Messages : SendInput(m)
  OBVIOUS
<1>1. CASE UNCHANGED allVars
  BY <1>1 DEF allVars
<1>2. CASE ServerNext
  BY <1>2 DEF Next
<1>3. CASE ControllerNext
  BY <1>3 DEF ControllerNext, ReceiveStep, ReceiveOther, Die, ThreadSends, ThreadStops, Next, ClientNext
<1>4. CASE Finished \/ Silent
  BY <1>4 DEF Finished, Silent, allVars
<1> QED
  BY <1>1, <1>2, <1>3, <1>4 DEF SystemNext

LEMMA SendKeepsRules ==
  ASSUME RuleInv, PollInv, NEW m \in Messages, SendInput(m)
  PROVE  RuleInv' /\ PollInv'
<1> USE DEF SendInput, serverVars, solverVars, stepVars, flagVars, queueVars, parserVars, historyVars
<1>1. TypeOK'
  <2>1. m \in Seq(Statement) /\ NUL \in Statement
    BY SessionAssumption DEF NUL, Statement
  <2>2. inbox' \in Seq(Statement)
    BY <2>1 DEF RuleInv, StepInv, TypeOK
  <2>3. outbox' \in Seq(Reports) /\ open' \in BOOLEAN /\ sentMessages' \in 0..MaxMessages
    <3>1. /\ outbox \in Seq(Reports) /\ open \in BOOLEAN /\ sentMessages \in 0..MaxMessages
          /\ MaxMessages \in Nat
      BY SessionAssumption DEF RuleInv, StepInv, TypeOK
    <3>2. outbox' \in {outbox, <<>>} /\ open' \in {open, FALSE} /\ sentMessages' = sentMessages + 1 /\ sentMessages < MaxMessages
      OBVIOUS
    <3>3. outbox' \in Seq(Reports)
      <4>1. CASE outbox' = outbox
        BY <3>1, <4>1
      <4>2. CASE outbox' = <<>>
        BY <4>2
      <4> QED
        BY <3>2, <4>1, <4>2
    <3>4. open' \in BOOLEAN
      BY <3>1, <3>2
    <3>5. sentMessages' \in 0..MaxMessages
      BY <3>1, <3>2
    <3> QED
      BY <3>3, <3>4, <3>5
  <2> QED
    BY <2>2, <2>3 DEF RuleInv, StepInv, TypeOK
<1>2. QueuesParallel' /\ StepsMirror' /\ BoundCovers'
  BY DEF RuleInv, StepInv, QueuesParallel, StepsMirror, BoundCovers
<1>3. WaitsForStep'
  BY DEF RuleInv, StepInv, WaitsForStep, Waiting
<1>4. RulesAsWritten'
  BY DEF RuleInv, RulesAsWritten
<1>5. PollInv'
  BY DEF PollInv, OneRead
<1> QED
  BY <1>1, <1>2, <1>3, <1>4, <1>5 DEF RuleInv, StepInv

LEMMA SystemInitial == ControllerInit => SystemInv
<1> SUFFICES ASSUME ControllerInit PROVE SystemInv
  OBVIOUS
<1>1. RuleInv /\ PollInv
  BY Initial DEF ControllerInit
<1>2. TurnInv
  BY DEF ControllerInit, Init, TurnInv, OneAtATime, Located, AsksInTurn, Searched, UnderWay, Asked, Told, TellsOnce
<1> QED
  BY <1>1, <1>2 DEF SystemInv

LEMMA SystemInductive == SystemInv /\ ~Fragments /\ [SystemNext]_allVars => SystemInv'
<1> SUFFICES ASSUME SystemInv, ~Fragments, [SystemNext]_allVars PROVE SystemInv'
  OBVIOUS
<1>1. RuleInv' /\ PollInv'
  BY SessionSteps, Inductive, SendKeepsRules DEF SystemInv
<1>2. wait' = wait
  BY DEF SystemNext, ControllerNext, ReceiveStep, ReceiveOther, Die, SendInput, ThreadSends, ThreadStops,
         Finished, Silent, allVars, controllerVars
<1>3. ASSUME wait PROVE OneAtATime' /\ Located' /\ AsksInTurn' /\ Searched'
  <2>1. RuleInv /\ OneAtATime /\ Located /\ AsksInTurn /\ Searched
    BY <1>3 DEF SystemInv, TurnInv
  <2>2. CASE UNCHANGED allVars
    BY <2>1, <2>2 DEF allVars, vars, controllerVars, solverVars, stepVars, flagVars, socketVars, clientVars, historyVars,
       OneAtATime, Located, AsksInTurn, Searched, UnderWay, Asked, Told, TellsOnce, Complete
  <2> QED
    BY <1>3, <2>1, <2>2, ServerKeepsTurn, ClientKeepsTurn DEF SystemNext, Finished, Silent
<1> QED
  BY <1>1, <1>2, <1>3 DEF SystemInv, TurnInv

-------------------------------------------------------------------------------
(* The invariant of server and controller, for messages that arrive whole. *)
THEOREM SystemInvariant == ~Fragments => (SystemSpec => []SystemInv)
<1> SUFFICES ASSUME ~Fragments PROVE SystemSpec => []SystemInv
  OBVIOUS
<1>1. SystemInv /\ [SystemNext]_allVars => SystemInv'
  BY SystemInductive
<1> QED
  BY <1>1, SystemInitial, PTL DEF SystemSpec

(* Taking turns, no message is lost, and the parser never runs past the end of    *)
(* one (get, readUntilHandler, parse).                                            *)
THEOREM KeptCorrect == ~Fragments => (SystemSpec => []MessagesKept)
<1>1. SystemInv => MessagesKept
  <2> SUFFICES ASSUME SystemInv, wait
               PROVE  ParserSeesEnd /\ (~conflict /\ ~Terminal =>
                        Cardinality(Ends(inbox)) + Cardinality(Ends(sbuf))
                          + (IF pc = "parse" THEN Cardinality(Ends(text)) ELSE 0) + parsedMessages = sentMessages)
    BY DEF MessagesKept
  <2>1. /\ Located /\ AsksInTurn /\ OneAtATime
        /\ inbox \in Seq(Statement) /\ sbuf \in Seq(Statement) /\ text \in Seq(Statement)
        /\ sentMessages \in Nat /\ parsedMessages \in Nat
    BY DEF SystemInv, TurnInv, RuleInv, StepInv, TypeOK
  <2>2. CASE UnderWay
    <3>1. sentMessages = parsedMessages + 1
      BY <2>1, <2>2 DEF OneAtATime
    <3>2. \/ pc # "parse" /\ Complete(inbox) /\ sbuf = <<>>
          \/ pc # "parse" /\ inbox = <<>> /\ Complete(sbuf)
          \/ pc = "parse" /\ inbox = <<>> /\ sbuf = <<>> /\ Complete(text)
      BY <2>1, <2>2 DEF Located
    <3> QED
      BY <2>1, <3>1, <3>2, NoEnds, OneEnd DEF AsksInTurn, ParserSeesEnd
  <2>3. CASE ~UnderWay
    BY <2>1, <2>3, NoEnds DEF AsksInTurn, ParserSeesEnd, Located, UnderWay
  <2> QED
    BY <2>2, <2>3
<1> QED
  BY <1>1, SystemInvariant, PTL

(* Taking turns, the controller is told the end of a step only when all it has    *)
(* sent has been parsed.                                                          *)
THEOREM FreshCorrect == ~Fragments => (SystemSpec => []AnswersFresh)
<1>1. SystemInv => AnswersFresh
  BY DEF SystemInv, TurnInv, OneAtATime, UnderWay, AnswersFresh
<1> QED
  BY <1>1, SystemInvariant, PTL

(* Taking turns, UNSAT is told only if clasp has searched and found no model      *)
(* (read).                                                                        *)
THEOREM UnsatCorrect == ~Fragments => (SystemSpec => UnsatMeansUnsat)
<1>1. SystemInv /\ [SystemNext]_allVars =>
        (wait /\ pc = "read" /\ outbox' = Append(outbox, "unsat") => result = "unsat")
  <2> SUFFICES ASSUME SystemInv, [SystemNext]_allVars, wait, pc = "read", outbox' = Append(outbox, "unsat")
               PROVE  result = "unsat"
    OBVIOUS
  <2>1. outbox \in Seq(Reports) /\ Searched /\ "unsat" \in Reports
    BY DEF SystemInv, TurnInv, RuleInv, StepInv, TypeOK, Reports
  <2>2. Len(outbox') = Len(outbox) + 1 /\ outbox'[Len(outbox) + 1] = "unsat" /\ outbox' # outbox
    BY <2>1
  <2>3. CASE ServerNext
    <3>1. ReportConflict \/ CheckBound
      BY <2>3, Statements DEF ServerNext, Get, AddInput, RunOne, BeginParse, NoInput, Decide, GroundStep, AddPrematureRule,
         EndPremature, Preprocess, Poll, FindModel, SolveEnd, NextRound, ReadsOn, EndStep, Stop, RunPastTheEnd
    <3>2. ~ReportConflict
      <4> SUFFICES ASSUME ReportConflict PROVE FALSE
        OBVIOUS
      <4>1. outbox' = Append(outbox, "error")
        BY <2>2 DEF ReportConflict, Say
      <4> QED
        BY <2>1, <2>2, <4>1
    <3>3. CheckBound /\ ~conflict /\ ~model
      BY <2>2, <3>1, <3>2 DEF CheckBound
    <3> QED
      BY <2>1, <3>3 DEF Searched
  <2>4. CASE ControllerNext
    <3>1. Len(outbox') <= Len(outbox)
      <4>1. outbox' \in {outbox, <<>>} \/ (outbox # <<>> /\ outbox' = Tail(outbox))
        BY <2>4 DEF ControllerNext, ReceiveStep, ReceiveOther, Die, SendInput, ThreadSends, ThreadStops,
           ClientReceive, ClientClose, ClientSend
      <4> QED
        BY <2>1, <4>1
    <3> QED
      BY <2>1, <2>2, <3>1
  <2>5. CASE Finished \/ Silent \/ UNCHANGED allVars
    BY <2>2, <2>5 DEF Finished, Silent, allVars, vars
  <2> QED
    BY <2>3, <2>4, <2>5 DEF SystemNext
<1>2. SystemInv /\ [SystemNext]_allVars =>
        [wait /\ pc = "read" /\ outbox' = Append(outbox, "unsat") => result = "unsat"]_allVars
  BY <1>1
<1> QED
  BY <1>2, SystemInvariant, PTL DEF SystemSpec, UnsatMeansUnsat

===============================================================================
