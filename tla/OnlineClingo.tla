----------------------------- MODULE OnlineClingo -----------------------------
(* The session together with the output it prints to: Session and OnlineOutput   *)
(* with a common incStep and controllerStep, joined where ExternalKnowledge,     *)
(* OnlineParser and the grounding loop of read() call oClaspOutput.  A statement *)
(* of a message acts on guards at once or after it has waited, and what it does  *)
(* is seen when clasp solves: for how long each rule a controller writes holds.  *)
(*                                                                               *)
(* Every step is one of Session and, when it calls the output, one of            *)
(* OnlineOutput.  The conditions under which OnlineOutput takes a call are not   *)
(* tested by the code: a call out of order would stop this model, where nothing  *)
(* else but the end of the server does.                                          *)
EXTENDS Session

CONSTANTS
    Externals,  \* as in OnlineOutput
    MaxRules,
    ProgramWindows  \* the windows of the program's own volatile rules

ASSUME ClingoAssumption == MaxRules \in Nat /\ ProgramWindows \subseteq 1..IntMax

VARIABLES
    phase, nextAtom, frozen, facts, volUids, assertUids, queryAtom, trueAtom,
    symbolMap, newSymbols, externalAtoms, sent, rules, guard,
    forgetting, \* the steps a #forget has still to go through
    source,     \* history: for each rule printed, its place in written; 0 for the program's
    messageOf,  \* history: for each rule of written, the message it was written in
    retracted   \* history: the rules of written that were printed when their term was retracted

outputVars == <<phase, nextAtom, frozen, facts, volUids, assertUids, queryAtom, trueAtom,
                symbolMap, newSymbols, externalAtoms, sent, rules, guard>>
clingoVars == <<vars, outputVars, forgetting, source, messageOf, retracted>>

(* OnlineOutput, with its theorems for System_proofs. *)
Output == INSTANCE OnlineOutput_proofs WITH MaxStep <- IntMax, MaxWindow <- IntMax

ClingoInit ==
    /\ Init
    /\ Output!Init
    /\ forgetting = <<>>
    /\ source = <<>>
    /\ messageOf = <<>>
    /\ retracted = {}

-------------------------------------------------------------------------------
(* Statements of a message. *)

Keep == UNCHANGED <<outputVars, forgetting, source>>
KeepHistory == UNCHANGED <<messageOf, retracted>>

(* doAdd: a rule of part p is printed under its guard. *)
PrintEntry(entry, place) ==
    /\ \/ entry.part = "cumulative" /\ Output!AddCumulative
       \/ entry.part = "volatile" /\ entry.window = 0 /\ Output!AddQuery
       \/ entry.part = "volatile" /\ entry.window > 0 /\ Output!AddDecay(entry.window)
       \/ entry.part = "assert" /\ Output!AddAssert(entry.term)
    /\ source' = Append(source, place)
    /\ UNCHANGED forgetting

(* A message begins: what held for the last one ends. *)
ReadMessage ==
    /\ BeginParse
    /\ Output!ReadInput
    /\ UNCHANGED <<forgetting, source>> /\ KeepHistory

ReadNothing ==
    /\ NoInput
    /\ Output!ReadNothing
    /\ UNCHANGED <<forgetting, source>> /\ KeepHistory

ParseStep ==
    /\ SetStep
    /\ IF gotStep THEN UNCHANGED outputVars ELSE Output!SetControllerStep(Head(text).n)
    /\ UNCHANGED <<forgetting, source>> /\ KeepHistory

ParseRule ==
    /\ AddRule
    /\ messageOf' = Append(messageOf, parsedMessages + 1)
    /\ IF NeedsNewStep THEN Keep ELSE PrintEntry(Entry(part, window, term), Len(written) + 1)
    /\ UNCHANGED retracted

(* #retract ends the rules of its term that have been printed, and no others. *)
Asserted(t) == {i \in 1..Len(printed) : printed[i].part = "assert" /\ printed[i].term = t}

RetractNothing(t) == UNCHANGED outputVars    \* mutant: the fact is not given

RetractTerm(t) == IF assertUids[t] = 0 THEN UNCHANGED outputVars ELSE Output!RetractAtom(t)

ParseRetract ==
    /\ Retract
    /\ RetractTerm(Head(text).t)
    /\ retracted' = retracted \cup Asserted(Head(text).t)
    /\ UNCHANGED <<forgetting, source, messageOf>>

StepRange(from, to) == [i \in 1 .. to - from + 1 |-> from + i - 1]

ParseForget ==
    /\ \/ /\ Forget
          /\ forgetting' = IF NeedsNewStep THEN <<>> ELSE <<Head(text).n>>
       \/ /\ ForgetRange
          /\ forgetting' = IF NeedsNewStep THEN <<>> ELSE StepRange(Head(text).n, Head(text).m)
    /\ UNCHANGED <<outputVars, source>> /\ KeepHistory

(* forgetStep(), for one step after the other. *)
ForgetNext ==
    /\ forgetting # <<>>
    /\ IF externalAtoms[Head(forgetting)] = {} THEN UNCHANGED outputVars ELSE Output!ForgetStep(Head(forgetting))
    /\ forgetting' = Tail(forgetting)
    /\ UNCHANGED <<vars, source>> /\ KeepHistory

(* What only the session sees. *)
ParseOther ==
    /\ Cumulative \/ Volatile \/ VolatileWindow \/ Assert \/ SyntaxError \/ EndStep \/ Stop \/ RunPastTheEnd
    /\ Keep /\ KeepHistory

ParseMessage == ParseStep \/ ParseRule \/ ParseRetract \/ ParseForget \/ ParseOther

-------------------------------------------------------------------------------
(* Steps. *)

DecideOnStep ==
    /\ Decide
    /\ IF MayStep THEN UNCHANGED outputVars ELSE Output!FinalizeIteration
    /\ UNCHANGED <<forgetting, source>> /\ KeepHistory

BeginStep ==
    /\ phase # "ground"
    /\ GroundStep
    /\ Output!GroundStep
    /\ UNCHANGED <<forgetting, source>> /\ KeepHistory

(* The program's volatile parts, of these windows, have one rule in each step.   *)
Grounded(w) == \E r \in rules : source[r.id] = 0 /\ r.until = incStep + w

(* groundStep() prints rules of the program, declares external atoms and         *)
(* carries out its #forget.                                                      *)
GroundProgram ==
    /\ \/ /\ \E w \in ProgramWindows : ~Grounded(w) /\ Output!GroundVolatile(w)
          /\ source' = Append(source, 0)
       \/ /\ \/ \E e \in Externals : Output!NewSymbol(e)
             \/ \E k \in 0..IntMax : Output!ForgetStep(k)
             \/ (\A w \in ProgramWindows : Grounded(w)) /\ Output!FinalizeStep
          /\ UNCHANGED source
    /\ phase = "ground"
    /\ UNCHANGED <<vars, forgetting>> /\ KeepHistory

(* addPrematureKnowledge: rules, then forget_, then the range; finalize if there *)
(* were rules. *)
PrintPremature ==
    /\ phase # "ground"
    /\ IF phase = "grounded" /\ controllerStep = step /\ stacks # <<>>
       THEN Output!BeginPremature /\ UNCHANGED <<vars, forgetting, source>>
       ELSE AddPrematureRule /\ PrintEntry(PrematureEntry, Head(stacks))
    /\ KeepHistory

Slots ==
    (IF forget = 0 THEN <<>> ELSE <<forget>>) \o
    (IF forgetRange.from = 0 THEN <<>> ELSE StepRange(forgetRange.from, forgetRange.to))

LeavePremature ==
    /\ phase # "ground"
    /\ EndPremature
    /\ forgetting' = IF controllerStep = step THEN Slots ELSE <<>>
    /\ UNCHANGED <<outputVars, source>> /\ KeepHistory

Settle ==
    /\ pc \in {"read", "preprocess"}
    /\ forgetting = <<>>
    /\ Output!SkipPremature \/ Output!FinalizePremature
    /\ UNCHANGED <<vars, forgetting, source>> /\ KeepHistory

(* The rest of a round. *)
ServeRound ==
    /\ phase = "solve"
    /\ ReportConflict \/ CheckBound \/ Get \/ AddInput \/ RunOne \/ Preprocess \/ Poll \/ FindModel \/ SolveEnd \/ NextRound
    /\ Keep /\ KeepHistory

ClingoServer ==
    \/ ForgetNext
    \/ GroundProgram
    \/ Settle
    \/ /\ forgetting = <<>>
       /\ ReadMessage \/ ReadNothing \/ ParseMessage \/ DecideOnStep \/ BeginStep \/ PrintPremature
          \/ LeavePremature \/ ServeRound

Client ==
    /\ ClientNext
    /\ Keep /\ KeepHistory

(* The server has ended, or is lost. *)
Over ==
    /\ pc \in {"done", "failed", "stray"}
    /\ UNCHANGED clingoVars

ClingoNext == ClingoServer \/ Client \/ Over

ClingoSpec == ClingoInit /\ [][ClingoNext]_clingoVars
-------------------------------------------------------------------------------
(* For how long rule i of written is to hold, by what it is written under: for   *)
(* good, until the next message, for a window of steps that begins with the      *)
(* controller's, or until its term is retracted. *)
Holds(i) ==
    LET e == written[i] IN
    /\ e.part = "volatile" /\ e.window = 0 => messageOf[i] = parsedMessages
    /\ e.part = "volatile" /\ e.window > 0 => incStep < e.at + e.window
    /\ e.part = "assert" => i \notin retracted

(* While clasp solves, a rule that a controller wrote takes part exactly if it   *)
(* is to hold, however long it waited and whatever rules, of the controller or   *)
(* of the program, share its guard.  Not so for a rule that was still waiting    *)
(* when its term was retracted: #retract does not wait (onlineparser.cpp, add,   *)
(* doAdd and retract). *)
RulesHoldAsWritten ==
    pc = "solve" =>
        \A r \in rules : source[r.id] # 0 => (r \in Output!Live <=> Holds(source[r.id]))
-------------------------------------------------------------------------------
(* The inductive invariant behind this property. *)

(* The message that is being parsed, or the last one. *)
Current == IF pc \in {"parse", "stray"} THEN parsedMessages + 1 ELSE parsedMessages

TermsKnown ==
    /\ part = "assert" => term \in Terms
    /\ \A i \in 1..Len(written) : written[i].part = "assert" => written[i].term \in Terms
    /\ forgetting \in Seq(0..IntMax)

(* What waits was written in the current message. *)
Histories ==
    /\ source \in Seq(Nat)
    /\ Len(source) = sent
    /\ messageOf \in Seq(Nat)
    /\ Len(messageOf) = Len(written)
    /\ retracted \subseteq 1..Len(printed)
    /\ \A i \in 1..Len(written) :
        /\ messageOf[i] <= Current
        /\ i > Len(printed) => messageOf[i] = Current

(* Rule r ends as entry e says. *)
Matches(r, e) ==
    \/ e.part = "cumulative" /\ r.kind = "cumulative"
    \/ e.part = "volatile" /\ e.window = 0 /\ r.kind = "query"
    \/ e.part = "volatile" /\ e.window > 0 /\ r.kind = "decay" /\ r.until = e.at + e.window
    \/ e.part = "assert" /\ r.kind = "assert" /\ r.term = e.term

(* RulesHoldAsWritten for rule r, for the kinds that do not depend on steps, at  *)
(* any time. *)
LiveRight(r) ==
    source[r.id] # 0 =>
        /\ source[r.id] \in 1..Len(printed)
        /\ Matches(r, written[source[r.id]])
        /\ r.kind = "cumulative" => r \in Output!Live
        /\ r.kind = "query" => (r \in Output!Live <=> messageOf[source[r.id]] = Current)
        /\ r.kind = "assert" => (r \in Output!Live <=> source[r.id] \notin retracted)

LivesRight == \A r \in rules : LiveRight(r)

SolvedSettled == pc = "solve" => phase = "solve"

HoldInv == TermsKnown /\ Histories /\ LivesRight /\ SolvedSettled

ClingoInv == RuleInv /\ PollInv /\ Output!IndInv /\ HoldInv
===============================================================================
