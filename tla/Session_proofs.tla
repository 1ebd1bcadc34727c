----------------------------- MODULE Session_proofs -----------------------------
(* Proofs about Session: types, the two step counters, and the order of rules.    *)
(*                                                                                *)
(* The invariants are grouped by the variables they speak of, because most steps  *)
(* touch few of them: for each group, the actions that change its variables are   *)
(* treated one by one, and the others together.                                   *)
EXTENDS Session, SequenceTheorems, TLAPS

numVars == <<incStep, step, controllerStep, bound, window, forget, forgetRange, term>>
seqVars == <<stacks, volStack, assertStack, written, printed>>
netVars == <<text, sbuf, inbox, outbox>>

FlagTypes ==
    /\ pc \in Phases
    /\ rounds \in 0..MaxSteps
    /\ conflict \in BOOLEAN
    /\ result \in {"unknown", "sat", "unsat"}
    /\ stopped \in BOOLEAN
    /\ model \in BOOLEAN
    /\ reading \in BOOLEAN
    /\ newInput \in BOOLEAN
    /\ solverStopped \in BOOLEAN
    /\ part \in Parts
    /\ gotStep \in BOOLEAN
    /\ error \in BOOLEAN
    /\ op \in {"none", "receiving", "ready"}
    /\ open \in BOOLEAN
    /\ sentMessages \in 0..MaxMessages
    /\ parsedMessages \in Nat

NumTypes ==
    /\ incStep \in 0..IntMax
    /\ step \in 0..IntMax
    /\ controllerStep \in 0..IntMax
    /\ bound \in 0..IntMax
    /\ window \in 0..IntMax
    /\ forget \in 0..IntMax
    /\ forgetRange \in [from: 0..IntMax, to: 0..IntMax]
    /\ term \in Terms \cup {NoTerm}

SeqTypes ==
    /\ stacks \in Seq(Nat)
    /\ volStack \in Seq([part: Parts, window: 0..IntMax])
    /\ assertStack \in Seq(Terms \cup {NoTerm})
    /\ written \in Seq(RuleEntry)
    /\ printed \in Seq(RuleEntry)

NetTypes ==
    /\ text \in Seq(Statement)
    /\ sbuf \in Seq(Statement)
    /\ inbox \in Seq(Statement)
    /\ outbox \in Seq(Reports)

(* The four groups are all of the type invariant. *)
LEMMA TypeGroups == TypeOK <=> FlagTypes /\ NumTypes /\ SeqTypes /\ NetTypes
  BY DEF TypeOK, FlagTypes, NumTypes, SeqTypes, NetTypes

-------------------------------------------------------------------------------
(* Which steps touch what. *)

QueueSteps == AddRule \/ AddPrematureRule

(* Only AddRule and AddPrematureRule touch rules. *)
LEMMA SeqVarsKept == [Next]_vars /\ ~QueueSteps => UNCHANGED seqVars
<1> SUFFICES ASSUME [Next]_vars, ~QueueSteps PROVE UNCHANGED seqVars
  OBVIOUS
<1> USE DEF seqVars, historyVars, queueVars
<1>1. CASE UNCHANGED vars
  BY <1>1 DEF vars
<1>2. CASE Parse
  BY <1>2 DEF Parse, QueueSteps, SetStep, SetPart, Cumulative, Volatile, VolatileWindow, Assert, Retract,
              Forget, ForgetRange, SyntaxError, EndStep, Stop, RunPastTheEnd
<1>3. CASE ServerNext /\ ~Parse
  BY <1>3 DEF ServerNext, QueueSteps, ReportConflict, CheckBound, Get, AddInput, RunOne, BeginParse,
              NoInput, Decide, GroundStep, EndPremature, Preprocess, Poll, FindModel, SolveEnd, NextRound
<1>4. CASE ClientNext
  BY <1>4 DEF ClientNext, ClientSend, ClientReceive, ClientClose, serverVars
<1> QED
  BY <1>1, <1>2, <1>3, <1>4 DEF Next

NumSteps == SetStep \/ VolatileWindow \/ Assert \/ Retract \/ Forget \/ ForgetRange \/ BeginParse
              \/ GroundStep \/ EndPremature

(* The steps that touch numbers. *)
LEMMA NumVarsKept == [Next]_vars /\ ~NumSteps => UNCHANGED numVars
<1> SUFFICES ASSUME [Next]_vars, ~NumSteps PROVE UNCHANGED numVars
  OBVIOUS
<1> USE DEF numVars, stepVars, queueVars, parserVars
<1>1. CASE UNCHANGED vars
  BY <1>1 DEF vars
<1>2. CASE Parse
  BY <1>2 DEF Parse, NumSteps, SetPart, Cumulative, Volatile, AddRule, SyntaxError, EndStep, Stop,
              RunPastTheEnd
<1>3. CASE ServerNext /\ ~Parse
  BY <1>3 DEF ServerNext, NumSteps, ReportConflict, CheckBound, Get, AddInput, RunOne,
              NoInput, Decide, AddPrematureRule, Preprocess, Poll, FindModel, SolveEnd, NextRound
<1>4. CASE ClientNext
  BY <1>4 DEF ClientNext, ClientSend, ClientReceive, ClientClose, serverVars
<1> QED
  BY <1>1, <1>2, <1>3, <1>4 DEF Next

-------------------------------------------------------------------------------
(* Types. *)

(* The next statement has the fields of a statement. *)
LEMMA HeadStatement ==
  ASSUME TypeOK, text # <<>>
  PROVE  /\ Head(text) \in Statement
         /\ Head(text).n \in 0..IntMax
         /\ Head(text).m \in 0..IntMax
         /\ Head(text).t \in Terms \cup {NoTerm}
         /\ Tail(text) \in Seq(Statement)
<1>1. Head(text) \in Statement /\ Tail(text) \in Seq(Statement)
  BY HeadTailProperties DEF TypeOK
<1> QED
  BY <1>1 DEF Statement

(* setBound never leaves the range of an int. *)
LEMMA BoundForType ==
  ASSUME NEW n \in 0..IntMax, NEW m \in 0..IntMax
  PROVE  BoundFor(n, m) \in 0..IntMax /\ n <= BoundFor(n, m)
  BY SessionAssumption DEF BoundFor

(* The numbers stay in the range of an int: a step is only counted below the     *)
(* bound, and the bound saturates. *)
LEMMA NumTypesKept == StepInv /\ [Next]_vars => NumTypes'
<1> SUFFICES ASSUME StepInv, [Next]_vars PROVE NumTypes'
  OBVIOUS
<1> USE DEF NumTypes
<1>1. TypeOK /\ NumTypes /\ 0 \in 0..IntMax /\ IntMax \in Nat
  BY TypeGroups, SessionAssumption DEF StepInv
<1>2. CASE ~NumSteps
  BY <1>1, <1>2, NumVarsKept DEF numVars
<1>3. CASE SetStep
  <2>1. CASE gotStep
    BY <1>1, <1>3, <2>1 DEF SetStep, queueVars
  <2>2. CASE ~gotStep
    <3>1. controllerStep' \in 0..IntMax /\ bound' \in 0..IntMax
      BY <1>1, <1>3, <2>2, HeadStatement, BoundForType DEF SetStep, Reading
    <3> QED
      BY <1>1, <1>3, <3>1 DEF SetStep, queueVars
  <2> QED
    BY <2>1, <2>2
<1>4. CASE VolatileWindow \/ Assert \/ Retract
  <2>1. text # <<>> /\ Head(text).n \in 0..IntMax /\ Head(text).t \in Terms \cup {NoTerm}
    BY <1>1, <1>4, HeadStatement DEF VolatileWindow, Assert, Retract, Reading
  <2>2. UNCHANGED <<stepVars, queueVars>> /\ window' \in {window, Head(text).n}
        /\ term' \in {term, Head(text).t}
    BY <1>4 DEF VolatileWindow, Assert, Retract, SetPart
  <2> QED
    BY <1>1, <2>1, <2>2 DEF stepVars, queueVars
<1>7. CASE Forget \/ ForgetRange
  <2>1. text # <<>> /\ Head(text).n \in 0..IntMax /\ Head(text).m \in 0..IntMax
    BY <1>1, <1>7, HeadStatement DEF Forget, ForgetRange, Reading
  <2>2. UNCHANGED <<stepVars, parserVars>> /\ forget' \in {forget, Head(text).n}
        /\ forgetRange' \in {forgetRange, [from |-> Head(text).n, to |-> Head(text).m]}
    BY <1>7 DEF Forget, ForgetRange
  <2> QED
    BY <1>1, <2>1, <2>2 DEF stepVars, parserVars
<1>5. CASE BeginParse \/ EndPremature
  BY <1>1, <1>5 DEF BeginParse, EndPremature, stepVars, queueVars, parserVars
<1>6. CASE GroundStep
  <2>1. incStep < bound /\ step = incStep
    BY <1>6 DEF GroundStep, StepInv, BoundCovers, StepsMirror
  <2>2. incStep' \in 0..IntMax /\ step' \in 0..IntMax
    BY <1>1, <1>6, <2>1 DEF GroundStep, CountStep
  <2> QED
    BY <1>1, <1>6, <2>2 DEF GroundStep, queueVars, parserVars
<1> QED
  BY <1>2, <1>3, <1>4, <1>5, <1>6, <1>7 DEF NumSteps

(* What a rule that is parsed does to the queue. *)
LEMMA SaveType ==
  ASSUME TypeOK, SavePremature
  PROVE  /\ stacks' \in Seq(Nat)
         /\ volStack' \in Seq([part: Parts, window: 0..IntMax])
         /\ assertStack' \in Seq(Terms \cup {NoTerm})
         /\ Len(stacks') = Len(stacks) + 1
         /\ Len(volStack') = Len(volStack) + 1
         /\ Len(assertStack') = Len(assertStack) + 1
<1> DEFINE PartWindow == [part: Parts, window: 0..IntMax]
<1>1. stacks \in Seq(Nat) /\ Len(written) + 1 \in Nat
  BY LenProperties DEF TypeOK
<1>2. stacks' \in Seq(Nat) /\ Len(stacks') = Len(stacks) + 1
  BY <1>1, AppendProperties DEF SavePremature
<1>3. volStack \in Seq(PartWindow) /\ [part |-> part, window |-> window] \in PartWindow
  BY DEF TypeOK
<1>4. volStack' = Append(volStack, [part |-> part, window |-> window])
  BY DEF SavePremature
<1>5. volStack' \in Seq(PartWindow) /\ Len(volStack') = Len(volStack) + 1
  <2> HIDE DEF PartWindow
  <2> QED
    BY <1>3, <1>4, AppendProperties
<1>6. assertStack \in Seq(Terms \cup {NoTerm}) /\ term \in Terms \cup {NoTerm}
  BY DEF TypeOK
<1>7. assertStack' \in Seq(Terms \cup {NoTerm}) /\ Len(assertStack') = Len(assertStack) + 1
  BY <1>6, AppendProperties DEF SavePremature
<1> QED
  BY <1>2, <1>5, <1>7

(* What is taken from the queue. *)
LEMMA TakeType ==
  ASSUME TypeOK, QueuesParallel, stacks # <<>>
  PROVE  /\ PrematureEntry \in RuleEntry
         /\ Tail(stacks) \in Seq(Nat)
         /\ Tail(volStack) \in Seq([part: Parts, window: 0..IntMax])
         /\ Tail(assertStack) \in Seq(Terms \cup {NoTerm})
         /\ Len(Tail(stacks)) = Len(stacks) - 1
         /\ Len(Tail(volStack)) = Len(stacks) - 1
         /\ Len(Tail(assertStack)) = Len(stacks) - 1
<1> DEFINE PartWindow == [part: Parts, window: 0..IntMax]
<1>1. stacks \in Seq(Nat) /\ volStack \in Seq(PartWindow) /\ assertStack \in Seq(Terms \cup {NoTerm})
  BY DEF TypeOK
<1>2. Len(stacks) # 0 /\ Len(volStack) = Len(stacks) /\ Len(assertStack) = Len(stacks)
  BY <1>1, EmptySeq DEF QueuesParallel
<1>3. Tail(stacks) \in Seq(Nat) /\ Len(Tail(stacks)) = Len(stacks) - 1
  BY <1>1, HeadTailProperties
<1>4. volStack # <<>> /\ assertStack # <<>>
  BY <1>2, EmptySeq
<1>5. /\ Head(volStack) \in PartWindow
      /\ Tail(volStack) \in Seq(PartWindow)
      /\ Len(Tail(volStack)) = Len(volStack) - 1
  <2> HIDE DEF PartWindow
  <2> QED
    BY <1>1, <1>4, HeadTailProperties
<1>6. /\ Head(assertStack) \in Terms \cup {NoTerm}
      /\ Tail(assertStack) \in Seq(Terms \cup {NoTerm})
      /\ Len(Tail(assertStack)) = Len(assertStack) - 1
  BY <1>1, <1>4, HeadTailProperties
<1>7. PrematureEntry \in RuleEntry
  BY <1>5, <1>6 DEF PrematureEntry, Entry, RuleEntry, TypeOK
<1> QED
  BY <1>2, <1>3, <1>5, <1>6, <1>7

(* Rules are queued and printed whole. *)
LEMMA SeqTypesKept == StepInv /\ [Next]_vars => SeqTypes' /\ QueuesParallel'
<1> SUFFICES ASSUME StepInv, [Next]_vars PROVE SeqTypes' /\ QueuesParallel'
  OBVIOUS
<1>1. TypeOK /\ SeqTypes /\ QueuesParallel
  BY TypeGroups DEF StepInv
<1>2. CASE ~QueueSteps
  BY <1>1, <1>2, SeqVarsKept DEF seqVars, SeqTypes, QueuesParallel
<1>3. CASE AddRule
  <2>1. Entry(part, window, term) \in RuleEntry /\ written \in Seq(RuleEntry) /\ printed \in Seq(RuleEntry)
    BY <1>1 DEF Entry, RuleEntry, TypeOK
  <2>2. written' \in Seq(RuleEntry)
    <3>1. written' = Append(written, Entry(part, window, term))
      BY <1>3 DEF AddRule
    <3> QED
      BY <2>1, <3>1, AppendProperties
  <2>3. CASE NeedsNewStep
    <3>1. SavePremature /\ printed' = printed
      BY <1>3, <2>3 DEF AddRule
    <3> QED
      BY <1>1, <2>2, <3>1, SaveType DEF SeqTypes, QueuesParallel
  <2>4. CASE ~NeedsNewStep
    <3>1. printed' = Append(printed, Entry(part, window, term)) /\ UNCHANGED <<stacks, volStack, assertStack>>
      BY <1>3, <2>4 DEF AddRule
    <3>2. printed' \in Seq(RuleEntry)
      BY <2>1, <3>1, AppendProperties
    <3> QED
      BY <1>1, <2>2, <3>1, <3>2 DEF SeqTypes, QueuesParallel
  <2> QED
    BY <2>3, <2>4
<1>4. CASE AddPrematureRule
  <2>1. /\ stacks # <<>> /\ printed' = Append(printed, PrematureEntry) /\ written' = written
        /\ stacks' = Tail(stacks) /\ volStack' = Tail(volStack) /\ assertStack' = Tail(assertStack)
    BY <1>4 DEF AddPrematureRule
  <2>2. printed \in Seq(RuleEntry) /\ PrematureEntry \in RuleEntry
    BY <1>1, <2>1, TakeType DEF TypeOK
  <2>3. printed' \in Seq(RuleEntry)
    BY <2>1, <2>2, AppendProperties
  <2> QED
    BY <1>1, <2>1, <2>3, TakeType DEF SeqTypes, QueuesParallel
<1> QED
  BY <1>2, <1>3, <1>4 DEF QueueSteps

(* A report leaves the socket a sequence of reports. *)
LEMMA SayType ==
  ASSUME TypeOK, NEW r \in Reports, Say(r)
  PROVE  outbox' \in Seq(Reports)
<1>1. outbox \in Seq(Reports)
  BY DEF TypeOK
<1>2. outbox' \in {outbox, Append(outbox, r)}
  BY DEF Say
<1> QED
  BY <1>1, <1>2, AppendProperties

(* A handler moves statements from the network to the stream buffer. *)
LEMMA HandlerType ==
  ASSUME TypeOK, RunHandler
  PROVE  /\ sbuf' \in Seq(Statement)
         /\ inbox' \in Seq(Statement)
         /\ op' \in {"none", "receiving", "ready"}
         /\ newInput' \in BOOLEAN
         /\ reading' \in BOOLEAN
<1>1. /\ sbuf \in Seq(Statement) /\ inbox \in Seq(Statement) /\ op \in {"none", "receiving", "ready"}
      /\ newInput \in BOOLEAN /\ reading \in BOOLEAN
  BY DEF TypeOK
<1>2. op' \in {"none", "receiving", "ready"} /\ newInput' \in BOOLEAN /\ reading' \in BOOLEAN
  BY <1>1 DEF RunHandler, ReadUntilHandler
<1>3. CASE UNCHANGED <<sbuf, inbox>>
  BY <1>1, <1>2, <1>3
<1>4. CASE ~UNCHANGED <<sbuf, inbox>>
  <2>1. PICK k \in 1..Len(inbox) :
          /\ sbuf' = sbuf \o SubSeq(inbox, 1, k)
          /\ inbox' = SubSeq(inbox, k + 1, Len(inbox))
    BY <1>4 DEF RunHandler
  <2>2. Len(inbox) \in Nat
    BY <1>1, LenProperties
  <2>3. SubSeq(inbox, 1, k) \in Seq(Statement) /\ SubSeq(inbox, k + 1, Len(inbox)) \in Seq(Statement)
    <3> HIDE DEF Statement
    <3>1. \A i \in 1..Len(inbox) : inbox[i] \in Statement
      BY <1>1, ElementOfSeq
    <3> QED
      BY <1>1, <2>1, <2>2, <3>1, SubSeqProperties
  <2> QED
    BY <1>1, <1>2, <2>1, <2>3, ConcatProperties
<1> QED
  BY <1>3, <1>4

(* What is on the wire, in the buffer and in the lexer are statements, and what   *)
(* goes back are reports. *)
LEMMA NetTypesKept == StepInv /\ [Next]_vars => NetTypes'
<1> SUFFICES ASSUME StepInv, [Next]_vars PROVE NetTypes'
  OBVIOUS
<1>1. TypeOK /\ NetTypes
  BY TypeGroups DEF StepInv
<1> USE DEF NetTypes
<1>2. CASE UNCHANGED vars
  BY <1>1, <1>2 DEF vars, socketVars
<1>3. CASE Parse
  <2>1. UNCHANGED <<sbuf, inbox>>
    BY <1>3 DEF Parse, SetStep, SetPart, Cumulative, Volatile, VolatileWindow, Assert, Retract, AddRule,
                Forget, ForgetRange, SyntaxError, EndStep, Stop, RunPastTheEnd, socketVars
  <2>2. outbox' \in Seq(Reports)
    <3>1. CASE SetStep
      <4>1. UNCHANGED outbox \/ Say("warning")
        BY <3>1 DEF SetStep
      <4> QED
        BY <1>1, <4>1, SayType DEF Reports
    <3>2. CASE ~SetStep
      <4>1. UNCHANGED outbox
        BY <1>3, <3>2 DEF Parse, SetPart, Cumulative, Volatile, VolatileWindow, Assert, Retract, AddRule,
                    Forget, ForgetRange, SyntaxError, EndStep, Stop, RunPastTheEnd
      <4> QED
        BY <1>1, <4>1
    <3> QED
      BY <3>1, <3>2
  <2>3. text' \in Seq(Statement)
    <3>1. (text # <<>> /\ text' = Tail(text)) \/ text' = <<>> \/ text' = text
      BY <1>3 DEF Parse, Reading, SetStep, SetPart, Cumulative, Volatile, VolatileWindow, Assert, Retract,
                  AddRule, Forget, ForgetRange, SyntaxError, EndStep, Stop, RunPastTheEnd
    <3>2. <<>> \in Seq(Statement)
      OBVIOUS
    <3> QED
      BY <1>1, <3>1, <3>2, HeadStatement
  <2> QED
    BY <1>1, <2>1, <2>2, <2>3
<1>4. CASE RunOne \/ Poll
  <2>1. UNCHANGED <<text, outbox>> /\ (RunHandler \/ UNCHANGED <<sbuf, inbox>>)
    BY <1>4 DEF RunOne, Poll, socketVars
  <2> QED
    BY <1>1, <2>1, HandlerType
<1>5. CASE ReportConflict \/ CheckBound \/ Get \/ AddInput \/ FindModel
  <2>1. UNCHANGED <<text, sbuf, inbox>>
    BY <1>5 DEF ReportConflict, CheckBound, Get, AddInput, FindModel, socketVars
  <2>2. UNCHANGED outbox \/ \E r \in Reports : Say(r)
    BY <1>5 DEF ReportConflict, CheckBound, Get, AddInput, FindModel, Reports
  <2> QED
    BY <1>1, <2>1, <2>2, SayType
<1>6. CASE BeginParse
  BY <1>1, <1>6 DEF BeginParse
<1>7. CASE NoInput \/ Decide \/ GroundStep \/ AddPrematureRule \/ EndPremature \/ Preprocess \/ SolveEnd
             \/ NextRound
  BY <1>1, <1>7 DEF NoInput, Decide, GroundStep, AddPrematureRule, EndPremature, Preprocess, SolveEnd,
                    NextRound, socketVars
<1>8. CASE ClientNext
  <2>1. UNCHANGED <<text, sbuf>>
    BY <1>8 DEF ClientNext, ClientSend, ClientReceive, ClientClose, serverVars
  <2>2. inbox' \in Seq(Statement)
    <3>1. CASE \E m \in Messages : ClientSend(m)
      <4>1. PICK m \in Messages : ClientSend(m)
        BY <3>1
      <4>2. m \in Seq(Statement)
        BY SessionAssumption
      <4>5. NUL \in Statement
        <5>1. 0 \in 0..IntMax
          BY SessionAssumption
        <5> QED
          BY <5>1 DEF NUL, Statement
      <4>3. Append(m, NUL) \in Seq(Statement)
        BY <4>2, <4>5, AppendProperties
      <4>4. inbox' = inbox \o Append(m, NUL)
        BY <4>1 DEF ClientSend
      <4> QED
        BY <1>1, <4>3, <4>4, ConcatProperties
    <3>2. CASE UNCHANGED inbox
      BY <1>1, <3>2
    <3> QED
      BY <1>8, <3>1, <3>2 DEF ClientNext, ClientReceive, ClientClose
  <2>3. outbox' \in Seq(Reports)
    <3>1. outbox' = outbox \/ outbox' = <<>> \/ (outbox # <<>> /\ outbox' = Tail(outbox))
      BY <1>8 DEF ClientNext, ClientSend, ClientReceive, ClientClose
    <3>2. outbox # <<>> => Tail(outbox) \in Seq(Reports)
      BY <1>1, HeadTailProperties
    <3>3. <<>> \in Seq(Reports)
      OBVIOUS
    <3> QED
      BY <1>1, <3>1, <3>2, <3>3
  <2> QED
    BY <1>1, <2>1, <2>2, <2>3
<1> QED
  BY <1>2, <1>3, <1>4, <1>5, <1>6, <1>7, <1>8 DEF Next, ServerNext

(* The control of the server, its flags and the counters of messages keep their  *)
(* types. *)
LEMMA FlagTypesKept == StepInv /\ [Next]_vars => FlagTypes'
<1> SUFFICES ASSUME StepInv, [Next]_vars PROVE FlagTypes'
  OBVIOUS
<1>1. TypeOK /\ FlagTypes
  BY TypeGroups DEF StepInv
<1> USE DEF FlagTypes, solverVars, flagVars, socketVars, clientVars, historyVars, parserVars
<1>2. CASE UNCHANGED vars
  BY <1>1, <1>2 DEF vars
<1>3. CASE Parse
  <2>1. /\ pc' \in Phases
        /\ part' \in Parts
        /\ gotStep' \in BOOLEAN
        /\ error' \in BOOLEAN
        /\ parsedMessages' \in {parsedMessages, parsedMessages + 1}
    BY <1>1, <1>3 DEF Parse, SetStep, SetPart, Cumulative, Volatile, VolatileWindow, Assert, Retract,
                AddRule, Forget, ForgetRange, SyntaxError, EndStep, Stop, RunPastTheEnd, Phases, Parts
  <2>2. UNCHANGED <<solverVars, flagVars, op, clientVars>>
    BY <1>3 DEF Parse, SetStep, SetPart, Cumulative, Volatile, VolatileWindow, Assert, Retract,
                AddRule, Forget, ForgetRange, SyntaxError, EndStep, Stop, RunPastTheEnd
  <2> QED
    BY <1>1, <2>1, <2>2
<1>4. CASE RunOne \/ Poll
  <2>1. RunHandler \/ UNCHANGED <<reading, newInput, op>>
    BY <1>4 DEF RunOne, Poll
  <2>2. op' \in {"none", "receiving", "ready"} /\ newInput' \in BOOLEAN /\ reading' \in BOOLEAN
    BY <1>1, <2>1, HandlerType
  <2> QED
    BY <1>1, <1>4, <2>2 DEF RunOne, Poll, Phases
<1>5. CASE ReportConflict \/ CheckBound \/ AddInput \/ EndPremature \/ NoInput
  <2>1. UNCHANGED <<solverVars, flagVars, parserVars, op, clientVars, parsedMessages>>
    BY <1>5 DEF ReportConflict, CheckBound, AddInput, EndPremature, NoInput
  <2>2. pc' \in Phases
    BY <1>5 DEF ReportConflict, CheckBound, AddInput, EndPremature, NoInput, Phases
  <2> QED
    BY <1>1, <2>1, <2>2
<1>6. CASE Get
  <2>1. reading' \in BOOLEAN /\ op' \in {"none", "receiving", "ready"}
    BY <1>1, <1>6 DEF Get, StartRead
  <2> QED
    BY <1>1, <1>6, <2>1 DEF Get, Phases
<1>7. CASE FindModel
  BY <1>1, <1>7 DEF FindModel
<1>10. CASE BeginParse
  BY <1>1, <1>10 DEF BeginParse, Phases, Parts
<1>11. CASE Decide \/ GroundStep
  <2>1. UNCHANGED <<solverVars, reading, newInput, solverStopped, parserVars, op, clientVars, parsedMessages>>
    BY <1>11 DEF Decide, GroundStep
  <2>2. pc' \in Phases /\ model' \in BOOLEAN
    BY <1>1, <1>11 DEF Decide, GroundStep, CountStep, Phases
  <2> QED
    BY <1>1, <2>1, <2>2
<1>12. CASE AddPrematureRule
  BY <1>1, <1>12 DEF AddPrematureRule
<1>13. CASE Preprocess \/ SolveEnd
  <2>1. UNCHANGED <<rounds, flagVars, parserVars, op, clientVars, parsedMessages>>
    BY <1>13 DEF Preprocess, SolveEnd
  <2>2. /\ pc' \in Phases
        /\ conflict' \in BOOLEAN
        /\ result' \in {"unknown", "sat", "unsat"}
        /\ stopped' \in BOOLEAN
    BY <1>1, <1>13 DEF Preprocess, SolveEnd, Phases
  <2> QED
    BY <1>1, <2>1, <2>2
<1>8. CASE NextRound
  <2>1. rounds' \in 0..MaxSteps
    BY <1>1, <1>8, SessionAssumption DEF NextRound
  <2> QED
    BY <1>1, <1>8, <2>1 DEF NextRound, Phases
<1>9. CASE ClientNext
  <2>1. UNCHANGED serverVars /\ open' \in BOOLEAN
    BY <1>1, <1>9 DEF ClientNext, ClientSend, ClientReceive, ClientClose
  <2>2. sentMessages' \in 0..MaxMessages
    BY <1>1, <1>9, SessionAssumption DEF ClientNext, ClientSend, ClientReceive, ClientClose
  <2> QED
    BY <1>1, <2>1, <2>2 DEF serverVars
<1> QED
  BY <1>2, <1>3, <1>4, <1>5, <1>6, <1>7, <1>8, <1>9, <1>10, <1>11, <1>12, <1>13 DEF Next, ServerNext

-------------------------------------------------------------------------------
(* The counters, and what waits for them. *)

(* step_ and incStep are advanced by the same step only. *)
LEMMA MirrorKept == StepInv /\ [Next]_vars => StepsMirror'
<1> SUFFICES ASSUME StepInv, [Next]_vars PROVE StepsMirror'
  OBVIOUS
<1>1. step = incStep
  BY DEF StepInv, StepsMirror
<1> USE DEF StepsMirror
<1>2. CASE ~NumSteps
  BY <1>1, <1>2, NumVarsKept DEF numVars
<1>3. CASE GroundStep
  BY <1>1, <1>3 DEF GroundStep, CountStep
<1>4. CASE NumSteps /\ ~GroundStep
  BY <1>1, <1>4 DEF NumSteps, SetStep, VolatileWindow, Assert, Retract, Forget, ForgetRange, BeginParse,
                    EndPremature, SetPart, stepVars
<1> QED
  BY <1>2, <1>3, <1>4

(* #step moves the bound along, and the grounding loop is left at the step of the *)
(* controller, which the bound covers. *)
LEMMA BoundKept == StepInv /\ [Next]_vars => BoundCovers'
<1> SUFFICES ASSUME StepInv, [Next]_vars PROVE BoundCovers'
  OBVIOUS
<1>1. TypeOK /\ BoundCovers /\ NumTypes
  BY TypeGroups DEF StepInv
<1> USE DEF BoundCovers
<1>2. CASE UNCHANGED <<incStep, controllerStep, bound>> /\ (pc' = "ground" => pc = "ground" \/ incStep < bound)
  BY <1>1, <1>2
<1>3. CASE UNCHANGED vars
  BY <1>2, <1>3 DEF vars, stepVars
<1>4. CASE SetStep
  <2>1. CASE gotStep
    BY <1>1, <1>4, <2>1 DEF SetStep
  <2>2. CASE ~gotStep
    BY <1>1, <1>4, <2>2, HeadStatement, BoundForType DEF SetStep, Reading
  <2> QED
    BY <2>1, <2>2
<1>5. CASE Parse /\ ~SetStep
  BY <1>2, <1>5 DEF Parse, Reading, Cumulative, Volatile, VolatileWindow, Assert, Retract, AddRule, Forget,
                    ForgetRange, SetPart, SyntaxError, EndStep, Stop, RunPastTheEnd, stepVars
<1>6. CASE GroundStep
  BY <1>1, <1>6, SessionAssumption DEF GroundStep, NumTypes
<1>7. CASE Decide
  BY <1>2, <1>7 DEF Decide, MayStep, stepVars
<1>8. CASE ServerNext /\ ~Parse /\ ~GroundStep /\ ~Decide
  BY <1>2, <1>8 DEF ServerNext, ReportConflict, CheckBound, Get, AddInput, RunOne, BeginParse, NoInput,
                    AddPrematureRule, EndPremature, Preprocess, Poll, FindModel, SolveEnd, NextRound, stepVars
<1>9. CASE ClientNext
  BY <1>2, <1>9 DEF ClientNext, ClientSend, ClientReceive, ClientClose, serverVars, stepVars
<1> QED
  BY <1>3, <1>4, <1>5, <1>6, <1>7, <1>8, <1>9 DEF Next

waitVars == <<step, controllerStep, stacks, forget, forgetRange>>

Settled == {"preprocess", "solve", "next", "read", "get", "addInput", "wait", "input"}

(* A step that touches none of what waits only has to respect the phases. *)
LEMMA WaitUntouched ==
  ASSUME WaitsForStep, UNCHANGED waitVars,
         \/ pc' = pc /\ gotStep' = gotStep
         \/ pc \in Settled /\ pc' \in Settled
         \/ pc \in Settled /\ pc' \in {"decide", "parse"}
         \/ pc = "parse" /\ pc' = "decide"
         \/ pc' \in {"done", "failed", "stray"}
  PROVE  WaitsForStep'
  BY DEF WaitsForStep, Waiting, waitVars, Settled

(* What waits for a step waits until the grounding loop has reached it: rules are *)
(* only queued while the step is ahead, the loop stops exactly there, and         *)
(* addPrematureKnowledge leaves nothing behind.                                   *)
LEMMA WaitKept == StepInv /\ [Next]_vars => WaitsForStep'
<1> SUFFICES ASSUME StepInv, [Next]_vars PROVE WaitsForStep'
  OBVIOUS
<1>1. TypeOK /\ NumTypes /\ WaitsForStep /\ step = incStep /\ BoundCovers
  BY TypeGroups DEF StepInv, StepsMirror
<1>n. /\ step \in Int /\ controllerStep \in Int /\ bound \in Int /\ incStep \in Int
      /\ forgetRange \in [from: 0..IntMax, to: 0..IntMax]
  BY <1>1 DEF NumTypes
<1> USE DEF waitVars, Settled, stepVars, queueVars, parserVars
<1>2. CASE UNCHANGED vars
  BY <1>1, <1>2, WaitUntouched DEF vars
<1>3. CASE SetStep
  <2>1. pc = "parse" /\ pc' = "parse" /\ UNCHANGED <<step, stacks, forget, forgetRange>>
    BY <1>3 DEF SetStep, Reading
  <2>2. CASE gotStep
    BY <1>1, <1>3, <2>1, <2>2, WaitUntouched DEF SetStep
  <2>3. CASE ~gotStep
    <3>1. gotStep' /\ ~Waiting
      BY <1>1, <1>n, <1>3, <2>1, <2>3 DEF SetStep, WaitsForStep
    <3> QED
      BY <2>1, <3>1 DEF WaitsForStep, Waiting
  <2> QED
    BY <2>2, <2>3
<1>4. CASE AddRule \/ Forget \/ ForgetRange
  <2>1. pc = "parse" /\ pc' = "parse" /\ UNCHANGED <<step, controllerStep, gotStep>>
    BY <1>4 DEF AddRule, Forget, ForgetRange, Reading
  <2>2. Waiting' => Waiting \/ NeedsNewStep
    BY <1>4 DEF AddRule, Forget, ForgetRange, Waiting
  <2>3. NeedsNewStep => controllerStep > step
    BY <1>1, <1>n, <2>1 DEF NeedsNewStep, WaitsForStep, Waiting
  <2> QED
    BY <1>1, <2>1, <2>2, <2>3 DEF WaitsForStep
<1>5. CASE Cumulative \/ Volatile \/ VolatileWindow \/ Assert \/ Retract \/ SyntaxError
  <2>1. UNCHANGED <<waitVars, pc, gotStep>>
    BY <1>5 DEF Cumulative, Volatile, VolatileWindow, Assert, Retract, SyntaxError, SetPart
  <2> QED
    BY <1>1, <2>1, WaitUntouched
<1>6. CASE EndStep \/ Stop \/ RunPastTheEnd
  <2>1. UNCHANGED waitVars /\ pc = "parse" /\ pc' \in {"decide", "done", "failed", "stray"}
    BY <1>6 DEF EndStep, Stop, RunPastTheEnd
  <2> QED
    BY <1>1, <2>1, WaitUntouched
<1>7. CASE Decide
  <2>1. pc = "decide" /\ UNCHANGED <<waitVars, incStep, bound>>
    BY <1>7 DEF Decide
  <2>2. CASE MayStep
    BY <1>1, <1>7, <2>1, <2>2 DEF Decide, WaitsForStep, Waiting
  <2>3. CASE ~MayStep
    <3>1. controllerStep <= step
      BY <1>1, <1>n, <2>3 DEF MayStep, NeedsNewStep, BoundCovers
    <3>2. ~Waiting /\ pc' = "preprocess"
      BY <1>1, <1>n, <1>7, <2>1, <2>3, <3>1 DEF WaitsForStep, Decide
    <3> QED
      BY <2>1, <3>1, <3>2 DEF WaitsForStep, Waiting
  <2> QED
    BY <2>2, <2>3
<1>8. CASE GroundStep
  <2>1. pc = "ground" /\ step' = step + 1 /\ UNCHANGED <<controllerStep, stacks, forget, forgetRange>>
    BY <1>8 DEF GroundStep, CountStep
  <2>2. Waiting' = Waiting /\ (Waiting => controllerStep > step)
    BY <1>1, <2>1 DEF WaitsForStep, Waiting
  <2>3. pc' = IF step + 1 < controllerStep THEN "ground" ELSE "premature"
    BY <1>1, <1>8 DEF GroundStep
  <2> QED
    BY <1>n, <2>1, <2>2, <2>3 DEF WaitsForStep
<1>9. CASE AddPrematureRule
  BY <1>1, <1>9 DEF AddPrematureRule, WaitsForStep
<1>10. CASE EndPremature
  <2>1. pc = "premature" /\ pc' = "preprocess" /\ UNCHANGED <<step, controllerStep, stacks>>
    BY <1>10 DEF EndPremature
  <2>2. ~Waiting'
    BY <1>1, <1>n, <1>10, <2>1 DEF EndPremature, WaitsForStep, Waiting
  <2> QED
    BY <1>1, <2>1, <2>2 DEF WaitsForStep
<1>11. CASE BeginParse
  <2>1. UNCHANGED waitVars /\ pc \in Settled /\ pc' = "parse"
    BY <1>11 DEF BeginParse
  <2> QED
    BY <1>1, <2>1, WaitUntouched
<1>12. CASE \/ ReportConflict \/ CheckBound \/ Get \/ AddInput \/ RunOne \/ NoInput \/ Preprocess
            \/ Poll \/ FindModel \/ SolveEnd \/ NextRound
  <2>1. UNCHANGED waitVars /\ UNCHANGED gotStep
    BY <1>12 DEF ReportConflict, CheckBound, Get, AddInput, RunOne, NoInput, Preprocess, Poll, FindModel,
                 SolveEnd, NextRound
  <2>2. /\ pc \in Settled
        /\ pc' = pc \/ pc' \in Settled \/ pc' \in {"decide", "done", "failed"}
    BY <1>12 DEF ReportConflict, CheckBound, Get, AddInput, RunOne, NoInput, Preprocess, Poll, FindModel,
                 SolveEnd, NextRound
  <2> QED
    BY <1>1, <2>1, <2>2, WaitUntouched
<1>13. CASE ClientNext
  <2>1. UNCHANGED <<waitVars, pc, gotStep>>
    BY <1>13 DEF ClientNext, ClientSend, ClientReceive, ClientClose, serverVars
  <2> QED
    BY <1>1, <2>1, WaitUntouched
<1> QED
  BY <1>2, <1>3, <1>4, <1>5, <1>6, <1>7, <1>8, <1>9, <1>10, <1>11, <1>12, <1>13
     DEF Next, ServerNext, Parse

-------------------------------------------------------------------------------
(* The order of rules. *)

(* Only #step moves the step of the controller. *)
LEMMA ControllerStepKept ==
  ASSUME [Next]_vars, ~(SetStep /\ ~gotStep)
  PROVE  controllerStep' = controllerStep
<1>1. CASE ~NumSteps
  BY <1>1, NumVarsKept DEF numVars
<1>2. CASE NumSteps
  BY <1>2 DEF NumSteps, SetStep, VolatileWindow, SetPart, Assert, Retract, Forget, ForgetRange, BeginParse,
              GroundStep, EndPremature, stepVars
<1> QED
  BY <1>1, <1>2

(* Two entries that agree in every field are the same. *)
LEMMA SameEntry ==
  ASSUME NEW e \in RuleEntry, NEW f \in RuleEntry,
         e.part = f.part, e.window = f.window, e.term = f.term, e.at = f.at
  PROVE  e = f
  BY DEF RuleEntry

(* The rules that are parsed, queued and taken from the queue stay in the order   *)
(* of the text and keep their part, window, term and step.                        *)
LEMMA RulesKept == RuleInv /\ [Next]_vars => RulesAsWritten'
<1> SUFFICES ASSUME RuleInv, [Next]_vars PROVE RulesAsWritten'
  OBVIOUS
<1>1. TypeOK /\ QueuesParallel /\ RulesAsWritten /\ WaitsForStep /\ SeqTypes
  BY TypeGroups DEF RuleInv, StepInv
<1>2. /\ stacks \in Seq(Nat) /\ written \in Seq(RuleEntry) /\ printed \in Seq(RuleEntry)
      /\ volStack \in Seq([part: Parts, window: 0..IntMax]) /\ assertStack \in Seq(Terms \cup {NoTerm})
      /\ Len(stacks) \in Nat /\ Len(written) \in Nat /\ Len(printed) \in Nat
      /\ Len(volStack) = Len(stacks) /\ Len(assertStack) = Len(stacks)
  BY <1>1, LenProperties DEF SeqTypes, QueuesParallel
<1>3. /\ Len(written) = Len(printed) + Len(stacks)
      /\ \A i \in 1..Len(printed) : printed[i] = written[i]
      /\ \A i \in 1..Len(stacks) :
          /\ stacks[i] = Len(printed) + i
          /\ written[stacks[i]].part = volStack[i].part
          /\ written[stacks[i]].window = volStack[i].window
          /\ written[stacks[i]].term = assertStack[i]
          /\ written[stacks[i]].at = controllerStep
  BY <1>1 DEF RulesAsWritten
<1>n. /\ Len(stacks) \in Nat /\ Len(written) \in Nat /\ Len(printed) \in Nat
      /\ Len(written) = Len(printed) + Len(stacks)
  BY <1>2, <1>3
<1>4. CASE ~QueueSteps
  <2>1. UNCHANGED <<stacks, volStack, assertStack, written, printed>>
    BY <1>4, SeqVarsKept DEF seqVars
  <2>2. CASE SetStep /\ ~gotStep
    <3>1. stacks = <<>>
      BY <1>1, <2>2 DEF SetStep, Reading, WaitsForStep, Waiting, TypeOK
    <3> QED
      BY <1>3, <2>1, <3>1 DEF RulesAsWritten
  <2>3. CASE ~(SetStep /\ ~gotStep)
    BY <1>3, <2>1, <2>3, ControllerStepKept DEF RulesAsWritten
  <2> QED
    BY <2>2, <2>3
<1>5. CASE AddRule
  <2> DEFINE new == Entry(part, window, term)
  <2>1. written' = Append(written, new) /\ controllerStep' = controllerStep
    BY <1>5 DEF AddRule, stepVars
  <2>2. /\ new \in RuleEntry
        /\ new.part = part /\ new.window = window /\ new.term = term /\ new.at = controllerStep
    BY <1>1 DEF Entry, RuleEntry, TypeOK
  <2> HIDE DEF new
  <2>3. /\ Len(written') = Len(written) + 1
        /\ \A i \in 1..Len(written) : written'[i] = written[i]
        /\ written'[Len(written) + 1] = new
    BY <1>2, <2>1, <2>2, AppendProperties
  <2>4. CASE NeedsNewStep
    <3>1. /\ stacks' = Append(stacks, Len(written) + 1)
          /\ volStack' = Append(volStack, [part |-> part, window |-> window])
          /\ assertStack' = Append(assertStack, term)
          /\ printed' = printed
      BY <1>5, <2>4 DEF AddRule, SavePremature
    <3>2. /\ Len(stacks') = Len(stacks) + 1
          /\ \A i \in 1..Len(stacks) : stacks'[i] = stacks[i]
          /\ stacks'[Len(stacks) + 1] = Len(written) + 1
      BY <1>2, <3>1, AppendProperties
    <3>3. /\ \A i \in 1..Len(stacks) : volStack'[i] = volStack[i]
          /\ volStack'[Len(stacks) + 1] = [part |-> part, window |-> window]
      <4> DEFINE PW == [part: Parts, window: 0..IntMax]
      <4>1. volStack \in Seq(PW) /\ [part |-> part, window |-> window] \in PW
        BY <1>1, <1>2 DEF TypeOK
      <4> HIDE DEF PW
      <4> QED
        BY <1>2, <3>1, <4>1, AppendProperties
    <3>4. /\ \A i \in 1..Len(stacks) : assertStack'[i] = assertStack[i]
          /\ assertStack'[Len(stacks) + 1] = term
      <4>1. term \in Terms \cup {NoTerm}
        BY <1>1 DEF TypeOK
      <4> QED
        BY <1>2, <3>1, <4>1, AppendProperties
    <3>5. \A i \in 1..Len(stacks') :
            /\ stacks'[i] = Len(printed') + i
            /\ written'[stacks'[i]].part = volStack'[i].part
            /\ written'[stacks'[i]].window = volStack'[i].window
            /\ written'[stacks'[i]].term = assertStack'[i]
            /\ written'[stacks'[i]].at = controllerStep'
      <4> TAKE i \in 1..Len(stacks')
      <4>1. CASE i = Len(stacks) + 1
        <5>1. stacks'[i] = Len(written) + 1 /\ Len(written) + 1 = Len(printed') + i
          BY <1>n, <3>1, <3>2, <4>1
        <5>2. written'[stacks'[i]] = new
          BY <2>3, <5>1
        <5>3. volStack'[i].part = part /\ volStack'[i].window = window /\ assertStack'[i] = term
          BY <3>3, <3>4, <4>1
        <5> QED
          BY <2>1, <2>2, <5>1, <5>2, <5>3
      <4>2. CASE i \in 1..Len(stacks)
        <5>1. stacks[i] = Len(printed) + i /\ stacks[i] \in 1..Len(written)
          BY <1>2, <1>3, <4>2
        <5> QED
          <6>1. /\ stacks'[i] = stacks[i] /\ written'[stacks[i]] = written[stacks[i]]
                /\ volStack'[i] = volStack[i] /\ assertStack'[i] = assertStack[i]
            BY <2>3, <3>2, <3>3, <3>4, <4>2, <5>1
          <6>2. /\ written[stacks[i]].part = volStack[i].part
                /\ written[stacks[i]].window = volStack[i].window
                /\ written[stacks[i]].term = assertStack[i]
                /\ written[stacks[i]].at = controllerStep
            BY <1>3, <4>2
          <6> QED
            BY <2>1, <3>1, <5>1, <6>1, <6>2
      <4> QED
        BY <1>n, <3>2, <4>1, <4>2
    <3>6. \A i \in 1..Len(printed') : printed'[i] = written'[i]
      <4>1. \A i \in 1..Len(printed) : i \in 1..Len(written)
        BY <1>n
      <4> QED
        BY <1>3, <2>3, <3>1, <4>1
    <3>7. Len(written') = Len(printed') + Len(stacks')
      BY <1>n, <2>3, <3>1, <3>2
    <3> QED
      BY <3>5, <3>6, <3>7 DEF RulesAsWritten
  <2>5. CASE ~NeedsNewStep
    <3>1. /\ printed' = Append(printed, new) /\ UNCHANGED <<stacks, volStack, assertStack>>
          /\ stacks = <<>> /\ Len(stacks) = 0
      BY <1>5, <2>5 DEF AddRule, NeedsNewStep, new
    <3>2. /\ Len(printed') = Len(printed) + 1
          /\ \A i \in 1..Len(printed) : printed'[i] = printed[i]
          /\ printed'[Len(printed) + 1] = new
      BY <1>2, <2>2, <3>1, AppendProperties
    <3>3. \A i \in 1..Len(printed') : printed'[i] = written'[i]
      BY <1>2, <1>3, <2>3, <3>1, <3>2
    <3> QED
      BY <1>2, <1>3, <2>3, <3>1, <3>2, <3>3 DEF RulesAsWritten
  <2> QED
    BY <2>4, <2>5
<1>6. CASE AddPrematureRule
  <2>1. /\ stacks # <<>> /\ printed' = Append(printed, PrematureEntry) /\ written' = written
        /\ stacks' = Tail(stacks) /\ volStack' = Tail(volStack) /\ assertStack' = Tail(assertStack)
        /\ controllerStep' = controllerStep
    BY <1>6 DEF AddPrematureRule, stepVars
  <2>2. PrematureEntry \in RuleEntry
    BY <1>1, <2>1, TakeType
  <2>3. Len(stacks) > 0
    BY <1>2, <2>1, EmptySeq
  <2>4. /\ Len(stacks') = Len(stacks) - 1
        /\ \A i \in 1..Len(stacks') : stacks'[i] = stacks[i + 1]
    BY <1>2, <2>1, HeadTailProperties
  <2>5. \A i \in 1..Len(stacks') : volStack'[i] = volStack[i + 1]
    <3>1. volStack # <<>>
      BY <1>2, <2>3, EmptySeq
    <3> DEFINE PW == [part: Parts, window: 0..IntMax]
    <3>2. volStack \in Seq(PW)
      BY <1>2
    <3> HIDE DEF PW
    <3> QED
      BY <1>2, <2>1, <2>4, <3>1, <3>2, HeadTailProperties
  <2>6. \A i \in 1..Len(stacks') : assertStack'[i] = assertStack[i + 1]
    <3>1. assertStack # <<>>
      BY <1>2, <2>3, EmptySeq
    <3> QED
      BY <1>2, <2>1, <2>4, <3>1, HeadTailProperties
  <2>7. /\ PrematureEntry.part = volStack[1].part
        /\ PrematureEntry.window = volStack[1].window
        /\ PrematureEntry.term = assertStack[1]
        /\ PrematureEntry.at = controllerStep
    BY DEF PrematureEntry, Entry
  <2>8. PrematureEntry = written[Len(printed) + 1]
    <3>1. 1 \in 1..Len(stacks)
      BY <1>2, <2>3
    <3>2. stacks[1] = Len(printed) + 1 /\ stacks[1] \in 1..Len(written)
      BY <1>2, <1>3, <3>1
    <3>3. written[stacks[1]] \in RuleEntry
      BY <1>2, <3>2, ElementOfSeq
    <3>4. /\ PrematureEntry.part = written[stacks[1]].part
          /\ PrematureEntry.window = written[stacks[1]].window
          /\ PrematureEntry.term = written[stacks[1]].term
          /\ PrematureEntry.at = written[stacks[1]].at
      BY <1>3, <2>7, <3>1
    <3> QED
      BY <2>2, <3>2, <3>3, <3>4, SameEntry
  <2>9. /\ Len(printed') = Len(printed) + 1
        /\ \A i \in 1..Len(printed) : printed'[i] = printed[i]
        /\ printed'[Len(printed) + 1] = PrematureEntry
    BY <1>2, <2>1, <2>2, AppendProperties
  <2>10. \A i \in 1..Len(printed') : printed'[i] = written'[i]
    BY <1>2, <1>3, <2>1, <2>8, <2>9
  <2>11. \A i \in 1..Len(stacks') :
            /\ stacks'[i] = Len(printed') + i
            /\ written'[stacks'[i]].part = volStack'[i].part
            /\ written'[stacks'[i]].window = volStack'[i].window
            /\ written'[stacks'[i]].term = assertStack'[i]
            /\ written'[stacks'[i]].at = controllerStep'
    <3> TAKE i \in 1..Len(stacks')
    <3>1. i + 1 \in 1..Len(stacks)
      BY <1>2, <2>4
    <3>2. stacks'[i] = stacks[i + 1] /\ volStack'[i] = volStack[i + 1] /\ assertStack'[i] = assertStack[i + 1]
      BY <2>4, <2>5, <2>6
    <3>3. stacks'[i] = Len(printed') + i
      BY <1>2, <1>3, <2>9, <3>1, <3>2
    <3> QED
      BY <1>3, <2>1, <3>1, <3>2, <3>3
  <2>12. Len(written') = Len(printed') + Len(stacks')
    BY <1>n, <2>1, <2>4, <2>9
  <2> QED
    BY <2>10, <2>11, <2>12 DEF RulesAsWritten
<1> QED
  BY <1>4, <1>5, <1>6 DEF QueueSteps

-------------------------------------------------------------------------------
(* The asynchronous read. *)

pollVars == <<pc, conflict, stopped, reading, newInput, solverStopped, op>>

(* A handler of the io_service either ends the read or leaves it as it is. *)
LEMMA HandlerReads ==
  ASSUME RunHandler
  PROVE  (op' = "none" /\ newInput' /\ ~reading') \/ (op # "none" /\ UNCHANGED <<op, newInput, reading>>)
  BY DEF RunHandler, ReadUntilHandler

(* From get() to the solver nothing is polled, and what is polled while it solves *)
(* stops it; reading_ is set exactly while a read is outstanding.                 *)
LEMMA PollKept == TypeOK /\ PollInv /\ [Next]_vars => PollInv'
<1> SUFFICES ASSUME TypeOK, PollInv, [Next]_vars PROVE PollInv'
  OBVIOUS
<1> USE DEF PollInv, OneRead, flagVars, solverVars, socketVars
<1>t. /\ reading \in BOOLEAN /\ newInput \in BOOLEAN /\ solverStopped \in BOOLEAN
      /\ stopped \in BOOLEAN /\ conflict \in BOOLEAN
  BY DEF TypeOK
<1>1. CASE UNCHANGED pollVars
  BY <1>1 DEF pollVars
<1>2. CASE UNCHANGED vars
  BY <1>1, <1>2 DEF vars, pollVars
<1>3. CASE Parse
  <2>1. /\ UNCHANGED <<conflict, stopped, reading, newInput, solverStopped, op>>
        /\ pc = "parse" /\ pc' \in {"parse", "decide", "done", "failed", "stray"}
    BY <1>3 DEF Parse, Reading, SetStep, SetPart, Cumulative, Volatile, VolatileWindow, Assert, Retract,
                AddRule, Forget, ForgetRange, SyntaxError, EndStep, Stop, RunPastTheEnd
  <2> QED
    BY <2>1
<1>4. CASE ReportConflict \/ CheckBound \/ AddInput \/ NoInput \/ BeginParse
  BY <1>4 DEF ReportConflict, CheckBound, AddInput, MustWait, NoInput, BeginParse
<1>5. CASE Get
  BY <1>5 DEF Get, StartRead
<1>6. CASE RunOne
  <2>1. CASE RunHandler /\ pc' = "input"
    BY <1>6, <2>1, HandlerReads DEF RunOne
  <2>2. CASE ~(RunHandler /\ pc' = "input")
    BY <1>6, <2>2 DEF RunOne
  <2> QED
    BY <2>1, <2>2
<1>7. CASE Decide \/ GroundStep \/ AddPrematureRule \/ EndPremature
  BY <1>7 DEF Decide, GroundStep, AddPrematureRule, EndPremature
<1>8. CASE Preprocess
  BY <1>8 DEF Preprocess
<1>9. CASE Poll
  <2>1. CASE RunHandler /\ UNCHANGED pc
    BY <1>t, <1>9, <2>1, HandlerReads DEF Poll
  <2>2. CASE ~(RunHandler /\ UNCHANGED pc)
    BY <1>9, <2>2 DEF Poll
  <2> QED
    BY <2>1, <2>2
<1>10. CASE FindModel \/ SolveEnd \/ NextRound
  BY <1>10 DEF FindModel, SolveEnd, NextRound
<1>11. CASE ClientNext
  <2>1. UNCHANGED pollVars
    BY <1>11 DEF ClientNext, ClientSend, ClientReceive, ClientClose, serverVars, pollVars
  <2> QED
    BY <1>1, <2>1
<1> QED
  BY <1>2, <1>3, <1>4, <1>5, <1>6, <1>7, <1>8, <1>9, <1>10, <1>11 DEF Next, ServerNext

-------------------------------------------------------------------------------
(* The theorems. *)

(* The state after the first grounding satisfies all of it. *)
LEMMA Initial == Init => RuleInv /\ PollInv
<1> SUFFICES ASSUME Init PROVE RuleInv /\ PollInv
  OBVIOUS
<1>1. 0 \in 0..IntMax /\ 1 \in 0..IntMax /\ IntMax \in 0..IntMax /\ MaxSteps \in 0..MaxSteps /\ 0 \in 0..MaxMessages
  BY SessionAssumption
<1>2. FlagTypes
  BY <1>1 DEF Init, FlagTypes, Phases, Parts
<1>3. NumTypes
  BY <1>1 DEF Init, NumTypes
<1>4. SeqTypes /\ NetTypes
  BY DEF Init, SeqTypes, NetTypes
<1>5. TypeOK
  BY <1>2, <1>3, <1>4, TypeGroups
<1>6. Len(<<>>) = 0
  OBVIOUS
<1>7. QueuesParallel /\ StepsMirror /\ RulesAsWritten
  BY <1>6 DEF Init, QueuesParallel, StepsMirror, RulesAsWritten
<1>8. WaitsForStep /\ BoundCovers
  BY <1>1, SessionAssumption DEF Init, WaitsForStep, Waiting, BoundCovers
<1>9. PollInv
  BY DEF Init, PollInv, OneRead
<1> QED
  BY <1>5, <1>7, <1>8, <1>9 DEF RuleInv, StepInv

(* Every step keeps it. *)
LEMMA Inductive == RuleInv /\ PollInv /\ [Next]_vars => RuleInv' /\ PollInv'
<1> SUFFICES ASSUME RuleInv, PollInv, [Next]_vars PROVE RuleInv' /\ PollInv'
  OBVIOUS
<1>1. StepInv /\ TypeOK
  BY DEF RuleInv, StepInv
<1>2. FlagTypes' /\ NumTypes' /\ SeqTypes' /\ NetTypes' /\ QueuesParallel'
  BY <1>1, FlagTypesKept, NumTypesKept, SeqTypesKept, NetTypesKept
<1>3. TypeOK'
  BY <1>2 DEF TypeOK, FlagTypes, NumTypes, SeqTypes, NetTypes
<1>4. StepsMirror' /\ WaitsForStep' /\ BoundCovers'
  BY <1>1, MirrorKept, WaitKept, BoundKept
<1>5. RulesAsWritten' /\ PollInv'
  BY <1>1, RulesKept, PollKept
<1> QED
  BY <1>2, <1>3, <1>4, <1>5 DEF RuleInv, StepInv

(* The inductive invariant of a session with any client. *)
THEOREM Invariant == Spec => [](RuleInv /\ PollInv)
<1> QED
  BY Initial, Inductive, PTL DEF Spec

(* Every variable of a session has its type, so no counter of the server passes   *)
(* INT_MAX.                                                                       *)
THEOREM TypeCorrect == Spec => []TypeOK
<1>1. RuleInv /\ PollInv => TypeOK
  BY DEF RuleInv, StepInv
<1> QED
  BY <1>1, Invariant, PTL

(* step_ and incStep never part (endStep, groundStep).                            *)
THEOREM StepsMirrorCorrect == Spec => []StepsMirror
<1>1. RuleInv /\ PollInv => StepsMirror
  BY DEF RuleInv, StepInv
<1> QED
  BY <1>1, Invariant, PTL

(* The assertions of addPrematureKnowledge hold: the three queues have one length. *)
THEOREM QueuesCorrect == Spec => []QueuesParallel
<1>1. RuleInv /\ PollInv => QueuesParallel
  BY DEF RuleInv, StepInv
<1> QED
  BY <1>1, Invariant, PTL

(* Rules are printed in the order of the text, each with the part, window, term   *)
(* and step it was written under, whether it had to wait or not.                  *)
THEOREM RulesCorrect == Spec => []RulesAsWritten
<1>1. RuleInv /\ PollInv => RulesAsWritten
  BY DEF RuleInv
<1> QED
  BY <1>1, Invariant, PTL

(* clasp solves only at or past the step of the controller, with nothing that     *)
(* still waits.                                                                   *)
THEOREM ReadyCorrect == Spec => []ReadyToSolve
<1>1. RuleInv /\ PollInv => ReadyToSolve
  <2> SUFFICES ASSUME RuleInv PROVE ReadyToSolve
    OBVIOUS
  <2>1. incStep \in Int /\ controllerStep \in Int /\ WaitsForStep /\ step = incStep
    BY DEF RuleInv, StepInv, TypeOK, StepsMirror
  <2> QED
    BY <2>1 DEF ReadyToSolve, WaitsForStep, Waiting
<1> QED
  BY <1>1, Invariant, PTL

(* There is one read at a time, and no wait without one (reading_). *)
THEOREM OneReadCorrect == Spec => []OneRead
<1>1. RuleInv /\ PollInv => OneRead
  BY DEF PollInv
<1> QED
  BY <1>1, Invariant, PTL

(* A message that is complete while clasp solves has stopped it (propagate). *)
THEOREM InputStopsCorrect == Spec => []InputStopsSolver
<1>1. RuleInv /\ PollInv => InputStopsSolver
  BY DEF PollInv, InputStopsSolver
<1> QED
  BY <1>1, Invariant, PTL

(* A step is grounded only within the bound of the controller (read). *)
THEOREM BoundCorrect == Spec => BoundObeyed
<1>1. RuleInv /\ [Next]_vars => (incStep' # incStep => incStep' <= bound)
  <2> SUFFICES ASSUME RuleInv, [Next]_vars, incStep' # incStep PROVE incStep' <= bound
    OBVIOUS
  <2>1. GroundStep
    <3>1. CASE NumSteps
      BY <3>1 DEF NumSteps, SetStep, VolatileWindow, SetPart, Assert, Retract, Forget, ForgetRange,
                  BeginParse, EndPremature, stepVars
    <3> QED
      BY <3>1, NumVarsKept DEF numVars
  <2>2. incStep < bound /\ incStep' = incStep + 1 /\ incStep \in Int /\ bound \in Int
    BY <2>1 DEF GroundStep, RuleInv, StepInv, BoundCovers, TypeOK
  <2> QED
    BY <2>2
<1>2. RuleInv /\ [Next]_vars => [incStep' # incStep => incStep' <= bound]_vars
  BY <1>1
<1> QED
  BY <1>2, Invariant, PTL DEF Spec, BoundObeyed

(* A rule of a later step is printed only once that step is grounded, so that the *)
(* externals it uses are declared (add, addPrematureKnowledge).                   *)
THEOREM PrintedCorrect == Spec => PrintedInTime
<1>1. RuleInv /\ [Next]_vars => (printed' # printed => controllerStep <= step)
  <2> SUFFICES ASSUME RuleInv, [Next]_vars, printed' # printed PROVE controllerStep <= step
    OBVIOUS
  <2>1. controllerStep \in Int /\ step \in Int
    BY DEF RuleInv, StepInv, TypeOK
  <2>2. CASE AddRule
    BY <2>1, <2>2 DEF AddRule, NeedsNewStep
  <2>3. CASE AddPrematureRule
    BY <2>1, <2>3 DEF AddPrematureRule
  <2> QED
    BY <2>2, <2>3, SeqVarsKept DEF QueueSteps, seqVars
<1>2. RuleInv /\ [Next]_vars => [printed' # printed => controllerStep <= step]_vars
  BY <1>1
<1> QED
  BY <1>2, Invariant, PTL DEF Spec, PrintedInTime
===============================================================================
