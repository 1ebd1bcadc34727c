------------------------------- MODULE Session --------------------------------
(* An oclingo session: the read-solve loop of the server, the socket to the      *)
(* controller, and the knowledge that waits for a later step.                    *)
(*                                                                               *)
(* FromGringo<OCLINGO>::read is called once per round by clasp's facade.  It     *)
(* reports, starts an asynchronous read, waits for a message if the controller   *)
(* owes one, parses it, grounds the steps it asks for and hands over to clasp.   *)
(* While clasp solves, a post propagator polls the same asynchronous read and    *)
(* stops the solver when something arrives.  Everything the server does runs in  *)
(* one thread; the concurrency is with the controller, which sends when it likes *)
(* and whose messages the network may cut into pieces.                           *)
(*                                                                               *)
(* The client here is any program that holds the other end of the socket; the    *)
(* one of the repository is in Controller.                                       *)
EXTENDS Integers, Sequences

CONSTANTS
    Messages,    \* what a controller may send: sequences of statements
    Terms,       \* terms of #assert and #retract
    NoTerm,      \* a term that was never set
    IntMax,      \* INT_MAX
    MaxSteps,    \* --imax, the rounds of the facade; 0 for the default of 2^32 - 1
    Capacity,    \* reports the socket can hold before a write to it blocks
    MaxMessages, \* bound on the number of messages a controller sends
    Fragments    \* may a read return less than what has arrived?

NUL == [op |-> "nul", n |-> 0, m |-> 0, t |-> NoTerm]

(* One line of the grammar of onlineparser_impl.y.  n and m are its numbers, t   *)
(* its term; a rule is told apart by its place in the text.                      *)
StatementOps == {"step", "rule", "cumulative", "volatile", "window", "forget", "forgetRange",
                 "assert", "retract", "endstep", "stop", "bad"}

Statement ==
    {s \in [op: StatementOps \cup {"nul"}, n: 0..IntMax, m: 0..IntMax, t: Terms \cup {NoTerm}] :
        s.op \in {"assert", "retract"} => s.t \in Terms}

ASSUME SessionAssumption ==
    /\ NoTerm \notin Terms
    /\ IntMax \in Nat \ {0}
    /\ MaxSteps \in Nat
    /\ Capacity \in Nat \ {0}
    /\ MaxMessages \in Nat
    /\ Fragments \in BOOLEAN
    /\ Messages \subseteq Seq(Statement)

VARIABLES
    pc,             \* where the server is
    rounds,         \* maxSteps, counted down unless it is 0
    conflict,       \* solver->hasConflict(), at the top level
    result,         \* how the last solving ended
    stopped,        \* the solver has the stop conflict
    incStep,        \* IncConfig::incStep
    step,           \* step_
    controllerStep, \* controller_step_
    bound,          \* bound_
    model,          \* model_
    reading,        \* reading_
    newInput,       \* new_input_
    solverStopped,  \* solver_stopped_
    stacks,         \* stacks_, the rules that wait
    volStack,       \* vol_stack_, the part and window of each
    assertStack,    \* assert_stack_, the term of each
    forget,         \* forget_, 0 for none
    forgetRange,    \* forget_from_ and forget_to_
    part,           \* part_ of the parser
    window,         \* volatile_window_
    term,           \* assert_term_
    gotStep,        \* got_step_
    error,          \* error_
    text,           \* what the lexer has taken and not yet read
    op,             \* the asynchronous read: none, receiving or ready
    sbuf,           \* b_, the stream buffer of the socket
    inbox,          \* sent by the controller, not yet received
    outbox,         \* sent to the controller, not yet received
    open,           \* the controller holds its end of the socket open
    sentMessages,   \* how many messages the controller has sent
    parsedMessages, \* how many messages have been parsed to their end
    written,        \* the rules the parser has met, as they stand in the text
    printed         \* the rules given to the output

solverVars  == <<rounds, conflict, result, stopped>>
stepVars    == <<incStep, step, controllerStep, bound>>
flagVars    == <<model, reading, newInput, solverStopped>>
queueVars   == <<stacks, volStack, assertStack, forget, forgetRange>>
parserVars  == <<part, window, term, gotStep, error>>
socketVars  == <<op, sbuf, inbox>>
clientVars  == <<open, sentMessages>>
historyVars == <<parsedMessages, written, printed>>
vars == <<pc, solverVars, stepVars, flagVars, queueVars, parserVars, text, socketVars, outbox,
          clientVars, historyVars>>

Phases == {"read", "get", "addInput", "wait", "input", "parse", "decide", "ground",
           "premature", "preprocess", "solve", "next", "done", "failed", "stray"}
Parts   == {"cumulative", "volatile", "assert"}
Reports == {"input", "end", "unsat", "model", "error", "warning"}

(* What is known of a rule, when it is written and when it is printed. *)
RuleEntry == [part: Parts, window: 0..IntMax, term: Terms \cup {NoTerm}, at: 0..IntMax]

TypeOK ==
    /\ pc \in Phases
    /\ rounds \in 0..MaxSteps
    /\ conflict \in BOOLEAN
    /\ result \in {"unknown", "sat", "unsat"}
    /\ stopped \in BOOLEAN
    /\ incStep \in 0..IntMax
    /\ step \in 0..IntMax
    /\ controllerStep \in 0..IntMax
    /\ bound \in 0..IntMax
    /\ model \in BOOLEAN
    /\ reading \in BOOLEAN
    /\ newInput \in BOOLEAN
    /\ solverStopped \in BOOLEAN
    /\ stacks \in Seq(Nat)
    /\ volStack \in Seq([part: Parts, window: 0..IntMax])
    /\ assertStack \in Seq(Terms \cup {NoTerm})
    /\ forget \in 0..IntMax
    /\ forgetRange \in [from: 0..IntMax, to: 0..IntMax]
    /\ part \in Parts
    /\ window \in 0..IntMax
    /\ term \in Terms \cup {NoTerm}
    /\ gotStep \in BOOLEAN
    /\ error \in BOOLEAN
    /\ text \in Seq(Statement)
    /\ op \in {"none", "receiving", "ready"}
    /\ sbuf \in Seq(Statement)
    /\ inbox \in Seq(Statement)
    /\ outbox \in Seq(Reports)
    /\ open \in BOOLEAN
    /\ sentMessages \in 0..MaxMessages
    /\ parsedMessages \in Nat
    /\ written \in Seq(RuleEntry)
    /\ printed \in Seq(RuleEntry)

(* The first read() has grounded the base and step 1 (--iinit=1), and the        *)
(* controller has connected: accept() comes before anything is sent.             *)
Init ==
    /\ pc = "read"
    /\ rounds = MaxSteps
    /\ conflict = FALSE
    /\ result = "unknown"
    /\ stopped = FALSE
    /\ incStep = 1
    /\ step = 1
    /\ controllerStep = 1
    /\ bound = IntMax
    /\ model = TRUE
    /\ reading = FALSE
    /\ newInput = FALSE
    /\ solverStopped = FALSE
    /\ stacks = <<>>
    /\ volStack = <<>>
    /\ assertStack = <<>>
    /\ forget = 0
    /\ forgetRange = [from |-> 0, to |-> 0]
    /\ part = "cumulative"
    /\ window = 0
    /\ term = NoTerm
    /\ gotStep = FALSE
    /\ error = FALSE
    /\ text = <<>>
    /\ op = "none"
    /\ sbuf = <<>>
    /\ inbox = <<>>
    /\ outbox = <<>>
    /\ open = TRUE
    /\ sentMessages = 0
    /\ parsedMessages = 0
    /\ written = <<>>
    /\ printed = <<>>

-------------------------------------------------------------------------------
(* The socket, and boost::asio. *)

(* sendToClient: a write blocks while the socket is full; one that fails is only *)
(* a warning on stderr. *)
Say(report) ==
    /\ open => Len(outbox) < Capacity
    /\ outbox' = IF open THEN Append(outbox, report) ELSE outbox

HasMessage(buffer) == \E i \in 1..Len(buffer) : buffer[i] = NUL

(* async_read_until: what the buffer holds already counts. *)
StartRead ==
    /\ reading' = TRUE
    /\ op' = IF HasMessage(sbuf) THEN "ready" ELSE "receiving"

(* Mutant: the flag of the input is forgotten. *)
DropsInput ==
    /\ op' = "none"
    /\ reading' = FALSE
    /\ UNCHANGED newInput

(* readUntilHandler without an error. *)
ReadUntilHandler ==
    /\ op' = "none"
    /\ newInput' = TRUE
    /\ reading' = FALSE

(* One handler of the io_service runs: the completion of a read that found its   *)
(* delimiter at once, or that of one read_some, which only runs                  *)
(* readUntilHandler if the delimiter has come.                                   *)
RunHandler ==
    \/ /\ op = "ready"
       /\ ReadUntilHandler
       /\ UNCHANGED <<sbuf, inbox>>
    \/ /\ op = "receiving"
       /\ \E k \in 1..Len(inbox) :
            /\ Fragments \/ k = Len(inbox)
            /\ sbuf' = sbuf \o SubSeq(inbox, 1, k)
            /\ inbox' = SubSeq(inbox, k + 1, Len(inbox))
       /\ IF HasMessage(sbuf') THEN ReadUntilHandler ELSE UNCHANGED <<op, newInput, reading>>

(* readUntilHandler with eof: it throws, through run_one or through clasp, and   *)
(* nobody catches it before main.                                                *)
ConnectionClosed ==
    /\ op = "receiving"
    /\ inbox = <<>>
    /\ ~open

-------------------------------------------------------------------------------
(* A round: FromGringo<OCLINGO>::read up to the input. *)

NeedsQueueOnly == stacks # <<>>

(* needsNewStep() *)
NeedsNewStep == controllerStep > step \/ stacks # <<>>

ReportConflict ==
    /\ pc = "read"
    /\ conflict
    /\ Say("error")
    /\ pc' = "preprocess"
    /\ UNCHANGED <<solverVars, stepVars, flagVars, queueVars, parserVars, text, socketVars,
                   clientVars, historyVars>>

CheckBound ==
    /\ pc = "read"
    /\ ~conflict
    /\ IF ~model /\ incStep >= bound THEN Say("unsat") ELSE UNCHANGED outbox
    /\ pc' = "get"
    /\ UNCHANGED <<solverVars, stepVars, flagVars, queueVars, parserVars, text, socketVars,
                   clientVars, historyVars>>

(* Mutant: solver_stopped_ is not reset. *)
GetStoppedForGood ==
    /\ pc = "get"
    /\ IF reading
       THEN UNCHANGED <<reading, op, outbox>>
       ELSE Say("input") /\ StartRead
    /\ pc' = "addInput"
    /\ UNCHANGED <<solverVars, stepVars, model, newInput, solverStopped, queueVars, parserVars, text,
                   sbuf, inbox, clientVars, historyVars>>

(* get() *)
Get ==
    /\ pc = "get"
    /\ IF reading
       THEN UNCHANGED <<reading, op, outbox>>
       ELSE Say("input") /\ StartRead
    /\ solverStopped' = FALSE
    /\ pc' = "addInput"
    /\ UNCHANGED <<solverVars, stepVars, model, newInput, queueVars, parserVars, text, sbuf, inbox,
                   clientVars, historyVars>>

(* addInput(): the end of the step is reported, and the server waits if it has   *)
(* a model or may not do another step. *)
WaitAtBoundOnly == ~newInput /\ step >= bound    \* mutant: a model does not matter

MustWait == ~newInput /\ (model \/ step >= bound)

AddInput ==
    /\ pc = "addInput"
    /\ IF model THEN Say("end") ELSE UNCHANGED outbox
    /\ pc' = IF MustWait THEN "wait" ELSE "input"
    /\ UNCHANGED <<solverVars, stepVars, flagVars, queueVars, parserVars, text, socketVars,
                   clientVars, historyVars>>

(* run_one(): blocks until there is a handler, and runs that one. *)
RunOne ==
    /\ pc = "wait"
    /\ \/ /\ RunHandler
          /\ pc' = "input"
       \/ /\ ConnectionClosed
          /\ pc' = "failed"
          /\ UNCHANGED <<reading, newInput, socketVars>>
    /\ UNCHANGED <<solverVars, stepVars, model, solverStopped, queueVars, parserVars, text, outbox,
                   clientVars, historyVars>>

(* A new parser for the message; its lexer takes the whole stream buffer. *)
BeginParse ==
    /\ pc = "input"
    /\ newInput
    /\ newInput' = FALSE
    /\ text' = sbuf
    /\ sbuf' = <<>>
    /\ part' = "cumulative"
    /\ window' = 0
    /\ term' = NoTerm
    /\ gotStep' = FALSE
    /\ error' = FALSE
    /\ pc' = "parse"
    /\ UNCHANGED <<solverVars, stepVars, model, reading, solverStopped, queueVars, op, inbox, outbox,
                   clientVars, historyVars>>

NoInput ==
    /\ pc = "input"
    /\ ~newInput
    /\ pc' = "decide"
    /\ UNCHANGED <<solverVars, stepVars, flagVars, queueVars, parserVars, text, socketVars, outbox,
                   clientVars, historyVars>>

-------------------------------------------------------------------------------
(* The online parser: one action per line of its grammar. *)

Reading(o) ==
    /\ pc = "parse"
    /\ text # <<>>
    /\ Head(text).op = o
    /\ text' = Tail(text)

(* setStep: the first #step of a message sets the step and the bound; one        *)
(* without a bound gets INT_MAX. *)
BoundFor(n, m) == IF n > IntMax - m THEN IntMax ELSE n + m

SetStep ==
    /\ Reading("step")
    /\ IF gotStep
       THEN /\ Say("warning")
            /\ UNCHANGED <<gotStep, controllerStep, bound>>
       ELSE /\ gotStep' = TRUE
            /\ controllerStep' = Head(text).n
            /\ bound' = BoundFor(Head(text).n, Head(text).m)
            /\ UNCHANGED outbox
    /\ UNCHANGED <<pc, solverVars, incStep, step, flagVars, queueVars, part, window, term, error,
                   socketVars, clientVars, historyVars>>

SetPart(p) ==
    /\ part' = p
    /\ UNCHANGED <<pc, solverVars, stepVars, flagVars, queueVars, gotStep, error, socketVars, outbox,
                   clientVars, historyVars>>

Cumulative ==
    /\ Reading("cumulative")
    /\ SetPart("cumulative")
    /\ UNCHANGED <<window, term>>

(* #volatile. *)
Volatile ==
    /\ Reading("volatile")
    /\ SetPart("volatile")
    /\ UNCHANGED <<window, term>>

(* #volatile : n. *)
VolatileWindow ==
    /\ Reading("window")
    /\ SetPart("volatile")
    /\ window' = Head(text).n
    /\ UNCHANGED term

(* #assert : t. *)
Assert ==
    /\ Reading("assert")
    /\ SetPart("assert")
    /\ term' = Head(text).t
    /\ UNCHANGED window

(* #retract : t.  What it does to the rules of t is in OnlineOutput. *)
Retract ==
    /\ Reading("retract")
    /\ term' = Head(text).t
    /\ UNCHANGED <<pc, solverVars, stepVars, flagVars, queueVars, part, window, gotStep, error,
                   socketVars, outbox, clientVars, historyVars>>

Entry(p, w, t) == [part |-> p, window |-> w, term |-> t, at |-> controllerStep]

(* addStackPtr, savePrematureVol and savePrematureAssertTerm. *)
SavePremature ==
    /\ stacks' = Append(stacks, Len(written) + 1)
    /\ volStack' = Append(volStack, [part |-> part, window |-> window])
    /\ assertStack' = Append(assertStack, term)

(* A rule is printed at once, or kept with the part, window and term it is to    *)
(* be printed with. *)
AddRule ==
    /\ Reading("rule")
    /\ written' = Append(written, Entry(part, window, term))
    /\ IF NeedsNewStep
       THEN SavePremature /\ UNCHANGED printed
       ELSE /\ printed' = Append(printed, Entry(part, window, term))
            /\ UNCHANGED <<stacks, volStack, assertStack>>
    /\ UNCHANGED <<pc, solverVars, stepVars, flagVars, forget, forgetRange, parserVars, socketVars,
                   outbox, clientVars, parsedMessages>>

(* #forget n., which OnlineOutput carries out, unless it has to wait in a slot. *)
Forget ==
    /\ Reading("forget")
    /\ forget' = IF NeedsNewStep THEN Head(text).n ELSE forget
    /\ UNCHANGED <<pc, solverVars, stepVars, flagVars, stacks, volStack, assertStack, forgetRange,
                   parserVars, socketVars, outbox, clientVars, historyVars>>

ForgetRange ==
    /\ Reading("forgetRange")
    /\ forgetRange' = IF NeedsNewStep THEN [from |-> Head(text).n, to |-> Head(text).m] ELSE forgetRange
    /\ UNCHANGED <<pc, solverVars, stepVars, flagVars, stacks, volStack, assertStack, forget,
                   parserVars, socketVars, outbox, clientVars, historyVars>>

(* A statement, or a NUL, that the grammar does not know. *)
SyntaxError ==
    /\ Reading("bad") \/ Reading("nul")
    /\ error' = TRUE
    /\ UNCHANGED <<pc, solverVars, stepVars, flagVars, queueVars, part, window, term, gotStep,
                   socketVars, outbox, clientVars, historyVars>>

(* The parse stops at #endstep: what the lexer holds beyond it goes with the     *)
(* parser. *)
EndStep ==
    /\ pc = "parse"
    /\ text # <<>>
    /\ Head(text).op = "endstep"
    /\ text' = <<>>
    /\ pc' = IF error THEN "failed" ELSE "decide"
    /\ parsedMessages' = parsedMessages + 1
    /\ UNCHANGED <<solverVars, stepVars, flagVars, queueVars, parserVars, socketVars, outbox,
                   clientVars, written, printed>>

(* Mutant: the message after #stop is not over. *)
StopForgotten ==
    /\ pc = "parse"
    /\ text # <<>>
    /\ Head(text).op = "stop"
    /\ text' = <<>>
    /\ pc' = IF error THEN "failed" ELSE "decide"
    /\ parsedMessages' = parsedMessages + 1
    /\ UNCHANGED <<solverVars, stepVars, flagVars, queueVars, parserVars, socketVars, outbox,
                   clientVars, written, printed>>

(* #stop.: read() returns false, and the facade with it. *)
Stop ==
    /\ pc = "parse"
    /\ text # <<>>
    /\ Head(text).op = "stop"
    /\ text' = <<>>
    /\ pc' = IF error THEN "failed" ELSE "done"
    /\ parsedMessages' = parsedMessages + 1
    /\ UNCHANGED <<solverVars, stepVars, flagVars, queueVars, parserVars, socketVars, outbox,
                   clientVars, written, printed>>

(* The loop of parse() does not end with the stream: past it the lexer reads      *)
(* memory that nobody has written, and what follows is undefined. *)
RunPastTheEnd ==
    /\ pc = "parse"
    /\ text = <<>>
    /\ pc' = "stray"
    /\ UNCHANGED <<solverVars, stepVars, flagVars, queueVars, parserVars, text, socketVars, outbox,
                   clientVars, historyVars>>

Parse ==
    \/ SetStep
    \/ Cumulative
    \/ Volatile
    \/ VolatileWindow
    \/ Assert
    \/ Retract
    \/ AddRule
    \/ Forget
    \/ ForgetRange
    \/ SyntaxError
    \/ EndStep
    \/ Stop
    \/ RunPastTheEnd

-------------------------------------------------------------------------------
(* A round: the steps, and what has waited for them. *)

MayStepUnbounded == ~model \/ NeedsNewStep        \* mutant: the bound is not obeyed

MayStepNoModel == incStep < bound /\ ~model       \* mutant: the controller is not obeyed

MayStepOnDemand == incStep < bound /\ NeedsNewStep  \* mutant: no step without being asked

(* "do new step only if bound is obeyed and if there's no model or the            *)
(* controller needs new step" *)
MayStep == incStep < bound /\ (~model \/ NeedsNewStep)

Decide ==
    /\ pc = "decide"
    /\ IF MayStep
       THEN pc' = "ground" /\ UNCHANGED model
       ELSE pc' = "preprocess" /\ model' = FALSE      \* endIteration
    /\ UNCHANGED <<solverVars, stepVars, reading, newInput, solverStopped, queueVars, parserVars, text,
                   socketVars, outbox, clientVars, historyVars>>

(* endStep() *)
CountStep ==
    /\ model' = FALSE
    /\ step' = step + 1

(* groundStep and endStep, until the step of the controller is reached. *)
GroundStep ==
    /\ pc = "ground"
    /\ incStep' = incStep + 1
    /\ CountStep
    /\ pc' = IF incStep + 1 < controllerStep THEN "ground" ELSE "premature"
    /\ UNCHANGED <<solverVars, controllerStep, bound, reading, newInput, solverStopped, queueVars,
                   parserVars, text, socketVars, outbox, clientVars, historyVars>>

PrematureInFirstPart == Entry("cumulative", Head(volStack).window, Head(assertStack))  \* mutant: no setPart

PrematureEntry == Entry(Head(volStack).part, Head(volStack).window, Head(assertStack))

(* addPrematureKnowledge: the first rule that waits. *)
AddPrematureRule ==
    /\ pc = "premature"
    /\ controllerStep = step
    /\ stacks # <<>>
    /\ printed' = Append(printed, PrematureEntry)
    /\ stacks' = Tail(stacks)
    /\ volStack' = Tail(volStack)
    /\ assertStack' = Tail(assertStack)
    /\ UNCHANGED <<pc, solverVars, stepVars, flagVars, forget, forgetRange, parserVars, text,
                   socketVars, outbox, clientVars, parsedMessages, written>>

(* No rule waits any more: the slots of #forget. *)
EndPremature ==
    /\ pc = "premature"
    /\ controllerStep # step \/ stacks = <<>>
    /\ IF controllerStep = step
       THEN /\ forget' = 0
            /\ forgetRange' = IF forgetRange.from # 0 THEN [from |-> 0, to |-> 0] ELSE forgetRange
       ELSE UNCHANGED <<forget, forgetRange>>
    /\ pc' = "preprocess"
    /\ UNCHANGED <<solverVars, stepVars, flagVars, stacks, volStack, assertStack, parserVars, text,
                   socketVars, outbox, clientVars, historyVars>>

-------------------------------------------------------------------------------
(* clasp and its facade, as far as the server uses them. *)

(* A program that is unsatisfiable for good is not solved. *)
Preprocess ==
    /\ pc = "preprocess"
    /\ \/ /\ ~conflict
          /\ pc' = "solve"
          /\ result' = "unknown"
          /\ UNCHANGED conflict
       \/ /\ conflict' = TRUE
          /\ result' = "unsat"
          /\ pc' = "next"
    /\ stopped' = FALSE
    /\ UNCHANGED <<rounds, stepVars, flagVars, queueVars, parserVars, text, socketVars, outbox,
                   clientVars, historyVars>>

(* PostPropagator::propagate, when poll_one runs a handler: the solver gets the  *)
(* stop conflict, once per round. *)
Poll ==
    /\ pc = "solve"
    /\ \/ /\ RunHandler
          /\ stopped' = (stopped \/ ~solverStopped)
          /\ solverStopped' = TRUE
          /\ UNCHANGED pc
       \/ /\ ConnectionClosed
          /\ pc' = "failed"
          /\ UNCHANGED <<reading, newInput, socketVars, stopped, solverStopped>>
    /\ UNCHANGED <<rounds, conflict, result, stepVars, model, queueVars, parserVars, text, outbox,
                   clientVars, historyVars>>

(* event_model: sendModel.  All models of a solving count as one. *)
FindModel ==
    /\ pc = "solve"
    /\ ~stopped
    /\ result = "unknown"
    /\ result' = "sat"
    /\ Say("model")
    /\ model' = TRUE
    /\ UNCHANGED <<pc, rounds, conflict, stopped, stepVars, reading, newInput, solverStopped, queueVars,
                   parserVars, text, socketVars, clientVars, historyVars>>

SolveEnd ==
    /\ pc = "solve"
    /\ \/ /\ result = "unknown"
          /\ ~stopped
          /\ result' = "unsat"
          /\ conflict' \in BOOLEAN
       \/ /\ result = "sat" \/ stopped
          /\ UNCHANGED <<result, conflict>>
    /\ pc' = "next"
    /\ UNCHANGED <<rounds, stopped, stepVars, flagVars, queueVars, parserVars, text, socketVars, outbox,
                   clientVars, historyVars>>

(* nextStep: the facade goes on unless the rounds are used up. *)
NextRound ==
    /\ pc = "next"
    /\ rounds' = IF rounds = 0 THEN 0 ELSE rounds - 1
    /\ pc' = IF rounds = 1 THEN "done" ELSE "read"
    /\ UNCHANGED <<conflict, result, stopped, stepVars, flagVars, queueVars, parserVars, text,
                   socketVars, outbox, clientVars, historyVars>>

ServerNext ==
    \/ ReportConflict
    \/ CheckBound
    \/ Get
    \/ AddInput
    \/ RunOne
    \/ BeginParse
    \/ NoInput
    \/ Parse
    \/ Decide
    \/ GroundStep
    \/ AddPrematureRule
    \/ EndPremature
    \/ Preprocess
    \/ Poll
    \/ FindModel
    \/ SolveEnd
    \/ NextRound

-------------------------------------------------------------------------------
(* Any client. *)

serverVars == <<pc, solverVars, stepVars, flagVars, queueVars, parserVars, text, op, sbuf, historyVars>>

ClientSend(m) ==
    /\ open
    /\ sentMessages < MaxMessages
    /\ sentMessages' = sentMessages + 1
    /\ inbox' = inbox \o Append(m, NUL)
    /\ UNCHANGED <<serverVars, outbox, open>>

ClientReceive ==
    /\ open
    /\ outbox # <<>>
    /\ outbox' = Tail(outbox)
    /\ UNCHANGED <<serverVars, inbox, clientVars>>

ClientClose ==
    /\ open
    /\ open' = FALSE
    /\ outbox' = <<>>
    /\ UNCHANGED <<serverVars, inbox, sentMessages>>

ClientNext ==
    \/ \E m \in Messages : ClientSend(m)
    \/ ClientReceive
    \/ ClientClose

Next == ServerNext \/ ClientNext

Spec == Init /\ [][Next]_vars
-------------------------------------------------------------------------------
(* Properties. *)

(* step_ of the session and incStep of the grounder are two counters that two    *)
(* classes advance; windows are computed from one and guards from the other.     *)
(* They never part (endStep and the grounding loop of read()).                   *)
StepsMirror == step = incStep

(* The three queues of what waits always hold the same rules: the assertions of  *)
(* addPrematureKnowledge.                                                        *)
QueuesParallel ==
    /\ Len(stacks) = Len(volStack)
    /\ Len(stacks) = Len(assertStack)

(* Rules reach the output in the order of the text, each with the part, window,  *)
(* term and controller step it was written under, whether it had to wait or not: *)
(* what was parsed is what was printed, followed by what waits (add,             *)
(* savePrematureVol, savePrematureAssertTerm, addPrematureKnowledge).            *)
RulesAsWritten ==
    /\ Len(written) = Len(printed) + Len(stacks)
    /\ \A i \in 1..Len(printed) : printed[i] = written[i]
    /\ \A i \in 1..Len(stacks) :
        /\ stacks[i] = Len(printed) + i
        /\ written[stacks[i]].part = volStack[i].part
        /\ written[stacks[i]].window = volStack[i].window
        /\ written[stacks[i]].term = assertStack[i]
        /\ written[stacks[i]].at = controllerStep

(* clasp only ever solves a program that has reached the step of the controller  *)
(* and to which everything that waited for that step was added.                  *)
ReadyToSolve ==
    pc \in {"solve", "next", "read", "get", "addInput", "wait", "input"} =>
        /\ incStep >= controllerStep
        /\ stacks = <<>>
        /\ forget = 0
        /\ forgetRange.from = 0

(* A step is grounded only within the bound of the controller (the comment at    *)
(* the grounding loop of read()), and so no counter passes INT_MAX.              *)
BoundObeyed == [][incStep' # incStep => incStep' <= bound]_vars

(* A rule of a message that asks for a later step is printed only once that step *)
(* is grounded, "so externals are declared" (OnlineParser::add).                 *)
PrintedInTime == [][printed' # printed => controllerStep <= step]_vars

(* The flag reading_ tells whether a read is outstanding: never two reads of one *)
(* stream buffer, never a wait for a read that was not started.                  *)
OneRead ==
    /\ reading <=> op # "none"
    /\ pc = "wait" => reading

(* A message that is complete while clasp solves stops it, in every round and    *)
(* whatever was polled before (poll, get, propagate).                            *)
InputStopsSolver == pc = "solve" /\ newInput => stopped

-------------------------------------------------------------------------------
(* What the code says of itself and keeps with a client that takes turns and     *)
(* whose messages come in one piece. *)

(* "stop at ENDSTEP because socket stream will not return EOI" (parse): whenever *)
(* the parser runs, there is an end in front of it.                              *)
ParserSeesEnd == pc # "stray"

(* The ends of messages in a buffer. *)
Ends(buffer) == {i \in 1..Len(buffer) : buffer[i] = NUL}

-------------------------------------------------------------------------------
(* The inductive invariant behind these properties. *)

Waiting == stacks # <<>> \/ forget # 0 \/ forgetRange.from # 0

(* What waits, waits for the step of the controller, which is ahead of the       *)
(* server until the grounding loop has reached it. *)
WaitsForStep ==
    /\ pc \in {"parse", "decide", "ground"} /\ Waiting => controllerStep > step
    /\ pc = "parse" /\ ~gotStep => controllerStep <= step
    /\ pc = "premature" =>
        /\ controllerStep <= step
        /\ Waiting => controllerStep = step
    /\ pc \in {"preprocess", "solve", "next", "read", "get", "addInput", "wait", "input"} =>
        /\ controllerStep <= step
        /\ ~Waiting

(* The bound covers the step of the controller, and the grounding loop stays     *)
(* below it. *)
BoundCovers ==
    /\ controllerStep <= bound
    /\ pc = "ground" => incStep < bound

StepInv == TypeOK /\ QueuesParallel /\ StepsMirror /\ WaitsForStep /\ BoundCovers

RuleInv == StepInv /\ RulesAsWritten

(* From get() to the solver, nothing has been polled. *)
PollInv ==
    /\ OneRead
    /\ pc = "addInput" => reading
    /\ pc \in {"addInput", "wait", "input", "parse", "decide", "ground", "premature"} => ~solverStopped
    /\ pc \in {"parse", "decide", "ground", "premature"} => ~newInput
    /\ pc = "preprocess" => conflict \/ (~solverStopped /\ ~newInput)
    /\ pc = "solve" => (solverStopped \/ newInput => stopped)
===============================================================================
