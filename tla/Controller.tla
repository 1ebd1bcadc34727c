------------------------------ MODULE Controller ------------------------------
(* A session with the controller of the repository, examples/oclingo/controller.py. *)
(*                                                                               *)
(* With --wait=yes it takes turns with the server: it reads reports until one    *)
(* says that the step is over ("End of Step." or "UNSAT at step n"), then sends  *)
(* one message.  With --wait=no a thread of its own sends messages at any time,  *)
(* while the main thread reads reports.                                          *)
EXTENDS Session, FiniteSets

CONSTANT Waits  \* the values of --wait

(* A message with its delimiter, or what is left of it: it has one end, as its    *)
(* last statement. *)
Complete(b) ==
    /\ Len(b) >= 2
    /\ b[Len(b)] = NUL
    /\ b[Len(b) - 1].op \in {"endstep", "stop"}
    /\ \A i \in 1..Len(b) - 2 : b[i].op \notin {"endstep", "stop", "nul"}

(* getInput reads up to "#endstep." or "#stop.". *)
ASSUME ControllerAssumption ==
    /\ Waits \subseteq BOOLEAN
    /\ \A m \in Messages : Complete(Append(m, NUL))

VARIABLES
    wait,           \* opt.wait
    turn,           \* listen: in getAnswerSets; talk: in getInput; gone
    haveAnswerSet,  \* have_answer_set
    stopSent        \* "#stop." was written to the socket

controllerVars == <<wait, turn, haveAnswerSet, stopSent>>
allVars == <<vars, controllerVars>>

ControllerInit ==
    /\ Init
    /\ wait \in Waits
    /\ turn = "listen"
    /\ haveAnswerSet = FALSE
    /\ stopSent = FALSE

Terminal == pc \in {"done", "failed", "stray"}

IsStop(m) == Head(m).op = "stop"

StepReport(report) == report \in {"end", "unsat"}

(* getAnswerSets and main: the report that ends a step. *)
ReceiveStep ==
    /\ turn = "listen"
    /\ outbox # <<>>
    /\ StepReport(Head(outbox))
    /\ ClientReceive
    /\ turn' = IF wait THEN "talk" ELSE "listen"
    /\ haveAnswerSet' = TRUE
    /\ UNCHANGED <<wait, stopSent>>

Fatal(report) == report = "error"

(* Any other report but an error; a warning is printed. *)
ReceiveOther ==
    /\ turn = "listen"
    /\ outbox # <<>>
    /\ ~StepReport(Head(outbox))
    /\ ~Fatal(Head(outbox))
    /\ ClientReceive
    /\ UNCHANGED controllerVars

(* "Error: ...", and the end of the stream: an exception that main does not       *)
(* catch. *)
Die ==
    /\ turn = "listen"
    /\ IF outbox = <<>> THEN Terminal ELSE Fatal(Head(outbox))
    /\ ClientClose
    /\ turn' = "gone"
    /\ UNCHANGED <<wait, haveAnswerSet, stopSent>>

(* sendInput: the message and, if it is "#stop.", the end of the controller. *)
SendInput(m) ==
    /\ wait
    /\ turn = "talk"
    /\ open
    /\ sentMessages < MaxMessages
    /\ sentMessages' = sentMessages + 1
    /\ inbox' = inbox \o Append(m, NUL)
    /\ IF IsStop(m)
       THEN /\ open' = FALSE
            /\ outbox' = <<>>
            /\ turn' = "gone"
            /\ stopSent' = TRUE
       ELSE /\ UNCHANGED <<open, outbox>>
            /\ turn' = "listen"
            /\ UNCHANGED stopSent
    /\ UNCHANGED <<serverVars, wait, haveAnswerSet>>

(* InputThread: a message at any time. *)
ThreadSends(m) ==
    /\ ~wait
    /\ turn # "gone"
    /\ ~IsStop(m)
    /\ ClientSend(m)
    /\ UNCHANGED controllerVars

(* InputThread, given "#stop.": endProgram shuts the socket down and closes it.   *)
(* The main thread sends "#stop." only once the thread is dead, into the closed   *)
(* socket, and leaves.                                                            *)
ThreadStops ==
    /\ ~wait
    /\ turn # "gone"
    /\ haveAnswerSet
    /\ ClientClose
    /\ turn' = "gone"
    /\ UNCHANGED <<wait, haveAnswerSet, stopSent>>

ControllerNext ==
    \/ ReceiveStep
    \/ ReceiveOther
    \/ Die
    \/ \E m \in Messages : SendInput(m)
    \/ \E m \in Messages : ThreadSends(m)
    \/ ThreadStops

(* Both have come to their end. *)
Finished ==
    /\ Terminal
    /\ turn = "gone" \/ ~open
    /\ UNCHANGED allVars

(* The user has nothing more to say: the bound on messages. *)
Silent ==
    /\ IF wait THEN turn = "talk" ELSE turn = "listen"
    /\ sentMessages = MaxMessages
    /\ UNCHANGED allVars

SystemNext ==
    \/ ServerNext /\ UNCHANGED controllerVars
    \/ ControllerNext
    \/ Finished
    \/ Silent

(* The server runs and its solver terminates; the controller reads what it is    *)
(* sent.  Nobody is obliged to send.                                             *)
Fairness ==
    /\ WF_allVars(ServerNext /\ UNCHANGED controllerVars)
    /\ WF_allVars(ReceiveStep \/ ReceiveOther \/ Die)

SystemSpec == ControllerInit /\ [][SystemNext]_allVars /\ Fairness
-------------------------------------------------------------------------------
(* Properties. *)

(* Taking turns, what has been sent is parsed or on its way: no message is lost,  *)
(* and whenever the parser runs there is a whole one in front of it.             *)
MessagesKept ==
    wait => ParserSeesEnd /\ (~conflict /\ ~Terminal =>
        Cardinality(Ends(inbox)) + Cardinality(Ends(sbuf))
            + (IF pc = "parse" THEN Cardinality(Ends(text)) ELSE 0) + parsedMessages = sentMessages)

(* Taking turns, the controller is told the end of a step only when all it has   *)
(* sent has been parsed: an answer never belongs to an earlier message.          *)
AnswersFresh == wait /\ turn = "talk" => parsedMessages = sentMessages

(* "inform controller in case there are no models within set bound" (read):      *)
(* taking turns, UNSAT is reported only if clasp has searched and found none.    *)
UnsatMeansUnsat ==
    [][wait /\ pc = "read" /\ outbox' = Append(outbox, "unsat") => result = "unsat"]_allVars

(* A message is parsed in the end, unless the program has no answer set any more *)
(* or an earlier message was in error. *)
MessageParsed ==
    \A k \in 1..MaxMessages :
        wait /\ sentMessages = k ~> parsedMessages >= k \/ conflict \/ pc = "failed"

(* It becomes the controller's turn again, or it learns why it does not. *)
TurnsComeBack == (wait /\ turn = "listen") ~> (turn # "listen")

(* A step the controller asks for is grounded. *)
StepReached ==
    \A n \in 1..IntMax : (pc = "decide" /\ controllerStep = n /\ incStep < n) ~> (incStep >= n)

(* "#stop." ends the server. *)
StopObeyed == stopSent ~> pc = "done" \/ conflict
-------------------------------------------------------------------------------
(* The inductive invariant behind the safety properties: where the one message   *)
(* that may be under way is, and who has the turn. *)

UnderWay == sentMessages # parsedMessages

(* The end of a step has been told, and the controller has not read it yet. *)
Told == \E i \in 1..Len(outbox) : StepReport(outbox[i])

(* It is the controller that the server waits for, or will. *)
Asked == Told \/ turn = "talk" \/ UnderWay

TellsOnce == \A i, j \in 1..Len(outbox) : StepReport(outbox[i]) /\ StepReport(outbox[j]) => i = j

OneAtATime ==
    /\ UnderWay => sentMessages = parsedMessages + 1 /\ turn # "talk" /\ ~Told
    /\ Told => turn = "listen"
    /\ TellsOnce
    /\ open <=> turn # "gone"
    /\ turn = "gone" => outbox = <<>>
    /\ turn \in {"listen", "talk", "gone"}

(* In the socket, in the stream buffer, or in front of the parser. *)
Located ==
    /\ op # "ready"
    /\ IF UnderWay
       THEN \/ pc \in {"get", "addInput", "wait"} /\ Complete(inbox) /\ sbuf = <<>> /\ ~newInput
            \/ pc = "input" /\ inbox = <<>> /\ Complete(sbuf) /\ newInput
            \/ pc = "parse" /\ inbox = <<>> /\ sbuf = <<>> /\ Complete(text) /\ ~newInput
       ELSE inbox = <<>> /\ sbuf = <<>> /\ ~newInput /\ pc # "parse"

AsksInTurn ==
    /\ pc \in {"read", "decide", "ground", "premature", "preprocess", "solve", "next", "done"} => ~Asked
    /\ pc = "failed" => ~Told /\ turn # "talk" /\ ~UnderWay
    /\ pc \in {"get", "addInput"} /\ Asked => ~model /\ step >= bound
    /\ pc = "input" /\ ~newInput => ~Asked
    /\ pc # "stray"

Searched ==
    /\ conflict => pc \in {"read", "preprocess", "next", "done"}
    /\ pc \in {"premature", "preprocess"} => ~model \/ conflict
    /\ pc = "solve" => ~stopped /\ result # "unsat" /\ (model <=> result = "sat")
    /\ pc \in {"next", "read"} => conflict \/ model \/ result = "unsat"

TurnInv == wait => OneAtATime /\ Located /\ AsksInTurn /\ Searched
===============================================================================
