------------------------------- MODULE MCSession ------------------------------
(* The messages with which TLC checks Session, and Controller through MCController. *)
EXTENDS Session

S(o)         == [op |-> o, n |-> 0, m |-> 0, t |-> NoTerm]
Num(o, n)    == [op |-> o, n |-> n, m |-> 0, t |-> NoTerm]
Two(o, n, m) == [op |-> o, n |-> n, m |-> m, t |-> NoTerm]
Of(o, t)     == [op |-> o, n |-> 0, m |-> 0, t |-> t]

T1 == CHOOSE t \in Terms : TRUE

Step(n) == Two("step", n, IntMax)    \* #step n. without a bound

(* Rules of several parts that wait for a step two ahead, one of a term that is  *)
(* retracted meanwhile. *)
Ahead    == <<Step(3), S("rule"), Of("assert", T1), S("rule"), Of("retract", T1),
              Num("forget", 1), S("endstep")>>
(* The next step and no further, a rule for that step alone, an asserted rule, a *)
(* range to forget. *)
Bounded  == <<Two("step", 2, 0), Num("window", 1), S("rule"), Of("assert", T1), S("rule"),
              Two("forgetRange", 1, 2), S("endstep")>>
(* A rule before #step, a step of the past, a second #step, a term to retract,    *)
(* parts that change. *)
Back     == <<S("rule"), Step(1), Step(2), Of("retract", T1), S("volatile"), S("rule"),
              S("cumulative"), S("endstep")>>
(* A message that does not parse. *)
Garbled  == <<S("bad"), Of("retract", T1), S("endstep")>>
Stopping == <<S("stop")>>

AllMessages     == {Ahead, Bounded, Back, Garbled, Stopping}
LoopMessages    == {Ahead, Bounded, Back, Stopping}
===============================================================================
