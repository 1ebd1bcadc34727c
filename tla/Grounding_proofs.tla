-------------------------- MODULE Grounding_proofs --------------------------
(* Proofs about Grounding: semi-naive instantiation misses no instance and *)
(* grounds none twice.                                                     *)
(*                                                                         *)
(* An atom of a domain is an entry of every index that was shown it, or it *)
(* waits to be passed on by the statement that runs; a statement that has  *)
(* new entries is queued or runs; and in a run the search knows which      *)
(* instances it has left behind.  What is behind becomes past when the     *)
(* statement is through, and what is past is not grounded again.           *)
EXTENDS Grounding, FiniteSetTheorems, SequenceTheorems, WellFoundedInduction, TLAPS

(* The levels of the literals that are joined, and of #cumulative.         *)
PosLevels(r) == {l \in 2 .. Len(Body(r)) + 1 : Lit(r, l).kind = "pos"}
IncLevels(r) == {l \in 2 .. Len(Body(r)) + 1 : Lit(r, l).kind = "inc"}
NegLevels(r) == {l \in 2 .. Len(Body(r)) + 1 : Lit(r, l).kind = "neg"}

Tuples(p) == [1 .. prog.arity[p] -> Consts]
PredAt(r, l) == Lit(r, l).pred
TupleAt(r, l, env) == Apply(Lit(r, l), env)
Entries(r, l) == idx[r][l].entries
Finished(r, l) == idx[r][l].finished
Scanned(r, l) == idx[r][l].lastExtend
Ready(r) == idx[r] # NoIndex
StepVar(r, l) == Lit(r, l).args[1]

(* A tuple that the literal of a level matches.                            *)
Fits(r, l, tuple) == \E env \in Instances(r) : tuple = TupleAt(r, l, env)

(* A level has something that has not been joined.                         *)
NewIn(r, inst, l) ==
    \/ l = 1 /\ ~inst[1].finished
    \/ l \in PosLevels(r) /\ \E p \in inst[l].finished + 1 .. Len(inst[l].entries) : Fits(r, l, inst[l].entries[p])
    \/ l \in IncLevels(r) /\ inst[l].finished # step
NewLevel(r, l) == NewIn(r, idx[r], l)

Current == IF step = 0 THEN prog.base ELSE prog.cumulative
Running == run # NoRun
Active(r) == (\E i \in DOMAIN queue : queue[i] = r) \/ (Running /\ run.stm = r)

------------------------------------------------------------------------------
ProgramRight == prog \in Programs /\ reach = Reach /\ step \in 0 .. MaxStep

DomRight ==
    /\ DOMAIN dom = DOMAIN prog.arity
    /\ \A p \in DOMAIN prog.arity : dom[p] \in Seq(Tuples(p)) /\ IsInjective(dom[p])

(* An index has the tuples it was shown, each once, and whatever fits.     *)
IndexRight(r, l) ==
    /\ idx[r][l] \in [entries : Seq(Tuples(PredAt(r, l))), finished : Nat, lastExtend : Nat]
    /\ Finished(r, l) <= Len(Entries(r, l))
    /\ Scanned(r, l) <= Len(dom[PredAt(r, l)])
    /\ IsInjective(Entries(r, l))
    /\ \A p \in 1 .. Len(Entries(r, l)) : \E q \in 1 .. Scanned(r, l) : Entries(r, l)[p] = dom[PredAt(r, l)][q]
    /\ \A q \in 1 .. Scanned(r, l) : Fits(r, l, dom[PredAt(r, l)][q]) =>
            \E p \in 1 .. Len(Entries(r, l)) : Entries(r, l)[p] = dom[PredAt(r, l)][q]

InstRight(r) ==
    /\ DOMAIN idx[r] = Levels(r)
    /\ idx[r][1] \in [finished : BOOLEAN]
    /\ \A l \in PosLevels(r) : IndexRight(r, l)
    /\ \A l \in IncLevels(r) : idx[r][l] \in [finished : 0 .. step]

IdxRight == DOMAIN idx = Names /\ \A r \in Names : Ready(r) => InstRight(r)

(* What waits for the end of the statement that runs.                      *)
StartRight ==
    /\ startNew \in [Names -> Nat]
    /\ \A r \in Names : startNew[r] # 0 =>
            /\ Running /\ run.stm = r /\ HasHead(r)
            /\ startNew[r] <= Len(dom[HeadOf(r).pred])
            /\ \A s \in Names : \A l \in PosLevels(s) :
                    Ready(s) /\ PredAt(s, l) = HeadOf(r).pred => Scanned(s, l) < startNew[r]

OrderRight ==
    /\ comps \in Seq(SUBSET Names)
    /\ \A i \in 1 .. Len(comps) : \E s \in Current : comps[i] = Component(s)
    /\ \A i, j \in 1 .. Len(comps) : i < j => \A s \in comps[i] : reach[s] \cap comps[j] = {}
    /\ \A s \in done : \A j \in 1 .. Len(comps) : reach[s] \cap comps[j] = {}
    /\ done \subseteq Names
    /\ \A s \in done : Component(s) \subseteq done /\ Ready(s)

ActiveRight ==
    /\ queue \in Seq(Names)
    /\ \A r \in Names : Active(r) =>
            r \in done /\ r \in Current /\ \A s \in done : r \in reach[s] => s \in Component(r)

QuietRight == \A r \in done : Active(r) \/ \A l \in Levels(r) : ~NewLevel(r, l)

Waiting(s, l, q) ==
    /\ Running /\ startNew[run.stm] \in 1 .. q
    /\ HeadOf(run.stm).pred = PredAt(s, l)
    /\ <<s, l>> \in ProvidedBy(run.stm)

CoveredRight ==
    \A s \in done : ~Overtaken(s) =>
        \A l \in PosLevels(s) : \A q \in Scanned(s, l) + 1 .. Len(dom[PredAt(s, l)]) :
            Fits(s, l, dom[PredAt(s, l)][q]) => Waiting(s, l, q)

------------------------------------------------------------------------------
(* How far the levels of a join agree with an instance.                    *)
Joins(r, cur, k, env) ==
    \A i \in 2 .. k :
        /\ i \in PosLevels(r) => cur[i] \in 1 .. Len(Entries(r, i)) /\ Entries(r, i)[cur[i]] = TupleAt(r, i, env)
        /\ i \in IncLevels(r) => env[StepVar(r, i)] = step

Depth(rn) == IF rn.matched THEN rn.l ELSE rn.l - 1

NewAt(r, cur, i) ==
    \/ i = 1 /\ ~idx[r][1].finished
    \/ i \in PosLevels(r) /\ cur[i] > Finished(r, i)
    \/ i \in IncLevels(r) /\ Finished(r, i) # step

NewSet(new, k) == {i \in 1 .. k : new[i]}

RunSet(r) == [stm : {r}, l : 0 .. Len(Body(r)) + 2, matched : BOOLEAN, cur : [Levels(r) -> Nat],
              new : [Levels(r) -> BOOLEAN], numNew : Int, lastNew : 0 .. Len(Body(r)) + 1]

PathRight(rn) ==
    /\ rn \in RunSet(rn.stm) /\ rn.stm \in Names
    /\ rn.l = 0 => rn.matched
    /\ rn.l = Len(Body(rn.stm)) + 2 => ~rn.matched
    /\ \E env \in Instances(rn.stm) : Joins(rn.stm, rn.cur, Depth(rn), env)
    /\ \A i \in 1 .. Depth(rn) : rn.new[i] <=> NewAt(rn.stm, rn.cur, i)
    /\ rn.numNew = Cardinality(NewSet(rn.new, Depth(rn)))
    /\ rn.lastNew # 0 => NewLevel(rn.stm, rn.lastNew)
    /\ \A l \in Levels(rn.stm) : NewLevel(rn.stm, l) => l <= rn.lastNew
    /\ rn.l > rn.lastNew => rn.numNew > 0

(* The instances that the search has left behind.                          *)
Behind(rn, env) ==
    \/ \E j \in 2 .. Depth(rn) :
            /\ j \in PosLevels(rn.stm)
            /\ Joins(rn.stm, rn.cur, j - 1, env)
            /\ \E p \in rn.cur[j] + 1 .. Len(Entries(rn.stm, j)) : Entries(rn.stm, j)[p] = TupleAt(rn.stm, j, env)
    \/ ~rn.matched /\ Joins(rn.stm, rn.cur, Depth(rn), env)

InEntries(r, env) ==
    \A l \in PosLevels(r) : \E p \in 1 .. Len(Entries(r, l)) : Entries(r, l)[p] = TupleAt(r, l, env)

StepIs(r, env) == \A l \in IncLevels(r) : env[StepVar(r, l)] = step

(* The instances that had been joined when the statement was through.      *)
Past(r, env) ==
    /\ idx[r][1].finished
    /\ \A l \in PosLevels(r) : \E p \in 1 .. Finished(r, l) : Entries(r, l)[p] = TupleAt(r, l, env)
    /\ \A l \in IncLevels(r) : env[StepVar(r, l)] <= Finished(r, l)

Unblocked(r, env) == \A l \in NegLevels(r) : Atom(Lit(r, l), env) \notin fact

Seen(r, env) == Running /\ run.stm = r /\ InEntries(r, env) /\ StepIs(r, env) /\ Behind(run, env)

RunRight == Running => PathRight(run)

TwiceRight ==
    /\ grounded \in Seq(UNION {{r} \X Instances(r) : r \in Names})
    /\ \A i \in DOMAIN grounded :
            /\ Ready(grounded[i][1])
            /\ Past(grounded[i][1], grounded[i][2]) \/ Seen(grounded[i][1], grounded[i][2])

MissedRight ==
    \A r \in Names : Ready(r) => \A env \in Instances(r) :
        /\ StepIs(r, env) /\ Unblocked(r, env)
        /\ Past(r, env) \/ Seen(r, env)
        => \E i \in DOMAIN grounded : grounded[i] = <<r, env>>
------------------------------------------------------------------------------
(* Literals and the tuples they match.                                     *)
LEMMA MatchedAt ==
  ASSUME NEW lit, NEW n \in Nat, lit.args \in [1 .. n -> Int],
         NEW V, VarsOf(lit) \subseteq V, NEW env \in [V -> Consts],
         \A i \in DOMAIN lit.args : IsVar(lit.args[i]) \/ lit.args[i] \in Consts
  PROVE  \A v \in VarsOf(lit) : Binding(lit, Apply(lit, env))[v] = env[v]
<1> SUFFICES ASSUME NEW v \in VarsOf(lit) PROVE Binding(lit, Apply(lit, env))[v] = env[v]
  OBVIOUS
<1>1. DOMAIN lit.args = 1 .. n
  OBVIOUS
<1>2. PICK j \in 1 .. n : lit.args[j] = v
  BY <1>1 DEF VarsOf, ToSet
<1>3. PICK i \in 1 .. n : i = CHOOSE k \in DOMAIN lit.args : lit.args[k] = v
  BY <1>1, <1>2
<1>4. lit.args[i] = v
  BY <1>1, <1>2, <1>3
<1>5. Binding(lit, Apply(lit, env))[v] = Apply(lit, env)[i]
  BY <1>3 DEF Binding
<1>6. Apply(lit, env)[i] = Value(lit.args[i], env) /\ IsVar(v)
  BY <1>1 DEF Apply, VarsOf
<1> QED
  BY <1>4, <1>5, <1>6 DEF Value

LEMMA Matched ==
  ASSUME NEW lit, NEW n \in Nat, lit.args \in [1 .. n -> Int],
         NEW V, VarsOf(lit) \subseteq V, NEW env \in [V -> Consts],
         \A i \in DOMAIN lit.args : IsVar(lit.args[i]) \/ lit.args[i] \in Consts
  PROVE  Apply(lit, env) \in [1 .. n -> Consts] /\ Unifies(lit, Apply(lit, env))
<1>1. DOMAIN lit.args = 1 .. n
  OBVIOUS
<1>2. \A i \in 1 .. n : IsVar(lit.args[i]) => lit.args[i] \in VarsOf(lit)
  BY <1>1 DEF VarsOf, ToSet
<1>3. \A i \in 1 .. n : Value(lit.args[i], env) \in Consts
  BY <1>1, <1>2 DEF Value
<1>4. \A i \in 1 .. n : Apply(lit, env)[i] = Value(lit.args[i], env)
  BY <1>1 DEF Apply
<1>5. Apply(lit, env) \in [1 .. n -> Consts]
  BY <1>1, <1>3 DEF Apply
<1>6. \A v \in VarsOf(lit) : Binding(lit, Apply(lit, env))[v] = env[v]
  BY MatchedAt
<1>7. ASSUME NEW i \in 1 .. n PROVE Apply(lit, env)[i] = Value(lit.args[i], Binding(lit, Apply(lit, env)))
  BY <1>2, <1>4, <1>6 DEF Value
<1>8. Unifies(lit, Apply(lit, env))
  BY <1>1, <1>7 DEF Unifies
<1> QED
  BY <1>5, <1>8

LEMMA Unified ==
  ASSUME NEW lit, NEW n \in Nat, lit.args \in [1 .. n -> Int],
         NEW V, VarsOf(lit) \subseteq V, NEW env \in [V -> Consts],
         NEW tuple \in [1 .. n -> Consts], Unifies(lit, tuple),
         \A v \in VarsOf(lit) : env[v] = Binding(lit, tuple)[v]
  PROVE  Apply(lit, env) = tuple
<1>1. DOMAIN lit.args = 1 .. n
  OBVIOUS
<1>2. \A i \in 1 .. n : IsVar(lit.args[i]) => lit.args[i] \in VarsOf(lit)
  BY <1>1 DEF VarsOf, ToSet
<1>3. ASSUME NEW i \in 1 .. n PROVE Apply(lit, env)[i] = tuple[i]
  BY <1>1, <1>2 DEF Apply, Value, Unifies
<1>4. DOMAIN Apply(lit, env) = 1 .. n
  BY <1>1 DEF Apply
<1>5. Apply(lit, env) = [i \in 1 .. n |-> Apply(lit, env)[i]]
  BY <1>1, <1>4 DEF Apply
<1>6. tuple = [i \in 1 .. n |-> tuple[i]]
  OBVIOUS
<1> QED
  BY <1>3, <1>5, <1>6

LEMMA BindingType ==
  ASSUME NEW lit, NEW n \in Nat, lit.args \in [1 .. n -> Int], NEW tuple \in [1 .. n -> Consts]
  PROVE  \A v \in VarsOf(lit) : Binding(lit, tuple)[v] \in Consts
<1> SUFFICES ASSUME NEW v \in VarsOf(lit) PROVE Binding(lit, tuple)[v] \in Consts
  OBVIOUS
<1>1. PICK j \in 1 .. n : lit.args[j] = v
  BY DEF VarsOf, ToSet
<1>2. PICK i \in 1 .. n : i = CHOOSE k \in DOMAIN lit.args : lit.args[k] = v
  BY <1>1
<1>3. Binding(lit, tuple)[v] = tuple[i]
  BY <1>2 DEF Binding
<1> QED
  BY <1>3

(* What the assumption on the programs says of the levels of a rule.       *)
BodyRight(r) ==
    /\ Len(Body(r)) \in Nat /\ DOMAIN Body(r) = 1 .. Len(Body(r))
    /\ \A l \in 2 .. Len(Body(r)) + 1 : l \in PosLevels(r) \/ l \in IncLevels(r) \/ l \in NegLevels(r)
    /\ \A l \in PosLevels(r) \cup NegLevels(r) :
            /\ PredAt(r, l) \in DOMAIN prog.arity
            /\ Lit(r, l).args \in [1 .. prog.arity[PredAt(r, l)] -> Int]
            /\ \A i \in DOMAIN Lit(r, l).args : IsVar(Lit(r, l).args[i]) \/ Lit(r, l).args[i] \in Consts
    /\ \A l \in 2 .. Len(Body(r)) + 1 : VarsOf(Lit(r, l)) \subseteq VarsIn(r)
    /\ \A l \in IncLevels(r) :
            /\ r \in prog.cumulative /\ VarsOf(Lit(r, l)) = {StepVar(r, l)}
            /\ \A j \in PosLevels(r) : j < l => StepVar(r, l) \notin VarsOf(Lit(r, j))

Binds(r, l, v) == l \in PosLevels(r) \cup IncLevels(r) /\ v \in VarsOf(Lit(r, l))

HeadRight(r) ==
    HasHead(r) =>
        /\ HeadOf(r).pred \in DOMAIN prog.arity
        /\ HeadOf(r).args \in [1 .. prog.arity[HeadOf(r).pred] -> Int]
        /\ \A i \in DOMAIN HeadOf(r).args : IsVar(HeadOf(r).args[i]) \/ HeadOf(r).args[i] \in Consts
        /\ VarsOf(HeadOf(r)) \subseteq VarsIn(r)

BindingRight(r) ==
    /\ \A l \in NegLevels(r) : \A v \in VarsOf(Lit(r, l)) : \E j \in 2 .. l - 1 : Binds(r, j, v)
    /\ \A v \in VarsIn(r) : \E j \in 2 .. Len(Body(r)) + 1 : Binds(r, j, v)

LEMMA ProgramOf ==
  ASSUME prog \in Programs
  PROVE  /\ IsFiniteSet(Names)
         /\ prog.base \cup prog.cumulative = Names
         /\ prog.base \cap prog.cumulative = {}
         /\ DOMAIN prog.facts = DOMAIN prog.arity
         /\ \A p \in DOMAIN prog.arity : prog.arity[p] \in Nat
         /\ \A p \in DOMAIN prog.arity : prog.facts[p] \in Seq(Tuples(p)) /\ IsInjective(prog.facts[p])
BY GroundingAssumption DEF WellFormed, Names, Tuples

LEMMA RuleRight ==
  ASSUME prog \in Programs, NEW r \in Names
  PROVE  BodyRight(r) /\ HeadRight(r) /\ BindingRight(r)
<1>1. WellFormedRule(prog, r)
  BY GroundingAssumption DEF WellFormed, Names
<1>2. /\ Body(r) = prog.rules[r].body
      /\ HeadOf(r) = prog.rules[r].head
      /\ HasHead(r) <=> HeadOf(r).kind # "none"
  BY DEF Body, HeadOf, HasHead
<1> DEFINE B == Body(r)
           H == HeadOf(r)
           N == Len(B)
<1>3. /\ B \in Seq(Range(B))
      /\ \A i \in DOMAIN B : B[i].kind \in {"pos", "neg", "inc"}
      /\ \A i \in DOMAIN B : B[i].kind \in {"pos", "neg"} => PredLitOf(prog, B[i])
      /\ \A i \in DOMAIN B : B[i].kind = "neg" =>
               \A v \in VarsOf(B[i]) : \E j \in 1 .. i - 1 : BindsIn(B, j, v)
      /\ \A i \in DOMAIN B : B[i].kind = "inc" =>
               /\ r \in prog.cumulative
               /\ B[i].args \in [1 .. 1 -> Int] /\ IsVar(B[i].args[1])
               /\ \A j \in 1 .. i - 1 : ~(B[j].kind = "pos" /\ B[i].args[1] \in VarsOf(B[j]))
      /\ H.kind # "none" =>
               /\ PredLitOf(prog, H)
               /\ \A v \in VarsOf(H) : \E j \in DOMAIN B : BindsIn(B, j, v)
  BY <1>1, <1>2 DEF WellFormedRule
<1>4. N \in Nat /\ DOMAIN B = 1 .. N
  BY <1>3
<1>5. \A l \in 2 .. N + 1 : Lit(r, l) = B[l - 1] /\ l - 1 \in DOMAIN B
  BY <1>4 DEF Lit
<1>6. \A l \in 2 .. N + 1 : l \in PosLevels(r) \/ l \in IncLevels(r) \/ l \in NegLevels(r)
  BY <1>3, <1>5 DEF PosLevels, IncLevels, NegLevels
<1>7. ASSUME NEW l \in 2 .. N + 1 PROVE VarsOf(Lit(r, l)) \subseteq VarsIn(r)
  BY <1>5 DEF VarsIn
<1>8. ASSUME NEW l \in PosLevels(r) \cup NegLevels(r)
      PROVE  /\ PredAt(r, l) \in DOMAIN prog.arity
             /\ Lit(r, l).args \in [1 .. prog.arity[PredAt(r, l)] -> Int]
             /\ \A i \in DOMAIN Lit(r, l).args : IsVar(Lit(r, l).args[i]) \/ Lit(r, l).args[i] \in Consts
  <2>1. l \in 2 .. N + 1 /\ Lit(r, l).kind \in {"pos", "neg"}
    BY DEF PosLevels, NegLevels
  <2>2. PredLitOf(prog, Lit(r, l))
    BY <1>3, <1>5, <2>1
  <2> QED
    BY <2>2 DEF PredLitOf, PredAt
<1>9. ASSUME NEW l \in IncLevels(r)
      PROVE  /\ r \in prog.cumulative /\ VarsOf(Lit(r, l)) = {StepVar(r, l)}
             /\ \A j \in PosLevels(r) : j < l => StepVar(r, l) \notin VarsOf(Lit(r, j))
  <2>1. l \in 2 .. N + 1 /\ Lit(r, l).kind = "inc"
    BY DEF IncLevels
  <2>2. /\ r \in prog.cumulative
        /\ Lit(r, l).args \in [1 .. 1 -> Int] /\ IsVar(Lit(r, l).args[1])
        /\ \A j \in 1 .. l - 2 : ~(B[j].kind = "pos" /\ Lit(r, l).args[1] \in VarsOf(B[j]))
    <3>1. PICK i \in DOMAIN B : i = l - 1 /\ Lit(r, l) = B[i]
      BY <1>5, <2>1
    <3>2. B[i].kind = "inc"
      BY <2>1, <3>1
    <3>3. /\ r \in prog.cumulative
          /\ B[i].args \in [1 .. 1 -> Int] /\ IsVar(B[i].args[1])
      BY <1>3, <3>2
    <3>4. \A j \in 1 .. i - 1 : ~(B[j].kind = "pos" /\ B[i].args[1] \in VarsOf(B[j]))
      BY <1>3, <3>2
    <3>5. i - 1 = l - 2
      BY <2>1, <3>1
    <3> QED
      BY <3>1, <3>3, <3>4, <3>5
  <2>3. VarsOf(Lit(r, l)) = {StepVar(r, l)}
    BY <2>2 DEF VarsOf, StepVar, ToSet
  <2>4. ASSUME NEW j \in PosLevels(r), j < l PROVE StepVar(r, l) \notin VarsOf(Lit(r, j))
    BY <1>5, <2>1, <2>2, <2>4 DEF PosLevels, StepVar
  <2> QED
    BY <2>2, <2>3, <2>4
<1>10. BodyRight(r)
  BY <1>4, <1>6, <1>7, <1>8, <1>9 DEF BodyRight
<1>11. ASSUME NEW v, NEW j \in DOMAIN B, BindsIn(B, j, v) PROVE j + 1 \in 2 .. N + 1 /\ Binds(r, j + 1, v)
  <2>1. j + 1 \in 2 .. N + 1 /\ Lit(r, j + 1) = B[j]
    BY <1>4 DEF Lit
  <2>2. B[j].kind \in {"pos", "inc"} /\ v \in VarsOf(B[j])
    BY <1>11 DEF BindsIn
  <2> QED
    BY <2>1, <2>2 DEF Binds, PosLevels, IncLevels
<1>12. ASSUME NEW l \in NegLevels(r), NEW v \in VarsOf(Lit(r, l))
       PROVE  \E j \in 2 .. l - 1 : Binds(r, j, v)
  <2>1. l \in 2 .. N + 1 /\ Lit(r, l).kind = "neg"
    BY DEF NegLevels
  <2>2. PICK j \in 1 .. l - 2 : BindsIn(B, j, v)
    BY <1>3, <1>5, <2>1
  <2>3. j \in DOMAIN B
    BY <1>4, <2>1
  <2> QED
    BY <1>11, <2>1, <2>2, <2>3
<1>13. ASSUME NEW v \in VarsIn(r) PROVE \E j \in 2 .. N + 1 : Binds(r, j, v)
  <2>1. PICK i \in DOMAIN B : v \in VarsOf(B[i])
    BY DEF VarsIn
  <2>2. i + 1 \in 2 .. N + 1 /\ Lit(r, i + 1) = B[i]
    BY <1>4 DEF Lit
  <2>3. CASE i + 1 \in NegLevels(r)
    BY <1>12, <2>1, <2>2, <2>3
  <2>4. CASE i + 1 \notin NegLevels(r)
    BY <1>6, <2>1, <2>2, <2>4 DEF Binds
  <2> QED
    BY <2>3, <2>4
<1>14. ASSUME HasHead(r), NEW v \in VarsOf(H) PROVE v \in VarsIn(r)
  BY <1>2, <1>3, <1>14 DEF BindsIn, VarsIn
<1>15. HeadRight(r)
  BY <1>2, <1>3, <1>14 DEF HeadRight, PredLitOf
<1> QED
  BY <1>10, <1>12, <1>13, <1>15 DEF BindingRight

LEMMA TupleRight ==
  ASSUME prog \in Programs, NEW r \in Names, NEW l \in PosLevels(r) \cup NegLevels(r), NEW env \in Instances(r)
  PROVE  /\ TupleAt(r, l, env) \in Tuples(PredAt(r, l))
         /\ Unifies(Lit(r, l), TupleAt(r, l, env))
         /\ \A v \in VarsOf(Lit(r, l)) : v \in VarsIn(r) /\ Binding(Lit(r, l), TupleAt(r, l, env))[v] = env[v]
<1>1. BodyRight(r)
  BY RuleRight
<1>2. l \in 2 .. Len(Body(r)) + 1
  BY DEF PosLevels, NegLevels
<1>3. PICK n \in Nat : n = prog.arity[PredAt(r, l)]
  BY <1>1, ProgramOf DEF BodyRight
<1>4. PICK lit : lit = Lit(r, l)
  OBVIOUS
<1>5. PICK V : V = VarsIn(r)
  OBVIOUS
<1>6. /\ lit.args \in [1 .. n -> Int] /\ VarsOf(lit) \subseteq V /\ env \in [V -> Consts]
      /\ \A i \in DOMAIN lit.args : IsVar(lit.args[i]) \/ lit.args[i] \in Consts
  BY <1>1, <1>2, <1>3, <1>4, <1>5 DEF BodyRight, Instances
<1>7. /\ Apply(lit, env) \in [1 .. n -> Consts]
      /\ Unifies(lit, Apply(lit, env))
      /\ \A v \in VarsOf(lit) : Binding(lit, Apply(lit, env))[v] = env[v]
  <2>1. Apply(lit, env) \in [1 .. n -> Consts] /\ Unifies(lit, Apply(lit, env))
    BY <1>6, Matched
  <2>2. \A v \in VarsOf(lit) : Binding(lit, Apply(lit, env))[v] = env[v]
    BY <1>6, MatchedAt
  <2> QED
    BY <2>1, <2>2
<1>8. TupleAt(r, l, env) = Apply(lit, env)
  BY <1>4 DEF TupleAt
<1>9. TupleAt(r, l, env) \in Tuples(PredAt(r, l))
  BY <1>3, <1>7, <1>8 DEF Tuples
<1> QED
  BY <1>4, <1>5, <1>6, <1>7, <1>8, <1>9

(* Two instances have the same tuple at a level if they agree on its       *)
(* variables.                                                              *)
LEMMA SameTuple ==
  ASSUME prog \in Programs, NEW r \in Names, NEW l \in PosLevels(r) \cup NegLevels(r),
         NEW env \in Instances(r), NEW other \in Instances(r),
         \A v \in VarsOf(Lit(r, l)) : env[v] = other[v]
  PROVE  TupleAt(r, l, env) = TupleAt(r, l, other)
<1>1. BodyRight(r)
  BY RuleRight
<1>2. l \in 2 .. Len(Body(r)) + 1
  BY DEF PosLevels, NegLevels
<1>3. PICK n \in Nat : n = prog.arity[PredAt(r, l)]
  BY <1>1, ProgramOf DEF BodyRight
<1>4. PICK lit : lit = Lit(r, l)
  OBVIOUS
<1>5. lit.args \in [1 .. n -> Int]
  BY <1>1, <1>3, <1>4 DEF BodyRight
<1>6. DOMAIN lit.args = 1 .. n
  BY <1>5
<1>7. \A i \in 1 .. n : IsVar(lit.args[i]) => lit.args[i] \in VarsOf(lit)
  BY <1>6 DEF VarsOf, ToSet
<1>8. \A i \in DOMAIN lit.args : Value(lit.args[i], env) = Value(lit.args[i], other)
  BY <1>4, <1>6, <1>7 DEF Value
<1> QED
  BY <1>4, <1>8 DEF TupleAt, Apply

LEMMA SameBinding ==
  ASSUME prog \in Programs, NEW r \in Names, NEW l \in PosLevels(r),
         NEW env \in Instances(r), NEW other \in Instances(r),
         TupleAt(r, l, env) = TupleAt(r, l, other), NEW v \in VarsOf(Lit(r, l))
  PROVE  env[v] = other[v]
<1>1. l \in PosLevels(r) \cup NegLevels(r)
  OBVIOUS
<1>2. Binding(Lit(r, l), TupleAt(r, l, env))[v] = env[v]
  BY <1>1, TupleRight
<1>3. Binding(Lit(r, l), TupleAt(r, l, other))[v] = other[v]
  BY <1>1, TupleRight
<1> QED
  BY <1>2, <1>3

(* An instance can be changed so that a level matches a tuple.             *)
LEMMA Rebound ==
  ASSUME prog \in Programs, NEW r \in Names, NEW l \in PosLevels(r), NEW env \in Instances(r),
         NEW tuple \in Tuples(PredAt(r, l)), Unifies(Lit(r, l), tuple)
  PROVE  \E other \in Instances(r) :
            /\ TupleAt(r, l, other) = tuple
            /\ \A v \in VarsIn(r) : other[v] =
                    IF v \in VarsOf(Lit(r, l)) THEN Binding(Lit(r, l), tuple)[v] ELSE env[v]
<1>1. BodyRight(r)
  BY RuleRight
<1>2. l \in 2 .. Len(Body(r)) + 1
  BY DEF PosLevels
<1>3. PICK n \in Nat : n = prog.arity[PredAt(r, l)]
  BY <1>1, ProgramOf DEF BodyRight
<1>4. PICK lit : lit = Lit(r, l)
  OBVIOUS
<1>5. PICK V : V = VarsIn(r)
  OBVIOUS
<1>6. /\ lit.args \in [1 .. n -> Int] /\ VarsOf(lit) \subseteq V /\ env \in [V -> Consts]
      /\ tuple \in [1 .. n -> Consts] /\ Unifies(lit, tuple)
  BY <1>1, <1>2, <1>3, <1>4, <1>5 DEF BodyRight, Instances, Tuples
<1>7. \A v \in VarsOf(lit) : Binding(lit, tuple)[v] \in Consts
  BY <1>6, BindingType
<1>8. PICK other \in [V -> Consts] :
        \A v \in V : other[v] = IF v \in VarsOf(lit) THEN Binding(lit, tuple)[v] ELSE env[v]
  <2>1. [v \in V |-> IF v \in VarsOf(lit) THEN Binding(lit, tuple)[v] ELSE env[v]] \in [V -> Consts]
    BY <1>6, <1>7
  <2> QED
    BY <2>1
<1>9. \A v \in VarsOf(lit) : other[v] = Binding(lit, tuple)[v]
  BY <1>6, <1>8
<1>10. Apply(lit, other) = tuple
  BY <1>6, <1>9, Unified
<1> QED
  BY <1>4, <1>5, <1>8, <1>10 DEF TupleAt, Instances

LEMMA SomeInstance ==
  ASSUME NEW r
  PROVE  \E env \in Instances(r) : TRUE
<1>1. PICK c \in Consts : TRUE
  BY GroundingAssumption
<1>2. [v \in VarsIn(r) |-> c] \in Instances(r)
  BY DEF Instances
<1> QED
  BY <1>2

LEMMA FitsUnifies ==
  ASSUME prog \in Programs, NEW r \in Names, NEW l \in PosLevels(r), NEW tuple \in Tuples(PredAt(r, l))
  PROVE  Fits(r, l, tuple) <=> Unifies(Lit(r, l), tuple)
<1>1. ASSUME Fits(r, l, tuple) PROVE Unifies(Lit(r, l), tuple)
  <2>1. PICK env \in Instances(r) : tuple = TupleAt(r, l, env)
    BY <1>1 DEF Fits
  <2>2. l \in PosLevels(r) \cup NegLevels(r)
    OBVIOUS
  <2> QED
    BY <2>1, <2>2, TupleRight
<1>2. ASSUME Unifies(Lit(r, l), tuple) PROVE Fits(r, l, tuple)
  <2>1. PICK env \in Instances(r) : TRUE
    BY SomeInstance
  <2>2. PICK other \in Instances(r) : TupleAt(r, l, other) = tuple
    BY <1>2, <2>1, Rebound
  <2> QED
    BY <2>2 DEF Fits
<1> QED
  BY <1>1, <1>2

LEMMA HeadTuple ==
  ASSUME prog \in Programs, NEW r \in Names, HasHead(r), NEW env \in Instances(r)
  PROVE  /\ HeadOf(r).pred \in DOMAIN prog.arity
         /\ Apply(HeadOf(r), env) \in Tuples(HeadOf(r).pred)
         /\ Unifies(HeadOf(r), Apply(HeadOf(r), env))
<1>1. HeadRight(r)
  BY RuleRight
<1>2. PICK lit : lit = HeadOf(r)
  OBVIOUS
<1>3. PICK n \in Nat : n = prog.arity[lit.pred]
  BY <1>1, <1>2, ProgramOf DEF HeadRight
<1>5. PICK V : V = VarsIn(r)
  OBVIOUS
<1>6. /\ lit.args \in [1 .. n -> Int] /\ VarsOf(lit) \subseteq V /\ env \in [V -> Consts]
      /\ \A i \in DOMAIN lit.args : IsVar(lit.args[i]) \/ lit.args[i] \in Consts
  BY <1>1, <1>2, <1>3, <1>5 DEF HeadRight, Instances
<1>7. Apply(lit, env) \in [1 .. n -> Consts] /\ Unifies(lit, Apply(lit, env))
  BY <1>6, Matched
<1> QED
  BY <1>1, <1>2, <1>3, <1>7 DEF Tuples, HeadRight

------------------------------------------------------------------------------
(* The search goes backwards: the greatest position that matches comes     *)
(* first.                                                                  *)
Above == OpToRel(<, Nat)

LEMMA AboveWellFounded == IsWellFoundedOn(Above, Nat)
BY NatLessThanWellFounded DEF Above

LEMMA MaxOf ==
  ASSUME NEW n \in Nat, NEW S \in SUBSET (1 .. n), S # {}
  PROVE  Max(S) \in S /\ \A p \in S : p <= Max(S)
<1> DEFINE Below == {n - p : p \in S}
<1>1. Below \in SUBSET Nat /\ Below # {}
  OBVIOUS
<1>2. PICK k \in Below : \A m \in Below : <<m, k>> \notin Above
  BY <1>1, AboveWellFounded, WFMin
<1>3. PICK p \in S : k = n - p
  BY <1>2
<1>4. ASSUME NEW q \in S PROVE q <= p
  <2>1. n - q \in Below /\ n - q \in Nat /\ k \in Nat
    BY <1>1, <1>2
  <2>2. ~(n - q < k)
    BY <1>2, <2>1 DEF Above, OpToRel
  <2> QED
    BY <1>3, <2>2
<1>5. \E x \in S : \A y \in S : x >= y
  BY <1>4
<1>6. PICK m \in S : m = Max(S) /\ \A y \in S : m >= y
  BY <1>5 DEF Max
<1> QED
  BY <1>6

BoundVars(r, k) == {v \in VarsIn(r) : \E i \in 2 .. k : Binds(r, i, v)}

(* A join up to a level only fixes the variables bound there.              *)
LEMMA JoinsAgree ==
  ASSUME prog \in Programs, NEW r \in Names, NEW cur, NEW k \in 0 .. Len(Body(r)) + 1,
         NEW env \in Instances(r), NEW other \in Instances(r), Joins(r, cur, k, env),
         \A v \in BoundVars(r, k) : env[v] = other[v]
  PROVE  Joins(r, cur, k, other)
<1>1. BodyRight(r)
  BY RuleRight
<1>2. ASSUME NEW i \in 2 .. k, NEW v \in VarsOf(Lit(r, i)), i \in PosLevels(r) \cup IncLevels(r)
      PROVE  env[v] = other[v]
  <2>1. i \in 2 .. Len(Body(r)) + 1
    BY <1>1 DEF BodyRight
  <2>2. v \in VarsIn(r)
    BY <1>1, <2>1 DEF BodyRight
  <2>3. v \in BoundVars(r, k)
    BY <1>2, <2>2 DEF BoundVars, Binds
  <2> QED
    BY <2>3
<1>3. ASSUME NEW i \in 2 .. k, i \in PosLevels(r)
      PROVE  TupleAt(r, i, env) = TupleAt(r, i, other)
  <2>1. \A v \in VarsOf(Lit(r, i)) : env[v] = other[v]
    BY <1>2, <1>3
  <2>2. i \in PosLevels(r) \cup NegLevels(r)
    BY <1>3
  <2> QED
    BY <2>1, <2>2, SameTuple
<1>4. ASSUME NEW i \in 2 .. k, i \in IncLevels(r)
      PROVE  env[StepVar(r, i)] = other[StepVar(r, i)]
  BY <1>1, <1>2, <1>4 DEF BodyRight
<1> QED
  BY <1>3, <1>4 DEF Joins

LEMMA EnvOf ==
  ASSUME prog \in Programs, NEW r \in Names, NEW cur, NEW k \in 0 .. Len(Body(r)) + 1,
         NEW env \in Instances(r), Joins(r, cur, k, env)
  PROVE  /\ DOMAIN Env(r, cur, k) = BoundVars(r, k)
         /\ \A v \in BoundVars(r, k) : Env(r, cur, k)[v] = env[v]
<1>1. BodyRight(r)
  BY RuleRight
<1>2. \A i \in 2 .. k : i \in 2 .. Len(Body(r)) + 1 /\ (Lit(r, i).kind \in {"pos", "inc"} <=> i \in PosLevels(r) \cup IncLevels(r))
  BY <1>1 DEF BodyRight, PosLevels, IncLevels
<1>3. \A i \in 2 .. k : VarsOf(Lit(r, i)) \subseteq VarsIn(r)
  BY <1>1, <1>2 DEF BodyRight
<1> DEFINE vars0 == UNION {VarsOf(Lit(r, i)) : i \in {j \in 2 .. k : Lit(r, j).kind \in {"pos", "inc"}}}
<1>4. \A v : v \in vars0 <=> v \in BoundVars(r, k)
  BY <1>2, <1>3 DEF BoundVars, Binds
<1>5. \A i \in 2 .. k : \A v : BindsIn(Body(r), i - 1, v) <=> Binds(r, i, v)
  BY <1>2 DEF BindsIn, Binds, Lit
<1>6. Env(r, cur, k) = [v \in vars0 |-> BoundAt(r, cur, CHOOSE i \in Binders(r, k, v) : TRUE, v)]
  BY DEF Env
<1>7. ASSUME NEW v \in BoundVars(r, k) PROVE Env(r, cur, k)[v] = env[v]
  <2>1. PICK i : i = CHOOSE j \in Binders(r, k, v) : TRUE
    OBVIOUS
  <2>2. Env(r, cur, k)[v] = BoundAt(r, cur, i, v)
    BY <1>4, <1>6, <2>1
  <2>3. \E j \in Binders(r, k, v) : TRUE
    BY <1>5 DEF Binders, BoundVars
  <2>4. i \in Binders(r, k, v)
    BY <2>1, <2>3
  <2>5. i \in 2 .. k /\ Binds(r, i, v)
    BY <1>5, <2>4 DEF Binders
  <2>6. CASE i \in IncLevels(r)
    <3>1. v = StepVar(r, i) /\ Lit(r, i).kind = "inc"
      BY <1>1, <2>5, <2>6 DEF BodyRight, Binds, IncLevels
    <3> QED
      BY <2>2, <2>5, <2>6, <3>1 DEF BoundAt, Joins
  <2>7. CASE i \in PosLevels(r)
    <3>1. Lit(r, i).kind # "inc" /\ v \in VarsOf(Lit(r, i)) /\ i \in PosLevels(r) \cup NegLevels(r)
      BY <2>5, <2>7 DEF PosLevels, Binds
    <3>2. idx[r][i].entries[cur[i]] = TupleAt(r, i, env)
      BY <2>5, <2>7 DEF Joins, Entries
    <3>3. \A w \in VarsOf(Lit(r, i)) : w \in VarsIn(r) /\ Binding(Lit(r, i), TupleAt(r, i, env))[w] = env[w]
      BY <3>1, TupleRight
    <3> QED
      BY <2>2, <3>1, <3>2, <3>3 DEF BoundAt
  <2> QED
    BY <2>5, <2>6, <2>7 DEF Binds
<1>8. DOMAIN Env(r, cur, k) = vars0
  BY <1>6
<1> QED
  BY <1>4, <1>7, <1>8

(* The positions that match are those of instances that agree so far.      *)
LEMMA MatchesAre ==
  ASSUME prog \in Programs, NEW r \in Names, NEW cur, NEW l \in PosLevels(r),
         InstRight(r), NEW below \in 1 .. Len(Entries(r, l)) + 1,
         NEW env0 \in Instances(r), Joins(r, cur, l - 1, env0)
  PROVE  /\ Matches(r, cur, l, below) \subseteq 1 .. below - 1
         /\ \A p \in Matches(r, cur, l, below) :
                \E env \in Instances(r) : Joins(r, cur, l - 1, env) /\ Entries(r, l)[p] = TupleAt(r, l, env)
         /\ \A env \in Instances(r) : Joins(r, cur, l - 1, env) =>
                \A p \in 1 .. below - 1 : Entries(r, l)[p] = TupleAt(r, l, env) => p \in Matches(r, cur, l, below)
<1>1. BodyRight(r)
  BY RuleRight
<1>2. l \in 2 .. Len(Body(r)) + 1 /\ l - 1 \in 0 .. Len(Body(r)) + 1 /\ l \in PosLevels(r) \cup NegLevels(r)
  BY <1>1 DEF PosLevels, BodyRight
<1>3. PICK lit : lit = Lit(r, l)
  OBVIOUS
<1>4. PICK env1 : env1 = Env(r, cur, l - 1)
  OBVIOUS
<1>5. PICK B : B = BoundVars(r, l - 1)
  OBVIOUS
<1>6. DOMAIN env1 = B
  BY <1>2, <1>4, <1>5, EnvOf
<1>7. ASSUME NEW env \in Instances(r), Joins(r, cur, l - 1, env) PROVE \A v \in B : env1[v] = env[v]
  BY <1>2, <1>4, <1>5, <1>7, EnvOf
<1>8. Entries(r, l) = idx[r][l].entries
  BY DEF Entries
<1>9. /\ Len(Entries(r, l)) \in Nat
      /\ \A p \in 1 .. below - 1 : Entries(r, l)[p] \in Tuples(PredAt(r, l))
  <2>1. IndexRight(r, l)
    BY DEF InstRight
  <2>2. Entries(r, l) \in Seq(Tuples(PredAt(r, l)))
    BY <2>1 DEF IndexRight, Entries
  <2> QED
    BY <2>2
<1>10. ASSUME NEW p PROVE p \in Matches(r, cur, l, below) <=>
            /\ p \in 1 .. below - 1
            /\ Unifies(lit, Entries(r, l)[p])
            /\ \A v \in VarsOf(lit) \cap DOMAIN env1 : Binding(lit, Entries(r, l)[p])[v] = env1[v]
  BY <1>3, <1>4, <1>8 DEF Matches
<1>11. Matches(r, cur, l, below) \subseteq 1 .. below - 1
  BY <1>10
<1>12. ASSUME NEW p \in Matches(r, cur, l, below)
       PROVE  \E env \in Instances(r) : Joins(r, cur, l - 1, env) /\ Entries(r, l)[p] = TupleAt(r, l, env)
  <2>1. PICK tuple \in Tuples(PredAt(r, l)) : tuple = Entries(r, l)[p]
    BY <1>9, <1>10
  <2>2. Unifies(lit, tuple) /\ \A v \in VarsOf(lit) \cap B : Binding(lit, tuple)[v] = env1[v]
    BY <1>6, <1>10, <2>1
  <2>3. PICK other \in Instances(r) :
            /\ TupleAt(r, l, other) = tuple
            /\ \A v \in VarsIn(r) : other[v] = IF v \in VarsOf(lit) THEN Binding(lit, tuple)[v] ELSE env0[v]
    BY <1>3, <2>2, Rebound
  <2>4. \A v \in B : env1[v] = env0[v]
    BY <1>7
  <2>5. \A v \in B : v \in VarsIn(r)
    BY <1>5 DEF BoundVars
  <2>6. \A v \in B : env0[v] = other[v]
    BY <2>2, <2>3, <2>4, <2>5
  <2>7. Joins(r, cur, l - 1, other)
    BY <1>2, <1>5, <2>6, JoinsAgree
  <2> QED
    BY <2>1, <2>3, <2>7
<1>13. ASSUME NEW env \in Instances(r), Joins(r, cur, l - 1, env),
              NEW p \in 1 .. below - 1, Entries(r, l)[p] = TupleAt(r, l, env)
       PROVE  p \in Matches(r, cur, l, below)
  <2>1. PICK tuple : tuple = TupleAt(r, l, env)
    OBVIOUS
  <2>2. Unifies(lit, tuple) /\ \A v \in VarsOf(lit) : Binding(lit, tuple)[v] = env[v]
    BY <1>2, <1>3, <2>1, TupleRight
  <2>3. \A v \in B : env1[v] = env[v]
    BY <1>7, <1>13
  <2>4. Entries(r, l)[p] = tuple
    BY <1>13, <2>1
  <2> QED
    BY <1>6, <1>10, <2>2, <2>3, <2>4
<1> QED
  BY <1>11, <1>12, <1>13

(* What the next match is: the last one below a position.                  *)
Found(r, cur, l, below, m) ==
    /\ m.ok \in BOOLEAN /\ m.new \in BOOLEAN /\ m.pos \in Nat
    /\ m.new => m.ok
    /\ m.ok =>
        /\ m.pos \in 1 .. below - 1
        /\ m.new <=> m.pos > Finished(r, l)
        /\ \E env \in Instances(r) : Joins(r, cur, l - 1, env) /\ Entries(r, l)[m.pos] = TupleAt(r, l, env)
    /\ \A env \in Instances(r) : Joins(r, cur, l - 1, env) =>
            \A p \in 1 .. below - 1 : Entries(r, l)[p] = TupleAt(r, l, env) => m.ok /\ p <= m.pos

LEMMA PredMatchFound ==
  ASSUME prog \in Programs, NEW r \in Names, NEW cur, NEW l \in PosLevels(r),
         InstRight(r), NEW below \in 1 .. Len(Entries(r, l)) + 1,
         NEW env0 \in Instances(r), Joins(r, cur, l - 1, env0)
  PROVE  Found(r, cur, l, below, PredMatch(r, cur, l, below))
<1>1. PICK S : S = Matches(r, cur, l, below)
  OBVIOUS
<1>2. PICK m : m = PredMatch(r, cur, l, below)
  OBVIOUS
<1>3. /\ S \subseteq 1 .. below - 1
      /\ \A p \in S : \E env \in Instances(r) : Joins(r, cur, l - 1, env) /\ Entries(r, l)[p] = TupleAt(r, l, env)
      /\ \A env \in Instances(r) : Joins(r, cur, l - 1, env) =>
            \A p \in 1 .. below - 1 : Entries(r, l)[p] = TupleAt(r, l, env) => p \in S
  BY <1>1, MatchesAre
<1>4. IndexRight(r, l)
  BY DEF InstRight
<1>5. below - 1 \in Nat /\ Finished(r, l) \in Nat
  BY <1>4 DEF IndexRight, Finished
<1>6. CASE S = {}
  <2>1. m = [ok |-> FALSE, new |-> FALSE, pos |-> 0]
    BY <1>1, <1>2, <1>6 DEF PredMatch, NoMatch
  <2> QED
    BY <1>2, <1>3, <1>6, <2>1 DEF Found
<1>7. CASE S # {}
  <2>1. PICK x : x = Max(S)
    OBVIOUS
  <2>2. x \in S /\ \A p \in S : p <= x
    BY <1>3, <1>5, <1>7, <2>1, MaxOf
  <2>3. m = [ok |-> TRUE, pos |-> x, new |-> x > Finished(r, l)]
    BY <1>1, <1>2, <1>7, <2>1 DEF PredMatch, Finished
  <2>4. m.ok /\ m.pos = x /\ m.new = (x > Finished(r, l))
    BY <2>3
  <2>5. x \in 1 .. below - 1
    BY <1>3, <2>2
  <2>6. m.ok \in BOOLEAN /\ m.new \in BOOLEAN /\ m.pos \in Nat
    BY <1>5, <2>3, <2>5
  <2>7. \E env \in Instances(r) : Joins(r, cur, l - 1, env) /\ Entries(r, l)[m.pos] = TupleAt(r, l, env)
    BY <1>3, <2>2, <2>4
  <2>8. \A env \in Instances(r) : Joins(r, cur, l - 1, env) =>
            \A p \in 1 .. below - 1 : Entries(r, l)[p] = TupleAt(r, l, env) => m.ok /\ p <= m.pos
    BY <1>3, <2>2, <2>4
  <2> QED
    BY <1>2, <2>4, <2>5, <2>6, <2>7, <2>8 DEF Found
<1> QED
  BY <1>6, <1>7

------------------------------------------------------------------------------
(* HasNew asks of an index whether an entry behind its mark fits.          *)
LEMMA HasNewIs ==
  ASSUME prog \in Programs, NEW r \in Names, NEW inst, NEW l \in Levels(r),
         l \in PosLevels(r) => inst[l].entries \in Seq(Tuples(PredAt(r, l))) /\ inst[l].finished \in Nat
  PROVE  HasNew(r, inst, l) <=> NewIn(r, inst, l)
<1>1. BodyRight(r)
  BY RuleRight
<1>2. CASE l = 1
  <2>1. 1 \notin PosLevels(r) /\ 1 \notin IncLevels(r)
    BY DEF PosLevels, IncLevels
  <2>2. HasNew(r, inst, l) <=> ~inst[1].finished
    BY <1>2 DEF HasNew
  <2> QED
    BY <1>2, <2>1, <2>2 DEF NewIn
<1>3. CASE l \in PosLevels(r)
  <2>1. l # 1 /\ l > 1 /\ Lit(r, l).kind = "pos" /\ l \notin IncLevels(r)
    BY <1>1, <1>3 DEF PosLevels, IncLevels, BodyRight
  <2>2. HasNew(r, inst, l) <=> \E p \in inst[l].finished + 1 .. Len(inst[l].entries) : Unifies(Lit(r, l), inst[l].entries[p])
    BY <2>1 DEF HasNew
  <2>3. ASSUME NEW p \in inst[l].finished + 1 .. Len(inst[l].entries)
        PROVE  Unifies(Lit(r, l), inst[l].entries[p]) <=> Fits(r, l, inst[l].entries[p])
    <3>1. PICK e \in Seq(Tuples(PredAt(r, l))) : e = inst[l].entries
      BY <1>3
    <3>2. p \in 1 .. Len(e)
      BY <1>3, <3>1
    <3>3. e[p] \in Tuples(PredAt(r, l))
      BY <3>1, <3>2
    <3> QED
      BY <1>3, <3>1, <3>3, FitsUnifies
  <2> QED
    BY <1>3, <2>1, <2>2, <2>3 DEF NewIn
<1>4. CASE l \in IncLevels(r)
  <2>1. l # 1 /\ l > 1 /\ Lit(r, l).kind = "inc" /\ l \notin PosLevels(r)
    BY <1>1, <1>4 DEF PosLevels, IncLevels, BodyRight
  <2>2. HasNew(r, inst, l) <=> inst[l].finished # step
    BY <2>1 DEF HasNew
  <2> QED
    BY <1>4, <2>1, <2>2 DEF NewIn
<1>5. CASE l \in NegLevels(r)
  <2>1. l # 1 /\ l > 1 /\ Lit(r, l).kind = "neg" /\ l \notin PosLevels(r) /\ l \notin IncLevels(r)
    BY <1>1, <1>5 DEF PosLevels, IncLevels, NegLevels, BodyRight
  <2>2. ~HasNew(r, inst, l)
    BY <2>1 DEF HasNew
  <2> QED
    BY <2>1, <2>2 DEF NewIn
<1>6. l = 1 \/ l \in 2 .. Len(Body(r)) + 1
  BY <1>1 DEF Levels, BodyRight
<1> QED
  BY <1>1, <1>2, <1>3, <1>4, <1>5, <1>6 DEF BodyRight

LEMMA CountNew ==
  ASSUME NEW n \in Nat, NEW k \in 1 .. n, NEW f \in [1 .. n -> BOOLEAN]
  PROVE  /\ Cardinality(NewSet(f, k)) = Cardinality(NewSet(f, k - 1)) + Count(f[k])
         /\ Cardinality(NewSet(f, k)) \in Nat /\ Cardinality(NewSet(f, k - 1)) \in Nat
<1>1. IsFiniteSet(1 .. n)
  BY FS_Interval
<1>2. IsFiniteSet(NewSet(f, k)) /\ IsFiniteSet(NewSet(f, k - 1))
  <2>1. NewSet(f, k) \subseteq 1 .. n /\ NewSet(f, k - 1) \subseteq 1 .. n
    BY DEF NewSet
  <2> QED
    BY <1>1, <2>1, FS_Subset
<1>3. CASE f[k]
  <2>1. NewSet(f, k) = NewSet(f, k - 1) \cup {k} /\ k \notin NewSet(f, k - 1)
    BY <1>3 DEF NewSet
  <2> QED
    BY <1>2, <1>3, <2>1, FS_AddElement, FS_CardinalityType DEF Count
<1>4. CASE ~f[k]
  <2>1. NewSet(f, k) = NewSet(f, k - 1)
    BY <1>4 DEF NewSet
  <2> QED
    BY <1>2, <1>4, <2>1, FS_CardinalityType DEF Count
<1> QED
  BY <1>3, <1>4

LEMMA NoneNew ==
  ASSUME NEW n \in Nat, NEW k \in 0 .. n, NEW f \in [1 .. n -> BOOLEAN]
  PROVE  /\ Cardinality(NewSet(f, k)) \in Nat
         /\ Cardinality(NewSet(f, k)) > 0 <=> \E i \in 1 .. k : f[i]
<1>1. IsFiniteSet(1 .. n)
  BY FS_Interval
<1>2. IsFiniteSet(NewSet(f, k))
  <2>1. NewSet(f, k) \subseteq 1 .. n
    BY DEF NewSet
  <2> QED
    BY <1>1, <2>1, FS_Subset
<1>3. Cardinality(NewSet(f, k)) \in Nat
  BY <1>2, FS_CardinalityType
<1>4. Cardinality(NewSet(f, k)) = 0 <=> NewSet(f, k) = {}
  BY <1>2, FS_EmptySet
<1> QED
  BY <1>3, <1>4 DEF NewSet

------------------------------------------------------------------------------
(* A step of the search gives a match to one level.                        *)
Moved(r, rn, rn2, k, m, n) ==
    /\ rn2 \in RunSet(r)
    /\ rn2.l = k /\ rn2.matched = m.ok /\ rn2.numNew = n /\ rn2.lastNew = rn.lastNew
    /\ rn2.cur[k] = m.pos /\ rn2.new[k] = m.new
    /\ \A i \in Levels(r) : i # k => rn2.cur[i] = rn.cur[i] /\ rn2.new[i] = rn.new[i]

Match == [ok : BOOLEAN, new : BOOLEAN, pos : Nat]

MoveTo(rn, k, m, n) ==
    [rn EXCEPT !.l = k, !.matched = m.ok, !.cur[k] = m.pos, !.new[k] = m.new, !.numNew = n]

LEMMA MovedFields ==
  ASSUME NEW r, Len(Body(r)) \in Nat, NEW rn \in RunSet(r), NEW k \in Levels(r), NEW n \in Int,
         NEW m, m.ok \in BOOLEAN, m.new \in BOOLEAN, m.pos \in Nat,
         NEW rn2, rn2 = MoveTo(rn, k, m, n)
  PROVE  Moved(r, rn, rn2, k, m, n)
<1>1. PICK L : L = Levels(r)
  OBVIOUS
<1>2. PICK N \in Nat : N = Len(Body(r))
  OBVIOUS
<1>3. rn \in [stm : {r}, l : 0 .. N + 2, matched : BOOLEAN, cur : [L -> Nat],
              new : [L -> BOOLEAN], numNew : Int, lastNew : 0 .. N + 1]
  BY <1>1, <1>2 DEF RunSet
<1>4. k \in L /\ k \in 1 .. N + 1
  BY <1>1, <1>2 DEF Levels
<1>5. PICK cur2 \in [L -> Nat] : cur2 = [rn.cur EXCEPT ![k] = m.pos]
  BY <1>3, <1>4
<1>6. PICK new2 \in [L -> BOOLEAN] : new2 = [rn.new EXCEPT ![k] = m.new]
  BY <1>3, <1>4
<1>7. rn2 = [rn EXCEPT !.l = k, !.matched = m.ok, !.cur = cur2, !.new = new2, !.numNew = n]
  BY <1>3, <1>5, <1>6 DEF MoveTo
<1>8. /\ rn2.stm = rn.stm /\ rn2.l = k /\ rn2.matched = m.ok /\ rn2.cur = cur2 /\ rn2.new = new2
      /\ rn2.numNew = n /\ rn2.lastNew = rn.lastNew
  BY <1>3, <1>7
<1>9. rn2 \in [stm : {r}, l : 0 .. N + 2, matched : BOOLEAN, cur : [L -> Nat],
              new : [L -> BOOLEAN], numNew : Int, lastNew : 0 .. N + 1]
  <2>1. PICK ok \in BOOLEAN : ok = m.ok
    OBVIOUS
  <2>2. rn2 = [stm |-> rn.stm, l |-> k, matched |-> ok, cur |-> cur2, new |-> new2,
               numNew |-> n, lastNew |-> rn.lastNew]
    BY <1>3, <1>7, <2>1
  <2>3. rn.stm \in {r} /\ rn.lastNew \in 0 .. N + 1 /\ k \in 0 .. N + 2
    BY <1>3, <1>4
  <2> QED
    BY <2>2, <2>3
<1>10. rn2 \in RunSet(r)
  BY <1>1, <1>2, <1>9 DEF RunSet
<1>11. rn2.cur[k] = m.pos /\ rn2.new[k] = m.new
  BY <1>3, <1>4, <1>5, <1>6, <1>8
<1>12. \A i \in L : i # k => rn2.cur[i] = rn.cur[i] /\ rn2.new[i] = rn.new[i]
  BY <1>3, <1>5, <1>6, <1>8
<1> QED
  BY <1>1, <1>8, <1>10, <1>11, <1>12 DEF Moved

LEMMA RunFields ==
  ASSUME NEW r, Len(Body(r)) \in Nat, NEW rn \in RunSet(r)
  PROVE  /\ rn.stm = r /\ rn.l \in 0 .. Len(Body(r)) + 2 /\ rn.matched \in BOOLEAN
         /\ rn.cur \in [Levels(r) -> Nat] /\ rn.new \in [Levels(r) -> BOOLEAN]
         /\ rn.numNew \in Int /\ rn.lastNew \in 0 .. Len(Body(r)) + 1
BY DEF RunSet

LEMMA PathMoved ==
  ASSUME prog \in Programs, NEW r \in Names, NEW rn \in RunSet(r), NEW rn2, NEW k \in Levels(r), NEW n, NEW m,
         m.ok \in BOOLEAN, m.new \in BOOLEAN, m.new => m.ok, Moved(r, rn, rn2, k, m, n),
         \E env \in Instances(r) : Joins(r, rn.cur, k - 1, env),
         \A i \in 1 .. k - 1 : rn.new[i] <=> NewAt(r, rn.cur, i),
         rn.lastNew # 0 => NewLevel(r, rn.lastNew),
         \A l \in Levels(r) : NewLevel(r, l) => l <= rn.lastNew,
         m.ok => /\ \E env \in Instances(r) : Joins(r, rn2.cur, k, env)
                 /\ m.new <=> NewAt(r, rn2.cur, k),
         n = Cardinality(NewSet(rn.new, k - 1)) + Count(m.ok /\ m.new),
         k > rn.lastNew => n > 0
  PROVE  PathRight(rn2)
<1>1. BodyRight(r)
  BY RuleRight
<1>2. PICK N \in Nat : N = Len(Body(r))
  BY <1>1 DEF BodyRight
<1>3. Levels(r) = 1 .. N + 1 /\ k \in 1 .. N + 1
  BY <1>2 DEF Levels
<1>4. /\ rn2 \in RunSet(r)
      /\ rn2.l = k /\ rn2.matched = m.ok /\ rn2.numNew = n /\ rn2.lastNew = rn.lastNew
      /\ rn2.cur[k] = m.pos /\ rn2.new[k] = m.new
      /\ \A i \in 1 .. N + 1 : i # k => rn2.cur[i] = rn.cur[i] /\ rn2.new[i] = rn.new[i]
  BY <1>3 DEF Moved
<1>5. rn2.stm = r /\ rn.new \in [1 .. N + 1 -> BOOLEAN] /\ rn2.new \in [1 .. N + 1 -> BOOLEAN]
  BY <1>2, <1>3, <1>4, RunFields
<1>6. Depth(rn2) = IF m.ok THEN k ELSE k - 1
  BY <1>4 DEF Depth
<1>7. \E env \in Instances(r) : Joins(r, rn2.cur, Depth(rn2), env)
  <2>1. CASE m.ok
    BY <1>6, <2>1
  <2>2. CASE ~m.ok
    <3>1. PICK env \in Instances(r) : Joins(r, rn.cur, k - 1, env)
      OBVIOUS
    <3>2. Joins(r, rn2.cur, k - 1, env)
      BY <1>3, <1>4, <3>1 DEF Joins
    <3> QED
      BY <1>6, <2>2, <3>2
  <2> QED
    BY <2>1, <2>2
<1>8. ASSUME NEW i \in 1 .. Depth(rn2) PROVE rn2.new[i] <=> NewAt(r, rn2.cur, i)
  <2>1. CASE i = k
    BY <1>3, <1>4, <1>6, <1>8, <2>1
  <2>2. CASE i # k
    <3>1. i \in 1 .. k - 1 /\ i \in 1 .. N + 1
      BY <1>3, <1>6, <1>8, <2>2
    <3>2. rn2.new[i] = rn.new[i] /\ rn2.cur[i] = rn.cur[i]
      BY <1>4, <2>2, <3>1
    <3>3. NewAt(r, rn2.cur, i) <=> NewAt(r, rn.cur, i)
      BY <3>2 DEF NewAt
    <3> QED
      BY <3>1, <3>2, <3>3
  <2> QED
    BY <2>1, <2>2
<1>9. n = Cardinality(NewSet(rn2.new, Depth(rn2)))
  <2>1. NewSet(rn2.new, k - 1) = NewSet(rn.new, k - 1)
    BY <1>3, <1>4 DEF NewSet
  <2>2. /\ Cardinality(NewSet(rn2.new, k)) = Cardinality(NewSet(rn2.new, k - 1)) + Count(rn2.new[k])
        /\ Cardinality(NewSet(rn2.new, k - 1)) \in Nat
    BY <1>3, <1>5, CountNew
  <2>3. CASE m.ok
    <3>1. Count(m.ok /\ m.new) = Count(rn2.new[k])
      BY <1>4, <2>3 DEF Count
    <3> QED
      BY <1>6, <2>1, <2>2, <2>3, <3>1
  <2>4. CASE ~m.ok
    <3>1. Count(m.ok /\ m.new) = 0
      BY <2>4 DEF Count
    <3> QED
      BY <1>6, <2>1, <2>2, <2>4, <3>1
  <2> QED
    BY <2>3, <2>4
<1>10. rn2.l # 0 /\ rn2.l # Len(Body(r)) + 2
  BY <1>2, <1>3, <1>4
<1> QED
  BY <1>4, <1>5, <1>7, <1>8, <1>9, <1>10 DEF PathRight

LEMMA KindsDiffer ==
  ASSUME NEW r
  PROVE  /\ \A l \in PosLevels(r) : l \notin IncLevels(r) /\ l \notin NegLevels(r) /\ l # 1
         /\ \A l \in IncLevels(r) : l \notin NegLevels(r) /\ l # 1
         /\ \A l \in NegLevels(r) : l # 1
BY DEF PosLevels, IncLevels, NegLevels

LEMMA JoinsTo ==
  ASSUME NEW r, NEW cur, NEW cur2, NEW k \in Nat, NEW env, NEW j \in 0 .. k,
         Joins(r, cur, k, env), \A i \in 2 .. j : cur2[i] = cur[i]
  PROVE  Joins(r, cur2, j, env)
BY DEF Joins

LEMMA JoinsNext ==
  ASSUME NEW r, NEW cur, NEW k \in Nat, NEW env, Joins(r, cur, k - 1, env),
         k \in PosLevels(r) => cur[k] \in 1 .. Len(Entries(r, k)) /\ Entries(r, k)[cur[k]] = TupleAt(r, k, env),
         k \in IncLevels(r) => env[StepVar(r, k)] = step
  PROVE  Joins(r, cur, k, env)
<1> SUFFICES ASSUME NEW i \in 2 .. k
             PROVE  /\ i \in PosLevels(r) => cur[i] \in 1 .. Len(Entries(r, i)) /\ Entries(r, i)[cur[i]] = TupleAt(r, i, env)
                    /\ i \in IncLevels(r) => env[StepVar(r, i)] = step
  BY DEF Joins
<1>1. CASE i = k
  BY <1>1
<1>2. CASE i # k
  BY <1>2 DEF Joins
<1> QED
  BY <1>1, <1>2

(* What a search knows of its levels. *)
LEMMA PathOf ==
  ASSUME prog \in Programs, NEW r \in Names, InstRight(r), NEW rn, PathRight(rn), rn.stm = r
  PROVE  /\ rn \in RunSet(r) /\ BodyRight(r) /\ Levels(r) = 1 .. Len(Body(r)) + 1
         /\ Depth(rn) \in 0 .. Len(Body(r)) + 1 /\ Depth(rn) <= rn.l
         /\ rn.cur \in [Levels(r) -> Nat] /\ rn.new \in [Levels(r) -> BOOLEAN]
         /\ rn.matched => rn.l = Depth(rn)
         /\ rn.numNew \in Nat
         /\ rn.numNew > 0 <=> \E i \in 1 .. Depth(rn) : rn.new[i]
         /\ \A i \in 1 .. Depth(rn) : rn.new[i] <=> NewAt(r, rn.cur, i)
         /\ \A i \in 1 .. Depth(rn) : NewAt(r, rn.cur, i) => NewLevel(r, i)
         /\ \A l \in Levels(r) : NewLevel(r, l) => l <= rn.lastNew
         /\ \E env \in Instances(r) : Joins(r, rn.cur, Depth(rn), env)
<1>1. BodyRight(r)
  BY RuleRight
<1>2. PICK N \in Nat : N = Len(Body(r))
  BY <1>1 DEF BodyRight
<1>3. rn \in RunSet(r)
  BY DEF PathRight
<1>4. /\ rn.l \in 0 .. N + 2 /\ rn.matched \in BOOLEAN /\ rn.cur \in [Levels(r) -> Nat]
      /\ rn.new \in [Levels(r) -> BOOLEAN] /\ Levels(r) = 1 .. N + 1
  BY <1>2, <1>3, RunFields DEF Levels
<1>5. (rn.l = 0 => rn.matched) /\ (rn.l = N + 2 => ~rn.matched)
  BY <1>2 DEF PathRight
<1>6. Depth(rn) \in 0 .. N + 1 /\ Depth(rn) <= rn.l /\ (rn.matched => rn.l = Depth(rn))
  BY <1>4, <1>5 DEF Depth
<1>7. /\ \A i \in 1 .. Depth(rn) : rn.new[i] <=> NewAt(r, rn.cur, i)
      /\ rn.numNew = Cardinality(NewSet(rn.new, Depth(rn)))
      /\ \A l \in Levels(r) : NewLevel(r, l) => l <= rn.lastNew
      /\ \E env \in Instances(r) : Joins(r, rn.cur, Depth(rn), env)
  BY DEF PathRight
<1>8. rn.numNew \in Nat /\ (rn.numNew > 0 <=> \E i \in 1 .. Depth(rn) : rn.new[i])
  BY <1>4, <1>6, <1>7, NoneNew
<1>9. ASSUME NEW i \in 1 .. Depth(rn), NewAt(r, rn.cur, i) PROVE NewLevel(r, i)
  <2>1. PICK env \in Instances(r) : Joins(r, rn.cur, Depth(rn), env)
    BY <1>7
  <2>2. CASE i \in PosLevels(r)
    <3>1. i \in 2 .. Depth(rn) /\ i \notin IncLevels(r)
      BY <1>6, <2>2, KindsDiffer
    <3>2. rn.cur[i] \in 1 .. Len(Entries(r, i)) /\ Entries(r, i)[rn.cur[i]] = TupleAt(r, i, env)
      BY <2>1, <2>2, <3>1 DEF Joins
    <3>3. rn.cur[i] > Finished(r, i)
      BY <1>9, <3>1 DEF NewAt
    <3>4. Fits(r, i, Entries(r, i)[rn.cur[i]])
      BY <3>2 DEF Fits
    <3>5. Finished(r, i) \in Nat
      BY <2>2 DEF InstRight, IndexRight, Finished
    <3>6. rn.cur[i] \in Finished(r, i) + 1 .. Len(Entries(r, i))
      BY <3>2, <3>3, <3>5
    <3> QED
      BY <2>2, <3>4, <3>6 DEF NewLevel, NewIn, Entries, Finished
  <2>3. CASE i \notin PosLevels(r)
    BY <1>9, <2>3 DEF NewAt, NewLevel, NewIn, Finished
  <2> QED
    BY <2>2, <2>3
<1> QED
  BY <1>1, <1>2, <1>3, <1>4, <1>6, <1>7, <1>8, <1>9

(* If nothing on the way is new and nothing further on is, then what is    *)
(* joined is old.                                                          *)
LEMMA AllOld ==
  ASSUME prog \in Programs, NEW r \in Names, InstRight(r), NEW rn, PathRight(rn), rn.stm = r,
         rn.matched, rn.numNew = 0, rn.l = rn.lastNew,
         NEW env \in Instances(r), Joins(r, rn.cur, Depth(rn), env), InEntries(r, env), StepIs(r, env)
  PROVE  Past(r, env)
<1>1. /\ \A i \in 1 .. Depth(rn) : ~NewAt(r, rn.cur, i)
      /\ \A l \in Levels(r) : l > Depth(rn) => ~NewLevel(r, l)
      /\ BodyRight(r) /\ Levels(r) = 1 .. Len(Body(r)) + 1
      /\ Depth(rn) \in 0 .. Len(Body(r)) + 1
      /\ rn.cur \in [Levels(r) -> Nat]
  BY PathOf
<1>2. idx[r][1].finished
  <2>1. 1 \in Levels(r)
    BY <1>1 DEF BodyRight
  <2>2. CASE Depth(rn) = 0
    BY <1>1, <2>1, <2>2 DEF NewLevel, NewIn
  <2>3. CASE Depth(rn) # 0
    BY <1>1, <2>3 DEF NewAt
  <2> QED
    BY <2>2, <2>3
<1>3. ASSUME NEW l \in PosLevels(r)
      PROVE  \E p \in 1 .. Finished(r, l) : Entries(r, l)[p] = TupleAt(r, l, env)
  <2>1. l \in 2 .. Len(Body(r)) + 1 /\ l \in Levels(r) /\ l \notin IncLevels(r)
    BY <1>1, KindsDiffer DEF PosLevels
  <2>2. Finished(r, l) \in Nat
    BY DEF InstRight, IndexRight, Finished
  <2>3. CASE l <= Depth(rn)
    <3>1. l \in 2 .. Depth(rn) /\ l \in 1 .. Depth(rn) /\ rn.cur[l] \in Nat
      BY <1>1, <2>1, <2>3
    <3>2. rn.cur[l] \in 1 .. Len(Entries(r, l)) /\ Entries(r, l)[rn.cur[l]] = TupleAt(r, l, env)
      BY <3>1 DEF Joins
    <3>3. ~(rn.cur[l] > Finished(r, l))
      BY <1>1, <3>1 DEF NewAt
    <3> QED
      BY <2>2, <3>1, <3>2, <3>3
  <2>4. CASE l > Depth(rn)
    <3>1. PICK p \in 1 .. Len(Entries(r, l)) : Entries(r, l)[p] = TupleAt(r, l, env)
      BY DEF InEntries
    <3>2. Fits(r, l, Entries(r, l)[p])
      BY <3>1 DEF Fits
    <3>3. ~NewLevel(r, l)
      BY <1>1, <2>1, <2>4
    <3>4. p \notin Finished(r, l) + 1 .. Len(Entries(r, l))
      BY <3>2, <3>3 DEF NewLevel, NewIn, Finished, Entries
    <3> QED
      BY <2>2, <3>1, <3>4
  <2> QED
    BY <1>1, <2>1, <2>3, <2>4
<1>4. ASSUME NEW l \in IncLevels(r) PROVE env[StepVar(r, l)] <= Finished(r, l)
  <2>1. l \in Levels(r) /\ l \in 2 .. Len(Body(r)) + 1
    BY <1>1 DEF IncLevels
  <2>2. Finished(r, l) = step
    <3>1. CASE l <= Depth(rn)
      BY <1>1, <2>1, <3>1 DEF NewAt
    <3>2. CASE l > Depth(rn)
      BY <1>1, <2>1, <3>2 DEF NewLevel, NewIn, Finished
    <3> QED
      BY <1>1, <2>1, <3>1, <3>2
  <2>3. env[StepVar(r, l)] = step
    BY DEF StepIs
  <2>4. Finished(r, l) \in 0 .. step
    BY DEF InstRight, Finished
  <2> QED
    BY <2>2, <2>3, <2>4
<1> QED
  BY <1>2, <1>3, <1>4 DEF Past

------------------------------------------------------------------------------
(* Backtrack: the next match of the last level that had one.               *)
LEMMA NextFound ==
  ASSUME prog \in Programs, NEW r \in Names, InstRight(r), NEW rn, PathRight(rn), rn.stm = r,
         NEW k, k = Depth(rn), k # 0, NEW m, m = NextMatch(r, rn.cur, k)
  PROVE  /\ m.ok \in BOOLEAN /\ m.new \in BOOLEAN /\ m.pos \in Nat /\ (m.new => m.ok)
         /\ m.ok => k \in PosLevels(r)
         /\ k \in PosLevels(r) => rn.cur[k] \in 1 .. Len(Entries(r, k)) /\ Found(r, rn.cur, k, rn.cur[k], m)
<1>1. /\ BodyRight(r) /\ Levels(r) = 1 .. Len(Body(r)) + 1
      /\ k \in 1 .. Len(Body(r)) + 1
      /\ rn.cur \in [Levels(r) -> Nat]
      /\ \E env \in Instances(r) : Joins(r, rn.cur, k, env)
  BY PathOf
<1>2. CASE k \in PosLevels(r)
  <2>1. k \in 2 .. k /\ k > 1 /\ Lit(r, k).kind = "pos"
    BY <1>1, <1>2 DEF PosLevels
  <2>2. PICK env \in Instances(r) : Joins(r, rn.cur, k, env)
    BY <1>1
  <2>3. rn.cur[k] \in 1 .. Len(Entries(r, k))
    BY <1>2, <2>1, <2>2 DEF Joins
  <2>4. Joins(r, rn.cur, k - 1, env)
    BY <1>1, <2>2 DEF Joins
  <2>5. m = PredMatch(r, rn.cur, k, rn.cur[k])
    BY <2>1 DEF NextMatch
  <2>6. Entries(r, k) \in Seq(Tuples(PredAt(r, k)))
    BY <1>2 DEF InstRight, IndexRight, Entries
  <2>7. rn.cur[k] \in 1 .. Len(Entries(r, k)) + 1
    BY <2>3, <2>6
  <2>8. Found(r, rn.cur, k, rn.cur[k], m)
    BY <1>2, <2>4, <2>5, <2>7, PredMatchFound
  <2> QED
    BY <1>2, <2>3, <2>8 DEF Found
<1>3. CASE k \notin PosLevels(r)
  <2>1. ~(k > 1 /\ Lit(r, k).kind = "pos")
    BY <1>1, <1>3 DEF PosLevels
  <2>2. m = [ok |-> FALSE, new |-> FALSE, pos |-> 0]
    BY <2>1 DEF NextMatch, NoMatch
  <2> QED
    BY <1>3, <2>2
<1> QED
  BY <1>2, <1>3

WentBack(r, rn, rn2, k, m) ==
    /\ k = Depth(rn) /\ k # 0 /\ m = NextMatch(r, rn.cur, k)
    /\ ~rn.matched \/ (rn.numNew = 0 /\ rn.l = rn.lastNew)
    /\ Moved(r, rn, rn2, k, m, rn.numNew - Count(rn.new[k]) + Count(m.ok /\ m.new))

LEMMA PathBack ==
  ASSUME prog \in Programs, NEW r \in Names, InstRight(r), NEW rn, PathRight(rn), rn.stm = r,
         NEW rn2, NEW k, NEW m, WentBack(r, rn, rn2, k, m)
  PROVE  PathRight(rn2)
<1>1. /\ rn \in RunSet(r)
      /\ BodyRight(r) /\ Levels(r) = 1 .. Len(Body(r)) + 1
      /\ k \in 1 .. Len(Body(r)) + 1 /\ k <= rn.l
      /\ rn.cur \in [Levels(r) -> Nat] /\ rn.new \in [Levels(r) -> BOOLEAN]
      /\ \A i \in 1 .. k : rn.new[i] <=> NewAt(r, rn.cur, i)
      /\ NewAt(r, rn.cur, k) => NewLevel(r, k)
      /\ \A l \in Levels(r) : NewLevel(r, l) => l <= rn.lastNew
      /\ \E env \in Instances(r) : Joins(r, rn.cur, k, env)
      /\ rn.numNew \in Nat /\ rn.l \in Nat /\ rn.lastNew \in Nat
  <2>1. k = Depth(rn) /\ k # 0
    BY DEF WentBack
  <2>2. k \in 1 .. Len(Body(r)) + 1
    BY <2>1, PathOf DEF BodyRight
  <2>3. k \in 1 .. Depth(rn)
    BY <2>1, <2>2
  <2>4. Len(Body(r)) \in Nat
    BY RuleRight DEF BodyRight
  <2>5. rn \in RunSet(r)
    BY PathOf
  <2>6. rn.l \in Nat /\ rn.lastNew \in Nat
    BY <2>4, <2>5, RunFields
  <2> QED
    BY <2>1, <2>2, <2>3, <2>5, <2>6, PathOf
<1>11. k \in Nat /\ k \in Levels(r) /\ \A i \in 2 .. k - 1 : i \in Levels(r) /\ i # k
  BY <1>1 DEF BodyRight
<1>2. /\ m.ok \in BOOLEAN /\ m.new \in BOOLEAN /\ m.pos \in Nat /\ (m.new => m.ok)
      /\ m.ok => k \in PosLevels(r)
      /\ k \in PosLevels(r) => rn.cur[k] \in 1 .. Len(Entries(r, k)) /\ Found(r, rn.cur, k, rn.cur[k], m)
  BY NextFound DEF WentBack
<1>3. PICK n : n = rn.numNew - Count(rn.new[k]) + Count(m.ok /\ m.new)
  OBVIOUS
<1>4. Moved(r, rn, rn2, k, m, n) /\ k \in Levels(r)
  BY <1>1, <1>3 DEF WentBack
<1>5. \E env \in Instances(r) : Joins(r, rn.cur, k - 1, env)
  BY <1>1 DEF Joins
<1>6. \A i \in 1 .. k - 1 : rn.new[i] <=> NewAt(r, rn.cur, i)
  BY <1>1
<1>7. n = Cardinality(NewSet(rn.new, k - 1)) + Count(m.ok /\ m.new)
  <2>1. rn.numNew = Cardinality(NewSet(rn.new, k))
    BY DEF PathRight, WentBack
  <2>2. PICK N \in Nat : N = Len(Body(r)) + 1
    BY <1>1 DEF BodyRight
  <2>3. /\ Cardinality(NewSet(rn.new, k)) = Cardinality(NewSet(rn.new, k - 1)) + Count(rn.new[k])
        /\ Cardinality(NewSet(rn.new, k - 1)) \in Nat
    BY <1>1, <2>2, CountNew
  <2>4. Count(rn.new[k]) \in Int /\ Count(m.ok /\ m.new) \in Int
    BY DEF Count
  <2> QED
    BY <1>3, <2>1, <2>3, <2>4
<1>8. k > rn.lastNew => n > 0
  <2> SUFFICES ASSUME k > rn.lastNew PROVE n > 0
    OBVIOUS
  <2>1. ~NewLevel(r, k)
    BY <1>1
  <2>2. Count(rn.new[k]) = 0
    BY <1>1, <2>1 DEF Count
  <2>3. rn.l > rn.lastNew
    BY <1>1
  <2>4. rn.numNew > 0
    BY <2>3 DEF PathRight
  <2>5. Count(m.ok /\ m.new) \in {0, 1}
    BY DEF Count
  <2> QED
    BY <1>1, <1>3, <2>2, <2>4, <2>5
<1>9. ASSUME m.ok
      PROVE  (\E env \in Instances(r) : Joins(r, rn2.cur, k, env)) /\ (m.new <=> NewAt(r, rn2.cur, k))
  <2>1. k \in PosLevels(r) /\ k \notin IncLevels(r) /\ k # 1
    BY <1>2, <1>9, KindsDiffer
  <2>2. /\ m.pos \in 1 .. rn.cur[k] - 1 /\ rn.cur[k] \in 1 .. Len(Entries(r, k))
        /\ m.new <=> m.pos > Finished(r, k)
        /\ \E env \in Instances(r) : Joins(r, rn.cur, k - 1, env) /\ Entries(r, k)[m.pos] = TupleAt(r, k, env)
    BY <1>2, <1>9, <2>1 DEF Found
  <2>3. rn2.cur[k] = m.pos /\ \A i \in Levels(r) : i # k => rn2.cur[i] = rn.cur[i]
    BY <1>4 DEF Moved
  <2>4. PICK env \in Instances(r) : Joins(r, rn.cur, k - 1, env) /\ Entries(r, k)[m.pos] = TupleAt(r, k, env)
    BY <2>2
  <2>5. \A i \in 2 .. k - 1 : rn2.cur[i] = rn.cur[i]
    BY <1>11, <2>3
  <2>6. Joins(r, rn2.cur, k - 1, env)
    BY <2>4, <2>5 DEF Joins
  <2>7. Entries(r, k) \in Seq(Tuples(PredAt(r, k)))
    BY <2>1 DEF InstRight, IndexRight, Entries
  <2>8. m.pos \in 1 .. Len(Entries(r, k))
    BY <2>2, <2>7
  <2>9. Joins(r, rn2.cur, k, env)
    BY <1>11, <2>1, <2>3, <2>4, <2>6, <2>8, JoinsNext
  <2>10. m.new <=> NewAt(r, rn2.cur, k)
    BY <2>1, <2>2, <2>3 DEF NewAt
  <2> QED
    BY <2>9, <2>10
<1>10. rn.lastNew # 0 => NewLevel(r, rn.lastNew)
  BY DEF PathRight
<1> QED
  <2>1. /\ rn \in RunSet(r) /\ k \in Levels(r)
        /\ m.ok \in BOOLEAN /\ m.new \in BOOLEAN /\ (m.new => m.ok)
    BY <1>1, <1>2, <1>11
  <2>2. \A l \in Levels(r) : NewLevel(r, l) => l <= rn.lastNew
    BY <1>1
  <2>3. m.ok => /\ \E env \in Instances(r) : Joins(r, rn2.cur, k, env)
                /\ m.new <=> NewAt(r, rn2.cur, k)
    BY <1>9
  <2> QED
    BY <1>4, <1>5, <1>6, <1>7, <1>8, <1>10, <2>1, <2>2, <2>3, PathMoved

(* What a backtracking search leaves behind: what was behind stays there,  *)
(* and what comes on top is the join it leaves, which is not needed.       *)
LEMMA BackKeeps ==
  ASSUME prog \in Programs, NEW r \in Names, InstRight(r), NEW rn, PathRight(rn), rn.stm = r,
         NEW rn2, NEW k, NEW m, WentBack(r, rn, rn2, k, m),
         NEW env, Behind(rn, env)
  PROVE  Behind(rn2, env)
<1>1. /\ Len(Body(r)) \in Nat /\ Levels(r) = 1 .. Len(Body(r)) + 1
      /\ k = Depth(rn) /\ k \in 1 .. Len(Body(r)) + 1
      /\ rn.cur \in [Levels(r) -> Nat]
  BY PathOf DEF WentBack, BodyRight
<1>2. /\ m.ok \in BOOLEAN /\ m.pos \in Nat
      /\ m.ok => k \in PosLevels(r)
      /\ k \in PosLevels(r) => rn.cur[k] \in 1 .. Len(Entries(r, k)) /\ Found(r, rn.cur, k, rn.cur[k], m)
  BY NextFound DEF WentBack
<1>3. /\ rn2.stm = r /\ rn2.matched = m.ok /\ rn2.cur[k] = m.pos /\ rn2.l = k
      /\ \A i \in Levels(r) : i # k => rn2.cur[i] = rn.cur[i]
  BY <1>1, RunFields DEF WentBack, Moved
<1>4. Depth(rn2) = IF m.ok THEN k ELSE k - 1
  BY <1>3 DEF Depth
<1>5. \A i \in 2 .. k - 1 : rn2.cur[i] = rn.cur[i]
  BY <1>1, <1>3
<1>6. \A j \in 0 .. k - 1 : Joins(r, rn.cur, j, env) => Joins(r, rn2.cur, j, env)
  BY <1>1, <1>5 DEF Joins
<1>7. \A j \in PosLevels(r) : Entries(r, j) \in Seq(Tuples(PredAt(r, j)))
  BY DEF InstRight, IndexRight, Entries
<1>8. ASSUME m.ok, Joins(r, rn.cur, k - 1, env), NEW p \in rn.cur[k] .. Len(Entries(r, k)),
             Entries(r, k)[p] = TupleAt(r, k, env)
      PROVE  Behind(rn2, env)
  <2>1. k \in PosLevels(r) /\ m.pos < rn.cur[k] /\ rn.cur[k] \in Nat
    BY <1>1, <1>2, <1>8 DEF Found
  <2>2. Len(Entries(r, k)) \in Nat
    BY <1>7, <2>1
  <2>3. p \in rn2.cur[k] + 1 .. Len(Entries(r, k))
    BY <1>2, <1>3, <2>1, <2>2
  <2>4. k \in 2 .. Depth(rn2)
    BY <1>1, <1>4, <1>8, <2>1, KindsDiffer
  <2>5. Joins(r, rn2.cur, k - 1, env)
    BY <1>1, <1>6, <1>8
  <2> QED
    BY <1>3, <1>8, <2>1, <2>3, <2>4, <2>5 DEF Behind
<1>9. CASE \E j \in 2 .. k :
            /\ j \in PosLevels(r)
            /\ Joins(r, rn.cur, j - 1, env)
            /\ \E p \in rn.cur[j] + 1 .. Len(Entries(r, j)) : Entries(r, j)[p] = TupleAt(r, j, env)
  <2>1. PICK j \in 2 .. k :
            /\ j \in PosLevels(r)
            /\ Joins(r, rn.cur, j - 1, env)
            /\ \E p \in rn.cur[j] + 1 .. Len(Entries(r, j)) : Entries(r, j)[p] = TupleAt(r, j, env)
    BY <1>9
  <2>2. PICK p \in rn.cur[j] + 1 .. Len(Entries(r, j)) : Entries(r, j)[p] = TupleAt(r, j, env)
    BY <2>1
  <2>3. rn.cur[j] \in Nat /\ Len(Entries(r, j)) \in Nat
    BY <1>1, <1>7, <2>1
  <2>4. CASE j # k
    <3>1. j \in 2 .. Depth(rn2) /\ rn2.cur[j] = rn.cur[j] /\ Joins(r, rn2.cur, j - 1, env)
      BY <1>1, <1>4, <1>5, <1>6, <2>1, <2>4
    <3> QED
      BY <1>3, <2>1, <2>2, <3>1 DEF Behind
  <2>5. CASE j = k /\ m.ok
    <3>1. p \in rn.cur[k] .. Len(Entries(r, k)) /\ Entries(r, k)[p] = TupleAt(r, k, env)
      BY <2>2, <2>3, <2>5
    <3> QED
      BY <1>8, <2>1, <2>5, <3>1
  <2>6. CASE j = k /\ ~m.ok
    <3>1. Joins(r, rn2.cur, k - 1, env)
      BY <1>1, <1>6, <2>1, <2>6
    <3> QED
      BY <1>3, <1>4, <2>6, <3>1 DEF Behind
  <2> QED
    BY <2>4, <2>5, <2>6
<1>10. CASE Joins(r, rn.cur, k, env)
  <2>1. Joins(r, rn.cur, k - 1, env)
    BY <1>1, <1>10 DEF Joins
  <2>2. CASE m.ok
    <3>1. k \in PosLevels(r) /\ k \in 2 .. k
      BY <1>1, <1>2, <2>2, KindsDiffer
    <3>2. rn.cur[k] \in rn.cur[k] .. Len(Entries(r, k)) /\ Entries(r, k)[rn.cur[k]] = TupleAt(r, k, env)
      BY <1>10, <3>1 DEF Joins
    <3> QED
      BY <1>8, <2>1, <2>2, <3>2
  <2>3. CASE ~m.ok
    <3>1. Joins(r, rn2.cur, k - 1, env)
      BY <1>1, <1>6, <2>1
    <3> QED
      BY <1>3, <1>4, <2>3, <3>1 DEF Behind
  <2> QED
    BY <2>2, <2>3
<1> QED
  BY <1>1, <1>9, <1>10 DEF Behind

LEMMA BackAdds ==
  ASSUME prog \in Programs, NEW r \in Names, InstRight(r), NEW rn, PathRight(rn), rn.stm = r,
         NEW rn2, NEW k, NEW m, WentBack(r, rn, rn2, k, m),
         NEW env \in Instances(r), InEntries(r, env), StepIs(r, env), Behind(rn2, env)
  PROVE  Behind(rn, env) \/ Past(r, env)
<1>1. /\ Len(Body(r)) \in Nat /\ Levels(r) = 1 .. Len(Body(r)) + 1
      /\ k = Depth(rn) /\ k \in 1 .. Len(Body(r)) + 1
      /\ rn.cur \in [Levels(r) -> Nat]
      /\ ~rn.matched \/ (rn.numNew = 0 /\ rn.l = rn.lastNew)
  BY PathOf DEF WentBack, BodyRight
<1>2. /\ m.ok \in BOOLEAN /\ m.pos \in Nat
      /\ m.ok => k \in PosLevels(r)
      /\ k \in PosLevels(r) => rn.cur[k] \in 1 .. Len(Entries(r, k)) /\ Found(r, rn.cur, k, rn.cur[k], m)
  BY NextFound DEF WentBack
<1>3. /\ rn2.stm = r /\ rn2.matched = m.ok /\ rn2.cur[k] = m.pos /\ rn2.l = k
      /\ \A i \in Levels(r) : i # k => rn2.cur[i] = rn.cur[i]
  BY <1>1, RunFields DEF WentBack, Moved
<1>4. Depth(rn2) = IF m.ok THEN k ELSE k - 1
  BY <1>3 DEF Depth
<1>5. \A i \in 2 .. k - 1 : rn2.cur[i] = rn.cur[i]
  BY <1>1, <1>3
<1>6. ASSUME NEW j \in 0 .. k - 1, Joins(r, rn2.cur, j, env) PROVE Joins(r, rn.cur, j, env)
  <2>1. \A i \in 2 .. j : rn2.cur[i] = rn.cur[i]
    BY <1>1, <1>5
  <2> QED
    BY <1>6, <2>1 DEF Joins
<1>7. \A j \in PosLevels(r) : Entries(r, j) \in Seq(Tuples(PredAt(r, j)))
  BY DEF InstRight, IndexRight, Entries
<1>8. ASSUME Joins(r, rn.cur, k, env) PROVE Behind(rn, env) \/ Past(r, env)
  <2>1. CASE ~rn.matched
    BY <1>1, <1>8, <2>1 DEF Behind
  <2>2. CASE rn.matched
    BY <1>1, <1>8, <2>2, AllOld
  <2> QED
    BY <2>1, <2>2
<1>9. ASSUME k \in PosLevels(r), Joins(r, rn.cur, k - 1, env),
             NEW p \in 1 .. Len(Entries(r, k)), Entries(r, k)[p] = TupleAt(r, k, env),
             m.ok => p > m.pos
      PROVE  Behind(rn, env) \/ Past(r, env)
  <2>1. /\ rn.cur[k] \in 1 .. Len(Entries(r, k)) /\ Len(Entries(r, k)) \in Nat
        /\ k \in 2 .. Depth(rn) /\ k \notin IncLevels(r)
    BY <1>1, <1>2, <1>7, <1>9, KindsDiffer
  <2>2. CASE p > rn.cur[k]
    <3>1. p \in rn.cur[k] + 1 .. Len(Entries(r, k))
      BY <1>9, <2>1, <2>2
    <3> QED
      BY <1>9, <2>1, <3>1 DEF Behind
  <2>3. CASE p = rn.cur[k]
    <3>1. Joins(r, rn.cur, k, env)
      BY <1>1, <1>9, <2>1, <2>3, JoinsNext
    <3> QED
      BY <1>8, <3>1
  <2>4. CASE p < rn.cur[k]
    <3>1. p \in 1 .. rn.cur[k] - 1
      BY <1>9, <2>1, <2>4
    <3>2. m.ok /\ p <= m.pos
      BY <1>2, <1>9, <3>1 DEF Found
    <3> QED
      BY <1>2, <1>9, <3>2
  <2> QED
    BY <1>9, <2>1, <2>2, <2>3, <2>4
<1>10. CASE \E j \in 2 .. Depth(rn2) :
            /\ j \in PosLevels(r)
            /\ Joins(r, rn2.cur, j - 1, env)
            /\ \E p \in rn2.cur[j] + 1 .. Len(Entries(r, j)) : Entries(r, j)[p] = TupleAt(r, j, env)
  <2>1. PICK j \in 2 .. Depth(rn2) :
            /\ j \in PosLevels(r)
            /\ Joins(r, rn2.cur, j - 1, env)
            /\ \E p \in rn2.cur[j] + 1 .. Len(Entries(r, j)) : Entries(r, j)[p] = TupleAt(r, j, env)
    BY <1>10
  <2>2. j \in 2 .. k /\ Joins(r, rn.cur, j - 1, env)
    BY <1>1, <1>4, <1>6, <2>1
  <2>3. CASE j # k
    <3>1. rn2.cur[j] = rn.cur[j] /\ j \in 2 .. Depth(rn)
      BY <1>1, <1>5, <2>2, <2>3
    <3> QED
      BY <2>1, <2>2, <3>1 DEF Behind
  <2>4. CASE j = k
    <3>1. PICK p \in m.pos + 1 .. Len(Entries(r, k)) : Entries(r, k)[p] = TupleAt(r, k, env)
      BY <1>3, <2>1, <2>4
    <3>2. Len(Entries(r, k)) \in Nat
      BY <1>7, <2>1, <2>4
    <3>3. p \in 1 .. Len(Entries(r, k)) /\ p > m.pos
      BY <1>2, <3>1, <3>2
    <3> QED
      BY <1>9, <2>1, <2>2, <2>4, <3>1, <3>3
  <2> QED
    BY <2>3, <2>4
<1>11. CASE ~m.ok /\ Joins(r, rn2.cur, k - 1, env)
  <2>1. Joins(r, rn.cur, k - 1, env)
    BY <1>1, <1>6, <1>11
  <2>2. CASE k \in PosLevels(r)
    <3>1. PICK p \in 1 .. Len(Entries(r, k)) : Entries(r, k)[p] = TupleAt(r, k, env)
      BY <2>2 DEF InEntries
    <3> QED
      BY <1>9, <1>11, <2>1, <2>2, <3>1
  <2>3. CASE k \notin PosLevels(r)
    <3>1. k \in IncLevels(r) => env[StepVar(r, k)] = step
      BY DEF StepIs
    <3>2. k \in Nat
      BY <1>1
    <3>3. Joins(r, rn.cur, k, env)
      BY <2>1, <2>3, <3>1, <3>2, JoinsNext
    <3> QED
      BY <1>8, <3>3
  <2> QED
    BY <2>2, <2>3
<1> QED
  BY <1>3, <1>4, <1>10, <1>11 DEF Behind

------------------------------------------------------------------------------
(* Advance: the first match of the next level.                             *)
WentOn(r, rn, rn2, k, m) ==
    /\ rn.matched /\ ~(rn.numNew = 0 /\ rn.l = rn.lastNew)
    /\ rn.l < Len(Body(r)) + 1 /\ k = rn.l + 1 /\ m = FirstMatch(r, rn.cur, k)
    /\ Moved(r, rn, rn2, k, m, rn.numNew + Count(m.ok /\ m.new))

LEMMA FirstFound ==
  ASSUME prog \in Programs, NEW r \in Names, InstRight(r), NEW cur, NEW k \in Levels(r),
         NEW env0 \in Instances(r), Joins(r, cur, k - 1, env0), NEW m, m = FirstMatch(r, cur, k)
  PROVE  /\ m.ok \in BOOLEAN /\ m.new \in BOOLEAN /\ m.pos \in Nat /\ (m.new => m.ok)
         /\ k \in PosLevels(r) => Found(r, cur, k, Len(Entries(r, k)) + 1, m)
         /\ k \notin PosLevels(r) /\ m.ok => (m.new <=> NewAt(r, cur, k))
         /\ k \notin PosLevels(r) /\ ~m.ok =>
                /\ k \in NegLevels(r)
                /\ \A env \in Instances(r) : Joins(r, cur, k - 1, env) => ~Unblocked(r, env)
<1>1. BodyRight(r) /\ BindingRight(r)
  BY RuleRight
<1>2. PICK N \in Nat : N = Len(Body(r)) /\ k \in 1 .. N + 1
  BY <1>1 DEF BodyRight, Levels
<1>3. CASE k = 1
  <2>1. m = [ok |-> TRUE, new |-> ~idx[r][1].finished, pos |-> 0]
    BY <1>3 DEF FirstMatch
  <2>2. 1 \notin PosLevels(r) /\ 1 \notin IncLevels(r)
    BY KindsDiffer
  <2>3. m.ok /\ m.pos = 0 /\ m.new = ~idx[r][1].finished
    BY <2>1
  <2>4. m.ok \in BOOLEAN /\ m.new \in BOOLEAN /\ m.pos \in Nat
    BY <2>1
  <2>5. m.new <=> NewAt(r, cur, k)
    BY <1>3, <2>2, <2>3 DEF NewAt
  <2> QED
    BY <1>3, <2>2, <2>3, <2>4, <2>5
<1>4. CASE k \in PosLevels(r)
  <2>1. k # 1 /\ Lit(r, k).kind = "pos"
    BY <1>4, KindsDiffer DEF PosLevels
  <2>2. m = PredMatch(r, cur, k, Len(Entries(r, k)) + 1)
    BY <2>1 DEF FirstMatch, Entries
  <2>3. Entries(r, k) \in Seq(Tuples(PredAt(r, k)))
    BY <1>4 DEF InstRight, IndexRight, Entries
  <2>4. Len(Entries(r, k)) + 1 \in 1 .. Len(Entries(r, k)) + 1
    BY <2>3
  <2>5. Found(r, cur, k, Len(Entries(r, k)) + 1, m)
    BY <1>4, <2>2, <2>4, PredMatchFound
  <2> QED
    BY <1>4, <2>5 DEF Found
<1>5. CASE k \in IncLevels(r)
  <2>1. k # 1 /\ Lit(r, k).kind = "inc" /\ k \notin PosLevels(r)
    BY <1>5, KindsDiffer DEF IncLevels
  <2>2. m = [ok |-> TRUE, new |-> HasNew(r, idx[r], k), pos |-> 0]
    BY <2>1 DEF FirstMatch
  <2>3. HasNew(r, idx[r], k) <=> NewIn(r, idx[r], k)
    BY <2>1, HasNewIs
  <2>4. NewIn(r, idx[r], k) <=> NewAt(r, cur, k)
    BY <2>1 DEF NewIn, NewAt, Finished
  <2>5. HasNew(r, idx[r], k) \in BOOLEAN
    <3>1. HasNew(r, idx[r], k) = (idx[r][k].finished # step)
      BY <1>2, <2>1 DEF HasNew
    <3> QED
      BY <3>1
  <2>6. m.ok /\ m.pos = 0 /\ m.new = HasNew(r, idx[r], k)
    BY <2>2
  <2>7. m.ok \in BOOLEAN /\ m.pos \in Nat
    BY <2>2
  <2>8. m.new \in BOOLEAN
    BY <2>5, <2>6
  <2> QED
    BY <2>1, <2>3, <2>4, <2>6, <2>7, <2>8
<1>6. CASE k \in NegLevels(r)
  <2>1. k # 1 /\ Lit(r, k).kind = "neg" /\ k \notin PosLevels(r) /\ k \notin IncLevels(r)
    BY <1>6, KindsDiffer DEF NegLevels
  <2>2. PICK ok \in BOOLEAN : ok <=> Atom(Lit(r, k), Env(r, cur, k - 1)) \notin fact
    OBVIOUS
  <2>3. m = [NoMatch EXCEPT !.ok = (Atom(Lit(r, k), Env(r, cur, k - 1)) \notin fact)]
    BY <2>1 DEF FirstMatch
  <2>4. m = [ok |-> ok, new |-> FALSE, pos |-> 0]
    BY <2>2, <2>3 DEF NoMatch
  <2>5. m.ok = ok /\ ~m.new /\ m.pos = 0 /\ m.ok \in BOOLEAN /\ m.new \in BOOLEAN
    BY <2>4
  <2>6. ~NewAt(r, cur, k)
    BY <2>1 DEF NewAt
  <2>7. ASSUME ~m.ok, NEW env \in Instances(r), Joins(r, cur, k - 1, env) PROVE ~Unblocked(r, env)
    <3>1. k - 1 \in 0 .. Len(Body(r)) + 1
      BY <1>2
    <3>2. \A v \in BoundVars(r, k - 1) : Env(r, cur, k - 1)[v] = env[v]
      BY <2>7, <3>1, EnvOf
    <3>3. \A v \in VarsOf(Lit(r, k)) : v \in BoundVars(r, k - 1)
      <4>1. \A v \in VarsOf(Lit(r, k)) : \E j \in 2 .. k - 1 : Binds(r, j, v)
        BY <1>1, <1>6 DEF BindingRight
      <4>2. k \in 2 .. Len(Body(r)) + 1
        BY <1>6 DEF NegLevels
      <4>3. VarsOf(Lit(r, k)) \subseteq VarsIn(r)
        BY <1>1, <4>2 DEF BodyRight
      <4> QED
        BY <4>1, <4>3 DEF BoundVars
    <3>4. PICK lit : lit = Lit(r, k)
      OBVIOUS
    <3>5. \A i \in DOMAIN lit.args : IsVar(lit.args[i]) => lit.args[i] \in VarsOf(lit)
      BY DEF VarsOf, ToSet
    <3>6. PICK env1 : env1 = Env(r, cur, k - 1)
      OBVIOUS
    <3>7. \A i \in DOMAIN lit.args : Value(lit.args[i], env1) = Value(lit.args[i], env)
      BY <3>2, <3>3, <3>4, <3>5, <3>6 DEF Value
    <3>8. Apply(lit, env1) = Apply(lit, env)
      BY <3>7 DEF Apply
    <3>9. Atom(lit, env1) \in fact
      BY <2>2, <2>5, <2>7, <3>4, <3>6
    <3>10. Atom(lit, env) \in fact
      BY <3>8, <3>9 DEF Atom
    <3> QED
      BY <1>6, <3>4, <3>10 DEF Unblocked
  <2> QED
    BY <1>6, <2>1, <2>5, <2>6, <2>7
<1>7. k = 1 \/ k \in 2 .. N + 1
  BY <1>2
<1> QED
  BY <1>1, <1>2, <1>3, <1>4, <1>5, <1>6, <1>7 DEF BodyRight

LEMMA PathOn ==
  ASSUME prog \in Programs, NEW r \in Names, InstRight(r), NEW rn, PathRight(rn), rn.stm = r,
         \A l \in IncLevels(r) : step \in Consts,
         NEW rn2, NEW k, NEW m, WentOn(r, rn, rn2, k, m)
  PROVE  PathRight(rn2)
<1>1. /\ rn \in RunSet(r)
      /\ BodyRight(r) /\ Levels(r) = 1 .. Len(Body(r)) + 1
      /\ rn.l = Depth(rn)
      /\ rn.cur \in [Levels(r) -> Nat] /\ rn.new \in [Levels(r) -> BOOLEAN]
      /\ \A i \in 1 .. Depth(rn) : rn.new[i] <=> NewAt(r, rn.cur, i)
      /\ \A l \in Levels(r) : NewLevel(r, l) => l <= rn.lastNew
      /\ \E env \in Instances(r) : Joins(r, rn.cur, Depth(rn), env)
      /\ rn.numNew \in Nat
  BY PathOf DEF WentOn
<1>2. PICK N \in Nat : N = Len(Body(r)) + 1
  BY <1>1 DEF BodyRight
<1>3. rn.l \in Nat /\ rn.lastNew \in Nat
  BY <1>1, <1>2, RunFields DEF BodyRight
<1>4. /\ k \in 1 .. N /\ k \in Levels(r) /\ k - 1 = Depth(rn) /\ k = rn.l + 1 /\ k \in Nat
      /\ \A i \in 2 .. k - 1 : i \in Levels(r) /\ i # k
  BY <1>1, <1>2, <1>3 DEF WentOn
<1>5. PICK env0 \in Instances(r) : Joins(r, rn.cur, k - 1, env0)
  BY <1>1, <1>4
<1>6. /\ m.ok \in BOOLEAN /\ m.new \in BOOLEAN /\ m.pos \in Nat /\ (m.new => m.ok)
      /\ k \in PosLevels(r) => Found(r, rn.cur, k, Len(Entries(r, k)) + 1, m)
      /\ k \notin PosLevels(r) /\ m.ok => (m.new <=> NewAt(r, rn.cur, k))
  BY <1>4, <1>5, FirstFound DEF WentOn
<1>7. PICK n : n = rn.numNew + Count(m.ok /\ m.new)
  OBVIOUS
<1>8. Moved(r, rn, rn2, k, m, n)
  BY <1>7 DEF WentOn
<1>9. rn2.cur[k] = m.pos /\ \A i \in 2 .. k - 1 : rn2.cur[i] = rn.cur[i]
  BY <1>4, <1>8 DEF Moved
<1>10. n = Cardinality(NewSet(rn.new, k - 1)) + Count(m.ok /\ m.new)
  BY <1>4, <1>7 DEF PathRight
<1>11. k > rn.lastNew => n > 0
  <2> SUFFICES ASSUME k > rn.lastNew PROVE n > 0
    OBVIOUS
  <2>1. Count(m.ok /\ m.new) \in {0, 1}
    BY DEF Count
  <2>2. rn.numNew > 0
    <3>1. CASE rn.l > rn.lastNew
      BY <3>1 DEF PathRight
    <3>2. CASE rn.l = rn.lastNew
      BY <1>1, <3>2 DEF WentOn
    <3> QED
      BY <1>3, <1>4, <3>1, <3>2
  <2> QED
    BY <1>1, <1>7, <2>1, <2>2
<1>12. ASSUME m.ok
       PROVE  (\E env \in Instances(r) : Joins(r, rn2.cur, k, env)) /\ (m.new <=> NewAt(r, rn2.cur, k))
  <2>1. CASE k \in PosLevels(r)
    <3>1. k \notin IncLevels(r) /\ k # 1
      BY <2>1, KindsDiffer
    <3>2. /\ m.pos \in 1 .. Len(Entries(r, k)) + 1 - 1
          /\ m.new <=> m.pos > Finished(r, k)
          /\ \E env \in Instances(r) : Joins(r, rn.cur, k - 1, env) /\ Entries(r, k)[m.pos] = TupleAt(r, k, env)
      BY <1>6, <1>12, <2>1 DEF Found
    <3>3. PICK env \in Instances(r) : Joins(r, rn.cur, k - 1, env) /\ Entries(r, k)[m.pos] = TupleAt(r, k, env)
      BY <3>2
    <3>4. Joins(r, rn2.cur, k - 1, env)
      BY <1>9, <3>3 DEF Joins
    <3>5. Entries(r, k) \in Seq(Tuples(PredAt(r, k)))
      BY <2>1 DEF InstRight, IndexRight, Entries
    <3>6. m.pos \in 1 .. Len(Entries(r, k))
      BY <3>2, <3>5
    <3>7. Joins(r, rn2.cur, k, env)
      BY <1>4, <1>9, <3>1, <3>3, <3>4, <3>6, JoinsNext
    <3>8. m.new <=> NewAt(r, rn2.cur, k)
      BY <1>9, <2>1, <3>1, <3>2 DEF NewAt
    <3> QED
      BY <3>7, <3>8
  <2>2. CASE k \in IncLevels(r)
    <3>1. k \notin PosLevels(r) /\ k # 1 /\ k \in 2 .. Len(Body(r)) + 1
      BY <2>2, KindsDiffer DEF IncLevels
    <3>2. PICK x : x = StepVar(r, k)
      OBVIOUS
    <3>3. x \in VarsIn(r) /\ VarsOf(Lit(r, k)) = {x}
      BY <1>1, <2>2, <3>1, <3>2 DEF BodyRight
    <3>4. PICK env \in Instances(r) : env[x] = step /\ \A v \in VarsIn(r) : v # x => env[v] = env0[v]
      <4>1. [v \in VarsIn(r) |-> IF v = x THEN step ELSE env0[v]] \in Instances(r)
        BY <2>2 DEF Instances
      <4> QED
        BY <3>3, <4>1
    <3>5. ASSUME NEW v \in BoundVars(r, k - 1) PROVE env0[v] = env[v]
      <4>1. v \in VarsIn(r)
        BY DEF BoundVars
      <4>2. CASE v # x
        BY <3>4, <4>1, <4>2
      <4>3. CASE v = x
        <5>1. PICK i \in 2 .. k - 1 : Binds(r, i, x)
          BY <4>3 DEF BoundVars
        <5>2. i \notin PosLevels(r)
          BY <1>1, <1>4, <2>2, <3>2, <5>1 DEF BodyRight, Binds
        <5>3. i \in IncLevels(r) /\ StepVar(r, i) = x
          BY <1>1, <5>1, <5>2 DEF BodyRight, Binds
        <5>4. env0[x] = step
          BY <1>5, <5>1, <5>3 DEF Joins
        <5> QED
          BY <3>4, <4>3, <5>4
      <4> QED
        BY <4>2, <4>3
    <3>6. k - 1 \in 0 .. Len(Body(r)) + 1
      BY <1>2, <1>4
    <3>7. Joins(r, rn.cur, k - 1, env)
      BY <1>5, <3>5, <3>6, JoinsAgree
    <3>8. Joins(r, rn2.cur, k - 1, env)
      BY <1>9, <3>7 DEF Joins
    <3>9. Joins(r, rn2.cur, k, env)
      BY <1>4, <3>1, <3>2, <3>4, <3>8, JoinsNext
    <3>10. NewAt(r, rn2.cur, k) <=> NewAt(r, rn.cur, k)
      BY <3>1 DEF NewAt
    <3> QED
      BY <1>6, <1>12, <3>1, <3>9, <3>10
  <2>3. CASE k \notin PosLevels(r) /\ k \notin IncLevels(r)
    <3>1. Joins(r, rn2.cur, k - 1, env0)
      BY <1>5, <1>9 DEF Joins
    <3>2. Joins(r, rn2.cur, k, env0)
      BY <1>4, <2>3, <3>1, JoinsNext
    <3>3. NewAt(r, rn2.cur, k) <=> NewAt(r, rn.cur, k)
      BY <2>3 DEF NewAt
    <3> QED
      BY <1>6, <1>12, <2>3, <3>2, <3>3
  <2> QED
    BY <2>1, <2>2, <2>3
<1>13. rn.lastNew # 0 => NewLevel(r, rn.lastNew)
  BY DEF PathRight
<1>14. \A i \in 1 .. k - 1 : rn.new[i] <=> NewAt(r, rn.cur, i)
  BY <1>1, <1>4
<1>15. \E env \in Instances(r) : Joins(r, rn.cur, k - 1, env)
  BY <1>5
<1>16. rn \in RunSet(r) /\ \A l \in Levels(r) : NewLevel(r, l) => l <= rn.lastNew
  BY <1>1
<1>17. m.ok => /\ \E env \in Instances(r) : Joins(r, rn2.cur, k, env)
               /\ m.new <=> NewAt(r, rn2.cur, k)
  BY <1>12
<1>18. k \in Levels(r) /\ m.ok \in BOOLEAN /\ m.new \in BOOLEAN /\ (m.new => m.ok)
  BY <1>4, <1>6
<1> QED
  BY <1>8, <1>10, <1>11, <1>13, <1>14, <1>15, <1>16, <1>17, <1>18, PathMoved

LEMMA OnKeeps ==
  ASSUME prog \in Programs, NEW r \in Names, InstRight(r), NEW rn, PathRight(rn), rn.stm = r,
         NEW rn2, NEW k, NEW m, WentOn(r, rn, rn2, k, m),
         NEW env \in Instances(r)
  PROVE  /\ Behind(rn, env) => Behind(rn2, env)
         /\ InEntries(r, env) /\ StepIs(r, env) /\ Unblocked(r, env) /\ Behind(rn2, env) => Behind(rn, env)
<1>1. /\ BodyRight(r) /\ Levels(r) = 1 .. Len(Body(r)) + 1
      /\ rn.l = Depth(rn) /\ Depth(rn) \in 0 .. Len(Body(r)) + 1
      /\ rn.cur \in [Levels(r) -> Nat]
      /\ \E other \in Instances(r) : Joins(r, rn.cur, Depth(rn), other)
      /\ rn.matched
  BY PathOf DEF WentOn
<1>2. PICK N \in Nat : N = Len(Body(r)) + 1
  BY <1>1 DEF BodyRight
<1>4. /\ k \in 1 .. N /\ k \in Levels(r) /\ k - 1 = Depth(rn) /\ k \in Nat
      /\ \A i \in 2 .. k - 1 : i \in Levels(r) /\ i # k
  BY <1>1, <1>2 DEF WentOn
<1>5. PICK env0 \in Instances(r) : Joins(r, rn.cur, k - 1, env0)
  BY <1>1, <1>4
<1>6. /\ m.ok \in BOOLEAN /\ m.pos \in Nat
      /\ k \in PosLevels(r) => Found(r, rn.cur, k, Len(Entries(r, k)) + 1, m)
      /\ k \notin PosLevels(r) /\ ~m.ok =>
                \A other \in Instances(r) : Joins(r, rn.cur, k - 1, other) => ~Unblocked(r, other)
  BY <1>4, <1>5, FirstFound DEF WentOn
<1>8. /\ rn2.stm = r /\ rn2.matched = m.ok /\ rn2.cur[k] = m.pos /\ rn2.l = k
      /\ \A i \in 2 .. k - 1 : rn2.cur[i] = rn.cur[i]
  <2>1. Len(Body(r)) \in Nat
    BY <1>1 DEF BodyRight
  <2> QED
    BY <1>4, <2>1, RunFields DEF WentOn, Moved
<1>9. Depth(rn2) = IF m.ok THEN k ELSE k - 1
  BY <1>8 DEF Depth
<1>10. ASSUME NEW j \in 0 .. k - 1 PROVE Joins(r, rn.cur, j, env) <=> Joins(r, rn2.cur, j, env)
  <2>1. \A i \in 2 .. j : rn2.cur[i] = rn.cur[i]
    BY <1>4, <1>8
  <2> QED
    BY <2>1 DEF Joins
<1>11. ASSUME Behind(rn, env) PROVE Behind(rn2, env)
  <2>1. PICK j \in 2 .. k - 1 :
            /\ j \in PosLevels(r)
            /\ Joins(r, rn.cur, j - 1, env)
            /\ \E p \in rn.cur[j] + 1 .. Len(Entries(r, j)) : Entries(r, j)[p] = TupleAt(r, j, env)
    BY <1>1, <1>4, <1>11 DEF Behind
  <2>2. j \in 2 .. Depth(rn2) /\ rn2.cur[j] = rn.cur[j] /\ Joins(r, rn2.cur, j - 1, env)
    BY <1>4, <1>8, <1>9, <1>10, <2>1
  <2> QED
    BY <1>8, <2>1, <2>2 DEF Behind
<1>12. ASSUME InEntries(r, env), StepIs(r, env), Unblocked(r, env), Behind(rn2, env)
       PROVE  Behind(rn, env)
  <2>1. CASE \E j \in 2 .. Depth(rn2) :
            /\ j \in PosLevels(r)
            /\ Joins(r, rn2.cur, j - 1, env)
            /\ \E p \in rn2.cur[j] + 1 .. Len(Entries(r, j)) : Entries(r, j)[p] = TupleAt(r, j, env)
    <3>1. PICK j \in 2 .. Depth(rn2) :
            /\ j \in PosLevels(r)
            /\ Joins(r, rn2.cur, j - 1, env)
            /\ \E p \in rn2.cur[j] + 1 .. Len(Entries(r, j)) : Entries(r, j)[p] = TupleAt(r, j, env)
      BY <2>1
    <3>2. j \in 2 .. k /\ Joins(r, rn.cur, j - 1, env)
      BY <1>4, <1>9, <1>10, <3>1
    <3>3. CASE j # k
      <4>1. rn2.cur[j] = rn.cur[j] /\ j \in 2 .. Depth(rn)
        BY <1>4, <1>8, <3>2, <3>3
      <4> QED
        BY <3>1, <3>2, <4>1 DEF Behind
    <3>4. CASE j = k
      <4>1. PICK p \in m.pos + 1 .. Len(Entries(r, k)) : Entries(r, k)[p] = TupleAt(r, k, env)
        BY <1>8, <3>1, <3>4
      <4>2. Entries(r, k) \in Seq(Tuples(PredAt(r, k)))
        BY <3>1, <3>4 DEF InstRight, IndexRight, Entries
      <4>3. p \in 1 .. Len(Entries(r, k)) + 1 - 1 /\ p > m.pos
        BY <1>6, <4>1, <4>2
      <4>4. p <= m.pos
        BY <1>6, <3>1, <3>2, <3>4, <4>1, <4>3 DEF Found
      <4> QED
        BY <1>6, <4>3, <4>4
    <3> QED
      BY <3>3, <3>4
  <2>2. CASE ~m.ok /\ Joins(r, rn2.cur, k - 1, env)
    <3>1. Joins(r, rn.cur, k - 1, env)
      BY <1>4, <1>10, <2>2
    <3>2. CASE k \in PosLevels(r)
      <4>1. PICK p \in 1 .. Len(Entries(r, k)) : Entries(r, k)[p] = TupleAt(r, k, env)
        BY <1>12, <3>2 DEF InEntries
      <4>2. Entries(r, k) \in Seq(Tuples(PredAt(r, k)))
        BY <3>2 DEF InstRight, IndexRight, Entries
      <4>3. p \in 1 .. Len(Entries(r, k)) + 1 - 1
        BY <4>1, <4>2
      <4> QED
        BY <1>6, <2>2, <3>1, <3>2, <4>1, <4>3 DEF Found
    <3>3. CASE k \notin PosLevels(r)
      BY <1>6, <1>12, <2>2, <3>1, <3>3
    <3> QED
      BY <3>2, <3>3
  <2> QED
    BY <1>8, <1>9, <1>12, <2>1, <2>2 DEF Behind
<1> QED
  BY <1>11, <1>12

------------------------------------------------------------------------------
(* Ground: a complete join is an instance that was not joined before.      *)
LEMMA EntriesDiffer ==
  ASSUME NEW r, InstRight(r), NEW l \in PosLevels(r),
         NEW p \in 1 .. Len(Entries(r, l)), NEW q \in 1 .. Len(Entries(r, l)), Entries(r, l)[p] = Entries(r, l)[q]
  PROVE  p = q
<1>1. Entries(r, l) \in Seq(Tuples(PredAt(r, l))) /\ IsInjective(Entries(r, l))
  BY DEF InstRight, IndexRight, Entries
<1>2. DOMAIN Entries(r, l) = 1 .. Len(Entries(r, l))
  BY <1>1
<1> QED
  BY <1>1, <1>2 DEF IsInjective

LEMMA GroundJoin ==
  ASSUME prog \in Programs, NEW r \in Names, InstRight(r), NEW rn, PathRight(rn), rn.stm = r,
         rn.matched, ~(rn.numNew = 0 /\ rn.l = rn.lastNew), rn.l = Len(Body(r)) + 1,
         NEW env, env = Env(r, rn.cur, rn.l)
  PROVE  /\ env \in Instances(r) /\ InEntries(r, env) /\ StepIs(r, env)
         /\ ~Past(r, env) /\ ~Behind(rn, env)
         /\ \A other \in Instances(r) : Joins(r, rn.cur, rn.l, other) <=> other = env
<1>1. /\ rn \in RunSet(r)
      /\ BodyRight(r) /\ Levels(r) = 1 .. Len(Body(r)) + 1
      /\ rn.l = Depth(rn)
      /\ rn.cur \in [Levels(r) -> Nat]
      /\ \A i \in 1 .. Depth(rn) : rn.new[i] <=> NewAt(r, rn.cur, i)
      /\ \E other \in Instances(r) : Joins(r, rn.cur, Depth(rn), other)
      /\ rn.numNew \in Nat
      /\ rn.numNew > 0 <=> \E i \in 1 .. Depth(rn) : rn.new[i]
  BY PathOf
<1>2. PICK N \in Nat : N = Len(Body(r)) + 1
  BY <1>1 DEF BodyRight
<1>3. rn.l = N /\ rn.l \in 0 .. Len(Body(r)) + 1
  BY <1>1, <1>2
<1>4. BoundVars(r, N) = VarsIn(r)
  BY <1>2, RuleRight DEF BoundVars, BindingRight
<1>5. ASSUME NEW other \in Instances(r), Joins(r, rn.cur, N, other) PROVE env = other
  <2>1. DOMAIN env = VarsIn(r) /\ \A v \in VarsIn(r) : env[v] = other[v]
    BY <1>3, <1>4, <1>5, EnvOf
  <2>2. env = [v \in DOMAIN env |-> env[v]]
    BY DEF Env
  <2> QED
    BY <2>1, <2>2 DEF Instances
<1>6. env \in Instances(r) /\ Joins(r, rn.cur, N, env)
  BY <1>1, <1>3, <1>5
<1>7. ASSUME NEW l \in PosLevels(r)
      PROVE  rn.cur[l] \in 1 .. Len(Entries(r, l)) /\ Entries(r, l)[rn.cur[l]] = TupleAt(r, l, env)
  <2>1. l \in 2 .. N
    BY <1>2 DEF PosLevels
  <2> QED
    BY <1>6, <2>1 DEF Joins
<1>8. ASSUME NEW l \in IncLevels(r) PROVE env[StepVar(r, l)] = step
  <2>1. l \in 2 .. N
    BY <1>2 DEF IncLevels
  <2> QED
    BY <1>6, <2>1 DEF Joins
<1>9. InEntries(r, env) /\ StepIs(r, env)
  BY <1>7, <1>8 DEF InEntries, StepIs
<1>10. ASSUME Past(r, env) PROVE FALSE
  <2>1. rn.numNew > 0
    <3>1. rn.l \in Nat /\ rn.lastNew \in Nat /\ rn.lastNew <= rn.l
      BY <1>1, <1>2, <1>3, RunFields
    <3>2. CASE rn.l > rn.lastNew
      BY <3>2 DEF PathRight
    <3>3. CASE rn.l = rn.lastNew
      BY <1>1, <3>3
    <3> QED
      BY <3>1, <3>2, <3>3
  <2>2. PICK i \in 1 .. N : NewAt(r, rn.cur, i)
    BY <1>1, <1>3, <2>1
  <2>3. CASE i = 1
    <3>1. 1 \notin PosLevels(r) /\ 1 \notin IncLevels(r)
      BY KindsDiffer
    <3> QED
      BY <1>10, <2>2, <2>3, <3>1 DEF NewAt, Past
  <2>4. CASE i \in PosLevels(r)
    <3>1. rn.cur[i] > Finished(r, i)
      BY <2>2, <2>4, KindsDiffer DEF NewAt
    <3>2. PICK p \in 1 .. Finished(r, i) : Entries(r, i)[p] = TupleAt(r, i, env)
      BY <1>10, <2>4 DEF Past
    <3>3. Finished(r, i) \in Nat /\ Finished(r, i) <= Len(Entries(r, i)) /\ Len(Entries(r, i)) \in Nat
      BY <2>4 DEF InstRight, IndexRight, Finished, Entries
    <3>4. p \in 1 .. Len(Entries(r, i))
      BY <3>2, <3>3
    <3>5. p = rn.cur[i]
      BY <1>7, <2>4, <3>2, <3>4, EntriesDiffer
    <3> QED
      BY <3>1, <3>2, <3>3, <3>5
  <2>5. CASE i \in IncLevels(r)
    <3>1. Finished(r, i) # step
      BY <2>2, <2>5, KindsDiffer DEF NewAt
    <3>2. Finished(r, i) \in 0 .. step
      BY <2>5 DEF InstRight, Finished
    <3>3. env[StepVar(r, i)] = step /\ env[StepVar(r, i)] <= Finished(r, i)
      BY <1>8, <1>10, <2>5 DEF Past
    <3>4. StepVar(r, i) \in VarsIn(r)
      BY <1>1, <2>5 DEF BodyRight, IncLevels
    <3>5. step \in Nat
      BY <1>6, <3>3, <3>4, GroundingAssumption DEF Instances
    <3> QED
      BY <3>1, <3>2, <3>3, <3>5
  <2> QED
    BY <2>2, <2>3, <2>4, <2>5 DEF NewAt
<1>11. ASSUME Behind(rn, env) PROVE FALSE
  <2>1. PICK j \in 2 .. Depth(rn) :
            /\ j \in PosLevels(r)
            /\ \E p \in rn.cur[j] + 1 .. Len(Entries(r, j)) : Entries(r, j)[p] = TupleAt(r, j, env)
    BY <1>11 DEF Behind
  <2>2. PICK p \in rn.cur[j] + 1 .. Len(Entries(r, j)) : Entries(r, j)[p] = TupleAt(r, j, env)
    BY <2>1
  <2>3. rn.cur[j] \in 1 .. Len(Entries(r, j)) /\ Entries(r, j)[rn.cur[j]] = TupleAt(r, j, env)
    BY <1>7, <2>1
  <2>4. Entries(r, j) \in Seq(Tuples(PredAt(r, j)))
    BY <2>1 DEF InstRight, IndexRight, Entries
  <2>5. p \in 1 .. Len(Entries(r, j)) /\ p > rn.cur[j] /\ rn.cur[j] \in Nat
    BY <2>2, <2>3, <2>4
  <2>6. p = rn.cur[j]
    BY <2>1, <2>2, <2>3, <2>5, EntriesDiffer
  <2> QED
    BY <2>5, <2>6
<1> QED
  BY <1>3, <1>5, <1>6, <1>9, <1>10, <1>11

LEMMA GroundRun ==
  ASSUME prog \in Programs, NEW r \in Names, InstRight(r), NEW rn, PathRight(rn), rn.stm = r,
         rn.matched, ~(rn.numNew = 0 /\ rn.l = rn.lastNew), rn.l = Len(Body(r)) + 1,
         NEW rn2, rn2 = [rn EXCEPT !.l = @ + 1, !.matched = FALSE]
  PROVE  /\ PathRight(rn2) /\ rn2.stm = r
         /\ \A env : Behind(rn2, env) <=> Behind(rn, env) \/ Joins(r, rn.cur, rn.l, env)
<1>1. PICK N \in Nat : N = Len(Body(r))
  BY RuleRight DEF BodyRight
<1>2. PICK L : L = Levels(r)
  OBVIOUS
<1>3. rn \in [stm : {r}, l : 0 .. N + 2, matched : BOOLEAN, cur : [L -> Nat],
              new : [L -> BOOLEAN], numNew : Int, lastNew : 0 .. N + 1]
  BY <1>1, <1>2 DEF RunSet, PathRight
<1>4. /\ rn2.stm = r /\ rn2.l = N + 2 /\ rn2.matched = FALSE /\ rn2.cur = rn.cur /\ rn2.new = rn.new
      /\ rn2.numNew = rn.numNew /\ rn2.lastNew = rn.lastNew
  BY <1>1, <1>3
<1>5. rn2 \in [stm : {r}, l : 0 .. N + 2, matched : BOOLEAN, cur : [L -> Nat],
              new : [L -> BOOLEAN], numNew : Int, lastNew : 0 .. N + 1]
  <2>1. PICK b \in BOOLEAN : b = FALSE
    OBVIOUS
  <2>2. PICK k \in 0 .. N + 2 : k = N + 2
    OBVIOUS
  <2>3. rn.l + 1 = k
    BY <1>1, <2>2
  <2>4. rn2 = [rn EXCEPT !.l = k, !.matched = b]
    BY <2>1, <2>3
  <2>5. rn2 = [stm |-> rn.stm, l |-> k, matched |-> b, cur |-> rn.cur, new |-> rn.new,
               numNew |-> rn.numNew, lastNew |-> rn.lastNew]
    BY <1>3, <2>4
  <2>6. /\ rn.stm \in {r} /\ rn.cur \in [L -> Nat] /\ rn.new \in [L -> BOOLEAN]
        /\ rn.numNew \in Int /\ rn.lastNew \in 0 .. N + 1
    BY <1>3
  <2> QED
    BY <2>5, <2>6
<1>6. rn2 \in RunSet(r)
  BY <1>1, <1>2, <1>5 DEF RunSet
<1>7. Depth(rn2) = Depth(rn) /\ Depth(rn) = rn.l /\ ~rn2.matched
  BY <1>1, <1>4 DEF Depth
<1>8. PathRight(rn2)
  <2>1. /\ \E env \in Instances(r) : Joins(r, rn2.cur, Depth(rn2), env)
        /\ \A i \in 1 .. Depth(rn2) : rn2.new[i] <=> NewAt(r, rn2.cur, i)
        /\ rn2.numNew = Cardinality(NewSet(rn2.new, Depth(rn2)))
        /\ rn2.lastNew # 0 => NewLevel(r, rn2.lastNew)
        /\ \A l \in Levels(r) : NewLevel(r, l) => l <= rn2.lastNew
    BY <1>4, <1>7 DEF PathRight
  <2>2. rn.numNew > 0
    <3>1. rn.lastNew \in 0 .. N + 1 /\ rn.l = N + 1 /\ rn.numNew \in Nat
      BY <1>1, <1>3, PathOf
    <3>2. CASE rn.l > rn.lastNew
      BY <3>2 DEF PathRight
    <3>3. CASE rn.l = rn.lastNew
      BY <3>1, <3>3
    <3> QED
      BY <3>1, <3>2, <3>3
  <2> QED
    BY <1>1, <1>4, <1>6, <2>1, <2>2 DEF PathRight
<1>9. ASSUME NEW env PROVE Behind(rn2, env) <=> Behind(rn, env) \/ Joins(r, rn.cur, rn.l, env)
  BY <1>4, <1>7 DEF Behind
<1> QED
  BY <1>4, <1>8, <1>9

------------------------------------------------------------------------------
(* No step changes the program; what is read from it stays the same.       *)
LEMMA SameProg ==
  ASSUME prog' = prog, reach' = reach
  PROVE  /\ Names' = Names
         /\ \A r : /\ Body(r)' = Body(r) /\ HeadOf(r)' = HeadOf(r) /\ Levels(r)' = Levels(r)
                   /\ PosLevels(r)' = PosLevels(r) /\ IncLevels(r)' = IncLevels(r) /\ NegLevels(r)' = NegLevels(r)
                   /\ Instances(r)' = Instances(r) /\ (HasHead(r)' <=> HasHead(r))
                   /\ Component(r)' = Component(r)
         /\ \A r, l : Lit(r, l)' = Lit(r, l) /\ PredAt(r, l)' = PredAt(r, l) /\ StepVar(r, l)' = StepVar(r, l)
         /\ \A p : Tuples(p)' = Tuples(p)
         /\ \A r, l, env : TupleAt(r, l, env)' = TupleAt(r, l, env)
         /\ \A r, l, tuple : Fits(r, l, tuple)' <=> Fits(r, l, tuple)
<1>1. Names' = Names
  BY DEF Names
<1>2. ASSUME NEW r PROVE Body(r)' = Body(r) /\ HeadOf(r)' = HeadOf(r)
  BY DEF Body, HeadOf
<1>3. ASSUME NEW r PROVE Levels(r)' = Levels(r) /\ (HasHead(r)' <=> HasHead(r))
  BY <1>2 DEF Levels, HasHead
<1>4. ASSUME NEW r, NEW l PROVE Lit(r, l)' = Lit(r, l)
  BY <1>2 DEF Lit
<1>5. ASSUME NEW r PROVE PosLevels(r)' = PosLevels(r) /\ IncLevels(r)' = IncLevels(r) /\ NegLevels(r)' = NegLevels(r)
  BY <1>2, <1>4 DEF PosLevels, IncLevels, NegLevels
<1>6. ASSUME NEW r PROVE Instances(r)' = Instances(r)
  <2>1. VarsIn(r)' = VarsIn(r)
    BY <1>2 DEF VarsIn, VarsOf, IsVar, ToSet
  <2> QED
    BY <2>1 DEF Instances
<1>7. ASSUME NEW r PROVE Component(r)' = Component(r)
  BY DEF Component
<1>8. ASSUME NEW r, NEW l PROVE PredAt(r, l)' = PredAt(r, l) /\ StepVar(r, l)' = StepVar(r, l)
  BY <1>4 DEF PredAt, StepVar
<1>9. ASSUME NEW p PROVE Tuples(p)' = Tuples(p)
  BY DEF Tuples
<1>10. ASSUME NEW r, NEW l, NEW env PROVE TupleAt(r, l, env)' = TupleAt(r, l, env)
  BY <1>4 DEF TupleAt, Apply, Value, IsVar
<1>11. ASSUME NEW r, NEW l, NEW tuple PROVE Fits(r, l, tuple)' <=> Fits(r, l, tuple)
  BY <1>6, <1>10 DEF Fits
<1> QED
  BY <1>1, <1>2, <1>3, <1>4, <1>5, <1>6, <1>7, <1>8, <1>9, <1>10, <1>11

LEMMA SameProvided ==
  ASSUME prog' = prog, reach' = reach
  PROVE  /\ \A r, s, lit : Provides(r, s, lit)' <=> Provides(r, s, lit)
         /\ \A s, lit : Complete(s, lit)' <=> Complete(s, lit)
         /\ \A r : ProvidedBy(r)' = ProvidedBy(r)
<1>1. ASSUME NEW r, NEW s, NEW lit PROVE Provides(r, s, lit)' <=> Provides(r, s, lit)
  <2>1. PICK h : h = HeadOf(r) /\ h = HeadOf(r)'
    BY SameProg
  <2>2. Compatible(h, lit)' <=> Compatible(h, lit)
    BY DEF Compatible, Unifies, Value, IsVar, Binding, VarsOf, ToSet
  <2>3. ModuleOf(r)' = ModuleOf(r) /\ ModuleOf(s)' = ModuleOf(s)
    BY DEF ModuleOf
  <2> QED
    BY <2>1, <2>2, <2>3 DEF Provides
<1>2. ASSUME NEW s, NEW lit PROVE Complete(s, lit)' <=> Complete(s, lit)
  BY <1>1, SameProg DEF Complete
<1>3. ASSUME NEW r PROVE ProvidedBy(r)' = ProvidedBy(r)
  BY <1>1, <1>2, SameProg DEF ProvidedBy
<1> QED
  BY <1>1, <1>2, <1>3

(* As long as the indices and the step stay, the search sees the same.     *)
LEMMA SameIdx ==
  ASSUME prog' = prog, reach' = reach, idx' = idx, step' = step
  PROVE  /\ \A r, l : Entries(r, l)' = Entries(r, l) /\ Finished(r, l)' = Finished(r, l) /\ Scanned(r, l)' = Scanned(r, l)
         /\ \A r : Ready(r)' <=> Ready(r)
         /\ \A r, l : NewLevel(r, l)' <=> NewLevel(r, l)
         /\ \A r, env : InEntries(r, env)' <=> InEntries(r, env)
         /\ \A r, env : StepIs(r, env)' <=> StepIs(r, env)
         /\ \A r, env : Past(r, env)' <=> Past(r, env)
<1>1. ASSUME NEW r, NEW l PROVE Entries(r, l)' = Entries(r, l) /\ Finished(r, l)' = Finished(r, l) /\ Scanned(r, l)' = Scanned(r, l)
  BY DEF Entries, Finished, Scanned
<1>2. ASSUME NEW r PROVE Ready(r)' <=> Ready(r)
  BY DEF Ready, NoIndex
<1>3. ASSUME NEW r, NEW l PROVE NewLevel(r, l)' <=> NewLevel(r, l)
  BY SameProg DEF NewLevel, NewIn
<1>4. ASSUME NEW r, NEW env
      PROVE  /\ InEntries(r, env)' <=> InEntries(r, env)
             /\ StepIs(r, env)' <=> StepIs(r, env)
             /\ Past(r, env)' <=> Past(r, env)
  BY <1>1, SameProg DEF InEntries, StepIs, Past
<1> QED
  BY <1>1, <1>2, <1>3, <1>4

LEMMA SameRun ==
  ASSUME prog' = prog, reach' = reach, idx' = idx, step' = step, NEW CONSTANT rn
  PROVE  /\ PathRight(rn)' <=> PathRight(rn)
         /\ \A env : Behind(rn, env)' <=> Behind(rn, env)
<1>1. ASSUME NEW CONSTANT r, NEW CONSTANT cur, NEW CONSTANT k, NEW CONSTANT env
      PROVE  Joins(r, cur, k, env)' <=> Joins(r, cur, k, env)
  BY SameProg, SameIdx DEF Joins
<1>2. ASSUME NEW CONSTANT r, NEW CONSTANT cur, NEW CONSTANT i
      PROVE  NewAt(r, cur, i)' <=> NewAt(r, cur, i)
  BY SameProg, SameIdx DEF NewAt
<1>3. ASSUME NEW CONSTANT r PROVE RunSet(r)' = RunSet(r)
  BY SameProg DEF RunSet
<1>4. PICK k : k = Depth(rn) /\ k = Depth(rn)'
  BY DEF Depth
<1>5. ASSUME NEW CONSTANT new PROVE NewSet(new, k)' = NewSet(new, k)
  BY DEF NewSet
<1>6. PathRight(rn)' <=> PathRight(rn)
  BY <1>1, <1>2, <1>3, <1>4, <1>5, SameProg, SameIdx DEF PathRight
<1>7. ASSUME NEW env PROVE Behind(rn, env)' <=> Behind(rn, env)
  BY <1>1, <1>4, SameProg, SameIdx DEF Behind
<1> QED
  BY <1>6, <1>7

------------------------------------------------------------------------------
(* The inductive invariant.                                                *)
IInv ==
    /\ ProgramRight /\ DomRight /\ IdxRight /\ StartRight /\ OrderRight /\ ActiveRight
    /\ QuietRight /\ CoveredRight /\ RunRight /\ TwiceRight /\ MissedRight
    /\ IsInjective(grounded)

LEMMA SameIndex ==
  ASSUME prog' = prog, reach' = reach, dom' = dom, NEW r, idx'[r] = idx[r]
  PROVE  /\ Ready(r)' <=> Ready(r)
         /\ \A l : IndexRight(r, l)' <=> IndexRight(r, l)
<1>1. Ready(r)' <=> Ready(r)
  BY DEF Ready, NoIndex
<1>2. ASSUME NEW l PROVE IndexRight(r, l)' <=> IndexRight(r, l)
  <2>1. PICK e : e = Entries(r, l) /\ e = Entries(r, l)'
    BY DEF Entries
  <2>2. PICK p : p = PredAt(r, l) /\ p = PredAt(r, l)'
    BY SameProg
  <2>3. IsInjective(Entries(r, l))' <=> IsInjective(Entries(r, l))
    BY <2>1 DEF IsInjective
  <2>4. Finished(r, l)' = Finished(r, l) /\ Scanned(r, l)' = Scanned(r, l)
    BY DEF Finished, Scanned
  <2>5. Tuples(p)' = Tuples(p) /\ (\A t : Fits(r, l, t)' <=> Fits(r, l, t))
    BY SameProg
  <2> QED
    BY <2>1, <2>2, <2>3, <2>4, <2>5 DEF IndexRight
<1> QED
  BY <1>1, <1>2

(* What neither a change of the run nor of what is in the queue touches.   *)
LEMMA SameRest ==
  ASSUME ProgramRight, DomRight, IdxRight, OrderRight,
         UNCHANGED <<prog, reach, step, dom, idx, comps, done>>
  PROVE  ProgramRight' /\ DomRight' /\ IdxRight' /\ OrderRight'
<1>1. ProgramRight'
  BY DEF ProgramRight, Reach, DependsOn, Provides, ModuleOf, Names, HeadOf, Body
<1>2. DomRight'
  BY SameProg DEF DomRight
<1>3. ASSUME NEW r, NEW l PROVE IndexRight(r, l)' <=> IndexRight(r, l)
  BY SameIndex
<1>4. ASSUME NEW r PROVE InstRight(r)' <=> InstRight(r)
  BY <1>3, SameProg DEF InstRight
<1>5. IdxRight'
  BY <1>4, SameProg, SameIdx DEF IdxRight
<1>6. Current' = Current
  BY DEF Current
<1>7. OrderRight'
  BY <1>6, SameProg, SameIdx DEF OrderRight
<1> QED
  BY <1>1, <1>2, <1>5, <1>7

LEMMA MoveStep ==
  ASSUME IInv, Running, UNCHANGED <<prog, reach, comps, done, step, dom, fact, idx, queue, startNew, grounded>>,
         NEW r, run.stm = r, NEW rn2, run' = rn2, rn2 # NoRun, rn2.stm = r, PathRight(rn2),
         \A env \in Instances(r) : Behind(run, env) => Behind(rn2, env),
         \A env \in Instances(r) : InEntries(r, env) /\ StepIs(r, env) /\ Unblocked(r, env) /\ Behind(rn2, env)
                => Behind(run, env) \/ Past(r, env)
  PROVE  IInv'
<1>1. ProgramRight' /\ DomRight' /\ IdxRight' /\ OrderRight'
  BY SameRest DEF IInv
<1>2. Running'
  BY DEF Running, NoRun
<1>3. StartRight'
  BY <1>2, SameProg, SameIdx DEF IInv, StartRight
<1>4. ASSUME NEW s PROVE Active(s)' <=> Active(s)
  BY <1>2 DEF Active
<1>5. ActiveRight'
  <2>1. Current' = Current
    BY DEF Current
  <2> QED
    BY <1>4, <2>1, SameProg DEF IInv, ActiveRight
<1>6. QuietRight'
  BY <1>4, SameProg, SameIdx DEF IInv, QuietRight
<1>7. CoveredRight'
  <2>1. ASSUME NEW s, NEW l, NEW q PROVE Waiting(s, l, q)' <=> Waiting(s, l, q)
    BY <1>2, SameProg, SameProvided DEF Waiting
  <2>2. ASSUME NEW s PROVE Overtaken(s)' <=> Overtaken(s)
    BY SameProg DEF Overtaken
  <2> QED
    BY <2>1, <2>2, SameProg, SameIdx DEF IInv, CoveredRight
<1>8. RunRight'
  BY SameRun DEF RunRight
<1>9. ASSUME NEW s, NEW env
      PROVE  /\ Seen(s, env)' <=> s = r /\ InEntries(s, env) /\ StepIs(s, env) /\ Behind(rn2, env)
             /\ Seen(s, env) <=> s = r /\ InEntries(s, env) /\ StepIs(s, env) /\ Behind(run, env)
             /\ Unblocked(s, env)' <=> Unblocked(s, env)
  BY <1>2, SameRun, SameIdx, SameProg DEF Seen, Unblocked, Atom, Apply, Value, IsVar
<1>10. TwiceRight'
  <2>1. grounded' = grounded
    OBVIOUS
  <2>2. \A i \in DOMAIN grounded : grounded[i][2] \in Instances(grounded[i][1])
    BY DEF IInv, TwiceRight
  <2>3. ASSUME NEW i \in DOMAIN grounded
        PROVE  Ready(grounded[i][1])' /\ (Past(grounded[i][1], grounded[i][2])' \/ Seen(grounded[i][1], grounded[i][2])')
    <3>1. PICK s : s = grounded[i][1]
      OBVIOUS
    <3>2. PICK env : env = grounded[i][2]
      OBVIOUS
    <3>3. Ready(s) /\ (Past(s, env) \/ Seen(s, env)) /\ env \in Instances(s)
      BY <2>2, <3>1, <3>2 DEF IInv, TwiceRight
    <3>4. Ready(s)' /\ (Past(s, env)' \/ Seen(s, env)')
      BY <1>9, <3>3, SameIdx
    <3> QED
      BY <3>1, <3>2, <3>4
  <2>4. (UNION {{s} \X Instances(s) : s \in Names})' = UNION {{s} \X Instances(s) : s \in Names}
    BY SameProg
  <2> QED
    BY <2>1, <2>3, <2>4 DEF IInv, TwiceRight
<1>11. MissedRight'
  <2>1. SUFFICES ASSUME NEW s \in Names, Ready(s), NEW env \in Instances(s), StepIs(s, env), Unblocked(s, env),
                        Past(s, env) \/ Seen(s, env)'
                 PROVE  \E i \in DOMAIN grounded : grounded[i] = <<s, env>>
    BY <1>9, SameIdx, SameProg DEF MissedRight
  <2>2. Past(s, env) \/ Seen(s, env)
    BY <1>9, <2>1
  <2> QED
    BY <2>1, <2>2 DEF IInv, MissedRight
<1>12. IsInjective(grounded)'
  BY DEF IInv, IsInjective
<1> QED
  BY <1>1, <1>3, <1>5, <1>6, <1>7, <1>8, <1>10, <1>11, <1>12 DEF IInv

LEMMA RunningRight ==
  ASSUME IInv, Running
  PROVE  /\ prog \in Programs /\ run.stm \in Names /\ run.stm \in done /\ run.stm \in Current
         /\ Ready(run.stm) /\ InstRight(run.stm) /\ PathRight(run)
         /\ \A l \in IncLevels(run.stm) : step \in Consts
<1>1. prog \in Programs /\ PathRight(run)
  BY DEF IInv, ProgramRight, RunRight
<1>2. run.stm \in Names
  BY <1>1 DEF PathRight
<1>3. Active(run.stm)
  BY DEF Active
<1>4. run.stm \in done /\ run.stm \in Current
  BY <1>2, <1>3 DEF IInv, ActiveRight
<1>5. Ready(run.stm) /\ InstRight(run.stm)
  BY <1>2, <1>4 DEF IInv, OrderRight, IdxRight
<1>6. ASSUME NEW l \in IncLevels(run.stm) PROVE step \in Consts
  <2>1. run.stm \in prog.cumulative
    BY <1>1, <1>2, RuleRight DEF BodyRight
  <2>2. step # 0
    BY <1>1, <1>4, <2>1, ProgramOf DEF Current
  <2>3. step \in 0 .. MaxStep
    BY DEF IInv, ProgramRight
  <2> QED
    BY <2>2, <2>3, GroundingAssumption
<1> QED
  BY <1>1, <1>2, <1>4, <1>5, <1>6

LEMMA NotNoRun ==
  ASSUME NEW r, Len(Body(r)) \in Nat, NEW rn \in RunSet(r)
  PROVE  rn # NoRun
<1>1. "l" \in DOMAIN rn
  BY DEF RunSet
<1> QED
  BY <1>1 DEF NoRun

LEMMA AdvanceStep ==
  ASSUME IInv, Advance
  PROVE  IInv'
<1>1. Running
  BY DEF Advance, Running
<1>2. PICK r : r = run.stm
  OBVIOUS
<1>3. /\ prog \in Programs /\ r \in Names /\ InstRight(r) /\ PathRight(run)
      /\ \A l \in IncLevels(r) : step \in Consts
  BY <1>1, <1>2, RunningRight
<1>4. /\ run \in RunSet(r) /\ BodyRight(r) /\ Levels(r) = 1 .. Len(Body(r)) + 1
      /\ run.matched => run.l = Depth(run)
      /\ \E env \in Instances(r) : Joins(r, run.cur, Depth(run), env)
      /\ Depth(run) \in 0 .. Len(Body(r)) + 1
      /\ run.numNew \in Nat
  BY <1>2, <1>3, PathOf
<1>5. run.matched /\ ~(run.numNew = 0 /\ run.l = run.lastNew) /\ run.l < Len(Body(r)) + 1
  BY <1>2 DEF Advance, GoesBack
<1>6. PICK k : k = run.l + 1
  OBVIOUS
<1>7. k \in Levels(r) /\ k - 1 = Depth(run) /\ Len(Body(r)) \in Nat
  BY <1>4, <1>5, <1>6 DEF BodyRight
<1>8. PICK m : m = FirstMatch(r, run.cur, k)
  OBVIOUS
<1>9. m.ok \in BOOLEAN /\ m.new \in BOOLEAN /\ m.pos \in Nat
  BY <1>3, <1>4, <1>7, <1>8, FirstFound
<1>10. PICK n : n = run.numNew + Count(m.ok /\ m.new)
  OBVIOUS
<1>11. n \in Int
  BY <1>4, <1>10 DEF Count
<1>12. PICK rn2 : rn2 = run'
  OBVIOUS
<1>13. rn2 = MoveTo(run, k, m, n)
  BY <1>2, <1>6, <1>8, <1>10, <1>12 DEF Advance, MoveTo
<1>14. Moved(r, run, rn2, k, m, n)
  <2>1. run \in RunSet(r) /\ Len(Body(r)) \in Nat /\ k \in Levels(r)
    BY <1>4, <1>7
  <2> QED
    BY <1>9, <1>11, <1>13, <2>1, MovedFields
<1>15. WentOn(r, run, rn2, k, m)
  BY <1>5, <1>6, <1>8, <1>10, <1>14 DEF WentOn
<1>16. PathRight(rn2)
  BY <1>2, <1>3, <1>15, PathOn
<1>17. rn2 # NoRun /\ rn2.stm = r
  <2>1. rn2 \in RunSet(r)
    BY <1>14 DEF Moved
  <2> QED
    BY <1>7, <2>1, NotNoRun, RunFields
<1>18. ASSUME NEW env \in Instances(r)
       PROVE  /\ Behind(run, env) => Behind(rn2, env)
              /\ InEntries(r, env) /\ StepIs(r, env) /\ Unblocked(r, env) /\ Behind(rn2, env) => Behind(run, env)
  BY <1>2, <1>3, <1>15, OnKeeps
<1>19. UNCHANGED <<prog, reach, comps, done, step, dom, fact, idx, queue, startNew, grounded>>
  BY DEF Advance
<1> QED
  BY <1>1, <1>2, <1>12, <1>16, <1>17, <1>18, <1>19, MoveStep

LEMMA BacktrackStep ==
  ASSUME IInv, Backtrack
  PROVE  IInv'
<1>1. Running
  BY DEF Backtrack, Running
<1>2. PICK r : r = run.stm
  OBVIOUS
<1>3. prog \in Programs /\ r \in Names /\ InstRight(r) /\ PathRight(run)
  BY <1>1, <1>2, RunningRight
<1>4. /\ run \in RunSet(r) /\ BodyRight(r) /\ Levels(r) = 1 .. Len(Body(r)) + 1
      /\ Depth(run) \in 0 .. Len(Body(r)) + 1
      /\ run.numNew \in Nat
  BY <1>2, <1>3, PathOf
<1>5. ~run.matched \/ (run.numNew = 0 /\ run.l = run.lastNew)
  BY DEF Backtrack, GoesBack
<1>6. PICK k : k = Depth(run)
  OBVIOUS
<1>7. BackTo = k /\ k # 0
  BY <1>6 DEF Backtrack, BackTo, Depth
<1>8. k \in Levels(r) /\ Len(Body(r)) \in Nat
  BY <1>4, <1>6, <1>7 DEF BodyRight
<1>9. PICK m : m = NextMatch(r, run.cur, k)
  OBVIOUS
<1>10. m.ok \in BOOLEAN /\ m.new \in BOOLEAN /\ m.pos \in Nat
  BY <1>2, <1>3, <1>6, <1>7, <1>9, NextFound
<1>11. PICK n : n = run.numNew - Count(run.new[k]) + Count(m.ok /\ m.new)
  OBVIOUS
<1>12. n \in Int
  BY <1>4, <1>11 DEF Count
<1>13. PICK rn2 : rn2 = run'
  OBVIOUS
<1>14. rn2 = MoveTo(run, k, m, n)
  BY <1>2, <1>7, <1>9, <1>11, <1>13 DEF Backtrack, Recounted, MoveTo
<1>15. Moved(r, run, rn2, k, m, n)
  <2>1. run \in RunSet(r) /\ Len(Body(r)) \in Nat /\ k \in Levels(r)
    BY <1>4, <1>8
  <2> QED
    BY <1>10, <1>12, <1>14, <2>1, MovedFields
<1>16. WentBack(r, run, rn2, k, m)
  BY <1>5, <1>6, <1>7, <1>9, <1>11, <1>15 DEF WentBack
<1>17. PathRight(rn2)
  BY <1>2, <1>3, <1>16, PathBack
<1>18. rn2 # NoRun /\ rn2.stm = r
  <2>1. rn2 \in RunSet(r)
    BY <1>15 DEF Moved
  <2> QED
    BY <1>8, <2>1, NotNoRun, RunFields
<1>19. ASSUME NEW env \in Instances(r)
       PROVE  /\ Behind(run, env) => Behind(rn2, env)
              /\ InEntries(r, env) /\ StepIs(r, env) /\ Behind(rn2, env) => Behind(run, env) \/ Past(r, env)
  BY <1>2, <1>3, <1>16, BackKeeps, BackAdds
<1>20. UNCHANGED <<prog, reach, comps, done, step, dom, fact, idx, queue, startNew, grounded>>
  BY DEF Backtrack
<1> QED
  BY <1>1, <1>2, <1>13, <1>17, <1>18, <1>19, <1>20, MoveStep

------------------------------------------------------------------------------
(* When nothing runs, what has been joined is old, and nothing waits.      *)
LEMMA NotRunning ==
  ASSUME IInv, ~Running
  PROVE  /\ \A r \in Names : startNew[r] = 0
         /\ \A s \in done : ~Overtaken(s) => \A l \in PosLevels(s) :
                \A q \in Scanned(s, l) + 1 .. Len(dom[PredAt(s, l)]) : ~Fits(s, l, dom[PredAt(s, l)][q])
         /\ \A i \in DOMAIN grounded : Past(grounded[i][1], grounded[i][2])
         /\ \A r : Active(r) <=> \E i \in DOMAIN queue : queue[i] = r
<1>1. \A r \in Names : startNew[r] = 0
  BY DEF IInv, StartRight
<1>2. \A s \in done : ~Overtaken(s) => \A l \in PosLevels(s) :
                \A q \in Scanned(s, l) + 1 .. Len(dom[PredAt(s, l)]) : ~Fits(s, l, dom[PredAt(s, l)][q])
  BY DEF IInv, CoveredRight, Waiting
<1>3. \A i \in DOMAIN grounded : Past(grounded[i][1], grounded[i][2])
  BY DEF IInv, TwiceRight, Seen
<1>4. \A r : Active(r) <=> \E i \in DOMAIN queue : queue[i] = r
  BY DEF Active
<1> QED
  BY <1>1, <1>2, <1>3, <1>4

LEMMA FirstRun ==
  ASSUME prog \in Programs, NEW r \in Names, InstRight(r), NEW rn,
         rn = [stm |-> r, l |-> 0, matched |-> TRUE, cur |-> [l \in Levels(r) |-> 0],
               new |-> [l \in Levels(r) |-> FALSE], numNew |-> 0,
               lastNew |-> LET news == {l \in Levels(r) : HasNew(r, idx[r], l)}
                           IN IF news = {} THEN 0 ELSE Max(news)]
  PROVE  /\ PathRight(rn) /\ rn.stm = r /\ rn # NoRun
         /\ \A env : ~Behind(rn, env)
<1>1. PICK N \in Nat : N = Len(Body(r))
  BY RuleRight DEF BodyRight
<1>2. PICK L : L = Levels(r)
  OBVIOUS
<1>3. L = 1 .. N + 1
  BY <1>1, <1>2 DEF Levels
<1>4. PICK news : news = {l \in Levels(r) : HasNew(r, idx[r], l)}
  OBVIOUS
<1>5. ASSUME NEW l \in L PROVE l \in news <=> NewLevel(r, l)
  <2>1. l \in PosLevels(r) => idx[r][l].entries \in Seq(Tuples(PredAt(r, l))) /\ idx[r][l].finished \in Nat
    BY DEF InstRight, IndexRight
  <2>2. HasNew(r, idx[r], l) <=> NewIn(r, idx[r], l)
    BY <1>2, <2>1, HasNewIs
  <2> QED
    BY <1>2, <1>4, <2>2 DEF NewLevel
<1>6. PICK last : last = IF news = {} THEN 0 ELSE Max(news)
  OBVIOUS
<1>7. news \in SUBSET (1 .. N + 1)
  BY <1>2, <1>3, <1>4
<1>8. /\ last \in 0 .. N + 1
      /\ last # 0 => last \in news
      /\ \A l \in news : l <= last
  <2>1. CASE news = {}
    BY <1>6, <2>1
  <2>2. CASE news # {}
    <3>1. N + 1 \in Nat
      OBVIOUS
    <3>2. Max(news) \in news /\ \A p \in news : p <= Max(news)
      BY <1>7, <2>2, <3>1, MaxOf
    <3> QED
      BY <1>6, <1>7, <2>2, <3>2
  <2> QED
    BY <2>1, <2>2
<1>9. PICK cur \in [L -> Nat] : cur = [l \in Levels(r) |-> 0]
  BY <1>2
<1>10. PICK new \in [L -> BOOLEAN] : new = [l \in Levels(r) |-> FALSE]
  BY <1>2
<1>11. PICK b \in BOOLEAN : b = TRUE
  OBVIOUS
<1>12. rn = [stm |-> r, l |-> 0, matched |-> b, cur |-> cur, new |-> new, numNew |-> 0, lastNew |-> last]
  BY <1>4, <1>6, <1>9, <1>10, <1>11
<1>13. rn \in [stm : {r}, l : 0 .. N + 2, matched : BOOLEAN, cur : [L -> Nat],
              new : [L -> BOOLEAN], numNew : Int, lastNew : 0 .. N + 1]
  <2>1. 0 \in 0 .. N + 2 /\ 0 \in Int /\ r \in {r}
    OBVIOUS
  <2> QED
    BY <1>8, <1>12, <2>1
<1>14. rn \in RunSet(r)
  BY <1>1, <1>2, <1>13 DEF RunSet
<1>15. rn.stm = r /\ rn.l = 0 /\ rn.matched /\ rn.numNew = 0 /\ rn.lastNew = last
  BY <1>11, <1>12
<1>16. Depth(rn) = 0
  BY <1>15 DEF Depth
<1>17. rn.numNew = Cardinality(NewSet(rn.new, Depth(rn)))
  <2>1. NewSet(rn.new, 0) = {}
    BY DEF NewSet
  <2> QED
    BY <1>15, <1>16, <2>1, FS_EmptySet
<1>18. \E env \in Instances(r) : Joins(r, rn.cur, Depth(rn), env)
  <2>1. PICK env \in Instances(r) : TRUE
    BY SomeInstance
  <2>2. Joins(r, rn.cur, 0, env)
    BY DEF Joins
  <2> QED
    BY <1>16, <2>2
<1>19. /\ rn.lastNew # 0 => NewLevel(r, rn.lastNew)
       /\ \A l \in Levels(r) : NewLevel(r, l) => l <= rn.lastNew
  BY <1>2, <1>3, <1>5, <1>7, <1>8, <1>15
<1>20. PathRight(rn)
  <2>1. rn.l = Len(Body(r)) + 2 => ~rn.matched
    BY <1>1, <1>15
  <2>2. rn.l > rn.lastNew => rn.numNew > 0
    BY <1>1, <1>8, <1>15
  <2>3. \A i \in 1 .. Depth(rn) : rn.new[i] <=> NewAt(r, rn.cur, i)
    BY <1>16
  <2>4. rn.stm = r /\ rn.matched
    BY <1>15
  <2> QED
    BY <1>14, <1>17, <1>18, <1>19, <2>1, <2>2, <2>3, <2>4 DEF PathRight
<1>21. ASSUME NEW env PROVE ~Behind(rn, env)
  BY <1>15, <1>16 DEF Behind
<1>22. rn # NoRun
  BY <1>1, <1>14, NotNoRun
<1> QED
  BY <1>15, <1>20, <1>21, <1>22

LEMMA DequeueStep ==
  ASSUME IInv, Dequeue
  PROVE  IInv'
<1> DEFINE r == Head(queue)
<1>1. ~Running /\ queue # <<>> /\ queue' = Tail(queue)
  BY DEF Dequeue, Running, Remaining
<1>2. UNCHANGED <<prog, reach, comps, done, step, dom, fact, idx, startNew, grounded>>
  BY DEF Dequeue
<1>3. queue \in Seq(Names) /\ prog \in Programs
  BY DEF IInv, ActiveRight, ProgramRight
<1>4. r \in Names /\ (\E i \in DOMAIN queue : queue[i] = r)
  BY <1>1, <1>3
<1>5. Active(r)
  BY <1>4 DEF Active
<1>6. InstRight(r)
  BY <1>4, <1>5 DEF IInv, ActiveRight, OrderRight, IdxRight
<1>7. PICK rn2 : rn2 = run'
  OBVIOUS
<1>8. rn2 = [stm |-> r, l |-> 0, matched |-> TRUE, cur |-> [l \in Levels(r) |-> 0],
             new |-> [l \in Levels(r) |-> FALSE], numNew |-> 0,
             lastNew |-> LET news == {l \in Levels(r) : HasNew(r, idx[r], l)}
                         IN IF news = {} THEN 0 ELSE Max(news)]
  BY <1>7 DEF Dequeue
<1>9. /\ PathRight(rn2) /\ rn2.stm = r /\ rn2 # NoRun
      /\ \A env : ~Behind(rn2, env)
  <2> HIDE DEF r
  <2> QED
    BY <1>3, <1>4, <1>6, <1>8, FirstRun
<1>10. Running' /\ run'.stm = r
  BY <1>7, <1>9 DEF Running, NoRun
<1>11. ProgramRight' /\ DomRight' /\ IdxRight' /\ OrderRight'
  BY <1>2, SameRest DEF IInv
<1>12. StartRight'
  BY <1>1, <1>2, NotRunning, SameProg DEF IInv, StartRight
<1>13. queue' \in Seq(Names)
  BY <1>1, <1>3
<1>14. ASSUME NEW s PROVE Active(s)' <=> Active(s)
  <2>1. Active(s) <=> \E i \in 1 .. Len(queue) : queue[i] = s
    BY <1>1, <1>3, NotRunning
  <2>2. Active(s)' <=> (\E i \in 1 .. Len(queue) - 1 : queue[i + 1] = s) \/ r = s
    BY <1>1, <1>3, <1>10 DEF Active
  <2>3. r = queue[1] /\ Len(queue) \in Nat /\ Len(queue) # 0
    BY <1>1, <1>3
  <2>4. ASSUME NEW i \in 1 .. Len(queue), queue[i] = s, i # 1
        PROVE  \E j \in 1 .. Len(queue) - 1 : queue[j + 1] = s
    <3>1. i - 1 \in 1 .. Len(queue) - 1 /\ (i - 1) + 1 = i
      BY <2>3, <2>4
    <3> QED
      BY <2>4, <3>1
  <2>5. \A i \in 1 .. Len(queue) - 1 : i + 1 \in 1 .. Len(queue)
    BY <2>3
  <2> QED
    BY <2>1, <2>2, <2>3, <2>4, <2>5
<1>15. ActiveRight'
  <2>1. Current' = Current
    BY <1>2 DEF Current
  <2> QED
    BY <1>2, <1>13, <1>14, <2>1, SameProg DEF IInv, ActiveRight
<1>16. QuietRight'
  BY <1>2, <1>14, SameProg, SameIdx DEF IInv, QuietRight
<1>17. CoveredRight'
  <2>1. ASSUME NEW s PROVE Overtaken(s)' <=> Overtaken(s)
    BY <1>2, SameProg DEF Overtaken
  <2> QED
    BY <1>1, <1>2, <2>1, NotRunning, SameProg, SameIdx DEF CoveredRight
<1>18. RunRight'
  BY <1>2, <1>7, <1>9, SameRun DEF RunRight
<1>19. ASSUME NEW s, NEW env
       PROVE  ~Seen(s, env)' /\ (Unblocked(s, env)' <=> Unblocked(s, env))
  BY <1>2, <1>7, <1>9, SameRun, SameProg DEF Seen, Unblocked, Atom, Apply, Value, IsVar
<1>20. TwiceRight'
  <2>1. ASSUME NEW i \in DOMAIN grounded PROVE Ready(grounded[i][1])' /\ Past(grounded[i][1], grounded[i][2])'
    <3>1. PICK s : s = grounded[i][1]
      OBVIOUS
    <3>2. PICK env : env = grounded[i][2]
      OBVIOUS
    <3>3. Ready(s) /\ Past(s, env)
      BY <1>1, <3>1, <3>2, NotRunning DEF IInv, TwiceRight
    <3>4. Ready(s)' /\ Past(s, env)'
      BY <1>2, <3>3, SameIdx
    <3> QED
      BY <1>2, <3>1, <3>2, <3>4
  <2>2. (UNION {{s} \X Instances(s) : s \in Names})' = UNION {{s} \X Instances(s) : s \in Names}
    BY <1>2, SameProg
  <2> QED
    BY <1>2, <2>1, <2>2 DEF IInv, TwiceRight
<1>21. MissedRight'
  <2>1. SUFFICES ASSUME NEW s \in Names, Ready(s), NEW env \in Instances(s), StepIs(s, env), Unblocked(s, env),
                        Past(s, env)
                 PROVE  \E i \in DOMAIN grounded : grounded[i] = <<s, env>>
    BY <1>2, <1>19, SameIdx, SameProg DEF MissedRight
  <2> QED
    BY <2>1 DEF IInv, MissedRight
<1>22. IsInjective(grounded)'
  BY <1>2 DEF IInv, IsInjective
<1> QED
  BY <1>11, <1>12, <1>15, <1>16, <1>17, <1>18, <1>20, <1>21, <1>22 DEF IInv

------------------------------------------------------------------------------
(* What a literal depends on is reached.                                   *)
LEMMA ReachDepends ==
  ASSUME reach = Reach, NEW s \in Names
  PROVE  /\ DependsOn(s) \subseteq reach[s] /\ reach[s] \subseteq Names
         /\ \A r \in reach[s] : r \in Names /\ reach[r] \subseteq reach[s]
<1>1. PICK closed : closed = {set \in SUBSET Names : \A r \in set : DependsOn(r) \subseteq set}
  OBVIOUS
<1>2. ASSUME NEW t \in Names
      PROVE  reach[t] = {r \in Names : \A set \in closed : DependsOn(t) \subseteq set => r \in set}
  BY <1>1 DEF Reach
<1>3. DependsOn(s) \subseteq Names
  BY DEF DependsOn
<1>4. DependsOn(s) \subseteq reach[s] /\ reach[s] \subseteq Names
  BY <1>2, <1>3
<1>5. ASSUME NEW r \in reach[s], NEW t \in reach[r] PROVE t \in reach[s]
  <2>1. r \in Names
    BY <1>4
  <2>2. t \in Names /\ \A set \in closed : DependsOn(r) \subseteq set => t \in set
    BY <1>2, <1>5, <2>1
  <2>3. SUFFICES ASSUME NEW set \in closed, DependsOn(s) \subseteq set PROVE t \in set
    BY <1>2, <2>2
  <2>4. r \in set
    BY <1>2, <1>5, <2>3
  <2>5. DependsOn(r) \subseteq set
    BY <1>1, <2>4
  <2> QED
    BY <2>2, <2>5
<1> QED
  BY <1>4, <1>5

(* A statement that provides for a statement of an earlier or its own      *)
(* component, while it is grounded, is in the same component.              *)
LEMMA ProvidesWithin ==
  ASSUME IInv, NEW r \in Names, Active(r), HasHead(r), NEW s \in done, ~Overtaken(s), NEW l \in PosLevels(s),
         PredAt(s, l) = HeadOf(r).pred, NEW tuple \in Tuples(PredAt(s, l)),
         Fits(s, l, tuple), Unifies(HeadOf(r), tuple)
  PROVE  <<s, l>> \in ProvidedBy(r)
<1>1. prog \in Programs /\ reach = Reach /\ step \in 0 .. MaxStep
  BY DEF IInv, ProgramRight
<1>2. s \in Names
  BY DEF IInv, OrderRight
<1>3. BodyRight(s) /\ HeadRight(r)
  BY <1>1, <1>2, RuleRight
<1>4. l \in 2 .. Len(Body(s)) + 1 /\ Lit(s, l).kind = "pos"
  BY DEF PosLevels
<1>5. l - 1 \in DOMAIN Body(s) /\ Body(s)[l - 1] = Lit(s, l)
  BY <1>3, <1>4 DEF BodyRight, Lit
<1>6. Compatible(HeadOf(r), Lit(s, l))
  <2>1. Unifies(Lit(s, l), tuple)
    BY <1>1, <1>2, FitsUnifies
  <2>2. tuple \in [DOMAIN HeadOf(r).args -> Consts]
    BY <1>3 DEF Tuples, HeadRight
  <2> QED
    BY <2>1, <2>2 DEF Compatible, PredAt
<1>7. r \in Current /\ \A t \in done : r \in reach[t] => t \in Component(r)
  BY DEF IInv, ActiveRight
<1>8. ModuleOf(r) <= ModuleOf(s)
  <2>1. CASE step = 0
    BY <1>7, <2>1 DEF Current, ModuleOf
  <2>2. CASE step # 0
    <3>1. r \in prog.cumulative /\ step > 0
      BY <1>1, <1>7, <2>2, GroundingAssumption DEF Current
    <3>2. s \notin prog.base
      BY <1>4, <1>5, <1>6, <3>1 DEF Overtaken
    <3> QED
      BY <3>2 DEF ModuleOf
  <2> QED
    BY <2>1, <2>2
<1>9. Provides(r, s, Lit(s, l))
  BY <1>4, <1>6, <1>8 DEF Provides
<1>10. r \in reach[s]
  <2>1. r \in DependsOn(s)
    BY <1>5, <1>9 DEF DependsOn
  <2> QED
    BY <1>1, <1>2, <2>1, ReachDepends
<1>11. s \in Component(r)
  BY <1>7, <1>10
<1>12. r \in Component(s)
  BY <1>11 DEF Component
<1>13. ~Complete(s, Lit(s, l))
  BY <1>9, <1>12 DEF Complete
<1>14. <<s, l>> \in UNION {{t} \X (2 .. Len(Body(t)) + 1) : t \in Component(r)}
  BY <1>4, <1>11
<1> QED
  BY <1>9, <1>13, <1>14 DEF ProvidedBy

LEMMA SameOrder ==
  ASSUME ProgramRight, OrderRight, UNCHANGED <<prog, reach, step, comps, done>>,
         \A s \in Names : Ready(s) => Ready(s)'
  PROVE  ProgramRight' /\ OrderRight'
<1>1. ProgramRight'
  BY DEF ProgramRight, Reach, DependsOn, Provides, ModuleOf, Names, HeadOf, Body
<1>2. Current' = Current
  BY DEF Current
<1>3. OrderRight'
  BY <1>2, SameProg DEF OrderRight
<1> QED
  BY <1>1, <1>3

(* Ground: the domain of the head, and what it remembers of it.            *)
Extends(r, tuple) ==
    \/ dom' = dom /\ startNew' = startNew
    \/ /\ HasHead(r) /\ tuple \notin ToSet(dom[HeadOf(r).pred])
       /\ dom' = [dom EXCEPT ![HeadOf(r).pred] = Append(@, tuple)]
       /\ startNew' = IF startNew[r] = 0 THEN [startNew EXCEPT ![r] = Len(dom[HeadOf(r).pred]) + 1] ELSE startNew

LEMMA GroundExtends ==
  ASSUME Ground, NEW r, r = run.stm, NEW env, env = Env(r, run.cur, run.l)
  PROVE  /\ Extends(r, Apply(HeadOf(r), env)) /\ fact \subseteq fact' /\ grounded' = Append(grounded, <<r, env>>)
<1>1. PICK tuple : tuple = Apply(HeadOf(r), env)
  OBVIOUS
<1>2. PICK isFact : isFact = \A i \in DOMAIN Body(r) : IsFact(r, Body(r)[i], env)
  OBVIOUS
<1>3. /\ grounded' = Append(grounded, <<r, env>>)
      /\ IF HasHead(r) /\ Atom(HeadOf(r), env) \in fact
         THEN UNCHANGED <<dom, fact, startNew>>
         ELSE IF HasHead(r) THEN AddDomain(r, Atom(HeadOf(r), env), isFact)
              ELSE UNCHANGED <<dom, fact, startNew>>
  BY <1>2 DEF Ground
<1>4. Atom(HeadOf(r), env) = <<HeadOf(r).pred, tuple>>
  BY <1>1 DEF Atom
<1>5. CASE UNCHANGED <<dom, fact, startNew>>
  BY <1>1, <1>3, <1>5 DEF Extends
<1>6. CASE HasHead(r) /\ AddDomain(r, <<HeadOf(r).pred, tuple>>, isFact)
  <2>1. fact \subseteq fact'
    BY <1>6 DEF AddDomain
  <2>2. InDomain(<<HeadOf(r).pred, tuple>>) <=> tuple \in ToSet(dom[HeadOf(r).pred])
    BY DEF InDomain
  <2>3. Extends(r, tuple)
    BY <1>6, <2>2 DEF AddDomain, Extends
  <2> QED
    BY <1>1, <1>3, <2>1, <2>3
<1> QED
  BY <1>3, <1>4, <1>5, <1>6

LEMMA InjectiveAppend ==
  ASSUME NEW T, NEW s \in Seq(T), IsInjective(s), NEW t \in T, t \notin ToSet(s)
  PROVE  /\ Append(s, t) \in Seq(T) /\ IsInjective(Append(s, t)) /\ Len(Append(s, t)) = Len(s) + 1
         /\ \A i \in 1 .. Len(s) : Append(s, t)[i] = s[i]
         /\ Append(s, t)[Len(s) + 1] = t
<1>1. PICK a \in Seq(T) : a = Append(s, t)
  <2>1. Append(s, t) \in Seq(T)
    OBVIOUS
  <2> QED
    BY <2>1
<1>2. /\ Len(a) = Len(s) + 1 /\ Len(s) \in Nat /\ DOMAIN a = 1 .. Len(s) + 1 /\ DOMAIN s = 1 .. Len(s)
      /\ \A i \in 1 .. Len(s) : a[i] = s[i]
      /\ a[Len(s) + 1] = t
  BY <1>1
<1>3. \A i \in 1 .. Len(s) : s[i] # t
  BY <1>2 DEF ToSet
<1>4. ASSUME NEW i \in DOMAIN a, NEW j \in DOMAIN a, a[i] = a[j] PROVE i = j
  <2>1. CASE i \in 1 .. Len(s) /\ j \in 1 .. Len(s)
    BY <1>2, <1>4, <2>1 DEF IsInjective
  <2>2. CASE i = Len(s) + 1 \/ j = Len(s) + 1
    BY <1>2, <1>3, <1>4, <2>2
  <2> QED
    BY <1>2, <2>1, <2>2
<1>5. IsInjective(a)
  BY <1>4 DEF IsInjective
<1> QED
  BY <1>1, <1>2, <1>5

LEMMA DomExtends ==
  ASSUME prog \in Programs, DomRight, prog' = prog, reach' = reach,
         NEW r \in Names, NEW tuple, Extends(r, tuple),
         HasHead(r) => HeadOf(r).pred \in DOMAIN prog.arity /\ tuple \in Tuples(HeadOf(r).pred)
  PROVE  /\ DomRight'
         /\ \A p \in DOMAIN prog.arity :
                /\ Len(dom[p]) \in Nat /\ Len(dom'[p]) \in Nat /\ Len(dom[p]) <= Len(dom'[p])
                /\ \A q \in 1 .. Len(dom[p]) : dom'[p][q] = dom[p][q]
                /\ \A q \in Len(dom[p]) + 1 .. Len(dom'[p]) :
                        /\ HasHead(r) /\ p = HeadOf(r).pred /\ q = Len(dom[p]) + 1 /\ dom'[p][q] = tuple
                        /\ startNew' = IF startNew[r] = 0 THEN [startNew EXCEPT ![r] = q] ELSE startNew
<1>1. CASE dom' = dom /\ startNew' = startNew
  <2>1. DomRight'
    BY <1>1, SameProg DEF DomRight
  <2>2. \A p \in DOMAIN prog.arity : Len(dom[p]) \in Nat
    BY DEF DomRight
  <2> QED
    BY <1>1, <2>1, <2>2
<1>2. CASE /\ HasHead(r) /\ tuple \notin ToSet(dom[HeadOf(r).pred])
           /\ dom' = [dom EXCEPT ![HeadOf(r).pred] = Append(@, tuple)]
           /\ startNew' = IF startNew[r] = 0 THEN [startNew EXCEPT ![r] = Len(dom[HeadOf(r).pred]) + 1] ELSE startNew
  <2>1. PICK h \in DOMAIN prog.arity : h = HeadOf(r).pred
    BY <1>2
  <2>2. PICK d : d = dom[h]
    OBVIOUS
  <2>3. d \in Seq(Tuples(h)) /\ IsInjective(d) /\ tuple \in Tuples(h) /\ tuple \notin ToSet(d) /\ DOMAIN dom = DOMAIN prog.arity
    BY <1>2, <2>1, <2>2 DEF DomRight
  <2>4. PICK d2 : d2 = Append(d, tuple)
    OBVIOUS
  <2>5. /\ d2 \in Seq(Tuples(h)) /\ IsInjective(d2) /\ Len(d2) = Len(d) + 1
        /\ \A i \in 1 .. Len(d) : d2[i] = d[i]
        /\ d2[Len(d) + 1] = tuple
    BY <2>3, <2>4, InjectiveAppend
  <2>6. dom' = [dom EXCEPT ![h] = d2]
    BY <1>2, <2>1, <2>2, <2>4
  <2>7. /\ DOMAIN dom' = DOMAIN prog.arity /\ dom'[h] = d2
        /\ \A p \in DOMAIN prog.arity : p # h => dom'[p] = dom[p]
    BY <2>3, <2>6
  <2>8. ASSUME NEW p \in DOMAIN prog.arity
        PROVE  /\ dom'[p] \in Seq(Tuples(p)) /\ IsInjective(dom'[p])
    <3>1. CASE p = h
      BY <2>5, <2>7, <3>1
    <3>2. CASE p # h
      BY <2>7, <3>2 DEF DomRight
    <3> QED
      BY <3>1, <3>2
  <2>9. DomRight'
    <3>1. ASSUME NEW p PROVE IsInjective(dom[p])' <=> IsInjective(dom'[p])
      BY DEF IsInjective
    <3> QED
      BY <2>7, <2>8, <3>1, SameProg DEF DomRight
  <2>10. ASSUME NEW p \in DOMAIN prog.arity
         PROVE  /\ Len(dom[p]) \in Nat /\ Len(dom'[p]) \in Nat /\ Len(dom[p]) <= Len(dom'[p])
                /\ \A q \in 1 .. Len(dom[p]) : dom'[p][q] = dom[p][q]
                /\ \A q \in Len(dom[p]) + 1 .. Len(dom'[p]) :
                        /\ p = h /\ q = Len(dom[p]) + 1 /\ dom'[p][q] = tuple
                        /\ startNew' = IF startNew[r] = 0 THEN [startNew EXCEPT ![r] = q] ELSE startNew
    <3>1. Len(dom[p]) \in Nat
      BY DEF DomRight
    <3>2. CASE p = h
      <4>1. dom[p] = d /\ dom'[p] = d2
        BY <2>2, <2>7, <3>2
      <4>2. Len(d2) = Len(d) + 1 /\ Len(d) \in Nat
        BY <2>5, <3>1, <4>1
      <4>3. startNew' = IF startNew[r] = 0 THEN [startNew EXCEPT ![r] = Len(d) + 1] ELSE startNew
        BY <1>2, <2>1, <2>2
      <4>4. \A q \in Len(d) + 1 .. Len(d2) : q = Len(d) + 1
        BY <4>2
      <4> QED
        BY <2>5, <3>2, <4>1, <4>2, <4>3, <4>4
    <3>3. CASE p # h
      BY <2>7, <3>1, <3>3
    <3> QED
      BY <3>2, <3>3
  <2> QED
    BY <1>2, <2>1, <2>9, <2>10
<1> QED
  BY <1>1, <1>2 DEF Extends

(* The indices stay right when the domains grow.                           *)
LEMMA IdxGrows ==
  ASSUME prog \in Programs, IdxRight, prog' = prog, reach' = reach, idx' = idx, step' = step,
         \A p \in DOMAIN prog.arity :
                /\ Len(dom[p]) \in Nat /\ Len(dom'[p]) \in Nat /\ Len(dom[p]) <= Len(dom'[p])
                /\ \A q \in 1 .. Len(dom[p]) : dom'[p][q] = dom[p][q]
  PROVE  IdxRight'
<1>1. ASSUME NEW r \in Names, NEW l \in PosLevels(r), IndexRight(r, l) PROVE IndexRight(r, l)'
  <2>1. PICK p : p = PredAt(r, l) /\ p = PredAt(r, l)'
    BY SameProg
  <2>2. PICK e : e = Entries(r, l) /\ e = Entries(r, l)'
    BY SameIdx
  <2>3. PICK n : n = Scanned(r, l) /\ n = Scanned(r, l)'
    BY SameIdx
  <2>4. p \in DOMAIN prog.arity
    <3>1. BodyRight(r)
      BY RuleRight
    <3>2. PredAt(r, l) \in DOMAIN prog.arity
      BY <3>1 DEF BodyRight
    <3> QED
      BY <2>1, <3>2
  <2>5. /\ idx[r][l] \in [entries : Seq(Tuples(p)), finished : Nat, lastExtend : Nat]
        /\ Finished(r, l) <= Len(e) /\ n <= Len(dom[p]) /\ IsInjective(e)
        /\ \A i \in 1 .. Len(e) : \E q \in 1 .. n : e[i] = dom[p][q]
        /\ \A q \in 1 .. n : Fits(r, l, dom[p][q]) => \E i \in 1 .. Len(e) : e[i] = dom[p][q]
    BY <1>1, <2>1, <2>2, <2>3 DEF IndexRight
  <2>6. n \in Nat
    BY <2>3, <2>5 DEF Scanned
  <2>7. n <= Len(dom'[p]) /\ \A q \in 1 .. n : dom'[p][q] = dom[p][q]
    BY <2>4, <2>5, <2>6
  <2>8. IsInjective(Entries(r, l))'
    BY <2>2, <2>5 DEF IsInjective
  <2>9. Tuples(p)' = Tuples(p) /\ Finished(r, l)' = Finished(r, l) /\ \A t : Fits(r, l, t)' <=> Fits(r, l, t)
    BY SameProg, SameIdx
  <2>10. /\ (idx[r][l])' \in [entries : Seq(Tuples(p)), finished : Nat, lastExtend : Nat]
         /\ Finished(r, l)' <= Len(e) /\ n <= Len(dom'[p])
         /\ \A i \in 1 .. Len(e) : \E q \in 1 .. n : e[i] = dom'[p][q]
         /\ \A q \in 1 .. n : Fits(r, l, dom'[p][q]) => \E i \in 1 .. Len(e) : e[i] = dom'[p][q]
    BY <2>5, <2>7, <2>9
  <2>11. \A q \in 1 .. n : Fits(r, l, dom[p][q])' => \E i \in 1 .. Len(e) : e[i] = dom'[p][q]
    BY <2>7, <2>10, SameProg DEF Fits
  <2> QED
    BY <2>1, <2>2, <2>3, <2>8, <2>9, <2>10, <2>11 DEF IndexRight
<1>2. ASSUME NEW r \in Names, InstRight(r) PROVE InstRight(r)'
  BY <1>1, <1>2, SameProg DEF InstRight
<1> QED
  BY <1>2, SameProg, SameIdx DEF IdxRight

LEMMA GroundStep ==
  ASSUME IInv, Ground
  PROVE  IInv'
<1>1. Running
  BY DEF Ground, Running
<1>2. PICK r : r = run.stm
  OBVIOUS
<1>3. /\ prog \in Programs /\ r \in Names /\ r \in done /\ r \in Current /\ Ready(r) /\ InstRight(r) /\ PathRight(run)
      /\ Active(r)
  <2>1. Active(r)
    BY <1>1, <1>2 DEF Active
  <2> QED
    BY <1>1, <1>2, <2>1, RunningRight
<1>4. /\ run.matched /\ ~(run.numNew = 0 /\ run.l = run.lastNew) /\ run.l = Len(Body(r)) + 1
      /\ UNCHANGED <<prog, reach, comps, done, step, idx, queue>>
  BY <1>2 DEF Ground, GoesBack
<1>5. PICK env : env = Env(r, run.cur, run.l)
  OBVIOUS
<1>6. /\ env \in Instances(r) /\ InEntries(r, env) /\ StepIs(r, env)
      /\ ~Past(r, env) /\ ~Behind(run, env)
      /\ \A other \in Instances(r) : Joins(r, run.cur, run.l, other) <=> other = env
  BY <1>2, <1>3, <1>4, <1>5, GroundJoin
<1>7. PICK rn2 : rn2 = run'
  OBVIOUS
<1>8. /\ PathRight(rn2) /\ rn2.stm = r
      /\ \A other : Behind(rn2, other) <=> Behind(run, other) \/ Joins(r, run.cur, run.l, other)
  <2>1. rn2 = [run EXCEPT !.l = @ + 1, !.matched = FALSE]
    BY <1>7 DEF Ground
  <2> QED
    BY <1>2, <1>3, <1>4, <2>1, GroundRun
<1>9. rn2 # NoRun
  <2>1. rn2 \in RunSet(r) /\ Len(Body(r)) \in Nat
    BY <1>3, <1>8, RuleRight DEF PathRight, BodyRight
  <2> QED
    BY <2>1, NotNoRun
<1>10. Running' /\ run'.stm = r
  BY <1>7, <1>8, <1>9 DEF Running, NoRun
<1>11. PICK tuple : tuple = Apply(HeadOf(r), env)
  OBVIOUS
<1>12. Extends(r, tuple) /\ fact \subseteq fact' /\ grounded' = Append(grounded, <<r, env>>)
  BY <1>2, <1>5, <1>11, GroundExtends
<1>13. HasHead(r) => HeadOf(r).pred \in DOMAIN prog.arity /\ tuple \in Tuples(HeadOf(r).pred) /\ Unifies(HeadOf(r), tuple)
  BY <1>3, <1>6, <1>11, HeadTuple
<1>14. /\ DomRight'
       /\ \A p \in DOMAIN prog.arity :
                /\ Len(dom[p]) \in Nat /\ Len(dom'[p]) \in Nat /\ Len(dom[p]) <= Len(dom'[p])
                /\ \A q \in 1 .. Len(dom[p]) : dom'[p][q] = dom[p][q]
                /\ \A q \in Len(dom[p]) + 1 .. Len(dom'[p]) :
                        /\ HasHead(r) /\ p = HeadOf(r).pred /\ q = Len(dom[p]) + 1 /\ dom'[p][q] = tuple
                        /\ startNew' = IF startNew[r] = 0 THEN [startNew EXCEPT ![r] = q] ELSE startNew
  <2>1. DomRight
    BY DEF IInv
  <2> QED
    BY <1>3, <1>4, <1>12, <1>13, <2>1, DomExtends
<1>15. IdxRight'
  <2>1. IdxRight
    BY DEF IInv
  <2> QED
    BY <1>3, <1>4, <1>14, <2>1, IdxGrows
<1>16. ProgramRight' /\ OrderRight'
  BY <1>4, SameOrder, SameIdx DEF IInv
<1>17. \A s \in Names : \A l \in PosLevels(s) : PredAt(s, l) \in DOMAIN prog.arity
  <2>1. ASSUME NEW s \in Names, NEW l \in PosLevels(s) PROVE PredAt(s, l) \in DOMAIN prog.arity
    <3>1. BodyRight(s)
      BY <1>3, RuleRight
    <3> QED
      BY <3>1 DEF BodyRight
  <2> QED
    BY <2>1
<1>18. ASSUME NEW s \in Names, NEW l \in PosLevels(s), Ready(s)
       PROVE  Scanned(s, l) \in Nat /\ Scanned(s, l) <= Len(dom[PredAt(s, l)])
  BY <1>18 DEF IInv, IdxRight, InstRight, IndexRight, Scanned
<1>19. /\ startNew \in [Names -> Nat] /\ startNew' \in [Names -> Nat]
       /\ \A s \in Names : startNew[s] # 0 => s = r
       /\ \A s \in Names : startNew'[s] # 0 => s = r
       /\ startNew[r] # 0 => startNew' = startNew
  <2>1. startNew \in [Names -> Nat] /\ \A s \in Names : startNew[s] # 0 => s = r
    BY <1>2 DEF IInv, StartRight
  <2>2. CASE startNew' = startNew
    BY <2>1, <2>2
  <2>3. CASE /\ HasHead(r)
             /\ startNew' = IF startNew[r] = 0 THEN [startNew EXCEPT ![r] = Len(dom[HeadOf(r).pred]) + 1] ELSE startNew
    <3>1. Len(dom[HeadOf(r).pred]) + 1 \in Nat
      BY <1>13, <1>14, <2>3
    <3> QED
      BY <1>3, <2>1, <2>3, <3>1
  <2> QED
    BY <1>12, <2>2, <2>3 DEF Extends
<1>20. ASSUME startNew'[r] # 0
       PROVE  /\ HasHead(r) /\ startNew'[r] <= Len(dom'[HeadOf(r).pred])
              /\ \A s \in Names : \A l \in PosLevels(s) :
                    Ready(s) /\ PredAt(s, l) = HeadOf(r).pred => Scanned(s, l) < startNew'[r]
  <2>1. PICK h : h = HeadOf(r).pred
    OBVIOUS
  <2>2. CASE startNew[r] # 0
    <3>1. /\ HasHead(r) /\ startNew[r] <= Len(dom[h])
          /\ \A s \in Names : \A l \in PosLevels(s) : Ready(s) /\ PredAt(s, l) = h => Scanned(s, l) < startNew[r]
      BY <1>3, <2>1, <2>2 DEF IInv, StartRight
    <3>2. startNew[r] <= Len(dom'[h])
      <4>1. h \in DOMAIN prog.arity
        BY <1>13, <2>1, <3>1
      <4>2. Len(dom[h]) \in Nat /\ Len(dom'[h]) \in Nat /\ Len(dom[h]) <= Len(dom'[h]) /\ startNew[r] \in Nat
        BY <1>3, <1>14, <1>19, <4>1
      <4> QED
        BY <3>1, <4>2
    <3> QED
      BY <1>19, <2>1, <2>2, <3>1, <3>2
  <2>3. CASE startNew[r] = 0
    <3>1. /\ HasHead(r) /\ dom' = [dom EXCEPT ![h] = Append(@, tuple)]
          /\ startNew' = [startNew EXCEPT ![r] = Len(dom[h]) + 1]
      BY <1>12, <1>20, <2>1, <2>3 DEF Extends
    <3>2. h \in DOMAIN dom /\ dom[h] \in Seq(Tuples(h)) /\ tuple \in Tuples(h)
      BY <1>13, <2>1, <3>1 DEF IInv, DomRight
    <3>3. startNew'[r] = Len(dom[h]) + 1 /\ Len(dom'[h]) = Len(dom[h]) + 1 /\ Len(dom[h]) \in Nat
      BY <1>3, <1>19, <3>1, <3>2
    <3>4. ASSUME NEW s \in Names, NEW l \in PosLevels(s), Ready(s), PredAt(s, l) = h
          PROVE  Scanned(s, l) < startNew'[r]
      BY <1>18, <3>3, <3>4
    <3> QED
      BY <2>1, <3>1, <3>3, <3>4
  <2> QED
    BY <2>2, <2>3
<1>21. StartRight'
  <2>1. ASSUME NEW s \in Names, startNew'[s] # 0
        PROVE  /\ Running' /\ run'.stm = s /\ HasHead(s)
               /\ startNew'[s] <= Len(dom'[HeadOf(s).pred])
               /\ \A t \in Names : \A l \in PosLevels(t) :
                    Ready(t) /\ PredAt(t, l) = HeadOf(s).pred => Scanned(t, l) < startNew'[s]
    BY <1>10, <1>19, <1>20, <2>1
  <2> QED
    BY <1>4, <1>19, <2>1, SameProg, SameIdx DEF StartRight
<1>22. ASSUME NEW s PROVE Active(s)' <=> Active(s)
  BY <1>1, <1>2, <1>4, <1>10 DEF Active
<1>23. ActiveRight'
  <2>1. Current' = Current
    BY <1>4 DEF Current
  <2> QED
    BY <1>4, <1>22, <2>1, SameProg DEF IInv, ActiveRight
<1>24. QuietRight'
  BY <1>4, <1>22, SameProg, SameIdx DEF IInv, QuietRight
<1>25. ASSUME NEW s \in done, ~Overtaken(s), NEW l \in PosLevels(s),
              NEW q \in Scanned(s, l) + 1 .. Len(dom'[PredAt(s, l)]), Fits(s, l, dom'[PredAt(s, l)][q])
       PROVE  /\ startNew'[r] \in 1 .. q /\ HeadOf(r).pred = PredAt(s, l)
              /\ <<s, l>> \in ProvidedBy(r)
  <2>1. PICK p : p = PredAt(s, l)
    OBVIOUS
  <2>2. s \in Names /\ Ready(s)
    BY DEF IInv, OrderRight
  <2>3. p \in DOMAIN prog.arity /\ Scanned(s, l) \in Nat /\ Scanned(s, l) <= Len(dom[p])
    BY <1>17, <1>18, <2>1, <2>2
  <2>4. /\ Len(dom[p]) \in Nat /\ Len(dom'[p]) \in Nat /\ q \in Scanned(s, l) + 1 .. Len(dom'[p])
        /\ \A i \in 1 .. Len(dom[p]) : dom'[p][i] = dom[p][i]
    BY <1>14, <2>1, <2>3
  <2>5. CASE q <= Len(dom[p])
    <3>1. q \in Scanned(s, l) + 1 .. Len(dom[p]) /\ q \in 1 .. Len(dom[p])
      BY <2>3, <2>4, <2>5
    <3>2. Fits(s, l, dom[p][q])
      BY <1>25, <2>1, <2>4, <3>1
    <3>3. Waiting(s, l, q)
      BY <1>25, <2>1, <3>1, <3>2 DEF IInv, CoveredRight
    <3>4. startNew[r] \in 1 .. q /\ HeadOf(r).pred = PredAt(s, l) /\ <<s, l>> \in ProvidedBy(r)
      BY <1>2, <3>3 DEF Waiting
    <3>5. startNew[r] # 0
      BY <3>4
    <3> QED
      BY <1>19, <3>4, <3>5
  <2>6. CASE q > Len(dom[p])
    <3>1. q \in Len(dom[p]) + 1 .. Len(dom'[p])
      BY <2>4, <2>6
    <3>2. /\ HasHead(r) /\ p = HeadOf(r).pred /\ q = Len(dom[p]) + 1 /\ dom'[p][q] = tuple
          /\ startNew' = IF startNew[r] = 0 THEN [startNew EXCEPT ![r] = q] ELSE startNew
      BY <1>14, <2>3, <3>1
    <3>3. Fits(s, l, tuple) /\ tuple \in Tuples(p) /\ Unifies(HeadOf(r), tuple)
      BY <1>13, <1>25, <2>1, <3>2
    <3>4. <<s, l>> \in ProvidedBy(r)
      BY <1>3, <1>25, <2>1, <3>2, <3>3, ProvidesWithin
    <3>5. startNew'[r] \in 1 .. q
      <4>1. CASE startNew[r] = 0
        BY <1>3, <1>19, <2>4, <3>2, <4>1
      <4>2. CASE startNew[r] # 0
        <5>1. startNew[r] <= Len(dom[p])
          BY <1>3, <3>2, <4>2 DEF IInv, StartRight
        <5>2. startNew[r] \in Nat /\ startNew' = startNew
          BY <1>3, <1>19, <4>2
        <5> QED
          BY <2>4, <3>2, <4>2, <5>1, <5>2
      <4> QED
        BY <4>1, <4>2
    <3> QED
      BY <2>1, <3>2, <3>4, <3>5
  <2>7. q \in Int
    OBVIOUS
  <2> QED
    BY <2>4, <2>5, <2>6, <2>7
<1>26. CoveredRight'
  <2>1. ASSUME NEW s PROVE Overtaken(s)' <=> Overtaken(s)
    BY <1>4, SameProg DEF Overtaken
  <2>2. SUFFICES ASSUME NEW s \in done, ~Overtaken(s), NEW l \in PosLevels(s),
                        NEW q \in Scanned(s, l) + 1 .. Len(dom'[PredAt(s, l)]), Fits(s, l, dom'[PredAt(s, l)][q])
                 PROVE  Waiting(s, l, q)'
    <3>1. ASSUME NEW s, NEW l, NEW q PROVE Fits(s, l, dom[PredAt(s, l)][q])' <=> Fits(s, l, dom'[PredAt(s, l)][q])
      BY <1>4, SameProg DEF Fits
    <3> QED
      BY <1>4, <2>1, <3>1, SameProg, SameIdx DEF CoveredRight
  <2>3. PICK p : p = PredAt(s, l)
    OBVIOUS
  <2>4. startNew'[r] \in 1 .. q /\ HeadOf(r).pred = p /\ <<s, l>> \in ProvidedBy(r)
    BY <1>25, <2>2, <2>3
  <2> QED
    BY <1>4, <1>10, <2>3, <2>4, SameProg, SameProvided DEF Waiting
<1>27. RunRight'
  BY <1>4, <1>7, <1>8, SameRun DEF RunRight
<1>28. ASSUME NEW s, NEW other
       PROVE  /\ Seen(s, other)' <=> s = r /\ InEntries(s, other) /\ StepIs(s, other)
                                           /\ (Behind(run, other) \/ Joins(r, run.cur, run.l, other))
              /\ Seen(s, other) <=> s = r /\ InEntries(s, other) /\ StepIs(s, other) /\ Behind(run, other)
              /\ Unblocked(s, other)' => Unblocked(s, other)
  <2>1. Seen(s, other)' <=> s = r /\ InEntries(s, other) /\ StepIs(s, other) /\ Behind(rn2, other)
    BY <1>4, <1>7, <1>10, SameRun, SameIdx, SameProg DEF Seen
  <2>2. Seen(s, other) <=> s = r /\ InEntries(s, other) /\ StepIs(s, other) /\ Behind(run, other)
    BY <1>1, <1>2 DEF Seen
  <2>3. Unblocked(s, other)' => Unblocked(s, other)
    BY <1>4, <1>12, SameProg DEF Unblocked, Atom, Apply, Value, IsVar
  <2> QED
    BY <1>8, <2>1, <2>2, <2>3
<1>29. /\ grounded \in Seq(UNION {{s} \X Instances(s) : s \in Names})
       /\ \A i \in DOMAIN grounded :
            /\ Ready(grounded[i][1])
            /\ Past(grounded[i][1], grounded[i][2]) \/ Seen(grounded[i][1], grounded[i][2])
  BY DEF IInv, TwiceRight
<1>30. PICK new : new = <<r, env>>
  OBVIOUS
<1>31. new[1] = r /\ new[2] = env /\ new \in UNION {{s} \X Instances(s) : s \in Names}
  BY <1>3, <1>6, <1>30
<1>32. new \notin ToSet(grounded)
  <2>1. SUFFICES ASSUME NEW i \in DOMAIN grounded, grounded[i] = new PROVE FALSE
    BY DEF ToSet
  <2>2. Past(r, env) \/ Seen(r, env)
    BY <1>29, <1>31, <2>1
  <2> QED
    BY <1>6, <1>28, <2>2
<1>33. IsInjective(grounded)
  BY DEF IInv
<1>34. PICK G : G = UNION {{s} \X Instances(s) : s \in Names}
  OBVIOUS
<1>35. PICK g : g = Append(grounded, new)
  OBVIOUS
<1>36. /\ g \in Seq(G) /\ IsInjective(g) /\ Len(g) = Len(grounded) + 1 /\ Len(grounded) \in Nat
       /\ DOMAIN g = 1 .. Len(grounded) + 1 /\ DOMAIN grounded = 1 .. Len(grounded)
       /\ \A i \in 1 .. Len(grounded) : g[i] = grounded[i]
       /\ g[Len(grounded) + 1] = new
  <2>1. grounded \in Seq(G) /\ new \in G
    BY <1>29, <1>31, <1>34
  <2>2. /\ g \in Seq(G) /\ IsInjective(g) /\ Len(g) = Len(grounded) + 1
        /\ \A i \in 1 .. Len(grounded) : g[i] = grounded[i]
        /\ g[Len(grounded) + 1] = new
    BY <1>32, <1>33, <1>35, <2>1, InjectiveAppend
  <2>3. Len(grounded) \in Nat /\ DOMAIN grounded = 1 .. Len(grounded) /\ DOMAIN g = 1 .. Len(g)
    BY <2>1, <2>2
  <2> QED
    BY <2>2, <2>3
<1>37. grounded' = g
  BY <1>12, <1>30, <1>35
<1>38. TwiceRight'
  <2>1. ASSUME NEW i \in DOMAIN g PROVE Ready(g[i][1])' /\ (Past(g[i][1], g[i][2])' \/ Seen(g[i][1], g[i][2])')
    <3>1. PICK s : s = g[i][1]
      OBVIOUS
    <3>2. PICK other : other = g[i][2]
      OBVIOUS
    <3>3. Ready(s) /\ (Past(s, other) \/ Seen(s, other)')
      <4>1. CASE i \in 1 .. Len(grounded)
        BY <1>28, <1>29, <1>36, <3>1, <3>2, <4>1
      <4>2. CASE i = Len(grounded) + 1
        <5>1. s = r /\ other = env
          BY <1>31, <1>36, <3>1, <3>2, <4>2
        <5> QED
          BY <1>3, <1>6, <1>28, <5>1
      <4> QED
        BY <1>36, <4>1, <4>2
    <3>4. Ready(s)' /\ (Past(s, other)' \/ Seen(s, other)')
      BY <1>4, <3>3, SameIdx
    <3> QED
      BY <3>1, <3>2, <3>4
  <2>2. (UNION {{s} \X Instances(s) : s \in Names})' = G
    BY <1>4, <1>34, SameProg
  <2>3. grounded' \in Seq(UNION {{s} \X Instances(s) : s \in Names})'
    BY <1>36, <1>37, <2>2
  <2>4. (\A i \in DOMAIN grounded : Ready(grounded[i][1]) /\ (Past(grounded[i][1], grounded[i][2]) \/ Seen(grounded[i][1], grounded[i][2])))'
    BY <1>37, <2>1
  <2> QED
    BY <2>3, <2>4 DEF TwiceRight
<1>39. MissedRight'
  <2>1. SUFFICES ASSUME NEW s \in Names, Ready(s), NEW other \in Instances(s), StepIs(s, other), Unblocked(s, other),
                        Past(s, other) \/ Seen(s, other)'
                 PROVE  \E i \in DOMAIN g : g[i] = <<s, other>>
    BY <1>4, <1>28, <1>37, SameIdx, SameProg DEF MissedRight
  <2>2. CASE s = r /\ Joins(r, run.cur, run.l, other)
    <3>1. other = env
      BY <1>6, <2>1, <2>2
    <3> QED
      BY <1>30, <1>36, <2>2, <3>1
  <2>3. CASE Past(s, other) \/ Seen(s, other)
    <3>1. PICK i \in DOMAIN grounded : grounded[i] = <<s, other>>
      BY <2>1, <2>3 DEF IInv, MissedRight
    <3>2. i \in DOMAIN g /\ g[i] = <<s, other>>
      BY <1>36, <3>1
    <3> QED
      BY <3>2
  <2> QED
    BY <1>28, <2>1, <2>2, <2>3
<1>40. IsInjective(grounded)'
  BY <1>36, <1>37 DEF IsInjective
<1> QED
  BY <1>14, <1>15, <1>16, <1>21, <1>23, <1>24, <1>26, <1>27, <1>38, <1>39, <1>40 DEF IInv

------------------------------------------------------------------------------
(* The base does not depend on the cumulative part, and a component is in  *)
(* one module.                                                             *)
LEMMA ReachModule ==
  ASSUME reach = Reach, NEW s \in Names, NEW r \in reach[s]
  PROVE  ModuleOf(r) <= ModuleOf(s)
<1> DEFINE set == {t \in Names : ModuleOf(t) <= ModuleOf(s)}
<1>1. \A t : ModuleOf(t) \in {0, 1}
  BY DEF ModuleOf
<1>2. ASSUME NEW t \in set PROVE DependsOn(t) \subseteq set
  <2>1. ASSUME NEW u \in DependsOn(t) PROVE u \in set
    <3>1. u \in Names /\ ModuleOf(u) <= ModuleOf(t)
      BY DEF DependsOn, Provides
    <3> QED
      BY <1>1, <3>1
  <2> QED
    BY <2>1
<1>3. DependsOn(s) \subseteq set
  <2>1. s \in set
    BY <1>1
  <2> QED
    BY <1>2, <2>1
<1>4. PICK closed : closed = {c \in SUBSET Names : \A t \in c : DependsOn(t) \subseteq c}
  OBVIOUS
<1>5. set \in closed
  BY <1>2, <1>4
<1>6. reach[s] = {t \in Names : \A c \in closed : DependsOn(s) \subseteq c => t \in c}
  BY <1>4 DEF Reach
<1>7. r \in set
  <2> HIDE DEF set
  <2> QED
    BY <1>3, <1>5, <1>6
<1> QED
  BY <1>7

LEMMA ComponentRight ==
  ASSUME prog \in Programs, reach = Reach, NEW s \in Names, NEW r \in Component(s)
  PROVE  /\ r \in Names /\ s \in Component(r) /\ Component(r) = Component(s)
         /\ ModuleOf(r) = ModuleOf(s)
         /\ \A t \in Names : r \in reach[t] /\ t # s => s \in reach[t] \/ r = s
<1>1. r = s \/ (r \in reach[s] /\ s \in reach[r])
  BY DEF Component
<1>2. r \in Names
  BY <1>1, ReachDepends
<1>3. s \in Component(r)
  BY <1>1 DEF Component
<1>4. CASE r = s
  BY <1>2, <1>3, <1>4
<1>5. CASE r \in reach[s] /\ s \in reach[r]
  <2>1. reach[r] \subseteq reach[s] /\ reach[s] \subseteq reach[r] /\ r \in reach[r] /\ s \in reach[s]
    BY <1>2, <1>5, ReachDepends
  <2>2. Component(r) \subseteq Component(s)
    <3>1. ASSUME NEW t \in Component(r) PROVE t \in Component(s)
      <4>1. t \in reach[r] /\ r \in reach[t] /\ t \in Names
        BY <1>2, <2>1, ReachDepends DEF Component
      <4>2. reach[r] \subseteq reach[t]
        BY <4>1, ReachDepends
      <4> QED
        BY <1>5, <2>1, <4>1, <4>2 DEF Component
    <3> QED
      BY <3>1
  <2>3. Component(s) \subseteq Component(r)
    <3>1. ASSUME NEW t \in Component(s) PROVE t \in Component(r)
      <4>1. t \in reach[s] /\ s \in reach[t] /\ t \in Names
        BY <2>1, ReachDepends DEF Component
      <4>2. reach[s] \subseteq reach[t]
        BY <4>1, ReachDepends
      <4> QED
        BY <1>5, <2>1, <4>1, <4>2 DEF Component
    <3> QED
      BY <3>1
  <2>4. ModuleOf(r) = ModuleOf(s)
    <3>1. ModuleOf(r) <= ModuleOf(s) /\ ModuleOf(s) <= ModuleOf(r)
      BY <1>2, <1>5, ReachModule
    <3> QED
      BY <3>1 DEF ModuleOf
  <2>5. ASSUME NEW t \in Names, r \in reach[t] PROVE s \in reach[t]
    BY <1>5, <2>5, ReachDepends
  <2> QED
    BY <1>2, <1>3, <2>2, <2>3, <2>4, <2>5
<1> QED
  BY <1>1, <1>4, <1>5

(* The statements of a component are of one module.                        *)
LEMMA ModuleCurrent ==
  ASSUME prog \in Programs, reach = Reach, NEW s \in Names, NEW r \in Component(s)
  PROVE  s \in Current <=> r \in Current
<1>1. r \in Names /\ ModuleOf(r) = ModuleOf(s)
  BY ComponentRight
<1>2. r \in prog.base <=> s \in prog.base
  BY <1>1 DEF ModuleOf
<1> QED
  BY <1>1, <1>2, ProgramOf DEF Current

(* Domain::extend                                                          *)
Grown(e, d, k) == e \o SubSeq(d, k + 1, Len(d))

GrownRight(T, e, d, k, e2) ==
    /\ e2 \in Seq(T) /\ IsInjective(e2)
    /\ Len(e2) \in Nat /\ Len(e) \in Nat /\ Len(e) <= Len(e2)
    /\ \A p \in 1 .. Len(e) : e2[p] = e[p]
    /\ \A p \in Len(e) + 1 .. Len(e2) : \E q \in k + 1 .. Len(d) : e2[p] = d[q]
    /\ \A q \in k + 1 .. Len(d) : \E p \in 1 .. Len(e2) : e2[p] = d[q]
    /\ \A p \in 1 .. Len(e2) : \E q \in 1 .. Len(d) : e2[p] = d[q]

LEMMA ExtendRight ==
  ASSUME NEW T, NEW e \in Seq(T), NEW d \in Seq(T), IsInjective(e), IsInjective(d),
         NEW n \in Nat, NEW k \in Nat, n <= k, k <= Len(d),
         \A p \in 1 .. Len(e) : \E q \in 1 .. n : e[p] = d[q],
         NEW e2, e2 = Grown(e, d, k)
  PROVE  GrownRight(T, e, d, k, e2)
<1>1. PICK m \in Nat : m = Len(d)
  OBVIOUS
<1>2. PICK c \in Nat : c = Len(e)
  OBVIOUS
<1>3. PICK tail : tail = SubSeq(d, k + 1, m)
  OBVIOUS
<1>4. /\ tail \in Seq(T) /\ Len(tail) = m - k /\ m - k \in Nat
      /\ \A i \in 1 .. m - k : tail[i] = d[k + i]
  BY <1>1, <1>3
<1>5. /\ e2 \in Seq(T) /\ Len(e2) = c + (m - k)
      /\ \A p \in 1 .. c : e2[p] = e[p]
      /\ \A i \in 1 .. m - k : e2[c + i] = tail[i]
  <2>1. e2 = e \o tail
    BY <1>1, <1>3 DEF Grown
  <2>2. /\ e2 \in Seq(T) /\ Len(e2) = Len(e) + Len(tail)
        /\ \A i \in 1 .. Len(e) + Len(tail) : e2[i] = IF i <= Len(e) THEN e[i] ELSE tail[i - Len(e)]
    <3>1. tail \in Seq(T)
      BY <1>4
    <3>2. /\ e \o tail \in Seq(T) /\ Len(e \o tail) = Len(e) + Len(tail)
          /\ \A i \in 1 .. Len(e) + Len(tail) : (e \o tail)[i] = IF i <= Len(e) THEN e[i] ELSE tail[i - Len(e)]
      BY <3>1, ConcatProperties, Zenon
    <3> QED
      BY <2>1, <3>2, Zenon
  <2>3. \A i \in 1 .. c + (m - k) : e2[i] = IF i <= c THEN e[i] ELSE tail[i - c]
    BY <1>2, <1>4, <2>2
  <2>4. \A i \in 1 .. m - k : c + i \in 1 .. c + (m - k) /\ ~(c + i <= c) /\ (c + i) - c = i
    BY <1>4
  <2>5. \A p \in 1 .. c : p \in 1 .. c + (m - k) /\ p <= c
    BY <1>4
  <2>6. \A p \in 1 .. c : e2[p] = e[p]
    BY <2>3, <2>5
  <2>7. \A i \in 1 .. m - k : e2[c + i] = tail[i]
    BY <2>3, <2>4
  <2>8. Len(e2) = c + (m - k)
    BY <1>2, <1>4, <2>2
  <2> QED
    BY <2>2, <2>6, <2>7, <2>8
<1>6. ASSUME NEW p \in c + 1 .. c + (m - k) PROVE k + (p - c) \in k + 1 .. m /\ e2[p] = d[k + (p - c)]
  <2>1. p - c \in 1 .. m - k /\ c + (p - c) = p
    BY <1>4
  <2>2. e2[p] = tail[p - c] /\ tail[p - c] = d[k + (p - c)]
    BY <1>4, <1>5, <2>1
  <2>3. k + (p - c) \in k + 1 .. m
    BY <2>1
  <2> QED
    BY <2>2, <2>3
<1>7. ASSUME NEW q \in k + 1 .. m PROVE c + (q - k) \in c + 1 .. c + (m - k) /\ e2[c + (q - k)] = d[q]
  <2>1. c + (q - k) \in c + 1 .. c + (m - k) /\ k + ((c + (q - k)) - c) = q
    OBVIOUS
  <2> QED
    BY <1>6, <2>1
<1>8. ASSUME NEW p \in 1 .. c + (m - k) PROVE (p \in 1 .. c /\ e2[p] = e[p]) \/ p \in c + 1 .. c + (m - k)
  BY <1>5
<1>9. ASSUME NEW p \in 1 .. c + (m - k), NEW o \in 1 .. c + (m - k), e2[p] = e2[o] PROVE p = o
  <2>1. \A a, b \in 1 .. m : d[a] = d[b] => a = b
    <3>1. DOMAIN d = 1 .. m
      BY <1>1
    <3> QED
      BY <3>1 DEF IsInjective
  <2>2. \A a, b \in 1 .. c : e[a] = e[b] => a = b
    <3>1. DOMAIN e = 1 .. c
      BY <1>2
    <3> QED
      BY <3>1 DEF IsInjective
  <2>3. CASE p \in 1 .. c /\ o \in 1 .. c
    BY <1>5, <1>9, <2>2, <2>3
  <2>4. CASE p \in c + 1 .. c + (m - k) /\ o \in c + 1 .. c + (m - k)
    <3>1. k + (p - c) \in 1 .. m /\ k + (o - c) \in 1 .. m
      BY <1>6, <2>4
    <3>2. k + (p - c) = k + (o - c)
      BY <1>6, <1>9, <2>1, <2>4, <3>1
    <3> QED
      BY <3>2
  <2>5. ASSUME NEW a \in 1 .. c, NEW b \in c + 1 .. c + (m - k), e2[a] = e2[b] PROVE FALSE
    <3>1. PICK q \in 1 .. n : e2[a] = d[q]
      BY <1>2, <1>5
    <3>2. k + (b - c) \in k + 1 .. m /\ e2[b] = d[k + (b - c)]
      BY <1>6
    <3>3. q \in 1 .. m /\ k + (b - c) \in 1 .. m
      BY <1>1, <3>2
    <3>4. q = k + (b - c)
      BY <2>1, <2>5, <3>1, <3>2, <3>3
    <3> QED
      BY <3>2, <3>4
  <2> QED
    BY <1>8, <1>9, <2>3, <2>4, <2>5
<1>10. IsInjective(e2)
  <2>1. DOMAIN e2 = 1 .. c + (m - k)
    BY <1>5
  <2> QED
    BY <1>9, <2>1 DEF IsInjective
<1>11. \A p \in c + 1 .. Len(e2) : \E q \in k + 1 .. m : e2[p] = d[q]
  BY <1>5, <1>6
<1>12. \A q \in k + 1 .. m : \E p \in 1 .. Len(e2) : e2[p] = d[q]
  <2>1. ASSUME NEW q \in k + 1 .. m PROVE c + (q - k) \in 1 .. Len(e2) /\ e2[c + (q - k)] = d[q]
    BY <1>5, <1>7
  <2> QED
    BY <2>1
<1>13. ASSUME NEW p \in 1 .. Len(e2) PROVE \E q \in 1 .. m : e2[p] = d[q]
  <2>1. CASE p \in 1 .. c
    <3>1. PICK q \in 1 .. n : e2[p] = d[q]
      BY <1>2, <1>5, <2>1
    <3> QED
      BY <1>1, <3>1
  <2>2. CASE p \in c + 1 .. Len(e2)
    <3>1. PICK q \in k + 1 .. m : e2[p] = d[q]
      BY <1>11, <2>2
    <3> QED
      BY <3>1
  <2>3. Len(e2) = c + (m - k) /\ m - k \in Nat
    BY <1>4, <1>5
  <2>4. p \in 1 .. c \/ p \in c + 1 .. Len(e2)
    BY <2>3
  <2> QED
    BY <2>1, <2>2, <2>4
<1>14. Len(e2) \in Nat /\ c <= Len(e2)
  BY <1>4, <1>5
<1>15. \A p \in 1 .. c : e2[p] = e[p]
  BY <1>5
<1> QED
  BY <1>1, <1>2, <1>5, <1>10, <1>11, <1>12, <1>13, <1>14, <1>15 DEF GrownRight

------------------------------------------------------------------------------
(* Finish: what was joined is old, and the literals that the head provides *)
(* for are passed its new atoms.                                           *)
Passed(s, l) ==
    /\ startNew[run.stm] # 0 /\ <<s, l>> \in ProvidedBy(run.stm)
    /\ l \in PosLevels(s) /\ Ready(s)

Ended(s, l) == IF s = run.stm THEN FinishInst(s)[l] ELSE idx[s][l]

LEMMA NotNoIndex ==
  ASSUME NEW r, Len(Body(r)) \in Nat, NEW f, DOMAIN f = Levels(r)
  PROVE  f # NoIndex
<1>1. 1 \in DOMAIN f
  BY DEF Levels
<1>2. DOMAIN NoIndex = {}
  BY DEF NoIndex
<1> QED
  BY <1>1, <1>2

LEMMA FinishIdx ==
  ASSUME IInv, Finish, NEW r, r = run.stm, r \in Names, Ready(r)
  PROVE  /\ DOMAIN idx' = Names
         /\ \A s \in Names : Ready(s)' <=> Ready(s)
         /\ \A s \in Names : Ready(s) =>
                /\ DOMAIN idx'[s] = Levels(s)
                /\ \A l \in Levels(s) : idx'[s][l] =
                        IF Passed(s, l) THEN Extended(Ended(s, l), Lit(s, l), startNew[r] - 1) ELSE Ended(s, l)
<1> DEFINE inst == [idx EXCEPT ![r] = FinishInst(r)]
           targets == IF startNew[r] = 0 THEN {}
                      ELSE {w \in ProvidedBy(r) : Lit(w[1], w[2]).kind = "pos" /\ inst[w[1]] # NoIndex}
           extended(w) == Extended(inst[w[1]][w[2]], Lit(w[1], w[2]), startNew[r] - 1)
<1>1. idx' = [s \in Names |-> IF inst[s] = NoIndex THEN NoIndex
                 ELSE [l \in Levels(s) |-> IF <<s, l>> \in targets THEN extended(<<s, l>>) ELSE inst[s][l]]]
  BY DEF Finish
<1>2. DOMAIN idx = Names /\ prog \in Programs
  BY DEF IInv, IdxRight, ProgramRight
<1>3. Len(Body(r)) \in Nat /\ DOMAIN FinishInst(r) = Levels(r)
  BY <1>2, RuleRight DEF BodyRight, FinishInst
<1>4. FinishInst(r) # NoIndex
  BY <1>3, NotNoIndex
<1>5. ASSUME NEW s \in Names
      PROVE  /\ inst[s] # NoIndex <=> Ready(s)
             /\ \A l : inst[s][l] = Ended(s, l)
  BY <1>2, <1>4 DEF Ready, Ended
<1>6. ASSUME NEW s \in Names, NEW l \in Levels(s) PROVE <<s, l>> \in targets <=> Passed(s, l)
  <2>1. <<s, l>> \in targets <=> startNew[r] # 0 /\ <<s, l>> \in ProvidedBy(r) /\ Lit(s, l).kind = "pos" /\ inst[s] # NoIndex
    OBVIOUS
  <2>2. <<s, l>> \in ProvidedBy(r) => l \in 2 .. Len(Body(s)) + 1
    BY DEF ProvidedBy
  <2>3. Ready(s) <=> inst[s] # NoIndex
    BY <1>5
  <2> HIDE DEF inst, targets
  <2> QED
    BY <2>1, <2>2, <2>3 DEF Passed, PosLevels
<1>7. ASSUME NEW s \in Names, NEW l \in Levels(s)
      PROVE  extended(<<s, l>>) = Extended(Ended(s, l), Lit(s, l), startNew[r] - 1)
  <2>1. extended(<<s, l>>) = Extended(inst[s][l], Lit(s, l), startNew[r] - 1)
    OBVIOUS
  <2> HIDE DEF inst
  <2> QED
    BY <1>5, <2>1
<1> HIDE DEF inst, targets, extended
<1>8. ASSUME NEW s \in Names, Ready(s)
      PROVE  /\ DOMAIN idx'[s] = Levels(s)
             /\ \A l \in Levels(s) : idx'[s][l] =
                        IF Passed(s, l) THEN Extended(Ended(s, l), Lit(s, l), startNew[r] - 1) ELSE Ended(s, l)
  <2>1. idx'[s] = [l \in Levels(s) |-> IF <<s, l>> \in targets THEN extended(<<s, l>>) ELSE inst[s][l]]
    BY <1>1, <1>5, <1>8
  <2>2. ASSUME NEW l \in Levels(s)
        PROVE  idx'[s][l] = IF Passed(s, l) THEN Extended(Ended(s, l), Lit(s, l), startNew[r] - 1) ELSE Ended(s, l)
    BY <1>5, <1>6, <1>7, <2>1
  <2> QED
    BY <2>1, <2>2
<1>9. ASSUME NEW s \in Names PROVE Ready(s)' <=> Ready(s)
  <2>1. CASE Ready(s)
    <3>1. DOMAIN idx'[s] = Levels(s) /\ Len(Body(s)) \in Nat
      BY <1>2, <1>8, <2>1, RuleRight DEF BodyRight
    <3>2. idx'[s] # NoIndex
      BY <3>1, NotNoIndex
    <3> QED
      BY <2>1, <3>2 DEF Ready, NoIndex
  <2>2. CASE ~Ready(s)
    <3>1. idx'[s] = NoIndex
      BY <1>1, <1>5, <2>2
    <3> QED
      BY <2>2, <3>1 DEF Ready, NoIndex
  <2> QED
    BY <2>1, <2>2
<1>10. DOMAIN idx' = Names
  BY <1>1
<1> QED
  BY <1>8, <1>9, <1>10

(* The fields of the indices after a statement is through.                 *)
LEMMA FinishFields ==
  ASSUME IInv, Finish, NEW r, r = run.stm, r \in Names, Ready(r), NEW s \in Names, Ready(s)
  PROVE  /\ idx'[s][1] \in [finished : BOOLEAN]
         /\ idx'[s][1].finished <=> s = r \/ idx[s][1].finished
         /\ \A l \in IncLevels(s) : /\ idx'[s][l] \in [finished : 0 .. step]
                                    /\ idx'[s][l].finished = IF s = r THEN step ELSE idx[s][l].finished
         /\ \A l \in PosLevels(s) :
                /\ idx'[s][l] \in [entries : {idx'[s][l].entries}, finished : Nat, lastExtend : Nat]
                /\ idx'[s][l].finished = IF s = r THEN Len(idx[s][l].entries) ELSE idx[s][l].finished
                /\ ~Passed(s, l) => /\ idx'[s][l].entries = idx[s][l].entries
                                    /\ idx'[s][l].lastExtend = idx[s][l].lastExtend
                /\ Passed(s, l) =>
                    /\ idx'[s][l].entries = Grown(idx[s][l].entries, dom[PredAt(s, l)], startNew[r] - 1)
                    /\ idx'[s][l].lastExtend = IF startNew[r] - 1 < Len(dom[PredAt(s, l)]) THEN Len(dom[PredAt(s, l)])
                                               ELSE idx[s][l].lastExtend
<1>1. prog \in Programs /\ InstRight(s) /\ step \in Nat /\ DomRight
  BY GroundingAssumption DEF IInv, ProgramRight, IdxRight
<1>2. BodyRight(s) /\ 1 \in Levels(s) /\ \A l \in PosLevels(s) \cup IncLevels(s) : l \in Levels(s) /\ l # 1 /\ l > 1
  <2>1. BodyRight(s)
    BY <1>1, RuleRight
  <2> QED
    BY <2>1 DEF Levels, PosLevels, IncLevels, BodyRight
<1>3. \A l \in Levels(s) : idx'[s][l] =
            IF Passed(s, l) THEN Extended(Ended(s, l), Lit(s, l), startNew[r] - 1) ELSE Ended(s, l)
  BY FinishIdx
<1>4. \A l \in Levels(s) : l \notin PosLevels(s) => idx'[s][l] = Ended(s, l)
  BY <1>3 DEF Passed
<1>5. /\ idx'[s][1] \in [finished : BOOLEAN]
      /\ idx'[s][1].finished <=> s = r \/ idx[s][1].finished
  <2>1. idx'[s][1] = Ended(s, 1)
    BY <1>2, <1>4, KindsDiffer
  <2>2. idx[s][1] \in [finished : BOOLEAN]
    BY <1>1 DEF InstRight
  <2>3. CASE s = r
    <3>1. Ended(s, 1) = [finished |-> TRUE]
      BY <1>2, <2>3 DEF Ended, FinishInst
    <3>2. PICK b \in BOOLEAN : b = TRUE
      OBVIOUS
    <3>3. idx'[s][1] = [finished |-> b]
      BY <2>1, <3>1, <3>2
    <3>4. idx'[s][1].finished = b
      BY <3>3
    <3> QED
      BY <2>3, <3>2, <3>3, <3>4
  <2>4. CASE s # r
    BY <2>1, <2>2, <2>4 DEF Ended
  <2> QED
    BY <2>3, <2>4
<1>6. ASSUME NEW l \in IncLevels(s)
      PROVE  /\ idx'[s][l] \in [finished : 0 .. step]
             /\ idx'[s][l].finished = IF s = r THEN step ELSE idx[s][l].finished
  <2>1. idx'[s][l] = Ended(s, l) /\ l \in Levels(s) /\ l > 1 /\ l # 1 /\ Lit(s, l).kind = "inc"
    BY <1>2, <1>4, KindsDiffer DEF IncLevels
  <2>2. PICK old : old = idx[s][l]
    OBVIOUS
  <2>3. old \in [finished : 0 .. step]
    BY <1>1, <2>2 DEF InstRight
  <2>4. CASE s = r
    <3>1. Ended(s, l) = [old EXCEPT !.finished = step]
      BY <2>1, <2>2, <2>4 DEF Ended, FinishInst
    <3>2. step \in 0 .. step
      BY <1>1
    <3> QED
      BY <2>1, <2>3, <2>4, <3>1, <3>2
  <2>5. CASE s # r
    BY <2>1, <2>2, <2>3, <2>5 DEF Ended
  <2> QED
    BY <2>4, <2>5
<1>7. ASSUME NEW l \in PosLevels(s)
      PROVE  /\ idx'[s][l] \in [entries : {idx'[s][l].entries}, finished : Nat, lastExtend : Nat]
             /\ idx'[s][l].finished = IF s = r THEN Len(idx[s][l].entries) ELSE idx[s][l].finished
             /\ ~Passed(s, l) => /\ idx'[s][l].entries = idx[s][l].entries
                                 /\ idx'[s][l].lastExtend = idx[s][l].lastExtend
             /\ Passed(s, l) =>
                 /\ idx'[s][l].entries = Grown(idx[s][l].entries, dom[PredAt(s, l)], startNew[r] - 1)
                 /\ idx'[s][l].lastExtend = IF startNew[r] - 1 < Len(dom[PredAt(s, l)]) THEN Len(dom[PredAt(s, l)])
                                            ELSE idx[s][l].lastExtend
  <2>1. l \in Levels(s) /\ l > 1 /\ l # 1 /\ Lit(s, l).kind = "pos" /\ PredAt(s, l) = Lit(s, l).pred
    BY <1>2 DEF PosLevels, PredAt
  <2>2. PICK old : old = idx[s][l]
    OBVIOUS
  <2>3. PICK e : e = old.entries
    OBVIOUS
  <2>4. old \in [entries : {e}, finished : Nat, lastExtend : Nat] /\ Len(e) \in Nat
    BY <1>1, <2>2, <2>3 DEF InstRight, IndexRight, Entries
  <2>5. PICK n \in Nat : n = IF s = r THEN Len(e) ELSE old.finished
    BY <2>4
  <2>6. PICK ended : ended = [entries |-> e, finished |-> n, lastExtend |-> old.lastExtend]
    OBVIOUS
  <2>7. Ended(s, l) = ended
    <3>1. CASE s = r
      <4>1. FinishInst(s)[l] = [old EXCEPT !.finished = Len(e)]
        BY <2>1, <2>2, <2>3, <3>1 DEF FinishInst
      <4> QED
        BY <2>4, <2>5, <2>6, <3>1, <4>1 DEF Ended
    <3>2. CASE s # r
      BY <2>2, <2>4, <2>5, <2>6, <3>2 DEF Ended
    <3> QED
      BY <3>1, <3>2
  <2>8. PICK d : d = dom[PredAt(s, l)]
    OBVIOUS
  <2>9. Len(d) \in Nat
    BY <1>1, <1>2, <2>8 DEF DomRight, BodyRight
  <2>10. CASE Passed(s, l)
    <3>1. PICK e2 : e2 = Grown(e, d, startNew[r] - 1)
      OBVIOUS
    <3>2. PICK m \in Nat : m = IF startNew[r] - 1 < Len(d) THEN Len(d) ELSE old.lastExtend
      BY <2>4, <2>9
    <3>3. idx'[s][l] = Extended(ended, Lit(s, l), startNew[r] - 1)
      BY <1>3, <2>1, <2>7, <2>10
    <3>4. idx'[s][l] = [entries |-> e2, finished |-> n, lastExtend |-> m]
      <4>1. dom[Lit(s, l).pred] = d
        BY <2>1, <2>8
      <4> QED
        BY <2>6, <3>1, <3>2, <3>3, <4>1 DEF Extended, Grown
    <3>5. idx'[s][l].entries = e2 /\ idx'[s][l].finished = n /\ idx'[s][l].lastExtend = m
      BY <3>4
    <3>6. idx'[s][l] \in [entries : {idx'[s][l].entries}, finished : Nat, lastExtend : Nat]
      BY <3>4, <3>5
    <3>7. e2 = Grown(idx[s][l].entries, dom[PredAt(s, l)], startNew[r] - 1)
      BY <2>2, <2>3, <2>8, <3>1
    <3>8. m = IF startNew[r] - 1 < Len(dom[PredAt(s, l)]) THEN Len(dom[PredAt(s, l)]) ELSE idx[s][l].lastExtend
      BY <2>2, <2>8, <3>2
    <3>9. n = IF s = r THEN Len(idx[s][l].entries) ELSE idx[s][l].finished
      BY <2>2, <2>3, <2>5
    <3> QED
      BY <2>10, <3>5, <3>6, <3>7, <3>8, <3>9
  <2>11. CASE ~Passed(s, l)
    <3>1. idx'[s][l] = ended
      BY <1>3, <2>1, <2>7, <2>11
    <3> QED
      BY <2>2, <2>3, <2>4, <2>5, <2>6, <2>11, <3>1
  <2> QED
    BY <2>10, <2>11
<1> QED
  BY <1>5, <1>6, <1>7

LEMMA PassedRight ==
  ASSUME IInv, Running, NEW r, r = run.stm, NEW s \in Names, NEW l, Passed(s, l)
  PROVE  /\ s \in Component(r) /\ s \in done /\ s \in Current /\ ~Overtaken(s)
         /\ startNew[r] \in Nat /\ Scanned(s, l) < startNew[r] /\ startNew[r] <= Len(dom[PredAt(s, l)])
         /\ \A q \in Scanned(s, l) + 1 .. Len(dom[PredAt(s, l)]) :
                Fits(s, l, dom[PredAt(s, l)][q]) => q >= startNew[r]
<1>1. /\ startNew[r] # 0 /\ <<s, l>> \in ProvidedBy(r) /\ l \in PosLevels(s) /\ Ready(s)
  BY DEF Passed
<1>2. r \in Names /\ r \in done /\ r \in Current /\ prog \in Programs
  BY RunningRight
<1>3. s \in Component(r) /\ Provides(r, s, Lit(s, l))
  BY <1>1 DEF ProvidedBy
<1>4. s \in done
  BY <1>2, <1>3 DEF IInv, OrderRight
<1>5. s \in Current
  BY <1>2, <1>3, ModuleCurrent DEF IInv, ProgramRight
<1>6. ~Overtaken(s)
  BY <1>2, <1>5, ProgramOf DEF Overtaken, Current
<1>7. HeadOf(r).pred = PredAt(s, l)
  BY <1>3 DEF Provides, Compatible, PredAt
<1>8. startNew[r] \in Nat /\ Scanned(s, l) < startNew[r] /\ startNew[r] <= Len(dom[PredAt(s, l)])
  BY <1>1, <1>2, <1>7 DEF IInv, StartRight
<1>9. ASSUME NEW q \in Scanned(s, l) + 1 .. Len(dom[PredAt(s, l)]), Fits(s, l, dom[PredAt(s, l)][q])
      PROVE  q >= startNew[r]
  <2>1. Waiting(s, l, q)
    BY <1>1, <1>4, <1>6, <1>9 DEF IInv, CoveredRight
  <2> QED
    BY <2>1, <1>8 DEF Waiting
<1> QED
  BY <1>3, <1>4, <1>5, <1>6, <1>8, <1>9

LEMMA FinishIndex ==
  ASSUME IInv, Finish, NEW r, r = run.stm, r \in Names, Ready(r), Running,
         NEW s \in Names, Ready(s), NEW l \in PosLevels(s)
  PROVE  /\ IndexRight(s, l)'
         /\ Len(Entries(s, l)) \in Nat /\ Len(Entries(s, l)') \in Nat /\ Len(Entries(s, l)) <= Len(Entries(s, l)')
         /\ \A p \in 1 .. Len(Entries(s, l)) : Entries(s, l)'[p] = Entries(s, l)[p]
         /\ Finished(s, l)' = IF s = r THEN Len(Entries(s, l)) ELSE Finished(s, l)
         /\ \A p \in Len(Entries(s, l)) + 1 .. Len(Entries(s, l)') :
                Passed(s, l) /\ \E q \in startNew[r] .. Len(dom[PredAt(s, l)]) : Entries(s, l)'[p] = dom[PredAt(s, l)][q]
         /\ Scanned(s, l)' = IF Passed(s, l) THEN Len(dom[PredAt(s, l)]) ELSE Scanned(s, l)
<1>1. /\ prog \in Programs /\ IndexRight(s, l) /\ DomRight
      /\ prog' = prog /\ reach' = reach /\ dom' = dom
  BY DEF IInv, ProgramRight, IdxRight, InstRight, Finish
<1>2. PICK p0 \in DOMAIN prog.arity : p0 = PredAt(s, l)
  <2>1. BodyRight(s)
    BY <1>1, RuleRight
  <2>2. PredAt(s, l) \in DOMAIN prog.arity
    BY <2>1 DEF BodyRight
  <2> QED
    BY <2>2
<1>3. PICK T : T = Tuples(p0)
  OBVIOUS
<1>4. PICK d : d = dom[p0]
  OBVIOUS
<1>5. d \in Seq(T) /\ IsInjective(d)
  BY <1>1, <1>3, <1>4 DEF DomRight
<1>6. PICK e : e = Entries(s, l)
  OBVIOUS
<1>7. PICK n : n = Scanned(s, l)
  OBVIOUS
<1>8. /\ e \in Seq(T) /\ n \in Nat /\ IsInjective(e) /\ n <= Len(d)
      /\ Finished(s, l) \in Nat /\ Finished(s, l) <= Len(e)
      /\ \A i \in 1 .. Len(e) : \E q \in 1 .. n : e[i] = d[q]
      /\ \A q \in 1 .. n : Fits(s, l, d[q]) => \E i \in 1 .. Len(e) : e[i] = d[q]
  BY <1>1, <1>2, <1>3, <1>4, <1>6, <1>7 DEF IndexRight, Entries, Scanned, Finished
<1>9. PICK e2 : e2 = Entries(s, l)'
  OBVIOUS
<1>10. PICK m : m = Scanned(s, l)'
  OBVIOUS
<1>11. /\ idx'[s][l] \in [entries : {e2}, finished : Nat, lastExtend : Nat]
       /\ Finished(s, l)' = IF s = r THEN Len(e) ELSE Finished(s, l)
       /\ ~Passed(s, l) => e2 = e /\ m = n
       /\ Passed(s, l) => /\ e2 = Grown(e, d, startNew[r] - 1)
                          /\ m = IF startNew[r] - 1 < Len(d) THEN Len(d) ELSE n
  <2>1. /\ idx'[s][l] \in [entries : {idx'[s][l].entries}, finished : Nat, lastExtend : Nat]
        /\ idx'[s][l].finished = IF s = r THEN Len(idx[s][l].entries) ELSE idx[s][l].finished
        /\ ~Passed(s, l) => /\ idx'[s][l].entries = idx[s][l].entries
                            /\ idx'[s][l].lastExtend = idx[s][l].lastExtend
        /\ Passed(s, l) =>
            /\ idx'[s][l].entries = Grown(idx[s][l].entries, dom[PredAt(s, l)], startNew[r] - 1)
            /\ idx'[s][l].lastExtend = IF startNew[r] - 1 < Len(dom[PredAt(s, l)]) THEN Len(dom[PredAt(s, l)])
                                       ELSE idx[s][l].lastExtend
    BY FinishFields
  <2>2. e = idx[s][l].entries /\ n = idx[s][l].lastExtend /\ e2 = idx'[s][l].entries /\ m = idx'[s][l].lastExtend
    BY <1>6, <1>7, <1>9, <1>10 DEF Entries, Scanned
  <2>3. Finished(s, l)' = idx'[s][l].finished /\ Finished(s, l) = idx[s][l].finished
    BY DEF Finished
  <2>4. d = dom[PredAt(s, l)]
    BY <1>2, <1>4
  <2> QED
    BY <2>1, <2>2, <2>3, <2>4
<1>12. /\ e2 \in Seq(T) /\ IsInjective(e2) /\ Len(e) \in Nat /\ Len(e2) \in Nat /\ Len(e) <= Len(e2)
       /\ \A p \in 1 .. Len(e) : e2[p] = e[p]
       /\ m = IF Passed(s, l) THEN Len(d) ELSE n
       /\ \A p \in Len(e) + 1 .. Len(e2) : Passed(s, l) /\ \E q \in startNew[r] .. Len(d) : e2[p] = d[q]
       /\ \A i \in 1 .. Len(e2) : \E q \in 1 .. m : e2[i] = d[q]
       /\ \A q \in 1 .. m : Fits(s, l, d[q]) => \E i \in 1 .. Len(e2) : e2[i] = d[q]
  <2>1. CASE ~Passed(s, l)
    <3>1. e2 = e /\ m = n /\ Len(e) \in Nat
      BY <1>8, <1>11, <2>1
    <3> QED
      BY <1>8, <2>1, <3>1
  <2>2. CASE Passed(s, l)
    <3>1. /\ startNew[r] \in Nat /\ n < startNew[r] /\ startNew[r] <= Len(d)
          /\ \A q \in n + 1 .. Len(d) : Fits(s, l, d[q]) => q >= startNew[r]
      BY <1>2, <1>4, <1>7, <2>2, PassedRight
    <3>2. PICK k \in Nat : k = startNew[r] - 1
      BY <1>8, <3>1
    <3>3. n <= k /\ k <= Len(d) /\ k < Len(d) /\ startNew[r] = k + 1 /\ Len(d) \in Nat
      BY <1>5, <1>8, <3>1, <3>2
    <3>4. e2 = Grown(e, d, k) /\ m = Len(d)
      BY <1>11, <2>2, <3>2, <3>3
    <3>5. /\ e2 \in Seq(T) /\ IsInjective(e2)
          /\ Len(e2) \in Nat /\ Len(e) \in Nat /\ Len(e) <= Len(e2)
          /\ \A p \in 1 .. Len(e) : e2[p] = e[p]
          /\ \A p \in Len(e) + 1 .. Len(e2) : \E q \in k + 1 .. Len(d) : e2[p] = d[q]
          /\ \A q \in k + 1 .. Len(d) : \E p \in 1 .. Len(e2) : e2[p] = d[q]
          /\ \A p \in 1 .. Len(e2) : \E q \in 1 .. Len(d) : e2[p] = d[q]
      <4>1. e \in Seq(T) /\ d \in Seq(T) /\ IsInjective(e) /\ IsInjective(d)
        BY <1>5, <1>8
      <4>2. n \in Nat /\ k \in Nat /\ n <= k /\ k <= Len(d)
        BY <1>8, <3>3
      <4>3. \A p \in 1 .. Len(e) : \E q \in 1 .. n : e[p] = d[q]
        BY <1>8
      <4>4. e2 = Grown(e, d, k)
        BY <3>4
      <4>5. GrownRight(T, e, d, k, e2)
        BY <4>1, <4>2, <4>3, <4>4, ExtendRight
      <4> QED
        BY <4>5 DEF GrownRight
    <3>6. ASSUME NEW q \in 1 .. m, Fits(s, l, d[q]) PROVE \E i \in 1 .. Len(e2) : e2[i] = d[q]
      <4>1. CASE q <= n
        <5>1. PICK i \in 1 .. Len(e) : e[i] = d[q]
          BY <1>8, <3>6, <4>1
        <5>2. i \in 1 .. Len(e2) /\ e2[i] = d[q]
          BY <3>5, <5>1
        <5> QED
          BY <5>2
      <4>2. CASE q > n
        <5>1. q \in k + 1 .. Len(d)
          BY <1>8, <3>1, <3>3, <3>4, <3>6, <4>2
        <5> QED
          BY <3>5, <5>1
      <4> QED
        BY <1>8, <4>1, <4>2
    <3> QED
      BY <2>2, <3>3, <3>4, <3>5, <3>6
  <2> QED
    BY <2>1, <2>2
<1>13. IndexRight(s, l)'
  <2>1. p0 = PredAt(s, l)' /\ T = Tuples(p0)' /\ d = dom[p0]'
    BY <1>1, <1>2, <1>3, <1>4, SameProg
  <2>2. IsInjective(Entries(s, l))'
    BY <1>9, <1>12 DEF IsInjective
  <2>3. Finished(s, l)' <= Len(e2)
    BY <1>8, <1>11, <1>12
  <2>4. m <= Len(d)
    BY <1>5, <1>8, <1>12
  <2>5. \A q \in 1 .. m : Fits(s, l, d[q])' => \E i \in 1 .. Len(e2) : e2[i] = d[q]
    BY <1>1, <1>12, SameProg
  <2>6. (idx[s][l])' \in [entries : Seq(T), finished : Nat, lastExtend : Nat]
    BY <1>11, <1>12
  <2>7. \A i \in 1 .. Len(e2) : \E q \in 1 .. m : e2[i] = d[q]
    BY <1>12
  <2>8. \A q \in 1 .. Scanned(s, l)' : Fits(s, l, dom[PredAt(s, l)][q])' => \E i \in 1 .. Len(Entries(s, l)') : Entries(s, l)'[i] = d[q]
    <3>1. ASSUME NEW q, Fits(s, l, dom[PredAt(s, l)][q])' PROVE Fits(s, l, d[q])'
      BY <2>1, <3>1 DEF Fits
    <3> QED
      BY <1>9, <1>10, <2>5, <3>1
  <2> QED
    BY <1>9, <1>10, <2>1, <2>2, <2>3, <2>4, <2>6, <2>7, <2>8 DEF IndexRight
<1> QED
  BY <1>2, <1>4, <1>6, <1>7, <1>9, <1>10, <1>11, <1>12, <1>13

(* The orders of a finite set.                                             *)
LEMMA OrderOf ==
  ASSUME NEW S, IsFiniteSet(S), NEW o \in SetToSeqs(S)
  PROVE  /\ o \in Seq(S)
         /\ \A x \in S : \E i \in 1 .. Len(o) : o[i] = x
         /\ \A i, j \in 1 .. Len(o) : i # j => o[i] # o[j]
<1>1. PICK n \in Nat : n = Cardinality(S)
  BY FS_CardinalityType
<1>2. PICK D : D = 1 .. n
  OBVIOUS
<1>3. o \in [D -> S] /\ \A i, j \in D : i # j => o[i] # o[j]
  BY <1>1, <1>2 DEF SetToSeqs
<1>4. o \in Injection(D, S)
  <2>1. \A a, b \in D : o[a] = o[b] => a = b
    BY <1>3
  <2> QED
    BY <1>3, <2>1 DEF Injection, IsInjective
<1>5. IsFiniteSet(D) /\ Cardinality(D) = n
  <2>1. n = Cardinality(1 .. n) /\ IsFiniteSet(1 .. n)
    BY <1>1, FS_Interval
  <2> QED
    BY <1>2, <2>1
<1>6. o \in Surjection(D, S)
  BY <1>1, <1>4, <1>5, FS_Injection
<1>7. \A x \in S : \E i \in D : o[i] = x
  BY <1>6 DEF Surjection
<1>8. o \in Seq(S) /\ Len(o) = n
  BY <1>2, <1>3
<1> QED
  BY <1>2, <1>3, <1>7, <1>8

(* Who is queued when a statement is through.                              *)
Woken(s) == \E l \in PosLevels(s) : /\ Passed(s, l)
                                    /\ \E q \in startNew[run.stm] .. Len(dom[PredAt(s, l)]) :
                                            Unifies(Lit(s, l), dom[PredAt(s, l)][q])

LEMMA FinishQueue ==
  ASSUME IInv, Finish, NEW r, r = run.stm, r \in Names, Ready(r)
  PROVE  /\ queue' \in Seq(Names)
         /\ \A s \in Names : (\E i \in DOMAIN queue' : queue'[i] = s) <=>
                                    (\E i \in DOMAIN queue : queue[i] = s) \/ Woken(s)
<1> DEFINE inst == [idx EXCEPT ![r] = FinishInst(r)]
           targets == IF startNew[r] = 0 THEN {}
                      ELSE {w \in ProvidedBy(r) : Lit(w[1], w[2]).kind = "pos" /\ inst[w[1]] # NoIndex}
           tuples(w) == dom[Lit(w[1], w[2]).pred]
           unified(w) == \E i \in startNew[r] .. Len(tuples(w)) : Unifies(Lit(w[1], w[2]), tuples(w)[i])
           woken == {w[1] : w \in {x \in targets : unified(x)}}
<1>1. PICK order \in SetToSeqs(woken \ ToSet(queue)) : queue' = queue \o order
  BY DEF Finish
<1>2. prog \in Programs /\ queue \in Seq(Names) /\ DOMAIN idx = Names
  BY DEF IInv, ProgramRight, ActiveRight, IdxRight
<1>3. Len(Body(r)) \in Nat /\ DOMAIN FinishInst(r) = Levels(r)
  BY <1>2, RuleRight DEF BodyRight, FinishInst
<1>4. \A s \in Names : inst[s] # NoIndex <=> Ready(s)
  <2>1. FinishInst(r) # NoIndex
    BY <1>3, NotNoIndex
  <2> QED
    BY <1>2, <2>1 DEF Ready
<1>5. ASSUME NEW w \in ProvidedBy(r)
      PROVE  /\ w = <<w[1], w[2]>> /\ w[1] \in Names /\ w[2] \in 2 .. Len(Body(w[1])) + 1
  <2>1. PICK s \in Component(r) : w \in {s} \X (2 .. Len(Body(s)) + 1)
    BY DEF ProvidedBy
  <2>2. s \in Names
    BY <1>2, ComponentRight DEF IInv, ProgramRight
  <2> QED
    BY <2>1, <2>2
<1>6. woken \subseteq Names
  <2>1. \A w \in targets : w[1] \in Names
    BY <1>5
  <2> QED
    BY <2>1
<1>7. ASSUME NEW s \in Names PROVE s \in woken <=> Woken(s)
  <2>1. ASSUME s \in woken PROVE Woken(s)
    <3>1. PICK w : w \in targets /\ unified(w) /\ s = w[1]
      BY <2>1
    <3>2. startNew[r] # 0 /\ w \in ProvidedBy(r) /\ Lit(w[1], w[2]).kind = "pos" /\ inst[w[1]] # NoIndex
      BY <3>1
    <3>3. PICK l : l = w[2]
      OBVIOUS
    <3>4. w = <<s, l>> /\ l \in PosLevels(s)
      BY <1>5, <3>1, <3>2, <3>3 DEF PosLevels
    <3>5. Passed(s, l)
      BY <1>4, <3>1, <3>2, <3>4 DEF Passed
    <3>6. PICK q \in startNew[r] .. Len(tuples(w)) : Unifies(Lit(w[1], w[2]), tuples(w)[q])
      BY <3>1
    <3>7. tuples(w) = dom[PredAt(s, l)]
      BY <3>1, <3>3 DEF PredAt
    <3> HIDE DEF tuples
    <3>8. q \in startNew[r] .. Len(dom[PredAt(s, l)]) /\ Unifies(Lit(s, l), dom[PredAt(s, l)][q])
      BY <3>1, <3>3, <3>6, <3>7
    <3> QED
      BY <3>4, <3>5, <3>8 DEF Woken
  <2>2. ASSUME Woken(s) PROVE s \in woken
    <3>1. PICK l \in PosLevels(s) : /\ Passed(s, l)
                                    /\ \E q \in startNew[r] .. Len(dom[PredAt(s, l)]) :
                                            Unifies(Lit(s, l), dom[PredAt(s, l)][q])
      BY <2>2 DEF Woken
    <3>2. PICK w : w = <<s, l>>
      OBVIOUS
    <3>3. w[1] = s /\ w[2] = l
      BY <3>2
    <3>4. w \in targets
      BY <1>4, <3>1, <3>2, <3>3 DEF Passed, PosLevels
    <3>5. unified(w)
      BY <3>1, <3>3 DEF PredAt
    <3> HIDE DEF targets, unified
    <3> QED
      BY <3>3, <3>4, <3>5
  <2> QED
    BY <2>1, <2>2
<1> HIDE DEF woken
<1>8. PICK S : S = woken \ ToSet(queue)
  OBVIOUS
<1>9. S \subseteq Names /\ IsFiniteSet(S)
  <2>1. S \subseteq Names
    BY <1>6, <1>8
  <2> QED
    BY <1>2, <2>1, ProgramOf, FS_Subset
<1>10. order \in Seq(S) /\ \A x \in S : \E i \in 1 .. Len(order) : order[i] = x
  BY <1>1, <1>8, <1>9, OrderOf
<1>11. /\ queue \o order \in Seq(Names) /\ Len(queue \o order) = Len(queue) + Len(order)
       /\ \A i \in 1 .. Len(queue) + Len(order) : (queue \o order)[i] = IF i <= Len(queue) THEN queue[i] ELSE order[i - Len(queue)]
  <2>1. order \in Seq(Names)
    BY <1>9, <1>10
  <2> QED
    BY <1>2, <2>1, ConcatProperties, Zenon
<1>12. PICK a \in Nat : a = Len(queue)
  BY <1>2
<1>13. PICK b \in Nat : b = Len(order)
  BY <1>10
<1>14. PICK q2 : q2 = queue'
  OBVIOUS
<1>15. q2 \in Seq(Names) /\ Len(q2) = a + b /\ \A i \in 1 .. a + b : q2[i] = IF i <= a THEN queue[i] ELSE order[i - a]
  <2>1. q2 = queue \o order
    BY <1>1, <1>14
  <2> QED
    BY <1>11, <1>12, <1>13, <2>1
<1>16. DOMAIN queue = 1 .. a /\ DOMAIN q2 = 1 .. a + b
  BY <1>2, <1>12, <1>15
<1>17. ASSUME NEW s \in Names
       PROVE  (\E i \in 1 .. a + b : q2[i] = s) <=> (\E i \in 1 .. a : queue[i] = s) \/ s \in woken
  <2>1. ASSUME NEW i \in 1 .. a + b, q2[i] = s PROVE (\E j \in 1 .. a : queue[j] = s) \/ s \in woken
    <3>1. CASE i <= a
      BY <1>15, <2>1, <3>1
    <3>2. CASE ~(i <= a)
      <4>1. i - a \in 1 .. b /\ order[i - a] = s
        BY <1>15, <2>1, <3>2
      <4>2. order[i - a] \in S
        BY <1>10, <1>13, <4>1
      <4> QED
        BY <1>8, <4>1, <4>2
    <3> QED
      BY <3>1, <3>2
  <2>2. ASSUME NEW j \in 1 .. a, queue[j] = s PROVE \E i \in 1 .. a + b : q2[i] = s
    <3>1. j \in 1 .. a + b /\ j <= a
      OBVIOUS
    <3> QED
      BY <1>15, <2>2, <3>1
  <2>3. ASSUME s \in woken, ~\E j \in 1 .. a : queue[j] = s PROVE \E i \in 1 .. a + b : q2[i] = s
    <3>1. s \in S
      BY <1>8, <1>16, <2>3 DEF ToSet
    <3>2. PICK i \in 1 .. b : order[i] = s
      BY <1>10, <1>13, <3>1
    <3>3. a + i \in 1 .. a + b /\ ~(a + i <= a) /\ (a + i) - a = i
      OBVIOUS
    <3>4. q2[a + i] = s
      BY <1>15, <3>2, <3>3
    <3> QED
      BY <3>3, <3>4
  <2> QED
    BY <2>1, <2>2, <2>3
<1> QED
  BY <1>7, <1>14, <1>15, <1>16, <1>17

LEMMA FinishPast ==
  ASSUME IInv, Finish, NEW r, r = run.stm, NEW s \in Names, Ready(s), NEW env \in Instances(s)
  PROVE  /\ Past(s, env) \/ Seen(s, env) => Past(s, env)'
         /\ Past(s, env)' /\ StepIs(s, env) => Past(s, env) \/ Seen(s, env)
<1>1. Running /\ UNCHANGED <<prog, reach, step>>
  BY DEF Finish, Running
<1>2. /\ prog \in Programs /\ r \in Names /\ Ready(r) /\ InstRight(r) /\ PathRight(run) /\ InstRight(s)
  BY <1>1, RunningRight DEF IInv, IdxRight
<1>3. ASSUME NEW l \in PosLevels(s)
      PROVE  /\ Len(Entries(s, l)) \in Nat /\ Finished(s, l) \in Nat /\ Finished(s, l) <= Len(Entries(s, l))
             /\ \A p \in 1 .. Len(Entries(s, l)) : Entries(s, l)'[p] = Entries(s, l)[p]
             /\ Finished(s, l)' = IF s = r THEN Len(Entries(s, l)) ELSE Finished(s, l)
  <2>1. IndexRight(s, l)
    BY <1>2 DEF InstRight
  <2>2. Finished(s, l) \in Nat /\ Finished(s, l) <= Len(Entries(s, l))
    BY <2>1 DEF IndexRight, Finished
  <2>3. /\ Len(Entries(s, l)) \in Nat
        /\ \A p \in 1 .. Len(Entries(s, l)) : Entries(s, l)'[p] = Entries(s, l)[p]
        /\ Finished(s, l)' = IF s = r THEN Len(Entries(s, l)) ELSE Finished(s, l)
    BY <1>1, <1>2, FinishIndex
  <2> QED
    BY <2>2, <2>3
<1>4. ASSUME NEW l \in IncLevels(s)
      PROVE  /\ Finished(s, l)' = IF s = r THEN step ELSE Finished(s, l)
             /\ Finished(s, l) \in 0 .. step
  <2>1. Finished(s, l)' = IF s = r THEN step ELSE Finished(s, l)
    BY <1>2, FinishFields DEF Finished
  <2>2. Finished(s, l) \in 0 .. step
    BY <1>2 DEF InstRight, Finished
  <2> QED
    BY <2>1, <2>2
<1>5. idx'[s][1].finished <=> s = r \/ idx[s][1].finished
  BY <1>2, FinishFields
<1>6. Past(s, env)' <=>
          /\ idx'[s][1].finished
          /\ \A l \in PosLevels(s) : \E p \in 1 .. Finished(s, l)' : Entries(s, l)'[p] = TupleAt(s, l, env)
          /\ \A l \in IncLevels(s) : env[StepVar(s, l)] <= Finished(s, l)'
  BY <1>1, SameProg DEF Past
<1>7. ASSUME NEW l \in IncLevels(s) PROVE env[StepVar(s, l)] \in Nat
  <2>1. BodyRight(s)
    BY <1>2, RuleRight
  <2>2. StepVar(s, l) \in VarsIn(s)
    BY <2>1 DEF BodyRight, IncLevels
  <2> QED
    BY <2>2, GroundingAssumption DEF Instances
<1>8. step \in Nat
  BY GroundingAssumption DEF IInv, ProgramRight
<1>9. ASSUME Past(s, env) PROVE Past(s, env)'
  <2>1. ASSUME NEW l \in PosLevels(s) PROVE \E p \in 1 .. Finished(s, l)' : Entries(s, l)'[p] = TupleAt(s, l, env)
    <3>1. PICK p \in 1 .. Finished(s, l) : Entries(s, l)[p] = TupleAt(s, l, env)
      BY <1>9 DEF Past
    <3>2. p \in 1 .. Len(Entries(s, l)) /\ p \in 1 .. Finished(s, l)'
      BY <1>3
    <3> QED
      BY <1>3, <3>1, <3>2
  <2>2. ASSUME NEW l \in IncLevels(s) PROVE env[StepVar(s, l)] <= Finished(s, l)'
    BY <1>4, <1>7, <1>8, <1>9 DEF Past
  <2>3. idx'[s][1].finished
    BY <1>5, <1>9 DEF Past
  <2> QED
    BY <1>6, <2>1, <2>2, <2>3
<1>10. ASSUME Seen(s, env) PROVE Past(s, env)'
  <2>1. s = r /\ InEntries(s, env) /\ StepIs(s, env)
    BY <1>10 DEF Seen
  <2>2. ASSUME NEW l \in PosLevels(s) PROVE \E p \in 1 .. Finished(s, l)' : Entries(s, l)'[p] = TupleAt(s, l, env)
    <3>1. PICK p \in 1 .. Len(Entries(s, l)) : Entries(s, l)[p] = TupleAt(s, l, env)
      BY <2>1 DEF InEntries
    <3> QED
      BY <1>3, <2>1, <3>1
  <2>3. ASSUME NEW l \in IncLevels(s) PROVE env[StepVar(s, l)] <= Finished(s, l)'
    BY <1>4, <1>8, <2>1 DEF StepIs
  <2> QED
    BY <1>5, <1>6, <2>1, <2>2, <2>3
<1>11. ASSUME Past(s, env)', StepIs(s, env), s # r PROVE Past(s, env)
  <2>1. ASSUME NEW l \in PosLevels(s) PROVE \E p \in 1 .. Finished(s, l) : Entries(s, l)[p] = TupleAt(s, l, env)
    <3>1. PICK p \in 1 .. Finished(s, l)' : Entries(s, l)'[p] = TupleAt(s, l, env)
      BY <1>6, <1>11
    <3>2. p \in 1 .. Finished(s, l) /\ p \in 1 .. Len(Entries(s, l))
      BY <1>3, <1>11
    <3> QED
      BY <1>3, <3>1, <3>2
  <2>2. idx[s][1].finished /\ \A l \in IncLevels(s) : env[StepVar(s, l)] <= Finished(s, l)
    BY <1>4, <1>5, <1>6, <1>11
  <2> QED
    BY <2>1, <2>2 DEF Past
<1>12. ASSUME Past(s, env)', StepIs(s, env), s = r PROVE Past(s, env) \/ Seen(s, env)
  <2>1. InEntries(s, env)
    <3>1. ASSUME NEW l \in PosLevels(s) PROVE \E p \in 1 .. Len(Entries(s, l)) : Entries(s, l)[p] = TupleAt(s, l, env)
      <4>1. PICK p \in 1 .. Len(Entries(s, l)) : Entries(s, l)'[p] = TupleAt(s, l, env)
        BY <1>3, <1>6, <1>12
      <4> QED
        BY <1>3, <4>1
    <3> QED
      BY <3>1 DEF InEntries
  <2>2. Depth(run) = 0 /\ (~run.matched \/ (run.numNew = 0 /\ run.l = run.lastNew))
    BY DEF Finish, GoesBack, BackTo, Depth
  <2>3. Joins(r, run.cur, Depth(run), env)
    BY <2>2 DEF Joins
  <2>4. CASE run.matched
    BY <1>2, <1>12, <2>1, <2>2, <2>3, <2>4, AllOld
  <2>5. CASE ~run.matched
    BY <1>1, <1>12, <2>1, <2>3, <2>5 DEF Seen, Behind
  <2> QED
    BY <2>4, <2>5
<1> QED
  BY <1>9, <1>10, <1>11, <1>12

LEMMA FinishStep ==
  ASSUME IInv, Finish
  PROVE  IInv'
<1>1. Running /\ UNCHANGED <<prog, reach, comps, done, step, dom, fact, grounded>> /\ run' = NoRun
  BY DEF Finish, Running
<1>2. PICK r : r = run.stm
  OBVIOUS
<1>3. /\ prog \in Programs /\ r \in Names /\ r \in done /\ r \in Current /\ Ready(r) /\ Active(r)
      /\ reach = Reach
  <2>1. Active(r)
    BY <1>1, <1>2 DEF Active
  <2> QED
    BY <1>1, <1>2, <2>1, RunningRight DEF IInv, ProgramRight
<1>4. ~Running' /\ Current' = Current
  BY <1>1 DEF Running, NoRun, Current
<1>5. /\ DOMAIN idx' = Names
      /\ \A s \in Names : Ready(s)' <=> Ready(s)
      /\ \A s \in Names : Ready(s) => DOMAIN idx'[s] = Levels(s)
  BY <1>2, <1>3, FinishIdx
<1>6. ProgramRight' /\ OrderRight'
  BY <1>1, <1>5, SameOrder DEF IInv
<1>7. DomRight'
  BY <1>1, SameProg DEF IInv, DomRight, IsInjective
<1>8. ASSUME NEW s \in Names, Ready(s), NEW l \in PosLevels(s)
      PROVE  /\ IndexRight(s, l)'
             /\ Len(Entries(s, l)) \in Nat /\ Len(Entries(s, l)') \in Nat /\ Len(Entries(s, l)) <= Len(Entries(s, l)')
             /\ \A p \in 1 .. Len(Entries(s, l)) : Entries(s, l)'[p] = Entries(s, l)[p]
             /\ Finished(s, l)' = IF s = r THEN Len(Entries(s, l)) ELSE Finished(s, l)
             /\ \A p \in Len(Entries(s, l)) + 1 .. Len(Entries(s, l)') :
                    Passed(s, l) /\ \E q \in startNew[r] .. Len(dom[PredAt(s, l)]) : Entries(s, l)'[p] = dom[PredAt(s, l)][q]
             /\ Scanned(s, l)' = IF Passed(s, l) THEN Len(dom[PredAt(s, l)]) ELSE Scanned(s, l)
  BY <1>1, <1>2, <1>3, <1>8, FinishIndex
<1>9. IdxRight'
  <2>1. ASSUME NEW s \in Names, Ready(s) PROVE InstRight(s)'
    <3>1. idx'[s][1] \in [finished : BOOLEAN] /\ \A l \in IncLevels(s) : idx'[s][l] \in [finished : 0 .. step]
      BY <1>2, <1>3, <2>1, FinishFields
    <3> QED
      BY <1>1, <1>5, <1>8, <2>1, <3>1, SameProg DEF InstRight
  <2> QED
    BY <1>1, <1>5, <2>1, SameProg DEF IdxRight
<1>10. StartRight'
  <2>1. startNew' = [startNew EXCEPT ![r] = 0]
    BY <1>2 DEF Finish
  <2>2. \A s \in Names : startNew'[s] = 0
    BY <1>2, <1>3, <2>1 DEF IInv, StartRight
  <2>3. startNew' \in [Names -> Nat]
    BY <2>1 DEF IInv, StartRight
  <2> QED
    BY <1>1, <2>2, <2>3, SameProg DEF StartRight
<1>11. /\ queue' \in Seq(Names)
       /\ \A s \in Names : Active(s)' <=> (\E i \in DOMAIN queue : queue[i] = s) \/ Woken(s)
  BY <1>2, <1>3, <1>4, FinishQueue DEF Active
<1>12. ASSUME NEW s \in Names, Active(s)'
       PROVE  s \in done /\ s \in Current /\ \A t \in done : s \in reach[t] => t \in Component(s)
  <2>1. CASE \E i \in DOMAIN queue : queue[i] = s
    BY <2>1 DEF Active, IInv, ActiveRight
  <2>2. CASE Woken(s)
    <3>1. s \in Component(r) /\ s \in done /\ s \in Current
      BY <1>1, <1>2, <2>2, PassedRight DEF Woken
    <3>2. Component(s) = Component(r) /\ r \in Component(s)
      BY <1>3, <3>1, ComponentRight
    <3>3. ASSUME NEW t \in done, s \in reach[t] PROVE t \in Component(s)
      <4>1. t \in Names
        BY DEF IInv, OrderRight
      <4>2. CASE t = r
        BY <3>2, <4>2
      <4>3. CASE t # r
        <5>1. r \in reach[t]
          <6>1. s \in reach[t] /\ t # r => r \in reach[t] \/ s = r
            BY <1>3, <3>1, <4>1, ComponentRight
          <6> QED
            BY <3>3, <4>3, <6>1
        <5>2. t \in Component(r)
          BY <1>3, <5>1 DEF IInv, ActiveRight
        <5> QED
          BY <3>2, <5>2
      <4> QED
        BY <4>2, <4>3
    <3> QED
      BY <3>1, <3>3
  <2> QED
    BY <1>11, <1>12, <2>1, <2>2
<1>13. ActiveRight'
  BY <1>1, <1>4, <1>11, <1>12, SameProg DEF ActiveRight
<1>14. ASSUME NEW s \in done, ~Active(s)', NEW l \in Levels(s), NewLevel(s, l)' PROVE FALSE
  <2>1. s \in Names /\ Ready(s)
    BY DEF IInv, OrderRight
  <2>2. ~Woken(s) /\ ~\E i \in DOMAIN queue : queue[i] = s
    BY <1>11, <1>14, <2>1
  <2>3. s # r => ~NewLevel(s, l)
    BY <1>1, <1>2, <1>14, <2>2 DEF IInv, QuietRight, Active
  <2>4. CASE l = 1 /\ ~idx'[s][1].finished
    <3>1. s # r /\ ~idx[s][1].finished
      BY <1>2, <1>3, <2>1, <2>4, FinishFields
    <3> QED
      BY <2>3, <2>4, <3>1 DEF NewLevel, NewIn
  <2>5. CASE l \in PosLevels(s) /\ \E p \in Finished(s, l)' + 1 .. Len(Entries(s, l)') : Fits(s, l, Entries(s, l)'[p])
    <3>1. PICK p \in Finished(s, l)' + 1 .. Len(Entries(s, l)') : Fits(s, l, Entries(s, l)'[p])
      BY <2>5
    <3>2. Finished(s, l) \in Nat /\ Len(Entries(s, l)) \in Nat /\ Finished(s, l) <= Len(Entries(s, l))
      BY <1>8, <2>1, <2>5 DEF IInv, IdxRight, InstRight, IndexRight, Finished
    <3>3. CASE p \in Len(Entries(s, l)) + 1 .. Len(Entries(s, l)')
      <4>1. PICK q \in startNew[r] .. Len(dom[PredAt(s, l)]) : Entries(s, l)'[p] = dom[PredAt(s, l)][q]
        BY <1>8, <2>1, <2>5, <3>3
      <4>2. Passed(s, l)
        BY <1>8, <2>1, <2>5, <3>3
      <4>3. startNew[r] \in Nat /\ startNew[r] # 0
        BY <1>1, <1>2, <2>1, <4>2, PassedRight DEF Passed
      <4>4. dom[PredAt(s, l)][q] \in Tuples(PredAt(s, l))
        <5>1. BodyRight(s)
          BY <1>3, <2>1, RuleRight
        <5>2. PredAt(s, l) \in DOMAIN prog.arity
          BY <2>5, <5>1 DEF BodyRight
        <5>3. dom[PredAt(s, l)] \in Seq(Tuples(PredAt(s, l)))
          BY <5>2 DEF IInv, DomRight
        <5>4. q \in 1 .. Len(dom[PredAt(s, l)])
          BY <4>1, <4>3
        <5> QED
          BY <5>3, <5>4
      <4>5. Unifies(Lit(s, l), dom[PredAt(s, l)][q])
        BY <1>3, <2>1, <2>5, <3>1, <4>1, <4>4, FitsUnifies
      <4>6. Woken(s)
        BY <1>2, <2>5, <4>2, <4>5 DEF Woken
      <4> QED
        BY <2>2, <4>6
    <3>4. CASE p \in 1 .. Len(Entries(s, l))
      <4>1. s # r
        BY <1>8, <2>1, <2>5, <3>2, <3>4
      <4>2. p \in Finished(s, l) + 1 .. Len(Entries(s, l)) /\ Fits(s, l, Entries(s, l)[p])
        BY <1>8, <2>1, <2>5, <3>1, <3>2, <3>4, <4>1
      <4>3. NewLevel(s, l)
        BY <2>5, <4>2 DEF NewLevel, NewIn, Entries, Finished
      <4> QED
        BY <2>3, <4>1, <4>3
    <3> QED
      BY <1>8, <2>1, <2>5, <3>2, <3>3, <3>4
  <2>6. CASE l \in IncLevels(s) /\ idx'[s][l].finished # step
    <3>1. s # r /\ idx[s][l].finished # step
      BY <1>2, <1>3, <2>1, <2>6, FinishFields
    <3> QED
      BY <2>3, <2>6, <3>1 DEF NewLevel, NewIn
  <2> QED
    BY <1>1, <1>14, <2>4, <2>5, <2>6, SameProg DEF NewLevel, NewIn, Entries, Finished
<1>15. QuietRight'
  BY <1>1, <1>14, SameProg DEF QuietRight
<1>16. CoveredRight'
  <2>1. ASSUME NEW s PROVE Overtaken(s)' <=> Overtaken(s)
    BY <1>1, SameProg DEF Overtaken
  <2>2. ASSUME NEW s \in done, ~Overtaken(s), NEW l \in PosLevels(s),
               NEW q \in Scanned(s, l)' + 1 .. Len(dom[PredAt(s, l)]), Fits(s, l, dom[PredAt(s, l)][q])
        PROVE  FALSE
    <3>1. s \in Names /\ Ready(s)
      BY DEF IInv, OrderRight
    <3>2. Scanned(s, l)' = IF Passed(s, l) THEN Len(dom[PredAt(s, l)]) ELSE Scanned(s, l)
      BY <1>8, <3>1
    <3>3. CASE Passed(s, l)
      <4>1. Len(dom[PredAt(s, l)]) \in Nat
        <5>1. BodyRight(s)
          BY <1>3, <3>1, RuleRight
        <5>2. PredAt(s, l) \in DOMAIN prog.arity
          BY <5>1 DEF BodyRight
        <5> QED
          BY <5>2 DEF IInv, DomRight
      <4> QED
        BY <2>2, <3>2, <3>3, <4>1
    <3>4. CASE ~Passed(s, l)
      <4>1. Waiting(s, l, q)
        BY <2>2, <3>2, <3>4 DEF IInv, CoveredRight
      <4> QED
        BY <1>2, <3>1, <3>4, <4>1 DEF Waiting, Passed
    <3> QED
      BY <3>3, <3>4
  <2>3. ASSUME NEW s, NEW l, NEW q PROVE Fits(s, l, dom[PredAt(s, l)][q])' <=> Fits(s, l, dom[PredAt(s, l)][q])
    BY <1>1, SameProg DEF Fits
  <2> QED
    BY <1>1, <2>1, <2>2, <2>3, SameProg DEF CoveredRight
<1>17. RunRight'
  BY <1>4 DEF RunRight
<1>18. TwiceRight'
  <2>1. ASSUME NEW i \in DOMAIN grounded PROVE Ready(grounded[i][1])' /\ Past(grounded[i][1], grounded[i][2])'
    <3>1. PICK s : s = grounded[i][1]
      OBVIOUS
    <3>2. PICK env : env = grounded[i][2]
      OBVIOUS
    <3>3. Ready(s) /\ (Past(s, env) \/ Seen(s, env)) /\ s \in Names /\ env \in Instances(s)
      BY <3>1, <3>2 DEF IInv, TwiceRight
    <3>4. Ready(s)' /\ Past(s, env)'
      BY <1>2, <1>5, <3>3, FinishPast
    <3> QED
      BY <1>1, <3>1, <3>2, <3>4
  <2>2. (UNION {{s} \X Instances(s) : s \in Names})' = UNION {{s} \X Instances(s) : s \in Names}
    BY <1>1, SameProg
  <2> QED
    BY <1>1, <2>1, <2>2 DEF IInv, TwiceRight
<1>19. MissedRight'
  <2>1. ASSUME NEW s, NEW env
        PROVE  /\ ~Seen(s, env)' /\ (Unblocked(s, env)' <=> Unblocked(s, env)) /\ (StepIs(s, env)' <=> StepIs(s, env))
    BY <1>1, <1>4, SameProg DEF Seen, Unblocked, StepIs, Atom, Apply, Value, IsVar
  <2>2. SUFFICES ASSUME NEW s \in Names, Ready(s), NEW env \in Instances(s), StepIs(s, env), Unblocked(s, env), Past(s, env)'
                 PROVE  \E i \in DOMAIN grounded : grounded[i] = <<s, env>>
    BY <1>1, <1>5, <2>1, SameProg DEF MissedRight
  <2>3. Past(s, env) \/ Seen(s, env)
    BY <1>2, <2>2, FinishPast
  <2> QED
    BY <2>2, <2>3 DEF IInv, MissedRight
<1>20. IsInjective(grounded)'
  BY <1>1 DEF IInv, IsInjective
<1> QED
  BY <1>6, <1>7, <1>9, <1>10, <1>13, <1>15, <1>16, <1>17, <1>18, <1>19, <1>20 DEF IInv

------------------------------------------------------------------------------
LEMMA OrdersRight ==
  ASSUME prog \in Programs, reach = Reach, NEW S \in SUBSET Names, NEW o \in Orders(S)
  PROVE  /\ o \in Seq(SUBSET Names)
         /\ \A i \in 1 .. Len(o) : \E s \in S : o[i] = Component(s)
         /\ \A i, j \in 1 .. Len(o) : i < j => \A s \in o[i] : reach[s] \cap o[j] = {}
<1>1. PICK C : C = {Component(s) : s \in S}
  OBVIOUS
<1>2. C \subseteq SUBSET Names
  BY <1>1, ComponentRight
<1>3. IsFiniteSet(C)
  <2>1. IsFiniteSet(SUBSET Names)
    BY ProgramOf, FS_SUBSET
  <2> QED
    BY <1>2, <2>1, FS_Subset
<1>4. o \in SetToSeqs(C) /\ \A i, j \in DOMAIN o : i < j => \A s \in o[i] : reach[s] \cap o[j] = {}
  BY <1>1 DEF Orders
<1>5. o \in Seq(C)
  BY <1>3, <1>4, OrderOf
<1>6. o \in Seq(SUBSET Names) /\ DOMAIN o = 1 .. Len(o)
  BY <1>2, <1>5
<1>7. \A i \in 1 .. Len(o) : o[i] \in C
  BY <1>5
<1> QED
  BY <1>1, <1>4, <1>6, <1>7

LEMMA InitStep ==
  ASSUME Init
  PROVE  IInv
<1>1. /\ prog \in Programs /\ reach = Reach /\ step = 0 /\ done = {} /\ queue = <<>> /\ run = NoRun
      /\ dom = prog.facts /\ grounded = <<>> /\ idx = [r \in Names |-> NoIndex]
      /\ startNew = [r \in Names |-> 0] /\ comps \in Orders(prog.base)
  BY DEF Init
<1>2. ProgramRight
  BY <1>1, GroundingAssumption DEF ProgramRight
<1>3. DomRight
  BY <1>1, ProgramOf DEF DomRight
<1>4. ~Running /\ (\A r : ~Active(r)) /\ (\A r \in Names : ~Ready(r)) /\ Current = prog.base
  BY <1>1 DEF Running, Active, Ready, Current
<1>5. IdxRight
  BY <1>1, <1>4 DEF IdxRight
<1>6. StartRight
  BY <1>1 DEF StartRight
<1>7. OrderRight
  <2>1. prog.base \in SUBSET Names
    BY <1>1, ProgramOf
  <2>2. /\ comps \in Seq(SUBSET Names)
        /\ \A i \in 1 .. Len(comps) : \E s \in Current : comps[i] = Component(s)
        /\ \A i, j \in 1 .. Len(comps) : i < j => \A s \in comps[i] : reach[s] \cap comps[j] = {}
    BY <1>1, <1>4, <2>1, OrdersRight
  <2> QED
    BY <1>1, <2>2 DEF OrderRight
<1>8. ActiveRight
  BY <1>1, <1>4 DEF ActiveRight
<1>9. QuietRight /\ CoveredRight
  BY <1>1 DEF QuietRight, CoveredRight
<1>10. RunRight
  BY <1>4 DEF RunRight
<1>11. TwiceRight /\ IsInjective(grounded)
  <2>1. DOMAIN grounded = {} /\ grounded \in Seq(UNION {{r} \X Instances(r) : r \in Names})
    BY <1>1
  <2> QED
    BY <2>1 DEF TwiceRight, IsInjective
<1>12. MissedRight
  BY <1>4 DEF MissedRight
<1> QED
  BY <1>2, <1>3, <1>5, <1>6, <1>7, <1>8, <1>9, <1>10, <1>11, <1>12 DEF IInv

(* StartStep: the base is never new again, and the cumulative part has     *)
(* not seen the step.                                                      *)
LEMMA StartStepStep ==
  ASSUME IInv, StartStep
  PROVE  IInv'
<1>1. /\ run = NoRun /\ queue = <<>> /\ comps = <<>> /\ step < MaxStep
      /\ step' = step + 1 /\ comps' \in Orders(prog.cumulative) /\ done' = done \ prog.cumulative
      /\ UNCHANGED <<prog, reach, dom, fact, idx, queue, startNew, run, grounded, printed>>
  BY DEF StartStep
<1>2. /\ prog \in Programs /\ reach = Reach /\ step \in Nat /\ MaxStep \in Nat
      /\ prog.base \cup prog.cumulative = Names /\ prog.base \cap prog.cumulative = {}
  BY GroundingAssumption, ProgramOf DEF IInv, ProgramRight
<1>3. /\ ~Running /\ ~Running' /\ (\A r : ~Active(r)) /\ (\A r : ~Active(r)')
      /\ Current' = prog.cumulative
  BY <1>1, <1>2 DEF Running, NoRun, Active, Current
<1>4. done' \subseteq prog.base /\ done' \subseteq done
  BY <1>1, <1>2 DEF IInv, OrderRight
<1>5. ProgramRight'
  <2>1. Reach' = Reach
    BY <1>1 DEF Reach, DependsOn, Provides, ModuleOf, Names, HeadOf, Body
  <2>2. step' \in 0 .. MaxStep
    BY <1>1, <1>2
  <2> QED
    BY <1>1, <1>2, <2>1, <2>2 DEF ProgramRight
<1>6. DomRight'
  BY <1>1, SameProg DEF IInv, DomRight, IsInjective
<1>7. ASSUME NEW r \in Names PROVE (Ready(r)' <=> Ready(r)) /\ \A l : IndexRight(r, l)' <=> IndexRight(r, l)
  BY <1>1, SameIndex
<1>8. ASSUME NEW r \in Names, Ready(r), NEW l \in IncLevels(r) PROVE idx[r][l] \in [finished : 0 .. step]
  BY <1>8 DEF IInv, IdxRight, InstRight
<1>9. IdxRight'
  <2>1. ASSUME NEW r \in Names, Ready(r) PROVE InstRight(r)'
    <3>1. InstRight(r)
      BY <2>1 DEF IInv, IdxRight
    <3>2. \A l \in IncLevels(r) : idx'[r][l] \in [finished : 0 .. step']
      BY <1>1, <1>2, <1>8, <2>1
    <3>3. /\ DOMAIN idx'[r] = Levels(r) /\ idx'[r][1] \in [finished : BOOLEAN]
          /\ \A l \in PosLevels(r) : IndexRight(r, l)'
      BY <1>1, <1>7, <3>1 DEF InstRight
    <3> QED
      BY <1>1, <3>2, <3>3, SameProg DEF InstRight
  <2> QED
    BY <1>1, <1>7, <2>1, SameProg DEF IInv, IdxRight
<1>10. StartRight'
  <2>1. \A r \in Names : startNew[r] = 0
    BY <1>3, NotRunning
  <2> QED
    BY <1>1, <2>1, SameProg DEF IInv, StartRight
<1>11. OrderRight'
  <2>1. prog.cumulative \in SUBSET Names
    BY <1>2
  <2>2. /\ comps' \in Seq(SUBSET Names)
        /\ \A i \in 1 .. Len(comps') : \E s \in prog.cumulative : comps'[i] = Component(s)
        /\ \A i, j \in 1 .. Len(comps') : i < j => \A s \in comps'[i] : reach[s] \cap comps'[j] = {}
    BY <1>1, <1>2, <2>1, OrdersRight
  <2>3. ASSUME NEW s \in done', NEW j \in 1 .. Len(comps'), NEW r \in reach[s] \cap comps'[j] PROVE FALSE
    <3>1. PICK c \in prog.cumulative : comps'[j] = Component(c)
      BY <2>2
    <3>2. ModuleOf(r) = ModuleOf(c) /\ ModuleOf(r) <= ModuleOf(s)
      <4>1. s \in Names /\ c \in Names
        BY <1>2, <1>4
      <4>2. ModuleOf(r) = ModuleOf(c)
        BY <1>2, <3>1, <4>1, ComponentRight
      <4>3. ModuleOf(r) <= ModuleOf(s)
        BY <1>2, <4>1, ReachModule
      <4> QED
        BY <4>2, <4>3
    <3>3. ModuleOf(c) = 1 /\ ModuleOf(s) = 0
      BY <1>2, <1>4 DEF ModuleOf
    <3> QED
      BY <3>2, <3>3
  <2>4. ASSUME NEW s \in done' PROVE s \in Names /\ Ready(s)' /\ Component(s) \subseteq done'
    <3>1. s \in Names /\ s \in done /\ Ready(s) /\ Component(s) \subseteq done
      BY <1>4 DEF IInv, OrderRight
    <3>2. ASSUME NEW r \in Component(s) PROVE r \in prog.base
      <4>1. r \in Names /\ ModuleOf(r) = ModuleOf(s)
        BY <1>2, <3>1, ComponentRight
      <4> QED
        BY <1>2, <1>4, <4>1 DEF ModuleOf
    <3> QED
      BY <1>1, <1>2, <1>7, <3>1, <3>2
  <2> QED
    BY <1>1, <1>3, <2>2, <2>3, <2>4, SameProg DEF OrderRight
<1>12. ActiveRight'
  BY <1>1, <1>3, SameProg DEF IInv, ActiveRight
<1>13. QuietRight'
  <2>1. ASSUME NEW r \in done', NEW l \in Levels(r) PROVE ~NewLevel(r, l)'
    <3>1. ~NewLevel(r, l)
      BY <1>3, <1>4 DEF IInv, QuietRight
    <3>2. r \in Names /\ r \notin prog.cumulative
      BY <1>2, <1>4
    <3>3. BodyRight(r)
      BY <1>2, <3>2, RuleRight
    <3>4. l \notin IncLevels(r)
      BY <3>2, <3>3 DEF BodyRight
    <3> QED
      BY <1>1, <3>1, <3>4, SameProg DEF NewLevel, NewIn
  <2> QED
    BY <1>1, <2>1, SameProg DEF QuietRight
<1>14. ASSUME NEW s, ~Overtaken(s)' PROVE ~Overtaken(s)
  <2>1. ASSUME NEW h, NEW lit PROVE Compatible(h, lit)' <=> Compatible(h, lit)
    BY DEF Compatible, Unifies, Value, IsVar, Binding, VarsOf, ToSet
  <2> QED
    BY <1>1, <1>2, <1>14, <2>1, SameProg DEF Overtaken
<1>15. CoveredRight'
  <2>1. ASSUME NEW s \in done', ~Overtaken(s)', NEW l \in PosLevels(s),
               NEW q \in Scanned(s, l) + 1 .. Len(dom[PredAt(s, l)]), Fits(s, l, dom[PredAt(s, l)][q])
        PROVE  FALSE
    BY <1>3, <1>4, <1>14, <2>1, NotRunning
  <2>2. ASSUME NEW s, NEW l
        PROVE  /\ Scanned(s, l)' = Scanned(s, l)
               /\ \A q : Fits(s, l, dom[PredAt(s, l)][q])' <=> Fits(s, l, dom[PredAt(s, l)][q])
    BY <1>1, SameProg DEF Scanned, Fits
  <2> QED
    BY <1>1, <2>1, <2>2, SameProg DEF CoveredRight
<1>16. RunRight'
  BY <1>3 DEF RunRight
<1>17. ASSUME NEW r, NEW env PROVE Past(r, env)' <=> Past(r, env)
  BY <1>1, SameProg DEF Past, Entries, Finished
<1>18. TwiceRight'
  <2>1. ASSUME NEW i \in DOMAIN grounded PROVE Ready(grounded[i][1])' /\ Past(grounded[i][1], grounded[i][2])'
    <3>1. PICK s : s = grounded[i][1]
      OBVIOUS
    <3>2. PICK env : env = grounded[i][2]
      OBVIOUS
    <3>3. Ready(s) /\ Past(s, env)
      BY <1>3, <3>1, <3>2, NotRunning DEF IInv, TwiceRight
    <3>4. Ready(s)' /\ Past(s, env)'
      BY <1>1, <1>17, <3>3 DEF Ready, NoIndex
    <3> QED
      BY <1>1, <3>1, <3>2, <3>4
  <2>2. (UNION {{s} \X Instances(s) : s \in Names})' = UNION {{s} \X Instances(s) : s \in Names}
    BY <1>1, SameProg
  <2> QED
    BY <1>1, <2>1, <2>2 DEF IInv, TwiceRight
<1>19. MissedRight'
  <2>1. ASSUME NEW s, NEW env PROVE ~Seen(s, env)' /\ (Unblocked(s, env)' <=> Unblocked(s, env))
    BY <1>1, <1>3, SameProg DEF Seen, Unblocked, Atom, Apply, Value, IsVar
  <2>2. SUFFICES ASSUME NEW s \in Names, Ready(s), NEW env \in Instances(s),
                        StepIs(s, env)', Unblocked(s, env), Past(s, env)
                 PROVE  \E i \in DOMAIN grounded : grounded[i] = <<s, env>>
    BY <1>1, <1>7, <1>17, <2>1, SameProg DEF MissedRight
  <2>3. IncLevels(s) = {}
    <3>1. SUFFICES ASSUME NEW l \in IncLevels(s) PROVE FALSE
      OBVIOUS
    <3>2. env[StepVar(s, l)] = step + 1
      BY <1>1, <2>2, SameProg DEF StepIs
    <3>3. env[StepVar(s, l)] <= Finished(s, l)
      BY <2>2 DEF Past
    <3>4. Finished(s, l) \in 0 .. step
      BY <1>8, <2>2 DEF Finished
    <3> QED
      BY <1>2, <3>2, <3>3, <3>4
  <2>4. StepIs(s, env)
    BY <2>3 DEF StepIs
  <2> QED
    BY <2>2, <2>4 DEF IInv, MissedRight
<1>20. IsInjective(grounded)'
  BY <1>1 DEF IInv, IsInjective
<1> QED
  BY <1>5, <1>6, <1>9, <1>10, <1>11, <1>12, <1>13, <1>15, <1>16, <1>18, <1>19, <1>20 DEF IInv

------------------------------------------------------------------------------
(* StartComponent: the literals of the component are shown what is in the  *)
(* domains; Opened is the index before that.                               *)
Opened(r, l) == IF Ready(r) THEN idx[r][l] ELSE NewInst(r)[l]

LEMMA StartComps ==
  ASSUME IInv, StartComponent, NEW H, H = Head(comps)
  PROVE  /\ H \subseteq Names
         /\ \E c \in Names : /\ c \in Current /\ H = Component(c)
                             /\ \A r \in H : r \in Current /\ Component(r) = H
         /\ \A t \in done : reach[t] \cap H = {}
         /\ comps' \in Seq(SUBSET Names) /\ Len(comps') + 1 = Len(comps) /\ Len(comps') \in Nat
         /\ \A i \in 1 .. Len(comps') : i + 1 \in 1 .. Len(comps) /\ comps'[i] = comps[i + 1]
         /\ \A i \in 1 .. Len(comps') : \A s \in H : reach[s] \cap comps'[i] = {}
<1>1. /\ comps # <<>> /\ comps' = Tail(comps) /\ comps \in Seq(SUBSET Names)
      /\ \A i \in 1 .. Len(comps) : \E s \in Current : comps[i] = Component(s)
      /\ \A i, j \in 1 .. Len(comps) : i < j => \A s \in comps[i] : reach[s] \cap comps[j] = {}
      /\ \A s \in done : \A j \in 1 .. Len(comps) : reach[s] \cap comps[j] = {}
  BY DEF IInv, OrderRight, StartComponent
<1>2. prog \in Programs /\ reach = Reach
  BY DEF IInv, ProgramRight
<1>3. H = comps[1] /\ 1 \in 1 .. Len(comps) /\ H \subseteq Names
  BY <1>1
<1>4. /\ comps' \in Seq(SUBSET Names) /\ Len(comps') + 1 = Len(comps) /\ Len(comps') \in Nat
      /\ \A i \in 1 .. Len(comps') : i + 1 \in 1 .. Len(comps) /\ comps'[i] = comps[i + 1]
  BY <1>1
<1>5. PICK c \in Current : H = Component(c)
  BY <1>1, <1>3
<1>6. c \in Names
  BY <1>2, ProgramOf DEF Current
<1>7. ASSUME NEW r \in H PROVE r \in Current /\ Component(r) = H
  BY <1>2, <1>5, <1>6, ComponentRight, ModuleCurrent
<1>8. \A t \in done : reach[t] \cap H = {}
  BY <1>1, <1>3
<1>9. ASSUME NEW i \in 1 .. Len(comps'), NEW s \in H PROVE reach[s] \cap comps'[i] = {}
  <2>1. 1 < i + 1 /\ i + 1 \in 1 .. Len(comps) /\ comps'[i] = comps[i + 1]
    BY <1>4
  <2> QED
    BY <1>1, <1>3, <2>1
<1> QED
  BY <1>3, <1>4, <1>5, <1>6, <1>7, <1>8, <1>9

LEMMA StartIdx ==
  ASSUME IInv, StartComponent
  PROVE  /\ DOMAIN idx' = Names
         /\ \A r \in Names : r \notin Head(comps) => idx'[r] = idx[r]
         /\ \A r \in Head(comps) :
                /\ Ready(r)' /\ idx'[r] = InitInst(r) /\ DOMAIN idx'[r] = Levels(r)
                /\ idx'[r][1] = Opened(r, 1)
                /\ \A l \in IncLevels(r) : idx'[r][l] = Opened(r, l)
                /\ \A l \in PosLevels(r) : idx'[r][l] = Extended(Opened(r, l), Lit(r, l), Opened(r, l).lastExtend)
<1>1. Head(comps) \subseteq Names /\ prog \in Programs
  BY StartComps DEF IInv, ProgramRight
<1>2. idx' = [r \in Names |-> IF r \in Head(comps) THEN InitInst(r) ELSE idx[r]]
  BY DEF StartComponent
<1>3. ASSUME NEW r \in Head(comps)
      PROVE  /\ Ready(r)' /\ idx'[r] = InitInst(r) /\ DOMAIN idx'[r] = Levels(r)
             /\ idx'[r][1] = Opened(r, 1)
             /\ \A l \in IncLevels(r) : idx'[r][l] = Opened(r, l)
             /\ \A l \in PosLevels(r) : idx'[r][l] = Extended(Opened(r, l), Lit(r, l), Opened(r, l).lastExtend)
  <2>1. BodyRight(r)
    BY <1>1, RuleRight
  <2>2. 1 \in Levels(r) /\ \A l \in PosLevels(r) \cup IncLevels(r) : l \in Levels(r) /\ l # 1
    BY <2>1 DEF Levels, PosLevels, IncLevels, BodyRight
  <2>3. idx'[r] = InitInst(r)
    BY <1>1, <1>2
  <2>4. PICK inst : inst = IF idx[r] = NoIndex THEN NewInst(r) ELSE idx[r]
    OBVIOUS
  <2>5. \A l : inst[l] = Opened(r, l)
    BY <2>4 DEF Opened, Ready
  <2>6. InitInst(r) = [l \in Levels(r) |-> IF l = 1 THEN inst[1] ELSE InitIndex(inst[l], Lit(r, l))]
    BY <2>4 DEF InitInst
  <2>7. DOMAIN idx'[r] = Levels(r) /\ idx'[r][1] = inst[1]
    BY <2>2, <2>3, <2>6
  <2>8. ASSUME NEW l \in IncLevels(r) PROVE idx'[r][l] = inst[l]
    <3>1. idx'[r][l] = InitIndex(inst[l], Lit(r, l))
      BY <2>2, <2>3, <2>6
    <3>2. Lit(r, l).kind = "inc"
      BY DEF IncLevels
    <3> QED
      BY <3>1, <3>2 DEF InitIndex
  <2>9. ASSUME NEW l \in PosLevels(r) PROVE idx'[r][l] = Extended(inst[l], Lit(r, l), inst[l].lastExtend)
    <3>1. idx'[r][l] = InitIndex(inst[l], Lit(r, l))
      BY <2>2, <2>3, <2>6
    <3>2. Lit(r, l).kind = "pos"
      BY DEF PosLevels
    <3> QED
      BY <3>1, <3>2 DEF InitIndex
  <2>10. Ready(r)'
    <3>1. Len(Body(r)) \in Nat
      BY <2>1 DEF BodyRight
    <3>2. PICK f : f = idx'[r] /\ DOMAIN f = Levels(r)
      BY <2>7
    <3>3. f # NoIndex
      BY <3>1, <3>2, NotNoIndex
    <3> QED
      BY <3>2, <3>3 DEF Ready, NoIndex
  <2> QED
    BY <2>3, <2>5, <2>7, <2>8, <2>9, <2>10
<1> QED
  BY <1>1, <1>2, <1>3

OpenedIndex(r, l) ==
    LET d == dom[PredAt(r, l)]
        o == Opened(r, l)
    IN /\ o \in [entries : Seq(Tuples(PredAt(r, l))), finished : Nat, lastExtend : Nat]
       /\ o.finished <= Len(o.entries) /\ o.lastExtend <= Len(d)
       /\ IsInjective(o.entries)
       /\ \A p \in 1 .. Len(o.entries) : \E q \in 1 .. o.lastExtend : o.entries[p] = d[q]
       /\ \A q \in 1 .. o.lastExtend : Fits(r, l, d[q]) =>
                \E p \in 1 .. Len(o.entries) : o.entries[p] = d[q]

LEMMA OpenedRight ==
  ASSUME IInv, NEW r \in Names
  PROVE  /\ Opened(r, 1) \in [finished : BOOLEAN]
         /\ Opened(r, 1).finished <=> Ready(r) /\ idx[r][1].finished
         /\ \A l \in IncLevels(r) : Opened(r, l) \in [finished : 0 .. step]
         /\ \A l \in PosLevels(r) : OpenedIndex(r, l)
<1>1. prog \in Programs /\ step \in Nat /\ DomRight
  BY GroundingAssumption DEF IInv, ProgramRight
<1>2. BodyRight(r)
  BY <1>1, RuleRight
<1>3. CASE Ready(r)
  <2>1. InstRight(r) /\ \A l : Opened(r, l) = idx[r][l]
    BY <1>3 DEF IInv, IdxRight, Opened
  <2>2. /\ Opened(r, 1) \in [finished : BOOLEAN]
        /\ Opened(r, 1).finished <=> Ready(r) /\ idx[r][1].finished
        /\ \A l \in IncLevels(r) : Opened(r, l) \in [finished : 0 .. step]
    BY <1>3, <2>1 DEF InstRight
  <2>3. ASSUME NEW l \in PosLevels(r) PROVE OpenedIndex(r, l)
    <3>1. IndexRight(r, l)
      BY <2>1 DEF InstRight
    <3>2. PICK o : o = Opened(r, l) /\ o = idx[r][l]
      BY <2>1
    <3>3. o.entries = Entries(r, l) /\ o.finished = Finished(r, l) /\ o.lastExtend = Scanned(r, l)
      BY <3>2 DEF Entries, Finished, Scanned
    <3>4. IsInjective(o.entries)
      BY <3>1, <3>3 DEF IndexRight
    <3> QED
      BY <3>1, <3>2, <3>3, <3>4 DEF OpenedIndex, IndexRight
  <2> QED
    BY <2>2, <2>3
<1>4. CASE ~Ready(r)
  <2>1. \A l : Opened(r, l) = NewInst(r)[l]
    BY <1>4 DEF Opened
  <2>2. 1 \in Levels(r) /\ \A l \in PosLevels(r) \cup IncLevels(r) : l \in Levels(r) /\ l # 1
    BY <1>2 DEF Levels, PosLevels, IncLevels, BodyRight
  <2>3. Opened(r, 1) = [finished |-> FALSE]
    BY <2>1, <2>2 DEF NewInst
  <2>4. ASSUME NEW l \in IncLevels(r) PROVE Opened(r, l) = [finished |-> 0]
    <3>1. Lit(r, l).kind = "inc"
      BY DEF IncLevels
    <3> QED
      BY <2>1, <2>2, <3>1 DEF NewInst, NewIndex
  <2>5. ASSUME NEW l \in PosLevels(r) PROVE Opened(r, l) = [entries |-> <<>>, finished |-> 0, lastExtend |-> 0]
    <3>1. Lit(r, l).kind = "pos"
      BY DEF PosLevels
    <3> QED
      BY <2>1, <2>2, <3>1 DEF NewInst, NewIndex
  <2>6. ASSUME NEW l \in PosLevels(r) PROVE Len(dom[PredAt(r, l)]) \in Nat
    <3>1. PredAt(r, l) \in DOMAIN prog.arity
      BY <1>2 DEF BodyRight
    <3> QED
      BY <1>1, <3>1 DEF DomRight
  <2>7. IsInjective(<<>>)
    BY DEF IsInjective
  <2>8. ASSUME NEW l \in PosLevels(r) PROVE OpenedIndex(r, l)
    <3>1. PICK o : o = Opened(r, l)
      OBVIOUS
    <3>2. PICK T : T = Tuples(PredAt(r, l))
      OBVIOUS
    <3>3. /\ o = [entries |-> <<>>, finished |-> 0, lastExtend |-> 0] /\ o.entries = <<>>
          /\ o.finished = 0 /\ o.lastExtend = 0 /\ <<>> \in Seq(T)
      BY <2>5, <3>1
    <3>4. o \in [entries : Seq(T), finished : Nat, lastExtend : Nat]
      BY <3>3
    <3>5. Len(o.entries) = 0 /\ IsInjective(o.entries)
      BY <2>7, <3>3
    <3> QED
      BY <2>6, <3>1, <3>2, <3>3, <3>4, <3>5 DEF OpenedIndex
  <2>9. Opened(r, 1) \in [finished : BOOLEAN] /\ ~Opened(r, 1).finished
    <3>1. PICK b \in BOOLEAN : b = FALSE
      OBVIOUS
    <3>2. Opened(r, 1) = [finished |-> b]
      BY <2>3, <3>1, Zenon
    <3>3. Opened(r, 1) \in [finished : BOOLEAN] /\ Opened(r, 1).finished = b
      BY <3>2
    <3> QED
      BY <3>1, <3>3
  <2>10. ASSUME NEW l \in IncLevels(r) PROVE Opened(r, l) \in [finished : 0 .. step]
    BY <1>1, <2>4
  <2> QED
    BY <1>4, <2>8, <2>9, <2>10
<1> QED
  BY <1>3, <1>4

LEMMA StartIndex ==
  ASSUME IInv, StartComponent, NEW r \in Head(comps), NEW l \in PosLevels(r)
  PROVE  /\ IndexRight(r, l)'
         /\ Scanned(r, l)' = Len(dom[PredAt(r, l)])
         /\ Finished(r, l)' = Opened(r, l).finished
         /\ \A p \in 1 .. Finished(r, l)' : Entries(r, l)'[p] = Opened(r, l).entries[p]
<1>1. /\ prog \in Programs /\ r \in Names /\ prog' = prog /\ reach' = reach /\ dom' = dom /\ DomRight
  BY StartComps DEF StartComponent, IInv, ProgramRight
<1>2. PICK p0 \in DOMAIN prog.arity : p0 = PredAt(r, l)
  <2>1. BodyRight(r)
    BY <1>1, RuleRight
  <2>2. PredAt(r, l) \in DOMAIN prog.arity
    BY <2>1 DEF BodyRight
  <2> QED
    BY <2>2
<1>3. PICK T : T = Tuples(p0)
  OBVIOUS
<1>4. PICK d : d = dom[p0]
  OBVIOUS
<1>5. d \in Seq(T) /\ IsInjective(d) /\ Len(d) \in Nat
  <2>1. dom[p0] \in Seq(Tuples(p0)) /\ IsInjective(dom[p0])
    BY <1>1, <1>2 DEF DomRight
  <2> QED
    BY <1>3, <1>4, <2>1
<1>6. PICK o : o = Opened(r, l)
  OBVIOUS
<1>7. OpenedIndex(r, l)
  BY <1>1, OpenedRight
<1>8. PICK e : e = o.entries
  OBVIOUS
<1>9. PICK n : n = o.lastExtend
  OBVIOUS
<1>10. /\ o \in [entries : Seq(T), finished : Nat, lastExtend : Nat]
       /\ e \in Seq(T) /\ n \in Nat /\ o.finished \in Nat
       /\ o.finished <= Len(e) /\ n <= Len(d) /\ IsInjective(e)
       /\ \A p \in 1 .. Len(e) : \E q \in 1 .. n : e[p] = d[q]
       /\ \A q \in 1 .. n : Fits(r, l, d[q]) => \E p \in 1 .. Len(e) : e[p] = d[q]
  BY <1>2, <1>3, <1>4, <1>6, <1>7, <1>8, <1>9 DEF OpenedIndex
<1>11. PICK e2 : e2 = Grown(e, d, n)
  OBVIOUS
<1>12. GrownRight(T, e, d, n, e2)
  <2>1. \A p \in 1 .. Len(e) : \E q \in 1 .. n : e[p] = d[q]
    BY <1>10
  <2>2. n <= n /\ n <= Len(d)
    BY <1>10
  <2> QED
    BY <1>5, <1>10, <1>11, <2>1, <2>2, ExtendRight
<1>13. PICK x : x = idx'[r][l]
  OBVIOUS
<1>14. /\ x \in [entries : Seq(T), finished : Nat, lastExtend : Nat]
       /\ x.entries = e2 /\ x.finished = o.finished /\ x.lastExtend = Len(d)
  <2>1. idx'[r][l] = Extended(Opened(r, l), Lit(r, l), Opened(r, l).lastExtend)
    BY StartIdx
  <2>2. Lit(r, l).pred = p0
    BY <1>2 DEF PredAt
  <2>3. x = [o EXCEPT !.entries = e2, !.lastExtend = IF n < Len(d) THEN Len(d) ELSE n]
    BY <1>4, <1>6, <1>8, <1>9, <1>11, <1>13, <2>1, <2>2 DEF Extended, Grown
  <2>4. (IF n < Len(d) THEN Len(d) ELSE n) = Len(d)
    BY <1>5, <1>10
  <2>5. x = [o EXCEPT !.entries = e2, !.lastExtend = Len(d)]
    BY <2>3, <2>4
  <2>6. e2 \in Seq(T)
    BY <1>12 DEF GrownRight
  <2> QED
    BY <1>5, <1>10, <2>5, <2>6
<1>15. Entries(r, l)' = e2 /\ Finished(r, l)' = o.finished /\ Scanned(r, l)' = Len(d)
  BY <1>13, <1>14 DEF Entries, Finished, Scanned
<1>16. /\ e2 \in Seq(T) /\ IsInjective(e2)
       /\ Len(e2) \in Nat /\ Len(e) \in Nat /\ Len(e) <= Len(e2)
       /\ \A p \in 1 .. Len(e) : e2[p] = e[p]
       /\ \A p \in Len(e) + 1 .. Len(e2) : \E q \in n + 1 .. Len(d) : e2[p] = d[q]
       /\ \A q \in n + 1 .. Len(d) : \E p \in 1 .. Len(e2) : e2[p] = d[q]
       /\ \A p \in 1 .. Len(e2) : \E q \in 1 .. Len(d) : e2[p] = d[q]
  BY <1>12 DEF GrownRight
<1>17. IndexRight(r, l)'
  <2>1. /\ PredAt(r, l)' = p0 /\ Tuples(p0)' = T /\ dom'[p0] = d
        /\ \A t : Fits(r, l, t)' <=> Fits(r, l, t)
    BY <1>1, <1>2, <1>3, <1>4, SameProg
  <2>2. (idx[r][l])' \in [entries : Seq(T), finished : Nat, lastExtend : Nat]
    BY <1>13, <1>14
  <2>3. IsInjective(Entries(r, l))'
    BY <1>15, <1>16 DEF IsInjective
  <2>4. o.finished <= Len(e2)
    BY <1>10, <1>16
  <2>5. ASSUME NEW q \in 1 .. Len(d), Fits(r, l, d[q]) PROVE \E p \in 1 .. Len(e2) : e2[p] = d[q]
    <3>1. CASE q \in 1 .. n
      <4>1. PICK p \in 1 .. Len(e) : e[p] = d[q]
        BY <1>10, <2>5, <3>1
      <4> QED
        BY <1>16, <4>1
    <3>2. CASE q \in n + 1 .. Len(d)
      BY <1>16, <3>2
    <3> QED
      BY <1>5, <1>10, <3>1, <3>2
  <2>6. \A q \in 1 .. Len(d) : Fits(r, l, d[q])' => \E p \in 1 .. Len(e2) : e2[p] = d[q]
    BY <2>1, <2>5
  <2> QED
    BY <1>5, <1>15, <1>16, <2>1, <2>2, <2>3, <2>4, <2>6 DEF IndexRight
<1>18. \A p \in 1 .. Finished(r, l)' : Entries(r, l)'[p] = e[p]
  BY <1>10, <1>15, <1>16
<1> QED
  BY <1>2, <1>4, <1>6, <1>8, <1>15, <1>17, <1>18

(* Nothing is joined by the start of a component.                          *)
LEMMA StartPast ==
  ASSUME IInv, StartComponent, NEW s \in Names, Ready(s)', NEW env
  PROVE  Past(s, env)' <=> Ready(s) /\ Past(s, env)
<1>1. prog' = prog /\ reach' = reach
  BY DEF StartComponent
<1>2. Past(s, env)' <=>
          /\ idx'[s][1].finished
          /\ \A l \in PosLevels(s) : \E p \in 1 .. Finished(s, l)' : Entries(s, l)'[p] = TupleAt(s, l, env)
          /\ \A l \in IncLevels(s) : env[StepVar(s, l)] <= Finished(s, l)'
  BY <1>1, SameProg DEF Past
<1>3. CASE s \notin Head(comps)
  <2>1. idx'[s] = idx[s]
    BY <1>3, StartIdx
  <2>2. Ready(s)
    BY <2>1 DEF Ready, NoIndex
  <2>3. ASSUME NEW l PROVE Entries(s, l)' = Entries(s, l) /\ Finished(s, l)' = Finished(s, l)
    BY <2>1 DEF Entries, Finished
  <2> QED
    BY <1>2, <2>1, <2>2, <2>3 DEF Past
<1>4. CASE s \in Head(comps)
  <2>1. idx'[s][1].finished <=> Ready(s) /\ idx[s][1].finished
    <3>1. idx'[s][1] = Opened(s, 1)
      BY <1>4, StartIdx
    <3>2. Opened(s, 1).finished <=> Ready(s) /\ idx[s][1].finished
      BY OpenedRight
    <3> QED
      BY <3>1, <3>2
  <2>2. CASE ~Ready(s)
    BY <1>2, <2>1, <2>2
  <2>3. CASE Ready(s)
    <3>1. ASSUME NEW l \in PosLevels(s)
          PROVE  /\ Finished(s, l)' = Finished(s, l)
                 /\ \A p \in 1 .. Finished(s, l) : Entries(s, l)'[p] = Entries(s, l)[p]
      <4>1. Opened(s, l) = idx[s][l]
        BY <2>3 DEF Opened
      <4>2. /\ Finished(s, l)' = Opened(s, l).finished
            /\ \A p \in 1 .. Finished(s, l)' : Entries(s, l)'[p] = Opened(s, l).entries[p]
        BY <1>4, StartIndex
      <4> QED
        BY <4>1, <4>2 DEF Finished, Entries
    <3>2. ASSUME NEW l \in IncLevels(s) PROVE Finished(s, l)' = Finished(s, l)
      <4>1. idx'[s][l] = Opened(s, l)
        BY <1>4, StartIdx
      <4> QED
        BY <2>3, <4>1 DEF Opened, Finished
    <3>3. ASSUME NEW l \in PosLevels(s)
          PROVE  (\E p \in 1 .. Finished(s, l)' : Entries(s, l)'[p] = TupleAt(s, l, env))
                    <=> \E p \in 1 .. Finished(s, l) : Entries(s, l)[p] = TupleAt(s, l, env)
      BY <3>1
    <3> QED
      BY <1>2, <2>1, <2>3, <3>2, <3>3 DEF Past
  <2> QED
    BY <2>2, <2>3
<1> QED
  BY <1>3, <1>4

(* Those with something new are queued.                                    *)
LEMMA StartQueue ==
  ASSUME IInv, StartComponent
  PROVE  /\ queue' \in Seq(Names)
         /\ \A s : (\E i \in DOMAIN queue' : queue'[i] = s) <=>
                        s \in Head(comps) /\ \E l \in Levels(s) : NewLevel(s, l)'
<1>1. prog \in Programs /\ Head(comps) \subseteq Names /\ UNCHANGED <<prog, reach, step>>
  BY StartComps DEF IInv, ProgramRight, StartComponent
<1>2. PICK S : S = {r \in Head(comps) : AnyNew(r, InitInst(r))}
  OBVIOUS
<1>3. queue' \in SetToSeqs(S)
  BY <1>2 DEF StartComponent
<1>4. IsFiniteSet(S)
  BY <1>1, <1>2, ProgramOf, FS_Subset
<1>5. queue' \in Seq(S) /\ \A x \in S : \E i \in 1 .. Len(queue') : queue'[i] = x
  BY <1>3, <1>4, OrderOf
<1>6. DOMAIN queue' = 1 .. Len(queue') /\ \A i \in DOMAIN queue' : queue'[i] \in S
  BY <1>5
<1>7. ASSUME NEW s \in Head(comps), NEW l \in Levels(s)
      PROVE  HasNew(s, InitInst(s), l) <=> NewLevel(s, l)'
  <2>1. idx'[s] = InitInst(s)
    BY StartIdx
  <2>2. PICK inst : inst = InitInst(s)
    OBVIOUS
  <2>3. ASSUME l \in PosLevels(s) PROVE inst[l].entries \in Seq(Tuples(PredAt(s, l))) /\ inst[l].finished \in Nat
    <3>1. IndexRight(s, l)'
      BY <2>3, StartIndex
    <3>2. (idx[s][l])' \in [entries : Seq(Tuples(PredAt(s, l))), finished : Nat, lastExtend : Nat]
      BY <1>1, <3>1, SameProg DEF IndexRight
    <3> QED
      BY <2>1, <2>2, <3>2
  <2>4. HasNew(s, inst, l) <=> NewIn(s, inst, l)
    BY <1>1, <2>3, HasNewIs
  <2>5. NewLevel(s, l)' <=> NewIn(s, inst, l)
    BY <1>1, <2>1, <2>2, SameProg DEF NewLevel, NewIn
  <2> QED
    BY <2>2, <2>4, <2>5
<1>8. ASSUME NEW s \in Head(comps) PROVE s \in S <=> \E l \in Levels(s) : NewLevel(s, l)'
  BY <1>2, <1>7 DEF AnyNew
<1>9. queue' \in Seq(Names)
  BY <1>1, <1>2, <1>5
<1>10. ASSUME NEW s PROVE (\E i \in DOMAIN queue' : queue'[i] = s) <=> s \in S
  BY <1>5, <1>6
<1> QED
  BY <1>2, <1>8, <1>9, <1>10

LEMMA StartComponentStep ==
  ASSUME IInv, StartComponent
  PROVE  IInv'
<1>1. /\ run = NoRun /\ queue = <<>> /\ done' = done \cup Head(comps)
      /\ UNCHANGED <<prog, reach, step, dom, fact, startNew, run, grounded, printed>>
  BY DEF StartComponent
<1>2. prog \in Programs /\ reach = Reach
  BY DEF IInv, ProgramRight
<1>3. ~Running /\ ~Running' /\ (\A r : ~Active(r)) /\ Current' = Current
  BY <1>1 DEF Running, NoRun, Active, Current
<1>4. PICK H : H = Head(comps)
  OBVIOUS
<1>5. /\ H \subseteq Names
      /\ \E c \in Names : c \in Current /\ H = Component(c) /\ \A r \in H : r \in Current /\ Component(r) = H
      /\ \A t \in done : reach[t] \cap H = {}
      /\ comps' \in Seq(SUBSET Names) /\ Len(comps') + 1 = Len(comps) /\ Len(comps') \in Nat
      /\ \A i \in 1 .. Len(comps') : i + 1 \in 1 .. Len(comps) /\ comps'[i] = comps[i + 1]
      /\ \A i \in 1 .. Len(comps') : \A s \in H : reach[s] \cap comps'[i] = {}
  BY <1>4, StartComps
<1>6. done \subseteq Names /\ \A s \in done : Component(s) \subseteq done /\ Ready(s)
  BY DEF IInv, OrderRight
<1>7. ASSUME NEW s \in Names, s \notin H
      PROVE  idx'[s] = idx[s] /\ (Ready(s)' <=> Ready(s)) /\ \A l : IndexRight(s, l)' <=> IndexRight(s, l)
  <2>1. idx'[s] = idx[s]
    BY <1>4, <1>7, StartIdx
  <2> QED
    BY <1>1, <2>1, SameIndex
<1>8. ASSUME NEW s \in H
      PROVE  /\ Ready(s)' /\ InstRight(s)'
             /\ \A l \in PosLevels(s) : Scanned(s, l)' = Len(dom[PredAt(s, l)])
  <2>1. /\ Ready(s)' /\ DOMAIN idx'[s] = Levels(s) /\ idx'[s][1] = Opened(s, 1)
        /\ \A l \in IncLevels(s) : idx'[s][l] = Opened(s, l)
    BY <1>4, StartIdx
  <2>2. idx'[s][1] \in [finished : BOOLEAN] /\ \A l \in IncLevels(s) : idx'[s][l] \in [finished : 0 .. step]
    BY <1>5, <2>1, OpenedRight
  <2>3. \A l \in PosLevels(s) : IndexRight(s, l)' /\ Scanned(s, l)' = Len(dom[PredAt(s, l)])
    BY <1>4, StartIndex
  <2> QED
    BY <1>1, <2>1, <2>2, <2>3, SameProg DEF InstRight
<1>9. ProgramRight'
  BY <1>1 DEF IInv, ProgramRight, Reach, DependsOn, Provides, ModuleOf, Names, HeadOf, Body
<1>10. DomRight'
  BY <1>1, SameProg DEF IInv, DomRight, IsInjective
<1>11. IdxRight'
  <2>1. ASSUME NEW s \in Names, Ready(s)' PROVE InstRight(s)'
    <3>1. CASE s \notin H
      <4>1. InstRight(s) /\ idx'[s] = idx[s] /\ \A l : IndexRight(s, l)' <=> IndexRight(s, l)
        BY <1>7, <2>1, <3>1 DEF IInv, IdxRight
      <4> QED
        BY <1>1, <4>1, SameProg DEF InstRight
    <3> QED
      BY <1>8, <3>1
  <2>2. DOMAIN idx' = Names
    BY StartIdx
  <2> QED
    BY <1>1, <2>1, <2>2, SameProg DEF IdxRight
<1>12. StartRight'
  <2>1. \A r \in Names : startNew[r] = 0
    BY <1>3, NotRunning
  <2> QED
    BY <1>1, <2>1, SameProg DEF IInv, StartRight
<1>13. OrderRight'
  <2>1. ASSUME NEW i \in 1 .. Len(comps') PROVE \E s \in Current : comps'[i] = Component(s)
    BY <1>5 DEF IInv, OrderRight
  <2>2. ASSUME NEW i \in 1 .. Len(comps'), NEW j \in 1 .. Len(comps'), i < j, NEW s \in comps'[i]
        PROVE  reach[s] \cap comps'[j] = {}
    <3>1. i + 1 \in 1 .. Len(comps) /\ j + 1 \in 1 .. Len(comps) /\ i + 1 < j + 1 /\ s \in comps[i + 1] /\ comps'[j] = comps[j + 1]
      BY <1>5, <2>2
    <3> QED
      BY <3>1 DEF IInv, OrderRight
  <2>3. ASSUME NEW s \in done', NEW j \in 1 .. Len(comps') PROVE reach[s] \cap comps'[j] = {}
    <3>1. CASE s \in H
      BY <1>5, <3>1
    <3>2. CASE s \in done
      <4>1. j + 1 \in 1 .. Len(comps) /\ comps'[j] = comps[j + 1]
        BY <1>5
      <4> QED
        BY <3>2, <4>1 DEF IInv, OrderRight
    <3> QED
      BY <1>1, <1>4, <3>1, <3>2
  <2>4. ASSUME NEW s \in done' PROVE s \in Names /\ Component(s) \subseteq done' /\ Ready(s)'
    <3>1. CASE s \in H
      BY <1>1, <1>4, <1>5, <1>8, <3>1
    <3>2. CASE s \in done /\ s \notin H
      BY <1>1, <1>6, <1>7, <3>2
    <3> QED
      BY <1>1, <1>4, <3>1, <3>2
  <2> QED
    BY <1>1, <1>3, <1>5, <2>1, <2>2, <2>3, <2>4, SameProg DEF OrderRight
<1>14. /\ queue' \in Seq(Names)
       /\ \A s : Active(s)' <=> s \in H /\ \E l \in Levels(s) : NewLevel(s, l)'
  <2>1. /\ queue' \in Seq(Names)
        /\ \A s : (\E i \in DOMAIN queue' : queue'[i] = s) <=>
                        s \in Head(comps) /\ \E l \in Levels(s) : NewLevel(s, l)'
    BY StartQueue
  <2> QED
    BY <1>3, <1>4, <2>1 DEF Active
<1>15. ActiveRight'
  <2>1. ASSUME NEW s \in H, NEW t \in done', s \in reach[t] PROVE t \in Component(s)
    <3>1. t \notin done
      BY <1>5, <2>1
    <3>2. t \in H /\ Component(s) = H
      BY <1>1, <1>4, <1>5, <3>1
    <3> QED
      BY <3>2
  <2> QED
    BY <1>1, <1>3, <1>4, <1>5, <1>14, <2>1, SameProg DEF ActiveRight
<1>16. QuietRight'
  <2>1. ASSUME NEW s \in done', ~Active(s)', NEW l \in Levels(s), NewLevel(s, l)' PROVE FALSE
    <3>1. s \in done /\ s \notin H /\ s \in Names
      BY <1>1, <1>4, <1>6, <1>14, <2>1
    <3>2. idx'[s] = idx[s]
      BY <1>7, <3>1
    <3>3. ~NewLevel(s, l)
      BY <1>3, <2>1, <3>1 DEF IInv, QuietRight
    <3> QED
      BY <1>1, <2>1, <3>2, <3>3, SameProg DEF NewLevel, NewIn
  <2> QED
    BY <1>1, <2>1, SameProg DEF QuietRight
<1>17. CoveredRight'
  <2>1. ASSUME NEW s PROVE Overtaken(s)' <=> Overtaken(s)
    <3>1. ASSUME NEW h, NEW lit PROVE Compatible(h, lit)' <=> Compatible(h, lit)
      BY DEF Compatible, Unifies, Value, IsVar, Binding, VarsOf, ToSet
    <3> QED
      BY <1>1, <3>1, SameProg DEF Overtaken
  <2>2. ASSUME NEW s \in done', ~Overtaken(s), NEW l \in PosLevels(s),
               NEW q \in Scanned(s, l)' + 1 .. Len(dom[PredAt(s, l)]), Fits(s, l, dom[PredAt(s, l)][q])
        PROVE  FALSE
    <3>1. CASE s \in H
      <4>1. Scanned(s, l)' = Len(dom[PredAt(s, l)])
        BY <1>8, <3>1
      <4>2. Len(dom[PredAt(s, l)]) \in Nat
        <5>1. BodyRight(s)
          BY <1>2, <1>5, <3>1, RuleRight
        <5>2. PredAt(s, l) \in DOMAIN prog.arity
          BY <5>1 DEF BodyRight
        <5> QED
          BY <5>2 DEF IInv, DomRight
      <4> QED
        BY <2>2, <4>1, <4>2
    <3>2. CASE s \in done /\ s \notin H
      <4>1. Scanned(s, l)' = Scanned(s, l)
        BY <1>6, <1>7, <3>2 DEF Scanned
      <4> QED
        BY <1>3, <2>2, <3>2, <4>1, NotRunning
    <3> QED
      BY <1>1, <1>4, <3>1, <3>2
  <2>3. ASSUME NEW s, NEW l, NEW q PROVE Fits(s, l, dom[PredAt(s, l)][q])' <=> Fits(s, l, dom[PredAt(s, l)][q])
    BY <1>1, SameProg DEF Fits
  <2> QED
    BY <1>1, <2>1, <2>2, <2>3, SameProg DEF CoveredRight
<1>18. RunRight'
  BY <1>3 DEF RunRight
<1>19. TwiceRight'
  <2>1. ASSUME NEW i \in DOMAIN grounded PROVE Ready(grounded[i][1])' /\ Past(grounded[i][1], grounded[i][2])'
    <3>1. PICK s : s = grounded[i][1]
      OBVIOUS
    <3>2. PICK env : env = grounded[i][2]
      OBVIOUS
    <3>3. s \in Names /\ Ready(s) /\ Past(s, env)
      BY <1>3, <3>1, <3>2, NotRunning DEF IInv, TwiceRight
    <3>4. Ready(s)'
      BY <1>7, <1>8, <3>3
    <3>5. Past(s, env)'
      BY <3>3, <3>4, StartPast
    <3> QED
      BY <1>1, <3>1, <3>2, <3>4, <3>5
  <2>2. (UNION {{s} \X Instances(s) : s \in Names})' = UNION {{s} \X Instances(s) : s \in Names}
    BY <1>1, SameProg
  <2> QED
    BY <1>1, <2>1, <2>2 DEF IInv, TwiceRight
<1>20. MissedRight'
  <2>1. ASSUME NEW s, NEW env
        PROVE  /\ ~Seen(s, env)' /\ (Unblocked(s, env)' <=> Unblocked(s, env)) /\ (StepIs(s, env)' <=> StepIs(s, env))
    BY <1>1, <1>3, SameProg DEF Seen, Unblocked, StepIs, Atom, Apply, Value, IsVar
  <2>2. SUFFICES ASSUME NEW s \in Names, Ready(s)', NEW env \in Instances(s), StepIs(s, env), Unblocked(s, env), Past(s, env)'
                 PROVE  \E i \in DOMAIN grounded : grounded[i] = <<s, env>>
    BY <1>1, <2>1, SameProg DEF MissedRight
  <2>3. Ready(s) /\ Past(s, env)
    BY <2>2, StartPast
  <2> QED
    BY <2>2, <2>3 DEF IInv, MissedRight
<1>21. IsInjective(grounded)'
  BY <1>1 DEF IInv, IsInjective
<1> QED
  BY <1>9, <1>10, <1>11, <1>12, <1>13, <1>15, <1>16, <1>17, <1>18, <1>19, <1>20, <1>21 DEF IInv

------------------------------------------------------------------------------
LEMMA StutterStep ==
  ASSUME IInv, UNCHANGED vars
  PROVE  IInv'
<1>1. UNCHANGED <<prog, reach, comps, done, step, dom, fact, idx, queue, startNew, run, grounded>>
  BY DEF vars
<1>2. ProgramRight' /\ DomRight' /\ IdxRight' /\ OrderRight'
  BY <1>1, SameRest DEF IInv
<1>3. /\ Running' <=> Running
      /\ Current' = Current
      /\ \A r : Active(r)' <=> Active(r)
  BY <1>1 DEF Running, NoRun, Current, Active
<1>4. StartRight'
  BY <1>1, <1>3, SameProg, SameIdx DEF IInv, StartRight
<1>5. ActiveRight'
  BY <1>1, <1>3, SameProg DEF IInv, ActiveRight
<1>6. QuietRight'
  BY <1>1, <1>3, SameProg, SameIdx DEF IInv, QuietRight
<1>7. CoveredRight'
  <2>1. ASSUME NEW s PROVE Overtaken(s)' <=> Overtaken(s)
    <3>1. ASSUME NEW h, NEW lit PROVE Compatible(h, lit)' <=> Compatible(h, lit)
      BY DEF Compatible, Unifies, Value, IsVar, Binding, VarsOf, ToSet
    <3> QED
      BY <1>1, <3>1, SameProg DEF Overtaken
  <2>2. ASSUME NEW s, NEW l, NEW q PROVE Waiting(s, l, q)' <=> Waiting(s, l, q)
    <3>1. PICK r : r = run.stm /\ r = run'.stm
      BY <1>1
    <3>2. ProvidedBy(r)' = ProvidedBy(r)
      BY <1>1, SameProvided
    <3> QED
      BY <1>1, <1>3, <3>1, <3>2, SameProg DEF Waiting
  <2>3. ASSUME NEW s, NEW l, NEW q PROVE Fits(s, l, dom[PredAt(s, l)][q])' <=> Fits(s, l, dom[PredAt(s, l)][q])
    BY <1>1, SameProg DEF Fits
  <2> QED
    BY <1>1, <2>1, <2>2, <2>3, SameProg, SameIdx DEF IInv, CoveredRight
<1>8. PICK rn : rn = run /\ rn = run'
  BY <1>1
<1>9. (PathRight(rn)' <=> PathRight(rn)) /\ \A env : Behind(rn, env)' <=> Behind(rn, env)
  BY <1>1, SameRun
<1>10. RunRight'
  BY <1>3, <1>8, <1>9 DEF IInv, RunRight
<1>11. ASSUME NEW r, NEW env PROVE Seen(r, env)' <=> Seen(r, env)
  BY <1>1, <1>3, <1>8, <1>9, SameIdx DEF Seen
<1>12. TwiceRight'
  <2>1. (UNION {{s} \X Instances(s) : s \in Names})' = UNION {{s} \X Instances(s) : s \in Names}
    BY <1>1, SameProg
  <2>2. ASSUME NEW i \in DOMAIN grounded
        PROVE  /\ Ready(grounded[i][1])'
               /\ Past(grounded[i][1], grounded[i][2])' \/ Seen(grounded[i][1], grounded[i][2])'
    <3>1. PICK s : s = grounded[i][1]
      OBVIOUS
    <3>2. PICK env : env = grounded[i][2]
      OBVIOUS
    <3>3. Ready(s) /\ (Past(s, env) \/ Seen(s, env))
      BY <3>1, <3>2 DEF IInv, TwiceRight
    <3>4. Ready(s)' /\ (Past(s, env)' \/ Seen(s, env)')
      BY <1>1, <1>11, <3>3, SameIdx
    <3> QED
      BY <1>1, <3>1, <3>2, <3>4
  <2> QED
    BY <1>1, <2>1, <2>2 DEF IInv, TwiceRight
<1>13. MissedRight'
  <2>1. ASSUME NEW s, NEW env PROVE Unblocked(s, env)' <=> Unblocked(s, env)
    BY <1>1, SameProg DEF Unblocked, Atom, Apply, Value, IsVar
  <2> QED
    BY <1>1, <1>11, <2>1, SameProg, SameIdx DEF IInv, MissedRight
<1>14. IsInjective(grounded)'
  BY <1>1 DEF IInv, IsInjective
<1> QED
  BY <1>2, <1>4, <1>5, <1>6, <1>7, <1>10, <1>12, <1>13, <1>14 DEF IInv

(* When nothing is left to do, what applies has been joined: its atoms are *)
(* in the domains, so they are entries, and no entry is new.               *)
LEMMA IdleMissed ==
  ASSUME IInv, Idle, NEW r \in done, ~Overtaken(r), NEW env \in Instances(r), Applies(r, env)
  PROVE  <<r, env>> \in ToSet(grounded)
<1>1. prog \in Programs /\ r \in Names /\ Ready(r)
  BY DEF IInv, ProgramRight, OrderRight
<1>2. InstRight(r) /\ BodyRight(r)
  BY <1>1, RuleRight DEF IInv, IdxRight
<1>3. ~Running /\ ~Active(r)
  BY DEF Idle, Running, Active
<1>4. \A l \in Levels(r) : ~NewLevel(r, l)
  BY <1>3 DEF IInv, QuietRight
<1>5. 1 \in Levels(r) /\ \A l \in PosLevels(r) \cup IncLevels(r) : l \in Levels(r)
  BY <1>2 DEF Levels, PosLevels, IncLevels, BodyRight
<1>6. ASSUME NEW l \in 2 .. Len(Body(r)) + 1 PROVE l - 1 \in DOMAIN Body(r) /\ Body(r)[l - 1] = Lit(r, l)
  BY <1>2 DEF BodyRight, Lit
<1>7. ASSUME NEW l \in PosLevels(r) PROVE \E p \in 1 .. Finished(r, l) : Entries(r, l)[p] = TupleAt(r, l, env)
  <2>1. IndexRight(r, l) /\ l \in 2 .. Len(Body(r)) + 1 /\ Lit(r, l).kind = "pos"
    BY <1>2 DEF InstRight, PosLevels
  <2>2. InDomain(Atom(Lit(r, l), env))
    BY <1>6, <2>1 DEF Applies
  <2>3. TupleAt(r, l, env) \in ToSet(dom[PredAt(r, l)])
    BY <2>2 DEF InDomain, Atom, TupleAt, PredAt
  <2>4. dom[PredAt(r, l)] \in Seq(Tuples(PredAt(r, l)))
    <3>1. PredAt(r, l) \in DOMAIN prog.arity
      BY <1>2 DEF BodyRight
    <3> QED
      BY <3>1 DEF IInv, DomRight
  <2>5. PICK q \in 1 .. Len(dom[PredAt(r, l)]) : dom[PredAt(r, l)][q] = TupleAt(r, l, env)
    BY <2>3, <2>4 DEF ToSet
  <2>6. Fits(r, l, TupleAt(r, l, env))
    BY DEF Fits
  <2>7. Scanned(r, l) \in Nat /\ Finished(r, l) \in Nat /\ Len(Entries(r, l)) \in Nat
    BY <2>1 DEF IndexRight, Scanned, Finished, Entries
  <2>8. q \in 1 .. Scanned(r, l)
    <3>1. ~(q \in Scanned(r, l) + 1 .. Len(dom[PredAt(r, l)]))
      BY <1>3, <2>5, <2>6, NotRunning
    <3> QED
      BY <2>4, <2>7, <3>1
  <2>9. PICK p \in 1 .. Len(Entries(r, l)) : Entries(r, l)[p] = TupleAt(r, l, env)
    BY <2>1, <2>5, <2>6, <2>8 DEF IndexRight
  <2>10. ~(p \in Finished(r, l) + 1 .. Len(Entries(r, l)))
    BY <1>4, <1>5, <2>6, <2>9 DEF NewLevel, NewIn, Finished, Entries
  <2> QED
    BY <2>7, <2>9, <2>10
<1>8. ASSUME NEW l \in IncLevels(r) PROVE Finished(r, l) = step /\ env[StepVar(r, l)] = step
  <2>1. l \in 2 .. Len(Body(r)) + 1 /\ Lit(r, l).kind = "inc"
    BY DEF IncLevels
  <2>2. Value(Lit(r, l).args[1], env) = step
    BY <1>6, <2>1 DEF Applies
  <2>3. IsVar(StepVar(r, l))
    <3>1. StepVar(r, l) \in VarsOf(Lit(r, l))
      BY <1>2 DEF BodyRight
    <3> QED
      BY <3>1 DEF VarsOf
  <2>4. env[StepVar(r, l)] = step
    BY <2>2, <2>3 DEF Value, StepVar
  <2>5. Finished(r, l) = step
    BY <1>4, <1>5 DEF NewLevel, NewIn, Finished
  <2> QED
    BY <2>4, <2>5
<1>9. Unblocked(r, env)
  <2>1. ASSUME NEW l \in NegLevels(r) PROVE Atom(Lit(r, l), env) \notin fact
    <3>1. l \in 2 .. Len(Body(r)) + 1 /\ Lit(r, l).kind = "neg"
      BY DEF NegLevels
    <3> QED
      BY <1>6, <3>1 DEF Applies
  <2> QED
    BY <2>1 DEF Unblocked
<1>10. StepIs(r, env)
  BY <1>8 DEF StepIs
<1>11. Past(r, env)
  <2>1. idx[r][1].finished
    BY <1>4, <1>5 DEF NewLevel, NewIn
  <2>2. \A l \in IncLevels(r) : env[StepVar(r, l)] <= Finished(r, l)
    <3>1. step \in Nat
      BY GroundingAssumption DEF IInv, ProgramRight
    <3> QED
      BY <1>8, <3>1
  <2> QED
    BY <1>7, <2>1, <2>2 DEF Past
<1>12. \E i \in DOMAIN grounded : grounded[i] = <<r, env>>
  BY <1>1, <1>9, <1>10, <1>11 DEF IInv, MissedRight
<1> QED
  BY <1>12 DEF ToSet

------------------------------------------------------------------------------
(* The invariant of Grounder::ground, Instantiator::ground and what they   *)
(* call: it holds at first, and every action keeps it.                     *)
THEOREM Invariant == Spec => []IInv
<1>1. Init => IInv
  BY InitStep
<1>2. IInv /\ [Next]_vars => IInv'
  <2> SUFFICES ASSUME IInv, [Next]_vars PROVE IInv'
    OBVIOUS
  <2>1. CASE StartComponent
    BY <2>1, StartComponentStep
  <2>2. CASE StartStep
    BY <2>2, StartStepStep
  <2>3. CASE Dequeue
    BY <2>3, DequeueStep
  <2>4. CASE Backtrack
    BY <2>4, BacktrackStep
  <2>5. CASE Advance
    BY <2>5, AdvanceStep
  <2>6. CASE Ground
    BY <2>6, GroundStep
  <2>7. CASE Finish
    BY <2>7, FinishStep
  <2>8. CASE Stop \/ UNCHANGED vars
    BY <2>8, StutterStep DEF Stop
  <2> QED
    BY <2>1, <2>2, <2>3, <2>4, <2>5, <2>6, <2>7, <2>8 DEF Next
<1> QED
  BY <1>1, <1>2, PTL DEF Spec

(* Domains hold tuples of their arity, each once (ValVecSet), and every    *)
(* index of an Instantiator holds tuples of its domain, each once, among   *)
(* them all that it was shown and that the literal matches.                *)
THEOREM DomainsCorrect == Spec => [](DomRight /\ IdxRight)
<1>1. IInv => DomRight /\ IdxRight
  BY DEF IInv
<1> QED
  BY <1>1, Invariant, PTL

(* No rule is grounded twice for an instance, whatever order statements    *)
(* are queued in and however often they are queued again: the join is left *)
(* where nothing is new, and what it leaves is old for good.               *)
THEOREM TwiceCorrect == Spec => []NothingTwice
<1>1. IInv => NothingTwice
  BY DEF IInv, NothingTwice
<1> QED
  BY <1>1, Invariant, PTL

(* When the queue is empty, every rule of the components that are done has *)
(* been grounded for every instance whose positive body is in the domains  *)
(* and whose negative body is not false for certain, although the join     *)
(* leaves out what has nothing new.                                        *)
THEOREM MissedCorrect == Spec => []NothingMissed
<1>1. IInv => NothingMissed
  BY IdleMissed DEF NothingMissed
<1> QED
  BY <1>1, Invariant, PTL

=============================================================================
