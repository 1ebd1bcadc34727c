# oclingo in TLA+

oclingo is an answer set solver that stays alive. It grounds a logic program step
by step (gringo), solves it (clasp), and between two solvings takes rules, steps and
commands from a controller that is connected by a TCP socket; clingcon adds
constraints over integers, which Gecode decides while clasp searches. This directory
holds TLA+ models of that code, the TLC configurations that check them, and proofs,
checked by TLAPS, of the main properties.

## 1. The system

| component | state | operations | modelled in |
|---|---|---|---|
| Online session: `app/oclingo/externalknowledge.*`, `oclingo_app.h`, `oclingo_options.h` | socket and stream buffer, the flags `reading_`, `new_input_`, `solver_stopped_`, `model_`, the counters `step_`, `controller_step_`, `bound_`, queues of premature knowledge | `read` (one round), `get`, `addInput`, `readUntilHandler`, `poll`, `sendToClient`, `addPrematureKnowledge`, `endStep`, `nextStep` | `Session`, `OnlineClingo` |
| Online parser: `onlineparser.*`, `onlineparser_impl.y`, `onlinelexer.r2c` | part, window, term, `got_step_`, `error_` of one message | one per line of the grammar | `Session`, `OnlineClingo` |
| Guards: `app/clingo/claspoutput.*`, `app/oclingo/oclaspoutput.*`, `extvolprinter.*` | `volUids_`, `assertUids_`, `vol_atom_`, `trueAtom_`, `externalAtoms_` | give out, renew and end a guard, freeze and forget externals, `doFinalize` | `OnlineOutput`, `RuleLifetime` |
| Controller: `examples/oclingo/controller.py` | turn, `have_answer_set`, `exit` | read reports, send a message, stop; with or without a thread for input | `Controller` |
| Incremental driver: `app/gringo/gringo_app.cpp` | `IncConfig` | `groundBase`, `groundStep` | actions of `Grounding`, `OnlineClingo`, `OnlineOutput`, `Session` |
| Instantiation: `grounder`, `instantiator`, `predindex`, `domain`, `formula`, `rule`, `predlit` of `libgringo` | domains, indices, the queue, `finished_` marks | enqueue, match, ground, fix, finish | `Grounding`, `StableModels` |
| Dependency analysis: `stmdep.cpp`, `litdep.cpp`, the modules of `grounder.cpp` | two graphs, numbers of a search, counters of literals | Tarjan's search, completeness, safety, order of a join | `StmDep`, `LitDep` |
| Aggregates: `sumaggrlit`, `minmaxaggrlit`, `aggrlit`, `output/lparseaggr_impl.cpp` | the range of values, or the values of an assignment; instances of conditions | accumulate, decide, join, print as rules | `AggrState`, `LparseAggr` |
| clingcon: `libclingcon` | domains, a stack of search spaces, the assignment and its lengths per level | guess domains, post, propagate, undo, explain, shorten, minimize | `CspInit`, `IntervalSet`, `CspPropagation`, `ConflictReduction` |
| clasp, Gecode, Boost.Asio | external | | actions marked external |

All of the server runs in one thread. `FromGringo<OCLINGO>::read` is called by clasp's
facade once per round; it reports to the controller, starts an asynchronous read, waits
if it must, parses, grounds and returns, and clasp preprocesses and solves. While it
solves, a post propagator polls the asynchronous read and stops the solver when a
handler ran. What is concurrent is the controller, which writes when it likes, and the
network, which delivers a message in pieces. The calls between the parts are these:

    controller --(messages)--> socket --> b_ --> OnlineParser --> rules --> GroundProgramBuilder
        ^                                             |  not yet? --> stacks_ --/      |
        |                                             v                               v
        +--(reports)-- ExternalKnowledge <--- step, bound, forget      ExtVolPrinter -> oClaspOutput -> clasp
                             ^                                                 ^                  |
                             +----------------- poll, stop conflict <----------|------------------+
                                                                               |
    StmDep --(components)--> Grounder --(instances)--> domains, aggregates ----+
    LitDep --(order of joins)---^

clasp and clingcon's `GecodeSolver` call each other: `propagate` tells Gecode literals,
`setBinaryTrue` and `setConflict` tell clasp what follows, and telling may make clasp
backjump and call `undo` before `propagate` has returned.

What is hard in this code, and hard to test:

* **interleaving** of the controller's messages with waiting, parsing and solving, when
  a message is complete before it is asked for, comes in pieces, or comes with another;
* **deferral**: rules for a step that is not grounded yet are queued in three parallel
  lists and added later, by another parser;
* **counters that must agree**: `step_`, `incStep`, `controller_step_`, `bound_`, the
  first two advanced by different classes;
* **guards**: clasp cannot remove a rule, so a rule that ends carries an atom that is
  made true when it ends, and rules share these atoms;
* **turn taking**: who waits for whom, and whether a report answers the last message;
* **matching while the domain grows**: a join goes on over an index that the rules of
  the same component extend, and must find every instance once;
* **decisions on partial knowledge**: a literal or an aggregate is called a fact, or is
  left out, while instances are still to come;
* **reentrancy**: clasp goes back in the middle of a loop of Gecode's propagator, which
  keeps an assignment, a stack of levels and a stack of spaces;
* overflow of `int` counters, the end of the rounds, errors, and the ways to stop.

`PROJECT.json` lists each such hazard at its line, with the properties that cover it.

## 2. Modules

| module | what it is |
|---|---|
| `RuleLifetime` | What a controller is promised: for how long each of its rules takes part in solving. Abstract. |
| `OnlineOutput`, `OnlineOutput_proofs` | Guards, dictionaries and externals; refines `RuleLifetime`. |
| `Session`, `Session_proofs` | The server, its socket, and any client at all. |
| `OnlineClingo` | `Session` and `OnlineOutput` in one system; implements both. |
| `Controller` | `Session` with `controller.py` as its client; fairness and liveness. |
| `System_proofs` | The theorems about `OnlineClingo` and about `Controller`. |
| `StmDep`, `StmDep_proofs` | Components, stratification, completeness, and who is told of new atoms. |
| `LitDep`, `LitDep_proofs` | Safety of variables and the order of a join. |
| `Grounding`, `Grounding_proofs` | Instantiation, step by step, with what it prints. |
| `StableModels` | What a ground program means. Reference. |
| `AggrState`, `LparseAggr` | An aggregate while it is ground, and the rules printed for it. |
| `IntervalSet`, `CspInit` | Lists of intervals; how constraints get to Gecode. |
| `CspPropagation`, `CspPropagation_proofs` | clasp and Gecode in dialogue. |
| `ConflictReduction`, `ConflictReduction_proofs` | How conflicts and reasons are shortened. |
| `MC...` | Messages, programs, statements, theories and aggregates for TLC. |

### Session

`pc` says where `read()` or clasp is. One round is
`ReportConflict | CheckBound; Get; AddInput; RunOne?; BeginParse + one action per line of
the message | NoInput; Decide; GroundStep*; AddPrematureRule*; EndPremature; Preprocess;
(Poll | FindModel | SolveEnd)*; NextRound`. The variables are the members of
`ExternalKnowledge` and `OnlineParser`, without the underscore, and the state of the read:
`op` is the asynchronous operation, `sbuf` is `b_`, `inbox` and `outbox` are what the
network holds. `RunHandler` is one handler of the `io_service`; `run_one` blocks for one,
`poll_one` takes one that is there. With `Fragments` a read returns any part of what has
arrived, otherwise all of it.

What is abstracted:

* A message is a sequence of statements and a delimiter; a rule has no content but its
  place, part, window, term and step, kept in `written` (as parsed) and `printed` (as given
  to the output). These two and `parsedMessages` are history variables.
* The initial state is the one after the base and step 1 have been grounded (`--iinit=1`)
  and the controller has connected: `accept` precedes everything that is sent.
* The lexer reads the stream in blocks of 4096 bytes; here it takes all of the buffer,
  as it does of every message that is smaller.
* Past the end of the stream the lexer reads memory nobody has written. `pc = "stray"`
  stands for all that may follow.
* All models of one solving count as one report. clasp may end a solving with a model,
  without one, or after the stop conflict; it may find a conflict at its top level, and
  then does not solve.
* `MaxSteps = 0` is the default of 2^32 - 1 rounds, which are not counted down. `Capacity`
  is how many reports fit into the socket before a write blocks. `IntMax` stands for `INT_MAX`.
* Numbers of a message are in the range of an `int`.

### OnlineOutput

The phases of a round, seen from the output: `ground` (rules of the program are printed),
`input` and `stepped` (a message is parsed), `premature` (queued rules are printed) and
`solve`. `GetNewVolUid`, `GetAssertAtom` and `GetQueryAtom` are relations between an
argument and the atom returned. `DoFinalize` is one action with all that `doFinalize`
does: declare externals, end what has expired, provide the next guard. A rule is a record
of its kind and of what ends it; `guard` remembers its atom. The refinement mapping takes
`clock <- incStep` and `live <-` the rules whose guard is not a fact. Names of atoms,
bodies and the symbol table are left out.

### OnlineClingo

The two modules share `incStep` and `controllerStep`, and are joined at every call of the
output: a rule that is parsed or leaves the queue is printed (`PrintEntry`), `#retract` ends the
guard of its term at once (`ParseRetract`), `#forget` acts at once or after the queue
(`ForgetNext`, `Slots`), a message begins (`ReadMessage`), a step is grounded with the
volatile rules of the program, whose guards those of the messages share (`GroundProgram`),
and the output is finalized (`DecideOnStep`, `Settle`). A call is a conjunct: `OnlineOutput`
takes it only in the phases it was written for, and since nothing in the code tests that,
a call out of order would be a deadlock of this model; deadlock is checked. `source`,
`messageOf` and `retracted` are history variables that relate the rules printed to what
was written.

### Controller

`turn` is `listen` in `getAnswerSets`, `talk` in `getInput`. `SendInput` sends a message
and, if it is `#stop.`, ends the controller; `ThreadSends` and `ThreadStops` are
`InputThread`. `Finished` and `Silent` are stuttering steps for the end of both programs
and for the bound on messages; without them TLC would call these states deadlocks.

### StmDep and LitDep

`StmDep` keeps the nodes of statements and of the predicates in heads, each with its edges
`depend_`, and walks them as `Tarjan` does: one number `visited_` per node that `Descend`,
`Leave` and `CloseComponent` overwrite. `CloseComponent` also decides stratification,
refuses domains over what is not stratified, and counts down the providers of literals;
`Complete` fixes which literals are complete and who tells whom of new atoms. Terms are 0
(anything) or a constant; warnings and the dot file are left out. The order in which the edges
were entered is left open: the search may take any unmarked neighbour and start at any
statement, so every order the code may have is covered.

In `LitDep` a literal waits for occurrences of variables (`count`); binding a variable
tells the literals that wait for it (`Propagate`). `Check` and `EndCheck` find what nobody
can bind; `Order` picks the next literal of a join. The score that picks is arithmetic on
sizes of domains: which of the ready literals is the best is left open, so every order the
code may choose is covered. Conditions of aggregates are formulas of their own, whose
variables belong to the outer formula if they occur there.

### Grounding

A program is a set of rules over predicates, in a base and a cumulative module, and facts
for each predicate. What `GroundingAssumption` asks of it is what the code ensures before
anything is grounded: predicates have an arity, rules are safe in the order of their body
(`Statement::check` and the order of `LitDep`), and the parser adds `#cumulative` to the
rules of its part, where its score puts it first. `StartStep` and `StartComponent` are
`groundStep` and `Grounder::ground`; `StartComponent` sets the indices of a component up
and queues the statements with something new; `Dequeue` takes a statement and looks for its
last new level; `Advance` and `Backtrack` are one round of the loop of `Instantiator::ground`
with its counter `numNew` and the marks `finished_`; `Ground` is the call of `grounded()`
and what it adds to the domain and prints; `Finish` moves the marks, extends the indices of
the statements provided for and queues them.

The components come from a definition (`Reach`, `Component`), not from `StmDep`, and every
bottom-up order of them is tried, as is every order of the statements of one. The order of
a join is the order of the body. An index keeps the tuples that do not unify, which the code
drops; they match nothing and do not count as new. Functions in terms, arithmetic,
conditions and aggregates inside of rules are left out.

### AggrState and LparseAggr

`Ground` takes the instances of the elements in any order and updates `min` and `max`
as `SumBoundAggrState` and `MinMaxBoundAggrState` do, with `match` and `fact`, and the list
`assign_` of an assignment (`values`) as `SumAssignAggrState` and `MinMaxAssignAggrState` do.
`Join` is the statement around the aggregate, `SimpleStatement::ground`: it may run between
any two instances unless the aggregate is complete, is given the values that are `new` or
all of them the first time (`AggrIndex`), locks those it printed a rule for, and adds heads
to their domain. `allowed` stands for the other literals of the body, which may refuse a
value. `Finish` prints, an assignment as an aggregate with both bounds. `LparseAggr` holds the operators of printing: merging of instances (`handleCond`),
the head with one element, bounds shifted by what is always there, negative weights turned
round, and the rules for `#min` and `#max` in their two iterations. Rules are compared with
the meaning of the aggregate under all interpretations of the atoms that occur.

### CspInit and IntervalSet

`GuessDomains` looks at one constraint of the list after the other, as `initialize()` does:
those decided at the top level restrict the domain of their variables by operations on
lists of half-open intervals (`IntervalSet`, loops over two lists written as recursive
functions; `Undefined` stands for what a union yields that lost its position). `BuildSpace` posts the decided constraints and ties the others to Booleans,
`Assign` is what clasp decides, `HasAnswer` asks for a solution. Gecode is taken to be exact.

### CspPropagation

`pc` is the place in `gecodesolver.cpp`. clasp acts in `search` (decide, infer), `fixpoint`
(propagate one literal, which calls `propagateLiteral`), `conflict` (resolve, give up),
`undo` (pop a level, which calls `undo`) and `model`. Everything else is `GecodeSolver`:
literals that were implied before (`ImplyOld`, `RefuteOld`), the test of the queue against
the current space, literal by literal (`Examine`, `Refute`, `NothingNew`), putting off and catching up, a space for each
level that is made, moved or cloned, telling what was derived (`TellLiteral`, `AllTold`),
remembering what could not be told, and models with or without a bound. `call` is the
frame of the C++ function that is waiting for clasp. What Gecode derives is given by a set
of worlds: a space derives what the worlds that agree with it have in common, so every
monotone propagation is covered, complete or not; worlds that are not `real` are those
that propagation does not exclude but search does. The initial lookahead is left out.
`Infer` gives clasp any literal that the true ones imply, a little more than unit
propagation finds. `Size` is the length at the moment it is used, while
`gecodesolver.cpp:1231` reads it once per call: after clasp went back the model's prefix may
be the shorter one, and what it implies the longer one implies as well.

### ConflictReduction

The ten variants of `gecodeconflict.cpp` and `gecodereason.cpp` share their loops here:
`Start` and `Clone` take a fresh clone of the root space, and then literals are added one
by one (`Scan...`), in growing ranges (`Range...`), or along shared variables (`Visit...`).
The theory is a set of worlds as above.

## 3. Properties

Of the output:

* `VolatileExact`: while clasp solves, a volatile rule is live exactly in the steps of its window.
* `LiveRulesEndable`: a live rule hangs on the guard that its own reason to end will make true.
* `ImplementsLifetime`: refinement of `RuleLifetime`.
* `ExternalsExact`: externals are open exactly from their declaration until they are forgotten.
* `FactsOnlyOnOpenAtoms`: a guard that is ended, by a `#retract`, a message or the end of a
  step, is open: frozen, not a fact yet, and of one expiry step only. The facts are a set, so
  this is said of the steps that give one, and for `#retract` of the states in which it may come.

Of the server with any client:

* `RulesAsWritten`: what was parsed is what was printed followed by what waits, in the
  order of the text, each rule with the part, window, term and step it was written under.
* `RulesHoldAsWritten`: while clasp solves, a rule of a message takes part exactly if what
  it was written under says so: for good, until the next message, for its window, or until
  its term is retracted after it was printed.
* `InputStopsSolver`: a complete message stops clasp. `BoundObeyed`: no step is grounded
  past the bound.
* No deadlock: the session never calls the output out of order.

Of the session with its controller:

* `MessagesKept`, `AnswersFresh` (taking turns): no message is lost, and no answer belongs
  to an earlier message.
* `UnsatMeansUnsat` (taking turns): what a comment of the code says.
* `MessageParsed`, `TurnsComeBack`, `StepReached`, `StopObeyed`: liveness; the last two
  also with `--wait=no`, when messages come at any time.

Of grounding:

* `NothingMissed`: when a component is done, each instance that applies has been ground;
  `NothingTwice`: once. A rule of the base that matches what a cumulative rule derives is
  not ground again for it (`Overtaken`): the base is ground once. `SameModels`: the rules printed have the stable models of the
  program although facts and negative literals are dropped on the way. `GroundingEnds`.
* `ComponentsRight`: what the search finds are the cycles, bottom-up, each node once.
  `DomainsAreStratified`: a domain never depends on negation in a cycle.
  `AtomsReachAll`: a literal called complete is, and every other is told of new atoms.
* `CountsExact`: a literal's counter is the number of its occurrences not bound yet.
  `JoinIsSafe`: a literal is joined only when what it needs is bound. `SafetyExact`: a
  statement is refused exactly if a variable cannot be bound. `JoinIsComplete`: every
  literal is joined, in inner formulas too.
* `DecisionsSound`: an aggregate called a fact is true, and one left out false, whatever
  is ground later; when nothing is queued any more, the statement has been ground with
  every value an assignment can have, and heads that can be chosen are in their domain
  (three cases of section 6 excepted). `RulesRight`: its rules have its models, but for the cases of section 6.

Of clingcon:

* `GuessKeepsSolutions`: guessed domains are proper lists and lose no solution, whether
  what is guessed from was decided true or false, but for two cases of section 6
  (`ComplementsJoint`, `Undefined`).
  `AnswerExactIfUndecided`: `hasAnswer` finds a solution exactly if there is one, unless a
  combination is decided at the top level (section 6).
* `Aligned`: the assignment, its lengths per level and the stack of spaces match, also
  when clasp goes back in the middle of a propagation. `SpacesExact`: a space that was kept
  or made again has been told what its levels say. `ConflictHolds`: a conflict or a
  refutation given to clasp is one. `ReasonsHold`: a reason made later still implies its
  literal, and is true before it. `AnswersRight`: UNSAT only if nothing is left, and models
  are solutions, minimal ones at the end of minimizing.
* `ResultFails`: a shortened conflict is a conflict. `Irreducible`: nothing can be dropped
  from it, for the variants called irreducible. `ReductionEnds`.

Some invariants are no property of a run and are proved: `QueuesParallel` (the assertions
of `addPrematureKnowledge`), `PrintedInTime`, `ReadyToSolve`, `StepsMirror`, `OneRead` in
`Session`, and `VolatileAtomAlways` in `OnlineOutput`.

## 4. Runs and bounds

| run | instance | shows |
|---|---|---|
| `output_rules` | 2 steps, windows of 1 and 2, 3 rules, 2 terms, 1 external | sharing and ending of guards; refinement |
| `online_clingo` | 2 of the messages `Ahead`, `Bounded`, `Back`, `Stopping`, in pieces, 3 rounds, `IntMax` 3, 2 reports in the socket, 1 term, 1 external, volatile rules of window 1 in the program | the server against any client, with its output |
| `turns` | 3 of 5 messages, whole, both `--wait=yes` and `--wait=no`, no bound on rounds, 3 reports in the socket | turn taking and liveness; deadlock is checked |
| `ground` | 3 constants, 2 steps: reachability over every list of up to 3 edges, loops through negation over every list of up to 3 facts, a cumulative part | semi-naive joins, facts, negation |
| `dep_graphs` | all graphs of 3 statements with up to 2 literals each, one negative, and 5 in all, searched in any order; 2 statements with domain literals; pairs with choices, aggregates, externals, constants and modules | the search and what is derived from it |
| `join_order` | all statements of 3 literals over 3 variables; aggregates with conditions | safety and joins |
| `aggregates` | up to 3 elements with one or two instances, weights -1, 1, 2, 3, six pairs of bounds or an assignment, in bodies and heads; other literals that allow every value or one | decisions, joins and rules of aggregates |
| `aggr_min_max` | the same | section 6 |
| `csp_init` | 2 variables, numbers from -2 to 5, a domain of 0 to 4; relations and combinations of them up to two levels, decided true, false or not at all | guessing and posting |
| `csp_propagation` | 3 atoms, theories of up to 3 worlds; lazy or not, with delays and ways to clone, a decision of another atom; minimizing | the dialogue with clasp |
| `csp_stale_queue` | minimizing with a decision of another atom | section 6 |
| `conflict_reduction` | lists of 4 literals over 3 variables, theories of up to 3 worlds, 10 variants | reduction of conflicts and reasons |

**Messages** contain what makes the parser branch: a step two ahead, so that rules wait
over two groundings and `#forget` takes its slots; a bound; a `#step` in the past and a
second one; a rule before `#step`; parts that change; a term asserted and retracted, before
and after its rules are printed; a message that does not parse; and `#stop.`. Two messages
are enough for one to arrive while another is waited for, parsed or solved upon, and three
for one to be late as well. Two reports in the socket let a write block. `IntMax = 3` puts
every bound of `#step n.` past the range, so that the saturation is met. In `OnlineOutput`
the bounds leave room for a window to begin, to be shared and to end, and for rules that
come after their step.

**Grounding.** Three edges over three nodes make the join of `r` with itself run several
rounds with new atoms on both sides, which is where the marks of two indices of the same
domain differ. Three statements are the smallest graph in which a low number is passed on
through a node of another cycle. Three literals over three variables let a literal wait
for two others, one of which waits for the third.

**clingcon.** Three atoms let clasp go back over a level without literals, and over one
whose space was moved; two or three worlds are enough for a literal to be derived late, on
a level below the current one, and for two reasons to differ. One decision on an atom that
no constraint knows makes levels without a space.

Deadlock is not checked in `output_rules`, where every counter is bounded, and in the two
runs of aggregates, which end when an aggregate is printed. All other modules have a
stuttering step for their end, and no other state without a successor.

## 5. Fairness

`Session` and `OnlineClingo` have none: everything proved about them is safety. `Controller`
assumes weak fairness of the server as one process, because it is one thread which only
waits at `run_one` and at a full socket, where its action is disabled; that clasp's search
terminates is part of this assumption. And it assumes weak fairness of the controller's
reading, which is a loop around a blocking `recv`. Nobody is obliged to send: the input
comes from a user or a file. `Grounding` and `ConflictReduction` are sequential code that
never waits: weak fairness of `Next` says that it runs.

## 6. Where the code differs from what it says

Two runs are violated, and are findings in `PROJECT.json`:

* `aggr_min_max` (`MinMaxAsWritten`): `printAggr` moves its iterator over the conditions
  only for elements that get a rule; the element after one that gets none is given
  another's condition.
* `csp_stale_queue` (`ConflictIsTrue`): when clasp goes back while a new bound is told,
  `propagateMinimize` goes on with a queue that `undo` did not clear, and a literal that is
  no longer true becomes part of a conflict.

What else was met. Named operators keep these cases out of the properties they concern, or
the models contain them and the properties are stated for the mode in which they hold:

* `printSum`: `max - maxi < bound` prints a rule that wants all literals where some are
  enough, as for `2 #sum [p=1, q=2]`. An aggregate without instances prints nothing. An
  element that a fact and another instance give is printed with the other's condition
  (`handleCond`). A head with one element asserts that it has one bound only, and prints
  the wrong rule for negative weights, for `#min`, and for a lower bound with a condition
  (`handleAggr`). These are `AllWanted`, `NoInstance`, `FactWithOthers` and `OneChoice`.
* `SumAssignAggrState::doAccumulate` changes a value in place while there are only facts and
  no rule was printed with it; the mark `new` is not set again, so a statement that was
  joined before and found no partner for the old value never sees the new one (`LateFact`:
  an assignment over `p` where `p` is derived from its own value). `BoundAggrState::finish`
  takes `new` from a head that has matched, so heads that come later, through a recursion
  like `{a(X):b(X)}. b(X+1):-a(X),X<3.`, are not added to their domain (`LateHead`).
  `AggrState::accumulate` keeps the head of a new key only: of two heads with one key, as in
  a `#sum` over `<1>:a` and `<1>:b`, the second is not added (`SharedKey`). These are read
  from the code and named in `NothingLeftOut`, which holds otherwise.
* `generateConstraint(c, val)` (`gecodesolver.cpp:1636`) posts a combination negated
  whatever `val` is, so `AnswerExact` does not hold for one that is decided at the top level.
* `guessDomains(c, false)` (`gecodesolver.cpp:409`), `xorit` and `eq` take the complement of
  the domain of each variable for the negation of a constraint. A conjunction about different
  variables is not implied by one of its domains: `x=1 $and y<2`, decided false, leaves
  `x!=1` and `y>=2`, and loses `x=1, y=3` (`ComplementsJoint`). This alone would break
  `AnswerExact` too.
* `run_one` runs one handler, so a message in pieces ends a wait without input; a message
  completed while clasp solves is completed again by the read that the next `get()` starts
  before it is parsed, and then an empty buffer is parsed, past its end (`pc = "stray"`);
  after an interruption at the bound UNSAT is reported although clasp has not searched.
  With `--wait=no` a message that arrives together with another is lost in the lexer, and
  `#stop.` is never sent. Taking turns, with whole messages, none of these happens.
* `#volatile.` does not reset the window. `#retract` is done at once though rules of its
  term may still wait, and overwrites the term of an `#assert` part that goes on. There is
  one slot for a `#forget` that waits: a second one overwrites the first.
* `--csp-cloning=0`, which says "avoid cloning", clones every time from the second space on.
* A debug build asserts, while minimizing, that the current space has not failed, which it may have.
* `interval.h:138`: `unite()` appends an interval without returning its position, from which
  the union of two lists goes on with the next one: undefined for `(x>0 $or x<3) $xor x=1`,
  decided, where an empty list is united with two intervals (`Undefined`). `Domain::allVals`
  (`domain.cpp:63`) counts `k` past the values it stands for. A head with two literals of
  the same domain extends the indices twice.

## 7. Proofs

| module | theorems |
|---|---|
| `OnlineOutput_proofs` | `Invariant`, `TypeCorrect`, `RulesEndable`, `VolatileCorrect`, `VolatileAtomCorrect`, `ExternalsCorrect`, `FactsCorrect`, `Refinement` |
| `Session_proofs` | `Invariant`, `TypeCorrect`, `StepsMirrorCorrect`, `QueuesCorrect`, `RulesCorrect`, `ReadyCorrect`, `OneReadCorrect`, `InputStopsCorrect`, `BoundCorrect`, `PrintedCorrect` |
| `System_proofs` | of `OnlineClingo`: `ClingoInvariant`, `ImplementsSession`, `ImplementsOutput`, `HoldCorrect`, `LifetimesKept`; of `Controller`: `SystemInvariant`, `KeptCorrect`, `FreshCorrect`, `UnsatCorrect` |
| `LitDep_proofs` | `TypeCorrect`, `CountsCorrect`, `JoinCorrect`, `SafetyCorrect`, `CompleteCorrect` |
| `StmDep_proofs` | `TypeCorrect`, `ComponentsCorrect`, `StratifiedCorrect`, `AtomsCorrect` |
| `Grounding_proofs` | `Invariant`, `DomainsCorrect`, `TwiceCorrect`, `MissedCorrect` |
| `CspPropagation_proofs` | `AlignedCorrect`, `SpacesCorrect`, `ConflictsCorrect`, `ReasonsCorrect`, `AnswersCorrect` |
| `ConflictReduction_proofs` | `TypeCorrect`, `ResultsFail`, `ResultsIrreducible`, `MoreToVisit` |

They hold for every value of the constants that satisfies the module's assumption: any
terms, externals, messages, bounds and capacity; any statements of finitely many literals, and any
finite programs of them; for `Grounding`, any finite well-formed programs, with any facts,
components and recursion, any constants and any number of steps;
any list of literals and any theory; any theory, any variables and any options but minimizing
for `CspPropagation`.

**OnlineOutput.** That live rules hang on the right guard is not inductive: one slot could
hold an atom that another slot ends. `IndInv` adds that every slot is an open atom
(`SlotsOpen`), that slots are pairwise distinct and apart from externals (`SlotsDistinct`,
`ExternalsApart`), and that all atoms are below the next new one (`AtomsTaken`), so that a
new atom is distinct from each of them. `OpenWindows` and `Settled` say that past slots are
empty and coming ones are kept. The refinement goes action by action: a printed rule is
`Send`, `DoFinalize` is `Settle`, `DeactivateQueryAtom` is `EndQuery`, a retraction is
`Retract`, `GroundStep` is `Advance`, and the others stutter. It needs the invariant
because a fact must end exactly the rules of its reason.

**Session.** `TypeOK` is not inductive: a step is counted without a test of its own, and
stays in range only because the grounding loop is entered below the bound and ends at the
controller's step, which the bound covers (`BoundCovers`). `WaitsForStep` says, by phase,
that what waits is waiting for a step that is ahead until grounding reaches it, and that
nothing waits elsewhere. With these `RulesAsWritten` is inductive: a rule is printed
directly only if the queue is empty, and `#step` cannot move the controller's step under a
queue that is not. `PollInv` says which flags are set between `get()` and the solver, for
`OneRead` and `InputStopsSolver`. The proofs are split by groups of variables, since most
steps leave most groups alone.

**OnlineClingo.** Every step is a step of `Session` or leaves it alone, and is a step of
`OnlineOutput` or leaves that alone (`SessionStep`, `OutputStep`); so both specifications
are implemented, both invariants carry over, and with the refinement above the server keeps
the promises of `RuleLifetime` (`LifetimesKept`). `RulesHoldAsWritten` is about both halves:
`HoldInv` ties each rule printed to the place in `written` it came from (`Histories`), says
that it ends for the reason it was written under (`Matches`), and that it is live exactly
while that reason has not occurred (`LiveRight`), which follows from whether its slot was
kept or emptied by the step (`LivesKept`). For windows this is only so when the output is
settled, and follows from `VolatileExact` while clasp solves (`SolvedSettled`).

**Controller.** With messages that arrive whole (`~Fragments`, the only hypothesis), at most
one message is under way and at most one report of a step is unread, and never both
(`OneAtATime`). `Located` follows the message through socket, stream buffer and parser;
`AsksInTurn` says that the server is asking, or has asked, only between the start of a
round and its input, so that nothing can arrive while clasp solves; and so a solving is
never interrupted, which makes `Searched` inductive. `#stop.` and the closing of the socket
are one step of the controller and none of `Session`, whose invariant is shown for that
step anew (`SendKeepsRules`).

**LitDep.** A counter is the cardinality of a set of occurrences. A step of `Propagate`
takes from each counter the occurrences of the variables that became bound, which are a
part of that set because they were not bound before; so the counters stay exact
(`CountsExact`). A literal is in the queue only when its counter is zero, so what it needs
is bound when it is joined (`JoinIsSafe`). The converse is `Dispatched`: a literal whose
needs are bound waits in the queue, or was taken from it, and what it binds is bound. So
when the queue is empty what is bound is closed. `Bindable` is computed by recursion;
`LeastFixpoint` shows, by induction over sets of numbers and over finite sets, that such a
recursion reaches the least closed set after as many rounds as there are variables, and
with `bound \subseteq Bindable` the two are equal: the variables that `check()` reports are
exactly those that cannot be bound (`SafetyExact`). Of a safe statement every literal is
therefore joined, and `Distinct` (no literal is in the queue or the join twice) makes the
join complete (`JoinIsComplete`).

**StmDep.** Tarjan's algorithm keeps two numbers per node, its own and its low link; `root()`
overwrites the one there is, and the text-book invariants do not hold. `Search` is the
invariant that replaces them. The stack is a path whose nodes are numbered in its order
(`StackRight`), and what is closed is a set of cycles that no edge leaves (`ClosedRight`). A
node that is left, but not closed, reaches a node of the stack that is not numbered after
it (`LeftRight`), so everything open reaches the top when the top is a root. The converse
needs to know whose low link has still to see the number of such a node: there is a way to
attribute each one to a node of the stack from which it is reached, and that has a neighbour
attributed to it with no greater number (`Attached`; the invariant says that an attribution
exists, `Leave` moves what hung from the top to the node before it). When the top keeps its number,
what is attributed to it cannot have an edge to what is attributed below, and
`Collected(Top)` is the cycle of the top (`ComponentOfRoot`). Stratification and
completeness follow from the graph then: a component is stratified exactly if no
cycle through negation is below (`StratifiedRight`, which is what makes a look at the
components one edge below enough), every closed statement has one place in the order of its
module (`OrderRight`), and the counter of a literal is the number of its open providers or,
when the last of them is closed, the greatest component of one (`CountRight`). That this number is not
mistaken for a counter rests on components being closed in the order of their numbers, and
that exactly the heads in the literal's component are passed on on the fact that
a head depends on its statement alone (`ProviderBelow`). Cycles and reaching are
stated by sets that no edge leaves, so that no recursion is needed.

**Grounding.** `IInv` follows an atom from the domain to the join. An index holds what it
was shown of the domain, each tuple once, and all of it that fits (`IndexRight`). What it was
not shown is waiting: the statement that runs has noted the first of its new atoms and
provides for the literal (`CoveredRight`, `StartRight`). That there is no other way for an
atom to get past an index rests on the order of the components: who is queued is of the
module that is ground, and those done that depend on it are in its own component (`ActiveRight`), so a head
that provides for a statement done does so within its component (`ProvidesWithin`) and `analyze` has noted
it; `OrderRight` says this of the components to come, by reachability alone. A statement
that has something new and is done is queued or runs (`QuietRight`).

Within a run, `PathRight` says that the search holds a join of the levels up to its depth,
that `numNew` counts its new levels, and that nothing after `lastNew` is new. `Behind` is
what has been left: instances with an earlier position further back in an index, and, when
the level had no match, those of the current join. A step back or forth leaves none out
(`BackKeeps`, `OnKeeps`) and adds none that has not been ground or is old (`BackAdds`):
when nothing on the path is new and nothing behind it is, whatever continues it consists of
old entries only (`AllOld`), which is why the code may go back there. `TwiceRight` and `MissedRight` then
relate the history to this: an instance that was ground is behind, or it is `Past`, made of
entries below the marks; and what is behind or past, and applies, was ground. `Finish` turns
the one into the other (`FinishPast`). So `Ground`, which grounds an instance that has something
new and is not behind, never does so twice; and when nothing is queued, what applies is
in the domains, hence in the indices, hence old, hence past (`IdleMissed`). A new step makes every
`#cumulative` literal new, and no instance with this step is past.

**CspPropagation.** `Aligned` is shown for all runs that do not minimize. `IndInv` says for each
place of `pc` what is known there. Between the calls of clasp the assignment ends with the
current level, and the literals in Gecode's queue are true on clasp's last level
(`OnLevel`). Inside of a call neither is so once clasp has gone back: `undo` has cut the
lengths, the assignment and the spaces to a level that the call does not expect. What a
call knows of its own variables is therefore stated under `oldDL = DL`, the code's own
test, and each loop makes this test before it uses what was cut. `Trail` is about clasp
alone: no literal is true together with its complement, or on a level that is gone. While a
bound is minimized the invariant does not hold, since a queue that `undo` did not clear
holds literals that are not true any more (section 6); there `Aligned` is only checked.

`SpacesExact` is shown on top of it, for the same runs. The literals a space was told are
compared with a part of the assignment, and two facts are needed besides (`Reach`): the
levels below the last space's own have been told completely, and while levels without a
space follow, nothing beyond the last space's own level has been told. So when `undo` drops
the last space, the one below has been told just its level; and when the space below was
moved up instead of cloned, it can be made again: the nearest kept one below it
knows its level, and what is told to its clone is the assignment from there on
(`CurrentFacts`). In the middle of a call the literals still to be told are those that
follow in the assignment, as long as `oldDL = DL`.

What clasp is told is shown in the second half of `CspPropagation_proofs`, for the same runs (`Facts`). A space that
is kept was told the root's literals and a prefix of the assignment (`Told`), so what it
derives follows from them (`Derived`), in all worlds: a set of literals that fails together
with the root has no solution (`FailsFor`), since the root, and all that is true on level 0,
holds in every solution (`Truths`). For a reason three things are kept (`Reason`): the prefix
is there, all of it was true on the level of the literal or below, and with the root it
implies the literal. `undo` takes away a whole level at a time, the assignment is in the
order of the levels (`InOrder`), and so a prefix goes only when its literal goes
(`ReasonUndone`); this is why a length is enough to note a reason. The better reasons that
wait are right on their own level only, and this is what `propagateOldLits` asks before it
uses one (`Entries`). The assertions of `propagate()` need `Alive`: when a space fails,
all that it was told before the last literal does not, and clasp is about to go back below
the level of that literal, because the conflict has no literal above it. For the
answers it must be known that nothing was lost on the way: every true literal was noted, or
follows from what was noted on its level or below, or it is on clasp's last level and waits,
in clasp, in the queue or in the frame of a call (`AllNoted`). A literal that the filter drops follows
from the space (`KnownNoted`), a backjump that clears the queue takes the level with it, and
when `hasAnswer()` is asked there is nothing that could wait (`Answering`); so the solution
Gecode finds has just the literals clasp has (`AnswersRight`). The hypothesis on the theory is
that a world gives a truth value to each literal of a constraint, and to nothing else.

**ConflictReduction.** What has been taken never fails alone, and what has been taken
together with what is left always does. With that, the list that fails when a pass closes
is a conflict (`ResultFails`), and dropping a literal from it leaves a part of something
that was consistent (`Irreducible`). `MoreToVisit`: a pass along shared variables that adds
nothing is followed by one over all variables, so a literal is always left to visit until
the clone fails, which is what `ReductionEnds` rests on.

Only model-checked: liveness; `SameModels`, whose reference is a least fixpoint over all
interpretations; `DecisionsSound` and `RulesRight` of `AggrState`, which compare recursive sums with
all assignments; `CspInit` and `IntervalSet`, which are recursive over lists; and of
`CspPropagation` everything while something is minimized, where a queue may hold literals
that are not true any more and the invariants of this section do not hold.

## 8. Not modelled

* Command lines, start-up, timers and statistics of the applications; printing of models,
  of text and reified output; symbol tables. They have no behaviour beyond formatting.
* Lexing and parsing of programs, the converter, terms and their interning (`storage.cpp`,
  `val.h`): data below the models. Lua and SQL bindings, lemon and re2c output, tests and
  vendored libraries; clasp and Gecode, which are external.
* The exception of `startSocket` that `get()` turns into a warning, and connections that
  fail: they happen before the initial state of `Session`.
* Aggregates: the re-use of states from step to step. `#avg` and parity are commented out
  in the source (`avgaggrlit.cpp`, `parityaggrlit.cpp` and their rules of the grammar). Junctions, disjunctions, `#display` and `#minimize` of the output.
* The bound of `--iinit` above 1, with which `step_` and `incStep` begin apart, and `--imin`.
* clingcon: the initial lookahead of `initialize()`, global constraints, minimizing with
  `optAll` (`gecodesolver.cpp:1532`), and
  `cspoutput.cpp`, which repeats the guards of `ClaspOutput` without the online part.

## 9. Plan

1. `IncrementalDriver`: `groundBase`, `--iinit`, `--imin`, volatile parts of a program and
   the loop of iclingo; `step_` against `incStep` when the base grounds more than one step.
2. Disjunctions, junctions and optimize statements of `LparseAggr`.
3. `Grounding` with components from `StmDep` and orders from `LitDep`; conditions inside of rules.
4. Storage and streams.
