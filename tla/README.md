# temporal-verifier (flyvy) in TLA+

This directory holds TLA+ models of the program logic of temporal-verifier, the TLC
configurations that check them on small instances, and proofs, checked by TLAPS, of what
matters most for instances of any size. `PROJECT.json` lists components, runs, the mutants
each property is known to catch, the source lines each definition stands for, findings,
hazards and theorems.

Run `tlc -config <X>.cfg <Module>` for a check and `tlapm <Module>.tla` for a proof.

## 1. The system

temporal-verifier reads a transition system in the language *fly*, and checks its safety
assertions or infers inductive invariants for them. Its crates, from the bottom up:

| part | state | operations | talks to |
|---|---|---|---|
| `smtlib` process (`proc.rs`) | the pipes of one solver process, a mutex with its `Status` | `check_sat`, `get_model`, ..., `Drop`; `SmtPid::kill` from other threads | the operating system |
| `solver::imp::Solver` | indicators, last assumptions, frames, on top of a process | `assert`, `check_sat`, `get_model`, `get_minimal_model`, `get_unsat_core`, `push`, `pop` | one `SmtProc` |
| `solver::basics` | a tree of `SolverCancelers`, each with a lock, a flag and its children | `add_canceler`, `cancel`; `check_sat` of Single-, Fallback- and ParallelSolvers | `Solver`, `SmtPid`, rayon |
| `FOModule` (`inference/basics.rs`) | per query: a `Core` with two maps between hypotheses and counter-models | `trans_cex`, `implication_cex`, `trans_safe_cex`, `simulate_from`, `get_pred`, `implies_cex`, `safe_cex` | solvers, in parallel over transitions |
| `InductionFrame` (`lemma.rs`), `run_qalpha` (`fixpoint.rs`), lemma sets (`weaken.rs`, `subsume.rs`) | the frame, weakened lemmas per domain, blocked lemmas with their cores, a safety core | `init_cycle`, `trans_cycle`, `extend`, `is_safe`, `minimized_proof` | `FOModule`, parallel jobs over lemmas |
| `verify`, `houdini.rs` | assertions proved so far, candidate invariants | `verify_module`, `infer_module` | solvers, in parallel over candidates |
| `updr.rs` | frames, backwards reachable states | `block`, `establish_safety`, `simplify`, ... | `FOModule` |
| `bounded` | sets of states, BDDs, CNF | four checkers up to a depth | a SAT or SMT solver |
| `fly` | terms, modules, models | parsing, `sort_check_module`, `inline_defs`, `convert_non_bool_relations`, `extract`, evaluation | none |
| command line, benchmarking | the module on its way through the passes | dispatch and printing | all |

What is hard in it:

* **Cancellation.** Any thread may cancel any solver at any point of a call, through a
  tree whose nodes are added while it is being cancelled. A solver may never answer; then
  a cancellation is the only way to go on. A process may be reaped, and its pid reused,
  while others still hold handles to it.
* **Parallel queries that stop each other.** Solvers in a portfolio, transitions of a
  query and lemmas of a cycle all cancel their siblings. A cancellation from inside must
  not look like one from outside, and no answer may be lost.
* **Dependent caches.** The cores of blocked lemmas, the maps of an unsat-core search, the
  safety core and the assumptions of the last query are kept while what they were derived
  from changes.
* **Unknown answers**, after which nothing may be claimed.
* **Termination** of loops that remove things and bring them back.
* **Rewriting.** A module passes through sort inference, inlining, the removal of
  functions, priming, quantifier enumeration and a translation to guarded updates, each
  with conditions it takes for granted; an answer is about the source.

## 2. Modules

```
CancellableSolver   what a solver promises under cancellation (abstract)
   ^ implemented by                       (its promise is the process of ParallelQuery)
SmtProc             one process, its owner, the handles         SmtProcProofs
Solver              the state of Solver, get_minimal_model      SolverProofs
ParallelQuery       one trans_cex: transitions x solvers
   ^ ParallelPool      on the threads of rayon's pool           MCParallelPool, ParallelQueryProofs
Core                the unsat-core search of one query          InferenceProofs
Qalpha              run_qalpha over InductionFrame              MCQalpha, QalphaProofs
LemmaQf             bodies of lemmas, their order, weakening
   ^ PrefixLemmaSet    weaken_add for one quantifier prefix
QuantPrefix         prefixes and what they are generated from
   ^ DomainSearch      the lemma domains and their sizes
      ^ WeakenLemmaSet    the weakened sets along the search     InferenceProofs
Subsumption         the orders and maps of subsume.rs (tries)
   ^ LemmaSet          lemmas of several prefixes (with LemmaQf, QuantPrefix)
      LemmaSets        the sets of a frame, domain by domain     MCLemmaSets
Assertions          verify_module and Houdini                   MCAssertions, AssertionsProofs
Updr                the UPDR search                             MCUpdr, UpdrProofs
Terms               terms, modules, and what they mean
   ^ Sorts             sort_check_module
      ^ FrontEnd          definitions inlined, functions removed
         ^ Enumerated        extract, quantifier enumeration
            ^ BoundedProgram    set.rs: a module as guarded updates
               ^ Bounded           App::exec with the checkers     MCBounded
BoundedSearch       the searches of the checkers                BoundedSearchProofs
   ^ Bounded
```

The modules are layered as the code is: what one establishes is the assumption of the
next, and each states at its head what it takes for granted.

### SmtProc and CancellableSolver (`smtlib/src/proc.rs`)

`SmtProc` has one action for each critical section of the mutex `terminated` and one for
each use of a pipe, so that every interleaving of the owner with `SmtPid::kill` (`Kill`)
and with the process (`Answer`, `Exit`, `Die`) is there. The owner is a most general
client: any call in any order, whatever the last one returned, and a drop at any point.
`status` is the field `terminated`; `child`, `wire` and `reply` are the process as seen by
the operating system and the pipes; `pc`, `call`, `nested` say where the owner is, where
`nested` is the `get_info` that `parse_sat` makes after `unknown`. `poisoned`, `cancelled`
and `stray` are history.

`CancellableSolver` is what the doc comments of `Status`, `SmtPid` and `SolverError`
promise: no expensive call ends `Ok` if a cancellation came before its end, `Killed`
exactly for cancellations, and for good. The property `Contract` of `SmtProc` is that
specification under a refinement mapping of `status` and `pc`.

### Solver (`solver/src/imp.rs`)

Every call of `Solver` that changes its state, and `get_minimal_model` query by query
(`GetMinimalModel`, `TryMax`/`MaxFits`/`MaxTooSmall`/`MaxTooHigh` for `get_min_max_card`,
`TryCard`/`MinimizeCard`/`ReachedOne`/`GiveUp` for `minimize_card`, `ReadModel`). A
backend whose models are taken to be minimal (`returns_minimal`) is asked for one and
nothing else (`GetMinimalModelOfBackend`); the code leaves open whether those of CVC are
(`backends.rs`, a TODO), so it may be any. A model is the size of each universe and the
indicators it makes true; `theory` is the set of the models of what is asserted.
`declared` is what the process knows and `indicators` what `Solver` believes it knows: the
two differ after `pop`.

### ParallelQuery and ParallelPool (`solver/src/basics.rs`, `FOModule::trans_cex`)

The tree of cancelers (`canceled`, `children`, `holder` for the lock, `left` for the
children a drain has still to cancel), the jobs of `check_sat` (`StartSolver`, `Answer`,
`Extract`, `AnswerKilled`, `Panics`), the strategies (parallel, or in turn), the jobs of
the transitions (`StartCheck`, `Respond`, with `Conclude` for a transition that has found
a counterexample and cancels the others) and the aggregation (`Collect`). `Cancelling(th)`
are the steps of a thread inside `cancel()`: take the lock and set the flag, cancel one
child, let go. A process is what `CancellableSolver` promises, its `Break` included: the
thread that asks a cancelled solver may panic instead of being answered `Killed`
(`proc.rs:374`, `432`), and so may one whose solver exits without an error message. The
panic is raised again where rayon joins the jobs (`Response`, `Collect`). `caller` is
whether anyone above cancels; the queries of `updr.rs` have no cancelers ("never").

`ParallelPool` says which job runs when. A thread of the pool is the stack of the jobs
that it has begun (`stacks`). The jobs of the transitions, and those of their solvers,
wait until a thread takes them (`Take`); one that waits for the solvers of its transition
takes another job meanwhile, on top of it, and the transition goes on only when that is
over (`Settle`). Each of its steps is a step of `ParallelQuery` or leaves its variables
alone.

### Core (`Core` and the query loops of `inference/src/basics.rs`)

`participants`, `counter_models`, `to_participants` and `to_counter_models` are the fields
of `Core`. `AddCounterModel` is `add_counter_model` up to `reduce()`, `Reduce` one round
of the loop in `reduce`, `Reduced` the assertions after it. A model is the set of
hypotheses that it falsifies: nothing else of it is looked at. The flags `gradual` and
`minimal` are part of the state, so all four combinations are checked.

### Qalpha (`fixpoint.rs`, `lemma.rs`, `weaken.rs`)

`run_qalpha` from `InitCex` to `Final`. `weaken_lemmas`, `lemmas`, `blocked`,
`blocked_to_core`, `core_to_blocked`, `ctis`, `safety_core` are the fields of
`InductionFrame`. `StartJob`, `AnswerInit`, `AnswerTrans` are the parallel jobs of
`init_cex` and `trans_cex`: a job decides whether its lemma is blocked before its query
runs and inserts into `blocked` after it, with other jobs in between, and the first
counterexample cancels the rest. `Update` with `Remove` is `update`/`remove_lemma`,
`WeakenBy` is what `WeakenLemmaSet::weaken` computes: the subsumption-minimal lemmas,
weaker than the ones removed, that hold in the model. States and lemmas are abstracted to
sets, so that "holds in" and "implies" are membership and inclusion; `Subsumes` is given
with them and may be weaker than implication, as in the code. One query is one step here;
its inside is `ParallelQuery` and `Core`.

### LemmaQf and PrefixLemmaSet (`lemma.rs`, `subsume.rs`, `weaken.rs`)

`LemmaQf` is the three kinds of quantifier-free bodies (`LemmaCnf`, `LemmaPDnfNaive`,
`LemmaPDnf`) as pure operators over sets: `Subsumes` and `FromBase` the order of
`AndLike`, `OrLike` and `Pair`, `WeakenBody` the method `weaken` of each kind, `Cube` and
`ExtendAssignment` what it is given. `Language` and `Holds` are the reference: the bodies
that the limits of the domain allow, and when the quantified formula of one is true.
`PrefixLemmaSet` is `weaken` with the recursion of `weaken_add` over the blocks of the
prefix (`WeakenAdd`, a recursive function on the blocks and the arguments of a call):
below a universal block (`AddForall`) the set is repaired value by value, below an
existential one (`AddExists`) the results for all values are merged, past the prefix
(`AddWeakened`) the bodies themselves are weakened; `Ignored` and `RemoveSubsumed` compare
up to the permutations of the blocks from `perm_index` on.

### QuantPrefix and DomainSearch (`quant.rs`, `lemma.rs`, `fixpoint.rs`)

The prefixes of a configuration (`all_prefixes`, `exact_prefixes`, `distribute`), their
order and when one contains or subsumes another; the domains made from them
(`LemmaQf::new`, `approx_space_size`, `sub_spaces`, `contains`), and the queue of `qalpha`
(`AllDomains`).

### WeakenLemmaSet (`weaken.rs`, `fixpoint.rs`)

The state of `WeakenLemmaSet`, one set of bodies for each active domain (`sets`), with the
queue of domains that are left. `WeakenBy` is `weaken` by a state, any state of `Models`;
`NextDomains` is the loop of `qalpha` that, once `run_qalpha` has returned, takes further
domains from the queue until they are large enough (`Take`), drops the active ones that a
new one contains (`Retained`) and starts anew. `seen` is history: the states the sets were
weakened by.

### Subsumption, LemmaSet and LemmaSets (`subsume.rs`, `weaken.rs`, `lemma.rs`)

`Subsumption` has the structures of `subsume.rs` as they are built: sequences in the order
of their elements, and the maps as tries (`TrieMap`, with its removal of empty branches),
one for the keys and one for their sub-keys, nested as the types nest. The Rust traits
become a value, the kind of a structure, that each operator takes first. `insert`,
`get_mut` and `remove` of a map are one operator, `MapPut`, which replaces the values at a
key; the assertions that a key is new, or present, are not in it. `LemmaSet` is a map of
that kind whose values are ids of lemmas, with `insert_minimized`, `remove` and the
queries up to permutations.

`LemmaSets` has the state of an `InductionFrame` that `Qalpha` abstracts:
`WeakenLemmaSet`, with `lemmas` and `blocked`. `Weaken`, `Ask`, `Block`, `Update` are the
changes of these, with states and the answers of queries left open, and `NextFrame` starts
a new frame with the next domains. A job passes the filter (`Ask`) and inserts its lemma
later (`Block`), when others may have inserted theirs (`asked` are the lemmas in between).
`Update` inserts the weakened lemmas that nothing subsumes of what stays (`New`). Its
steps are steps of `WeakenLemmaSet` or leave the variables of that alone. `Qalpha` rests
on it: its `WeakenBy` is given what `Sound`, `Complete` and `LemmasCover` establish.

### Assertions (`verify/src/module.rs`, `safety.rs`, `inference/src/houdini.rs`)

The loop over the assertions (`Begin`, `Done`), the check of `verify_module`
(`CheckInvariant`) and the steps of Houdini: `InitiationModel` until the candidates hold
initially, then iterations of parallel checks (`StartCheck`, `AnswerCheck`) that end in
`Prune`, in the fixed point (`Inferred`) or, on an unknown answer, in failure. A term is
the set of structures in which it holds; the axioms are one such set, so a check that
leaves them out differs.

### Updr (`inference/src/updr.rs`)

`frames` and `states` (`backwards_reachable_states`) are the fields of `Updr`, `stack` the
calls of `block()` in progress, each with its index. `Absent`, `BlockKnown`, `BlockNew`
and `Established` are what `find_state_to_block` may come to; `Predecessor` is a recursive
call of `block()`, `Strengthen` its end, with the pushes in it, and `AbstractCex` its
panic; `Simplify`, `Found`, `AddFrame` and `Push` are the rest of the loop of
`find_frame`. A formula is the set of structures in which it holds, so that implication is
inclusion; a term of a frame also carries whether the module gave it or the search learned
it, since `simplify` drops those that are textually a safety property. A diagram is given
with its parts, and a core is any part that no transition reaches. Which of the queries
assume the axioms (`get_pred`, `trans_cex`) and safety (`trans_cex`), and which neither
(`implies_cex`, `safe_cex`), is as in the code. The clauses of an assertion are given next
to it: `term_to_cnf_clauses` inverts the literals `true` and `false` (`cnf.rs:84`), so
they may differ, and only then does `find_state_to_block` reach its second half
(`BlockNew`) with more than one frame.

### Terms, Sorts, FrontEnd (`fly/src/syntax.rs`, `sorts.rs`, `defs.rs`, `rets.rs`)

`Terms` has the terms of the language as records, with the modules they are part of, and
`Value`, which is `eval_assign` of `semantics.rs` and the reference for all that follows:
it is extended to primes, which look at the second structure of a pair, and to
definitions. A structure is the set of its ground atoms, a function the relation with its
value as the last argument. `Sorts` is sort inference: `Labelled` gives each binder
without a sort a variable, named by its place, `Equations` are those that
`collect_sort_constraints_term` makes of a term below a scope, `UnifyAll` solves them,
`Annotate` writes the sorts into the term. `WellDeclared` and `NamesOk` are the checks of
declarations and of names; the error is one, without its kind. `Sortings` is the
reference: all ways to give a term its missing sorts such that it is well sorted, without
equations or unification. `FrontEnd` is `inline_defs`, of the first definition
(`Inlined`), with `subst` as it is, that is, with captures, and
`convert_non_bool_relations` (`Converted`) with its axioms (`FunctionAxioms`), its error
and its panics; `HasValues` says whether `back_convert_model` finds the value of a
function. Failures stand in the terms where they occur, so that any of those of one pass
may be the one that is reported. `Inlinable` and `Convertible` are what the code takes for
granted without a check.

### Enumerated and BoundedProgram (`bounded`, `fly/src/transitions.rs`)

`Enumerated` has what `enumerate_quantifiers` and the simplifying constructors make of a
term, and `extract`. Conjunctions and disjunctions are sets, since the code sorts and
removes duplicates. `BoundedProgram` is `translate` of `set.rs`: `ToTransition` turns a
disjunct into a guarded update, `Completions` enumerates the atoms it leaves open,
`WithoutNoOps` drops updates that the guards make redundant, and `AxiomCheck` keeps, drops
or refuses a transition by what is known after it (`EvaluatePartial` gives every result
the order of terms allows).

### BoundedSearch (`bounded`)

`BoundedSearch` is the checkers as one state machine over a transition system (`system`),
told apart by `checker`: the queue and the seen states of `interpret` (`Enqueue`, `Pop`,
`Exhausted`), the images of `bdd.rs` (`StartImages`, `Check`, `TakeImage`, `DepthReached`)
with the trace rebuilt from them (`Rebuild`, `Rebuilt`), and the one query of `sat.rs` and
`smt.rs` (`Solve`). A BDD is the set that it stands for, an iso class of `IsoStateSet` the
field `orbit` of the system. `IsSystem` is what the searches take for granted:
permutations of the universe turn steps into steps and make no unsafe state safe.
`CounterexampleRight` and `AnswerRight` are about `system`, by the states reached in
exactly n steps (`Layers`) and in at most n (`Upto`).

### Bounded (`temporal-verifier/src/command.rs`, `bounded`)

`Bounded` composes all of these as the command line does: `CheckSorts`, `InlineDef` (one
step for each definition), `Convert`, `Call` of a checker with its depth, `ExtractFails`
or `Translate`, the search, whose steps are `SearchNext`, and `Report`, which converts the
counterexample back to the functions of the source and may fail (`ReportFails`). Where the
system comes from is `Explored` for `set.rs`, the states and the steps that its program
has, and `Symbolic` for the others, what satisfies their formulas.

`Meaning` says what the converted module means, the same for every checker, by `Value` and
without their translations: a formula below `always` is true in each state, also in the
one a step leads to, and the transitions relate each state to the next. That the converted
module means what the source does is `FrontEndExact`. `TranslationExact` is the link to
the search: when that starts, the system satisfies `SearchInit`, so also `IsSystem`, and
has the initial and the unsafe states of the module and, among the states that satisfy the
axioms, its steps. Two things are not as the module says. For `bdd.rs`, `sat.rs` and
`smt.rs` there are also steps to states that violate an axiom: they assert the axioms that
mention mutable relations before a step and not after it. No step leads on from such a
state, so it can only be the last one of a counterexample, but that one may be spurious:
finding 3, with the property `AxiomsInTrace` that states what is violated. (For `set.rs`
it is required that no step leaves the axioms.) And where a module has no transition,
`set.rs` stands still, while every step is allowed by what the module says and by the
other checkers; this is the one case that `TranslationExact` leaves out. With these
exceptions, what is true of a search of the system is true of the module, since the system
does not change after that.

## 3. Runs

`-workers 2`; every run is exhaustive. Deadlock checking is off throughout because each of
these systems ends (a dropped process, a returned query, a finished inference or search);
where a call could stop for good before it returns (a process that hangs, a cancellation,
the loop of `run_qalpha`), a liveness property says that it does not.

| run | instance | what it shows |
|---|---|---|
| `smtproc_calls` | all replies, errors included; the solver may hang or exit | `Contract`: implements `CancellableSolver`. `CancelUnblocks`: a cancelled call returns though the solver never would. `ReapIsRecorded`: outside the end of `Drop` a reaped process is recorded as such. `NoStraySignal`, `PanicOnlyIfCancelled`: until the solver fails, no signal to a reaped pid, and only a cancelled owner panics |
| `solver_calls` | 2 sorts, universes up to 3, at most 2 models, one client indicator, one frame, with and without a backend that is taken to return minimal models; 327,706 states | `HonoursAssumptions`: the model satisfies what is asserted and what the last check assumed. `SmallestMaximum`: the search returns one with the least largest universe |
| `parallel_pool` | 2 transitions x 2 solvers, both strategies, 2 threads; solvers that hang, fail and panic; a blocked counter-model; 1,279,049 states | `NoEscape`, `ResultRight`; `AnswerNotLost`: an answer is lost to a panic only; `CancelReturns`, `AnswerReturns`: the query does not stay cancelled, nor with a counterexample, nor while all who wait have an answer |
| `core_search` | 3 hypotheses, every set of models, four configurations | `MapsAgree`, `AllBlocked`, `NoRepetition`, `LocallyMinimal`, `ResultSound` |
| `qalpha_fixpoint` | 4 states, 9 lemmas in 2 overlapping domains, every relation of up to 2 transitions, 2 jobs at a time, unknown answers, `extend` and `abort_unsafe` | `BlockedJustified`, `FixpointInductive`, `FixpointLeast`, `MinimizedProves`, `Terminates` |
| `lemma_sets` | 20 configurations of one domain, each with two bounds, of up to three blocks and three variables, and 8 with several, of which three are searched and one has two jobs at a time; three kinds of bodies; 6 models; 21,935 states | of the sets: `Sound`, `Complete`; of the sets and the frame: `Irredundant`; of the tries: `MapsExact`, also that no empty branch is left; of the frame: `LemmasCover` |
| `assertions_checked` | 4 structures, 2 assertions out of 7 proofs, up to 3 transitions, both commands, unknown answers | `OkMeansSafe`, `InferredInductive`, `PrunesNoInvariant` |
| `updr_frames` | 6 structures, 3 modules of universal assertions and 3 of initial states, with and without axioms, up to 3 transitions, 4 frames, a push whose query is not answered; 70,646 states | `FramesChain`, `AbsentIsAbsent`, `StepsToBad`, `ResultInductive` |
| `updr_initial` (violated) | the same | the doc of `search` against `block()`: finding 1 |
| `bounded_checkers` | 505 source modules over 2 nodes: 364 of two formulas each below quantifiers without sorts, 24 with declarations that fit or do not, 14 with definitions and functions, 103 transition systems over a mutable and an immutable flag and a unary relation; four checkers; depths 0, 1, 2 and none; traces compressed or not; 55,685 states | of the front end: `SortsInferred` (a module is accepted iff its sorts are determined, and gets them), `FrontEndExact` (each pass keeps the meaning of every statement); to the answer: `TranslationExact`, `CounterexampleRight`, `AnswerRight` |
| `bounded_depth` (violated) | the same | "safe up to depth" against `sat.rs`: finding 2 |
| `bounded_axioms` (violated) | the same | an `always` formula in the last state of a counterexample: finding 3 |

**Bounds, and why they are enough.** Two transitions and two solvers give every pair of
levels that can cancel each other (caller, query, group; sibling transition; sibling
solver); a third of either adds only more of the same races. One blocked counter-model is
enough for a second round, in which a fresh group is created below a query that may be
cancelled by then. With three hypotheses, formulas leave a core and come back, and two
formulas can be redundant one by one but not together. Two threads are the fewest on which
jobs run at the same time, and few enough that a transition that waits must take others on
top of it. `MCInit` of `MCParallelPool` tries blocking, failing solvers and a caller that
cancels one at a time, and of two queries that differ in the names of the transitions one:
the proofs of section 4 are without this restriction. In `Solver`, two sorts are what it
takes to distinguish a common maximum from one bound per sort, and `CardLimit` (100 in the
code) is 3, so that the limit is reached. In `Qalpha` the two domains share lemmas, and
the lemmas include chains and incomparable ones, so that a weakening of one domain may
subsume one of the other; four states give cycles of counterexamples through lemmas that
were blocked before. In `LemmaSets` the prefixes of single domains have an alternation
each way round, blocks of two variables to permute and an empty one, the models up to
three elements; a third model lets a weakening meet lemmas that two earlier ones have
pruned (`max_models` 3, without updates). The other bound has two models and two updates
of the frame, so that the second update meets lemmas that stay while others go and new
ones come. In the configurations of several domains (two models, or one with a blocked lemma)
it also happens that a lemma that goes comes back with another prefix while others stay.
In one more, two jobs ask about lemmas of which one subsumes the other. Those that
are searched go through every domain of their queue in two or three steps, the last
replacing the ones it contains. `max_blocked` (of the lemmas blocked and asked about),
`max_updates` and `max_models` are the bounds, `Models` the choice of models. In
`Assertions` two assertions suffice for one to rest on another. `Updr` needs structures of
two sizes, since a diagram says nothing of a larger universe's other elements: the diagram
of a structure of two elements also holds in larger ones, which may be reachable or
initial. Four frames let a predecessor's predecessor be blocked, and three transitions
make the chain that leads there. In `Bounded` two nodes give orbits of more than one
state, a path of two steps adds the nodes one by one, and without a depth the searches run
until they converge. The modules combine six transitions (disjunctions with updates, atoms
left open, an update by a formula or its negation, a primed disjunction and a pair of
conflicting updates, of which the translation refuses one and panics at the other) with
two initial conditions, four sets of axioms and two safety properties, and there are two
modules that extraction refuses, and modules without a transition, with two, with the same
one twice (which `set.rs` counts as two), and without an initial state. For sort inference
every two of 13 formulas stand below one of four lists of binders: shadowing, an unknown
sort, undeclared names, variables that several equations determine, one, or none. The
modules with definitions and functions pass a token on through definitions that use one
another and shadow a name, and change a function at one node or at will; others misuse a
definition or a function (an argument, a prime, a capture, a name, a function on both
sides or nested), which is how the errors and the panics of the front end come up. Two
nodes are enough for a function that is no bijection and for a capture to show.

**What the clients are assumed to do.** `Solver_calls.cfg` sets `Reuse = FALSE`: a client
makes some other call between two `check_sat`s, as all those in the repository do. With
`TRUE`, `last_assumptions` of an earlier query survives one without assumptions, the
search goes on under both, and `SmallestMaximum` fails; `HonoursAssumptions` holds (and is
proved) either way, since the model satisfies more than it must. `Qalpha_fixpoint.cfg`
sets `AnyCore = FALSE`: a core is a minimal one, or the whole frame; a run with arbitrary
cores (6.8 million states, too long to keep) showed no violation of the safety properties
either. `ParallelPool` has the jobs of one query on the pool; in the code those of the
queries for other lemmas (`lemma.rs`) are on the same pool, and a thread may take one of
these too.

**Fairness.** `SmtProc`: the owner's code runs on, a killed process dies and a command
that is not a query is answered; a query need not be, and no one need cancel.
`ParallelPool`: weak fairness of `Assured`, the steps that happen by themselves: those of
a running job, the answer Killed of a process that was killed (this is `CancelUnblocks`
one level down), and the thread that asks the query. None for `Answer`, so solvers may
hang, and none for the caller. A job that waits to be run is sure to be only when every
thread that has a job waits for others: rayon may give a job to a thread that has it
behind another one, and other threads steal it or not. A job therefore has no thread of
its own, and may lie below another whose solver never answers. A query makes finitely many
steps, so fairness to all of these together is fairness to each of them. `Qalpha`: weak
fairness of the next-state relation as a whole, that is, the program runs and its queries
are answered (perhaps unknown); which answer or counterexample comes is left open, so
nothing rests on a lucky choice. `Core` states the same fairness, and no property that
needs it; the other modules are checked for safety only.

## 4. Proofs

All constants are arbitrary up to the named assumptions of the modules.

**`InferenceProofs`, Core** (any number of hypotheses, any set of models). The inductive
invariant `IInv` conjoins type correctness, the exactness of both maps (`MapsAgree`),
`AllBlocked`, `NoRepetition`, `LocallyMinimal`, `ResultSound` and `NotGradual`, which says
what the fields hold when the flag `gradual` is off. The properties need each other: that
a removed formula was redundant is read off `to_participants`, so `AllBlocked` needs the
maps exact; a model that a query returns satisfies all participants, so `AllBlocked` makes
it new (`NoRepetition`); and that `reduce` stops only at a locally minimal core is a
statement about the maps again. One lemma per action (`InitInv`, `Reduce`, `Reduced`, the
common part of the answers that end the search), then `StepInv` and `Invariance`; the
theorems `MapsExact`, `StaysBlocked`, `NeverRepeats`, `MinimalCore`, `SoundResult` project
from it.

**`InferenceProofs`, WeakenLemmaSet** (any configurations whose queues are sequences of
domains, a domain being any sequence of blocks with finitely many names, a finite set of
atoms, any limits and one of the three kinds of bodies, `IsDomain`; any states, each with
its size in Nat; a domain of a search has an approximate size of at least 1, where
`fixpoint.rs:233` leaves out those of 1 and less: `WeakenAssumption`). `AlwaysSound` is
the soundness of the weakening of `weaken.rs`: every lemma of every domain holds in all
the states the set was weakened by. The invariant `WeakenInv` adds to `Sound` that the
sets hold bodies of their domain and that the domains are those of the queues; `Sound` is
not inductive without, since nothing is known of what weakening makes of something else,
and it needs more than that the result of `weaken` holds in the new state: that it holds
in the old ones still. For this each new body is *weaker* than one that was there
(`Weaker`: true under every assignment of every model under which the other one is), and
that carries through the quantifiers (`WeakerFrom`). The argument follows the code
upwards: the literals of a cube are those that hold (`CubeIs`); each method `weaken`
returns bodies that are weaker than the one it was given and that hold under the
assignment of the cube (`WeakenCnfIs`, `WeakenPDnfIs`, `WeakenNaiveIs`, the last with the
loop of `add_unit`, whose invariant is `Turning`); `from_base` keeps what a body says
(`FromBaseIs`), and dropping the redundant ones keeps some of them (`MinimizedSubset`);
`extend_assignment` lists exactly the assignments that the semantics of a block ranges
over (`ExtensionsAre`); `unsat` finds exactly the bodies that do not hold from a block on
(`UnsatExact`); and then, block by block from the last one up, whatever `weaken_add` adds
holds from its block on and is weaker than a body it was to weaken (`AddWeakenedIs`,
`AddForallIs`, where the bodies that one value of the block has left must survive the next
ones (`MadeNext`), `AddExistsIs`, `WeakenAddIs`). A step `NextDomains` starts with the
strongest bodies and no states. `AlwaysOnlyWeaker` is the same fact as an action property:
weakening never makes a set say what it did not. `AlwaysAdvances` is about the search:
with a `growth_factor` of 2 or more, each step to the next domains leaves fewer of them,
so that the loop of `qalpha` ends if `run_qalpha` does. `WeakenInv` has for it that some
domains are active while some are left, and that these have a size; `SumIs` and `TakeIs`
say that a size that is larger than that of the active domains makes `Take` take one. With
a factor of 0 or 1 it is not so (section 5). The recursive functions of these modules are
over the indices of a list, the blocks of a prefix or the number of turns; what such a
function is has to be shown by a function that satisfies its equation (`Ascent`,
`Descent`), and what holds all along by the least index where it would not (`Along`,
`Back`). Which order a hash set is gone through in is a CHOOSE, of which nothing is used.

**`SmtProcProofs`** (any set of answers the solver may give). `TypeCorrect` and
`ReapRecorded` are inductive as they stand. `ImplementsContract` is the refinement:
initial states map to initial states and, under `TypeOK`, every action of `SmtProc` is a
step of `CancellableSolver` or leaves its variables alone. `NoStray` and `Bracketed` are
about the time before the solver has reported an error or exited (`failed`). That is
necessary: after a `check_sat` that ended in an error `in_call` is still set;
`SmtProc::kill` in `Drop` waits for the process without the lock and stores `Terminated`
afterwards, and a `SmtPid::kill` in between signals the reaped pid. Their inductive
invariant is `BracketInv \/ failed`, where `BracketInv` ties `status = in_call` to the
positions of the owner between `start_call` and `end_call`. `PanicsAccounted` adds
`StoppedBySomeone`: a status that is not `Running` is the work of a cancellation, or of
`Drop`, after which the owner makes no call.

**`ParallelQueryProofs`** (any transitions, at least one, any number of solvers, both
strategies, any interleaving of the threads inside `cancel()`). `NoEscape` relates a
process only to the nodes above it whose `cancel()` has returned. Inductive is the path:
from each process in a call to the root, every node is registered with its parent or in
the list that the holder of the parent's lock has still to cancel (`Registered`,
`GroupAttached`, `QueryAttached`), or else it is cancelled itself with nothing left to do.
`NodesOK` is what the lock protects; `GroupHolder` is that the lock of a group is taken
from below by its own solvers and from above only by the thread that drains the query. For
the results it takes `Reasons` (every cancelled node has a caller's cancellation, a
counterexample of some transition, or an answer in the group behind it) and
`Killings`/`Outcomes`, which carry that reason to whatever returns `Killed` or `Canceled`;
`RightResult` then follows at `Collect`. `AnswerKept` is an action property: a round in
which a solver has answered ends with that answer, whatever it cancels, or with the panic
of a thread that asked another solver, and with nothing else. The panics of cancelled
owners are steps of the system that this is proved of; without the second case it is false
(section 5). `PoolImplements` says that on a pool of any number of threads the query is
one of `ParallelQuery`, so that the three theorems hold there.

**`SolverProofs`** (any sorts, theory, limit and calls before). The search remembers its
last query and the assumptions gathered. `Maximum` and `Minimum` say what those are worth
in the two phases: the assumptions include those of the client's last check, no smaller
maximum has a model, and in the second phase the last query was about just these
assumptions. `AssumptionsHonoured` holds for every `Reuse`, with "includes"; that the
assumptions are no more than the client's, on which `MaximumSmallest` rests, needs
`~Reuse`. `AssumptionsHonoured` is also about the backends that are taken to return
minimal models, `MaximumSmallest` only about the search. `OnlyTheMaximum` is the
disagreement with the doc of `get_minimal_model` that section 5 names, as a theorem: at
the end every sort has the same bound.

**`AssertionsProofs`** (any structures, axioms, transitions and proofs, both commands, any
schedule of the checks). `Passed` is what an iteration of Houdini has established in the
middle: the candidates left hold initially, and one whose check ended without a model is
preserved, unless a check was unknown, in which case nothing is concluded. An iteration
that ends with nothing refuted therefore has an inductive set (`InductiveResult`).
`Soundness` goes by the least set that contains the initial states and is closed under the
steps that the axioms allow (`ReachableLeast`): each assertion without an error contains
it, since what is assumed does (`AssumedReachable`). For `LargestResult`, no member of an
inductive set of candidates is ever refuted as long as all of that set is still there.

**`QalphaProofs`** (any module, any finite set of lemmas with a subsumption order that is
sound for implication, overlapping domains, any schedule, cores, counterexamples and
simulation). `BlockedByCore` is inductive with the maps' inverse (`MapsInverse`): an
update unblocks everything whose core loses a lemma, so the cores that remain are still in
the frame. `Attended` follows a cycle: as long as it has found nothing, every lemma of the
frame is blocked or still to be asked about, so a cycle that ends without a counterexample
ends with an inductive frame (`ProofInductive`). For `ProofLeast`, `Wanted` is the union
of all inductive sets of lemmas, itself inductive: whatever a query or the simulation
finds satisfies it (`Reached`), and weakening keeps lemmas that subsume its members
(`Covered`). `MinimizedSound` has an invariant of its own, `MInv`: the frame's lemmas are
minimal among those of the domains, so one that was weakened away never comes back, and a
blocked one stays where it is as long as its core does (`Present`); hence the lookups of
`minimized_proof` succeed although cores of several cycles are put together. Lemmas must
be finitely many, for the minimal ones to exist below each.

**`UpdrProofs`** (any structures and diagrams, with any parts as cores, any predecessors,
any answers of the pushes). `FramesChain` is not inductive: a core is generalized against
one frame and added to all those up to an index, and `simplify` drops safety properties
from frames. The invariant takes the chain over any two frames (`Chain`), the one step
between neighbours up to safety (`OneStep`), the calls of `block()` on the stack with
their indices (`Calls`), and, after `establish_safety`, that no transition leaves the safe
states from a frame before the last (`StaysSafe`): that is what the dropped properties
rested on. `InductiveFrame` follows where two neighbours agree. `establish_safety`
collects the states to look at entry by entry, which the model has as a recursive
function; `ConcatsExist` shows that there is one, and `ConcatsIn` what is in it.
`StepsRight` (`StepsToBad`) adds to the invariant what each call on the stack is for: with
the frame of the call one lower, its target is one transition further from the unsafe
states (`CallDepths`), so the number that is noted for a predecessor, taken from the state
being blocked and not from the call, is right at any depth of the recursion. Its
hypothesis `ClausesHold`, that the clauses say no more than the assertions, is satisfied
by the instance of `updr_frames` and is needed: `term_to_cnf_clauses` reads the literal
"true" as "false", and with the assertion "p | true" TLC finds a state that is blocked but
leads to no unsafe one.

**`BoundedSearchProofs`** (any finite system that satisfies `IsSystem`, any depth, both
directions of `bdd.rs`, any order of a hash map, witness of a BDD or model of a solver).
`Layers` and `Paths` are recursive functions over the naturals, and functions that satisfy
such equations have to be shown to exist (`Iteration`). For `interpret` the invariant is
`Bfs`: all traces of the queue are of the current depth or one more; the layers up to the
current depth have been seen and, before it, are safe; and a state that was seen waits
with a trace that is no longer than any that leads to the state or to one isomorphic to
it, or was expanded (`Expanded`). This is where the order of the queue and the symmetry of
the system are needed: a state that is not kept because an isomorphic one was seen is as
good as expanded once that one is (`BfsExpand`). When the queue is empty, what was seen is
safe and closed under the steps, or all states within the depth have been seen
(`BfsDone`). For `bdd.rs` it is `Images`, that `trace` holds the layers; the backward
search is the forward search of the system reversed (`Direction`), and `Meet` carries its
answer over. A fixed point is reached after at most as many steps as there are states
(`Saturates`). While a trace is rebuilt, `Rebuilding` is a path whose open end lies in the
layer that is next, so that `unwrap` finds a state in the one before (`WitnessExists`).
For `sat.rs`, a state that may be repeated is in every later layer (`Repeated`), so that
Unknown speaks for those. The theorems are of `BoundedSearch`; a search of `Bounded` is
one of these from a system that `TranslationExact` finds to satisfy `SearchInit`.

**Only model-checked:** the liveness properties (`CancelUnblocks`, `CancelReturns`,
`AnswerReturns`, `Terminates`), since liveness under fairness and ENABLED are beyond the
prover's reach; of the lemma sets `Complete` and `Irredundant`, and `MapsExact` and
`LemmasCover`, which are about tries; and of `Bounded` the properties of sort inference,
the front end and the translation (`SortsInferred`, `FrontEndExact`, `TranslationExact`).
The last five rest on RECURSIVE operators (tries, terms) and so on what these compute for
every input, which would take an induction over data. Of `Complete` and `Irredundant` no
proof was found yet: the first depends on how the limits of a domain meet (see
`Expressible`, and the hazard at `lemma.rs:152`), the second on the permutations of the
blocks. Where several theorems need the same property of numbers, that a nonempty set of
them has a least one (`LeastNat`), induction is replaced by looking at the least
counterexample.

## 5. Findings

1. `updr_initial`: the clause that `block()` learns from a core need not hold initially,
   and is added to frame 0 all the same. In the run's trace the initial state has three
   elements, all with p; the predecessor to be blocked has two of three, the core that is
   left of its diagram is "two elements with p", and the frame that is returned as
   inductive excludes the initial state.
2. `bounded_depth`: `sat.rs` and `smt.rs` ask for an unsafe state after exactly `depth`
   steps. If r toggles in every step, an unsafe state is reached after one and none after
   two, and the command line says "safe up to depth 2". `AnswerRight` has what is true: no
   unsafe state that may repeat is missed.
3. `bounded_axioms`: `LANGUAGE.md:125` says of a formula with `always` that it is true in
   each state. `bdd.rs`, `sat.rs` and `smt.rs` assert the axioms that mention mutable
   relations of the state before a step only. In the run's trace r holds of all nodes at
   first, every step complements it, and the module assumes `always exists x. r(x)` and
   asserts the same: `sat.rs` has a counterexample of one step, to the assumption.
   `set.rs` evaluates the axioms after each transition (`set.rs:347`) and has none.

Disagreements seen while modelling that have no run:

* `minimize_card` creates an indicator for the cardinality it tries and does not assume it
  (`solver/src/imp.rs:291`): the second phase of `get_minimal_model` asks the same
  question again and minimises nothing.
* Houdini collects axioms and earlier assertions as assumptions and never asserts them in
  its queries (`houdini.rs:53`).
* The signal to a reaped pid (section 4) and the inverted literals of
  `term_to_cnf_clauses` (section 2, Updr).
* `ParallelSolvers::check_sat` comments "If a SAT or UNSAT result was found, return it"
  (`basics.rs:348`). The answer cancels the other solvers, and if the thread that asks one
  of these panics (`proc.rs:374`, `432`), its panic is raised by the `collect()` before
  the results are looked at: the answer is lost. `AnswerNotLost` allows this and nothing
  else.
* `ParallelSolvers` is documented to try its solvers until "one of them returns a
  sat/unsat/error response" (`basics.rs:209`). The thread that waits for them may have
  taken a job of another transition, and goes on only when that has ended, which takes as
  long as its solver does, even when the answer is a counterexample that would end the
  whole query. Without the exception in `AnswerReturns`, that is, as "a transition with an
  answer ends its round", TLC refutes it.
* `get_minimal_model` asks CVC for a model and no more, on the assumption that it is
  minimal (`backends.rs:249` has a TODO to make sure).
* `is_safe` checks that safety is preserved, not that the "fixpoint implies the safety
  predicates" (`fixpoint.rs:77`).
* With two clauses and an existential quantifier, weakening loses lemmas of the language:
  a body with a clause of `clause_size` literals is dropped where that clause could be
  (`lemma.rs:152`). No document promises otherwise; `Complete` therefore speaks of one
  clause.
* `QuantifierPrefix::subsumes` is to let a prefix without variables in a block be subsumed
  whatever the quantifier; its test is of the vector of blocks, which is never empty then
  (`quant.rs:326`). A lemma may so stay beside one that implies it.
* With `max_size` beyond the number of variables, `all_prefixes` gives the same prefix
  once for each size above that number. With a `growth_factor` of 0 or 1 the next set of
  domains may be the last one, and the loop of `qalpha` goes round without end
  (`fixpoint.rs:290`). If `clause_size` or `cubes` is below `MIN_DISJUNCTS` (3),
  `sub_spaces` is empty and the search has no domain. `choose` underflows where it is
  asked for more than there is by two.
* `inline_defs` does not visit the arguments of an application (`defs.rs:60`), where
  `LANGUAGE.md:251` has all macros expanded away: a definition in an argument stays, and
  the checkers panic or report it. `d'(x)` loses its prime. `subst` ignores shadowing
  (`defs.rs:39`, a TODO; `LANGUAGE.md:210` allows it) and lets variables be captured; a
  parameter with the name of an earlier definition is replaced by that one's body, or
  fails the assertion at `defs.rs:54` if it has parameters. `nullary_id_to_app` ignores
  shadowing too.
* `convert_non_bool_relations`: `c = c'` reaches `unreachable!()` and `c' = c` does not;
  `f(g(x)) = y` is left with a relation as an argument, which a later pass reports. An
  if-then-else between elements is enumerated as one between truth values, and panics for
  an element beyond 1 (`quant_enum.rs:215`).
* Since the axioms that make a relation a function mention mutable relations, the last
  state of a counterexample of `bdd.rs` or `sat.rs` may give one no value, and
  `back_convert_model` reaches `unreachable!()` (`rets.rs:128`; `ReportFails`).
* `UpdrVerify` never inlines definitions (`command.rs:607`), and `SmtCheck` does not
  convert functions.
* A module without a transition stands still for `set.rs` and may step anywhere for the
  others (`TranslationExact` leaves this case out).

The panic itself is recorded with the hazard at `proc.rs:374`: a cancellation between the
look at the status and the write to the pipe ends in it, where the doc of
`Status::Stopping` promises `Killed`.

## 6. Not modelled

Pure functions over terms and text, with no state of their own and tested by snapshots in
the repository: the parser and the printer of fly, `term/cnf.rs`, `term/subst.rs`,
`to_term` and `to_diagram` of `semantics.rs`, backends and model parsing, `smtlib` text.
I/O and reports: timing, benchmarking, tee files, and of the command line its arguments
and its output; its other commands go straight to the components above. Of the language,
the temporal operators other than `always` and `'`. The generation of atoms (`atoms.rs`),
which `LemmaSets` takes as given. Of the parts that carry logic, these are not modelled
yet: `simulate_from` and `get_pred` from the inside, MARCO (which nothing calls), and of
the bounded checkers the Tseytin encoding, `bdd_to_term`, the trie of guards, and
transition systems over several sorts (sort inference has two). Variables of several sorts
in a prefix are not in `LemmaSets` either: sorts there only keep blocks apart.

## 7. Plan

Order of what is left, the most important behaviour first.

1. Proofs: what is left to TLC is liveness and what rests on RECURSIVE operators. Of the
   weakened sets `Irredundant` could be proved next: that `insert` never meets a body that
   is there (`twice`), which rests on `Ignored` and `RemoveSubsumed`.
2. The Tseytin encoding of `sat.rs`, against evaluation, in `Bounded`.
3. `simulate_from` in `Qalpha`.
4. `Cnf`: `body_to_clauses` over small terms, against evaluation.
5. `Marco`: the enumeration for every monotone function of three inputs.

Runs stay few: when a module of the plan comes in, runs that ask a question another one
answers as well are merged or given up.
