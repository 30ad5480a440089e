---------------------------- MODULE BoundedSearch ----------------------------
(***************************************************************************)
(* The searches of the bounded model checkers, over a transition system:   *)
(* interpret() of set.rs goes breadth first, up to permutations of the     *)
(* universe; bdd.rs takes images of sets of states, from the initial       *)
(* states or back from the unsafe ones; sat.rs and smt.rs ask for one path *)
(* of a given length.  Where the system comes from is the matter of        *)
(* Bounded, which extends this module.                                     *)
(*                                                                         *)
(* The queue is the set of its traces: of those of the same depth any may  *)
(* come next, and any state of an orbit may be the one that is kept, as    *)
(* the iteration over hash maps decides.  A Bdd is the set of states, or   *)
(* of pairs of states, that satisfy it.  A solver may return any model.    *)
(***************************************************************************)
EXTENDS Naturals, SequencesExt

CONSTANT MaxDepth     \* the bound on the depths asked for

ASSUME BoundedAssumption == MaxDepth \in Nat

Unbounded == MaxDepth + 1      \* no depth was given

VARIABLES
  checker, depth, compress,    (* the call                                     *)
  pc,
  system,      (* its states, the initial and the unsafe ones, the steps, and  *)
               (* the states that a permutation makes of each                  *)
  queue, seen, current_depth,    (* of interpret()                             *)
  layers,      (* `trace` of bdd.rs                                            *)
  reachable,
  models,      (* the states of the counterexample                             *)
  answer

call == <<checker, depth, compress>>
set == <<queue, seen, current_depth>>
bdd == <<layers, reachable>>
search == <<call, pc, system, set, bdd, models, answer>>

Checkers == {"set", "bdd", "reversed", "sat"}
Within(i) == depth = Unbounded \/ i < depth

(* The call of a checker.                                                  *)
Called ==
  /\ checker \in Checkers /\ depth \in 0 .. Unbounded
  /\ checker = "sat" => depth # Unbounded
  /\ compress \in {FALSE, checker = "set"}

(* What the searches take for granted of a system: permutations of the     *)
(* universe change nothing.  They are an equivalence of the states, no     *)
(* unsafe state becomes safe, and each step becomes a step.                *)
IsSystem(sys) ==
  /\ IsFiniteSet(sys.states)
  /\ sys.init \subseteq sys.states /\ sys.not_safe \subseteq sys.states
  /\ sys.tr \subseteq sys.states \X sys.states
  /\ sys.orbit \in [sys.states -> SUBSET sys.states]
  /\ \A s \in sys.states :
       s \in sys.orbit[s] /\ \A t \in sys.orbit[s] : sys.orbit[t] = sys.orbit[s]
  /\ \A s \in sys.not_safe : sys.orbit[s] \subseteq sys.not_safe
  /\ \A st \in sys.tr : \A s \in sys.orbit[st[1]] :
       \E t \in sys.orbit[st[2]] : <<s, t>> \in sys.tr

(* A call of a checker, with nothing searched yet.                         *)
Idle ==
  /\ queue = {} /\ seen = {} /\ current_depth = 0
  /\ layers = <<>> /\ reachable = {} /\ models = <<>> /\ answer = "none"

SearchInit == pc = "start" /\ Called /\ IsSystem(system) /\ Idle

Return(result) == answer' = result /\ pc' = "done"
Found == answer' = "Counterexample" /\ pc' = "report"

-----------------------------------------------------------------------------
(* interpret().  What a loop of seen.insert over S may accept: one state   *)
(* of each orbit that was not seen before.                                 *)
Accepted(S) ==
  {A \in SUBSET (S \ seen) :
     /\ \A s \in S \ seen : \E t \in A : t \in system.orbit[s]
     /\ \A s, t \in A : t \in system.orbit[s] => s = t}

Orbits(S) == UNION {system.orbit[s] : s \in S}

Trace(states, n) == [states |-> states, depth |-> n]
Push(trace, s) ==
  Trace(IF compress THEN <<s>> ELSE Append(trace.states, s), trace.depth + 1)

After(tr, S) == {st[2] : st \in {x \in tr : x[1] \in S}}
Before(tr, S) == {st[1] : st \in {x \in tr : x[2] \in S}}

Enqueue ==
  /\ pc = "start" /\ checker = "set"
  /\ \E S \in Accepted(system.init) :
       /\ queue' = {Trace(<<s>>, 0) : s \in S}
       /\ seen' = Orbits(S)
  /\ pc' = "search"
  /\ UNCHANGED <<call, system, current_depth, bdd, models, answer>>

Safe(s) == s \notin system.not_safe

(* A mutation: a stack, or any other order, instead of the queue.          *)
InFrontOrNot == queue

InFront == {trace \in queue : \A other \in queue : trace.depth <= other.depth}

Pop ==
  /\ pc = "search" /\ queue # {}
  /\ \E trace \in InFront :
       /\ current_depth' = current_depth + IF trace.depth > current_depth THEN 1 ELSE 0
       /\ \/ /\ ~Safe(Last(trace.states))
             /\ models' = trace.states
             /\ Found
             /\ UNCHANGED <<queue, seen>>
          \/ /\ Safe(Last(trace.states)) /\ Within(trace.depth)
             /\ \E S \in Accepted(After(system.tr, {Last(trace.states)})) :
                  /\ queue' = (queue \ {trace}) \cup {Push(trace, s) : s \in S}
                  /\ seen' = seen \cup Orbits(S)
             /\ UNCHANGED <<pc, models, answer>>
          \/ /\ Safe(Last(trace.states)) /\ ~Within(trace.depth)
             /\ queue' = queue \ {trace}
             /\ UNCHANGED <<pc, seen, models, answer>>
  /\ UNCHANGED <<call, system, bdd>>

(* A mutation: the depth limit counts as a fixed point.                    *)
ExhaustedAtDepth ==
  /\ pc = "search" /\ queue = {}
  /\ Return(IF Within(current_depth - 1) THEN "Convergence" ELSE "Unknown")
  /\ UNCHANGED <<call, system, set, bdd, models>>

Exhausted ==
  /\ pc = "search" /\ queue = {}
  /\ Return(IF Within(current_depth) THEN "Convergence" ELSE "Unknown")
  /\ UNCHANGED <<call, system, set, bdd, models>>

-----------------------------------------------------------------------------
(* check_internal(), from `from` to `goal`.                                *)
Symbolically == checker \in {"bdd", "reversed"}
From == IF checker = "bdd" THEN system.init ELSE system.not_safe
Goal == IF checker = "bdd" THEN system.not_safe ELSE system.init
Image(S) == IF checker = "bdd" THEN After(system.tr, S) ELSE Before(system.tr, S)

StartImages ==
  /\ pc = "start" /\ Symbolically
  /\ layers' = <<From>> /\ reachable' = From
  /\ pc' = "check"
  /\ UNCHANGED <<call, system, set, models, answer>>

(* current.and(&not_safe).sat_witness()                                    *)
Check ==
  /\ pc = "check"
  /\ LET hits == Last(layers) \cap Goal IN
     \/ /\ hits = {}
        /\ pc' = "image" /\ UNCHANGED models
     \/ /\ \E s \in hits : models' = <<s>>
        /\ pc' = "rebuild"
  /\ UNCHANGED <<call, system, set, bdd, answer>>

TakeImage ==
  /\ pc = "image" /\ Within(Len(layers) - 1)
  /\ LET current == Image(Last(layers)) IN
     \/ /\ current \subseteq reachable
        /\ Return("Convergence")
        /\ UNCHANGED bdd
     \/ /\ ~(current \subseteq reachable)
        /\ reachable' = reachable \cup current
        /\ layers' = Append(layers, current)
        /\ pc' = "check" /\ UNCHANGED answer
  /\ UNCHANGED <<call, system, set, models>>

DepthReached ==
  /\ pc = "image" /\ ~Within(Len(layers) - 1)
  /\ Return("Unknown")
  /\ UNCHANGED <<call, system, set, bdd, models>>

(* trace_to_models(): one more state, from the layer before the last one   *)
(* used.  The code unwraps the witness, see CounterexampleRight.           *)
Witnesses ==
  LET layer == layers[Len(layers) - Len(models)] IN
  IF checker = "bdd" THEN {s \in layer : <<s, Head(models)>> \in system.tr}
                     ELSE {s \in layer : <<Last(models), s>> \in system.tr}

Rebuild ==
  /\ pc = "rebuild" /\ Len(models) < Len(layers)
  /\ \E s \in Witnesses :
       models' = IF checker = "bdd" THEN <<s>> \o models ELSE Append(models, s)
  /\ UNCHANGED <<call, pc, system, set, bdd, answer>>

Rebuilt ==
  /\ pc = "rebuild" /\ Len(models) = Len(layers)
  /\ Found
  /\ UNCHANGED <<call, system, set, bdd, models>>

-----------------------------------------------------------------------------
(* sat.rs and smt.rs: the paths of n steps.                                *)
Paths(sys) ==
  LET Of[n \in Nat] ==
        IF n = 0 THEN {<<s>> : s \in sys.init}
        ELSE UNION {{Append(p, s) : s \in After(sys.tr, {Last(p)})} : p \in Of[n - 1]}
  IN  Of

Unrolled == {p \in Paths(system)[depth] : Last(p) \in system.not_safe}

Solve ==
  /\ pc = "start" /\ checker = "sat"
  /\ LET unrolled == Unrolled IN
     \/ /\ \E p \in unrolled : models' = p
        /\ Found
     \/ /\ unrolled = {}
        /\ Return("Unknown") /\ UNCHANGED models
  /\ UNCHANGED <<call, system, set, bdd>>

(* SatSolverFailed, SolverError                                            *)
SolverFails ==
  /\ pc = "start" /\ checker = "sat"
  /\ Return("SolverError")
  /\ UNCHANGED <<call, system, set, bdd, models>>

SearchNext ==
  \/ Enqueue \/ Pop \/ Exhausted
  \/ StartImages \/ Check \/ TakeImage \/ DepthReached \/ Rebuild \/ Rebuilt
  \/ Solve \/ SolverFails

(* One call of a checker.                                                  *)
SearchSpec == SearchInit /\ [][SearchNext]_search

-----------------------------------------------------------------------------
(* The states that are reached in n steps, and in at most n.               *)
Layers(sys) ==
  LET In[n \in Nat] == IF n = 0 THEN sys.init ELSE After(sys.tr, In[n - 1]) IN In

Upto(sys, n) == UNION {Layers(sys)[k] : k \in 0 .. n}

(* A counterexample is a path of the system from an initial to an unsafe   *)
(* state, and none is shorter; of a compressed one, the last state.  When  *)
(* bdd.rs has reached its goal, it finds such a path: no unwrap() fails.   *)
CounterexampleRight ==
  /\ pc = "rebuild" /\ Len(models) < Len(layers) => Witnesses # {}
  /\ answer = "Counterexample" =>
       LET n == IF compress THEN current_depth ELSE Len(models) - 1 IN
       /\ Last(models) \in Layers(system)[n] \cap system.not_safe
       /\ ~compress =>
            /\ models[1] \in system.init
            /\ \A i \in 1 .. n : <<models[i], models[i + 1]>> \in system.tr
       /\ IF checker = "sat" THEN n = depth
          ELSE \A k \in 0 .. n - 1 : Layers(system)[k] \cap system.not_safe = {}

(* Convergence means that no unsafe state can be reached: what n steps     *)
(* reach, for some n, has no unsafe state and no step leaves it.           *)
(* Unknown means that a depth was given, that it ended the search of       *)
(* bdd.rs, and that no unsafe state can be reached within it; but sat.rs   *)
(* misses those that cannot be repeated.                                   *)
AnswerRight ==
  /\ answer = "Convergence" =>
       \E n \in 0 .. Cardinality(system.states) :
         LET S == Upto(system, n) IN
         S \cap system.not_safe = {} /\ After(system.tr, S) \subseteq S
  /\ answer = "Unknown" =>
       /\ depth # Unbounded
       /\ \A s \in Upto(system, depth) \cap system.not_safe :
            checker = "sat" /\ <<s, s>> \notin system.tr
       /\ checker = "bdd" /\ depth > 0 =>
            ~(Layers(system)[depth] \subseteq Upto(system, depth - 1))

(* The command line says "safe up to depth" when sat.rs answers Unknown    *)
(* (command.rs), and describes the depth as the maximum number of          *)
(* transitions to consider: no unsafe state can be reached within it.      *)
SafeUpToDepth == answer = "Unknown" => Upto(system, depth) \cap system.not_safe = {}
=============================================================================
