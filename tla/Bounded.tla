------------------------------- MODULE Bounded -------------------------------
(***************************************************************************)
(* The bounded model checkers from the parsed module to the answer, as the *)
(* command line runs them: the passes of the front end, the translation    *)
(* of the module to a transition system, the search (BoundedSearch), and   *)
(* the report.  set.rs has a program of its own, whose steps are computed  *)
(* here at once; the formulas of the others stand for what satisfies them. *)
(***************************************************************************)
EXTENDS BoundedProgram, BoundedSearch

CONSTANT Sources     \* the sequence of the modules, as they are parsed

VARIABLES
  source,      (* which module                                                 *)
  module       (* what has become of it                                        *)

front == <<source, module>>
vars == <<front, search>>

Decls == module.signature

Init ==
  /\ source \in DOMAIN Sources /\ module = Sources[source]
  /\ checker = "none" /\ depth = 0 /\ compress = FALSE
  /\ pc = "sorts" /\ system = <<>> /\ Idle

-----------------------------------------------------------------------------
(* App::exec, up to the call of a checker.                                 *)
CheckSorts ==
  /\ pc = "sorts"
  /\ module' = SortChecked(module)
  /\ IF WellDeclared(module) /\ FailuresOf(module') = {}
     THEN pc' = "inline" /\ UNCHANGED answer
     ELSE Return("SortError")
  /\ UNCHANGED <<source, call, system, set, bdd, models>>

InlineDef ==
  /\ pc = "inline" /\ module.defs # <<>>
  /\ module' = Inlined(module)
  /\ \/ FailuresOf(module') = {} /\ UNCHANGED <<pc, answer>>
     \/ \E x \in FailuresOf(module') : Return(x)
  /\ UNCHANGED <<source, call, system, set, bdd, models>>

Convert ==
  /\ pc = "inline" /\ module.defs = <<>>
  /\ module' = Converted(module)
  /\ \/ FailuresOf(module') = {} /\ pc' = "call" /\ UNCHANGED answer
     \/ \E x \in FailuresOf(module') : Return(x)
  /\ UNCHANGED <<source, call, system, set, bdd, models>>

Call ==
  /\ pc = "call"
  /\ checker' \in Checkers /\ depth' \in 0 .. Unbounded
  /\ checker' = "sat" => depth' # Unbounded
  /\ compress' \in {FALSE, checker' = "set"}
  /\ pc' = "extract"
  /\ UNCHANGED <<front, system, set, bdd, models, answer>>

-----------------------------------------------------------------------------
SameImmutables(mutable, s, t) == s \ mutable = t \ mutable

(* What interpret() meets of a program.                                    *)
Explored(program) ==
  LET states == States(Decls) IN
  [failure |-> "none", states |-> states,
   init |-> program.inits,
   tr |-> UNION {{<<s, t>> : t \in Successors(program, s)} : s \in states},
   not_safe |-> {s \in states : ~FormulaHolds(program.safe, s)},
   orbit |-> [s \in states |-> Orbit(Decls, s)]]

(* The formulas of bdd.rs, sat.rs and smt.rs: axioms are part of the       *)
(* initial states, and those that mention mutable relations of a step.     *)
Symbolic(d) ==
  LET step == EnumeratedAll(d, Range(d.transitions) \cup MutableAxioms(d))
      safe == EnumeratedAll(d, d.safeties)
      states == States(d.sig)
      mutable == MutableAtoms(d.sig) IN
  IF Error \in {EnumeratedAll(d, d.inits \cup d.axioms), step, safe}
  THEN [failure |-> "EnumerationError"]
  ELSE [failure |-> "none", states |-> states,
        init |-> InitStates(d),
        tr |-> {st \in states \X states :
                  SameImmutables(mutable, st[1], st[2]) /\ Evaluate(step, st[1], st[2])},
        not_safe |-> {s \in states : ~Evaluate(safe, s, s)},
        orbit |-> [s \in states |-> {s}]]

ExtractFails ==
  /\ pc = "extract" /\ ~Extracts(module)
  /\ Return("ExtractionError")
  /\ UNCHANGED <<front, call, system, set, bdd, models>>

Results ==
  IF checker = "set"
  THEN {IF p.failure = "none" THEN Explored(p) ELSE p : p \in Translations(Extract(module))}
  ELSE {Symbolic(Extract(module))}

Translate ==
  /\ pc = "extract" /\ Extracts(module)
  /\ \E result \in Results :
       \/ /\ result.failure = "none"
          /\ system' = result /\ pc' = "start" /\ UNCHANGED answer
       \/ /\ result.failure # "none"
          /\ Return(result.failure) /\ UNCHANGED system
  /\ UNCHANGED <<front, call, set, bdd, models>>

-----------------------------------------------------------------------------
(* The counterexample is printed in terms of the functions of the source.  *)
Printable(s) == HasValues(Sources[source].signature, s)

Report ==
  /\ pc = "report" /\ \A s \in Range(models) : Printable(s)
  /\ pc' = "done"
  /\ UNCHANGED <<front, call, system, set, bdd, models, answer>>

ReportFails ==
  /\ pc = "report" /\ \E s \in Range(models) : ~Printable(s)
  /\ Return("ReportPanic")
  /\ UNCHANGED <<front, call, system, set, bdd, models>>

Next ==
  \/ CheckSorts \/ InlineDef \/ Convert \/ Call
  \/ ExtractFails \/ Translate
  \/ SearchNext /\ UNCHANGED front
  \/ Report \/ ReportFails

Spec == Init /\ [][Next]_vars

-----------------------------------------------------------------------------
(* Sort inference: a module is accepted when there is exactly one way to   *)
(* give the sorts that its quantifiers leave off such that all its terms   *)
(* are well sorted, and that is the one that is found.                     *)
SortsInferred ==
  [][pc = "sorts" =>
       \A sortings \in {{s[2] : s \in Sortings(module)}} :
         /\ (answer' = "none") <=> WellDeclared(module) /\ \A S \in sortings : Cardinality(S) = 1
         /\ answer' = "none" => sortings = {{t} : t \in TermsOf(module')}]_vars

(* The front end loses nothing: each definition that is inlined and the    *)
(* conversion of the functions leave the meaning of every statement as it  *)
(* was, in all pairs of structures, where the code's assumptions hold.     *)
FrontEndExact ==
  [][pc = "inline" /\ SortsOk(module) =>
       /\ module.defs # <<>> /\ Inlinable(module) => answer' = "none" /\ SameMeaning(module, module')
       /\ module.defs = <<>> /\ Convertible(module) /\ answer' = "none" =>
            SameMeaning(module, module') /\ SameStructures(module, module')]_vars

(* What the converted modules say, by the meaning of their terms: a term   *)
(* below an `always` is true in each state, so all states, also those that *)
(* a step leads to, satisfy the axioms, and the transitions relate each to *)
(* the next one.  Without a transition every step is allowed.              *)
RECURSIVE WithoutDefs(_)
WithoutDefs(m) == IF m.defs = <<>> THEN m ELSE WithoutDefs(Inlined(m))
Processed(m) == Converted(WithoutDefs(SortChecked(m)))

Meant(m) ==
  LET d == Extract(m)
      states == States(m.signature)
      mutable == MutableAtoms(m.signature)
      sat(ts) == {s \in states : \A t \in ts : Value(m, t, <<>>, <<s>>) = 1} IN
  [axioms |-> sat(d.axioms),
   init |-> sat(d.inits) \cap sat(d.axioms),
   unsafe |-> states \ sat(d.safeties),
   moves |-> d.transitions # <<>>,
   steps |-> {st \in sat(d.axioms) \X sat(d.axioms) :
                /\ SameImmutables(mutable, st[1], st[2])
                /\ \A t \in Range(d.transitions) : Value(m, t, <<>>, st) = 1}]

Meaning ==
  [i \in DOMAIN Sources |->
     UNION {IF SortsOk(m) /\ Extracts(m) THEN {Meant(m)} ELSE {} :
              m \in {Processed(x) : x \in {y \in {Sources[i]} : SortsOk(y)}}}]

(* The searches are given what BoundedSearch takes for granted, and among  *)
(* the states that satisfy the axioms it means what the module says:       *)
(* enumerated_to_transition, the cubes of what a transition leaves open,   *)
(* the removal of no-ops and the evaluation of the axioms lose no step and *)
(* add none, and no relation tells one element of the universe from        *)
(* another by its name.  That set.rs stands still where a module has no    *)
(* transition is the one exception.  Of set.rs it is moreover required     *)
(* that no step leaves the axioms; AxiomsInTrace asks it of the others.    *)
TranslationExact ==
  pc = "start" =>
    /\ SearchInit
    /\ \E M \in Meaning[source] :
         /\ system.init = M.init /\ system.not_safe = M.unsafe
         /\ M.moves \/ checker # "set" => system.tr \cap (M.axioms \X M.axioms) = M.steps
         /\ checker = "set" => After(system.tr, M.axioms) \subseteq M.axioms

(* LANGUAGE.md: "A formula with `always` says that the formula should be   *)
(* true in each state."  All the states of a counterexample that is        *)
(* printed satisfy the axioms.  bdd.rs, sat.rs and smt.rs assert them      *)
(* before each step, and not of the last state.                            *)
AxiomsInTrace ==
  pc = "done" /\ answer = "Counterexample" =>
    \A M \in Meaning[source] : Range(models) \subseteq M.axioms
=============================================================================
