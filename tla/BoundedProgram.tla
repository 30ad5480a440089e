---------------------------- MODULE BoundedProgram ----------------------------
(***************************************************************************)
(* translate() of bounded/set.rs: a module becomes initial states and      *)
(* guarded updates.  A disjunct of the transition becomes one Transition;  *)
(* for the mutable atoms it leaves open there is one for each choice; and  *)
(* those that break an axiom are dropped, or the module is refused when    *)
(* that cannot be decided without a state.                                 *)
(***************************************************************************)
EXTENDS Enumerated

(* Formula: negation is pushed into the Guards.  Its constructors simplify *)
(* as those of Enumerated do.                                              *)
Guard(a, value) == [op |-> "Guard", index |-> a, value |-> value]

RECURSIVE FormulaNot(_)
FormulaNot(f) ==
  CASE f.op = "And" -> Disjunction({FormulaNot(g) : g \in f.args})
    [] f.op = "Or" -> Conjunction({FormulaNot(g) : g \in f.args})
    [] f.op = "Guard" -> Guard(f.index, ~f.value)

FormulaIff(f, g) ==
  Disjunction({Conjunction({f, g}), Conjunction({FormulaNot(f), FormulaNot(g)})})

RECURSIVE FormulaHolds(_, _)
FormulaHolds(f, s) ==
  CASE f.op = "And" -> \A g \in f.args : FormulaHolds(g, s)
    [] f.op = "Or" -> \E g \in f.args : FormulaHolds(g, s)
    [] f.op = "Guard" -> (f.index \in s) = f.value

RECURSIVE GuardIndices(_)
GuardIndices(f) ==
  IF f.op = "Guard" THEN {f.index} ELSE UNION {GuardIndices(g) : g \in f.args}

(* evaluate_partial, as the set of its possible results: try_fold stops at *)
(* the first term that is not known, and the order of terms is not part of *)
(* the model.                                                              *)
RECURSIVE EvaluatePartial(_, _)
EvaluatePartial(f, known) ==
  LET results == {EvaluatePartial(g, known) : g \in f.args}
      Some(r) == {x \in {r} : \E R \in results : r \in R}
      Every(r) == {x \in {r} : \A R \in results : r \in R} IN
  CASE f.op = "And" -> Every("true") \cup Some("false") \cup Some("unknown")
    [] f.op = "Or" -> Every("false") \cup Some("true") \cup Some("unknown")
    [] f.op = "Guard" ->
         {IF f.index \notin DOMAIN known THEN "unknown"
          ELSE IF known[f.index] = f.value THEN "true" ELSE "false"}

(* enumerated_to_formula, for a term without primes; with one it returns   *)
(* PrimeInFormula.                                                         *)
Parts(e) ==
  CASE e.op \in {"And", "Or"} -> e.args
    [] e.op = "Eq" -> {e.left, e.right}
    [] e.op = "Not" -> {e.arg}

RECURSIVE Primed(_)
Primed(e) == IF e.op = "App" THEN e.primes > 0 ELSE \E u \in Parts(e) : Primed(u)

RECURSIVE Formula(_)
Formula(e) ==
  CASE e.op = "And" -> Conjunction({Formula(u) : u \in e.args})
    [] e.op = "Or" -> Disjunction({Formula(u) : u \in e.args})
    [] e.op = "Not" -> FormulaNot(Formula(e.arg))
    [] e.op = "Eq" -> FormulaIff(Formula(e.left), Formula(e.right))
    [] e.op = "App" -> Guard(<<e.rel, e.args>>, TRUE)

-----------------------------------------------------------------------------
(* A Transition, with the failures its construction may end in: guards and *)
(* updates are sets, of Guards and of [index, formula].                    *)
Transition(guards, updates, slow_guard) ==
  [guards |-> guards, updates |-> updates, slow_guard |-> slow_guard, failures |-> {}]
Update(a, f) == [index |-> a, formula |-> f]
Failure(x) == [Transition({}, {}, True) EXCEPT !.failures = {x}]

Conflict(S) == \E x, y \in S : x # y /\ x.index = y.index

FromConjunction(trs) ==
  LET guards == UNION {tr.guards : tr \in trs}
      updates == UNION {tr.updates : tr \in trs}
      failures == UNION {tr.failures : tr \in trs} IN
  CASE failures # {} -> [Transition({}, {}, True) EXCEPT !.failures = failures]
    [] failures = {} /\ (Conflict(guards) \/ Conflict(updates)) -> Failure("panic")
    [] OTHER -> Transition(guards, updates, Conjunction({tr.slow_guard : tr \in trs}))

(* The last case of enumerated_to_transition: no primes.                   *)
OneState(e) ==
  LET terms == Conjuncts(Formula(e)) IN
  CASE Primed(e) -> Failure("PrimeInFormula")
    [] ~Primed(e) /\ \A f \in terms : f.op = "Guard" -> Transition(terms, {}, True)
    [] OTHER -> Transition({}, {}, Conjunction(terms))

(* The case of Enumerated::Not, which only negates an Iff or an App.       *)
Negated(e, tr) ==
  CASE tr.failures # {} -> tr
    [] tr.slow_guard = True /\ Cardinality(tr.guards) = 1 /\ tr.updates = {} ->
         [tr EXCEPT !.guards = {FormulaNot(g) : g \in tr.guards}]
    [] tr.slow_guard = True /\ tr.guards = {} /\ Cardinality(tr.updates) = 1 ->
         [tr EXCEPT !.updates = {Update(u.index, FormulaNot(u.formula)) : u \in tr.updates}]
    [] tr.guards = {} /\ tr.updates = {} -> [tr EXCEPT !.slow_guard = FormulaNot(@)]
    [] OTHER -> IF Primed(e) THEN Failure("PrimeInFormula")
                ELSE Transition({}, {}, Formula(e))

IsPost(e) == e.op = "App" /\ e.primes = 1

(* enumerated_to_transition.                                               *)
RECURSIVE ToTransition(_)
ToTransition(e) ==
  CASE e.op = "And" -> FromConjunction({ToTransition(u) : u \in e.args})
    [] e.op = "Not" -> Negated(e, ToTransition(e.arg))
    [] e.op = "Eq" /\ IsPost(e.left) ->
         IF Primed(e.right) THEN Failure("PrimeInFormula")
         ELSE Transition({}, {Update(<<e.left.rel, e.left.args>>, Formula(e.right))}, True)
    [] IsPost(e) -> Transition({}, {Update(<<e.rel, e.args>>, True)}, True)
    [] OTHER -> OneState(e)

-----------------------------------------------------------------------------
Updated(tr) == {u.index : u \in tr.updates}

(* One transition for each choice of the atoms it leaves open.             *)
Completions(tr, mutable) ==
  {[tr EXCEPT !.updates = @ \cup {Update(a, Constant(a \in T)) : a \in mutable \ Updated(tr)}] :
     T \in SUBSET (mutable \ Updated(tr))}

(* The filter of no-ops: what is known from the guards is not updated.     *)
(* A mutation: a constant update of what a guard mentions counts as one.   *)
IsNoOpIfGuarded(tr, u) ==
  \/ u.formula = Guard(u.index, TRUE)
  \/ IsConstant(u.formula) /\ \E g \in tr.guards : g.index = u.index

IsNoOp(tr, u) ==
  \/ u.formula = Guard(u.index, TRUE)
  \/ u.formula = True /\ Guard(u.index, TRUE) \in tr.guards
  \/ u.formula = False /\ Guard(u.index, FALSE) \in tr.guards
WithoutNoOps(tr) == [tr EXCEPT !.updates = {u \in @ : ~IsNoOp(tr, u)}]

(* What holds after the transition whatever the state before.              *)
KnownAfter(tr) ==
  LET kept == {g \in tr.guards : g.index \notin Updated(tr)}
      fixed == {u \in tr.updates : IsConstant(u.formula)} IN
  [a \in {x.index : x \in kept \cup fixed} |->
     Guard(a, TRUE) \in kept \/ Update(a, True) \in fixed]

(* What the axioms make of a transition: "true" keeps it, "false" drops    *)
(* it, "unknown" refuses the module.                                       *)
AxiomCheck(tr, axioms) ==
  IF GuardIndices(axioms) \cap Updated(tr) = {} THEN {"true"}
  ELSE EvaluatePartial(axioms, KnownAfter(tr))

(* The checks at the end of translate() that the code panics on.           *)
Sane(tr, mutable) ==
  /\ Updated(tr) \subseteq mutable
  /\ ~Conflict(tr.guards) /\ ~Conflict(tr.updates)
  /\ \A g \in tr.guards : Update(g.index, Constant(g.value)) \notin tr.updates
  /\ \A u \in tr.updates : u.formula # Guard(u.index, TRUE)
  /\ tr.slow_guard # False

(* translate(), as the set of its possible results: a program, or a        *)
(* failure.                                                                *)
Refused(failures) == {[failure |-> x] : x \in failures}
InitStates(d) ==
  LET init == EnumeratedAll(d, d.inits \cup d.axioms) IN
  {s \in States(d.sig) : Evaluate(init, s, s)}
Program(d, trs) ==
  [failure |-> "none", inits |-> InitStates(d), trs |-> trs,
   safe |-> Formula(EnumeratedAll(d, d.safeties))]

Translations(d) ==
  LET mutable == MutableAtoms(d.sig)
      steps == {Enumerated(d.sig, t) : t \in Range(d.transitions)}
      converted == {ToTransition(e) : e \in UNION {Disjuncts(e) : e \in steps}}
      failures == UNION {tr.failures : tr \in converted}
      open == {tr \in converted : tr.slow_guard # False}
      all == {WithoutNoOps(tr) : tr \in UNION {Completions(tr, mutable) : tr \in open}}
      axioms == Formula(EnumeratedAll(d, MutableAxioms(d)))
      check == [tr \in all |-> AxiomCheck(tr, axioms)]
      kept == {tr \in all : "true" \in check[tr]}
      Known == ~\E tr \in all : check[tr] = {"unknown"}
      Result == CASE EnumeratedAll(d, d.safeties) = Error -> Refused({"EnumerationError"})
                  [] \E tr \in kept : ~Sane(tr, mutable) -> Refused({"panic"})
                  [] OTHER -> {Program(d, kept)} IN
  CASE EnumeratedAll(d, d.inits \cup d.axioms) = Error -> Refused({"EnumerationError"})
    [] Len(d.transitions) > 1 -> Refused({"MultipleTrs"})
    [] Error \in steps -> Refused({"EnumerationError"})
    [] failures # {} -> Refused(failures)
    [] OTHER -> Refused({"UnprovenMutableAxiom" : tr \in {x \in all : "unknown" \in check[x]}})
                  \cup IF Known THEN Result ELSE {}

-----------------------------------------------------------------------------
(* Transitions::get_subsets, and the update in interpret().                *)
Enabled(tr, s) ==
  /\ \A g \in tr.guards : FormulaHolds(g, s)
  /\ FormulaHolds(tr.slow_guard, s)

Apply(tr, s) ==
  (s \ Updated(tr)) \cup {u.index : u \in {x \in tr.updates : FormulaHolds(x.formula, s)}}

Successors(program, s) == {Apply(tr, s) : tr \in {x \in program.trs : Enabled(x, s)}}

(* IsoStateSet: the states that differ by a permutation of the elements of *)
(* each sort of the signature.                                             *)
Renamings(sig) ==
  {pi \in [Range(sig.sorts) -> UNION {Permutations(Universe[x]) : x \in Range(sig.sorts)}] :
     \A x \in Range(sig.sorts) : DOMAIN pi[x] = Universe[x]}

Renamed(sig, s, pi) ==
  LET args(f) == Decl(sig, f).args
      element(sort, e) == IF sort = Bool THEN e ELSE pi[sort][e] IN
  {<<a[1], [i \in DOMAIN a[2] |-> element(args(a[1])[i], a[2][i])]>> : a \in s}

Orbit(sig, s) == {Renamed(sig, s, pi) : pi \in Renamings(sig)}
=============================================================================
