------------------------------ MODULE Enumerated ------------------------------
(***************************************************************************)
(* What the bounded checkers make of a module before they search: extract  *)
(* of fly/transitions.rs sorts its statements, and quant_enum.rs expands   *)
(* the quantifiers of a term over a universe of known size.                *)
(*                                                                         *)
(* In the language of Enumerated, conjunctions and disjunctions hold sets, *)
(* because the code sorts their terms and removes duplicates.  A ground    *)
(* atom is a relation with its elements, what indices.rs numbers; a state  *)
(* is the set of those that hold.                                          *)
(***************************************************************************)
EXTENDS FrontEnd

Atoms(sig) ==
  UNION {{r.name} \X Arguments(r.args) : r \in Range(sig.relations)}
MutableAtoms(sig) == {a \in Atoms(sig) : a[1] \in MutableNames(sig)}
States(sig) == SUBSET Atoms(sig)

EApp(r, primes, args) == [op |-> "App", rel |-> r, primes |-> primes, args |-> args]
ENot(t) == [op |-> "Not", arg |-> t]
EAnd(ts) == [op |-> "And", args |-> ts]
EOr(ts) == [op |-> "Or", args |-> ts]
EEq(t, u) == [op |-> "Eq", left |-> t, right |-> u]
True == EAnd({})
False == EOr({})

-----------------------------------------------------------------------------
(* The simplifying constructors of Enumerated.                             *)
Conjuncts(t) == IF t.op = "And" THEN t.args ELSE {t}
Disjuncts(t) == IF t.op = "Or" THEN t.args ELSE {t}

Conjunction(ts) ==
  LET flat == UNION {Conjuncts(t) : t \in ts} IN
  CASE False \in flat -> False
    [] Cardinality(flat) = 1 -> CHOOSE t \in flat : TRUE
    [] OTHER -> EAnd(flat)

Disjunction(ts) ==
  LET flat == UNION {Disjuncts(t) : t \in ts} IN
  CASE True \in flat -> True
    [] Cardinality(flat) = 1 -> CHOOSE t \in flat : TRUE
    [] OTHER -> EOr(flat)

RECURSIVE Negation(_)
Negation(t) ==
  CASE t.op = "And" -> Disjunction({Negation(u) : u \in t.args})
    [] t.op = "Or" -> Conjunction({Negation(u) : u \in t.args})
    [] t.op = "Not" -> t.arg
    [] OTHER -> ENot(t)

Constant(b) == IF b THEN True ELSE False
IsConstant(t) == t \in {True, False}

-----------------------------------------------------------------------------
(* Next::normalize: primes move to the applications of mutable relations,  *)
(* and to free identifiers.                                                *)
RECURSIVE WithNext(_, _, _, _)
WithNext(sig, t, bound, next) ==
  LET inner == IF IsQuantified(t) THEN bound \cup Binds(t) ELSE bound
      below == IF t.op = "Prime" THEN next + 1 ELSE next
      args == [i \in DOMAIN t.args |-> WithNext(sig, t.args[i], inner, below)]
      fixed == {r.name : r \in {x \in Range(sig.relations) : ~x.mutable}} IN
  CASE t.op = "Prime" -> args[1]
    [] t.op = "Id" /\ next > 0 /\ t.name \notin bound \cup fixed -> Prime(WithNext(sig, t, bound, next - 1))
    [] t.op = "App" -> App(t.name, IF t.name \in fixed THEN 0 ELSE t.primes + next, args)
    [] OTHER -> [t EXCEPT !.args = args]

Normalize(sig, t) == WithNext(sig, t, {}, 0)

(* nullary_id_to_app, of bound variables as well.                          *)
RECURSIVE NullaryIdToApp(_, _)
NullaryIdToApp(t, names) ==
  IF t.op = "Id" /\ t.name \in names THEN App(t.name, 0, <<>>)
  ELSE [t EXCEPT !.args = [i \in DOMAIN @ |-> NullaryIdToApp(@[i], names)]]

(* An EnumerationError.                                                    *)
Error == [op |-> "Error"]

(* term_to_enumerated, and what its `element` finds, none for an error.    *)
RECURSIVE Enumerate(_, _)
Element(t, env) ==
  IF t.op = "Id" THEN {env[x] : x \in {t.name} \cap DOMAIN env}
  ELSE LET e == Enumerate(t, env) IN
       {b \in {0, 1} : e = Constant(b = 1)}

Enumerate(t, env) ==
  LET parts == {Enumerate(t.args[i], env) : i \in DOMAIN t.args}
      a == Enumerate(t.args[1], env)
      b == Enumerate(t.args[2], env)
      c == Enumerate(t.args[3], env)
      x == Element(t.args[1], env)
      y == Element(t.args[2], env)
      elements == [i \in DOMAIN t.args |-> Element(t.args[i], env)]
      instances == {Enumerate(t.args[1], e @@ env) : e \in Assignments(t.binders)}
      Unless(results, e) == IF Error \in results THEN Error ELSE e IN
  CASE t.op = "Literal" -> Constant(t.value)
    [] t.op = "Id" -> IF t.name \in DOMAIN env THEN Constant(env[t.name] = 1) ELSE Error
    [] t.op = "App" ->
         IF t.primes > 1 \/ {} \in Range(elements) THEN Error
         ELSE EApp(t.name, t.primes, [i \in DOMAIN elements |-> CHOOSE e \in elements[i] : TRUE])
    [] t.op = "Not" -> Unless({a}, Negation(a))
    [] t.op = "Equals" \/ t.op = "Iff" ->
         IF {} \notin {x, y} THEN Constant(x = y) ELSE Unless({a, b}, EEq(a, b))
    [] t.op = "NotEquals" -> Enumerate(Not(Equals(t.args[1], t.args[2])), env)
    [] t.op = "Implies" ->
         CASE x = {1} -> b
           [] x = {0} -> True
           [] OTHER -> Unless({a, b}, Disjunction({Negation(a), b}))
    [] t.op = "And" -> Unless(parts, Conjunction(parts))
    [] t.op = "Or" -> Unless(parts, Disjunction(parts))
    [] t.op = "Ite" ->
         Unless({a, b, c}, Disjunction({Conjunction({a, b}), Conjunction({Negation(a), c})}))
    [] t.op = "Forall" -> Unless(instances, Conjunction(instances))
    [] t.op = "Exists" -> Unless(instances, Disjunction(instances))
    [] OTHER -> Error

(* enumerate_quantifiers, of a closed term.                                *)
Enumerated(sig, t) ==
  Enumerate(Normalize(sig, NullaryIdToApp(t, {r.name : r \in Range(sig.relations)})), <<>>)

(* bdd_from_enumerated: whether two successive states satisfy the term.    *)
RECURSIVE Evaluate(_, _, _)
Evaluate(e, s, next) ==
  CASE e.op = "App" -> <<e.rel, e.args>> \in IF e.primes = 0 THEN s ELSE next
    [] e.op = "Not" -> ~Evaluate(e.arg, s, next)
    [] e.op = "And" -> \A u \in e.args : Evaluate(u, s, next)
    [] e.op = "Or" -> \E u \in e.args : Evaluate(u, s, next)
    [] e.op = "Eq" -> Evaluate(e.left, s, next) = Evaluate(e.right, s, next)

-----------------------------------------------------------------------------
(* FirstOrder::unrolling: the most primes above one symbol, or Infinite.   *)
Infinite == 100

RECURSIVE Unrolling(_)
Unrolling(t) ==
  LET parts == Max({0} \cup {Unrolling(t.args[i]) : i \in DOMAIN t.args}) IN
  CASE t.op = "Always" -> Infinite
    [] t.op = "App" -> Max({t.primes, parts})
    [] t.op = "Prime" -> 1 + parts
    [] OTHER -> parts

(* The term of a statement, and whether it is below an `always`.           *)
IsAlways(st) == st.terms[1].op = "Always"
Body(st) == IF IsAlways(st) THEN st.terms[1].args[1] ELSE st.terms[1]

(* The ExtractionErrors.                                                   *)
Extracts(m) ==
  LET stmts == m.statements IN
  /\ \A i, j \in DOMAIN stmts :
       stmts[i].kind = "assert" /\ stmts[j].kind = "assume" => j < i
  /\ \A i \in DOMAIN stmts :
       LET st == stmts[i] IN
       CASE st.kind = "assert" ->
              IsAlways(st) /\ \A t \in Range(Tail(st.terms)) \cup {Body(st)} : Unrolling(t) = 0
         [] st.kind = "assume" -> Unrolling(Body(st)) <= IF IsAlways(st) THEN 1 ELSE 0

Selected(m, kind, always, unrolling) ==
  LET Is(st) == st.kind = kind /\ IsAlways(st) = always /\ Unrolling(Body(st)) = unrolling
      chosen == SelectSeq(m.statements, Is) IN
  [i \in DOMAIN chosen |-> Normalize(m.signature, Body(chosen[i]))]

(* extract: the invariants of an assertion are not looked at again here.   *)
(* Only of the transitions does it matter how many there are.              *)
Extract(m) ==
  [sig |-> m.signature,
   inits |-> Range(Selected(m, "assume", FALSE, 0)),
   transitions |-> Selected(m, "assume", TRUE, 1),
   axioms |-> Range(Selected(m, "assume", TRUE, 0)),
   safeties |-> Range(Selected(m, "assert", TRUE, 0))]

MutableAxioms(d) == {t \in d.axioms : Mentions(t, MutableNames(d.sig))}

(* The conjunction of a set of terms.                                      *)
EnumeratedAll(d, ts) ==
  LET parts == {Enumerated(d.sig, t) : t \in ts} IN
  IF Error \in parts THEN Error ELSE Conjunction(parts)
=============================================================================
