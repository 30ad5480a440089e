------------------------------- MODULE FrontEnd -------------------------------
(***************************************************************************)
(* What the command line makes of a sort-checked module before it goes to  *)
(* a bounded checker: its definitions are inlined (fly/defs.rs) and the    *)
(* functions that do not return a boolean become relations (fly/rets.rs).  *)
(***************************************************************************)
EXTENDS Sorts

(* subst: a bound variable with the name of a parameter is replaced too.   *)
RECURSIVE Subst(_, _)
Subst(t, repl) ==
  IF t.op = "Id" /\ t.name \in DOMAIN repl THEN repl[t.name]
  ELSE [t EXCEPT !.args = [i \in DOMAIN @ |-> Subst(@[i], repl)]]

SubstBinders(t, binders, ts) ==
  Subst(t, [x \in {b.name : b \in Range(binders)} |->
              ts[CHOOSE i \in DOMAIN binders : binders[i].name = x]])

(* inline_def_term: the primes of an application of the definition are     *)
(* dropped, and the arguments of any other application are not visited.    *)
(* Only a variable of a quantifier hides the definition; for any other     *)
(* with its name the code asserts that the definition has no parameters.   *)
RECURSIVE InlineDefTerm(_, _)
InlineDefTerm(def, t) ==
  CASE t.op = "Id" /\ t.name = def.name -> IF def.binders = <<>> THEN def.body ELSE Failed("panic")
    [] t.op = "App" -> IF t.name = def.name THEN SubstBinders(def.body, def.binders, t.args) ELSE t
    [] IsQuantified(t) /\ def.name \in Binds(t) -> t
    [] OTHER -> [t EXCEPT !.args = [i \in DOMAIN @ |-> InlineDefTerm(def, @[i])]]

(* inline_def, of the first definition.                                    *)
Inlined(m) ==
  LET def == Head(m.defs)
      rest == [i \in 1 .. Len(m.defs) - 1 |->
                 [m.defs[i + 1] EXCEPT !.body = InlineDefTerm(def, @)]] IN
  MapTerms([m EXCEPT !.defs = rest], LAMBDA t : InlineDefTerm(def, t))

-----------------------------------------------------------------------------
Changed(sig) == {r \in Range(sig.relations) : r.sort # Bool}
ChangedNames(sig) == {r.name : r \in Changed(sig)}

(* The axioms that a changed relation is a function.                       *)
ConvertedRelation(r) ==
  IF r.sort = Bool THEN r ELSE Relation(r.name, Append(r.args, r.sort), Bool, r.mutable)
ConvertedSignature(sig) == [sig EXCEPT !.relations = [i \in DOMAIN @ |-> ConvertedRelation(@[i])]]

FunctionAxioms(r) ==
  LET n == Len(r.args)
      name(i) == "__" \o ToString(i)
      others == [i \in 1 .. n |-> Binder(name(i - 1), r.args[i])]
      values == <<Binder(name(n), r.sort), Binder(name(n + 1), r.sort)>>
      Is(i) == App(r.name, 0, [j \in 1 .. n + 1 |-> Id(IF j <= n THEN name(j - 1) ELSE name(i))])
      exists == Exists(<<values[1]>>, Is(n))
      at_least_one == IF n = 0 THEN exists ELSE Forall(others, exists)
      at_most_one == Forall(others \o values, Implies(And(<<Is(n), Is(n + 1)>>),
                                                      Equals(Id(name(n)), Id(name(n + 1))))) IN
  <<Assume(Always(at_least_one)), Assume(Always(at_most_one))>>

(* strip_primes of a side of an equality: the application of a changed     *)
(* relation below the primes, or the term as it is.                        *)
RECURSIVE Stripped(_, _, _)
(* A mutation: only the primes around an application count.                *)
StrippedAround(t, primes, names) ==
  CASE t.op = "Id" /\ t.name \in names -> App(t.name, primes, <<>>)
    [] t.op = "App" /\ t.name \in names -> [t EXCEPT !.primes = primes]
    [] t.op = "Prime" -> Stripped(t.args[1], primes + 1, names)
    [] OTHER -> Literal(FALSE)

Stripped(t, primes, names) ==
  CASE t.op = "Id" /\ t.name \in names -> App(t.name, primes, <<>>)
    [] t.op = "App" /\ t.name \in names -> [t EXCEPT !.primes = @ + primes]
    [] t.op = "Prime" -> Stripped(t.args[1], primes + 1, names)
    [] OTHER -> Literal(FALSE)

IsChanged(t, names) == t.op = "App" /\ t.name \in names

(* A side of an equality between elements, as a relation to the element    *)
(* `___1`.  What is neither an application nor an identifier reaches       *)
(* unreachable!(), as does a second function below a prime.                *)
ElementOf(t) ==
  LET value == Id("___1") IN
  CASE t.op = "App" -> [t EXCEPT !.args = Append(@, value)]
    [] t.op = "Id" -> Equals(value, t)
    [] OTHER -> Failed("panic")

RECURSIVE FixTerm(_, _)
FixTerm(t, changed) ==
  LET names == {r.name : r \in changed}
      Side(u) == IF u.op = "Id" /\ u.name \in names THEN App(u.name, 0, <<>>) ELSE u
      left == Stripped(t.args[1], 0, names)
      right == Stripped(t.args[2], 0, names)
      x == IF IsChanged(left, names) THEN left ELSE t.args[1]
      y == IF ~IsChanged(left, names) /\ IsChanged(right, names) THEN right ELSE Side(t.args[2])
      name == IF x.op = "App" THEN x.name ELSE y.name
      sort == (CHOOSE r \in changed : r.name = name).sort IN
  CASE t.op \in {"Id", "App"} -> IF Mentions(t, names) THEN Failed("RetsError") ELSE t
    [] t.op = "Equals" /\ (IsChanged(left, names) \/ IsChanged(right, names)) ->
         Forall(<<Binder("___1", sort)>>, Equals(ElementOf(x), ElementOf(y)))
    [] t.op = "NotEquals" -> Not(FixTerm(Equals(t.args[1], t.args[2]), changed))
    [] OTHER -> [t EXCEPT !.args = [i \in DOMAIN @ |-> FixTerm(@[i], changed)]]

(* convert_non_bool_relations, with the failures in its terms.             *)
Converted(m) ==
  LET fixed == MapTerms(m, LAMBDA t : FixTerm(t, Changed(m.signature)))
      changed == SelectSeq(m.signature.relations, LAMBDA r : r.sort # Bool) IN
  [fixed EXCEPT !.signature = ConvertedSignature(@),
                !.statements = FlattenSeq([i \in DOMAIN changed |-> FunctionAxioms(changed[i])]) \o @]

(* Whether back_convert_model finds every value in a structure; otherwise  *)
(* it reaches unreachable!().                                              *)
HasValues(sig, s) ==
  \A r \in Changed(sig) : \A a \in Arguments(r.args) :
    \E e \in Universe[r.sort] : <<r.name, Append(a, e)>> \in s

-----------------------------------------------------------------------------
(* The structures of a signature: its functions have one value everywhere. *)
Structures(sig) ==
  LET Tables(r) ==
        IF r.sort = Bool THEN SUBSET ({r.name} \X Arguments(r.args))
        ELSE {{<<r.name, Append(a, f[a])>> : a \in Arguments(r.args)} :
                f \in [Arguments(r.args) -> Universe[r.sort]]}
      With(acc, r) == {s \cup table : s \in acc, table \in Tables(r)} IN
  FoldLeft(With, {{}}, sig.relations)

RECURSIVE FreeNames(_)
FreeNames(t) ==
  LET parts == UNION {FreeNames(t.args[i]) : i \in DOMAIN t.args} IN
  CASE t.op \in {"Id", "App"} -> {t.name} \cup parts
    [] IsQuantified(t) -> parts \ Binds(t)
    [] OTHER -> parts

RECURSIVE BoundNames(_)
BoundNames(t) ==
  (IF IsQuantified(t) THEN Binds(t) ELSE {}) \cup UNION {BoundNames(t.args[i]) : i \in DOMAIN t.args}

(* What inline_def takes for granted, below variables `around`: nothing is *)
(* captured or shadowed, and the definition is applied without a prime and *)
(* not in an argument.                                                     *)
Parameters(def) == {b.name : b \in Range(def.binders)}

RECURSIVE Expandable(_, _, _)
Expandable(def, t, around) ==
  LET nothing_captured == (FreeNames(def.body) \ Parameters(def)) \cap around = {}
      in_arguments == \E i \in DOMAIN t.args : Mentions(t.args[i], {def.name}) IN
  CASE t.op = "Id" -> t.name = def.name => nothing_captured
    [] t.op = "App" ->
         /\ ~in_arguments
         /\ t.name = def.name =>
              /\ nothing_captured /\ t.primes = 0
              /\ \A i \in DOMAIN t.args : FreeNames(t.args[i]) \cap BoundNames(def.body) = {}
    [] IsQuantified(t) ->
         def.name \in Binds(t) \/ Expandable(def, t.args[1], around \cup Binds(t))
    [] OTHER -> \A i \in DOMAIN t.args : Expandable(def, t.args[i], around)

Inlinable(m) ==
  LET def == Head(m.defs) IN
  /\ Parameters(def) \cap BoundNames(def.body) = {}
  /\ \A d \in Range(Tail(m.defs)) :
       def.name \notin Parameters(d) /\ Expandable(def, d.body, Parameters(d))
  /\ \A st \in Range(m.statements) : \A t \in Range(st.terms) : Expandable(def, t, {})

(* What fix_term takes for granted: no function is applied in an argument, *)
(* and no variable has the name of a function.                             *)
RECURSIVE Flat(_, _)
Flat(t, names) ==
  /\ t.op = "App" => \A i \in DOMAIN t.args : ~Mentions(t.args[i], names)
  /\ \A i \in DOMAIN t.args : Flat(t.args[i], names)

Convertible(m) ==
  LET names == ChangedNames(m.signature) IN
  \A st \in Range(m.statements) : \A t \in Range(st.terms) :
    Flat(t, names) /\ BoundNames(t) \cap (names \cup {"___1"}) = {}

(* The statements of m mean in its structures what the last ones of n do,  *)
(* and those before them say that the functions are functions.             *)
SameMeaning(m, n) ==
  LET added == Len(n.statements) - Len(m.statements)
      old(i, j) == m.statements[i].terms[j]
      new(i, j) == n.statements[added + i].terms[j] IN
  \A i \in DOMAIN m.statements : \A j \in DOMAIN m.statements[i].terms :
    \/ old(i, j) = new(i, j) /\ m.defs = n.defs
    \/ \A s, t \in Structures(m.signature) :
         Value(m, old(i, j), <<>>, <<s, t>>) = Value(n, new(i, j), <<>>, <<s, t>>)

SameStructures(m, n) ==
  LET added == Len(n.statements) - Len(m.statements) IN
  Structures(m.signature) =
    {s \in Structures(n.signature) :
       \A i \in 1 .. added : Value(n, n.statements[i].terms[1], <<>>, <<s>>) = 1}
=============================================================================
