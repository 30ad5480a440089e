-------------------------------- MODULE Terms --------------------------------
(***************************************************************************)
(* The input language (fly/syntax.rs): signatures, terms, definitions,     *)
(* statements, modules; and what a term means.                             *)
(*                                                                         *)
(* A term has an operator and the sequence of its parts.  A structure is   *)
(* the set of the ground atoms that hold in it, where a function that does *)
(* not return a boolean is the relation of its arguments to its value.     *)
(* The elements of a sort are numbered, and 0 and 1 are those of bool.     *)
(***************************************************************************)
EXTENDS Naturals, Sequences, Functions, FiniteSetsExt, TLC

CONSTANT Universe    \* the elements of each sort

Bool == "bool"
Unknown == ""        \* Sort::unknown(), a sort that is left off

Relation(name, args, sort, mutable) ==
  [name |-> name, args |-> args, sort |-> sort, mutable |-> mutable]
Binder(x, sort) == [name |-> x, sort |-> sort]
Definition(name, binders, ret_sort, body) ==
  [name |-> name, binders |-> binders, ret_sort |-> ret_sort, body |-> body]

Term(op, args) == [op |-> op, args |-> args]
Literal(b) == [op |-> "Literal", value |-> b, args |-> <<>>]
Id(x) == [op |-> "Id", name |-> x, args |-> <<>>]
App(f, primes, args) == [op |-> "App", name |-> f, primes |-> primes, args |-> args]
Not(t) == Term("Not", <<t>>)
Prime(t) == Term("Prime", <<t>>)
Always(t) == Term("Always", <<t>>)
And(ts) == Term("And", ts)
Or(ts) == Term("Or", ts)
Equals(t, u) == Term("Equals", <<t, u>>)
NotEquals(t, u) == Term("NotEquals", <<t, u>>)
Iff(t, u) == Term("Iff", <<t, u>>)
Implies(t, u) == Term("Implies", <<t, u>>)
Ite(cond, then, else) == Term("Ite", <<cond, then, else>>)
Forall(binders, t) == [op |-> "Forall", binders |-> binders, args |-> <<t>>]
Exists(binders, t) == [op |-> "Exists", binders |-> binders, args |-> <<t>>]

IsQuantified(t) == t.op \in {"Forall", "Exists"}
Binds(t) == {b.name : b \in Range(t.binders)}

(* A statement has its term, and an assertion also its invariants.         *)
Assume(t) == [kind |-> "assume", terms |-> <<t>>]
Proof(t, invariants) == [kind |-> "assert", terms |-> <<t>> \o invariants]

(* A term that a pass could not handle.                                    *)
Failed(kind) == [op |-> "Failed", kind |-> kind, args |-> <<>>]

RECURSIVE Failures(_)
Failures(t) ==
  IF t.op = "Failed" THEN {t.kind} ELSE UNION {Failures(t.args[i]) : i \in DOMAIN t.args}

(* A pass over the terms of a module.                                      *)
MapTerms(m, F(_)) ==
  [m EXCEPT !.statements = [i \in DOMAIN @ |->
     [@[i] EXCEPT !.terms = [j \in DOMAIN @ |-> F(@[j])]]]]

TermsOf(m) ==
  (UNION {Range(st.terms) : st \in Range(m.statements)}) \cup {d.body : d \in Range(m.defs)}
FailuresOf(m) == UNION {Failures(t) : t \in TermsOf(m)}

-----------------------------------------------------------------------------
Decl(sig, f) == CHOOSE r \in Range(sig.relations) : r.name = f
MutableNames(sig) == {r.name : r \in {x \in Range(sig.relations) : x.mutable}}

(* Whether one of the names occurs: contains_mutable_relations of          *)
(* transitions.rs and contains_changed of rets.rs.                         *)
RECURSIVE Mentions(_, _)
Mentions(t, names) ==
  \/ t.op \in {"Id", "App"} /\ t.name \in names
  \/ \E i \in DOMAIN t.args : Mentions(t.args[i], names)

(* The values of some bound variables.                                     *)
Assignments(binders) ==
  LET sort(x) == (CHOOSE b \in Range(binders) : b.name = x).sort
      names == {b.name : b \in Range(binders)} IN
  {a \in [names -> UNION {Universe[b.sort] : b \in Range(binders)}] :
     \A x \in names : a[x] \in Universe[sort(x)]}

(* The arguments a function can have.                                      *)
Arguments(sorts) ==
  {a \in [DOMAIN sorts -> UNION Range(Universe)] : \A i \in DOMAIN sorts : a[i] \in Universe[sorts[i]]}

-----------------------------------------------------------------------------
(* The meaning of a term of module m in a sequence of structures, of which *)
(* the last is repeated, for values of its variables.  In one structure    *)
(* and without definitions it is Model::eval_assign (fly/semantics.rs).    *)
Truth(b) == IF b THEN 1 ELSE 0
Later(run, n) == [i \in DOMAIN run |-> run[IF i + n <= Len(run) THEN i + n ELSE Len(run)]]

Interpretation(r, args, s) ==
  IF r.sort = Bool THEN Truth(<<r.name, args>> \in s)
  ELSE CHOOSE e \in Universe[r.sort] : <<r.name, Append(args, e)>> \in s

RECURSIVE Value(_, _, _, _)
Value(m, t, env, run) ==
  LET V(i) == Value(m, t.args[i], env, run)
      Holds(i) == V(i) = 1
      Named(f, args, r) ==
        IF \E d \in Range(m.defs) : d.name = f
        THEN LET d == CHOOSE x \in Range(m.defs) : x.name = f
                 own == [x \in {b.name : b \in Range(d.binders)} |->
                           args[CHOOSE i \in DOMAIN args : d.binders[i].name = x]]
             IN Value(m, d.body, own, r)
        ELSE Interpretation(Decl(m.signature, f), args, r[1])
      With(a) == Value(m, t.args[1], a @@ env, run) = 1 IN
  CASE t.op = "Literal" -> Truth(t.value)
    [] t.op = "Id" -> IF t.name \in DOMAIN env THEN env[t.name] ELSE Named(t.name, <<>>, run)
    [] t.op = "App" -> Named(t.name, [i \in DOMAIN t.args |-> V(i)], Later(run, t.primes))
    [] t.op = "Not" -> 1 - V(1)
    [] t.op = "Prime" -> Value(m, t.args[1], env, Later(run, 1))
    [] t.op = "Always" -> V(1)
    [] t.op = "And" -> Truth(\A i \in DOMAIN t.args : Holds(i))
    [] t.op = "Or" -> Truth(\E i \in DOMAIN t.args : Holds(i))
    [] t.op \in {"Equals", "Iff"} -> Truth(V(1) = V(2))
    [] t.op = "NotEquals" -> Truth(V(1) # V(2))
    [] t.op = "Implies" -> Truth(Holds(1) => Holds(2))
    [] t.op = "Ite" -> IF Holds(1) THEN V(2) ELSE V(3)
    [] t.op = "Forall" -> Truth(\A a \in Assignments(t.binders) : With(a))
    [] t.op = "Exists" -> Truth(\E a \in Assignments(t.binders) : With(a))
=============================================================================
