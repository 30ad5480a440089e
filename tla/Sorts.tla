-------------------------------- MODULE Sorts --------------------------------
(***************************************************************************)
(* fly/sorts.rs: the sorts that quantifiers leave off are inferred by      *)
(* unification, and the module is checked.  The errors are one here.       *)
(*                                                                         *)
(* A sort variable is a string with a space in it, as the code writes it   *)
(* into the term between its two passes, so no user's sort is one; it is   *)
(* named by the place of its binder instead of a number.                   *)
(***************************************************************************)
EXTENDS Terms, SequencesExt

(* A scope: the sorts, and the arguments and the result of each name; an   *)
(* individual is a name without arguments.                                 *)
Individual(sort) == [args |-> <<>>, ret |-> sort]
WithNames(scope, binders) ==
  [scope EXCEPT !.names =
     [x \in {b.name : b \in Range(binders)} |->
        Individual((CHOOSE b \in Range(binders) : b.name = x).sort)] @@ @]
Below(scope, t) == IF IsQuantified(t) THEN WithNames(scope, t.binders) ELSE scope

DistinctNames(xs) == IsInjective([i \in DOMAIN xs |-> xs[i].name])
SortExists(scope, sort) == sort \in scope.sorts \cup {Bool}

(* Scope::new, and the definitions before the n-th added to it.            *)
ScopeOf(m, n) ==
  LET decls == Range(m.signature.relations)
      defs == {m.defs[i] : i \in 1 .. n - 1}
      args(d) == [i \in DOMAIN d.binders |-> d.binders[i].sort] IN
  [sorts |-> Range(m.signature.sorts),
   names |-> [f \in {r.name : r \in decls} |->
                LET r == Decl(m.signature, f) IN [args |-> r.args, ret |-> r.sort]]
             @@ [f \in {d.name : d \in defs} |->
                LET d == CHOOSE x \in defs : x.name = f IN [args |-> args(d), ret |-> d.ret_sort]]]

BodyScope(m, i) == WithNames(ScopeOf(m, i), m.defs[i].binders)
WholeScope(m) == ScopeOf(m, Len(m.defs) + 1)

(* What is checked of the declarations of a module.                        *)
WellDeclared(m) ==
  LET exist(sorts) == \A s \in sorts : SortExists(WholeScope(m), s) IN
  /\ IsInjective(m.signature.sorts)
  /\ DistinctNames(m.signature.relations \o m.defs)
  /\ \A r \in Range(m.signature.relations) : exist(Range(r.args) \cup {r.sort})
  /\ \A d \in Range(m.defs) :
       DistinctNames(d.binders) /\ exist({b.sort : b \in Range(d.binders)} \cup {d.ret_sort})

-----------------------------------------------------------------------------
(* add_binders_for_inference: variables for the sorts left off.            *)
RECURSIVE Labelled(_, _)
Labelled(t, place) ==
  LET label(b) == IF b.sort = Unknown THEN Binder(b.name, "var " \o place \o b.name) ELSE b
      args == [i \in DOMAIN t.args |-> Labelled(t.args[i], place \o ToString(i))] IN
  IF IsQuantified(t)
  THEN [t EXCEPT !.args = args, !.binders = [i \in DOMAIN @ |-> label(@[i])]]
  ELSE [t EXCEPT !.args = args]

RECURSIVE SortVars(_)
SortVars(t) ==
  (IF IsQuantified(t) THEN {b.sort : b \in Range(t.binders)} ELSE {})
    \cup UNION {SortVars(t.args[i]) : i \in DOMAIN t.args}

(* get_individual, get_relation, the arity, and the binders of quantifiers.*)
RECURSIVE NamesOk(_, _)
NamesOk(scope, t) ==
  /\ CASE t.op = "Id" -> t.name \in DOMAIN scope.names /\ scope.names[t.name].args = <<>>
       [] t.op = "App" -> /\ t.name \in DOMAIN scope.names
                          /\ scope.names[t.name].args # <<>>
                          /\ Len(scope.names[t.name].args) = Len(t.args)
       [] IsQuantified(t) ->
            /\ DistinctNames(t.binders)
            /\ \A b \in Range(t.binders) : b.sort = Unknown \/ SortExists(scope, b.sort)
       [] OTHER -> TRUE
  /\ \A i \in DOMAIN t.args : NamesOk(Below(scope, t), t.args[i])

(* collect_sort_constraints_term: the sort of a term, and which sorts must *)
(* be equal.                                                               *)
RECURSIVE SortOf(_, _)
SortOf(scope, t) ==
  CASE t.op \in {"Id", "App"} -> scope.names[t.name].ret
    [] t.op = "Prime" -> SortOf(scope, t.args[1])
    [] t.op = "Ite" -> SortOf(scope, t.args[2])
    [] OTHER -> Bool

RECURSIVE Equations(_, _)
Equations(scope, t) ==
  LET sort(i) == SortOf(Below(scope, t), t.args[i])
      own == CASE t.op = "App" -> [i \in DOMAIN t.args |-> <<scope.names[t.name].args[i], sort(i)>>]
               [] t.op \in {"Equals", "NotEquals"} -> <<<<sort(1), sort(2)>>>>
               [] t.op = "Ite" -> <<<<Bool, sort(1)>>, <<sort(2), sort(3)>>>>
               [] t.op = "Prime" -> <<>>
               [] OTHER -> [i \in DOMAIN t.args |-> <<Bool, sort(i)>>] IN
  FlattenSeq([i \in DOMAIN t.args |-> Equations(Below(scope, t), t.args[i])]) \o own

(* The unification table: what each variable is bound to, or itself.       *)
RECURSIVE Solution(_, _)
Solution(table, sort) ==
  IF sort \notin DOMAIN table \/ table[sort] = sort THEN sort ELSE Solution(table, table[sort])

(* unify_var_value, unify_var_var; none for two sorts that differ.         *)
(* A mutation: two variables are not unified.                              *)
UnifiedUnlessVariables(table, x, y) ==
  CASE x = y \/ {x, y} \subseteq DOMAIN table -> {table}
    [] x # y /\ x \in DOMAIN table /\ y \notin DOMAIN table -> {[table EXCEPT ![x] = y]}
    [] x # y /\ x \notin DOMAIN table /\ y \in DOMAIN table -> {[table EXCEPT ![y] = x]}
    [] OTHER -> {}

Unified(table, x, y) ==
  CASE x = y -> {table}
    [] x # y /\ x \in DOMAIN table -> {[table EXCEPT ![x] = y]}
    [] x # y /\ x \notin DOMAIN table /\ y \in DOMAIN table -> {[table EXCEPT ![y] = x]}
    [] OTHER -> {}

RECURSIVE UnifyAll(_, _)
UnifyAll(tables, pairs) ==
  IF pairs = <<>> THEN tables
  ELSE UnifyAll(UNION {Unified(table, Solution(table, Head(pairs)[1]), Solution(table, Head(pairs)[2])) :
                         table \in tables}, Tail(pairs))

(* annotate_solved_sorts_term: the binders get their solutions.            *)
RECURSIVE Annotate(_, _)
Annotate(t, table) ==
  LET binder(b) == Binder(b.name, Solution(table, b.sort))
      args == [i \in DOMAIN t.args |-> Annotate(t.args[i], table)] IN
  IF IsQuantified(t)
  THEN [t EXCEPT !.args = args, !.binders = [i \in DOMAIN @ |-> binder(@[i])]]
  ELSE [t EXCEPT !.args = args]

(* sort_check_term_expect, with the solved terms.                          *)
Solutions(scope, t, expected) ==
  LET unsolved == [x \in SortVars(t) \ (scope.sorts \cup {Bool}) |-> x] IN
  {Annotate(t, table) : table \in
     UnifyAll({unsolved}, Append(Equations(scope, t), <<expected, SortOf(scope, t)>>))}

CheckTerm(scope, t, expected) ==
  LET solved == {u \in Solutions(scope, Labelled(t, ""), expected) :
                   SortVars(u) \subseteq scope.sorts \cup {Bool}} IN
  IF NamesOk(scope, t) /\ solved # {} THEN CHOOSE u \in solved : TRUE ELSE Failed("SortError")

(* sort_check_module: its terms with all sorts, or failed.                 *)
SortChecked(m) ==
  LET defs == [i \in DOMAIN m.defs |->
                 [m.defs[i] EXCEPT !.body = CheckTerm(BodyScope(m, i), @, m.defs[i].ret_sort)]] IN
  MapTerms([m EXCEPT !.defs = defs], LAMBDA t : CheckTerm(WholeScope(m), t, Bool))

SortsOk(m) == WellDeclared(m) /\ FailuresOf(SortChecked(m)) = {}

-----------------------------------------------------------------------------
(* The sorts that quantifiers may leave off, by definition: a term in      *)
(* which all are given has the sort HasSort, none if it is ill sorted.     *)
RECURSIVE HasSort(_, _)
HasSort(scope, t) ==
  LET part(i) == HasSort(IF IsQuantified(t) THEN WithNames(scope, t.binders) ELSE scope, t.args[i])
      All(sort) == \A i \in DOMAIN t.args : part(i) = {sort}
      names == DOMAIN scope.names IN
  CASE t.op = "Id" ->
         {scope.names[x].ret : x \in {y \in {t.name} \cap names : scope.names[y].args = <<>>}}
    [] t.op = "App" ->
         {scope.names[x].ret : x \in
            {y \in {t.name} \cap names : /\ scope.names[y].args # <<>>
                                         /\ [i \in DOMAIN t.args |-> part(i)]
                                              = [i \in DOMAIN scope.names[y].args |-> {scope.names[y].args[i]}]}}
    [] t.op = "Prime" -> part(1)
    [] t.op \in {"Equals", "NotEquals"} -> {x \in {Bool} : part(1) = part(2) /\ part(1) # {}}
    [] t.op = "Ite" -> {x \in part(2) : part(1) = {Bool} /\ part(2) = part(3)}
    [] IsQuantified(t) ->
         {x \in {Bool} : /\ All(Bool) /\ DistinctNames(t.binders)
                         /\ \A b \in Range(t.binders) : SortExists(scope, b.sort)}
    [] OTHER -> {x \in {Bool} : All(Bool)}

(* The ways to give all sorts.                                             *)
RECURSIVE Annotations(_, _)
Annotations(scope, t) ==
  LET parts == [i \in DOMAIN t.args |-> Annotations(scope, t.args[i])]
      args == {a \in [DOMAIN t.args -> UNION Range(parts)] : \A i \in DOMAIN a : a[i] \in parts[i]}
      sorts(b) == IF b.sort = Unknown THEN scope.sorts \cup {Bool} ELSE {b.sort}
      choices == {f \in [DOMAIN t.binders -> UNION {sorts(b) : b \in Range(t.binders)}] :
                    \A i \in DOMAIN f : f[i] \in sorts(t.binders[i])}
      binders(f) == [i \in DOMAIN f |-> Binder(t.binders[i].name, f[i])] IN
  IF IsQuantified(t)
  THEN {[t EXCEPT !.args = a, !.binders = binders(f)] : a \in args, f \in choices}
  ELSE {[t EXCEPT !.args = a] : a \in args}

WellSorted(scope, t, sort) == {u \in Annotations(scope, t) : HasSort(scope, u) = {sort}}

(* The terms of a well-sorted module, with the terms they may become.      *)
Sortings(m) ==
  {<<m.defs[i].body, WellSorted(BodyScope(m, i), m.defs[i].body, m.defs[i].ret_sort)>> : i \in DOMAIN m.defs}
  \cup {<<t, WellSorted(WholeScope(m), t, Bool)>> : t \in UNION {Range(st.terms) : st \in Range(m.statements)}}
=============================================================================
