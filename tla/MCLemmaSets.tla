---------------------------- MODULE MCLemmaSets ----------------------------
(* Small configurations of every kind of lemma, and small models, for TLC. *)
EXTENDS LemmaSets

Forall(names) == [quantifier |-> "forall", names |-> names]
Exists(names) == [quantifier |-> "exists", names |-> names]
Either(names) == [quantifier |-> "any", names |-> names]

P(vs) == {<<"p", v>> : v \in vs}

(* An order of the atoms.                                                  *)
Indexed(c) == [index |-> LET seq == Listed(c.atoms)
                         IN  [a \in c.atoms |-> CHOOSE i \in DOMAIN seq : seq[i] = a]] @@ c

Limits == [clauses |-> 1, clause_size |-> 3, cubes |-> 2, cube_size |-> 2, non_unit |-> 1]
NoSearch == [no_search |-> TRUE, until_safe |-> FALSE, growth_factor |-> 5, max_existentials |-> 3]

(* One domain each: the prefixes that there are of the largest size.       *)
Shapes ==
  LET atoms == P({"x", "y"}) \cup {<<"eq", "x", "y">>}
      more  == P({"x", "y", "z"}) \cup {<<"eq", "y", "z">>}
  IN  {[prefix |-> <<Forall(<<"x", "y">>)>>, max_size |-> 2,
        atoms |-> {<<"p", "x">>, <<"p", "y">>, <<"r", "x", "y">>, <<"r", "y", "x">>}],
       [prefix |-> <<Exists(<<"x", "y">>)>>, max_size |-> 2, atoms |-> atoms],
       [prefix |-> <<Forall(<<"x">>), Exists(<<"y">>)>>, max_size |-> 2, atoms |-> atoms],
       [prefix |-> <<Forall(<<>>), Exists(<<"x">>), Forall(<<"y">>)>>, max_size |-> 2,
        atoms |-> P({"x", "y"}) \cup {<<"r", "x", "y">>}],
       [prefix |-> <<Exists(<<"x">>), Forall(<<"y", "z">>)>>, max_size |-> 3, atoms |-> more],
       [prefix |-> <<Forall(<<"x">>), Exists(<<"y">>), Forall(<<"z">>)>>, max_size |-> 3, atoms |-> more]}

Single ==
  LET bounds == {[max_models |-> 3, max_blocked |-> 0, max_updates |-> 0],
                 [max_models |-> 2, max_blocked |-> 0, max_updates |-> 2]}
  IN  {[kind |-> k] @@ s @@ Limits @@ NoSearch @@ b : s \in Shapes, k \in {"cnf", "pdnf", "naive"}, b \in bounds}
      \cup {[kind |-> k, prefix |-> <<Forall(<<"x">>), Exists(<<"y">>)>>, max_size |-> 2,
             atoms |-> P({"x", "y"}) \cup {<<"eq", "x", "y">>}, clauses |-> 2, non_unit |-> 2]
              @@ Limits @@ NoSearch @@ b : k \in {"cnf", "pdnf"}, b \in bounds}

(* Several domains at a time, with a quantifier left open.  With two       *)
(* states, the second update meets lemmas that stay, and one that goes     *)
(* comes back with another prefix.                                         *)
Several ==
  {[prefix |-> <<Either(<<"x">>), Exists(<<"y", "z">>)>>, max_size |-> 2,
    atoms |-> P({"x", "y", "z"}) \cup {<<"eq", "y", "z">>}, max_updates |-> 2] @@ b @@ Limits @@ NoSearch :
     b \in {[kind |-> k, max_models |-> 2, max_blocked |-> 0] : k \in {"cnf", "pdnf", "naive"}}
             \cup {[kind |-> "naive", max_models |-> 1, max_blocked |-> 1]}}

(* Two jobs at a time, whose lemmas may subsume each other.                *)
Contended ==
  {[kind |-> "cnf", prefix |-> <<Either(<<"x">>), Exists(<<"y">>)>>, max_size |-> 2, atoms |-> P({"x", "y"}),
    max_models |-> 1, max_blocked |-> 2, max_updates |-> 1] @@ Limits @@ NoSearch}

(* A search.                                                               *)
Searched ==
  {[kind |-> k, prefix |-> <<Either(<<"x">>), Either(<<"y">>)>>, max_size |-> 2, max_existentials |-> 2,
    atoms |-> P({"x", "y"}) \cup {<<"r", "x", "y">>}, clauses |-> 2, cubes |-> 3,
    no_search |-> FALSE, until_safe |-> TRUE, growth_factor |-> 2, max_models |-> 2, max_blocked |-> 0,
    max_updates |-> 1]
     @@ Limits : k \in {"cnf", "pdnf", "naive"}}

MCConfigs == {Indexed(c) : c \in Single \cup Several \cup Contended \cup Searched}

Model(n, p, r) == [size |-> n, holds |-> [p |-> {<<e>> : e \in p}, r |-> r]]

MCModels ==
  {Model(1, {0}, {}), Model(2, {}, {<<0, 1>>}), Model(2, {0}, {<<0, 1>>}), Model(2, {1}, {<<0, 0>>}),
   Model(2, {0, 1}, {<<0, 0>>, <<1, 1>>}), Model(3, {0}, {<<0, 1>>, <<1, 2>>, <<2, 0>>})}
=============================================================================
