------------------------------ MODULE MCQalpha ------------------------------
(***************************************************************************)
(* A module with a unary relation p and a Boolean q for Qalpha.  States:   *)
(* "all" elements have p, "some1" and "some2" (with and without q), "no"   *)
(* one has; axioms say that q holds in "all" and not in "no".              *)
(***************************************************************************)
EXTENDS Qalpha

CONSTANTS A, E

MCStates == {"all", "some1", "some2", "no"}
MCInits == {{}, {"all"}, {"some1"}}
MCSteps == {t \in MCStates \X MCStates : t[1] # t[2]}
MCSafe == {"all", "some1", "some2"}

(* Of two prefixes: A for "forall x", one literal each; E for "exists x",  *)
(* with clauses of two literals.  P and N stand for p(x) and its negation, *)
(* q and n for q and its negation; clauses the axioms imply are left out.  *)
MCHolds ==
  [false |-> {}, q |-> {"all", "some1"}, n |-> {"some2", "no"},
   AP |-> {"all"}, AN |-> {"no"},
   EP |-> {"all", "some1", "some2"}, EN |-> {"some1", "some2", "no"},
   EPq |-> {"all", "some1", "some2"}, ENn |-> {"some1", "some2", "no"}]

MCOptions == {{}, {"extend", "abort"}}

MCLemmas == DOMAIN MCHolds

MCMembers ==
  [d \in Domains |-> {"false", "q", "n"} \cup IF d = A THEN {"AP", "AN"}
                                             ELSE {"EP", "EN", "EPq", "ENn"}]

MCSubsuming ==
  {p \in MCLemmas \X MCLemmas : p[1] = p[2] \/ p[1] = "false"}
    \cup {<<"q", "EPq">>, <<"n", "ENn">>, <<"EP", "EPq">>, <<"EN", "ENn">>}
    \cup {"AP"} \X {"EP", "EPq"} \cup {"AN"} \X {"EN", "ENn"}
=============================================================================
