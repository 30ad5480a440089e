---------------------------- MODULE MCAssertions ----------------------------
(* Assertions for TLC: two assertions about four states, of which the      *)
(* axioms may exclude the last.                                            *)
EXTENDS Assertions

MCStates == 1 .. 4
MCInits == {{1}, {1, 4}}
MCAxioms == {MCStates, {1, 2, 3}}
MCSteps == {<<1, 2>>, <<2, 3>>, <<3, 1>>, <<3, 2>>, <<1, 4>>, <<2, 4>>, <<4, 3>>}

(* Single assertions, with an invariant that helps, with one that does     *)
(* not, with two that depend on each other.                                *)
MCProofs ==
  {<<{1, 2}>>, <<{1, 2, 4}>>, <<{1, 3}>>,
   <<{1, 2, 4}, {1, 2}>>, <<{1, 2}, {2, 3}>>, <<{1, 2, 3}, {1, 2}, {1, 3}>>,
   <<{1, 2, 4}, {1, 2, 3}, {1}>>}
=============================================================================
