------------------------------- MODULE MCUpdr -------------------------------
(***************************************************************************)
(* Updr for a unary relation p over at most three elements.  A structure   *)
(* is named by how many of its elements have p, and how many do not.       *)
(***************************************************************************)
EXTENDS Updr

MCStates == {<<1, 1>>, <<0, 2>>, <<3, 0>>, <<2, 1>>, <<1, 2>>, <<0, 3>>}

(* What "there are different x1 .. xk of which i have p and j do not" says *)
(* of a structure; those of the k of which nothing is said may be any.     *)
Exist(i, j, k) == {s \in MCStates : s[1] >= i /\ s[2] >= j /\ s[1] + s[2] >= k}

MCDiagram == [s \in MCStates |-> Exist(s[1], s[2], s[1] + s[2])]
MCCubes ==
  [s \in MCStates |->
     {Exist(i, j, k) : i \in 0 .. s[1], j \in 0 .. s[2], k \in 1 .. s[1] + s[2]}
       \ {MCStates}]

NoneWithout == {s \in MCStates : s[2] = 0}
AtMostOneWithout == {s \in MCStates : s[2] <= 1}
AtMostTwoWithout == {s \in MCStates : s[2] <= 2}
NotAllWithout == {s \in MCStates : s[1] > 0}
Three == {s \in MCStates : s[1] + s[2] = 3}

(* Any formulas may hold initially.  The second one is unsafe for two of   *)
(* the modules below.                                                      *)
MCInits == {{NoneWithout}, {NotAllWithout}, {AtMostOneWithout, NotAllWithout}}
MCAxioms == {MCStates, Three}
Assert(S, clauses) == [safety |-> S, clauses |-> clauses]

(* Of any three different elements one has p; and of any two; "... | false". *)
MCProofs ==
  {<<Assert(AtMostTwoWithout, <<AtMostTwoWithout>>)>>,
   <<Assert(AtMostTwoWithout \cap AtMostOneWithout, <<AtMostTwoWithout, AtMostOneWithout>>)>>,
   <<Assert(AtMostOneWithout, <<MCStates>>), Assert(AtMostTwoWithout, <<AtMostTwoWithout>>)>>}

(* A step keeps the universe; none leaves <<0, 3>>, which is unsafe, nor   *)
(* <<0, 2>>.                                                               *)
MCSteps ==
  {<<s, t>> \in MCStates \X MCStates : s[1] + s[2] = t[1] + t[2] /\ s # t /\ s[1] > 0}
=============================================================================
