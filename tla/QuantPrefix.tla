---------------------------- MODULE QuantPrefix ----------------------------
(***************************************************************************)
(* Quantifier prefixes and what they are generated from                    *)
(* (inference/src/quant.rs).  A prefix is a sequence of blocks, a          *)
(* quantifier and its variables each; a configuration may also leave the   *)
(* quantifier of a block open, which is then "any".                        *)
(***************************************************************************)
EXTENDS Naturals, Sequences, FiniteSetsExt, SequencesExt

Listed(S) == FoldSet(LAMBDA x, seq : Append(seq, x), <<>>, S)

NumVars(prefix) == FoldLeft(LAMBDA n, block : n + Len(block.names), 0, prefix)

Existentials(prefix) == NumVars(SelectSeq(prefix, LAMBDA block : block.quantifier = "exists"))

RestrictPrefix(prefix, ids) ==
  [i \in DOMAIN prefix |-> [prefix[i] EXCEPT !.names = SelectSeq(@, LAMBDA x : x \in ids)]]

PrefixContains(p, q) ==
  \A i \in DOMAIN p : /\ p[i].quantifier = q[i].quantifier
                      /\ Len(p[i].names) >= Len(q[i].names)

(* Whether q comes from p by turning universal quantifiers into existential *)
(* ones and dropping variables.  The code has an exception for a prefix of *)
(* no blocks, but none for a block of no variables.                        *)
PrefixSubsumes(p, q) ==
  \A i \in DOMAIN p : /\ Len(p[i].names) >= Len(q[i].names)
                      /\ p[i].quantifier = "forall" \/ q[i].quantifier = "exists"

(* Ord: the first block that tells the prefixes apart decides.             *)
PrefixRank(block) ==
  IF block.names = <<>> THEN <<1, 0, 0>>
  ELSE <<0, IF block.quantifier = "forall" THEN 0 ELSE 1, Len(block.names)>>

PrefixLess(p, q) ==
  \E i \in DOMAIN p :
    LET a == PrefixRank(p[i])
        b == PrefixRank(q[i])
    IN  /\ \A h \in 1 .. i - 1 : PrefixRank(p[h]) = PrefixRank(q[h])
        /\ \/ a[1] < b[1]
           \/ a[1] = b[1] /\ a[2] < b[2]
           \/ a[1] = b[1] /\ a[2] = b[2] /\ a[3] > b[3]

(* The prefixes of a configuration with so many variables, ...             *)
Distribute(amount, boxes) ==
  {d \in [DOMAIN boxes -> 0 .. amount] :
     /\ \A i \in DOMAIN boxes : d[i] <= boxes[i]
     /\ FoldLeft(LAMBDA n, k : n + k, 0, d) = amount}

ExactPrefixes(config, min, max, size) ==
  LET boxes == [i \in DOMAIN config |-> Len(config[i].names)]
      dists == Distribute(Min({size, NumVars(config)}), boxes)
      allowed(i, n) == IF config[i].quantifier # "any" THEN {config[i].quantifier}
                       ELSE IF n = 0 THEN {"forall"} ELSE {"forall", "exists"}
      quantifiers(d) == {q \in [DOMAIN config -> {"forall", "exists"}] :
                           \A i \in DOMAIN config : q[i] \in allowed(i, d[i])}
      prefix(d, q) == [i \in DOMAIN config |->
                         [quantifier |-> q[i], names |-> SubSeq(config[i].names, 1, d[i])]]
  IN  {p \in UNION {{prefix(d, q) : q \in quantifiers(d)} : d \in dists} :
         Existentials(p) \in min .. max}

(* ... and all of them, in the order they are generated in, and as often.  *)
AllPrefixes(config, max_existentials, max_size) ==
  FlattenSeq([e \in 1 .. max_existentials + 1 |->
    FlattenSeq([s \in 1 .. max_size + 1 |-> Listed(ExactPrefixes(config, e - 1, e - 1, s - 1))])])
=============================================================================
