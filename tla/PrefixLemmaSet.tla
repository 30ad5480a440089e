--------------------------- MODULE PrefixLemmaSet ---------------------------
(***************************************************************************)
(* The lemmas of one domain (PrefixLemmaSet of inference/src/weaken.rs),   *)
(* weakened by a model: what is kept are the strongest bodies that hold in *)
(* it, one for all the permutations of the variables of a block.           *)
(*                                                                         *)
(* The map `bodies` is the set of its keys, and answers as the order of    *)
(* LemmaQf says; that the maps do so is what LemmaSets is about.  Where    *)
(* the code goes through a hash set one order is taken: it decides which   *)
(* permutation of a body is kept.                                          *)
(***************************************************************************)
EXTENDS LemmaQf, SequencesExt
----------------------------------------------------------------------------
(* Sets of bodies without redundant ones                                   *)

InsertMinimized(D, b, set, from) ==
  IF SubsumesUpTo(D, set, b, from) THEN set ELSE (set \ GetSubsumed(D, set, b, from)) \cup {b}

Minimized(D, set, from) ==
  LET insert(s) ==
        LET b == CHOOSE x \in s.left : TRUE
        IN  [left |-> s.left \ {b}, min |-> InsertMinimized(D, b, s.min, from)]
      after[n \in 0 .. Cardinality(set)] ==
        IF n = 0 THEN [left |-> set, min |-> {}] ELSE insert(after[n - 1])
  IN  after[Cardinality(set)].min
----------------------------------------------------------------------------
(* The bodies of `set` that do not hold in m under the assignment          *)

Extended(D, m, asgn, index) == ExtendAssignment(asgn, Prefix(D)[index].names, m.size)

(* Mutant of Unsat: one assignment of existential variables is enough.     *)
UnsatAny(D, set, m, asgn, index) ==
  LET last == Len(Prefix(D)) + 1
      unsat[i \in 1 .. last] ==
        [a \in Assignments(D, m, i) |->
           IF i = last
           THEN {b \in set : Subsumes(D, b, FromBase(D, FromClause(D, NegCube(D, m, a))))}
           ELSE {b \in set : \A e \in Range(Extended(D, m, a, i)) : b \in unsat[i + 1][e]}]
  IN  unsat[index][asgn]

Unsat(D, set, m, asgn, index) ==
  LET last == Len(Prefix(D)) + 1
      unsat[i \in 1 .. last] ==
        [a \in Assignments(D, m, i) |->
           IF i = last
           THEN {b \in set : Subsumes(D, b, FromBase(D, FromClause(D, NegCube(D, m, a))))}
           ELSE LET all == Range(Extended(D, m, a, i))
                IN  IF Prefix(D)[i].quantifier = "forall"
                    THEN UNION {unsat[i + 1][e] : e \in all}
                    ELSE {b \in set : \A e \in all : b \in unsat[i + 1][e]}]
  IN  unsat[index][asgn]
----------------------------------------------------------------------------
(* weaken_add.  A PrefixLemmaSet that is being built is a record of its    *)
(* bodies and of whether its map would have panicked.                      *)

InsertAll(into, set) ==
  [bodies |-> into.bodies \cup set, twice |-> into.twice \/ into.bodies \cap set # {}]

Without(from, set) == [from EXCEPT !.bodies = @ \ set]

RemoveSubsumed(D, from, set, perm_index) ==
  Without(from, UNION {GetSubsumed(D, from.bodies, b, perm_index) : b \in set})

(* The arguments of a call at one block of the prefix.  The lemmas of      *)
(* `self` and of the ignored sets are those at the time of the call.       *)
Sets(D)  == [bodies : SUBSET Bodies(D), twice : BOOLEAN]
Calls(D, m, index) ==
  [self : Sets(D), to_weaken : SUBSET Bodies(D), asgn : Assignments(D, m, index), perm_index : Nat,
   prev_exists : BOOLEAN, ignore : SUBSET [set : SUBSET Bodies(D), perm_index : Nat]]

NewIgnore(c) == c.ignore \cup {[set |-> c.self.bodies, perm_index |-> c.perm_index]}

Removed(D, c, set) == IF c.prev_exists THEN RemoveSubsumed(D, c.self, set, c.perm_index) ELSE c.self

(* Past the prefix, the bodies themselves are weakened.                    *)
AddWeakened(D, m, c) ==
  LET weakened == UNION {WeakenBody(D, b, Cube(D, m, c.asgn), NewIgnore(c)) : b \in c.to_weaken}
      min == Minimized(D, {FromBase(D, w) : w \in weakened}, c.perm_index)
  IN  InsertAll(Removed(D, c, min), min)

(* A universal block: what is to be weakened is, for one assignment after  *)
(* the other.  What the blocks below it do is a function of their calls.   *)
AddForall(D, m, index, c, below) ==
  LET asgns == Extended(D, m, c.asgn, index)
      weaken(acc, a) ==
        LET unsat == Unsat(D, acc.bodies, m, a, index + 1)
        IN  below[[self |-> Without(acc, unsat), to_weaken |-> unsat, asgn |-> a,
                   perm_index |-> IF c.prev_exists THEN index ELSE c.perm_index,
                   prev_exists |-> FALSE, ignore |-> NewIgnore(c)]]
      first[k \in 0 .. Len(asgns)] ==
        IF k = 0 THEN [bodies |-> c.to_weaken, twice |-> c.self.twice]
                 ELSE weaken(first[k - 1], asgns[k])
      all == first[Len(asgns)]
      min == IF c.prev_exists THEN Minimized(D, all.bodies, c.perm_index) ELSE all.bodies
  IN  InsertAll([bodies |-> Removed(D, c, min).bodies, twice |-> all.twice], min)

(* An existential block: all is weakened by every assignment.              *)
AddExists(D, m, index, c, below) ==
  LET asgns == Extended(D, m, c.asgn, index)
      first[k \in 0 .. Len(asgns)] ==
        IF k = 0 THEN c.self
        ELSE below[[self |-> first[k - 1], to_weaken |-> c.to_weaken, asgn |-> asgns[k],
                    perm_index |-> c.perm_index, prev_exists |-> TRUE, ignore |-> c.ignore]]
  IN  first[Len(asgns)]

WeakenAdd(D, m, index, call) ==
  LET last == Len(Prefix(D)) + 1
      add[i \in 1 .. last] ==
        [c \in Calls(D, m, i) |->
           IF c.to_weaken = {} THEN c.self
           ELSE IF i = last THEN AddWeakened(D, m, c)
           ELSE IF Prefix(D)[i].names = <<>> THEN add[i + 1][c]
           ELSE IF Prefix(D)[i].quantifier = "forall" THEN AddForall(D, m, i, c, add[i + 1])
           ELSE AddExists(D, m, i, c, add[i + 1])]
  IN  add[index][call]
----------------------------------------------------------------------------
(* PrefixLemmaSet::weaken.                                                 *)
WeakenedBy(D, bodies, m) ==
  LET unsat == Unsat(D, bodies, m, EmptyAssignment, 1)
  IN  WeakenAdd(D, m, 1, [self |-> [bodies |-> bodies \ unsat, twice |-> FALSE], to_weaken |-> unsat,
                          asgn |-> EmptyAssignment, perm_index |-> 1, prev_exists |-> FALSE, ignore |-> {}])
=============================================================================
