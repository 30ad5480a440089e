------------------------------- MODULE LemmaQf -------------------------------
(***************************************************************************)
(* The quantifier-free bodies of lemmas: the order of subsumption between  *)
(* them (inference/src/subsume.rs), and how a body is weakened so that it  *)
(* holds under one more assignment (LemmaCnf, LemmaPDnfNaive and LemmaPDnf *)
(* of inference/src/lemma.rs).                                             *)
(*                                                                         *)
(* A literal is an atom with its sign, an atom a relation applied to       *)
(* variables.  Clauses and cubes are sets of literals: AndLike and OrLike  *)
(* keep them as sorted sequences without duplicates, which stand for those *)
(* sets.  A CNF body is the set of its clauses, a naive pDNF body the set  *)
(* of its cubes, and a pDNF body a record of the literals of its unit      *)
(* cubes and its other cubes.                                              *)
(***************************************************************************)
EXTENDS Naturals, Sequences, FiniteSetsExt, Functions

(* D is the domain: the quantifier prefix, the atoms that may be used, the *)
(* kind of bodies, "cnf", "pdnf" or "naive", and their limits.             *)
Prefix(D) == D.prefix
Cnf(D)    == D.kind = "cnf"
PDnf(D)   == D.kind = "pdnf"
Naive(D)  == D.kind = "naive"

Literals(D) == D.atoms \X BOOLEAN

Neg(l)   == <<l[1], ~l[2]>>
Negs(ls) == {Neg(l) : l \in ls}
IsEq(l)  == l[1][1] = "eq"
Vars(l)  == {l[1][i] : i \in 2 .. Len(l[1])}

NamesOf(D, i) == {Prefix(D)[i].names[k] : k \in DOMAIN Prefix(D)[i].names}

(* The variables from the first quantifier on that may be existential.     *)
NonUniversalVars(D) ==
  UNION {NamesOf(D, i) : i \in {j \in DOMAIN Prefix(D) :
                              \E h \in 1 .. j : Prefix(D)[h].quantifier # "forall"}}

(* The limits as the constructors correct them.                            *)
Clauses(D)  == IF NonUniversalVars(D) = {} THEN 1 ELSE D.clauses
NonUnit(D)  == IF NonUniversalVars(D) = {} THEN 0 ELSE D.non_unit
CubeSize(D) == IF NonUnit(D) = 0 THEN 1 ELSE D.cube_size

(* The bodies over the atoms of the domain, without its limits.            *)
Bodies(D) ==
  LET cubes == SUBSET SUBSET Literals(D)
  IN  IF PDnf(D) THEN [units : SUBSET Literals(D), cubes : cubes] ELSE cubes

----------------------------------------------------------------------------
(* The order                                                               *)

(* A conjunction drops what another element of it implies, a disjunction   *)
(* what implies another one: both drop the larger of two sets of literals. *)
Smallest(S) == {c \in S : ~\E d \in S : d # c /\ d \subseteq c}

FromBase(D, b) == IF PDnf(D) THEN [b EXCEPT !.cubes = Smallest(@)] ELSE Smallest(b)

(* a implies b.                                                            *)
Subsumes(D, a, b) ==
  CASE Cnf(D)   -> \A d \in b : \E c \in a : c \subseteq d
    [] Naive(D) -> \A c \in a : \E d \in b : d \subseteq c
    [] PDnf(D)  -> /\ a.units \subseteq b.units
                /\ \A c \in a.cubes : \E d \in b.cubes : d \subseteq c

FromClause(D, ls) ==
  CASE Cnf(D)   -> {ls}
    [] Naive(D) -> {{l} : l \in ls}
    [] PDnf(D)  -> [units |-> ls, cubes |-> {{l} : l \in ls}]

LiteralsOf(D, b) == IF PDnf(D) THEN b.units \cup UNION b.cubes ELSE UNION b
Ids(D, b) == UNION {Vars(l) : l \in LiteralsOf(D, b)}

(* An equality is an atom one way round only.                              *)
SubstituteAtom(D, a, perm) ==
  LET image(x) == IF x \in DOMAIN perm THEN perm[x] ELSE x
      new == [i \in DOMAIN a |-> IF i = 1 THEN a[1] ELSE image(a[i])]
  IN  IF a[1] = "eq" /\ new \notin D.atoms THEN <<"eq", new[3], new[2]>> ELSE new

Substitute(D, b, perm) ==
  LET all(ls) == {<<SubstituteAtom(D, l[1], perm), l[2]>> : l \in ls}
  IN  IF PDnf(D) THEN [units |-> all(b.units), cubes |-> {all(c) : c \in b.cubes}]
              ELSE {all(c) : c \in b}

----------------------------------------------------------------------------
(* Subsumption up to permutations of the blocks from `from` on             *)

(* Mutant of VarPermutations: variables of different blocks are swapped.   *)
AcrossBlocks(D, from, ids) ==
  LET all == UNION {NamesOf(D, i) : i \in from .. Len(Prefix(D))} IN Injection(ids \cap all, all)

VarPermutations(D, from, ids) ==
  LET blocks == from .. Len(Prefix(D))
      all    == UNION {NamesOf(D, i) : i \in blocks}
  IN  {f \in Injection(ids \cap all, all) :
         \A i \in blocks : \A x \in ids \cap NamesOf(D, i) : f[x] \in NamesOf(D, i)}

Permuted(D, b, from) == {FromBase(D, Substitute(D, b, perm)) : perm \in VarPermutations(D, from, Ids(D, b))}

SubsumesUpTo(D, set, b, from) == \E p \in Permuted(D, b, from) : \E a \in set : Subsumes(D, a, p)

GetSubsumed(D, set, b, from) == {a \in set : \E p \in Permuted(D, b, from) : Subsumes(D, p, a)}

(* IgnoreSubsumed: what one of several sets implies, each up to the        *)
(* permutations from its perm_index on.                                    *)
Ignored(D, ignore, b) == \E ig \in ignore : SubsumesUpTo(D, ig.set, FromBase(D, b), ig.perm_index)

----------------------------------------------------------------------------
(* Weakening: the bodies that follow from b and that the cube satisfies    *)

Strongest(D) ==
  CASE Cnf(D)   -> {{{}}}
    [] Naive(D) -> {{}}
    [] PDnf(D)  -> {[units |-> {}, cubes |-> {}]}

Combinations(k, ls) == kSubset(Min({k, Cardinality(ls)}), ls)

(* A clause grows by a literal, if it may, but never by an inequality.     *)
WeakenClause(D, c, cube) ==
  IF c \cap cube # {} THEN {c}
  ELSE IF Cardinality(c) >= D.clause_size THEN {}
  ELSE {c \cup {l} : l \in {k \in cube : Neg(k) \notin c /\ (IsEq(k) => k[2])}}

WeakenCnf(D, b, cube, ignore) ==
  IF b = {{}} THEN {{{l} : l \in ls} : ls \in Combinations(Clauses(D), cube)}
  ELSE LET weaker == [c \in b |-> WeakenClause(D, c, cube)]
           choices == {f \in [b -> UNION Range(weaker)] : \A c \in b : f[c] \in weaker[c]}
       IN  {w \in {Range(f) : f \in choices} : ~Ignored(D, ignore, w)}

(* A pDNF body grows by a literal, which its other cubes lose, ...         *)
AddLiteral(b, cube) ==
  {[units |-> b.units \cup {l}, cubes |-> {c \ {Neg(l)} : c \in {d \in b.cubes : l \notin d}}] :
     l \in {k \in cube : /\ IsEq(k) => k[2]
                         /\ Neg(k) \notin b.units
                         /\ \A c \in b.cubes : k \in c \/ Cardinality(c \ {Neg(k)}) > 1}}

(* ... one of its cubes is cut down to what it shares with the new one ... *)
IntersectCube(b, cube) ==
  {[b EXCEPT !.cubes = (@ \ {c}) \cup {c \cap cube}] :
     c \in {d \in b.cubes : Cardinality(d \cap cube) > 1}}

(* ... or it gets a part of the new one, with a non-universal variable in  *)
(* every literal.                                                          *)
AddCube(D, b, cube) ==
  LET ls == {l \in cube : Neg(l) \notin b.units /\ Vars(l) \cap NonUniversalVars(D) # {}}
  IN  {[b EXCEPT !.cubes = @ \cup {c}] :
         c \in {d \in Combinations(CubeSize(D), ls) : Cardinality(b.cubes) < NonUnit(D) /\ Cardinality(d) > 1}}

WeakenPDnf(D, b, cube, ignore) ==
  LET room == Cardinality(b.units) + Cardinality(b.cubes) < D.cubes
  IN  {w \in IntersectCube(b, cube) \cup (IF room THEN AddLiteral(b, cube) \cup AddCube(D, b, cube) ELSE {}) :
         ~Ignored(D, ignore, w)}

Unit(c) == Cardinality(c) = 1
UnitLiterals(b) == UNION {c \in b : Unit(c)}

(* unit_normalize: the other cubes once the literal is a unit cube.        *)
UnitNormalize(b, l) == {c \ {Neg(l)} : c \in {d \in b : l \notin d}}

(* One turn of the loop of add_unit: the next literal, if there is one,    *)
(* becomes a unit cube, and another one may be left of one of the cubes.   *)
(* An inequality, or an empty cube, and there is no body.                  *)
AddUnitTurn(s) ==
  LET l    == CHOOSE k \in s.next : TRUE
      base == UnitNormalize(s.cubes, l)
      unit == {c \in base : Unit(c)}
      c    == CHOOSE d \in unit : TRUE
      more == IF unit = {} THEN [cubes |-> base, units |-> s.units \cup {l}, next |-> {}]
              ELSE [cubes |-> base \ {c}, units |-> s.units \cup {l}, next |-> c]
  IN  IF s.next = {} THEN {s}
      ELSE IF (IsEq(l) /\ ~l[2]) \/ {} \in base THEN {}
      ELSE {more}

(* A naive pDNF body with one more unit cube, and with those this makes of *)
(* its other cubes; at most one body.  Every turn takes a cube away.       *)
AddUnit(D, b, l) ==
  LET turns == Cardinality(b) + 1
      after[n \in 0 .. turns] ==
        IF n = 0 THEN {[cubes |-> b, units |-> {}, next |-> {l}]}
                 ELSE UNION {AddUnitTurn(s) : s \in after[n - 1]}
  IN  {w \in {s.cubes \cup {{k} : k \in s.units} : s \in after[turns]} : Cardinality(w) <= D.cubes}

AddCombinations(D, b, cube) ==
  LET rest == cube \ Negs(UnitLiterals(b))
  IN  IF cube \cap UnitLiterals(b) # {} THEN {b}
      ELSE IF Cardinality(rest) <= 1 THEN UNION {AddUnit(D, b, l) : l \in rest}
      ELSE {b \cup {c} : c \in {d \in Combinations(CubeSize(D), rest) : Cardinality(b) < D.cubes}}

IntersectCubes(b, cube) ==
  LET rest == cube \ Negs(UnitLiterals(b))
  IN  IF cube \cap UnitLiterals(b) # {} THEN {b}
      ELSE {(b \ {c}) \cup {c \cap rest} : c \in {d \in b : ~Unit(d) /\ Cardinality(d \cap rest) > 1}}

(* What add_combinations returns first is not filtered.                    *)
WeakenNaive(D, b, cube, ignore) ==
  LET non_units == {c \in b : ~Unit(c)}
      with(ls)  == {w \in UNION {AddUnit(D, b, l) : l \in ls} : ~Ignored(D, ignore, w)}
      others    == (UNION {AddCombinations(D, w, cube) : w \in with(UNION non_units)}) \cup IntersectCubes(b, cube)
  IN  IF Cardinality(non_units) < NonUnit(D) THEN AddCombinations(D, b, cube)
      ELSE with(cube) \cup {w \in others : ~Ignored(D, ignore, w)}

WeakenBody(D, b, cube, ignore) ==
  CASE Cnf(D)   -> WeakenCnf(D, b, cube, ignore)
    [] Naive(D) -> WeakenNaive(D, b, cube, ignore)
    [] PDnf(D)  -> WeakenPDnf(D, b, cube, ignore)

----------------------------------------------------------------------------
(* Models and assignments                                                  *)

EmptyAssignment == [x \in {} |-> 0]

Eval(a, m, asgn) ==
  IF a[1] = "eq" THEN asgn[a[2]] = asgn[a[3]]
                 ELSE [i \in 1 .. Len(a) - 1 |-> asgn[a[i + 1]]] \in m.holds[a[1]]

Cube(D, m, asgn)    == {<<a, Eval(a, m, asgn)>> : a \in D.atoms}
NegCube(D, m, asgn) == Negs(Cube(D, m, asgn))

Assign(asgn, x, e) == [y \in DOMAIN asgn \cup {x} |-> IF y = x THEN e ELSE asgn[y]]

(* All extensions of an assignment, those of the last name varying first.  *)
ExtendAssignment(asgn, names, n) ==
  LET extend(asgns, x) ==
        [k \in 1 .. Len(asgns) * n |-> Assign(asgns[((k - 1) \div n) + 1], x, (k - 1) % n)]
      first[i \in 0 .. Len(names)] ==
        IF i = 0 THEN <<asgn>> ELSE extend(first[i - 1], names[i])
  IN  first[Len(names)]

TrueUnder(D, b, m, asgn) ==
  LET true(l) == Eval(l[1], m, asgn) = l[2]
  IN  CASE Cnf(D)   -> \A c \in b : \E l \in c : true(l)
        [] Naive(D) -> \E c \in b : \A l \in c : true(l)
        [] PDnf(D)  -> (\E l \in b.units : true(l)) \/ \E c \in b.cubes : \A l \in c : true(l)

(* The assignments to the variables of the blocks before `index`.          *)
Assignments(D, m, index) ==
  [UNION {NamesOf(D, i) : i \in 1 .. index - 1} -> 0 .. m.size - 1]

Extensions(D, m, asgn, index) ==
  {a \in Assignments(D, m, index + 1) : \A x \in DOMAIN asgn \ NamesOf(D, index) : a[x] = asgn[x]}

(* The quantified formula of a body from a block on, as the semantics      *)
(* evaluates it.                                                           *)
TrueFrom(D, b, m, asgn, index) ==
  LET last == Len(Prefix(D)) + 1
      true[i \in 1 .. last] ==
        [a \in Assignments(D, m, i) |->
           IF i = last THEN TrueUnder(D, b, m, a)
           ELSE IF Prefix(D)[i].quantifier = "forall"
           THEN \A e \in Extensions(D, m, a, i) : true[i + 1][e]
           ELSE \E e \in Extensions(D, m, a, i) : true[i + 1][e]]
  IN  true[index][asgn]

Holds(D, b, m) == TrueFrom(D, b, m, EmptyAssignment, 1)

----------------------------------------------------------------------------
(* The language of the domain                                              *)

UpTo(k, S) ==
  LET upto[n \in 0 .. k] ==
        IF n = 0 THEN {{}} ELSE upto[n - 1] \cup {s \cup {x} : s \in upto[n - 1], x \in S}
  IN  upto[k]

Positive(D) == {l \in Literals(D) : IsEq(l) => l[2]}
Consistent(ls) == ls \cap Negs(ls) = {}

(* An inequality is only ever the first literal of a clause.               *)
LanguageCnf(D) ==
  {b \in UpTo(Clauses(D), {c \in UpTo(D.clause_size, Literals(D)) :
                          Consistent(c) /\ Cardinality(c \ Positive(D)) <= 1}) :
     b # {{}} /\ b # {} /\ FromBase(D, b) = b}

(* The literals of the unit cubes are in no other cube, whatever the sign. *)
LanguageDnf(D, literals) ==
  LET cubes == {c \in UpTo(CubeSize(D), literals) : Consistent(c) /\ Cardinality(c) > 1}
      units == {ls \in UpTo(D.cubes, Positive(D)) : Consistent(ls)}
  IN  {b \in [units : units, cubes : UpTo(NonUnit(D), cubes)] :
         /\ b.cubes = Smallest(b.cubes)
         /\ Cardinality(b.units) + Cardinality(b.cubes) <= D.cubes
         /\ \A c \in b.cubes : c \cap (b.units \cup Negs(b.units)) = {}}

Language(D) ==
  CASE Cnf(D)   -> LanguageCnf(D)
    [] Naive(D) -> {b.cubes \cup {{l} : l \in b.units} : b \in LanguageDnf(D, Literals(D))}
    [] PDnf(D)  -> LanguageDnf(D, {l \in Literals(D) : Vars(l) \cap NonUniversalVars(D) # {}})
=============================================================================
