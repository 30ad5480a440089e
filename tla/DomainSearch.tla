---------------------------- MODULE DomainSearch ----------------------------
(***************************************************************************)
(* The lemma domains that qalpha (inference/src/fixpoint.rs) goes through, *)
(* with their approximate sizes (inference/src/lemma.rs).  A domain is a   *)
(* record as LemmaQf takes it; a configuration is one with its blocks as   *)
(* `prefix`, and with the options of the search.                           *)
(***************************************************************************)
EXTENDS QuantPrefix, LemmaQf

MinDisjuncts  == 3
MinDomainSize == 100

----------------------------------------------------------------------------
(* Sizes                                                                   *)

Product(lo, hi) == FoldSet(LAMBDA i, acc : i * acc, 1, lo .. hi)

Choose(n, k) == Product((n - k) + 1, n) \div Product(1, k)

ClausesCubesCount(atoms, len) == IF len > atoms THEN 0 ELSE Choose(atoms, len) * 2 ^ len

SumTo(n, f(_)) == FoldSet(LAMBDA i, acc : f(i) + acc, 0, 0 .. n)

CountUpTo(atoms, n) == SumTo(n, LAMBDA len : ClausesCubesCount(atoms, len))

NonUniversalAtoms(d) == {a \in d.atoms : Vars(<<a, TRUE>>) \cap NonUniversalVars(d) # {}}

CubeAtoms(d) == Cardinality(IF d.kind = "pdnf" THEN NonUniversalAtoms(d) ELSE d.atoms)

ApproxSpaceSize(d) ==
  LET atoms == Cardinality(d.atoms)
      cubes == CountUpTo(CubeAtoms(d), d.cube_size)
  IN  IF d.kind = "cnf" THEN Choose(CountUpTo(atoms, d.clause_size), d.clauses)
      ELSE SumTo(d.non_unit, LAMBDA n : CountUpTo(atoms, d.cubes - n) * Choose(cubes, n))

----------------------------------------------------------------------------
(* Domains                                                                 *)

(* LemmaQf::new: a prefix, the atoms of its variables, and its limits.     *)
DomainOf(config, prefix) ==
  LET names == UNION {Range(prefix[i].names) : i \in DOMAIN prefix}
      d == [config EXCEPT !.prefix = prefix,
                          !.atoms = {a \in @ : \A i \in 2 .. Len(a) : a[i] \in names}]
  IN  [d EXCEPT !.clauses = Clauses(d), !.non_unit = NonUnit(d), !.cube_size = CubeSize(d)]

SubSpaces(d) ==
  LET cubes == Min(IF d.kind = "pdnf" THEN {d.cubes, Cardinality(d.atoms)} ELSE {d.cubes})
      size == Min(IF d.kind = "pdnf" THEN {d.cube_size, CubeAtoms(d)} ELSE {d.cube_size})
  IN  IF d.kind = "cnf"
      THEN {[d EXCEPT !.clauses = n, !.clause_size = s] :
              n \in 1 .. d.clauses, s \in MinDisjuncts .. d.clause_size}
      ELSE {[d EXCEPT !.cubes = t[1], !.non_unit = t[2], !.cube_size = t[3]] :
              t \in {u \in (MinDisjuncts .. cubes) \X (0 .. d.non_unit) \X (0 .. size) :
                       u[2] <= u[1] /\ IF u[2] = 0 THEN u[3] = 0 ELSE u[3] >= 2}}

DomainContains(d, e) ==
  /\ PrefixContains(d.prefix, e.prefix)
  /\ IF d.kind = "cnf" THEN d.clauses >= e.clauses /\ d.clause_size >= e.clause_size
     ELSE d.cubes >= e.cubes /\ d.non_unit >= e.non_unit /\ d.cube_size >= e.cube_size

(* The domains in the order they are searched in, by size; all those of    *)
(* one number of variables if there is no search.                          *)
AllDomains(config) ==
  LET prefixes == AllPrefixes(config.prefix, config.max_existentials, config.max_size)
      spaces(p) == {d \in SubSpaces(DomainOf(config, p)) : ApproxSpaceSize(d) > 1}
      less(d, e) == \/ ApproxSpaceSize(d) < ApproxSpaceSize(e)
                    \/ ApproxSpaceSize(d) = ApproxSpaceSize(e)
                         /\ Existentials(d.prefix) < Existentials(e.prefix)
  IN  IF config.no_search
      THEN Listed({DomainOf(config, p) :
                       p \in ExactPrefixes(config.prefix, 0, config.max_existentials, config.max_size)})
      ELSE SortSeq(FlattenSeq([i \in DOMAIN prefixes |-> Listed(spaces(prefixes[i]))]), less)
=============================================================================
