----------------------------- MODULE LemmaSet -----------------------------
(***************************************************************************)
(* A set of lemmas of several prefixes (LemmaSet of                        *)
(* inference/src/weaken.rs), minimized up to permutations of the variables *)
(* of a block.  The lemmas are known by ids; the bodies are keys of a      *)
(* subsumption map, whose values are the ids of the lemmas with that body. *)
(***************************************************************************)
EXTENDS LemmaQf, QuantPrefix

CONSTANT domain   (* the configuration, its `index` the order of the atoms *)

M == INSTANCE Subsumption

Kind ==
  CASE Cnf(domain)   -> M!CnfOf
    [] Naive(domain) -> M!DnfOf
    [] PDnf(domain)  -> M!PDnfOf

(* A body as the maps have it.                                             *)
Key(b) ==
  LET base(cs) == {{2 * domain.index[l[1]] + (IF l[2] THEN 1 ELSE 0) : l \in c} : c \in cs}
  IN  M!FromBase(Kind, IF PDnf(domain) THEN <<UNION base({b.units}), base(b.cubes)>> ELSE base(b))

(* A lemma has its prefix, its body and the key of that in the maps.       *)
LemmaOf(prefix, b) == [prefix |-> prefix, body |-> b, key |-> Key(b)]

Empty == [kind |-> Kind, lemmas |-> <<>>, map |-> M!MapNew(Kind), next |-> 0]

(* The keys that a query is for: those of all permutations of a body.      *)
Keys(b) == {Key(p) : p \in Permuted(domain, b, 1)}

SubsumingIds(ls, l) ==
  {i \in UNION UNION {{e[2] : e \in M!GetSubsuming(ls.kind, ls.map, key)} : key \in Keys(l.body)} :
     PrefixSubsumes(ls.lemmas[i].prefix, l.prefix)}

SubsumedIds(ls, l) ==
  {i \in UNION UNION {{e[2] : e \in M!GetSubsumed(ls.kind, ls.map, key)} : key \in Keys(l.body)} :
     PrefixSubsumes(l.prefix, ls.lemmas[i].prefix)}

SubsumesLemma(ls, l) == SubsumingIds(ls, l) # {}

(* get_id: none or one.                                                    *)
GetId(ls, l) ==
  {i \in UNION M!MapGet(ls.kind, ls.map, l.key) : PrefixContains(ls.lemmas[i].prefix, l.prefix)}

Insert(ls, l) ==
  [ls EXCEPT !.lemmas = @ @@ (ls.next :> l),
             !.map = M!MapPut(ls.kind, @, l.key, {(UNION M!MapGet(ls.kind, @, l.key)) \cup {ls.next}}),
             !.next = @ + 1]

InsertAll(ls, seq) == FoldLeft(Insert, ls, seq)

Delete(ls, id) ==
  LET key == ls.lemmas[id].key
  IN  [ls EXCEPT !.lemmas = M!Without(@, {id}),
                 !.map = M!MapPut(ls.kind, @, key, {(UNION M!MapGet(ls.kind, @, key)) \ {id}} \ {{}})]

DeleteAll(ls, ids) == FoldSet(LAMBDA id, acc : Delete(acc, id), ls, ids)

(* insert_minimized.                                                       *)
InsertLemma(ls, l) ==
  IF SubsumesLemma(ls, l) THEN ls ELSE Insert(DeleteAll(ls, SubsumedIds(ls, l)), l)

Minimal(seq) == FoldLeft(InsertLemma, Empty, seq)

(* as_iter of a LemmaSet.                                                  *)
InOrder(ls) ==
  LET before(l, m) ==
        \/ Existentials(l.prefix) < Existentials(m.prefix)
        \/ Existentials(l.prefix) = Existentials(m.prefix) /\ NumVars(l.prefix) < NumVars(m.prefix)
      less(i, j) == before(ls.lemmas[i], ls.lemmas[j])
      ids == M!SortSeq(Listed(DOMAIN ls.lemmas), less)
  IN  [k \in DOMAIN ids |-> ls.lemmas[ids[k]]]
=============================================================================
