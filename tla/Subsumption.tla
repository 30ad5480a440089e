---------------------------- MODULE Subsumption ----------------------------
(***************************************************************************)
(* The structures of inference/src/subsume.rs: the orders AndLike, OrLike  *)
(* and Pair, and the maps that answer which of their keys subsume a given  *)
(* one, or are subsumed by it, from tries.                                 *)
(*                                                                         *)
(* A type of the code is a value here, its kind, and the first argument of *)
(* every operator.  A literal is a number.  AndLike is a sequence, Pair a  *)
(* tuple; Reversed adds nothing to its element, nor its map to the map of  *)
(* it.  An Option is a set of at most one element.  What a query returns   *)
(* is the set of its pairs of a key and a value.                           *)
(***************************************************************************)
EXTENDS Integers, Sequences, SequencesExt, TLC

Lit           == [type |-> "literal"]
Reversed(k)   == [type |-> "reversed", of |-> k]
AndLike(k)    == [type |-> "and", of |-> k]
Pair(k1, k2)  == [type |-> "pair", fst |-> k1, snd |-> k2]

OrLike(k) == Reversed(AndLike(Reversed(k)))
CnfOf     == AndLike(OrLike(Lit))
DnfOf     == OrLike(AndLike(Lit))
PDnfOf    == Pair(OrLike(Lit), DnfOf)

----------------------------------------------------------------------------
(* The orders                                                              *)

(* A total order, for conjunctions lexicographic, a longer one first.      *)
RECURSIVE Leq(_, _, _), LeqSlices(_, _, _)
LeqSlices(k, and1, and2) ==
  \/ and2 = <<>>
  \/ /\ and1 # <<>>
     /\ IF Head(and1) = Head(and2) THEN LeqSlices(k, Tail(and1), Tail(and2))
                                   ELSE Leq(k, Head(and1), Head(and2))

Leq(k, a, b) ==
  CASE k.type = "literal"  -> a <= b
    [] k.type = "reversed" -> Leq(k.of, b, a)
    [] k.type = "and"      -> LeqSlices(k.of, a, b)
    [] k.type = "pair"     -> IF a[1] = b[1] THEN Leq(k.snd, a[2], b[2]) ELSE Leq(k.fst, a[1], b[1])

(* The elements of a conjunction are tried in their order, while they are  *)
(* not greater.                                                            *)
RECURSIVE Subsumes(_, _, _)
Subsumes(k, a, b) ==
  CASE k.type = "literal"  -> a = b
    [] k.type = "reversed" -> Subsumes(k.of, b, a)
    [] k.type = "and"      -> \A j \in DOMAIN b : \E i \in DOMAIN a :
                                /\ Subsumes(k.of, a[i], b[j])
                                /\ \A h \in 1 .. i : Leq(k.of, a[h], b[j])
    [] k.type = "pair"     -> Subsumes(k.fst, a[1], b[1]) /\ Subsumes(k.snd, a[2], b[2])

(* From a set of bases, the elements in their order, without those that an *)
(* earlier one subsumes.                                                   *)
RECURSIVE FromBase(_, _)
FromBase(k, base) ==
  CASE k.type = "literal"  -> base
    [] k.type = "reversed" -> FromBase(k.of, base)
    [] k.type = "and"      -> LET less(a, b) == a # b /\ Leq(k.of, a, b)
                                  list == FoldSet(LAMBDA b, seq : Append(seq, FromBase(k.of, b)), <<>>, base)
                                  keep(seq, o) == IF \E i \in DOMAIN seq : Subsumes(k.of, seq[i], o)
                                                  THEN seq ELSE Append(seq, o)
                              IN  FoldLeft(keep, <<>>, SortSeq(list, less))
    [] k.type = "pair"     -> <<FromBase(k.fst, base[1]), FromBase(k.snd, base[2])>>

----------------------------------------------------------------------------
(* The maps                                                                *)

RECURSIVE MapNew(_), MapIsEmpty(_, _), MapGet(_, _, _), MapPut(_, _, _, _),
          GetSubsuming(_, _, _), GetSubsumed(_, _, _),
          TrieNew(_), TrieGet(_, _, _), TriePut(_, _, _, _),
          TrieSubsumingAnd(_, _, _, _), TrieSubsumingOr(_, _, _, _)

OneOf(S, default) == IF S = {} THEN default ELSE CHOOSE x \in S : TRUE

Without(f, xs) == [x \in DOMAIN f \ xs |-> f[x]]

(* All subsequences.                                                       *)
Powerset(seq) ==
  FoldLeft(LAMBDA acc, o : acc \o [i \in DOMAIN acc |-> Append(acc[i], o)], << <<>> >>, seq)

TrieNew(k) == [value |-> {}, edges |-> MapNew(k)]

TrieGet(k, trie, key) ==
  IF key = <<>> THEN trie.value
  ELSE UNION {TrieGet(k, t, Tail(key)) : t \in MapGet(k, trie.edges, Head(key))}

(* insert, mutate and remove: the value of a key becomes another one or    *)
(* none; nodes are added on the way, and those that are left empty go.     *)
TriePut(k, trie, key, value) ==
  IF key = <<>> THEN [trie EXCEPT !.value = value]
  ELSE LET next == TriePut(k, OneOf(MapGet(k, trie.edges, Head(key)), TrieNew(k)), Tail(key), value)
           left == {t \in {next} : t.value # {} \/ ~MapIsEmpty(k, t.edges)}
       IN  [trie EXCEPT !.edges = MapPut(k, @, Head(key), left)]

(* The paths whose elements together subsume all of key.                   *)
TrieSubsumingAnd(k, trie, key, path) ==
  LET edges == UNION {GetSubsuming(k, trie.edges, key[i]) : i \in DOMAIN key}
      rest(o) == SelectSeq(key, LAMBDA x : ~Subsumes(k, o, x))
  IN  IF key = <<>> THEN {<<path, v>> : v \in trie.value}
      ELSE UNION {TrieSubsumingAnd(k, e[2], rest(e[1]), Append(path, e[1])) :
                    e \in {f \in edges : Leq(k, f[1], Head(key))}}

(* Mutant of TrieSubsumingOr: every element is used once only.             *)
RECURSIVE TrieSubsumingOrOnce(_, _, _, _)
TrieSubsumingOrOnce(k, trie, key, path) ==
  {<<path, v>> : v \in trie.value}
    \cup UNION {UNION {TrieSubsumingOrOnce(k, e[2], SubSeq(key, i + 1, Len(key)), Append(path, e[1])) :
                         e \in GetSubsuming(k, trie.edges, key[i])} : i \in DOMAIN key}

(* The paths all of whose elements subsume one of key.                     *)
TrieSubsumingOr(k, trie, key, path) ==
  LET edges == UNION {GetSubsuming(k, trie.edges, key[i]) : i \in DOMAIN key}
      rest(o) == SelectSeq(key, LAMBDA x : ~Leq(k, x, o))
  IN  {<<path, v>> : v \in trie.value}
        \cup UNION {TrieSubsumingOr(k, e[2], rest(e[1]), Append(path, e[1])) : e \in edges}

MapNew(k) ==
  CASE k.type = "literal"  -> <<>>
    [] k.type = "reversed" -> MapNew(k.of)
    [] k.type = "and"      -> [keys |-> <<>>, values |-> <<>>, trie |-> TrieNew(Reversed(k.of)),
                               subsets |-> TrieNew(k.of), next |-> 0]
    [] k.type = "pair"     -> MapNew(k.fst)

MapIsEmpty(k, map) ==
  CASE k.type = "literal"  -> map = <<>>
    [] k.type = "reversed" -> MapIsEmpty(k.of, map)
    [] k.type = "and"      -> map.keys = <<>>
    [] k.type = "pair"     -> MapIsEmpty(k.fst, map)

MapGet(k, map, key) ==
  CASE k.type = "literal"  -> IF key \in DOMAIN map THEN {map[key]} ELSE {}
    [] k.type = "reversed" -> MapGet(k.of, map, key)
    [] k.type = "and"      -> {map.values[id] : id \in TrieGet(Reversed(k.of), map.trie, Reverse(key))}
    [] k.type = "pair"     -> UNION {MapGet(k.snd, m, key[2]) : m \in MapGet(k.fst, map, key[1])}

AndInsert(k, map, key, value) ==
  LET id == map.next
      add(t, s) == TriePut(k, t, s, {(UNION TrieGet(k, t, s)) \cup {id}})
  IN  IF value = {} THEN map
      ELSE [keys |-> map.keys @@ (id :> key), values |-> map.values @@ (id :> OneOf(value, 0)), next |-> id + 1,
            trie |-> TriePut(Reversed(k), map.trie, Reverse(key), {id}),
            subsets |-> FoldLeft(add, map.subsets, Powerset(key))]

AndRemove(k, map, key, ids) ==
  LET remove(t, s) == TriePut(k, t, s, {(UNION TrieGet(k, t, s)) \ ids} \ {{}})
  IN  [map EXCEPT !.keys = Without(@, ids), !.values = Without(@, ids),
                  !.trie = TriePut(Reversed(k), @, Reverse(key), {}),
                  !.subsets = FoldLeft(remove, @, Powerset(key))]

AndPut(k, map, key, ids, value) ==
  IF ids = {} THEN AndInsert(k, map, key, value)
  ELSE IF value = {} THEN AndRemove(k, map, key, ids)
  ELSE [map EXCEPT !.values = [id \in DOMAIN @ |-> IF id \in ids THEN OneOf(value, 0) ELSE @[id]]]

(* insert, get_mut and remove.                                             *)
MapPut(k, map, key, value) ==
  CASE k.type = "literal"  -> IF value = {} THEN Without(map, {key}) ELSE (key :> OneOf(value, 0)) @@ map
    [] k.type = "reversed" -> MapPut(k.of, map, key, value)
    [] k.type = "and"      -> AndPut(k.of, map, key, TrieGet(Reversed(k.of), map.trie, Reverse(key)), value)
    [] k.type = "pair"     -> LET old  == OneOf(MapGet(k.fst, map, key[1]), MapNew(k.snd))
                                  new  == MapPut(k.snd, old, key[2], value)
                                  left == {m \in {new} : ~MapIsEmpty(k.snd, m)}
                              IN  MapPut(k.fst, map, key[1], left)

EqualEntry(map, key) == {<<x, map[x]>> : x \in DOMAIN map \cap {key}}

GetSubsuming(k, map, key) ==
  CASE k.type = "literal"  -> EqualEntry(map, key)
    [] k.type = "reversed" -> GetSubsumed(k.of, map, key)
    [] k.type = "and"      -> {<<map.keys[id], map.values[id]>> :
                                 id \in UNION {e[2] : e \in TrieSubsumingAnd(k.of, map.subsets, key, <<>>)}}
    [] k.type = "pair"     -> UNION {{<< <<e[1], f[1]>>, f[2]>> : f \in GetSubsuming(k.snd, e[2], key[2])} :
                                       e \in GetSubsuming(k.fst, map, key[1])}

GetSubsumed(k, map, key) ==
  CASE k.type = "literal"  -> EqualEntry(map, key)
    [] k.type = "reversed" -> GetSubsuming(k.of, map, key)
    [] k.type = "and"      -> {<<Reverse(e[1]), map.values[e[2]]>> :
                                 e \in TrieSubsumingOr(Reversed(k.of), map.trie, Reverse(key), <<>>)}
    [] k.type = "pair"     -> UNION {{<< <<e[1], f[1]>>, f[2]>> : f \in GetSubsumed(k.snd, e[2], key[2])} :
                                       e \in GetSubsumed(k.fst, map, key[1])}
=============================================================================
