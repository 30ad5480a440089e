----------------------------- MODULE LemmaSets -----------------------------
(***************************************************************************)
(* The sets of lemmas of an InductionFrame (inference/src/lemma.rs), while *)
(* qalpha (inference/src/fixpoint.rs) goes from one set of domains to the  *)
(* next: WeakenLemmaSet, the strongest lemmas of each domain that hold in  *)
(* the states seen so far; `lemmas`, what is left of them without what     *)
(* another one subsumes; and `blocked`.  Which states come and what is     *)
(* blocked, that is what the queries answer, is left open.                 *)
(***************************************************************************)
EXTENDS WeakenLemmaSet

VARIABLES
  lemmas,     (* the frame                                                 *)
  blocked,    (* the lemmas that follow from it after a step               *)
  asked,      (* those that jobs are asking about                          *)
  updates,    (* how often the frame was updated, the first time after all *)
              (* initial states have been seen                             *)
  updated     (* history: the frame is up to date                          *)

frame == <<lemmas, blocked, asked, updates, updated>>
vars == <<weaken_vars, frame>>

Lemmas == INSTANCE LemmaSet WITH domain <- infer_cfg

----------------------------------------------------------------------------
(* as_vec: the lemmas of a sequence of sets, with the variables they have. *)
AsVec(ds, ss) ==
  LET of(k) == {Lemmas!LemmaOf(RestrictPrefix(ds[k].prefix, Ids(ds[k], b)), b) : b \in ss[k]}
      less(l, m) == \/ PrefixLess(l.prefix, m.prefix)
                    \/ /\ ~PrefixLess(m.prefix, l.prefix)
                       /\ l.key # m.key /\ Lemmas!M!Leq(Lemmas!Kind, l.key, m.key)
  IN  SortSeq(FlattenSeq([k \in DOMAIN ds |-> Listed(of(k))]), less)

Weakened == AsVec(active, sets)

(* WeakenLemmaSet::contains.                                               *)
WeakenContains(l) ==
  \E k \in DOMAIN active : /\ PrefixContains(active[k].prefix, l.prefix)
                           /\ l.body \in sets[k]

----------------------------------------------------------------------------
(* InductionFrame::new, with the active domains.                           *)
NewFrame(ds, ss) == Lemmas!Minimal(AsVec(ds, ss))

Init ==
  /\ WeakenInit
  /\ lemmas = NewFrame(active, sets) /\ blocked = Lemmas!Empty /\ asked = {}
  /\ updates = 0 /\ updated = FALSE

(* qalpha goes on with a new frame, or returns.                            *)
NextFrame(safe) ==
  /\ updates > 0 /\ updated
  /\ NextDomains(safe)
  /\ \/ done' /\ UNCHANGED frame
     \/ /\ ~done'
        /\ lemmas' = NewFrame(active', sets') /\ blocked' = Lemmas!Empty /\ asked' = {}
        /\ updates' = 0 /\ updated' = FALSE

Weaken(m) ==
  /\ WeakenBy(m)
  /\ updated' = FALSE /\ asked' = {}
  /\ UNCHANGED <<lemmas, blocked, updates>>

(* A job of init_cex or trans_cex passes the filter: in trans_cex only the *)
(* lemmas of the frame are asked about.                                    *)
Ask(l) ==
  /\ ~done
  /\ Cardinality(DOMAIN blocked.lemmas) + Cardinality(asked) < infer_cfg.max_blocked
  /\ l \notin asked /\ ~Lemmas!SubsumesLemma(blocked, l)
  /\ updates = 0 \/ (updated /\ Lemmas!GetId(lemmas, l) # {})
  /\ asked' = asked \cup {l}
  /\ UNCHANGED <<weaken_vars, lemmas, blocked, updates, updated>>

(* Its query has no counterexample.  By now another job may have inserted  *)
(* a lemma that subsumes this one.                                         *)
Block(l) ==
  /\ l \in asked
  /\ blocked' = Lemmas!Insert(blocked, l) /\ asked' = asked \ {l}
  /\ UNCHANGED <<weaken_vars, lemmas, updates, updated>>

(* The lemmas of the frame that were weakened.                             *)
Gone == {i \in DOMAIN lemmas.lemmas : ~WeakenContains(lemmas.lemmas[i])}

(* What comes instead, where nothing that stays subsumes it.               *)
(* Mutants of New: whether it stays is not asked, or of those that are     *)
(* gone as well.                                                           *)
NewAnyway(rest) == Weakened
NewToAll(rest) == SelectSeq(Weakened, LAMBDA l : ~Lemmas!SubsumesLemma(lemmas, l))
New(rest) == SelectSeq(Weakened, LAMBDA l : ~Lemmas!SubsumesLemma(rest, l))

(* update.  The new lemmas come in some order, of which two are taken.     *)
(* With the lemmas that are gone goes what they helped to block.           *)
Update(reverse, unblocked) ==
  /\ ~done
  /\ ~updated /\ updates < infer_cfg.max_updates
  /\ Gone = {} => unblocked = {}
  /\ \E rest \in {Lemmas!DeleteAll(lemmas, Gone)} :
     \E new \in {New(rest)} :
     \E min \in {Lemmas!Minimal(IF reverse THEN Reverse(new) ELSE new)} :
       lemmas' = IF DOMAIN lemmas.lemmas = {} THEN lemmas ELSE Lemmas!InsertAll(rest, Lemmas!InOrder(min))
  /\ blocked' = Lemmas!DeleteAll(blocked, unblocked)
  /\ updates' = updates + 1 /\ updated' = TRUE /\ asked' = {}
  /\ UNCHANGED weaken_vars

Next ==
  \/ \E m \in Models : Weaken(m)
  \/ \E l \in ToSet(Weakened) : Ask(l) \/ Block(l)
  \/ \E reverse \in BOOLEAN, unblocked \in SUBSET DOMAIN blocked.lemmas : Update(reverse, unblocked)
  \/ \E safe \in BOOLEAN : NextFrame(safe)

Spec == Init /\ [][Next]_vars
----------------------------------------------------------------------------
(* For every body of the language of a domain, the states it holds in.     *)
HoldsIn ==
  LET table(D) == [b \in Language(D) |-> {m \in Models : Holds(D, b, m)}] @@ <<>>
  IN  [D \in UNION {ToSet(Queues[c]) : c \in DOMAIN Queues} |-> table(D)] @@ <<>>

(* The bodies stay within the limits of their domain, and weakening loses  *)
(* nothing, nor does the search: a body of the language of a domain taken  *)
(* so far that holds in all the states seen holds wherever all the bodies  *)
(* that are kept hold.  Not so for several clauses, nor for inequalities   *)
(* inside a clause.                                                        *)
Expressible(b) == infer_cfg.kind = "cnf" => Cardinality(b) = 1 /\ UNION b \subseteq Positive(infer_cfg)
Complete ==
  seen # {} =>
    /\ \A k \in DOMAIN active : sets[k] \subseteq DOMAIN HoldsIn[active[k]]
    /\ LET all == {m \in Models : \A k \in DOMAIN active : \A b \in sets[k] : m \in HoldsIn[active[k]][b]}
       IN  \A i \in 1 .. Len(Queues[infer_cfg]) - Len(domains) : \A b \in DOMAIN HoldsIn[Queues[infer_cfg][i]] :
             Expressible(b) /\ seen \subseteq HoldsIn[Queues[infer_cfg][i]][b] => all \subseteq HoldsIn[Queues[infer_cfg][i]][b]

(* No body of a domain is kept that another one implies up to a            *)
(* permutation, and none is inserted twice, where the map panics.  No      *)
(* lemma of the frame subsumes another one, though Update only compares    *)
(* the lemmas that are new with each other, and with those that stay.      *)
Irredundant ==
  /\ ~twice
  /\ \A k \in DOMAIN active : \A a, b \in sets[k] :
       a # b => ~SubsumesUpTo(active[k], {a}, b, 1)
  /\ \A i \in DOMAIN lemmas.lemmas : Lemmas!SubsumingIds(lemmas, lemmas.lemmas[i]) = {i}

(* A set of tries from which everything was removed.                       *)
RECURSIVE Pristine(_, _)
Pristine(kind, map) ==
  CASE kind.type = "literal"  -> map = <<>>
    [] kind.type = "reversed" -> Pristine(kind.of, map)
    [] kind.type = "pair"     -> Pristine(kind.fst, map)
    [] kind.type = "and"      -> /\ map.keys = <<>> /\ map.values = <<>>
                                 /\ \A trie \in {map.trie, map.subsets} :
                                      trie.value = {} /\ Pristine(kind.of, trie.edges)

(* The tries answer as the order of bodies says: which of the bodies of a  *)
(* set of lemmas subsume a given one, or are subsumed by it, and which     *)
(* ids they have.  AndSubsumptionMap, PairSubsumptionMap, TrieMap.  Once   *)
(* all lemmas are removed nothing of them is left, as the tests of         *)
(* subsume.rs assert.                                                      *)
MapsExact ==
  \A ls \in {lemmas, blocked} :
    LET bodies == {ls.lemmas[i].body : i \in DOMAIN ls.lemmas}
        ids(b) == {i \in DOMAIN ls.lemmas : ls.lemmas[i].body = b}
        entries(S) == {<<Lemmas!Key(b), ids(b)>> : b \in S}
    IN  /\ \A p \in bodies \cup UNION ToSet(sets) : \A key \in {Lemmas!Key(p)} :
             /\ Lemmas!M!GetSubsuming(ls.kind, ls.map, key) = entries({b \in bodies : Subsumes(infer_cfg, b, p)})
             /\ Lemmas!M!GetSubsumed(ls.kind, ls.map, key) = entries({b \in bodies : Subsumes(infer_cfg, p, b)})
             /\ Lemmas!M!MapGet(ls.kind, ls.map, key) = {ids(b) : b \in bodies \cap {p}}
        /\ \A none \in {Lemmas!DeleteAll(ls, DOMAIN ls.lemmas)} : Pristine(none.kind, none.map)

(* What trans_cex relies on: a weakened lemma that is not in the frame has *)
(* a stronger one there, and the lemmas of the frame are weakened ones.    *)
LemmasCover ==
  updated =>
    /\ \A l \in ToSet(Weakened) : Lemmas!SubsumesLemma(lemmas, l)
    /\ \A i \in DOMAIN lemmas.lemmas : WeakenContains(lemmas.lemmas[i])
=============================================================================
