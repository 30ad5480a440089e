--------------------------- MODULE WeakenLemmaSet ---------------------------
(***************************************************************************)
(* The weakened lemmas of an InductionFrame (WeakenLemmaSet of             *)
(* inference/src/weaken.rs), while qalpha (inference/src/fixpoint.rs) goes *)
(* from one set of domains to the next: the strongest lemmas of each       *)
(* domain that hold in the states seen so far.  Which states come is left  *)
(* open, and so is when the search goes on.                                *)
(***************************************************************************)
EXTENDS PrefixLemmaSet, DomainSearch, TLC

CONSTANTS
  Configs,    (* the configurations considered                             *)
  Models      (* the states: a size and what each relation holds of        *)

VARIABLES
  infer_cfg,  (* the configuration                                         *)
  domains,    (* the domains that are left                                 *)
  active,     (* the active ones, in the order they were taken in          *)
  next_size,  (* next_domain_size                                          *)
  done,       (* qalpha has returned                                       *)
  sets,       (* the bodies of each active domain                          *)
  twice,      (* a body was inserted that was there: the map panics        *)
  seen        (* history: the states the lemmas were weakened by           *)

search == <<infer_cfg, domains, active, next_size, done>>
weaken_vars == <<search, sets, twice, seen>>

(* The domains of every configuration (TLC evaluates what @@ combines      *)
(* once).                                                                  *)
Queues == [c \in Configs |-> AllDomains(c)] @@ <<>>

(* A domain has finitely many blocks, names and atoms, a state finitely    *)
(* many elements; a search goes through domains that are not empty.        *)
IsDomain(D) ==
  /\ Prefix(D) \in Seq(Range(Prefix(D)))
  /\ \A i \in DOMAIN Prefix(D) : Prefix(D)[i].names \in Seq(NamesOf(D, i))
  /\ IsFiniteSet(D.atoms)
  /\ D.kind \in {"cnf", "naive", "pdnf"}

ASSUME WeakenAssumption ==
  /\ \A c \in Configs :
       /\ Queues[c] \in Seq(Range(Queues[c]))
       /\ \A D \in Range(Queues[c]) : IsDomain(D) /\ (c.no_search \/ ApproxSpaceSize(D) \in Nat \ {0})
  /\ \A m \in Models : m.size \in Nat
----------------------------------------------------------------------------
(* The search                                                              *)

DomainSize(ds) ==
  LET sum[i \in 0 .. Len(ds)] == IF i = 0 THEN 0 ELSE sum[i - 1] + ApproxSpaceSize(ds[i])
  IN  sum[Len(ds)]

(* Domains are taken until they are large enough; a domain that contains   *)
(* active ones replaces them.                                              *)
Retained(ds, d) ==
  LET kept[j \in 0 .. Len(ds)] ==
        IF j = 0 THEN <<>> ELSE IF DomainContains(d, ds[j]) THEN kept[j - 1] ELSE Append(kept[j - 1], ds[j])
  IN  kept[Len(ds)]

Taken(ds, d) == Append(Retained(ds, d), d)

Take(left, ds, size) ==
  LET first[i \in 0 .. Len(left)] == IF i = 0 THEN ds ELSE Taken(first[i - 1], left[i])
      enough == {i \in 0 .. Len(left) : DomainSize(first[i]) >= size} \cup {Len(left)}
  IN  [domains |-> SubSeq(left, Min(enough) + 1, Len(left)), active |-> first[Min(enough)]]

FirstDomains ==
  IF infer_cfg.no_search THEN [domains |-> <<>>, active |-> Queues[infer_cfg]]
                         ELSE Take(Queues[infer_cfg], <<>>, MinDomainSize)
----------------------------------------------------------------------------
(* WeakenLemmaSet::new, init: the strongest lemmas of the active domains.  *)
Anew(ds) == [k \in DOMAIN ds |-> Strongest(ds[k])]

WeakenInit ==
  /\ infer_cfg \in Configs
  /\ next_size = MinDomainSize
  /\ done = FALSE
  /\ \E first \in {FirstDomains} : domains = first.domains /\ active = first.active
  /\ sets = Anew(active)
  /\ twice = FALSE /\ seen = {}

(* run_qalpha has returned: the next domains, or the end.                  *)
NextDomains(safe) ==
  /\ ~done
  /\ IF domains = <<>> \/ (safe /\ infer_cfg.until_safe)
     THEN /\ done' = TRUE
          /\ UNCHANGED <<infer_cfg, domains, active, next_size, sets, twice, seen>>
     ELSE /\ next_size' = DomainSize(active) * infer_cfg.growth_factor
          /\ \E next \in {Take(domains, active, next_size')} : domains' = next.domains /\ active' = next.active
          /\ sets' = Anew(active')
          /\ twice' = FALSE /\ seen' = {}
          /\ UNCHANGED <<infer_cfg, done>>

(* WeakenLemmaSet::weaken.                                                 *)
WeakenBy(m) ==
  LET new == [k \in DOMAIN active |-> WeakenedBy(active[k], sets[k], m)]
  IN  /\ ~done
      /\ m \notin seen /\ Cardinality(seen) < infer_cfg.max_models
      /\ sets' = [k \in DOMAIN active |-> new[k].bodies]
      /\ twice' = (twice \/ \E k \in DOMAIN active : new[k].twice)
      /\ seen' = seen \cup {m}
      /\ UNCHANGED search

WeakenNext == (\E m \in Models : WeakenBy(m)) \/ (\E safe \in BOOLEAN : NextDomains(safe))

WeakenSpec == WeakenInit /\ [][WeakenNext]_weaken_vars
----------------------------------------------------------------------------
(* The lemmas of every domain hold in all the states they were weakened    *)
(* by.  PrefixLemmaSet::unsat, weaken_add.                                 *)
Sound == \A k \in DOMAIN active : \A b \in sets[k] : \A m \in seen : Holds(active[k], b, m)
=============================================================================
