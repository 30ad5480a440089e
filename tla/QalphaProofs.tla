---------------------------- MODULE QalphaProofs ----------------------------
(***************************************************************************)
(* What the maps of an InductionFrame say, and what run_qalpha and         *)
(* minimized_proof return, for any module, any lemma domains and any       *)
(* schedule of the queries.                                                *)
(***************************************************************************)
EXTENDS Qalpha, FiniteSetTheorems, WellFoundedInduction, TLAPS

TypeOK ==
  /\ inits \subseteq States /\ trans \subseteq States \X States
  /\ weaken_lemmas \in [Domains -> SUBSET Lemmas]
  /\ \A d \in Domains : weaken_lemmas[d] \subseteq Members[d]
  /\ lemmas \subseteq Lemmas
  /\ blocked \subseteq Jobs /\ todo \subseteq Jobs /\ asking \subseteq Jobs
  /\ asking \cap blocked = {}

(* What is blocked is implied by its core after every transition.          *)
Justified == \A b \in blocked : Post(All(blocked_to_core[b])) \subseteq Holds[b[2]]

(* The jobs of this cycle for the lemmas of a frame, or what blocks them.  *)
Attended(js) == found = {} => \A j \in js : j \in todo \cup asking \/ IsBlocked(j[2])

InInit ==
  pc = "init" =>
    /\ lemmas = {Bottom}
    /\ \A b \in blocked : inits \subseteq Holds[b[2]]
    /\ Attended(JobsOf(weaken_lemmas))

HoldsInit ==
  pc \notin {"init", "panic"} =>
    /\ \A l \in lemmas : inits \subseteq Holds[l]
    /\ \A d \in Domains : \A l \in weaken_lemmas[d] : inits \subseteq Holds[l]

(* Between the updates the frame is what the domains were weakened to.     *)
InTrans ==
  /\ pc \in {"check", "trans", "final"} => lemmas \subseteq Weakened
  /\ pc = "trans" =>
       /\ canceled => found # {}
       /\ unknown \/ Attended({j \in JobsOf(weaken_lemmas) : j[2] \in lemmas})
  /\ pc = "final" => \A l \in lemmas : IsBlocked(l)

NotDone == pc # "done" => result = NotRun

(* The lemmas that some inductive set has: nothing the search finds        *)
(* violates them, and it keeps lemmas that subsume them.                   *)
Wanted == UNION {ls \in SUBSET UNION {Members[d] : d \in Domains} : Inductive(ls)}

Reached == found \cup ctis \cup samples \cup new_ctis \subseteq All(Wanted)

Covers(ls, ms) == \A l \in ms : \E m \in ls : Subsumes(m, l)

Covered ==
  /\ Covers(lemmas, Wanted)
  /\ \A d \in Domains : Covers(weaken_lemmas[d], Wanted \cap Members[d])

(* The inductive invariant.                                                *)
IInv ==
  /\ TypeOK
  /\ MapsInverse
  /\ Justified
  /\ InInit
  /\ HoldsInit
  /\ InTrans
  /\ NotDone
  /\ FixpointInductive
  /\ Reached
  /\ Covered
  /\ FixpointLeast

----------------------------------------------------------------------------
LEMMA LeastNat ==
  ASSUME NEW T \in SUBSET Nat, T # {}
  PROVE  \E x \in T : \A y \in T : x <= y
<1>1. PICK x \in T : \A y \in T : ~ (<<y, x>> \in OpToRel(<, Nat))
  BY NatLessThanWellFounded, WFMin
<1>2. \A y \in T : ~(y < x)
  BY <1>1 DEF OpToRel
<1> QED BY <1>2

(* What insert_minimized leaves of a set subsumes all of it.               *)
LEMMA MinimizedCovers ==
  ASSUME NEW S \in SUBSET Lemmas
  PROVE  Covers(Minimized(S), S)
<1> SUFFICES ASSUME NEW l \in S PROVE \E m \in Minimized(S) : Subsumes(m, l)
  BY DEF Covers
<1> DEFINE Down(x) == {y \in S : Subsumes(y, x)}
           T == {Cardinality(Down(x)) : x \in Down(l)}
<1>1. ASSUME NEW x PROVE IsFiniteSet(Down(x)) /\ Cardinality(Down(x)) \in Nat
  BY QalphaAssumption, FS_Subset, FS_CardinalityType
<1>2. T \in SUBSET Nat /\ T # {}
  <2>1. l \in Down(l)
    BY QalphaAssumption
  <2> HIDE DEF Down
  <2> QED BY <1>1, <2>1
<1>3. PICK x \in Down(l) : \A y \in Down(l) : Cardinality(Down(x)) <= Cardinality(Down(y))
  <2>1. PICK n \in T : \A k \in T : n <= k
    BY <1>2, LeastNat
  <2> QED BY <2>1
<1>4. ASSUME NEW m \in S, Subsumes(m, x), m # x PROVE FALSE
  <2>1. m \in Down(l)
    BY <1>3, <1>4, QalphaAssumption
  <2>2. Down(m) \subseteq Down(x) /\ x \notin Down(m) /\ x \in Down(x)
    BY <1>3, <1>4, QalphaAssumption
  <2> HIDE DEF Down
  <2>3. Cardinality(Down(m)) <= Cardinality(Down(x)) /\ Cardinality(Down(m)) # Cardinality(Down(x))
    BY <1>1, <2>2, FS_Subset
  <2> QED BY <1>1, <1>3, <2>1, <2>3
<1> QED BY <1>3, <1>4 DEF Minimized

(* The lemmas wanted are themselves inductive.                             *)
LEMMA WantedInductive ==
  ASSUME TypeOK
  PROVE  /\ Wanted \subseteq Lemmas
         /\ Inductive(Wanted)
         /\ \A ls \in SUBSET UNION {Members[d] : d \in Domains} :
              Inductive(ls) => ls \subseteq Wanted
<1>1. Wanted \subseteq Lemmas
  BY QalphaAssumption DEF Wanted
<1>2. ASSUME NEW l \in Wanted PROVE inits \subseteq Holds[l] /\ Post(All(Wanted)) \subseteq Holds[l]
  <2>1. PICK ls \in SUBSET UNION {Members[d] : d \in Domains} : Inductive(ls) /\ l \in ls
    BY DEF Wanted
  <2>2. ls \subseteq Wanted
    BY <2>1 DEF Wanted
  <2>3. Post(All(Wanted)) \subseteq Post(All(ls))
    BY <2>2 DEF Post, All
  <2> QED BY <2>1, <2>3 DEF Inductive, All
<1>3. inits \subseteq States /\ Post(All(Wanted)) \subseteq States
  BY DEF TypeOK, Post
<1> QED BY <1>1, <1>2, <1>3 DEF Inductive, All, Wanted

LEMMA Covering ==
  ASSUME NEW ls \in SUBSET Lemmas, NEW ms \in SUBSET Lemmas, Covers(ls, ms)
  PROVE  All(ls) \subseteq All(ms)
BY QalphaAssumption DEF Covers, All

----------------------------------------------------------------------------
(* WeakenLemmaSet::weaken: of each domain, lemmas that some earlier one    *)
(* subsumes; and all of what holds in s that earlier ones subsumed.        *)
LEMMA WeakenOK ==
  ASSUME TypeOK, NEW s \in States
  PROVE  /\ WeakenBy(s) \in [Domains -> SUBSET Lemmas]
         /\ \A d \in Domains :
              /\ WeakenBy(s)[d] \subseteq Members[d]
              /\ \A m \in WeakenBy(s)[d] : \E l \in weaken_lemmas[d] : Subsumes(l, m)
              /\ \A ms \in SUBSET Members[d] :
                   Covers(weaken_lemmas[d], ms) /\ (\A m \in ms : s \in Holds[m])
                     => Covers(WeakenBy(s)[d], ms)
<1> DEFINE Unsat(d) == {l \in weaken_lemmas[d] : s \notin Holds[l]}
           Kept(d) == weaken_lemmas[d] \ Unsat(d)
           New(d) == {m \in Members[d] : /\ s \in Holds[m]
                                         /\ \E l \in Unsat(d) : Subsumes(l, m)
                                         /\ ~\E l \in Kept(d) : Subsumes(l, m)}
<1>1. \A d \in Domains : WeakenBy(s)[d] = Kept(d) \cup Minimized(New(d))
  BY DEF WeakenBy
<1>2. \A d \in Domains : /\ weaken_lemmas[d] \subseteq Members[d]
                         /\ Members[d] \in SUBSET Lemmas
  BY QalphaAssumption DEF TypeOK
<1>3. \A d \in Domains : Minimized(New(d)) \subseteq New(d)
  BY DEF Minimized
<1>4. \A d \in Domains : New(d) \subseteq Members[d] /\ Kept(d) \subseteq weaken_lemmas[d]
  OBVIOUS
<1>5. WeakenBy(s) \in [Domains -> SUBSET Lemmas]
  <2>1. \A d \in Domains : WeakenBy(s)[d] \in SUBSET Lemmas
    <3> HIDE DEF Kept, New
    <3> QED BY <1>1, <1>2, <1>3, <1>4
  <2>2. WeakenBy(s) = [d \in Domains |-> WeakenBy(s)[d]]
    BY DEF WeakenBy
  <2> HIDE DEF Kept, New
  <2> QED BY <2>1, <2>2
<1>6. ASSUME NEW d \in Domains
      PROVE  /\ WeakenBy(s)[d] \subseteq Members[d]
             /\ \A m \in WeakenBy(s)[d] : \E l \in weaken_lemmas[d] : Subsumes(l, m)
  <2>1. WeakenBy(s)[d] \subseteq Kept(d) \cup New(d)
    <3> HIDE DEF Kept, New
    <3> QED BY <1>1, <1>3
  <2>2. ASSUME NEW m \in Kept(d) PROVE \E l \in weaken_lemmas[d] : Subsumes(l, m)
    BY <1>2, QalphaAssumption
  <2>3. ASSUME NEW m \in New(d) PROVE \E l \in weaken_lemmas[d] : Subsumes(l, m)
    OBVIOUS
  <2>4. Kept(d) \cup New(d) \subseteq Members[d]
    BY <1>2, <1>4
  <2> HIDE DEF Kept, New
  <2> QED BY <2>1, <2>2, <2>3, <2>4
<1>7. ASSUME NEW d \in Domains, NEW ms \in SUBSET Members[d],
             Covers(weaken_lemmas[d], ms), \A m \in ms : s \in Holds[m]
      PROVE  Covers(WeakenBy(s)[d], ms)
  <2> SUFFICES ASSUME NEW l \in ms PROVE \E m \in WeakenBy(s)[d] : Subsumes(m, l)
    BY DEF Covers
  <2>1. PICK k \in weaken_lemmas[d] : Subsumes(k, l)
    BY <1>7 DEF Covers
  <2>2. CASE \E m \in Kept(d) : Subsumes(m, l)
    <3> HIDE DEF Kept, New
    <3> QED BY <1>1, <2>2
  <2>3. CASE ~\E m \in Kept(d) : Subsumes(m, l)
    <3>1. l \in New(d)
      BY <1>7, <2>1, <2>3
    <3>2. New(d) \in SUBSET Lemmas
      BY <1>2
    <3> HIDE DEF Kept, New
    <3>3. \E m \in Minimized(New(d)) : Subsumes(m, l)
      BY <3>1, <3>2, MinimizedCovers DEF Covers
    <3> QED BY <1>1, <3>3
  <2> QED BY <2>2, <2>3
<1> QED BY <1>5, <1>6, <1>7

(* What holds in s stays, and all that is left holds in it.                *)
LEMMA WeakenKeeps ==
  ASSUME NEW s \in States, NEW d \in Domains
  PROVE  /\ \A m \in WeakenBy(s)[d] : s \in Holds[m]
         /\ \A l \in weaken_lemmas[d] : s \in Holds[l] => l \in WeakenBy(s)[d]
<1> DEFINE unsat == {l \in weaken_lemmas[d] : s \notin Holds[l]}
           kept == weaken_lemmas[d] \ unsat
           new == {m \in Members[d] : /\ s \in Holds[m]
                                      /\ \E l \in unsat : Subsumes(l, m)
                                      /\ ~\E l \in kept : Subsumes(l, m)}
<1>1. WeakenBy(s)[d] = kept \cup Minimized(new)
  BY DEF WeakenBy
<1>2. Minimized(new) \subseteq new
  BY DEF Minimized
<1>3. \A m \in new : s \in Holds[m]
  OBVIOUS
<1> HIDE DEF new
<1> QED BY <1>1, <1>2, <1>3

----------------------------------------------------------------------------
(* The maps.  A job is blocked that was not.                               *)
LEMMA BlockOK ==
  ASSUME TypeOK, MapsInverse, Justified, UNCHANGED <<module, lemmas>>,
         NEW j \in Jobs, j \notin blocked, NEW core \in SUBSET lemmas, Block(j, core),
         Post(All(core)) \subseteq Holds[j[2]]
  PROVE  MapsInverse' /\ Justified' /\ blocked' = blocked \cup {j}
<1> DEFINE Of(l) == IF l \in DOMAIN core_to_blocked THEN core_to_blocked[l] ELSE {}
<1>1. /\ blocked' = blocked \cup {j} /\ DOMAIN blocked_to_core' = blocked'
      /\ blocked_to_core'[j] = core
      /\ \A b \in blocked : blocked_to_core'[b] = blocked_to_core[b]
      /\ DOMAIN core_to_blocked' = DOMAIN core_to_blocked \cup core
      /\ \A l \in DOMAIN core_to_blocked' :
           core_to_blocked'[l] = Of(l) \cup (IF l \in core THEN {j} ELSE {})
  BY DEF Block
<1>2. \A l \in lemmas : Of(l) = {b \in blocked : l \in blocked_to_core[b]}
  BY DEF MapsInverse
<1>3. Justified'
  BY <1>1 DEF Justified, Post, All, module
<1>4. DOMAIN blocked_to_core' = blocked' /\ \A b \in blocked' : blocked_to_core'[b] \subseteq lemmas'
  BY <1>1 DEF MapsInverse
<1>5. ASSUME NEW l \in lemmas'
      PROVE  (IF l \in DOMAIN core_to_blocked' THEN core_to_blocked'[l] ELSE {})
               = {b \in blocked' : l \in blocked_to_core'[b]}
  <2>1. {b \in blocked' : l \in blocked_to_core'[b]}
          = {b \in blocked : l \in blocked_to_core[b]} \cup (IF l \in core THEN {j} ELSE {})
    BY <1>1
  <2>2. (IF l \in DOMAIN core_to_blocked' THEN core_to_blocked'[l] ELSE {})
          = Of(l) \cup (IF l \in core THEN {j} ELSE {})
    BY <1>1
  <2> HIDE DEF Of
  <2> QED BY <1>2, <2>1, <2>2
<1>6. ASSUME NEW l \in DOMAIN core_to_blocked'
      PROVE  l \in lemmas' /\ core_to_blocked'[l] # {}
  BY <1>1 DEF MapsInverse
<1> QED BY <1>1, <1>3, <1>4, <1>5, <1>6 DEF MapsInverse

(* remove_lemma: what a lemma that is gone helped to block is not blocked. *)
LEMMA RemoveOK ==
  ASSUME MapsInverse, NEW gone \in SUBSET lemmas, Remove(gone),
         lemmas \ gone \subseteq lemmas', lemmas' \cap gone = {}
  PROVE  /\ MapsInverse'
         /\ blocked' \subseteq blocked
         /\ \A b \in blocked' : blocked_to_core'[b] = blocked_to_core[b]
<1> DEFINE unblocked == UNION {core_to_blocked[l] : l \in gone \cap DOMAIN core_to_blocked}
           rest == {l \in DOMAIN core_to_blocked \ gone : ~(core_to_blocked[l] \subseteq unblocked)}
<1>1. /\ blocked' = blocked \ unblocked
      /\ blocked_to_core' = [b \in blocked \ unblocked |-> blocked_to_core[b]]
      /\ core_to_blocked' = [l \in rest |-> core_to_blocked[l] \ unblocked]
  BY DEF Remove, Restrict
<1>2. \A b \in blocked : b \in unblocked <=> \E l \in gone : l \in blocked_to_core[b]
  BY DEF MapsInverse
<1> HIDE DEF unblocked
<1>3. \A b \in blocked' : b \in blocked /\ blocked_to_core'[b] = blocked_to_core[b]
  BY <1>1
<1>4. DOMAIN blocked_to_core' = blocked' /\ \A b \in blocked' : blocked_to_core'[b] \subseteq lemmas'
  BY <1>1, <1>2 DEF MapsInverse
<1>5. ASSUME NEW l \in lemmas'
      PROVE  (IF l \in DOMAIN core_to_blocked' THEN core_to_blocked'[l] ELSE {})
               = {b \in blocked' : l \in blocked_to_core'[b]}
  <2>1. CASE l \in lemmas
    <3>1. l \notin gone
      BY <1>5
    <3>2. (IF l \in DOMAIN core_to_blocked THEN core_to_blocked[l] ELSE {})
            = {b \in blocked : l \in blocked_to_core[b]}
      BY <2>1 DEF MapsInverse
    <3>3. (IF l \in DOMAIN core_to_blocked' THEN core_to_blocked'[l] ELSE {})
            = (IF l \in DOMAIN core_to_blocked THEN core_to_blocked[l] ELSE {}) \ unblocked
      BY <1>1, <3>1
    <3>4. {b \in blocked' : l \in blocked_to_core'[b]}
            = {b \in blocked : l \in blocked_to_core[b]} \ unblocked
      BY <1>1, <1>3
    <3> QED BY <3>2, <3>3, <3>4
  <2>2. CASE l \notin lemmas
    BY <1>1, <1>3, <2>2 DEF MapsInverse
  <2> QED BY <2>1, <2>2
<1>6. ASSUME NEW l \in DOMAIN core_to_blocked'
      PROVE  l \in lemmas' /\ core_to_blocked'[l] # {}
  BY <1>1 DEF MapsInverse
<1> QED BY <1>3, <1>4, <1>5, <1>6 DEF MapsInverse

(* InductionFrame::update.                                                 *)
LEMMA UpdateOK ==
  ASSUME TypeOK, MapsInverse, Justified, UNCHANGED module,
         NEW w \in [Domains -> SUBSET Lemmas], Update(w)
  PROVE  /\ MapsInverse' /\ Justified'
         /\ blocked' \subseteq blocked
         /\ lemmas' \subseteq UNION {w[d] : d \in Domains}
         /\ \A ms \in SUBSET Lemmas :
              Covers(lemmas, ms) /\ Covers(UNION {w[d] : d \in Domains}, ms)
                => Covers(lemmas', ms)
<1> DEFINE all == UNION {w[d] : d \in Domains}
           kept == lemmas \cap all
           fresh == {l \in all : ~\E m \in kept : Subsumes(m, l)}
<1>1. all \in SUBSET Lemmas
  OBVIOUS
<1>2. CASE lemmas = {}
  <2>1. UNCHANGED <<lemmas, maps>>
    BY <1>2 DEF Update
  <2> QED BY <1>2, <2>1 DEF MapsInverse, Justified, Post, All, module, maps
<1>3. CASE lemmas # {}
  <2>1. lemmas' = kept \cup Minimized(fresh) /\ Remove(lemmas \ all)
    BY <1>3 DEF Update
  <2>2. Minimized(fresh) \subseteq fresh /\ fresh \subseteq all
    BY DEF Minimized
  <2> HIDE DEF all, fresh
  <2>3. lemmas' \subseteq all /\ lemmas \ (lemmas \ all) \subseteq lemmas'
    BY <2>1, <2>2
  <2>4. /\ MapsInverse' /\ blocked' \subseteq blocked
        /\ \A b \in blocked' : blocked_to_core'[b] = blocked_to_core[b]
    <3>1. lemmas' \cap (lemmas \ all) = {}
      BY <2>3
    <3> HIDE DEF kept
    <3> QED BY <2>1, <2>3, <3>1, RemoveOK
  <2>5. Justified'
    BY <2>4 DEF Justified, Post, All, module
  <2>6. ASSUME NEW ms \in SUBSET Lemmas, Covers(all, ms)
        PROVE  Covers(lemmas', ms)
    <3> SUFFICES ASSUME NEW l \in ms PROVE \E m \in lemmas' : Subsumes(m, l)
      BY DEF Covers
    <3>1. PICK k \in all : Subsumes(k, l)
      BY <2>6 DEF Covers
    <3>2. PICK m \in lemmas' : Subsumes(m, k)
      <4>1. CASE \E m \in kept : Subsumes(m, k)
        BY <2>1, <4>1
      <4>2. CASE ~\E m \in kept : Subsumes(m, k)
        <5>1. k \in fresh /\ fresh \in SUBSET Lemmas
          BY <1>1, <2>2, <3>1, <4>2 DEF fresh
        <5>2. \E m \in Minimized(fresh) : Subsumes(m, k)
          BY <5>1, MinimizedCovers DEF Covers
        <5> QED BY <2>1, <5>2
      <4> QED BY <4>1, <4>2
    <3>3. k \in Lemmas /\ m \in Lemmas /\ l \in Lemmas
      BY <1>1, <2>3, <3>1, <3>2
    <3> QED BY <3>1, <3>2, <3>3, QalphaAssumption
  <2> QED BY <2>3, <2>4, <2>5, <2>6 DEF all
<1> QED BY <1>2, <1>3

----------------------------------------------------------------------------
(* What is the same in steps of one module.                                *)
LEMMA SameModule ==
  ASSUME UNCHANGED module
  PROVE  /\ Wanted' = Wanted
         /\ \A S : Post(S)' = Post(S)
         /\ \A ls : Inductive(ls)' = Inductive(ls)
BY DEF Wanted, Inductive, Post, All, module

LEMMA SameMaps ==
  ASSUME IInv, UNCHANGED <<module, lemmas, maps>>
  PROVE  MapsInverse' /\ Justified'
BY DEF IInv, MapsInverse, Justified, Post, All, module, maps

(* Before the end there is no result.                                      *)
LEMMA NotFinished ==
  ASSUME IInv, UNCHANGED result, pc # "done"
  PROVE  NotDone' /\ FixpointInductive' /\ FixpointLeast'
BY DEF IInv, NotDone, FixpointInductive, FixpointLeast, Finished, NotRun

(* The steps of the jobs, which leave the lemmas alone.                    *)
LEMMA SameLemmas ==
  ASSUME IInv, UNCHANGED <<module, weaken_lemmas, lemmas, result>>, pc # "done",
         pc' \in {pc, "panic"}
  PROVE  HoldsInit' /\ Covered' /\ NotDone' /\ FixpointInductive' /\ FixpointLeast'
<1>1. HoldsInit'
  BY DEF IInv, HoldsInit, module
<1>2. Covered'
  BY SameModule DEF IInv, Covered, Covers
<1> QED BY <1>1, <1>2, NotFinished

(* Before the first update nothing satisfies the frame.                    *)
LEMMA InitCore ==
  ASSUME IInv, pc = "init"
  PROVE  Post(All(lemmas)) = {}
BY QalphaAssumption DEF IInv, InInit, Post, All

LEMMA InitInv == Init => IInv
<1> SUFFICES ASSUME Init PROVE IInv
  OBVIOUS
<1>1. inits \in SUBSET States /\ trans \in SUBSET (States \X States)
  BY QalphaAssumption DEF Init, kSubset
<1>2. /\ weaken_lemmas = [d \in Domains |-> {Bottom}] /\ lemmas = {Bottom}
      /\ blocked = {} /\ blocked_to_core = <<>> /\ core_to_blocked = <<>>
      /\ pc = "init" /\ todo = JobsOf(weaken_lemmas) /\ asking = {} /\ found = {}
      /\ ctis = {} /\ samples = {} /\ new_ctis = {} /\ result = NotRun
  BY DEF Init
<1>3. TypeOK
  <2>1. JobsOf(weaken_lemmas) \subseteq Jobs
    BY DEF JobsOf
  <2>2. /\ weaken_lemmas \in [Domains -> SUBSET Lemmas]
        /\ \A d \in Domains : weaken_lemmas[d] \subseteq Members[d]
    BY <1>2, QalphaAssumption
  <2>3. lemmas \subseteq Lemmas
    BY <1>2, QalphaAssumption
  <2> QED BY <1>1, <1>2, <2>1, <2>2, <2>3 DEF TypeOK
<1>4. MapsInverse /\ Justified
  BY <1>2 DEF MapsInverse, Justified
<1>5. InInit /\ HoldsInit /\ InTrans /\ NotDone /\ Reached
  BY <1>2 DEF InInit, HoldsInit, InTrans, NotDone, Reached, Attended
<1>6. Covered
  <2>1. Wanted \subseteq Lemmas
    BY <1>3, WantedInductive
  <2> QED BY <1>2, <2>1, QalphaAssumption DEF Covered, Covers
<1>7. FixpointInductive /\ FixpointLeast
  BY <1>2 DEF FixpointInductive, FixpointLeast, Finished
<1> QED BY <1>3, <1>4, <1>5, <1>6, <1>7 DEF IInv

----------------------------------------------------------------------------
LEMMA StartJobInv == ASSUME IInv, NEW j \in Jobs, StartJob(j) PROVE IInv'
<1>1. /\ pc \in {"init", "trans"} /\ j \in todo /\ ~IsBlocked(j[2])
      /\ todo' = todo \ {j} /\ asking' = asking \cup {j}
      /\ UNCHANGED <<module, weaken_lemmas, lemmas, maps, ctis, pc, found, canceled, unknown,
                     simulation, result>>
  BY DEF StartJob
<1>2. TypeOK'
  <2>1. j \notin blocked
    BY <1>1, QalphaAssumption DEF IsBlocked, Jobs
  <2> QED BY <1>1, <2>1 DEF IInv, TypeOK, module, maps
<1>3. todo' \cup asking' = todo \cup asking
  BY <1>1
<1>4. \A js : Attended(js)' = Attended(js)
  BY <1>1, <1>3 DEF Attended, IsBlocked, maps
<1>5. InInit' /\ InTrans'
  BY <1>1, <1>4 DEF IInv, InInit, InTrans, Weakened, JobsOf, module, maps, Attended, IsBlocked
<1>6. MapsInverse' /\ Justified'
  BY <1>1, SameMaps
<1>7. Reached'
  BY <1>1, SameModule DEF IInv, Reached, simulation
<1>8. HoldsInit' /\ Covered' /\ NotDone' /\ FixpointInductive' /\ FixpointLeast'
  BY <1>1, SameLemmas
<1> QED BY <1>2, <1>5, <1>6, <1>7, <1>8 DEF IInv

(* The outcomes of a job j: nothing, a counterexample, a core.             *)
LEMMA EndsInv ==
  ASSUME IInv, NEW j \in Jobs, Ends(j), pc \in {"init", "trans"}, pc' \in {pc, "panic"},
         \/ UNCHANGED <<maps, found>> /\ (pc' = "panic" \/ canceled \/ unknown')
            /\ (pc = "init" => pc' = "panic")
         \/ /\ \E s \in All(Wanted) : found' = found \cup {s}
            /\ UNCHANGED maps
         \/ /\ UNCHANGED found
            /\ pc = "init" => inits \subseteq Holds[j[2]]
            /\ \E core \in SUBSET lemmas :
                 Post(All(core)) \subseteq Holds[j[2]] /\ Block(j, core),
         UNCHANGED canceled \/ found' # {}, unknown => unknown'
  PROVE  IInv'
<1>1. /\ j \in asking /\ asking' = asking \ {j}
      /\ UNCHANGED <<module, weaken_lemmas, lemmas, ctis, todo, simulation, result>>
  BY DEF Ends
<1>2. j \notin blocked
  BY <1>1 DEF IInv, TypeOK
<1>3. MapsInverse' /\ Justified' /\ blocked' \in {blocked, blocked \cup {j}}
  <2>1. CASE UNCHANGED maps
    BY <1>1, <2>1, SameMaps DEF maps
  <2>2. CASE \E core \in SUBSET lemmas : Post(All(core)) \subseteq Holds[j[2]] /\ Block(j, core)
    BY <1>1, <1>2, <2>2, BlockOK DEF IInv
  <2> QED BY <2>1, <2>2
<1>4. TypeOK'
  BY <1>1, <1>3 DEF IInv, TypeOK, module
<1>5. \/ found' # {}
      \/ pc' = "panic"
      \/ pc # "init" /\ unknown'
      \/ blocked' = blocked \cup {j} /\ found' = found
  <2>1. CASE UNCHANGED <<maps, found>> /\ (pc' = "panic" \/ canceled \/ unknown')
               /\ (pc = "init" => pc' = "panic")
    <3>1. pc = "trans" => (canceled => found # {})
      BY DEF IInv, InTrans
    <3> QED BY <2>1, <3>1
  <2>2. CASE \E s \in All(Wanted) : found' = found \cup {s}
    BY <2>2
  <2>3. CASE UNCHANGED found /\ \E core \in SUBSET lemmas : Block(j, core)
    BY <2>3 DEF Block
  <2> QED BY <2>1, <2>2, <2>3
<1>6. ASSUME NEW js, Attended(js), blocked' = blocked \cup {j}, found' = found
      PROVE  Attended(js)'
  <2>1. \A b \in Jobs : b[2] \in Lemmas
    BY QalphaAssumption DEF Jobs
  <2> QED BY <1>1, <1>6, <2>1, QalphaAssumption DEF Attended, IsBlocked
<1>7. InInit'
  <2> SUFFICES ASSUME pc = "init", pc' = "init" PROVE InInit'
    BY DEF InInit
  <2>1. \A b \in blocked' : inits \subseteq Holds[b[2]]
    BY <1>3 DEF IInv, InInit, Block, maps
  <2>2. Attended(JobsOf(weaken_lemmas))'
    <3>1. JobsOf(weaken_lemmas)' = JobsOf(weaken_lemmas)
      BY <1>1 DEF JobsOf
    <3>2. CASE found' # {}
      BY <3>2 DEF Attended
    <3>3. CASE blocked' = blocked \cup {j} /\ found' = found
      <4> DEFINE js == JobsOf(weaken_lemmas)
      <4>1. Attended(js)
        BY DEF IInv, InInit
      <4>2. js' = js
        BY <3>1
      <4> HIDE DEF js
      <4>3. Attended(js)'
        BY <1>1, <1>6, <3>3, <4>1, <4>2 DEF Attended
      <4> QED BY <4>3 DEF js
    <3> QED BY <1>5, <3>2, <3>3
  <2> QED BY <1>1, <2>1, <2>2 DEF IInv, InInit, module
<1>8. InTrans'
  <2> SUFFICES ASSUME pc = "trans", pc' = "trans" PROVE InTrans'
    BY DEF InTrans
  <2> DEFINE js == {i \in JobsOf(weaken_lemmas) : i[2] \in lemmas}
  <2>1. /\ lemmas \subseteq Weakened
        /\ canceled => found # {}
        /\ unknown \/ Attended(js)
    BY DEF IInv, InTrans
  <2>2. js' = js /\ Weakened' = Weakened
    BY <1>1 DEF JobsOf, Weakened
  <2>3. canceled' => found' # {}
    <3>1. found \subseteq found'
      OBVIOUS
    <3> QED BY <2>1, <3>1
  <2>4. unknown' \/ Attended(js)'
    <3> HIDE DEF js
    <3>1. CASE found' # {}
      BY <3>1 DEF Attended
    <3>2. CASE blocked' = blocked \cup {j} /\ found' = found
      BY <1>1, <1>6, <2>1, <2>2, <3>2 DEF Attended
    <3> QED BY <1>5, <2>1, <3>1, <3>2
  <2> QED BY <1>1, <2>1, <2>2, <2>3, <2>4 DEF InTrans
<1>9. Reached'
  BY <1>1, SameModule DEF IInv, Reached, simulation, Block, maps
<1>10. HoldsInit' /\ Covered' /\ NotDone' /\ FixpointInductive' /\ FixpointLeast'
  BY <1>1, SameLemmas
<1> QED BY <1>3, <1>4, <1>7, <1>8, <1>9, <1>10 DEF IInv

LEMMA AnswerInitInv == ASSUME IInv, NEW j \in Jobs, AnswerInit(j) PROVE IInv'
<1>1. pc = "init" /\ Ends(j) /\ UNCHANGED <<canceled, unknown>>
  BY DEF AnswerInit
<1>2. CASE \E s \in inits \ Holds[j[2]] : found' = found \cup {s} /\ UNCHANGED <<maps, pc>>
  <2>1. inits \subseteq All(Wanted)
    BY WantedInductive DEF IInv, Inductive
  <2> QED BY <1>1, <1>2, <2>1, EndsInv
<1>3. CASE inits \subseteq Holds[j[2]] /\ Block(j, lemmas) /\ UNCHANGED <<found, pc>>
  <2>1. Post(All(lemmas)) \subseteq Holds[j[2]]
    BY <1>1, InitCore
  <2> QED BY <1>1, <1>3, <2>1, EndsInv
<1>4. CASE pc' = "panic" /\ UNCHANGED <<maps, found>>
  BY <1>1, <1>4, EndsInv
<1> QED BY <1>2, <1>3, <1>4 DEF AnswerInit

(* What satisfies the frame, and what follows it, the wanted lemmas allow. *)
LEMMA FrameReached ==
  ASSUME IInv
  PROVE  All(lemmas) \subseteq All(Wanted) /\ Post(All(lemmas)) \subseteq All(Wanted)
<1>1. lemmas \in SUBSET Lemmas /\ Wanted \in SUBSET Lemmas /\ Covers(lemmas, Wanted)
  BY WantedInductive DEF IInv, TypeOK, Covered
<1>2. All(lemmas) \subseteq All(Wanted)
  BY <1>1, Covering
<1>3. Post(All(Wanted)) \subseteq All(Wanted)
  BY WantedInductive DEF IInv, Inductive
<1> QED BY <1>2, <1>3 DEF Post

LEMMA AnswerTransInv == ASSUME IInv, NEW j \in Jobs, AnswerTrans(j) PROVE IInv'
<1>1. pc = "trans" /\ Ends(j) /\ UNCHANGED pc
  BY DEF AnswerTrans
<1>2. CASE /\ \E s \in Post(All(lemmas)) \ Holds[j[2]] : found' = found \cup {s}
           /\ canceled' = TRUE
           /\ UNCHANGED <<maps, unknown>>
  <2>1. \E s \in All(Wanted) : found' = found \cup {s}
    BY <1>2, FrameReached
  <2> QED BY <1>1, <1>2, <2>1, EndsInv
<1>3. CASE /\ \E core \in Returned(CoresOf(j[2])) : Block(j, core)
           /\ UNCHANGED <<found, canceled, unknown>>
  <2>1. \E core \in SUBSET lemmas : Post(All(core)) \subseteq Holds[j[2]] /\ Block(j, core)
    BY <1>3 DEF Returned, CoresOf
  <2> QED BY <1>1, <1>3, <2>1, EndsInv
<1>4. CASE canceled /\ UNCHANGED <<maps, found, canceled, unknown>>
  BY <1>1, <1>4, EndsInv
<1>5. CASE unknown' = TRUE /\ UNCHANGED <<maps, found, canceled>>
  BY <1>1, <1>5, EndsInv
<1> QED BY <1>1, <1>2, <1>3, <1>4, <1>5 DEF AnswerTrans

----------------------------------------------------------------------------
(* Weakening to what holds in a state that the wanted lemmas allow.        *)
LEMMA WeakenInv ==
  ASSUME IInv, NEW s \in All(Wanted), weaken_lemmas' = WeakenBy(s), UNCHANGED module
  PROVE  /\ weaken_lemmas' \in [Domains -> SUBSET Lemmas]
         /\ \A d \in Domains : weaken_lemmas'[d] \subseteq Members[d]
         /\ \A d \in Domains : Covers(weaken_lemmas'[d], Wanted \cap Members[d])
         /\ pc \notin {"init", "panic"} =>
              \A d \in Domains : \A l \in weaken_lemmas'[d] : inits \subseteq Holds[l]
<1>1. TypeOK /\ Covered /\ HoldsInit /\ s \in States
  BY DEF IInv, All
<1>2. ASSUME NEW d \in Domains
      PROVE  Covers(weaken_lemmas'[d], Wanted \cap Members[d])
  <2> DEFINE ms == Wanted \cap Members[d]
  <2>1. ms \in SUBSET Members[d] /\ \A m \in ms : s \in Holds[m]
    BY DEF All
  <2>2. Covers(weaken_lemmas[d], ms)
    BY <1>1 DEF Covered
  <2> HIDE DEF ms
  <2>3. Covers(WeakenBy(s)[d], ms)
    BY <1>1, <2>1, <2>2, WeakenOK
  <2> QED BY <2>3 DEF ms
<1>3. ASSUME pc \notin {"init", "panic"}, NEW d \in Domains, NEW m \in weaken_lemmas'[d]
      PROVE  inits \subseteq Holds[m]
  <2>1. PICK l \in weaken_lemmas[d] : Subsumes(l, m)
    BY <1>1, <1>3, WeakenOK
  <2>2. l \in Lemmas /\ m \in Lemmas
    BY <1>1, <1>3, WeakenOK DEF TypeOK
  <2>3. Holds[l] \subseteq Holds[m]
    BY <2>1, <2>2, QalphaAssumption
  <2> QED BY <1>1, <1>3, <2>3 DEF HoldsInit
<1> QED BY <1>1, <1>2, <1>3, WeakenOK

(* ... and the frame to what the domains were weakened to.                 *)
LEMMA UpdateInv ==
  ASSUME IInv, UNCHANGED <<module, result>>, pc # "done", pc' \in {"check", "extend"},
         Update(weaken_lemmas'),
         weaken_lemmas' \in [Domains -> SUBSET Lemmas],
         \A d \in Domains : weaken_lemmas'[d] \subseteq Members[d],
         \A d \in Domains : Covers(weaken_lemmas'[d], Wanted \cap Members[d]),
         \A d \in Domains : \A l \in weaken_lemmas'[d] : inits \subseteq Holds[l],
         todo' \subseteq Jobs, asking' = {} \/ UNCHANGED asking, Reached'
  PROVE  IInv'
<1> DEFINE w == weaken_lemmas'
           all == UNION {w[d] : d \in Domains}
<1>1. TypeOK /\ MapsInverse /\ Justified /\ Covered
  BY DEF IInv
<1>2. Wanted \in SUBSET Lemmas /\ Wanted \subseteq UNION {Members[d] : d \in Domains}
  BY <1>1, WantedInductive DEF Wanted
<1>3. all \in SUBSET Lemmas /\ Covers(all, Wanted)
  BY <1>2 DEF Covers
<1>4. /\ MapsInverse' /\ Justified'
      /\ blocked' \subseteq blocked /\ lemmas' \subseteq all
      /\ \A ms \in SUBSET Lemmas : Covers(lemmas, ms) /\ Covers(all, ms) => Covers(lemmas', ms)
  <2> HIDE DEF w
  <2>1. w \in [Domains -> SUBSET Lemmas] /\ Update(w)
    BY DEF w
  <2> QED BY <1>1, <2>1, UpdateOK
<1>5. TypeOK'
  BY <1>1, <1>3, <1>4 DEF TypeOK, module
<1>6. Covered'
  <2>1. Covers(lemmas', Wanted)
    BY <1>1, <1>2, <1>3, <1>4 DEF Covered
  <2> QED BY <2>1, SameModule DEF Covered, Covers
<1>7. InInit' /\ HoldsInit' /\ InTrans'
  BY <1>4 DEF InInit, HoldsInit, InTrans, Weakened, module
<1>8. NotDone' /\ FixpointInductive' /\ FixpointLeast'
  BY NotFinished
<1> QED BY <1>4, <1>5, <1>6, <1>7, <1>8 DEF IInv

LEMMA InitCexInv == ASSUME IInv, InitCex PROVE IInv'
<1>1. /\ pc = "init" /\ pc' = pc
      /\ UNCHANGED <<module, lemmas, maps, simulation, result>>
  BY DEF InitCex
<1>2. PICK s \in found : /\ weaken_lemmas' = WeakenBy(s)
                         /\ ctis' = IF Extend THEN ctis \cup {s} ELSE ctis
                         /\ StartCycle(JobsOf(WeakenBy(s)))
  BY DEF InitCex
<1>3. s \in All(Wanted)
  BY DEF IInv, Reached
<1>4. /\ weaken_lemmas' \in [Domains -> SUBSET Lemmas]
      /\ \A d \in Domains : weaken_lemmas'[d] \subseteq Members[d]
      /\ \A d \in Domains : Covers(weaken_lemmas'[d], Wanted \cap Members[d])
  BY <1>1, <1>2, <1>3, WeakenInv
<1>5. todo' = JobsOf(weaken_lemmas)' /\ asking' = {} /\ found' = {}
  BY <1>2 DEF StartCycle, JobsOf
<1>6. TypeOK'
  BY <1>1, <1>4, <1>5 DEF IInv, TypeOK, JobsOf, module, maps
<1>7. MapsInverse' /\ Justified'
  BY <1>1, SameMaps
<1>8. InInit' /\ HoldsInit' /\ InTrans'
  BY <1>1, <1>5 DEF IInv, InInit, HoldsInit, InTrans, Attended, module, maps
<1>9. Reached' /\ Covered'
  BY <1>1, <1>2, <1>3, <1>4, <1>5, SameModule DEF IInv, Reached, Covered, Covers, simulation
<1>10. NotDone' /\ FixpointInductive' /\ FixpointLeast'
  BY <1>1, NotFinished
<1> QED BY <1>6, <1>7, <1>8, <1>9, <1>10 DEF IInv

(* Every lemma of a cycle that ends without a counterexample is blocked.   *)
LEMMA CycleBlocks ==
  ASSUME NEW js, Attended(js), CycleEnds, found = {}
  PROVE  \A j \in js : IsBlocked(j[2])
BY DEF Attended, CycleEnds

LEMMA InitDoneInv == ASSUME IInv, InitDone PROVE IInv'
<1>1. /\ pc = "init" /\ pc' \in {"check", "extend"} /\ CycleEnds /\ found = {}
      /\ Update(weaken_lemmas) /\ StartCycle({})
      /\ UNCHANGED <<module, weaken_lemmas, ctis, simulation, result>>
  BY DEF InitDone, AfterUpdate
<1>2. ASSUME NEW d \in Domains, NEW l \in weaken_lemmas[d] PROVE inits \subseteq Holds[l]
  <2>1. l \in Lemmas /\ <<d, l>> \in JobsOf(weaken_lemmas)
    BY DEF IInv, TypeOK, JobsOf, Jobs
  <2>2. IsBlocked(l)
    BY <1>1, <2>1, CycleBlocks DEF IInv, InInit
  <2>3. PICK b \in blocked : Subsumes(b[2], l) /\ b[2] \in Lemmas
    BY <2>2 DEF IsBlocked, IInv, TypeOK, Jobs
  <2>4. Holds[b[2]] \subseteq Holds[l]
    BY <2>1, <2>3, QalphaAssumption
  <2> QED BY <1>1, <2>3, <2>4 DEF IInv, InInit
<1>3. Reached'
  BY <1>1, SameModule DEF IInv, Reached, simulation, StartCycle
<1>4. todo' = {} /\ asking' = {}
  BY <1>1 DEF StartCycle
<1>5. TypeOK /\ Covered
  BY DEF IInv
<1> QED BY <1>1, <1>2, <1>3, <1>4, <1>5, UpdateInv DEF TypeOK, Covered

----------------------------------------------------------------------------
(* The steps that leave the frame and its maps alone, cycles aside.        *)
LEMMA SameFrame ==
  ASSUME IInv, UNCHANGED <<module, lemmas, maps, result>>, pc # "done",
         todo' \subseteq Jobs, asking' = {} \/ UNCHANGED asking,
         weaken_lemmas' \in [Domains -> SUBSET Lemmas],
         \A d \in Domains : weaken_lemmas'[d] \subseteq Members[d],
         \A d \in Domains : Covers(weaken_lemmas'[d], Wanted \cap Members[d])
  PROVE  /\ TypeOK' /\ MapsInverse' /\ Justified' /\ Covered'
         /\ NotDone' /\ FixpointInductive' /\ FixpointLeast'
<1>1. TypeOK'
  BY DEF IInv, TypeOK, module, maps
<1>2. Covered'
  BY SameModule DEF IInv, Covered, Covers
<1>3. MapsInverse' /\ Justified'
  BY SameMaps
<1> QED BY <1>1, <1>2, <1>3, NotFinished

LEMMA SameWeakened ==
  ASSUME IInv, UNCHANGED weaken_lemmas
  PROVE  /\ weaken_lemmas' \in [Domains -> SUBSET Lemmas]
         /\ \A d \in Domains : weaken_lemmas'[d] \subseteq Members[d]
         /\ \A d \in Domains : Covers(weaken_lemmas'[d], Wanted \cap Members[d])
BY DEF IInv, TypeOK, Covered

LEMMA SimulateInv == ASSUME IInv, Simulate PROVE IInv'
<1>1. /\ pc = "extend" /\ pc' = "samples" /\ samples' \subseteq Post(ctis) /\ new_ctis' = {}
      /\ UNCHANGED <<module, weaken_lemmas, lemmas, maps, ctis, cycle, result>>
  BY DEF Simulate
<1>2. TypeOK' /\ MapsInverse' /\ Justified' /\ Covered'
      /\ NotDone' /\ FixpointInductive' /\ FixpointLeast'
  BY <1>1, SameWeakened, SameFrame DEF cycle, IInv, TypeOK
<1>3. InInit' /\ HoldsInit' /\ InTrans'
  BY <1>1 DEF IInv, InInit, HoldsInit, InTrans, module
<1>4. Reached'
  <2>1. ctis \subseteq All(Wanted) /\ Post(All(Wanted)) \subseteq All(Wanted)
    BY WantedInductive DEF IInv, Reached, Inductive
  <2>2. samples' \subseteq All(Wanted)
    BY <1>1, <2>1 DEF Post
  <2> QED BY <1>1, <2>2, SameModule DEF IInv, Reached, cycle
<1> QED BY <1>2, <1>3, <1>4 DEF IInv

LEMMA WeakenSampleInv == ASSUME IInv, WeakenSample PROVE IInv'
<1>1. /\ pc = "samples" /\ UNCHANGED <<module, lemmas, maps, ctis, pc, cycle, result>>
  BY DEF WeakenSample
<1>2. PICK s \in samples : /\ weaken_lemmas' = WeakenBy(s)
                           /\ new_ctis' = new_ctis \cup {s}
                           /\ samples' = samples \ {s}
  BY DEF WeakenSample
<1>3. s \in All(Wanted)
  BY DEF IInv, Reached
<1>4. /\ weaken_lemmas' \in [Domains -> SUBSET Lemmas]
      /\ \A d \in Domains : weaken_lemmas'[d] \subseteq Members[d]
      /\ \A d \in Domains : Covers(weaken_lemmas'[d], Wanted \cap Members[d])
      /\ \A d \in Domains : \A l \in weaken_lemmas'[d] : inits \subseteq Holds[l]
  BY <1>1, <1>2, <1>3, WeakenInv
<1>5. TypeOK' /\ MapsInverse' /\ Justified' /\ Covered'
      /\ NotDone' /\ FixpointInductive' /\ FixpointLeast'
  BY <1>1, <1>4, SameFrame DEF cycle, IInv, TypeOK
<1>6. InInit' /\ HoldsInit' /\ InTrans'
  BY <1>1, <1>4 DEF IInv, InInit, HoldsInit, InTrans, module
<1>7. Reached'
  BY <1>1, <1>2, <1>3, SameModule DEF IInv, Reached, cycle
<1> QED BY <1>5, <1>6, <1>7 DEF IInv

LEMMA NextSamplesInv == ASSUME IInv, NextSamples PROVE IInv'
<1>1. /\ pc = "samples" /\ pc' = "extend" /\ ctis' = new_ctis /\ samples' = {} /\ new_ctis' = {}
      /\ UNCHANGED <<module, weaken_lemmas, lemmas, maps, cycle, result>>
  BY DEF NextSamples
<1>2. TypeOK' /\ MapsInverse' /\ Justified' /\ Covered'
      /\ NotDone' /\ FixpointInductive' /\ FixpointLeast'
  BY <1>1, SameWeakened, SameFrame DEF cycle, IInv, TypeOK
<1>3. InInit' /\ HoldsInit' /\ InTrans'
  BY <1>1 DEF IInv, InInit, HoldsInit, InTrans, module
<1>4. Reached'
  BY <1>1, SameModule DEF IInv, Reached, cycle
<1> QED BY <1>2, <1>3, <1>4 DEF IInv

LEMMA ExtendedInv == ASSUME IInv, Extended PROVE IInv'
<1>1. /\ pc = "extend" /\ pc' = "check" /\ Update(weaken_lemmas)
      /\ UNCHANGED <<module, weaken_lemmas, ctis, cycle, simulation, result>>
  BY DEF Extended
<1>2. Reached'
  BY <1>1, SameModule DEF IInv, Reached, cycle, simulation
<1>3. \A d \in Domains : \A l \in weaken_lemmas'[d] : inits \subseteq Holds[l]
  BY <1>1 DEF IInv, HoldsInit
<1>4. todo' \subseteq Jobs /\ UNCHANGED asking
  BY <1>1 DEF IInv, TypeOK, cycle
<1> QED
  BY <1>1, <1>2, <1>3, <1>4, SameWeakened, UpdateInv

LEMMA CheckInv == ASSUME IInv, Check PROVE IInv'
<1>1. /\ pc = "check"
      /\ UNCHANGED <<module, weaken_lemmas, lemmas, maps, ctis, simulation, result>>
      /\ \/ /\ pc' = "trans"
            /\ StartCycle({j \in JobsOf(weaken_lemmas) : j[2] \in lemmas})
         \/ pc' = "done" /\ UNCHANGED cycle
  BY DEF Check
<1>2. \/ UNCHANGED cycle
      \/ /\ todo' = {j \in JobsOf(weaken_lemmas) : j[2] \in lemmas}
         /\ asking' = {} /\ found' = {} /\ canceled' = FALSE /\ unknown' = FALSE
  BY <1>1 DEF StartCycle
<1>3. todo' \subseteq Jobs /\ (asking' = {} \/ UNCHANGED asking)
  BY <1>2 DEF cycle, IInv, TypeOK, JobsOf
<1>4. TypeOK' /\ MapsInverse' /\ Justified' /\ Covered' /\ FixpointInductive' /\ FixpointLeast'
  BY <1>1, <1>3, SameWeakened, SameFrame
<1>5. InInit' /\ HoldsInit'
  BY <1>1 DEF IInv, InInit, HoldsInit, module
<1>6. InTrans'
  <2> SUFFICES ASSUME pc' = "trans" PROVE InTrans'
    BY <1>1 DEF InTrans
  <2>1. lemmas \subseteq Weakened /\ Weakened' = Weakened
    BY <1>1 DEF IInv, InTrans, Weakened
  <2>2. /\ todo' = {j \in JobsOf(weaken_lemmas) : j[2] \in lemmas}
        /\ canceled' = FALSE
    BY <1>1 DEF StartCycle
  <2>3. Attended({j \in JobsOf(weaken_lemmas) : j[2] \in lemmas})'
    BY <1>1, <2>2 DEF Attended, JobsOf
  <2> QED BY <1>1, <2>1, <2>2, <2>3 DEF InTrans
<1>7. Reached'
  BY <1>1, <1>2, SameModule DEF IInv, Reached, cycle, simulation
<1>8. NotDone'
  BY <1>1 DEF IInv, NotDone
<1> QED BY <1>4, <1>5, <1>6, <1>7, <1>8 DEF IInv

LEMMA SafetyUnknownInv == ASSUME IInv, SafetyUnknown PROVE IInv'
<1>1. /\ pc \in {"check", "final"} /\ pc' = "panic"
      /\ UNCHANGED <<module, weaken_lemmas, lemmas, maps, ctis, cycle, simulation, result>>
  BY DEF SafetyUnknown
<1>2. TypeOK' /\ MapsInverse' /\ Justified' /\ Covered'
      /\ NotDone' /\ FixpointInductive' /\ FixpointLeast'
  BY <1>1, SameWeakened, SameFrame DEF cycle, IInv, TypeOK
<1>3. InInit' /\ HoldsInit' /\ InTrans'
  BY <1>1 DEF InInit, HoldsInit, InTrans
<1>4. Reached'
  BY <1>1, SameModule DEF IInv, Reached, cycle, simulation
<1> QED BY <1>2, <1>3, <1>4 DEF IInv

LEMMA TransCexInv == ASSUME IInv, TransCex PROVE IInv'
<1>1. /\ pc = "trans" /\ pc' \in {"check", "extend"} /\ StartCycle({})
      /\ UNCHANGED <<module, simulation, result>>
  BY DEF TransCex, AfterUpdate
<1>2. PICK s \in found : /\ weaken_lemmas' = WeakenBy(s)
                         /\ ctis' = IF Extend THEN ctis \cup {s} ELSE ctis
                         /\ Update(WeakenBy(s))
  BY DEF TransCex
<1>3. s \in All(Wanted)
  BY DEF IInv, Reached
<1>4. /\ weaken_lemmas' \in [Domains -> SUBSET Lemmas]
      /\ \A d \in Domains : weaken_lemmas'[d] \subseteq Members[d]
      /\ \A d \in Domains : Covers(weaken_lemmas'[d], Wanted \cap Members[d])
      /\ \A d \in Domains : \A l \in weaken_lemmas'[d] : inits \subseteq Holds[l]
  BY <1>1, <1>2, <1>3, WeakenInv
<1>5. todo' = {} /\ asking' = {} /\ found' = {}
  BY <1>1 DEF StartCycle
<1>6. Reached'
  BY <1>1, <1>2, <1>3, <1>5, SameModule DEF IInv, Reached, simulation
<1>7. Update(weaken_lemmas')
  BY <1>2
<1> QED BY <1>1, <1>4, <1>5, <1>6, <1>7, UpdateInv

LEMMA TransDoneInv == ASSUME IInv, TransDone PROVE IInv'
<1>1. /\ pc = "trans" /\ CycleEnds /\ found = {} /\ pc' = IF unknown THEN "panic" ELSE "final"
      /\ todo' = {} /\ asking' = {} /\ found' = {}
      /\ UNCHANGED <<module, weaken_lemmas, lemmas, maps, ctis, safety_core, simulation, result>>
  BY DEF TransDone, StartCycle
<1>2. TypeOK' /\ MapsInverse' /\ Justified' /\ Covered'
      /\ NotDone' /\ FixpointInductive' /\ FixpointLeast'
  BY <1>1, SameWeakened, SameFrame
<1>3. InInit' /\ HoldsInit'
  BY <1>1 DEF IInv, InInit, HoldsInit, module
<1>4. ASSUME ~unknown, NEW l \in lemmas PROVE IsBlocked(l)
  <2>1. PICK d \in Domains : l \in weaken_lemmas[d]
    BY <1>1 DEF IInv, InTrans, Weakened
  <2>2. <<d, l>> \in {j \in JobsOf(weaken_lemmas) : j[2] \in lemmas}
    BY <2>1 DEF IInv, TypeOK, JobsOf, Jobs
  <2>3. Attended({j \in JobsOf(weaken_lemmas) : j[2] \in lemmas})
    BY <1>1, <1>4 DEF IInv, InTrans
  <2>4. \A j \in {i \in JobsOf(weaken_lemmas) : i[2] \in lemmas} : IsBlocked(j[2])
    BY <1>1, <2>3, CycleBlocks
  <2> QED BY <2>2, <2>4
<1>5. InTrans'
  BY <1>1, <1>4 DEF IInv, InTrans, Weakened, IsBlocked, maps
<1>6. Reached'
  BY <1>1, SameModule DEF IInv, Reached, simulation
<1> QED BY <1>2, <1>3, <1>5, <1>6 DEF IInv

(* A frame that is blocked altogether is inductive; it implies whatever is.*)
LEMMA FinalInductive ==
  ASSUME IInv, pc = "final"
  PROVE  /\ Inductive(lemmas)
         /\ \A ls \in SUBSET UNION {Members[d] : d \in Domains} :
              Inductive(ls) => All(lemmas) \subseteq All(ls)
<1>1. /\ TypeOK /\ MapsInverse /\ Justified /\ HoldsInit
      /\ \A l \in lemmas : IsBlocked(l)
  BY DEF IInv, InTrans
<1>2. ASSUME NEW l \in lemmas PROVE Post(All(lemmas)) \subseteq Holds[l]
  <2>1. PICK b \in blocked : Subsumes(b[2], l) /\ b[2] \in Lemmas /\ l \in Lemmas
    BY <1>1 DEF IsBlocked, TypeOK, Jobs
  <2>2. blocked_to_core[b] \subseteq lemmas
    BY <1>1 DEF MapsInverse
  <2>3. Post(All(lemmas)) \subseteq Post(All(blocked_to_core[b]))
    BY <2>2 DEF Post, All
  <2>4. Holds[b[2]] \subseteq Holds[l]
    BY <2>1, QalphaAssumption
  <2> QED BY <1>1, <2>3, <2>4 DEF Justified
<1>3. Inductive(lemmas)
  <2>1. inits \subseteq States /\ Post(All(lemmas)) \subseteq States
    BY <1>1 DEF TypeOK, Post
  <2> QED BY <1>1, <1>2, <2>1 DEF Inductive, All, HoldsInit
<1>4. ASSUME NEW ls \in SUBSET UNION {Members[d] : d \in Domains}, Inductive(ls)
      PROVE  All(lemmas) \subseteq All(ls)
  <2>1. ls \subseteq Wanted
    BY <1>1, <1>4, WantedInductive
  <2> QED BY <2>1, FrameReached DEF All
<1> QED BY <1>3, <1>4

LEMMA FinalInv == ASSUME IInv, Final PROVE IInv'
<1>1. /\ pc = "final" /\ pc' \in {"unblocked", "done"}
      /\ pc' = "unblocked" => UNCHANGED result
      /\ pc' = "done" => result'.proof = lemmas
      /\ UNCHANGED <<module, weaken_lemmas, lemmas, maps, ctis, cycle, simulation>>
  BY DEF Final
<1>2. /\ Inductive(lemmas)
      /\ \A ls \in SUBSET UNION {Members[d] : d \in Domains} :
           Inductive(ls) => All(lemmas) \subseteq All(ls)
  BY <1>1, FinalInductive
<1>3. TypeOK' /\ MapsInverse' /\ Justified' /\ Covered'
  <2>1. TypeOK'
    BY <1>1 DEF IInv, TypeOK, module, maps, cycle
  <2>2. Covered'
    BY <1>1, SameModule DEF IInv, Covered, Covers
  <2> QED BY <1>1, <2>1, <2>2, SameMaps
<1>4. InInit' /\ HoldsInit' /\ InTrans' /\ NotDone'
  BY <1>1 DEF IInv, InInit, HoldsInit, InTrans, NotDone, module
<1>5. Reached'
  BY <1>1, SameModule DEF IInv, Reached, cycle, simulation
<1>6. FixpointInductive'
  BY <1>1, <1>2 DEF FixpointInductive, Finished, Inductive, Post, All, module
<1>7. FixpointLeast'
  BY <1>1, <1>2 DEF FixpointLeast, Finished, Inductive, Post, All, module
<1> QED BY <1>3, <1>4, <1>5, <1>6, <1>7 DEF IInv

----------------------------------------------------------------------------
LEMMA StepInv == IInv /\ [Next]_vars => IInv'
<1> SUFFICES ASSUME IInv, [Next]_vars PROVE IInv'
  OBVIOUS
<1>1. CASE \E j \in Jobs : StartJob(j) \/ AnswerInit(j) \/ AnswerTrans(j)
  BY <1>1, StartJobInv, AnswerInitInv, AnswerTransInv
<1>2. CASE InitCex
  BY <1>2, InitCexInv
<1>3. CASE InitDone
  BY <1>3, InitDoneInv
<1>4. CASE Simulate
  BY <1>4, SimulateInv
<1>5. CASE WeakenSample
  BY <1>5, WeakenSampleInv
<1>6. CASE NextSamples
  BY <1>6, NextSamplesInv
<1>7. CASE Extended
  BY <1>7, ExtendedInv
<1>8. CASE Check
  BY <1>8, CheckInv
<1>9. CASE SafetyUnknown
  BY <1>9, SafetyUnknownInv
<1>10. CASE TransCex
  BY <1>10, TransCexInv
<1>11. CASE TransDone
  BY <1>11, TransDoneInv
<1>12. CASE Final
  BY <1>12, FinalInv
<1>13. CASE UNCHANGED vars
  <2>1. UNCHANGED <<module, weaken_lemmas, lemmas, maps, ctis, pc, cycle, simulation, result>>
    BY <1>13 DEF vars
  <2>2. UNCHANGED <<todo, asking, found, canceled, unknown, samples, new_ctis>>
    BY <2>1 DEF cycle, simulation
  <2>3. TypeOK'
    BY <2>1, <2>2 DEF IInv, TypeOK, module, maps
  <2>4. MapsInverse' /\ Justified'
    BY <2>1, SameMaps
  <2>5. InInit' /\ HoldsInit' /\ InTrans' /\ NotDone'
    BY <2>1, <2>2 DEF IInv, InInit, HoldsInit, InTrans, NotDone, Attended, IsBlocked, JobsOf, Weakened,
                      module, maps
  <2>6. Reached' /\ Covered'
    BY <2>1, <2>2, SameModule DEF IInv, Reached, Covered, Covers
  <2>7. FixpointInductive' /\ FixpointLeast'
    BY <2>1, SameModule DEF IInv, FixpointInductive, FixpointLeast, Finished
  <2> QED BY <2>3, <2>4, <2>5, <2>6, <2>7 DEF IInv
<1> QED
  BY <1>1, <1>2, <1>3, <1>4, <1>5, <1>6, <1>7, <1>8, <1>9, <1>10, <1>11, <1>12, <1>13 DEF Next

LEMMA Invariance == Spec => []IInv
BY InitInv, StepInv, PTL DEF Spec

----------------------------------------------------------------------------
(* minimized_proof.  The invariant it needs beyond IInv.                   *)

(* The lemmas of the frame are minimal among those the domains have, and   *)
(* one that a domain no longer has does not come back.                     *)
Minimal == \A k \in lemmas : \A n \in Weakened : Subsumes(n, k) => n = k

(* A lemma stays where it is as long as it is blocked, but for those that  *)
(* the next update unblocks.                                               *)
Present == \A b \in blocked : blocked_to_core[b] \subseteq Weakened => b[2] \in weaken_lemmas[b[1]]

Sources ==
  /\ ctis \cup new_ctis \subseteq All(Weakened)
  /\ samples \subseteq Post(ctis)
  /\ pc = "init" => found \subseteq inits
  /\ pc = "trans" => found \subseteq Post(All(lemmas))
  /\ pc \in {"init", "trans"} => todo \cup asking \subseteq JobsOf(weaken_lemmas)

SafetyCoreOK ==
  \/ safety_core = None
  \/ safety_core \subseteq lemmas /\ Post(All(safety_core) \cap Safe) \subseteq Safe

MInv ==
  /\ Minimal
  /\ Present
  /\ Sources
  /\ SafetyCoreOK
  /\ MinimizedProves

LEMMA InitMInv == Init => MInv
<1> SUFFICES ASSUME Init PROVE MInv
  OBVIOUS
<1>1. IInv
  BY InitInv
<1>2. /\ weaken_lemmas = [d \in Domains |-> {Bottom}] /\ lemmas = {Bottom}
      /\ blocked = {} /\ safety_core = None
      /\ pc = "init" /\ todo = JobsOf(weaken_lemmas) /\ asking = {} /\ found = {}
      /\ ctis = {} /\ samples = {} /\ new_ctis = {}
  BY DEF Init
<1>3. Minimal
  BY <1>2 DEF Minimal, Weakened
<1>4. Present /\ Sources /\ SafetyCoreOK
  BY <1>2 DEF Present, Sources, SafetyCoreOK
<1>5. MinimizedProves
  BY <1>1, <1>2 DEF MinimizedProves, Finished
<1> QED BY <1>3, <1>4, <1>5 DEF MInv

LEMMA SameMinimal ==
  ASSUME MInv, UNCHANGED <<weaken_lemmas, lemmas, maps>>
  PROVE  Minimal' /\ Present'
BY DEF MInv, Minimal, Present, Weakened, maps

LEMMA SameSafetyCore ==
  ASSUME MInv, UNCHANGED <<module, lemmas, safety_core>>
  PROVE  SafetyCoreOK'
BY DEF MInv, SafetyCoreOK, Post, All, module

LEMMA NotMinimized ==
  ASSUME IInv, UNCHANGED result, pc # "done", pc' # "unblocked"
  PROVE  MinimizedProves'
BY DEF IInv, NotDone, MinimizedProves, Finished, NotRun

(* A state that no lemma violates that is blocked for good.                *)
LEMMA WeakenMInv ==
  ASSUME IInv, MInv, NEW s \in States, weaken_lemmas' = WeakenBy(s),
         \A b \in blocked : blocked_to_core[b] \subseteq Weakened => s \in Holds[b[2]]
  PROVE  /\ \A k \in lemmas : \A n \in Weakened' : Subsumes(n, k) => n = k
         /\ \A b \in blocked :
              blocked_to_core[b] \subseteq Weakened' => b[2] \in weaken_lemmas'[b[1]]
         /\ All(Weakened) \subseteq All(Weakened') /\ s \in All(Weakened')
<1> DEFINE w == weaken_lemmas'
           all == UNION {w[d] : d \in Domains}
<1> HIDE DEF w
<1>0. w = WeakenBy(s)
  BY DEF w
<1>1. /\ TypeOK /\ MapsInverse /\ Minimal /\ Present
      /\ \A b \in blocked : b \in Jobs /\ b[1] \in Domains
  BY DEF IInv, MInv, TypeOK, Jobs
<1>2. \A d \in Domains : /\ w[d] \in SUBSET Lemmas
                         /\ \A m \in w[d] : s \in Holds[m]
                         /\ \A m \in w[d] : \E l \in weaken_lemmas[d] : Subsumes(l, m)
                         /\ \A l \in weaken_lemmas[d] : s \in Holds[l] => l \in w[d]
  BY <1>0, <1>1, WeakenOK, WeakenKeeps
<1>3. \A d \in Domains : weaken_lemmas[d] \in SUBSET Lemmas
  BY <1>1 DEF TypeOK
<1>4. lemmas \in SUBSET Lemmas
  BY <1>1 DEF TypeOK
<1>5. ASSUME NEW n \in all
      PROVE  n \in Lemmas /\ s \in Holds[n] /\ \E u \in Weakened : u \in Lemmas /\ Subsumes(u, n)
  BY <1>2, <1>3 DEF Weakened
<1> HIDE DEF all
<1>6. ASSUME NEW k \in lemmas, NEW n \in all, Subsumes(n, k)
      PROVE  n = k /\ k \in Weakened
  <2>1. PICK u \in Weakened : u \in Lemmas /\ Subsumes(u, n)
    BY <1>5
  <2>2. Subsumes(u, k)
    BY <1>4, <1>5, <1>6, <2>1, QalphaAssumption
  <2>3. u = k
    BY <1>1, <2>1, <2>2 DEF Minimal
  <2> QED BY <1>4, <1>5, <1>6, <2>1, <2>3, QalphaAssumption
<1>7. ASSUME NEW b \in blocked, blocked_to_core[b] \subseteq all
      PROVE  b[2] \in w[b[1]]
  <2>1. ASSUME NEW k \in blocked_to_core[b] PROVE k \in Weakened
    <3>1. k \in lemmas /\ k \in all /\ Subsumes(k, k)
      BY <1>1, <1>4, <1>7, QalphaAssumption DEF MapsInverse
    <3> QED BY <1>6, <3>1
  <2>2. b[2] \in weaken_lemmas[b[1]] /\ s \in Holds[b[2]]
    BY <1>1, <2>1 DEF Present
  <2> QED BY <1>1, <1>2, <2>2
<1>8. s \in All(all)
  BY <1>5 DEF All
<1>9. All(Weakened) \subseteq All(all)
  <2>1. Weakened \subseteq Lemmas
    BY <1>3 DEF Weakened
  <2>2. Covers(Weakened, all)
    BY <1>5 DEF Covers
  <2>3. all \in SUBSET Lemmas
    BY <1>5
  <2> QED BY <2>1, <2>2, <2>3, Covering
<1>10. all = Weakened'
  BY DEF all, w, Weakened
<1> QED BY <1>6, <1>7, <1>8, <1>9, <1>10 DEF w

LEMMA UpdateMInv ==
  ASSUME IInv, SafetyCoreOK, UNCHANGED module, Update(weaken_lemmas'),
         weaken_lemmas' \in [Domains -> SUBSET Lemmas],
         \A k \in lemmas : \A n \in Weakened' : Subsumes(n, k) => n = k,
         \A b \in blocked : blocked_to_core[b] \subseteq Weakened' => b[2] \in weaken_lemmas'[b[1]]
  PROVE  Minimal' /\ Present' /\ SafetyCoreOK'
<1> DEFINE w == weaken_lemmas'
           all == UNION {w[d] : d \in Domains}
           kept == lemmas \cap all
           fresh == {l \in all : ~\E m \in kept : Subsumes(m, l)}
<1>1. all = Weakened' /\ all \in SUBSET Lemmas
  BY DEF Weakened
<1>2. lemmas \in SUBSET Lemmas
  BY DEF IInv, TypeOK
<1>3. CASE lemmas = {}
  <2>1. UNCHANGED <<lemmas, maps, safety_core>>
    BY <1>3 DEF Update
  <2> QED BY <1>3, <2>1 DEF Minimal, Present, SafetyCoreOK, Post, All, module, maps
<1>4. CASE lemmas # {}
  <2>1. lemmas' = kept \cup Minimized(fresh) /\ Remove(lemmas \ all)
    BY <1>4 DEF Update
  <2>2. ASSUME NEW k \in lemmas', NEW n \in all, Subsumes(n, k)
        PROVE  n = k
    <3>1. CASE k \in kept
      BY <1>1, <2>2, <3>1
    <3>2. CASE k \in Minimized(fresh)
      <4>1. k \in fresh /\ \A m \in fresh : Subsumes(m, k) => m = k
        BY <3>2 DEF Minimized
      <4>2. n \in fresh
        <5> SUFFICES ASSUME NEW m \in kept, Subsumes(m, n) PROVE FALSE
          OBVIOUS
        <5>1. m \in Lemmas /\ n \in Lemmas /\ k \in Lemmas
          BY <1>1, <4>1
        <5>2. Subsumes(m, k)
          BY <2>2, <5>1, QalphaAssumption
        <5> QED BY <4>1, <5>2
      <4> QED BY <2>2, <4>1, <4>2
    <3> QED BY <2>1, <3>1, <3>2
  <2>3. Minimal'
    BY <1>1, <2>2 DEF Minimal
  <2>4. blocked' \subseteq blocked /\ \A b \in blocked' : blocked_to_core'[b] = blocked_to_core[b]
    BY <2>1 DEF Remove, Restrict
  <2>5. Present'
    BY <2>4 DEF Present
  <2>6. safety_core' = IF safety_core # None /\ safety_core \cap (lemmas \ all) # {}
                       THEN None ELSE safety_core
    BY <2>1 DEF Remove
  <2>7. SafetyCoreOK'
    <3>1. CASE safety_core' = None
      BY <3>1 DEF SafetyCoreOK
    <3>2. CASE safety_core' # None
      <4>1. safety_core' = safety_core /\ safety_core # None /\ safety_core \cap (lemmas \ all) = {}
        BY <2>6, <3>2
      <4>2. safety_core \subseteq lemmas'
        BY <2>1, <4>1 DEF SafetyCoreOK
      <4> QED BY <4>1, <4>2 DEF SafetyCoreOK, Post, All, module
    <3> QED BY <3>1, <3>2
  <2> QED BY <2>3, <2>5, <2>7
<1> QED BY <1>3, <1>4

----------------------------------------------------------------------------
(* The steps that leave the lemmas and the maps alone.                     *)
LEMMA StartJobMInv == ASSUME IInv, MInv, NEW j \in Jobs, StartJob(j) PROVE MInv'
<1>1. /\ pc \in {"init", "trans"} /\ j \in todo
      /\ todo' = todo \ {j} /\ asking' = asking \cup {j}
      /\ UNCHANGED <<module, weaken_lemmas, lemmas, maps, ctis, safety_core, pc, found,
                     simulation, result>>
  BY DEF StartJob
<1>2. Minimal' /\ Present' /\ SafetyCoreOK' /\ MinimizedProves'
  BY <1>1, SameMinimal, SameSafetyCore, NotMinimized
<1>3. Sources'
  BY <1>1 DEF MInv, Sources, Weakened, JobsOf, Post, All, module, simulation
<1> QED BY <1>2, <1>3 DEF MInv

(* The outcomes of a job: as EndsInv has them.                             *)
LEMMA EndsMInv ==
  ASSUME IInv, MInv, NEW j \in Jobs, Ends(j), pc \in {"init", "trans"}, pc' \in {pc, "panic"},
         UNCHANGED maps \/ \E core \in SUBSET lemmas : Block(j, core),
         \/ UNCHANGED found
         \/ pc = "init" /\ \E s \in inits : found' = found \cup {s}
         \/ pc = "trans" /\ \E s \in Post(All(lemmas)) : found' = found \cup {s}
  PROVE  MInv'
<1>1. /\ j \in asking /\ asking' = asking \ {j}
      /\ UNCHANGED <<module, weaken_lemmas, lemmas, ctis, safety_core, todo, simulation, result>>
  BY DEF Ends
<1>2. Minimal'
  BY <1>1 DEF MInv, Minimal, Weakened
<1>3. Present'
  <2>1. CASE UNCHANGED maps
    BY <1>1, <2>1, SameMinimal
  <2>2. CASE \E core \in SUBSET lemmas : Block(j, core)
    <3>1. blocked' = blocked \cup {j} /\ \A b \in blocked \ {j} : blocked_to_core'[b] = blocked_to_core[b]
      BY <2>2 DEF Block
    <3>2. j[2] \in weaken_lemmas[j[1]]
      BY <1>1 DEF MInv, Sources, JobsOf
    <3>3. Weakened' = Weakened
      BY <1>1 DEF Weakened
    <3> QED BY <1>1, <3>1, <3>2, <3>3 DEF MInv, Present
  <2> QED BY <2>1, <2>2
<1>4. Sources'
  <2>1. pc' = "init" => found' \subseteq inits
    BY DEF MInv, Sources
  <2>2. pc' = "trans" => found' \subseteq Post(All(lemmas))
    BY DEF MInv, Sources
  <2> QED BY <1>1, <2>1, <2>2 DEF MInv, Sources, Weakened, JobsOf, Post, All, module, simulation
<1>5. SafetyCoreOK' /\ MinimizedProves'
  BY <1>1, SameSafetyCore, NotMinimized
<1> QED BY <1>2, <1>3, <1>4, <1>5 DEF MInv

LEMMA AnswerMInv ==
  ASSUME IInv, MInv, NEW j \in Jobs, AnswerInit(j) \/ AnswerTrans(j)
  PROVE  MInv'
<1>1. CASE AnswerInit(j)
  BY <1>1, EndsMInv DEF AnswerInit
<1>2. CASE AnswerTrans(j)
  <2>1. pc = "trans" /\ Ends(j) /\ pc' = pc
    BY <1>2 DEF AnswerTrans
  <2>2. UNCHANGED maps \/ \E core \in SUBSET lemmas : Block(j, core)
    BY <1>2 DEF AnswerTrans, Returned, CoresOf
  <2>3. UNCHANGED found \/ \E s \in Post(All(lemmas)) : found' = found \cup {s}
    BY <1>2 DEF AnswerTrans
  <2> QED BY <2>1, <2>2, <2>3, EndsMInv
<1> QED BY <1>1, <1>2

----------------------------------------------------------------------------
(* The states to weaken by do not violate what is blocked.                 *)
LEMMA InitCexMInv == ASSUME IInv, MInv, InitCex PROVE MInv'
<1>1. /\ pc = "init" /\ pc' = pc
      /\ UNCHANGED <<module, lemmas, maps, safety_core, simulation, result>>
  BY DEF InitCex
<1>2. PICK s \in found : /\ weaken_lemmas' = WeakenBy(s)
                         /\ ctis' \subseteq ctis \cup {s} /\ ctis \subseteq ctis'
                         /\ todo' = JobsOf(WeakenBy(s)) /\ asking' = {} /\ found' = {}
  BY DEF InitCex, StartCycle
<1>3. s \in States /\ \A b \in blocked : s \in Holds[b[2]]
  BY <1>1 DEF IInv, TypeOK, InInit, MInv, Sources
<1>4. /\ \A k \in lemmas : \A n \in Weakened' : Subsumes(n, k) => n = k
      /\ \A b \in blocked : blocked_to_core[b] \subseteq Weakened' => b[2] \in weaken_lemmas'[b[1]]
      /\ All(Weakened) \subseteq All(Weakened') /\ s \in All(Weakened')
  BY <1>2, <1>3, WeakenMInv
<1>5. Minimal' /\ Present'
  BY <1>1, <1>4 DEF Minimal, Present, maps
<1>6. Sources'
  <2>1. ctis' \cup new_ctis' \subseteq All(Weakened') /\ samples' \subseteq Post(ctis)'
    BY <1>1, <1>2, <1>4 DEF MInv, Sources, Post, module, simulation
  <2> QED BY <1>1, <1>2, <2>1 DEF Sources, JobsOf
<1>7. SafetyCoreOK' /\ MinimizedProves'
  BY <1>1, SameSafetyCore, NotMinimized
<1> QED BY <1>5, <1>6, <1>7 DEF MInv

(* An update without weakening.                                            *)
LEMMA UpdatesMInv ==
  ASSUME IInv, MInv, Update(weaken_lemmas), pc # "done", pc' \in {"check", "extend"},
         UNCHANGED <<module, weaken_lemmas, ctis, simulation, result>>
  PROVE  MInv'
<1>1. Weakened' = Weakened /\ weaken_lemmas \in [Domains -> SUBSET Lemmas]
  BY DEF Weakened, IInv, TypeOK
<1>2. Minimal' /\ Present' /\ SafetyCoreOK'
  BY <1>1, UpdateMInv DEF MInv, Minimal, Present
<1>3. Sources'
  BY <1>1 DEF MInv, Sources, Post, module, simulation
<1>4. MinimizedProves'
  BY NotMinimized
<1> QED BY <1>2, <1>3, <1>4 DEF MInv

LEMMA SimulateMInv == ASSUME IInv, MInv, Simulate \/ NextSamples PROVE MInv'
<1>1. /\ pc \in {"extend", "samples"} /\ pc' \in {"extend", "samples"}
      /\ UNCHANGED <<module, weaken_lemmas, lemmas, maps, safety_core, cycle, result>>
      /\ ctis' \cup new_ctis' \subseteq ctis \cup new_ctis
      /\ \/ samples' = {}
         \/ samples' \subseteq Post(ctis) /\ ctis' = ctis
  <2>1. CASE Simulate
    BY <2>1 DEF Simulate
  <2>2. CASE NextSamples
    <3>1. ctis' = new_ctis /\ new_ctis' = {} /\ samples' = {}
      BY <2>2 DEF NextSamples
    <3> QED BY <2>2, <3>1 DEF NextSamples
  <2> QED BY <2>1, <2>2
<1>2. Minimal' /\ Present' /\ SafetyCoreOK' /\ MinimizedProves'
  BY <1>1, SameMinimal, SameSafetyCore, NotMinimized
<1>3. Sources'
  BY <1>1 DEF MInv, Sources, Weakened, Post, module
<1> QED BY <1>2, <1>3 DEF MInv

(* A sample follows a state that all lemmas allow, those of a core too.    *)
LEMMA WeakenSampleMInv == ASSUME IInv, MInv, WeakenSample PROVE MInv'
<1>1. /\ pc = "samples" /\ UNCHANGED <<module, lemmas, maps, ctis, safety_core, pc, cycle, result>>
  BY DEF WeakenSample
<1>2. PICK s \in samples : /\ weaken_lemmas' = WeakenBy(s)
                           /\ new_ctis' = new_ctis \cup {s}
                           /\ samples' = samples \ {s}
  BY DEF WeakenSample
<1>3. s \in Post(ctis) /\ ctis \subseteq All(Weakened) /\ s \in States
  <2>1. s \in All(Wanted)
    BY DEF IInv, Reached
  <2> QED BY <2>1 DEF MInv, Sources, All
<1>4. ASSUME NEW b \in blocked, blocked_to_core[b] \subseteq Weakened PROVE s \in Holds[b[2]]
  <2>1. ctis \subseteq All(blocked_to_core[b])
    BY <1>3, <1>4 DEF All
  <2> QED BY <1>3, <2>1 DEF IInv, Justified, Post
<1>5. /\ \A k \in lemmas : \A n \in Weakened' : Subsumes(n, k) => n = k
      /\ \A b \in blocked : blocked_to_core[b] \subseteq Weakened' => b[2] \in weaken_lemmas'[b[1]]
      /\ All(Weakened) \subseteq All(Weakened') /\ s \in All(Weakened')
  BY <1>2, <1>3, <1>4, WeakenMInv
<1>6. Minimal' /\ Present'
  BY <1>1, <1>5 DEF Minimal, Present, maps
<1>7. Sources'
  BY <1>1, <1>2, <1>5 DEF MInv, Sources, Post, module
<1>8. SafetyCoreOK' /\ MinimizedProves'
  BY <1>1, SameSafetyCore, NotMinimized
<1> QED BY <1>6, <1>7, <1>8 DEF MInv

LEMMA TransCexMInv == ASSUME IInv, MInv, TransCex PROVE MInv'
<1>1. /\ pc = "trans" /\ pc' \in {"check", "extend"}
      /\ UNCHANGED <<module, simulation, result>>
  BY DEF TransCex, AfterUpdate
<1>2. PICK s \in found : /\ weaken_lemmas' = WeakenBy(s)
                         /\ ctis' \subseteq ctis \cup {s} /\ ctis \subseteq ctis'
                         /\ Update(WeakenBy(s))
  BY DEF TransCex
<1>3. s \in States /\ s \in Post(All(lemmas))
  <2>1. s \in All(Wanted)
    BY DEF IInv, Reached
  <2> QED BY <1>1, <2>1 DEF MInv, Sources, All
<1>4. ASSUME NEW b \in blocked PROVE s \in Holds[b[2]]
  <2>1. blocked_to_core[b] \subseteq lemmas
    BY DEF IInv, MapsInverse
  <2>2. Post(All(lemmas)) \subseteq Post(All(blocked_to_core[b]))
    BY <2>1 DEF Post, All
  <2> QED BY <1>3, <2>2 DEF IInv, Justified
<1>5. /\ \A k \in lemmas : \A n \in Weakened' : Subsumes(n, k) => n = k
      /\ \A b \in blocked : blocked_to_core[b] \subseteq Weakened' => b[2] \in weaken_lemmas'[b[1]]
      /\ All(Weakened) \subseteq All(Weakened') /\ s \in All(Weakened')
  BY <1>2, <1>3, <1>4, WeakenMInv
<1>6. weaken_lemmas' \in [Domains -> SUBSET Lemmas] /\ Update(weaken_lemmas')
  BY <1>2, <1>3, WeakenOK DEF IInv
<1>7. Minimal' /\ Present' /\ SafetyCoreOK'
  BY <1>1, <1>5, <1>6, UpdateMInv DEF MInv
<1>8. Sources'
  <2>1. samples \subseteq Post(ctis) /\ ctis \subseteq ctis'
    BY <1>2 DEF MInv, Sources
  <2>2. samples' \subseteq Post(ctis)'
    BY <1>1, <2>1 DEF Post, module, simulation
  <2>3. ctis' \cup new_ctis' \subseteq All(Weakened')
    BY <1>1, <1>2, <1>5 DEF MInv, Sources, simulation
  <2> QED BY <1>1, <2>2, <2>3 DEF Sources
<1>9. MinimizedProves'
  BY <1>1, NotMinimized
<1> QED BY <1>7, <1>8, <1>9 DEF MInv

----------------------------------------------------------------------------
(* is_safe remembers a core that keeps safe states safe.                   *)
LEMMA IsSafeOK ==
  ASSUME MInv, NEW safe \in BOOLEAN, IsSafe(safe), UNCHANGED <<module, lemmas>>
  PROVE  /\ SafetyCoreOK'
         /\ safe => \/ safety_core' = safety_core /\ safety_core # None
                    \/ safety_core' \in SUBSET lemmas
<1>1. CASE UNCHANGED safety_core
  BY <1>1, SameSafetyCore DEF IsSafe, Returned, SafetyCores
<1>2. CASE safe /\ safety_core' \in Returned(SafetyCores)
  <2>1. safety_core' \in SUBSET lemmas /\ Post(All(safety_core') \cap Safe) \subseteq Safe
    BY <1>2 DEF Returned, SafetyCores
  <2> QED BY <2>1 DEF SafetyCoreOK, Post, All, module
<1> QED BY <1>1, <1>2 DEF IsSafe

LEMMA CheckMInv == ASSUME IInv, MInv, Check PROVE MInv'
<1>1. /\ pc = "check"
      /\ UNCHANGED <<module, weaken_lemmas, lemmas, maps, ctis, simulation, result>>
      /\ \/ /\ pc' = "trans"
            /\ StartCycle({j \in JobsOf(weaken_lemmas) : j[2] \in lemmas})
         \/ pc' = "done" /\ UNCHANGED cycle
      /\ UNCHANGED safety_core \/ \E safe \in BOOLEAN : IsSafe(safe)
  BY DEF Check
<1>2. Minimal' /\ Present' /\ MinimizedProves'
  BY <1>1, SameMinimal, NotMinimized
<1>3. SafetyCoreOK'
  BY <1>1, SameSafetyCore, IsSafeOK
<1>4. Sources'
  <2>1. pc' = "trans" => todo' = {j \in JobsOf(weaken_lemmas) : j[2] \in lemmas}
                           /\ asking' = {} /\ found' = {}
    BY <1>1 DEF StartCycle
  <2> QED BY <1>1, <2>1 DEF MInv, Sources, Weakened, JobsOf, Post, module, simulation
<1> QED BY <1>2, <1>3, <1>4 DEF MInv

(* The steps that only move on.                                            *)
LEMMA MovesMInv ==
  ASSUME IInv, MInv, UNCHANGED <<module, weaken_lemmas, lemmas, maps, ctis, safety_core, simulation, result>>,
         pc # "done", pc' \in {"final", "panic"}
  PROVE  MInv'
<1>1. Minimal' /\ Present' /\ SafetyCoreOK' /\ MinimizedProves'
  BY SameMinimal, SameSafetyCore, NotMinimized
<1>2. Sources'
  BY DEF MInv, Sources, Weakened, Post, module, simulation
<1> QED BY <1>1, <1>2 DEF MInv

(* Every lemma of the frame is blocked by an entry of its own.             *)
LEMMA FinalBlocked ==
  ASSUME IInv, MInv, pc = "final", NEW l \in lemmas
  PROVE  \E b \in blocked : b[2] = l
<1>1. PICK b \in blocked : Subsumes(b[2], l)
  BY DEF IInv, InTrans, IsBlocked
<1>2. blocked_to_core[b] \subseteq Weakened
  BY DEF IInv, MapsInverse, InTrans
<1>3. b[2] \in Weakened
  BY <1>2 DEF MInv, Present, IInv, TypeOK, Jobs, Weakened
<1> QED BY <1>1, <1>3 DEF MInv, Minimal

(* The lemmas that minimized_proof returns: the least that have the core   *)
(* and the cores of all of them.                                           *)
LEMMA MinimizedInductive ==
  ASSUME IInv, MInv, pc = "final", NEW core \in SUBSET lemmas, NEW entry \in Entries
  PROVE  /\ core \subseteq MinimizedProof(core, entry)
         /\ MinimizedProof(core, entry) \subseteq DOMAIN entry
         /\ Inductive(MinimizedProof(core, entry))
<1> DEFINE min == MinimizedProof(core, entry)
<1>1. min \subseteq lemmas /\ core \subseteq min
  BY DEF MinimizedProof
<1>2. /\ DOMAIN entry = {b[2] : b \in blocked}
      /\ \A l \in DOMAIN entry : entry[l] \in blocked /\ entry[l][2] = l
  BY DEF Entries
<1>3. min \subseteq DOMAIN entry
  BY <1>1, <1>2, FinalBlocked
<1>4. ASSUME NEW l \in min PROVE blocked_to_core[entry[l]] \subseteq min
  <2>1. l \in DOMAIN entry /\ blocked_to_core[entry[l]] \subseteq lemmas
    BY <1>2, <1>3 DEF IInv, MapsInverse
  <2>2. ASSUME NEW ls \in SUBSET lemmas, core \subseteq ls, Closed(ls, entry)
        PROVE  blocked_to_core[entry[l]] \subseteq ls
    <3>1. l \in ls
      BY <2>2 DEF MinimizedProof
    <3> QED BY <2>1, <2>2, <3>1 DEF Closed
  <2> QED BY <2>1, <2>2 DEF MinimizedProof
<1> HIDE DEF min
<1>5. ASSUME NEW l \in min PROVE Post(All(min)) \subseteq Holds[l] /\ inits \subseteq Holds[l]
  <2>1. entry[l] \in blocked /\ entry[l][2] = l
    BY <1>2, <1>3
  <2>2. Post(All(min)) \subseteq Post(All(blocked_to_core[entry[l]]))
    BY <1>4 DEF Post, All
  <2>3. Post(All(blocked_to_core[entry[l]])) \subseteq Holds[l]
    BY <2>1 DEF IInv, Justified
  <2>4. inits \subseteq Holds[l]
    BY <1>1 DEF IInv, HoldsInit
  <2> QED BY <2>2, <2>3, <2>4
<1>6. inits \subseteq States /\ Post(All(min)) \subseteq States
  BY DEF IInv, TypeOK, Post
<1>7. Inductive(min)
  BY <1>5, <1>6 DEF Inductive, All
<1> QED BY <1>1, <1>3, <1>7 DEF min

LEMMA FinalMInv == ASSUME IInv, MInv, Final PROVE MInv'
<1>1. /\ pc = "final"
      /\ UNCHANGED <<module, weaken_lemmas, lemmas, maps, ctis, cycle, simulation>>
  BY DEF Final
<1>2. PICK safe \in BOOLEAN, entry \in Entries :
        /\ IsSafe(safe)
        /\ LET minimized == MinimizedProof(safety_core', entry) IN
           IF safety_core' # None /\ ~(minimized \subseteq DOMAIN entry)
           THEN pc' = "unblocked" /\ UNCHANGED result
           ELSE /\ pc' = "done"
                /\ result' = [proof |-> lemmas, safe |-> safe,
                              minimized |-> IF safety_core' = None THEN None ELSE minimized]
  BY DEF Final
<1> DEFINE min == MinimizedProof(safety_core', entry)
<1>3. SafetyCoreOK' /\ (safe => safety_core' # None)
  <2>1. None \notin SUBSET lemmas
    BY QalphaAssumption DEF IInv, TypeOK, None
  <2> QED BY <1>1, <1>2, <2>1, IsSafeOK
<1>4. ASSUME safety_core' # None
      PROVE  /\ safety_core' \subseteq min /\ min \subseteq DOMAIN entry /\ Inductive(min)
             /\ Post(All(safety_core') \cap Safe) \subseteq Safe
  <2>1. safety_core' \subseteq lemmas /\ Post(All(safety_core') \cap Safe) \subseteq Safe
    BY <1>1, <1>3, <1>4 DEF SafetyCoreOK, Post, All, module
  <2> QED BY <1>1, <2>1, MinimizedInductive
<1> HIDE DEF min
<1>5. /\ pc' = "done"
      /\ result' = [proof |-> lemmas, safe |-> safe,
                    minimized |-> IF safety_core' = None THEN None ELSE min]
  BY <1>2, <1>4 DEF min
<1>6. ASSUME safe
      PROVE  Inductive(min) /\ Post(All(min) \cap Safe) \subseteq Safe
  BY <1>3, <1>4, <1>6 DEF Post, All
<1>7. MinimizedProves'
  <2>1. result'.safe = safe /\ (safe => result'.minimized = min)
    BY <1>3, <1>5
  <2> HIDE DEF min
  <2> SUFFICES ASSUME safe
               PROVE  (Inductive(result.minimized) /\ Post(All(result.minimized) \cap Safe) \subseteq Safe)'
    BY <1>5, <2>1 DEF MinimizedProves
  <2>2. /\ inits' = inits /\ trans' = trans /\ result'.minimized = min
        /\ Inductive(min) /\ Post(All(min) \cap Safe) \subseteq Safe
    BY <1>1, <1>6, <2>1 DEF module
  <2> HIDE DEF min
  <2> QED BY <2>2 DEF Inductive, Post, All
<1>8. Minimal' /\ Present'
  BY <1>1, SameMinimal
<1>9. Sources'
  BY <1>1, <1>5 DEF MInv, Sources, Weakened, Post, module, simulation
<1> QED BY <1>3, <1>7, <1>8, <1>9 DEF MInv

LEMMA StepMInv == IInv /\ MInv /\ [Next]_vars => MInv'
<1> SUFFICES ASSUME IInv, MInv, [Next]_vars PROVE MInv'
  OBVIOUS
<1>1. CASE \E j \in Jobs : StartJob(j) \/ AnswerInit(j) \/ AnswerTrans(j)
  BY <1>1, StartJobMInv, AnswerMInv
<1>2. CASE InitCex
  BY <1>2, InitCexMInv
<1>3. CASE InitDone
  BY <1>3, UpdatesMInv DEF InitDone, AfterUpdate
<1>4. CASE Simulate \/ NextSamples
  BY <1>4, SimulateMInv
<1>5. CASE WeakenSample
  BY <1>5, WeakenSampleMInv
<1>6. CASE Extended
  BY <1>6, UpdatesMInv DEF Extended
<1>7. CASE Check
  BY <1>7, CheckMInv
<1>8. CASE SafetyUnknown
  BY <1>8, MovesMInv DEF SafetyUnknown
<1>9. CASE TransCex
  BY <1>9, TransCexMInv
<1>10. CASE TransDone
  BY <1>10, MovesMInv DEF TransDone
<1>11. CASE Final
  BY <1>11, FinalMInv
<1>12. CASE UNCHANGED vars
  <2>1. UNCHANGED <<module, weaken_lemmas, lemmas, maps, ctis, safety_core, pc, cycle, simulation, result>>
    BY <1>12 DEF vars
  <2>2. UNCHANGED <<todo, asking, found, samples, new_ctis>>
    BY <2>1 DEF cycle, simulation
  <2>3. Minimal' /\ Present' /\ SafetyCoreOK'
    BY <2>1, SameMinimal, SameSafetyCore
  <2>4. Sources'
    BY <2>1, <2>2 DEF MInv, Sources, Weakened, JobsOf, Post, All, module
  <2>5. MinimizedProves'
    BY <2>1, SameModule DEF MInv, MinimizedProves, Finished, Post, module
  <2> QED BY <2>3, <2>4, <2>5 DEF MInv
<1> QED
  BY <1>1, <1>2, <1>3, <1>4, <1>5, <1>6, <1>7, <1>8, <1>9, <1>10, <1>11, <1>12 DEF Next

LEMMA MInvariance == Spec => []MInv
BY InitInv, InitMInv, StepInv, StepMInv, PTL DEF Spec

----------------------------------------------------------------------------
(* A lemma that `blocked` holds is implied by its core after every         *)
(* transition, through all weakening, and the two maps are inverse to each *)
(* other, so that the unwrap()s of remove_lemma find what they look up.    *)
THEOREM BlockedByCore == Spec => []BlockedJustified
<1>1. IInv => BlockedJustified
  BY DEF IInv, BlockedJustified, Justified
<1> QED BY <1>1, Invariance, PTL

(* The proof that run_qalpha returns holds initially and is inductive.     *)
THEOREM ProofInductive == Spec => []FixpointInductive
<1>1. IInv => FixpointInductive
  BY DEF IInv
<1> QED BY <1>1, Invariance, PTL

(* ... and no inductive set of lemmas of the domains is stronger, whatever *)
(* counterexamples the queries and the simulation came up with.            *)
THEOREM ProofLeast == Spec => []FixpointLeast
<1>1. IInv => FixpointLeast
  BY DEF IInv
<1> QED BY <1>1, Invariance, PTL

(* minimized_proof finds blocked whatever it looks up, and the lemmas it   *)
(* returns are inductive by themselves and keep safe states safe, although *)
(* their cores come from different cycles.                                 *)
THEOREM MinimizedSound == Spec => []MinimizedProves
<1>1. MInv => MinimizedProves
  BY DEF MInv
<1> QED BY <1>1, MInvariance, PTL
=============================================================================
