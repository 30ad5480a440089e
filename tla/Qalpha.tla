------------------------------- MODULE Qalpha -------------------------------
(***************************************************************************)
(* The inference of an inductive invariant: run_qalpha                     *)
(* (inference/src/fixpoint.rs) and the InductionFrame it works on          *)
(* (inference/src/lemma.rs).  The frame weakens a set of lemmas, starting  *)
(* at false, by the counterexamples to induction that parallel queries     *)
(* find, and remembers which lemmas are blocked, that is implied by the    *)
(* frame after a transition, and by which core.                            *)
(*                                                                         *)
(* First-order states and lemmas are abstracted to a set of states and the *)
(* states in which a lemma holds.  The ids of a LemmaSet are the lemmas    *)
(* themselves in the frame, which never inserts one again; in `blocked`    *)
(* they are the jobs, since jobs of two domains may insert the same lemma. *)
(* A query of one lemma (FOModule::trans_cex) is one step here; the module *)
(* ParallelQuery is about its inside.                                      *)
(***************************************************************************)
EXTENDS Naturals, FiniteSetsExt, Functions

CONSTANTS
  States,       \* the states the axioms allow
  Safe,         \* those in which the safety properties hold
  Lemmas,       \* the lemmas of all domains
  Bottom,       \* the strongest one, false
  Holds,        \* the states in which a lemma holds
  Subsuming,    \* the pairs of lemmas of which the first subsumes the second
  Domains,      \* the lemma domains
  Members,      \* the lemmas of a domain
  Inits,        \* the sets of initial states considered
  Steps,        \* the transitions considered ...
  MaxTrans,     \* ... and how many of them a module has
  MaxThreads,   \* the bound on the jobs that run at a time
  AnyCore,      \* whether a core may be neither minimal nor the whole frame
  Options,      \* the configurations: which of "extend" and "abort" are set
  Answering     \* what a query may be answered besides the truth: {} or {"Unknown"}

Subsumes(l, m) == <<l, m>> \in Subsuming

ASSUME QalphaAssumption ==
  /\ Safe \subseteq States
  /\ Holds \in [Lemmas -> SUBSET States]
  /\ IsFiniteSet(Lemmas) /\ Bottom \in Lemmas /\ Holds[Bottom] = {}
  /\ "none" \notin Lemmas
  /\ Subsuming \subseteq Lemmas \X Lemmas
  /\ \A l \in Lemmas : Subsumes(l, l) /\ Subsumes(Bottom, l)
  /\ \A l, m, n \in Lemmas : Subsumes(l, m) /\ Subsumes(m, n) => Subsumes(l, n)
  /\ \A l, m \in Lemmas : Subsumes(l, m) => Holds[l] \subseteq Holds[m]
  /\ \A l, m \in Lemmas : Subsumes(l, m) /\ Subsumes(m, l) => l = m
  /\ Members \in [Domains -> SUBSET Lemmas] /\ \A d \in Domains : Bottom \in Members[d]
  /\ Inits \subseteq SUBSET States /\ Steps \subseteq States \X States
  /\ MaxTrans \in Nat /\ MaxThreads \in Nat \ {0}
  /\ AnyCore \in BOOLEAN
  /\ Options \subseteq SUBSET {"extend", "abort"}
  /\ Answering \subseteq {"Unknown"}

Jobs == {j \in Domains \X Lemmas : j[2] \in Members[j[1]]}
None == {"none"}               \* None of the Option around safety_core

VARIABLES
  inits, trans,      (* the module: its initial states and its transitions       *)
  options,           (* whether to extend, and to abort_unsafe                   *)
  weaken_lemmas,     (* of each domain, the lemmas                               *)
  lemmas,            (* the frame                                                *)
  blocked,           (* the jobs that have inserted their lemma into `blocked`   *)
  blocked_to_core,   (* and the core that blocks it                              *)
  core_to_blocked,   (* of a lemma of the frame, what it helps to block          *)
  ctis,              (* the states to simulate from                              *)
  safety_core,       (* the lemmas that imply safety, or None                    *)
  pc,                (* where run_qalpha is                                      *)
  todo, asking,      (* the jobs of a cycle that have not begun, and those running *)
  found,             (* the counterexamples of the jobs that have returned one   *)
  canceled, unknown, (* whether the cycle's queries are cancelled, one is unknown *)
  samples, new_ctis, (* the loop of extend                                       *)
  result             (* the FoundFixpoint                                        *)

module == <<inits, trans, options>>
maps == <<blocked, blocked_to_core, core_to_blocked>>
cycle == <<todo, asking, found, canceled, unknown>>
simulation == <<samples, new_ctis>>
vars == <<module, weaken_lemmas, lemmas, maps, ctis, safety_core, pc, cycle, simulation, result>>

All(ls) == {s \in States : \A l \in ls : s \in Holds[l]}
Post(S) == {t[2] : t \in {u \in trans : u[1] \in S}}

(* insert_minimized, of a set.                                             *)
Minimized(ls) == {l \in ls : \A m \in ls : Subsumes(m, l) => m = l}

Weakened == UNION {weaken_lemmas[d] : d \in Domains}

JobsOf(w) == {j \in Jobs : j[2] \in w[j[1]]}

Extend == "extend" \in options
Abort == "abort" \in options

NotRun == [proof |-> None, minimized |-> None, safe |-> FALSE]

----------------------------------------------------------------------------
(* A cycle begins with a job for each of some weakened lemmas.             *)
StartCycle(jobs) ==
  /\ todo' = jobs /\ asking' = {}
  /\ found' = {} /\ canceled' = FALSE /\ unknown' = FALSE

Init ==
  /\ inits \in Inits
  /\ trans \in UNION {kSubset(k, Steps) : k \in 0 .. MaxTrans}
  /\ options \in Options
  /\ weaken_lemmas = [d \in Domains |-> {Bottom}]
  /\ lemmas = {Bottom}
  /\ blocked = {} /\ blocked_to_core = <<>> /\ core_to_blocked = <<>>
  /\ ctis = {}
  /\ safety_core = None
  /\ pc = "init"
  /\ todo = JobsOf(weaken_lemmas) /\ asking = {}
  /\ found = {} /\ canceled = FALSE /\ unknown = FALSE
  /\ samples = {} /\ new_ctis = {}
  /\ result = NotRun

----------------------------------------------------------------------------
(* The jobs of init_cex and trans_cex                                      *)

(* blocked.subsumes                                                        *)
IsBlocked(l) == \E b \in blocked : Subsumes(b[2], l)

(* A job begins, unless its lemma is filtered: what is blocked stays so    *)
(* until the cycle ends.                                                   *)
StartJob(j) ==
  /\ pc \in {"init", "trans"} /\ j \in todo
  /\ Cardinality(asking) < MaxThreads
  /\ ~IsBlocked(j[2])
  /\ todo' = todo \ {j}
  /\ asking' = asking \cup {j}
  /\ UNCHANGED <<module, weaken_lemmas, lemmas, maps, ctis, safety_core, pc,
                 found, canceled, unknown, simulation, result>>

(* blocked.insert, and the two maps.                                       *)
Block(j, core) ==
  /\ blocked' = blocked \cup {j}
  /\ blocked_to_core' = [b \in blocked \cup {j} |-> IF b = j THEN core ELSE blocked_to_core[b]]
  /\ core_to_blocked' = [l \in DOMAIN core_to_blocked \cup core |->
       (IF l \in DOMAIN core_to_blocked THEN core_to_blocked[l] ELSE {})
         \cup (IF l \in core THEN {j} ELSE {})]

Ends(j) ==
  /\ j \in asking
  /\ asking' = asking \ {j}
  /\ UNCHANGED <<module, weaken_lemmas, lemmas, ctis, safety_core, todo, simulation, result>>

(* A job of init_cex.  What holds initially counts as blocked, by a core   *)
(* of all lemmas.  A query that is not answered panics.                    *)
AnswerInit(j) ==
  /\ pc = "init" /\ Ends(j)
  /\ \/ \E s \in inits \ Holds[j[2]] : found' = found \cup {s} /\ UNCHANGED <<maps, pc>>
     \/ inits \subseteq Holds[j[2]] /\ Block(j, lemmas) /\ UNCHANGED <<found, pc>>
     \/ "Unknown" \in Answering /\ pc' = "panic" /\ UNCHANGED <<maps, found>>
  /\ UNCHANGED <<canceled, unknown>>

(* The cores an unsatisfiable query may return.                            *)
CoresOf(l) == {core \in SUBSET lemmas : Post(All(core)) \subseteq Holds[l]}

Returned(cores) ==
  {c \in cores : AnyCore \/ c = lemmas \/ \A d \in cores : d \subseteq c => d = c}

(* A job of trans_cex.                                                     *)
AnswerTrans(j) ==
  /\ pc = "trans" /\ Ends(j)
  /\ \/ /\ \E s \in Post(All(lemmas)) \ Holds[j[2]] : found' = found \cup {s}
        /\ canceled' = TRUE
        /\ UNCHANGED <<maps, unknown>>
     \/ /\ \E core \in Returned(CoresOf(j[2])) : Block(j, core)
        /\ UNCHANGED <<found, canceled, unknown>>
     \/ canceled /\ UNCHANGED <<maps, found, canceled, unknown>>
     \/ /\ "Unknown" \in Answering
        /\ unknown' = TRUE
        /\ UNCHANGED <<maps, found, canceled>>
  /\ UNCHANGED pc

(* find_map_any: no other job need begin once one has found something.     *)
CycleEnds == asking = {} /\ (found # {} \/ \A j \in todo : IsBlocked(j[2]))

----------------------------------------------------------------------------
(* weaken and update                                                       *)

(* A mutation: what fails in s is only removed.                            *)
WeakenByRemoving(s) == [d \in Domains |-> {l \in weaken_lemmas[d] : s \in Holds[l]}]

(* A mutation: what fails in s stays.                                      *)
WeakenKeeping(s) ==
  [d \in Domains |->
    weaken_lemmas[d] \cup Minimized({m \in Members[d] : s \in Holds[m] /\
                                       ~\E l \in weaken_lemmas[d] : Subsumes(l, m)})]

(* WeakenLemmaSet::weaken: in each domain, the lemmas that fail in s make  *)
(* room for the strongest of the domain's lemmas that they subsume, that   *)
(* hold in s and that no lemma left subsumes.                              *)
WeakenBy(s) ==
  [d \in Domains |->
    LET unsat == {l \in weaken_lemmas[d] : s \notin Holds[l]}
        kept == weaken_lemmas[d] \ unsat
    IN  kept \cup Minimized({m \in Members[d] : /\ s \in Holds[m]
                                                /\ \E l \in unsat : Subsumes(l, m)
                                                /\ ~\E l \in kept : Subsumes(l, m)})]

(* A mutation: the other lemmas of a core still claim to block.            *)
RemoveOneWay(gone) ==
  LET unblocked == UNION {core_to_blocked[l] : l \in gone \cap DOMAIN core_to_blocked}
  IN  /\ blocked' = blocked \ unblocked
      /\ blocked_to_core' = Restrict(blocked_to_core, blocked \ unblocked)
      /\ core_to_blocked' = Restrict(core_to_blocked, DOMAIN core_to_blocked \ gone)
      /\ safety_core' = IF safety_core # None /\ safety_core \cap gone # {}
                        THEN None ELSE safety_core

(* remove_lemma, of a set of lemmas.                                       *)
Remove(gone) ==
  LET unblocked == UNION {core_to_blocked[l] : l \in gone \cap DOMAIN core_to_blocked}
      rest == {l \in DOMAIN core_to_blocked \ gone : ~(core_to_blocked[l] \subseteq unblocked)}
  IN  /\ blocked' = blocked \ unblocked
      /\ blocked_to_core' = Restrict(blocked_to_core, blocked \ unblocked)
      /\ core_to_blocked' = [l \in rest |-> core_to_blocked[l] \ unblocked]
      /\ safety_core' = IF safety_core # None /\ safety_core \cap gone # {}
                        THEN None ELSE safety_core

(* A mutation: lemmas that others subsume are added as well.               *)
UpdateNotMinimized(w) ==
  LET all == UNION {w[d] : d \in Domains}
  IN  IF lemmas = {} THEN UNCHANGED <<lemmas, maps, safety_core>>
      ELSE lemmas' = all /\ Remove(lemmas \ all)

(* InductionFrame::update, after weakening to w.                           *)
Update(w) ==
  LET all == UNION {w[d] : d \in Domains}
      kept == lemmas \cap all
  IN  IF lemmas = {} THEN UNCHANGED <<lemmas, maps, safety_core>>
      ELSE /\ lemmas' = kept \cup
                Minimized({l \in all : ~\E m \in kept : Subsumes(m, l)})
           /\ Remove(lemmas \ all)

AfterUpdate == IF Extend THEN "extend" ELSE "check"

----------------------------------------------------------------------------
(* run_qalpha                                                              *)

(* init_cycle has found an initial state: the frame is not updated yet.    *)
InitCex ==
  /\ pc = "init" /\ CycleEnds
  /\ \E s \in found :
       /\ weaken_lemmas' = WeakenBy(s)
       /\ ctis' = IF Extend THEN ctis \cup {s} ELSE ctis
       /\ StartCycle(JobsOf(WeakenBy(s)))
  /\ UNCHANGED <<module, lemmas, maps, safety_core, pc, simulation, result>>

InitDone ==
  /\ pc = "init" /\ CycleEnds /\ found = {}
  /\ Update(weaken_lemmas)
  /\ pc' = AfterUpdate
  /\ StartCycle({})
  /\ UNCHANGED <<module, weaken_lemmas, ctis, simulation, result>>

(* InductionFrame::extend: the states simulated from ctis, as many as the  *)
(* simulation finds (simulate_from, of depth 1) ...                        *)
Simulate ==
  /\ pc = "extend" /\ ctis # {}
  /\ samples' \in SUBSET Post(ctis)
  /\ new_ctis' = {}
  /\ pc' = "samples"
  /\ UNCHANGED <<module, weaken_lemmas, lemmas, maps, ctis, safety_core, cycle, result>>

(* ... weaken the lemmas, one after the other ...                          *)
WeakenSample ==
  /\ pc = "samples"
  /\ \E s \in samples :
       /\ s \notin All(Weakened)
       /\ weaken_lemmas' = WeakenBy(s)
       /\ new_ctis' = new_ctis \cup {s}
       /\ samples' = samples \ {s}
  /\ UNCHANGED <<module, lemmas, maps, ctis, safety_core, pc, cycle, result>>

(* ... and those that do are simulated from next ...                       *)
NextSamples ==
  /\ pc = "samples" /\ samples \subseteq All(Weakened)
  /\ ctis' = new_ctis
  /\ samples' = {} /\ new_ctis' = {}
  /\ pc' = "extend"
  /\ UNCHANGED <<module, weaken_lemmas, lemmas, maps, safety_core, cycle, result>>

(* ... until there are none.                                               *)
Extended ==
  /\ pc = "extend" /\ ctis = {}
  /\ Update(weaken_lemmas)
  /\ pc' = "check"
  /\ UNCHANGED <<module, weaken_lemmas, ctis, cycle, simulation, result>>

(* is_safe, which remembers the core of an earlier success.  The states    *)
(* before a transition are assumed to be safe.                             *)
SafetyCores == {core \in SUBSET lemmas : Post(All(core) \cap Safe) \subseteq Safe}

IsSafe(safe) ==
  \/ safe /\ safety_core # None /\ UNCHANGED safety_core
  \/ safe /\ safety_core = None /\ safety_core' \in Returned(SafetyCores)
  \/ ~safe /\ safety_core = None /\ SafetyCores = {} /\ UNCHANGED safety_core

SafetyUnknown ==
  /\ pc \in {"check", "final"} /\ (pc = "check" => Abort)
  /\ safety_core = None
  /\ "Unknown" \in Answering
  /\ pc' = "panic"
  /\ UNCHANGED <<module, weaken_lemmas, lemmas, maps, ctis, safety_core, cycle, simulation, result>>

(* The next cycle has no jobs for lemmas that others in the frame subsume. *)
Check ==
  /\ pc = "check"
  /\ \/ /\ IF Abort THEN IsSafe(TRUE) ELSE UNCHANGED safety_core
        /\ pc' = "trans"
        /\ StartCycle({j \in JobsOf(weaken_lemmas) : j[2] \in lemmas})
     \/ /\ Abort /\ IsSafe(FALSE)
        /\ pc' = "done"
        /\ UNCHANGED cycle
  /\ UNCHANGED <<module, weaken_lemmas, lemmas, maps, ctis, simulation, result>>

(* trans_cycle.                                                            *)
TransCex ==
  /\ pc = "trans" /\ CycleEnds
  /\ \E s \in found :
       /\ weaken_lemmas' = WeakenBy(s)
       /\ ctis' = IF Extend THEN ctis \cup {s} ELSE ctis
       /\ Update(WeakenBy(s))
  /\ pc' = AfterUpdate
  /\ StartCycle({})
  /\ UNCHANGED <<module, simulation, result>>

(* A mutation: an unknown answer is overlooked.                            *)
TransDoneUnknown ==
  /\ pc = "trans" /\ CycleEnds /\ found = {}
  /\ pc' = "final"
  /\ StartCycle({})
  /\ UNCHANGED <<module, weaken_lemmas, lemmas, maps, ctis, safety_core, simulation, result>>

(* Without a counterexample every query must have been answered.           *)
TransDone ==
  /\ pc = "trans" /\ CycleEnds /\ found = {}
  /\ pc' = IF unknown THEN "panic" ELSE "final"
  /\ StartCycle({})
  /\ UNCHANGED <<module, weaken_lemmas, lemmas, maps, ctis, safety_core, simulation, result>>

(* minimized_proof: the cores of the safety core, of these, and so on;     *)
(* entry is the one that blocked.get_id finds.                             *)
Entries ==
  {e \in [{b[2] : b \in blocked} -> blocked] : \A l \in DOMAIN e : e[l][2] = l}

Closed(ls, entry) == \A l \in ls \cap DOMAIN entry : blocked_to_core[entry[l]] \subseteq ls

MinimizedProof(core, entry) ==
  {l \in lemmas : \A ls \in SUBSET lemmas : core \subseteq ls /\ Closed(ls, entry) => l \in ls}

Final ==
  /\ pc = "final"
  /\ \E safe \in BOOLEAN, entry \in Entries :
       /\ IsSafe(safe)
       /\ LET minimized == MinimizedProof(safety_core', entry) IN
          IF safety_core' # None /\ ~(minimized \subseteq DOMAIN entry)
          THEN pc' = "unblocked" /\ UNCHANGED result
          ELSE /\ pc' = "done"
               /\ result' = [proof |-> lemmas, safe |-> safe,
                             minimized |-> IF safety_core' = None THEN None ELSE minimized]
  /\ UNCHANGED <<module, weaken_lemmas, lemmas, maps, ctis, cycle, simulation>>

Next ==
  \/ \E j \in Jobs : StartJob(j) \/ AnswerInit(j) \/ AnswerTrans(j)
  \/ InitCex \/ InitDone
  \/ Simulate \/ WeakenSample \/ NextSamples \/ Extended
  \/ Check \/ SafetyUnknown
  \/ TransCex \/ TransDone \/ Final

(* The program runs and its queries are answered: the last solver of every *)
(* strategy has no timeout, and no answer is taken for granted otherwise.  *)
Spec == Init /\ [][Next]_vars /\ WF_vars(Next)

----------------------------------------------------------------------------
MapsInverse ==
  /\ DOMAIN blocked_to_core = blocked /\ \A b \in blocked : blocked_to_core[b] \subseteq lemmas
  /\ \A l \in lemmas : (IF l \in DOMAIN core_to_blocked THEN core_to_blocked[l] ELSE {})
                         = {b \in blocked : l \in blocked_to_core[b]}
  /\ \A l \in DOMAIN core_to_blocked : l \in lemmas /\ core_to_blocked[l] # {}

(* What is blocked is implied by its core after every transition (doc of   *)
(* `blocked`), although before it was only implied by the initial states;  *)
(* and the two maps are inverse to each other and speak of lemmas of the   *)
(* frame only, which is what the unwrap()s of remove_lemma rely on.        *)
BlockedJustified ==
  /\ MapsInverse
  /\ pc # "init" => \A b \in blocked : Post(All(blocked_to_core[b])) \subseteq Holds[b[2]]

Inductive(ls) == inits \subseteq All(ls) /\ Post(All(ls)) \subseteq All(ls)

Finished == pc = "done" /\ result.proof # None

(* The fixpoint holds initially and is inductive.                          *)
FixpointInductive == Finished => Inductive(result.proof)

(* It is the least that the lemmas can express: it implies every inductive *)
(* set of lemmas, however the counterexamples were chosen.                 *)
FixpointLeast ==
  Finished => \A ls \in SUBSET UNION {Members[d] : d \in Domains} :
    Inductive(ls) => All(result.proof) \subseteq All(ls)

(* minimized_proof finds every lemma it looks up blocked, and what it      *)
(* returns is inductive by itself and keeps safe states safe.              *)
MinimizedProves ==
  /\ pc # "unblocked"
  /\ Finished /\ result.safe =>
       /\ Inductive(result.minimized)
       /\ Post(All(result.minimized) \cap Safe) \subseteq Safe

(* The inference ends.                                                     *)
Terminates == <>(pc \in {"done", "panic", "unblocked"})
=============================================================================
