----------------------------- MODULE Assertions -----------------------------
(***************************************************************************)
(* Checking the assertions of a module, in their order: verify_module      *)
(* (verify/src/module.rs, with InvariantAssertion of verify/src/safety.rs) *)
(* checks that the invariants given with each are inductive, and           *)
(* infer_module (inference/src/houdini.rs) infers which of them are.       *)
(*                                                                         *)
(* A term is the set of the states in which it holds; a proof is the       *)
(* sequence of its candidate invariants, the asserted property first.      *)
(***************************************************************************)
EXTENDS Naturals, Sequences, FiniteSetsExt

CONSTANTS
  States,      \* structures of the module's signature, whether or not the axioms hold
  Inits,       \* the terms that may be `inits`
  Axioms,      \* ... the axioms
  Steps,       \* the transitions considered
  MaxSteps,    \* the bound on those of one module
  Proofs,      \* the proofs considered
  NumProofs,   \* the assertions of a module
  Modes,       \* which of "verify" and "infer" is run
  Answering    \* what a solver may answer besides the truth: {} or {"Unknown"}

ASSUME AssertionsAssumption ==
  /\ Inits \subseteq SUBSET States /\ Axioms \subseteq SUBSET States
  /\ Steps \subseteq States \X States /\ MaxSteps \in Nat
  /\ Proofs \subseteq Seq(SUBSET States) \ {<<>>} /\ NumProofs \in Nat
  /\ Modes \subseteq {"verify", "infer"}
  /\ Answering \subseteq {"Unknown"}

VARIABLES
  init, next, axioms, proofs, mode,   (* the module, and the command            *)
  current,       (* the proof that is being checked                            *)
  assumed,       (* `axioms` of the loop: the states they leave                *)
  invs,          (* Houdini::invs, as indices into the proof                   *)
  not_implied,   (* the candidates to prune                                    *)
  todo, asking,  (* the checks of a Houdini iteration: not begun, and running  *)
  unknown,       (* whether one of them got no answer                          *)
  errors,        (* the proofs for which a failure is reported                 *)
  inferred,      (* the invariants inferred, of each proof                     *)
  pc

module == <<init, next, axioms, proofs, mode>>
houdini == <<invs, not_implied, todo, asking, unknown>>
vars == <<module, current, assumed, houdini, errors, inferred, pc>>

Init ==
  /\ init \in Inits /\ axioms \in Axioms
  /\ next \in UNION {kSubset(k, Steps) : k \in 0 .. MaxSteps}
  /\ proofs \in [1 .. NumProofs -> Proofs]
  /\ mode \in Modes
  /\ current = 1 /\ assumed = axioms
  /\ invs = {} /\ not_implied = {} /\ todo = {} /\ asking = {} /\ unknown = FALSE
  /\ errors = {}
  /\ inferred = [i \in 1 .. NumProofs |-> {}]
  /\ pc = "assert"

Inv(i) == proofs[current][i]
Candidates == IF current <= NumProofs THEN DOMAIN proofs[current] ELSE {}
All(is) == {s \in States : \A i \in is : s \in Inv(i)}

(* The steps of states in S to states in R.                                *)
StepsIn(S, R) == {t \in next : t[1] \in S /\ t[2] \in R}

----------------------------------------------------------------------------
(* The loop over the proofs                                                *)

(* A mutation: an assertion is assumed in its own proof.                   *)
BeginAssuming ==
  /\ pc = "assert" /\ current <= NumProofs
  /\ pc' = mode
  /\ invs' = IF mode = "infer" THEN Candidates ELSE {}
  /\ assumed' = assumed \cap Inv(1)
  /\ not_implied' = {} /\ todo' = {} /\ asking' = {} /\ unknown' = FALSE
  /\ UNCHANGED <<module, current, errors, inferred>>

Begin ==
  /\ pc = "assert" /\ current <= NumProofs
  /\ pc' = mode
  /\ invs' = IF mode = "infer" THEN Candidates ELSE {}
  /\ not_implied' = {} /\ todo' = {} /\ asking' = {} /\ unknown' = FALSE
  /\ UNCHANGED <<module, current, assumed, errors, inferred>>

(* Whatever came of it, the assertion is assumed from now on.              *)
Finish(failed) ==
  /\ errors' = IF failed THEN errors \cup {current} ELSE errors
  /\ assumed' = assumed \cap Inv(1)
  /\ current' = current + 1
  /\ pc' = "assert"

Done ==
  /\ pc = "assert" /\ current > NumProofs
  /\ pc' = "done"
  /\ UNCHANGED <<module, current, assumed, houdini, errors, inferred>>

----------------------------------------------------------------------------
(* verify_module: initiation and the consecutions.                         *)

Initiation(i) == init \cap assumed \subseteq Inv(i)

(* What is assumed holds on both sides, the invariants before the step.    *)
Consecution(i) ==
  \A t \in StepsIn(assumed \cap All(Candidates), assumed) : t[2] \in Inv(i)

Verified == \A i \in Candidates : Initiation(i) /\ Consecution(i)

(* One query for the initiation and one for each consecution; none changes *)
(* what another asks.                                                      *)
CheckInvariant ==
  /\ pc = "verify"
  /\ \E failed \in {~Verified} \cup IF Answering = {} THEN {} ELSE {TRUE} : Finish(failed)
  /\ UNCHANGED <<module, houdini, inferred>>

----------------------------------------------------------------------------
(* infer_module: Houdini.  It asserts neither axioms nor what is assumed.  *)

InferFails ==
  /\ Finish(TRUE)
  /\ UNCHANGED <<module, houdini, inferred>>

(* initiation_filter: a model that refutes one candidate prunes all those  *)
(* that it refutes.  Terms that are equal are pruned together.             *)
InitiationModel ==
  /\ pc = "infer"
  /\ \E i \in invs \ not_implied, s \in init :
       /\ s \notin Inv(i)
       /\ not_implied' = not_implied \cup {j \in invs : s \notin Inv(j)}
  /\ UNCHANGED <<module, current, assumed, invs, todo, asking, unknown, errors, inferred, pc>>

InitiationUnknown == pc = "infer" /\ invs \ not_implied # {} /\ Answering # {} /\ InferFails

(* An iteration checks every candidate that is left.                       *)
Iterate(left) ==
  /\ pc' = "iterate"
  /\ invs' = left /\ todo' = left
  /\ not_implied' = {} /\ asking' = {} /\ unknown' = FALSE
  /\ UNCHANGED <<module, current, assumed, errors, inferred>>

InitiationDone ==
  /\ pc = "infer"
  /\ \A i \in invs \ not_implied : init \subseteq Inv(i)
  /\ Iterate(invs \ not_implied)

(* A check begins, unless another one has pruned its candidate.            *)
StartCheck(i) ==
  /\ pc = "iterate" /\ i \in todo
  /\ todo' = todo \ {i}
  /\ asking' = IF i \in not_implied THEN asking ELSE asking \cup {i}
  /\ UNCHANGED <<module, current, assumed, invs, not_implied, unknown, errors, inferred, pc>>

(* A mutation: the candidate is its only hypothesis.                       *)
RefutationsAlone(i) == {t \in StepsIn(Inv(i), States) : t[2] \notin Inv(i)}

(* The models of the query for a candidate.                                *)
Refutations(i) == {t \in StepsIn(All(invs), States) : t[2] \notin Inv(i)}

(* A mutation: an unknown answer counts as none.                           *)
AnswerCheckAnyway(i) ==
  /\ pc = "iterate" /\ i \in asking
  /\ asking' = asking \ {i}
  /\ \/ \E t \in Refutations(i) :
          not_implied' = not_implied \cup {j \in invs : t[2] \notin Inv(j)}
     \/ (Refutations(i) = {} \/ Answering # {}) /\ UNCHANGED not_implied
  /\ UNCHANGED <<module, current, assumed, invs, todo, unknown, errors, inferred, pc>>

AnswerCheck(i) ==
  /\ pc = "iterate" /\ i \in asking
  /\ asking' = asking \ {i}
  /\ \/ \E t \in Refutations(i) :
          /\ not_implied' = not_implied \cup {j \in invs : t[2] \notin Inv(j)}
          /\ UNCHANGED unknown
     \/ Refutations(i) = {} /\ UNCHANGED <<not_implied, unknown>>
     \/ Answering # {} /\ unknown' = TRUE /\ UNCHANGED not_implied
  /\ UNCHANGED <<module, current, assumed, invs, todo, errors, inferred, pc>>

Checked == pc = "iterate" /\ todo = {} /\ asking = {}

IterationUnknown == Checked /\ unknown /\ InferFails

Prune == Checked /\ ~unknown /\ not_implied # {} /\ Iterate(invs \ not_implied)

(* The fixed point: the assertion must be in it.                           *)
Inferred ==
  /\ Checked /\ ~unknown /\ not_implied = {}
  /\ Finish(1 \notin invs)
  /\ inferred' = IF 1 \in invs THEN [inferred EXCEPT ![current] = invs] ELSE inferred
  /\ UNCHANGED <<module, houdini>>

Next ==
  \/ Begin \/ Done \/ CheckInvariant
  \/ InitiationModel \/ InitiationUnknown \/ InitiationDone
  \/ \E i \in Candidates : StartCheck(i) \/ AnswerCheck(i)
  \/ IterationUnknown \/ Prune \/ Inferred

(* The program runs and its queries are answered.                          *)
Spec == Init /\ [][Next]_vars

----------------------------------------------------------------------------
Post(S) == {t[2] : t \in StepsIn(S, States)}

(* The states a run of the module can reach: the axioms hold throughout.   *)
Reachable ==
  CHOOSE S \in SUBSET axioms :
    LET Closed(U) == init \cap axioms \subseteq U /\ Post(U) \cap axioms \subseteq U
    IN  Closed(S) /\ \A U \in SUBSET axioms : Closed(U) => S \subseteq U

(* When no failure is reported, every assertion holds in every reachable   *)
(* state, although each is checked on the assumption that those before it  *)
(* hold, whether or not they were found to.  An assertion that Houdini     *)
(* proves holds whatever became of the others.                             *)
OkMeansSafe ==
  pc = "done" => \A i \in 1 .. NumProofs :
    errors = {} \/ (mode = "infer" /\ i \notin errors) => Reachable \subseteq proofs[i][1]

Inductive(S) == init \subseteq S /\ Post(S) \subseteq S

(* What Houdini infers is inductive and contains the assertion (doc of     *)
(* infer), although its checks run in parallel and skip what others have   *)
(* pruned.                                                                 *)
InferredInductive ==
  \A i \in 1 .. NumProofs : inferred[i] # {} =>
    /\ 1 \in inferred[i]
    /\ Inductive({s \in States : \A j \in inferred[i] : s \in proofs[i][j]})

(* It is the largest such set: no order of the checks and no choice of     *)
(* models prunes a candidate that belongs to an inductive set of them.     *)
PrunesNoInvariant ==
  pc \in {"infer", "iterate"} =>
    \A is \in SUBSET Candidates : Inductive(All(is)) => is \subseteq invs \ not_implied
=============================================================================
