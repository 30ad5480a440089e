-------------------------- MODULE AssertionsProofs --------------------------
(***************************************************************************)
(* What a report without failures, and what Houdini infers, mean for any   *)
(* module, any proofs and any schedule of the checks.                      *)
(***************************************************************************)
EXTENDS Assertions, TLAPS

TypeOK ==
  /\ init \in SUBSET States /\ axioms \in SUBSET States /\ next \in SUBSET (States \X States)
  /\ proofs \in [1 .. NumProofs -> Seq(SUBSET States) \ {<<>>}]
  /\ mode \in {"verify", "infer"}
  /\ pc \in {"assert", "verify", "infer", "iterate", "done"}
  /\ current \in 1 .. NumProofs + 1
  /\ assumed \in SUBSET axioms
  /\ errors \in SUBSET (1 .. current - 1)
  /\ inferred \in [1 .. NumProofs -> SUBSET Nat]

(* Where the program is within the proof that is being checked.            *)
InProof ==
  /\ pc \in {"verify", "infer", "iterate"} => current <= NumProofs
  /\ pc = "verify" => mode = "verify"
  /\ pc = "done" => current = NumProofs + 1
  /\ pc \in {"infer", "iterate"} => invs \in SUBSET Candidates /\ todo \cup asking \in SUBSET invs

(* The candidates left hold initially; those whose check has ended in this *)
(* iteration without a model are preserved by every step.                  *)
Passed ==
  pc = "iterate" =>
    /\ init \subseteq All(invs)
    /\ unknown \/ \A i \in invs \ (todo \cup asking \cup not_implied) : Refutations(i) = {}

(* What is assumed and what was found, for the proofs so far.              *)
AssumedReachable == errors = {} => Reachable \subseteq assumed
Proved ==
  \A i \in 1 .. current - 1 :
    errors = {} \/ (mode = "infer" /\ i \notin errors) => Reachable \subseteq proofs[i][1]

(* The inductive invariant.                                                *)
IInv ==
  /\ TypeOK
  /\ InProof
  /\ Passed
  /\ InferredInductive
  /\ PrunesNoInvariant
  /\ AssumedReachable
  /\ Proved

----------------------------------------------------------------------------
(* The sets that contain the initial states and every step that leaves     *)
(* them, as far as the axioms hold; the reachable states are the least.    *)
Closed(U) == init \cap axioms \subseteq U /\ Post(U) \cap axioms \subseteq U

LEMMA ReachableLeast ==
  ASSUME TypeOK
  PROVE  /\ Reachable \in SUBSET axioms
         /\ Closed(Reachable)
         /\ \A U \in SUBSET axioms : Closed(U) => Reachable \subseteq U
<1> DEFINE Least(S) == Closed(S) /\ \A U \in SUBSET axioms : Closed(U) => S \subseteq U
           W == {s \in axioms : \A U \in SUBSET axioms : Closed(U) => s \in U}
<1>1. Post(W) \cap axioms \subseteq W
  <2> SUFFICES ASSUME NEW t \in next, t[1] \in W, t[2] \in axioms,
                      NEW U \in SUBSET axioms, Closed(U)
               PROVE  t[2] \in U
    BY DEF Post, StepsIn
  <2>1. t[1] \in U /\ t[2] \in States
    BY DEF TypeOK
  <2> QED BY <2>1 DEF Closed, Post, StepsIn
<1>2. W \in SUBSET axioms /\ Least(W)
  BY <1>1 DEF Closed
<1>3. Reachable = CHOOSE S \in SUBSET axioms : Least(S)
  BY DEF Reachable, Closed
<1> HIDE DEF W, Least
<1>4. Reachable \in SUBSET axioms /\ Least(Reachable)
  BY <1>2, <1>3
<1> QED BY <1>4 DEF Least

LEMMA SameReachable ==
  ASSUME UNCHANGED module
  PROVE  Reachable' = Reachable
BY DEF module, Reachable, Post, StepsIn

(* The reachable states are in every set that is closed among them.        *)
LEMMA ReachableWithin ==
  ASSUME TypeOK, NEW S,
         init \cap axioms \subseteq S,
         \A t \in next : t[1] \in Reachable \cap S /\ t[2] \in Reachable => t[2] \in S
  PROVE  Reachable \subseteq S
<1> DEFINE U == Reachable \cap S
<1>1. Closed(Reachable) /\ Reachable \in SUBSET axioms
  BY ReachableLeast
<1>2. Post(U) \cap axioms \subseteq U
  <2> SUFFICES ASSUME NEW t \in next, t[1] \in U, t[2] \in axioms
               PROVE  t[2] \in U
    BY DEF Post, StepsIn
  <2>1. t[2] \in Reachable
    BY <1>1 DEF Closed, Post, StepsIn, TypeOK
  <2> QED BY <2>1
<1>3. Closed(U) /\ U \in SUBSET axioms
  BY <1>1, <1>2 DEF Closed
<1> HIDE DEF U
<1>4. Reachable \subseteq U
  BY <1>3, ReachableLeast
<1> QED BY <1>4 DEF U

----------------------------------------------------------------------------
LEMMA InitInv == Init => IInv
<1> SUFFICES ASSUME Init PROVE IInv
  OBVIOUS
<1> USE AssertionsAssumption
<1>1. TypeOK
  <2>1. next \in SUBSET (States \X States)
    BY DEF Init, kSubset
  <2> QED BY <2>1 DEF Init, TypeOK
<1>2. AssumedReachable
  BY <1>1, ReachableLeast DEF Init, AssumedReachable
<1> QED
  BY <1>1, <1>2 DEF Init, IInv, InProof, Passed, InferredInductive, PrunesNoInvariant, Proved

(* The candidates of the current proof.                                    *)
LEMMA CandidatesOK ==
  ASSUME TypeOK, current <= NumProofs
  PROVE  /\ current \in 1 .. NumProofs /\ current \notin errors
         /\ Candidates = DOMAIN proofs[current] /\ Candidates \subseteq Nat
         /\ 1 \in Candidates
         /\ \A i \in Candidates : Inv(i) \in SUBSET States
<1> USE AssertionsAssumption
<1>1. current \in 1 .. NumProofs /\ current \notin errors
  BY DEF TypeOK
<1>2. proofs[current] \in Seq(SUBSET States) /\ proofs[current] # <<>>
  BY <1>1 DEF TypeOK
<1> QED BY <1>1, <1>2 DEF Candidates, Inv

(* A check of one proof ends, with a failure or with the reachable states  *)
(* found to satisfy the assertion.                                         *)
LEMMA FinishInv ==
  ASSUME IInv, current <= NumProofs, UNCHANGED module,
         NEW failed \in BOOLEAN, Finish(failed),
         ~failed /\ (errors = {} \/ mode = "infer") => Reachable \subseteq Inv(1)
  PROVE  /\ InProof' /\ Passed' /\ PrunesNoInvariant'
         /\ AssumedReachable' /\ Proved'
         /\ inferred' \in [1 .. NumProofs -> SUBSET Nat] => TypeOK'
<1> USE AssertionsAssumption
<1>1. TypeOK /\ AssumedReachable /\ Proved
  BY DEF IInv
<1>2. /\ current \in 1 .. NumProofs /\ current \notin errors
      /\ current' = current + 1 /\ assumed' = assumed \cap Inv(1) /\ pc' = "assert"
      /\ errors' = IF failed THEN errors \cup {current} ELSE errors
  BY <1>1, CandidatesOK DEF Finish
<1>3. Reachable' = Reachable /\ proofs' = proofs /\ mode' = mode
  BY SameReachable DEF module
<1>4. AssumedReachable'
  BY <1>1, <1>2, <1>3 DEF AssumedReachable
<1>5. Proved'
  <2> SUFFICES ASSUME NEW i \in 1 .. current, errors' = {} \/ (mode = "infer" /\ i \notin errors')
               PROVE  Reachable \subseteq proofs[i][1]
    BY <1>1, <1>2, <1>3 DEF Proved, TypeOK
  <2>1. CASE i = current
    BY <1>2, <2>1 DEF Inv
  <2>2. CASE i # current
    BY <1>1, <1>2, <2>2 DEF Proved, TypeOK
  <2> QED BY <2>1, <2>2
<1>6. inferred' \in [1 .. NumProofs -> SUBSET Nat] => TypeOK'
  BY <1>1, <1>2 DEF TypeOK, module
<1> QED BY <1>2, <1>4, <1>5, <1>6 DEF InProof, Passed, PrunesNoInvariant

LEMMA SameInferred ==
  ASSUME InferredInductive, UNCHANGED <<module, inferred>>
  PROVE  InferredInductive'
BY DEF InferredInductive, Inductive, Post, StepsIn, module

(* What the steps within a proof leave alone.                              *)
LEMMA SameProof ==
  ASSUME IInv, UNCHANGED <<module, current, assumed, errors, inferred>>,
         pc' \in {"assert", "verify", "infer", "iterate", "done"}
  PROVE  TypeOK' /\ InferredInductive' /\ AssumedReachable' /\ Proved'
<1>1. TypeOK /\ InferredInductive /\ AssumedReachable /\ Proved
  BY DEF IInv
<1>2. Reachable' = Reachable
  BY SameReachable
<1>3. TypeOK'
  BY <1>1 DEF TypeOK, module
<1>4. InferredInductive'
  BY <1>1, SameInferred
<1>5. AssumedReachable' /\ Proved'
  BY <1>1, <1>2 DEF AssumedReachable, Proved, module
<1> QED BY <1>3, <1>4, <1>5

----------------------------------------------------------------------------
LEMMA BeginInv == ASSUME IInv, Begin PROVE IInv'
<1>1. /\ UNCHANGED <<module, current, assumed, errors, inferred>>
      /\ current <= NumProofs /\ mode \in {"verify", "infer"} /\ pc' = mode
      /\ invs' = (IF mode = "infer" THEN Candidates ELSE {})
      /\ not_implied' = {} /\ todo' = {} /\ asking' = {}
  BY DEF Begin, IInv, TypeOK
<1>2. TypeOK' /\ InferredInductive' /\ AssumedReachable' /\ Proved'
  BY <1>1, SameProof
<1>3. Candidates' = Candidates
  BY <1>1 DEF Candidates, module
<1>4. InProof' /\ Passed'
  BY <1>1, <1>3 DEF InProof, Passed, module
<1>5. PrunesNoInvariant'
  BY <1>1, <1>3 DEF PrunesNoInvariant
<1> QED BY <1>2, <1>4, <1>5 DEF IInv

LEMMA DoneInv == ASSUME IInv, Done PROVE IInv'
<1>1. /\ UNCHANGED <<module, current, assumed, errors, inferred>>
      /\ pc' = "done" /\ current > NumProofs /\ current \in 1 .. NumProofs + 1
  BY DEF Done, IInv, TypeOK
<1>2. TypeOK' /\ InferredInductive' /\ AssumedReachable' /\ Proved'
  BY <1>1, SameProof
<1>3. InProof' /\ Passed' /\ PrunesNoInvariant'
  BY <1>1, AssertionsAssumption DEF InProof, Passed, PrunesNoInvariant
<1> QED BY <1>2, <1>3 DEF IInv

(* verify_module: initiation and consecution relative to what is assumed.  *)
LEMMA CheckInvariantInv == ASSUME IInv, CheckInvariant PROVE IInv'
<1>1. /\ TypeOK /\ InProof /\ AssumedReachable /\ InferredInductive
      /\ pc = "verify" /\ UNCHANGED <<module, inferred>>
  BY DEF CheckInvariant, IInv
<1>2. PICK failed \in BOOLEAN : Finish(failed) /\ (~failed => Verified)
  BY DEF CheckInvariant
<1>3. current <= NumProofs /\ mode = "verify"
  BY <1>1 DEF InProof
<1>4. ASSUME Verified, errors = {}
      PROVE  Reachable \subseteq Inv(1)
  <2> DEFINE S == All(Candidates)
  <2>1. Reachable \subseteq assumed /\ Reachable \in SUBSET axioms /\ Closed(Reachable)
    BY <1>1, <1>4, ReachableLeast DEF AssumedReachable
  <2>2. init \cap axioms \subseteq S
    BY <1>1, <1>4, <2>1 DEF Verified, Initiation, All, Closed, TypeOK
  <2>3. ASSUME NEW t \in next, t[1] \in Reachable \cap S, t[2] \in Reachable
        PROVE  t[2] \in S
    <3>1. t \in StepsIn(assumed \cap All(Candidates), assumed)
      BY <2>1, <2>3 DEF StepsIn
    <3> QED BY <1>1, <1>4, <2>1, <2>3, <3>1 DEF Verified, Consecution, All, TypeOK
  <2> HIDE DEF S
  <2>4. Reachable \subseteq S
    BY <1>1, <2>2, <2>3, ReachableWithin
  <2> QED BY <1>1, <1>3, <2>4, CandidatesOK DEF S, All
<1>5. /\ InProof' /\ Passed' /\ PrunesNoInvariant'
      /\ AssumedReachable' /\ Proved'
      /\ inferred' \in [1 .. NumProofs -> SUBSET Nat] => TypeOK'
  BY <1>1, <1>2, <1>3, <1>4, FinishInv
<1>6. InferredInductive' /\ TypeOK'
  BY <1>1, <1>5, SameInferred DEF TypeOK
<1> QED BY <1>5, <1>6 DEF IInv

----------------------------------------------------------------------------
(* Houdini.  The current proof and what it may prune.                      *)
LEMMA SameCandidates ==
  ASSUME UNCHANGED <<module, current>>
  PROVE  /\ Candidates' = Candidates
         /\ \A i : Inv(i)' = Inv(i)
         /\ \A is : All(is)' = All(is) /\ (Inductive(All(is)))' = Inductive(All(is))
BY DEF module, Candidates, Inv, All, Inductive, Post, StepsIn

LEMMA InferFailsInv ==
  ASSUME IInv, InferFails, pc \in {"infer", "iterate"}
  PROVE  IInv'
<1>1. Finish(TRUE) /\ UNCHANGED <<module, inferred>>
  BY DEF InferFails
<1>2. TypeOK /\ current <= NumProofs /\ InferredInductive
  BY DEF IInv, InProof
<1>3. /\ InProof' /\ Passed' /\ PrunesNoInvariant'
      /\ AssumedReachable' /\ Proved'
      /\ inferred' \in [1 .. NumProofs -> SUBSET Nat] => TypeOK'
  BY <1>1, <1>2, FinishInv
<1>4. InferredInductive' /\ TypeOK'
  BY <1>1, <1>2, <1>3, SameInferred DEF TypeOK
<1> QED BY <1>3, <1>4 DEF IInv

LEMMA InitiationModelInv == ASSUME IInv, InitiationModel PROVE IInv'
<1>1. /\ UNCHANGED <<module, current, assumed, errors, inferred, pc, invs, todo, asking>>
      /\ pc = "infer" /\ InProof /\ PrunesNoInvariant /\ TypeOK
  BY DEF InitiationModel, IInv
<1>2. PICK s \in init : not_implied' = not_implied \cup {j \in invs : s \notin Inv(j)}
  BY DEF InitiationModel
<1>3. TypeOK' /\ InferredInductive' /\ AssumedReachable' /\ Proved'
  BY <1>1, SameProof
<1>4. InProof' /\ Passed'
  BY <1>1, SameCandidates DEF InProof, Passed, module
<1>5. PrunesNoInvariant'
  <2> SUFFICES ASSUME NEW is \in SUBSET Candidates, Inductive(All(is)),
                      NEW i \in is
               PROVE  i \in invs \ not_implied'
    BY <1>1, SameCandidates DEF PrunesNoInvariant
  <2>1. i \in invs \ not_implied
    BY <1>1 DEF PrunesNoInvariant
  <2>2. s \in Inv(i)
    BY DEF Inductive, All
  <2> QED BY <1>2, <2>1, <2>2
<1> QED BY <1>3, <1>4, <1>5 DEF IInv

(* A new iteration, of candidates that all hold initially.                 *)
LEMMA IterateInv ==
  ASSUME IInv, pc \in {"infer", "iterate"}, Iterate(invs \ not_implied),
         init \subseteq All(invs \ not_implied)
  PROVE  IInv'
<1>1. /\ UNCHANGED <<module, current, assumed, errors, inferred>>
      /\ InProof /\ PrunesNoInvariant /\ pc' = "iterate"
      /\ invs' = invs \ not_implied /\ todo' = invs' /\ not_implied' = {} /\ asking' = {}
  BY DEF Iterate, IInv
<1>2. TypeOK' /\ InferredInductive' /\ AssumedReachable' /\ Proved'
  BY <1>1, SameProof
<1>3. InProof' /\ Passed'
  BY <1>1, SameCandidates DEF InProof, Passed, module
<1>4. PrunesNoInvariant'
  BY <1>1, SameCandidates DEF PrunesNoInvariant
<1> QED BY <1>2, <1>3, <1>4 DEF IInv

LEMMA InitiationDoneInv == ASSUME IInv, InitiationDone PROVE IInv'
<1>1. /\ pc = "infer" /\ Iterate(invs \ not_implied) /\ TypeOK
      /\ \A i \in invs \ not_implied : init \subseteq Inv(i)
  BY DEF InitiationDone, IInv
<1>2. init \subseteq All(invs \ not_implied)
  BY <1>1 DEF All, TypeOK
<1> QED BY <1>1, <1>2, IterateInv

LEMMA PruneInv == ASSUME IInv, Prune PROVE IInv'
<1>1. pc = "iterate" /\ Iterate(invs \ not_implied) /\ Passed
  BY DEF Prune, Checked, IInv
<1>2. init \subseteq All(invs \ not_implied)
  BY <1>1 DEF Passed, All
<1> QED BY <1>1, <1>2, IterateInv

LEMMA StartCheckInv == ASSUME IInv, NEW i \in Candidates, StartCheck(i) PROVE IInv'
<1>1. /\ UNCHANGED <<module, current, assumed, errors, inferred, pc, invs, not_implied, unknown>>
      /\ pc = "iterate" /\ InProof /\ PrunesNoInvariant /\ Passed /\ TypeOK
      /\ todo' = todo \ {i}
      /\ asking' = IF i \in not_implied THEN asking ELSE asking \cup {i}
  BY DEF StartCheck, IInv
<1>2. TypeOK' /\ InferredInductive' /\ AssumedReachable' /\ Proved'
  BY <1>1, SameProof
<1>3. PrunesNoInvariant'
  BY <1>1, SameCandidates DEF PrunesNoInvariant
<1>4. i \in invs /\ InProof'
  <2>1. i \in invs
    BY <1>1 DEF StartCheck, InProof
  <2> QED BY <1>1, <2>1, SameCandidates DEF InProof, module
<1>5. Passed'
  <2>1. \A j : Refutations(j)' = Refutations(j)
    BY <1>1, SameCandidates DEF Refutations, StepsIn, module
  <2> QED BY <1>1, <2>1, SameCandidates DEF Passed, module
<1> QED BY <1>2, <1>3, <1>4, <1>5 DEF IInv

(* A model of a check prunes the candidate checked, at least.              *)
LEMMA AnswerCheckInv == ASSUME IInv, NEW i \in Candidates, AnswerCheck(i) PROVE IInv'
<1>1. /\ UNCHANGED <<module, current, assumed, errors, inferred, pc, invs, todo>>
      /\ pc = "iterate" /\ InProof /\ PrunesNoInvariant /\ Passed /\ TypeOK
      /\ asking' = asking \ {i} /\ i \in invs
  BY DEF AnswerCheck, IInv, InProof
<1>2. \/ \E t \in Refutations(i) :
            /\ not_implied' = not_implied \cup {j \in invs : t[2] \notin Inv(j)}
            /\ UNCHANGED unknown
      \/ Refutations(i) = {} /\ UNCHANGED <<not_implied, unknown>>
      \/ unknown' = TRUE /\ UNCHANGED not_implied
  BY DEF AnswerCheck
<1>3. TypeOK' /\ InferredInductive' /\ AssumedReachable' /\ Proved'
  BY <1>1, SameProof
<1>4. InProof'
  BY <1>1, SameCandidates DEF InProof, module
<1>5. Passed'
  <2>1. \A j : Refutations(j)' = Refutations(j)
    BY <1>1, SameCandidates DEF Refutations, StepsIn, module
  <2>2. init' \subseteq All(invs)'
    BY <1>1, SameCandidates DEF Passed, module
  <2>3. ASSUME NEW t \in Refutations(i),
               not_implied' = not_implied \cup {j \in invs : t[2] \notin Inv(j)}, UNCHANGED unknown
        PROVE  unknown' \/ \A j \in invs' \ (todo' \cup asking' \cup not_implied') : Refutations(j)' = {}
    <3>1. i \in not_implied'
      BY <1>1, <2>3 DEF Refutations
    <3> QED BY <1>1, <2>1, <2>3, <3>1 DEF Passed
  <2>4. CASE Refutations(i) = {} /\ UNCHANGED <<not_implied, unknown>>
    BY <1>1, <2>1, <2>2, <2>4 DEF Passed
  <2>5. CASE unknown' = TRUE
    BY <2>2, <2>5 DEF Passed
  <2> QED BY <1>1, <1>2, <2>2, <2>3, <2>4, <2>5 DEF Passed
<1>6. PrunesNoInvariant'
  <2> SUFFICES ASSUME NEW is \in SUBSET Candidates, Inductive(All(is)), NEW k \in is
               PROVE  k \in invs \ not_implied'
    BY <1>1, SameCandidates DEF PrunesNoInvariant
  <2>1. is \subseteq invs \ not_implied
    BY <1>1 DEF PrunesNoInvariant
  <2>2. ASSUME NEW t \in Refutations(i) PROVE t[2] \in Inv(k)
    <3>1. t \in next /\ t[2] \in States /\ t[1] \in All(is)
      BY <2>1 DEF Refutations, StepsIn, All
    <3>2. t[2] \in All(is)
      BY <3>1 DEF Inductive, Post, StepsIn, All
    <3> QED BY <3>2 DEF All
  <2> QED BY <1>2, <2>1, <2>2
<1> QED BY <1>3, <1>4, <1>5, <1>6 DEF IInv

(* The fixed point: every candidate left was checked and none refuted.     *)
LEMMA InferredInv == ASSUME IInv, Inferred PROVE IInv'
<1>1. /\ TypeOK /\ InProof /\ Passed /\ InferredInductive
      /\ pc = "iterate" /\ Finish(1 \notin invs) /\ UNCHANGED module
      /\ todo = {} /\ asking = {} /\ ~unknown /\ not_implied = {}
      /\ inferred' = IF 1 \in invs THEN [inferred EXCEPT ![current] = invs] ELSE inferred
  BY DEF Inferred, Checked, IInv
<1>2. /\ current <= NumProofs /\ current \in 1 .. NumProofs
      /\ invs \in SUBSET Candidates /\ Candidates = DOMAIN proofs[current] /\ Candidates \subseteq Nat
      /\ \A i \in Candidates : Inv(i) \in SUBSET States
  BY <1>1, CandidatesOK DEF InProof
<1>3. Inductive(All(invs))
  <2>1. \A i \in invs : Refutations(i) = {}
    BY <1>1 DEF Passed
  <2>2. ASSUME NEW t \in StepsIn(All(invs), States) PROVE t[2] \in All(invs)
    BY <2>1 DEF Refutations, StepsIn, All
  <2> QED BY <1>1, <2>2 DEF Inductive, Passed, Post
<1>4. 1 \in invs => Reachable \subseteq Inv(1)
  <2>1. init \cap axioms \subseteq All(invs)
    BY <1>3 DEF Inductive
  <2>2. ASSUME NEW t \in next, t[1] \in Reachable \cap All(invs), t[2] \in Reachable
        PROVE  t[2] \in All(invs)
    BY <1>1, <1>3, <2>2 DEF Inductive, Post, StepsIn, TypeOK
  <2>3. Reachable \subseteq All(invs)
    BY <1>1, <2>1, <2>2, ReachableWithin
  <2> QED BY <2>3 DEF All
<1>5. inferred' \in [1 .. NumProofs -> SUBSET Nat]
  BY <1>1, <1>2 DEF TypeOK
<1>6. TypeOK' /\ InProof' /\ Passed' /\ PrunesNoInvariant' /\ AssumedReachable' /\ Proved'
  BY <1>1, <1>2, <1>4, <1>5, FinishInv
<1>7. InferredInductive'
  <2> SUFFICES ASSUME NEW i \in 1 .. NumProofs, inferred'[i] # {}
               PROVE  /\ 1 \in inferred'[i]
                      /\ Inductive({s \in States : \A j \in inferred'[i] : s \in proofs[i][j]})
    BY <1>1 DEF InferredInductive, Inductive, Post, StepsIn, module
  <2>1. CASE i = current /\ 1 \in invs
    <3>1. inferred'[i] = invs
      BY <1>1, <2>1 DEF TypeOK
    <3>2. All(invs) = {s \in States : \A j \in invs : s \in proofs[i][j]}
      BY <2>1 DEF All, Inv
    <3> QED BY <1>3, <2>1, <3>1, <3>2
  <2>2. CASE ~(i = current /\ 1 \in invs)
    <3>1. inferred'[i] = inferred[i]
      BY <1>1, <2>2 DEF TypeOK
    <3> QED BY <1>1, <3>1 DEF InferredInductive
  <2> QED BY <2>1, <2>2
<1> QED BY <1>6, <1>7 DEF IInv

----------------------------------------------------------------------------
LEMMA StepInv == IInv /\ [Next]_vars => IInv'
<1> SUFFICES ASSUME IInv, [Next]_vars PROVE IInv'
  OBVIOUS
<1>1. CASE Begin
  BY <1>1, BeginInv
<1>2. CASE Done
  BY <1>2, DoneInv
<1>3. CASE CheckInvariant
  BY <1>3, CheckInvariantInv
<1>4. CASE InitiationModel
  BY <1>4, InitiationModelInv
<1>5. CASE InitiationUnknown
  BY <1>5, InferFailsInv DEF InitiationUnknown
<1>6. CASE InitiationDone
  BY <1>6, InitiationDoneInv
<1>7. CASE \E i \in Candidates : StartCheck(i) \/ AnswerCheck(i)
  BY <1>7, StartCheckInv, AnswerCheckInv
<1>8. CASE IterationUnknown
  BY <1>8, InferFailsInv DEF IterationUnknown, Checked
<1>9. CASE Prune
  BY <1>9, PruneInv
<1>10. CASE Inferred
  BY <1>10, InferredInv
<1>11. CASE UNCHANGED vars
  <2>1. UNCHANGED <<module, current, assumed, errors, inferred, pc, invs, not_implied, todo, asking, unknown>>
    BY <1>11 DEF vars, houdini
  <2>2. TypeOK' /\ InferredInductive' /\ AssumedReachable' /\ Proved'
    BY <2>1, SameProof DEF IInv, TypeOK
  <2>3. \A j : Refutations(j)' = Refutations(j)
    BY <2>1, SameCandidates DEF Refutations, StepsIn, module
  <2>4. InProof' /\ Passed' /\ PrunesNoInvariant'
    BY <2>1, <2>3, SameCandidates DEF IInv, InProof, Passed, PrunesNoInvariant, module
  <2> QED BY <2>2, <2>4 DEF IInv
<1> QED
  BY <1>1, <1>2, <1>3, <1>4, <1>5, <1>6, <1>7, <1>8, <1>9, <1>10, <1>11 DEF Next

LEMMA Invariance == Spec => []IInv
BY InitInv, StepInv, PTL DEF Spec

(* An assertion for which no failure is reported holds in every reachable  *)
(* state: with verify_module when none is reported at all, although each   *)
(* assertion is checked on the assumption of those before it.              *)
THEOREM Soundness == Spec => []OkMeansSafe
<1>1. IInv => OkMeansSafe
  <2> SUFFICES ASSUME IInv, pc = "done", NEW i \in 1 .. NumProofs,
                      errors = {} \/ (mode = "infer" /\ i \notin errors)
               PROVE  Reachable \subseteq proofs[i][1]
    BY DEF OkMeansSafe
  <2>1. i \in 1 .. current - 1
    BY AssertionsAssumption DEF IInv, InProof
  <2> QED BY <2>1 DEF IInv, Proved
<1> QED BY <1>1, Invariance, PTL

(* What Houdini returns is inductive and has the assertion in it.          *)
THEOREM InductiveResult == Spec => []InferredInductive
<1>1. IInv => InferredInductive
  BY DEF IInv
<1> QED BY <1>1, Invariance, PTL

(* No schedule of the parallel checks, and no choice of counterexamples,   *)
(* prunes a candidate that belongs to an inductive set of them.            *)
THEOREM LargestResult == Spec => []PrunesNoInvariant
<1>1. IInv => PrunesNoInvariant
  BY DEF IInv
<1> QED BY <1>1, Invariance, PTL
=============================================================================
